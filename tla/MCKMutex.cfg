CONSTANTS
    Threads = {t1, t2, t3}
    Idle = idle
    None = none
    M = 4
SPECIFICATION Spec
SYMMETRY Symmetry
INVARIANTS
    Consistent
    Exclusive
    NoLostWaiter
PROPERTY
    GrantsInTicketOrder
