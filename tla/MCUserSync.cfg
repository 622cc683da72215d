CONSTANTS
    Threads = {t1, t2, t3}
    None = none
    Trampled = trampled
    Permits = 2
SPECIFICATION FairSpec
CHECK_DEADLOCK FALSE
INVARIANTS
    Consistent
    Exclusive
    NoLostWaiter
PROPERTIES
    GrantsInTicketOrder
    ImplementsPromises
    EveryRequestServed
