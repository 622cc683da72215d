CONSTANTS
    Threads = {t1, t2, t3}
    Idle = idle
    None = none
SPECIFICATION Spec
SYMMETRY Symmetry
INVARIANTS
    Consistent
    SleepersReachable
PROPERTY
    ImplementsCondVar
