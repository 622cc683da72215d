CONSTANTS
    Threads = {t1, t2}
    Idle = idle
    None = none
    W = 5
    SleepArgs <- Args
SPECIFICATION FairSleepSpec
INVARIANTS
    SleepConsistent
    NeverEarly
PROPERTIES
    TickWakesAllDue
    EverySleeperReturns
