CONSTANTS
    Threads = {t1, t2}
    Idle = idle
    None = none
    List = list
    MaxTid = 4
SPECIFICATION FairSpec
CHECK_DEADLOCK FALSE
INVARIANTS
    Consistent
    NoLostWakeup
    GoneIsAlone
    WakesOnlyDescheduled
PROPERTIES
    PostedWaiterRuns
