CONSTANTS
    Threads = {t1, t2}
    Idle = idle
    None = none
    M = 3
SPECIFICATION FairSpec
PROPERTIES
    EveryRequestGranted
    RunnableRuns
