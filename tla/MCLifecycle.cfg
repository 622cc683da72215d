CONSTANTS
    Tasks = {init, k1, k2, k3}
    Threads = {i0, t1, t2, t3, t4}
    InitTask = init
    InitThread = i0
    None = none
    Failures = {"mini", "copy", "exec"}
SPECIFICATION Spec
SYMMETRY Symmetry
CHECK_DEADLOCK FALSE
INVARIANTS
    Consistent
    NoUseAfterFree
    NothingLeaks
    NoDeathUnnoticed
    NoLockCycle
