CONSTANTS
    Threads = {main, c1, c2}
    Main = main
    None = none
    Failures = {"pages", "malloc", "fork"}
    MaxStacks = 2
SPECIFICATION FairSpec
CHECK_DEADLOCK FALSE
INVARIANTS
    Consistent
    NoUseAfterFree
    StacksExclusive
PROPERTY
    JoinReturns
