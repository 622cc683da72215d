CONSTANTS
    Spaces = {s1, s2}
    Users = {t1, t2}
    Frames = {f1, f2, f3, f4, f5}
    Nil = none
    Zfod = zfod
    NumPages = 4
    TomeSize = 2
    NewRegions <- WithinTome
    SharePages = TRUE
SPECIFICATION VMSpec
SYMMETRY Symmetry
CHECK_DEADLOCK FALSE
PROPERTIES
    BackedPageKeepsFrame
