CONSTANTS
    Readers = {t1, t2}
    Other = idle
    Nil = none
    Size = 2
    LineSize = 2
    MaxKeys = 4
    Kinds = {"char", "newline", "backspace"}
SPECIFICATION KbdSpec
SYMMETRY Symmetry
CHECK_DEADLOCK FALSE
INVARIANTS
    KbdConsistent
    
