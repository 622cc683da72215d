CONSTANTS
    Callers = {t1, t2}
    Nobody = none
    Height = 2
    Width = 2
    Chars = {"a"}
    Colors = {"gray", "red"}
SPECIFICATION ConsoleSpec
SYMMETRY Symmetry

    
PROPERTY
    WorksAsPromised
