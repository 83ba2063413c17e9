CONSTANTS
    Procs = {p1, p2}
    Minors = {m1}
    Bufs = {b1, b2}
    NULL = NULL
    Chars = {"a", "b", "c"}
    Strings <- MCStrings
    Counts = {2}
    Shifts <- MCShifts
    MaxSize = 2
    IntWord = 16
    Worlds <- MCNoString
SPECIFICATION FairSpec
CHECK_DEADLOCK FALSE
PROPERTIES
    CallsReturn
