CONSTANTS
    Procs = {p1, p2}
    Minors = {m1}
    Bufs = {b1, b2}
    NULL = NULL
    Chars = {"a", "b", "c"}
    Strings <- MCStrings
    Counts = {1, 3}
    Shifts <- MCShifts
    MaxSize = 3
    IntWord = 16
    Worlds <- MCCalm
SPECIFICATION FairSpec
PROPERTIES
    ImplementsDevice
    CallsReturn
