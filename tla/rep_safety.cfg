CONSTANTS
    Procs = {p1, p2}
    Minors = {m1, m2}
    Bufs = {b1, b2, b3}
    NULL = NULL
    Chars = {"a", "b", "c"}
    Strings <- MCTwoStrings
    Counts = {1, 2}
    Shifts <- MCShifts
    MaxSize = 2
    IntWord = 16
    Worlds <- MCWorlds
SPECIFICATION Spec
SYMMETRY Symmetry
CHECK_DEADLOCK FALSE
INVARIANTS
    NotBroken
    HeapOwned
    NoStringNoSize
PROPERTIES
    MinorsIndependent
