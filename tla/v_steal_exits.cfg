CONSTANTS
    Procs = {p1, p2, p3}
    Secrets = {a, b}
    Powers <- MCOnePower
    Sizes = {0, 2}
    FullHealth = 1
    IntWord = 8
    MaxStolen = 3
    NULL = NULL
    Worlds <- MCDeadTarget
SPECIFICATION Spec
SYMMETRY Symmetry
CHECK_DEADLOCK FALSE
PROPERTIES
    StolenIsTargets
