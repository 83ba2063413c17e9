CONSTANTS
    Procs = {p1, p2, p3}
    Secrets = {a, b, c}
    Powers <- MCPowers
    Sizes = {1, 2}
    FullHealth = 1
    IntWord = 4
    MaxStolen = 2
    NULL = NULL
    Worlds <- MCWorlds
SPECIFICATION Spec
SYMMETRY Symmetry
CHECK_DEADLOCK FALSE
INVARIANTS
    NoSecretTwice
    ListsTellRobberies
    ListingStaysTrue
    BreaksOnlyThen
    ProcessesCounted
PROPERTIES
    DeathIsFinal
