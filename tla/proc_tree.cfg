CONSTANTS
    Tasks = {init, a, b, c}
    child_reaper = init
    NULL = NULL
    Options <- MCOptions
    CloneFlags <- MCFlags
    Catchers = {init}
    MaxForks = 3
    Stress = {}
SPECIFICATION Spec
SYMMETRY Symmetry
INVARIANTS
    LinksAgree
    ParentsAlive
    Rooted
    NoDeathMissed
    CompletionOnStack
    NotReleasedTwice
    InitCanReap
