CONSTANTS
    Tasks = {t1, t2, t3}
    Boot = t1
    PidMax = 6
    Daemons = 2
    MaxThreads = 3
    NULL = NULL
    Stress = {}
SPECIFICATION FairSpec
INVARIANTS
    Inductive
    PidsUnique
PROPERTIES
    FreshPid
    GetPidReturns
