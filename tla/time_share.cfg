CONSTANTS
    Tasks = {t1, t2, t3}
    Idle = Idle
    Nices <- MCNices
    RtPriorities = {1}
    MAX_SLEEP_AVG = 2
    STARVATION_LIMIT = 1
    MIN_TIMESLICE = 1
    MAX_TIMESLICE = 2
    Worlds <- MCWorlds
SPECIFICATION FairSpec
INVARIANTS
    TypeOK
    BestRuns
    NiceWins
PROPERTIES
    YieldGivesWay
    NoStarvation
