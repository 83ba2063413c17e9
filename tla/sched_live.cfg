CONSTANTS
    Tasks = {t1, t2}
    Boot = {t1}
    Idle = Idle
    NULL = NULL
    UserPrios = {120}
    Word = 5
    Timeslice = 1
    MaxTimeslice = 1
    Seconds = {2}
    HZ = 1
    Sleeps = {"INTERRUPTIBLE"}
    Stress = {}
SPECIFICATION FairSpec
PROPERTIES
    MagicEnds
    WokenMagicReturns
