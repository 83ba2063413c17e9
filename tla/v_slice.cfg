CONSTANTS
    Tasks = {t1, t2}
    Boot = {t1, t2}
    Idle = Idle
    NULL = NULL
    UserPrios = {120}
    Word = 5
    Timeslice = 2
    MaxTimeslice = 2
    Seconds = {2}
    HZ = 1
    Sleeps = {"INTERRUPTIBLE", "UNINTERRUPTIBLE", "STOPPED"}
    Stress = {}
SPECIFICATION Spec
INVARIANTS
    SliceBounded
