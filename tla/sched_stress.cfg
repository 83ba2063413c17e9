CONSTANTS
    Tasks = {t1, t2}
    Boot = {t1, t2}
    Idle = Idle
    NULL = NULL
    UserPrios = {120}
    Word = 5
    Timeslice = 2
    MaxTimeslice = 2
    Seconds = {0, 2}
    HZ = 1
    Sleeps = {"INTERRUPTIBLE", "UNINTERRUPTIBLE", "STOPPED"}
    Stress = {"uninterruptible", "exit_before_start", "tick_before_resched", "fork_without_slice", "recall_same_jiffy"}
SPECIFICATION Spec
SYMMETRY Symmetry
CHECK_DEADLOCK FALSE
INVARIANTS
    Inductive
    ExclusiveCPU
    MagicGlobalsAgree
    IdleWhileAsleep
    QueueVisible
