----------------------------- MODULE MagicSched -----------------------------
(***************************************************************************)
(* The scheduler of the second homework: the O(1) scheduler of 2.4.18-14   *)
(* with the magic clock, by which a process asks to own the CPU for some   *)
(* time.  The kernel is built for one processor without preemption, so a   *)
(* system call runs alone until it calls schedule(), and the timer tick    *)
(* and wakeups from interrupts come between any two of its steps.          *)
(***************************************************************************)
EXTENDS RunQueue

CONSTANTS
    Boot,       \* the tasks that exist at the start
    Seconds,    \* the arguments sys_magic_clock() is called with
    HZ,         \* jiffies per second
    Sleeps,     \* the sleeping states that processes use
    Stress      \* the situations below that the environment produces

\* Situations the magic clock code does not expect.  A run leaves one out to
\* ask what holds without it.
Situations == {
    "uninterruptible",     \* a process with magic time sleeps in a state other than INTERRUPTIBLE
    "exit_before_start",   \* a process exits after magic_clock() and before its next schedule()
    "tick_before_resched", \* a tick falls between the magic process's wakeup and idle's schedule()
    "fork_without_slice",  \* a process forks with an empty timeslice
    "recall_same_jiffy",   \* the magic process calls magic_clock() twice in a jiffy
    "cancel_same_jiffy"}   \* and the second call is magic_clock(0)

ASSUME ClockAssumption == /\ HZ \in Nat \ {0}
                          /\ Seconds \subseteq Nat
                          /\ Sleeps \subseteq {"INTERRUPTIBLE", "UNINTERRUPTIBLE", "STOPPED"}
                          /\ Stress \subseteq Situations
                          /\ Boot \subseteq Tasks /\ Boot # {}

VARIABLE k      \* the scheduling state of the kernel

MagicPrio == 50

AfterMagicPrio == 130

\* An unsigned int stored in an int.
ToInt(u) == IF 2 * u < Word THEN u ELSE u - Word

-----------------------------------------------------------------------------
(* The magic clock.  jiffies itself is not kept: called[p] says that         *)
(* p->magic_call_time is the present jiffy, call_seen that                   *)
(* global_magic_call_time equals the magic process's magic_call_time.        *)

\* Mutant: the priority of a queued task is changed in place.
M_start_magic_in_place(s) ==
    LET p == s.curr
    IN  [s EXCEPT !.prio[p] = MagicPrio,
                  !.magicProcess = p,
                  !.started_magic[p] = 1,
                  !.time_slice[p] = s.magic_time[p],
                  !.MAGICTIME = ToInt(s.magic_time[p]),
                  !.call_seen = 1]

start_magic(s) ==
    LET p == s.curr
    IN  [requeue(s, p, MagicPrio) EXCEPT
            !.magicProcess = p,
            !.started_magic[p] = 1,
            !.time_slice[p] = s.magic_time[p],
            !.MAGICTIME = ToInt(s.magic_time[p]),
            !.call_seen = 1]

\* Mutant: a repeated call only extends the time.
M_update_magic_extends(s) ==
    LET new == ToInt(s.magic_time[s.magicProcess])
    IN  [s EXCEPT !.MAGICTIME = IF new > @ THEN new ELSE @, !.call_seen = 1]

update_magic(s) ==
    [s EXCEPT !.MAGICTIME = ToInt(s.magic_time[s.magicProcess]), !.call_seen = 1]

\* Mutant: the magic process is always requeued, asleep or not.
M_exit_requeues_sleeper(s) ==
    LET m == s.magicProcess
    IN  [requeue(s, m, AfterMagicPrio) EXCEPT
            !.idle_from_magic = 0, !.magic_sleep_flag = 0, !.started_magic[m] = 0,
            !.magic_time[m] = 0, !.time_slice[m] = 0, !.called[m] = 0,
            !.magicProcess = NULL, !.MAGICTIME = 0]

\* Mutant: started_magic survives.
M_exit_keeps_started(s) ==
    LET m == s.magicProcess
        q == IF s.magic_sleep_flag = 0 THEN requeue(s, m, AfterMagicPrio)
             ELSE [s EXCEPT !.prio[m] = AfterMagicPrio]
    IN  [q EXCEPT
            !.idle_from_magic = 0, !.magic_sleep_flag = 0,
            !.magic_time[m] = 0, !.time_slice[m] = 0, !.called[m] = 0,
            !.magicProcess = NULL, !.MAGICTIME = 0]

\* Mutant: a magic process that sleeps keeps its priority.
M_exit_keeps_prio(s) ==
    LET m == s.magicProcess
        q == IF s.magic_sleep_flag = 0 THEN requeue(s, m, AfterMagicPrio) ELSE s
    IN  [q EXCEPT
            !.idle_from_magic = 0, !.magic_sleep_flag = 0, !.started_magic[m] = 0,
            !.magic_time[m] = 0, !.time_slice[m] = 0, !.called[m] = 0,
            !.magicProcess = NULL, !.MAGICTIME = 0]

\* The priority that is lowered is current's, the task that is requeued the
\* magic process.
exit_from_magic(s) ==
    LET m == s.magicProcess
        a == s.array[m]
        q == IF s.magic_sleep_flag = 0
             THEN enqueue_task([dequeue_task(s, m, a) EXCEPT !.prio[s.curr] = AfterMagicPrio], m, a)
             ELSE [s EXCEPT !.prio[m] = AfterMagicPrio]
    IN  [q EXCEPT
            !.idle_from_magic = 0,
            !.magic_sleep_flag = 0,
            !.started_magic[m] = 0,
            !.magic_time[m] = 0,
            !.time_slice[m] = 0,
            !.called[m] = 0,
            !.magicProcess = NULL,
            !.MAGICTIME = 0]

\* Mutant: the time stands still while the magic process sleeps.
M_tick_not_when_idle(s) ==
    LET d == [s EXCEPT !.MAGICTIME = @ - 1]
    IN  IF s.MAGICTIME <= 0 \/ s.curr = Idle THEN s
        ELSE IF d.MAGICTIME = 0 THEN set_tsk_need_resched(exit_from_magic(d), s.curr)
        ELSE d

\* Mutant: magic is not ended in the tick that finds its process asleep.
M_tick_spares_sleeper(s) ==
    LET d == [s EXCEPT !.MAGICTIME = @ - 1]
    IN  IF s.MAGICTIME <= 0 THEN s
        ELSE IF d.MAGICTIME = 0 /\ s.magic_sleep_flag = 0
        THEN set_tsk_need_resched(exit_from_magic(d), s.curr)
        ELSE d

magic_tick(s) ==
    LET d == [s EXCEPT !.MAGICTIME = @ - 1]
    IN  IF s.MAGICTIME <= 0 THEN s
        ELSE IF d.MAGICTIME = 0 THEN set_tsk_need_resched(exit_from_magic(d), s.curr)
        ELSE d

\* e is effective_prio(p); a is the array chosen by TASK_INTERACTIVE and
\* EXPIRED_STARVING.  No task has policy SCHED_RR.
expire_task(s, p, e, a) ==
    LET d == [dequeue_task(s, p, "active") EXCEPT !.need_resched[p] = 1,
                                                  !.prio[p] = e,
                                                  !.first_time_slice[p] = 0,
                                                  !.time_slice[p] = Timeslice]
    IN  enqueue_task(d, p, a)

scheduler_tick(s, e, a) ==
    LET m == magic_tick(s)
        p == s.curr
        c == [m EXCEPT !.time_slice[p] = (@ - 1) % Word]
    IN  IF p = Idle THEN m
        ELSE IF m.array[p] # "active" THEN set_tsk_need_resched(m, p)
        ELSE IF rt_task(m, p) THEN m
        ELSE IF c.time_slice[p] = 0 THEN expire_task(c, p, e, a)
        ELSE c

-----------------------------------------------------------------------------
(* schedule().  Its value is the set of states it may leave behind.          *)

switch_tasks(s, next) ==
    IF next = NULL THEN Oops(s)
    ELSE [s EXCEPT !.need_resched[s.curr] = 0, !.curr = next]

\* rq->active and rq->expired change roles.
switch_arrays(s) ==
    [s EXCEPT !.array = [p \in All |-> CASE s.array[p] = "active" -> "expired"
                                         [] s.array[p] = "expired" -> "active"
                                         [] OTHER -> "null"],
              !.bitmap = [a \in Arrays |-> s.bitmap[IF a = "active" THEN "expired" ELSE "active"]],
              !.nr_active = [a \in Arrays |-> s.nr_active[IF a = "active" THEN "expired" ELSE "active"]]]

\* next is the head of the first list whose bit is set; there is no such task
\* when no bit is set or that list is empty.
pick_next_task(s) ==
    LET r == IF s.nr_active["active"] = 0 THEN switch_arrays(s) ELSE s
        firsts == {i \in r.bitmap["active"] : \A j \in r.bitmap["active"] : i <= j}
        heads == UNION {queue(r, "active", i) : i \in firsts}
    IN  IF s.nr_running = 0 THEN {switch_tasks(s, Idle)}
        ELSE IF heads = {} THEN {Oops(s)}
        ELSE {switch_tasks(r, next) : next \in heads}

\* Lines 933-957: take over a new call, and end the magic of a process that
\* died or has no time left.
magic_segment(s) ==
    LET u == IF s.call_seen = 0 THEN update_magic(s) ELSE s
    IN  IF s.magicProcess = NULL THEN s
        ELSE IF u.state[u.magicProcess] = "ZOMBIE" \/ u.MAGICTIME = 0 THEN exit_from_magic(u)
        ELSE u

\* Mutant: idle_from_magic is not reset when the magic process returns.
M_idle_flag_kept(s) ==
    IF s.state[s.magicProcess] = "RUNNING"
    THEN switch_tasks([s EXCEPT !.magic_sleep_flag = 0], s.magicProcess)
    ELSE switch_tasks(s, Idle)

\* Mutant: idle goes on although the magic process was woken.
M_idle_stays(s) == switch_tasks(s, Idle)

\* The cases of "switch (magicProcess->state)" that choose the next task.
idle_magic_switch(s) ==
    IF s.state[s.magicProcess] = "RUNNING"
    THEN switch_tasks([s EXCEPT !.idle_from_magic = 0, !.magic_sleep_flag = 0], s.magicProcess)
    ELSE switch_tasks(s, Idle)

\* Mutant: the sleeping magic process stays on the run queue.
M_sleeps_on_queue(s) ==
    LET b == IF s.started_magic[s.curr] = 0 THEN start_magic(s) ELSE s
    IN  switch_tasks([b EXCEPT !.idle_from_magic = 1, !.magic_sleep_flag = 1], Idle)

magic_goes_to_sleep(s) ==
    LET b == IF s.started_magic[s.curr] = 0 THEN start_magic(s) ELSE s
    IN  switch_tasks(deactivate_task([b EXCEPT !.idle_from_magic = 1, !.magic_sleep_flag = 1], s.curr),
                     Idle)

\* Mutant: a running magic process is not kept on the CPU.
M_running_not_caught(s) == pick_next_task(s)

\* The code at "case TASK_RUNNING:" and below it.
running_case(s) ==
    LET b == IF s.started_magic[s.curr] = 0 THEN start_magic(s) ELSE s
    IN  IF s.magic_time[s.curr] > 0 THEN {switch_tasks(b, b.magicProcess)}
        ELSE pick_next_task(s)

prev_state_switch(s) ==
    LET prev == s.curr
    IN  CASE s.state[prev] = "RUNNING" -> running_case(s)
          [] s.state[prev] = "INTERRUPTIBLE" /\ s.magic_time[prev] > 0 -> {magic_goes_to_sleep(s)}
          [] s.state[prev] = "INTERRUPTIBLE" /\ s.magic_time[prev] = 0 /\ s.sigpending[prev] = 1 ->
                pick_next_task([s EXCEPT !.state[prev] = "RUNNING"])
          [] OTHER -> running_case(deactivate_task(s, prev))

schedule(s) ==
    LET g == magic_segment(s)
    IN  IF /\ g.magicProcess # NULL
           /\ g.idle_from_magic = 1
           /\ g.state[g.magicProcess] \in {"RUNNING", "INTERRUPTIBLE"}
        THEN {idle_magic_switch(g)}
        ELSE prev_state_switch(g)

-----------------------------------------------------------------------------
(* Actions.  After an oops nothing more is said about the machine.           *)

Become(s) == k' = IF s.oops = 1 THEN Oops(k) ELSE s

Init ==
    \E first \in Boot :
      LET i == CHOOSE e \in UserPrios : TRUE
      IN  k = [curr |-> first,
               state |-> [p \in All |-> IF p \in Boot \cup {Idle} THEN "RUNNING" ELSE "UNUSED"],
               prio |-> [p \in All |-> IF p \in Boot THEN i ELSE MAX_PRIO],
               array |-> [p \in All |-> IF p \in Boot THEN "active" ELSE "null"],
               run_list |-> [p \in All |-> IF p \in Boot THEN i ELSE Unlinked],
               bitmap |-> [a \in Arrays |-> IF a = "active" THEN {i} ELSE {}],
               nr_active |-> [a \in Arrays |-> IF a = "active" THEN Cardinality(Boot) ELSE 0],
               nr_running |-> Cardinality(Boot),
               time_slice |-> [p \in All |-> IF p \in Boot THEN Timeslice ELSE 0],
               first_time_slice |-> [p \in All |-> 0],
               need_resched |-> [p \in All |-> 0],
               sigpending |-> [p \in All |-> 0],
               holding_wand |-> [p \in All |-> IF p \in Boot THEN 1 ELSE 0],
               magic_time |-> [p \in All |-> 0],
               started_magic |-> [p \in All |-> 0],
               called |-> [p \in All |-> 0],
               magicProcess |-> NULL,
               idle_from_magic |-> 0,
               magic_sleep_flag |-> 0,
               MAGICTIME |-> 0,
               call_seen |-> 1,
               oops |-> 0]

Up == k.oops = 0

\* current is a process in the middle of a system call or in user mode.
InProcess == Up /\ k.curr \in Tasks /\ k.state[k.curr] = "RUNNING"

\* The magic process was woken and idle has not called schedule() since.
WokenMagicWaits == k.idle_from_magic = 1 /\ k.state[k.magicProcess] = "RUNNING"

\* do_timer(): a new jiffy, and scheduler_tick().
Tick ==
    /\ Up
    /\ \/ "tick_before_resched" \in Stress
       \/ ~ WokenMagicWaits
    /\ \E e \in UserPrios, a \in Arrays :
          Become(scheduler_tick([k EXCEPT !.called = [p \in All |-> 0]], e, a))

\* The idle loop calls schedule() after every interrupt, a process when it
\* has set a sleeping state or returns to user mode with need_resched set.
Schedule ==
    /\ Up
    /\ \/ k.curr = Idle
       \/ k.need_resched[k.curr] = 1
       \/ k.state[k.curr] # "RUNNING"
    /\ \E s \in schedule(k) : Become(s)

\* The call recorded for the magic process is one of this jiffy already.
SameJiffy == k.magicProcess = k.curr /\ k.called[k.curr] = 1

sys_magic_clock(sec) ==
    LET p == k.curr
        newjiffies == (sec * HZ) % Word
    IN  /\ InProcess
        /\ k.holding_wand[p] = 1
        /\ SameJiffy => (IF newjiffies = 0 THEN "cancel_same_jiffy" ELSE "recall_same_jiffy") \in Stress
        /\ k' = [k EXCEPT !.magic_time[p] = newjiffies,
                          !.called[p] = 1,
                          !.call_seen = IF p = k.magicProcess /\ ~SameJiffy THEN 0 ELSE @]

\* set_current_state(), before a call of schedule() or after it returned.
set_current_state(new) ==
    /\ Up
    /\ k.curr \in Tasks
    /\ k.state[k.curr] # "ZOMBIE"
    /\ \/ new \in {"RUNNING", "INTERRUPTIBLE"}
       \/ k.magic_time[k.curr] = 0
       \/ "uninterruptible" \in Stress
    /\ k' = [k EXCEPT !.state[k.curr] = new]

Sleeping(p) == k.state[p] \in {"INTERRUPTIBLE", "UNINTERRUPTIBLE", "STOPPED"}

wake_up_process(p) ==
    /\ Up
    /\ Sleeping(p)
    /\ \E e \in UserPrios \cup {k.prio[p]} : Become(try_to_wake_up(k, p, e))

\* signal_wake_up() on delivery of a signal.
Signal(p) ==
    LET t == [k EXCEPT !.sigpending[p] = 1]
    IN  /\ Up
        /\ k.state[p] \notin {"ZOMBIE", "UNUSED"}
        /\ \E e \in UserPrios \cup {k.prio[p]} :
              Become(IF k.state[p] = "INTERRUPTIBLE" THEN try_to_wake_up(t, p, e) ELSE t)

\* do_signal() on return to user mode.
TakeSignal ==
    /\ InProcess
    /\ k.sigpending[k.curr] = 1
    /\ k' = [k EXCEPT !.sigpending[k.curr] = 0]

\* The child starts as a copy of its parent and shares its timeslice; a
\* parent with one jiffy left is charged a tick on the spot.
do_fork(c) ==
    LET p == k.curr
        slice == k.time_slice[p]
        copy == [k EXCEPT !.prio[c] = k.prio[p],
                          !.need_resched[c] = k.need_resched[p],
                          !.time_slice[c] = (slice + 1) \div 2,
                          !.first_time_slice[c] = 1]
    IN  /\ InProcess
        /\ k.state[c] = "UNUSED"
        /\ slice # 0 \/ "fork_without_slice" \in Stress
        /\ \E e \in UserPrios, f \in UserPrios, a \in Arrays :
             LET s == IF slice = 1 THEN scheduler_tick(copy, e, a)
                      ELSE [copy EXCEPT !.time_slice[p] = slice \div 2]
             IN  Become(IF slice = 0 THEN Oops(k)
                        ELSE set_tsk_need_resched(wake_up_forked_process(s, c, f), p))

\* A parent in sys_wait4() is woken, another one sees SIGCHLD if it catches it.
do_notify_parent(s, par, e) ==
    IF s.state[par] = "INTERRUPTIBLE" THEN try_to_wake_up(s, par, e) ELSE s

do_exit ==
    LET z == [k EXCEPT !.state[k.curr] = "ZOMBIE"]
    IN  /\ InProcess
        /\ \/ k.magic_time[k.curr] = 0
           \/ k.started_magic[k.curr] = 1
           \/ "exit_before_start" \in Stress
        /\ \E par \in Tasks \cup {NULL} :
             IF par = NULL THEN k' = z
             ELSE \E e \in UserPrios \cup {k.prio[par]}, sig \in {k.sigpending[par], 1} :
                    /\ k.state[par] \notin {"ZOMBIE", "UNUSED"}
                    /\ Become([do_notify_parent(z, par, e) EXCEPT !.sigpending[par] = sig])

\* The task_struct is freed; what it held is forgotten.
release_task(s, z) ==
    [sched_exit(s, z) EXCEPT !.state[z] = "UNUSED",
                             !.prio[z] = MAX_PRIO,
                             !.time_slice[z] = 0,
                             !.first_time_slice[z] = 0,
                             !.need_resched[z] = 0,
                             !.sigpending[z] = 0,
                             !.holding_wand[z] = 0,
                             !.magic_time[z] = 0,
                             !.started_magic[z] = 0,
                             !.called[z] = 0]

\* A call that finds the zombie child z; one that finds none is a
\* set_current_state("INTERRUPTIBLE") followed by schedule().
sys_wait4(z) ==
    /\ InProcess
    /\ k.state[z] = "ZOMBIE"
    /\ k' = release_task(k, z)

\* The requeueing part of sys_sched_yield(): current moves behind the tasks
\* of its priority, or down to the next priority in use when it has none.
yield_requeue(s) ==
    LET p == s.curr
        a == s.array[p]
        rest == s.bitmap[a] \ {s.prio[p]}
        next == {i \in rest : \A j \in rest : i <= j}
        lower == {i \in next : i > s.prio[p]}
        i == IF lower = {} THEN s.prio[p] ELSE CHOOSE j \in lower : TRUE
    IN  IF a = "null" THEN Oops(s)
        ELSE IF rt_task(s, p) \/ ~(queue(s, a, s.prio[p]) \subseteq {p})
             THEN [s EXCEPT !.run_list[p] = s.prio[p]]
        ELSE [s EXCEPT !.run_list[p] = i, !.prio[p] = i, !.bitmap[a] = rest \cup {i}]

sys_sched_yield ==
    /\ InProcess
    /\ IF k.array[k.curr] = "null" THEN Become(Oops(k))
       ELSE \E s \in schedule(yield_requeue(k)) : Become(s)

\* e is NICE_TO_PRIO(nice).  static_prio already has its new value when it
\* is compared with it, so only current's own change asks for a reschedule.
set_user_nice(p, e) ==
    LET r == IF k.array[p] = "null" THEN [k EXCEPT !.prio[p] = e] ELSE requeue(k, p, e)
    IN  /\ InProcess
        /\ k.state[p] \notin {"ZOMBIE", "UNUSED"}
        /\ ~rt_task(k, p)
        /\ Become(IF k.array[p] # "null" /\ p = k.curr THEN set_tsk_need_resched(r, p) ELSE r)

Next ==
    \/ Tick
    \/ Schedule
    \/ \E sec \in Seconds : sys_magic_clock(sec)
    \/ \E new \in Sleeps \cup {"RUNNING"} : set_current_state(new)
    \/ \E p \in Tasks : wake_up_process(p)
    \/ \E p \in Tasks : Signal(p)
    \/ TakeSignal
    \/ \E c \in Tasks : do_fork(c)
    \/ do_exit
    \/ \E z \in Tasks : sys_wait4(z)
    \/ sys_sched_yield
    \/ \E p \in Tasks, e \in UserPrios : set_user_nice(p, e)

Spec == Init /\ [][Next]_k

\* The timer interrupt keeps coming, though not in every state when
\* "tick_before_resched" is left out; the idle loop keeps turning, and a process
\* that has set a sleeping state or must reschedule reaches schedule().
Fairness == SF_k(Tick) /\ WF_k(Schedule)

FairSpec == Spec /\ Fairness

-----------------------------------------------------------------------------
Flag == {0, 1}

KernelState ==
          [curr : All,
           state : [All -> States],
           prio : [All -> 0 .. MAX_PRIO],
           array : [All -> Arrays \cup {"null"}],
           run_list : [All -> 0 .. MAX_PRIO],
           bitmap : [Arrays -> SUBSET (0 .. MAX_PRIO)],
           nr_active : [Arrays -> Int],
           nr_running : Int,
           time_slice : [All -> 0 .. (Word - 1)],
           first_time_slice : [All -> Flag],
           need_resched : [All -> Flag],
           sigpending : [All -> Flag],
           holding_wand : [All -> Flag],
           magic_time : [All -> 0 .. (Word - 1)],
           started_magic : [All -> Flag],
           called : [All -> Flag],
           magicProcess : All \cup {NULL},
           idle_from_magic : Flag,
           magic_sleep_flag : Flag,
           MAGICTIME : Int,
           call_seen : Flag,
           oops : Flag]

TypeOK == k \in KernelState

\* The kernel never follows a null array or an empty list head in schedule(),
\* scheduler_tick() or sys_sched_yield(), and never meets the BUG() of do_fork().
NoOops == k.oops = 0

\* While a magic process exists the CPU runs it or the idle task, never
\* another process: what sys_magic_clock() is for.  It is also what makes
\* "current" in exit_from_magic() the magic process.
ExclusiveCPU ==
    k.magicProcess # NULL => k.curr \in {k.magicProcess, Idle}

\* The timer runs exactly while there is a magic process, so that the
\* exit_from_magic() of scheduler_tick() never finds a null magicProcess, and
\* started_magic marks exactly that process, which still exists.
MagicGlobalsAgree ==
    /\ k.MAGICTIME # 0 <=> k.magicProcess # NULL
    /\ \A p \in All : k.started_magic[p] = 1 <=> p = k.magicProcess
    /\ k.magicProcess # NULL => k.state[k.magicProcess] # "UNUSED"

\* During magic the idle task runs exactly while the magic process sleeps or
\* has just been woken, and the case of schedule() marked "BUG MAGIC NOT
\* SUPPOSED TO REACH THIS" is not reached.
IdleWhileAsleep ==
    k.magicProcess # NULL =>
        /\ k.curr = Idle <=> k.idle_from_magic = 1
        /\ k.idle_from_magic = k.magic_sleep_flag
        /\ k.idle_from_magic = 1 => k.state[k.magicProcess] \in {"RUNNING", "INTERRUPTIBLE"}

\* No queued task is invisible to sched_find_first_bit(): the bit of the list
\* it is linked on is set, whatever start_magic(), exit_from_magic() and
\* sys_sched_yield() did to its priority.
BitmapComplete ==
    \A p \in Tasks : k.array[p] # "null" => k.run_list[p] \in k.bitmap[k.array[p]]

\* The counters that schedule() relies on count the queued tasks.
Accounting ==
    /\ k.nr_running = Cardinality({p \in Tasks : k.array[p] # "null"})
    /\ \A a \in Arrays : k.nr_active[a] = Cardinality({p \in Tasks : k.array[p] = a})

\* What schedule() reads of the run queue tells its tasks, whatever else goes
\* wrong: no queued task lacks its bit, and the counters are right.
QueueVisible == BitmapComplete /\ Accounting

\* A queued task is linked on the list of its own priority, and no bit stands
\* for an empty list.
QueueConsistent ==
    /\ \A p \in Tasks : k.array[p] # "null" => k.run_list[p] = k.prio[p]
    /\ \A a \in Arrays : \A i \in k.bitmap[a] : queue(k, a, i) # {}

\* current is on the run queue, as the comment of try_to_wake_up() says.
CurrentQueued == Up /\ k.curr \in Tasks => k.array[k.curr] # "null"

\* Apart from current, the tasks on the run queue are the runnable ones: no
\* wakeup is lost, no sleeper is picked.
RunnableIffQueued ==
    /\ CurrentQueued
    /\ \A p \in Tasks \ {k.curr} : k.state[p] = "RUNNING" <=> k.array[p] # "null"

\* The priority of a task that exists becomes a real-time one only when its
\* magic starts, and is none any more when its magic ends, however it ends.
\* (A child that the magic process forks does start with priority 50.)
PriorityFollowsMagic ==
    [][\A p \in Tasks :
          /\ ~rt_task(k, p) /\ rt_task(k', p) /\ k.state[p] # "UNUSED" => k'.magicProcess = p
          /\ k.magicProcess = p /\ k'.magicProcess # p => ~rt_task(k', p)]_k

\* When schedule() returns, the timer grants no more than the magic process's
\* last sys_magic_clock() call asked for: "Called when a magic process calls
\* sys_magic_clock more than once. Updates timer".
TimerWithinRequest ==
    [][(Schedule \/ sys_sched_yield) /\ k'.magicProcess # NULL
          => k'.MAGICTIME <= k'.magic_time[k'.magicProcess]]_k

\* Calls of sys_magic_clock() stop.
CallsStop == <>[][\A p \in Tasks : k'.called[p] <= k.called[p]]_k

\* Magic ends, provided the magic process stops asking for more: "exclusive CPU
\* access for "seconds" seconds", not for ever, even if it sleeps throughout.
MagicEnds == CallsStop => (k.magicProcess # NULL ~> k.magicProcess = NULL)

\* A magic process woken from its sleep gets the CPU back from the idle task,
\* unless its time runs out first.
WokenMagicReturns == WokenMagicWaits ~> k.idle_from_magic = 0

-----------------------------------------------------------------------------
(* The invariant by which ExclusiveCPU, MagicGlobalsAgree and                *)
(* IdleWhileAsleep are proved, as a predicate of any scheduling state.       *)

\* The idle task never sleeps and never asks for magic time.
IdleInert(s) ==
    /\ s.state[Idle] = "RUNNING" /\ s.array[Idle] = "null"
    /\ s.magic_time[Idle] = 0 /\ s.holding_wand[Idle] = 0

\* Magic time that schedule() has not seen belongs to current.
PendingIsCurrent(s) ==
    \A p \in All : s.magic_time[p] > 0 /\ s.started_magic[p] = 0 => p = s.curr

\* A free task_struct is on no queue, nor is a zombie that left the CPU.
DeadNotQueued(s) ==
    /\ s.state[s.curr] # "UNUSED"
    /\ \A p \in All : s.state[p] = "UNUSED" => s.array[p] = "null"
    /\ \A p \in All : s.state[p] = "ZOMBIE" /\ p # s.curr => s.array[p] = "null"

\* The globals when there is no magic process.
NoMagic(s) ==
    s.magicProcess = NULL =>
        /\ s.MAGICTIME = 0 /\ s.idle_from_magic = 0 /\ s.magic_sleep_flag = 0
        /\ \A p \in All : s.started_magic[p] = 0

\* The globals when there is one.  Only a call that schedule() has not seen
\* can have set its magic time to zero.
SomeMagic(s) ==
    s.magicProcess # NULL =>
        /\ s.MAGICTIME # 0
        /\ \A p \in All : s.started_magic[p] = 1 <=> p = s.magicProcess
        /\ s.magic_time[s.magicProcess] = 0 => s.call_seen = 0
        /\ s.idle_from_magic = s.magic_sleep_flag
        /\ s.idle_from_magic = 0 => s.curr = s.magicProcess
        /\ s.idle_from_magic = 1 => s.curr = Idle
        /\ s.idle_from_magic = 1 => s.state[s.magicProcess] \in {"RUNNING", "INTERRUPTIBLE"}
        /\ s.magicProcess # Idle

SchedInv(s) ==
    /\ s \in KernelState
    /\ IdleInert(s) /\ PendingIsCurrent(s) /\ DeadNotQueued(s)
    /\ NoMagic(s) /\ SomeMagic(s)

\* The inductive invariant of the scheduler: magic time waiting to start is
\* current's, the globals of the magic clock agree with each other, and dead
\* tasks are on no queue.
Inductive == SchedInv(k)

-----------------------------------------------------------------------------
(* Statements of comments and assertions that the code does not keep.        *)

\* "maximum timeslice is 300 msecs" (of all tasks but the magic process).
SliceBounded == \A p \in Tasks : p # k.magicProcess => k.time_slice[p] <= MaxTimeslice

=============================================================================
