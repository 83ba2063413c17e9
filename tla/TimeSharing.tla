---------------------------- MODULE TimeSharing ----------------------------
(***************************************************************************)
(* How kernel/sched.c shares the processor among tasks that do not use the *)
(* magic clock: dynamic priorities, timeslices, the active and the expired *)
(* array, and the calls by which tasks change their standing.              *)
(*                                                                         *)
(* As in RunQueue, every operator is one C function, written as a          *)
(* transformer of the scheduling state s.  Here the order inside the lists *)
(* is kept: an array is the sequence of its tasks, one list after the      *)
(* other, the list of the best priority first.  That nr_active, nr_running *)
(* and the bitmaps agree with the lists is RunQueue's subject.             *)
(*                                                                         *)
(* jiffies is not kept: sleep_age[p] is jiffies - p->sleep_timestamp, and  *)
(* expired_age is 0 when rq->expired_timestamp is, else one more than      *)
(* jiffies - rq->expired_timestamp.  Both stop growing where the code no   *)
(* longer tells the values apart.                                          *)
(***************************************************************************)
EXTENDS Integers, FiniteSets, Sequences, Functions

CONSTANTS
    Tasks,              \* the task_structs
    Idle,               \* rq->idle
    Nices,              \* the nice values in use
    RtPriorities,       \* the sched_priority values in use
    MAX_SLEEP_AVG,      \* in jiffies, as are the next three
    STARVATION_LIMIT,
    MIN_TIMESLICE,
    MAX_TIMESLICE,
    Worlds              \* the environments considered

\* The calls that the tasks of a world make, besides sleeping.
Calls == {
    "nice",             \* set_user_nice() of the caller
    "nice_another",     \* set_user_nice() of any task, from sys_setpriority()
    "setscheduler",
    "yield"}

\* A world is a set of calls, the tasks that exist and the nice values they use.
ASSUME TimeAssumption ==
    /\ Idle \notin Tasks
    /\ Nices \subseteq -20 .. 19 /\ RtPriorities \subseteq 1 .. 99
    /\ MAX_SLEEP_AVG \in Nat \ {0} /\ STARVATION_LIMIT \in Nat \ {0}
    /\ MIN_TIMESLICE \in Nat \ {0} /\ MAX_TIMESLICE \in Nat
    /\ MIN_TIMESLICE <= MAX_TIMESLICE
    /\ Worlds \subseteq [calls : SUBSET Calls, tasks : SUBSET Tasks, nices : SUBSET Nices]

VARIABLES
    rq,         \* the run queue with the fields of the tasks
    world       \* the environment

vars == <<rq, world>>

MAX_RT_PRIO == 100

MAX_PRIO == MAX_RT_PRIO + 40

MAX_USER_RT_PRIO == 100

NICE_TO_PRIO(nice) == MAX_RT_PRIO + nice + 20

PRIO_TO_NICE(prio) == prio - MAX_RT_PRIO - 20

Makes(c) == c \in world.calls

\* Division as C does it, towards zero.
CDiv(a, b) == IF a >= 0 THEN a \div b ELSE -((-a) \div b)

-----------------------------------------------------------------------------
(* Priorities and timeslices                                                 *)

rt_task(s, p) == s.prio[p] < MAX_RT_PRIO

\* Mutant: the bonus is taken from the last dynamic priority.
M_effective_prio_drifts(s, p) ==
    LET bonus == ((1000 * s.sleep_avg[p]) \div MAX_SLEEP_AVG) \div 100 - 5
        prio == s.prio[p] - bonus
    IN  IF prio < MAX_RT_PRIO THEN MAX_RT_PRIO
        ELSE IF prio > MAX_PRIO - 1 THEN MAX_PRIO - 1 ELSE prio

\* 40 user priorities, of which 25 percent are bonus: 1000 and 5 below.
effective_prio(s, p) ==
    LET bonus == ((1000 * s.sleep_avg[p]) \div MAX_SLEEP_AVG) \div 100 - 5
        prio == s.static_prio[p] - bonus
    IN  IF prio < MAX_RT_PRIO THEN MAX_RT_PRIO
        ELSE IF prio > MAX_PRIO - 1 THEN MAX_PRIO - 1 ELSE prio

DELTA(s, p) == CDiv(PRIO_TO_NICE(s.static_prio[p]) * 10, 40) + 2

TASK_INTERACTIVE(s, p) == s.prio[p] <= s.static_prio[p] - DELTA(s, p)

TASK_TIMESLICE(s, p) ==
    MIN_TIMESLICE + ((MAX_TIMESLICE - MIN_TIMESLICE) * (MAX_PRIO - 1 - s.static_prio[p])) \div 39

nr_running(s) == Len(s.active) + Len(s.expired)

EXPIRED_STARVING(s) ==
    s.expired_age # 0 /\ s.expired_age - 1 >= STARVATION_LIMIT * nr_running(s) + 1

-----------------------------------------------------------------------------
(* The two arrays                                                            *)

on_list(q, p) == \E n \in 1 .. Len(q) : q[n] = p

\* Pointers are changed around one entry: the others keep their order.
list_del(q, n) == SubSeq(q, 1, n - 1) \o SubSeq(q, n + 1, Len(q))
list_add(q, n, p) == SubSeq(q, 1, n - 1) \o <<p>> \o SubSeq(q, n, Len(q))

array(s, p) == IF on_list(s.active, p) THEN "active"
               ELSE IF on_list(s.expired, p) THEN "expired" ELSE "null"

\* The place of the first task of the list of priority i in array a, and the
\* one behind its last: the same when the list is empty.
first(s, a, i) == 1 + Cardinality({n \in 1 .. Len(s[a]) : s.prio[s[a][n]] < i})
behind(s, a, i) == 1 + Cardinality({n \in 1 .. Len(s[a]) : s.prio[s[a][n]] <= i})

list_empty(s, a, i) == first(s, a, i) = behind(s, a, i)

dequeue_task(s, p, a) == [s EXCEPT ![a] = list_del(@, CHOOSE n \in 1 .. Len(@) : @[n] = p)]

enqueue_task(s, p, a) == [s EXCEPT ![a] = list_add(@, behind(s, a, s.prio[p]), p)]

\* Behind the first task of the list, if there is one.
add_second(s, p, a, i) ==
    LET n == first(s, a, i)
    IN  [s EXCEPT !.prio[p] = i,
                  ![a] = list_add(@, IF list_empty(s, a, i) THEN n ELSE n + 1, p)]

set_need_resched(s) == [s EXCEPT !.need_resched = TRUE]

\* Mutant: the average is not capped.
M_activate_uncapped(s, p) ==
    LET r == [s EXCEPT !.sleep_avg[p] = @ + s.sleep_age[p]]
    IN  enqueue_task(IF rt_task(s, p) \/ s.sleep_age[p] = 0 THEN s
                     ELSE [r EXCEPT !.prio[p] = effective_prio(r, p)], p, "active")

activate_task(s, p) ==
    LET sum == s.sleep_avg[p] + s.sleep_age[p]
        r == [s EXCEPT !.sleep_avg[p] = IF sum > MAX_SLEEP_AVG THEN MAX_SLEEP_AVG ELSE sum]
    IN  enqueue_task(IF rt_task(s, p) \/ s.sleep_age[p] = 0 THEN s
                     ELSE [r EXCEPT !.prio[p] = effective_prio(r, p)], p, "active")

\* The priority of the running task; the idle task has the worst of all.
curr_prio(s) == IF s.curr = Idle THEN MAX_PRIO ELSE s.prio[s.curr]

-----------------------------------------------------------------------------
(* schedule()                                                                *)

switch_tasks(s, next) == [s EXCEPT !.need_resched = FALSE, !.curr = next]

pick_next_task(s) ==
    IF nr_running(s) = 0 THEN switch_tasks([s EXCEPT !.expired_age = 0], Idle)
    ELSE IF s.active = <<>>
    THEN switch_tasks([s EXCEPT !.active = s.expired, !.expired = <<>>, !.expired_age = 0],
                      Head(s.expired))
    ELSE switch_tasks(s, Head(s.active))

stamp(s) == IF s.curr = Idle THEN s ELSE [s EXCEPT !.sleep_age[s.curr] = 0]

\* schedule() with prev->state RUNNING.
schedule(s) == pick_next_task(stamp(s))

-----------------------------------------------------------------------------
(* scheduler_tick()                                                          *)

\* A jiffy passes.  A task on the queue is asked for its sleep_age only by
\* setscheduler().
next_jiffy(s) ==
    LET up(n, max) == IF n < max THEN n + 1 ELSE n
        aging == {p \in world.tasks : array(s, p) = "null" \/ Makes("setscheduler")}
    IN  [s EXCEPT !.sleep_age = [p \in Tasks |-> IF p \in aging THEN up(@[p], MAX_SLEEP_AVG) ELSE @[p]],
                  !.expired_age = IF @ = 0 THEN 0
                                  ELSE up(@, STARVATION_LIMIT * Cardinality(world.tasks) + 2)]

\* A real-time task has run for a tick.
rt_tick(s, p) ==
    LET d == [s EXCEPT !.time_slice[p] = @ - 1]
        r == [d EXCEPT !.time_slice[p] = TASK_TIMESLICE(d, p), !.need_resched = TRUE]
    IN  IF s.policy[p] # "RR" THEN s
        ELSE IF d.time_slice[p] # 0 THEN d
        ELSE enqueue_task(dequeue_task(r, p, "active"), p, "active")

\* The timeslice of p is used up.
expire_task(s, p) ==
    LET d == [dequeue_task(s, p, "active") EXCEPT
                  !.need_resched = TRUE,
                  !.prio[p] = effective_prio(s, p),
                  !.time_slice[p] = TASK_TIMESLICE(s, p)]
        late == [d EXCEPT !.expired_age = IF @ = 0 THEN 1 ELSE @]
    IN  IF ~TASK_INTERACTIVE(d, p) \/ EXPIRED_STARVING(s)
        THEN enqueue_task(late, p, "expired")
        ELSE enqueue_task(d, p, "active")

\* Mutant: the sleep average never decays.
M_other_tick_no_decay(s, p) ==
    LET d == [s EXCEPT !.time_slice[p] = @ - 1]
    IN  IF d.time_slice[p] = 0 THEN expire_task(d, p) ELSE d

other_tick(s, p) ==
    LET d == [s EXCEPT !.sleep_avg[p] = IF @ = 0 THEN 0 ELSE @ - 1, !.time_slice[p] = @ - 1]
    IN  IF d.time_slice[p] = 0 THEN expire_task(d, p) ELSE d

scheduler_tick(s) ==
    LET p == s.curr
    IN  IF p = Idle THEN s
        ELSE IF array(s, p) # "active" THEN set_need_resched(s)
        ELSE IF rt_task(s, p) THEN rt_tick(s, p)
        ELSE other_tick(s, p)

-----------------------------------------------------------------------------
Become(s) == rq' = s /\ UNCHANGED world

Init ==
    /\ world \in Worlds
    /\ \E nice \in [world.tasks -> world.nices] :
          LET prio == [p \in Tasks |-> NICE_TO_PRIO(IF p \in world.tasks THEN nice[p] ELSE 0)]
          IN  rq = [active |-> <<>>, expired |-> <<>>, curr |-> Idle,
                    need_resched |-> FALSE, expired_age |-> 0,
                    static_prio |-> prio,
                    prio |-> prio,
                    policy |-> [p \in Tasks |-> "OTHER"],
                    time_slice |-> [p \in Tasks |-> MIN_TIMESLICE],
                    sleep_avg |-> [p \in Tasks |-> 0],
                    sleep_age |-> [p \in Tasks |-> 0]]

\* The running task is in the kernel, or idle.
Running == rq.curr # Idle

Tick == \E s \in {next_jiffy(rq)} : Become(scheduler_tick(s))

\* On the way back to user mode, or in the idle loop.
Reschedule == rq.need_resched /\ Become(schedule(rq))

\* A sleep that was over before schedule() was reached.
ScheduleAnyway == Running /\ ~rq.need_resched /\ Become(schedule(rq))

Sleep ==
    /\ Running
    /\ Become(pick_next_task(dequeue_task(stamp(rq), rq.curr, array(rq, rq.curr))))

\* Mutant: the running task is not told.
M_wake_up_quiet(p) ==
    /\ p \in world.tasks /\ array(rq, p) = "null"
    /\ Become(activate_task(rq, p))

try_to_wake_up(p) ==
    LET a == activate_task(rq, p)
    IN  /\ p \in world.tasks /\ array(rq, p) = "null"
        /\ Become(IF a.prio[p] < curr_prio(a) THEN set_need_resched(a) ELSE a)

\* The test that should see a raised priority compares the new value with itself.
set_user_nice(p, nice) ==
    LET a == array(rq, p)
        new == NICE_TO_PRIO(nice)
        d == IF a = "null" THEN rq ELSE dequeue_task(rq, p, a)
        r == [d EXCEPT !.static_prio[p] = new, !.prio[p] = new]
        e == enqueue_task(r, p, a)
    IN  /\ Running /\ p \in world.tasks
        /\ Makes("nice_another") \/ (Makes("nice") /\ p = rq.curr)
        /\ PRIO_TO_NICE(rq.static_prio[p]) # nice
        /\ Become(IF rt_task(rq, p) THEN [rq EXCEPT !.static_prio[p] = new]
                  ELSE IF a = "null" THEN r
                  ELSE IF new < e.static_prio[p] \/ p = rq.curr THEN set_need_resched(e)
                  ELSE e)

\* rt is 0 for SCHED_OTHER.
setscheduler(p, policy, rt) ==
    LET a == array(rq, p)
        d == IF a = "null" THEN rq ELSE dequeue_task(rq, p, a)
        r == [d EXCEPT !.policy[p] = policy,
                       !.prio[p] = IF policy = "OTHER" THEN d.static_prio[p]
                                   ELSE MAX_USER_RT_PRIO - 1 - rt]
    IN  /\ Running /\ p \in world.tasks
        /\ Makes("setscheduler")
        /\ (policy = "OTHER") = (rt = 0)
        /\ Become(IF a = "null" THEN r ELSE activate_task(r, p))

\* Mutant: the task goes to the front of the list it moves to.
M_yield_first(s) ==
    LET p == s.curr
        a == array(s, p)
        d == dequeue_task(s, p, a)
    IN  IF rt_task(s, p) THEN enqueue_task(d, p, a)
        ELSE [d EXCEPT ![a] = <<p>> \o @]

\* Where sched_yield() puts the caller.
yield_requeue(s) ==
    LET p == s.curr
        a == array(s, p)
        d == dequeue_task(s, p, a)
        i == IF d[a] = <<>> THEN MAX_PRIO ELSE d.prio[Head(d[a])]
    IN  IF rt_task(s, p) THEN enqueue_task(d, p, a)
        ELSE IF ~list_empty(d, a, s.prio[p]) THEN add_second(d, p, a, s.prio[p])
        ELSE add_second(d, p, a, IF i = MAX_PRIO \/ i <= s.prio[p] THEN s.prio[p] ELSE i)

sys_sched_yield ==
    /\ Running /\ Makes("yield")
    /\ Become(schedule(yield_requeue(rq)))

\* What brings a task to the active array from outside, or out of its turn.
Arrives ==
    \E p \in Tasks :
        \/ try_to_wake_up(p)
        \/ \E policy \in {"OTHER", "RR", "FIFO"}, rt \in RtPriorities \cup {0} :
              setscheduler(p, policy, rt)

Next ==
    \/ Tick
    \/ Reschedule
    \/ ScheduleAnyway
    \/ Sleep
    \/ sys_sched_yield
    \/ \E p \in Tasks, nice \in world.nices : set_user_nice(p, nice)
    \/ Arrives

Spec == Init /\ [][Next]_vars

\* The timer interrupts, and need_resched is looked at on every return to user
\* mode and in the idle loop.
FairSpec == Spec /\ WF_vars(Tick) /\ WF_vars(Reschedule)

-----------------------------------------------------------------------------
Queued(p) == array(rq, p) # "null"

\* The arrays are ordered by priority and hold every task at most once, the
\* running task among them; counters stay in their ranges.
TypeOK ==
    /\ \A a \in {"active", "expired"} :
          \A i, j \in 1 .. Len(rq[a]) : i < j => rq.prio[rq[a][i]] <= rq.prio[rq[a][j]]
    /\ IsInjective(rq.active \o rq.expired)
    /\ rq.curr # Idle => Queued(rq.curr)
    /\ \A p \in Tasks : /\ rq.prio[p] \in 0 .. MAX_PRIO - 1
                        /\ rt_task(rq, p) <=> rq.policy[p] # "OTHER"
                        /\ rq.static_prio[p] \in MAX_RT_PRIO .. MAX_PRIO - 1
                        /\ rq.time_slice[p] \in 1 .. MAX_TIMESLICE
                        /\ rq.sleep_avg[p] \in 0 .. MAX_SLEEP_AVG

\* No task in the active array is better than the one that runs, unless
\* schedule() is about to be called, where nobody changes the standing of
\* another task: after wakeups, ticks, sleeps, yields and nice().
BestRuns ==
    ~rq.need_resched /\ ~Makes("nice_another") /\ ~Makes("setscheduler") =>
        \A p \in Tasks : array(rq, p) = "active" => curr_prio(rq) <= rq.prio[p]

\* What effective_prio() gives its quarter of the range for, "nice -20 CPU hogs do
\* not get preempted by nice 0 tasks": between nice levels ten or more apart, no
\* amount of sleeping turns the order round, where no task gives its priority
\* away by sched_yield().
NiceWins ==
    ~Makes("yield") =>
        \A p, q \in Tasks :
            /\ rq.policy[p] = "OTHER" /\ rq.policy[q] = "OTHER"
            /\ rq.static_prio[q] - rq.static_prio[p] >= 10
            => rq.prio[p] <= rq.prio[q]

\* After sched_yield() another task runs if there is one in the caller's array
\* that a task of the caller's kind gives way to: any for a normal task, one
\* of the same priority for a real-time task.
YieldGivesWay ==
    [][sys_sched_yield =>
         LET a == rq[array(rq, rq.curr)]
         IN  (\E i \in 1 .. Len(a) :
                 /\ a[i] # rq.curr
                 /\ rt_task(rq, rq.curr) => rq.prio[a[i]] <= rq.prio[rq.curr])
             => rq'.curr # rq.curr]_vars

\* The tasks that may keep p from running as long as they like are gone: other
\* real-time tasks, but for those that take turns with p.
FairRivals(p) ==
    \A q \in Tasks \ {p} :
        Queued(q) /\ rt_task(rq, q) => rq.policy[q] = "RR" /\ rq.prio[q] = rq.prio[p]

\* When wakeups cease, every task on the run queue gets to run: an interactive
\* task stays in the active array only while its sleep average lasts, and
\* SCHED_RR tasks of one priority take turns.
NoStarvation ==
    \A p \in Tasks :
        <>[][~Arrives]_vars /\ <>[]FairRivals(p) => (Queued(p) ~> rq.curr = p)

=============================================================================
