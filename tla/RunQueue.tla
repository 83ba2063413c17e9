------------------------------ MODULE RunQueue ------------------------------
(***************************************************************************)
(* The uniprocessor run queue of kernel/sched.c.  Every operator is one C  *)
(* function, written as a transformer of the scheduling state s: a record  *)
(* holding the task_struct fields the scheduler uses (functions of the     *)
(* task), the fields of the one runqueue, and the globals of the magic     *)
(* clock.  A transformer that would follow a NULL pointer or run off a     *)
(* list head sets s.oops.                                                  *)
(*                                                                         *)
(* Abstractions: run_list[p] is the index of the list that p is linked on, *)
(* so the order inside one list is left open; a dynamic priority computed  *)
(* by effective_prio() is any member e of UserPrios.                       *)
(***************************************************************************)
EXTENDS Integers, FiniteSets

CONSTANTS
    Tasks,          \* the task_structs
    Idle,           \* rq->idle
    NULL,           \* the null task pointer
    UserPrios,      \* the values effective_prio() may return
    Word,           \* number of values of an unsigned int
    Timeslice,      \* TASK_TIMESLICE(p), in jiffies
    MaxTimeslice    \* MAX_TIMESLICE, in jiffies

MAX_RT_PRIO == 100

MAX_PRIO == MAX_RT_PRIO + 40

ASSUME TaskAssumption == /\ IsFiniteSet(Tasks)
                         /\ Idle \notin Tasks
                         /\ NULL \notin Tasks \cup {Idle}

ASSUME PrioAssumption == /\ UserPrios \subseteq MAX_RT_PRIO .. (MAX_PRIO - 1)
                         /\ UserPrios # {}

ASSUME SliceAssumption == /\ Word \in Nat /\ Timeslice \in Nat /\ MaxTimeslice \in Nat
                          /\ 0 < Timeslice
                          /\ Timeslice <= MaxTimeslice
                          /\ MaxTimeslice < Word

All == Tasks \cup {Idle}

Arrays == {"active", "expired"}

States == {"RUNNING", "INTERRUPTIBLE", "UNINTERRUPTIBLE", "STOPPED", "ZOMBIE", "UNUSED"}

Unlinked == MAX_PRIO \* run_list of a task that is on no queue

Oops(s) == [s EXCEPT !.oops = 1]

rt_task(s, p) == s.prio[p] < MAX_RT_PRIO

\* The tasks linked on array a's list for priority i.
queue(s, a, i) == {q \in Tasks : s.array[q] = a /\ s.run_list[q] = i}

set_tsk_need_resched(s, p) == [s EXCEPT !.need_resched[p] = 1]

\* Mutant: the bit is cleared without looking at the list.
M_dequeue_clears_bit(s, p, a) ==
    IF a = "null" THEN Oops(s)
    ELSE [s EXCEPT !.nr_active[a] = @ - 1,
                   !.run_list[p] = Unlinked,
                   !.bitmap[a] = @ \ {s.prio[p]}]

\* list_del takes p off the list it is linked on; the bit that is tested and
\* cleared is the one of p's present priority.
dequeue_task(s, p, a) ==
    IF a = "null" THEN Oops(s)
    ELSE [s EXCEPT !.nr_active[a] = @ - 1,
                   !.run_list[p] = Unlinked,
                   !.bitmap[a] = IF queue(s, a, s.prio[p]) \subseteq {p}
                                 THEN @ \ {s.prio[p]} ELSE @]

enqueue_task(s, p, a) ==
    IF a = "null" THEN Oops(s)
    ELSE [s EXCEPT !.nr_active[a] = @ + 1,
                   !.run_list[p] = s.prio[p],
                   !.bitmap[a] = @ \cup {s.prio[p]},
                   !.array[p] = a]

\* Off the queue it is linked on, and back on it at priority i.
requeue(s, p, i) ==
    enqueue_task([dequeue_task(s, p, s.array[p]) EXCEPT !.prio[p] = i], p, s.array[p])

\* e is effective_prio(p), or p->prio when no jiffy passed since p slept.
activate_task(s, p, e) ==
    LET t == IF rt_task(s, p) THEN s ELSE [s EXCEPT !.prio[p] = e]
    IN  [enqueue_task(t, p, "active") EXCEPT !.nr_running = @ + 1]

deactivate_task(s, p) ==
    [dequeue_task(s, p, s.array[p]) EXCEPT !.nr_running = @ - 1,
                                           !.array[p] = "null"]

try_to_wake_up(s, p, e) ==
    LET a == activate_task(s, p, e)
        w == IF s.array[p] # "null" THEN s
             ELSE IF a.prio[p] < a.prio[a.curr] THEN set_tsk_need_resched(a, a.curr)
             ELSE a
    IN  [w EXCEPT !.state[p] = "RUNNING"]

wake_up_forked_process(s, p, e) ==
    activate_task([s EXCEPT !.state[p] = "RUNNING"], p, e)

\* The parent takes back what is left of a child's first timeslice.
sched_exit(s, p) ==
    LET sum == (s.time_slice[s.curr] + s.time_slice[p]) % Word
    IN  IF s.first_time_slice[p] = 0 THEN s
        ELSE [s EXCEPT !.time_slice[s.curr] = IF sum > MaxTimeslice THEN MaxTimeslice ELSE sum]

=============================================================================
