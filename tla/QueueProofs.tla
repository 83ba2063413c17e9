---------------------------- MODULE QueueProofs ----------------------------
(***************************************************************************)
(* Proofs about the run queue: what schedule() reads of it is right in     *)
(* every situation, and in the situations that the magic clock code        *)
(* expects the queue holds exactly the runnable tasks, the timer grants no *)
(* more than was asked for, and the kernel never stops.                    *)
(***************************************************************************)
EXTENDS SchedProofs

(* The actions, in any situation.                                            *)

Existing(s) == {p \in Tasks : s.state[p] # "UNUSED"}

\* What every step keeps.
StepKeeps == (Visible(k) => Visible(k')) /\ PrioFollows(k, k', Existing(k))

\* A step to the state a function left behind.
LEMMA BecomeQueue ==
    ASSUME k \in KernelState, NEW s, s \in KernelState, Visible(k) => Keeps(k, s), Become(s)
    PROVE  Visible(k) => StepKeeps
<1> SUFFICES ASSUME Visible(k) PROVE StepKeeps
  OBVIOUS
<1>1. CASE s.oops = 1
  <2>1. k' = Oops(k)
    BY <1>1 DEF Become
  <2>2. SameQueue(k, k') /\ k'.prio = k.prio /\ k'.magicProcess = k.magicProcess
    BY <2>1 DEF Oops, SameQueue, KernelState
  <2>3. PrioFollows(k, k', Existing(k))
    BY <2>2 DEF PrioFollows, rt_task
  <2>4. Visible(k')
    BY <2>2, SameQueueKeeps
  <2> QED
    BY <2>3, <2>4 DEF StepKeeps
<1>2. CASE s.oops # 1
  <2>1. k' = s /\ s.oops = 0
    BY <1>2 DEF Become, KernelState, Flag
  <2>2. Visible(s) /\ PrioFollows(k, s, Tasks)
    BY <2>1 DEF Keeps
  <2> QED
    BY <2>1, <2>2 DEF StepKeeps, PrioFollows, Existing
<1> QED
  BY <1>1, <1>2

\* A step that leaves the queue and magicProcess alone.
LEMMA SameStep ==
    ASSUME SameFields(k, k'), k'.magicProcess = k.magicProcess
    PROVE  StepKeeps
<1>1. Visible(k) => Visible(k')
  BY SameFieldsQueue, SameQueueKeeps
<1>2. PrioFollows(k, k', Existing(k))
  BY DEF SameFields, PrioFollows, rt_task
<1> QED
  BY <1>1, <1>2 DEF StepKeeps

\* The timer interrupt.
LEMMA TickQueue ==
    ASSUME Inductive, Tick
    PROVE  Visible(k) => StepKeeps
<1> DEFINE c == [p \in All |-> 0]
           s == [k EXCEPT !.called = c]
<1>1. PICK e \in UserPrios, a \in Arrays : Become(scheduler_tick(s, e, a))
  BY DEF Tick
<1>2. /\ k \in KernelState /\ Idle \in All /\ 0 \in 0 .. (Word - 1) /\ 0 \in Flag
      /\ c \in [All -> Flag]
  BY SliceAssumption DEF All, Flag, Inductive, SchedInv
<1> HIDE DEF c
<1>3. SchedInv(s)
  BY Zenon, <1>2, OtherFieldsInv DEF Inductive
<1>4. SameFields(k, s) /\ s.magicProcess = k.magicProcess
  BY <1>2 DEF SameFields, KernelState
<1> HIDE DEF s
<1>5. Keeps(k, scheduler_tick(s, e, a))
  BY <1>3, <1>4, SchedulerTickQueue, KeepsSame, KeepsTrans
<1>6. scheduler_tick(s, e, a) \in KernelState
  BY <1>3, SchedulerTickInv DEF SchedInv
<1> QED
  BY <1>1, <1>2, <1>5, <1>6, BecomeQueue

\* A call of schedule().
LEMMA ScheduleStepQueue ==
    ASSUME Inductive, NEW s \in schedule(k), Become(s)
    PROVE  Visible(k) => StepKeeps
<1>1. k \in KernelState /\ s \in KernelState /\ Keeps(k, s)
  BY ScheduleInv, ScheduleQueue DEF Inductive, SchedInv
<1> QED
  BY <1>1, BecomeQueue

\* sys_magic_clock() only records the request.
LEMMA MagicClockQueue ==
    ASSUME Inductive, NEW sec \in Seconds, sys_magic_clock(sec)
    PROVE  StepKeeps
<1> DEFINE p == k.curr
           n == (sec * HZ) % Word
           f == IF p = k.magicProcess /\ ~SameJiffy THEN 0 ELSE k.call_seen
<1>1. k' = [k EXCEPT !.magic_time[p] = n, !.called[p] = 1, !.call_seen = f]
  BY DEF sys_magic_clock
<1> HIDE DEF p, n, f
<1>2. SameFields(k, k') /\ k'.magicProcess = k.magicProcess
  BY <1>1 DEF Inductive, SchedInv, KernelState, SameFields
<1> QED
  BY <1>2, SameStep

\* A process sets its own state, or takes a signal.
LEMMA OwnFieldsQueue ==
    ASSUME Inductive,
           \/ \E new \in Sleeps \cup {"RUNNING"} : set_current_state(new)
           \/ TakeSignal
    PROVE  StepKeeps
<1>1. SameFields(k, k') /\ k'.magicProcess = k.magicProcess
  BY DEF set_current_state, TakeSignal, Inductive, SchedInv, KernelState, SameFields
<1> QED
  BY <1>1, SameStep

\* A wakeup.
LEMMA WakeUpQueue ==
    ASSUME Inductive, NEW p \in Tasks, wake_up_process(p)
    PROVE  Visible(k) => StepKeeps
<1>1. PICK e \in UserPrios \cup {k.prio[p]} : Become(try_to_wake_up(k, p, e))
  BY DEF wake_up_process
<1>2. k \in KernelState /\ k.prio[p] \in 0 .. MAX_PRIO
  BY DEF Inductive, SchedInv, KernelState, All
<1>3. e \in 0 .. MAX_PRIO /\ (e \in UserPrios \/ e = k.prio[p])
  BY Zenon, <1>1, <1>2, PrioRanges
<1>4. k.state[p] \notin {"ZOMBIE", "UNUSED"}
  BY DEF wake_up_process, Sleeping
<1>5. try_to_wake_up(k, p, e) \in KernelState
  BY <1>3, <1>4, WakeInv DEF Inductive, SchedInv
<1>6. Keeps(k, try_to_wake_up(k, p, e))
  BY <1>2, <1>3, WakeQueue
<1> QED
  BY <1>1, <1>2, <1>5, <1>6, BecomeQueue

\* The delivery of a signal.
LEMMA SignalQueue ==
    ASSUME Inductive, NEW p \in Tasks, Signal(p)
    PROVE  Visible(k) => StepKeeps
<1> DEFINE s == [k EXCEPT !.sigpending[p] = 1]
           w(e) == IF k.state[p] = "INTERRUPTIBLE" THEN try_to_wake_up(s, p, e) ELSE s
<1>1. PICK e \in UserPrios \cup {k.prio[p]} : Become(w(e))
  BY DEF Signal
<1>2. k \in KernelState /\ k.prio[p] \in 0 .. MAX_PRIO /\ p \in All
  BY DEF Inductive, SchedInv, KernelState, All
<1>3. e \in 0 .. MAX_PRIO /\ (e \in UserPrios \/ e = k.prio[p])
  BY <1>1, <1>2, PrioRanges
<1>4. 1 \in Flag /\ 0 \in 0 .. (Word - 1) /\ [q \in All |-> 1] \in [All -> Flag]
  BY SliceAssumption DEF Flag
<1>5. SchedInv(s)
  BY Zenon, <1>2, <1>4, OtherFieldsInv DEF Inductive
<1>6. s \in KernelState /\ SameFields(k, s) /\ s.magicProcess = k.magicProcess /\ s.state = k.state
  BY Zenon, <1>2, <1>5 DEF KernelState, SameFields, SchedInv
<1> HIDE DEF s
<1>7. Keeps(k, s)
  BY <1>6, KeepsSame
<1>8. w(e) \in KernelState /\ Keeps(k, w(e))
  <2>1. CASE k.state[p] = "INTERRUPTIBLE"
    <3>1. try_to_wake_up(s, p, e) \in KernelState
      BY <1>3, <1>5, <1>6, <2>1, WakeInv DEF SchedInv
    <3>2. Keeps(s, try_to_wake_up(s, p, e))
      BY <1>3, <1>6, WakeQueue DEF SameFields
    <3> QED
      BY <1>7, <2>1, <3>1, <3>2, KeepsTrans
  <2>2. CASE k.state[p] # "INTERRUPTIBLE"
    BY <1>6, <1>7, <2>2
  <2> QED
    BY <2>1, <2>2
<1> HIDE DEF w
<1> QED
  BY <1>1, <1>2, <1>8, BecomeQueue

\* do_exit().
LEMMA ExitQueue ==
    ASSUME Inductive, do_exit
    PROVE  Visible(k) => StepKeeps
<1> DEFINE z == [k EXCEPT !.state[k.curr] = "ZOMBIE"]
           n(par, e) == do_notify_parent(z, par, e)
           x(par, e, sig) == [n(par, e) EXCEPT !.sigpending[par] = sig]
<1>1. k.curr \in Tasks /\ k.curr \in All /\ k \in KernelState
  BY DEF do_exit, InProcess, All, Inductive, SchedInv
<1>2. SchedInv(z) /\ z.state = [k.state EXCEPT ![k.curr] = "ZOMBIE"]
  <2>1. "ZOMBIE" \in States \ {"UNUSED"}
    BY DEF States
  <2> QED
    BY Zenon, <1>1, <2>1, StateInv DEF Inductive
<1>3. Keeps(k, z) /\ SameFields(k, z) /\ z.magicProcess = k.magicProcess /\ z \in KernelState
  BY Zenon, <1>1, <1>2, StateQueue DEF SchedInv, KernelState
<1>4. CASE k' = z
  BY <1>3, <1>4, SameStep
<1>5. CASE \E par \in Tasks : \E e \in UserPrios \cup {k.prio[par]}, sig \in {k.sigpending[par], 1} :
              Become(x(par, e, sig))
  <2>1. PICK par \in Tasks :
           \E e \in UserPrios \cup {k.prio[par]}, sig \in {k.sigpending[par], 1} :
              Become(x(par, e, sig))
    BY <1>5
  <2>2. PICK e \in UserPrios \cup {k.prio[par]}, sig \in {k.sigpending[par], 1} :
           Become(x(par, e, sig))
    BY <2>1
  <2>3. par \in All /\ k.prio[par] \in 0 .. MAX_PRIO /\ k.sigpending[par] \in Flag
    BY <1>1 DEF KernelState, All
  <2>4. e \in 0 .. MAX_PRIO /\ (e \in UserPrios \/ e = k.prio[par])
    BY Zenon, <2>3, PrioRanges
  <2>5. sig \in Flag /\ 0 \in 0 .. (Word - 1) /\ [q \in All |-> 0] \in [All -> Flag]
    BY <2>3, SliceAssumption DEF Flag
  <2> HIDE DEF z
  <2>6. SchedInv(n(par, e)) /\ Keeps(z, n(par, e))
    <3>1. CASE z.state[par] = "INTERRUPTIBLE"
      <4>1. n(par, e) = try_to_wake_up(z, par, e)
        BY <3>1 DEF do_notify_parent
      <4>2. e \in UserPrios \/ e = z.prio[par]
        BY <1>3, <2>4 DEF SameFields
      <4>3. Keeps(z, try_to_wake_up(z, par, e))
        BY <1>3, <2>4, <4>2, WakeQueue
      <4>4. SchedInv(try_to_wake_up(z, par, e))
        BY Zenon, <1>2, <2>4, <3>1, WakeInv
      <4> QED
        BY <4>1, <4>3, <4>4
    <3>2. CASE z.state[par] # "INTERRUPTIBLE"
      <4>1. n(par, e) = z /\ SameFields(z, z)
        BY <3>2 DEF do_notify_parent, SameFields
      <4> QED
        BY <1>2, <4>1, KeepsSame
    <3> QED
      BY <3>1, <3>2
  <2> HIDE DEF n
  <2>7. x(par, e, sig) \in KernelState
    BY Zenon, <2>3, <2>5, <2>6, OtherFieldsInv DEF SchedInv
  <2>8. Keeps(n(par, e), x(par, e, sig))
    <3>1. n(par, e) \in KernelState
      BY <2>6 DEF SchedInv
    <3>2. /\ SameFields(n(par, e), x(par, e, sig))
          /\ x(par, e, sig).magicProcess = n(par, e).magicProcess
      BY <3>1 DEF SameFields, KernelState
    <3> QED
      BY Zenon, <3>2, KeepsSame
  <2> HIDE DEF x
  <2>9. Keeps(k, x(par, e, sig))
    BY <1>3, <2>6, <2>8, KeepsTrans
  <2> QED
    BY <1>1, <2>2, <2>7, <2>9, BecomeQueue
<1> QED
  BY Zenon, <1>4, <1>5 DEF do_exit

\* do_fork(): the child's priority is the parent's, and nobody's before.
LEMMA ForkQueue ==
    ASSUME Inductive, NEW c \in Tasks, do_fork(c)
    PROVE  Visible(k) => StepKeeps
<1> SUFFICES ASSUME Visible(k) PROVE StepKeeps
  OBVIOUS
<1> DEFINE p == k.curr
           slice == k.time_slice[p]
           copy == [k EXCEPT !.prio[c] = k.prio[p],
                             !.need_resched[c] = k.need_resched[p],
                             !.time_slice[c] = (slice + 1) \div 2,
                             !.first_time_slice[c] = 1]
           s(e, a) == IF slice = 1 THEN scheduler_tick(copy, e, a)
                      ELSE [copy EXCEPT !.time_slice[p] = slice \div 2]
           w(e, f, a) == wake_up_forked_process(s(e, a), c, f)
           n(e, f, a) == set_tsk_need_resched(w(e, f, a), p)
<1>1. PICK e \in UserPrios, f \in UserPrios, a \in Arrays :
         Become(IF slice = 0 THEN Oops(k) ELSE n(e, f, a))
  BY DEF do_fork
<1>2. /\ k \in KernelState /\ p \in All /\ c \in All /\ Tasks \subseteq All
      /\ k.prio[p] \in 0 .. MAX_PRIO /\ k.need_resched[p] \in Flag /\ slice \in 0 .. (Word - 1)
  BY DEF Inductive, SchedInv, KernelState, All
<1>3. c # p /\ k.state[c] = "UNUSED" /\ k.array[c] = "null" /\ p \in Tasks
  BY <1>2 DEF do_fork, InProcess, Inductive, SchedInv, DeadNotQueued
<1>4. CASE slice = 0
  <2>1. Oops(k) \in KernelState /\ Oops(k).oops = 1
    BY Zenon, <1>2, OopsKeeps DEF Oops, KernelState
  <2>2. Become(Oops(k)) /\ Keeps(k, Oops(k))
    BY <1>1, <1>4, <2>1 DEF Keeps
  <2> QED
    BY <1>2, <2>1, <2>2, BecomeQueue
<1>5. CASE slice # 0
  <2>1. (slice + 1) \div 2 \in 0 .. (Word - 1) /\ slice \div 2 \in 0 .. (Word - 1)
    BY <1>2, SliceAssumption
  <2>2. copy \in KernelState
    <3>1. [k.prio EXCEPT ![c] = k.prio[p]] \in [All -> 0 .. MAX_PRIO]
      BY <1>2 DEF KernelState
    <3>2. [k.need_resched EXCEPT ![c] = k.need_resched[p]] \in [All -> Flag]
      BY <1>2 DEF KernelState
    <3>3. [k.time_slice EXCEPT ![c] = (slice + 1) \div 2] \in [All -> 0 .. (Word - 1)]
      BY <1>2, <2>1 DEF KernelState
    <3>4. [k.first_time_slice EXCEPT ![c] = 1] \in [All -> Flag]
      BY <1>2 DEF KernelState, Flag
    <3> HIDE DEF slice, p
    <3> QED
      BY Zenon, <1>2, <3>1, <3>2, <3>3, <3>4 DEF KernelState
  <2>3. /\ Frame(k, copy) /\ copy.array = k.array
        /\ copy.run_list = k.run_list /\ copy.bitmap = k.bitmap
        /\ copy.nr_active = k.nr_active /\ copy.nr_running = k.nr_running
        /\ copy.prio = [k.prio EXCEPT ![c] = k.prio[p]] /\ copy.oops = k.oops
    BY <1>2 DEF KernelState, Frame
  <2> HIDE DEF copy, slice
  <2>4. SchedInv(copy) /\ copy.curr = p /\ copy.state = k.state
    BY <2>2, <2>3, InvOfFrame DEF Inductive, Frame
  <2>5. /\ Visible(k) => Visible(copy)
        /\ PrioFollows(k, copy, Tasks \ {c})
    <3>1. \A q \in Tasks \ {c} : copy.prio[q] = k.prio[q]
      BY <1>2, <2>3 DEF KernelState
    <3>2. SameQueue(k, copy)
      BY <1>3, <2>3, <3>1 DEF SameQueue, Queued
    <3>3. PrioFollows(k, copy, Tasks \ {c})
      BY <2>3, <3>1 DEF PrioFollows, rt_task, Frame
    <3> QED
      BY <3>2, <3>3, SameQueueKeeps
  <2>6. /\ SchedInv(s(e, a)) /\ s(e, a).curr = p /\ s(e, a).state = k.state
        /\ Keeps(copy, s(e, a))
    <3>1. CASE slice = 1
      <4>1. s(e, a) = scheduler_tick(copy, e, a)
        BY <3>1
      <4> HIDE DEF s
      <4> QED
        BY <2>4, <4>1, SchedulerTickInv, SchedulerTickQueue
    <3>2. CASE slice # 1
      <4> DEFINE t == [copy EXCEPT !.time_slice[p] = slice \div 2]
      <4>1. 0 \in Flag /\ [q \in All |-> 0] \in [All -> Flag]
        BY DEF Flag
      <4>2. SchedInv(t)
        BY Zenon, <1>2, <2>1, <2>4, <4>1, OtherFieldsInv
      <4>3. /\ t.curr = p /\ t.state = k.state
            /\ SameFields(copy, t) /\ t.magicProcess = copy.magicProcess
        BY <2>2, <2>4 DEF KernelState, SameFields
      <4>4. s(e, a) = t
        BY <3>2
      <4> HIDE DEF t, s
      <4> QED
        BY <4>2, <4>3, <4>4, KeepsSame
    <3> QED
      BY <3>1, <3>2
  <2> HIDE DEF s
  <2>7. s(e, a) \in KernelState /\ s(e, a).array[c] = "null"
    BY <1>2, <1>3, <2>6 DEF SchedInv, DeadNotQueued
  <2> DEFINE r == [s(e, a) EXCEPT !.state[c] = "RUNNING"]
  <2>8. /\ r \in KernelState /\ r.array[c] = "null" /\ Keeps(s(e, a), r)
    <3>1. [s(e, a).state EXCEPT ![c] = "RUNNING"] \in [All -> States]
      BY Zenon, <2>7 DEF States, KernelState
    <3>2. r \in KernelState
      BY Zenon, <2>7, <3>1 DEF KernelState
    <3>3. Keeps(s(e, a), r) /\ SameFields(s(e, a), r)
      BY <1>2, <2>7, StateQueue
    <3> QED
      BY <2>7, <3>2, <3>3 DEF SameFields
  <2>9. w(e, f, a) = activate_task(r, c, f)
    BY DEF wake_up_forked_process
  <2> HIDE DEF r
  <2>10. f \in 0 .. MAX_PRIO
    BY PrioRanges
  <2> HIDE DEF w
  <2>11. Keeps(r, w(e, f, a)) /\ w(e, f, a) \in KernelState
    <3>1. Keeps(r, activate_task(r, c, f))
      BY <2>8, <2>10, ActivateQueue
    <3>2. activate_task(r, c, f) \in KernelState
      BY Zenon, <1>2, <2>8, <2>10, ActivateKeeps
    <3> QED
      BY <2>9, <3>1, <3>2
  <2>12. n(e, f, a) \in KernelState /\ Keeps(w(e, f, a), n(e, f, a))
    <3>1. /\ n(e, f, a) \in KernelState /\ Frame(w(e, f, a), n(e, f, a))
          /\ SameFields(w(e, f, a), n(e, f, a))
      BY <1>2, <2>11, NeedReschedKeeps, OtherFieldsSame
    <3> QED
      BY <3>1, KeepsSame DEF Frame
  <2> HIDE DEF n
  <2>13. Keeps(copy, r) /\ Keeps(r, n(e, f, a))
    BY <2>6, <2>8, <2>11, <2>12, KeepsTrans
  <2>14. Keeps(copy, n(e, f, a))
    BY <2>13, KeepsTrans
  <2>15. CASE n(e, f, a).oops = 1
    <3>1. Become(Oops(k))
      BY <1>1, <1>5, <2>15, <1>2 DEF Become, Oops, KernelState
    <3>2. Oops(k) \in KernelState /\ Oops(k).oops = 1
      BY Zenon, <1>2, OopsKeeps DEF Oops, KernelState
    <3> QED
      BY <1>2, <3>1, <3>2, BecomeQueue DEF Keeps
  <2>16. CASE n(e, f, a).oops # 1
    <3>1. k' = n(e, f, a) /\ k'.oops = 0
      BY <1>1, <1>5, <2>12, <2>16 DEF Become, KernelState, Flag
    <3>2. Visible(k') /\ PrioFollows(copy, k', Tasks)
      BY <2>5, <2>14, <3>1 DEF Keeps
    <3>3. PrioFollows(copy, k', Tasks \ {c})
      BY <3>2 DEF PrioFollows
    <3>4. PrioFollows(k, k', Tasks \ {c})
      BY <2>5, <3>3, PrioTrans
    <3> QED
      BY <1>3, <3>2, <3>4 DEF StepKeeps, PrioFollows, Existing
  <2> QED
    BY <2>15, <2>16
<1> QED
  BY <1>4, <1>5

\* sys_wait4() forgets a task that is on no queue.
LEMMA WaitQueue ==
    ASSUME Inductive, NEW z \in Tasks, sys_wait4(z)
    PROVE  StepKeeps
<1> DEFINE x == sched_exit(k, z)
<1>1. /\ k' = [x EXCEPT !.state[z] = "UNUSED", !.prio[z] = MAX_PRIO, !.time_slice[z] = 0,
                        !.first_time_slice[z] = 0, !.need_resched[z] = 0,
                        !.sigpending[z] = 0, !.holding_wand[z] = 0, !.magic_time[z] = 0,
                        !.started_magic[z] = 0, !.called[z] = 0]
      /\ k.state[z] = "ZOMBIE" /\ k.curr \in Tasks /\ k.state[k.curr] = "RUNNING"
  BY Zenon DEF sys_wait4, release_task, InProcess
<1>2. z \in All /\ k \in KernelState /\ z # k.curr /\ k.array[z] = "null" /\ Tasks \subseteq All
  BY Zenon, <1>1 DEF All, Inductive, SchedInv, DeadNotQueued
<1>3. x = k \/ \E n : x = [k EXCEPT !.time_slice[k.curr] = n]
  BY Zenon DEF sched_exit
<1>4. /\ x.array = k.array /\ x.run_list = k.run_list /\ x.bitmap = k.bitmap
      /\ x.nr_active = k.nr_active /\ x.nr_running = k.nr_running
      /\ x.prio = k.prio /\ x.magicProcess = k.magicProcess
      /\ DOMAIN x = DOMAIN k
  BY <1>2, <1>3 DEF KernelState
<1> HIDE DEF x
<1>5. /\ k'.array = k.array /\ k'.run_list = k.run_list /\ k'.bitmap = k.bitmap
      /\ k'.nr_active = k.nr_active /\ k'.nr_running = k.nr_running
      /\ k'.prio = [k.prio EXCEPT ![z] = MAX_PRIO] /\ k'.magicProcess = k.magicProcess
  BY <1>1, <1>2, <1>4 DEF KernelState
<1>6. k'.prio[z] = MAX_PRIO /\ \A q \in Tasks \ {z} : k'.prio[q] = k.prio[q]
  BY <1>2, <1>5 DEF KernelState
<1>7. SameQueue(k, k')
  BY <1>2, <1>5, <1>6 DEF SameQueue, Queued
<1>8. ~rt_task(k', z)
  BY <1>6 DEF rt_task, MAX_PRIO, MAX_RT_PRIO
<1>9. PrioFollows(k, k', Existing(k))
  BY <1>5, <1>6, <1>8 DEF PrioFollows, rt_task, Existing
<1> QED
  BY <1>7, <1>9, SameQueueKeeps DEF StepKeeps

\* sys_sched_yield().
LEMMA YieldStepQueue ==
    ASSUME Inductive, sys_sched_yield
    PROVE  Visible(k) => StepKeeps
<1> SUFFICES ASSUME Visible(k) PROVE StepKeeps
  OBVIOUS
<1>1. k \in KernelState /\ k.curr \in Tasks
  BY DEF Inductive, SchedInv, sys_sched_yield, InProcess
<1>2. CASE k.array[k.curr] = "null"
  <2>1. Become(Oops(k))
    BY <1>2 DEF sys_sched_yield
  <2>2. Oops(k) \in KernelState /\ Oops(k).oops = 1
    BY Zenon, <1>1, OopsKeeps DEF Oops, KernelState
  <2> QED
    BY <1>1, <2>1, <2>2, BecomeQueue DEF Keeps
<1>3. CASE k.array[k.curr] # "null"
  <2>1. PICK s \in schedule(yield_requeue(k)) : Become(s)
    BY <1>3 DEF sys_sched_yield
  <2>2. SchedInv(yield_requeue(k))
    BY <1>3, YieldRequeueInv DEF Inductive
  <2>3. SchedInv(s) /\ Keeps(yield_requeue(k), s)
    BY <2>1, <2>2, ScheduleInv, ScheduleQueue
  <2>4. Keeps(k, yield_requeue(k))
    BY <1>1, <1>3, YieldQueue
  <2>5. Keeps(k, s) /\ s \in KernelState
    BY <2>3, <2>4, KeepsTrans DEF SchedInv
  <2> QED
    BY <1>1, <2>1, <2>5, BecomeQueue
<1> QED
  BY <1>2, <1>3

\* set_user_nice().
LEMMA NiceQueue ==
    ASSUME Inductive, NEW p \in Tasks, NEW e \in UserPrios, set_user_nice(p, e)
    PROVE  Visible(k) => StepKeeps
<1> DEFINE r == IF k.array[p] = "null" THEN [k EXCEPT !.prio[p] = e] ELSE requeue(k, p, e)
           t == IF k.array[p] # "null" /\ p = k.curr THEN set_tsk_need_resched(r, p) ELSE r
<1>1. Become(t)
  BY DEF set_user_nice
<1>2. k \in KernelState /\ p \in All /\ e \in 0 .. MAX_PRIO /\ k.array[p] \in Arrays \cup {"null"}
  BY PrioRanges DEF Inductive, SchedInv, All, KernelState
<1>3. r \in KernelState /\ Frame(k, r)
  BY <1>2, PrioKeeps, RequeueKeeps
<1>4. Keeps(k, r)
  <2>0. /\ r.prio = [k.prio EXCEPT ![p] = e]
        /\ r.oops = k.oops
        /\ k.array[p] # "null" => Moved(k, r, p, k.array[p])
        /\ k.array[p] = "null" =>
              /\ r.array = k.array /\ r.run_list = k.run_list /\ r.bitmap = k.bitmap
              /\ r.nr_active = k.nr_active /\ r.nr_running = k.nr_running
    <3>1. CASE k.array[p] = "null"
      <4>1. r = [k EXCEPT !.prio[p] = e]
        BY <3>1
      <4> HIDE DEF r
      <4> QED
        BY <1>2, <3>1, <4>1 DEF KernelState
    <3>2. CASE k.array[p] # "null"
      <4> DEFINE q == requeue(k, p, e)
      <4>1. /\ Moved(k, q, p, k.array[p])
            /\ q.oops = k.oops /\ q.prio = [k.prio EXCEPT ![p] = e]
        BY <1>2, <3>2, RequeueMoves
      <4>2. r = q
        BY <3>2
      <4> HIDE DEF r, q
      <4> QED
        BY <3>2, <4>1, <4>2
    <3> QED
      BY <3>1, <3>2
  <2> HIDE DEF r
  <2>1. r.prio[p] = e /\ \A q \in Tasks \ {p} : r.prio[q] = k.prio[q]
    BY <1>2, <2>0 DEF KernelState, All
  <2>2. ~rt_task(r, p)
    BY <2>1, MagicPrios DEF rt_task, MAX_RT_PRIO
  <2>3. r.magicProcess = k.magicProcess
    BY <1>3 DEF Frame
  <2>4. CASE k.array[p] # "null"
    BY <1>2, <1>3, <2>0, <2>2, <2>3, <2>4, KeepsMoved
  <2>5. CASE k.array[p] = "null"
    <3>1. SameQueue(k, r)
      BY <2>0, <2>1, <2>5 DEF SameQueue, Queued
    <3>2. PrioFollows(k, r, Tasks)
      BY <2>1, <2>2, <2>3 DEF PrioFollows, rt_task
    <3> QED
      BY <2>0, <3>1, <3>2, SameQueueKeeps DEF Keeps
  <2> QED
    BY <2>4, <2>5
<1> HIDE DEF r
<1> DEFINE n == set_tsk_need_resched(r, p)
<1>5. n \in KernelState /\ Frame(r, n) /\ SameFields(r, n)
  BY <1>2, <1>3, NeedReschedKeeps, OtherFieldsSame
<1>6. Keeps(k, n)
  BY <1>4, <1>5, KeepsSame, KeepsTrans DEF Frame
<1>7. t \in KernelState /\ Keeps(k, t)
  BY <1>3, <1>4, <1>5, <1>6
<1> HIDE DEF t
<1> QED
  BY <1>1, <1>2, <1>7, BecomeQueue

\* The queue the kernel boots with: the boot tasks on one list.
LEMMA InitQueue ==
    ASSUME Init
    PROVE  Visible(k) /\ Linked(k)
<1> DEFINE i == CHOOSE e \in UserPrios : TRUE
           n == Cardinality(Boot)
<1>0. i \in UserPrios
  BY PrioAssumption
<1>1. /\ k.array = [p \in All |-> IF p \in Boot THEN "active" ELSE "null"]
      /\ k.prio = [p \in All |-> IF p \in Boot THEN i ELSE MAX_PRIO]
      /\ k.run_list = [p \in All |-> IF p \in Boot THEN i ELSE Unlinked]
      /\ k.bitmap = [a \in Arrays |-> IF a = "active" THEN {i} ELSE {}]
      /\ k.nr_active = [a \in Arrays |-> IF a = "active" THEN n ELSE 0]
      /\ k.nr_running = n
  BY DEF Init
<1> HIDE DEF i, n
<1>2. /\ Boot \subseteq Tasks /\ Boot # {} /\ Tasks \subseteq All
      /\ Arrays = {"active", "expired"}
  BY ClockAssumption DEF All, Arrays
<1>3. \A p \in Tasks : k.array[p] = IF p \in Boot THEN "active" ELSE "null"
  BY <1>1, <1>2
<1>4. \A p \in Boot : k.prio[p] = i /\ k.run_list[p] = i
  BY <1>1, <1>2
<1>5. k.bitmap["active"] = {i} /\ k.bitmap["expired"] = {}
  BY <1>1, <1>2
<1>6. Queued(k) = Boot /\ On(k, "active") = Boot /\ On(k, "expired") = {}
  BY <1>2, <1>3 DEF Queued, On
<1>7. \A a \in Arrays : k.nr_active[a] = Cardinality(On(k, a))
  BY Zenon, <1>1, <1>2, <1>6, FS_EmptySet DEF n
<1>8. Visible(k)
  BY <1>1, <1>2, <1>3, <1>4, <1>5, <1>6, <1>7 DEF Visible, n
<1>9. queue(k, "active", i) = Boot
  BY <1>2, <1>3, <1>4 DEF queue
<1>10. Linked(k)
  BY <1>2, <1>4, <1>5, <1>6, <1>9 DEF Linked
<1> QED
  BY <1>8, <1>10

\* No step hides a task from schedule() or miscounts the queue, and none
\* gives a task a real-time priority that is not magic.
LEMMA QueueStep ==
    ASSUME Inductive, Visible(k), [Next]_k
    PROVE  StepKeeps
<1>1. CASE Tick
  BY <1>1, TickQueue
<1>2. CASE Schedule
  BY <1>2, ScheduleStepQueue DEF Schedule
<1>3. CASE \E sec \in Seconds : sys_magic_clock(sec)
  BY <1>3, MagicClockQueue
<1>4. CASE \/ \E new \in Sleeps \cup {"RUNNING"} : set_current_state(new)
           \/ TakeSignal
  BY <1>4, OwnFieldsQueue
<1>5. CASE \E p \in Tasks : wake_up_process(p)
  BY <1>5, WakeUpQueue
<1>6. CASE \E p \in Tasks : Signal(p)
  BY <1>6, SignalQueue
<1>7. CASE \E c \in Tasks : do_fork(c)
  BY <1>7, ForkQueue
<1>8. CASE do_exit
  BY <1>8, ExitQueue
<1>9. CASE \E z \in Tasks : sys_wait4(z)
  BY <1>9, WaitQueue
<1>10. CASE sys_sched_yield
  BY <1>10, YieldStepQueue
<1>11. CASE \E p \in Tasks, e \in UserPrios : set_user_nice(p, e)
  BY <1>11, NiceQueue
<1>12. CASE UNCHANGED k
  BY <1>12, SameStep DEF SameFields
<1> QED
  BY <1>1, <1>2, <1>3, <1>4, <1>5, <1>6, <1>7, <1>8, <1>9, <1>10, <1>11, <1>12 DEF Next

\* The invariant of the run queue holds in every situation but the one in
\* which the magic globals themselves disagree.
THEOREM QueueInvariantHolds ==
    ASSUME "cancel_same_jiffy" \notin Stress
    PROVE  Spec => []QueueInvariant
<1>1. Init => QueueInvariant
  BY InitInv, InitQueue DEF QueueInvariant
<1>2. QueueInvariant /\ [Next]_k => QueueInvariant'
  BY StepInv, QueueStep DEF QueueInvariant, StepKeeps
<1> QED
  BY <1>1, <1>2, PTL DEF Spec

\* What schedule() reads of the run queue is right, whatever start_magic(),
\* exit_from_magic() and sys_sched_yield() did to the priorities: every queued
\* task has its bit, and nr_running and nr_active count the queued tasks.
THEOREM QueueVisibleHolds ==
    ASSUME "cancel_same_jiffy" \notin Stress
    PROVE  Spec => []QueueVisible
<1>1. QueueInvariant => QueueVisible
  BY DEF QueueInvariant, Visible, QueueVisible, BitmapComplete, Accounting, Queued, On
<1> QED
  BY <1>1, QueueInvariantHolds, PTL

\* A task that exists gets a real-time priority only when its magic starts,
\* and has none any more when its magic ends, whichever of scheduler_tick(),
\* schedule() and do_fork() ends it.
THEOREM PriorityFollowsMagicHolds ==
    ASSUME "cancel_same_jiffy" \notin Stress
    PROVE  Spec => PriorityFollowsMagic
<1>1. ASSUME QueueInvariant, [Next]_k
      PROVE  [\A p \in Tasks :
                 /\ ~rt_task(k, p) /\ rt_task(k', p) /\ k.state[p] # "UNUSED" => k'.magicProcess = p
                 /\ k.magicProcess = p /\ k'.magicProcess # p => ~rt_task(k', p)]_k
  <2>1. PrioFollows(k, k', Existing(k))
    BY <1>1, QueueStep DEF QueueInvariant, StepKeeps
  <2>2. \A p \in Tasks : k.magicProcess = p => p \in Existing(k)
    <3> SUFFICES ASSUME NEW p \in Tasks, k.magicProcess = p PROVE k.state[p] # "UNUSED"
      BY DEF Existing
    <3>1. p # NULL
      BY TaskAssumption
    <3> QED
      BY <1>1, <3>1 DEF QueueInvariant, Inductive, SchedInv, SomeMagic, DeadNotQueued, KernelState, Flag
  <2> QED
    BY <2>1, <2>2 DEF PrioFollows, Existing
<1> QED
  BY <1>1, QueueInvariantHolds, PTL DEF Spec, PriorityFollowsMagic

-----------------------------------------------------------------------------
(* The situations that the magic clock code expects.                         *)

\* What schedule() reads of the queue is right, and the machine runs.
Right(s) == Visible(s) /\ Linked(s) /\ s.oops = 0

\* RunnableIffQueued of any scheduling state.
Runnable(s) ==
    /\ s.curr \in Tasks => s.array[s.curr] # "null"
    /\ \A p \in Tasks \ {s.curr} : s.state[p] = "RUNNING" <=> s.array[p] # "null"

\* The same in the midst of schedule(), where current is no exception.
Ready(s) == \A p \in Tasks : s.state[p] = "RUNNING" <=> s.array[p] # "null"

\* No call of the magic process waits to be seen while it sleeps.
SleeperSeen(s) == s.idle_from_magic = 1 => s.call_seen = 1

\* A call that schedule() has seen bounds the timer.
TimerBounded(s) ==
    s.magicProcess # NULL /\ s.call_seen = 1 => s.MAGICTIME <= s.magic_time[s.magicProcess]

\* Only an INTERRUPTIBLE sleeper takes magic time into schedule(), and a
\* process that exits with some is the magic process.
PlainSleep(s) ==
    s.curr \in Tasks /\ s.state[s.curr] \notin {"RUNNING", "INTERRUPTIBLE"} =>
        \/ s.magic_time[s.curr] = 0
        \/ s.state[s.curr] = "ZOMBIE" /\ s.started_magic[s.curr] = 1

Calm(s) == Right(s) /\ Runnable(s) /\ SleeperSeen(s) /\ TimerBounded(s) /\ PlainSleep(s)

\* The scheduler when the environment produces no situation of Situations.
CalmInvariant == Inductive /\ Calm(k)

-----------------------------------------------------------------------------
(* Parts of a step.                                                          *)

\* A move keeps the queue right.
LEMMA RightMoved ==
    ASSUME NEW s \in KernelState, NEW t \in KernelState, NEW p \in Tasks,
           NEW b \in Arrays \cup {"null"}, Moved(s, t, p, b), t.oops = s.oops, Right(s)
    PROVE  Right(t)
BY MovedVisible, MovedLinked DEF Right

\* A change of other fields does.
LEMMA RightSame ==
    ASSUME NEW s, NEW t, SameFields(s, t), Right(s)
    PROVE  Right(t)
<1>1. SameQueue(s, t) /\ t.oops = s.oops
  BY SameFieldsQueue DEF SameFields
<1> QED
  BY <1>1, SameQueueKeeps DEF Right

\* The tasks that are on an array are the same.
SameQueued(s, t) == \A p \in Tasks : t.array[p] = "null" <=> s.array[p] = "null"

\* A step that only touches the queue, and takes no task on it or off it.
LEMMA CalmFrame ==
    ASSUME NEW s, NEW t, Calm(s), Frame(s, t), SameQueued(s, t), Right(t)
    PROVE  Calm(t)
<1>1. Runnable(t)
  BY DEF Calm, Runnable, Frame, SameQueued
<1>2. SleeperSeen(t) /\ TimerBounded(t) /\ PlainSleep(t)
  BY DEF Calm, SleeperSeen, TimerBounded, PlainSleep, Frame
<1> QED
  BY <1>1, <1>2 DEF Calm

\* A step that touches neither the queue nor what Calm speaks of.
LEMMA CalmSame ==
    ASSUME NEW s, NEW t, Calm(s), Frame(s, t), SameFields(s, t)
    PROVE  Calm(t)
<1>1. Right(t) /\ SameQueued(s, t)
  BY RightSame DEF Calm, SameFields, SameQueued
<1> QED
  BY <1>1, CalmFrame

\* A queued task is moved to an array.
LEMMA CalmMoved ==
    ASSUME NEW s \in KernelState, NEW t \in KernelState, NEW p \in Tasks, NEW b \in Arrays,
           Calm(s), Frame(s, t), s.array[p] # "null", Moved(s, t, p, b), t.oops = s.oops
    PROVE  Calm(t)
<1>1. b \in Arrays \cup {"null"} /\ b # "null"
  BY DEF Arrays
<1>2. Right(t)
  BY <1>1, RightMoved DEF Calm
<1>3. SameQueued(s, t)
  BY <1>1, MovedSets DEF SameQueued
<1> QED
  BY <1>2, <1>3, CalmFrame

\* A signed timer grants no more than the unsigned time it is set from.
LEMMA ToIntBound ==
    ASSUME NEW u \in 0 .. (Word - 1)
    PROVE  ToInt(u) <= u
BY SliceAssumption DEF ToInt

-----------------------------------------------------------------------------
(* The magic clock.                                                          *)

\* exit_from_magic(): the magic process is current, or sleeps and is on no
\* array.
LEMMA ExitMagicCalm ==
    ASSUME NEW s \in KernelState, Right(s), Runnable(s), PlainSleep(s),
           s.magicProcess \in Tasks,
           \A p \in All : s.started_magic[p] = 1 <=> p = s.magicProcess,
           s.magic_sleep_flag = 0 => s.curr = s.magicProcess,
           s.magic_sleep_flag # 0 => s.array[s.magicProcess] = "null"
    PROVE  Calm(exit_from_magic(s))
<1> DEFINE t == exit_from_magic(s)
           m == s.magicProcess
<1>1. /\ t \in KernelState
      /\ t.curr = s.curr /\ t.state = s.state /\ t.array = s.array
      /\ t.magic_time = [s.magic_time EXCEPT ![m] = 0]
      /\ t.started_magic = [s.started_magic EXCEPT ![m] = 0]
      /\ t.magicProcess = NULL /\ t.idle_from_magic = 0
  BY ExitMagicKeeps DEF All
<1>2. /\ s.magic_sleep_flag = 0 /\ s.array[m] # "null" => Moved(s, t, m, s.array[m])
      /\ ~(s.magic_sleep_flag = 0 /\ s.array[m] = "null") =>
            t.oops = s.oops /\ t.prio = [s.prio EXCEPT ![m] = AfterMagicPrio]
      /\ s.magic_sleep_flag # 0 =>
            /\ t.array = s.array /\ t.run_list = s.run_list /\ t.bitmap = s.bitmap
            /\ t.nr_active = s.nr_active /\ t.nr_running = s.nr_running
  BY ExitMagicMoves
<1>3. /\ s.array \in [All -> Arrays \cup {"null"}] /\ s.prio \in [All -> 0 .. MAX_PRIO]
      /\ s.magic_time \in [All -> 0 .. (Word - 1)] /\ Tasks \subseteq All
  BY DEF KernelState, All
<1> HIDE DEF t
<1>4. Right(t)
  <2>1. CASE s.magic_sleep_flag = 0
    <3>1. s.array[m] # "null" /\ s.array[m] \in Arrays \cup {"null"}
      BY <1>3, <2>1 DEF Runnable
    <3>2. Moved(s, t, m, s.array[m]) /\ t.oops = s.oops
      BY <1>2, <2>1, <3>1
    <3> QED
      BY <1>1, <3>1, <3>2, RightMoved
  <2>2. CASE s.magic_sleep_flag # 0
    <3>1. t.oops = s.oops /\ \A q \in Queued(s) : t.prio[q] = s.prio[q]
      BY <1>2, <1>3, <2>2 DEF Queued
    <3>2. SameQueue(s, t)
      BY <1>2, <2>2, <3>1 DEF SameQueue
    <3> QED
      BY <3>1, <3>2, SameQueueKeeps DEF Right
  <2> QED
    BY <2>1, <2>2
<1>5. Runnable(t)
  BY <1>1 DEF Runnable
<1>6. SleeperSeen(t) /\ TimerBounded(t)
  BY <1>1 DEF SleeperSeen, TimerBounded
<1>7. PlainSleep(t)
  BY <1>1, <1>3 DEF PlainSleep
<1> QED
  BY <1>4, <1>5, <1>6, <1>7 DEF Calm, t

\* magic_tick(), unless the magic process has been woken and waits for idle's
\* schedule().
LEMMA MagicTickCalm ==
    ASSUME NEW s, SchedInv(s), Calm(s),
           s.idle_from_magic = 1 => s.state[s.magicProcess] # "RUNNING"
    PROVE  Calm(magic_tick(s))
<1> DEFINE d == [s EXCEPT !.MAGICTIME = @ - 1]
           x == exit_from_magic(d)
           n == set_tsk_need_resched(x, s.curr)
           m == s.magicProcess
<1>1. s \in KernelState /\ s.MAGICTIME \in Int /\ s.curr \in All
  BY DEF SchedInv, KernelState
<1>2. CASE s.MAGICTIME <= 0
  <2>1. magic_tick(s) = s
    BY <1>2 DEF magic_tick
  <2> QED
    BY <2>1
<1>3. CASE ~(s.MAGICTIME <= 0)
  <2>1. /\ m \in Tasks /\ m # NULL
        /\ \A p \in All : s.started_magic[p] = 1 <=> p = m
        /\ s.magic_sleep_flag = 0 => s.curr = m
    BY <1>1, <1>3, MagicIsTask DEF SchedInv, NoMagic, SomeMagic
  <2>2. s.magic_sleep_flag # 0 => s.array[m] = "null"
    <3> SUFFICES ASSUME s.magic_sleep_flag # 0 PROVE s.array[m] = "null"
      OBVIOUS
    <3>1. s.magic_sleep_flag = 1
      BY <1>1 DEF KernelState, Flag
    <3>2. s.idle_from_magic = 1 /\ s.curr = Idle
      BY <2>1, <3>1 DEF SchedInv, SomeMagic
    <3> QED
      BY <2>1, <3>2, TaskAssumption DEF Calm, Runnable
  <2>3. d \in KernelState
    <3>1. s.MAGICTIME - 1 \in Int
      BY <1>1
    <3> QED
      BY Zenon, <1>1, <3>1 DEF KernelState
  <2>4. /\ SameFields(s, d) /\ d.magicProcess = m /\ d.state = s.state
        /\ d.magic_sleep_flag = s.magic_sleep_flag /\ d.curr = s.curr
        /\ d.magic_time = s.magic_time /\ d.started_magic = s.started_magic
        /\ d.idle_from_magic = s.idle_from_magic /\ d.call_seen = s.call_seen
        /\ d.MAGICTIME = s.MAGICTIME - 1
    BY <1>1 DEF SameFields, KernelState
  <2>5. magic_tick(s) = IF d.MAGICTIME = 0 THEN n ELSE d
    BY <1>3 DEF magic_tick
  <2> HIDE DEF d
  <2>6. Calm(d)
    <3>1. Right(d)
      BY <2>4, RightSame DEF Calm
    <3>2. Runnable(d) /\ PlainSleep(d) /\ SleeperSeen(d)
      BY <2>4 DEF Calm, Runnable, PlainSleep, SleeperSeen, SameFields
    <3>3. s.magic_time[m] \in Int
      BY <1>1, <2>1 DEF KernelState, All
    <3>4. TimerBounded(d)
      BY <1>1, <2>4, <3>3 DEF Calm, TimerBounded
    <3> QED
      BY <3>1, <3>2, <3>4 DEF Calm
  <2>7. Calm(x) /\ x \in KernelState
    <3>1. d.array = s.array /\ m \in All
      BY <2>1, <2>4 DEF SameFields, All
    <3>2. Calm(x)
      BY <2>1, <2>2, <2>3, <2>4, <2>6, <3>1, ExitMagicCalm DEF Calm
    <3> QED
      BY Zenon, <2>3, <2>4, <3>1, <3>2, ExitMagicKeeps
  <2> HIDE DEF x
  <2>8. Calm(n)
    BY <1>1, <2>7, NeedReschedKeeps, OtherFieldsSame, CalmSame
  <2> QED
    BY <2>5, <2>6, <2>8
<1> QED
  BY <1>2, <1>3

\* scheduler_tick().
LEMMA SchedulerTickCalm ==
    ASSUME NEW s, SchedInv(s), Calm(s), NEW e \in UserPrios, NEW a \in Arrays,
           s.idle_from_magic = 1 => s.state[s.magicProcess] # "RUNNING"
    PROVE  Calm(scheduler_tick(s, e, a))
<1> DEFINE m == magic_tick(s)
           p == s.curr
           c == [m EXCEPT !.time_slice[p] = (@ - 1) % Word]
           n == set_tsk_need_resched(m, p)
           x == expire_task(c, p, e, a)
           t == scheduler_tick(s, e, a)
<1>1. t = IF p = Idle THEN m
          ELSE IF m.array[p] # "active" THEN n
          ELSE IF rt_task(m, p) THEN m
          ELSE IF c.time_slice[p] = 0 THEN x
          ELSE c
  BY DEF scheduler_tick
<1>2. SchedInv(m) /\ m.curr = p
  BY MagicTickInv
<1>3. Calm(m)
  BY MagicTickCalm
<1> HIDE DEF m, t
<1>4. p \in All /\ m \in KernelState
  BY <1>2 DEF SchedInv, KernelState
<1>5. Calm(n)
  BY <1>3, <1>4, NeedReschedKeeps, OtherFieldsSame, CalmSame
<1>6. c \in KernelState /\ SameFields(m, c) /\ Frame(m, c)
  <2>1. (m.time_slice[p] - 1) % Word \in 0 .. (Word - 1)
    BY <1>4, SliceAssumption DEF KernelState
  <2>2. [m.time_slice EXCEPT ![p] = (@ - 1) % Word] \in [All -> 0 .. (Word - 1)]
    BY <1>4, <2>1 DEF KernelState
  <2>3. c \in KernelState
    BY Zenon, <1>4, <2>2 DEF KernelState
  <2>4. SameFields(m, c)
    BY <1>4 DEF KernelState, SameFields
  <2> QED
    BY Zenon, <1>4, <2>3, <2>4 DEF KernelState, Frame
<1> HIDE DEF c, p, n
<1>7. Calm(c)
  BY <1>3, <1>6, CalmSame
<1>8. ASSUME p # Idle, m.array[p] = "active" PROVE Calm(x)
  <2>1. p \in Tasks /\ c.array[p] = "active"
    BY <1>4, <1>6, <1>8 DEF All, SameFields
  <2>2. Moved(c, x, p, a) /\ x.oops = c.oops /\ x.prio = [c.prio EXCEPT ![p] = e]
    BY <1>6, <2>1, ExpireMoves
  <2>3. x \in KernelState /\ Frame(c, x)
    BY Zenon, <1>4, <1>6, ExpireKeeps
  <2> HIDE DEF x
  <2> QED
    BY <1>6, <1>7, <2>1, <2>2, <2>3, CalmMoved
<1> HIDE DEF x
<1> QED
  BY <1>1, <1>3, <1>5, <1>7, <1>8 DEF t

\* The magic process lives, and schedule() has seen its last call.
Seen(s) ==
    s.magicProcess # NULL => /\ s.call_seen = 1
                             /\ s.state[s.magicProcess] # "ZOMBIE"

\* The first part of schedule().  A sleeping magic process has no unseen call
\* and is alive, so its magic does not end here.
LEMMA MagicSegmentCalm ==
    ASSUME NEW s, SchedInv(s), Calm(s)
    PROVE  LET g == magic_segment(s)
           IN  Calm(g) /\ Seen(g)
<1> DEFINE u == IF s.call_seen = 0 THEN update_magic(s) ELSE s
           g == magic_segment(s)
           m == s.magicProcess
<1>1. CASE m = NULL
  <2>1. g = s
    BY <1>1 DEF magic_segment
  <2> QED
    BY <1>1, <2>1 DEF Seen
<1>2. CASE m # NULL
  <2>1. /\ s \in KernelState /\ m \in All /\ m \in Tasks /\ s.magic_time[m] \in 0 .. (Word - 1)
        /\ s.MAGICTIME # 0 /\ s.idle_from_magic = s.magic_sleep_flag
        /\ s.idle_from_magic = 0 => s.curr = m
        /\ s.idle_from_magic = 1 => s.state[m] # "ZOMBIE"
        /\ \A p \in All : s.started_magic[p] = 1 <=> p = m
        /\ s.idle_from_magic \in {0, 1} /\ s.call_seen \in {0, 1}
    BY <1>2, MagicIsTask DEF SchedInv, KernelState, SomeMagic, Flag
  <2>2. /\ u \in KernelState /\ SameFields(s, u) /\ u.magicProcess = m
        /\ u.curr = s.curr /\ u.magic_sleep_flag = s.magic_sleep_flag
        /\ u.state = s.state /\ u.magic_time = s.magic_time
        /\ u.started_magic = s.started_magic /\ u.idle_from_magic = s.idle_from_magic
        /\ u.call_seen = 1
        /\ u.MAGICTIME = IF s.call_seen = 0 THEN ToInt(s.magic_time[m]) ELSE s.MAGICTIME
    <3>1. CASE s.call_seen = 0
      <4>1. ToInt(s.magic_time[m]) \in Int /\ 1 \in Flag
        BY <2>1, ToIntNonzero DEF Flag
      <4>2. u = [s EXCEPT !.MAGICTIME = ToInt(s.magic_time[m]), !.call_seen = 1]
        BY <3>1 DEF update_magic
      <4> HIDE DEF u
      <4>3. u \in KernelState
        BY Zenon, <2>1, <4>1, <4>2 DEF KernelState
      <4>4. SameFields(s, u)
        BY <2>1, <4>2 DEF KernelState, SameFields
      <4> QED
        BY ZenonT(40), <2>1, <3>1, <4>2, <4>3, <4>4 DEF KernelState
    <3>2. CASE s.call_seen = 1
      BY <2>1, <3>2 DEF SameFields
    <3> QED
      BY <2>1, <3>1, <3>2
  <2>3. g = IF u.state[u.magicProcess] = "ZOMBIE" \/ u.MAGICTIME = 0 THEN exit_from_magic(u) ELSE u
    BY <1>2 DEF magic_segment
  <2> HIDE DEF u, g
  <2>4. Calm(u)
    <3>1. Right(u)
      BY <2>2, RightSame DEF Calm
    <3>2. Runnable(u) /\ PlainSleep(u) /\ SleeperSeen(u)
      BY <2>2 DEF Calm, Runnable, PlainSleep, SleeperSeen, SameFields
    <3>3. ToInt(s.magic_time[m]) <= s.magic_time[m]
      BY <2>1, ToIntBound
    <3>4. TimerBounded(u)
      BY <1>2, <2>1, <2>2, <3>3 DEF Calm, TimerBounded
    <3> QED
      BY <3>1, <3>2, <3>4 DEF Calm
  <2>5. CASE u.state[m] = "ZOMBIE" \/ u.MAGICTIME = 0
    <3>1. s.idle_from_magic = 0
      BY <2>1, <2>2, <2>5 DEF Calm, SleeperSeen
    <3>2. Calm(exit_from_magic(u))
      BY <2>1, <2>2, <2>4, <3>1, ExitMagicCalm DEF Calm
    <3>3. exit_from_magic(u).magicProcess = NULL
      BY Zenon, <2>1, <2>2, ExitMagicKeeps
    <3> QED
      BY <2>2, <2>3, <2>5, <3>2, <3>3 DEF Seen, g
  <2>6. CASE ~(u.state[m] = "ZOMBIE" \/ u.MAGICTIME = 0)
    BY <2>2, <2>3, <2>4, <2>6 DEF Seen, g
  <2> QED
    BY <2>5, <2>6
<1> QED
  BY <1>1, <1>2

-----------------------------------------------------------------------------
(* schedule().                                                               *)

\* A set of numbers that is not empty has a least one.
LEMMA LeastElement ==
    ASSUME NEW S \in SUBSET Nat, S # {}
    PROVE  \E i \in S : \A j \in S : i <= j
<1>1. PICK i \in S : \A j \in S : ~(<<j, i>> \in OpToRel(<, Nat))
  BY Zenon, NatLessThanWellFounded, WFMin
<1>2. \A j \in S : ~(j < i)
  BY Zenon, <1>1 DEF OpToRel
<1> QED
  BY <1>2

\* A set of tasks that counts none is empty.
LEMMA CountNone ==
    ASSUME NEW S \in SUBSET Tasks
    PROVE  Cardinality(S) = 0 <=> S = {}
<1>1. IsFiniteSet(S)
  BY TaskAssumption, FS_Subset
<1> QED
  BY <1>1, FS_EmptySet

\* The queue s with the arrays that pick_next_task() looks at.
Filled(s) == IF s.nr_active["active"] = 0 THEN switch_arrays(s) ELSE s

\* When a task is queued there is a head of a first list for schedule() to
\* take: the bit that sched_find_first_bit() finds is that of a list that is
\* not empty.
LEMMA HeadExists ==
    ASSUME NEW s \in KernelState, Right(s), s.nr_running # 0
    PROVE  LET r == Filled(s)
           IN  \E i \in r.bitmap["active"] :
                 /\ \A j \in r.bitmap["active"] : i <= j
                 /\ queue(r, "active", i) # {}
<1> DEFINE r == Filled(s)
           w == switch_arrays(s)
<1>1. /\ w \in KernelState
      /\ \A p \in Tasks : /\ w.array[p] = "null" <=> s.array[p] = "null"
                          /\ w.array[p] = "active" <=> s.array[p] = "expired"
                          /\ w.array[p] = "expired" <=> s.array[p] = "active"
  BY SwitchArraysKeeps
<1>2. Visible(w) /\ Linked(w)
  <2>1. Keeps(s, w) /\ (Linked(s) => Linked(w)) /\ w.oops = s.oops
    BY SwitchArraysQueue, SwitchArraysKeeps
  <2> HIDE DEF w
  <2> QED
    BY <2>1 DEF Right, Keeps
<1>3. /\ s.array \in [All -> Arrays \cup {"null"}] /\ Tasks \subseteq All
      /\ Arrays = {"active", "expired"}
  BY DEF KernelState, All, Arrays
<1>4. r = IF s.nr_active["active"] = 0 THEN w ELSE s
  BY DEF Filled
<1> HIDE DEF w, r
<1>5. r \in KernelState /\ Visible(r) /\ Linked(r)
  BY <1>1, <1>2, <1>4 DEF Right
<1>6. PICK p \in Tasks : r.array[p] = "active"
  <2>1. s.nr_running = Cardinality(Queued(s)) /\ s.nr_active["active"] = Cardinality(On(s, "active"))
    BY <1>3 DEF Right, Visible
  <2>2. Queued(s) \in SUBSET Tasks /\ On(s, "active") \in SUBSET Tasks
    BY DEF Queued, On
  <2>3. Queued(s) # {}
    BY <2>1, <2>2, CountNone
  <2>4. PICK q \in Tasks : s.array[q] # "null"
    BY <2>3 DEF Queued
  <2>5. CASE s.nr_active["active"] = 0
    <3>1. On(s, "active") = {}
      BY <2>1, <2>2, <2>5, CountNone
    <3>2. s.array[q] = "expired"
      BY <1>3, <2>4, <3>1 DEF On
    <3> QED
      BY <1>1, <1>4, <2>5, <3>2
  <2>6. CASE s.nr_active["active"] # 0
    <3>1. On(s, "active") # {}
      BY <2>1, <2>2, <2>6, CountNone
    <3> QED
      BY <1>4, <2>6, <3>1 DEF On
  <2> QED
    BY <2>5, <2>6
<1>7. r.run_list[p] \in r.bitmap["active"]
  <2>1. p \in Queued(r)
    BY <1>6 DEF Queued
  <2> QED
    BY <1>5, <1>6, <2>1 DEF Visible
<1>8. r.bitmap["active"] \in SUBSET Nat
  BY <1>3, <1>5 DEF KernelState
<1>9. PICK i \in r.bitmap["active"] : \A j \in r.bitmap["active"] : i <= j
  BY <1>7, <1>8, LeastElement
<1>10. queue(r, "active", i) # {}
  BY <1>3, <1>5, <1>9 DEF Linked
<1> QED
  BY <1>9, <1>10 DEF r

\* pick_next_task(): the task that gets the CPU is runnable.
LEMMA PickCalm ==
    ASSUME NEW s, SchedInv(s), Right(s), Ready(s), s.magicProcess = NULL,
           NEW t \in pick_next_task(s)
    PROVE  Calm(t) /\ Seen(t)
<1> DEFINE r == Filled(s)
           w == switch_arrays(s)
           firsts == {i \in r.bitmap["active"] : \A j \in r.bitmap["active"] : i <= j}
           heads == UNION {queue(r, "active", i) : i \in firsts}
<1>1. s \in KernelState /\ Idle \in All /\ Tasks \subseteq All
  BY DEF SchedInv, All
<1>2. t \in IF s.nr_running = 0 THEN {switch_tasks(s, Idle)}
            ELSE IF heads = {} THEN {Oops(s)}
            ELSE {switch_tasks(r, next) : next \in heads}
  BY DEF pick_next_task, Filled
<1>3. s.nr_running # 0 => heads # {}
  BY <1>1, HeadExists
<1>4. ASSUME NEW q \in KernelState, Frame(s, q), Right(q), Ready(q), NEW next \in All,
             next \in Tasks => q.array[next] # "null", t = switch_tasks(q, next)
      PROVE  Calm(t) /\ Seen(t)
  <2>1. /\ t \in KernelState /\ t.curr = next
        /\ t.state = q.state /\ t.array = q.array
        /\ t.magicProcess = q.magicProcess /\ t.idle_from_magic = q.idle_from_magic
    BY <1>4, SwitchKeeps
  <2>2. t.magicProcess = NULL /\ t.idle_from_magic = 0
    BY <1>4, <2>1 DEF Frame, SchedInv, NoMagic
  <2>3. Right(t)
    BY <1>4, OtherFieldsSame, RightSame
  <2>4. Runnable(t) /\ PlainSleep(t)
    BY <1>4, <2>1 DEF Ready, Runnable, PlainSleep
  <2> QED
    BY <2>2, <2>3, <2>4 DEF Calm, Seen, SleeperSeen, TimerBounded
<1>5. CASE s.nr_running = 0
  <2>1. t = switch_tasks(s, Idle) /\ Frame(s, s) /\ Idle \notin Tasks
    BY <1>2, <1>5, TaskAssumption DEF Frame
  <2> QED
    BY <1>1, <1>4, <2>1
<1>6. CASE s.nr_running # 0
  <2>1. r \in KernelState /\ Frame(s, r) /\ Right(r) /\ Ready(r)
    <3>1. CASE s.nr_active["active"] = 0
      <4>1. /\ w \in KernelState /\ Frame(s, w) /\ w.oops = s.oops
            /\ \A p \in Tasks : w.array[p] = "null" <=> s.array[p] = "null"
        BY <1>1, SwitchArraysKeeps
      <4>2. Keeps(s, w) /\ (Linked(s) => Linked(w))
        BY <1>1, SwitchArraysQueue
      <4> HIDE DEF w
      <4>3. Right(w) /\ Ready(w)
        BY <4>1, <4>2 DEF Right, Ready, Keeps, Frame
      <4> QED
        BY <3>1, <4>1, <4>3 DEF Filled, w
    <3>2. CASE s.nr_active["active"] # 0
      BY <1>1, <3>2 DEF Filled, Frame
    <3> QED
      BY <3>1, <3>2
  <2>2. PICK next \in heads : t = switch_tasks(r, next)
    BY <1>2, <1>3, <1>6
  <2>3. next \in Tasks /\ r.array[next] # "null"
    BY <2>2 DEF queue
  <2> HIDE DEF r
  <2> QED
    BY <1>1, <1>4, <2>1, <2>2, <2>3
<1> QED
  BY <1>5, <1>6

\* start_magic() where schedule() calls it.
LEMMA StartedCalm ==
    ASSUME NEW s, SchedInv(s), Calm(s), Seen(s), s.magic_time[s.curr] > 0,
           s.magicProcess \in {NULL, s.curr}
    PROVE  LET b == IF s.started_magic[s.curr] = 0 THEN start_magic(s) ELSE s
           IN  Calm(b) /\ Seen(b)
<1> DEFINE p == s.curr
           t == start_magic(s)
<1>1. /\ s \in KernelState /\ p \in Tasks /\ p \in All /\ p # NULL
      /\ s.array[p] \in Arrays \cup {"null"} /\ s.magic_time[p] \in 0 .. (Word - 1)
      /\ s.started_magic \in [All -> {0, 1}]
  BY TaskAssumption DEF SchedInv, IdleInert, KernelState, All, Flag
<1>2. s.array[p] # "null"
  BY <1>1 DEF Calm, Runnable
<1>3. CASE s.started_magic[p] # 0
  BY <1>3
<1>4. CASE s.started_magic[p] = 0
  <2>1. /\ t \in KernelState
        /\ t.curr = p /\ t.state = s.state /\ t.array = s.array
        /\ t.magic_time = s.magic_time /\ t.idle_from_magic = s.idle_from_magic
        /\ t.magicProcess = p /\ t.MAGICTIME = ToInt(s.magic_time[p])
        /\ t.call_seen = 1
    BY Zenon, <1>1, StartMagicKeeps
  <2>2. /\ Moved(s, t, p, s.array[p])
        /\ t.oops = s.oops /\ t.prio = [s.prio EXCEPT ![p] = MagicPrio]
    BY <1>1, <1>2, StartMagicMoves
  <2> HIDE DEF t
  <2>3. Right(t)
    BY <1>1, <2>1, <2>2, RightMoved DEF Calm
  <2>4. s.state[p] \in {"RUNNING", "INTERRUPTIBLE"}
    BY <1>1, <1>4 DEF Calm, PlainSleep
  <2>5. Runnable(t) /\ PlainSleep(t) /\ SleeperSeen(t)
    BY <2>1, <2>4 DEF Calm, Runnable, PlainSleep, SleeperSeen
  <2>6. TimerBounded(t)
    BY <1>1, <2>1, ToIntBound DEF TimerBounded
  <2>7. Seen(t)
    BY <2>1, <2>4 DEF Seen
  <2> QED
    BY <1>4, <2>3, <2>5, <2>6, <2>7 DEF Calm, t
<1> QED
  BY <1>3, <1>4

\* The magic process goes to sleep.
LEMMA GoesToSleepCalm ==
    ASSUME NEW s, SchedInv(s), Calm(s), Seen(s), s.magic_time[s.curr] > 0,
           s.magicProcess \in {NULL, s.curr}, s.state[s.curr] = "INTERRUPTIBLE"
    PROVE  Calm(magic_goes_to_sleep(s)) /\ Seen(magic_goes_to_sleep(s))
<1> DEFINE p == s.curr
           b == IF s.started_magic[p] = 0 THEN start_magic(s) ELSE s
           f == [b EXCEPT !.idle_from_magic = 1, !.magic_sleep_flag = 1]
           d == deactivate_task(f, p)
           t == switch_tasks(d, Idle)
<1>1. magic_goes_to_sleep(s) = t
  BY DEF magic_goes_to_sleep
<1>2. /\ SchedInv(b) /\ b.curr = p /\ b.state = s.state /\ b.array = s.array
      /\ b.magicProcess = p /\ b.magic_time = s.magic_time
  BY StartedInv
<1>3. Calm(b) /\ Seen(b)
  BY StartedCalm
<1>4. p \in Tasks /\ p \in All /\ Idle \in All /\ p # NULL /\ Idle \notin Tasks
  BY TaskAssumption DEF SchedInv, IdleInert, KernelState, All
<1> HIDE DEF b, p
<1>5. b \in KernelState
  BY <1>2 DEF SchedInv
<1>6. f \in KernelState /\ SameFields(b, f)
  <2>1. 1 \in Flag
    BY DEF Flag
  <2>2. f \in KernelState
    BY Zenon, <1>5, <2>1 DEF KernelState
  <2> QED
    BY <1>5, <2>2 DEF KernelState, SameFields
<1>7. /\ f.state = b.state /\ f.magicProcess = b.magicProcess /\ f.call_seen = b.call_seen
      /\ f.MAGICTIME = b.MAGICTIME /\ f.magic_time = b.magic_time
  BY <1>5 DEF KernelState
<1> HIDE DEF f
<1>8. f.array[p] # "null" /\ Right(f)
  BY <1>2, <1>3, <1>4, <1>6, RightSame DEF Calm, Runnable, SameFields
<1>9. d \in KernelState /\ Frame(f, d) /\ d.array = [f.array EXCEPT ![p] = "null"]
  BY <1>4, <1>6, DeactivateKeeps
<1>10. Moved(f, d, p, "null") /\ d.oops = f.oops /\ d.prio = f.prio
  BY <1>4, <1>6, <1>8, DeactivateMoves
<1> HIDE DEF d
<1>11. Right(d)
  BY <1>4, <1>6, <1>8, <1>9, <1>10, RightMoved
<1>12. /\ t \in KernelState /\ t.curr = Idle
       /\ t.state = d.state /\ t.array = d.array /\ t.magic_time = d.magic_time
       /\ t.magicProcess = d.magicProcess /\ t.MAGICTIME = d.MAGICTIME
       /\ t.call_seen = d.call_seen
  BY <1>4, <1>9, SwitchKeeps
<1>13. Right(t)
  BY <1>4, <1>9, <1>11, OtherFieldsSame, RightSame
<1> HIDE DEF t
<1>14. Runnable(t)
  <2>1. \A q \in Tasks \ {p} : t.array[q] = b.array[q]
    BY <1>4, <1>6, <1>9, <1>12 DEF KernelState, All, SameFields
  <2>2. t.array[p] = "null"
    BY <1>4, <1>6, <1>9, <1>12 DEF KernelState
  <2>3. t.state = b.state /\ b.state[p] = "INTERRUPTIBLE"
    BY <1>2, <1>7, <1>9, <1>12 DEF Frame, p
  <2> QED
    BY <1>2, <1>3, <1>4, <1>12, <2>1, <2>2, <2>3 DEF Calm, Runnable
<1>15. t.call_seen = 1 /\ Seen(t)
  BY <1>2, <1>3, <1>4, <1>7, <1>9, <1>12 DEF Frame, Seen
<1>16. SleeperSeen(t) /\ PlainSleep(t)
  BY <1>4, <1>12, <1>15 DEF SleeperSeen, PlainSleep
<1>17. TimerBounded(t)
  BY <1>2, <1>3, <1>4, <1>7, <1>9, <1>12 DEF Frame, Calm, TimerBounded, Seen
<1> QED
  BY <1>1, <1>13, <1>14, <1>15, <1>16, <1>17 DEF Calm

\* The code at "case TASK_RUNNING:".
LEMMA RunningCaseCalm ==
    ASSUME NEW s, SchedInv(s), Right(s), Ready(s), s.magicProcess \in {NULL, s.curr},
           s.magicProcess # NULL => s.magic_time[s.magicProcess] > 0,
           s.magic_time[s.curr] > 0 => Calm(s) /\ Seen(s),
           NEW t \in running_case(s)
    PROVE  Calm(t) /\ Seen(t)
<1>1. s \in KernelState
  BY DEF SchedInv
<1>2. CASE s.magic_time[s.curr] > 0
  <2> DEFINE b == IF s.started_magic[s.curr] = 0 THEN start_magic(s) ELSE s
  <2>1. t = switch_tasks(b, b.magicProcess)
    BY <1>2 DEF running_case
  <2>2. SchedInv(b) /\ b.magicProcess = s.curr /\ b.curr = s.curr
    BY <1>2, StartedInv
  <2>3. Calm(b) /\ Seen(b)
    BY <1>2, StartedCalm
  <2> HIDE DEF b
  <2>4. b \in KernelState /\ b.magicProcess \in All
    BY <1>1, <2>2 DEF SchedInv, KernelState
  <2>5. SameFields(b, t)
    BY <2>1, <2>4, OtherFieldsSame
  <2>6. Frame(b, t)
    BY <2>1, <2>2, <2>4, SwitchKeeps DEF Frame
  <2> QED
    BY <2>3, <2>5, <2>6, CalmSame DEF Seen, Frame
<1>3. CASE ~(s.magic_time[s.curr] > 0)
  <2>1. t \in pick_next_task(s) /\ s.magicProcess = NULL
    BY <1>3 DEF running_case
  <2> QED
    BY <2>1, PickCalm
<1> QED
  BY <1>2, <1>3

\* The second part of schedule().
LEMMA PrevStateCalm ==
    ASSUME NEW s, SchedInv(s), Calm(s), Seen(s), s.magicProcess \in {NULL, s.curr},
           s.magicProcess # NULL => s.magic_time[s.magicProcess] > 0,
           NEW t \in prev_state_switch(s)
    PROVE  Calm(t) /\ Seen(t)
<1> DEFINE p == s.curr
<1>1. /\ s \in KernelState /\ p \in All /\ s.magic_time[p] \in 0 .. (Word - 1)
      /\ s.state \in [All -> States] /\ s.array \in [All -> Arrays \cup {"null"}]
      /\ Tasks \subseteq All
  BY DEF SchedInv, KernelState, All
<1>2. CASE s.state[p] = "RUNNING"
  <2>1. t \in running_case(s)
    BY <1>2 DEF prev_state_switch
  <2>2. Right(s) /\ Ready(s)
    BY <1>2 DEF Calm, Runnable, Ready
  <2> QED
    BY <2>1, <2>2, RunningCaseCalm
<1>3. CASE s.state[p] = "INTERRUPTIBLE" /\ s.magic_time[p] > 0
  <2>1. t = magic_goes_to_sleep(s)
    BY <1>1, <1>3 DEF prev_state_switch
  <2> QED
    BY <1>3, <2>1, GoesToSleepCalm
<1>4. CASE s.state[p] = "INTERRUPTIBLE" /\ s.magic_time[p] = 0 /\ s.sigpending[p] = 1
  <2> DEFINE r == [s EXCEPT !.state[p] = "RUNNING"]
  <2>1. t \in pick_next_task(r)
    BY <1>1, <1>4 DEF prev_state_switch
  <2>2. p \in Tasks
    BY <1>1, <1>4 DEF SchedInv, IdleInert, All
  <2>3. SchedInv(r) /\ r.state = [s.state EXCEPT ![p] = "RUNNING"]
    BY Zenon, <2>2, StateInv DEF States
  <2>4. SameFields(s, r) /\ r.magicProcess = s.magicProcess
    BY Zenon, <1>1, StateQueue DEF KernelState
  <2> HIDE DEF r
  <2>5. Right(r)
    BY <2>4, RightSame DEF Calm
  <2>6. Ready(r)
    BY <1>1, <2>2, <2>3, <2>4 DEF Calm, Runnable, Ready, SameFields
  <2>7. r.magicProcess = NULL
    BY <1>4, <2>4
  <2> QED
    BY <2>1, <2>3, <2>5, <2>6, <2>7, PickCalm
<1>5. CASE /\ s.state[p] # "RUNNING"
           /\ ~(s.state[p] = "INTERRUPTIBLE" /\ s.magic_time[p] > 0)
           /\ ~(s.state[p] = "INTERRUPTIBLE" /\ s.magic_time[p] = 0 /\ s.sigpending[p] = 1)
  <2> DEFINE d == deactivate_task(s, p)
  <2>1. t \in running_case(d)
    BY <1>5 DEF prev_state_switch
  <2>2. p \in Tasks
    BY <1>1, <1>5 DEF SchedInv, IdleInert, All
  <2>3. d \in KernelState /\ Frame(s, d) /\ d.array = [s.array EXCEPT ![p] = "null"]
    BY <1>1, DeactivateKeeps
  <2>4. Moved(s, d, p, "null") /\ d.oops = s.oops /\ d.prio = s.prio
    BY <1>1, <2>2, DeactivateMoves DEF Calm, Runnable
  <2> HIDE DEF d
  <2>5. Right(d)
    BY <1>1, <2>2, <2>3, <2>4, RightMoved DEF Calm
  <2>6. Ready(d)
    BY <1>1, <1>5, <2>2, <2>3 DEF Calm, Runnable, Ready, Frame
  <2>7. s.magic_time[p] = 0
    <3>1. s.state[p] = "INTERRUPTIBLE" => s.magic_time[p] = 0
      BY <1>1, <1>5
    <3>2. s.state[p] = "ZOMBIE" => s.started_magic[p] # 1
      BY <1>1 DEF Seen, SchedInv, NoMagic
    <3> QED
      BY <1>5, <2>2, <3>1, <3>2 DEF Calm, PlainSleep
  <2>8. SchedInv(d) /\ d.magicProcess = NULL /\ ~(d.magic_time[d.curr] > 0)
    <3>1. IdleInert(d) /\ PendingIsCurrent(d) /\ DeadNotQueued(d)
      BY <1>1, <2>3 DEF SchedInv, IdleInert, PendingIsCurrent, DeadNotQueued, Frame
    <3>2. NoMagic(d) /\ SomeMagic(d)
      BY <2>3 DEF SchedInv, NoMagic, SomeMagic, Frame
    <3>3. SchedInv(d)
      BY <2>3, <3>1, <3>2 DEF SchedInv
    <3> QED
      BY <2>3, <2>7, <3>3 DEF Frame
  <2> QED
    BY <2>1, <2>5, <2>6, <2>8, RunningCaseCalm
<1> QED
  BY <1>2, <1>3, <1>4, <1>5

\* schedule() keeps the machine running.
LEMMA ScheduleCalm ==
    ASSUME NEW s, SchedInv(s), Calm(s), NEW t \in schedule(s)
    PROVE  Calm(t) /\ Seen(t)
<1> DEFINE g == magic_segment(s)
<1>1. SchedInv(g) /\ (g.magicProcess # NULL => g.magic_time[g.magicProcess] > 0)
  BY MagicSegmentInv
<1>2. Calm(g) /\ Seen(g)
  BY MagicSegmentCalm
<1>3. t \in IF /\ g.magicProcess # NULL
               /\ g.idle_from_magic = 1
               /\ g.state[g.magicProcess] \in {"RUNNING", "INTERRUPTIBLE"}
            THEN {idle_magic_switch(g)}
            ELSE prev_state_switch(g)
  BY DEF schedule
<1> HIDE DEF g
<1>4. CASE g.magicProcess # NULL /\ g.idle_from_magic = 1
  <2> DEFINE r == [g EXCEPT !.idle_from_magic = 0, !.magic_sleep_flag = 0]
             m == g.magicProcess
  <2>1. t = IF g.state[m] = "RUNNING" THEN switch_tasks(r, m) ELSE switch_tasks(g, Idle)
    BY <1>1, <1>3, <1>4 DEF SchedInv, SomeMagic, idle_magic_switch
  <2>2. /\ g \in KernelState /\ m \in All /\ m \in Tasks /\ Idle \in All
        /\ g.curr = Idle /\ Idle \notin Tasks
    BY <1>1, <1>4, MagicIsTask, TaskAssumption DEF SchedInv, All, SomeMagic
  <2>3. r \in KernelState /\ SameFields(g, r)
    <3>1. 0 \in Flag
      BY DEF Flag
    <3>2. r \in KernelState
      BY Zenon, <2>2, <3>1 DEF KernelState
    <3> QED
      BY <2>2, <3>2 DEF KernelState, SameFields
  <2>4. /\ r.state = g.state /\ r.magicProcess = g.magicProcess /\ r.call_seen = g.call_seen
        /\ r.MAGICTIME = g.MAGICTIME /\ r.magic_time = g.magic_time /\ r.idle_from_magic = 0
    BY <2>2 DEF KernelState
  <2> HIDE DEF r
  <2>5. CASE g.state[m] = "RUNNING"
    <3>1. /\ t.curr = m
          /\ t.state = r.state /\ t.array = r.array /\ t.magic_time = r.magic_time
          /\ t.magicProcess = r.magicProcess /\ t.MAGICTIME = r.MAGICTIME
          /\ t.call_seen = r.call_seen /\ t.idle_from_magic = r.idle_from_magic
      BY <2>1, <2>2, <2>3, <2>5, SwitchKeeps
    <3>2. SameFields(r, t)
      BY <2>1, <2>2, <2>3, <2>5, OtherFieldsSame
    <3>3. Right(t)
      BY <1>2, <2>3, <3>2, RightSame DEF Calm
    <3>4. t.array = g.array
      BY <2>3, <3>1 DEF SameFields
    <3>5. Runnable(t) /\ PlainSleep(t)
      BY <1>2, <2>2, <2>4, <2>5, <3>1, <3>4 DEF Calm, Runnable, PlainSleep
    <3>6. SleeperSeen(t) /\ TimerBounded(t) /\ Seen(t)
      BY <1>2, <2>4, <3>1 DEF Calm, SleeperSeen, TimerBounded, Seen
    <3> QED
      BY <3>3, <3>5, <3>6 DEF Calm
  <2>6. CASE g.state[m] # "RUNNING"
    <3>1. SameFields(g, t)
      BY <2>1, <2>2, <2>6, OtherFieldsSame
    <3>2. Frame(g, t)
      BY <2>1, <2>2, <2>6, SwitchKeeps DEF Frame
    <3> QED
      BY <1>2, <3>1, <3>2, CalmSame DEF Seen, Frame
  <2> QED
    BY <2>5, <2>6
<1>5. CASE ~(g.magicProcess # NULL /\ g.idle_from_magic = 1)
  <2>1. g.idle_from_magic \in {0, 1}
    BY <1>1 DEF SchedInv, KernelState, Flag
  <2>2. g.magicProcess \in {NULL, g.curr}
    BY <1>1, <1>5, <2>1 DEF SchedInv, SomeMagic
  <2>3. t \in prev_state_switch(g)
    BY <1>3, <1>5
  <2> QED
    BY <1>1, <1>2, <2>2, <2>3, PrevStateCalm
<1> QED
  BY <1>4, <1>5

-----------------------------------------------------------------------------
(* Actions.                                                                  *)

\* A task that is on an array is made RUNNING.
LEMMA CalmAwake ==
    ASSUME NEW s \in KernelState, NEW w \in KernelState, NEW p \in Tasks,
           Calm(s), Frame(s, w), Right(w), w.array[p] # "null",
           \A q \in Tasks \ {p} : w.array[q] = "null" <=> s.array[q] = "null",
           NEW t, t = [w EXCEPT !.state[p] = "RUNNING"]
    PROVE  Calm(t)
<1>1. p \in All /\ s.state \in [All -> States] /\ Tasks \subseteq All
  BY DEF KernelState, All
<1>2. /\ t.curr = s.curr /\ t.array = w.array /\ t.state = [s.state EXCEPT ![p] = "RUNNING"]
      /\ t.magic_time = s.magic_time /\ t.started_magic = s.started_magic
      /\ t.magicProcess = s.magicProcess /\ t.idle_from_magic = s.idle_from_magic
      /\ t.call_seen = s.call_seen /\ t.MAGICTIME = s.MAGICTIME
  BY DEF KernelState, Frame
<1>3. Right(t)
  BY <1>1, StateQueue, RightSame
<1>4. /\ t.state[p] = "RUNNING"
      /\ \A q \in Tasks \ {p} : t.state[q] = s.state[q]
  BY <1>1, <1>2
<1>5. Runnable(t)
  BY <1>2, <1>4 DEF Calm, Runnable
<1>6. PlainSleep(t)
  BY <1>2, <1>4 DEF Calm, PlainSleep
<1>7. SleeperSeen(t) /\ TimerBounded(t)
  BY <1>2 DEF Calm, SleeperSeen, TimerBounded
<1> QED
  BY <1>3, <1>5, <1>6, <1>7 DEF Calm

\* A wakeup.
LEMMA WakeCalm ==
    ASSUME NEW s \in KernelState, NEW p \in Tasks, NEW e \in 0 .. MAX_PRIO, Calm(s)
    PROVE  Calm(try_to_wake_up(s, p, e))
<1> DEFINE a == activate_task(s, p, e)
           n == set_tsk_need_resched(a, a.curr)
           w == IF s.array[p] # "null" THEN s
                ELSE IF a.prio[p] < a.prio[a.curr] THEN n
                ELSE a
           t == [w EXCEPT !.state[p] = "RUNNING"]
<1>1. try_to_wake_up(s, p, e) = t
  BY DEF try_to_wake_up
<1>2. p \in All /\ Tasks \subseteq All /\ s.array \in [All -> Arrays \cup {"null"}]
  BY DEF KernelState, All
<1>3. CASE s.array[p] # "null"
  <2>1. w = s /\ Frame(s, s) /\ Right(s)
    BY <1>3 DEF Frame, Calm
  <2> HIDE DEF w
  <2> QED
    BY <1>1, <1>3, <2>1, CalmAwake
<1>4. CASE s.array[p] = "null"
  <2>1. a \in KernelState /\ Frame(s, a) /\ a.array = [s.array EXCEPT ![p] = "active"]
    BY <1>2, ActivateKeeps
  <2>2. /\ Moved(s, a, p, "active") /\ a.oops = s.oops
        /\ a.prio[p] = IF rt_task(s, p) THEN s.prio[p] ELSE e
    BY <1>4, ActivateMoves
  <2> HIDE DEF a
  <2>3. Right(a)
    <3>1. "active" \in Arrays \cup {"null"}
      BY DEF Arrays
    <3> QED
      BY <2>1, <2>2, <3>1, RightMoved DEF Calm
  <2>4. n \in KernelState /\ Frame(a, n) /\ SameFields(a, n)
    <3>1. a.curr \in All
      BY <2>1 DEF KernelState
    <3> QED
      BY <2>1, <3>1, NeedReschedKeeps, OtherFieldsSame
  <2> HIDE DEF n
  <2>5. w \in KernelState /\ Frame(s, w) /\ Right(w) /\ w.array = a.array
    <3>1. Right(n) /\ Frame(s, n) /\ n.array = a.array
      BY <2>1, <2>3, <2>4, RightSame DEF Frame, SameFields
    <3> QED
      BY <1>4, <2>1, <2>3, <2>4, <3>1
  <2> HIDE DEF w
  <2>6. /\ w.array[p] # "null"
        /\ \A q \in Tasks \ {p} : w.array[q] = "null" <=> s.array[q] = "null"
    BY <1>2, <2>1, <2>5
  <2> QED
    BY <1>1, <2>5, <2>6, CalmAwake
<1> QED
  BY <1>3, <1>4

\* A step to the state a function left behind.
LEMMA BecomeCalm ==
    ASSUME NEW s, Calm(s), Become(s)
    PROVE  k' = s /\ Calm(k')
BY DEF Become, Calm, Right

\* The timer interrupt.
LEMMA TickCalm ==
    ASSUME Stress = {}, Inductive, Calm(k), Tick
    PROVE  Calm(k')
<1> DEFINE c == [p \in All |-> 0]
           s == [k EXCEPT !.called = c]
<1>1. PICK e \in UserPrios, a \in Arrays : Become(scheduler_tick(s, e, a))
  BY DEF Tick
<1>2. /\ k \in KernelState /\ Idle \in All /\ 0 \in 0 .. (Word - 1) /\ 0 \in Flag
      /\ c \in [All -> Flag]
  BY SliceAssumption DEF All, Flag, Inductive, SchedInv
<1> HIDE DEF c
<1>3. SchedInv(s)
  BY Zenon, <1>2, OtherFieldsInv DEF Inductive
<1>4. SameFields(k, s) /\ Frame(k, s)
  BY <1>2 DEF SameFields, KernelState, Frame
<1> HIDE DEF s
<1>5. Calm(s)
  BY <1>4, CalmSame
<1>6. s.idle_from_magic = 1 => s.state[s.magicProcess] # "RUNNING"
  BY <1>4 DEF Tick, WokenMagicWaits, Frame
<1>7. Calm(scheduler_tick(s, e, a))
  BY <1>3, <1>5, <1>6, SchedulerTickCalm
<1> QED
  BY <1>1, <1>7, BecomeCalm

\* When schedule() returns, the timer is within the request.
LEMMA ScheduleStepCalm ==
    ASSUME Inductive, Calm(k), Schedule
    PROVE  Calm(k') /\ Seen(k')
<1>1. PICK s \in schedule(k) : Become(s)
  BY DEF Schedule
<1>2. Calm(s) /\ Seen(s)
  BY <1>1, ScheduleCalm DEF Inductive
<1> QED
  BY <1>1, <1>2, BecomeCalm

\* sys_sched_yield().
LEMMA YieldStepCalm ==
    ASSUME Inductive, Calm(k), sys_sched_yield
    PROVE  Calm(k') /\ Seen(k')
<1> DEFINE y == yield_requeue(k)
           p == k.curr
<1>1. k \in KernelState /\ p \in Tasks /\ k.array[p] # "null" /\ k.array[p] \in Arrays
  BY DEF Inductive, SchedInv, sys_sched_yield, InProcess, Calm, Runnable, KernelState, All
<1>2. PICK s \in schedule(y) : Become(s)
  BY <1>1 DEF sys_sched_yield
<1>3. SchedInv(y)
  BY <1>1, YieldRequeueInv DEF Inductive
<1>4. /\ SameFields(k, y) \/ Moved(k, y, p, k.array[p])
      /\ y \in KernelState /\ Frame(k, y) /\ y.oops = k.oops
  BY <1>1, YieldMoves DEF Calm, Right
<1> HIDE DEF y
<1>5. Calm(y)
  BY <1>1, <1>4, CalmSame, CalmMoved
<1>6. Calm(s) /\ Seen(s)
  BY <1>2, <1>3, <1>5, ScheduleCalm
<1> QED
  BY <1>2, <1>6, BecomeCalm

\* sys_magic_clock(): a call of the magic process waits for schedule().
LEMMA MagicClockCalm ==
    ASSUME Stress = {}, Inductive, Calm(k), NEW sec \in Seconds, sys_magic_clock(sec)
    PROVE  Calm(k')
<1> DEFINE p == k.curr
           n == (sec * HZ) % Word
           f == IF p = k.magicProcess /\ ~SameJiffy THEN 0 ELSE k.call_seen
<1>1. /\ k' = [k EXCEPT !.magic_time[p] = n, !.called[p] = 1, !.call_seen = f]
      /\ p \in Tasks /\ k.state[p] = "RUNNING" /\ ~SameJiffy
  BY DEF sys_magic_clock, InProcess
<1>2. f = IF p = k.magicProcess THEN 0 ELSE k.call_seen
  BY <1>1
<1> HIDE DEF n, f
<1>3. k \in KernelState /\ p \in All /\ k.idle_from_magic \in {0, 1}
  BY DEF Inductive, SchedInv, KernelState, Flag
<1>4. SameFields(k, k')
  BY <1>1, <1>3 DEF KernelState, SameFields
<1>5. /\ k'.curr = p /\ k'.state = k.state /\ k'.array = k.array
      /\ k'.idle_from_magic = k.idle_from_magic /\ k'.magicProcess = k.magicProcess
      /\ k'.MAGICTIME = k.MAGICTIME /\ k'.call_seen = f
      /\ k'.magic_time = [k.magic_time EXCEPT ![p] = n]
  BY <1>1, <1>3 DEF KernelState
<1>6. Right(k')
  BY <1>4, RightSame DEF Calm
<1>7. Runnable(k') /\ PlainSleep(k')
  BY <1>1, <1>5 DEF Calm, Runnable, PlainSleep
<1>8. SleeperSeen(k')
  <2>1. k.idle_from_magic = 0
    BY <1>1, <1>3, TaskAssumption DEF Inductive, SchedInv, NoMagic, SomeMagic
  <2> QED
    BY <1>5, <2>1 DEF SleeperSeen
<1>9. TimerBounded(k')
  <2>1. k.magic_time \in [All -> 0 .. (Word - 1)] /\ k.magicProcess \in All \cup {NULL}
    BY <1>3 DEF KernelState
  <2> QED
    BY <1>2, <1>3, <1>5, <2>1 DEF Calm, TimerBounded
<1> QED
  BY <1>6, <1>7, <1>8, <1>9 DEF Calm

\* set_current_state().
LEMMA SetStateCalm ==
    ASSUME Stress = {}, Inductive, Calm(k),
           NEW new \in Sleeps \cup {"RUNNING"}, set_current_state(new)
    PROVE  Calm(k')
<1> DEFINE p == k.curr
<1>1. /\ k' = [k EXCEPT !.state[p] = new] /\ p \in Tasks
      /\ new \in {"RUNNING", "INTERRUPTIBLE"} \/ k.magic_time[p] = 0
  BY DEF set_current_state
<1>2. k \in KernelState /\ p \in All /\ k.state \in [All -> States] /\ Tasks \subseteq All
  BY DEF Inductive, SchedInv, KernelState, All
<1>3. Right(k')
  BY <1>1, <1>2, StateQueue, RightSame DEF Calm
<1>4. /\ k'.curr = p /\ k'.array = k.array /\ k'.state = [k.state EXCEPT ![p] = new]
      /\ k'.idle_from_magic = k.idle_from_magic /\ k'.magicProcess = k.magicProcess
      /\ k'.MAGICTIME = k.MAGICTIME /\ k'.call_seen = k.call_seen
      /\ k'.magic_time = k.magic_time
  BY <1>1, <1>2 DEF KernelState
<1>5. k'.state[p] = new /\ \A q \in Tasks \ {p} : k'.state[q] = k.state[q]
  BY <1>2, <1>4
<1>6. Runnable(k') /\ PlainSleep(k')
  BY <1>1, <1>4, <1>5 DEF Calm, Runnable, PlainSleep
<1>7. SleeperSeen(k') /\ TimerBounded(k')
  BY <1>4 DEF Calm, SleeperSeen, TimerBounded
<1> QED
  BY <1>3, <1>6, <1>7 DEF Calm

\* A wakeup.
LEMMA WakeUpCalm ==
    ASSUME Inductive, Calm(k), NEW p \in Tasks, wake_up_process(p)
    PROVE  Calm(k')
<1>1. PICK e \in UserPrios \cup {k.prio[p]} : Become(try_to_wake_up(k, p, e))
  BY DEF wake_up_process
<1>2. k \in KernelState /\ k.prio[p] \in 0 .. MAX_PRIO
  BY DEF Inductive, SchedInv, KernelState, All
<1>3. e \in 0 .. MAX_PRIO
  BY Zenon, <1>1, <1>2, PrioRanges
<1>4. Calm(try_to_wake_up(k, p, e))
  BY <1>2, <1>3, WakeCalm
<1> QED
  BY <1>1, <1>4, BecomeCalm

\* The pending signals are no business of the queue.
LEMMA SignalFields ==
    ASSUME NEW s \in KernelState, NEW p, NEW x, NEW t, t = [s EXCEPT !.sigpending[p] = x]
    PROVE  SameFields(s, t) /\ Frame(s, t)
<1>1. SameFields(s, t)
  BY DEF KernelState, SameFields
<1> QED
  BY <1>1 DEF KernelState, Frame

\* The delivery of a signal, and its handling.
LEMMA SignalCalm ==
    ASSUME Inductive, Calm(k), TakeSignal \/ \E p \in Tasks : Signal(p)
    PROVE  Calm(k')
<1>0. k \in KernelState
  BY DEF Inductive, SchedInv
<1>1. CASE TakeSignal
  <2>1. SameFields(k, k') /\ Frame(k, k')
    BY <1>0, <1>1, SignalFields DEF TakeSignal
  <2> QED
    BY <2>1, CalmSame
<1>2. ASSUME NEW p \in Tasks, Signal(p) PROVE Calm(k')
  <2> DEFINE s == [k EXCEPT !.sigpending[p] = 1]
             w(e) == IF k.state[p] = "INTERRUPTIBLE" THEN try_to_wake_up(s, p, e) ELSE s
  <2>1. PICK e \in UserPrios \cup {k.prio[p]} : Become(w(e))
    BY <1>2 DEF Signal
  <2>2. k.prio[p] \in 0 .. MAX_PRIO /\ p \in All
    BY <1>0 DEF KernelState, All
  <2>3. e \in 0 .. MAX_PRIO
    BY <2>1, <2>2, PrioRanges
  <2>4. 1 \in Flag /\ 0 \in 0 .. (Word - 1) /\ [q \in All |-> 1] \in [All -> Flag]
    BY SliceAssumption DEF Flag
  <2>5. SchedInv(s)
    BY Zenon, <2>2, <2>4, OtherFieldsInv DEF Inductive
  <2>6. s \in KernelState /\ SameFields(k, s) /\ Frame(k, s)
    BY <1>0, <2>5, SignalFields DEF SchedInv
  <2> HIDE DEF s
  <2>7. Calm(s)
    BY <2>6, CalmSame
  <2>8. Calm(try_to_wake_up(s, p, e))
    BY <2>3, <2>6, <2>7, WakeCalm
  <2>9. Calm(w(e))
    BY <2>7, <2>8
  <2> HIDE DEF w
  <2> QED
    BY <2>1, <2>9, BecomeCalm
<1> QED
  BY <1>1, <1>2

\* do_exit(): a process that exits with magic time is the magic process.
LEMMA ExitCalm ==
    ASSUME Stress = {}, Inductive, Calm(k), do_exit
    PROVE  Calm(k')
<1> DEFINE p == k.curr
           z == [k EXCEPT !.state[p] = "ZOMBIE"]
           n(par, e) == do_notify_parent(z, par, e)
           x(par, e, sig) == [n(par, e) EXCEPT !.sigpending[par] = sig]
<1>1. /\ p \in Tasks /\ p \in All /\ k \in KernelState /\ Tasks \subseteq All
      /\ k.magic_time[p] = 0 \/ k.started_magic[p] = 1
      /\ k.state \in [All -> States]
  BY DEF do_exit, InProcess, All, Inductive, SchedInv, KernelState
<1>2. SchedInv(z) /\ z.state = [k.state EXCEPT ![p] = "ZOMBIE"]
  <2>1. "ZOMBIE" \in States \ {"UNUSED"}
    BY DEF States
  <2> QED
    BY Zenon, <1>1, <2>1, StateInv DEF Inductive
<1>3. z \in KernelState /\ SameFields(k, z)
  BY Zenon, <1>1, <1>2, StateQueue DEF SchedInv
<1>4. /\ z.curr = p /\ z.started_magic = k.started_magic
      /\ z.idle_from_magic = k.idle_from_magic /\ z.magicProcess = k.magicProcess
      /\ z.MAGICTIME = k.MAGICTIME /\ z.call_seen = k.call_seen
      /\ z.magic_time = k.magic_time
  BY <1>1 DEF KernelState
<1> HIDE DEF z
<1>5. Calm(z)
  <2>1. Right(z)
    BY <1>3, RightSame DEF Calm
  <2>2. z.state[p] = "ZOMBIE" /\ \A q \in Tasks \ {p} : z.state[q] = k.state[q]
    BY <1>1, <1>2
  <2>3. Runnable(z) /\ PlainSleep(z)
    BY <1>1, <1>3, <1>4, <2>2 DEF Calm, Runnable, PlainSleep, SameFields
  <2>4. SleeperSeen(z) /\ TimerBounded(z)
    BY <1>4 DEF Calm, SleeperSeen, TimerBounded
  <2> QED
    BY <2>1, <2>3, <2>4 DEF Calm
<1>6. CASE k' = z
  BY <1>5, <1>6
<1>7. CASE \E par \in Tasks : \E e \in UserPrios \cup {k.prio[par]}, sig \in {k.sigpending[par], 1} :
              Become(x(par, e, sig))
  <2>1. PICK par \in Tasks :
           \E e \in UserPrios \cup {k.prio[par]}, sig \in {k.sigpending[par], 1} :
              Become(x(par, e, sig))
    BY <1>7
  <2>2. PICK e \in UserPrios \cup {k.prio[par]}, sig \in {k.sigpending[par], 1} :
           Become(x(par, e, sig))
    BY <2>1
  <2>3. par \in All /\ k.prio[par] \in 0 .. MAX_PRIO
    BY <1>1 DEF KernelState, All
  <2>4. e \in 0 .. MAX_PRIO
    BY <2>3, PrioRanges
  <2>5. Calm(n(par, e)) /\ n(par, e) \in KernelState
    <3>1. CASE z.state[par] = "INTERRUPTIBLE"
      <4>1. n(par, e) = try_to_wake_up(z, par, e)
        BY <3>1 DEF do_notify_parent
      <4>2. SchedInv(try_to_wake_up(z, par, e))
        BY Zenon, <1>2, <2>4, <3>1, WakeInv
      <4>3. Calm(try_to_wake_up(z, par, e))
        BY <1>3, <1>5, <2>4, WakeCalm
      <4> QED
        BY <4>1, <4>2, <4>3 DEF SchedInv
    <3>2. CASE z.state[par] # "INTERRUPTIBLE"
      BY <1>3, <1>5, <3>2 DEF do_notify_parent
    <3> QED
      BY <3>1, <3>2
  <2> HIDE DEF n
  <2>6. SameFields(n(par, e), x(par, e, sig)) /\ Frame(n(par, e), x(par, e, sig))
    BY <2>5, SignalFields
  <2> HIDE DEF x
  <2>7. Calm(x(par, e, sig))
    BY <2>5, <2>6, CalmSame
  <2> QED
    BY <2>2, <2>7, BecomeCalm
<1> QED
  BY <1>6, <1>7 DEF do_exit, z

\* sys_wait4().
LEMMA WaitCalm ==
    ASSUME Inductive, Calm(k), NEW z \in Tasks, sys_wait4(z)
    PROVE  Calm(k')
<1> DEFINE x == sched_exit(k, z)
           m == k.magicProcess
<1>1. /\ k' = [x EXCEPT !.state[z] = "UNUSED", !.prio[z] = MAX_PRIO, !.time_slice[z] = 0,
                        !.first_time_slice[z] = 0, !.need_resched[z] = 0,
                        !.sigpending[z] = 0, !.holding_wand[z] = 0, !.magic_time[z] = 0,
                        !.started_magic[z] = 0, !.called[z] = 0]
      /\ k.state[z] = "ZOMBIE" /\ k.curr \in Tasks /\ k.state[k.curr] = "RUNNING"
  BY Zenon DEF sys_wait4, release_task, InProcess
<1>2. /\ z \in All /\ k \in KernelState /\ z # k.curr /\ k.array[z] = "null" /\ Tasks \subseteq All
      /\ k.idle_from_magic \in {0, 1} /\ k.state \in [All -> States]
      /\ k.magic_time \in [All -> 0 .. (Word - 1)] /\ k.prio \in [All -> 0 .. MAX_PRIO]
      /\ k.magicProcess \in All \cup {NULL}
  BY Zenon, <1>1 DEF All, Inductive, SchedInv, DeadNotQueued, KernelState, Flag
<1>3. x = k \/ \E n : x = [k EXCEPT !.time_slice[k.curr] = n]
  BY Zenon DEF sched_exit
<1>4. /\ SameFields(k, x) /\ x.state = k.state /\ x.curr = k.curr
      /\ x.magic_time = k.magic_time /\ x.magicProcess = k.magicProcess
      /\ x.idle_from_magic = k.idle_from_magic /\ x.MAGICTIME = k.MAGICTIME
      /\ x.call_seen = k.call_seen /\ DOMAIN x = DOMAIN k
  BY <1>2, <1>3 DEF KernelState, SameFields
<1> HIDE DEF x
<1>5. /\ k'.array = k.array /\ k'.run_list = k.run_list /\ k'.bitmap = k.bitmap
      /\ k'.nr_active = k.nr_active /\ k'.nr_running = k.nr_running /\ k'.oops = k.oops
      /\ k'.prio = [k.prio EXCEPT ![z] = MAX_PRIO]
  BY Zenon, <1>1, <1>2, <1>4 DEF KernelState, SameFields
<1>6. /\ k'.curr = k.curr /\ k'.magicProcess = m
      /\ k'.idle_from_magic = k.idle_from_magic /\ k'.MAGICTIME = k.MAGICTIME
      /\ k'.call_seen = k.call_seen
      /\ k'.state = [k.state EXCEPT ![z] = "UNUSED"]
      /\ k'.magic_time = [k.magic_time EXCEPT ![z] = 0]
  BY <1>1, <1>2, <1>4 DEF KernelState
<1>7. SameQueue(k, k')
  BY <1>2, <1>5 DEF SameQueue, Queued
<1>8. Right(k')
  BY <1>5, <1>7, SameQueueKeeps DEF Calm, Right
<1>9. k'.state[z] = "UNUSED" /\ \A q \in Tasks \ {z} : k'.state[q] = k.state[q]
  BY <1>2, <1>6
<1>10. Runnable(k') /\ PlainSleep(k')
  <2>0. k.curr \in Tasks \ {z} /\ k.state[k.curr] = "RUNNING"
    BY <1>2 DEF sys_wait4, InProcess
  <2>1. k'.state[k'.curr] = "RUNNING"
    BY <1>6, <1>9, <2>0
  <2>2. \A p \in Tasks \ {k.curr} : k'.state[p] = "RUNNING" <=> k'.array[p] # "null"
    BY <1>2, <1>5, <1>9 DEF Calm, Runnable
  <2> QED
    BY <1>5, <1>6, <2>1, <2>2 DEF Calm, Runnable, PlainSleep
<1>11. z # m
  BY <1>1, <1>2, TaskAssumption DEF Inductive, SchedInv, SomeMagic
<1>12. SleeperSeen(k') /\ TimerBounded(k')
  BY <1>2, <1>6, <1>11 DEF Calm, SleeperSeen, TimerBounded
<1> QED
  BY <1>8, <1>10, <1>12 DEF Calm

\* set_user_nice().
LEMMA NiceCalm ==
    ASSUME Inductive, Calm(k), NEW p \in Tasks, NEW e \in UserPrios, set_user_nice(p, e)
    PROVE  Calm(k')
<1> DEFINE r == IF k.array[p] = "null" THEN [k EXCEPT !.prio[p] = e] ELSE requeue(k, p, e)
           n == set_tsk_need_resched(r, p)
           t == IF k.array[p] # "null" /\ p = k.curr THEN n ELSE r
<1>1. Become(t)
  BY DEF set_user_nice
<1>2. /\ k \in KernelState /\ p \in All /\ e \in 0 .. MAX_PRIO /\ Tasks \subseteq All
      /\ k.array[p] \in Arrays \cup {"null"}
  BY PrioRanges DEF Inductive, SchedInv, All, KernelState
<1>3. r \in KernelState /\ Frame(k, r) /\ r.array = k.array
  BY <1>2, PrioKeeps, RequeueKeeps
<1>4. Right(r)
  <2>1. CASE k.array[p] = "null"
    <3>1. r = [k EXCEPT !.prio[p] = e]
      BY <2>1
    <3> HIDE DEF r
    <3>2. /\ r.run_list = k.run_list /\ r.bitmap = k.bitmap
          /\ r.nr_active = k.nr_active /\ r.nr_running = k.nr_running /\ r.oops = k.oops
          /\ \A q \in Tasks \ {p} : r.prio[q] = k.prio[q]
      BY <1>2, <3>1 DEF KernelState
    <3>3. SameQueue(k, r)
      BY <1>3, <2>1, <3>2 DEF SameQueue, Queued
    <3> QED
      BY <3>2, <3>3, SameQueueKeeps DEF Calm, Right
  <2>2. CASE k.array[p] # "null"
    <3> DEFINE q == requeue(k, p, e)
    <3>1. /\ Moved(k, q, p, k.array[p])
          /\ q.oops = k.oops /\ q.prio = [k.prio EXCEPT ![p] = e]
      BY <1>2, <2>2, RequeueMoves
    <3>2. r = q
      BY <2>2
    <3> HIDE DEF r, q
    <3> QED
      BY <1>2, <1>3, <3>1, <3>2, RightMoved DEF Calm
  <2> QED
    BY <2>1, <2>2
<1> HIDE DEF r
<1>5. Calm(r)
  BY <1>3, <1>4, CalmFrame DEF SameQueued
<1>6. Calm(n)
  BY <1>2, <1>3, <1>5, NeedReschedKeeps, OtherFieldsSame, CalmSame
<1> HIDE DEF n
<1>7. Calm(t)
  BY <1>5, <1>6
<1> HIDE DEF t
<1> QED
  BY <1>1, <1>7, BecomeCalm

\* do_fork(): the child is put on the queue as it becomes RUNNING.
LEMMA ForkedCalm ==
    ASSUME NEW s, SchedInv(s), Calm(s), NEW c \in Tasks, c # s.curr, s.array[c] = "null",
           NEW f \in UserPrios
    PROVE  Calm(wake_up_forked_process(s, c, f)) /\ wake_up_forked_process(s, c, f) \in KernelState
<1> DEFINE r == [s EXCEPT !.state[c] = "RUNNING"]
           t == activate_task(r, c, f)
<1>1. t = wake_up_forked_process(s, c, f)
  BY DEF wake_up_forked_process
<1>2. /\ s \in KernelState /\ c \in All /\ f \in 0 .. MAX_PRIO /\ Tasks \subseteq All
      /\ s.state \in [All -> States] /\ s.array \in [All -> Arrays \cup {"null"}]
      /\ "active" \in Arrays \cup {"null"}
  BY PrioRanges DEF SchedInv, All, KernelState, Arrays
<1>3. r \in KernelState
  <2>1. [s.state EXCEPT ![c] = "RUNNING"] \in [All -> States]
    BY <1>2 DEF States
  <2> QED
    BY Zenon, <1>2, <2>1 DEF KernelState
<1>4. SameFields(s, r)
  BY <1>2, StateQueue
<1>5. /\ r.curr = s.curr /\ r.state = [s.state EXCEPT ![c] = "RUNNING"]
      /\ r.magic_time = s.magic_time /\ r.started_magic = s.started_magic
      /\ r.magicProcess = s.magicProcess /\ r.idle_from_magic = s.idle_from_magic
      /\ r.call_seen = s.call_seen /\ r.MAGICTIME = s.MAGICTIME
  BY <1>2 DEF KernelState
<1> HIDE DEF r
<1>6. t \in KernelState /\ Frame(r, t) /\ t.array = [r.array EXCEPT ![c] = "active"]
  BY <1>2, <1>3, ActivateKeeps
<1>7. r.array[c] = "null" /\ Right(r)
  BY <1>4, RightSame DEF SameFields, Calm
<1>8. /\ Moved(r, t, c, "active") /\ t.oops = r.oops
      /\ t.prio[c] = IF rt_task(r, c) THEN r.prio[c] ELSE f
  BY <1>2, <1>3, <1>7, ActivateMoves
<1> HIDE DEF t
<1>9. Right(t)
  BY <1>2, <1>3, <1>6, <1>7, <1>8, RightMoved
<1>10. /\ t.state[c] = "RUNNING" /\ t.array[c] = "active"
       /\ \A q \in Tasks \ {c} : t.state[q] = s.state[q] /\ t.array[q] = s.array[q]
  BY <1>2, <1>4, <1>5, <1>6 DEF Frame, SameFields
<1>11. t.curr = s.curr /\ t.magic_time = s.magic_time /\ t.started_magic = s.started_magic
  BY <1>5, <1>6 DEF Frame
<1>12. Runnable(t) /\ PlainSleep(t)
  BY <1>10, <1>11 DEF Calm, Runnable, PlainSleep
<1>13. SleeperSeen(t) /\ TimerBounded(t)
  BY <1>5, <1>6 DEF Calm, SleeperSeen, TimerBounded, Frame
<1> QED
  BY <1>1, <1>6, <1>9, <1>12, <1>13 DEF Calm

\* do_fork().
LEMMA ForkCalm ==
    ASSUME Stress = {}, Inductive, Calm(k), NEW c \in Tasks, do_fork(c)
    PROVE  Calm(k')
<1> DEFINE p == k.curr
           slice == k.time_slice[p]
           copy == [k EXCEPT !.prio[c] = k.prio[p],
                             !.need_resched[c] = k.need_resched[p],
                             !.time_slice[c] = (slice + 1) \div 2,
                             !.first_time_slice[c] = 1]
           s(e, a) == IF slice = 1 THEN scheduler_tick(copy, e, a)
                      ELSE [copy EXCEPT !.time_slice[p] = slice \div 2]
           w(e, f, a) == wake_up_forked_process(s(e, a), c, f)
           n(e, f, a) == set_tsk_need_resched(w(e, f, a), p)
<1>1. slice # 0 /\ \E e \in UserPrios, f \in UserPrios, a \in Arrays : Become(n(e, f, a))
  BY Zenon DEF do_fork
<1>2. /\ k \in KernelState /\ p \in All /\ c \in All /\ Tasks \subseteq All
      /\ k.prio[p] \in 0 .. MAX_PRIO /\ k.need_resched[p] \in Flag /\ slice \in 0 .. (Word - 1)
      /\ k.idle_from_magic \in {0, 1}
  BY DEF Inductive, SchedInv, KernelState, All, Flag
<1>3. c # p /\ k.state[c] = "UNUSED" /\ k.array[c] = "null" /\ p \in Tasks
  BY <1>2 DEF do_fork, InProcess, Inductive, SchedInv, DeadNotQueued
<1>4. (slice + 1) \div 2 \in 0 .. (Word - 1) /\ slice \div 2 \in 0 .. (Word - 1)
  BY <1>1, <1>2, SliceAssumption
<1>5. copy \in KernelState
  <2>1. [k.prio EXCEPT ![c] = k.prio[p]] \in [All -> 0 .. MAX_PRIO]
    BY <1>2 DEF KernelState
  <2>2. [k.need_resched EXCEPT ![c] = k.need_resched[p]] \in [All -> Flag]
    BY <1>2 DEF KernelState
  <2>3. [k.time_slice EXCEPT ![c] = (slice + 1) \div 2] \in [All -> 0 .. (Word - 1)]
    BY <1>2, <1>4 DEF KernelState
  <2>4. [k.first_time_slice EXCEPT ![c] = 1] \in [All -> Flag]
    BY <1>2 DEF KernelState, Flag
  <2> HIDE DEF slice, p
  <2> QED
    BY Zenon, <1>2, <2>1, <2>2, <2>3, <2>4 DEF KernelState
<1>6. /\ Frame(k, copy) /\ copy.array = k.array
      /\ copy.run_list = k.run_list /\ copy.bitmap = k.bitmap
      /\ copy.nr_active = k.nr_active /\ copy.nr_running = k.nr_running
      /\ copy.prio = [k.prio EXCEPT ![c] = k.prio[p]] /\ copy.oops = k.oops
  BY <1>2 DEF KernelState, Frame
<1> HIDE DEF copy, slice
<1>7. SchedInv(copy)
  BY <1>5, <1>6, InvOfFrame DEF Inductive
<1>8. Calm(copy)
  <2>1. SameQueue(k, copy)
    BY <1>2, <1>3, <1>6 DEF SameQueue, Queued, KernelState
  <2>2. Right(copy)
    BY <1>6, <2>1, SameQueueKeeps DEF Calm, Right
  <2> QED
    BY <1>6, <2>2, CalmFrame DEF SameQueued
<1>9. copy.idle_from_magic = 0
  BY <1>2, <1>3, <1>6, TaskAssumption DEF Frame, Inductive, SchedInv, NoMagic, SomeMagic
<1>10. PICK e \in UserPrios, f \in UserPrios, a \in Arrays : Become(n(e, f, a))
  BY <1>1
<1>11. SchedInv(s(e, a)) /\ s(e, a).curr = p /\ s(e, a).state = k.state /\ Calm(s(e, a))
  <2>1. CASE slice = 1
    <3>1. s(e, a) = scheduler_tick(copy, e, a)
      BY <2>1
    <3> HIDE DEF s
    <3>2. Calm(scheduler_tick(copy, e, a))
      BY <1>7, <1>8, <1>9, SchedulerTickCalm
    <3> QED
      BY <1>6, <1>7, <3>1, <3>2, SchedulerTickInv DEF Frame
  <2>2. CASE slice # 1
    <3> DEFINE t == [copy EXCEPT !.time_slice[p] = slice \div 2]
    <3>1. 0 \in Flag /\ [q \in All |-> 0] \in [All -> Flag]
      BY DEF Flag
    <3>2. SchedInv(t)
      BY Zenon, <1>2, <1>4, <1>7, <3>1, OtherFieldsInv
    <3>3. SameFields(copy, t)
      BY <1>5 DEF KernelState, SameFields
    <3>4. Frame(copy, t)
      BY <1>5 DEF KernelState, Frame
    <3>5. s(e, a) = t
      BY <2>2
    <3> HIDE DEF t, s
    <3>6. Calm(t)
      BY <1>8, <3>3, <3>4, CalmSame
    <3> QED
      BY <1>6, <3>2, <3>4, <3>5, <3>6 DEF Frame
  <2> QED
    BY <2>1, <2>2
<1> HIDE DEF s
<1>12. s(e, a).array[c] = "null"
  BY <1>2, <1>3, <1>11 DEF SchedInv, DeadNotQueued
<1>13. Calm(w(e, f, a)) /\ w(e, f, a) \in KernelState
  BY <1>3, <1>11, <1>12, ForkedCalm
<1> HIDE DEF w
<1>14. Calm(n(e, f, a))
  BY <1>2, <1>13, NeedReschedKeeps, OtherFieldsSame, CalmSame
<1> HIDE DEF n
<1> QED
  BY <1>10, <1>14, BecomeCalm

-----------------------------------------------------------------------------
(* Theorems.                                                                 *)

\* The kernel boots with its boot tasks queued and no magic.
LEMMA InitCalm ==
    ASSUME Init
    PROVE  Calm(k)
<1> DEFINE i == CHOOSE e \in UserPrios : TRUE
<1>1. PICK first \in Boot :
         /\ k.curr = first /\ k.oops = 0 /\ k.magicProcess = NULL /\ k.idle_from_magic = 0
         /\ k.state = [p \in All |-> IF p \in Boot \cup {Idle} THEN "RUNNING" ELSE "UNUSED"]
         /\ k.array = [p \in All |-> IF p \in Boot THEN "active" ELSE "null"]
  BY DEF Init
<1>2. Boot \subseteq Tasks /\ Tasks \subseteq All /\ Idle \notin Tasks
  BY ClockAssumption, TaskAssumption DEF All
<1>3. Right(k)
  BY <1>1, InitQueue DEF Right
<1>4. Runnable(k) /\ PlainSleep(k)
  BY <1>1, <1>2 DEF Runnable, PlainSleep
<1>5. SleeperSeen(k) /\ TimerBounded(k)
  BY <1>1 DEF SleeperSeen, TimerBounded
<1> QED
  BY <1>3, <1>4, <1>5 DEF Calm

\* No step of a calm machine stops it or upsets its queue.
LEMMA CalmStep ==
    ASSUME Stress = {}, Inductive, Calm(k), [Next]_k
    PROVE  Calm(k')
<1>1. CASE Tick
  BY <1>1, TickCalm
<1>2. CASE Schedule
  BY <1>2, ScheduleStepCalm
<1>3. CASE \E sec \in Seconds : sys_magic_clock(sec)
  BY <1>3, MagicClockCalm
<1>4. CASE \E new \in Sleeps \cup {"RUNNING"} : set_current_state(new)
  BY <1>4, SetStateCalm
<1>5. CASE \E p \in Tasks : wake_up_process(p)
  BY <1>5, WakeUpCalm
<1>6. CASE TakeSignal \/ \E p \in Tasks : Signal(p)
  BY <1>6, SignalCalm
<1>7. CASE \E c \in Tasks : do_fork(c)
  BY <1>7, ForkCalm
<1>8. CASE do_exit
  BY <1>8, ExitCalm
<1>9. CASE \E z \in Tasks : sys_wait4(z)
  BY <1>9, WaitCalm
<1>10. CASE sys_sched_yield
  BY <1>10, YieldStepCalm
<1>11. CASE \E p \in Tasks, e \in UserPrios : set_user_nice(p, e)
  BY <1>11, NiceCalm
<1>12. CASE UNCHANGED k
  BY <1>12
<1> QED
  BY <1>1, <1>2, <1>3, <1>4, <1>5, <1>6, <1>7, <1>8, <1>9, <1>10, <1>11, <1>12 DEF Next

\* The invariant of the calm machine.
THEOREM CalmInvariantHolds ==
    ASSUME Stress = {}
    PROVE  Spec => []CalmInvariant
<1>1. Init => CalmInvariant
  BY InitInv, InitCalm DEF CalmInvariant
<1>2. CalmInvariant /\ [Next]_k => CalmInvariant'
  BY StepInv, CalmStep DEF CalmInvariant
<1> QED
  BY <1>1, <1>2, PTL DEF Spec

\* schedule(), scheduler_tick() and sys_sched_yield() never follow a null array
\* or an empty list head, and do_fork() never meets its BUG(), when none of the
\* situations the magic clock code overlooks occurs.
THEOREM NoOopsHolds ==
    ASSUME Stress = {}
    PROVE  Spec => []NoOops
<1>1. CalmInvariant => NoOops
  BY DEF CalmInvariant, Calm, Right, NoOops
<1> QED
  BY <1>1, CalmInvariantHolds, PTL

\* A queued task is on the list of its own priority, which start_magic(),
\* exit_from_magic() and set_user_nice() change, and no bit stands for an empty
\* list.
THEOREM QueueConsistentHolds ==
    ASSUME Stress = {}
    PROVE  Spec => []QueueConsistent
<1>1. CalmInvariant => QueueConsistent
  BY DEF CalmInvariant, Calm, Right, Linked, Queued, QueueConsistent
<1> QED
  BY <1>1, CalmInvariantHolds, PTL

\* Apart from current, the tasks on the run queue are the runnable ones: no
\* wakeup is lost and no sleeper is picked, although the magic process leaves
\* and returns to the CPU past the queue.
THEOREM RunnableIffQueuedHolds ==
    ASSUME Stress = {}
    PROVE  Spec => []RunnableIffQueued
<1>1. CalmInvariant => RunnableIffQueued
  BY DEF CalmInvariant, Calm, Runnable, RunnableIffQueued, CurrentQueued
<1> QED
  BY <1>1, CalmInvariantHolds, PTL

\* When schedule() returns, MAGICTIME is at most the time the magic process
\* last asked sys_magic_clock() for, however it is converted to int.
THEOREM TimerWithinRequestHolds ==
    ASSUME Stress = {}
    PROVE  Spec => TimerWithinRequest
<1>1. ASSUME CalmInvariant, [Next]_k
      PROVE  [(Schedule \/ sys_sched_yield) /\ k'.magicProcess # NULL
                 => k'.MAGICTIME <= k'.magic_time[k'.magicProcess]]_k
  <2> SUFFICES ASSUME Schedule \/ sys_sched_yield, k'.magicProcess # NULL
               PROVE  k'.MAGICTIME <= k'.magic_time[k'.magicProcess]
    OBVIOUS
  <2>1. Calm(k') /\ Seen(k')
    BY <1>1, ScheduleStepCalm, YieldStepCalm DEF CalmInvariant
  <2> QED
    BY <2>1 DEF Calm, TimerBounded, Seen
<1> QED
  BY <1>1, CalmInvariantHolds, PTL DEF Spec, TimerWithinRequest

=============================================================================
