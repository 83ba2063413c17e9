---------------------------- MODULE SchedProofs ----------------------------
(***************************************************************************)
(* Proofs about the scheduler with the magic clock, for any set of tasks,  *)
(* any width of unsigned int and any timeslice.                            *)
(*                                                                         *)
(* There is a lemma for each C function saying that its result is again a  *)
(* scheduling state and which of the fields that SchedInv speaks of it may *)
(* have changed; the lemmas about the actions and the theorems rest on     *)
(* them.                                                                   *)
(***************************************************************************)
EXTENDS MagicSched, FiniteSetTheorems, TLAPS

\* s and t agree on every field SchedInv speaks of, but for array.
Frame(s, t) ==
    /\ t.curr = s.curr
    /\ t.state = s.state
    /\ t.holding_wand = s.holding_wand
    /\ t.magic_time = s.magic_time
    /\ t.started_magic = s.started_magic
    /\ t.magicProcess = s.magicProcess
    /\ t.idle_from_magic = s.idle_from_magic
    /\ t.magic_sleep_flag = s.magic_sleep_flag
    /\ t.MAGICTIME = s.MAGICTIME
    /\ t.call_seen = s.call_seen

\* The ranges of priorities that occur in the code.
LEMMA PrioRanges ==
    /\ Unlinked \in 0 .. MAX_PRIO
    /\ MAX_PRIO \in 0 .. MAX_PRIO
    /\ MagicPrio \in 0 .. MAX_PRIO
    /\ AfterMagicPrio \in 0 .. MAX_PRIO
    /\ UserPrios \subseteq 0 .. MAX_PRIO
BY PrioAssumption DEF Unlinked, MagicPrio, AfterMagicPrio, MAX_PRIO, MAX_RT_PRIO

\* A stopped machine keeps its scheduling state.
LEMMA OopsKeeps ==
    ASSUME NEW s \in KernelState
    PROVE  /\ Oops(s) \in KernelState
           /\ Frame(s, Oops(s)) /\ Oops(s).array = s.array
BY Zenon DEF Oops, KernelState, Flag, Frame

\* A changed priority is all that changes.
LEMMA PrioKeeps ==
    ASSUME NEW s \in KernelState, NEW p \in All, NEW i \in 0 .. MAX_PRIO,
           NEW t, t = [s EXCEPT !.prio[p] = i]
    PROVE  t \in KernelState /\ Frame(s, t) /\ t.array = s.array
BY Zenon DEF KernelState, Frame

\* So is a changed need_resched.
LEMMA NeedReschedKeeps ==
    ASSUME NEW s \in KernelState, NEW p \in All
    PROVE  LET t == set_tsk_need_resched(s, p)
           IN  t \in KernelState /\ Frame(s, t) /\ t.array = s.array
BY Zenon DEF KernelState, Frame, Flag, set_tsk_need_resched

\* dequeue_task() leaves p->array alone.
LEMMA DequeueKeeps ==
    ASSUME NEW s \in KernelState, NEW p \in All, NEW a \in Arrays \cup {"null"}
    PROVE  LET t == dequeue_task(s, p, a)
           IN  t \in KernelState /\ Frame(s, t) /\ t.array = s.array
<1>1. CASE a = "null"
  BY <1>1, OopsKeeps DEF dequeue_task
<1>2. CASE a \in Arrays
  <2> DEFINE b == IF queue(s, a, s.prio[p]) \subseteq {p}
                  THEN s.bitmap[a] \ {s.prio[p]} ELSE s.bitmap[a]
  <2>1. b \in SUBSET (0 .. MAX_PRIO)
    BY <1>2 DEF KernelState
  <2>2. a # "null"
    BY <1>2 DEF Arrays
  <2>3. dequeue_task(s, p, a) =
            [s EXCEPT !.nr_active[a] = @ - 1, !.run_list[p] = Unlinked, !.bitmap[a] = b]
    BY <2>2 DEF dequeue_task
  <2> HIDE DEF b
  <2>4. dequeue_task(s, p, a) \in KernelState
    <3>1. [s.nr_active EXCEPT ![a] = @ - 1] \in [Arrays -> Int]
      BY <1>2 DEF KernelState
    <3>2. [s.run_list EXCEPT ![p] = Unlinked] \in [All -> 0 .. MAX_PRIO]
      BY PrioRanges DEF KernelState
    <3>3. [s.bitmap EXCEPT ![a] = b] \in [Arrays -> SUBSET (0 .. MAX_PRIO)]
      BY <1>2, <2>1 DEF KernelState
    <3> QED
      BY ZenonT(120), <2>3, <3>1, <3>2, <3>3 DEF KernelState
  <2>5. Frame(s, dequeue_task(s, p, a)) /\ dequeue_task(s, p, a).array = s.array
    BY <2>3 DEF KernelState, Frame
  <2> QED
    BY <2>4, <2>5
<1> QED
  BY <1>1, <1>2

\* enqueue_task() points p->array at the array, unless that is null.
LEMMA EnqueueKeeps ==
    ASSUME NEW s \in KernelState, NEW p \in All, NEW a \in Arrays \cup {"null"}
    PROVE  LET t == enqueue_task(s, p, a)
           IN  /\ t \in KernelState /\ Frame(s, t)
               /\ t.array = IF a = "null" THEN s.array ELSE [s.array EXCEPT ![p] = a]
<1>1. CASE a = "null"
  BY <1>1, OopsKeeps DEF enqueue_task
<1>2. CASE a \in Arrays
  <2> DEFINE i == s.prio[p]
             b == s.bitmap[a] \cup {i}
  <2>1. b \in SUBSET (0 .. MAX_PRIO) /\ i \in 0 .. MAX_PRIO
    BY <1>2 DEF KernelState
  <2>2. a # "null"
    BY <1>2 DEF Arrays
  <2>3. enqueue_task(s, p, a) =
            [s EXCEPT !.nr_active[a] = @ + 1, !.run_list[p] = i, !.bitmap[a] = b, !.array[p] = a]
    BY <2>2 DEF enqueue_task
  <2> HIDE DEF b, i
  <2>4. enqueue_task(s, p, a) \in KernelState
    <3>1. [s.nr_active EXCEPT ![a] = @ + 1] \in [Arrays -> Int]
      BY <1>2 DEF KernelState
    <3>2. [s.run_list EXCEPT ![p] = i] \in [All -> 0 .. MAX_PRIO]
      BY <2>1 DEF KernelState
    <3>3. [s.bitmap EXCEPT ![a] = b] \in [Arrays -> SUBSET (0 .. MAX_PRIO)]
      BY <1>2, <2>1 DEF KernelState
    <3>4. [s.array EXCEPT ![p] = a] \in [All -> Arrays \cup {"null"}]
      BY DEF KernelState
    <3> QED
      BY ZenonT(120), <2>3, <3>1, <3>2, <3>3, <3>4 DEF KernelState
  <2>5. Frame(s, enqueue_task(s, p, a))
    BY <2>3 DEF KernelState, Frame
  <2>6. enqueue_task(s, p, a).array = [s.array EXCEPT ![p] = a]
    BY <2>3 DEF KernelState
  <2> QED
    BY <2>2, <2>4, <2>5, <2>6
<1> QED
  BY <1>1, <1>2

\* A task taken off its queue and put back keeps its array.
LEMMA RequeueKeeps ==
    ASSUME NEW s \in KernelState, NEW p \in All, NEW i \in 0 .. MAX_PRIO
    PROVE  LET t == requeue(s, p, i)
           IN  t \in KernelState /\ Frame(s, t) /\ t.array = s.array
<1> DEFINE a == s.array[p]
           d == dequeue_task(s, p, a)
           e == [d EXCEPT !.prio[p] = i]
           t == enqueue_task(e, p, a)
<1>1. requeue(s, p, i) = t
  BY DEF requeue
<1>2. a \in Arrays \cup {"null"}
  BY DEF KernelState
<1>3. d \in KernelState /\ Frame(s, d) /\ d.array = s.array
  BY <1>2, DequeueKeeps
<1> HIDE DEF d
<1>4. e \in KernelState /\ Frame(d, e) /\ e.array = d.array
  BY <1>3, PrioKeeps
<1> HIDE DEF e, a
<1>5. /\ t \in KernelState /\ Frame(e, t)
      /\ t.array = IF a = "null" THEN e.array ELSE [e.array EXCEPT ![p] = a]
  BY <1>2, <1>4, EnqueueKeeps
<1> HIDE DEF t
<1>6. t.array = s.array
  BY <1>3, <1>4, <1>5 DEF KernelState, a
<1> QED
  BY <1>1, <1>3, <1>4, <1>5, <1>6 DEF Frame

\* activate_task() queues p on the active array.
LEMMA ActivateKeeps ==
    ASSUME NEW s \in KernelState, NEW p \in All, NEW e \in 0 .. MAX_PRIO
    PROVE  LET t == activate_task(s, p, e)
           IN  t \in KernelState /\ Frame(s, t) /\ t.array = [s.array EXCEPT ![p] = "active"]
<1> DEFINE r == IF rt_task(s, p) THEN s ELSE [s EXCEPT !.prio[p] = e]
           q == enqueue_task(r, p, "active")
           t == [q EXCEPT !.nr_running = @ + 1]
<1>1. activate_task(s, p, e) = t
  BY DEF activate_task
<1>2. r \in KernelState /\ Frame(s, r) /\ r.array = s.array
  BY PrioKeeps DEF Frame
<1>3. "active" \in Arrays \cup {"null"} /\ "active" # "null"
  BY DEF Arrays
<1> HIDE DEF r
<1>4. q \in KernelState /\ Frame(r, q) /\ q.array = [r.array EXCEPT ![p] = "active"]
  BY <1>2, <1>3, EnqueueKeeps
<1> HIDE DEF q
<1>5. t \in KernelState
  <2>1. q.nr_running + 1 \in Int
    BY <1>4 DEF KernelState
  <2> QED
    BY Zenon, <1>4, <2>1 DEF KernelState
<1>6. Frame(q, t) /\ t.array = q.array
  BY <1>4 DEF KernelState, Frame
<1> HIDE DEF t
<1> QED
  BY <1>1, <1>2, <1>4, <1>5, <1>6 DEF Frame

\* deactivate_task() leaves p on no array.
LEMMA DeactivateKeeps ==
    ASSUME NEW s \in KernelState, NEW p \in All
    PROVE  LET t == deactivate_task(s, p)
           IN  t \in KernelState /\ Frame(s, t) /\ t.array = [s.array EXCEPT ![p] = "null"]
<1> DEFINE d == dequeue_task(s, p, s.array[p])
           t == [d EXCEPT !.nr_running = @ - 1, !.array[p] = "null"]
<1>1. deactivate_task(s, p) = t
  BY DEF deactivate_task
<1>2. s.array[p] \in Arrays \cup {"null"}
  BY DEF KernelState
<1>3. d \in KernelState /\ Frame(s, d) /\ d.array = s.array
  BY <1>2, DequeueKeeps
<1> HIDE DEF d
<1>4. [d.array EXCEPT ![p] = "null"] \in [All -> Arrays \cup {"null"}]
  BY <1>3 DEF KernelState
<1>5. t \in KernelState
  <2>1. d.nr_running - 1 \in Int
    BY <1>3 DEF KernelState
  <2> QED
    BY Zenon, <1>3, <1>4, <2>1 DEF KernelState
<1>6. Frame(d, t) /\ t.array = [d.array EXCEPT ![p] = "null"]
  BY <1>3 DEF KernelState, Frame
<1> HIDE DEF t
<1> QED
  BY <1>1, <1>3, <1>5, <1>6 DEF Frame

\* Storing an unsigned int in an int keeps it apart from zero.
LEMMA ToIntNonzero ==
    ASSUME NEW u \in 0 .. (Word - 1)
    PROVE  ToInt(u) \in Int /\ (ToInt(u) = 0 <=> u = 0)
BY SliceAssumption DEF ToInt

\* SchedInv reads the fields of Frame and array only.
LEMMA InvOfFrame ==
    ASSUME NEW s, NEW t, SchedInv(s), t \in KernelState, Frame(s, t), t.array = s.array
    PROVE  SchedInv(t)
BY DEF SchedInv, Frame, IdleInert, PendingIsCurrent, DeadNotQueued, NoMagic, SomeMagic

\* start_magic() makes current the magic process and starts the timer.
LEMMA StartMagicKeeps ==
    ASSUME NEW s \in KernelState
    PROVE  LET t == start_magic(s)
           IN  /\ t \in KernelState
               /\ t.curr = s.curr /\ t.state = s.state /\ t.array = s.array
               /\ t.holding_wand = s.holding_wand /\ t.magic_time = s.magic_time
               /\ t.idle_from_magic = s.idle_from_magic
               /\ t.magic_sleep_flag = s.magic_sleep_flag
               /\ t.started_magic = [s.started_magic EXCEPT ![s.curr] = 1]
               /\ t.magicProcess = s.curr
               /\ t.MAGICTIME = ToInt(s.magic_time[s.curr])
               /\ t.call_seen = 1
<1> DEFINE p == s.curr
           q == requeue(s, p, MagicPrio)
           n == s.magic_time[p]
           t == [q EXCEPT !.magicProcess = p, !.started_magic[p] = 1, !.time_slice[p] = n,
                          !.MAGICTIME = ToInt(n), !.call_seen = 1]
<1>1. p \in All /\ n \in 0 .. (Word - 1)
  BY DEF KernelState
<1>2. q \in KernelState /\ Frame(s, q) /\ q.array = s.array
  BY <1>1, RequeueKeeps, PrioRanges
<1>3. ToInt(n) \in Int
  BY <1>1, ToIntNonzero
<1>4. start_magic(s) = t
  BY DEF start_magic
<1> HIDE DEF p, q, n
<1>5. [q.started_magic EXCEPT ![p] = 1] \in [All -> Flag]
  BY <1>1, <1>2 DEF KernelState, Flag
<1>6. [q.time_slice EXCEPT ![p] = n] \in [All -> 0 .. (Word - 1)]
  BY <1>1, <1>2 DEF KernelState
<1>7. t \in KernelState
  BY Zenon, <1>1, <1>2, <1>3, <1>5, <1>6 DEF KernelState, Flag
<1>8. /\ t.curr = q.curr /\ t.state = q.state /\ t.array = q.array
      /\ t.holding_wand = q.holding_wand /\ t.magic_time = q.magic_time
      /\ t.idle_from_magic = q.idle_from_magic
      /\ t.magic_sleep_flag = q.magic_sleep_flag
      /\ t.started_magic = [q.started_magic EXCEPT ![p] = 1]
      /\ t.magicProcess = p
      /\ t.MAGICTIME = ToInt(n)
      /\ t.call_seen = 1
  BY <1>2 DEF KernelState
<1> HIDE DEF t
<1> QED
  BY <1>2, <1>4, <1>7, <1>8 DEF Frame, p, n

\* exit_from_magic() clears the globals and the magic process's own fields.
LEMMA ExitMagicKeeps ==
    ASSUME NEW s \in KernelState, s.magicProcess \in All
    PROVE  LET t == exit_from_magic(s)
               m == s.magicProcess
           IN  /\ t \in KernelState
               /\ t.curr = s.curr /\ t.state = s.state /\ t.array = s.array
               /\ t.holding_wand = s.holding_wand
               /\ t.magic_time = [s.magic_time EXCEPT ![m] = 0]
               /\ t.started_magic = [s.started_magic EXCEPT ![m] = 0]
               /\ t.magicProcess = NULL
               /\ t.idle_from_magic = 0 /\ t.magic_sleep_flag = 0 /\ t.MAGICTIME = 0
<1> DEFINE m == s.magicProcess
           a == s.array[m]
           d == dequeue_task(s, m, a)
           e == [d EXCEPT !.prio[s.curr] = AfterMagicPrio]
           q == IF s.magic_sleep_flag = 0 THEN enqueue_task(e, m, a)
                ELSE [s EXCEPT !.prio[m] = AfterMagicPrio]
           t == [q EXCEPT !.idle_from_magic = 0, !.magic_sleep_flag = 0,
                          !.started_magic[m] = 0, !.magic_time[m] = 0, !.time_slice[m] = 0,
                          !.called[m] = 0, !.magicProcess = NULL, !.MAGICTIME = 0]
<1>1. exit_from_magic(s) = t
  BY DEF exit_from_magic
<1>2. s.curr \in All /\ m \in All /\ a \in Arrays \cup {"null"}
  BY DEF KernelState
<1>3. q \in KernelState /\ Frame(s, q) /\ q.array = s.array
  <2>1. CASE s.magic_sleep_flag = 0
    <3>1. d \in KernelState /\ Frame(s, d) /\ d.array = s.array
      BY <1>2, DequeueKeeps
    <3> HIDE DEF d
    <3>2. e \in KernelState /\ Frame(d, e) /\ e.array = d.array
      BY <1>2, <3>1, PrioKeeps, PrioRanges
    <3> HIDE DEF e, a
    <3>3. LET r == enqueue_task(e, m, a)
          IN  /\ r \in KernelState /\ Frame(e, r)
              /\ r.array = IF a = "null" THEN e.array ELSE [e.array EXCEPT ![m] = a]
      BY <1>2, <3>2, EnqueueKeeps
    <3>4. q = enqueue_task(e, m, a)
      BY <2>1
    <3> HIDE DEF q
    <3>5. q.array = s.array
      <4>1. s.array \in [All -> Arrays \cup {"null"}] /\ m \in All
        BY <1>2 DEF KernelState
      <4>2. e.array = s.array
        BY ONLY <3>1, <3>2
      <4>3. q.array = IF a = "null" THEN s.array ELSE [s.array EXCEPT ![m] = a]
        BY Zenon, <3>3, <3>4, <4>2
      <4>4. a = s.array[m]
        BY DEF a
      <4> HIDE DEF m
      <4> QED
        BY ONLY <4>1, <4>3, <4>4
    <3> QED
      BY <3>1, <3>2, <3>3, <3>4, <3>5 DEF Frame
  <2>2. CASE s.magic_sleep_flag # 0
    BY <1>2, <2>2, PrioKeeps, PrioRanges
  <2> QED
    BY <2>1, <2>2
<1> HIDE DEF q, m
<1>4. t \in KernelState
  <2>1. [q.started_magic EXCEPT ![m] = 0] \in [All -> Flag]
    BY <1>2, <1>3 DEF KernelState, Flag
  <2>2. [q.called EXCEPT ![m] = 0] \in [All -> Flag]
    BY <1>2, <1>3 DEF KernelState, Flag
  <2>3. 0 \in 0 .. (Word - 1) /\ 0 \in Flag /\ 0 \in Int
    BY SliceAssumption DEF Flag
  <2>4. [q.magic_time EXCEPT ![m] = 0] \in [All -> 0 .. (Word - 1)]
    BY <1>2, <1>3, <2>3 DEF KernelState
  <2>5. [q.time_slice EXCEPT ![m] = 0] \in [All -> 0 .. (Word - 1)]
    BY <1>2, <1>3, <2>3 DEF KernelState
  <2> QED
    BY Zenon, <1>3, <2>1, <2>2, <2>3, <2>4, <2>5 DEF KernelState
<1>5. /\ t.curr = q.curr /\ t.state = q.state /\ t.array = q.array
      /\ t.holding_wand = q.holding_wand
      /\ t.magic_time = [q.magic_time EXCEPT ![m] = 0]
      /\ t.started_magic = [q.started_magic EXCEPT ![m] = 0]
      /\ t.magicProcess = NULL
      /\ t.idle_from_magic = 0 /\ t.magic_sleep_flag = 0 /\ t.MAGICTIME = 0
  BY <1>3 DEF KernelState
<1> HIDE DEF t
<1> QED
  BY <1>1, <1>3, <1>4, <1>5 DEF Frame, m

\* Ending the magic restores the invariant, whatever is left of the time.
LEMMA ExitMagicInv ==
    ASSUME NEW s, s \in KernelState, s.magicProcess \in All,
           IdleInert(s), PendingIsCurrent(s), DeadNotQueued(s),
           \A p \in All : s.started_magic[p] = 1 <=> p = s.magicProcess
    PROVE  /\ SchedInv(exit_from_magic(s))
           /\ exit_from_magic(s).curr = s.curr /\ exit_from_magic(s).state = s.state
           /\ exit_from_magic(s).array = s.array
           /\ exit_from_magic(s).magicProcess = NULL
<1> DEFINE m == s.magicProcess
           t == exit_from_magic(s)
<1>1. /\ t \in KernelState
      /\ t.curr = s.curr /\ t.state = s.state /\ t.array = s.array
      /\ t.holding_wand = s.holding_wand
      /\ t.magic_time = [s.magic_time EXCEPT ![m] = 0]
      /\ t.started_magic = [s.started_magic EXCEPT ![m] = 0]
      /\ t.magicProcess = NULL
      /\ t.idle_from_magic = 0 /\ t.magic_sleep_flag = 0 /\ t.MAGICTIME = 0
  BY ExitMagicKeeps
<1> HIDE DEF t
<1>2. /\ s.magic_time \in [All -> 0 .. (Word - 1)]
      /\ s.started_magic \in [All -> Flag]
  BY DEF KernelState
<1>3. IdleInert(t)
  BY <1>1, <1>2 DEF IdleInert, All
<1>4. \A p \in All : t.started_magic[p] = 0
  BY <1>1, <1>2 DEF Flag
<1>5. PendingIsCurrent(t)
  BY <1>1, <1>2 DEF PendingIsCurrent
<1>6. DeadNotQueued(t)
  BY <1>1 DEF DeadNotQueued
<1>7. NoMagic(t) /\ SomeMagic(t)
  BY <1>1, <1>4 DEF NoMagic, SomeMagic
<1> QED
  BY <1>1, <1>3, <1>5, <1>6, <1>7 DEF SchedInv, t

\* What the invariant says of the magic process when there is one.
LEMMA MagicIsTask ==
    ASSUME NEW s, SchedInv(s), s.magicProcess # NULL
    PROVE  /\ s.magicProcess \in Tasks /\ s.magicProcess \in All
           /\ \A p \in All : s.started_magic[p] = 1 <=> p = s.magicProcess
BY DEF SchedInv, SomeMagic, KernelState, All

\* The magic part of scheduler_tick() keeps the invariant.
LEMMA MagicTickInv ==
    ASSUME NEW s, SchedInv(s)
    PROVE  LET t == magic_tick(s)
           IN  SchedInv(t) /\ t.curr = s.curr /\ t.state = s.state /\ t.array = s.array
<1> DEFINE d == [s EXCEPT !.MAGICTIME = @ - 1]
           x == exit_from_magic(d)
<1>1. s \in KernelState /\ s.MAGICTIME \in Int /\ s.curr \in All
  BY DEF SchedInv, KernelState
<1>2. CASE s.MAGICTIME <= 0
  BY <1>2 DEF magic_tick
<1>3. CASE ~(s.MAGICTIME <= 0)
  <2>1. s.magicProcess # NULL
    BY <1>1, <1>3 DEF SchedInv, NoMagic
  <2>2. d \in KernelState /\ d.MAGICTIME = s.MAGICTIME - 1
    <3>1. s.MAGICTIME - 1 \in Int
      BY <1>1
    <3> QED
      BY Zenon, <1>1, <3>1 DEF KernelState
  <2>3. /\ d.curr = s.curr /\ d.state = s.state /\ d.array = s.array
        /\ d.holding_wand = s.holding_wand
        /\ d.magic_time = s.magic_time /\ d.started_magic = s.started_magic
        /\ d.magicProcess = s.magicProcess /\ d.idle_from_magic = s.idle_from_magic
        /\ d.magic_sleep_flag = s.magic_sleep_flag /\ d.call_seen = s.call_seen
    BY <1>1 DEF KernelState
  <2>4. magic_tick(s) = IF d.MAGICTIME = 0 THEN set_tsk_need_resched(x, s.curr) ELSE d
    BY <1>3 DEF magic_tick
  <2> HIDE DEF d
  <2>5. CASE d.MAGICTIME = 0
    <3>1. IdleInert(d) /\ PendingIsCurrent(d) /\ DeadNotQueued(d)
      BY <2>3 DEF SchedInv, IdleInert, PendingIsCurrent, DeadNotQueued
    <3>2. /\ d.magicProcess \in All
          /\ \A p \in All : d.started_magic[p] = 1 <=> p = d.magicProcess
      BY <2>1, <2>3, MagicIsTask
    <3>3. SchedInv(x) /\ x.curr = s.curr /\ x.state = s.state /\ x.array = s.array
      BY <2>2, <2>3, <3>1, <3>2, ExitMagicInv
    <3> HIDE DEF x
    <3>4. x \in KernelState
      BY <3>3 DEF SchedInv
    <3> DEFINE t == set_tsk_need_resched(x, s.curr)
    <3>5. t \in KernelState /\ Frame(x, t) /\ t.array = x.array
      BY <1>1, <3>4, NeedReschedKeeps
    <3> HIDE DEF t
    <3>6. SchedInv(t)
      BY <3>3, <3>5, InvOfFrame
    <3>7. magic_tick(s) = t
      BY <2>4, <2>5 DEF t
    <3> QED
      BY <3>3, <3>5, <3>6, <3>7 DEF Frame
  <2>6. CASE d.MAGICTIME # 0
    <3>1. SchedInv(d)
      BY <2>1, <2>2, <2>3, <2>6
         DEF SchedInv, IdleInert, PendingIsCurrent, DeadNotQueued, NoMagic, SomeMagic
    <3> QED
      BY <2>3, <2>4, <2>6, <3>1
  <2> QED
    BY <2>5, <2>6
<1> QED
  BY <1>2, <1>3

\* An expired task is back on one of the arrays.
LEMMA ExpireKeeps ==
    ASSUME NEW s \in KernelState, NEW p \in All, NEW e \in UserPrios, NEW a \in Arrays
    PROVE  LET t == expire_task(s, p, e, a)
           IN  t \in KernelState /\ Frame(s, t) /\ t.array = [s.array EXCEPT ![p] = a]
<1> DEFINE q == dequeue_task(s, p, "active")
           d == [q EXCEPT !.need_resched[p] = 1, !.prio[p] = e,
                          !.first_time_slice[p] = 0, !.time_slice[p] = Timeslice]
<1>1. expire_task(s, p, e, a) = enqueue_task(d, p, a)
  BY DEF expire_task
<1>2. "active" \in Arrays \cup {"null"} /\ a # "null" /\ a \in Arrays \cup {"null"}
  BY DEF Arrays
<1>3. q \in KernelState /\ Frame(s, q) /\ q.array = s.array
  BY <1>2, DequeueKeeps
<1> HIDE DEF q
<1>4. d \in KernelState
  <2>1. [q.need_resched EXCEPT ![p] = 1] \in [All -> Flag]
    BY <1>3 DEF KernelState, Flag
  <2>2. [q.prio EXCEPT ![p] = e] \in [All -> 0 .. MAX_PRIO]
    BY <1>3, PrioRanges DEF KernelState
  <2>3. [q.first_time_slice EXCEPT ![p] = 0] \in [All -> Flag]
    BY <1>3 DEF KernelState, Flag
  <2>4. Timeslice \in 0 .. (Word - 1)
    BY SliceAssumption
  <2>5. [q.time_slice EXCEPT ![p] = Timeslice] \in [All -> 0 .. (Word - 1)]
    BY <1>3, <2>4 DEF KernelState
  <2> QED
    BY Zenon, <1>3, <2>1, <2>2, <2>3, <2>5 DEF KernelState
<1>5. Frame(q, d) /\ d.array = q.array
  BY <1>3 DEF KernelState, Frame
<1> HIDE DEF d
<1> QED
  BY <1>1, <1>2, <1>3, <1>4, <1>5, EnqueueKeeps DEF Frame

\* A task that is neither free nor dead may be put on any array.
LEMMA QueueInv ==
    ASSUME NEW s, NEW t, NEW p \in Tasks, NEW a \in Arrays,
           SchedInv(s), t \in KernelState, Frame(s, t),
           t.array = [s.array EXCEPT ![p] = a],
           p = s.curr \/ s.state[p] \notin {"ZOMBIE", "UNUSED"}
    PROVE  SchedInv(t)
<1>1. s.array \in [All -> Arrays \cup {"null"}] /\ p # Idle
  BY TaskAssumption DEF SchedInv, KernelState
<1>2. \A q \in All : q # p => t.array[q] = s.array[q]
  BY <1>1
<1>3. IdleInert(t)
  BY <1>1, <1>2 DEF SchedInv, IdleInert, Frame, All
<1>4. DeadNotQueued(t)
  BY <1>2 DEF SchedInv, DeadNotQueued, Frame
<1> QED
  BY <1>3, <1>4 DEF SchedInv, Frame, PendingIsCurrent, NoMagic, SomeMagic

\* scheduler_tick() keeps the invariant, and leaves current and every state.
LEMMA SchedulerTickInv ==
    ASSUME NEW s, SchedInv(s), NEW e \in UserPrios, NEW a \in Arrays
    PROVE  LET t == scheduler_tick(s, e, a)
           IN  SchedInv(t) /\ t.curr = s.curr /\ t.state = s.state
<1> DEFINE m == magic_tick(s)
           p == s.curr
           c == [m EXCEPT !.time_slice[p] = (@ - 1) % Word]
           t == scheduler_tick(s, e, a)
<1>1. t = IF p = Idle THEN m
          ELSE IF m.array[p] # "active" THEN set_tsk_need_resched(m, p)
          ELSE IF rt_task(m, p) THEN m
          ELSE IF c.time_slice[p] = 0 THEN expire_task(c, p, e, a)
          ELSE c
  BY DEF scheduler_tick
<1>2. SchedInv(m) /\ m.curr = p /\ m.state = s.state /\ m.array = s.array
  BY MagicTickInv
<1>3. p \in All /\ m \in KernelState
  BY <1>2 DEF SchedInv, KernelState
<1> SUFFICES SchedInv(t) /\ t.curr = p /\ t.state = s.state
  OBVIOUS
<1> HIDE DEF m, t
<1>4. CASE t = set_tsk_need_resched(m, p)
  BY <1>2, <1>3, <1>4, NeedReschedKeeps, InvOfFrame DEF Frame
<1>5. c \in KernelState /\ Frame(m, c) /\ c.array = m.array
  <2>1. (m.time_slice[p] - 1) % Word \in 0 .. (Word - 1)
    BY <1>3, SliceAssumption DEF KernelState
  <2>2. [m.time_slice EXCEPT ![p] = (@ - 1) % Word] \in [All -> 0 .. (Word - 1)]
    BY <1>3, <2>1 DEF KernelState
  <2>3. c \in KernelState
    BY Zenon, <1>3, <2>2 DEF KernelState
  <2>4. Frame(m, c) /\ c.array = m.array
    BY <1>3 DEF KernelState, Frame
  <2> QED
    BY <2>3, <2>4
<1> HIDE DEF c, p
<1>6. SchedInv(c)
  BY <1>2, <1>5, InvOfFrame
<1>7. CASE t = expire_task(c, p, e, a) /\ p # Idle
  <2>1. t \in KernelState /\ Frame(c, t) /\ t.array = [c.array EXCEPT ![p] = a]
    BY <1>3, <1>5, <1>7, ExpireKeeps
  <2>2. p \in Tasks /\ c.curr = p
    BY <1>2, <1>3, <1>5, <1>7 DEF All, Frame
  <2>3. SchedInv(t)
    BY <1>6, <2>1, <2>2, QueueInv
  <2> QED
    BY <1>2, <1>5, <2>1, <2>3 DEF Frame
<1>8. CASE t \in {m, c}
  BY <1>2, <1>5, <1>6, <1>8 DEF Frame
<1> QED
  BY <1>1, <1>4, <1>7, <1>8

\* The first part of schedule() keeps the invariant; a magic process that it
\* leaves has magic time.
LEMMA MagicSegmentInv ==
    ASSUME NEW s, SchedInv(s)
    PROVE  LET g == magic_segment(s)
           IN  /\ SchedInv(g)
               /\ g.magicProcess # NULL => g.magic_time[g.magicProcess] > 0
<1> DEFINE m == s.magicProcess
           u == IF s.call_seen = 0 THEN update_magic(s) ELSE s
           g == magic_segment(s)
<1>1. CASE s.magicProcess = NULL
  BY <1>1 DEF magic_segment
<1>2. CASE s.magicProcess # NULL
  <2>1. s \in KernelState /\ m \in All /\ s.magic_time[m] \in 0 .. (Word - 1)
    BY <1>2 DEF SchedInv, KernelState
  <2>2. /\ u \in KernelState /\ u.magicProcess = m
        /\ u.curr = s.curr /\ u.state = s.state /\ u.array = s.array
        /\ u.holding_wand = s.holding_wand
        /\ u.magic_time = s.magic_time /\ u.started_magic = s.started_magic
        /\ u.idle_from_magic = s.idle_from_magic /\ u.magic_sleep_flag = s.magic_sleep_flag
    <3>1. CASE s.call_seen = 0
      <4>1. ToInt(s.magic_time[m]) \in Int /\ 1 \in Flag
        BY <2>1, ToIntNonzero DEF Flag
      <4>2. u = [s EXCEPT !.MAGICTIME = ToInt(s.magic_time[m]), !.call_seen = 1]
        BY <3>1 DEF update_magic
      <4> HIDE DEF u
      <4> QED
        BY Zenon, <2>1, <4>1, <4>2 DEF KernelState
    <3>2. CASE s.call_seen # 0
      BY <2>1, <3>2
    <3> QED
      BY <3>1, <3>2
  <2>3. u.MAGICTIME # 0 => s.magic_time[m] > 0
    <3>1. CASE s.call_seen = 0
      <4>1. u = [s EXCEPT !.MAGICTIME = ToInt(s.magic_time[m]), !.call_seen = 1]
        BY <3>1 DEF update_magic
      <4>2. u.MAGICTIME = ToInt(s.magic_time[m])
        BY Zenon, <2>1, <4>1 DEF KernelState
      <4> QED
        BY <2>1, <4>2, ToIntNonzero, SliceAssumption
    <3>2. CASE s.call_seen # 0
      BY <1>2, <2>1, <3>2, SliceAssumption DEF SchedInv, SomeMagic
    <3> QED
      BY <3>1, <3>2
  <2>4. g = IF u.state[u.magicProcess] = "ZOMBIE" \/ u.MAGICTIME = 0 THEN exit_from_magic(u) ELSE u
    BY <1>2 DEF magic_segment
  <2> SUFFICES SchedInv(g) /\ (g.magicProcess # NULL => g.magic_time[g.magicProcess] > 0)
    OBVIOUS
  <2> HIDE DEF u, g
  <2>5. CASE g = exit_from_magic(u)
    <3>1. IdleInert(u) /\ PendingIsCurrent(u) /\ DeadNotQueued(u)
      BY <2>2 DEF SchedInv, IdleInert, PendingIsCurrent, DeadNotQueued
    <3>2. /\ u.magicProcess \in All
          /\ \A p \in All : u.started_magic[p] = 1 <=> p = u.magicProcess
      BY <1>2, <2>2, MagicIsTask
    <3> QED
      BY <2>2, <2>5, <3>1, <3>2, ExitMagicInv
  <2>6. CASE g = u /\ u.MAGICTIME # 0
    <3>1. IdleInert(u) /\ PendingIsCurrent(u) /\ DeadNotQueued(u) /\ NoMagic(u)
      BY <1>2, <2>2 DEF SchedInv, IdleInert, PendingIsCurrent, DeadNotQueued, NoMagic
    <3>2. SomeMagic(u)
      BY <1>2, <2>1, <2>2, <2>3, <2>6 DEF SchedInv, SomeMagic
    <3> QED
      BY <2>2, <2>3, <2>6, <3>1, <3>2 DEF SchedInv
  <2> QED
    BY <2>4, <2>5, <2>6
<1> QED
  BY <1>1, <1>2

\* A switch changes current, and need_resched of the task left behind.
LEMMA SwitchKeeps ==
    ASSUME NEW s \in KernelState, NEW next \in All
    PROVE  LET t == switch_tasks(s, next)
           IN  /\ t \in KernelState /\ t.curr = next
               /\ t.state = s.state /\ t.array = s.array /\ t.holding_wand = s.holding_wand
               /\ t.magic_time = s.magic_time /\ t.started_magic = s.started_magic
               /\ t.magicProcess = s.magicProcess /\ t.idle_from_magic = s.idle_from_magic
               /\ t.magic_sleep_flag = s.magic_sleep_flag /\ t.MAGICTIME = s.MAGICTIME
               /\ t.call_seen = s.call_seen
<1> DEFINE n == [s.need_resched EXCEPT ![s.curr] = 0]
           t == switch_tasks(s, next)
<1>1. t = [s EXCEPT !.need_resched = n, !.curr = next]
  BY TaskAssumption DEF switch_tasks, All, KernelState
<1>2. n \in [All -> Flag]
  BY DEF KernelState, Flag
<1> HIDE DEF n
<1> QED
  BY ZenonT(40), <1>1, <1>2 DEF KernelState

\* The idle task hands the CPU to the magic process that woke, and else runs on.
LEMMA IdleSwitchInv ==
    ASSUME NEW s, SchedInv(s), s.magicProcess # NULL, s.idle_from_magic = 1
    PROVE  SchedInv(idle_magic_switch(s))
<1> DEFINE r == [s EXCEPT !.idle_from_magic = 0, !.magic_sleep_flag = 0]
           t == idle_magic_switch(s)
           m == s.magicProcess
<1>1. /\ s \in KernelState /\ s.curr = Idle /\ m \in All /\ m # Idle /\ Idle \in All
      /\ s.magic_time[Idle] = 0 /\ s.state[Idle] = "RUNNING"
  BY MagicIsTask DEF SchedInv, SomeMagic, IdleInert, All
<1>2. \A p \in All : ~(s.magic_time[p] > 0 /\ s.started_magic[p] = 0)
  BY <1>1 DEF SchedInv, PendingIsCurrent
<1>3. \A p \in All : s.state[p] \in {"ZOMBIE", "UNUSED"} => s.array[p] = "null"
  BY <1>1 DEF SchedInv, DeadNotQueued
<1>4. t = IF s.state[m] = "RUNNING" THEN switch_tasks(r, m) ELSE switch_tasks(s, Idle)
  BY DEF idle_magic_switch
<1>5. CASE s.state[m] = "RUNNING"
  <2>1. /\ r \in KernelState
        /\ r.state = s.state /\ r.array = s.array /\ r.holding_wand = s.holding_wand
        /\ r.magic_time = s.magic_time /\ r.started_magic = s.started_magic
        /\ r.magicProcess = m /\ r.idle_from_magic = 0
        /\ r.magic_sleep_flag = 0 /\ r.MAGICTIME = s.MAGICTIME
        /\ r.call_seen = s.call_seen
    <3>1. 0 \in Flag
      BY DEF Flag
    <3>2. s \in KernelState
      BY <1>1
    <3>3. r \in KernelState
      BY Zenon, <3>1, <3>2 DEF KernelState
    <3> QED
      BY <3>2, <3>3 DEF KernelState
  <2> HIDE DEF r, t, m
  <2>2. /\ t \in KernelState /\ t.curr = m
        /\ t.state = s.state /\ t.array = s.array /\ t.holding_wand = s.holding_wand
        /\ t.magic_time = s.magic_time /\ t.started_magic = s.started_magic
        /\ t.magicProcess = m /\ t.idle_from_magic = 0
        /\ t.magic_sleep_flag = 0 /\ t.MAGICTIME = s.MAGICTIME
        /\ t.call_seen = s.call_seen
    BY <1>1, <1>4, <1>5, <2>1, SwitchKeeps
  <2>3. IdleInert(t) /\ PendingIsCurrent(t) /\ DeadNotQueued(t)
    BY <1>2, <1>3, <1>5, <2>2 DEF SchedInv, IdleInert, PendingIsCurrent, DeadNotQueued
  <2>4. NoMagic(t) /\ SomeMagic(t)
    BY <1>1, <2>2 DEF SchedInv, NoMagic, SomeMagic, m
  <2> QED
    BY <2>2, <2>3, <2>4 DEF SchedInv, t
<1>6. CASE s.state[m] # "RUNNING"
  <2> HIDE DEF t
  <2>1. t \in KernelState /\ Frame(s, t) /\ t.array = s.array
    BY <1>1, <1>4, <1>6, SwitchKeeps DEF Frame
  <2> QED
    BY <2>1, InvOfFrame DEF t
<1> QED
  BY <1>5, <1>6

\* A process with magic time that schedule() finds on the CPU is the magic
\* process when start_magic() has been called where it has to be.
LEMMA StartedInv ==
    ASSUME NEW s, SchedInv(s), s.magic_time[s.curr] > 0,
           s.magicProcess \in {NULL, s.curr}
    PROVE  LET b == IF s.started_magic[s.curr] = 0 THEN start_magic(s) ELSE s
           IN  /\ SchedInv(b)
               /\ b.curr = s.curr /\ b.state = s.state /\ b.array = s.array
               /\ b.magicProcess = s.curr /\ b.magic_time = s.magic_time
<1>1. /\ s \in KernelState /\ s.curr \in All /\ s.curr # NULL
      /\ s.started_magic \in [All -> Flag] /\ s.magic_time[s.curr] \in 0 .. (Word - 1)
  BY TaskAssumption DEF SchedInv, KernelState, All
<1>2. s.curr # Idle
  BY DEF SchedInv, IdleInert
<1>3. CASE s.started_magic[s.curr] = 0
  <2> DEFINE t == start_magic(s)
  <2>1. /\ t \in KernelState
        /\ t.curr = s.curr /\ t.state = s.state /\ t.array = s.array
        /\ t.holding_wand = s.holding_wand /\ t.magic_time = s.magic_time
        /\ t.idle_from_magic = s.idle_from_magic
        /\ t.magic_sleep_flag = s.magic_sleep_flag
        /\ t.started_magic = [s.started_magic EXCEPT ![s.curr] = 1]
        /\ t.magicProcess = s.curr
        /\ t.MAGICTIME = ToInt(s.magic_time[s.curr])
        /\ t.call_seen = 1
    BY <1>1, StartMagicKeeps
  <2> HIDE DEF t
  <2>2. s.magicProcess = NULL
    BY <1>1, <1>3, MagicIsTask
  <2>3. /\ s.idle_from_magic = 0 /\ s.magic_sleep_flag = 0
        /\ \A p \in All : s.started_magic[p] = 0
    BY <2>2 DEF SchedInv, NoMagic
  <2>4. \A p \in All : t.started_magic[p] = 1 <=> p = s.curr
    BY <1>1, <2>1, <2>3
  <2>5. IdleInert(t) /\ DeadNotQueued(t)
    BY <2>1 DEF SchedInv, IdleInert, DeadNotQueued
  <2>6. PendingIsCurrent(t)
    BY <1>1, <2>1, <2>3 DEF SchedInv, PendingIsCurrent
  <2>7. t.MAGICTIME # 0
    BY <1>1, <2>1, ToIntNonzero
  <2>8. NoMagic(t) /\ SomeMagic(t)
    BY <1>1, <1>2, <2>1, <2>3, <2>4, <2>7 DEF NoMagic, SomeMagic
  <2> QED
    BY <1>3, <2>1, <2>5, <2>6, <2>8 DEF SchedInv, t
<1>4. CASE s.started_magic[s.curr] # 0
  <2>1. s.magicProcess = s.curr
    BY <1>1, <1>4 DEF SchedInv, NoMagic
  <2> QED
    BY <1>4, <2>1
<1> QED
  BY <1>3, <1>4

\* The magic process goes to sleep and leaves the CPU to the idle task.
LEMMA GoesToSleepInv ==
    ASSUME NEW s, SchedInv(s), s.magic_time[s.curr] > 0,
           s.magicProcess \in {NULL, s.curr}, s.state[s.curr] = "INTERRUPTIBLE"
    PROVE  SchedInv(magic_goes_to_sleep(s))
<1> DEFINE p == s.curr
           b == IF s.started_magic[p] = 0 THEN start_magic(s) ELSE s
           f == [b EXCEPT !.idle_from_magic = 1, !.magic_sleep_flag = 1]
           d == deactivate_task(f, p)
           t == switch_tasks(d, Idle)
<1>1. magic_goes_to_sleep(s) = t
  BY DEF magic_goes_to_sleep
<1>2. /\ SchedInv(b) /\ b.curr = p /\ b.state = s.state /\ b.array = s.array
      /\ b.magicProcess = p /\ b.magic_time = s.magic_time
  BY StartedInv
<1>3. s \in KernelState /\ p \in All /\ Idle \in All /\ p # NULL
  BY TaskAssumption DEF SchedInv, KernelState, All
<1>4. p # Idle
  BY DEF SchedInv, IdleInert
<1> HIDE DEF b, p
<1>5. b \in KernelState
  BY <1>2 DEF SchedInv
<1>6. /\ f \in KernelState
      /\ f.state = b.state /\ f.array = b.array /\ f.holding_wand = b.holding_wand
      /\ f.magic_time = b.magic_time /\ f.started_magic = b.started_magic
      /\ f.magicProcess = p /\ f.idle_from_magic = 1
      /\ f.magic_sleep_flag = 1 /\ f.MAGICTIME = b.MAGICTIME
      /\ f.call_seen = b.call_seen
  <2>1. 1 \in Flag
    BY DEF Flag
  <2>2. f \in KernelState
    BY Zenon, <1>5, <2>1 DEF KernelState
  <2> QED
    BY <1>2, <1>5, <2>2 DEF KernelState
<1> HIDE DEF f
<1>7. d \in KernelState /\ Frame(f, d) /\ d.array = [f.array EXCEPT ![p] = "null"]
  BY Zenon, <1>3, <1>6, DeactivateKeeps
<1> HIDE DEF d
<1>8. /\ t \in KernelState /\ t.curr = Idle
      /\ t.state = b.state /\ t.array = [b.array EXCEPT ![p] = "null"]
      /\ t.holding_wand = b.holding_wand
      /\ t.magic_time = b.magic_time /\ t.started_magic = b.started_magic
      /\ t.magicProcess = p /\ t.idle_from_magic = 1
      /\ t.magic_sleep_flag = 1 /\ t.MAGICTIME = b.MAGICTIME
      /\ t.call_seen = b.call_seen
  BY <1>3, <1>6, <1>7, SwitchKeeps DEF Frame
<1> HIDE DEF t
<1>9. b.array \in [All -> Arrays \cup {"null"}] /\ b.started_magic \in [All -> Flag]
  BY <1>5 DEF KernelState
<1>10. IdleInert(t)
  BY <1>2, <1>3, <1>4, <1>8, <1>9 DEF SchedInv, IdleInert
<1>11. PendingIsCurrent(t)
  BY <1>2, <1>3, <1>8 DEF SchedInv, PendingIsCurrent, SomeMagic
<1>12. DeadNotQueued(t)
  <2>1. b.state[p] = "INTERRUPTIBLE" /\ b.state[Idle] = "RUNNING"
    BY <1>2 DEF SchedInv, IdleInert, p
  <2>2. \A q \in All : q # p => t.array[q] = b.array[q]
    BY <1>8, <1>9
  <2> QED
    BY <1>2, <1>8, <2>1, <2>2 DEF SchedInv, DeadNotQueued
<1>13. NoMagic(t) /\ SomeMagic(t)
  <2>1. b.state[p] = "INTERRUPTIBLE"
    BY <1>2 DEF p
  <2>2. SomeMagic(b) /\ b.magicProcess = p /\ p # NULL
    BY <1>2, <1>3 DEF SchedInv
  <2>3. /\ b.MAGICTIME # 0 /\ \A q \in All : b.started_magic[q] = 1 <=> q = p
        /\ b.magic_time[p] = 0 => b.call_seen = 0
    BY ONLY Zenon, <2>2 DEF SomeMagic
  <2>4. NoMagic(t)
    BY ONLY <1>8, <2>2 DEF NoMagic
  <2>5. SomeMagic(t)
    BY ONLY <1>4, <1>8, <2>1, <2>3 DEF SomeMagic
  <2> QED
    BY <2>4, <2>5
<1> QED
  BY <1>1, <1>8, <1>10, <1>11, <1>12, <1>13 DEF SchedInv

\* A task that leaves the CPU without magic time is followed by a task taken
\* from the queue, or by the idle task.
LEMMA PickInv ==
    ASSUME NEW s, SchedInv(s), s.magicProcess = NULL, s.magic_time[s.curr] = 0,
           s.state[s.curr] = "ZOMBIE" => s.array[s.curr] = "null",
           NEW t \in pick_next_task(s)
    PROVE  SchedInv(t)
<1> DEFINE r == IF s.nr_active["active"] = 0 THEN switch_arrays(s) ELSE s
           firsts == {i \in r.bitmap["active"] : \A j \in r.bitmap["active"] : i <= j}
           heads == UNION {queue(r, "active", i) : i \in firsts}
<1>1. /\ s \in KernelState /\ Idle \in All
      /\ s.state[Idle] = "RUNNING" /\ s.magic_time \in [All -> 0 .. (Word - 1)]
  BY DEF SchedInv, IdleInert, All, KernelState
<1>2. \A p \in All : ~(s.magic_time[p] > 0 /\ s.started_magic[p] = 0)
  BY <1>1, SliceAssumption DEF SchedInv, PendingIsCurrent
<1>3. \A p \in All : s.state[p] \in {"ZOMBIE", "UNUSED"} => s.array[p] = "null"
  BY DEF SchedInv, DeadNotQueued
<1>4. r \in KernelState /\ Frame(s, r) /\ \A p \in All : r.array[p] = "null" <=> s.array[p] = "null"
  <2> DEFINE ar == [p \in All |-> CASE s.array[p] = "active" -> "expired"
                                    [] s.array[p] = "expired" -> "active"
                                    [] OTHER -> "null"]
             bm == [a \in Arrays |-> s.bitmap[IF a = "active" THEN "expired" ELSE "active"]]
             na == [a \in Arrays |-> s.nr_active[IF a = "active" THEN "expired" ELSE "active"]]
             w == [s EXCEPT !.array = ar, !.bitmap = bm, !.nr_active = na]
  <2>1. /\ s.array \in [All -> Arrays \cup {"null"}]
        /\ s.bitmap \in [Arrays -> SUBSET (0 .. MAX_PRIO)] /\ s.nr_active \in [Arrays -> Int]
    BY <1>1 DEF KernelState
  <2>2. ar \in [All -> Arrays \cup {"null"}] /\ \A p \in All : ar[p] = "null" <=> s.array[p] = "null"
    BY <2>1 DEF Arrays
  <2>3. bm \in [Arrays -> SUBSET (0 .. MAX_PRIO)]
    BY <2>1 DEF Arrays
  <2>4. na \in [Arrays -> Int]
    BY <2>1 DEF Arrays
  <2>5. switch_arrays(s) = w
    BY DEF switch_arrays
  <2> HIDE DEF ar, bm, na
  <2>6. w \in KernelState
    BY ZenonT(120), <1>1, <2>2, <2>3, <2>4 DEF KernelState
  <2>7. Frame(s, w) /\ w.array = ar
    BY <1>1 DEF KernelState, Frame
  <2> HIDE DEF w
  <2> QED
    BY <1>1, <2>2, <2>5, <2>6, <2>7 DEF Frame
<1>5. t \in {switch_tasks(s, Idle), Oops(s)} \cup {switch_tasks(r, next) : next \in heads}
  BY DEF pick_next_task
<1> HIDE DEF r
<1>6. \A q \in heads : q \in All /\ r.array[q] = "active"
  BY DEF queue, All
<1> HIDE DEF firsts, heads
<1>7. CASE t = Oops(s)
  BY <1>1, <1>7, OopsKeeps, InvOfFrame
<1>8. ASSUME NEW u \in {s, r}, NEW next \in All, s.state[next] \notin {"ZOMBIE", "UNUSED"},
             t = switch_tasks(u, next)
      PROVE  SchedInv(t)
  <2>1. u \in KernelState /\ Frame(s, u) /\ \A p \in All : u.array[p] = "null" <=> s.array[p] = "null"
    BY <1>1, <1>4 DEF Frame
  <2>2. /\ t \in KernelState /\ t.curr = next
        /\ t.state = u.state /\ t.array = u.array /\ t.holding_wand = u.holding_wand
        /\ t.magic_time = u.magic_time /\ t.started_magic = u.started_magic
        /\ t.magicProcess = u.magicProcess /\ t.idle_from_magic = u.idle_from_magic
        /\ t.magic_sleep_flag = u.magic_sleep_flag /\ t.MAGICTIME = u.MAGICTIME
        /\ t.call_seen = u.call_seen
    BY <1>8, <2>1, SwitchKeeps
  <2>3. IdleInert(t)
    BY <1>1, <2>1, <2>2 DEF SchedInv, IdleInert, Frame
  <2>4. PendingIsCurrent(t) /\ DeadNotQueued(t)
    BY <1>2, <1>3, <1>8, <2>1, <2>2 DEF PendingIsCurrent, DeadNotQueued, Frame
  <2>5. NoMagic(t) /\ SomeMagic(t)
    BY <2>1, <2>2 DEF SchedInv, NoMagic, SomeMagic, Frame
  <2> QED
    BY <2>2, <2>3, <2>4, <2>5 DEF SchedInv
<1>9. CASE t = switch_tasks(s, Idle)
  BY <1>1, <1>8, <1>9
<1>10. ASSUME NEW next \in heads, t = switch_tasks(r, next)
       PROVE  SchedInv(t)
  <2>1. next \in All /\ s.state[next] \notin {"ZOMBIE", "UNUSED"}
    BY <1>3, <1>4, <1>6
  <2> QED
    BY <1>8, <1>10, <2>1
<1> QED
  BY <1>5, <1>7, <1>9, <1>10

\* The code at "case TASK_RUNNING:" keeps the magic process on the CPU.
LEMMA RunningCaseInv ==
    ASSUME NEW s, SchedInv(s), s.magicProcess \in {NULL, s.curr},
           s.magicProcess # NULL => s.magic_time[s.magicProcess] > 0,
           s.state[s.curr] = "ZOMBIE" => s.array[s.curr] = "null",
           NEW t \in running_case(s)
    PROVE  SchedInv(t)
<1>1. s.curr \in All /\ s.magic_time[s.curr] \in 0 .. (Word - 1)
  BY DEF SchedInv, KernelState
<1>2. CASE s.magic_time[s.curr] > 0
  <2> DEFINE b == IF s.started_magic[s.curr] = 0 THEN start_magic(s) ELSE s
  <2>1. t = switch_tasks(b, b.magicProcess)
    BY <1>2 DEF running_case
  <2>2. SchedInv(b) /\ b.curr = s.curr /\ b.magicProcess = s.curr
    BY <1>2, StartedInv
  <2> HIDE DEF b
  <2>3. b \in KernelState
    BY <2>2 DEF SchedInv
  <2>4. t \in KernelState /\ Frame(b, t) /\ t.array = b.array
    BY <1>1, <2>1, <2>2, <2>3, SwitchKeeps DEF Frame
  <2> QED
    BY <2>2, <2>4, InvOfFrame
<1>3. CASE ~(s.magic_time[s.curr] > 0)
  <2>1. s.magic_time[s.curr] = 0
    BY <1>1, <1>3, SliceAssumption
  <2>2. s.magicProcess = NULL
    BY <1>3
  <2>3. t \in pick_next_task(s)
    BY <1>3 DEF running_case
  <2> QED
    BY <2>1, <2>2, <2>3, PickInv
<1> QED
  BY <1>2, <1>3

\* The second part of schedule() keeps the invariant.
LEMMA PrevStateInv ==
    ASSUME NEW s, SchedInv(s), s.magicProcess \in {NULL, s.curr},
           s.magicProcess # NULL => s.magic_time[s.magicProcess] > 0,
           NEW t \in prev_state_switch(s)
    PROVE  SchedInv(t)
<1> DEFINE p == s.curr
<1>1. /\ s \in KernelState /\ p \in All /\ s.magic_time[p] \in 0 .. (Word - 1)
      /\ s.state \in [All -> States] /\ s.array \in [All -> Arrays \cup {"null"}]
  BY DEF SchedInv, KernelState
<1>2. CASE s.state[p] = "RUNNING"
  <2>1. t \in running_case(s)
    BY <1>2 DEF prev_state_switch
  <2> QED
    BY <1>2, <2>1, RunningCaseInv
<1>3. CASE s.state[p] = "INTERRUPTIBLE" /\ s.magic_time[p] > 0
  <2>1. t = magic_goes_to_sleep(s)
    BY <1>1, <1>3 DEF prev_state_switch
  <2> QED
    BY <1>3, <2>1, GoesToSleepInv
<1>4. CASE s.state[p] = "INTERRUPTIBLE" /\ s.magic_time[p] = 0 /\ s.sigpending[p] = 1
  <2> DEFINE r == [s EXCEPT !.state[p] = "RUNNING"]
  <2>1. t \in pick_next_task(r)
    BY <1>1, <1>4 DEF prev_state_switch
  <2>2. [s.state EXCEPT ![p] = "RUNNING"] \in [All -> States]
    BY <1>1 DEF States
  <2>3. /\ r \in KernelState
        /\ r.state = [s.state EXCEPT ![p] = "RUNNING"]
        /\ r.curr = p /\ r.array = s.array /\ r.holding_wand = s.holding_wand
        /\ r.magic_time = s.magic_time /\ r.started_magic = s.started_magic
        /\ r.magicProcess = s.magicProcess /\ r.idle_from_magic = s.idle_from_magic
        /\ r.magic_sleep_flag = s.magic_sleep_flag /\ r.MAGICTIME = s.MAGICTIME
        /\ r.call_seen = s.call_seen
    BY Zenon, <1>1, <2>2 DEF KernelState
  <2> HIDE DEF r
  <2>4. s.magicProcess = NULL
    BY <1>4
  <2>5. IdleInert(r) /\ PendingIsCurrent(r) /\ DeadNotQueued(r)
    BY <1>1, <2>3 DEF SchedInv, IdleInert, PendingIsCurrent, DeadNotQueued
  <2>6. NoMagic(r) /\ SomeMagic(r)
    BY <2>3, <2>4 DEF SchedInv, NoMagic, SomeMagic
  <2>7. SchedInv(r) /\ r.state[r.curr] = "RUNNING"
    BY <1>1, <2>3, <2>5, <2>6 DEF SchedInv
  <2>8. r.magicProcess = NULL /\ r.magic_time[r.curr] = 0
    BY <1>4, <2>3, <2>4
  <2> QED
    BY <2>1, <2>7, <2>8, PickInv
<1>5. CASE /\ s.state[p] # "RUNNING"
           /\ ~(s.state[p] = "INTERRUPTIBLE" /\ s.magic_time[p] > 0)
           /\ ~(s.state[p] = "INTERRUPTIBLE" /\ s.magic_time[p] = 0 /\ s.sigpending[p] = 1)
  <2> DEFINE d == deactivate_task(s, p)
  <2>1. t \in running_case(d)
    BY <1>5 DEF prev_state_switch
  <2>2. d \in KernelState /\ Frame(s, d) /\ d.array = [s.array EXCEPT ![p] = "null"]
    BY <1>1, DeactivateKeeps
  <2> HIDE DEF d
  <2>3. IdleInert(d) /\ PendingIsCurrent(d) /\ DeadNotQueued(d)
    BY <1>1, <2>2 DEF SchedInv, IdleInert, PendingIsCurrent, DeadNotQueued, Frame
  <2>4. NoMagic(d) /\ SomeMagic(d)
    BY <2>2 DEF SchedInv, NoMagic, SomeMagic, Frame
  <2>5. SchedInv(d)
    BY <2>2, <2>3, <2>4 DEF SchedInv
  <2>6. /\ d.magicProcess \in {NULL, d.curr}
        /\ d.magicProcess # NULL => d.magic_time[d.magicProcess] > 0
        /\ d.array[d.curr] = "null"
    BY <1>1, <2>2 DEF Frame
  <2> QED
    BY <2>1, <2>5, <2>6, RunningCaseInv
<1> QED
  BY <1>2, <1>3, <1>4, <1>5

\* schedule() keeps the invariant, whichever task it picks.
LEMMA ScheduleInv ==
    ASSUME NEW s, SchedInv(s), NEW t \in schedule(s)
    PROVE  SchedInv(t)
<1> DEFINE g == magic_segment(s)
<1>1. SchedInv(g) /\ (g.magicProcess # NULL => g.magic_time[g.magicProcess] > 0)
  BY MagicSegmentInv
<1>2. t \in IF /\ g.magicProcess # NULL
               /\ g.idle_from_magic = 1
               /\ g.state[g.magicProcess] \in {"RUNNING", "INTERRUPTIBLE"}
            THEN {idle_magic_switch(g)}
            ELSE prev_state_switch(g)
  BY DEF schedule
<1> HIDE DEF g
<1>3. CASE g.magicProcess # NULL /\ g.idle_from_magic = 1
  <2>1. t = idle_magic_switch(g)
    BY <1>1, <1>2, <1>3 DEF SchedInv, SomeMagic
  <2> QED
    BY <1>1, <1>3, <2>1, IdleSwitchInv
<1>4. CASE ~(g.magicProcess # NULL /\ g.idle_from_magic = 1)
  <2>1. g.idle_from_magic \in {0, 1}
    BY <1>1 DEF SchedInv, KernelState, Flag
  <2>2. g.magicProcess \in {NULL, g.curr}
    BY <1>1, <1>4, <2>1 DEF SchedInv, SomeMagic
  <2>3. t \in prev_state_switch(g)
    BY <1>2, <1>4
  <2> QED
    BY <1>1, <2>2, <2>3, PrevStateInv
<1> QED
  BY <1>3, <1>4

\* A woken task is runnable, and queued if it was not.
LEMMA WakeInv ==
    ASSUME NEW s, SchedInv(s), NEW p \in Tasks, NEW e \in 0 .. MAX_PRIO,
           s.state[p] \notin {"ZOMBIE", "UNUSED"}
    PROVE  SchedInv(try_to_wake_up(s, p, e))
<1> DEFINE a == activate_task(s, p, e)
           w == IF s.array[p] # "null" THEN s
                ELSE IF a.prio[p] < a.prio[a.curr] THEN set_tsk_need_resched(a, a.curr)
                ELSE a
           t == [w EXCEPT !.state[p] = "RUNNING"]
<1>1. try_to_wake_up(s, p, e) = t
  BY DEF try_to_wake_up
<1>2. s \in KernelState /\ p \in All /\ p # Idle
  BY TaskAssumption DEF SchedInv, All
<1>3. a \in KernelState /\ Frame(s, a) /\ a.array = [s.array EXCEPT ![p] = "active"]
  BY <1>2, ActivateKeeps
<1>4. "active" \in Arrays
  BY DEF Arrays
<1> HIDE DEF a
<1>5. SchedInv(a)
  BY <1>3, <1>4, QueueInv
<1>6. a.curr \in All
  BY <1>3 DEF KernelState
<1> DEFINE n == set_tsk_need_resched(a, a.curr)
<1>7. n \in KernelState /\ Frame(a, n) /\ n.array = a.array
  BY <1>3, <1>6, NeedReschedKeeps
<1> HIDE DEF n
<1>8. SchedInv(n)
  BY <1>5, <1>7, InvOfFrame
<1>9. w \in {s, a, n}
  BY DEF n
<1> HIDE DEF w
<1>10. SchedInv(w) /\ w.curr = s.curr /\ w.state = s.state
  BY <1>3, <1>5, <1>7, <1>8, <1>9 DEF Frame
<1>11. w \in KernelState /\ w.state \in [All -> States]
  BY <1>10 DEF SchedInv, KernelState
<1>12. [w.state EXCEPT ![p] = "RUNNING"] \in [All -> States]
  BY Zenon, <1>11 DEF States
<1>13. /\ t \in KernelState
       /\ t.state = [w.state EXCEPT ![p] = "RUNNING"]
       /\ t.curr = w.curr /\ t.array = w.array /\ t.holding_wand = w.holding_wand
       /\ t.magic_time = w.magic_time /\ t.started_magic = w.started_magic
       /\ t.magicProcess = w.magicProcess /\ t.idle_from_magic = w.idle_from_magic
       /\ t.magic_sleep_flag = w.magic_sleep_flag /\ t.MAGICTIME = w.MAGICTIME
       /\ t.call_seen = w.call_seen
  BY Zenon, <1>11, <1>12 DEF KernelState
<1> HIDE DEF t
<1>14. IdleInert(t) /\ PendingIsCurrent(t) /\ DeadNotQueued(t)
  BY <1>2, <1>10, <1>11, <1>13 DEF SchedInv, IdleInert, PendingIsCurrent, DeadNotQueued
<1>15. NoMagic(t)
  BY <1>10, <1>13 DEF SchedInv, NoMagic
<1>16. SomeMagic(t)
  BY <1>10, <1>11, <1>13, MagicIsTask DEF SchedInv, SomeMagic
<1> QED
  BY <1>1, <1>13, <1>14, <1>15, <1>16 DEF SchedInv

-----------------------------------------------------------------------------
(* The actions.                                                              *)

\* A step to a state with the invariant keeps it, also when the machine stops.
LEMMA BecomeInv ==
    ASSUME SchedInv(k), NEW s, SchedInv(s), Become(s)
    PROVE  SchedInv(k')
<1>1. k \in KernelState
  BY DEF SchedInv
<1>2. SchedInv(Oops(k))
  BY <1>1, OopsKeeps, InvOfFrame
<1> QED
  BY <1>2 DEF Become

\* current may take any state but that of a free task_struct.
LEMMA StateInv ==
    ASSUME NEW s, SchedInv(s), s.curr \in Tasks, NEW new \in States \ {"UNUSED"},
           NEW t, t = [s EXCEPT !.state[s.curr] = new]
    PROVE  SchedInv(t) /\ t.state = [s.state EXCEPT ![s.curr] = new]
<1> DEFINE p == s.curr
<1>1. s \in KernelState /\ p \in All /\ p # Idle /\ s.state \in [All -> States]
  BY TaskAssumption DEF SchedInv, KernelState, All
<1>2. [s.state EXCEPT ![p] = new] \in [All -> States]
  BY <1>1
<1>3. /\ t \in KernelState
      /\ t.state = [s.state EXCEPT ![p] = new]
      /\ t.curr = s.curr /\ t.array = s.array /\ t.holding_wand = s.holding_wand
      /\ t.magic_time = s.magic_time /\ t.started_magic = s.started_magic
      /\ t.magicProcess = s.magicProcess /\ t.idle_from_magic = s.idle_from_magic
      /\ t.magic_sleep_flag = s.magic_sleep_flag /\ t.MAGICTIME = s.MAGICTIME
      /\ t.call_seen = s.call_seen
  BY Zenon, <1>1, <1>2 DEF KernelState
<1>4. IdleInert(t) /\ PendingIsCurrent(t) /\ DeadNotQueued(t)
  BY <1>1, <1>3 DEF SchedInv, IdleInert, PendingIsCurrent, DeadNotQueued
<1>5. NoMagic(t) /\ SomeMagic(t)
  BY <1>1, <1>3 DEF SchedInv, NoMagic, SomeMagic
<1> QED
  BY <1>3, <1>4, <1>5 DEF SchedInv

\* A change of a field that SchedInv does not mention, in do_timer(), the
\* delivery of a signal and fork().
LEMMA OtherFieldsInv ==
    ASSUME NEW s, SchedInv(s), NEW p \in All, NEW f \in Flag,
           NEW c \in [All -> Flag], NEW n \in 0 .. (Word - 1)
    PROVE  /\ SchedInv([s EXCEPT !.called = c])
           /\ SchedInv([s EXCEPT !.sigpending[p] = f])
           /\ SchedInv([s EXCEPT !.time_slice[p] = n])
<1>1. s \in KernelState
  BY DEF SchedInv
<1>2. SchedInv([s EXCEPT !.called = c])
  <2> DEFINE t == [s EXCEPT !.called = c]
  <2>1. t \in KernelState /\ Frame(s, t) /\ t.array = s.array
    BY Zenon, <1>1 DEF KernelState, Frame
  <2> QED
    BY Zenon, <2>1, InvOfFrame
<1>3. SchedInv([s EXCEPT !.sigpending[p] = f])
  <2> DEFINE t == [s EXCEPT !.sigpending[p] = f]
  <2>1. t \in KernelState /\ Frame(s, t) /\ t.array = s.array
    BY Zenon, <1>1 DEF KernelState, Frame
  <2> QED
    BY Zenon, <2>1, InvOfFrame
<1>4. SchedInv([s EXCEPT !.time_slice[p] = n])
  <2> DEFINE t == [s EXCEPT !.time_slice[p] = n]
  <2>1. [s.time_slice EXCEPT ![p] = n] \in [All -> 0 .. (Word - 1)]
    BY <1>1 DEF KernelState
  <2>2. t \in KernelState /\ Frame(s, t) /\ t.array = s.array
    BY Zenon, <1>1, <2>1 DEF KernelState, Frame
  <2> QED
    BY Zenon, <2>2, InvOfFrame
<1> QED
  BY <1>2, <1>3, <1>4

\* The timer interrupt.
LEMMA TickInv ==
    ASSUME Inductive, Tick
    PROVE  Inductive'
<1> DEFINE c == [p \in All |-> 0]
           s == [k EXCEPT !.called = c]
<1>1. PICK e \in UserPrios, a \in Arrays : Become(scheduler_tick(s, e, a))
  BY DEF Tick
<1>2. Idle \in All /\ 0 \in 0 .. (Word - 1) /\ 0 \in Flag /\ c \in [All -> Flag]
  BY SliceAssumption DEF All, Flag
<1> HIDE DEF c
<1>3. SchedInv(s)
  BY Zenon, <1>2, OtherFieldsInv DEF Inductive
<1> HIDE DEF s
<1>4. SchedInv(scheduler_tick(s, e, a))
  BY <1>3, SchedulerTickInv
<1> QED
  BY <1>1, <1>4, BecomeInv DEF Inductive

\* A call of schedule() by the idle loop or a process.
LEMMA ScheduleStepInv ==
    ASSUME Inductive, Schedule
    PROVE  Inductive'
BY ScheduleInv, BecomeInv DEF Inductive, Schedule

\* sys_magic_clock(), when no call cancels an earlier one of the same jiffy.
LEMMA MagicClockInv ==
    ASSUME "cancel_same_jiffy" \notin Stress,
           Inductive, NEW sec \in Seconds, sys_magic_clock(sec)
    PROVE  Inductive'
<1> DEFINE p == k.curr
           n == (sec * HZ) % Word
           f == IF p = k.magicProcess /\ ~SameJiffy THEN 0 ELSE k.call_seen
<1>1. /\ k \in KernelState /\ p \in Tasks /\ p \in All /\ p # Idle
      /\ k.magic_time \in [All -> 0 .. (Word - 1)] /\ k.called \in [All -> Flag]
  BY TaskAssumption DEF Inductive, SchedInv, KernelState, sys_magic_clock, InProcess, All
<1>2. n \in 0 .. (Word - 1)
  BY ClockAssumption, SliceAssumption
<1>3. f \in Flag
  BY <1>1 DEF KernelState, Flag
<1>4. SameJiffy => n # 0
  BY DEF sys_magic_clock
<1>5. k' = [k EXCEPT !.magic_time[p] = n, !.called[p] = 1, !.call_seen = f]
  BY DEF sys_magic_clock
<1>6. n = 0 /\ p = k.magicProcess => f = 0
  BY <1>4
<1>7. p # k.magicProcess => f = k.call_seen
  OBVIOUS
<1> HIDE DEF n, f, p
<1>8. [k.magic_time EXCEPT ![p] = n] \in [All -> 0 .. (Word - 1)]
  BY <1>1, <1>2
<1>9. [k.called EXCEPT ![p] = 1] \in [All -> Flag]
  BY <1>1 DEF Flag
<1>10. /\ k' \in KernelState
       /\ k'.magic_time = [k.magic_time EXCEPT ![p] = n] /\ k'.call_seen = f
       /\ k'.curr = k.curr /\ k'.state = k.state /\ k'.array = k.array
       /\ k'.holding_wand = k.holding_wand /\ k'.started_magic = k.started_magic
       /\ k'.magicProcess = k.magicProcess /\ k'.idle_from_magic = k.idle_from_magic
       /\ k'.magic_sleep_flag = k.magic_sleep_flag /\ k'.MAGICTIME = k.MAGICTIME
  BY Zenon, <1>1, <1>3, <1>5, <1>8, <1>9 DEF KernelState
<1>11. IdleInert(k') /\ DeadNotQueued(k') /\ NoMagic(k')
  BY <1>1, <1>10 DEF Inductive, SchedInv, IdleInert, DeadNotQueued, NoMagic
<1>12. PendingIsCurrent(k')
  BY <1>1, <1>10 DEF Inductive, SchedInv, PendingIsCurrent, p
<1>13. SomeMagic(k')
  <2> SUFFICES ASSUME k.magicProcess # NULL PROVE SomeMagic(k')
    BY <1>10 DEF SomeMagic
  <2>1. k.magicProcess \in All
    BY MagicIsTask DEF Inductive
  <2>2. k'.magic_time[k.magicProcess] = 0 => f = 0
    BY <1>1, <1>6, <1>7, <1>10, <2>1 DEF Inductive, SchedInv, SomeMagic
  <2> QED
    BY <1>10, <2>2 DEF Inductive, SchedInv, SomeMagic
<1> QED
  BY <1>10, <1>11, <1>12, <1>13 DEF Inductive, SchedInv

\* A process sets its own state.
LEMMA SetStateInv ==
    ASSUME Inductive, NEW new \in Sleeps \cup {"RUNNING"}, set_current_state(new)
    PROVE  Inductive'
<1>1. new \in States \ {"UNUSED"}
  BY ClockAssumption DEF States
<1> QED
  BY Zenon, <1>1, StateInv DEF Inductive, set_current_state

\* A wakeup.
LEMMA WakeUpInv ==
    ASSUME Inductive, NEW p \in Tasks, wake_up_process(p)
    PROVE  Inductive'
<1>1. PICK e \in UserPrios \cup {k.prio[p]} : Become(try_to_wake_up(k, p, e))
  BY DEF wake_up_process
<1>2. k.prio[p] \in 0 .. MAX_PRIO
  BY DEF Inductive, SchedInv, KernelState, All
<1>3. e \in 0 .. MAX_PRIO
  BY Zenon, <1>1, <1>2, PrioRanges
<1>4. k.state[p] \notin {"ZOMBIE", "UNUSED"}
  BY DEF wake_up_process, Sleeping
<1>5. SchedInv(try_to_wake_up(k, p, e))
  BY <1>3, <1>4, WakeInv DEF Inductive
<1> QED
  BY <1>1, <1>5, BecomeInv DEF Inductive

\* The delivery of a signal.
LEMMA SignalInv ==
    ASSUME Inductive, NEW p \in Tasks, Signal(p)
    PROVE  Inductive'
<1> DEFINE s == [k EXCEPT !.sigpending[p] = 1]
<1>1. PICK e \in UserPrios \cup {k.prio[p]} :
         Become(IF k.state[p] = "INTERRUPTIBLE" THEN try_to_wake_up(s, p, e) ELSE s)
  BY DEF Signal
<1>2. k \in KernelState /\ k.prio[p] \in 0 .. MAX_PRIO /\ p \in All
  BY DEF Inductive, SchedInv, KernelState, All
<1>3. e \in 0 .. MAX_PRIO
  BY <1>1, <1>2, PrioRanges
<1>4. 1 \in Flag /\ 0 \in 0 .. (Word - 1) /\ [q \in All |-> 1] \in [All -> Flag]
  BY SliceAssumption DEF Flag
<1>5. SchedInv(s)
  BY Zenon, <1>2, <1>4, OtherFieldsInv DEF Inductive
<1>6. s.state = k.state
  BY <1>2 DEF KernelState
<1> HIDE DEF s
<1>7. CASE k.state[p] = "INTERRUPTIBLE"
  <2>1. SchedInv(try_to_wake_up(s, p, e))
    BY <1>3, <1>5, <1>6, <1>7, WakeInv
  <2> QED
    BY <1>1, <1>7, <2>1, BecomeInv DEF Inductive
<1>8. CASE k.state[p] # "INTERRUPTIBLE"
  BY <1>1, <1>5, <1>8, BecomeInv DEF Inductive
<1> QED
  BY <1>7, <1>8

\* A signal is taken on return to user mode.
LEMMA TakeSignalInv ==
    ASSUME Inductive, TakeSignal
    PROVE  Inductive'
<1>1. k.curr \in All /\ k' = [k EXCEPT !.sigpending[k.curr] = 0]
  BY DEF TakeSignal, InProcess, All
<1>2. 0 \in Flag /\ 0 \in 0 .. (Word - 1) /\ [q \in All |-> 0] \in [All -> Flag]
  BY SliceAssumption DEF Flag
<1> QED
  BY Zenon, <1>1, <1>2, OtherFieldsInv DEF Inductive

\* A forked child is put on the queue without magic time.
LEMMA ForkedInv ==
    ASSUME NEW s, SchedInv(s), NEW c \in Tasks, c # s.curr, NEW f \in UserPrios
    PROVE  SchedInv(wake_up_forked_process(s, c, f))
<1> DEFINE r == [s EXCEPT !.state[c] = "RUNNING"]
           t == activate_task(r, c, f)
<1>1. wake_up_forked_process(s, c, f) = t
  BY DEF wake_up_forked_process
<1>2. s \in KernelState /\ c \in All /\ c # Idle /\ s.state \in [All -> States]
  BY TaskAssumption DEF SchedInv, KernelState, All
<1>3. [s.state EXCEPT ![c] = "RUNNING"] \in [All -> States]
  BY <1>2 DEF States
<1>4. /\ r \in KernelState
      /\ r.state = [s.state EXCEPT ![c] = "RUNNING"]
      /\ r.curr = s.curr /\ r.array = s.array /\ r.holding_wand = s.holding_wand
      /\ r.magic_time = s.magic_time /\ r.started_magic = s.started_magic
      /\ r.magicProcess = s.magicProcess /\ r.idle_from_magic = s.idle_from_magic
      /\ r.magic_sleep_flag = s.magic_sleep_flag /\ r.MAGICTIME = s.MAGICTIME
      /\ r.call_seen = s.call_seen
  BY Zenon, <1>2, <1>3 DEF KernelState
<1> HIDE DEF r
<1>5. IdleInert(r) /\ PendingIsCurrent(r) /\ DeadNotQueued(r)
  BY <1>2, <1>4 DEF SchedInv, IdleInert, PendingIsCurrent, DeadNotQueued
<1>6. NoMagic(r)
  BY <1>4 DEF SchedInv, NoMagic
<1>7. SomeMagic(r)
  BY <1>2, <1>4, MagicIsTask DEF SchedInv, SomeMagic
<1>8. SchedInv(r) /\ r.state[c] = "RUNNING"
  BY <1>2, <1>4, <1>5, <1>6, <1>7 DEF SchedInv
<1>9. f \in 0 .. MAX_PRIO /\ "active" \in Arrays
  BY PrioRanges DEF Arrays
<1>10. t \in KernelState /\ Frame(r, t) /\ t.array = [r.array EXCEPT ![c] = "active"]
  BY <1>2, <1>4, <1>9, ActivateKeeps
<1> HIDE DEF t
<1>11. SchedInv(t)
  BY <1>8, <1>9, <1>10, QueueInv
<1> QED
  BY <1>1, <1>11

\* do_fork().
LEMMA ForkInv ==
    ASSUME Inductive, NEW c \in Tasks, do_fork(c)
    PROVE  Inductive'
<1> DEFINE p == k.curr
           slice == k.time_slice[p]
           copy == [k EXCEPT !.prio[c] = k.prio[p],
                             !.need_resched[c] = k.need_resched[p],
                             !.time_slice[c] = (slice + 1) \div 2,
                             !.first_time_slice[c] = 1]
           s(e, a) == IF slice = 1 THEN scheduler_tick(copy, e, a)
                      ELSE [copy EXCEPT !.time_slice[p] = slice \div 2]
           w(e, f, a) == wake_up_forked_process(s(e, a), c, f)
<1>1. PICK e \in UserPrios, f \in UserPrios, a \in Arrays :
         Become(IF slice = 0 THEN Oops(k) ELSE set_tsk_need_resched(w(e, f, a), p))
  BY Zenon DEF do_fork
<1>2. /\ k \in KernelState /\ p \in All /\ c \in All
      /\ k.prio[p] \in 0 .. MAX_PRIO /\ k.need_resched[p] \in Flag /\ slice \in 0 .. (Word - 1)
  BY DEF Inductive, SchedInv, KernelState, All
<1>3. c # p
  BY DEF do_fork, InProcess
<1>4. CASE slice = 0
  <2>1. SchedInv(Oops(k))
    BY <1>2, OopsKeeps, InvOfFrame DEF Inductive
  <2> QED
    BY <1>1, <1>4, <2>1, BecomeInv DEF Inductive
<1>5. CASE slice # 0
  <2>1. (slice + 1) \div 2 \in 0 .. (Word - 1) /\ slice \div 2 \in 0 .. (Word - 1)
    BY <1>2, SliceAssumption
  <2>2. copy \in KernelState
    <3>1. [k.prio EXCEPT ![c] = k.prio[p]] \in [All -> 0 .. MAX_PRIO]
      BY <1>2 DEF KernelState
    <3>2. [k.need_resched EXCEPT ![c] = k.need_resched[p]] \in [All -> Flag]
      BY <1>2 DEF KernelState
    <3>3. [k.time_slice EXCEPT ![c] = (slice + 1) \div 2] \in [All -> 0 .. (Word - 1)]
      BY <1>2, <2>1 DEF KernelState
    <3>4. [k.first_time_slice EXCEPT ![c] = 1] \in [All -> Flag]
      BY <1>2 DEF KernelState, Flag
    <3> HIDE DEF slice, p
    <3> QED
      BY Zenon, <1>2, <3>1, <3>2, <3>3, <3>4 DEF KernelState
  <2>3. Frame(k, copy) /\ copy.array = k.array
    BY <1>2 DEF KernelState, Frame
  <2> HIDE DEF copy, slice
  <2>4. SchedInv(copy) /\ copy.curr = p
    BY <2>2, <2>3, InvOfFrame DEF Inductive, Frame
  <2>5. SchedInv(s(e, a)) /\ s(e, a).curr = p
    <3>1. CASE slice = 1
      BY <2>4, <3>1, SchedulerTickInv
    <3>2. CASE slice # 1
      <4> DEFINE t == [copy EXCEPT !.time_slice[p] = slice \div 2]
      <4>1. 0 \in Flag /\ [q \in All |-> 0] \in [All -> Flag]
        BY DEF Flag
      <4>2. SchedInv(t)
        BY Zenon, <1>2, <2>1, <2>4, <4>1, OtherFieldsInv
      <4>3. t.curr = p
        BY <2>2, <2>4 DEF KernelState
      <4> QED
        BY <3>2, <4>2, <4>3
    <3> QED
      BY <3>1, <3>2
  <2> HIDE DEF s
  <2>6. SchedInv(w(e, f, a))
    BY <1>3, <2>5, ForkedInv
  <2> HIDE DEF w
  <2>7. w(e, f, a) \in KernelState
    BY <2>6 DEF SchedInv
  <2>8. SchedInv(set_tsk_need_resched(w(e, f, a), p))
    BY <1>2, <2>6, <2>7, NeedReschedKeeps, InvOfFrame
  <2> QED
    BY <1>1, <1>5, <2>8, BecomeInv DEF Inductive
<1> QED
  BY <1>4, <1>5

\* do_exit(), with the notification of the parent.
LEMMA ExitInv ==
    ASSUME Inductive, do_exit
    PROVE  Inductive'
<1> DEFINE z == [k EXCEPT !.state[k.curr] = "ZOMBIE"]
           n(par, e) == do_notify_parent(z, par, e)
<1>1. k.curr \in Tasks /\ k.state[k.curr] = "RUNNING"
  BY DEF do_exit, InProcess
<1>2. SchedInv(z) /\ z.state = [k.state EXCEPT ![k.curr] = "ZOMBIE"]
  <2>1. "ZOMBIE" \in States \ {"UNUSED"}
    BY DEF States
  <2> QED
    BY Zenon, <1>1, <2>1, StateInv DEF Inductive
<1>3. CASE k' = z
  BY <1>2, <1>3 DEF Inductive
<1>4. CASE \E par \in Tasks : \E e \in UserPrios \cup {k.prio[par]}, sig \in {k.sigpending[par], 1} :
              Become([n(par, e) EXCEPT !.sigpending[par] = sig])
  <2>1. PICK par \in Tasks :
           \E e \in UserPrios \cup {k.prio[par]}, sig \in {k.sigpending[par], 1} :
              Become([n(par, e) EXCEPT !.sigpending[par] = sig])
    BY <1>4
  <2>2. PICK e \in UserPrios \cup {k.prio[par]}, sig \in {k.sigpending[par], 1} :
           Become([n(par, e) EXCEPT !.sigpending[par] = sig])
    BY <2>1
  <2>3. par \in All /\ k.prio[par] \in 0 .. MAX_PRIO /\ k.sigpending[par] \in Flag
    BY DEF Inductive, SchedInv, KernelState, All
  <2>4. e \in 0 .. MAX_PRIO
    BY Zenon, <2>3, PrioRanges
  <2>5. /\ sig \in Flag /\ 0 \in 0 .. (Word - 1) /\ [q \in All |-> 0] \in [All -> Flag]
    BY <2>3, SliceAssumption DEF Flag
  <2> HIDE DEF z
  <2>6. SchedInv(n(par, e))
    <3>1. CASE z.state[par] = "INTERRUPTIBLE"
      BY Zenon, <1>2, <2>4, <3>1, WakeInv DEF do_notify_parent
    <3>2. CASE z.state[par] # "INTERRUPTIBLE"
      BY <1>2, <3>2 DEF do_notify_parent
    <3> QED
      BY <3>1, <3>2
  <2> HIDE DEF n
  <2>7. SchedInv([n(par, e) EXCEPT !.sigpending[par] = sig])
    BY Zenon, <2>3, <2>5, <2>6, OtherFieldsInv
  <2> QED
    BY <2>2, <2>7, BecomeInv DEF Inductive
<1> QED
  BY <1>3, <1>4 DEF do_exit

\* sys_wait4() on a zombie: it is neither current nor the magic process.
LEMMA WaitInv ==
    ASSUME Inductive, NEW z \in Tasks, sys_wait4(z)
    PROVE  Inductive'
<1> DEFINE x == sched_exit(k, z)
<1>1. /\ k' = [x EXCEPT !.state[z] = "UNUSED", !.prio[z] = MAX_PRIO, !.time_slice[z] = 0,
                        !.first_time_slice[z] = 0, !.need_resched[z] = 0,
                        !.sigpending[z] = 0, !.holding_wand[z] = 0, !.magic_time[z] = 0,
                        !.started_magic[z] = 0, !.called[z] = 0]
      /\ k.state[z] = "ZOMBIE" /\ k.curr \in Tasks /\ k.state[k.curr] = "RUNNING"
  BY Zenon DEF sys_wait4, release_task, InProcess
<1>2. z \in All /\ z # Idle /\ k.curr # Idle /\ k.curr \in All /\ z # k.curr
  BY Zenon, <1>1, TaskAssumption DEF All
<1>3. SchedInv(x) /\ x.curr = k.curr /\ x.state = k.state
  <2> DEFINE sum == (k.time_slice[k.curr] + k.time_slice[z]) % Word
             n == IF sum > MaxTimeslice THEN MaxTimeslice ELSE sum
  <2>1. k \in KernelState
    BY DEF Inductive, SchedInv
  <2>2. n \in 0 .. (Word - 1)
    <3>1. k.time_slice[k.curr] \in 0 .. (Word - 1) /\ k.time_slice[z] \in 0 .. (Word - 1)
      BY <1>2, <2>1 DEF KernelState
    <3>2. sum \in 0 .. (Word - 1)
      BY <3>1, SliceAssumption
    <3> HIDE DEF sum
    <3> QED
      BY <3>2, SliceAssumption
  <2>3. x = k \/ x = [k EXCEPT !.time_slice[k.curr] = n]
    BY DEF sched_exit
  <2> HIDE DEF n, x
  <2>4. 0 \in Flag /\ [q \in All |-> 0] \in [All -> Flag]
    BY DEF Flag
  <2>5. SchedInv([k EXCEPT !.time_slice[k.curr] = n])
    BY Zenon, <1>2, <2>2, <2>4, OtherFieldsInv DEF Inductive
  <2>6. LET y == [k EXCEPT !.time_slice[k.curr] = n] IN y.curr = k.curr /\ y.state = k.state
    BY <2>1 DEF KernelState
  <2> QED
    BY Zenon, <2>3, <2>5, <2>6 DEF Inductive
<1> HIDE DEF x
<1>4. x \in KernelState
  BY <1>3 DEF SchedInv
<1>5. z # x.magicProcess
  <2>1. x.idle_from_magic \in {0, 1}
    BY <1>4 DEF KernelState, Flag
  <2> QED
    BY <1>2, <1>3, <2>1, TaskAssumption DEF SchedInv, SomeMagic
<1>6. k' \in KernelState
  <2>1. [x.state EXCEPT ![z] = "UNUSED"] \in [All -> States]
    BY Zenon, <1>4 DEF KernelState, States
  <2>2. [x.prio EXCEPT ![z] = MAX_PRIO] \in [All -> 0 .. MAX_PRIO]
    BY Zenon, <1>4, PrioRanges DEF KernelState
  <2>3. 0 \in 0 .. (Word - 1) /\ 0 \in Flag
    BY SliceAssumption DEF Flag
  <2>4. /\ [x.time_slice EXCEPT ![z] = 0] \in [All -> 0 .. (Word - 1)]
        /\ [x.magic_time EXCEPT ![z] = 0] \in [All -> 0 .. (Word - 1)]
    BY Zenon, <1>4, <2>3 DEF KernelState
  <2>5. /\ [x.first_time_slice EXCEPT ![z] = 0] \in [All -> Flag]
        /\ [x.need_resched EXCEPT ![z] = 0] \in [All -> Flag]
        /\ [x.sigpending EXCEPT ![z] = 0] \in [All -> Flag]
    BY Zenon, <1>4, <2>3 DEF KernelState
  <2>6. /\ [x.holding_wand EXCEPT ![z] = 0] \in [All -> Flag]
        /\ [x.started_magic EXCEPT ![z] = 0] \in [All -> Flag]
        /\ [x.called EXCEPT ![z] = 0] \in [All -> Flag]
    BY Zenon, <1>4, <2>3 DEF KernelState
  <2>7. k' = [x EXCEPT !.state = [x.state EXCEPT ![z] = "UNUSED"],
                       !.prio = [x.prio EXCEPT ![z] = MAX_PRIO],
                       !.time_slice = [x.time_slice EXCEPT ![z] = 0],
                       !.first_time_slice = [x.first_time_slice EXCEPT ![z] = 0],
                       !.need_resched = [x.need_resched EXCEPT ![z] = 0],
                       !.sigpending = [x.sigpending EXCEPT ![z] = 0],
                       !.holding_wand = [x.holding_wand EXCEPT ![z] = 0],
                       !.magic_time = [x.magic_time EXCEPT ![z] = 0],
                       !.started_magic = [x.started_magic EXCEPT ![z] = 0],
                       !.called = [x.called EXCEPT ![z] = 0]]
    BY <1>1
  <2> QED
    BY Zenon, <1>4, <2>1, <2>2, <2>4, <2>5, <2>6, <2>7 DEF KernelState
<1>7. /\ k'.state = [x.state EXCEPT ![z] = "UNUSED"]
      /\ k'.holding_wand = [x.holding_wand EXCEPT ![z] = 0]
      /\ k'.magic_time = [x.magic_time EXCEPT ![z] = 0]
      /\ k'.started_magic = [x.started_magic EXCEPT ![z] = 0]
      /\ k'.curr = x.curr /\ k'.array = x.array
      /\ k'.magicProcess = x.magicProcess /\ k'.idle_from_magic = x.idle_from_magic
      /\ k'.magic_sleep_flag = x.magic_sleep_flag /\ k'.MAGICTIME = x.MAGICTIME
      /\ k'.call_seen = x.call_seen
  BY <1>1, <1>4 DEF KernelState
<1>8. /\ x.state \in [All -> States] /\ x.holding_wand \in [All -> Flag]
      /\ x.magic_time \in [All -> 0 .. (Word - 1)] /\ x.started_magic \in [All -> Flag]
  BY <1>4 DEF KernelState
<1>9. IdleInert(k')
  BY <1>2, <1>3, <1>7, <1>8 DEF SchedInv, IdleInert, All
<1>10. PendingIsCurrent(k')
  BY <1>2, <1>3, <1>7, <1>8 DEF SchedInv, PendingIsCurrent
<1>11. DeadNotQueued(k')
  <2>1. x.state[z] = "ZOMBIE" /\ x.array[z] = "null"
    BY <1>1, <1>2, <1>3 DEF SchedInv, DeadNotQueued
  <2> QED
    BY <1>2, <1>3, <1>7, <1>8, <2>1 DEF SchedInv, DeadNotQueued
<1>12. NoMagic(k')
  BY <1>3, <1>7, <1>8 DEF SchedInv, NoMagic
<1>13. SomeMagic(k')
  <2> SUFFICES ASSUME x.magicProcess # NULL PROVE SomeMagic(k')
    BY <1>7 DEF SomeMagic
  <2>1. x.magicProcess \in All
    BY <1>3, MagicIsTask
  <2> QED
    BY <1>3, <1>5, <1>7, <1>8, <2>1 DEF SchedInv, SomeMagic
<1> QED
  BY <1>6, <1>9, <1>10, <1>11, <1>12, <1>13 DEF Inductive, SchedInv

\* The requeueing of sys_sched_yield() changes priorities and lists only.
LEMMA YieldRequeueInv ==
    ASSUME NEW s, SchedInv(s), s.array[s.curr] # "null"
    PROVE  SchedInv(yield_requeue(s))
<1> DEFINE p == s.curr
           a == s.array[p]
           rest == s.bitmap[a] \ {s.prio[p]}
           next == {j \in rest : \A l \in rest : j <= l}
           lower == {j \in next : j > s.prio[p]}
           i == IF lower = {} THEN s.prio[p] ELSE CHOOSE j \in lower : TRUE
           r == [s EXCEPT !.run_list[p] = s.prio[p]]
           d == [s EXCEPT !.run_list[p] = i, !.prio[p] = i, !.bitmap[a] = rest \cup {i}]
           t == yield_requeue(s)
<1>1. /\ s \in KernelState /\ p \in All /\ a \in Arrays /\ s.prio[p] \in 0 .. MAX_PRIO
      /\ s.bitmap[a] \in SUBSET (0 .. MAX_PRIO)
  BY DEF SchedInv, KernelState
<1>2. i \in 0 .. MAX_PRIO /\ rest \cup {i} \in SUBSET (0 .. MAX_PRIO)
  BY Zenon, <1>1
<1>3. t \in {r, d}
  BY Zenon DEF yield_requeue
<1> HIDE DEF rest, next, lower, i, a
<1>4. r \in KernelState /\ Frame(s, r) /\ r.array = s.array
  <2>1. [s.run_list EXCEPT ![p] = s.prio[p]] \in [All -> 0 .. MAX_PRIO]
    BY <1>1 DEF KernelState
  <2>2. r \in KernelState
    BY Zenon, <1>1, <2>1 DEF KernelState
  <2> QED
    BY Zenon, <1>1, <2>2 DEF KernelState, Frame
<1>5. d \in KernelState /\ Frame(s, d) /\ d.array = s.array
  <2>1. [s.run_list EXCEPT ![p] = i] \in [All -> 0 .. MAX_PRIO]
    BY <1>1, <1>2 DEF KernelState
  <2>2. [s.prio EXCEPT ![p] = i] \in [All -> 0 .. MAX_PRIO]
    BY <1>1, <1>2 DEF KernelState
  <2>3. [s.bitmap EXCEPT ![a] = rest \cup {i}] \in [Arrays -> SUBSET (0 .. MAX_PRIO)]
    BY <1>1, <1>2 DEF KernelState
  <2>4. d \in KernelState
    BY Zenon, <1>1, <2>1, <2>2, <2>3 DEF KernelState
  <2> QED
    BY <1>1, <2>4 DEF KernelState, Frame
<1> HIDE DEF r, d, t
<1>6. SchedInv(t)
  BY <1>3, <1>4, <1>5, InvOfFrame
<1> QED
  BY <1>6 DEF t

\* sys_sched_yield().
LEMMA YieldInv ==
    ASSUME Inductive, sys_sched_yield
    PROVE  Inductive'
<1>1. CASE k.array[k.curr] = "null"
  <2>1. Become(Oops(k))
    BY <1>1 DEF sys_sched_yield
  <2>2. k \in KernelState
    BY DEF Inductive, SchedInv
  <2>3. SchedInv(Oops(k))
    BY <2>2, OopsKeeps, InvOfFrame DEF Inductive
  <2> QED
    BY <2>1, <2>3, BecomeInv DEF Inductive
<1>2. CASE k.array[k.curr] # "null"
  <2>1. PICK s \in schedule(yield_requeue(k)) : Become(s)
    BY <1>2 DEF sys_sched_yield
  <2>2. SchedInv(yield_requeue(k))
    BY <1>2, YieldRequeueInv DEF Inductive
  <2>3. SchedInv(s)
    BY <2>1, <2>2, ScheduleInv
  <2> QED
    BY <2>1, <2>3, BecomeInv DEF Inductive
<1> QED
  BY <1>1, <1>2

\* set_user_nice().
LEMMA NiceInv ==
    ASSUME Inductive, NEW p \in Tasks, NEW e \in UserPrios, set_user_nice(p, e)
    PROVE  Inductive'
<1> DEFINE r == IF k.array[p] = "null" THEN [k EXCEPT !.prio[p] = e] ELSE requeue(k, p, e)
<1>1. Become(IF k.array[p] # "null" /\ p = k.curr THEN set_tsk_need_resched(r, p) ELSE r)
  BY DEF set_user_nice
<1>2. k \in KernelState /\ p \in All /\ e \in 0 .. MAX_PRIO
  BY PrioRanges DEF Inductive, SchedInv, All
<1>3. r \in KernelState /\ Frame(k, r) /\ r.array = k.array
  BY <1>2, PrioKeeps, RequeueKeeps
<1> HIDE DEF r
<1>4. SchedInv(r)
  BY <1>3, InvOfFrame DEF Inductive
<1>5. SchedInv(set_tsk_need_resched(r, p))
  BY <1>2, <1>3, <1>4, NeedReschedKeeps, InvOfFrame
<1> QED
  BY <1>1, <1>4, <1>5, BecomeInv DEF Inductive

\* The state the kernel boots into.
LEMMA InitInv ==
    ASSUME Init
    PROVE  Inductive
<1> DEFINE i == CHOOSE e \in UserPrios : TRUE
           n == Cardinality(Boot)
           c0 == [p \in All |-> 0]
           st == [p \in All |-> IF p \in Boot \cup {Idle} THEN "RUNNING" ELSE "UNUSED"]
           pr == [p \in All |-> IF p \in Boot THEN i ELSE MAX_PRIO]
           ar == [p \in All |-> IF p \in Boot THEN "active" ELSE "null"]
           rl == [p \in All |-> IF p \in Boot THEN i ELSE Unlinked]
           bm == [a \in Arrays |-> IF a = "active" THEN {i} ELSE {}]
           na == [a \in Arrays |-> IF a = "active" THEN n ELSE 0]
           ts == [p \in All |-> IF p \in Boot THEN Timeslice ELSE 0]
           hw == [p \in All |-> IF p \in Boot THEN 1 ELSE 0]
<1>1. i \in 0 .. MAX_PRIO
  BY Zenon, PrioAssumption, PrioRanges
<1>2. n \in Nat
  BY TaskAssumption, ClockAssumption, FS_Subset, FS_CardinalityType
<1>3. PICK first \in Boot :
        k = [curr |-> first, state |-> st, prio |-> pr, array |-> ar, run_list |-> rl,
             bitmap |-> bm, nr_active |-> na, nr_running |-> n, time_slice |-> ts,
             first_time_slice |-> c0, need_resched |-> c0, sigpending |-> c0,
             holding_wand |-> hw, magic_time |-> c0, started_magic |-> c0, called |-> c0,
             magicProcess |-> NULL, idle_from_magic |-> 0, magic_sleep_flag |-> 0,
             MAGICTIME |-> 0, call_seen |-> 1, oops |-> 0]
  BY Zenon DEF Init
<1> HIDE DEF i, n
<1>4. first \in All /\ Idle \in All /\ Idle \notin Boot /\ Boot \subseteq All
  BY TaskAssumption, ClockAssumption DEF All
<1>5. /\ st[Idle] = "RUNNING" /\ ar[Idle] = "null" /\ hw[Idle] = 0 /\ st[first] = "RUNNING"
      /\ \A p \in All : st[p] = "UNUSED" => ar[p] = "null"
      /\ \A p \in All : st[p] # "ZOMBIE"
  BY <1>4
<1>6. \A p \in All : c0[p] = 0
  OBVIOUS
<1>7. st \in [All -> States] /\ ar \in [All -> Arrays \cup {"null"}]
  BY DEF States, Arrays
<1>8. pr \in [All -> 0 .. MAX_PRIO] /\ rl \in [All -> 0 .. MAX_PRIO]
  BY <1>1, PrioRanges
<1>9. bm \in [Arrays -> SUBSET (0 .. MAX_PRIO)]
  BY <1>1
<1>10. na \in [Arrays -> Int] /\ n \in Int
  BY <1>2
<1>11. 0 \in 0 .. (Word - 1) /\ Timeslice \in 0 .. (Word - 1)
  BY SliceAssumption
<1>12. ts \in [All -> 0 .. (Word - 1)] /\ c0 \in [All -> 0 .. (Word - 1)]
  BY <1>11
<1>13. hw \in [All -> Flag] /\ c0 \in [All -> Flag] /\ 0 \in Flag /\ 1 \in Flag
  BY DEF Flag
<1> HIDE DEF c0, st, pr, ar, rl, bm, na, ts, hw
<1>14. k \in KernelState
  BY <1>3, <1>4, <1>7, <1>8, <1>9, <1>10, <1>12, <1>13 DEF KernelState
<1>15. IdleInert(k) /\ PendingIsCurrent(k) /\ DeadNotQueued(k)
  <2>1. IdleInert(k)
    BY <1>3, <1>4, <1>5, <1>6 DEF IdleInert
  <2>2. PendingIsCurrent(k)
    BY <1>3, <1>6 DEF PendingIsCurrent
  <2>3. DeadNotQueued(k)
    BY <1>3, <1>5 DEF DeadNotQueued
  <2> QED
    BY <2>1, <2>2, <2>3
<1>16. NoMagic(k) /\ SomeMagic(k)
  BY <1>3, <1>6 DEF NoMagic, SomeMagic
<1> QED
  BY <1>14, <1>15, <1>16 DEF Inductive, SchedInv

\* No step of the scheduler breaks the invariant.
LEMMA StepInv ==
    ASSUME "cancel_same_jiffy" \notin Stress, Inductive, [Next]_k
    PROVE  Inductive'
<1>1. CASE Tick
  BY <1>1, TickInv
<1>2. CASE Schedule
  BY <1>2, ScheduleStepInv
<1>3. CASE \E sec \in Seconds : sys_magic_clock(sec)
  BY <1>3, MagicClockInv
<1>4. CASE \E new \in Sleeps \cup {"RUNNING"} : set_current_state(new)
  BY <1>4, SetStateInv
<1>5. CASE \E p \in Tasks : wake_up_process(p)
  BY <1>5, WakeUpInv
<1>6. CASE \E p \in Tasks : Signal(p)
  BY <1>6, SignalInv
<1>7. CASE TakeSignal
  BY <1>7, TakeSignalInv
<1>8. CASE \E c \in Tasks : do_fork(c)
  BY <1>8, ForkInv
<1>9. CASE do_exit
  BY <1>9, ExitInv
<1>10. CASE \E z \in Tasks : sys_wait4(z)
  BY <1>10, WaitInv
<1>11. CASE sys_sched_yield
  BY <1>11, YieldInv
<1>12. CASE \E p \in Tasks, e \in UserPrios : set_user_nice(p, e)
  BY <1>12, NiceInv
<1>13. CASE UNCHANGED k
  BY <1>13 DEF Inductive, SchedInv, IdleInert, PendingIsCurrent, DeadNotQueued, NoMagic, SomeMagic
<1> QED
  BY <1>1, <1>2, <1>3, <1>4, <1>5, <1>6, <1>7, <1>8, <1>9, <1>10, <1>11, <1>12, <1>13 DEF Next

-----------------------------------------------------------------------------
(* The theorems.                                                             *)

\* SchedInv holds in every reachable state of the scheduler, provided no
\* magic_clock(0) follows another call of the magic process within a jiffy.
THEOREM InductiveHolds ==
    ASSUME "cancel_same_jiffy" \notin Stress
    PROVE  Spec => []Inductive
<1>1. Init => Inductive
  BY InitInv
<1>2. Inductive /\ [Next]_k => Inductive'
  BY StepInv
<1> QED
  BY <1>1, <1>2, PTL DEF Spec

\* Every field of the scheduling state keeps its type: time_slice and
\* magic_time stay within an unsigned int, and no task pointer dangles.
THEOREM TypeCorrect ==
    ASSUME "cancel_same_jiffy" \notin Stress
    PROVE  Spec => []TypeOK
<1>1. Inductive => TypeOK
  BY DEF Inductive, SchedInv, TypeOK
<1> QED
  BY <1>1, InductiveHolds, PTL

\* While a magic process exists, schedule() never gives the CPU to a task
\* other than it and the idle task.
THEOREM ExclusiveCPUHolds ==
    ASSUME "cancel_same_jiffy" \notin Stress
    PROVE  Spec => []ExclusiveCPU
<1>1. Inductive => ExclusiveCPU
  BY DEF Inductive, SchedInv, SomeMagic, KernelState, Flag, ExclusiveCPU
<1> QED
  BY <1>1, InductiveHolds, PTL

\* The timer, magicProcess and started_magic always tell the same story, so
\* exit_from_magic() never follows a null magicProcess.
THEOREM MagicGlobalsAgreeHold ==
    ASSUME "cancel_same_jiffy" \notin Stress
    PROVE  Spec => []MagicGlobalsAgree
<1>1. Inductive => MagicGlobalsAgree
  <2> SUFFICES ASSUME Inductive PROVE MagicGlobalsAgree
    OBVIOUS
  <2>1. CASE k.magicProcess = NULL
    BY <2>1, TaskAssumption DEF Inductive, SchedInv, NoMagic, MagicGlobalsAgree, All
  <2>2. CASE k.magicProcess # NULL
    <3>1. k.state[k.magicProcess] # "UNUSED"
      BY <2>2 DEF Inductive, SchedInv, SomeMagic, DeadNotQueued, KernelState, Flag
    <3> QED
      BY <2>2, <3>1 DEF Inductive, SchedInv, SomeMagic, MagicGlobalsAgree
  <2> QED
    BY <2>1, <2>2
<1> QED
  BY <1>1, InductiveHolds, PTL

\* During magic the idle task runs exactly while the magic process sleeps or
\* has just been woken.
THEOREM IdleWhileAsleepHolds ==
    ASSUME "cancel_same_jiffy" \notin Stress
    PROVE  Spec => []IdleWhileAsleep
<1>1. Inductive => IdleWhileAsleep
  BY DEF Inductive, SchedInv, SomeMagic, KernelState, Flag, IdleWhileAsleep
<1> QED
  BY <1>1, InductiveHolds, PTL


-----------------------------------------------------------------------------
(***************************************************************************)
(* The run queue: what schedule() reads of it is right in every situation. *)
(* Every C function that touches the queue moves one task (Moved) or none  *)
(* (SameQueue); that a move keeps the queue right is proved once.          *)
(***************************************************************************)


Queued(s) == {p \in Tasks : s.array[p] # "null"}

On(s, a) == {p \in Tasks : s.array[p] = a}

\* QueueVisible of any scheduling state.  A task with a real-time priority is
\* on the list of that priority, so that sys_sched_yield() may leave the
\* bitmap alone when it moves it.
Visible(s) ==
    /\ \A p \in Queued(s) : s.run_list[p] \in s.bitmap[s.array[p]]
    /\ s.nr_running = Cardinality(Queued(s))
    /\ \A a \in Arrays : s.nr_active[a] = Cardinality(On(s, a))
    /\ \A p \in Queued(s) : rt_task(s, p) => s.run_list[p] = s.prio[p]

\* QueueConsistent of any scheduling state.
Linked(s) ==
    /\ \A p \in Queued(s) : s.run_list[p] = s.prio[p]
    /\ \A a \in Arrays : \A i \in s.bitmap[a] : queue(s, a, i) # {}

\* The run queue in every reachable state.
QueueInvariant == Inductive /\ Visible(k)

-----------------------------------------------------------------------------
(* Moves.                                                                    *)

\* The bitmap of array c when p has been taken off its list.
Cleared(s, p, c) ==
    IF s.array[p] = c /\ queue(s, c, s.prio[p]) \subseteq {p}
    THEN s.bitmap[c] \ {s.prio[p]} ELSE s.bitmap[c]

\* t is s with p taken off its array, if it is on one, and linked on array b
\* according to its priority, unless b is "null".
Moved(s, t, p, b) ==
    /\ t.array = [s.array EXCEPT ![p] = b]
    /\ \A q \in Tasks \ {p} : t.prio[q] = s.prio[q] /\ t.run_list[q] = s.run_list[q]
    /\ b # "null" => t.run_list[p] = t.prio[p]
    /\ t.nr_running = (s.nr_running - (IF s.array[p] = "null" THEN 0 ELSE 1))
                          + (IF b = "null" THEN 0 ELSE 1)
    /\ \A c \in Arrays :
          /\ t.nr_active[c] = (s.nr_active[c] - (IF s.array[p] = c THEN 1 ELSE 0))
                                  + (IF b = c THEN 1 ELSE 0)
          /\ t.bitmap[c] = Cleared(s, p, c) \cup (IF b = c THEN {t.prio[p]} ELSE {})

\* s and t have the same queue.
SameQueue(s, t) ==
    /\ t.array = s.array /\ t.run_list = s.run_list /\ t.bitmap = s.bitmap
    /\ t.nr_active = s.nr_active /\ t.nr_running = s.nr_running
    /\ \A q \in Queued(s) : t.prio[q] = s.prio[q]

\* Counting a set with an element more or less.
LEMMA CountOne ==
    ASSUME NEW S \in SUBSET Tasks, NEW p \in Tasks
    PROVE  /\ Cardinality(S) \in Int
           /\ Cardinality(S \cup {p}) = IF p \in S THEN Cardinality(S) ELSE Cardinality(S) + 1
           /\ Cardinality(S \ {p}) = IF p \in S THEN Cardinality(S) - 1 ELSE Cardinality(S)
<1>1. IsFiniteSet(S)
  BY TaskAssumption, FS_Subset
<1> QED
  BY <1>1, FS_CardinalityType, FS_AddElement, FS_RemoveElement

\* The sets of tasks after a move.
LEMMA MovedSets ==
    ASSUME NEW s \in KernelState, NEW t \in KernelState, NEW p \in Tasks,
           NEW b \in Arrays \cup {"null"}, Moved(s, t, p, b)
    PROVE  /\ \A q \in Tasks \ {p} : t.array[q] = s.array[q]
           /\ t.array[p] = b
           /\ Queued(t) = IF b = "null" THEN Queued(s) \ {p} ELSE Queued(s) \cup {p}
           /\ \A c \in Arrays : On(t, c) = IF b = c THEN On(s, c) \cup {p} ELSE On(s, c) \ {p}
<1>1. /\ s.array \in [All -> Arrays \cup {"null"}] /\ p \in All
      /\ t.array = [s.array EXCEPT ![p] = b]
  BY DEF KernelState, All, Moved
<1>2. t.array[p] = b /\ \A q \in Tasks \ {p} : t.array[q] = s.array[q]
  BY <1>1 DEF All
<1> QED
  BY <1>2 DEF Queued, On

\* A move keeps the queue visible.
LEMMA MovedVisible ==
    ASSUME NEW s \in KernelState, NEW t \in KernelState, NEW p \in Tasks,
           NEW b \in Arrays \cup {"null"}, Moved(s, t, p, b), Visible(s)
    PROVE  Visible(t)
<1>1. /\ \A q \in Tasks \ {p} : t.array[q] = s.array[q]
      /\ t.array[p] = b
      /\ Queued(t) = IF b = "null" THEN Queued(s) \ {p} ELSE Queued(s) \cup {p}
      /\ \A c \in Arrays : On(t, c) = IF b = c THEN On(s, c) \cup {p} ELSE On(s, c) \ {p}
  BY MovedSets
<1>2. s.array \in [All -> Arrays \cup {"null"}] /\ p \in All /\ Tasks \subseteq All
  BY DEF KernelState, All
<1>3. \A q \in Queued(t) : t.run_list[q] \in t.bitmap[t.array[q]]
  <2> SUFFICES ASSUME NEW q \in Queued(t) PROVE t.run_list[q] \in t.bitmap[t.array[q]]
    OBVIOUS
  <2>1. q \in Tasks /\ t.array[q] # "null"
    BY DEF Queued
  <2>2. CASE q = p
    BY <1>1, <2>1, <2>2 DEF Moved
  <2>3. CASE q # p
    <3> DEFINE c == s.array[q]
    <3>1. /\ q \in Queued(s) /\ t.array[q] = c /\ c \in Arrays
          /\ t.run_list[q] = s.run_list[q] /\ s.run_list[q] \in s.bitmap[c]
      BY <1>1, <1>2, <2>1, <2>3 DEF Moved, Visible, Queued
    <3>2. s.run_list[q] \in Cleared(s, p, c)
      BY <2>1, <2>3, <3>1 DEF Cleared, queue
    <3> QED
      BY <3>1, <3>2 DEF Moved
  <2> QED
    BY <2>2, <2>3
<1>4. t.nr_running = Cardinality(Queued(t))
  <2>1. Queued(s) \in SUBSET Tasks /\ (p \in Queued(s) <=> s.array[p] # "null")
    BY DEF Queued
  <2>2. s.nr_running = Cardinality(Queued(s))
    BY DEF Visible
  <2> DEFINE S == Queued(s)
  <2>3. /\ Cardinality(S) \in Int
        /\ Cardinality(S \cup {p}) = IF p \in S THEN Cardinality(S) ELSE Cardinality(S) + 1
        /\ Cardinality(S \ {p}) = IF p \in S THEN Cardinality(S) - 1 ELSE Cardinality(S)
    BY Zenon, <2>1, CountOne
  <2>4. t.nr_running = (s.nr_running - (IF s.array[p] = "null" THEN 0 ELSE 1))
                           + (IF b = "null" THEN 0 ELSE 1)
    BY DEF Moved
  <2> QED
    BY <1>1, <2>1, <2>2, <2>3, <2>4
<1>5. \A c \in Arrays : t.nr_active[c] = Cardinality(On(t, c))
  <2> SUFFICES ASSUME NEW c \in Arrays PROVE t.nr_active[c] = Cardinality(On(t, c))
    OBVIOUS
  <2>1. On(s, c) \in SUBSET Tasks /\ (p \in On(s, c) <=> s.array[p] = c)
    BY DEF On
  <2>2. s.nr_active[c] = Cardinality(On(s, c))
    BY DEF Visible
  <2> DEFINE S == On(s, c)
  <2>3. /\ Cardinality(S) \in Int
        /\ Cardinality(S \cup {p}) = IF p \in S THEN Cardinality(S) ELSE Cardinality(S) + 1
        /\ Cardinality(S \ {p}) = IF p \in S THEN Cardinality(S) - 1 ELSE Cardinality(S)
    BY Zenon, <2>1, CountOne
  <2>4. t.nr_active[c] = (s.nr_active[c] - (IF s.array[p] = c THEN 1 ELSE 0))
                             + (IF b = c THEN 1 ELSE 0)
    BY DEF Moved
  <2>5. On(t, c) = IF b = c THEN S \cup {p} ELSE S \ {p}
    BY <1>1
  <2> HIDE DEF S
  <2> QED
    BY <2>1, <2>2, <2>3, <2>4, <2>5 DEF S
<1>6. \A q \in Queued(t) : rt_task(t, q) => t.run_list[q] = t.prio[q]
  BY <1>1 DEF Moved, Visible, Queued, rt_task
<1> QED
  BY <1>3, <1>4, <1>5, <1>6 DEF Visible

\* A move keeps the lists those of the priorities, and no bit set for none.
LEMMA MovedLinked ==
    ASSUME NEW s \in KernelState, NEW t \in KernelState, NEW p \in Tasks,
           NEW b \in Arrays \cup {"null"}, Moved(s, t, p, b), Linked(s)
    PROVE  Linked(t)
<1>1. /\ \A q \in Tasks \ {p} : t.array[q] = s.array[q]
      /\ t.array[p] = b
  BY MovedSets
<1>2. \A q \in Queued(t) : t.run_list[q] = t.prio[q]
  BY <1>1 DEF Moved, Linked, Queued
<1>3. ASSUME NEW c \in Arrays, NEW i \in t.bitmap[c] PROVE queue(t, c, i) # {}
  <2>0. c # "null"
    BY DEF Arrays
  <2>1. CASE b = c /\ i = t.prio[p]
    <3>1. p \in queue(t, c, i)
      BY <1>1, <2>0, <2>1 DEF Moved, queue
    <3> QED
      BY <3>1
  <2>2. CASE ~(b = c /\ i = t.prio[p])
    <3>1. i \in Cleared(s, p, c)
      BY <1>3, <2>2 DEF Moved
    <3>2. i \in s.bitmap[c]
      BY <3>1 DEF Cleared
    <3>3. queue(s, c, i) # {}
      BY <3>2 DEF Linked
    <3>4. PICK q \in queue(s, c, i) : q # p
      <4>1. CASE p \in queue(s, c, i)
        <5>1. s.array[p] = c /\ i = s.prio[p]
          BY <2>0, <4>1 DEF queue, Linked, Queued
        <5>2. ~(queue(s, c, s.prio[p]) \subseteq {p})
          BY <3>1, <5>1 DEF Cleared
        <5> QED
          BY <5>1, <5>2
      <4>2. CASE p \notin queue(s, c, i)
        BY <3>3, <4>2
      <4> QED
        BY <4>1, <4>2
    <3>5. q \in queue(t, c, i)
      BY <1>1, <3>4 DEF queue, Moved
    <3> QED
      BY <3>5
  <2> QED
    BY <2>1, <2>2
<1> QED
  BY <1>2, <1>3 DEF Linked

\* Visible and Linked read the queue only.
LEMMA SameQueueKeeps ==
    ASSUME NEW s, NEW t, SameQueue(s, t)
    PROVE  (Visible(s) => Visible(t)) /\ (Linked(s) => Linked(t))
<1>1. Queued(t) = Queued(s) /\ \A a \in Arrays : On(t, a) = On(s, a)
  BY DEF SameQueue, Queued, On
<1>2. Visible(s) => Visible(t)
  BY <1>1 DEF Visible, SameQueue, rt_task
<1>3. Linked(s) => Linked(t)
  BY <1>1 DEF Linked, SameQueue, queue
<1> QED
  BY <1>2, <1>3

-----------------------------------------------------------------------------
(* The functions of the run queue.                                           *)

\* What dequeue_task() does to the queue.
Dequeued(s, t, p, a) ==
    /\ t.prio = s.prio /\ t.nr_running = s.nr_running /\ t.oops = s.oops
    /\ t.run_list = [s.run_list EXCEPT ![p] = Unlinked]
    /\ t.nr_active = [s.nr_active EXCEPT ![a] = @ - 1]
    /\ t.bitmap = [s.bitmap EXCEPT ![a] = Cleared(s, p, a)]

\* What enqueue_task() does to it.
Enqueued(s, t, p, a) ==
    /\ t.prio = s.prio /\ t.nr_running = s.nr_running /\ t.oops = s.oops
    /\ t.run_list = [s.run_list EXCEPT ![p] = s.prio[p]]
    /\ t.nr_active = [s.nr_active EXCEPT ![a] = @ + 1]
    /\ t.bitmap = [s.bitmap EXCEPT ![a] = @ \cup {s.prio[p]}]

\* dequeue_task() on the array p is on.
LEMMA DequeueFields ==
    ASSUME NEW s \in KernelState, NEW p \in Tasks, NEW a \in Arrays, s.array[p] = a
    PROVE  Dequeued(s, dequeue_task(s, p, a), p, a)
<1> DEFINE b == Cleared(s, p, a)
           t == dequeue_task(s, p, a)
<1>1. a # "null"
  BY DEF Arrays
<1>2. t = [s EXCEPT !.nr_active[a] = @ - 1, !.run_list[p] = Unlinked, !.bitmap[a] = b]
  BY <1>1 DEF dequeue_task, Cleared
<1> HIDE DEF b, t
<1> QED
  BY <1>2 DEF KernelState, Dequeued, b, t

\* enqueue_task() on either array.
LEMMA EnqueueFields ==
    ASSUME NEW s \in KernelState, NEW p \in Tasks, NEW a \in Arrays
    PROVE  Enqueued(s, enqueue_task(s, p, a), p, a)
<1> DEFINE i == s.prio[p]
           t == enqueue_task(s, p, a)
<1>1. a # "null"
  BY DEF Arrays
<1>2. t = [s EXCEPT !.nr_active[a] = @ + 1, !.run_list[p] = i, !.bitmap[a] = @ \cup {i},
                    !.array[p] = a]
  BY <1>1 DEF enqueue_task
<1> HIDE DEF i, t
<1> QED
  BY <1>2 DEF KernelState, Enqueued, i, t

\* A task taken off array a, given a priority and put on array b has moved.
LEMMA OffAndOn ==
    ASSUME NEW s \in KernelState, NEW p \in Tasks, NEW a \in Arrays, s.array[p] = a,
           NEW e \in KernelState, NEW i \in 0 .. MAX_PRIO, NEW b \in Arrays,
           NEW d \in KernelState, Dequeued(s, d, p, a),
           e.array = s.array, e.prio = [s.prio EXCEPT ![p] = i],
           e.nr_running = d.nr_running, e.oops = d.oops, e.run_list = d.run_list,
           e.nr_active = d.nr_active, e.bitmap = d.bitmap
    PROVE  LET t == enqueue_task(e, p, b)
           IN  /\ t \in KernelState /\ Frame(e, t) /\ Moved(s, t, p, b)
               /\ t.oops = s.oops /\ t.prio = [s.prio EXCEPT ![p] = i]
<1> DEFINE t == enqueue_task(e, p, b)
<1>0. p \in All /\ Tasks \subseteq All /\ b \in Arrays \cup {"null"} /\ b # "null" /\ a # "null"
  BY DEF All, Arrays
<1>1. t \in KernelState /\ Frame(e, t) /\ t.array = [e.array EXCEPT ![p] = b]
  BY <1>0, EnqueueKeeps
<1>2. Enqueued(e, t, p, b)
  BY EnqueueFields
<1>3. /\ s.prio \in [All -> 0 .. MAX_PRIO] /\ s.run_list \in [All -> 0 .. MAX_PRIO]
      /\ s.nr_active \in [Arrays -> Int] /\ s.nr_running \in Int
      /\ s.bitmap \in [Arrays -> SUBSET (0 .. MAX_PRIO)]
  BY DEF KernelState
<1> HIDE DEF t
<1>4. t.prio[p] = i /\ t.run_list[p] = i
  BY <1>0, <1>2, <1>3 DEF Enqueued, Dequeued
<1>5. \A q \in Tasks \ {p} : t.prio[q] = s.prio[q] /\ t.run_list[q] = s.run_list[q]
  BY <1>0, <1>2, <1>3 DEF Enqueued, Dequeued
<1>6. ASSUME NEW c \in Arrays
      PROVE  /\ t.nr_active[c] = (s.nr_active[c] - (IF s.array[p] = c THEN 1 ELSE 0))
                                     + (IF b = c THEN 1 ELSE 0)
             /\ t.bitmap[c] = Cleared(s, p, c) \cup (IF b = c THEN {t.prio[p]} ELSE {})
  <2>1. Cleared(s, p, c) = IF c = a THEN Cleared(s, p, a) ELSE s.bitmap[c]
    BY DEF Cleared
  <2>2. t.nr_active[c] = (s.nr_active[c] - (IF s.array[p] = c THEN 1 ELSE 0))
                                     + (IF b = c THEN 1 ELSE 0)
    BY <1>2, <1>3 DEF Enqueued, Dequeued
  <2>3. t.bitmap[c] = Cleared(s, p, c) \cup (IF b = c THEN {t.prio[p]} ELSE {})
    <3>1. e.bitmap[c] = Cleared(s, p, c)
      BY <1>3, <2>1 DEF Dequeued
    <3>2. e.prio[p] = i /\ e.bitmap \in [Arrays -> SUBSET (0 .. MAX_PRIO)]
      BY <1>0, <1>3 DEF KernelState
    <3>3. t.bitmap[c] = IF b = c THEN e.bitmap[c] \cup {i} ELSE e.bitmap[c]
      BY Zenon, <1>2, <3>2 DEF Enqueued
    <3> QED
      BY <1>4, <3>1, <3>3
  <2> QED
    BY <2>2, <2>3
<1>7. t.nr_running = (s.nr_running - (IF s.array[p] = "null" THEN 0 ELSE 1))
                         + (IF b = "null" THEN 0 ELSE 1)
  BY <1>0, <1>2, <1>3 DEF Enqueued, Dequeued
<1>8. Moved(s, t, p, b)
  BY <1>1, <1>4, <1>5, <1>6, <1>7 DEF Moved
<1> QED
  BY <1>1, <1>2, <1>8 DEF Enqueued, Dequeued, t

\* Off the queue and back on it.
LEMMA RequeueMoves ==
    ASSUME NEW s \in KernelState, NEW p \in Tasks, NEW i \in 0 .. MAX_PRIO
    PROVE  LET t == requeue(s, p, i)
           IN  /\ s.array[p] = "null" => t.oops = 1
               /\ s.array[p] # "null" =>
                    /\ Moved(s, t, p, s.array[p])
                    /\ t.oops = s.oops /\ t.prio = [s.prio EXCEPT ![p] = i]
<1> DEFINE a == s.array[p]
           d == dequeue_task(s, p, a)
           e == [d EXCEPT !.prio[p] = i]
           t == enqueue_task(e, p, a)
<1>1. requeue(s, p, i) = t
  BY DEF requeue
<1>2. p \in All /\ a \in Arrays \cup {"null"}
  BY DEF KernelState, All
<1>3. d \in KernelState /\ d.array = s.array
  BY <1>2, DequeueKeeps
<1>4. e \in KernelState /\ e.array = d.array
  BY <1>2, <1>3, PrioKeeps
<1>5. CASE a = "null"
  <2>1. t = Oops(e)
    BY <1>5 DEF enqueue_task
  <2> HIDE DEF e, d
  <2>2. Oops(e).oops = 1
    BY <1>4 DEF Oops, KernelState
  <2> QED
    BY <1>1, <1>5, <2>1, <2>2
<1>6. CASE a # "null"
  <2>1. a \in Arrays
    BY <1>2, <1>6
  <2>2. Dequeued(s, d, p, a)
    BY <2>1, DequeueFields
  <2> HIDE DEF d
  <2>3. /\ e.prio = [s.prio EXCEPT ![p] = i] /\ e.nr_running = d.nr_running /\ e.oops = d.oops
        /\ e.run_list = d.run_list /\ e.nr_active = d.nr_active /\ e.bitmap = d.bitmap
        /\ e.array = s.array
    BY <1>3, <2>2 DEF KernelState, Dequeued
  <2> HIDE DEF e, a
  <2>4. Moved(s, t, p, a) /\ t.oops = s.oops /\ t.prio = [s.prio EXCEPT ![p] = i]
    <3>1. s.array[p] = a
      BY DEF a
    <3> QED
      BY <1>3, <1>4, <2>1, <2>2, <2>3, <3>1, OffAndOn
  <2> QED
    BY <1>1, <1>6, <2>4 DEF a
<1> QED
  BY <1>5, <1>6

\* s and t agree on every field of the queue, on all priorities and on oops.
SameFields(s, t) ==
    /\ t.array = s.array /\ t.run_list = s.run_list /\ t.bitmap = s.bitmap
    /\ t.nr_active = s.nr_active /\ t.nr_running = s.nr_running
    /\ t.prio = s.prio /\ t.oops = s.oops

\* A move followed or preceded by a step that leaves the queue alone.
LEMMA MovedSame ==
    ASSUME NEW s, NEW t, NEW u, NEW p, NEW b
    PROVE  /\ Moved(s, t, p, b) /\ SameFields(t, u) => Moved(s, u, p, b)
           /\ SameFields(s, t) /\ Moved(t, u, p, b) => Moved(s, u, p, b)
<1>1. ASSUME Moved(s, t, p, b), SameFields(t, u) PROVE Moved(s, u, p, b)
  BY <1>1 DEF Moved, SameFields
<1>2. ASSUME SameFields(s, t), Moved(t, u, p, b) PROVE Moved(s, u, p, b)
  BY <1>2 DEF Moved, SameFields, Cleared, queue
<1> QED
  BY <1>1, <1>2

\* A step that leaves the queue alone keeps it.
LEMMA SameFieldsQueue ==
    ASSUME NEW s, NEW t, SameFields(s, t)
    PROVE  SameQueue(s, t)
BY DEF SameFields, SameQueue

\* set_tsk_need_resched() and switch_tasks() leave the queue alone.
LEMMA OtherFieldsSame ==
    ASSUME NEW s \in KernelState, NEW p \in All
    PROVE  SameFields(s, set_tsk_need_resched(s, p)) /\ SameFields(s, switch_tasks(s, p))
<1>1. SameFields(s, set_tsk_need_resched(s, p))
  BY DEF set_tsk_need_resched, SameFields, KernelState
<1>2. p # NULL
  BY TaskAssumption DEF All
<1>3. SameFields(s, switch_tasks(s, p))
  BY <1>2 DEF switch_tasks, SameFields, KernelState
<1> QED
  BY <1>1, <1>3

\* activate_task() moves a task that is on no array to the active one.
LEMMA ActivateMoves ==
    ASSUME NEW s \in KernelState, NEW p \in Tasks, NEW e \in 0 .. MAX_PRIO, s.array[p] = "null"
    PROVE  LET t == activate_task(s, p, e)
           IN  /\ Moved(s, t, p, "active") /\ t.oops = s.oops
               /\ t.prio[p] = IF rt_task(s, p) THEN s.prio[p] ELSE e
<1> DEFINE r == IF rt_task(s, p) THEN s ELSE [s EXCEPT !.prio[p] = e]
           q == enqueue_task(r, p, "active")
           t == [q EXCEPT !.nr_running = @ + 1]
<1>1. activate_task(s, p, e) = t
  BY DEF activate_task
<1>2. /\ p \in All /\ Tasks \subseteq All /\ "active" \in Arrays /\ "null" \notin Arrays
      /\ "active" \in Arrays \cup {"null"} /\ "active" # "null"
  BY DEF All, Arrays
<1>3. /\ s.prio \in [All -> 0 .. MAX_PRIO] /\ s.run_list \in [All -> 0 .. MAX_PRIO]
      /\ s.nr_active \in [Arrays -> Int] /\ s.nr_running \in Int
      /\ s.bitmap \in [Arrays -> SUBSET (0 .. MAX_PRIO)]
  BY DEF KernelState
<1>4. /\ r \in KernelState /\ r.array = s.array /\ r.run_list = s.run_list
      /\ r.bitmap = s.bitmap /\ r.nr_active = s.nr_active /\ r.nr_running = s.nr_running
      /\ r.oops = s.oops
      /\ r.prio[p] = IF rt_task(s, p) THEN s.prio[p] ELSE e
      /\ \A x \in Tasks \ {p} : r.prio[x] = s.prio[x]
  <2>1. CASE rt_task(s, p)
    BY <2>1
  <2>2. CASE ~rt_task(s, p)
    <3>1. r = [s EXCEPT !.prio[p] = e]
      BY <2>2
    <3>2. r \in KernelState
      BY <1>2, <3>1, PrioKeeps
    <3> HIDE DEF r
    <3> QED
      BY Zenon, <1>2, <2>2, <3>1, <3>2 DEF KernelState
  <2> QED
    BY <2>1, <2>2
<1> HIDE DEF r
<1>5. q \in KernelState /\ q.array = [r.array EXCEPT ![p] = "active"]
  BY <1>2, <1>4, EnqueueKeeps
<1>6. Enqueued(r, q, p, "active")
  BY <1>2, <1>4, EnqueueFields
<1> HIDE DEF q
<1>7. /\ t.array = q.array /\ t.prio = q.prio /\ t.run_list = q.run_list /\ t.bitmap = q.bitmap
      /\ t.nr_active = q.nr_active /\ t.nr_running = q.nr_running + 1 /\ t.oops = q.oops
  BY <1>5 DEF KernelState
<1> HIDE DEF t
<1>8. t.prio[p] = r.prio[p] /\ t.run_list[p] = t.prio[p]
  BY <1>2, <1>3, <1>4, <1>6, <1>7 DEF Enqueued
<1>9. \A x \in Tasks \ {p} : t.prio[x] = s.prio[x] /\ t.run_list[x] = s.run_list[x]
  BY <1>2, <1>3, <1>4, <1>6, <1>7 DEF Enqueued
<1>10. ASSUME NEW c \in Arrays
       PROVE  /\ t.nr_active[c] = (s.nr_active[c] - (IF s.array[p] = c THEN 1 ELSE 0))
                                      + (IF "active" = c THEN 1 ELSE 0)
              /\ t.bitmap[c] = Cleared(s, p, c) \cup (IF "active" = c THEN {t.prio[p]} ELSE {})
  <2>1. Cleared(s, p, c) = s.bitmap[c] /\ s.array[p] # c
    BY <1>2 DEF Cleared
  <2>2. t.nr_active[c] = (s.nr_active[c] - (IF s.array[p] = c THEN 1 ELSE 0))
                                      + (IF "active" = c THEN 1 ELSE 0)
    BY <1>2, <1>3, <1>4, <1>6, <1>7, <2>1 DEF Enqueued
  <2>3. t.bitmap[c] = IF "active" = c THEN s.bitmap[c] \cup {r.prio[p]} ELSE s.bitmap[c]
    <3>1. t.bitmap = [s.bitmap EXCEPT !["active"] = s.bitmap["active"] \cup {r.prio[p]}]
      BY <1>4, <1>6, <1>7 DEF Enqueued
    <3> QED
      BY Zenon, <1>2, <1>3, <3>1
  <2> QED
    BY <1>8, <2>1, <2>2, <2>3
<1>11. t.nr_running = (s.nr_running - (IF s.array[p] = "null" THEN 0 ELSE 1))
                          + (IF "active" = "null" THEN 0 ELSE 1)
  BY <1>2, <1>3, <1>4, <1>6, <1>7 DEF Enqueued
<1>12. Moved(s, t, p, "active")
  BY <1>4, <1>5, <1>7, <1>8, <1>9, <1>10, <1>11 DEF Moved
<1> QED
  BY <1>1, <1>4, <1>6, <1>7, <1>8, <1>12 DEF Enqueued

\* deactivate_task() moves a queued task to no array.
LEMMA DeactivateMoves ==
    ASSUME NEW s \in KernelState, NEW p \in Tasks
    PROVE  LET t == deactivate_task(s, p)
           IN  /\ s.array[p] = "null" => t.oops = 1
               /\ s.array[p] # "null" => Moved(s, t, p, "null") /\ t.oops = s.oops
               /\ t.prio = s.prio
<1> DEFINE a == s.array[p]
           d == dequeue_task(s, p, a)
           t == [d EXCEPT !.nr_running = @ - 1, !.array[p] = "null"]
<1>1. deactivate_task(s, p) = t
  BY DEF deactivate_task
<1>2. p \in All /\ Tasks \subseteq All /\ a \in Arrays \cup {"null"} /\ "null" \notin Arrays
  BY DEF All, Arrays, KernelState
<1>3. d \in KernelState /\ d.array = s.array
  BY <1>2, DequeueKeeps
<1>4. CASE a = "null"
  <2>1. d.oops = 1 /\ d.prio = s.prio
    BY <1>4 DEF dequeue_task, Oops, KernelState
  <2> HIDE DEF d
  <2>2. t.oops = 1 /\ t.prio = s.prio
    BY <1>3, <2>1 DEF KernelState
  <2> QED
    BY <1>1, <1>4, <2>2
<1>5. CASE a # "null"
  <2>1. a \in Arrays /\ s.array[p] = a
    BY <1>2, <1>5
  <2>2. Dequeued(s, d, p, a)
    BY <2>1, DequeueFields
  <2> HIDE DEF d
  <2>3. /\ t.array = [d.array EXCEPT ![p] = "null"] /\ t.prio = d.prio
        /\ t.run_list = d.run_list /\ t.bitmap = d.bitmap
        /\ t.nr_active = d.nr_active /\ t.nr_running = d.nr_running - 1 /\ t.oops = d.oops
    BY <1>3 DEF KernelState
  <2> HIDE DEF t, a
  <2>4. /\ s.prio \in [All -> 0 .. MAX_PRIO] /\ s.run_list \in [All -> 0 .. MAX_PRIO]
        /\ s.nr_active \in [Arrays -> Int] /\ s.nr_running \in Int
        /\ s.bitmap \in [Arrays -> SUBSET (0 .. MAX_PRIO)]
    BY DEF KernelState
  <2>5. \A x \in Tasks \ {p} : t.prio[x] = s.prio[x] /\ t.run_list[x] = s.run_list[x]
    BY <1>2, <2>2, <2>3, <2>4 DEF Dequeued
  <2>6. ASSUME NEW c \in Arrays
        PROVE  /\ t.nr_active[c] = (s.nr_active[c] - (IF s.array[p] = c THEN 1 ELSE 0))
                                       + (IF "null" = c THEN 1 ELSE 0)
               /\ t.bitmap[c] = Cleared(s, p, c) \cup (IF "null" = c THEN {t.prio[p]} ELSE {})
    <3>1. Cleared(s, p, c) = IF c = a THEN Cleared(s, p, a) ELSE s.bitmap[c]
      BY <2>1 DEF Cleared
    <3>2. t.nr_active[c] = (s.nr_active[c] - (IF s.array[p] = c THEN 1 ELSE 0))
                                       + (IF "null" = c THEN 1 ELSE 0)
      BY <1>2, <2>1, <2>2, <2>3, <2>4 DEF Dequeued
    <3>3. t.bitmap[c] = Cleared(s, p, c)
      BY <2>1, <2>2, <2>3, <2>4, <3>1 DEF Dequeued
    <3> QED
      BY <1>2, <3>2, <3>3
  <2>7. t.nr_running = (s.nr_running - (IF s.array[p] = "null" THEN 0 ELSE 1))
                           + (IF "null" = "null" THEN 0 ELSE 1)
    BY <1>2, <2>1, <2>2, <2>3, <2>4 DEF Dequeued
  <2>8. Moved(s, t, p, "null")
    BY <1>3, <2>3, <2>5, <2>6, <2>7 DEF Moved
  <2> QED
    BY <1>1, <1>5, <2>2, <2>3, <2>8 DEF Dequeued, a
<1> QED
  BY <1>4, <1>5

\* expire_task() moves a task from the active array to either.
LEMMA ExpireMoves ==
    ASSUME NEW s \in KernelState, NEW p \in Tasks, NEW e \in UserPrios, NEW a \in Arrays,
           s.array[p] = "active"
    PROVE  LET t == expire_task(s, p, e, a)
           IN  /\ Moved(s, t, p, a) /\ t.oops = s.oops
               /\ t.prio = [s.prio EXCEPT ![p] = e]
<1> DEFINE d == dequeue_task(s, p, "active")
           q == [d EXCEPT !.need_resched[p] = 1, !.prio[p] = e,
                          !.first_time_slice[p] = 0, !.time_slice[p] = Timeslice]
<1>1. expire_task(s, p, e, a) = enqueue_task(q, p, a)
  BY DEF expire_task
<1>2. "active" \in Arrays /\ "active" \in Arrays \cup {"null"} /\ p \in All /\ e \in 0 .. MAX_PRIO
  BY PrioRanges DEF Arrays, All
<1>3. d \in KernelState /\ d.array = s.array
  BY <1>2, DequeueKeeps
<1>4. Dequeued(s, d, p, "active")
  BY <1>2, DequeueFields
<1> HIDE DEF d
<1>5. q \in KernelState
  <2>1. [d.need_resched EXCEPT ![p] = 1] \in [All -> Flag]
    BY Zenon, <1>3 DEF KernelState, Flag
  <2>2. [d.prio EXCEPT ![p] = e] \in [All -> 0 .. MAX_PRIO]
    BY <1>2, <1>3 DEF KernelState
  <2>3. [d.first_time_slice EXCEPT ![p] = 0] \in [All -> Flag]
    BY Zenon, <1>3 DEF KernelState, Flag
  <2>4. Timeslice \in 0 .. (Word - 1)
    BY SliceAssumption
  <2>5. [d.time_slice EXCEPT ![p] = Timeslice] \in [All -> 0 .. (Word - 1)]
    BY Zenon, <1>3, <2>4 DEF KernelState
  <2> QED
    BY Zenon, <1>3, <2>1, <2>2, <2>3, <2>5 DEF KernelState
<1>6. /\ q.array = s.array /\ q.prio = [s.prio EXCEPT ![p] = e]
      /\ q.nr_running = d.nr_running /\ q.oops = d.oops /\ q.run_list = d.run_list
      /\ q.nr_active = d.nr_active /\ q.bitmap = d.bitmap
  BY <1>3, <1>4 DEF KernelState, Dequeued
<1> HIDE DEF q
<1> DEFINE t == enqueue_task(q, p, a)
<1>7. Moved(s, t, p, a) /\ t.oops = s.oops /\ t.prio = [s.prio EXCEPT ![p] = e]
  BY <1>2, <1>3, <1>4, <1>5, <1>6, OffAndOn
<1> QED
  BY <1>1, <1>7

\* start_magic() moves current to the list of MagicPrio.
LEMMA StartMagicMoves ==
    ASSUME NEW s \in KernelState, s.curr \in Tasks
    PROVE  LET t == start_magic(s)
               p == s.curr
           IN  /\ s.array[p] = "null" => t.oops = 1
               /\ s.array[p] # "null" =>
                    /\ Moved(s, t, p, s.array[p])
                    /\ t.oops = s.oops /\ t.prio = [s.prio EXCEPT ![p] = MagicPrio]
<1> DEFINE p == s.curr
           q == requeue(s, p, MagicPrio)
           t == start_magic(s)
<1>1. t = [q EXCEPT !.magicProcess = p, !.started_magic[p] = 1, !.time_slice[p] = s.magic_time[p],
                    !.MAGICTIME = ToInt(s.magic_time[p]), !.call_seen = 1]
  BY DEF start_magic
<1>2. MagicPrio \in 0 .. MAX_PRIO /\ p \in Tasks /\ p \in All
  BY PrioRanges DEF All
<1>3. q \in KernelState
  BY <1>2, RequeueKeeps
<1>4. /\ s.array[p] = "null" => q.oops = 1
      /\ s.array[p] # "null" =>
           /\ Moved(s, q, p, s.array[p])
           /\ q.oops = s.oops /\ q.prio = [s.prio EXCEPT ![p] = MagicPrio]
  BY <1>2, RequeueMoves
<1> HIDE DEF q, t
<1>5. SameFields(q, t)
  BY <1>1, <1>3 DEF SameFields, KernelState
<1>6. t.oops = q.oops /\ t.prio = q.prio
  BY <1>5 DEF SameFields
<1> QED
  BY <1>4, <1>5, <1>6, MovedSame DEF t

\* exit_from_magic() moves the magic process, which is current, to the list of
\* AfterMagicPrio, or changes the priority of a sleeping one.
LEMMA ExitMagicMoves ==
    ASSUME NEW s \in KernelState, s.magicProcess \in Tasks,
           s.magic_sleep_flag = 0 => s.curr = s.magicProcess
    PROVE  LET t == exit_from_magic(s)
               m == s.magicProcess
           IN  /\ s.magic_sleep_flag = 0 /\ s.array[m] = "null" => t.oops = 1
               /\ s.magic_sleep_flag = 0 /\ s.array[m] # "null" => Moved(s, t, m, s.array[m])
               /\ ~(s.magic_sleep_flag = 0 /\ s.array[m] = "null") =>
                     t.oops = s.oops /\ t.prio = [s.prio EXCEPT ![m] = AfterMagicPrio]
               /\ s.magic_sleep_flag # 0 =>
                     /\ t.array = s.array /\ t.run_list = s.run_list /\ t.bitmap = s.bitmap
                     /\ t.nr_active = s.nr_active /\ t.nr_running = s.nr_running
<1> DEFINE m == s.magicProcess
           a == s.array[m]
           q == IF s.magic_sleep_flag = 0
                THEN enqueue_task([dequeue_task(s, m, a) EXCEPT !.prio[s.curr] = AfterMagicPrio], m, a)
                ELSE [s EXCEPT !.prio[m] = AfterMagicPrio]
           t == exit_from_magic(s)
<1>1. t = [q EXCEPT !.idle_from_magic = 0, !.magic_sleep_flag = 0,
                    !.started_magic[m] = 0, !.magic_time[m] = 0, !.time_slice[m] = 0,
                    !.called[m] = 0, !.magicProcess = NULL, !.MAGICTIME = 0]
  BY DEF exit_from_magic
<1>2. AfterMagicPrio \in 0 .. MAX_PRIO /\ m \in Tasks /\ m \in All
  BY PrioRanges DEF All
<1>3. CASE s.magic_sleep_flag = 0
  <2>1. q = requeue(s, m, AfterMagicPrio)
    BY <1>3 DEF requeue
  <2>2. q \in KernelState
    BY <1>2, <2>1, RequeueKeeps
  <2> HIDE DEF q, t
  <2> DEFINE r == requeue(s, m, AfterMagicPrio)
  <2>3. /\ a = "null" => r.oops = 1
        /\ a # "null" =>
             /\ Moved(s, r, m, a)
             /\ r.oops = s.oops /\ r.prio = [s.prio EXCEPT ![m] = AfterMagicPrio]
    BY <1>2, RequeueMoves
  <2> HIDE DEF r
  <2>4. SameFields(q, t)
    BY <1>1, <2>2 DEF SameFields, KernelState
  <2>5. t.oops = q.oops /\ t.prio = q.prio
    BY <2>4 DEF SameFields
  <2> QED
    BY <1>3, <2>1, <2>3, <2>4, <2>5, MovedSame DEF t, r
<1>4. CASE s.magic_sleep_flag # 0
  <2>1. q = [s EXCEPT !.prio[m] = AfterMagicPrio]
    BY <1>4
  <2>2. q \in KernelState
    BY <1>2, <2>1, PrioKeeps
  <2> HIDE DEF q, t
  <2>3. SameFields(q, t)
    BY <1>1, <2>2 DEF SameFields, KernelState
  <2>4. /\ q.array = s.array /\ q.run_list = s.run_list /\ q.bitmap = s.bitmap
        /\ q.nr_active = s.nr_active /\ q.nr_running = s.nr_running /\ q.oops = s.oops
        /\ q.prio = [s.prio EXCEPT ![m] = AfterMagicPrio]
    BY <2>1 DEF KernelState
  <2> QED
    BY <1>4, <2>3, <2>4 DEF SameFields, t
<1> QED
  BY <1>3, <1>4

-----------------------------------------------------------------------------
(* What every function keeps, in any situation.                              *)

\* PriorityFollowsMagic of any two scheduling states, for the tasks of P.
PrioFollows(s, t, P) ==
    \A p \in P : /\ ~rt_task(s, p) /\ rt_task(t, p) => t.magicProcess = p
                 /\ s.magicProcess = p /\ t.magicProcess # p => ~rt_task(t, p)

\* A function that leaves t behind when it is called in s, and does not stop
\* the machine, keeps the queue visible and lets priorities follow the magic.
Keeps(s, t) ==
    t.oops = 0 => /\ s.oops = 0
                  /\ Visible(s) => Visible(t)
                  /\ PrioFollows(s, t, Tasks)

\* Two functions called one after the other.
LEMMA PrioTrans ==
    ASSUME NEW s, NEW t, NEW u, NEW P, PrioFollows(s, t, P), PrioFollows(t, u, P)
    PROVE  PrioFollows(s, u, P)
BY DEF PrioFollows

\* What two functions keep, their composition keeps.
LEMMA KeepsTrans ==
    ASSUME NEW s, NEW t, NEW u, Keeps(s, t), Keeps(t, u)
    PROVE  Keeps(s, u)
BY PrioTrans DEF Keeps

\* A step that leaves the queue and magicProcess alone.
LEMMA KeepsSame ==
    ASSUME NEW s, NEW t, SameFields(s, t), t.magicProcess = s.magicProcess
    PROVE  Keeps(s, t)
<1>1. Visible(s) => Visible(t)
  BY SameFieldsQueue, SameQueueKeeps
<1>2. PrioFollows(s, t, Tasks)
  BY DEF SameFields, PrioFollows, rt_task
<1> QED
  BY <1>1, <1>2 DEF Keeps, SameFields

\* A move.
LEMMA KeepsMoved ==
    ASSUME NEW s \in KernelState, NEW t \in KernelState, NEW p \in Tasks,
           NEW b \in Arrays \cup {"null"}, Moved(s, t, p, b), t.oops = s.oops,
           s.magicProcess \in Tasks \ {p} => t.magicProcess = s.magicProcess,
           rt_task(t, p) /\ ~rt_task(s, p) => t.magicProcess = p,
           s.magicProcess = p /\ t.magicProcess # p => ~rt_task(t, p)
    PROVE  Keeps(s, t)
<1>1. Visible(s) => Visible(t)
  BY MovedVisible
<1>2. PrioFollows(s, t, Tasks)
  BY DEF PrioFollows, Moved, rt_task
<1> QED
  BY <1>1, <1>2 DEF Keeps

\* The priorities of the magic clock.
LEMMA MagicPrios ==
    /\ AfterMagicPrio >= MAX_RT_PRIO
    /\ \A e \in UserPrios : e \in Int /\ e >= MAX_RT_PRIO
BY PrioAssumption DEF AfterMagicPrio, MAX_RT_PRIO, MAX_PRIO

\* exit_from_magic() as scheduler_tick() and schedule() call it.
LEMMA ExitMagicQueue ==
    ASSUME NEW s \in KernelState, s.magicProcess \in Tasks,
           s.magic_sleep_flag = 0 => s.curr = s.magicProcess
    PROVE  Keeps(s, exit_from_magic(s))
<1> DEFINE t == exit_from_magic(s)
           m == s.magicProcess
<1>1. m \in Tasks /\ m \in All /\ m # NULL /\ s.array[m] \in Arrays \cup {"null"}
  BY TaskAssumption DEF All, KernelState
<1>2. t \in KernelState /\ t.magicProcess = NULL
  BY Zenon, <1>1, ExitMagicKeeps
<1>3. /\ s.magic_sleep_flag = 0 /\ s.array[m] = "null" => t.oops = 1
      /\ s.magic_sleep_flag = 0 /\ s.array[m] # "null" => Moved(s, t, m, s.array[m])
      /\ ~(s.magic_sleep_flag = 0 /\ s.array[m] = "null") =>
            t.oops = s.oops /\ t.prio = [s.prio EXCEPT ![m] = AfterMagicPrio]
      /\ s.magic_sleep_flag # 0 =>
            /\ t.array = s.array /\ t.run_list = s.run_list /\ t.bitmap = s.bitmap
            /\ t.nr_active = s.nr_active /\ t.nr_running = s.nr_running
  BY ExitMagicMoves
<1> HIDE DEF t
<1>4. CASE s.magic_sleep_flag = 0 /\ s.array[m] = "null"
  BY <1>3, <1>4 DEF Keeps, t
<1>5. ASSUME ~(s.magic_sleep_flag = 0 /\ s.array[m] = "null")
      PROVE  /\ t.oops = s.oops /\ ~rt_task(t, m)
             /\ \A q \in Tasks \ {m} : t.prio[q] = s.prio[q]
  <2>1. s.prio \in [All -> 0 .. MAX_PRIO] /\ Tasks \subseteq All
    BY DEF KernelState, All
  <2>2. t.prio[m] = AfterMagicPrio /\ \A q \in Tasks \ {m} : t.prio[q] = s.prio[q]
    BY <1>1, <1>3, <1>5, <2>1
  <2> QED
    BY <1>3, <1>5, <2>2 DEF rt_task, AfterMagicPrio, MAX_RT_PRIO
<1>6. CASE s.magic_sleep_flag = 0 /\ s.array[m] # "null"
  <2>1. Moved(s, t, m, s.array[m]) /\ t.oops = s.oops /\ ~rt_task(t, m)
    BY <1>3, <1>5, <1>6
  <2>2. Keeps(s, t)
    BY <1>1, <1>2, <2>1, KeepsMoved
  <2> QED
    BY <2>2 DEF t
<1>7. CASE s.magic_sleep_flag # 0
  <2>1. Queued(t) = Queued(s) /\ \A a \in Arrays : On(t, a) = On(s, a)
    BY <1>3, <1>7 DEF Queued, On
  <2>2. Visible(s) => Visible(t)
    BY Zenon, <1>3, <1>5, <1>7, <2>1 DEF Visible, rt_task, Queued
  <2>3. PrioFollows(s, t, Tasks)
    BY <1>1, <1>2, <1>5, <1>7 DEF PrioFollows, rt_task
  <2> QED
    BY <1>5, <1>7, <2>2, <2>3 DEF Keeps, t
<1> QED
  BY <1>4, <1>6, <1>7

\* The magic part of scheduler_tick().
LEMMA MagicTickQueue ==
    ASSUME NEW s, SchedInv(s)
    PROVE  Keeps(s, magic_tick(s))
<1> DEFINE d == [s EXCEPT !.MAGICTIME = @ - 1]
           x == exit_from_magic(d)
           n == set_tsk_need_resched(x, s.curr)
<1>1. s \in KernelState /\ s.MAGICTIME \in Int /\ s.curr \in All
  BY DEF SchedInv, KernelState
<1>2. CASE s.MAGICTIME <= 0
  <2>1. magic_tick(s) = s
    BY <1>2 DEF magic_tick
  <2>2. SameFields(s, s)
    BY DEF SameFields
  <2> QED
    BY <2>1, <2>2, KeepsSame
<1>3. CASE ~(s.MAGICTIME <= 0)
  <2>1. s.magicProcess \in Tasks /\ (s.magic_sleep_flag = 0 => s.curr = s.magicProcess)
    BY <1>1, <1>3, MagicIsTask DEF SchedInv, NoMagic, SomeMagic
  <2>2. d \in KernelState
    <3>1. s.MAGICTIME - 1 \in Int
      BY <1>1
    <3> QED
      BY Zenon, <1>1, <3>1 DEF KernelState
  <2>3. /\ SameFields(s, d) /\ d.magicProcess = s.magicProcess
        /\ d.magic_sleep_flag = s.magic_sleep_flag /\ d.curr = s.curr
    BY <1>1 DEF SameFields, KernelState
  <2>4. magic_tick(s) = IF d.MAGICTIME = 0 THEN n ELSE d
    BY <1>3 DEF magic_tick
  <2> HIDE DEF d
  <2>5. Keeps(s, d)
    BY <2>3, KeepsSame
  <2>6. Keeps(d, x) /\ x \in KernelState
    <3>1. d.magicProcess \in Tasks /\ d.magicProcess \in All
      BY <2>1, <2>3 DEF All
    <3> QED
      BY Zenon, <2>1, <2>2, <2>3, <3>1, ExitMagicQueue, ExitMagicKeeps
  <2> HIDE DEF x
  <2>7. SameFields(x, n) /\ n.magicProcess = x.magicProcess
    <3>1. Frame(x, n)
      BY <1>1, <2>6, NeedReschedKeeps
    <3> QED
      BY <1>1, <2>6, <3>1, OtherFieldsSame DEF Frame
  <2> HIDE DEF n
  <2>8. Keeps(s, n)
    BY <2>5, <2>6, <2>7, KeepsSame, KeepsTrans
  <2> QED
    BY <2>4, <2>5, <2>8
<1> QED
  BY <1>2, <1>3

\* scheduler_tick().
LEMMA SchedulerTickQueue ==
    ASSUME NEW s, SchedInv(s), NEW e \in UserPrios, NEW a \in Arrays
    PROVE  Keeps(s, scheduler_tick(s, e, a))
<1> DEFINE m == magic_tick(s)
           p == s.curr
           c == [m EXCEPT !.time_slice[p] = (@ - 1) % Word]
           n == set_tsk_need_resched(m, p)
           x == expire_task(c, p, e, a)
           t == scheduler_tick(s, e, a)
<1>1. t = IF p = Idle THEN m
          ELSE IF m.array[p] # "active" THEN n
          ELSE IF rt_task(m, p) THEN m
          ELSE IF c.time_slice[p] = 0 THEN x
          ELSE c
  BY DEF scheduler_tick
<1>2. SchedInv(m) /\ Keeps(s, m) /\ m.curr = p
  BY MagicTickInv, MagicTickQueue
<1> HIDE DEF m, t
<1>3. p \in All /\ m \in KernelState
  BY <1>2 DEF SchedInv, KernelState
<1>4. Keeps(s, n)
  <2>1. SameFields(m, n) /\ Frame(m, n)
    BY <1>3, NeedReschedKeeps, OtherFieldsSame
  <2> QED
    BY <1>2, <2>1, KeepsSame, KeepsTrans DEF Frame
<1>5. c \in KernelState /\ SameFields(m, c) /\ c.magicProcess = m.magicProcess
  <2>1. (m.time_slice[p] - 1) % Word \in 0 .. (Word - 1)
    BY <1>3, SliceAssumption DEF KernelState
  <2>2. [m.time_slice EXCEPT ![p] = (@ - 1) % Word] \in [All -> 0 .. (Word - 1)]
    BY <1>3, <2>1 DEF KernelState
  <2>3. c \in KernelState
    BY Zenon, <1>3, <2>2 DEF KernelState
  <2> QED
    BY Zenon, <1>3, <2>3 DEF KernelState, SameFields
<1> HIDE DEF c, p, n
<1>6. Keeps(s, c)
  BY <1>2, <1>5, KeepsSame, KeepsTrans
<1>7. ASSUME p # Idle, m.array[p] = "active", ~rt_task(m, p) PROVE Keeps(s, x)
  <2>1. p \in Tasks /\ c.array[p] = "active"
    BY <1>3, <1>5, <1>7 DEF All, SameFields
  <2>2. Moved(c, x, p, a) /\ x.oops = c.oops /\ x.prio = [c.prio EXCEPT ![p] = e]
    BY <1>5, <2>1, ExpireMoves
  <2>3. x \in KernelState /\ Frame(c, x)
    BY Zenon, <1>3, <1>5, ExpireKeeps
  <2> HIDE DEF x
  <2>4. ~rt_task(x, p)
    BY <1>3, <1>5, <2>2, MagicPrios DEF rt_task, KernelState, MAX_RT_PRIO
  <2>5. a \in Arrays \cup {"null"} /\ x.magicProcess = c.magicProcess
    BY <2>3 DEF Frame
  <2>6. Keeps(c, x)
    BY <1>5, <2>1, <2>2, <2>3, <2>4, <2>5, KeepsMoved
  <2> QED
    BY <1>6, <2>6, KeepsTrans
<1> HIDE DEF x
<1> QED
  BY <1>1, <1>2, <1>4, <1>6, <1>7 DEF t

\* rq->active and rq->expired change roles, with all that belongs to them.
LEMMA SwitchArraysKeeps ==
    ASSUME NEW s \in KernelState
    PROVE  LET w == switch_arrays(s)
           IN  /\ w \in KernelState /\ Frame(s, w) /\ w.prio = s.prio /\ w.oops = s.oops
               /\ w.run_list = s.run_list /\ w.nr_running = s.nr_running
               /\ \A p \in Tasks : /\ w.array[p] = "null" <=> s.array[p] = "null"
                                   /\ w.array[p] = "active" <=> s.array[p] = "expired"
                                   /\ w.array[p] = "expired" <=> s.array[p] = "active"
               /\ w.bitmap["active"] = s.bitmap["expired"]
               /\ w.bitmap["expired"] = s.bitmap["active"]
               /\ w.nr_active["active"] = s.nr_active["expired"]
               /\ w.nr_active["expired"] = s.nr_active["active"]
<1> DEFINE ar == [p \in All |-> CASE s.array[p] = "active" -> "expired"
                                  [] s.array[p] = "expired" -> "active"
                                  [] OTHER -> "null"]
           bm == [a \in Arrays |-> s.bitmap[IF a = "active" THEN "expired" ELSE "active"]]
           na == [a \in Arrays |-> s.nr_active[IF a = "active" THEN "expired" ELSE "active"]]
           w == [s EXCEPT !.array = ar, !.bitmap = bm, !.nr_active = na]
<1>1. /\ s.array \in [All -> Arrays \cup {"null"}]
      /\ s.bitmap \in [Arrays -> SUBSET (0 .. MAX_PRIO)] /\ s.nr_active \in [Arrays -> Int]
  BY DEF KernelState
<1>2. /\ ar \in [All -> Arrays \cup {"null"}]
      /\ \A p \in Tasks : /\ ar[p] = "null" <=> s.array[p] = "null"
                          /\ ar[p] = "active" <=> s.array[p] = "expired"
                          /\ ar[p] = "expired" <=> s.array[p] = "active"
  BY <1>1 DEF Arrays, All
<1>3. /\ bm \in [Arrays -> SUBSET (0 .. MAX_PRIO)]
      /\ bm["active"] = s.bitmap["expired"] /\ bm["expired"] = s.bitmap["active"]
  BY <1>1 DEF Arrays
<1>4. /\ na \in [Arrays -> Int]
      /\ na["active"] = s.nr_active["expired"] /\ na["expired"] = s.nr_active["active"]
  BY <1>1 DEF Arrays
<1>5. switch_arrays(s) = w
  BY DEF switch_arrays
<1> HIDE DEF ar, bm, na
<1>6. w \in KernelState
  BY ZenonT(120), <1>2, <1>3, <1>4 DEF KernelState
<1>7. /\ Frame(s, w) /\ w.prio = s.prio /\ w.oops = s.oops
      /\ w.run_list = s.run_list /\ w.nr_running = s.nr_running
      /\ w.array = ar /\ w.bitmap = bm /\ w.nr_active = na
  BY DEF KernelState, Frame
<1> HIDE DEF w
<1> QED
  BY <1>2, <1>3, <1>4, <1>5, <1>6, <1>7

\* The switch of the arrays keeps the queue as it is.
LEMMA SwitchArraysQueue ==
    ASSUME NEW s \in KernelState
    PROVE  /\ Keeps(s, switch_arrays(s))
           /\ Linked(s) => Linked(switch_arrays(s))
<1> DEFINE w == switch_arrays(s)
<1>1. /\ w \in KernelState /\ Frame(s, w) /\ w.prio = s.prio /\ w.oops = s.oops
      /\ w.run_list = s.run_list /\ w.nr_running = s.nr_running
      /\ \A p \in Tasks : /\ w.array[p] = "null" <=> s.array[p] = "null"
                          /\ w.array[p] = "active" <=> s.array[p] = "expired"
                          /\ w.array[p] = "expired" <=> s.array[p] = "active"
      /\ w.bitmap["active"] = s.bitmap["expired"]
      /\ w.bitmap["expired"] = s.bitmap["active"]
      /\ w.nr_active["active"] = s.nr_active["expired"]
      /\ w.nr_active["expired"] = s.nr_active["active"]
  BY SwitchArraysKeeps
<1>2. /\ s.array \in [All -> Arrays \cup {"null"}] /\ Tasks \subseteq All
      /\ Arrays = {"active", "expired"}
  BY DEF KernelState, All, Arrays
<1> HIDE DEF w
<1>3. /\ Queued(w) = Queued(s)
      /\ On(w, "active") = On(s, "expired") /\ On(w, "expired") = On(s, "active")
  BY <1>1 DEF Queued, On
<1>4. /\ \A i : queue(w, "active", i) = queue(s, "expired", i)
      /\ \A i : queue(w, "expired", i) = queue(s, "active", i)
  BY <1>1 DEF queue
<1>5. ASSUME Visible(s) PROVE Visible(w)
  <2>1. ASSUME NEW p \in Queued(w) PROVE w.run_list[p] \in w.bitmap[w.array[p]]
    <3>1. p \in Tasks /\ p \in Queued(s) /\ s.array[p] \in {"active", "expired"}
      BY <1>2, <1>3 DEF Queued
    <3>2. s.run_list[p] \in s.bitmap[s.array[p]]
      BY <1>5, <3>1 DEF Visible
    <3> QED
      BY <1>1, <3>1, <3>2
  <2>2. \A a \in Arrays : w.nr_active[a] = Cardinality(On(w, a))
    BY <1>1, <1>2, <1>3, <1>5 DEF Visible
  <2> QED
    BY <1>1, <1>3, <1>5, <2>1, <2>2 DEF Visible, rt_task
<1>6. ASSUME Linked(s) PROVE Linked(w)
  <2>1. \A a \in Arrays : \A i \in w.bitmap[a] : queue(w, a, i) # {}
    BY <1>1, <1>2, <1>4, <1>6 DEF Linked
  <2> QED
    BY <1>1, <1>3, <1>6, <2>1 DEF Linked
<1>7. PrioFollows(s, w, Tasks)
  BY <1>1 DEF PrioFollows, rt_task, Frame
<1> QED
  BY <1>1, <1>5, <1>6, <1>7 DEF Keeps, w

\* The choice of the next task.
LEMMA PickQueue ==
    ASSUME NEW s \in KernelState, NEW t \in pick_next_task(s)
    PROVE  Keeps(s, t)
<1> DEFINE r == IF s.nr_active["active"] = 0 THEN switch_arrays(s) ELSE s
           firsts == {i \in r.bitmap["active"] : \A j \in r.bitmap["active"] : i <= j}
           heads == UNION {queue(r, "active", i) : i \in firsts}
<1>1. t \in {switch_tasks(s, Idle), Oops(s)} \cup {switch_tasks(r, next) : next \in heads}
  BY DEF pick_next_task
<1>2. \A q \in heads : q \in All
  BY DEF queue, All
<1>3. SameFields(s, s) /\ Idle \in All
  BY DEF SameFields, All
<1>4. r \in KernelState /\ Keeps(s, r)
  BY <1>3, SwitchArraysKeeps, SwitchArraysQueue, KeepsSame
<1> HIDE DEF r, firsts, heads
<1>5. CASE t = Oops(s)
  <2>1. t.oops = 1
    BY <1>5 DEF Oops, KernelState
  <2> QED
    BY <2>1 DEF Keeps
<1>6. ASSUME NEW u \in KernelState, Keeps(s, u), NEW next \in All, t = switch_tasks(u, next)
      PROVE  Keeps(s, t)
  <2>1. SameFields(u, t) /\ t.magicProcess = u.magicProcess
    BY <1>6, OtherFieldsSame, SwitchKeeps
  <2> QED
    BY <1>6, <2>1, KeepsSame, KeepsTrans
<1>7. CASE t = switch_tasks(s, Idle)
  BY <1>3, <1>6, <1>7, KeepsSame
<1>8. CASE \E next \in heads : t = switch_tasks(r, next)
  BY <1>2, <1>4, <1>6, <1>8
<1> QED
  BY <1>1, <1>5, <1>7, <1>8

\* The first part of schedule().
LEMMA MagicSegmentQueue ==
    ASSUME NEW s, SchedInv(s)
    PROVE  Keeps(s, magic_segment(s))
<1> DEFINE u == IF s.call_seen = 0 THEN update_magic(s) ELSE s
           g == magic_segment(s)
           m == s.magicProcess
<1>0. SameFields(s, s)
  BY DEF SameFields
<1>1. CASE m = NULL
  <2>1. g = s
    BY <1>1 DEF magic_segment
  <2> QED
    BY <1>0, <2>1, KeepsSame
<1>2. CASE m # NULL
  <2>1. /\ s \in KernelState /\ m \in All /\ m \in Tasks /\ s.magic_time[m] \in 0 .. (Word - 1)
        /\ s.magic_sleep_flag = 0 => s.curr = m
    BY <1>2, MagicIsTask DEF SchedInv, KernelState, SomeMagic
  <2>2. /\ u \in KernelState /\ SameFields(s, u) /\ u.magicProcess = m
        /\ u.curr = s.curr /\ u.magic_sleep_flag = s.magic_sleep_flag
    <3>1. CASE s.call_seen = 0
      <4>1. ToInt(s.magic_time[m]) \in Int /\ 1 \in Flag
        BY <2>1, ToIntNonzero DEF Flag
      <4>2. u = [s EXCEPT !.MAGICTIME = ToInt(s.magic_time[m]), !.call_seen = 1]
        BY <3>1 DEF update_magic
      <4> HIDE DEF u
      <4>3. u \in KernelState
        BY Zenon, <2>1, <4>1, <4>2 DEF KernelState
      <4> QED
        BY Zenon, <2>1, <4>2, <4>3 DEF KernelState, SameFields
    <3>2. CASE s.call_seen # 0
      BY <1>0, <2>1, <3>2
    <3> QED
      BY Zenon, <3>1, <3>2
  <2>3. g = IF u.state[u.magicProcess] = "ZOMBIE" \/ u.MAGICTIME = 0 THEN exit_from_magic(u) ELSE u
    BY <1>2 DEF magic_segment
  <2> HIDE DEF u, g
  <2>4. Keeps(s, u)
    BY <2>2, KeepsSame
  <2>5. Keeps(u, exit_from_magic(u))
    BY <2>1, <2>2, ExitMagicQueue
  <2>6. Keeps(s, exit_from_magic(u))
    BY <2>4, <2>5, KeepsTrans
  <2> QED
    BY <2>3, <2>4, <2>6 DEF g
<1> QED
  BY <1>1, <1>2

\* start_magic() where schedule() calls it.
LEMMA StartedQueue ==
    ASSUME NEW s, SchedInv(s), s.magic_time[s.curr] > 0, s.magicProcess \in {NULL, s.curr}
    PROVE  LET b == IF s.started_magic[s.curr] = 0 THEN start_magic(s) ELSE s
           IN  Keeps(s, b)
<1> DEFINE p == s.curr
           t == start_magic(s)
<1>1. s \in KernelState /\ p \in Tasks /\ p \in All /\ s.array[p] \in Arrays \cup {"null"} /\ p # NULL
  BY TaskAssumption DEF SchedInv, IdleInert, KernelState, All
<1>2. Keeps(s, s)
  BY KeepsSame DEF SameFields
<1>3. t \in KernelState /\ t.magicProcess = p
  BY Zenon, <1>1, StartMagicKeeps
<1>4. /\ s.array[p] = "null" => t.oops = 1
      /\ s.array[p] # "null" =>
            /\ Moved(s, t, p, s.array[p])
            /\ t.oops = s.oops /\ t.prio = [s.prio EXCEPT ![p] = MagicPrio]
  BY <1>1, StartMagicMoves
<1> HIDE DEF t, p
<1>5. CASE s.array[p] = "null"
  BY <1>2, <1>4, <1>5 DEF Keeps, t, p
<1>6. CASE s.array[p] # "null"
  <2>1. s.magicProcess \notin Tasks \ {p}
    BY TaskAssumption DEF p
  <2>2. Keeps(s, t)
    BY <1>1, <1>3, <1>4, <1>6, <2>1, KeepsMoved
  <2> QED
    BY <1>2, <2>2 DEF t, p
<1> QED
  BY <1>5, <1>6

\* deactivate_task().
LEMMA DeactivateQueue ==
    ASSUME NEW s \in KernelState, NEW p \in Tasks
    PROVE  Keeps(s, deactivate_task(s, p))
<1> DEFINE t == deactivate_task(s, p)
<1>1. t \in KernelState /\ Frame(s, t)
  BY Zenon, DeactivateKeeps DEF All
<1>2. /\ s.array[p] = "null" => t.oops = 1
      /\ s.array[p] # "null" => Moved(s, t, p, "null") /\ t.oops = s.oops
      /\ t.prio = s.prio
  BY DeactivateMoves
<1> HIDE DEF t
<1>3. CASE s.array[p] = "null"
  BY <1>2, <1>3 DEF Keeps, t
<1>4. CASE s.array[p] # "null"
  <2>1. t.magicProcess = s.magicProcess /\ (rt_task(t, p) <=> rt_task(s, p))
    BY <1>1, <1>2 DEF Frame, rt_task
  <2>2. Keeps(s, t)
    BY <1>1, <1>2, <1>4, <2>1, KeepsMoved
  <2> QED
    BY <2>2 DEF t
<1> QED
  BY <1>3, <1>4

\* A switch to any task.
LEMMA SwitchQueue ==
    ASSUME NEW s \in KernelState, NEW next \in All
    PROVE  Keeps(s, switch_tasks(s, next))
BY OtherFieldsSame, SwitchKeeps, KeepsSame

\* The magic process goes to sleep.
LEMMA GoesToSleepQueue ==
    ASSUME NEW s, SchedInv(s), s.magic_time[s.curr] > 0, s.magicProcess \in {NULL, s.curr}
    PROVE  Keeps(s, magic_goes_to_sleep(s))
<1> DEFINE p == s.curr
           b == IF s.started_magic[p] = 0 THEN start_magic(s) ELSE s
           f == [b EXCEPT !.idle_from_magic = 1, !.magic_sleep_flag = 1]
           d == deactivate_task(f, p)
           t == switch_tasks(d, Idle)
<1>1. magic_goes_to_sleep(s) = t
  BY DEF magic_goes_to_sleep
<1>2. SchedInv(b) /\ Keeps(s, b)
  BY StartedInv, StartedQueue
<1>3. p \in Tasks /\ p \in All /\ Idle \in All
  BY DEF SchedInv, IdleInert, KernelState, All
<1> HIDE DEF b, p
<1>4. b \in KernelState
  BY <1>2 DEF SchedInv
<1>5. f \in KernelState /\ SameFields(b, f) /\ f.magicProcess = b.magicProcess
  <2>1. 1 \in Flag
    BY DEF Flag
  <2>2. f \in KernelState
    BY Zenon, <1>4, <2>1 DEF KernelState
  <2> QED
    BY <1>4, <2>2 DEF KernelState, SameFields
<1> HIDE DEF f
<1>6. Keeps(b, f)
  BY <1>5, KeepsSame
<1>7. Keeps(f, d) /\ d \in KernelState
  BY Zenon, <1>3, <1>5, DeactivateQueue, DeactivateKeeps
<1> HIDE DEF d
<1>8. Keeps(d, t)
  BY <1>3, <1>7, SwitchQueue
<1> HIDE DEF t
<1>9. Keeps(s, f) /\ Keeps(f, t)
  BY <1>2, <1>6, <1>7, <1>8, KeepsTrans
<1> QED
  BY <1>1, <1>9, KeepsTrans

\* The code at "case TASK_RUNNING:".
LEMMA RunningCaseQueue ==
    ASSUME NEW s, SchedInv(s), s.magicProcess \in {NULL, s.curr}, NEW t \in running_case(s)
    PROVE  Keeps(s, t)
<1>1. s \in KernelState
  BY DEF SchedInv
<1>2. CASE s.magic_time[s.curr] > 0
  <2> DEFINE b == IF s.started_magic[s.curr] = 0 THEN start_magic(s) ELSE s
  <2>1. t = switch_tasks(b, b.magicProcess)
    BY <1>2 DEF running_case
  <2>2. SchedInv(b) /\ b.magicProcess = s.curr /\ Keeps(s, b)
    BY <1>2, StartedInv, StartedQueue
  <2> HIDE DEF b
  <2>3. b \in KernelState /\ b.magicProcess \in All
    BY <1>1, <2>2 DEF SchedInv, KernelState
  <2> QED
    BY <2>1, <2>2, <2>3, SwitchQueue, KeepsTrans
<1>3. CASE ~(s.magic_time[s.curr] > 0)
  <2>1. t \in pick_next_task(s)
    BY <1>3 DEF running_case
  <2> QED
    BY <1>1, <2>1, PickQueue
<1> QED
  BY <1>2, <1>3

\* A changed state is no business of the queue.
LEMMA StateQueue ==
    ASSUME NEW s \in KernelState, NEW p \in All, NEW x, NEW t, t = [s EXCEPT !.state[p] = x]
    PROVE  Keeps(s, t) /\ SameFields(s, t)
<1>1. SameFields(s, t) /\ t.magicProcess = s.magicProcess
  BY DEF SameFields, KernelState
<1> QED
  BY Zenon, <1>1, KeepsSame

\* The second part of schedule().
LEMMA PrevStateQueue ==
    ASSUME NEW s, SchedInv(s), s.magicProcess \in {NULL, s.curr}, NEW t \in prev_state_switch(s)
    PROVE  Keeps(s, t)
<1> DEFINE p == s.curr
<1>1. /\ s \in KernelState /\ p \in All /\ s.magic_time[p] \in 0 .. (Word - 1)
      /\ s.state \in [All -> States] /\ s.array \in [All -> Arrays \cup {"null"}]
  BY DEF SchedInv, KernelState
<1>2. CASE s.state[p] = "RUNNING"
  <2>1. t \in running_case(s)
    BY <1>2 DEF prev_state_switch
  <2> QED
    BY <2>1, RunningCaseQueue
<1>3. CASE s.state[p] = "INTERRUPTIBLE" /\ s.magic_time[p] > 0
  <2>1. t = magic_goes_to_sleep(s)
    BY <1>1, <1>3 DEF prev_state_switch
  <2> QED
    BY <1>3, <2>1, GoesToSleepQueue
<1>4. CASE s.state[p] = "INTERRUPTIBLE" /\ s.magic_time[p] = 0 /\ s.sigpending[p] = 1
  <2> DEFINE r == [s EXCEPT !.state[p] = "RUNNING"]
  <2>1. t \in pick_next_task(r)
    BY <1>1, <1>4 DEF prev_state_switch
  <2>2. [s.state EXCEPT ![p] = "RUNNING"] \in [All -> States]
    BY <1>1 DEF States
  <2>3. r \in KernelState
    BY Zenon, <1>1, <2>2 DEF KernelState
  <2>4. Keeps(s, r)
    BY Zenon, <1>1, StateQueue
  <2> HIDE DEF r
  <2>5. Keeps(r, t)
    BY <2>1, <2>3, PickQueue
  <2> QED
    BY <2>4, <2>5, KeepsTrans
<1>5. CASE /\ s.state[p] # "RUNNING"
           /\ ~(s.state[p] = "INTERRUPTIBLE" /\ s.magic_time[p] > 0)
           /\ ~(s.state[p] = "INTERRUPTIBLE" /\ s.magic_time[p] = 0 /\ s.sigpending[p] = 1)
  <2> DEFINE d == deactivate_task(s, p)
  <2>1. t \in running_case(d)
    BY <1>5 DEF prev_state_switch
  <2>2. p \in Tasks
    BY <1>1, <1>5 DEF SchedInv, IdleInert, All
  <2>3. d \in KernelState /\ Frame(s, d) /\ d.array = [s.array EXCEPT ![p] = "null"]
    BY <1>1, DeactivateKeeps
  <2>4. Keeps(s, d)
    BY <1>1, <2>2, DeactivateQueue
  <2> HIDE DEF d
  <2>5. SchedInv(d) /\ d.magicProcess \in {NULL, d.curr}
    <3>1. IdleInert(d) /\ PendingIsCurrent(d) /\ DeadNotQueued(d)
      BY <1>1, <2>3 DEF SchedInv, IdleInert, PendingIsCurrent, DeadNotQueued, Frame
    <3>2. NoMagic(d) /\ SomeMagic(d)
      BY <2>3 DEF SchedInv, NoMagic, SomeMagic, Frame
    <3> QED
      BY <2>3, <3>1, <3>2 DEF SchedInv, Frame
  <2>6. Keeps(d, t)
    BY <2>1, <2>5, RunningCaseQueue
  <2> QED
    BY <2>4, <2>6, KeepsTrans
<1> QED
  BY <1>2, <1>3, <1>4, <1>5

\* schedule().
LEMMA ScheduleQueue ==
    ASSUME NEW s, SchedInv(s), NEW t \in schedule(s)
    PROVE  Keeps(s, t)
<1> DEFINE g == magic_segment(s)
<1>1. SchedInv(g) /\ Keeps(s, g)
  BY MagicSegmentInv, MagicSegmentQueue
<1>2. t \in IF /\ g.magicProcess # NULL
               /\ g.idle_from_magic = 1
               /\ g.state[g.magicProcess] \in {"RUNNING", "INTERRUPTIBLE"}
            THEN {idle_magic_switch(g)}
            ELSE prev_state_switch(g)
  BY DEF schedule
<1> HIDE DEF g
<1>3. CASE g.magicProcess # NULL /\ g.idle_from_magic = 1
  <2> DEFINE r == [g EXCEPT !.idle_from_magic = 0, !.magic_sleep_flag = 0]
             m == g.magicProcess
  <2>1. t = IF g.state[m] = "RUNNING" THEN switch_tasks(r, m) ELSE switch_tasks(g, Idle)
    BY <1>1, <1>2, <1>3 DEF SchedInv, SomeMagic, idle_magic_switch
  <2>2. g \in KernelState /\ m \in All /\ Idle \in All
    BY <1>1, <1>3, MagicIsTask DEF SchedInv, All
  <2>3. r \in KernelState /\ SameFields(g, r) /\ r.magicProcess = m
    <3>1. 0 \in Flag
      BY DEF Flag
    <3>2. r \in KernelState
      BY Zenon, <2>2, <3>1 DEF KernelState
    <3> QED
      BY <2>2, <3>2 DEF KernelState, SameFields
  <2> HIDE DEF r
  <2>4. Keeps(g, switch_tasks(g, Idle)) /\ Keeps(g, r) /\ Keeps(r, switch_tasks(r, m))
    BY <2>2, <2>3, SwitchQueue, KeepsSame
  <2>5. Keeps(g, t)
    BY <2>1, <2>4, KeepsTrans
  <2> QED
    BY <1>1, <2>5, KeepsTrans
<1>4. CASE ~(g.magicProcess # NULL /\ g.idle_from_magic = 1)
  <2>1. g.idle_from_magic \in {0, 1}
    BY <1>1 DEF SchedInv, KernelState, Flag
  <2>2. g.magicProcess \in {NULL, g.curr}
    BY <1>1, <1>4, <2>1 DEF SchedInv, SomeMagic
  <2>3. t \in prev_state_switch(g)
    BY <1>2, <1>4
  <2> QED
    BY <1>1, <2>2, <2>3, PrevStateQueue, KeepsTrans
<1> QED
  BY <1>3, <1>4

\* activate_task() on a task that is on no array.
LEMMA ActivateQueue ==
    ASSUME NEW s \in KernelState, NEW p \in Tasks, NEW e \in 0 .. MAX_PRIO, s.array[p] = "null",
           e \in UserPrios \/ e = s.prio[p]
    PROVE  Keeps(s, activate_task(s, p, e))
<1> DEFINE t == activate_task(s, p, e)
<1>1. t \in KernelState /\ Frame(s, t)
  BY Zenon, ActivateKeeps DEF All
<1>2. /\ Moved(s, t, p, "active") /\ t.oops = s.oops
      /\ t.prio[p] = IF rt_task(s, p) THEN s.prio[p] ELSE e
  BY ActivateMoves
<1> HIDE DEF t
<1>3. "active" \in Arrays \cup {"null"} /\ t.magicProcess = s.magicProcess
  BY <1>1 DEF Arrays, Frame
<1>4. rt_task(t, p) => rt_task(s, p)
  BY <1>2, MagicPrios DEF rt_task, MAX_RT_PRIO
<1>5. Keeps(s, t)
  BY <1>1, <1>2, <1>3, <1>4, KeepsMoved
<1> QED
  BY <1>5 DEF t

\* A wakeup.
LEMMA WakeQueue ==
    ASSUME NEW s \in KernelState, NEW p \in Tasks, NEW e \in 0 .. MAX_PRIO,
           e \in UserPrios \/ e = s.prio[p]
    PROVE  Keeps(s, try_to_wake_up(s, p, e))
<1> DEFINE a == activate_task(s, p, e)
           n == set_tsk_need_resched(a, a.curr)
           w == IF s.array[p] # "null" THEN s
                ELSE IF a.prio[p] < a.prio[a.curr] THEN n
                ELSE a
           t == [w EXCEPT !.state[p] = "RUNNING"]
<1>1. try_to_wake_up(s, p, e) = t
  BY DEF try_to_wake_up
<1>2. p \in All /\ Keeps(s, s)
  BY KeepsSame DEF All, SameFields
<1>3. a \in KernelState /\ (s.array[p] = "null" => Keeps(s, a))
  BY Zenon, <1>2, ActivateKeeps, ActivateQueue
<1> HIDE DEF a
<1>4. n \in KernelState /\ Keeps(a, n)
  <2>1. a.curr \in All
    BY <1>3 DEF KernelState
  <2>2. n \in KernelState /\ Frame(a, n) /\ SameFields(a, n)
    BY <1>3, <2>1, NeedReschedKeeps, OtherFieldsSame
  <2> QED
    BY <2>2, KeepsSame DEF Frame
<1> HIDE DEF n
<1>5. w \in KernelState /\ Keeps(s, w)
  BY <1>2, <1>3, <1>4, KeepsTrans
<1> HIDE DEF w
<1>6. Keeps(w, t)
  BY <1>2, <1>5, StateQueue
<1> QED
  BY <1>1, <1>5, <1>6, KeepsTrans

\* The requeueing of sys_sched_yield() moves current within its array.
LEMMA YieldMoves ==
    ASSUME NEW s \in KernelState, s.curr \in Tasks, s.array[s.curr] # "null", Visible(s)
    PROVE  LET t == yield_requeue(s)
               p == s.curr
           IN  /\ SameFields(s, t) \/ Moved(s, t, p, s.array[p])
               /\ t \in KernelState /\ Frame(s, t) /\ t.array = s.array
               /\ t.oops = s.oops /\ (rt_task(t, p) => rt_task(s, p))
<1> DEFINE p == s.curr
           a == s.array[p]
           h == s.prio[p]
           rest == s.bitmap[a] \ {h}
           next == {j \in rest : \A l \in rest : j <= l}
           lower == {j \in next : j > h}
           i == IF lower = {} THEN h ELSE CHOOSE j \in lower : TRUE
           r == [s EXCEPT !.run_list[p] = h]
           d == [s EXCEPT !.run_list[p] = i, !.prio[p] = i, !.bitmap[a] = rest \cup {i}]
           t == yield_requeue(s)
           others == ~(queue(s, a, h) \subseteq {p})
<1>1. /\ p \in All /\ p \in Tasks /\ a \in Arrays /\ h \in 0 .. MAX_PRIO /\ Tasks \subseteq All
      /\ s.bitmap \in [Arrays -> SUBSET (0 .. MAX_PRIO)] /\ s.nr_running \in Int
      /\ s.prio \in [All -> 0 .. MAX_PRIO] /\ s.run_list \in [All -> 0 .. MAX_PRIO]
      /\ s.array \in [All -> Arrays \cup {"null"}] /\ s.nr_active \in [Arrays -> Int]
  BY DEF KernelState, All
<1>2. i \in 0 .. MAX_PRIO /\ rest \cup {i} \in SUBSET (0 .. MAX_PRIO) /\ i >= h
  <2>1. rest \subseteq 0 .. MAX_PRIO /\ lower \subseteq rest /\ \A j \in lower : j > h
    BY Zenon, <1>1
  <2>2. i = h \/ i \in lower
    BY Zenon
  <2> HIDE DEF i, lower, rest
  <2>3. i \in 0 .. MAX_PRIO /\ (i = h \/ i > h)
    BY Zenon, <1>1, <2>1, <2>2
  <2> QED
    BY <1>1, <2>1, <2>3
<1>3. t = IF rt_task(s, p) \/ others THEN r ELSE d
  BY Zenon DEF yield_requeue
<1>4. "null" \notin Arrays
  BY DEF Arrays
<1> HIDE DEF i, a, p, h, others, t
<1> SUFFICES /\ SameFields(s, t) \/ Moved(s, t, p, a)
             /\ t \in KernelState /\ Frame(s, t) /\ t.array = s.array
             /\ t.oops = s.oops /\ (rt_task(t, p) => rt_task(s, p))
  BY DEF a, p, t
<1>5. CASE rt_task(s, p) \/ others
  <2>1. [s.run_list EXCEPT ![p] = h] \in [All -> 0 .. MAX_PRIO]
    BY <1>1
  <2>2. /\ t \in KernelState /\ Frame(s, t)
        /\ t.array = s.array /\ t.prio = s.prio /\ t.bitmap = s.bitmap
        /\ t.nr_active = s.nr_active /\ t.nr_running = s.nr_running /\ t.oops = s.oops
        /\ t.run_list = [s.run_list EXCEPT ![p] = h]
    <3>1. t = r
      BY <1>3, <1>5
    <3>2. r \in KernelState
      BY Zenon, <2>1 DEF KernelState
    <3> QED
      BY Zenon, <3>1, <3>2 DEF KernelState, Frame
  <2>3. CASE rt_task(s, p)
    <3>1. s.run_list[p] = h
      BY <1>1, <2>3 DEF Visible, Queued, p, h
    <3>2. t.run_list = s.run_list
      BY <1>1, <2>2, <3>1
    <3> QED
      BY <2>2, <2>3, <3>2 DEF SameFields
  <2>4. CASE ~rt_task(s, p)
    <3>0. others
      BY <1>5, <2>4
    <3>1. PICK q \in queue(s, a, h) : q # p
      BY <3>0 DEF others
    <3>2. h \in s.bitmap[a]
      BY <1>1, <1>4, <3>1 DEF queue, Visible, Queued
    <3>3. \A x \in Tasks \ {p} : t.prio[x] = s.prio[x] /\ t.run_list[x] = s.run_list[x]
      BY <1>1, <2>2
    <3>4. t.prio[p] = h /\ t.run_list[p] = h /\ s.array[p] = a /\ a # "null"
      BY <1>1, <1>4, <2>2 DEF h, a
    <3>5. ASSUME NEW c \in Arrays
          PROVE  /\ t.nr_active[c] = (s.nr_active[c] - (IF s.array[p] = c THEN 1 ELSE 0))
                                         + (IF a = c THEN 1 ELSE 0)
                 /\ t.bitmap[c] = Cleared(s, p, c) \cup (IF a = c THEN {t.prio[p]} ELSE {})
      <4>1. Cleared(s, p, c) = s.bitmap[c]
        BY <3>0 DEF Cleared, others, a, h
      <4>2. t.nr_active[c] = (s.nr_active[c] - (IF s.array[p] = c THEN 1 ELSE 0))
                                         + (IF a = c THEN 1 ELSE 0)
        BY <1>1, <2>2, <3>4
      <4> QED
        BY <2>2, <3>2, <3>4, <4>1, <4>2
    <3>6. t.array = [s.array EXCEPT ![p] = a]
      BY <1>1, <2>2, <3>4
    <3>7. t.nr_running = (s.nr_running - (IF s.array[p] = "null" THEN 0 ELSE 1))
                             + (IF a = "null" THEN 0 ELSE 1)
      BY <1>1, <2>2, <3>4
    <3>8. Moved(s, t, p, a)
      BY <3>3, <3>4, <3>5, <3>6, <3>7 DEF Moved
    <3>9. rt_task(t, p) => rt_task(s, p)
      BY <2>2 DEF rt_task
    <3> QED
      BY <2>2, <3>8, <3>9
  <2> QED
    BY <2>3, <2>4
<1>6. CASE ~(rt_task(s, p) \/ others)
  <2>1. /\ [s.run_list EXCEPT ![p] = i] \in [All -> 0 .. MAX_PRIO]
        /\ [s.prio EXCEPT ![p] = i] \in [All -> 0 .. MAX_PRIO]
    BY <1>1, <1>2
  <2> DEFINE bits == rest \cup {i}
  <2>2. [s.bitmap EXCEPT ![a] = bits] \in [Arrays -> SUBSET (0 .. MAX_PRIO)]
    BY <1>1, <1>2
  <2>3. t = [s EXCEPT !.run_list[p] = i, !.prio[p] = i, !.bitmap[a] = bits]
    BY <1>3, <1>6
  <2>4. /\ s.array[p] = a /\ a # "null"
        /\ Cleared(s, p, a) = rest
    BY <1>1, <1>4, <1>6 DEF Cleared, others, a, h
  <2> HIDE DEF rest, bits
  <2>5. t \in KernelState
    BY Zenon, <2>1, <2>2, <2>3 DEF KernelState
  <2>6. /\ Frame(s, t) /\ t.array = s.array
        /\ t.nr_active = s.nr_active /\ t.nr_running = s.nr_running /\ t.oops = s.oops
        /\ t.run_list = [s.run_list EXCEPT ![p] = i] /\ t.prio = [s.prio EXCEPT ![p] = i]
        /\ t.bitmap = [s.bitmap EXCEPT ![a] = bits]
    BY <2>3 DEF KernelState, Frame
  <2>7. \A x \in Tasks \ {p} : t.prio[x] = s.prio[x] /\ t.run_list[x] = s.run_list[x]
    BY <1>1, <2>6
  <2>8. t.prio[p] = i /\ t.run_list[p] = i
    BY <1>1, <2>6
  <2>9. ASSUME NEW c \in Arrays
        PROVE  /\ t.nr_active[c] = (s.nr_active[c] - (IF s.array[p] = c THEN 1 ELSE 0))
                                       + (IF a = c THEN 1 ELSE 0)
               /\ t.bitmap[c] = Cleared(s, p, c) \cup (IF a = c THEN {t.prio[p]} ELSE {})
    <3>1. t.nr_active[c] = (s.nr_active[c] - (IF s.array[p] = c THEN 1 ELSE 0))
                                       + (IF a = c THEN 1 ELSE 0)
      BY <1>1, <2>4, <2>6
    <3>2. CASE c = a
      BY <1>1, <2>4, <2>6, <2>8, <3>1, <3>2 DEF bits
    <3>3. CASE c # a
      <4>1. Cleared(s, p, c) = s.bitmap[c] /\ t.bitmap[c] = s.bitmap[c]
        BY <1>1, <2>4, <2>6, <3>3 DEF Cleared
      <4> QED
        BY <3>1, <3>3, <4>1
    <3> QED
      BY <3>2, <3>3
  <2>10. t.array = [s.array EXCEPT ![p] = a]
    BY <1>1, <2>4, <2>6
  <2>11. t.nr_running = (s.nr_running - (IF s.array[p] = "null" THEN 0 ELSE 1))
                            + (IF a = "null" THEN 0 ELSE 1)
    BY <1>1, <2>4, <2>6
  <2>12. Moved(s, t, p, a)
    BY <2>7, <2>8, <2>9, <2>10, <2>11 DEF Moved
  <2>13. ~rt_task(t, p)
    BY <1>1, <1>2, <1>6, <2>8 DEF rt_task, h, MAX_RT_PRIO
  <2> QED
    BY <2>5, <2>6, <2>12, <2>13
<1> QED
  BY <1>5, <1>6

\* sys_sched_yield() up to its call of schedule().
LEMMA YieldQueue ==
    ASSUME NEW s \in KernelState, s.curr \in Tasks, s.array[s.curr] # "null", Visible(s)
    PROVE  Keeps(s, yield_requeue(s))
<1> DEFINE t == yield_requeue(s)
           p == s.curr
<1>1. /\ SameFields(s, t) \/ Moved(s, t, p, s.array[p])
      /\ t \in KernelState /\ Frame(s, t) /\ t.array = s.array
      /\ t.oops = s.oops /\ (rt_task(t, p) => rt_task(s, p))
  BY YieldMoves
<1>2. p \in Tasks /\ s.array[p] \in Arrays \cup {"null"} /\ t.magicProcess = s.magicProcess
  BY <1>1 DEF KernelState, All, Frame
<1> HIDE DEF t, p
<1>3. Keeps(s, t)
  BY <1>1, <1>2, KeepsMoved, KeepsSame
<1> QED
  BY <1>3 DEF t

=============================================================================
