----------------------------- MODULE TreeLemmas -----------------------------
(***************************************************************************)
(* What the functions behind fork(), exit() and wait4() do to the process  *)
(* tree, for any finite set of tasks: the parts of the invariant, the      *)
(* effect of each function on the links, and which parts of the invariant  *)
(* survive it.                                                             *)
(***************************************************************************)
EXTENDS ProcTree, FiniteSetTheorems, TLAPS

\* All values of task.
States == [Tasks -> Structs]

Live(T) == {t \in Tasks : T[t].state # "none"}

\* The lists of children hold the tasks of D, each once and with its parent.
Lists(T, D) ==
    \A p \in Tasks : /\ IsInjective(T[p].cptr)
                     /\ Range(T[p].cptr) = {c \in D : T[c].pptr = p}

\* Each thread is the next one of exactly one thread.
Rings(T) ==
    /\ \A s, t \in Tasks : T[s].next = T[t].next => s = t
    /\ \A t \in Tasks : \E s \in Tasks : T[s].next = t

\* A free task structure is linked to nothing.
Blank(r, t) == /\ r.pc = "user" /\ r.next = t
               /\ r.pptr = NULL /\ r.opptr = NULL /\ r.vfork_done = NULL

\* What a task in each state is doing.
Phases(T) ==
    /\ \A t \in Tasks :
        /\ T[t].state = "none" => Blank(T[t], t)
        /\ T[t].pc = "user" => T[t].state \in {"none", "running"}
        /\ T[t].pc = "wait4" => T[t].state \in {"running", "interruptible"}
        /\ T[t].pc = "status" => T[t].state = "running"
        /\ T[t].pc = "vfork" => T[t].state \in {"running", "uninterruptible"}
        /\ T[t].pc = "exit" => T[t].state \in {"running", "zombie"} /\ T[t].vfork_done = NULL
        /\ T[t].exiting <=> T[t].pc = "exit"
    /\ T[child_reaper].state # "none" /\ T[child_reaper].pc # "exit"

Parents(T) ==
    \A t \in Live(T) \ {child_reaper} :
        /\ T[t].pptr \in Live(T) \ {t} /\ T[T[t].pptr].state # "zombie"
        /\ T[t].opptr \in Live(T) \ {t} /\ T[T[t].opptr].state # "zombie"

\* Nobody is init's parent.
NoGrandparent(T) == T[child_reaper].pptr = NULL /\ T[child_reaper].opptr = NULL

\* A parent in vfork() and the one child that points to its completion.
Completions(T) ==
    /\ \A c \in Tasks : T[c].vfork_done # NULL =>
        T[T[c].vfork_done].pc = "vfork" /\ ~T[T[c].vfork_done].done
    /\ \A c, d \in Tasks : T[c].vfork_done = T[d].vfork_done /\ T[c].vfork_done # NULL => c = d
    /\ \A p \in Tasks : T[p].pc = "vfork" /\ ~T[p].done => \E c \in Tasks : T[c].vfork_done = p
    /\ \A p \in Tasks : T[p].done => T[p].pc = "vfork" /\ T[p].state = "running"

Family(T) ==
    /\ T \in States
    /\ Lists(T, Live(T))
    /\ Rings(T)
    /\ Phases(T)
    /\ Parents(T)
    /\ NoGrandparent(T)
    /\ Completions(T)

\* Orphans that init inherits report by SIGCHLD, unless clones are made for init.
Orphans(T) ==
    "clone_for_init" \notin Stress =>
        \A t \in Live(T) : T[t].opptr = child_reaper => T[t].exit_signal = "SIGCHLD"

\* A traced task reports by SIGCHLD, unless clones are traced.
Traced(T) ==
    "trace_clone" \notin Stress =>
        \A t \in Live(T) : T[t].opptr # T[t].pptr => T[t].exit_signal = "SIGCHLD"

\* No dead child of thread q is one that wait4() with options o looks for.
NoneDead(T, q, o) ==
    \A x \in Live(T) : T[x].pptr = q /\ T[x].state = "zombie" => ~eligible(T, x, o)

\* The threads whose children wait4() looks at.
Looked(T, t, o) == IF o.nothread THEN {t} ELSE Group(T, t)

Heard(T) ==
    "trace_clone" \notin Stress =>
        \A t \in Tasks : T[t].state = "interruptible" =>
            \A q \in Looked(T, t, T[t].opt) : NoneDead(T, q, T[t].opt)

\* A child whose status is being written stays where it is, unless that sleeps
\* in a group of threads.
PinnedFor(T, S) ==
    /\ \A t \in S : T[t].pc = "status" => T[t].tsk \in Tasks
    /\ "status_faults" \notin Stress =>
        \A t \in S : T[t].pc = "status" =>
            /\ T[t].next = t
            /\ T[t].tsk \in Live(T) /\ T[T[t].tsk].state = "zombie" /\ T[T[t].tsk].pptr = t

TreeInvariant ==
    /\ TypeOK
    /\ Family(task)
    /\ Orphans(task)
    /\ Traced(task)
    /\ Heard(task)
    /\ PinnedFor(task, Tasks)
    /\ "status_faults" \notin Stress => ~broken

-----------------------------------------------------------------------------
(* Numbers and threads                                                       *)

\* Every set of numbers has a least one.
LEMMA LeastNumber ==
    ASSUME NEW S \in SUBSET Nat, S # {}
    PROVE  \E i \in S : \A j \in S : i <= j
<1>1. PICK i \in S : \A j \in S : ~(<<j, i>> \in OpToRel(<, Nat))
  BY Zenon, NatLessThanWellFounded, WFMin
<1>2. \A j \in S : ~(j < i)
  BY Zenon, <1>1 DEF OpToRel
<1> QED
  BY <1>2

\* Min is the least number of a set of numbers.
LEMMA MinLeast ==
    ASSUME NEW S \in SUBSET Nat, S # {}
    PROVE  Min(S) \in S /\ \A j \in S : Min(S) <= j
<1>1. \E i \in S : \A j \in S : i <= j
  BY LeastNumber
<1> QED
  BY Zenon, <1>1 DEF Min

\* The number of tasks is a number.
LEMMA Count == Cardinality(Tasks) \in Nat
BY TreeAssumption, FS_CardinalityType

\* Following next_thread() is a function on the numbers: it exists up to every
\* length.
LEMMA FollowExists ==
    ASSUME NEW T \in States, NEW t \in Tasks, NEW n \in Nat
    PROVE  \E f : f = [i \in 0 .. n |-> IF i = 0 THEN t ELSE T[f[i - 1]].next]
<1> DEFINE Has(m) == \E f : f = [i \in 0 .. m |-> IF i = 0 THEN t ELSE T[f[i - 1]].next]
<1> DEFINE Bad == {m \in Nat : ~Has(m)}
<1> SUFFICES ASSUME Bad # {} PROVE FALSE
  BY Zenon
<1>1. PICK m \in Bad : \A j \in Bad : m <= j
  BY Zenon, LeastNumber
<1>2. Has(0)
  <2> DEFINE f == [i \in 0 .. 0 |-> t]
  <2>1. f = [i \in 0 .. 0 |-> IF i = 0 THEN t ELSE T[f[i - 1]].next]
    OBVIOUS
  <2> QED
    BY Zenon, <2>1
<1> HIDE DEF Has
<1>3. m # 0 /\ m - 1 \in Nat
  BY <1>1, <1>2
<1>4. Has(m - 1)
  BY <1>1, <1>3
<1>5. PICK f : f = [i \in 0 .. m - 1 |-> IF i = 0 THEN t ELSE T[f[i - 1]].next]
  BY <1>4 DEF Has
<1> DEFINE g == [i \in 0 .. m |-> IF i < m THEN f[i] ELSE T[f[m - 1]].next]
<1>6. \A i \in 0 .. m : g[i] = IF i = 0 THEN t ELSE T[g[i - 1]].next
  <2> SUFFICES ASSUME NEW i \in 0 .. m PROVE g[i] = IF i = 0 THEN t ELSE T[g[i - 1]].next
    OBVIOUS
  <2>1. CASE i < m
    <3>1. i \in 0 .. m - 1
      BY <2>1, <1>3
    <3>2. f[i] = IF i = 0 THEN t ELSE T[f[i - 1]].next
      BY <3>1, <1>5
    <3>3. i # 0 => i - 1 \in 0 .. m /\ i - 1 < m
      BY <3>1, <1>3
    <3> QED
      BY <2>1, <3>2, <3>3
  <2>2. CASE i = m
    <3>1. m - 1 \in 0 .. m /\ m - 1 < m /\ ~(m < m)
      BY <1>3
    <3> QED
      BY <2>2, <3>1, <1>3
  <2> QED
    BY <2>1, <2>2
<1>7. g = [i \in 0 .. m |-> IF i = 0 THEN t ELSE T[g[i - 1]].next]
  BY <1>6, Zenon
<1> HIDE DEF g
<1>8. Has(m)
  BY <1>7 DEF Has
<1> QED
  BY <1>1, <1>8

\* The threads that are met.
LEMMA Thread ==
    ASSUME NEW T \in States, NEW t \in Tasks
    PROVE  /\ threads(T, t) \in [0 .. Cardinality(Tasks) -> Tasks]
           /\ threads(T, t)[0] = t
           /\ \A i \in 1 .. Cardinality(Tasks) : threads(T, t)[i] = T[threads(T, t)[i - 1]].next
<1> DEFINE N == Cardinality(Tasks)
<1> DEFINE f == threads(T, t)
<1>0. N \in Nat
  BY Count
<1>1. f = [i \in 0 .. N |-> IF i = 0 THEN t ELSE T[f[i - 1]].next]
  BY Zenon, FollowExists, <1>0 DEF threads
<1> HIDE DEF f, N
<1>2. f[0] = t
  BY <1>0, <1>1
<1>3. ASSUME NEW i \in 1 .. N PROVE f[i] = T[f[i - 1]].next
  <2>1. i \in 0 .. N /\ i # 0
    BY <1>0
  <2> QED
    BY Zenon, <1>1, <2>1
<1> DEFINE Bad == {i \in 0 .. N : f[i] \notin Tasks}
<1>4. Bad = {}
  <2> SUFFICES ASSUME Bad # {} PROVE FALSE
    OBVIOUS
  <2>1. PICK i \in Bad : \A j \in Bad : i <= j
    <3>1. Bad \in SUBSET Nat
      BY <1>0
    <3> HIDE DEF Bad
    <3> QED
      BY <3>1, LeastNumber
  <2>2. i # 0
    BY <1>2
  <2>3. i \in 1 .. N /\ i - 1 \in 0 .. N /\ ~(i <= i - 1)
    BY <2>2, <1>0
  <2>4. f[i - 1] \in Tasks
    BY <2>1, <2>3
  <2>5. f[i] = T[f[i - 1]].next
    BY <1>3, <2>3
  <2>6. f[i] \in Tasks
    BY <2>4, <2>5 DEF States, Structs
  <2> QED
    BY <2>6
<1>5. \A i \in 0 .. N : f[i] \in Tasks
  BY <1>4
<1>6. DOMAIN f = 0 .. N /\ f = [i \in 0 .. N |-> f[i]]
  BY <1>1
<1>7. f \in [0 .. N -> Tasks]
  BY <1>5, <1>6
<1> QED
  BY <1>2, <1>3, <1>7 DEF f, N

\* After some steps the ring comes back to where it started.
LEMMA Around ==
    ASSUME NEW T \in States, Rings(T), NEW t \in Tasks
    PROVE  \E r \in 1 .. Cardinality(Tasks) : threads(T, t)[r] = t
<1> DEFINE N == Cardinality(Tasks)
<1> DEFINE f == threads(T, t)
<1>0. N \in Nat
  BY Count
<1>1. f \in [0 .. N -> Tasks] /\ f[0] = t /\ \A i \in 1 .. N : f[i] = T[f[i - 1]].next
  BY Thread
<1> HIDE DEF f, N
<1>2. IsFiniteSet(0 .. N) /\ Cardinality(0 .. N) = N + 1
  BY <1>0, FS_Interval
<1>3. \E i, j \in 0 .. N : i # j /\ f[i] = f[j]
  <2>1. Cardinality(Tasks) < Cardinality(0 .. N)
    BY <1>0, <1>2 DEF N
  <2>2. IsFiniteSet(Tasks)
    BY TreeAssumption
  <2>3. f \in [0 .. N -> Tasks]
    BY <1>1
  <2> QED
    BY ONLY Zenon, <1>2, <2>1, <2>2, <2>3, FS_PigeonHole
<1> DEFINE B == {i \in 0 .. N : \E j \in 0 .. N : i < j /\ f[i] = f[j]}
<1>4. B \in SUBSET Nat /\ B # {}
  <2>1. PICK i, j \in 0 .. N : i # j /\ f[i] = f[j]
    BY <1>3
  <2>2. i < j \/ j < i
    BY <2>1, <1>0
  <2> QED
    BY <1>0, <2>1, <2>2
<1>5. PICK i \in B : \A j \in B : i <= j
  <2> HIDE DEF B
  <2> QED
    BY <1>4, LeastNumber
<1>6. PICK j \in 0 .. N : i < j /\ f[i] = f[j]
  OBVIOUS
<1>7. i = 0
  <2> SUFFICES ASSUME i # 0 PROVE FALSE
    OBVIOUS
  <2>1. i \in 1 .. N /\ j \in 1 .. N /\ i - 1 \in 0 .. N /\ j - 1 \in 0 .. N /\ i - 1 < j - 1 /\ ~(i <= i - 1)
    BY <1>0, <1>6
  <2>2. T[f[i - 1]].next = T[f[j - 1]].next
    BY <1>1, <1>6, <2>1
  <2>3. f[i - 1] = f[j - 1]
    BY <1>1, <2>1, <2>2 DEF Rings
  <2>4. i - 1 \in B
    BY <2>1, <2>3
  <2> QED
    BY <1>5, <2>1, <2>4
<1>8. j \in 1 .. N /\ f[j] = t
  BY <1>0, <1>1, <1>6, <1>7
<1> QED
  BY <1>8 DEF f, N

\* The threads of a group.
LEMMA InGroup ==
    ASSUME NEW T \in States, NEW t \in Tasks
    PROVE  /\ Group(T, t) = {threads(T, t)[i] : i \in 0 .. Cardinality(Tasks)}
           /\ Group(T, t) \subseteq Tasks
           /\ t \in Group(T, t)
<1>1. threads(T, t) \in [0 .. Cardinality(Tasks) -> Tasks] /\ threads(T, t)[0] = t
  BY Thread
<1>2. 0 \in 0 .. Cardinality(Tasks)
  BY Count
<1> QED
  BY <1>1, <1>2 DEF Group, Range

\* A group is the least set that holds a thread and all that come next.
LEMMA GroupLeast ==
    ASSUME NEW T \in States, NEW t \in Tasks, NEW S, t \in S, \A q \in S : T[q].next \in S
    PROVE  Group(T, t) \subseteq S
<1> DEFINE N == Cardinality(Tasks)
<1> DEFINE f == threads(T, t)
<1>0. N \in Nat
  BY Count
<1>1. f \in [0 .. N -> Tasks] /\ f[0] = t /\ \A i \in 1 .. N : f[i] = T[f[i - 1]].next
  BY Thread
<1>2. Group(T, t) = {f[i] : i \in 0 .. N}
  BY InGroup
<1> HIDE DEF f, N
<1> DEFINE Bad == {i \in 0 .. N : f[i] \notin S}
<1>3. Bad = {}
  <2> SUFFICES ASSUME Bad # {} PROVE FALSE
    OBVIOUS
  <2>1. PICK i \in Bad : \A j \in Bad : i <= j
    <3>1. Bad \in SUBSET Nat
      BY <1>0
    <3> HIDE DEF Bad
    <3> QED
      BY Zenon, <3>1, LeastNumber
  <2>2. i \in 1 .. N /\ i - 1 \in 0 .. N /\ ~(i <= i - 1)
    BY <1>0, <1>1
  <2>3. f[i - 1] \in S
    BY <2>1, <2>2
  <2> QED
    BY <1>1, <2>2, <2>3
<1> QED
  BY <1>2, <1>3

\* A group is closed under going forward and backward in the ring.
LEMMA GroupClosed ==
    ASSUME NEW T \in States, Rings(T), NEW t \in Tasks
    PROVE  /\ \A q \in Group(T, t) : T[q].next \in Group(T, t)
           /\ \A q \in Tasks : T[q].next \in Group(T, t) => q \in Group(T, t)
<1> DEFINE N == Cardinality(Tasks)
<1> DEFINE f == threads(T, t)
<1>0. N \in Nat
  BY Count
<1>1. f \in [0 .. N -> Tasks] /\ f[0] = t /\ \A i \in 1 .. N : f[i] = T[f[i - 1]].next
  BY Thread
<1>2. Group(T, t) = {f[i] : i \in 0 .. N}
  BY InGroup
<1>3. PICK r \in 1 .. N : f[r] = t
  BY Around
<1> HIDE DEF f, N
<1> DEFINE G == {f[i] : i \in 0 .. r - 1}
<1>4. \A q \in G : T[q].next \in G
  <2> SUFFICES ASSUME NEW i \in 0 .. r - 1 PROVE T[f[i]].next \in G
    OBVIOUS
  <2>1. i + 1 \in 1 .. N /\ (i + 1) - 1 = i
    BY <1>0
  <2>2. T[f[i]].next = f[i + 1]
    BY <1>1, <2>1
  <2>3. CASE i + 1 = r
    <3>1. 0 \in 0 .. r - 1
      BY <1>0
    <3> QED
      BY <1>1, <1>3, <2>2, <2>3, <3>1
  <2>4. CASE i + 1 # r
    <3>1. i + 1 \in 0 .. r - 1
      BY <1>0, <2>4
    <3> QED
      BY <2>2, <3>1
  <2> QED
    BY <2>3, <2>4
<1>5. t \in G
  <2>1. 0 \in 0 .. r - 1
    BY <1>0
  <2> QED
    BY <1>1, <2>1
<1>6. Group(T, t) \subseteq G
  <2> HIDE DEF G
  <2> QED
    BY <1>4, <1>5, GroupLeast
<1>7. G \subseteq Group(T, t)
  <2>1. 0 .. r - 1 \subseteq 0 .. N
    BY <1>0
  <2> QED
    BY <1>2, <2>1
<1>8. Group(T, t) = G
  BY <1>6, <1>7
<1>9. ASSUME NEW q \in Tasks, T[q].next \in G PROVE q \in G
  <2>1. PICK i \in 0 .. r - 1 : T[q].next = f[i]
    BY <1>9
  <2>2. CASE i = 0
    <3>1. r - 1 \in 0 .. r - 1 /\ r - 1 \in 0 .. N
      BY <1>0
    <3>2. T[f[r - 1]].next = T[q].next
      BY <1>1, <1>3, <2>1, <2>2
    <3>3. f[r - 1] = q
      BY <1>1, <3>1, <3>2 DEF Rings
    <3> QED
      BY <3>1, <3>3
  <2>3. CASE i # 0
    <3>1. i \in 1 .. N /\ i - 1 \in 0 .. r - 1 /\ i - 1 \in 0 .. N
      BY <1>0, <2>3
    <3>2. T[f[i - 1]].next = T[q].next
      BY <1>1, <2>1, <3>1
    <3>3. f[i - 1] = q
      BY <1>1, <3>1, <3>2 DEF Rings
    <3> QED
      BY <3>1, <3>3
  <2> QED
    BY <2>2, <2>3
<1> HIDE DEF G
<1> QED
  BY <1>4, <1>8, <1>9

\* Two threads are each in the group of the other.
LEMMA GroupSym ==
    ASSUME NEW T \in States, Rings(T), NEW t \in Tasks, NEW s \in Group(T, t)
    PROVE  t \in Group(T, s)
<1> DEFINE N == Cardinality(Tasks)
<1> DEFINE f == threads(T, t)
<1>0. N \in Nat
  BY Count
<1>1. f \in [0 .. N -> Tasks] /\ f[0] = t /\ \A i \in 1 .. N : f[i] = T[f[i - 1]].next
  BY Thread
<1>2. Group(T, t) = {f[i] : i \in 0 .. N}
  BY InGroup
<1> HIDE DEF f, N
<1>3. s \in Tasks
  BY <1>1, <1>2
<1>4. s \in Group(T, s) /\ \A q \in Tasks : T[q].next \in Group(T, s) => q \in Group(T, s)
  BY <1>3, GroupClosed, InGroup
<1> DEFINE B == {i \in 0 .. N : f[i] \in Group(T, s)}
<1>5. B \in SUBSET Nat /\ B # {}
  BY <1>0, <1>2, <1>4
<1>6. PICK i \in B : \A j \in B : i <= j
  <2> HIDE DEF B
  <2> QED
    BY <1>5, LeastNumber
<1>7. i = 0
  <2> SUFFICES ASSUME i # 0 PROVE FALSE
    OBVIOUS
  <2>1. i \in 1 .. N /\ i - 1 \in 0 .. N /\ ~(i <= i - 1)
    BY <1>0
  <2>2. f[i - 1] \in Group(T, s)
    BY <1>1, <1>4, <2>1
  <2> QED
    BY <1>6, <2>1, <2>2
<1> QED
  BY <1>1, <1>7

\* A thread that is its own next one has a group to itself.
LEMMA Alone ==
    ASSUME NEW T \in States, Rings(T), NEW t \in Tasks, T[t].next = t, NEW s \in Tasks,
           t \in Group(T, s)
    PROVE  s = t
<1>1. s \in Group(T, t)
  BY GroupSym
<1>2. Group(T, t) \subseteq {t}
  BY Zenon, GroupLeast
<1> QED
  BY <1>1, <1>2

-----------------------------------------------------------------------------
(* Lists of children                                                         *)

\* What is left of a list without its n-th member, place by place.
LEMMA CutPlaces ==
    ASSUME NEW S, NEW q \in Seq(S), NEW n \in 1 .. Len(q)
    PROVE  \E r \in Seq(S) :
              /\ r = SubSeq(q, 1, n - 1) \o SubSeq(q, n + 1, Len(q))
              /\ Len(r) = Len(q) - 1
              /\ \A j \in 1 .. Len(q) - 1 : r[j] = IF j < n THEN q[j] ELSE q[j + 1]
<1> DEFINE l == SubSeq(q, 1, n - 1)
           r == SubSeq(q, n + 1, Len(q))
<1>1. Len(q) \in Nat
  OBVIOUS
<1>2. /\ l \in Seq(S) /\ Len(l) = n - 1
      /\ \A j \in 1 .. n - 1 : l[j] = q[j]
  BY <1>1
<1>3. /\ r \in Seq(S) /\ Len(r) = Len(q) - n
      /\ \A j \in 1 .. Len(q) - n : r[j] = q[n + j]
  BY <1>1
<1> HIDE DEF l, r
<1>4. /\ l \o r \in Seq(S) /\ Len(l \o r) = Len(l) + Len(r)
      /\ \A j \in 1 .. Len(l) + Len(r) :
            (l \o r)[j] = IF j <= Len(l) THEN l[j] ELSE r[j - Len(l)]
  <2>1. l \in Seq(S) /\ r \in Seq(S)
    BY <1>2, <1>3
  <2> QED
    BY ONLY <2>1
<1>5. SubSeq(q, 1, n - 1) \o SubSeq(q, n + 1, Len(q)) = l \o r
  BY DEF l, r
<1>6. ASSUME NEW j \in 1 .. Len(q) - 1
      PROVE  (l \o r)[j] = IF j < n THEN q[j] ELSE q[j + 1]
  <2>1. CASE j < n
    BY <1>1, <1>2, <1>3, <1>4, <2>1
  <2>2. CASE j >= n
    <3>1. (l \o r)[j] = r[j - (n - 1)]
      BY <1>1, <1>2, <1>3, <1>4, <2>2
    <3>2. j - (n - 1) \in 1 .. Len(q) - n /\ n + (j - (n - 1)) = j + 1
      BY <1>1, <2>2
    <3> QED
      BY <1>1, <1>3, <2>2, <3>1, <3>2
  <2> QED
    <3>1. j < n \/ j >= n
      BY <1>1
    <3> QED
      BY Zenon, <2>1, <2>2, <3>1
<1>7. l \o r \in Seq(S) /\ Len(l \o r) = Len(q) - 1
  BY <1>1, <1>2, <1>3, <1>4
<1> QED
  BY Zenon, <1>5, <1>6, <1>7

\* A list without one of its members.
LEMMA DropList ==
    ASSUME NEW s \in Seq(Tasks), IsInjective(s), NEW p \in Range(s)
    PROVE  /\ unlink(s, p) \in Seq(Tasks)
           /\ IsInjective(unlink(s, p))
           /\ Range(unlink(s, p)) = Range(s) \ {p}
<1> DEFINE k == CHOOSE i \in DOMAIN s : s[i] = p
           r == unlink(s, p)
<1>0. Len(s) \in Nat /\ DOMAIN s = 1 .. Len(s)
  OBVIOUS
<1>1. \E i \in DOMAIN s : s[i] = p
  BY DEF Range
<1>2. k \in DOMAIN s /\ s[k] = p
  BY <1>1
<1>3. r = SubSeq(s, 1, k - 1) \o SubSeq(s, k + 1, Len(s))
  BY DEF unlink
<1> HIDE DEF k, r
<1>4. k \in 1 .. Len(s) /\ s[k] = p
  BY <1>0, <1>2
<1>5. r \in Seq(Tasks) /\ Len(r) = Len(s) - 1
      /\ \A j \in 1 .. Len(s) - 1 : r[j] = IF j < k THEN s[j] ELSE s[j + 1]
  BY ZenonT(40), <1>3, <1>4, CutPlaces
<1>6. DOMAIN r = 1 .. Len(s) - 1
  BY <1>5
<1>7. IsInjective(r)
  <2> SUFFICES ASSUME NEW i \in 1 .. Len(s) - 1, NEW j \in 1 .. Len(s) - 1, r[i] = r[j]
               PROVE  i = j
    BY <1>6 DEF IsInjective
  <2> DEFINE a == IF i < k THEN i ELSE i + 1
             b == IF j < k THEN j ELSE j + 1
  <2>1. a \in 1 .. Len(s) /\ b \in 1 .. Len(s) /\ (a = b => i = j)
    BY <1>0, <1>4
  <2>2. r[i] = s[a] /\ r[j] = s[b]
    BY <1>5
  <2> HIDE DEF a, b
  <2> QED
    BY Zenon, <1>0, <2>1, <2>2 DEF IsInjective
<1>8. Range(r) \subseteq Range(s) \ {p}
  <2> SUFFICES ASSUME NEW i \in 1 .. Len(s) - 1 PROVE r[i] \in Range(s) \ {p}
    BY <1>6 DEF Range
  <2> DEFINE a == IF i < k THEN i ELSE i + 1
  <2>1. a \in 1 .. Len(s) /\ a # k
    BY <1>0, <1>4
  <2>2. r[i] = s[a]
    BY <1>5
  <2> HIDE DEF a
  <2> QED
    BY <1>0, <1>4, <2>1, <2>2 DEF Range, IsInjective
<1>9. Range(s) \ {p} \subseteq Range(r)
  <2> SUFFICES ASSUME NEW i \in 1 .. Len(s), s[i] # p PROVE s[i] \in Range(r)
    BY <1>0 DEF Range
  <2>1. i # k
    BY <1>4
  <2> DEFINE a == IF i < k THEN i ELSE i - 1
  <2>2. a \in 1 .. Len(s) - 1 /\ (IF a < k THEN a ELSE a + 1) = i
    BY <1>0, <1>4, <2>1
  <2> HIDE DEF a
  <2>3. r[a] = s[i]
    BY Zenon, <1>5, <2>2
  <2> QED
    BY <1>6, <2>2, <2>3 DEF Range
<1> QED
  BY <1>5, <1>7, <1>8, <1>9 DEF r

\* A list with a new first member.
LEMMA PushList ==
    ASSUME NEW s \in Seq(Tasks), IsInjective(s), NEW p \in Tasks, p \notin Range(s)
    PROVE  /\ <<p>> \o s \in Seq(Tasks)
           /\ IsInjective(<<p>> \o s)
           /\ Range(<<p>> \o s) = Range(s) \cup {p}
<1> DEFINE r == <<p>> \o s
<1>0. Len(s) \in Nat /\ DOMAIN s = 1 .. Len(s)
  OBVIOUS
<1>1. <<p>> \in Seq(Tasks) /\ Len(<<p>>) = 1 /\ <<p>>[1] = p
  OBVIOUS
<1>2. r \in Seq(Tasks) /\ Len(r) = 1 + Len(s)
      /\ \A i \in 1 .. 1 + Len(s) : r[i] = IF i <= 1 THEN <<p>>[i] ELSE s[i - 1]
  BY <1>1
<1> HIDE DEF r
<1>3. DOMAIN r = 1 .. 1 + Len(s)
  BY <1>2
<1>4. \A i \in 1 .. 1 + Len(s) : r[i] = IF i = 1 THEN p ELSE s[i - 1]
  BY <1>0, <1>1, <1>2
<1>5. \A i \in 1 .. 1 + Len(s) : i # 1 => i - 1 \in 1 .. Len(s)
  BY <1>0
<1>6. IsInjective(r)
  <2> SUFFICES ASSUME NEW i \in 1 .. 1 + Len(s), NEW j \in 1 .. 1 + Len(s), r[i] = r[j]
               PROVE  i = j
    BY <1>3 DEF IsInjective
  <2>1. CASE i # 1 /\ j # 1
    <3>1. s[i - 1] = s[j - 1] /\ i - 1 \in 1 .. Len(s) /\ j - 1 \in 1 .. Len(s)
      BY <1>4, <1>5, <2>1
    <3>2. i - 1 = j - 1
      BY <1>0, <3>1 DEF IsInjective
    <3> QED
      BY <1>0, <3>2
  <2>2. \A a \in 1 .. 1 + Len(s) : a # 1 => r[a] # p
    <3> SUFFICES ASSUME NEW a \in 1 .. 1 + Len(s), a # 1 PROVE r[a] # p
      OBVIOUS
    <3>1. r[a] = s[a - 1] /\ a - 1 \in DOMAIN s
      BY <1>0, <1>4, <1>5
    <3> QED
      BY Zenon, <3>1 DEF Range
  <2>3. CASE i = 1 \/ j = 1
    BY <1>4, <2>2, <2>3
  <2> QED
    BY <2>1, <2>3
<1>7. Range(r) = Range(s) \cup {p}
  <2>1. ASSUME NEW i \in 1 .. 1 + Len(s) PROVE r[i] \in Range(s) \cup {p}
    BY <1>0, <1>4, <1>5 DEF Range
  <2>2. ASSUME NEW i \in 1 .. Len(s) PROVE s[i] \in Range(r)
    <3>1. i + 1 \in 1 .. 1 + Len(s) /\ i + 1 # 1 /\ (i + 1) - 1 = i
      BY <1>0
    <3>2. r[i + 1] = s[i]
      BY <1>4, <3>1
    <3> QED
      BY <1>3, <3>1, <3>2 DEF Range
  <2>3. p \in Range(r)
    <3>1. 1 \in 1 .. 1 + Len(s)
      BY <1>0
    <3>2. r[1] = p
      BY <1>4, <3>1
    <3> QED
      BY <1>3, <3>1, <3>2 DEF Range
  <2>4. Range(r) \subseteq Range(s) \cup {p}
    BY <1>3, <2>1 DEF Range
  <2>5. Range(s) \subseteq Range(r)
    BY <1>0, <2>2 DEF Range
  <2> QED
    BY <2>3, <2>4, <2>5
<1> QED
  BY <1>2, <1>6, <1>7 DEF r

\* Storing a new task structure.
LEMMA TaskStore ==
    ASSUME NEW T \in States, NEW p \in Tasks, NEW r \in Structs
    PROVE  /\ [T EXCEPT ![p] = r] \in States
           /\ [T EXCEPT ![p] = r][p] = r
           /\ \A q \in Tasks \ {p} : [T EXCEPT ![p] = r][q] = T[q]
BY DEF States

\* What neither links nor wakeups change.
Steady(T, U) ==
    \A t \in Tasks :
        /\ U[t].opptr = T[t].opptr
        /\ U[t].next = T[t].next
        /\ U[t].exit_signal = T[t].exit_signal
        /\ U[t].pc = T[t].pc
        /\ U[t].opt = T[t].opt
        /\ U[t].tsk = T[t].tsk
        /\ U[t].exiting = T[t].exiting
        /\ U[t].vfork_done = T[t].vfork_done
        /\ U[t].done = T[t].done

\* Steps that are steady one by one are steady together.
LEMMA SteadyTrans ==
    ASSUME NEW T, NEW U, NEW V, Steady(T, U), Steady(U, V)
    PROVE  Steady(T, V)
BY DEF Steady

\* Only lists of children have changed.
Relisted(T, U) ==
    /\ U \in States
    /\ Steady(T, U)
    /\ \A t \in Tasks : /\ U[t].pptr = T[t].pptr /\ U[t].ptrace = T[t].ptrace
                        /\ U[t].state = T[t].state /\ U[t].sigpending = T[t].sigpending

\* Assigning to the list of children of one task, as SET_LINKS and REMOVE_LINKS do.
LEMMA Relist ==
    ASSUME NEW T \in States, NEW q \in Tasks, NEW l \in Seq(Tasks)
    PROVE  /\ Relisted(T, [T EXCEPT ![q].cptr = l])
           /\ [T EXCEPT ![q].cptr = l][q].cptr = l
           /\ \A t \in Tasks \ {q} : [T EXCEPT ![q].cptr = l][t].cptr = T[t].cptr
<1> DEFINE r == [T[q] EXCEPT !.cptr = l]
<1> DEFINE U == [T EXCEPT ![q] = r]
<1>0. T[q] \in Structs
  BY DEF States
<1>1. r \in Structs /\ r.cptr = l
  BY Zenon, <1>0 DEF Structs
<1>2. /\ r.opptr = T[q].opptr /\ r.next = T[q].next /\ r.exit_signal = T[q].exit_signal
      /\ r.pc = T[q].pc /\ r.opt = T[q].opt /\ r.tsk = T[q].tsk /\ r.exiting = T[q].exiting
      /\ r.vfork_done = T[q].vfork_done /\ r.done = T[q].done
      /\ r.pptr = T[q].pptr /\ r.ptrace = T[q].ptrace /\ r.state = T[q].state
      /\ r.sigpending = T[q].sigpending
  BY <1>0 DEF Structs
<1>3. [T EXCEPT ![q].cptr = l] = U
  OBVIOUS
<1> HIDE DEF r
<1>4. U \in States /\ U[q] = r /\ \A t \in Tasks \ {q} : U[t] = T[t]
  BY <1>1, TaskStore
<1> HIDE DEF U
<1>5. Relisted(T, U)
  BY <1>2, <1>4 DEF Relisted, Steady
<1> QED
  BY Zenon, <1>1, <1>3, <1>4, <1>5

\* REMOVE_LINKS() takes a task out of the lists.
LEMMA RemoveEffect ==
    ASSUME NEW T \in States, NEW D \in SUBSET Tasks, Lists(T, D), NEW p \in D, T[p].pptr \in Tasks
    PROVE  Relisted(T, REMOVE_LINKS(T, p)) /\ Lists(REMOVE_LINKS(T, p), D \ {p})
<1> DEFINE q == T[p].pptr
           l == unlink(T[q].cptr, p)
           U == REMOVE_LINKS(T, p)
<1>1. T[q].cptr \in Seq(Tasks)
  BY DEF States, Structs
<1>2. IsInjective(T[q].cptr) /\ Range(T[q].cptr) = {c \in D : T[c].pptr = q}
  BY DEF Lists
<1>3. p \in Range(T[q].cptr)
  BY <1>2
<1>4. l \in Seq(Tasks) /\ IsInjective(l) /\ Range(l) = Range(T[q].cptr) \ {p}
  BY <1>1, <1>2, <1>3, DropList
<1>5. U = [T EXCEPT ![q].cptr = l]
  BY DEF REMOVE_LINKS
<1>0. T \in States /\ q \in Tasks /\ T[p].pptr = q
  OBVIOUS
<1> HIDE DEF l, U, q
<1>6. Relisted(T, U) /\ U[q].cptr = l /\ \A t \in Tasks \ {q} : U[t].cptr = T[t].cptr
  <2> DEFINE E == [T EXCEPT ![q].cptr = l]
  <2>1. Relisted(T, E) /\ E[q].cptr = l /\ \A t \in Tasks \ {q} : E[t].cptr = T[t].cptr
    BY ONLY <1>0, <1>4, Relist
  <2>2. U = E
    BY <1>5
  <2> QED
    BY ONLY <2>1, <2>2
<1>7. \A t \in Tasks : U[t].pptr = T[t].pptr
  BY <1>6 DEF Relisted
<1>8. ASSUME NEW s \in Tasks
      PROVE  IsInjective(U[s].cptr) /\ Range(U[s].cptr) = {c \in D \ {p} : U[c].pptr = s}
  <2>1. CASE s = q
    BY <1>0, <1>2, <1>4, <1>6, <1>7, <2>1
  <2>2. CASE s # q
    <3>1. IsInjective(T[s].cptr) /\ Range(T[s].cptr) = {c \in D : T[c].pptr = s}
      BY DEF Lists
    <3> QED
      BY <1>0, <1>6, <1>7, <2>2, <3>1
  <2> QED
    BY <2>1, <2>2
<1> QED
  BY <1>6, <1>8 DEF Lists, U

\* SET_LINKS() puts a task into the list of its parent.
LEMMA SetEffect ==
    ASSUME NEW T \in States, NEW D \in SUBSET Tasks, Lists(T, D), NEW p \in Tasks \ D,
           T[p].pptr \in Tasks
    PROVE  Relisted(T, SET_LINKS(T, p)) /\ Lists(SET_LINKS(T, p), D \cup {p})
<1> DEFINE q == T[p].pptr
           l == <<p>> \o T[q].cptr
           U == SET_LINKS(T, p)
<1>1. T[q].cptr \in Seq(Tasks)
  BY DEF States, Structs
<1>2. IsInjective(T[q].cptr) /\ Range(T[q].cptr) = {c \in D : T[c].pptr = q}
  BY DEF Lists
<1>3. p \notin Range(T[q].cptr)
  BY <1>2
<1>4. l \in Seq(Tasks) /\ IsInjective(l) /\ Range(l) = Range(T[q].cptr) \cup {p}
  BY <1>1, <1>2, <1>3, PushList
<1>5. U = [T EXCEPT ![q].cptr = l]
  BY DEF SET_LINKS
<1>0. T \in States /\ q \in Tasks /\ T[p].pptr = q
  OBVIOUS
<1> HIDE DEF l, U, q
<1>6. Relisted(T, U) /\ U[q].cptr = l /\ \A t \in Tasks \ {q} : U[t].cptr = T[t].cptr
  <2> DEFINE E == [T EXCEPT ![q].cptr = l]
  <2>1. Relisted(T, E) /\ E[q].cptr = l /\ \A t \in Tasks \ {q} : E[t].cptr = T[t].cptr
    BY ONLY <1>0, <1>4, Relist
  <2>2. U = E
    BY <1>5
  <2> QED
    BY ONLY <2>1, <2>2
<1>7. \A t \in Tasks : U[t].pptr = T[t].pptr
  BY <1>6 DEF Relisted
<1>8. ASSUME NEW s \in Tasks
      PROVE  IsInjective(U[s].cptr) /\ Range(U[s].cptr) = {c \in D \cup {p} : U[c].pptr = s}
  <2>1. CASE s = q
    BY <1>0, <1>2, <1>4, <1>6, <1>7, <2>1
  <2>2. CASE s # q
    <3>1. IsInjective(T[s].cptr) /\ Range(T[s].cptr) = {c \in D : T[c].pptr = s}
      BY DEF Lists
    <3> QED
      BY <1>0, <1>6, <1>7, <2>2, <3>1
  <2> QED
    BY <2>1, <2>2
<1> QED
  BY <1>6, <1>8 DEF Lists, U

\* p has become a child of q, and the lists say so.
Adopted(T, U, p, q) ==
    /\ U \in States
    /\ Steady(T, U)
    /\ U[p].pptr = q
    /\ \A t \in Tasks \ {p} : U[t].pptr = T[t].pptr
    /\ \A t \in Tasks : /\ U[t].ptrace = T[t].ptrace
                        /\ U[t].state = T[t].state /\ U[t].sigpending = T[t].sigpending

\* Assigning to p_pptr.
LEMMA Repoint ==
    ASSUME NEW T \in States, NEW p \in Tasks, NEW q \in Tasks
    PROVE  /\ Adopted(T, [T EXCEPT ![p].pptr = q], p, q)
           /\ \A t \in Tasks : [T EXCEPT ![p].pptr = q][t].cptr = T[t].cptr
<1> DEFINE r == [T[p] EXCEPT !.pptr = q]
<1> DEFINE U == [T EXCEPT ![p] = r]
<1>0. T[p] \in Structs
  BY DEF States
<1>1. r \in Structs /\ r.pptr = q
  BY <1>0 DEF Structs
<1>2. /\ r.opptr = T[p].opptr /\ r.next = T[p].next /\ r.exit_signal = T[p].exit_signal
      /\ r.pc = T[p].pc /\ r.opt = T[p].opt /\ r.tsk = T[p].tsk /\ r.exiting = T[p].exiting
      /\ r.vfork_done = T[p].vfork_done /\ r.done = T[p].done
      /\ r.cptr = T[p].cptr /\ r.ptrace = T[p].ptrace /\ r.state = T[p].state
      /\ r.sigpending = T[p].sigpending
  BY <1>0 DEF Structs
<1>3. [T EXCEPT ![p].pptr = q] = U
  OBVIOUS
<1> HIDE DEF r
<1>4. U \in States /\ U[p] = r /\ \A t \in Tasks \ {p} : U[t] = T[t]
  BY <1>1, TaskStore
<1> HIDE DEF U
<1>5. Adopted(T, U, p, q)
  BY <1>1, <1>2, <1>4 DEF Adopted, Steady
<1> QED
  BY Zenon, <1>2, <1>3, <1>4, <1>5

\* Moving a task to another parent keeps the lists in order.
LEMMA MoveEffect ==
    ASSUME NEW T \in States, NEW D \in SUBSET Tasks, Lists(T, D), NEW p \in D, T[p].pptr \in Tasks,
           NEW q \in Tasks
    PROVE  Adopted(T, set_pptr(T, p, q), p, q) /\ Lists(set_pptr(T, p, q), D)
<1> DEFINE A == REMOVE_LINKS(T, p)
           B == [A EXCEPT ![p].pptr = q]
           C == SET_LINKS(B, p)
<1>1. Relisted(T, A) /\ Lists(A, D \ {p})
  BY RemoveEffect
<1> HIDE DEF A
<1>2. A \in States
  BY <1>1 DEF Relisted
<1>3. Adopted(A, B, p, q) /\ \A t \in Tasks : B[t].cptr = A[t].cptr
  BY <1>2, Repoint
<1> HIDE DEF B
<1>4. Lists(B, D \ {p})
  BY <1>1, <1>3 DEF Lists, Adopted
<1>5. B \in States /\ B[p].pptr \in Tasks
  BY <1>3 DEF Adopted
<1>6. p \in Tasks \ (D \ {p})
  OBVIOUS
<1>7. Relisted(B, C) /\ Lists(C, (D \ {p}) \cup {p})
  BY <1>4, <1>5, <1>6, SetEffect
<1>8. (D \ {p}) \cup {p} = D
  OBVIOUS
<1> HIDE DEF C
<1>9. Adopted(T, C, p, q)
  BY <1>1, <1>3, <1>7 DEF Relisted, Adopted, Steady
<1>10. set_pptr(T, p, q) = C
  BY DEF set_pptr, A, B, C
<1> QED
  BY <1>7, <1>8, <1>9, <1>10

-----------------------------------------------------------------------------
(* Wakeups                                                                   *)

\* Some tasks asleep in wait4() have been woken, and nothing else has changed.
Woken(T, U) ==
    /\ U \in States
    /\ Steady(T, U)
    /\ \A t \in Tasks : /\ U[t].pptr = T[t].pptr /\ U[t].cptr = T[t].cptr
                        /\ U[t].ptrace = T[t].ptrace
                        /\ \/ U[t].state = T[t].state
                           \/ T[t].state = "interruptible" /\ U[t].state = "running"

\* Nobody in the group of q sleeps.
Roused(T, q) == \A t \in Group(T, q) : T[t].state # "interruptible"

\* Two functions that only wake tasks only wake tasks.
LEMMA WokenTrans ==
    ASSUME NEW T, NEW U, NEW V, Woken(T, U), Woken(U, V)
    PROVE  Woken(T, V)
BY DEF Woken, Steady

\* wake_up_parent() wakes the whole group.
LEMMA WakeParent ==
    ASSUME NEW T \in States, NEW q \in Tasks
    PROVE  /\ Woken(T, wake_up_parent(T, q))
           /\ \A t \in Group(T, q) : wake_up_parent(T, q)[t].state # "interruptible"
<1> DEFINE st(t) == IF t \in Group(T, q) /\ T[t].state = "interruptible"
                    THEN "running" ELSE T[t].state
           r(t) == [T[t] EXCEPT !.state = st(t)]
           U == wake_up_parent(T, q)
<1>1. ASSUME NEW t \in Tasks
      PROVE  /\ U[t] = r(t) /\ U[t] \in Structs
             /\ U[t].state = st(t)
             /\ U[t].opptr = T[t].opptr /\ U[t].next = T[t].next
             /\ U[t].exit_signal = T[t].exit_signal
             /\ U[t].pc = T[t].pc /\ U[t].opt = T[t].opt /\ U[t].tsk = T[t].tsk
             /\ U[t].exiting = T[t].exiting
             /\ U[t].vfork_done = T[t].vfork_done /\ U[t].done = T[t].done
             /\ U[t].pptr = T[t].pptr /\ U[t].cptr = T[t].cptr /\ U[t].ptrace = T[t].ptrace
  <2>0. T[t] \in Structs
    BY DEF States
  <2>1. U[t] = r(t)
    BY DEF wake_up_parent
  <2> HIDE DEF U
  <2>2. st(t) \in {"none", "running", "interruptible", "uninterruptible", "zombie"}
    BY <2>0 DEF Structs
  <2> HIDE DEF st
  <2> QED
    BY <2>0, <2>1, <2>2 DEF Structs
<1>2. U = [t \in Tasks |-> U[t]]
  BY DEF wake_up_parent
<1> HIDE DEF U
<1>3. U \in States
  BY <1>1, <1>2 DEF States
<1>4. Woken(T, U)
  BY Zenon, <1>1, <1>3 DEF Woken, Steady
<1>5. Group(T, q) \subseteq Tasks
  BY InGroup
<1>6. \A t \in Group(T, q) : U[t].state # "interruptible"
  BY ZenonT(40), <1>1, <1>5
<1> QED
  BY <1>4, <1>6 DEF U

\* A signal wakes at most one task.
LEMMA SignalWakes ==
    ASSUME NEW T \in States, NEW t \in Tasks
    PROVE  Woken(T, signal_wake_up(T, t))
<1>1. CASE T[t].pc # "wait4"
  BY <1>1 DEF signal_wake_up, Woken, Steady
<1>2. CASE T[t].pc = "wait4"
  <2> DEFINE st == IF T[t].state = "interruptible" THEN "running" ELSE T[t].state
             r == [T[t] EXCEPT !.sigpending = TRUE, !.state = st]
             U == [T EXCEPT ![t] = r]
  <2>0. T[t] \in Structs
    BY DEF States
  <2>1. st \in {"none", "running", "interruptible", "uninterruptible", "zombie"}
    BY <2>0 DEF Structs
  <2>2. signal_wake_up(T, t) = U
    BY Zenon, <1>2 DEF signal_wake_up
  <2>3. st = T[t].state \/ (T[t].state = "interruptible" /\ st = "running")
    OBVIOUS
  <2> HIDE DEF st
  <2>4. /\ r \in Structs /\ r.state = st
        /\ r.opptr = T[t].opptr /\ r.next = T[t].next /\ r.exit_signal = T[t].exit_signal
        /\ r.pc = T[t].pc /\ r.opt = T[t].opt /\ r.tsk = T[t].tsk /\ r.exiting = T[t].exiting
        /\ r.vfork_done = T[t].vfork_done /\ r.done = T[t].done
        /\ r.pptr = T[t].pptr /\ r.cptr = T[t].cptr /\ r.ptrace = T[t].ptrace
    BY Zenon, <2>0, <2>1 DEF Structs
  <2> HIDE DEF r
  <2>5. U \in States /\ U[t] = r /\ \A q \in Tasks \ {t} : U[q] = T[q]
    BY <2>4, TaskStore
  <2> HIDE DEF U
  <2> QED
    BY <2>2, <2>3, <2>4, <2>5 DEF Woken, Steady
<1> QED
  BY <1>1, <1>2

\* The same links of threads make the same groups.
LEMMA SameGroups ==
    ASSUME NEW T \in States, NEW U \in States, \A t \in Tasks : U[t].next = T[t].next,
           NEW q \in Tasks
    PROVE  threads(U, q) = threads(T, q) /\ Group(U, q) = Group(T, q)
<1> DEFINE N == Cardinality(Tasks)
<1> DEFINE f == threads(T, q)
<1> DEFINE g == threads(U, q)
<1>0. N \in Nat
  BY Count
<1>1. f \in [0 .. N -> Tasks] /\ f[0] = q /\ \A i \in 1 .. N : f[i] = T[f[i - 1]].next
  BY Thread
<1>2. g \in [0 .. N -> Tasks] /\ g[0] = q /\ \A i \in 1 .. N : g[i] = U[g[i - 1]].next
  BY Thread
<1> HIDE DEF f, g, N
<1> DEFINE Bad == {i \in 0 .. N : f[i] # g[i]}
<1>3. Bad = {}
  <2> SUFFICES ASSUME Bad # {} PROVE FALSE
    OBVIOUS
  <2>1. PICK i \in Bad : \A j \in Bad : i <= j
    <3>1. Bad \in SUBSET Nat
      BY <1>0
    <3> HIDE DEF Bad
    <3> QED
      BY <3>1, LeastNumber
  <2>2. i \in 1 .. N /\ i - 1 \in 0 .. N /\ ~(i <= i - 1)
    BY <1>0, <1>1, <1>2
  <2>3. f[i - 1] = g[i - 1] /\ f[i - 1] \in Tasks
    BY <1>1, <2>1, <2>2
  <2> QED
    BY <1>1, <1>2, <2>2, <2>3
<1>4. f = g
  <2>1. \A i \in 0 .. N : f[i] = g[i]
    BY <1>3
  <2>2. f = [i \in 0 .. N |-> f[i]] /\ g = [i \in 0 .. N |-> g[i]]
    BY <1>1, <1>2
  <2> QED
    BY <2>1, <2>2
<1> QED
  BY <1>4 DEF f, g, Group

\* do_notify_parent() wakes the group of the parent.
LEMMA NotifyEffect ==
    ASSUME NEW T \in States, NEW p \in Tasks, T[p].pptr \in Tasks
    PROVE  /\ Woken(T, do_notify_parent(T, p))
           /\ Roused(do_notify_parent(T, p), T[p].pptr)
<1> DEFINE q == T[p].pptr
           S == IF q \in Catchers THEN signal_wake_up(T, q) ELSE T
           U == wake_up_parent(S, q)
<1>1. Woken(T, T)
  BY DEF Woken, Steady
<1>2. Woken(T, S)
  BY <1>1, SignalWakes
<1> HIDE DEF S
<1>3. S \in States
  BY <1>2 DEF Woken
<1>4. Woken(S, U) /\ \A t \in Group(S, q) : U[t].state # "interruptible"
  BY <1>3, WakeParent
<1> HIDE DEF U
<1>5. U \in States /\ \A t \in Tasks : U[t].next = S[t].next
  BY <1>4 DEF Woken, Steady
<1>6. Group(U, q) = Group(S, q)
  BY <1>3, <1>5, SameGroups
<1>7. Woken(T, U) /\ Roused(U, q)
  BY <1>2, <1>4, <1>6, WokenTrans DEF Roused
<1> QED
  BY <1>7 DEF do_notify_parent, U, S

-----------------------------------------------------------------------------
(* The exit of a process                                                     *)

\* The threads of a task that is in use are in use.
LEMMA GroupLive ==
    ASSUME NEW T, Family(T), NEW t \in Live(T)
    PROVE  Group(T, t) \subseteq Live(T)
<1>1. T \in States /\ Rings(T) /\ Phases(T)
  BY DEF Family
<1>2. ASSUME NEW q \in Live(T) PROVE T[q].next \in Live(T)
  <2> DEFINE s == T[q].next
  <2>1. q \in Tasks /\ s \in Tasks
    BY <1>1 DEF Live, States, Structs
  <2>2. ASSUME T[s].state = "none" PROVE FALSE
    <3>1. T[s].next = s
      BY <1>1, <2>1, <2>2 DEF Phases, Blank
    <3>2. s = q
      BY <1>1, <2>1, <3>1 DEF Rings
    <3> QED
      BY <2>2, <3>2 DEF Live
  <2> QED
    BY <2>1, <2>2 DEF Live
<1>3. t \in Tasks
  BY DEF Live
<1> QED
  BY <1>1, <1>2, <1>3, GroupLeast

\* The new parent of the children of an exiting task is alive.
LEMMA Reaper ==
    ASSUME NEW T, Family(T), NEW p \in Live(T), T[p].exiting
    PROVE  /\ reaper_of(T, p) \in Live(T) \ {p} /\ ~T[reaper_of(T, p)].exiting
           /\ child_reaper \in Live(T) \ {p} /\ ~T[child_reaper].exiting
<1> DEFINE N == Cardinality(Tasks)
           f == threads(T, p)
           L == {i \in 1 .. N : ~T[f[i]].exiting}
<1>0. N \in Nat
  BY Count
<1>1. T \in States /\ Phases(T) /\ p \in Tasks /\ child_reaper \in Tasks
  BY TreeAssumption DEF Family, Live
<1>2. child_reaper \in Live(T) \ {p} /\ ~T[child_reaper].exiting
  <2>1. T[child_reaper].state # "none" /\ T[child_reaper].pc # "exit"
    BY <1>1 DEF Phases
  <2>2. T[child_reaper].exiting <=> T[child_reaper].pc = "exit"
    BY <1>1 DEF Phases
  <2> QED
    BY <1>1, <2>1, <2>2 DEF Live
<1>3. reaper_of(T, p) = IF L = {} THEN child_reaper ELSE f[Min(L)]
  BY DEF reaper_of
<1>4. CASE L = {}
  BY <1>2, <1>3, <1>4
<1>5. CASE L # {}
  <2>1. L \in SUBSET Nat
    BY <1>0
  <2>2. Min(L) \in L
    BY <1>5, <2>1, MinLeast
  <2>3. Min(L) \in 0 .. N /\ ~T[f[Min(L)]].exiting
    BY <1>0, <2>2
  <2>4. f[Min(L)] \in Group(T, p)
    BY <1>1, <2>3, InGroup
  <2>5. f[Min(L)] \in Live(T)
    BY <2>4, GroupLive
  <2> QED
    BY Zenon, <1>2, <1>3, <1>5, <2>3, <2>5
<1> QED
  BY <1>4, <1>5

\* The original children of p have another original parent, which is not exiting.
Bequeathed(T, V, p) ==
    /\ \A t \in Tasks :
        /\ T[t].opptr = p => /\ V[t].opptr \in Live(T) \ {t, p} /\ ~T[V[t].opptr].exiting
                             /\ V[t].exit_signal = "SIGCHLD"
        /\ T[t].opptr # p => /\ V[t].opptr = T[t].opptr
                             /\ t # p => V[t].exit_signal = T[t].exit_signal
    /\ V[p].exit_signal \in {"SIGCHLD", T[p].exit_signal}

\* What an exit leaves alone.
Unmoved(T, U) ==
    \A t \in Tasks : /\ U[t].next = T[t].next /\ U[t].pc = T[t].pc /\ U[t].opt = T[t].opt
                     /\ U[t].tsk = T[t].tsk /\ U[t].exiting = T[t].exiting
                     /\ U[t].vfork_done = T[t].vfork_done /\ U[t].done = T[t].done

\* The state in which the exiting process calls do_notify_parent().
Dying(T, V, p) ==
    /\ V \in States
    /\ Unmoved(T, V)
    /\ Bequeathed(T, V, p)
    /\ V[p].state = "zombie"
    /\ \A t \in Tasks \ {p} : V[t].state = T[t].state
    /\ \A t \in Tasks : V[t].pptr = T[t].pptr /\ V[t].cptr = T[t].cptr

\* exit_notify() before its loop: the children get new original parents, and the caller is dead.
LEMMA DyingEffect ==
    ASSUME NEW T, Family(T), NEW p \in Live(T), T[p].exiting,
           NEW sig \in {"SIGCHLD", T[p].exit_signal}
    PROVE  Dying(T, [forget_original_parent(T, p) EXCEPT ![p].state = "zombie",
                                                         ![p].exit_signal = sig], p)
<1> DEFINE F == forget_original_parent(T, p)
           r == reaper_of(T, p)
           up(t) == IF t = r THEN child_reaper ELSE r
           g(t) == [T[t] EXCEPT !.exit_signal = "SIGCHLD", !.opptr = up(t)]
           z == [F[p] EXCEPT !.state = "zombie", !.exit_signal = sig]
           V == [F EXCEPT ![p] = z]
<1>0. T \in States /\ p \in Tasks /\ child_reaper \in Tasks /\ NoGrandparent(T) /\ Parents(T) /\ Phases(T)
  BY TreeAssumption DEF Family, Live
<1>1. r \in Live(T) \ {p} /\ ~T[r].exiting /\ child_reaper \in Live(T) \ {p} /\ ~T[child_reaper].exiting
  BY Reaper
<1> HIDE DEF r
<1>2. ASSUME NEW t \in Tasks, T[t].opptr = p
      PROVE  up(t) \in Live(T) \ {t, p} /\ ~T[up(t)].exiting
  <2>1. t # child_reaper
    BY <1>0, <1>2, TreeAssumption DEF NoGrandparent
  <2> QED
    BY <1>1, <2>1
<1>3. \A t \in Tasks : F[t] = IF T[t].opptr # p THEN T[t] ELSE g(t)
  BY DEF forget_original_parent, r
<1>4. F = [t \in Tasks |-> F[t]]
  BY DEF forget_original_parent
<1> HIDE DEF F
<1>5. ASSUME NEW t \in Tasks, T[t].opptr = p
      PROVE  /\ g(t) \in Structs /\ g(t).opptr = up(t) /\ g(t).exit_signal = "SIGCHLD"
             /\ g(t).next = T[t].next /\ g(t).pc = T[t].pc /\ g(t).opt = T[t].opt
             /\ g(t).tsk = T[t].tsk /\ g(t).exiting = T[t].exiting
             /\ g(t).vfork_done = T[t].vfork_done /\ g(t).done = T[t].done
             /\ g(t).state = T[t].state /\ g(t).pptr = T[t].pptr /\ g(t).cptr = T[t].cptr
  <2>1. T[t] \in Structs /\ up(t) \in Tasks
    BY <1>0, <1>2, <1>5 DEF States, Live
  <2> HIDE DEF up
  <2> QED
    BY Zenon, <2>1 DEF Structs
<1>6. F \in States
  <2>1. \A t \in Tasks : F[t] \in Structs
    BY Zenon, <1>0, <1>3, <1>5 DEF States
  <2> QED
    BY <1>4, <2>1 DEF States
<1>7. T[p].opptr # p
  <2>1. p # child_reaper
    BY <1>1
  <2> QED
    BY <1>0, <2>1 DEF Parents
<1>8. F[p] = T[p]
  BY Zenon, <1>0, <1>3, <1>7
<1>9. T[p] \in Structs /\ sig \in {"SIGCHLD", "other"}
  BY <1>0 DEF States, Structs
<1>10. /\ z \in Structs /\ z.state = "zombie" /\ z.exit_signal = sig /\ z.opptr = T[p].opptr
       /\ z.next = T[p].next /\ z.pc = T[p].pc /\ z.opt = T[p].opt
       /\ z.tsk = T[p].tsk /\ z.exiting = T[p].exiting
       /\ z.vfork_done = T[p].vfork_done /\ z.done = T[p].done
       /\ z.pptr = T[p].pptr /\ z.cptr = T[p].cptr
  BY Zenon, <1>8, <1>9 DEF Structs
<1>11. [F EXCEPT ![p].state = "zombie", ![p].exit_signal = sig] = V
  BY Zenon, <1>0, <1>6 DEF States
<1> HIDE DEF z
<1>12. V \in States /\ V[p] = z /\ \A t \in Tasks \ {p} : V[t] = F[t]
  BY <1>0, <1>6, <1>10, TaskStore
<1> HIDE DEF V, g, up
<1>13. Unmoved(T, V)
  <2> SUFFICES ASSUME NEW t \in Tasks
               PROVE  /\ V[t].next = T[t].next /\ V[t].pc = T[t].pc /\ V[t].opt = T[t].opt
                      /\ V[t].tsk = T[t].tsk /\ V[t].exiting = T[t].exiting
                      /\ V[t].vfork_done = T[t].vfork_done /\ V[t].done = T[t].done
    BY DEF Unmoved
  <2>1. CASE t = p
    BY Zenon, <1>10, <1>12, <2>1
  <2>2. CASE t # p /\ T[t].opptr = p
    <3>1. V[t] = g(t)
      BY <1>3, <1>12, <2>2
    <3> QED
      BY <1>5, <2>2, <3>1
  <2>3. CASE t # p /\ T[t].opptr # p
    BY <1>3, <1>12, <2>3
  <2> QED
    BY <2>1, <2>2, <2>3
<1>14. Bequeathed(T, V, p)
  <2>1. ASSUME NEW t \in Tasks, T[t].opptr = p
        PROVE  /\ V[t].opptr \in Live(T) \ {t, p} /\ ~T[V[t].opptr].exiting
               /\ V[t].exit_signal = "SIGCHLD"
    <3>1. t # p
      BY <1>7, <2>1
    <3>2. V[t] = g(t)
      BY <1>3, <1>12, <2>1, <3>1
    <3> QED
      BY <1>2, <1>5, <2>1, <3>2
  <2>2. ASSUME NEW t \in Tasks, T[t].opptr # p
        PROVE  V[t].opptr = T[t].opptr /\ (t # p => V[t].exit_signal = T[t].exit_signal)
    BY <1>3, <1>10, <1>12, <2>2
  <2>3. V[p].exit_signal \in {"SIGCHLD", T[p].exit_signal}
    BY <1>10, <1>12
  <2> QED
    BY <2>1, <2>2, <2>3 DEF Bequeathed
<1>15. \A t \in Tasks \ {p} : V[t].state = T[t].state
  BY <1>3, <1>5, <1>12
<1>16. \A t \in Tasks : V[t].pptr = T[t].pptr /\ V[t].cptr = T[t].cptr
  BY <1>3, <1>5, <1>10, <1>12
<1>17. V[p].state = "zombie"
  BY <1>10, <1>12
<1>18. V \in States
  BY <1>12
<1>19. Dying(T, V, p)
  BY ONLY <1>13, <1>14, <1>15, <1>16, <1>17, <1>18 DEF Dying
<1> QED
  BY ONLY Zenon, <1>11, <1>19 DEF F

\* Only the mark of a tracer has changed.
LEMMA Retrace ==
    ASSUME NEW T \in States, NEW p \in Tasks, NEW b \in BOOLEAN
    PROVE  /\ [T EXCEPT ![p].ptrace = b] \in States
           /\ Steady(T, [T EXCEPT ![p].ptrace = b])
           /\ \A t \in Tasks : /\ [T EXCEPT ![p].ptrace = b][t].pptr = T[t].pptr
                               /\ [T EXCEPT ![p].ptrace = b][t].cptr = T[t].cptr
                               /\ [T EXCEPT ![p].ptrace = b][t].state = T[t].state
<1> DEFINE r == [T[p] EXCEPT !.ptrace = b]
<1> DEFINE U == [T EXCEPT ![p] = r]
<1>0. T[p] \in Structs
  BY DEF States
<1>1. /\ r \in Structs
      /\ r.opptr = T[p].opptr /\ r.next = T[p].next /\ r.exit_signal = T[p].exit_signal
      /\ r.pc = T[p].pc /\ r.opt = T[p].opt /\ r.tsk = T[p].tsk /\ r.exiting = T[p].exiting
      /\ r.vfork_done = T[p].vfork_done /\ r.done = T[p].done
      /\ r.pptr = T[p].pptr /\ r.cptr = T[p].cptr /\ r.state = T[p].state
  BY <1>0 DEF Structs
<1>2. [T EXCEPT ![p].ptrace = b] = U
  OBVIOUS
<1> HIDE DEF r
<1>3. U \in States /\ U[p] = r /\ \A t \in Tasks \ {p} : U[t] = T[t]
  BY <1>1, TaskStore
<1> HIDE DEF U
<1> QED
  BY Zenon, <1>1, <1>2, <1>3 DEF Steady

\* Tasks have at most been woken.
Calmed(T, U) ==
    \A t \in Tasks : \/ U[t].state = T[t].state
                     \/ T[t].state = "interruptible" /\ U[t].state = "running"

\* Who does not sleep in wait4() is not put to sleep by the others.
LEMMA RousedKept ==
    ASSUME NEW T \in States, NEW U \in States, \A t \in Tasks : U[t].next = T[t].next,
           Calmed(T, U), NEW q \in Tasks, Roused(T, q)
    PROVE  Roused(U, q)
<1>1. Group(U, q) = Group(T, q) /\ Group(T, q) \subseteq Tasks
  BY SameGroups, InGroup
<1> QED
  BY <1>1 DEF Roused, Calmed

\* The first i children of the list l have been given to their original parents.
Stage(W, X, D, l, i) ==
    /\ X \in States
    /\ Steady(W, X)
    /\ Calmed(W, X)
    /\ Lists(X, D)
    /\ \A j \in 1 .. i : X[l[j]].pptr = W[l[j]].opptr
    /\ \A t \in Tasks : (\A j \in 1 .. i : t # l[j]) => X[t].pptr = W[t].pptr
    /\ \A j \in 1 .. i : W[l[j]].state = "zombie" => Roused(X, W[l[j]].opptr)

\* A round of the loop in exit_notify().
LEMMA StageStep ==
    ASSUME NEW W \in States, NEW D \in SUBSET Tasks, NEW p \in Tasks,
           NEW l \in Seq(D), IsInjective(l),
           \A c \in Range(l) : W[c].pptr = p /\ W[c].opptr \in Tasks,
           NEW i \in 1 .. Len(l), NEW X, Stage(W, X, D, l, i - 1)
    PROVE  Stage(W, reparent_child(X, l[i]), D, l, i)
<1> DEFINE c == l[i]
           q == X[c].opptr
           A == [X EXCEPT ![c].ptrace = FALSE]
           B == set_pptr(A, c, q)
           C == IF X[c].state = "zombie" THEN do_notify_parent(B, c) ELSE B
<1>0. Len(l) \in Nat /\ DOMAIN l = 1 .. Len(l) /\ i \in Nat /\ i - 1 \in Nat /\ 1 .. i = (1 .. i - 1) \cup {i}
  OBVIOUS
<1>1. /\ X \in States /\ Steady(W, X) /\ Calmed(W, X) /\ Lists(X, D)
      /\ \A j \in 1 .. i - 1 : X[l[j]].pptr = W[l[j]].opptr
      /\ \A t \in Tasks : (\A j \in 1 .. i - 1 : t # l[j]) => X[t].pptr = W[t].pptr
      /\ \A j \in 1 .. i - 1 : W[l[j]].state = "zombie" => Roused(X, W[l[j]].opptr)
  BY DEF Stage
<1>2. c \in D /\ c \in Range(l) /\ c \in Tasks
  BY <1>0 DEF Range
<1>3. \A j \in 1 .. i - 1 : j \in DOMAIN l /\ l[j] # c /\ l[j] \in Tasks /\ l[j] \in Range(l)
  BY <1>0 DEF IsInjective, Range
<1>4. X[c].pptr = p
  BY <1>1, <1>2, <1>3
<1>5. q = W[c].opptr /\ q \in Tasks
  BY <1>1, <1>2 DEF Steady
<1> HIDE DEF q, c
<1>6. /\ A \in States /\ Steady(X, A)
      /\ \A t \in Tasks : A[t].pptr = X[t].pptr /\ A[t].cptr = X[t].cptr /\ A[t].state = X[t].state
  <2> DEFINE b == FALSE
  <2>1. X \in States /\ c \in Tasks /\ b \in BOOLEAN
    BY <1>1, <1>2
  <2> DEFINE E == [X EXCEPT ![c].ptrace = b]
  <2>2. A = E
    OBVIOUS
  <2> HIDE DEF A, b
  <2>3. /\ E \in States /\ Steady(X, E)
        /\ \A t \in Tasks : E[t].pptr = X[t].pptr /\ E[t].cptr = X[t].cptr /\ E[t].state = X[t].state
    BY ONLY <2>1, Retrace
  <2> HIDE DEF E
  <2> QED
    BY ONLY <2>2, <2>3
<1> HIDE DEF A
<1>7. Lists(A, D)
  BY <1>1, <1>6 DEF Lists
<1>8. Adopted(A, B, c, q) /\ Lists(B, D)
  BY <1>2, <1>4, <1>5, <1>6, <1>7, MoveEffect
<1> HIDE DEF B
<1>9. B \in States /\ B[c].pptr = q /\ Steady(A, B)
      /\ (\A t \in Tasks \ {c} : B[t].pptr = A[t].pptr) /\ \A t \in Tasks : B[t].state = A[t].state
  BY <1>8 DEF Adopted
<1>10. /\ C \in States /\ Steady(B, C) /\ Calmed(B, C)
       /\ \A t \in Tasks : C[t].pptr = B[t].pptr /\ C[t].cptr = B[t].cptr
       /\ X[c].state = "zombie" => Roused(C, q)
  <2>1. CASE X[c].state = "zombie"
    <3>1. Woken(B, C) /\ Roused(C, q)
      BY <1>2, <1>5, <1>9, <2>1, NotifyEffect
    <3> HIDE DEF C
    <3> QED
      BY <3>1 DEF Woken, Calmed
  <2>2. CASE X[c].state # "zombie"
    BY <1>9, <2>2 DEF Steady, Calmed
  <2> QED
    BY <2>1, <2>2
<1>11. reparent_child(X, c) = C
  BY DEF reparent_child, A, B, C, q
<1> HIDE DEF C
<1>12. Steady(X, C) /\ Steady(W, C)
  <2>1. Steady(W, X) /\ Steady(X, A) /\ Steady(A, B) /\ Steady(B, C)
    BY Zenon, <1>1, <1>6, <1>9, <1>10
  <2>2. Steady(X, B)
    BY ONLY Zenon, <2>1, SteadyTrans
  <2>3. Steady(X, C)
    BY ONLY Zenon, <2>1, <2>2, SteadyTrans
  <2> QED
    BY ONLY Zenon, <2>1, <2>3, SteadyTrans
<1>13. Calmed(X, C)
  BY <1>6, <1>9, <1>10 DEF Calmed
<1>14. Calmed(W, C)
  BY <1>1, <1>13 DEF Calmed
<1>15. Lists(C, D)
  BY <1>8, <1>10 DEF Lists
<1>16. \A t \in Tasks \ {c} : C[t].pptr = X[t].pptr
  BY <1>6, <1>9, <1>10
<1>17. C[c].pptr = q
  BY <1>2, <1>9, <1>10
<1>18. ASSUME NEW j \in 1 .. i PROVE C[l[j]].pptr = W[l[j]].opptr
  <2>1. CASE j = i
    BY <1>5, <1>17, <2>1 DEF c
  <2>2. CASE j \in 1 .. i - 1
    BY <1>1, <1>3, <1>16, <2>2
  <2> QED
    BY <1>0, <2>1, <2>2
<1>19. ASSUME NEW t \in Tasks, \A j \in 1 .. i : t # l[j] PROVE C[t].pptr = W[t].pptr
  BY <1>0, <1>1, <1>16, <1>19 DEF c
<1>20. ASSUME NEW j \in 1 .. i, W[l[j]].state = "zombie" PROVE Roused(C, W[l[j]].opptr)
  <2>1. CASE j = i
    <3>1. X[c].state = "zombie"
      BY <1>1, <1>2, <1>20, <2>1 DEF Calmed, c
    <3> QED
      BY <1>5, <1>10, <2>1, <3>1 DEF c
  <2>2. CASE j \in 1 .. i - 1
    <3>1. Roused(X, W[l[j]].opptr) /\ W[l[j]].opptr \in Tasks
      BY <1>1, <1>3, <1>20, <2>2
    <3>2. \A t \in Tasks : C[t].next = X[t].next
      BY <1>12 DEF Steady
    <3> QED
      BY <1>1, <1>10, <1>13, <3>1, <3>2, RousedKept
  <2> QED
    BY <1>0, <2>1, <2>2
<1> QED
  BY <1>10, <1>11, <1>12, <1>14, <1>15, <1>18, <1>19, <1>20 DEF Stage, c

\* The loop of exit_notify() can be followed to every length.
Looped(f, W, l, n) ==
    f = [i \in 0 .. n |-> IF i = 0 THEN W ELSE reparent_child(f[i - 1], l[i])]

\* A loop of n rounds over the children, as a function of the round, exists.
LEMMA LoopExists ==
    ASSUME NEW W, NEW l, NEW n \in Nat
    PROVE  \E f : Looped(f, W, l, n)
<1> DEFINE Has(m) == \E f : Looped(f, W, l, m)
<1> DEFINE Bad == {m \in Nat : ~Has(m)}
<1> SUFFICES ASSUME Bad # {} PROVE FALSE
  OBVIOUS
<1>1. PICK m \in Bad : \A j \in Bad : m <= j
  BY Zenon, LeastNumber
<1>2. Has(0)
  <2> DEFINE f == [i \in 0 .. 0 |-> W]
  <2>1. f = [i \in 0 .. 0 |-> IF i = 0 THEN W ELSE reparent_child(f[i - 1], l[i])]
    OBVIOUS
  <2> HIDE DEF f
  <2> QED
    BY <2>1 DEF Looped
<1> HIDE DEF Has
<1>3. m # 0 /\ m - 1 \in Nat
  BY <1>1, <1>2
<1>4. Has(m - 1)
  BY <1>1, <1>3
<1>5. PICK f : f = [i \in 0 .. m - 1 |-> IF i = 0 THEN W ELSE reparent_child(f[i - 1], l[i])]
  BY <1>4 DEF Has, Looped
<1> DEFINE g == [i \in 0 .. m |-> IF i < m THEN f[i] ELSE reparent_child(f[m - 1], l[m])]
<1>6. \A i \in 0 .. m : g[i] = IF i = 0 THEN W ELSE reparent_child(g[i - 1], l[i])
  <2> SUFFICES ASSUME NEW i \in 0 .. m
               PROVE  g[i] = IF i = 0 THEN W ELSE reparent_child(g[i - 1], l[i])
    OBVIOUS
  <2>1. CASE i < m
    <3>1. i \in 0 .. m - 1
      BY <2>1, <1>3
    <3>2. f[i] = IF i = 0 THEN W ELSE reparent_child(f[i - 1], l[i])
      BY <3>1, <1>5
    <3>3. i # 0 => i - 1 \in 0 .. m /\ i - 1 < m
      BY <3>1, <1>3
    <3> QED
      BY <2>1, <3>2, <3>3
  <2>2. CASE i = m
    <3>1. m - 1 \in 0 .. m /\ m - 1 < m /\ ~(m < m)
      BY <1>3
    <3> QED
      BY <2>2, <3>1, <1>3
  <2> QED
    BY <2>1, <2>2
<1>7. g = [i \in 0 .. m |-> IF i = 0 THEN W ELSE reparent_child(g[i - 1], l[i])]
  BY <1>6, Zenon
<1> HIDE DEF g
<1>8. Has(m)
  BY <1>7 DEF Has, Looped
<1> QED
  BY <1>1, <1>8

\* The loop ends with all children given away.
LEMMA LoopEnd ==
    ASSUME NEW W \in States, NEW D \in SUBSET Tasks, Lists(W, D), NEW p \in Tasks,
           NEW l \in Seq(D), IsInjective(l),
           \A c \in Range(l) : W[c].pptr = p /\ W[c].opptr \in Tasks,
           NEW f, Looped(f, W, l, Len(l))
    PROVE  Stage(W, f[Len(l)], D, l, Len(l))
<1> DEFINE n == Len(l)
<1>0. n \in Nat /\ f = [i \in 0 .. n |-> IF i = 0 THEN W ELSE reparent_child(f[i - 1], l[i])]
  BY DEF Looped
<1>1. f[0] = W
  BY <1>0
<1>2. ASSUME NEW i \in 1 .. n PROVE f[i] = reparent_child(f[i - 1], l[i])
  <2>1. i \in 0 .. n /\ i # 0
    BY <1>0
  <2> QED
    BY <1>0, <2>1
<1>3. Stage(W, W, D, l, 0)
  <2>1. 1 .. 0 = {}
    OBVIOUS
  <2> QED
    BY <2>1 DEF Stage, Steady, Calmed
<1> HIDE DEF n
<1> DEFINE Bad == {i \in 0 .. n : ~Stage(W, f[i], D, l, i)}
<1>4. Bad = {}
  <2> SUFFICES ASSUME Bad # {} PROVE FALSE
    OBVIOUS
  <2>1. PICK i \in Bad : \A j \in Bad : i <= j
    <3>1. Bad \in SUBSET Nat
      BY <1>0
    <3> HIDE DEF Bad
    <3> QED
      BY Zenon, <3>1, LeastNumber
  <2>2. i # 0
    BY <1>1, <1>3
  <2>3. i \in 1 .. n /\ i - 1 \in 0 .. n /\ ~(i <= i - 1)
    BY <1>0, <2>2
  <2>4. Stage(W, f[i - 1], D, l, i - 1)
    BY <2>1, <2>3
  <2>5. Stage(W, reparent_child(f[i - 1], l[i]), D, l, i)
    BY <2>3, <2>4, StageStep DEF n
  <2>6. Stage(W, f[i], D, l, i)
    BY <1>2, <2>3, <2>5
  <2> QED
    BY <2>6
<1>5. n \in 0 .. n
  BY <1>0
<1>6. Stage(W, f[n], D, l, n)
  BY <1>4, <1>5
<1> QED
  BY <1>6 DEF n

\* What exit_notify() does to the tasks.
Exited(T, Z, p) ==
    /\ Z \in States
    /\ Unmoved(T, Z)
    /\ Bequeathed(T, Z, p)
    /\ Z[p].state = "zombie"
    /\ \A t \in Tasks \ {p} : \/ Z[t].state = T[t].state
                              \/ T[t].state = "interruptible" /\ Z[t].state = "running"
    /\ \A t \in Tasks : Z[t].pptr = IF T[t].pptr = p THEN Z[t].opptr ELSE T[t].pptr
    /\ Lists(Z, Live(T))
    /\ \A t \in Live(T) : Z[t].state = "zombie" /\ (t = p \/ T[t].pptr = p) => Roused(Z, Z[t].pptr)

\* The loop of exit_notify() gives every child to its original parent and leaves the list empty.
LEMMA ExitEffect ==
    ASSUME NEW T, Family(T), NEW p \in Live(T), T[p].exiting, T[p].state = "running",
           NEW sig \in {"SIGCHLD", T[p].exit_signal}
    PROVE  Exited(T, exit_notify(T, p, sig), p)
<1> DEFINE V == [forget_original_parent(T, p) EXCEPT ![p].state = "zombie", ![p].exit_signal = sig]
           W == do_notify_parent(V, p)
           D == Live(T)
           l == V[p].cptr
           Z == exit_notify(T, p, sig)
<1>0. /\ T \in States /\ Lists(T, D) /\ Parents(T) /\ Phases(T) /\ NoGrandparent(T)
      /\ p \in Tasks /\ D \subseteq Tasks /\ child_reaper \in Tasks
  BY TreeAssumption DEF Family, Live
<1>1. Dying(T, V, p)
  BY Zenon, DyingEffect
<1> DEFINE L(f) == [i \in 0 .. Len(l) |-> IF i = 0 THEN W ELSE reparent_child(f[i - 1], l[i])]
           after == CHOOSE f : f = L(f)
<1>2. Z = after[Len(l)]
  BY DEF exit_notify
<1> HIDE DEF V, W
<1>3. /\ V \in States /\ Unmoved(T, V) /\ Bequeathed(T, V, p)
      /\ V[p].state = "zombie" /\ \A t \in Tasks \ {p} : V[t].state = T[t].state
      /\ \A t \in Tasks : V[t].pptr = T[t].pptr /\ V[t].cptr = T[t].cptr
  BY <1>1 DEF Dying
<1>4. p # child_reaper
  BY Reaper
<1>5. T[p].pptr \in Tasks /\ T[p].pptr # p
  BY <1>0, <1>4 DEF Parents, Live
<1>6. Woken(V, W) /\ Roused(W, T[p].pptr)
  <2>1. V[p].pptr = T[p].pptr
    BY <1>0, <1>3
  <2> QED
    BY <1>0, <1>3, <1>5, <2>1, NotifyEffect DEF W
<1>7. /\ W \in States /\ Steady(V, W) /\ Calmed(V, W)
      /\ \A t \in Tasks : W[t].pptr = V[t].pptr /\ W[t].cptr = V[t].cptr
  BY <1>6 DEF Woken, Calmed
<1>8. Lists(V, D)
  BY <1>0, <1>3 DEF Lists
<1>9. Lists(W, D)
  BY ONLY <1>0, <1>7, <1>8 DEF Lists
<1>10. IsInjective(l) /\ Range(l) = {c \in D : T[c].pptr = p}
  BY <1>0, <1>3 DEF Lists
<1>11. l \in Seq(D)
  <2>1. l \in Seq(Tasks)
    BY <1>0, <1>3 DEF States, Structs
  <2>2. Len(l) \in Nat /\ DOMAIN l = 1 .. Len(l)
    BY ONLY <2>1
  <2>3. \A i \in 1 .. Len(l) : l[i] \in D
    BY <1>10, <2>2 DEF Range
  <2> HIDE DEF l
  <2> QED
    BY ONLY <2>1, <2>2, <2>3
<1>12. ASSUME NEW c \in D, T[c].pptr = p
       PROVE  W[c].pptr = p /\ W[c].opptr \in Tasks /\ W[c].opptr = V[c].opptr
  <2>1. c \in Tasks /\ c # child_reaper
    BY <1>0, <1>12, TreeAssumption DEF NoGrandparent
  <2>2. T[c].opptr \in Tasks
    BY <1>0, <1>12, <2>1 DEF Parents, Live
  <2>3. V[c].opptr \in Tasks
    BY <1>0, <1>3, <2>1, <2>2 DEF Bequeathed
  <2> QED
    BY <1>3, <1>7, <1>12, <2>1, <2>3 DEF Steady
<1>13. \A c \in Range(l) : W[c].pptr = p /\ W[c].opptr \in Tasks
  BY <1>10, <1>12
<1>14. Len(l) \in Nat /\ DOMAIN l = 1 .. Len(l)
  BY <1>11
<1> HIDE DEF l
<1>15. \E f : Looped(f, W, l, Len(l))
  BY ONLY <1>14, LoopExists
<1>16. Looped(after, W, l, Len(l))
  BY ONLY Zenon, <1>15 DEF Looped
<1> HIDE DEF after
<1>17. Stage(W, Z, D, l, Len(l))
  BY <1>0, <1>2, <1>7, <1>9, <1>10, <1>11, <1>13, <1>16, LoopEnd
<1> HIDE DEF Z
<1>18. /\ Z \in States /\ Steady(W, Z) /\ Calmed(W, Z) /\ Lists(Z, D)
       /\ \A j \in 1 .. Len(l) : Z[l[j]].pptr = W[l[j]].opptr
       /\ \A t \in Tasks : (\A j \in 1 .. Len(l) : t # l[j]) => Z[t].pptr = W[t].pptr
       /\ \A j \in 1 .. Len(l) : W[l[j]].state = "zombie" => Roused(Z, W[l[j]].opptr)
  BY <1>17 DEF Stage
<1>19. Steady(V, Z)
  BY <1>7, <1>18 DEF Steady
<1>20. Unmoved(T, Z)
  BY <1>3, <1>19 DEF Unmoved, Steady
<1>21. Bequeathed(T, Z, p)
  BY <1>0, <1>3, <1>19 DEF Bequeathed, Steady
<1>22. \A t \in Tasks : (Z[t].state = V[t].state) \/ (V[t].state = "interruptible" /\ Z[t].state = "running")
  BY <1>7, <1>18 DEF Calmed
<1>23. /\ Z[p].state = "zombie"
       /\ \A t \in Tasks \ {p} : \/ Z[t].state = T[t].state
                                 \/ T[t].state = "interruptible" /\ Z[t].state = "running"
  BY <1>0, <1>3, <1>22
<1>24. ASSUME NEW t \in Tasks, T[t].pptr = p
       PROVE  /\ t \in Range(l) /\ Z[t].pptr = Z[t].opptr
              /\ Z[t].state = "zombie" => Roused(Z, Z[t].pptr)
  <2>1. t \in D
    <3>1. ASSUME T[t].state = "none" PROVE FALSE
      <4>1. T[t].pptr = NULL
        BY <1>0, <3>1 DEF Phases, Blank
      <4> QED
        BY <1>0, <1>24, <4>1, TreeAssumption
    <3> QED
      BY <3>1 DEF Live
  <2>2. t \in Range(l)
    BY <1>10, <1>24, <2>1
  <2>3. PICK j \in 1 .. Len(l) : l[j] = t
    BY <1>14, <2>2 DEF Range
  <2>4. Z[t].pptr = W[t].opptr /\ W[t].opptr = Z[t].opptr
    BY <1>18, <2>3 DEF Steady
  <2>5. Z[t].state = "zombie" => W[t].state = "zombie"
    BY <1>18 DEF Calmed
  <2>6. W[t].state = "zombie" => Roused(Z, W[t].opptr)
    BY <1>18, <2>3
  <2> QED
    BY <2>2, <2>4, <2>5, <2>6
<1>25. ASSUME NEW t \in Tasks, T[t].pptr # p PROVE Z[t].pptr = T[t].pptr
  <2>1. t \notin Range(l)
    BY <1>10, <1>25
  <2>2. \A j \in 1 .. Len(l) : t # l[j]
    BY <1>14, <2>1 DEF Range
  <2> QED
    BY <1>3, <1>7, <1>18, <2>2
<1>26. Roused(Z, Z[p].pptr)
  <2>1. Z[p].pptr = T[p].pptr
    BY <1>0, <1>5, <1>25
  <2>2. \A t \in Tasks : Z[t].next = W[t].next
    BY <1>18 DEF Steady
  <2> QED
    BY <1>5, <1>6, <1>7, <1>18, <2>1, <2>2, RousedKept
<1>27. \A t \in D : Z[t].state = "zombie" /\ (t = p \/ T[t].pptr = p) => Roused(Z, Z[t].pptr)
  BY <1>0, <1>24, <1>26
<1>28. \A t \in Tasks : Z[t].pptr = IF T[t].pptr = p THEN Z[t].opptr ELSE T[t].pptr
  BY <1>24, <1>25
<1> QED
  BY <1>18, <1>20, <1>21, <1>23, <1>27, <1>28 DEF Exited, Z

-----------------------------------------------------------------------------
(* What each kind of step keeps                                              *)

\* All but the children whose status is being written.
Kinship(T) == Family(T) /\ Orphans(T) /\ Traced(T) /\ Heard(T)

\* The tasks that have a state have the phase that goes with it.
LEMMA PhaseOf ==
    ASSUME NEW T \in States, Phases(T), NEW t \in Tasks
    PROVE  /\ T[t].state = "zombie" => T[t].pc = "exit" /\ T[t].exiting
           /\ T[t].state = "interruptible" => T[t].pc = "wait4"
           /\ T[t].exiting <=> T[t].pc = "exit"
<1>1. T[t].pc \in {"user", "wait4", "status", "vfork", "exit"}
  BY DEF States, Structs
<1> QED
  BY <1>1 DEF Phases

\* wait4() hears of every death: no dead child has come to be since T where
\* somebody sleeps.
LEMMA HeardKept ==
    ASSUME NEW T, NEW U \in States, Heard(T), Rings(U),
           \A t \in Tasks : U[t].state = "interruptible" =>
               /\ T[t].state = "interruptible" /\ U[t].opt = T[t].opt
               /\ \A q \in Group(U, t) : q \in Group(T, t) \/ \A x \in Live(U) : U[x].pptr # q,
           "trace_clone" \notin Stress =>
               \A x \in Live(U) : U[x].state = "zombie" =>
                   \/ Roused(U, U[x].pptr)
                   \/ /\ x \in Live(T) /\ T[x].state = "zombie"
                      /\ U[x].pptr = T[x].pptr /\ U[x].exit_signal = T[x].exit_signal
    PROVE  Heard(U)
<1> SUFFICES ASSUME "trace_clone" \notin Stress,
                    NEW t \in Tasks, U[t].state = "interruptible",
                    NEW q \in Looked(U, t, U[t].opt),
                    NEW x \in Live(U), U[x].pptr = q, U[x].state = "zombie"
             PROVE  ~eligible(U, x, U[t].opt)
  BY DEF Heard, NoneDead
<1>1. T[t].state = "interruptible" /\ U[t].opt = T[t].opt
  OBVIOUS
<1>2. q \in Group(U, t) /\ q \in Tasks
  <2>1. t \in Group(U, t) /\ Group(U, t) \subseteq Tasks
    BY InGroup
  <2> QED
    BY <2>1 DEF Looked
<1>3. t \in Group(U, q)
  BY <1>2, GroupSym
<1>4. ~Roused(U, q)
  BY <1>3 DEF Roused
<1>5. /\ x \in Live(T) /\ T[x].state = "zombie"
      /\ U[x].pptr = T[x].pptr /\ U[x].exit_signal = T[x].exit_signal
  BY <1>4
<1>6. q \in Group(T, t)
  BY <1>2
<1>7. q \in Looked(T, t, T[t].opt)
  BY <1>1, <1>6 DEF Looked
<1>8. ~eligible(T, x, T[t].opt)
  BY <1>1, <1>5, <1>7 DEF Heard, NoneDead
<1> QED
  BY <1>1, <1>5, <1>8 DEF eligible

\* The family links are those of T.
SameLinks(T, U) ==
    \A t \in Tasks : /\ U[t].pptr = T[t].pptr /\ U[t].opptr = T[t].opptr
                     /\ U[t].cptr = T[t].cptr /\ U[t].next = T[t].next
                     /\ U[t].exit_signal = T[t].exit_signal
                     /\ U[t].state = "none" <=> T[t].state = "none"
                     /\ U[t].state = "zombie" <=> T[t].state = "zombie"

\* A step that keeps all links, and who is dead, keeps what speaks of links only.
LEMMA LinksKept ==
    ASSUME NEW T, Kinship(T), NEW U \in States, SameLinks(T, U)
    PROVE  /\ Live(U) = Live(T)
           /\ Lists(U, Live(U)) /\ Rings(U) /\ Parents(U) /\ NoGrandparent(U)
           /\ Orphans(U) /\ Traced(U)
<1>0. T \in States /\ Lists(T, Live(T)) /\ Rings(T) /\ Parents(T) /\ NoGrandparent(T)
      /\ Orphans(T) /\ Traced(T) /\ child_reaper \in Tasks
  BY TreeAssumption DEF Kinship, Family
<1>1. Live(U) = Live(T) /\ Live(T) \subseteq Tasks
  BY DEF SameLinks, Live
<1>2. Lists(U, Live(U))
  BY <1>0, <1>1 DEF SameLinks, Lists
<1>3. Rings(U)
  BY <1>0 DEF SameLinks, Rings
<1>4. Parents(U)
  <2> SUFFICES ASSUME NEW t \in Live(T) \ {child_reaper}
               PROVE  /\ U[t].pptr \in Live(T) \ {t} /\ U[U[t].pptr].state # "zombie"
                      /\ U[t].opptr \in Live(T) \ {t} /\ U[U[t].opptr].state # "zombie"
    BY <1>1 DEF Parents
  <2>1. /\ T[t].pptr \in Live(T) \ {t} /\ T[T[t].pptr].state # "zombie"
        /\ T[t].opptr \in Live(T) \ {t} /\ T[T[t].opptr].state # "zombie"
    BY <1>0 DEF Parents
  <2> QED
    BY <1>1, <2>1 DEF SameLinks
<1>5. NoGrandparent(U)
  BY <1>0 DEF SameLinks, NoGrandparent
<1>6. Orphans(U)
  BY <1>0, <1>1 DEF SameLinks, Orphans
<1>7. Traced(U)
  BY <1>0, <1>1 DEF SameLinks, Traced
<1> QED
  BY <1>1, <1>2, <1>3, <1>4, <1>5, <1>6, <1>7

\* A step that changes no link and puts nobody to sleep in wait4().
LEMMA QuietKept ==
    ASSUME NEW T, Kinship(T), NEW U \in States, SameLinks(T, U), Phases(U), Completions(U),
           \A t \in Tasks : U[t].state = "interruptible" =>
               T[t].state = "interruptible" /\ U[t].opt = T[t].opt
    PROVE  Kinship(U)
<1>0. T \in States /\ Heard(T)
  BY DEF Kinship, Family
<1>1. /\ Live(U) = Live(T)
      /\ Lists(U, Live(U)) /\ Rings(U) /\ Parents(U) /\ NoGrandparent(U)
      /\ Orphans(U) /\ Traced(U)
  BY LinksKept
<1>2. \A t \in Tasks : Group(U, t) = Group(T, t)
  BY <1>0, SameGroups DEF SameLinks
<1>3. Live(U) \subseteq Tasks
  BY DEF Live
<1>4. Heard(U)
  BY <1>0, <1>1, <1>2, <1>3, HeardKept DEF SameLinks
<1> QED
  BY <1>1, <1>4 DEF Kinship, Family

\* One task has gone on, with all its links.
Goes(T, U, t) ==
    /\ U \in States
    /\ \A s \in Tasks \ {t} : U[s] = T[s]
    /\ U[t].pptr = T[t].pptr /\ U[t].opptr = T[t].opptr /\ U[t].cptr = T[t].cptr
    /\ U[t].next = T[t].next /\ U[t].exit_signal = T[t].exit_signal
    /\ U[t].vfork_done = T[t].vfork_done /\ U[t].exiting = T[t].exiting
    /\ U[t].state \notin {"none", "zombie"}

\* A task that goes on in a way that fits its phase keeps the family.
LEMMA GoesKept ==
    ASSUME NEW T, Kinship(T), NEW t \in Tasks, T[t].state = "running", NEW U, Goes(T, U, t),
           T[t].pc # "exit",
           \/ U[t].pc \in {"user", "status"} /\ U[t].state = "running" /\ ~U[t].done
           \/ U[t].pc = "vfork" /\ U[t].state = "uninterruptible" /\ ~U[t].done
           \/ U[t].pc = "wait4" /\ U[t].state = "interruptible" /\ ~U[t].done,
           U[t].pc = "vfork" <=> (T[t].pc = "vfork" /\ ~T[t].done)
    PROVE  /\ SameLinks(T, U) /\ Phases(U) /\ Completions(U)
           /\ U[t].state # "interruptible" => Kinship(U)
<1>0. T \in States /\ Phases(T) /\ Completions(T) /\ U \in States
  BY DEF Kinship, Family, Goes
<1>1. SameLinks(T, U)
  BY DEF SameLinks, Goes
<1>2. Phases(U)
  <2>1. \A s \in Tasks \ {t} : U[s] = T[s]
    BY DEF Goes
  <2>2. ~T[t].exiting
    BY <1>0, PhaseOf
  <2>3. U[t].exiting = T[t].exiting
    BY DEF Goes
  <2>4. \A s \in Tasks :
        /\ U[s].state = "none" => Blank(U[s], s)
        /\ U[s].pc = "user" => U[s].state \in {"none", "running"}
        /\ U[s].pc = "wait4" => U[s].state \in {"running", "interruptible"}
        /\ U[s].pc = "status" => U[s].state = "running"
        /\ U[s].pc = "vfork" => U[s].state \in {"running", "uninterruptible"}
        /\ U[s].pc = "exit" => U[s].state \in {"running", "zombie"} /\ U[s].vfork_done = NULL
        /\ U[s].exiting <=> U[s].pc = "exit"
    <3> SUFFICES ASSUME NEW s \in Tasks
                 PROVE  /\ U[s].state = "none" => Blank(U[s], s)
                        /\ U[s].pc = "user" => U[s].state \in {"none", "running"}
                        /\ U[s].pc = "wait4" => U[s].state \in {"running", "interruptible"}
                        /\ U[s].pc = "status" => U[s].state = "running"
                        /\ U[s].pc = "vfork" => U[s].state \in {"running", "uninterruptible"}
                        /\ U[s].pc = "exit" => U[s].state \in {"running", "zombie"} /\ U[s].vfork_done = NULL
                        /\ U[s].exiting <=> U[s].pc = "exit"
      OBVIOUS
    <3>1. CASE s = t
      BY <2>2, <2>3, <3>1
    <3>2. CASE s # t
      BY <1>0, <2>1, <3>2 DEF Phases
    <3> QED
      BY <3>1, <3>2
  <2>5. U[child_reaper].state # "none" /\ U[child_reaper].pc # "exit"
    BY <1>0, <2>1, TreeAssumption DEF Phases
  <2> QED
    BY <2>4, <2>5 DEF Phases
<1>3. Completions(U)
  <2>0. /\ \A s \in Tasks \ {t} : U[s] = T[s]
        /\ \A s \in Tasks : U[s].vfork_done = T[s].vfork_done
    BY DEF Goes
  <2>1. \A c \in Tasks : T[c].vfork_done # NULL => T[c].vfork_done \in Tasks
    BY <1>0 DEF States, Structs
  <2>2. \A c \in Tasks : U[c].vfork_done # NULL =>
            U[U[c].vfork_done].pc = "vfork" /\ ~U[U[c].vfork_done].done
    <3> SUFFICES ASSUME NEW c \in Tasks, T[c].vfork_done # NULL
                 PROVE  U[T[c].vfork_done].pc = "vfork" /\ ~U[T[c].vfork_done].done
      BY <2>0
    <3>1. T[T[c].vfork_done].pc = "vfork" /\ ~T[T[c].vfork_done].done
      BY <1>0 DEF Completions
    <3> QED
      BY <2>0, <2>1, <3>1
  <2>3. \A c, d \in Tasks : U[c].vfork_done = U[d].vfork_done /\ U[c].vfork_done # NULL => c = d
    BY <1>0, <2>0 DEF Completions
  <2>4. \A p \in Tasks : U[p].pc = "vfork" /\ ~U[p].done => \E c \in Tasks : U[c].vfork_done = p
    BY <1>0, <2>0 DEF Completions
  <2>5. \A p \in Tasks : U[p].done => U[p].pc = "vfork" /\ U[p].state = "running"
    BY <1>0, <2>0 DEF Completions
  <2> QED
    BY <2>2, <2>3, <2>4, <2>5 DEF Completions
<1>4. ASSUME U[t].state # "interruptible" PROVE Kinship(U)
  <2>1. \A s \in Tasks : U[s].state = "interruptible" =>
            T[s].state = "interruptible" /\ U[s].opt = T[s].opt
    BY <1>4 DEF Goes
  <2> QED
    BY <1>0, <1>1, <1>2, <1>3, <2>1, QuietKept
<1> QED
  BY <1>1, <1>2, <1>3, <1>4

\* Children whose status is being written stay pinned when other tasks change.
LEMMA PinnedKept ==
    ASSUME NEW T, NEW U, NEW S \in SUBSET Tasks, PinnedFor(T, S),
           \A t \in S : U[t].pc = "status" =>
               /\ T[t].pc = "status" /\ U[t].tsk = T[t].tsk
               /\ T[t].next = t => U[t].next = t
               /\ \A x \in Live(T) : x = T[t].tsk /\ T[x].state = "zombie" /\ T[x].pptr = t =>
                     x \in Live(U) /\ U[x].state = "zombie" /\ U[x].pptr = t
    PROVE  PinnedFor(U, S)
BY DEF PinnedFor

\* The end of a system call.
LEMMA ReturnEffect ==
    ASSUME NEW T \in States, NEW t \in Tasks
    PROVE  /\ Goes(T, return_to_user(T, t), t)
           /\ return_to_user(T, t)[t].pc = "user" /\ return_to_user(T, t)[t].state = "running"
           /\ ~return_to_user(T, t)[t].done
<1> DEFINE r == [T[t] EXCEPT !.pc = "user", !.state = "running", !.tsk = NULL,
                             !.opt = AnyChild, !.sigpending = FALSE, !.done = FALSE]
           U == [T EXCEPT ![t] = r]
<1>0. T[t] \in Structs
  BY DEF States
<1>1. AnyChild \in WaitOption
  BY DEF AnyChild, WaitOption
<1>2. /\ r \in Structs /\ r.pc = "user" /\ r.state = "running" /\ ~r.done
      /\ r.pptr = T[t].pptr /\ r.opptr = T[t].opptr /\ r.cptr = T[t].cptr
      /\ r.next = T[t].next /\ r.exit_signal = T[t].exit_signal
      /\ r.vfork_done = T[t].vfork_done /\ r.exiting = T[t].exiting
  BY Zenon, <1>0, <1>1 DEF Structs
<1>3. return_to_user(T, t) = U
  BY Zenon, <1>0 DEF return_to_user, States
<1> HIDE DEF r
<1>4. U \in States /\ U[t] = r /\ \A q \in Tasks \ {t} : U[q] = T[q]
  BY <1>2, TaskStore
<1> HIDE DEF U
<1> QED
  BY <1>2, <1>3, <1>4 DEF Goes

\* A return from wait4() changes the caller's place in the code only and keeps the family.
LEMMA ReturnKeeps ==
    ASSUME NEW T, Kinship(T), NEW t \in Tasks, PinnedFor(T, Tasks \ {t}), T[t].state = "running",
           T[t].pc \in {"user", "wait4", "status"} \/ (T[t].pc = "vfork" /\ T[t].done)
    PROVE  Kinship(return_to_user(T, t)) /\ PinnedFor(return_to_user(T, t), Tasks)
<1> DEFINE U == return_to_user(T, t)
<1>0. T \in States
  BY DEF Kinship, Family
<1>1. Goes(T, U, t) /\ U[t].pc = "user" /\ U[t].state = "running" /\ ~U[t].done
  BY <1>0, ReturnEffect
<1> HIDE DEF U
<1>2. Kinship(U)
  BY <1>1, GoesKept
<1>3. PinnedFor(U, Tasks \ {t})
  <2>1. \A s \in Tasks \ {t} : U[s] = T[s]
    BY <1>1 DEF Goes
  <2>2. \A x \in Live(T) : T[x].state = "zombie" => x \in Live(U) /\ U[x] = T[x]
    BY <2>1 DEF Live
  <2> QED
    BY <2>1, <2>2, PinnedKept
<1>4. PinnedFor(U, Tasks)
  BY <1>1, <1>3 DEF PinnedFor
<1> QED
  BY <1>2, <1>4 DEF U

\* p has been given to q, who hears of it if p is dead.
Given(T, U, p, q) ==
    /\ U \in States
    /\ Steady(T, U)
    /\ Calmed(T, U)
    /\ Lists(U, Live(T))
    /\ U[p].pptr = q
    /\ \A t \in Tasks \ {p} : U[t].pptr = T[t].pptr
    /\ U[p].state = "zombie" => Roused(U, q)

\* Waking tasks and moving one of them keeps their phases and completions.
LEMMA CalmedKept ==
    ASSUME NEW T, Family(T), NEW U \in States, Steady(T, U), Calmed(T, U),
           \A t \in Tasks : T[t].state = "none" => U[t].pptr = NULL
    PROVE  Phases(U) /\ Completions(U) /\ Rings(U) /\ Live(U) = Live(T)
           /\ \A t \in Tasks : U[t].state = "zombie" <=> T[t].state = "zombie"
<1>0. T \in States /\ Phases(T) /\ Completions(T) /\ Rings(T)
  BY DEF Family
<1>1. Live(U) = Live(T) /\ \A t \in Tasks : U[t].state = "zombie" <=> T[t].state = "zombie"
  BY DEF Calmed, Live
<1>2. ASSUME NEW s \in Tasks
      PROVE  /\ U[s].state = "none" => Blank(U[s], s)
             /\ U[s].pc = "user" => U[s].state \in {"none", "running"}
             /\ U[s].pc = "wait4" => U[s].state \in {"running", "interruptible"}
             /\ U[s].pc = "status" => U[s].state = "running"
             /\ U[s].pc = "vfork" => U[s].state \in {"running", "uninterruptible"}
             /\ U[s].pc = "exit" => U[s].state \in {"running", "zombie"} /\ U[s].vfork_done = NULL
             /\ U[s].exiting <=> U[s].pc = "exit"
  <2>1. U[s].state = T[s].state \/ (T[s].state = "interruptible" /\ U[s].state = "running")
    BY DEF Calmed
  <2>2. U[s].pc = T[s].pc /\ U[s].next = T[s].next /\ U[s].opptr = T[s].opptr
        /\ U[s].vfork_done = T[s].vfork_done /\ U[s].exiting = T[s].exiting
    BY DEF Steady
  <2>3. /\ T[s].state = "none" => Blank(T[s], s)
        /\ T[s].pc = "user" => T[s].state \in {"none", "running"}
        /\ T[s].pc = "wait4" => T[s].state \in {"running", "interruptible"}
        /\ T[s].pc = "status" => T[s].state = "running"
        /\ T[s].pc = "vfork" => T[s].state \in {"running", "uninterruptible"}
        /\ T[s].pc = "exit" => T[s].state \in {"running", "zombie"} /\ T[s].vfork_done = NULL
        /\ T[s].exiting <=> T[s].pc = "exit"
    BY <1>0 DEF Phases
  <2>4. U[s].state = "none" => Blank(U[s], s)
    BY <2>1, <2>2, <2>3 DEF Blank
  <2> QED
    BY <2>1, <2>2, <2>3, <2>4
<1>3. U[child_reaper].state # "none" /\ U[child_reaper].pc # "exit"
  BY <1>0, TreeAssumption DEF Phases, Calmed, Steady
<1>4. Phases(U)
  BY <1>2, <1>3 DEF Phases
<1>5. Completions(U)
  <2>1. \A c \in Tasks : T[c].vfork_done # NULL => T[c].vfork_done \in Tasks
    BY <1>0 DEF States, Structs
  <2>2. \A t \in Tasks : U[t].vfork_done = T[t].vfork_done /\ U[t].pc = T[t].pc /\ U[t].done = T[t].done
    BY DEF Steady
  <2>3. \A t \in Tasks : T[t].state = "running" => U[t].state = "running"
    BY DEF Calmed
  <2> QED
    BY <1>0, <2>1, <2>2, <2>3 DEF Completions
<1>6. Rings(U)
  BY <1>0 DEF Steady, Rings
<1> QED
  BY <1>1, <1>4, <1>5, <1>6

\* Giving a task to another parent, and waking that one if the task is dead, keeps the family.
LEMMA GivenKeeps ==
    ASSUME NEW T, Kinship(T), NEW p \in Live(T) \ {child_reaper}, NEW q \in Live(T) \ {p},
           T[q].state # "zombie", NEW U, Given(T, U, p, q),
           "trace_clone" \notin Stress => q = T[p].opptr \/ T[p].exit_signal = "SIGCHLD"
    PROVE  Kinship(U)
<1>0. /\ T \in States /\ Family(T) /\ Phases(T) /\ Parents(T) /\ NoGrandparent(T) /\ Orphans(T)
      /\ Traced(T) /\ Heard(T) /\ p \in Tasks /\ q \in Tasks
  BY DEF Kinship, Family, Live
<1>1. /\ U \in States /\ Steady(T, U) /\ Calmed(T, U) /\ Lists(U, Live(T))
      /\ U[p].pptr = q /\ \A t \in Tasks \ {p} : U[t].pptr = T[t].pptr
      /\ U[p].state = "zombie" => Roused(U, q)
  BY DEF Given
<1>2. ASSUME NEW t \in Tasks, T[t].state = "none" PROVE U[t].pptr = NULL
  <2>1. t # p /\ T[t].pptr = NULL
    BY <1>0, <1>2 DEF Phases, Blank, Live
  <2> QED
    BY <1>1, <2>1
<1>3. Phases(U) /\ Completions(U) /\ Rings(U) /\ Live(U) = Live(T)
      /\ \A t \in Tasks : U[t].state = "zombie" <=> T[t].state = "zombie"
  <2>1. Family(T) /\ U \in States /\ Steady(T, U) /\ Calmed(T, U)
    BY <1>0, <1>1
  <2>2. \A t \in Tasks : T[t].state = "none" => U[t].pptr = NULL
    BY <1>2
  <2> QED
    BY ONLY Zenon, <2>1, <2>2, CalmedKept
<1>4. \A t \in Tasks : U[t].opptr = T[t].opptr /\ U[t].exit_signal = T[t].exit_signal
                       /\ U[t].next = T[t].next /\ U[t].opt = T[t].opt
  BY <1>1 DEF Steady
<1>5. Parents(U)
  <2> SUFFICES ASSUME NEW t \in Live(T) \ {child_reaper}
               PROVE  /\ U[t].pptr \in Live(T) \ {t} /\ U[U[t].pptr].state # "zombie"
                      /\ U[t].opptr \in Live(T) \ {t} /\ U[U[t].opptr].state # "zombie"
    BY <1>3 DEF Parents
  <2>1. /\ T[t].pptr \in Live(T) \ {t} /\ T[T[t].pptr].state # "zombie"
        /\ T[t].opptr \in Live(T) \ {t} /\ T[T[t].opptr].state # "zombie"
    BY <1>0 DEF Parents
  <2>2. t \in Tasks /\ T[t].pptr \in Tasks /\ T[t].opptr \in Tasks
    BY <2>1 DEF Live
  <2> QED
    BY Zenon, <1>0, <1>1, <1>3, <1>4, <2>1, <2>2
<1>6. NoGrandparent(U)
  BY <1>0, <1>1, <1>4, TreeAssumption DEF NoGrandparent
<1>7. Orphans(U)
  BY <1>0, <1>3, <1>4 DEF Orphans, Live
<1>8. Traced(U)
  <2> SUFFICES ASSUME "trace_clone" \notin Stress, NEW t \in Live(U), U[t].opptr # U[t].pptr
               PROVE  U[t].exit_signal = "SIGCHLD"
    BY DEF Traced
  <2>1. t \in Live(T) /\ t \in Tasks
    BY <1>3 DEF Live
  <2>2. U[t].opptr = T[t].opptr /\ U[t].exit_signal = T[t].exit_signal
    BY <1>4, <2>1
  <2>3. CASE t = p
    BY <1>1, <2>2, <2>3
  <2>4. CASE t # p
    <3>1. U[t].pptr = T[t].pptr
      BY <1>1, <2>1, <2>4
    <3>2. Traced(T)
      BY <1>0
    <3> QED
      BY Zenon, <2>1, <2>2, <3>1, <3>2 DEF Traced
  <2> QED
    BY <2>3, <2>4
<1>9. Heard(U)
  <2>1. \A t \in Tasks : Group(U, t) = Group(T, t)
    BY Zenon, <1>0, <1>1, <1>4, SameGroups
  <2>2. \A t \in Tasks : U[t].state = "interruptible" => T[t].state = "interruptible"
    BY <1>1 DEF Calmed
  <2>3. ASSUME NEW x \in Live(U), U[x].state = "zombie"
        PROVE  \/ Roused(U, U[x].pptr)
               \/ /\ x \in Live(T) /\ T[x].state = "zombie"
                  /\ U[x].pptr = T[x].pptr /\ U[x].exit_signal = T[x].exit_signal
    BY <1>1, <1>3, <1>4, <2>3 DEF Live
  <2>4. \A t \in Tasks : U[t].state = "interruptible" =>
            /\ T[t].state = "interruptible" /\ U[t].opt = T[t].opt
            /\ \A r \in Group(U, t) : r \in Group(T, t) \/ \A x \in Live(U) : U[x].pptr # r
    BY Zenon, <1>4, <2>1, <2>2
  <2>5. Heard(T) /\ U \in States /\ Rings(U)
    BY <1>0, <1>1, <1>3
  <2> QED
    BY ONLY Zenon, <2>3, <2>4, <2>5, HeardKept
<1> QED
  BY <1>1, <1>3, <1>5, <1>6, <1>7, <1>8, <1>9 DEF Kinship, Family

\* Giving a task away pins the children that were pinned, if it is none of them.
LEMMA GivenPins ==
    ASSUME NEW T, Family(T), NEW p \in Live(T), NEW q, NEW U, Given(T, U, p, q),
           NEW S \in SUBSET Tasks, PinnedFor(T, S),
           "status_faults" \notin Stress => \A t \in S : T[t].pc = "status" => T[t].tsk # p
    PROVE  PinnedFor(U, S)
<1>1. /\ Steady(T, U) /\ Calmed(T, U) /\ \A t \in Tasks \ {p} : U[t].pptr = T[t].pptr
  BY DEF Given
<1>2. \A t \in Tasks : U[t].pc = T[t].pc /\ U[t].tsk = T[t].tsk /\ U[t].next = T[t].next
  BY <1>1 DEF Steady
<1>3. \A x \in Live(T) : x # p /\ T[x].state = "zombie" =>
          x \in Live(U) /\ U[x].state = "zombie" /\ U[x].pptr = T[x].pptr
  BY <1>1 DEF Calmed, Live
<1>4. CASE "status_faults" \in Stress
  BY <1>2, <1>4 DEF PinnedFor
<1>5. CASE "status_faults" \notin Stress
  BY <1>2, <1>3, <1>5, PinnedKept
<1> QED
  BY <1>4, <1>5

\* p has left its ring, which is closed behind it.
NextLeft(T, U, p) ==
    /\ U[p].next = p
    /\ \A t \in Tasks \ {p} : U[t].next = IF T[t].next = p THEN T[p].next ELSE T[t].next

\* What unhash_process() makes of the ring of threads when one of them leaves is a ring.
LEMMA LeftRings ==
    ASSUME NEW T \in States, NEW U \in States, Rings(T), NEW p \in Tasks, NextLeft(T, U, p)
    PROVE  Rings(U) /\ \A t \in Tasks : Group(U, t) \subseteq Group(T, t)
<1>0. \A t \in Tasks : T[t].next \in Tasks
  BY DEF States, Structs
<1>1. ASSUME NEW s \in Tasks, NEW t \in Tasks, U[s].next = U[t].next PROVE s = t
  BY <1>0, <1>1 DEF NextLeft, Rings
<1>2. ASSUME NEW t \in Tasks PROVE \E s \in Tasks : U[s].next = t
  <2>1. CASE t = p
    BY <2>1 DEF NextLeft
  <2>2. CASE t # p
    <3>1. PICK s \in Tasks : T[s].next = t
      BY DEF Rings
    <3>2. CASE s # p
      BY <2>2, <3>1, <3>2 DEF NextLeft
    <3>3. CASE s = p
      <4>1. PICK r \in Tasks : T[r].next = p
        BY DEF Rings
      <4>2. r # p
        BY <2>2, <3>1, <3>3, <4>1
      <4>3. U[r].next = t
        BY <3>1, <3>3, <4>1, <4>2 DEF NextLeft
      <4> QED
        BY <4>3
    <3> QED
      BY <3>2, <3>3
  <2> QED
    BY <2>1, <2>2
<1>3. ASSUME NEW t \in Tasks PROVE Group(U, t) \subseteq Group(T, t)
  <2>1. t \in Group(T, t) /\ Group(T, t) \subseteq Tasks /\ \A q \in Group(T, t) : T[q].next \in Group(T, t)
    BY InGroup, GroupClosed
  <2>2. ASSUME NEW q \in Group(T, t) PROVE U[q].next \in Group(T, t)
    <3>1. CASE q = p
      BY <3>1 DEF NextLeft
    <3>2. CASE q # p
      BY <2>1, <3>2 DEF NextLeft
    <3> QED
      BY <3>1, <3>2
  <2> QED
    BY <2>1, <2>2, GroupLeast
<1> QED
  BY <1>1, <1>2, <1>3 DEF Rings

\* All fields but the ring.
SameButNext(T, U) ==
    /\ U \in States
    /\ \A t \in Tasks :
        /\ U[t].opptr = T[t].opptr /\ U[t].pptr = T[t].pptr /\ U[t].cptr = T[t].cptr
        /\ U[t].exit_signal = T[t].exit_signal /\ U[t].pc = T[t].pc /\ U[t].opt = T[t].opt
        /\ U[t].tsk = T[t].tsk /\ U[t].exiting = T[t].exiting
        /\ U[t].vfork_done = T[t].vfork_done /\ U[t].done = T[t].done
        /\ U[t].state = T[t].state

\* Assigning to next.
LEMMA Rechain ==
    ASSUME NEW T \in States, NEW p \in Tasks, NEW q \in Tasks
    PROVE  /\ SameButNext(T, [T EXCEPT ![p].next = q])
           /\ [T EXCEPT ![p].next = q][p].next = q
           /\ \A t \in Tasks \ {p} : [T EXCEPT ![p].next = q][t].next = T[t].next
<1> DEFINE r == [T[p] EXCEPT !.next = q]
<1> DEFINE U == [T EXCEPT ![p] = r]
<1>0. T[p] \in Structs
  BY DEF States
<1>1. /\ r \in Structs /\ r.next = q
      /\ r.opptr = T[p].opptr /\ r.exit_signal = T[p].exit_signal
      /\ r.pc = T[p].pc /\ r.opt = T[p].opt /\ r.tsk = T[p].tsk /\ r.exiting = T[p].exiting
      /\ r.vfork_done = T[p].vfork_done /\ r.done = T[p].done
      /\ r.pptr = T[p].pptr /\ r.cptr = T[p].cptr /\ r.state = T[p].state
  BY <1>0 DEF Structs
<1>2. [T EXCEPT ![p].next = q] = U
  OBVIOUS
<1> HIDE DEF r
<1>3. U \in States /\ U[p] = r /\ \A t \in Tasks \ {p} : U[t] = T[t]
  BY <1>1, TaskStore
<1> HIDE DEF U
<1> QED
  BY Zenon, <1>1, <1>2, <1>3 DEF SameButNext

\* list_del()
LEMMA LeaveEffect ==
    ASSUME NEW T \in States, Rings(T), NEW p \in Tasks
    PROVE  SameButNext(T, leave_group(T, p)) /\ NextLeft(T, leave_group(T, p), p)
<1> DEFINE prev == CHOOSE q \in Tasks : T[q].next = p
           A == [T EXCEPT ![prev].next = T[p].next]
           B == [A EXCEPT ![p].next = p]
<1>0. prev \in Tasks /\ T[prev].next = p /\ T[p].next \in Tasks
  <2>1. \E q \in Tasks : T[q].next = p
    BY DEF Rings
  <2>2. T[p].next \in Tasks
    BY DEF States, Structs
  <2> QED
    BY <2>1, <2>2
<1>1. leave_group(T, p) = B
  BY DEF leave_group
<1> HIDE DEF prev
<1>2. /\ SameButNext(T, A) /\ A[prev].next = T[p].next
      /\ \A t \in Tasks \ {prev} : A[t].next = T[t].next
  BY <1>0, Rechain
<1> HIDE DEF A
<1>3. A \in States
  BY <1>2 DEF SameButNext
<1>4. SameButNext(A, B) /\ B[p].next = p /\ \A t \in Tasks \ {p} : B[t].next = A[t].next
  BY <1>3, Rechain
<1> HIDE DEF B
<1>5. SameButNext(T, B)
  BY <1>2, <1>4 DEF SameButNext
<1>6. \A t \in Tasks : T[t].next = p => t = prev
  BY <1>0 DEF Rings
<1>7. ASSUME NEW t \in Tasks \ {p}
      PROVE  B[t].next = IF T[t].next = p THEN T[p].next ELSE T[t].next
  BY <1>0, <1>2, <1>4, <1>6
<1> QED
  BY <1>1, <1>4, <1>5, <1>7 DEF NextLeft

\* Leaving a group keeps the family.
LEMMA LeaveKeeps ==
    ASSUME NEW T, Kinship(T), PinnedFor(T, Tasks), NEW p \in Live(T)
    PROVE  Kinship(leave_group(T, p)) /\ PinnedFor(leave_group(T, p), Tasks)
<1> DEFINE U == leave_group(T, p)
<1>0. /\ T \in States /\ Lists(T, Live(T)) /\ Rings(T) /\ Phases(T) /\ Parents(T)
      /\ NoGrandparent(T) /\ Completions(T) /\ Orphans(T) /\ Traced(T) /\ Heard(T) /\ p \in Tasks
  BY DEF Kinship, Family, Live
<1>1. SameButNext(T, U) /\ NextLeft(T, U, p)
  BY <1>0, LeaveEffect
<1> HIDE DEF U
<1>2. U \in States /\ Live(U) = Live(T) /\ Live(T) \subseteq Tasks
  BY <1>1 DEF SameButNext, Live
<1>3. Rings(U) /\ \A t \in Tasks : Group(U, t) \subseteq Group(T, t)
  BY <1>0, <1>1, <1>2, LeftRings
<1>4. Lists(U, Live(U))
  BY <1>0, <1>1, <1>2 DEF Lists, SameButNext
<1>5. \A t \in Tasks : T[t].next = t => U[t].next = t
  BY <1>1 DEF NextLeft
<1>6. Phases(U)
  <2>1. \A t \in Tasks : /\ U[t].state = T[t].state /\ U[t].pc = T[t].pc
                         /\ U[t].exiting = T[t].exiting /\ U[t].vfork_done = T[t].vfork_done
                         /\ U[t].pptr = T[t].pptr /\ U[t].opptr = T[t].opptr
    BY Zenon, <1>1 DEF SameButNext
  <2>2. Phases(T)
    BY <1>0
  <2>3. \A t \in Tasks : T[t].state = "none" => Blank(U[t], t)
    BY ONLY <2>1, <2>2, <1>5 DEF Phases, Blank
  <2> QED
    BY ONLY <2>1, <2>2, <2>3, TreeAssumption DEF Phases
<1>7. Parents(U)
  <2> SUFFICES ASSUME NEW t \in Live(T) \ {child_reaper}
               PROVE  /\ U[t].pptr \in Live(T) \ {t} /\ U[U[t].pptr].state # "zombie"
                      /\ U[t].opptr \in Live(T) \ {t} /\ U[U[t].opptr].state # "zombie"
    BY <1>2 DEF Parents
  <2>1. /\ T[t].pptr \in Live(T) \ {t} /\ T[T[t].pptr].state # "zombie"
        /\ T[t].opptr \in Live(T) \ {t} /\ T[T[t].opptr].state # "zombie"
    BY <1>0 DEF Parents
  <2> QED
    BY <1>1, <1>2, <2>1 DEF SameButNext
<1>8. NoGrandparent(U)
  BY <1>0, <1>1, TreeAssumption DEF NoGrandparent, SameButNext
<1>9. Completions(U)
  <2>1. \A c \in Tasks : T[c].vfork_done # NULL => T[c].vfork_done \in Tasks
    BY <1>0 DEF States, Structs
  <2>2. \A t \in Tasks : U[t].vfork_done = T[t].vfork_done /\ U[t].pc = T[t].pc
                         /\ U[t].done = T[t].done /\ U[t].state = T[t].state
    BY <1>1 DEF SameButNext
  <2>3. Completions(T)
    BY <1>0
  <2> QED
    BY ONLY <2>1, <2>2, <2>3 DEF Completions
<1>10. Orphans(U) /\ Traced(U)
  BY <1>0, <1>1, <1>2 DEF Orphans, Traced, SameButNext
<1>11. Heard(U)
  BY <1>0, <1>1, <1>2, <1>3, HeardKept DEF SameButNext
<1>12. PinnedFor(U, Tasks)
  BY <1>1, <1>2, <1>5, PinnedKept DEF SameButNext
<1> QED
  BY <1>2, <1>3, <1>4, <1>6, <1>7, <1>8, <1>9, <1>10, <1>11, <1>12 DEF Kinship, Family, U

\* p has been released.
Gone(T, U, p) ==
    /\ U \in States
    /\ U[p] = NoTask(p)
    /\ NextLeft(T, U, p)
    /\ Lists(U, Live(T) \ {p})
    /\ \A t \in Tasks \ {p} :
        /\ U[t].opptr = T[t].opptr /\ U[t].pptr = T[t].pptr
        /\ U[t].exit_signal = T[t].exit_signal /\ U[t].pc = T[t].pc /\ U[t].opt = T[t].opt
        /\ U[t].tsk = T[t].tsk /\ U[t].exiting = T[t].exiting
        /\ U[t].vfork_done = T[t].vfork_done /\ U[t].done = T[t].done
        /\ U[t].state = T[t].state

\* A free task structure.
LEMMA NoTaskType ==
    ASSUME NEW p \in Tasks
    PROVE  /\ NoTask(p) \in Structs /\ NoTask(p).state = "none" /\ NoTask(p).cptr = <<>>
           /\ NoTask(p).next = p /\ NoTask(p).exiting = FALSE /\ NoTask(p).done = FALSE
           /\ Blank(NoTask(p), p)
<1>1. AnyChild \in WaitOption
  BY DEF AnyChild, WaitOption
<1>2. <<>> \in Seq(Tasks)
  OBVIOUS
<1> QED
  BY <1>1, <1>2 DEF NoTask, Structs, Blank

\* release_task(): the task is unlinked from its parent and its ring, and free.
LEMMA ReleaseEffect ==
    ASSUME NEW T, Family(T), NEW p \in Live(T), T[p].state = "zombie"
    PROVE  Gone(T, release_task(T, p), p)
<1> DEFINE A == REMOVE_LINKS(T, p)
           B == leave_group(A, p)
           C == [B EXCEPT ![p] = NoTask(p)]
<1>0. /\ T \in States /\ Lists(T, Live(T)) /\ Rings(T) /\ Phases(T) /\ Parents(T)
      /\ p \in Tasks /\ Live(T) \subseteq Tasks
  BY DEF Family, Live
<1>1. p # child_reaper
  BY <1>0, PhaseOf DEF Phases
<1>2. T[p].pptr \in Tasks
  BY <1>0, <1>1 DEF Parents, Live
<1>3. Relisted(T, A) /\ Lists(A, Live(T) \ {p})
  BY <1>0, <1>2, RemoveEffect
<1> HIDE DEF A
<1>4. A \in States /\ Rings(A)
  BY <1>0, <1>3 DEF Relisted, Steady, Rings
<1>5. SameButNext(A, B) /\ NextLeft(A, B, p)
  BY <1>0, <1>4, LeaveEffect
<1> HIDE DEF B
<1>6. NoTask(p) \in Structs /\ NoTask(p).cptr = <<>> /\ NoTask(p).next = p
  BY Zenon, <1>0, NoTaskType
<1>7. C \in States /\ C[p] = NoTask(p) /\ \A t \in Tasks \ {p} : C[t] = B[t]
  BY <1>0, <1>5, <1>6, TaskStore DEF SameButNext
<1> HIDE DEF C
<1>8. NextLeft(T, C, p)
  <2>1. C[p].next = p
    BY <1>6, <1>7
  <2>2. \A t \in Tasks \ {p} : C[t].next = IF T[t].next = p THEN T[p].next ELSE T[t].next
    BY <1>0, <1>3, <1>5, <1>7 DEF NextLeft, Relisted, Steady
  <2> QED
    BY <2>1, <2>2 DEF NextLeft
<1>9. Lists(C, Live(T) \ {p})
  <2> SUFFICES ASSUME NEW s \in Tasks
               PROVE  IsInjective(C[s].cptr) /\ Range(C[s].cptr) = {c \in Live(T) \ {p} : C[c].pptr = s}
    BY DEF Lists
  <2>1. \A c \in Live(T) \ {p} : C[c].pptr = T[c].pptr
    BY <1>0, <1>3, <1>5, <1>7 DEF Relisted, SameButNext
  <2>2. CASE s = p
    <3>1. IsInjective(<<>>) /\ Range(<<>>) = {}
      BY DEF IsInjective, Range
    <3>2. \A c \in Live(T) \ {p} : T[c].pptr # p
      <4>1. \A c \in Live(T) \ {child_reaper} : T[T[c].pptr].state # "zombie"
        BY <1>0 DEF Parents
      <4>2. T[child_reaper].pptr # p
        BY <1>0, TreeAssumption DEF Family, NoGrandparent
      <4> QED
        BY <4>1, <4>2
    <3> QED
      BY <1>6, <1>7, <2>1, <2>2, <3>1, <3>2
  <2>3. CASE s # p
    <3>1. C[s].cptr = A[s].cptr
      BY <1>5, <1>7, <2>3 DEF SameButNext
    <3>2. \A c \in Live(T) \ {p} : A[c].pptr = T[c].pptr
      BY <1>0, <1>3 DEF Relisted
    <3>3. IsInjective(A[s].cptr) /\ Range(A[s].cptr) = {c \in Live(T) \ {p} : A[c].pptr = s}
      BY <1>3 DEF Lists
    <3> QED
      BY <2>1, <3>1, <3>2, <3>3
  <2> QED
    BY <2>2, <2>3
<1>10. release_task(T, p) = C
  BY DEF release_task, A, B, C
<1> QED
  BY <1>3, <1>5, <1>7, <1>8, <1>9, <1>10 DEF Gone, Relisted, Steady, SameButNext

\* Releasing a dead task keeps the family.
LEMMA GoneKeeps ==
    ASSUME NEW T, Kinship(T), NEW p \in Live(T), T[p].state = "zombie", NEW U, Gone(T, U, p)
    PROVE  Kinship(U)
<1>0. /\ T \in States /\ Lists(T, Live(T)) /\ Rings(T) /\ Phases(T) /\ Parents(T)
      /\ NoGrandparent(T) /\ Completions(T) /\ Orphans(T) /\ Traced(T) /\ Heard(T) /\ p \in Tasks
  BY DEF Kinship, Family, Live
<1>1. /\ U \in States /\ U[p] = NoTask(p) /\ NextLeft(T, U, p) /\ Lists(U, Live(T) \ {p})
      /\ \A t \in Tasks \ {p} :
          /\ U[t].opptr = T[t].opptr /\ U[t].pptr = T[t].pptr
          /\ U[t].exit_signal = T[t].exit_signal /\ U[t].pc = T[t].pc /\ U[t].opt = T[t].opt
          /\ U[t].tsk = T[t].tsk /\ U[t].exiting = T[t].exiting
          /\ U[t].vfork_done = T[t].vfork_done /\ U[t].done = T[t].done
          /\ U[t].state = T[t].state
  BY DEF Gone
<1>2. /\ U[p].state = "none" /\ U[p].exiting = FALSE /\ U[p].done = FALSE /\ Blank(U[p], p)
      /\ U[p].pc = "user" /\ U[p].vfork_done = NULL
  <2>1. U[p] = NoTask(p) /\ p \in Tasks
    BY <1>0, <1>1
  <2>2. NoTask(p).state = "none" /\ NoTask(p).exiting = FALSE /\ NoTask(p).done = FALSE
        /\ Blank(NoTask(p), p)
    BY ONLY Zenon, <2>1, NoTaskType
  <2>3. NoTask(p).pc = "user" /\ NoTask(p).vfork_done = NULL
    BY ONLY Zenon, <2>2 DEF Blank
  <2> QED
    BY ONLY Zenon, <2>1, <2>2, <2>3
<1>3. Live(U) = Live(T) \ {p} /\ Live(T) \subseteq Tasks
  BY <1>1, <1>2 DEF Live
<1>4. T[p].pc = "exit" /\ T[p].vfork_done = NULL /\ p # child_reaper /\ child_reaper \in Tasks
  BY Zenon, <1>0, PhaseOf, TreeAssumption DEF Phases
<1>5. Rings(U) /\ \A t \in Tasks : Group(U, t) \subseteq Group(T, t)
  BY <1>0, <1>1, LeftRings
<1>6. Phases(U)
  <2>1. ASSUME NEW s \in Tasks
        PROVE  /\ U[s].state = "none" => Blank(U[s], s)
               /\ U[s].pc = "user" => U[s].state \in {"none", "running"}
               /\ U[s].pc = "wait4" => U[s].state \in {"running", "interruptible"}
               /\ U[s].pc = "status" => U[s].state = "running"
               /\ U[s].pc = "vfork" => U[s].state \in {"running", "uninterruptible"}
               /\ U[s].pc = "exit" => U[s].state \in {"running", "zombie"} /\ U[s].vfork_done = NULL
               /\ U[s].exiting <=> U[s].pc = "exit"
    <3>1. CASE s = p
      BY <1>2, <3>1
    <3>2. CASE s # p
      <4>1. T[s].state = "none" => Blank(T[s], s)
        BY <1>0 DEF Phases
      <4>2. T[s].next = s => U[s].next = s
        BY <1>1, <3>2 DEF NextLeft
      <4>3. U[s].state = "none" => Blank(U[s], s)
        BY <1>1, <3>2, <4>1, <4>2 DEF Blank
      <4>4. /\ U[s].state = T[s].state /\ U[s].pc = T[s].pc /\ U[s].exiting = T[s].exiting
            /\ U[s].vfork_done = T[s].vfork_done
        BY Zenon, <1>1, <3>2
      <4>5. /\ T[s].pc = "user" => T[s].state \in {"none", "running"}
            /\ T[s].pc = "wait4" => T[s].state \in {"running", "interruptible"}
            /\ T[s].pc = "status" => T[s].state = "running"
            /\ T[s].pc = "vfork" => T[s].state \in {"running", "uninterruptible"}
            /\ T[s].pc = "exit" => T[s].state \in {"running", "zombie"} /\ T[s].vfork_done = NULL
            /\ T[s].exiting <=> T[s].pc = "exit"
        BY Zenon, <1>0 DEF Phases
      <4> QED
        BY Zenon, <4>3, <4>4, <4>5
    <3> QED
      BY <3>1, <3>2
  <2>2. U[child_reaper].state # "none" /\ U[child_reaper].pc # "exit"
    BY Zenon, <1>0, <1>1, <1>4 DEF Phases
  <2> QED
    BY <2>1, <2>2 DEF Phases
<1>7. Parents(U)
  <2> SUFFICES ASSUME NEW t \in Live(T) \ {child_reaper}, t # p
               PROVE  /\ U[t].pptr \in (Live(T) \ {p}) \ {t} /\ U[U[t].pptr].state # "zombie"
                      /\ U[t].opptr \in (Live(T) \ {p}) \ {t} /\ U[U[t].opptr].state # "zombie"
    BY <1>3 DEF Parents
  <2>1. /\ T[t].pptr \in Live(T) \ {t} /\ T[T[t].pptr].state # "zombie"
        /\ T[t].opptr \in Live(T) \ {t} /\ T[T[t].opptr].state # "zombie"
    BY <1>0 DEF Parents
  <2> QED
    BY <1>1, <1>3, <2>1
<1>8. NoGrandparent(U)
  BY <1>0, <1>1, <1>4 DEF NoGrandparent
<1>9. Completions(U)
  <2>0. \A s \in Tasks \ {p} : U[s].pc = T[s].pc /\ U[s].done = T[s].done /\ U[s].state = T[s].state
    BY Zenon, <1>1
  <2>1. \A c \in Tasks : T[c].vfork_done # NULL => T[c].vfork_done \in Tasks \ {p} /\ c # p
    BY <1>0, <1>4 DEF States, Structs, Completions
  <2>2. \A c \in Tasks : U[c].vfork_done = T[c].vfork_done
    BY <1>1, <1>2, <1>4
  <2>3. ASSUME NEW c \in Tasks, U[c].vfork_done # NULL
        PROVE  U[U[c].vfork_done].pc = "vfork" /\ ~U[U[c].vfork_done].done
    <3> DEFINE d == T[c].vfork_done
    <3>1. T[d].pc = "vfork" /\ ~T[d].done /\ d \in Tasks \ {p}
      BY Zenon, <1>0, <2>1, <2>2, <2>3 DEF Completions
    <3>2. U[c].vfork_done = d
      BY <2>2
    <3> HIDE DEF d
    <3> QED
      BY ONLY <2>0, <3>1, <3>2
  <2>4. ASSUME NEW c \in Tasks, NEW d \in Tasks, U[c].vfork_done = U[d].vfork_done,
               U[c].vfork_done # NULL
        PROVE  c = d
    <3>1. T[c].vfork_done = T[d].vfork_done /\ T[c].vfork_done # NULL
      BY ONLY <2>2, <2>4, c \in Tasks, d \in Tasks
    <3> QED
      BY Zenon, <1>0, <3>1 DEF Completions
  <2>5. ASSUME NEW s \in Tasks, U[s].pc = "vfork", ~U[s].done
        PROVE  \E c \in Tasks : U[c].vfork_done = s
    <3>1. s # p
      BY ONLY <1>2, <2>5
    <3>2. T[s].pc = "vfork" /\ ~T[s].done
      BY ONLY <2>0, <2>5, <3>1, s \in Tasks
    <3>3. PICK c \in Tasks : T[c].vfork_done = s
      BY Zenon, <1>0, <3>2 DEF Completions
    <3> QED
      BY ONLY <2>2, <3>3, c \in Tasks
  <2>6. ASSUME NEW s \in Tasks, U[s].done
        PROVE  U[s].pc = "vfork" /\ U[s].state = "running"
    <3>1. s # p
      BY ONLY <1>2, <2>6
    <3>2. T[s].done /\ U[s].pc = T[s].pc /\ U[s].state = T[s].state
      BY ONLY <2>0, <2>6, <3>1, s \in Tasks
    <3> QED
      BY Zenon, <1>0, <3>2 DEF Completions
  <2> QED
    BY <2>3, <2>4, <2>5, <2>6 DEF Completions
<1>10. Orphans(U) /\ Traced(U)
  BY <1>0, <1>1, <1>3 DEF Orphans, Traced
<1>11. Heard(U)
  <2>1. \A t \in Tasks : U[t].state = "interruptible" =>
            T[t].state = "interruptible" /\ U[t].opt = T[t].opt
    BY <1>1, <1>2
  <2>2. \A x \in Live(U) : /\ x \in Live(T) /\ U[x].state = T[x].state
                           /\ U[x].pptr = T[x].pptr /\ U[x].exit_signal = T[x].exit_signal
    BY <1>1, <1>3
  <2> QED
    BY ONLY Zenon, <1>0, <1>1, <1>5, <2>1, <2>2, HeardKept
<1> QED
  BY <1>1, <1>3, <1>5, <1>6, <1>7, <1>8, <1>9, <1>10, <1>11 DEF Kinship, Family

\* The task that wait4() reports is not the one that another thread has released.
LEMMA GonePins ==
    ASSUME NEW T, Family(T), NEW p \in Live(T), NEW U, Gone(T, U, p),
           NEW S \in SUBSET Tasks, PinnedFor(T, S),
           "status_faults" \notin Stress => \A t \in S : T[t].pc = "status" => T[t].tsk # p
    PROVE  PinnedFor(U, S)
<1>1. p \in Tasks /\ U[p] = NoTask(p)
  BY DEF Gone, Live
<1>2. U[p].pc = "user"
  BY Zenon, <1>1, NoTaskType DEF Blank
<1>3. \A t \in Tasks \ {p} : U[t].pc = T[t].pc /\ U[t].tsk = T[t].tsk /\ (T[t].next = t => U[t].next = t)
  BY DEF Gone, NextLeft
<1>4. \A x \in Live(T) : x # p => x \in Live(U) /\ U[x].state = T[x].state /\ U[x].pptr = T[x].pptr
  BY DEF Gone, Live
<1>5. CASE "status_faults" \in Stress
  BY <1>2, <1>3, <1>5 DEF PinnedFor
<1>6. CASE "status_faults" \notin Stress
  BY <1>2, <1>3, <1>4, <1>6, PinnedKept
<1> QED
  BY <1>5, <1>6

\* The end of wait4(): the dead child goes back to its own parent, or is released.
LEMMA ReapKeeps ==
    ASSUME NEW T, Kinship(T), PinnedFor(T, Tasks),
           NEW t \in Tasks, T[t].state = "running", T[t].pc \in {"user", "wait4", "status"},
           NEW p \in Live(T), T[p].state = "zombie",
           "status_faults" \notin Stress =>
               \A s \in Tasks \ {t} : T[s].pc = "status" => T[s].tsk # p
    PROVE  Kinship(reap(T, t, p)) /\ PinnedFor(reap(T, t, p), Tasks)
<1> DEFINE q == T[p].opptr
           A == set_pptr(T, p, q)
           B == do_notify_parent(A, p)
           C == release_task(T, p)
           X == IF T[p].opptr # T[p].pptr THEN B ELSE C
<1>0. /\ T \in States /\ Family(T) /\ Lists(T, Live(T)) /\ Phases(T) /\ Parents(T)
      /\ p \in Tasks /\ Live(T) \subseteq Tasks
  BY DEF Kinship, Family, Live
<1>1. p # child_reaper /\ T[p].pc = "exit" /\ p # t
  BY <1>0, PhaseOf DEF Phases
<1>2. /\ T[p].pptr \in Live(T) \ {p} /\ T[p].pptr \in Tasks
      /\ q \in Live(T) \ {p} /\ q \in Tasks /\ T[q].state # "zombie"
  BY <1>0, <1>1 DEF Parents
<1>3. PinnedFor(T, Tasks \ {t})
  BY DEF PinnedFor
<1>4. /\ Kinship(X) /\ PinnedFor(X, Tasks \ {t})
      /\ X[t].state = "running" /\ X[t].pc = T[t].pc
  <2>1. CASE T[p].opptr # T[p].pptr
    <3>1. Adopted(T, A, p, q) /\ Lists(A, Live(T))
      BY <1>0, <1>2, MoveEffect
    <3> HIDE DEF A, q
    <3>2. A \in States /\ A[p].pptr = q
      BY <3>1 DEF Adopted
    <3>3. Woken(A, B) /\ Roused(B, q)
      BY <1>0, <1>2, <3>2, NotifyEffect
    <3> HIDE DEF B
    <3>4. Lists(B, Live(T))
      <4>1. \A s \in Tasks : B[s].pptr = A[s].pptr /\ B[s].cptr = A[s].cptr
        BY <3>3 DEF Woken
      <4> QED
        BY <1>0, <3>1, <4>1 DEF Lists
    <3>5. Given(T, B, p, q)
      <4>1. Steady(T, B)
        BY ONLY <3>1, <3>3 DEF Adopted, Woken, Steady
      <4>2. /\ B \in States /\ B[p].pptr = q
            /\ \A s \in Tasks \ {p} : B[s].pptr = T[s].pptr
            /\ Calmed(T, B)
        BY ONLY <1>0, <3>1, <3>3 DEF Adopted, Woken, Calmed
      <4> QED
        BY Zenon, <3>3, <3>4, <4>1, <4>2 DEF Given
    <3>6. Kinship(B)
      BY <1>1, <1>2, <3>5, GivenKeeps DEF q
    <3>7. PinnedFor(B, Tasks \ {t})
      BY <1>0, <1>3, <3>5, GivenPins
    <3>8. B[t].state = "running" /\ B[t].pc = T[t].pc
      BY <3>5 DEF Given, Steady, Calmed
    <3> QED
      BY <2>1, <3>6, <3>7, <3>8
  <2>2. CASE T[p].opptr = T[p].pptr
    <3>1. Gone(T, C, p)
      BY <1>0, ReleaseEffect
    <3> HIDE DEF C
    <3>2. Kinship(C)
      BY <3>1, GoneKeeps
    <3>3. PinnedFor(C, Tasks \ {t})
      BY <1>0, <1>3, <3>1, GonePins
    <3>4. C[t].state = "running" /\ C[t].pc = T[t].pc
      BY <1>1, <3>1 DEF Gone
    <3> QED
      BY <2>2, <3>2, <3>3, <3>4
  <2> QED
    BY Zenon, <2>1, <2>2
<1>5. reap(T, t, p) = return_to_user(X, t)
  BY DEF reap
<1> HIDE DEF X
<1> QED
  BY <1>4, <1>5, ReturnKeeps

\* mm_release() ends the vfork() of the parent, and keeps the family.
LEMMA MmReleaseKeeps ==
    ASSUME NEW T, Kinship(T), PinnedFor(T, Tasks),
           NEW p \in Tasks, T[p].state = "running", T[p].pc = "user"
    PROVE  /\ Kinship(mm_release(T, p)) /\ PinnedFor(mm_release(T, p), Tasks)
           /\ mm_release(T, p)[p].state = "running" /\ mm_release(T, p)[p].pc = "user"
           /\ mm_release(T, p)[p].vfork_done = NULL
           /\ ~mm_release(T, p)[p].done
<1> DEFINE q == T[p].vfork_done
           U == mm_release(T, p)
<1>0. T \in States /\ Phases(T) /\ Completions(T)
  BY DEF Kinship, Family
<1>1. ~T[p].done
  BY <1>0 DEF Completions
<1>2. CASE q = NULL
  BY <1>1, <1>2 DEF mm_release
<1>3. CASE q # NULL
  <2>1. q \in Tasks
    BY <1>0, <1>3 DEF States, Structs
  <2>2. T[q].pc = "vfork" /\ ~T[q].done /\ q # p
    BY <1>0, <1>3 DEF Completions
  <2>3. T[q].state \in {"running", "uninterruptible"}
    BY <1>0, <2>1, <2>2 DEF Phases
  <2> DEFINE a == [T[p] EXCEPT !.vfork_done = NULL]
             b == [T[q] EXCEPT !.done = TRUE]
             c == [b EXCEPT !.state = "running"]
             A == [T EXCEPT ![p] = a]
             B == [A EXCEPT ![q] = b]
             C == [B EXCEPT ![q] = c]
  <2>4. T[p] \in Structs /\ T[q] \in Structs
    BY <1>0, <2>1 DEF States
  <2>5. /\ a \in Structs /\ a.vfork_done = NULL
        /\ a.opptr = T[p].opptr /\ a.next = T[p].next /\ a.exit_signal = T[p].exit_signal
        /\ a.pc = T[p].pc /\ a.opt = T[p].opt /\ a.tsk = T[p].tsk /\ a.exiting = T[p].exiting
        /\ a.done = T[p].done /\ a.pptr = T[p].pptr /\ a.cptr = T[p].cptr /\ a.state = T[p].state
    BY <2>4 DEF Structs
  <2>6. b \in Structs /\ b.state = T[q].state
    BY Zenon, <2>4 DEF Structs
  <2>7. /\ c \in Structs /\ c.done = TRUE /\ c.state = "running"
        /\ c.opptr = T[q].opptr /\ c.next = T[q].next /\ c.exit_signal = T[q].exit_signal
        /\ c.pc = T[q].pc /\ c.opt = T[q].opt /\ c.tsk = T[q].tsk /\ c.exiting = T[q].exiting
        /\ c.vfork_done = T[q].vfork_done /\ c.pptr = T[q].pptr /\ c.cptr = T[q].cptr
    BY Zenon, <2>4 DEF Structs
  <2>8. U = C
    <3>1. [T EXCEPT ![p].vfork_done = NULL, ![q].done = TRUE] = B
      BY <1>0, <2>1, <2>2 DEF States
    <3>2. B[q] = b
      BY Zenon, <1>0, <2>1 DEF States
    <3>3. try_to_wake_up(B, q) = [B EXCEPT ![q] = [B[q] EXCEPT !.state = "running"]]
      <4>1. B[q].state = "running" \/ B[q].state = "uninterruptible"
        BY Zenon, <2>3, <2>6, <3>2
      <4> HIDE DEF B
      <4> QED
        BY Zenon, <4>1 DEF try_to_wake_up
    <3>4. U = try_to_wake_up([T EXCEPT ![p].vfork_done = NULL, ![q].done = TRUE], q)
      BY <1>3 DEF mm_release
    <3> HIDE DEF B, b, U
    <3> QED
      BY Zenon, <3>1, <3>2, <3>3, <3>4
  <2> HIDE DEF a, b, c
  <2>9. A \in States /\ A[p] = a /\ \A t \in Tasks \ {p} : A[t] = T[t]
    BY <1>0, <2>5, TaskStore
  <2> HIDE DEF A
  <2>10. B \in States /\ B[q] = b /\ \A t \in Tasks \ {q} : B[t] = A[t]
    BY <2>1, <2>6, <2>9, TaskStore
  <2> HIDE DEF B
  <2>11. C \in States /\ C[q] = c /\ \A t \in Tasks \ {q} : C[t] = B[t]
    BY <2>1, <2>7, <2>10, TaskStore
  <2> HIDE DEF C, U
  <2>12. /\ U \in States /\ U[p] = a /\ U[q] = c
         /\ \A t \in Tasks \ {p, q} : U[t] = T[t]
    BY <2>1, <2>2, <2>8, <2>9, <2>10, <2>11
  <2> HIDE DEF q
  <2>13. SameLinks(T, U)
    <3> SUFFICES ASSUME NEW t \in Tasks
                 PROVE  /\ U[t].pptr = T[t].pptr /\ U[t].opptr = T[t].opptr
                        /\ U[t].cptr = T[t].cptr /\ U[t].next = T[t].next
                        /\ U[t].exit_signal = T[t].exit_signal
                        /\ U[t].state = "none" <=> T[t].state = "none"
                        /\ U[t].state = "zombie" <=> T[t].state = "zombie"
      BY DEF SameLinks
    <3>1. CASE t = p
      BY <2>5, <2>12, <3>1
    <3>2. CASE t = q
      BY <2>3, <2>7, <2>12, <3>2
    <3>3. CASE t \notin {p, q}
      BY <2>12, <3>3
    <3> QED
      BY <3>1, <3>2, <3>3
  <2>14. Phases(U)
    <3>1. ASSUME NEW s \in Tasks
          PROVE  /\ U[s].state = "none" => Blank(U[s], s)
                 /\ U[s].pc = "user" => U[s].state \in {"none", "running"}
                 /\ U[s].pc = "wait4" => U[s].state \in {"running", "interruptible"}
                 /\ U[s].pc = "status" => U[s].state = "running"
                 /\ U[s].pc = "vfork" => U[s].state \in {"running", "uninterruptible"}
                 /\ U[s].pc = "exit" => U[s].state \in {"running", "zombie"} /\ U[s].vfork_done = NULL
                 /\ U[s].exiting <=> U[s].pc = "exit"
      <4>1. T[s].exiting <=> T[s].pc = "exit"
        BY <1>0 DEF Phases
      <4>2. CASE s = p
        BY <2>5, <2>12, <4>1, <4>2
      <4>3. CASE s = q
        BY <2>2, <2>7, <2>12, <4>1, <4>3
      <4>4. CASE s \notin {p, q}
        BY <1>0, <2>12, <4>4 DEF Phases
      <4> QED
        BY <4>2, <4>3, <4>4
    <3>2. U[child_reaper].state # "none" /\ U[child_reaper].pc # "exit"
      <4>1. T[child_reaper].state # "none" /\ T[child_reaper].pc # "exit" /\ child_reaper \in Tasks
        BY Zenon, <1>0, TreeAssumption DEF Phases
      <4>2. CASE child_reaper = p
        BY Zenon, <2>5, <2>12, <4>1, <4>2
      <4>3. CASE child_reaper = q
        BY <2>2, <2>7, <2>12, <4>3
      <4>4. CASE child_reaper \notin {p, q}
        BY Zenon, <2>12, <4>1, <4>4
      <4> QED
        BY <4>2, <4>3, <4>4
    <3> QED
      BY <3>1, <3>2 DEF Phases
  <2>15. Completions(U)
    <3>1. /\ U[p].vfork_done = NULL /\ T[p].vfork_done = q
          /\ \A t \in Tasks \ {p} : U[t].vfork_done = T[t].vfork_done
      BY Zenon, <2>5, <2>7, <2>12 DEF q
    <3>2. \A t \in Tasks \ {q} : U[t].pc = T[t].pc /\ U[t].done = T[t].done /\ U[t].state = T[t].state
      BY <2>5, <2>12
    <3>3. U[q].pc = "vfork" /\ U[q].done /\ U[q].state = "running"
      BY <2>2, <2>7, <2>12
    <3>4. \A t \in Tasks \ {p} : T[t].vfork_done # q
      BY <1>0, <1>3, <3>1 DEF Completions
    <3>5. \A t \in Tasks : T[t].vfork_done # NULL => T[t].vfork_done \in Tasks
      BY <1>0 DEF States, Structs
    <3>6. \A t \in Tasks : U[t].vfork_done # NULL =>
              U[U[t].vfork_done].pc = "vfork" /\ ~U[U[t].vfork_done].done
      BY <1>0, <3>1, <3>2, <3>4, <3>5 DEF Completions
    <3>7. \A t, d \in Tasks : U[t].vfork_done = U[d].vfork_done /\ U[t].vfork_done # NULL => t = d
      BY <1>0, <3>1 DEF Completions
    <3>8. \A s \in Tasks : U[s].pc = "vfork" /\ ~U[s].done => \E t \in Tasks : U[t].vfork_done = s
      <4> SUFFICES ASSUME NEW s \in Tasks, U[s].pc = "vfork", ~U[s].done
                   PROVE  \E t \in Tasks : U[t].vfork_done = s
        OBVIOUS
      <4>1. s # q
        BY <3>3
      <4>2. PICK t \in Tasks : T[t].vfork_done = s
        BY <1>0, <3>2, <4>1 DEF Completions
      <4>3. t # p
        BY <3>1, <4>1, <4>2
      <4> QED
        BY <3>1, <4>2, <4>3
    <3>9. \A s \in Tasks : U[s].done => U[s].pc = "vfork" /\ U[s].state = "running"
      BY <1>0, <3>2, <3>3 DEF Completions
    <3> QED
      BY <3>6, <3>7, <3>8, <3>9 DEF Completions
  <2>16. \A t \in Tasks : U[t].state = "interruptible" =>
             T[t].state = "interruptible" /\ U[t].opt = T[t].opt
    BY <2>5, <2>7, <2>12
  <2>17. Kinship(U)
    BY <2>12, <2>13, <2>14, <2>15, <2>16, QuietKept
  <2>18. PinnedFor(U, Tasks)
    <3>1. \A t \in Tasks : U[t].pc = T[t].pc /\ U[t].tsk = T[t].tsk
      BY <2>5, <2>7, <2>12
    <3>2. \A x \in Live(T) : T[x].state = "zombie" =>
              x \in Live(U) /\ U[x].state = "zombie" /\ U[x].pptr = T[x].pptr
      BY <2>13 DEF SameLinks, Live
    <3>3. \A t \in Tasks : U[t].next = T[t].next
      BY <2>13 DEF SameLinks
    <3> QED
      BY <3>1, <3>2, <3>3, PinnedKept
  <2> QED
    BY <1>1, <2>5, <2>12, <2>17, <2>18 DEF U
<1> QED
  BY <1>2, <1>3

=============================================================================
