----------------------------- MODULE TreeProofs -----------------------------
(***************************************************************************)
(* Proofs about the process tree, for any finite set of tasks, any options *)
(* of wait4() and any flags of clone().                                    *)
(***************************************************************************)
EXTENDS TreeLemmas

\* do_exit() up to the calls that may sleep.
LEMMA BeginExitKeeps ==
    ASSUME NEW T, Kinship(T), PinnedFor(T, Tasks),
           NEW p \in Tasks \ {child_reaper}, T[p].state = "running", T[p].pc = "user",
           T[p].vfork_done = NULL, ~T[p].done
    PROVE  /\ Kinship([T EXCEPT ![p].exiting = TRUE, ![p].pc = "exit"])
           /\ PinnedFor([T EXCEPT ![p].exiting = TRUE, ![p].pc = "exit"], Tasks)
<1> DEFINE r == [T[p] EXCEPT !.exiting = TRUE, !.pc = "exit"]
           U == [T EXCEPT ![p] = r]
<1>0. T \in States /\ Phases(T) /\ Completions(T) /\ T[p] \in Structs
  BY DEF Kinship, Family, States
<1>1. [T EXCEPT ![p].exiting = TRUE, ![p].pc = "exit"] = U
  BY Zenon, <1>0 DEF States
<1>2. /\ r \in Structs /\ r.exiting = TRUE /\ r.pc = "exit"
      /\ r.opptr = T[p].opptr /\ r.next = T[p].next /\ r.exit_signal = T[p].exit_signal
      /\ r.opt = T[p].opt /\ r.tsk = T[p].tsk /\ r.vfork_done = T[p].vfork_done
      /\ r.done = T[p].done /\ r.pptr = T[p].pptr /\ r.cptr = T[p].cptr /\ r.state = T[p].state
  BY Zenon, <1>0 DEF Structs
<1> HIDE DEF r
<1>3. U \in States /\ U[p] = r /\ \A t \in Tasks \ {p} : U[t] = T[t]
  BY <1>0, <1>2, TaskStore
<1> HIDE DEF U
<1>4. SameLinks(T, U)
  BY <1>2, <1>3 DEF SameLinks
<1>5. Phases(U)
  <2>1. ASSUME NEW s \in Tasks
        PROVE  /\ U[s].state = "none" => Blank(U[s], s)
               /\ U[s].pc = "user" => U[s].state \in {"none", "running"}
               /\ U[s].pc = "wait4" => U[s].state \in {"running", "interruptible"}
               /\ U[s].pc = "status" => U[s].state = "running"
               /\ U[s].pc = "vfork" => U[s].state \in {"running", "uninterruptible"}
               /\ U[s].pc = "exit" => U[s].state \in {"running", "zombie"} /\ U[s].vfork_done = NULL
               /\ U[s].exiting <=> U[s].pc = "exit"
    <3>1. CASE s = p
      BY <1>2, <1>3, <3>1
    <3>2. CASE s # p
      BY <1>0, <1>3, <3>2 DEF Phases
    <3> QED
      BY <3>1, <3>2
  <2>2. U[child_reaper].state # "none" /\ U[child_reaper].pc # "exit"
    BY <1>0, <1>3, TreeAssumption DEF Phases
  <2> QED
    BY <2>1, <2>2 DEF Phases
<1>6. Completions(U)
  <2>1. \A c \in Tasks : U[c].vfork_done = T[c].vfork_done /\ U[c].done = T[c].done /\ U[c].state = T[c].state
    BY <1>2, <1>3
  <2>2. \A c \in Tasks : T[c].vfork_done # NULL => T[c].vfork_done \in Tasks \ {p}
    BY <1>0 DEF States, Structs, Completions
  <2>3. \A c \in Tasks : c # p => U[c].pc = T[c].pc
    BY <1>3
  <2>4. U[p].pc # "vfork"
    BY <1>2, <1>3
  <2>5. \A c \in Tasks : U[c].vfork_done # NULL =>
            U[U[c].vfork_done].pc = "vfork" /\ ~U[U[c].vfork_done].done
    BY <1>0, <2>1, <2>2, <2>3 DEF Completions
  <2> QED
    BY <1>0, <2>1, <2>3, <2>4, <2>5 DEF Completions
<1>7. \A t \in Tasks : U[t].state = "interruptible" =>
          T[t].state = "interruptible" /\ U[t].opt = T[t].opt
  BY <1>2, <1>3
<1>8. Kinship(U)
  BY <1>3, <1>4, <1>5, <1>6, <1>7, QuietKept
<1>9. PinnedFor(U, Tasks)
  <2>1. \A t \in Tasks : U[t].pc = "status" => U[t].pc = T[t].pc /\ U[t].tsk = T[t].tsk
    BY <1>2, <1>3
  <2>2. \A x \in Live(T) : T[x].state = "zombie" =>
            x \in Live(U) /\ U[x].state = "zombie" /\ U[x].pptr = T[x].pptr
    BY <1>4 DEF SameLinks, Live
  <2>3. \A t \in Tasks : U[t].next = T[t].next
    BY <1>4 DEF SameLinks
  <2> QED
    BY <2>1, <2>2, <2>3, PinnedKept
<1> QED
  BY Zenon, <1>1, <1>8, <1>9

\* The exit of a process keeps the family.
LEMMA ExitKeeps ==
    ASSUME NEW T, Kinship(T), PinnedFor(T, Tasks), NEW p \in Live(T), T[p].exiting,
           T[p].state = "running", NEW Z, Exited(T, Z, p)
    PROVE  Kinship(Z) /\ PinnedFor(Z, Tasks)
<1>0. /\ T \in States /\ Lists(T, Live(T)) /\ Rings(T) /\ Phases(T) /\ Parents(T)
      /\ NoGrandparent(T) /\ Completions(T) /\ Orphans(T) /\ Traced(T) /\ Heard(T)
      /\ p \in Tasks /\ Live(T) \subseteq Tasks /\ child_reaper \in Tasks
  BY TreeAssumption DEF Kinship, Family, Live
<1>1. /\ Z \in States /\ Unmoved(T, Z) /\ Bequeathed(T, Z, p) /\ Lists(Z, Live(T))
      /\ Z[p].state = "zombie"
      /\ \A t \in Tasks \ {p} : \/ Z[t].state = T[t].state
                                \/ T[t].state = "interruptible" /\ Z[t].state = "running"
      /\ \A t \in Tasks : Z[t].pptr = IF T[t].pptr = p THEN Z[t].opptr ELSE T[t].pptr
      /\ \A t \in Live(T) : Z[t].state = "zombie" /\ (t = p \/ T[t].pptr = p) => Roused(Z, Z[t].pptr)
  BY DEF Exited
<1>2. /\ \A t \in Tasks : /\ Z[t].next = T[t].next /\ Z[t].pc = T[t].pc /\ Z[t].opt = T[t].opt
                          /\ Z[t].tsk = T[t].tsk /\ Z[t].exiting = T[t].exiting
                          /\ Z[t].vfork_done = T[t].vfork_done /\ Z[t].done = T[t].done
  BY <1>1 DEF Unmoved
<1>3. Live(Z) = Live(T)
  BY <1>1 DEF Live
<1>4. T[p].pc = "exit" /\ p # child_reaper
  BY <1>0 DEF Phases
<1>5. Rings(Z)
  BY <1>0, <1>2 DEF Rings
<1>6. Phases(Z)
  <2>1. ASSUME NEW s \in Tasks
        PROVE  /\ Z[s].state = "none" => Blank(Z[s], s)
               /\ Z[s].pc = "user" => Z[s].state \in {"none", "running"}
               /\ Z[s].pc = "wait4" => Z[s].state \in {"running", "interruptible"}
               /\ Z[s].pc = "status" => Z[s].state = "running"
               /\ Z[s].pc = "vfork" => Z[s].state \in {"running", "uninterruptible"}
               /\ Z[s].pc = "exit" => Z[s].state \in {"running", "zombie"} /\ Z[s].vfork_done = NULL
               /\ Z[s].exiting <=> Z[s].pc = "exit"
    <3>0. /\ T[s].state = "none" => Blank(T[s], s)
          /\ T[s].pc = "user" => T[s].state \in {"none", "running"}
          /\ T[s].pc = "wait4" => T[s].state \in {"running", "interruptible"}
          /\ T[s].pc = "status" => T[s].state = "running"
          /\ T[s].pc = "vfork" => T[s].state \in {"running", "uninterruptible"}
          /\ T[s].pc = "exit" => T[s].state \in {"running", "zombie"} /\ T[s].vfork_done = NULL
          /\ T[s].exiting <=> T[s].pc = "exit"
      BY <1>0 DEF Phases
    <3>1. CASE s = p
      BY <1>1, <1>2, <1>4, <3>0, <3>1
    <3>2. CASE s # p
      <4>1. Z[s].state = "none" => Blank(Z[s], s)
        <5> SUFFICES ASSUME Z[s].state = "none" PROVE Blank(Z[s], s)
          OBVIOUS
        <5>1. T[s].state = "none" /\ Blank(T[s], s)
          BY <1>1, <3>0, <3>2
        <5>2. T[s].pptr # p /\ T[s].opptr # p
          BY <1>0, <5>1, TreeAssumption DEF Blank
        <5>3. Z[s].pptr = T[s].pptr /\ Z[s].opptr = T[s].opptr
          BY <1>1, <5>2 DEF Bequeathed
        <5> QED
          BY <1>2, <5>1, <5>3 DEF Blank
      <4> QED
        BY <1>1, <1>2, <3>0, <3>2, <4>1
    <3> QED
      BY <3>1, <3>2
  <2>2. Z[child_reaper].state # "none" /\ Z[child_reaper].pc # "exit"
    BY <1>0, <1>1, <1>2, <1>4 DEF Phases
  <2> QED
    BY <2>1, <2>2 DEF Phases
<1>7. ASSUME NEW t \in Live(T) \ {child_reaper}
      PROVE  Z[t].opptr \in Live(T) \ {t, p} /\ Z[Z[t].opptr].state # "zombie"
  <2>1. T[t].opptr \in Live(T) \ {t} /\ T[T[t].opptr].state # "zombie"
    BY <1>0 DEF Parents
  <2>2. CASE T[t].opptr = p
    <3>1. Z[t].opptr \in Live(T) \ {t, p} /\ ~T[Z[t].opptr].exiting
      BY <1>0, <1>1, <2>2 DEF Bequeathed
    <3>2. T[Z[t].opptr].state # "zombie"
      BY <1>0, <3>1, PhaseOf
    <3> QED
      BY <1>0, <1>1, <3>1, <3>2
  <2>3. CASE T[t].opptr # p
    <3>1. Z[t].opptr = T[t].opptr
      BY <1>0, <1>1, <2>3 DEF Bequeathed
    <3> QED
      BY <1>0, <1>1, <2>1, <2>3, <3>1
  <2> QED
    BY <2>2, <2>3
<1>8. Parents(Z)
  <2> SUFFICES ASSUME NEW t \in Live(T) \ {child_reaper}
               PROVE  /\ Z[t].pptr \in Live(T) \ {t} /\ Z[Z[t].pptr].state # "zombie"
                      /\ Z[t].opptr \in Live(T) \ {t} /\ Z[Z[t].opptr].state # "zombie"
    BY <1>3 DEF Parents
  <2>1. T[t].pptr \in Live(T) \ {t} /\ T[T[t].pptr].state # "zombie"
    BY <1>0 DEF Parents
  <2>2. CASE T[t].pptr = p
    BY <1>0, <1>1, <1>7, <2>2
  <2>3. CASE T[t].pptr # p
    BY <1>0, <1>1, <1>7, <2>1, <2>3
  <2> QED
    BY <2>2, <2>3
<1>9. NoGrandparent(Z)
  <2>1. T[child_reaper].pptr # p /\ T[child_reaper].opptr # p
    BY <1>0, TreeAssumption DEF NoGrandparent
  <2> QED
    BY <1>0, <1>1, <2>1 DEF NoGrandparent, Bequeathed
<1>10. Completions(Z)
  <2>1. \A c \in Tasks : T[c].vfork_done # NULL => T[c].vfork_done \in Tasks
    BY <1>0 DEF States, Structs
  <2>2. \A s \in Tasks : Z[s].done => Z[s].pc = "vfork" /\ Z[s].state = "running"
    BY <1>0, <1>1, <1>2, <1>4 DEF Completions
  <2> QED
    BY <1>0, <1>2, <2>1, <2>2 DEF Completions
<1>11. Orphans(Z)
  <2> SUFFICES ASSUME "clone_for_init" \notin Stress, NEW t \in Live(T), Z[t].opptr = child_reaper
               PROVE  Z[t].exit_signal = "SIGCHLD"
    BY <1>3 DEF Orphans
  <2>1. CASE T[t].opptr = p
    BY <1>0, <1>1, <2>1 DEF Bequeathed
  <2>2. CASE T[t].opptr # p
    <3>1. T[t].opptr = child_reaper
      BY <1>0, <1>1, <2>2 DEF Bequeathed
    <3>2. T[t].exit_signal = "SIGCHLD"
      BY <1>0, <3>1 DEF Orphans
    <3> QED
      BY <1>0, <1>1, <2>2, <3>2 DEF Bequeathed
  <2> QED
    BY <2>1, <2>2
<1>12. Traced(Z)
  <2> SUFFICES ASSUME "trace_clone" \notin Stress, NEW t \in Live(T), Z[t].opptr # Z[t].pptr
               PROVE  Z[t].exit_signal = "SIGCHLD"
    BY <1>3 DEF Traced
  <2>1. CASE T[t].opptr = p
    BY <1>0, <1>1, <2>1 DEF Bequeathed
  <2>2. CASE T[t].opptr # p
    <3>1. Z[t].opptr = T[t].opptr /\ T[t].pptr # p /\ Z[t].pptr = T[t].pptr
      BY <1>0, <1>1, <2>2 DEF Bequeathed
    <3>2. T[t].exit_signal = "SIGCHLD"
      BY <1>0, <3>1 DEF Traced
    <3> QED
      BY <1>0, <1>1, <2>2, <3>2 DEF Bequeathed
  <2> QED
    BY <2>1, <2>2
<1>13. Heard(Z)
  <2>1. \A t \in Tasks : Group(Z, t) = Group(T, t)
    BY Zenon, <1>0, <1>1, <1>2, SameGroups
  <2>2. \A t \in Tasks : Z[t].state = "interruptible" =>
            T[t].state = "interruptible" /\ Z[t].opt = T[t].opt
    BY <1>1, <1>2
  <2>3. ASSUME "trace_clone" \notin Stress, NEW x \in Live(Z), Z[x].state = "zombie",
               ~Roused(Z, Z[x].pptr)
        PROVE  /\ x \in Live(T) /\ T[x].state = "zombie"
               /\ Z[x].pptr = T[x].pptr /\ Z[x].exit_signal = T[x].exit_signal
    <3>1. x \in Live(T) /\ x \in Tasks /\ x # p /\ T[x].pptr # p
      BY <1>0, <1>1, <1>3, <2>3
    <3>2. T[x].state = "zombie" /\ Z[x].pptr = T[x].pptr
      BY <1>1, <2>3, <3>1
    <3>3. CASE T[x].opptr = p
      <4>1. T[x].exit_signal = "SIGCHLD"
        BY <1>0, <2>3, <3>1, <3>3 DEF Traced
      <4> QED
        BY <1>1, <3>1, <3>2, <3>3, <4>1 DEF Bequeathed
    <3>4. CASE T[x].opptr # p
      BY <1>1, <3>1, <3>2, <3>4 DEF Bequeathed
    <3> QED
      BY <3>3, <3>4
  <2> QED
    BY <1>0, <1>1, <1>5, <2>1, <2>2, <2>3, HeardKept
<1>14. PinnedFor(Z, Tasks)
  <2>1. ASSUME NEW t \in Tasks, Z[t].pc = "status",
               NEW x \in Live(T), T[x].state = "zombie", T[x].pptr = t
        PROVE  x \in Live(Z) /\ Z[x].state = "zombie" /\ Z[x].pptr = t
    <3>1. t # p /\ x # p
      BY <1>2, <1>4, <2>1
    <3> QED
      BY <1>0, <1>1, <1>3, <2>1, <3>1
  <2> QED
    BY <1>2, <2>1, PinnedKept
<1> QED
  BY <1>1, <1>3, <1>5, <1>6, <1>8, <1>9, <1>10, <1>11, <1>12, <1>13, <1>14 DEF Kinship, Family

\* p has made the child c.
Forked(T, U, p, c, f) ==
    /\ U \in States
    /\ Lists(U, Live(T) \cup {c})
    /\ U[c].state = "running" /\ U[c].pc = "user" /\ ~U[c].exiting /\ ~U[c].done
    /\ U[c].exit_signal = f.signal
    /\ U[c].opptr = IF f.parent THEN T[p].opptr ELSE p
    /\ U[c].pptr = IF f.parent THEN T[p].pptr ELSE p
    /\ U[c].vfork_done = IF f.vfork THEN p ELSE NULL
    /\ U[c].next = IF f.thread THEN T[p].next ELSE c
    /\ U[p].next = IF f.thread THEN c ELSE T[p].next
    /\ U[p].pc = IF f.vfork THEN "vfork" ELSE "user"
    /\ U[p].state = IF f.vfork THEN "uninterruptible" ELSE "running"
    /\ \A t \in Tasks \ {c} :
        /\ U[t].opptr = T[t].opptr /\ U[t].pptr = T[t].pptr
        /\ U[t].exit_signal = T[t].exit_signal /\ U[t].opt = T[t].opt
        /\ U[t].tsk = T[t].tsk /\ U[t].exiting = T[t].exiting
        /\ U[t].vfork_done = T[t].vfork_done /\ U[t].done = T[t].done
    /\ \A t \in Tasks \ {c, p} :
        U[t].next = T[t].next /\ U[t].pc = T[t].pc /\ U[t].state = T[t].state

\* A task structure in use points to no free one.
LEMMA FreeUnseen ==
    ASSUME NEW T, Family(T), NEW c \in Tasks, T[c].state = "none"
    PROVE  /\ Blank(T[c], c) /\ c # child_reaper
           /\ \A t \in Tasks : T[t].pptr # c /\ T[t].opptr # c /\ T[t].vfork_done # c
           /\ \A t \in Tasks : T[t].next = c => t = c
<1>0. /\ T \in States /\ Rings(T) /\ Phases(T) /\ Parents(T) /\ NoGrandparent(T) /\ Completions(T)
      /\ child_reaper \in Tasks /\ NULL \notin Tasks
  BY TreeAssumption DEF Family
<1>1. Blank(T[c], c) /\ c # child_reaper
  BY <1>0 DEF Phases
<1>2. ASSUME NEW t \in Tasks PROVE T[t].pptr # c /\ T[t].opptr # c /\ T[t].vfork_done # c
  <2>1. T[t].vfork_done # c
    BY <1>0, <1>1 DEF Completions, Blank
  <2>2. CASE T[t].state = "none"
    <3>1. T[t].pptr = NULL /\ T[t].opptr = NULL
      BY <1>0, <2>2 DEF Phases, Blank
    <3> QED
      BY <1>0, <2>1, <3>1
  <2>3. CASE t = child_reaper
    BY <1>0, <2>1, <2>3 DEF NoGrandparent
  <2>4. CASE T[t].state # "none" /\ t # child_reaper
    BY <1>0, <2>1, <2>4 DEF Parents, Live
  <2> QED
    BY <2>2, <2>3, <2>4
<1>3. \A t \in Tasks : T[t].next = c => t = c
  BY <1>0, <1>1 DEF Rings, Blank
<1> QED
  BY <1>1, <1>2, <1>3

\* What do_fork() does to the tasks.
LEMMA ForkEffect ==
    ASSUME NEW T, Family(T), NEW p \in Tasks, T[p].state = "running", T[p].pc = "user",
           NEW c \in Tasks, T[c].state = "none", NEW f \in CloneFlag,
           f.parent => p # child_reaper
    PROVE  Forked(T, IF f.vfork
                     THEN [link_child(T, p, c, f) EXCEPT ![p].pc = "vfork",
                                                         ![p].state = "uninterruptible"]
                     ELSE link_child(T, p, c, f), p, c, f)
<1> DEFINE o == IF f.parent THEN T[p].opptr ELSE p
           q == IF f.parent THEN T[p].pptr ELSE p
           x == IF f.thread THEN T[p].next ELSE c
           y == IF f.thread THEN c ELSE T[p].next
           v == IF f.vfork THEN p ELSE NULL
           n == [NoTask(c) EXCEPT !.state = "running", !.exit_signal = f.signal, !.opptr = o,
                                  !.pptr = q, !.next = x, !.vfork_done = v]
           A == [T EXCEPT ![c] = n]
           B == [A EXCEPT ![p].next = y]
           C == SET_LINKS(B, c)
<1>0. /\ T \in States /\ Lists(T, Live(T)) /\ Parents(T) /\ p # c /\ p \in Live(T)
      /\ c \notin Live(T) /\ Live(T) \subseteq Tasks
  BY DEF Family, Live
<1>1. /\ f.signal \in {"SIGCHLD", "other"} /\ f.parent \in BOOLEAN /\ f.thread \in BOOLEAN
      /\ f.vfork \in BOOLEAN
  BY DEF CloneFlag
<1>2. T[p].next \in Tasks /\ (p # child_reaper => T[p].opptr \in Tasks /\ T[p].pptr \in Tasks)
  BY <1>0 DEF Parents, States, Structs
<1>3. o \in Tasks /\ q \in Tasks /\ x \in Tasks /\ y \in Tasks /\ v \in Tasks \cup {NULL}
  BY <1>1, <1>2
<1>4. link_child(T, p, c, f) = C
  <2>1. A[p] = T[p]
    BY <1>0 DEF States
  <2>2. [T EXCEPT ![c] = n, ![p].next = IF f.thread THEN c ELSE @] = B
    BY <1>0, <2>1 DEF States
  <2> QED
    BY <2>2 DEF link_child
<1> HIDE DEF o, q, x, y, v
<1>5. /\ n \in Structs /\ n.state = "running" /\ n.pc = "user" /\ n.exiting = FALSE
      /\ n.done = FALSE /\ n.exit_signal = f.signal /\ n.opptr = o /\ n.pptr = q
      /\ n.vfork_done = v /\ n.next = x /\ n.cptr = <<>>
  <2>1. NoTask(c) \in Structs
    BY Zenon, NoTaskType
  <2> QED
    BY Zenon, <1>1, <1>3, <2>1 DEF Structs, NoTask
<1> HIDE DEF n
<1>6. A \in States /\ A[c] = n /\ \A t \in Tasks \ {c} : A[t] = T[t]
  BY <1>0, <1>5, TaskStore
<1> HIDE DEF A
<1>7. /\ SameButNext(A, B) /\ B[p].next = y
      /\ \A t \in Tasks \ {p} : B[t].next = A[t].next
  BY <1>3, <1>6, Rechain
<1> HIDE DEF B
<1>8. B \in States /\ \A t \in Tasks : B[t].pptr = A[t].pptr /\ B[t].cptr = A[t].cptr
  BY <1>7 DEF SameButNext
<1>9. Lists(B, Live(T))
  <2> SUFFICES ASSUME NEW s \in Tasks
               PROVE  /\ IsInjective(B[s].cptr)
                      /\ Range(B[s].cptr) = {z \in Live(T) : B[z].pptr = s}
    BY DEF Lists
  <2>1. \A z \in Live(T) : B[z].pptr = T[z].pptr
    BY <1>0, <1>6, <1>8
  <2>2. CASE s = c
    <3>1. B[s].cptr = <<>>
      BY <1>5, <1>6, <1>8, <2>2
    <3>2. \A z \in Live(T) : B[z].pptr # s
      BY <1>0, <2>1, <2>2, FreeUnseen
    <3>3. IsInjective(<<>>) /\ Range(<<>>) = {}
      BY DEF IsInjective, Range
    <3> QED
      BY <3>1, <3>2, <3>3
  <2>3. CASE s # c
    <3>1. IsInjective(T[s].cptr) /\ Range(T[s].cptr) = {z \in Live(T) : T[z].pptr = s}
      BY <1>0 DEF Lists
    <3>2. B[s].cptr = T[s].cptr
      BY <1>6, <1>8, <2>3
    <3> QED
      BY <2>1, <3>1, <3>2
  <2> QED
    BY <2>2, <2>3
<1>10. B[c].pptr \in Tasks /\ c \in Tasks \ Live(T) /\ Live(T) \in SUBSET Tasks
  BY <1>0, <1>3, <1>5, <1>6, <1>8
<1>11. Relisted(B, C) /\ Lists(C, Live(T) \cup {c})
  BY ONLY <1>8, <1>9, <1>10, SetEffect
<1> HIDE DEF C
<1>12. /\ C \in States
       /\ C[c].state = "running" /\ C[c].pc = "user" /\ ~C[c].exiting /\ ~C[c].done
       /\ C[c].exit_signal = f.signal /\ C[c].opptr = o /\ C[c].pptr = q /\ C[c].vfork_done = v
       /\ C[c].next = x /\ C[p].next = y /\ C[p].pc = "user" /\ C[p].state = "running"
       /\ \A t \in Tasks \ {c} :
            /\ C[t].opptr = T[t].opptr /\ C[t].pptr = T[t].pptr
            /\ C[t].exit_signal = T[t].exit_signal /\ C[t].opt = T[t].opt
            /\ C[t].tsk = T[t].tsk /\ C[t].exiting = T[t].exiting
            /\ C[t].vfork_done = T[t].vfork_done /\ C[t].done = T[t].done
       /\ \A t \in Tasks \ {c, p} :
            C[t].next = T[t].next /\ C[t].pc = T[t].pc /\ C[t].state = T[t].state
  <2>1. /\ C \in States
        /\ \A t \in Tasks :
            /\ C[t].opptr = B[t].opptr /\ C[t].pptr = B[t].pptr /\ C[t].next = B[t].next
            /\ C[t].exit_signal = B[t].exit_signal /\ C[t].opt = B[t].opt /\ C[t].pc = B[t].pc
            /\ C[t].tsk = B[t].tsk /\ C[t].exiting = B[t].exiting /\ C[t].state = B[t].state
            /\ C[t].vfork_done = B[t].vfork_done /\ C[t].done = B[t].done
    BY Zenon, <1>11 DEF Relisted, Steady
  <2>2. \A t \in Tasks :
            /\ B[t].opptr = A[t].opptr /\ B[t].pptr = A[t].pptr
            /\ B[t].exit_signal = A[t].exit_signal /\ B[t].opt = A[t].opt /\ B[t].pc = A[t].pc
            /\ B[t].tsk = A[t].tsk /\ B[t].exiting = A[t].exiting /\ B[t].state = A[t].state
            /\ B[t].vfork_done = A[t].vfork_done /\ B[t].done = A[t].done
    BY Zenon, <1>7 DEF SameButNext
  <2>3. p \in Tasks \ {c} /\ c \in Tasks \ {p} /\ T[p].pc = "user" /\ T[p].state = "running"
    BY <1>0
  <2>4. /\ C[c].state = "running" /\ C[c].pc = "user" /\ ~C[c].exiting /\ ~C[c].done
        /\ C[c].exit_signal = f.signal /\ C[c].opptr = o /\ C[c].pptr = q /\ C[c].vfork_done = v
        /\ C[c].next = x
    BY ONLY <1>5, <1>6, <1>7, <2>1, <2>2, <2>3
  <2>5. C[p].next = y /\ C[p].pc = "user" /\ C[p].state = "running"
    BY ONLY <1>6, <1>7, <2>1, <2>2, <2>3
  <2>6. \A t \in Tasks \ {c} :
            /\ C[t].opptr = T[t].opptr /\ C[t].pptr = T[t].pptr
            /\ C[t].exit_signal = T[t].exit_signal /\ C[t].opt = T[t].opt
            /\ C[t].tsk = T[t].tsk /\ C[t].exiting = T[t].exiting
            /\ C[t].vfork_done = T[t].vfork_done /\ C[t].done = T[t].done
    BY ONLY <1>6, <2>1, <2>2
  <2>7. \A t \in Tasks \ {c, p} :
            C[t].next = T[t].next /\ C[t].pc = T[t].pc /\ C[t].state = T[t].state
    BY ONLY <1>6, <1>7, <2>1, <2>2
  <2> QED
    BY ONLY <2>1, <2>4, <2>5, <2>6, <2>7
<1>13. CASE ~f.vfork
  BY <1>4, <1>11, <1>12, <1>13 DEF Forked, o, q, x, y, v
<1>14. CASE f.vfork
  <2> DEFINE r == [C[p] EXCEPT !.pc = "vfork", !.state = "uninterruptible"]
             Z == [C EXCEPT ![p] = r]
  <2>0. C[p] \in Structs
    BY <1>12 DEF States
  <2>1. /\ r \in Structs /\ r.pc = "vfork" /\ r.state = "uninterruptible"
        /\ r.opptr = C[p].opptr /\ r.pptr = C[p].pptr /\ r.cptr = C[p].cptr
        /\ r.next = C[p].next /\ r.exit_signal = C[p].exit_signal /\ r.opt = C[p].opt
        /\ r.tsk = C[p].tsk /\ r.exiting = C[p].exiting /\ r.vfork_done = C[p].vfork_done
        /\ r.done = C[p].done
    BY Zenon, <2>0 DEF Structs
  <2>2. [C EXCEPT ![p].pc = "vfork", ![p].state = "uninterruptible"] = Z
    BY Zenon, <1>12 DEF States
  <2> HIDE DEF r
  <2>3. Z \in States /\ Z[p] = r /\ \A t \in Tasks \ {p} : Z[t] = C[t]
    BY <1>12, <2>1, TaskStore
  <2> HIDE DEF Z
  <2>4. \A t \in Tasks : Z[t].pptr = C[t].pptr /\ Z[t].cptr = C[t].cptr
    BY <2>1, <2>3
  <2>5. Lists(Z, Live(T) \cup {c})
    BY <1>0, <1>11, <2>4 DEF Lists
  <2>6. Forked(T, Z, p, c, f)
    <3>1. /\ Z[p].pc = "vfork" /\ Z[p].state = "uninterruptible" /\ Z[p].next = C[p].next
      BY Zenon, <2>1, <2>3
    <3>2. \A t \in Tasks :
            /\ Z[t].opptr = C[t].opptr /\ Z[t].pptr = C[t].pptr
            /\ Z[t].exit_signal = C[t].exit_signal /\ Z[t].opt = C[t].opt
            /\ Z[t].tsk = C[t].tsk /\ Z[t].exiting = C[t].exiting
            /\ Z[t].vfork_done = C[t].vfork_done /\ Z[t].done = C[t].done
      BY Zenon, <2>1, <2>3
    <3>3. /\ Z[c].opptr = o /\ Z[c].pptr = q /\ Z[c].vfork_done = v /\ Z[c].next = x
          /\ Z[c].exit_signal = f.signal /\ Z[p].next = y
          /\ Z[c].state = "running" /\ Z[c].pc = "user" /\ ~Z[c].exiting /\ ~Z[c].done
      BY Zenon, <1>0, <1>12, <2>3, <3>1
    <3>4. \A t \in Tasks \ {c} :
            /\ Z[t].opptr = T[t].opptr /\ Z[t].pptr = T[t].pptr
            /\ Z[t].exit_signal = T[t].exit_signal /\ Z[t].opt = T[t].opt
            /\ Z[t].tsk = T[t].tsk /\ Z[t].exiting = T[t].exiting
            /\ Z[t].vfork_done = T[t].vfork_done /\ Z[t].done = T[t].done
      BY ONLY <1>12, <3>2
    <3>5. \A t \in Tasks \ {c, p} :
            Z[t].next = T[t].next /\ Z[t].pc = T[t].pc /\ Z[t].state = T[t].state
      BY Zenon, <1>12, <2>3
    <3> QED
      BY Zenon, <1>14, <2>3, <2>5, <3>1, <3>3, <3>4, <3>5 DEF Forked, o, q, x, y, v
  <2> QED
    BY Zenon, <1>4, <1>14, <2>2, <2>6
<1> QED
  BY <1>13, <1>14

\* A new thread is put into the ring behind its parent.
LEMMA ForkRings ==
    ASSUME NEW T, Family(T), NEW p \in Tasks, T[p].state = "running",
           NEW c \in Tasks, T[c].state = "none", NEW f \in CloneFlag, NEW U, Forked(T, U, p, c, f)
    PROVE  /\ Rings(U)
           /\ \A t \in Tasks \ {c} : Group(U, t) \subseteq Group(T, t) \cup {c}
<1>0. /\ T \in States /\ Rings(T) /\ p # c /\ f.thread \in BOOLEAN /\ U \in States
      /\ \A t \in Tasks : T[t].next \in Tasks
  BY Zenon DEF Family, States, Structs, CloneFlag, Forked
<1>1. T[c].next = c /\ \A t \in Tasks : T[t].next = c => t = c
  BY FreeUnseen DEF Blank
<1>2. /\ U[c].next = IF f.thread THEN T[p].next ELSE c
      /\ U[p].next = IF f.thread THEN c ELSE T[p].next
      /\ \A t \in Tasks \ {c, p} : U[t].next = T[t].next
  BY DEF Forked
<1>3. Rings(U)
  <2>1. ASSUME NEW s \in Tasks, NEW t \in Tasks, U[s].next = U[t].next PROVE s = t
    BY <1>0, <1>1, <1>2, <2>1 DEF Rings
  <2>2. ASSUME NEW t \in Tasks PROVE \E s \in Tasks : U[s].next = t
    <3>1. PICK s \in Tasks : T[s].next = t
      BY <1>0 DEF Rings
    <3>2. CASE s \notin {c, p}
      BY <1>2, <3>1, <3>2
    <3>3. CASE s \in {c, p}
      BY <1>1, <1>2, <3>1, <3>3
    <3> QED
      BY <3>2, <3>3
  <2> QED
    BY <2>1, <2>2 DEF Rings
<1>4. ASSUME NEW t \in Tasks \ {c} PROVE Group(U, t) \subseteq Group(T, t) \cup {c}
  <2>1. /\ t \in Group(T, t) /\ Group(T, t) \subseteq Tasks
        /\ \A q \in Group(T, t) : T[q].next \in Group(T, t)
    BY <1>0, InGroup, GroupClosed
  <2>2. c \notin Group(T, t)
    BY <1>0, <1>1, Alone
  <2>3. CASE p \in Group(T, t)
    <3> DEFINE S == Group(T, t) \cup {c}
    <3>1. t \in S /\ \A q \in S : U[q].next \in S
      BY <1>0, <1>2, <2>1, <2>3
    <3> HIDE DEF S
    <3>2. Group(U, t) \subseteq S
      BY <1>0, <3>1, GroupLeast
    <3> QED
      BY <3>2 DEF S
  <2>4. CASE p \notin Group(T, t)
    <3>1. \A q \in Group(T, t) : U[q].next \in Group(T, t)
      BY <1>0, <1>2, <2>1, <2>2, <2>4
    <3>2. Group(U, t) \subseteq Group(T, t)
      BY <1>0, <2>1, <3>1, GroupLeast
    <3> QED
      BY <3>2
  <2> QED
    BY <2>3, <2>4
<1> QED
  BY <1>3, <1>4

\* A fork keeps the family.
LEMMA ForkKeeps ==
    ASSUME NEW T, Kinship(T), PinnedFor(T, Tasks),
           NEW p \in Tasks, T[p].state = "running", T[p].pc = "user",
           NEW c \in Tasks, T[c].state = "none", NEW f \in CloneFlag,
           p = child_reaper => f.signal = "SIGCHLD" /\ ~f.parent,
           f.parent /\ f.signal # "SIGCHLD" =>
               /\ T[p].opptr = child_reaper => "clone_for_init" \in Stress
               /\ T[p].opptr # T[p].pptr => "trace_clone" \in Stress,
           NEW U, Forked(T, U, p, c, f)
    PROVE  Kinship(U) /\ PinnedFor(U, Tasks)
<1>0. /\ T \in States /\ Family(T) /\ Lists(T, Live(T)) /\ Rings(T) /\ Phases(T) /\ Parents(T)
      /\ NoGrandparent(T) /\ Completions(T) /\ Orphans(T) /\ Traced(T) /\ Heard(T)
      /\ p # c /\ p \in Live(T) /\ c \notin Live(T) /\ Live(T) \subseteq Tasks
      /\ child_reaper \in Tasks /\ NULL \notin Tasks
  BY TreeAssumption DEF Kinship, Family, Live
<1>1. /\ f.signal \in {"SIGCHLD", "other"} /\ f.parent \in BOOLEAN /\ f.thread \in BOOLEAN
      /\ f.vfork \in BOOLEAN
  BY DEF CloneFlag
<1>2. /\ U \in States /\ Lists(U, Live(T) \cup {c})
      /\ U[c].state = "running" /\ U[c].pc = "user" /\ ~U[c].exiting /\ ~U[c].done
      /\ U[c].exit_signal = f.signal
      /\ U[c].opptr = (IF f.parent THEN T[p].opptr ELSE p)
      /\ U[c].pptr = (IF f.parent THEN T[p].pptr ELSE p)
      /\ U[c].vfork_done = IF f.vfork THEN p ELSE NULL
  BY DEF Forked
<1>3. /\ U[p].pc = IF f.vfork THEN "vfork" ELSE "user"
      /\ U[p].state = IF f.vfork THEN "uninterruptible" ELSE "running"
      /\ \A t \in Tasks \ {c} :
            /\ U[t].opptr = T[t].opptr /\ U[t].pptr = T[t].pptr
            /\ U[t].exit_signal = T[t].exit_signal /\ U[t].opt = T[t].opt
            /\ U[t].tsk = T[t].tsk /\ U[t].exiting = T[t].exiting
            /\ U[t].vfork_done = T[t].vfork_done /\ U[t].done = T[t].done
      /\ \A t \in Tasks \ {c, p} :
            U[t].next = T[t].next /\ U[t].pc = T[t].pc /\ U[t].state = T[t].state
  BY DEF Forked
<1>4. /\ Blank(T[c], c) /\ c # child_reaper
      /\ \A t \in Tasks : T[t].pptr # c /\ T[t].opptr # c /\ T[t].vfork_done # c
  BY <1>0, FreeUnseen
<1>5. Live(U) = Live(T) \cup {c}
  BY <1>0, <1>1, <1>2, <1>3 DEF Live
<1>6. Rings(U) /\ \A t \in Tasks \ {c} : Group(U, t) \subseteq Group(T, t) \cup {c}
  BY <1>0, ForkRings
<1>7. f.parent => p # child_reaper /\ T[p].opptr \in Live(T) \ {p} /\ T[p].pptr \in Live(T) \ {p}
                  /\ T[T[p].opptr].state # "zombie" /\ T[T[p].pptr].state # "zombie"
  BY <1>0, <1>1 DEF Parents
<1>8. ~T[p].done /\ ~T[p].exiting /\ \A t \in Tasks : T[t].vfork_done # p
  BY <1>0 DEF Completions, Phases
<1>9. Phases(U)
  <2>1. ASSUME NEW s \in Tasks
        PROVE  /\ U[s].state = "none" => Blank(U[s], s)
               /\ U[s].pc = "user" => U[s].state \in {"none", "running"}
               /\ U[s].pc = "wait4" => U[s].state \in {"running", "interruptible"}
               /\ U[s].pc = "status" => U[s].state = "running"
               /\ U[s].pc = "vfork" => U[s].state \in {"running", "uninterruptible"}
               /\ U[s].pc = "exit" => U[s].state \in {"running", "zombie"} /\ U[s].vfork_done = NULL
               /\ U[s].exiting <=> U[s].pc = "exit"
    <3>1. CASE s = c
      BY <1>2, <3>1
    <3>2. CASE s = p
      BY <1>0, <1>1, <1>3, <1>8, <3>2
    <3>3. CASE s \notin {c, p}
      <4>1. /\ U[s].next = T[s].next /\ U[s].pc = T[s].pc /\ U[s].state = T[s].state
            /\ U[s].opptr = T[s].opptr /\ U[s].pptr = T[s].pptr /\ U[s].exiting = T[s].exiting
            /\ U[s].vfork_done = T[s].vfork_done
        BY <1>3, <3>3
      <4> QED
        BY <1>0, <4>1 DEF Phases, Blank
    <3> QED
      BY <3>1, <3>2, <3>3
  <2>2. U[child_reaper].state # "none" /\ U[child_reaper].pc # "exit"
    BY <1>0, <1>1, <1>3, <1>4 DEF Phases
  <2> QED
    BY <2>1, <2>2 DEF Phases
<1>10. \A q \in Live(T) : T[q].state # "zombie" => U[q].state # "zombie" /\ q # c
  BY <1>0, <1>1, <1>3
<1>11. Parents(U)
  <2> SUFFICES ASSUME NEW t \in Live(U) \ {child_reaper}
               PROVE  /\ U[t].pptr \in Live(U) \ {t} /\ U[U[t].pptr].state # "zombie"
                      /\ U[t].opptr \in Live(U) \ {t} /\ U[U[t].opptr].state # "zombie"
    BY DEF Parents
  <2>1. CASE t = c
    <3>1. CASE f.parent
      BY <1>0, <1>2, <1>5, <1>7, <1>10, <2>1, <3>1
    <3>2. CASE ~f.parent
      BY <1>0, <1>2, <1>5, <1>10, <2>1, <3>2
    <3> QED
      BY <3>1, <3>2
  <2>2. CASE t # c
    <3>1. t \in Live(T) \ {child_reaper} /\ t \in Tasks
      BY <1>0, <1>5, <2>2
    <3>2. /\ T[t].pptr \in Live(T) \ {t} /\ T[T[t].pptr].state # "zombie"
          /\ T[t].opptr \in Live(T) \ {t} /\ T[T[t].opptr].state # "zombie"
      BY <1>0, <3>1 DEF Parents
    <3> QED
      BY <1>3, <1>5, <1>10, <2>2, <3>1, <3>2
  <2> QED
    BY <2>1, <2>2
<1>12. NoGrandparent(U)
  BY <1>0, <1>3, <1>4 DEF NoGrandparent
<1>13. Completions(U)
  <2>0. T[c].vfork_done = NULL /\ T[c].pc = "user" /\ ~T[c].done
    BY <1>0, <1>4 DEF Blank, Completions
  <2>1. ASSUME NEW a \in Tasks, U[a].vfork_done # NULL
        PROVE  U[U[a].vfork_done].pc = "vfork" /\ ~U[U[a].vfork_done].done
    <3>1. CASE a = c
      <4>1. f.vfork /\ U[a].vfork_done = p
        BY <1>1, <1>2, <2>1, <3>1
      <4> QED
        BY <1>0, <1>3, <1>8, <4>1
    <3>2. CASE a # c
      <4>1. T[a].vfork_done # NULL /\ U[a].vfork_done = T[a].vfork_done
        BY <1>3, <2>1, <3>2
      <4>2. T[a].vfork_done \in Tasks \ {c, p}
        BY <1>0, <1>4, <1>8, <4>1 DEF States, Structs
      <4>3. T[T[a].vfork_done].pc = "vfork" /\ ~T[T[a].vfork_done].done
        BY <1>0, <4>1 DEF Completions
      <4> QED
        BY <1>3, <4>1, <4>2, <4>3
    <3> QED
      BY <3>1, <3>2
  <2>2. ASSUME NEW a \in Tasks, NEW b \in Tasks, U[a].vfork_done = U[b].vfork_done,
               U[a].vfork_done # NULL
        PROVE  a = b
    <3>1. \A s \in Tasks \ {c} : U[s].vfork_done = T[s].vfork_done /\ U[s].vfork_done # p
      BY <1>3, <1>8
    <3>2. U[c].vfork_done \in {p, NULL}
      BY <1>1, <1>2
    <3>3. CASE a = c \/ b = c
      BY <2>2, <3>1, <3>2, <3>3
    <3>4. CASE a # c /\ b # c
      BY <1>0, <2>2, <3>1, <3>4 DEF Completions
    <3> QED
      BY <3>3, <3>4
  <2>3. ASSUME NEW s \in Tasks, U[s].pc = "vfork", ~U[s].done
        PROVE  \E a \in Tasks : U[a].vfork_done = s
    <3>1. CASE s = p
      <4>1. U[c].vfork_done = s
        BY <1>1, <1>2, <1>3, <2>3, <3>1
      <4> QED
        BY <4>1
    <3>2. CASE s # p
      <4>1. s # c /\ T[s].pc = "vfork" /\ ~T[s].done
        BY <1>2, <1>3, <2>3, <3>2
      <4>2. PICK a \in Tasks : T[a].vfork_done = s
        BY <1>0, <4>1 DEF Completions
      <4>3. a # c /\ U[a].vfork_done = s
        BY <1>0, <1>3, <2>0, <4>2
      <4> QED
        BY <4>3
    <3> QED
      BY <3>1, <3>2
  <2>4. ASSUME NEW s \in Tasks, U[s].done PROVE U[s].pc = "vfork" /\ U[s].state = "running"
    <3>1. s \notin {c, p}
      BY <1>0, <1>2, <1>3, <1>8, <2>4
    <3> QED
      BY <1>0, <1>3, <2>4, <3>1 DEF Completions
  <2> QED
    BY <2>1, <2>2, <2>3, <2>4 DEF Completions
<1>14. Orphans(U)
  <2> SUFFICES ASSUME "clone_for_init" \notin Stress, NEW t \in Live(U),
                      U[t].opptr = child_reaper
               PROVE  U[t].exit_signal = "SIGCHLD"
    BY DEF Orphans
  <2>1. CASE t = c
    BY <1>1, <1>2, <2>1
  <2>2. CASE t # c
    BY <1>0, <1>3, <1>5, <2>2 DEF Orphans
  <2> QED
    BY <2>1, <2>2
<1>15. Traced(U)
  <2> SUFFICES ASSUME "trace_clone" \notin Stress, NEW t \in Live(U), U[t].opptr # U[t].pptr
               PROVE  U[t].exit_signal = "SIGCHLD"
    BY DEF Traced
  <2>1. CASE t = c
    BY <1>1, <1>2, <2>1
  <2>2. CASE t # c
    BY <1>0, <1>3, <1>5, <2>2 DEF Traced
  <2> QED
    BY <2>1, <2>2
<1>16. Heard(U)
  <2>1. \A x \in Live(U) : U[x].pptr # c
    <3>1. T[p].pptr # c /\ U[c].pptr \in {p, T[p].pptr}
      BY <1>1, <1>2, <1>4
    <3>2. U[c].pptr # c
      BY <1>0, <3>1
    <3>3. \A x \in Live(T) : x \in Tasks \ {c} /\ T[x].pptr # c
      BY <1>0, <1>4
    <3>4. \A x \in Live(T) : U[x].pptr # c
      BY <1>3, <3>3
    <3> QED
      BY <1>5, <3>2, <3>4
  <2>2. \A t \in Tasks : U[t].state = "interruptible" => t \notin {c, p}
    BY <1>1, <1>2, <1>3
  <2>3. ASSUME NEW t \in Tasks, U[t].state = "interruptible"
        PROVE  /\ T[t].state = "interruptible" /\ U[t].opt = T[t].opt
               /\ \A q \in Group(U, t) : q \in Group(T, t) \/ \A x \in Live(U) : U[x].pptr # q
    BY <1>3, <1>6, <2>1, <2>2, <2>3
  <2>4. ASSUME NEW x \in Live(U), U[x].state = "zombie"
        PROVE  /\ x \in Live(T) /\ T[x].state = "zombie"
               /\ U[x].pptr = T[x].pptr /\ U[x].exit_signal = T[x].exit_signal
    <3>1. x \notin {c, p} /\ x \in Live(T) /\ x \in Tasks
      BY Zenon, <1>0, <1>1, <1>2, <1>3, <1>5, <2>4
    <3> QED
      BY <1>3, <2>4, <3>1
  <2> QED
    BY Zenon, <1>0, <1>2, <1>6, <2>3, <2>4, HeardKept
<1>17. PinnedFor(U, Tasks)
  <2>1. ASSUME NEW t \in Tasks, U[t].pc = "status"
        PROVE  /\ T[t].pc = "status" /\ U[t].tsk = T[t].tsk
               /\ T[t].next = t => U[t].next = t
               /\ \A x \in Live(T) : x = T[t].tsk /\ T[x].state = "zombie" /\ T[x].pptr = t =>
                     x \in Live(U) /\ U[x].state = "zombie" /\ U[x].pptr = t
    <3>1. t \notin {c, p}
      BY <1>1, <1>2, <1>3, <2>1
    <3> QED
      BY <1>0, <1>3, <1>5, <2>1, <3>1
  <2> QED
    BY <2>1, PinnedKept
<1> QED
  BY <1>2, <1>5, <1>6, <1>9, <1>11, <1>12, <1>13, <1>14, <1>15, <1>16, <1>17 DEF Kinship, Family

-----------------------------------------------------------------------------
(* wait4                                                                     *)

\* wait4() finds a dead child of the threads it looks at, if there is one that
\* its options ask for.
LEMMA DeadChild ==
    ASSUME NEW T, Family(T), NEW t \in Tasks, NEW o
    PROVE  /\ dead_child(T, t, o) # NULL =>
                /\ dead_child(T, t, o) \in Live(T)
                /\ T[dead_child(T, t, o)].state = "zombie"
                /\ T[dead_child(T, t, o)].pptr \in Looked(T, t, o)
           /\ dead_child(T, t, o) = NULL <=> \A q \in Looked(T, t, o) : NoneDead(T, q, o)
<1> DEFINE f == threads(T, t)
           N == Cardinality(Tasks)
           found == {i \in walk(o) : dead(T, f[i], o) # {}}
           q == f[Min(found)]
           x == T[q].cptr[Min(dead(T, q, o))]
<1>0. T \in States /\ Lists(T, Live(T)) /\ Live(T) \subseteq Tasks /\ NULL \notin Tasks
  BY TreeAssumption DEF Family, Live
<1>1. f \in [0 .. N -> Tasks] /\ f[0] = t /\ N \in Nat
  BY <1>0, Thread, Count
<1>2. Group(T, t) = {f[i] : i \in 0 .. N}
  BY <1>0, InGroup
<1>3. dead_child(T, t, o) = IF found = {} THEN NULL ELSE x
  BY DEF dead_child
<1> HIDE DEF f, N
<1>4. walk(o) \subseteq 0 .. N /\ walk(o) \subseteq Nat
  BY <1>1 DEF walk, N
<1>5. Looked(T, t, o) = {f[i] : i \in walk(o)}
  <2>1. CASE o.nothread
    BY <1>1, <2>1 DEF walk, Looked
  <2>2. CASE ~o.nothread
    BY <1>2, <2>2 DEF walk, Looked, N
  <2> QED
    BY <2>1, <2>2
<1>6. ASSUME NEW s \in Tasks
      PROVE  /\ dead(T, s, o) \subseteq Nat
             /\ \A j \in dead(T, s, o) :
                   /\ T[s].cptr[j] \in Live(T) /\ T[T[s].cptr[j]].pptr = s
                   /\ T[T[s].cptr[j]].state = "zombie"
             /\ dead(T, s, o) = {} <=> NoneDead(T, s, o)
  <2>1. T[s].cptr \in Seq(Tasks)
    BY <1>0 DEF States, Structs
  <2>2. Range(T[s].cptr) = {c \in Live(T) : T[c].pptr = s}
    BY <1>0 DEF Lists
  <2>3. /\ DOMAIN T[s].cptr \subseteq Nat
        /\ \A j \in DOMAIN T[s].cptr : T[s].cptr[j] \in Live(T) /\ T[T[s].cptr[j]].pptr = s
        /\ \A c \in Live(T) : T[c].pptr = s => \E j \in DOMAIN T[s].cptr : T[s].cptr[j] = c
    <3>1. DOMAIN T[s].cptr \subseteq Nat
      BY <2>1
    <3>2. Range(T[s].cptr) = {T[s].cptr[j] : j \in DOMAIN T[s].cptr}
      BY DEF Range
    <3> QED
      BY <2>2, <3>1, <3>2
  <2>4. dead(T, s, o) = {j \in DOMAIN T[s].cptr : /\ eligible(T, T[s].cptr[j], o)
                                                  /\ T[T[s].cptr[j]].state = "zombie"}
    BY DEF dead, candidates
  <2>5. dead(T, s, o) = {} => NoneDead(T, s, o)
    BY <2>3, <2>4 DEF NoneDead
  <2>6. NoneDead(T, s, o) => dead(T, s, o) = {}
    BY <2>3, <2>4 DEF NoneDead
  <2> QED
    BY Zenon, <2>3, <2>4, <2>5, <2>6
<1>7. found = {} <=> \A s \in Looked(T, t, o) : NoneDead(T, s, o)
  <2>1. \A i \in walk(o) : f[i] \in Tasks
    BY <1>1, <1>4
  <2>2. \A i \in walk(o) : dead(T, f[i], o) = {} <=> NoneDead(T, f[i], o)
    BY <1>6, <2>1
  <2>3. found = {} <=> \A i \in walk(o) : dead(T, f[i], o) = {}
    BY Zenon
  <2>4. (\A s \in Looked(T, t, o) : NoneDead(T, s, o)) <=> \A i \in walk(o) : NoneDead(T, f[i], o)
    BY <1>5, Zenon
  <2> QED
    BY <2>2, <2>3, <2>4, Zenon
<1>8. ASSUME found # {}
      PROVE  x \in Live(T) /\ T[x].state = "zombie" /\ T[x].pptr \in Looked(T, t, o)
  <2>1. found \in SUBSET Nat
    BY <1>4
  <2>2. Min(found) \in found
    BY ONLY <1>8, <2>1, MinLeast
  <2>3. q \in Looked(T, t, o) /\ q \in Tasks /\ dead(T, q, o) # {}
    BY Zenon, <1>1, <1>4, <1>5, <2>2
  <2> HIDE DEF q
  <2>4. dead(T, q, o) \in SUBSET Nat
    BY <1>6, <2>3
  <2>5. Min(dead(T, q, o)) \in dead(T, q, o)
    BY ONLY <2>3, <2>4, MinLeast
  <2> QED
    BY <1>6, <2>3, <2>5
<1> HIDE DEF found, x
<1> QED
  BY <1>0, <1>3, <1>7, <1>8

\* A dead child that wait4() finds is not the one whose status somebody else writes.
LEMMA FoundFree ==
    ASSUME NEW T, Kinship(T), PinnedFor(T, Tasks), NEW t \in Tasks, NEW o,
           NEW p, p = dead_child(T, t, o), p # NULL
    PROVE  /\ p \in Live(T) /\ T[p].state = "zombie" /\ T[p].pptr \in Group(T, t)
           /\ "status_faults" \notin Stress =>
                \A s \in Tasks \ {t} : T[s].pc = "status" => T[s].tsk # p
<1>0. T \in States /\ Rings(T) /\ Family(T)
  BY DEF Kinship, Family
<1>1. p \in Live(T) /\ T[p].state = "zombie" /\ T[p].pptr \in Looked(T, t, o)
  BY <1>0, DeadChild
<1>2. t \in Group(T, t)
  BY <1>0, InGroup
<1>3. T[p].pptr \in Group(T, t)
  BY <1>1, <1>2 DEF Looked
<1>4. ASSUME "status_faults" \notin Stress, NEW s \in Tasks \ {t}, T[s].pc = "status", T[s].tsk = p
      PROVE  FALSE
  <2>1. T[s].next = s /\ T[p].pptr = s
    BY <1>4 DEF PinnedFor
  <2> QED
    BY <1>0, <1>3, <2>1, Alone
<1> QED
  BY <1>1, <1>3, <1>4

\* Going to sleep while the status of the child p is written.
LEMMA StatusKeeps ==
    ASSUME NEW T, Kinship(T), PinnedFor(T, Tasks),
           NEW t \in Tasks, T[t].state = "running", T[t].pc \in {"user", "wait4"}, NEW o,
           NEW p, p = dead_child(T, t, o), p # NULL,
           T[t].next # t => "status_faults" \in Stress
    PROVE  /\ Kinship([T EXCEPT ![t].pc = "status", ![t].state = "running", ![t].tsk = p])
           /\ PinnedFor([T EXCEPT ![t].pc = "status", ![t].state = "running", ![t].tsk = p], Tasks)
<1> DEFINE r == [T[t] EXCEPT !.pc = "status", !.state = "running", !.tsk = p]
           U == [T EXCEPT ![t] = r]
<1>0. T \in States /\ T[t] \in Structs /\ Completions(T) /\ Phases(T)
  BY DEF Kinship, Family, States
<1>1. p \in Live(T) /\ p \in Tasks /\ T[p].state = "zombie" /\ T[p].pptr \in Group(T, t)
  BY FoundFree DEF Live
<1>2. [T EXCEPT ![t].pc = "status", ![t].state = "running", ![t].tsk = p] = U
  BY Zenon, <1>0 DEF States
<1>3. /\ r \in Structs /\ r.pc = "status" /\ r.state = "running" /\ r.tsk = p
      /\ r.pptr = T[t].pptr /\ r.opptr = T[t].opptr /\ r.cptr = T[t].cptr
      /\ r.next = T[t].next /\ r.exit_signal = T[t].exit_signal
      /\ r.vfork_done = T[t].vfork_done /\ r.exiting = T[t].exiting /\ r.done = T[t].done
  BY Zenon, <1>0, <1>1 DEF Structs
<1> HIDE DEF r
<1>4. U \in States /\ U[t] = r /\ \A s \in Tasks \ {t} : U[s] = T[s]
  BY <1>0, <1>3, TaskStore
<1> HIDE DEF U
<1>5. Goes(T, U, t)
  BY <1>3, <1>4 DEF Goes
<1>6. ~T[t].done
  BY <1>0 DEF Completions
<1>7. Kinship(U)
  BY <1>3, <1>4, <1>5, <1>6, GoesKept
<1>8. p # t
  BY <1>1
<1>9. PinnedFor(U, Tasks \ {t})
  <2>1. PinnedFor(T, Tasks \ {t})
    BY DEF PinnedFor
  <2>2. ASSUME NEW s \in Tasks \ {t}, U[s].pc = "status",
               NEW x \in Live(T), T[x].state = "zombie", T[x].pptr = s
        PROVE  x \in Live(U) /\ U[x].state = "zombie" /\ U[x].pptr = s
    BY <1>4, <2>2 DEF Live
  <2> QED
    BY <1>4, <2>1, <2>2, PinnedKept
<1>10. ASSUME "status_faults" \notin Stress
       PROVE  /\ U[t].next = t
              /\ U[t].tsk \in Live(U) /\ U[U[t].tsk].state = "zombie" /\ U[U[t].tsk].pptr = t
  <2>1. T[t].next = t
    BY <1>10
  <2>2. Group(T, t) \subseteq {t}
    <3> DEFINE S == {t}
    <3>1. t \in S /\ \A q \in S : T[q].next \in S
      BY <2>1
    <3> HIDE DEF S
    <3>2. Group(T, t) \subseteq S
      BY <1>0, <3>1, GroupLeast
    <3> QED
      BY <3>2 DEF S
  <2>3. U[p] = T[p] /\ U[t].tsk = p /\ T[p].pptr = t
    BY <1>1, <1>3, <1>4, <1>8, <2>2
  <2> QED
    BY <1>1, <1>3, <1>4, <2>1, <2>3 DEF Live
<1>11. PinnedFor(U, Tasks)
  BY <1>1, <1>3, <1>4, <1>9, <1>10 DEF PinnedFor
<1> QED
  BY Zenon, <1>2, <1>7, <1>11

\* Going to sleep when no child is dead.
LEMMA SleepKeeps ==
    ASSUME NEW T, Kinship(T), PinnedFor(T, Tasks),
           NEW t \in Tasks, T[t].state = "running", T[t].pc \in {"user", "wait4"},
           NEW o \in WaitOption, dead_child(T, t, o) = NULL
    PROVE  /\ Kinship([T EXCEPT ![t].pc = "wait4", ![t].state = "interruptible", ![t].opt = o])
           /\ PinnedFor([T EXCEPT ![t].pc = "wait4", ![t].state = "interruptible",
                                  ![t].opt = o], Tasks)
<1> DEFINE r == [T[t] EXCEPT !.pc = "wait4", !.state = "interruptible", !.opt = o]
           U == [T EXCEPT ![t] = r]
<1>0. T \in States /\ T[t] \in Structs /\ Completions(T) /\ Phases(T) /\ Family(T) /\ Heard(T)
  BY DEF Kinship, Family, States
<1>1. \A q \in Looked(T, t, o) : NoneDead(T, q, o)
  BY <1>0, DeadChild
<1>2. [T EXCEPT ![t].pc = "wait4", ![t].state = "interruptible", ![t].opt = o] = U
  BY Zenon, <1>0 DEF States
<1>3. /\ r \in Structs /\ r.pc = "wait4" /\ r.state = "interruptible" /\ r.opt = o
      /\ r.pptr = T[t].pptr /\ r.opptr = T[t].opptr /\ r.cptr = T[t].cptr
      /\ r.next = T[t].next /\ r.exit_signal = T[t].exit_signal
      /\ r.vfork_done = T[t].vfork_done /\ r.exiting = T[t].exiting /\ r.done = T[t].done
  BY Zenon, <1>0 DEF Structs
<1> HIDE DEF r
<1>4. U \in States /\ U[t] = r /\ \A s \in Tasks \ {t} : U[s] = T[s]
  BY <1>0, <1>3, TaskStore
<1> HIDE DEF U
<1>5. Goes(T, U, t)
  BY <1>3, <1>4 DEF Goes
<1>6. ~T[t].done
  BY <1>0 DEF Completions
<1>7. SameLinks(T, U) /\ Phases(U) /\ Completions(U)
  BY <1>3, <1>4, <1>5, <1>6, GoesKept
<1>8. /\ Live(U) = Live(T) /\ Lists(U, Live(U)) /\ Rings(U) /\ Parents(U) /\ NoGrandparent(U)
      /\ Orphans(U) /\ Traced(U)
  BY <1>4, <1>7, LinksKept
<1>9. \A q \in Tasks : Group(U, q) = Group(T, q)
  BY <1>0, <1>4, <1>7, SameGroups DEF SameLinks
<1>10. ASSUME NEW q, NEW w, NoneDead(T, q, w) PROVE NoneDead(U, q, w)
  <2> SUFFICES ASSUME NEW x \in Live(T), U[x].pptr = q, U[x].state = "zombie"
               PROVE  ~eligible(U, x, w)
    BY <1>8 DEF NoneDead
  <2>1. /\ T[x].pptr = q /\ T[x].state = "zombie" /\ U[x].exit_signal = T[x].exit_signal
    BY <1>7 DEF SameLinks, Live
  <2>2. ~eligible(T, x, w)
    BY <1>10, <2>1 DEF NoneDead
  <2> QED
    BY <2>1, <2>2 DEF eligible
<1>11. Heard(U)
  <2> SUFFICES ASSUME "trace_clone" \notin Stress, NEW s \in Tasks, U[s].state = "interruptible",
                      NEW q \in Looked(U, s, U[s].opt)
               PROVE  NoneDead(U, q, U[s].opt)
    BY DEF Heard
  <2>1. q \in Looked(T, s, U[s].opt)
    BY <1>9 DEF Looked
  <2>2. CASE s = t
    BY <1>1, <1>3, <1>4, <1>10, <2>1, <2>2
  <2>3. CASE s # t
    <3>1. NoneDead(T, q, T[s].opt)
      BY <1>0, <1>4, <2>1, <2>3 DEF Heard
    <3> QED
      BY <1>4, <1>10, <2>3, <3>1
  <2> QED
    BY <2>2, <2>3
<1>12. PinnedFor(U, Tasks)
  <2>1. \A s \in Tasks : U[s].pc = "status" => s # t
    BY <1>3, <1>4
  <2>2. ASSUME NEW s \in Tasks, U[s].pc = "status",
               NEW x \in Live(T), T[x].state = "zombie", T[x].pptr = s
        PROVE  x \in Live(U) /\ U[x].state = "zombie" /\ U[x].pptr = s
    BY <1>7, <1>8, <2>2 DEF SameLinks, Live
  <2> QED
    BY <1>4, <2>1, <2>2, PinnedKept
<1> QED
  BY Zenon, <1>2, <1>4, <1>7, <1>8, <1>11, <1>12 DEF Kinship, Family

-----------------------------------------------------------------------------
(* The actions                                                               *)

\* The whole invariant of the tasks.
Kept(T) == Kinship(T) /\ PinnedFor(T, Tasks)

\* Wakeups and the mark of a tracer keep the family.
LEMMA SteadyKeeps ==
    ASSUME NEW T, Kept(T), NEW U \in States, Steady(T, U), Calmed(T, U),
           \A t \in Tasks : U[t].pptr = T[t].pptr /\ U[t].cptr = T[t].cptr
    PROVE  Kept(U)
<1>0. Kinship(T) /\ Family(T) /\ T \in States /\ Phases(T) /\ PinnedFor(T, Tasks)
  BY DEF Kept, Kinship, Family
<1>1. \A t \in Tasks : T[t].state = "none" => U[t].pptr = NULL
  BY <1>0 DEF Phases, Blank
<1>2. /\ Phases(U) /\ Completions(U) /\ Rings(U) /\ Live(U) = Live(T)
      /\ \A t \in Tasks : U[t].state = "zombie" <=> T[t].state = "zombie"
  BY <1>0, <1>1, CalmedKept
<1>3. SameLinks(T, U)
  BY <1>2 DEF SameLinks, Steady, Live
<1>4. \A t \in Tasks : U[t].state = "interruptible" =>
          T[t].state = "interruptible" /\ U[t].opt = T[t].opt
  BY DEF Steady, Calmed
<1>5. Kinship(U)
  BY <1>0, <1>2, <1>3, <1>4, QuietKept
<1>6. PinnedFor(U, Tasks)
  BY <1>0, <1>2, <1>3, PinnedKept DEF Steady, Live, SameLinks
<1> QED
  BY <1>5, <1>6 DEF Kept

\* attach and detach move a task that is not dead.
LEMMA TraceKeeps ==
    ASSUME NEW T, Kept(T), NEW p \in Live(T) \ {child_reaper}, T[p].state # "zombie",
           NEW b \in BOOLEAN, NEW q \in Live(T) \ {p}, T[q].state # "zombie",
           "trace_clone" \notin Stress => q = T[p].opptr \/ T[p].exit_signal = "SIGCHLD"
    PROVE  Kept(set_pptr([T EXCEPT ![p].ptrace = b], p, q))
<1> DEFINE E == [T EXCEPT ![p].ptrace = b]
           U == set_pptr(E, p, q)
<1>0. /\ Kinship(T) /\ Family(T) /\ T \in States /\ Lists(T, Live(T)) /\ Parents(T)
      /\ PinnedFor(T, Tasks) /\ p \in Tasks /\ q \in Tasks /\ Live(T) \in SUBSET Tasks
      /\ p \in Live(T)
  BY DEF Kept, Kinship, Family, Live
<1>1. /\ E \in States /\ Steady(T, E)
      /\ \A t \in Tasks : /\ E[t].pptr = T[t].pptr /\ E[t].cptr = T[t].cptr
                          /\ E[t].state = T[t].state
  BY ONLY <1>0, b \in BOOLEAN, Retrace
<1> HIDE DEF E
<1>2. Lists(E, Live(T))
  BY <1>0, <1>1 DEF Lists
<1>3. E[p].pptr \in Tasks
  BY <1>0, <1>1 DEF Parents
<1>4. Adopted(E, U, p, q) /\ Lists(U, Live(T))
  BY ONLY <1>0, <1>1, <1>2, <1>3, MoveEffect
<1> HIDE DEF U
<1>5. Given(T, U, p, q)
  <2>1. Steady(T, U)
    BY ONLY <1>1, <1>4 DEF Adopted, Steady
  <2>2. /\ U \in States /\ U[p].pptr = q /\ Calmed(T, U) /\ U[p].state = T[p].state
        /\ \A t \in Tasks \ {p} : U[t].pptr = T[t].pptr
    BY ONLY <1>0, <1>1, <1>4 DEF Adopted, Calmed
  <2> QED
    BY Zenon, <1>4, <2>1, <2>2 DEF Given
<1>6. Kinship(U)
  BY <1>0, <1>5, GivenKeeps
<1>7. "status_faults" \notin Stress => \A t \in Tasks : T[t].pc = "status" => T[t].tsk # p
  BY <1>0 DEF PinnedFor
<1>8. PinnedFor(U, Tasks)
  BY <1>0, <1>5, <1>7, GivenPins
<1> QED
  BY <1>6, <1>8 DEF Kept, U, E

\* A pass of wait4().
LEMMA WaitPassKeeps ==
    ASSUME Kept(task), NEW t \in Tasks, task[t].state = "running",
           task[t].pc \in {"user", "wait4"}, NEW o \in WaitOption, WaitPass(t, o)
    PROVE  Kept(task') /\ UNCHANGED <<total_forks, broken>>
<1> DEFINE p == dead_child(task, t, o)
<1>0. Kinship(task) /\ PinnedFor(task, Tasks) /\ PinnedFor(task, Tasks \ {t})
  BY DEF Kept, PinnedFor
<1>1. Kept(return_to_user(task, t))
  BY <1>0, ReturnKeeps DEF Kept
<1>2. \/ p # NULL /\ Become(reap(task, t, p))
      \/ Become(return_to_user(task, t))
      \/ /\ p # NULL
         /\ task[t].next # t => "status_faults" \in Stress
         /\ Become([task EXCEPT ![t].pc = "status", ![t].state = "running", ![t].tsk = p])
      \/ /\ p = NULL
         /\ Become([task EXCEPT ![t].pc = "wait4", ![t].state = "interruptible", ![t].opt = o])
  BY DEF WaitPass
<1>3. p = dead_child(task, t, o)
  OBVIOUS
<1> HIDE DEF p
<1>4. p # NULL => Kept(reap(task, t, p))
  <2> SUFFICES ASSUME p # NULL PROVE Kept(reap(task, t, p))
    OBVIOUS
  <2>1. /\ p \in Live(task) /\ task[p].state = "zombie"
        /\ "status_faults" \notin Stress =>
             \A s \in Tasks \ {t} : task[s].pc = "status" => task[s].tsk # p
    BY <1>0, <1>3, FoundFree
  <2> QED
    BY <1>0, <2>1, ReapKeeps DEF Kept
<1>5. p # NULL /\ (task[t].next # t => "status_faults" \in Stress) =>
          Kept([task EXCEPT ![t].pc = "status", ![t].state = "running", ![t].tsk = p])
  BY Zenon, <1>0, <1>3, StatusKeeps DEF Kept
<1>6. p = NULL =>
          Kept([task EXCEPT ![t].pc = "wait4", ![t].state = "interruptible", ![t].opt = o])
  BY Zenon, <1>0, <1>3, SleepKeeps DEF Kept
<1> QED
  BY Zenon, <1>1, <1>2, <1>4, <1>5, <1>6 DEF Become

\* Waking up in do_fork() and going back to sleep.
LEMMA ForkReturnKeeps ==
    ASSUME Kept(task), NEW p \in Tasks, ForkReturn(p)
    PROVE  Kept(task') /\ UNCHANGED <<total_forks, broken>>
<1>0. /\ Kinship(task) /\ PinnedFor(task, Tasks) /\ PinnedFor(task, Tasks \ {p})
      /\ task \in States /\ task[p] \in Structs
  BY DEF Kept, PinnedFor, Kinship, Family, States
<1>1. task[p].pc = "vfork" /\ task[p].state = "running" /\ UNCHANGED <<total_forks, broken>>
  BY DEF ForkReturn, Become
<1>2. CASE task[p].done
  <2>1. task' = return_to_user(task, p)
    BY <1>2 DEF ForkReturn, Become
  <2> QED
    BY <1>0, <1>1, <1>2, <2>1, ReturnKeeps DEF Kept
<1>3. CASE ~task[p].done
  <2> DEFINE r == [task[p] EXCEPT !.state = "uninterruptible"]
             U == [task EXCEPT ![p] = r]
  <2>1. task' = U
    BY <1>0, <1>3 DEF ForkReturn, Become, States
  <2>2. /\ r \in Structs /\ r.pc = "vfork" /\ r.state = "uninterruptible"
        /\ r.pptr = task[p].pptr /\ r.opptr = task[p].opptr /\ r.cptr = task[p].cptr
        /\ r.next = task[p].next /\ r.exit_signal = task[p].exit_signal
        /\ r.vfork_done = task[p].vfork_done /\ r.exiting = task[p].exiting
        /\ r.done = task[p].done
    BY <1>0, <1>1 DEF Structs
  <2> HIDE DEF r
  <2>3. U \in States /\ U[p] = r /\ \A s \in Tasks \ {p} : U[s] = task[s]
    BY <1>0, <2>2, TaskStore
  <2> HIDE DEF U
  <2>4. Goes(task, U, p)
    BY <2>2, <2>3 DEF Goes
  <2>5. Kinship(U)
    BY <1>0, <1>1, <1>3, <2>2, <2>3, <2>4, GoesKept
  <2>6. PinnedFor(U, Tasks)
    <3>1. \A s \in Tasks : U[s].pc = "status" => s # p
      BY <2>2, <2>3
    <3>2. \A x \in Tasks : task[x].state = "zombie" => U[x] = task[x]
      BY <1>1, <2>3
    <3> QED
      BY <1>0, <2>3, <3>1, <3>2, PinnedKept DEF Live
  <2> QED
    BY <1>1, <2>1, <2>5, <2>6 DEF Kept
<1> QED
  BY <1>2, <1>3

\* What the invariant says of the tasks.
LEMMA InvariantKept ==
    TreeInvariant => Kept(task) /\ TypeOK
BY DEF TreeInvariant, Kept, Kinship

\* do_fork() keeps the invariant.
LEMMA ForkStep ==
    ASSUME TreeInvariant, NEW p \in Tasks, NEW c \in Tasks, NEW f \in ForkFlags(p), Fork(p, c, f)
    PROVE  Kept(task')
<1> DEFINE L == link_child(task, p, c, f)
           U == IF f.vfork THEN [L EXCEPT ![p].pc = "vfork", ![p].state = "uninterruptible"] ELSE L
<1>0. Kinship(task) /\ Family(task) /\ PinnedFor(task, Tasks)
  BY InvariantKept DEF Kept, Kinship
<1>1. /\ f \in CloneFlag
      /\ p = child_reaper => f.signal = "SIGCHLD" /\ ~f.parent
  <2>1. CASE p = child_reaper
    <3>1. f = [signal |-> "SIGCHLD", parent |-> FALSE, thread |-> FALSE, vfork |-> FALSE]
      BY <2>1 DEF ForkFlags
    <3>2. f.signal = "SIGCHLD" /\ f.parent = FALSE
      BY <3>1
    <3>3. f \in CloneFlag
      BY <3>1 DEF CloneFlag
    <3> QED
      BY <3>2, <3>3
  <2>2. CASE p # child_reaper
    BY <2>2, TreeAssumption DEF ForkFlags
  <2> QED
    BY <2>1, <2>2
<1>2. /\ task[p].state = "running" /\ task[p].pc = "user" /\ task[c].state = "none"
      /\ f.parent /\ f.signal # "SIGCHLD" =>
            /\ task[p].opptr = child_reaper => "clone_for_init" \in Stress
            /\ task[p].opptr # task[p].pptr => "trace_clone" \in Stress
      /\ task' = U
  BY DEF Fork, InUser
<1>3. Forked(task, U, p, c, f)
  BY <1>0, <1>1, <1>2, ForkEffect
<1> HIDE DEF U
<1> QED
  BY <1>0, <1>1, <1>2, <1>3, ForkKeeps DEF Kept

\* execve() keeps the invariant.
LEMMA ExecStep ==
    ASSUME TreeInvariant, NEW t \in Tasks, Exec(t)
    PROVE  Kept(task') /\ UNCHANGED <<total_forks, broken>>
<1> DEFINE M == mm_release(task, t)
<1>0. Kinship(task) /\ PinnedFor(task, Tasks)
  BY InvariantKept DEF Kept
<1>1. /\ task[t].state = "running" /\ task[t].pc = "user"
      /\ task' = leave_group(M, t) /\ UNCHANGED <<total_forks, broken>>
  BY DEF Exec, InUser, Become
<1>2. Kinship(M) /\ PinnedFor(M, Tasks) /\ M[t].state = "running"
  BY <1>0, <1>1, MmReleaseKeeps
<1> HIDE DEF M
<1>3. t \in Live(M)
  BY <1>2 DEF Live
<1> QED
  BY <1>1, <1>2, <1>3, LeaveKeeps DEF Kept

\* The first part of do_exit() keeps the invariant.
LEMMA BeginExitStep ==
    ASSUME TreeInvariant, NEW p \in Tasks, BeginExit(p)
    PROVE  Kept(task') /\ UNCHANGED <<total_forks, broken>>
<1> DEFINE M == mm_release(task, p)
<1>0. Kinship(task) /\ PinnedFor(task, Tasks)
  BY InvariantKept DEF Kept
<1>1. /\ task[p].state = "running" /\ task[p].pc = "user" /\ p \in Tasks \ {child_reaper}
      /\ task' = [M EXCEPT ![p].exiting = TRUE, ![p].pc = "exit"]
      /\ UNCHANGED <<total_forks, broken>>
  BY DEF BeginExit, InUser, Become
<1>2. /\ Kinship(M) /\ PinnedFor(M, Tasks) /\ M[p].state = "running" /\ M[p].pc = "user"
      /\ M[p].vfork_done = NULL /\ ~M[p].done
  BY <1>0, <1>1, MmReleaseKeeps
<1> HIDE DEF M
<1>3. /\ Kinship([M EXCEPT ![p].exiting = TRUE, ![p].pc = "exit"])
      /\ PinnedFor([M EXCEPT ![p].exiting = TRUE, ![p].pc = "exit"], Tasks)
  BY Zenon, <1>1, <1>2, BeginExitKeeps
<1> QED
  BY <1>1, <1>3 DEF Kept

\* exit_notify() keeps the invariant.
LEMMA ExitNotifyStep ==
    ASSUME TreeInvariant, NEW p \in Tasks, ExitNotify(p)
    PROVE  Kept(task') /\ UNCHANGED <<total_forks, broken>>
<1>0. Kinship(task) /\ Family(task) /\ PinnedFor(task, Tasks)
  BY InvariantKept DEF Kept, Kinship
<1>1. PICK sig \in {"SIGCHLD", task[p].exit_signal} : Become(exit_notify(task, p, sig))
  BY DEF ExitNotify
<1>2. task[p].exiting /\ task[p].state = "running" /\ p \in Live(task)
  BY DEF ExitNotify, Live
<1> DEFINE Z == exit_notify(task, p, sig)
<1>3. Exited(task, Z, p)
  BY <1>0, <1>2, ExitEffect
<1>4. task' = Z /\ UNCHANGED <<total_forks, broken>>
  BY <1>1 DEF Become
<1> HIDE DEF Z
<1>5. Kinship(Z) /\ PinnedFor(Z, Tasks)
  BY <1>0, <1>2, <1>3, ExitKeeps
<1> QED
  BY <1>4, <1>5 DEF Kept

\* Each step of sys_wait4() keeps the invariant.
LEMMA WaitStep ==
    ASSUME TreeInvariant, NEW t \in Tasks,
           (\E o \in Options \cup {AnyChild} : Wait4(t, o)) \/ WaitAgain(t)
    PROVE  Kept(task') /\ UNCHANGED <<total_forks, broken>>
<1>0. Kept(task) /\ TypeOK
  BY InvariantKept
<1>1. ASSUME NEW o \in Options \cup {AnyChild}, Wait4(t, o)
      PROVE  Kept(task') /\ UNCHANGED <<total_forks, broken>>
  <2>1. o \in WaitOption
    <3>1. AnyChild \in WaitOption
      BY DEF AnyChild, WaitOption
    <3> QED
      BY <3>1, TreeAssumption
  <2> QED
    BY <1>0, <1>1, <2>1, WaitPassKeeps DEF Wait4, InUser
<1>2. ASSUME WaitAgain(t) PROVE Kept(task') /\ UNCHANGED <<total_forks, broken>>
  <2>1. task[t].opt \in WaitOption
    BY <1>0 DEF TypeOK, Structs
  <2> QED
    BY <1>0, <1>2, <2>1, WaitPassKeeps DEF WaitAgain
<1> QED
  BY <1>1, <1>2

\* A child whose status has been written is still there, unless writing it slept in a
\* group of threads.
LEMMA StatusStep ==
    ASSUME TreeInvariant, NEW t \in Tasks, WaitStatus(t)
    PROVE  /\ Kept(task') /\ UNCHANGED total_forks /\ broken' \in BOOLEAN
           /\ "status_faults" \notin Stress => ~broken'
<1> DEFINE p == task[t].tsk
<1>0. /\ Kinship(task) /\ Phases(task) /\ PinnedFor(task, Tasks) /\ TypeOK
      /\ task[t].pc = "status" /\ ~broken
  BY InvariantKept DEF Kept, Kinship, Family, WaitStatus
<1>1. task[t].state = "running"
  BY <1>0 DEF Phases
<1>2. IF task[p].state = "zombie" THEN Become(reap(task, t, p))
      ELSE broken' = TRUE /\ UNCHANGED <<task, total_forks>>
  BY DEF WaitStatus
<1>3. "status_faults" \notin Stress => task[p].state = "zombie" /\ task[p].pptr = t
  BY <1>0 DEF PinnedFor
<1>4. CASE task[p].state = "zombie"
  <2>1. p \in Live(task)
    <3>1. p \in Tasks
      BY <1>0 DEF PinnedFor
    <3> QED
      BY <1>4, <3>1 DEF Live
  <2>2. "status_faults" \notin Stress =>
            \A s \in Tasks \ {t} : task[s].pc = "status" => task[s].tsk # p
    BY <1>0, <1>3 DEF PinnedFor
  <2> HIDE DEF p
  <2>3. Kinship(reap(task, t, p)) /\ PinnedFor(reap(task, t, p), Tasks)
    BY <1>0, <1>1, <1>4, <2>1, <2>2, ReapKeeps
  <2>4. task' = reap(task, t, p) /\ UNCHANGED <<total_forks, broken>>
    BY <1>2, <1>4 DEF Become
  <2> QED
    BY <1>0, <2>3, <2>4 DEF Kept, TypeOK
<1>5. CASE task[p].state # "zombie"
  BY <1>0, <1>2, <1>3, <1>5 DEF Kept
<1> QED
  BY <1>4, <1>5

\* A signal keeps the invariant.
LEMMA SignalStep ==
    ASSUME TreeInvariant, NEW t \in Tasks, Signal(t)
    PROVE  Kept(task') /\ UNCHANGED <<total_forks, broken>>
<1>0. Kept(task) /\ task \in States
  BY InvariantKept DEF Kept, Kinship, Family
<1>1. task' = signal_wake_up(task, t) /\ UNCHANGED <<total_forks, broken>>
  BY DEF Signal, Become
<1>2. Woken(task, task')
  BY <1>0, <1>1, SignalWakes
<1>3. /\ task' \in States /\ Steady(task, task') /\ Calmed(task, task')
      /\ \A s \in Tasks : task'[s].pptr = task[s].pptr /\ task'[s].cptr = task[s].cptr
  BY <1>2 DEF Woken, Calmed
<1> QED
  BY <1>0, <1>1, <1>3, SteadyKeeps

\* ptrace_attach() keeps the invariant.
LEMMA AttachStep ==
    ASSUME TreeInvariant, NEW t \in Tasks, NEW p \in Tasks, Attach(t, p)
    PROVE  Kept(task') /\ UNCHANGED <<total_forks, broken>>
<1> DEFINE b == TRUE
           E == [task EXCEPT ![p].ptrace = b]
<1>0. Kept(task) /\ task \in States /\ b \in BOOLEAN
  BY InvariantKept DEF Kept, Kinship, Family
<1>1. /\ task' = IF task[p].pptr = t THEN E ELSE set_pptr(E, p, t)
      /\ UNCHANGED <<total_forks, broken>>
  BY DEF Attach, Become
<1>2. /\ p \in Live(task) \ {child_reaper} /\ task[p].state # "zombie"
      /\ t \in Live(task) \ {p} /\ task[t].state # "zombie"
      /\ task[p].exit_signal # "SIGCHLD" => "trace_clone" \in Stress
  BY DEF Attach, InUser, Live
<1> HIDE DEF b
<1>3. Kept(E)
  <2>1. /\ E \in States /\ Steady(task, E)
        /\ \A s \in Tasks : E[s].pptr = task[s].pptr /\ E[s].cptr = task[s].cptr
                            /\ E[s].state = task[s].state
    BY <1>0, Retrace
  <2> HIDE DEF E
  <2>2. Calmed(task, E)
    BY <2>1 DEF Calmed
  <2> QED
    BY <1>0, <2>1, <2>2, SteadyKeeps
<1>4. Kept(set_pptr(E, p, t))
  BY <1>0, <1>2, TraceKeeps
<1> QED
  BY <1>1, <1>3, <1>4

\* ptrace_detach() keeps the invariant.
LEMMA DetachStep ==
    ASSUME TreeInvariant, NEW t \in Tasks, NEW p \in Tasks, Detach(t, p)
    PROVE  Kept(task') /\ UNCHANGED <<total_forks, broken>>
<1> DEFINE b == FALSE
           q == task[p].opptr
<1>0. Kept(task) /\ Parents(task) /\ NoGrandparent(task) /\ b \in BOOLEAN
  BY InvariantKept DEF Kept, Kinship, Family
<1>1. /\ task' = set_pptr([task EXCEPT ![p].ptrace = b], p, q)
      /\ UNCHANGED <<total_forks, broken>>
  BY DEF Detach, Become
<1>2. p \in Live(task) /\ task[p].state # "zombie" /\ task[p].pptr = t
  BY DEF Detach, Live
<1>3. p # child_reaper
  BY <1>0, <1>2, TreeAssumption DEF NoGrandparent
<1>4. q \in Live(task) \ {p} /\ task[q].state # "zombie"
  BY <1>0, <1>2, <1>3 DEF Parents
<1>5. q = task[p].opptr
  OBVIOUS
<1> HIDE DEF b, q
<1>6. Kept(set_pptr([task EXCEPT ![p].ptrace = b], p, q))
  BY <1>0, <1>2, <1>3, <1>4, <1>5, TraceKeeps
<1> QED
  BY <1>1, <1>6

-----------------------------------------------------------------------------
(* The invariant and the theorems                                            *)

\* It holds when only init is there.
LEMMA InitInvariant == Init => TreeInvariant
<1> SUFFICES ASSUME Init PROVE TreeInvariant
  OBVIOUS
<1> DEFINE first == [NoTask(child_reaper) EXCEPT !.state = "running"]
<1>0. child_reaper \in Tasks /\ NULL \notin Tasks /\ MaxForks \in Nat
  BY TreeAssumption
<1>1. task = [t \in Tasks |-> IF t = child_reaper THEN first ELSE NoTask(t)]
  BY <1>0 DEF Init
<1>2. /\ first \in Structs /\ first.state = "running" /\ first.cptr = <<>>
      /\ first.next = child_reaper /\ first.exiting = FALSE /\ first.done = FALSE
      /\ first.pc = "user" /\ first.pptr = NULL /\ first.opptr = NULL
      /\ first.vfork_done = NULL
  <2>1. NoTask(child_reaper) \in Structs
    BY Zenon, <1>0, NoTaskType
  <2> QED
    BY Zenon, <2>1 DEF NoTask, Structs
<1> HIDE DEF first
<1>3. \A t \in Tasks :
          /\ task[t] \in Structs /\ task[t].cptr = <<>> /\ task[t].next = t
          /\ task[t].exiting = FALSE /\ task[t].done = FALSE /\ task[t].pc = "user"
          /\ task[t].pptr = NULL /\ task[t].opptr = NULL /\ task[t].vfork_done = NULL
          /\ task[t].state = IF t = child_reaper THEN "running" ELSE "none"
  <2> SUFFICES ASSUME NEW t \in Tasks
               PROVE  /\ task[t] \in Structs /\ task[t].cptr = <<>> /\ task[t].next = t
                      /\ task[t].exiting = FALSE /\ task[t].done = FALSE /\ task[t].pc = "user"
                      /\ task[t].pptr = NULL /\ task[t].opptr = NULL /\ task[t].vfork_done = NULL
                      /\ task[t].state = IF t = child_reaper THEN "running" ELSE "none"
    BY Zenon
  <2>1. CASE t = child_reaper
    BY <1>1, <1>2, <2>1
  <2>2. CASE t # child_reaper
    BY Zenon, <1>1, <2>2, NoTaskType DEF Blank
  <2> QED
    BY Zenon, <2>1, <2>2
<1>4. task \in States
  BY <1>1, <1>3 DEF States
<1>5. Live(task) = {child_reaper}
  BY <1>0, <1>3 DEF Live
<1>6. Lists(task, Live(task))
  <2>1. IsInjective(<<>>) /\ Range(<<>>) = {}
    BY DEF IsInjective, Range
  <2> QED
    BY <1>0, <1>3, <1>5, <2>1 DEF Lists
<1>7. Rings(task)
  BY <1>3 DEF Rings
<1>8. Phases(task)
  BY <1>0, <1>3 DEF Phases, Blank
<1>9. Parents(task)
  BY <1>5 DEF Parents
<1>10. NoGrandparent(task) /\ Completions(task)
  BY <1>0, <1>3 DEF NoGrandparent, Completions
<1>11. Orphans(task) /\ Traced(task)
  BY <1>0, <1>3, <1>5 DEF Orphans, Traced
<1>12. Heard(task) /\ PinnedFor(task, Tasks)
  BY <1>3 DEF Heard, PinnedFor
<1>13. TypeOK /\ ~broken
  <2>1. total_forks = 0 /\ broken = FALSE
    BY DEF Init
  <2>2. total_forks \in 0 .. MaxForks
    BY <1>0, <2>1
  <2>3. task \in [Tasks -> Structs] /\ broken \in BOOLEAN
    BY Zenon, <1>4, <2>1 DEF States
  <2> QED
    BY <2>1, <2>2, <2>3 DEF TypeOK
<1> QED
  BY <1>4, <1>6, <1>7, <1>8, <1>9, <1>10, <1>11, <1>12, <1>13 DEF TreeInvariant, Family

\* Every step keeps the invariant.
LEMMA StepInvariant == TreeInvariant /\ [Next]_vars => TreeInvariant'
<1> SUFFICES ASSUME TreeInvariant, [Next]_vars PROVE TreeInvariant'
  OBVIOUS
<1>0. TypeOK /\ ("status_faults" \notin Stress => ~broken) /\ MaxForks \in Nat
  BY TreeAssumption DEF TreeInvariant
<1>1. ASSUME Kept(task'), total_forks' \in 0 .. MaxForks, broken' \in BOOLEAN,
             "status_faults" \notin Stress => ~broken'
      PROVE  TreeInvariant'
  BY <1>1 DEF TreeInvariant, TypeOK, Kept, Kinship, Family, States
<1>2. ASSUME Kept(task'), UNCHANGED <<total_forks, broken>> PROVE TreeInvariant'
  BY <1>0, <1>1, <1>2 DEF TypeOK
<1>3. ASSUME NEW p \in Tasks, NEW c \in Tasks, NEW f \in ForkFlags(p), Fork(p, c, f)
      PROVE  TreeInvariant'
  <2>1. Kept(task')
    BY <1>3, ForkStep
  <2>2. total_forks' \in 0 .. MaxForks /\ UNCHANGED broken
    BY <1>0, <1>3 DEF Fork, TypeOK
  <2> QED
    BY <1>0, <1>1, <2>1, <2>2 DEF TypeOK
<1>4. ASSUME NEW t \in Tasks, ForkReturn(t) \/ Exec(t) \/ BeginExit(t) \/ ExitNotify(t)
      PROVE  TreeInvariant'
  BY <1>2, <1>4, InvariantKept, ForkReturnKeeps, ExecStep, BeginExitStep, ExitNotifyStep
<1>5. ASSUME NEW t \in Tasks, (\E o \in Options \cup {AnyChild} : Wait4(t, o)) \/ WaitAgain(t)
      PROVE  TreeInvariant'
  BY <1>2, <1>5, WaitStep
<1>6. ASSUME NEW t \in Tasks, WaitStatus(t) PROVE TreeInvariant'
  <2>1. /\ Kept(task') /\ UNCHANGED total_forks /\ broken' \in BOOLEAN
        /\ "status_faults" \notin Stress => ~broken'
    BY <1>6, StatusStep
  <2> QED
    BY <1>0, <1>1, <2>1 DEF TypeOK
<1>7. ASSUME NEW t \in Tasks, Signal(t) PROVE TreeInvariant'
  BY <1>2, <1>7, SignalStep
<1>8. ASSUME NEW t \in Tasks, NEW p \in Tasks, Attach(t, p) \/ Detach(t, p) PROVE TreeInvariant'
  BY <1>2, <1>8, AttachStep, DetachStep
<1>9. CASE UNCHANGED vars
  <2>1. Kept(task') /\ UNCHANGED <<total_forks, broken>>
    BY <1>9, InvariantKept DEF vars
  <2> QED
    BY <1>2, <2>1
<1>10. CASE Next
  BY <1>3, <1>4, <1>5, <1>6, <1>7, <1>8, <1>10 DEF Next
<1> QED
  BY <1>9, <1>10

\* The invariant of the tree holds throughout: it says what each task structure is
\* doing and how the lists of children, the rings of threads, the two parents and
\* the completions of vfork() hang together.
THEOREM TreeInvariantHolds == Spec => []TreeInvariant
<1>1. Init => TreeInvariant
  BY InitInvariant
<1>2. TreeInvariant /\ [Next]_vars => TreeInvariant'
  BY StepInvariant
<1> QED
  BY <1>1, <1>2, PTL DEF Spec

\* fork, exit, wait4, attach and detach keep the lists of children and the rings of
\* threads in order, by hand: each task is once in the list of its p_pptr and in no
\* other, and no ring holds a released task.
THEOREM LinksAgreeHolds == Spec => []LinksAgree
<1>1. TreeInvariant => LinksAgree
  <2> SUFFICES ASSUME TreeInvariant PROVE LinksAgree
    OBVIOUS
  <2>1. TypeOK /\ Family(task) /\ Lists(task, Live(task)) /\ Used = Live(task)
    BY DEF TreeInvariant, Family, Used, Live
  <2>2. \A p \in Used : Group(task, p) \subseteq Used
    BY <2>1, GroupLive
  <2> QED
    BY <2>1, <2>2 DEF LinksAgree, Lists
<1> QED
  BY <1>1, TreeInvariantHolds, PTL

\* exit_notify() leaves no task with a dead or released parent or original parent.
THEOREM ParentsAliveHolds == Spec => []ParentsAlive
<1>1. TreeInvariant => ParentsAlive
  <2> SUFFICES ASSUME TreeInvariant, NEW t \in Used \ {child_reaper}
               PROVE  {task[t].pptr, task[t].opptr} \subseteq Alive \ {t}
    BY DEF ParentsAlive
  <2>1. Parents(task) /\ Used = Live(task)
    BY DEF TreeInvariant, Family, Used, Live
  <2> QED
    BY <2>1 DEF Parents, Alive
<1> QED
  BY <1>1, TreeInvariantHolds, PTL

\* The completion of vfork() is pointed to by exactly one child as long as the parent
\* waits for it in do_fork(), and by none when the parent has left.
THEOREM CompletionOnStackHolds == Spec => []CompletionOnStack
<1>1. TreeInvariant => CompletionOnStack
  <2> SUFFICES ASSUME TreeInvariant PROVE CompletionOnStack
    OBVIOUS
  <2>1. Completions(task) /\ Phases(task) /\ Used \subseteq Tasks /\ NULL \notin Tasks
    BY TreeAssumption DEF TreeInvariant, Family, Used
  <2>2. ASSUME NEW p \in Used, task[p].pc = "vfork", ~task[p].done
        PROVE  Cardinality({c \in Used : task[c].vfork_done = p}) = 1
    <3>1. PICK c \in Tasks : task[c].vfork_done = p
      BY <2>1, <2>2 DEF Completions
    <3>2. p # NULL
      BY <2>1
    <3>3. c \in Used
      BY <2>1, <3>1, <3>2 DEF Phases, Blank, Used
    <3>4. {d \in Used : task[d].vfork_done = p} = {c}
      BY <2>1, <3>1, <3>2, <3>3 DEF Completions
    <3>5. Cardinality({c}) = 1
      BY FS_Singleton
    <3> QED
      BY Zenon, <3>4, <3>5
  <2>3. \A p \in Used : task[p].pc = "vfork" /\ task[p].done => task[p].state = "running"
    BY <2>1 DEF Completions
  <2>4. \A c \in Used : task[c].vfork_done # NULL =>
            task[task[c].vfork_done].pc = "vfork" /\ ~task[task[c].vfork_done].done
    BY <2>1 DEF Completions
  <2> QED
    BY <2>2, <2>3, <2>4 DEF CompletionOnStack
<1> QED
  BY <1>1, TreeInvariantHolds, PTL

\* When no clone is given to a tracer, no task sleeps in wait4() with a child it could
\* reap: do_notify_parent() reaches the whole group of the parent, and wait4() looks
\* again before it sleeps.
THEOREM NoDeathMissedHolds ==
    ASSUME "trace_clone" \notin Stress
    PROVE  Spec => []NoDeathMissed
<1>1. TreeInvariant => NoDeathMissed
  <2> SUFFICES ASSUME TreeInvariant, NEW t \in Tasks, task[t].state = "interruptible"
               PROVE  dead_child(task, t, task[t].opt) = NULL
    BY DEF NoDeathMissed
  <2>1. Family(task) /\ Heard(task)
    BY DEF TreeInvariant
  <2>2. \A q \in Looked(task, t, task[t].opt) : NoneDead(task, q, task[t].opt)
    BY <2>1 DEF Heard
  <2> QED
    BY <2>1, <2>2, DeadChild
<1> QED
  BY <1>1, TreeInvariantHolds, PTL

\* When writing a status does not sleep in a group of threads, wait4() releases no
\* task twice.
THEOREM NotReleasedTwiceHolds ==
    ASSUME "status_faults" \notin Stress
    PROVE  Spec => []NotReleasedTwice
<1>1. TreeInvariant => NotReleasedTwice
  BY DEF TreeInvariant, NotReleasedTwice
<1> QED
  BY <1>1, TreeInvariantHolds, PTL

\* When no clone is made for init, every child init inherits reports its death in the
\* way that init waits for.
THEOREM InitCanReapHolds ==
    ASSUME "clone_for_init" \notin Stress
    PROVE  Spec => []InitCanReap
<1>1. TreeInvariant => InitCanReap
  BY DEF TreeInvariant, InitCanReap, Orphans, Used, Live
<1> QED
  BY <1>1, TreeInvariantHolds, PTL

=============================================================================
