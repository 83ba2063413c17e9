----------------------------- MODULE WandProofs -----------------------------
(***************************************************************************)
(* Proofs about the wand system calls, for any number of processes, any    *)
(* secrets and any world.                                                  *)
(***************************************************************************)
EXTENDS Wand, FiniteSetTheorems, SequenceTheorems, TLAPS

\* What a world is.
LEMMA World ==
    ASSUME TypeOK
    PROVE  world.stress \subseteq Situations /\ world.nproc \in Nat
<1>1. Cardinality(Procs) \in Nat
  BY WandAssumption, FS_CardinalityType
<1> QED
  BY <1>1, WandAssumption DEF TypeOK

\* Storing a new task_struct.
LEMMA TaskStore ==
    ASSUME NEW f \in [Procs -> Tasks], NEW p \in Procs, NEW r \in Tasks
    PROVE  /\ [f EXCEPT ![p] = r] \in [Procs -> Tasks]
           /\ [f EXCEPT ![p] = r][p] = r
           /\ \A q \in Procs \ {p} : [f EXCEPT ![p] = r][q] = f[q]
OBVIOUS

\* The health that an attack leaves is a number.
LEMMA HealthType == ASSUME TypeOK, NEW p \in Procs, NEW t \in Procs PROVE health_left(p, t) \in Nat
<1>1. task[t].health - task[p].power \in Int
  <2>1. task[t] \in Tasks /\ task[p] \in Tasks
    BY DEF TypeOK
  <2>2. task[t].health \in Nat /\ task[p].power \in Powers \cup {0}
    BY <2>1 DEF Tasks
  <2>3. Powers \subseteq Int
    BY WandAssumption
  <2>4. task[p].power \in Int
    <3>1. CASE task[p].power \in Powers
      BY <2>3, <3>1
    <3>2. CASE task[p].power = 0
      BY <3>2
    <3> QED
      BY <2>2, <3>1, <3>2
  <2> QED
    BY <2>2, <2>4
<1>2. \A n \in Int : Int32(n) \in Int
  <2> TAKE n \in Int
  <2>1. IntWord \in Nat \ {0}
    BY WandAssumption
  <2>2. n % IntWord \in Int
    BY <2>1
  <2> QED
    BY <2>1, <2>2 DEF Int32
<1> HIDE DEF Int32
<1>3. \A n \in Int : max(n, 0) \in Nat
  BY DEF max
<1> QED
  BY <1>1, <1>2, <1>3 DEF health_left

-----------------------------------------------------------------------------
(* What each system call does                                                *)

\* sys_magic_get_wand(): only the caller changes, and has a wand if its secret is stored.
LEMMA GetEffect ==
    ASSUME TypeOK, NEW p \in Procs, NEW power \in Powers, NEW secret \in Secrets,
           sys_magic_get_wand(p, power, secret)
    PROVE  /\ may_get_wand(p, secret) /\ Runs(p) /\ task[p].holding_wand = 0
           /\ task' \in [Procs -> Tasks] /\ \A q \in Procs \ {p} : task'[q] = task[q]
           /\ task'[p].life = task[p].life /\ task'[p].secrets = task[p].secrets
           /\ task'[p].holding_wand = 1 => task'[p].my_secret = secret
           /\ \/ /\ task'[p].my_secret = secret /\ task'[p].holding_wand = 1
                 /\ broken' = broken
              \/ /\ Produces("secret_changes") /\ task'[p].my_secret = FREED
                 /\ task'[p].holding_wand = 0 /\ broken' = broken
              \/ /\ task'[p].my_secret = NULL /\ task'[p].holding_wand = 0 /\ broken' = broken
              \/ /\ StringFault /\ task' = task /\ broken' = TRUE
           /\ UNCHANGED <<call, reply, robbed, processes, world>>
<1> DEFINE r == task[p]
           r1 == [r EXCEPT !.my_secret = secret, !.power = power, !.holding_wand = 1, !.health = FullHealth]
           r2 == [r EXCEPT !.my_secret = FREED]
           r3 == [r EXCEPT !.my_secret = NULL]
<1>1. may_get_wand(p, secret) /\ Runs(p) /\ r.holding_wand = 0
  BY DEF sys_magic_get_wand, may_get_wand
<1>2. r \in Tasks /\ task \in [Procs -> Tasks]
  BY DEF TypeOK
<1>3. FullHealth \in Nat
  BY WandAssumption
<1>4. r1 \in Tasks /\ r2 \in Tasks /\ r3 \in Tasks
  <2> HIDE DEF r
  <2> QED
    BY Zenon, <1>2, <1>3 DEF Tasks
<1>5. /\ r1.life = r.life /\ r1.secrets = r.secrets /\ r1.my_secret = secret /\ r1.holding_wand = 1
      /\ r2.life = r.life /\ r2.secrets = r.secrets /\ r2.my_secret = FREED
      /\ r2.holding_wand = r.holding_wand
      /\ r3.life = r.life /\ r3.secrets = r.secrets /\ r3.my_secret = NULL
      /\ r3.holding_wand = r.holding_wand
  <2> HIDE DEF r
  <2> QED
    BY <1>2 DEF Tasks
<1>6. /\ \/ /\ \/ task' = [task EXCEPT ![p] = r1]
               \/ Produces("secret_changes") /\ task' = [task EXCEPT ![p] = r2]
               \/ task' = [task EXCEPT ![p] = r3]
            /\ broken' = broken
         \/ StringFault /\ broken' = TRUE /\ task' = task
      /\ UNCHANGED <<call, reply, robbed, processes, world>>
  BY Zenon DEF sys_magic_get_wand
<1> HIDE DEF r1, r2, r3
<1> QED
  BY <1>1, <1>2, <1>4, <1>5, <1>6, TaskStore

\* sys_magic_attack(): only the target changes, and neither its wand nor its secret.
LEMMA AttackEffect ==
    ASSUME TypeOK, NEW p \in Procs, NEW t \in Procs, sys_magic_attack(p, t)
    PROVE  /\ Runs(p) /\ p # t /\ both_fit(p, t)
           /\ Produces("dead_target") \/ task[t].life = "alive"
           /\ task' \in [Procs -> Tasks] /\ \A q \in Procs \ {t} : task'[q] = task[q]
           /\ task'[t].life = task[t].life /\ task'[t].secrets = task[t].secrets
           /\ task'[t].my_secret = task[t].my_secret
           /\ task'[t].holding_wand = task[t].holding_wand
           /\ broken' = broken \/ (task[t].life = "dead" /\ broken' = TRUE)
           /\ UNCHANGED <<call, reply, robbed, processes, world>>
<1> DEFINE h == health_left(p, t)
           r == task[t]
           r1 == [r EXCEPT !.health = h]
<1>1. h \in Nat /\ r \in Tasks /\ task \in [Procs -> Tasks]
  BY HealthType DEF TypeOK
<1>2. /\ r1 \in Tasks
      /\ r1.life = r.life /\ r1.secrets = r.secrets /\ r1.my_secret = r.my_secret
      /\ r1.holding_wand = r.holding_wand
  <2> HIDE DEF r, h
  <2> QED
    BY Zenon, <1>1 DEF Tasks
<1>3. \/ task' = [task EXCEPT ![t] = r1] /\ broken' = broken
      \/ task[t].life = "dead" /\ broken' = TRUE /\ task' = task
  BY DEF sys_magic_attack
<1>4. /\ Runs(p) /\ p # t /\ both_fit(p, t)
      /\ Produces("dead_target") \/ task[t].life = "alive"
      /\ UNCHANGED <<call, reply, robbed, processes, world>>
  BY DEF sys_magic_attack
<1> HIDE DEF r1
<1> QED
  BY <1>1, <1>2, <1>3, <1>4, TaskStore

\* The second half of sys_magic_legilimens(): the list of the caller grows by what is read.
LEMMA CopyEffect ==
    ASSUME TypeOK, NEW p \in Procs, legilimens_copy(p)
    PROVE  /\ ~broken /\ call[p] # NULL
           /\ task' \in [Procs -> Tasks] /\ \A q \in Procs \ {p} : task'[q] = task[q]
           /\ task'[p].life = task[p].life /\ task'[p].my_secret = task[p].my_secret
           /\ task'[p].holding_wand = task[p].holding_wand /\ task'[p].health = task[p].health
           /\ \/ /\ \E s \in secret_read(call[p]) : /\ s \in Secrets \cup {JUNK}
                                                   /\ task'[p].secrets = Append(task[p].secrets, s)
                 /\ robbed' = robbed \cup ({<<p, call[p]>>} \cap (Procs \X Procs))
                 /\ broken' = broken
              \/ UNCHANGED <<task, robbed, broken>>
              \/ ~readable(call[p]) /\ broken' = TRUE /\ UNCHANGED <<task, robbed>>
           /\ call' \in [Procs -> Procs \cup {NULL, FREED}]
           /\ call'[p] = NULL /\ \A q \in Procs \ {p} : call'[q] = call[q]
           /\ UNCHANGED <<reply, processes, world>>
<1> DEFINE r == task[p]
<1>1. /\ ~broken /\ call[p] # NULL /\ call' = [call EXCEPT ![p] = NULL]
      /\ UNCHANGED <<reply, processes, world>>
  BY DEF legilimens_copy
<1>2. r \in Tasks /\ task \in [Procs -> Tasks] /\ call \in [Procs -> Procs \cup {NULL, FREED}]
  BY DEF TypeOK
<1>3. CASE UNCHANGED <<task, robbed, broken>>
  BY <1>1, <1>2, <1>3
<1>4. CASE ~readable(call[p]) /\ broken' = TRUE /\ UNCHANGED <<task, robbed>>
  BY Zenon, <1>1, <1>2, <1>4
<1>5. ASSUME NEW s \in secret_read(call[p]), task' = [task EXCEPT ![p].secrets = Append(@, s)],
             robbed' = robbed \cup ({<<p, call[p]>>} \cap (Procs \X Procs)), broken' = broken
      PROVE  /\ task' \in [Procs -> Tasks] /\ \A q \in Procs \ {p} : task'[q] = task[q]
             /\ task'[p].life = task[p].life /\ task'[p].my_secret = task[p].my_secret
             /\ task'[p].holding_wand = task[p].holding_wand /\ task'[p].health = task[p].health
             /\ s \in Secrets \cup {JUNK} /\ task'[p].secrets = Append(task[p].secrets, s)
  <2> DEFINE list == Append(r.secrets, s)
             r1 == [r EXCEPT !.secrets = list]
  <2>1. s \in Secrets \cup {JUNK}
    BY DEF secret_read, readable
  <2>2. list \in Seq(Secrets \cup {JUNK})
    BY <1>2, <2>1 DEF Tasks
  <2>3. /\ r1 \in Tasks
        /\ r1.life = r.life /\ r1.secrets = list /\ r1.my_secret = r.my_secret
        /\ r1.holding_wand = r.holding_wand /\ r1.health = r.health
    <3> HIDE DEF r, list
    <3> QED
      BY Zenon, <1>2, <2>2 DEF Tasks
  <2>4. task' = [task EXCEPT ![p] = r1]
    BY <1>5
  <2> HIDE DEF r1
  <2> QED
    BY <1>2, <2>1, <2>3, <2>4, TaskStore
<1>6. \/ \E s \in secret_read(call[p]) :
            /\ task' = [task EXCEPT ![p].secrets = Append(@, s)]
            /\ robbed' = robbed \cup ({<<p, call[p]>>} \cap (Procs \X Procs))
            /\ broken' = broken
      \/ UNCHANGED <<task, robbed, broken>>
      \/ ~readable(call[p]) /\ broken' = TRUE /\ UNCHANGED <<task, robbed>>
  BY DEF legilimens_copy
<1> QED
  BY <1>1, <1>2, <1>3, <1>4, <1>5, <1>6

\* do_fork(): the child starts without a wand, and the processes of the user are counted.
LEMMA ForkEffect ==
    ASSUME TypeOK, NEW p \in Procs, NEW c \in Procs, do_fork(p, c)
    PROVE  /\ Runs(p) /\ task[c].life = "none" /\ processes < world.nproc
           /\ processes' = processes + 1
           /\ task' \in [Procs -> Tasks] /\ \A q \in Procs \ {c} : task'[q] = task[q]
           /\ \/ /\ task'[c].life = "alive" /\ task'[c].holding_wand = 0
                 /\ task'[c].my_secret = NULL /\ task'[c].secrets = <<>>
              \/ Produces("no_list_head") /\ task' = task
           /\ UNCHANGED <<call, reply, robbed, broken, world>>
<1> DEFINE r == task[p]
           r1 == new_task(p)
<1>1. /\ Runs(p) /\ task[c].life = "none" /\ processes < world.nproc
      /\ processes' = processes + 1
      /\ task' = [task EXCEPT ![c] = r1] \/ (Produces("no_list_head") /\ task' = task)
      /\ UNCHANGED <<call, reply, robbed, broken, world>>
  BY DEF do_fork
<1>2. r \in Tasks /\ task \in [Procs -> Tasks] /\ r.life = "alive"
  BY <1>1 DEF TypeOK, Runs
<1>e. <<>> \in Seq(Secrets \cup {JUNK})
  OBVIOUS
<1>3. /\ r1 \in Tasks /\ r1.life = "alive" /\ r1.holding_wand = 0 /\ r1.my_secret = NULL
      /\ r1.secrets = <<>>
  <2>1. r1 = [r EXCEPT !.holding_wand = 0, !.my_secret = NULL, !.secrets = <<>>]
    BY DEF new_task
  <2> HIDE DEF r, r1
  <2> QED
    BY Zenon, <1>2, <1>e, <2>1 DEF Tasks
<1> HIDE DEF r1
<1> QED
  BY <1>1, <1>2, <1>3, TaskStore

\* do_exit(): the list and the secret are freed.
LEMMA ExitEffect ==
    ASSUME TypeOK, NEW p \in Procs, do_exit(p)
    PROVE  /\ Runs(p) /\ (Produces("dead_target") \/ \A q \in Procs : call[q] # p)
           /\ task' \in [Procs -> Tasks] /\ \A q \in Procs \ {p} : task'[q] = task[q]
           /\ task'[p].holding_wand = task[p].holding_wand /\ task'[p].health = task[p].health
           /\ \/ task[p].my_secret = FREED /\ broken' = TRUE /\ UNCHANGED <<task, reply>>
              \/ /\ task[p].my_secret # FREED /\ broken' = broken
                 /\ task'[p].life = "dead" /\ task'[p].secrets = <<>>
                 /\ task'[p].my_secret \in {NULL, FREED}
                 /\ reply' = [reply EXCEPT ![p] = NoReply]
           /\ UNCHANGED <<call, robbed, processes, world>>
<1> DEFINE r == task[p]
           ms == IF r.my_secret = NULL THEN NULL ELSE FREED
           r1 == [r EXCEPT !.life = "dead", !.secrets = <<>>, !.my_secret = ms]
<1>1. /\ Runs(p) /\ (Produces("dead_target") \/ \A q \in Procs : call[q] # p)
      /\ \/ r.my_secret = FREED /\ broken' = TRUE /\ UNCHANGED <<task, reply>>
         \/ /\ r.my_secret # FREED /\ task' = [task EXCEPT ![p] = r1] /\ broken' = broken
            /\ reply' = [reply EXCEPT ![p] = NoReply]
      /\ UNCHANGED <<call, robbed, processes, world>>
  BY Zenon DEF do_exit
<1>2. r \in Tasks /\ task \in [Procs -> Tasks]
  BY DEF TypeOK
<1>e. <<>> \in Seq(Secrets \cup {JUNK})
  OBVIOUS
<1>3. /\ r1 \in Tasks /\ r1.life = "dead" /\ r1.holding_wand = r.holding_wand
      /\ r1.my_secret = ms /\ r1.secrets = <<>> /\ r1.health = r.health /\ ms \in {NULL, FREED}
  <2>1. ms \in {NULL, FREED}
    OBVIOUS
  <2> HIDE DEF r, ms
  <2> QED
    BY Zenon, <1>2, <1>e, <2>1 DEF Tasks
<1> HIDE DEF r1, ms
<1> QED
  BY <1>1, <1>2, <1>3, TaskStore

\* release_task(): the process is gone and no longer counted.
LEMMA ReleaseEffect ==
    ASSUME TypeOK, NEW p \in Procs, release_task(p)
    PROVE  /\ ~broken /\ task[p].life = "dead" /\ processes' = processes - 1
           /\ task' \in [Procs -> Tasks] /\ \A q \in Procs \ {p} : task'[q] = task[q]
           /\ task'[p] = NoTask
           /\ call' \in [Procs -> Procs \cup {NULL, FREED}]
           /\ \A q \in Procs : call'[q] = IF call[q] = p THEN FREED ELSE call[q]
           /\ robbed' = {r \in robbed : p \notin {r[1], r[2]}}
           /\ UNCHANGED <<reply, broken, world>>
<1>1. NoTask \in Tasks
  BY DEF NoTask, Tasks
<1> QED
  BY <1>1, TaskStore DEF release_task, TypeOK

-----------------------------------------------------------------------------
(* The inductive invariant                                                   *)

There == {p \in Procs : Found(p)}

\* A failed fork may leave the user's count too high, and nothing makes it too
\* low.
Counted ==
    /\ Cardinality(There) <= processes
    /\ ~Produces("no_list_head") => processes = Cardinality(There)

\* What the fields of a task_struct have to do with the life of its process.
Lives ==
    \A p \in Procs :
        /\ task[p].life = "none" => task[p].holding_wand = 0 /\ task[p].my_secret = NULL
        /\ task[p].holding_wand = 0 => task[p].secrets = <<>>
        /\ task[p].life = "alive" /\ task[p].holding_wand = 1 => task[p].my_secret \in Secrets
        /\ task[p].life = "dead" => task[p].my_secret \in {NULL, FREED} /\ task[p].secrets = <<>>
        /\ call[p] # NULL => task[p].life = "alive" /\ task[p].holding_wand = 1

\* Only a secret that changes leaves a live process with a stale pointer.
Fresh ==
    ~Produces("secret_changes") =>
        \A p \in Procs : task[p].life = "alive" => task[p].my_secret # FREED

\* The target of a sleeping legilimens keeps its secret, and the caller has not
\* got it yet.
Targets ==
    \A p \in Procs : call[p] # NULL =>
        /\ call[p] \in Procs
        /\ task[call[p]].life = "alive" /\ task[call[p]].holding_wand = 1
        /\ ~has_stolen(p, task[call[p]].my_secret)

Once == \A p \in Procs : IsInjective(task[p].secrets)

\* While targets live.
LiveInv == ~Produces("dead_target") => Targets /\ Once

\* Both sides of a robbery have had a wand, in this life of their pids.
Robbers == \A p, t \in Procs : <<p, t>> \in robbed => task[p].holding_wand = 1 /\ task[t].holding_wand = 1

\* The target of a sleeping legilimens has its wand, dead or alive, until its
\* task_struct is gone.
Victims == \A p \in Procs : call[p] \in Procs => task[call[p]].holding_wand = 1

Distinct ==
    ~Produces("same_secret") =>
        \A p, q \in Procs : p # q /\ task[p].my_secret \in Secrets
                                => task[p].my_secret # task[q].my_secret

WandInv ==
    /\ TypeOK /\ Counted /\ Lives /\ Fresh /\ LiveInv /\ Robbers /\ Victims /\ Distinct
    /\ ListsTellRobberies /\ BreaksOnlyThen

\* sys_magic_list_secrets() changes no process.
LEMMA ListEffect ==
    ASSUME NEW p \in Procs, NEW size \in Sizes, sys_magic_list_secrets(p, size)
    PROVE  /\ Runs(p) /\ task[p].holding_wand = 1
           /\ broken' = broken \/ (Produces("bad_pointer") /\ broken' = TRUE /\ reply' = reply)
           /\ UNCHANGED <<task, call, robbed, processes, world>>
BY DEF sys_magic_list_secrets

\* The first half of sys_magic_legilimens() only notes the target.
LEMMA CallEffect ==
    ASSUME TypeOK, NEW p \in Procs, NEW t \in Procs, sys_magic_legilimens(p, t)
    PROVE  /\ Runs(p) /\ p # t /\ task[p].holding_wand = 1 /\ task[t].holding_wand = 1
           /\ Produces("dead_target") \/ task[t].life = "alive"
           /\ \E s \in secret_read(t) : ~has_stolen(p, s)
           /\ call' \in [Procs -> Procs \cup {NULL, FREED}]
           /\ call'[p] = t /\ \A q \in Procs \ {p} : call'[q] = call[q]
           /\ UNCHANGED <<task, reply, robbed, processes, broken, world>>
BY DEF sys_magic_legilimens, TypeOK

\* No call changes the world.
LEMMA WorldSame == ASSUME TypeOK, [Next]_vars PROVE world' = world
BY Zenon, GetEffect, AttackEffect, CallEffect, CopyEffect, ListEffect, ForkEffect, ExitEffect, ReleaseEffect
   DEF Next, vars

-----------------------------------------------------------------------------
(* The count of processes                                                    *)

\* Whoever is there is counted.
LEMMA ThereCounts ==
    /\ IsFiniteSet(There) /\ Cardinality(There) \in Nat
    /\ \A p \in There : Cardinality(There) >= 1
<1>1. IsFiniteSet(There)
  BY WandAssumption, FS_Subset DEF There
<1>2. Cardinality(There) \in Nat
  BY <1>1, FS_CardinalityType
<1>3. ASSUME NEW p \in There PROVE Cardinality(There) >= 1
  <2>1. Cardinality(There) # 0
    BY <1>1, FS_EmptySet
  <2> QED
    BY <1>2, <2>1
<1> QED
  BY <1>1, <1>2, <1>3

\* The set of processes changes with do_fork() and release_task() only.
LEMMA ThereSame ==
    ASSUME TypeOK, \A p \in Procs : task'[p].life = task[p].life \/ {task[p].life, task'[p].life} = {"alive", "dead"}
    PROVE  There' = There
BY DEF There, Found

\* Every step keeps the count of the user's processes.
LEMMA CountedStep ==
    ASSUME TypeOK, Counted, [Next]_vars
    PROVE  Counted' /\ processes' \in 0 .. world.nproc
<1>w. world' = world /\ processes \in 0 .. world.nproc /\ world.nproc \in Nat /\ processes \in Nat
  BY WorldSame, World DEF TypeOK
<1>c. Cardinality(There) \in Nat /\ IsFiniteSet(There)
  BY ThereCounts
<1> DEFINE Goal == Counted' /\ processes' \in 0 .. world.nproc
<1>same. ASSUME There' = There, processes' = processes PROVE Goal
  BY <1>same, <1>w DEF Counted, Produces
<1>1. ASSUME NEW p \in Procs, NEW power \in Powers, NEW secret \in Secrets,
             sys_magic_get_wand(p, power, secret) PROVE Goal
  <2>1. There' = There /\ processes' = processes
    BY Zenon, <1>1, GetEffect, ThereSame
  <2> QED
    BY <1>same, <2>1
<1>2. ASSUME NEW p \in Procs, NEW t \in Procs, sys_magic_attack(p, t) PROVE Goal
  <2>1. There' = There /\ processes' = processes
    BY Zenon, <1>2, AttackEffect, ThereSame
  <2> QED
    BY <1>same, <2>1
<1>3. ASSUME NEW p \in Procs, NEW t \in Procs, sys_magic_legilimens(p, t) PROVE Goal
  BY <1>3, <1>same, CallEffect, ThereSame
<1>4. ASSUME NEW p \in Procs, legilimens_copy(p) PROVE Goal
  <2>1. There' = There /\ processes' = processes
    BY Zenon, <1>4, CopyEffect, ThereSame
  <2> QED
    BY <1>same, <2>1
<1>5. ASSUME NEW p \in Procs, NEW size \in Sizes, sys_magic_list_secrets(p, size) PROVE Goal
  BY <1>5, <1>same, ListEffect, ThereSame
<1>6. ASSUME NEW p \in Procs, NEW c \in Procs, do_fork(p, c) PROVE Goal
  <2>1. /\ task[c].life = "none" /\ processes < world.nproc /\ processes' = processes + 1
        /\ \A q \in Procs \ {c} : task'[q] = task[q]
        /\ task'[c].life = "alive" \/ (Produces("no_list_head") /\ task' = task)
    BY <1>6, ForkEffect
  <2>2. CASE task'[c].life = "alive"
    <3>1. There' = There \cup {c} /\ c \notin There
      BY <2>1, <2>2 DEF There, Found
    <3>2. Cardinality(There') = Cardinality(There) + 1
      BY <1>c, <3>1, FS_AddElement
    <3> QED
      BY <1>w, <1>c, <2>1, <3>2 DEF Counted, Produces
  <2>3. CASE Produces("no_list_head") /\ task' = task
    <3>1. There' = There
      BY <2>3 DEF There, Found
    <3> QED
      BY <1>w, <1>c, <2>1, <2>3, <3>1 DEF Counted, Produces
  <2> QED
    BY <2>1, <2>2, <2>3
<1>7. ASSUME NEW p \in Procs, do_exit(p) PROVE Goal
  <2>1. There' = There /\ processes' = processes
    BY Zenon, <1>7, ExitEffect, ThereSame DEF Runs
  <2> QED
    BY <1>same, <2>1
<1>8. ASSUME NEW p \in Procs, release_task(p) PROVE Goal
  <2>1. /\ task[p].life = "dead" /\ processes' = processes - 1 /\ task'[p].life = "none"
        /\ \A q \in Procs \ {p} : task'[q] = task[q]
    BY <1>8, ReleaseEffect DEF NoTask
  <2>2. There' = There \ {p} /\ p \in There
    BY <2>1 DEF There, Found
  <2>3. Cardinality(There') = Cardinality(There) - 1 /\ Cardinality(There) >= 1
    BY <1>c, <2>2, FS_RemoveElement, ThereCounts
  <2> QED
    BY <1>w, <1>c, <2>1, <2>3 DEF Counted, Produces
<1>9. CASE UNCHANGED vars
  BY <1>9, <1>same DEF vars, There, Found
<1> QED
  BY <1>1, <1>2, <1>3, <1>4, <1>5, <1>6, <1>7, <1>8, <1>9 DEF Next

\* Every step keeps the types.
LEMMA TypeStep ==
    ASSUME TypeOK, Counted, [Next]_vars
    PROVE  TypeOK'
<1>0. world' = world /\ processes' \in 0 .. world.nproc
  BY WorldSame, CountedStep
<1> DEFINE Goal == /\ task' \in [Procs -> Tasks] /\ call' \in [Procs -> Procs \cup {NULL, FREED}]
                   /\ robbed' \subseteq Procs \X Procs
                   /\ broken' = broken \/ broken' = TRUE
<1>t. /\ task \in [Procs -> Tasks] /\ call \in [Procs -> Procs \cup {NULL, FREED}]
      /\ robbed \subseteq Procs \X Procs /\ broken \in BOOLEAN
  BY DEF TypeOK
<1>1. ASSUME NEW p \in Procs, NEW power \in Powers, NEW secret \in Secrets,
             sys_magic_get_wand(p, power, secret) PROVE Goal
  BY Zenon, <1>1, <1>t, GetEffect
<1>2. ASSUME NEW p \in Procs, NEW t \in Procs, sys_magic_attack(p, t) PROVE Goal
  BY Zenon, <1>2, <1>t, AttackEffect
<1>3. ASSUME NEW p \in Procs, NEW t \in Procs, sys_magic_legilimens(p, t) PROVE Goal
  BY <1>3, <1>t, CallEffect
<1>4. ASSUME NEW p \in Procs, legilimens_copy(p) PROVE Goal
  BY Zenon, <1>4, <1>t, CopyEffect
<1>5. ASSUME NEW p \in Procs, NEW size \in Sizes, sys_magic_list_secrets(p, size) PROVE Goal
  BY <1>5, <1>t, ListEffect
<1>6. ASSUME NEW p \in Procs, NEW c \in Procs, do_fork(p, c) PROVE Goal
  BY <1>6, <1>t, ForkEffect
<1>7. ASSUME NEW p \in Procs, do_exit(p) PROVE Goal
  BY Zenon, <1>7, <1>t, ExitEffect
<1>8. ASSUME NEW p \in Procs, release_task(p) PROVE Goal
  BY <1>8, <1>t, ReleaseEffect
<1>9. ASSUME UNCHANGED vars PROVE Goal
  BY <1>9, <1>t DEF vars
<1> HIDE DEF Goal
<1>10. Goal
  BY <1>1, <1>2, <1>3, <1>4, <1>5, <1>6, <1>7, <1>8, <1>9 DEF Next
<1>11. broken' \in BOOLEAN
  BY Zenon, <1>t, <1>10 DEF Goal
<1> QED
  BY <1>0, <1>10, <1>11, WandAssumption DEF Goal, TypeOK

-----------------------------------------------------------------------------
(* Lives and secrets                                                         *)

\* What is known of each process's task_struct.
LEMMA TaskType ==
    ASSUME TypeOK, NEW q \in Procs
    PROVE  /\ task[q] \in Tasks /\ task[q].life \in {"none", "alive", "dead"}
           /\ task[q].holding_wand \in {0, 1} /\ task[q].my_secret \in Secrets \cup {NULL, FREED}
           /\ task[q].secrets \in Seq(Secrets \cup {JUNK})
BY DEF TypeOK, Tasks

\* Every step keeps what a process has in each phase of its life.
LEMMA LivesStep ==
    ASSUME TypeOK, Lives, LiveInv, [Next]_vars
    PROVE  Lives'
<1> DEFINE Good(r, c) ==
               /\ r.life = "none" => r.holding_wand = 0 /\ r.my_secret = NULL
               /\ r.holding_wand = 0 => r.secrets = <<>>
               /\ r.life = "alive" /\ r.holding_wand = 1 => r.my_secret \in Secrets
               /\ r.life = "dead" => r.my_secret \in {NULL, FREED} /\ r.secrets = <<>>
               /\ c # NULL => r.life = "alive" /\ r.holding_wand = 1
<1> SUFFICES ASSUME NEW q \in Procs PROVE Good(task'[q], call'[q])
  BY DEF Lives
<1>0. Good(task[q], call[q]) /\ call[q] \in Procs \cup {NULL, FREED}
  BY DEF Lives, TypeOK
<1>1. ASSUME NEW p \in Procs, NEW power \in Powers, NEW secret \in Secrets,
             sys_magic_get_wand(p, power, secret) PROVE Good(task'[q], call'[q])
  <2>1. call' = call /\ task[p].life = "alive" /\ call[p] = NULL
    BY Zenon, <1>1, GetEffect DEF Runs
  <2>2. CASE q = p
    <3>1. /\ task'[p].life = "alive" /\ task'[p].secrets = <<>>
          /\ task'[p].holding_wand = 1 => task'[p].my_secret \in Secrets
      <4>1. task[p].secrets = <<>> /\ task[p].holding_wand = 0
        BY Zenon, <1>0, <1>1, <2>2, GetEffect
      <4> QED
        BY Zenon, <1>1, <2>1, <4>1, GetEffect
    <3> QED
      BY <2>1, <2>2, <3>1
  <2>3. CASE q # p
    BY Zenon, <1>0, <1>1, <2>1, <2>3, GetEffect
  <2> QED
    BY <2>2, <2>3
<1>2. ASSUME NEW p \in Procs, NEW t \in Procs, sys_magic_attack(p, t)
      PROVE  Good(task'[q], call'[q])
  BY Zenon, <1>0, <1>2, AttackEffect
<1>3. ASSUME NEW p \in Procs, NEW t \in Procs, sys_magic_legilimens(p, t)
      PROVE  Good(task'[q], call'[q])
  BY <1>0, <1>3, CallEffect DEF Runs
<1>4. ASSUME NEW p \in Procs, legilimens_copy(p) PROVE Good(task'[q], call'[q])
  <2>1. task[p].life = "alive" /\ task[p].holding_wand = 1
    BY Zenon, <1>4, CopyEffect DEF Lives
  <2>2. CASE q = p
    <3>1. /\ task'[p].life = task[p].life /\ task'[p].my_secret = task[p].my_secret
          /\ task'[p].holding_wand = task[p].holding_wand
      BY Zenon, <1>4, CopyEffect
    <3> QED
      BY <1>0, <2>1, <2>2, <3>1
  <2>3. CASE q # p
    BY Zenon, <1>0, <1>4, <2>3, CopyEffect
  <2> QED
    BY <2>2, <2>3
<1>5. ASSUME NEW p \in Procs, NEW size \in Sizes, sys_magic_list_secrets(p, size)
      PROVE  Good(task'[q], call'[q])
  BY <1>0, <1>5, ListEffect
<1>6. ASSUME NEW p \in Procs, NEW c \in Procs, do_fork(p, c) PROVE Good(task'[q], call'[q])
  BY <1>0, <1>6, ForkEffect
<1>7. ASSUME NEW p \in Procs, do_exit(p) PROVE Good(task'[q], call'[q])
  BY Zenon, <1>0, <1>7, ExitEffect DEF Runs
<1>8. ASSUME NEW p \in Procs, release_task(p) PROVE Good(task'[q], call'[q])
  <2>1. NoTask.life = "none" /\ NoTask.holding_wand = 0 /\ NoTask.my_secret = NULL
        /\ NoTask.secrets = <<>>
    BY DEF NoTask
  <2>2. call'[q] # NULL => call[q] # NULL
    BY <1>8, ReleaseEffect, WandAssumption
  <2>3. CASE q = p
    <3>1. call[p] = NULL
      BY <1>0, <1>8, <2>3, ReleaseEffect
    <3> QED
      BY <1>8, <2>1, <2>2, <2>3, <3>1, ReleaseEffect
  <2>4. CASE q # p
    BY <1>0, <1>8, <2>2, <2>4, ReleaseEffect
  <2> QED
    BY <2>3, <2>4
<1>9. CASE UNCHANGED vars
  BY <1>0, <1>9 DEF vars
<1> QED
  BY Zenon, <1>1, <1>2, <1>3, <1>4, <1>5, <1>6, <1>7, <1>8, <1>9 DEF Next

\* Every step keeps that nobody alive has a freed secret, unless secret_changes.
LEMMA FreshStep ==
    ASSUME TypeOK, Fresh, [Next]_vars
    PROVE  Fresh'
<1>w. world' = world
  BY WorldSame
<1> SUFFICES ASSUME ~Produces("secret_changes"), NEW q \in Procs, task'[q].life = "alive"
             PROVE  task'[q].my_secret # FREED
  BY <1>w DEF Fresh, Produces
<1>0. task[q].life = "alive" => task[q].my_secret # FREED
  BY DEF Fresh
<1>f. FREED # NULL /\ FREED \notin Secrets
  BY WandAssumption
<1>1. ASSUME NEW p \in Procs, NEW power \in Powers, NEW secret \in Secrets,
             sys_magic_get_wand(p, power, secret) PROVE task'[q].my_secret # FREED
  BY Zenon, <1>0, <1>1, <1>f, GetEffect
<1>2. ASSUME NEW p \in Procs, NEW t \in Procs, sys_magic_attack(p, t)
      PROVE  task'[q].my_secret # FREED
  BY Zenon, <1>0, <1>2, AttackEffect
<1>3. ASSUME NEW p \in Procs, NEW t \in Procs, sys_magic_legilimens(p, t)
      PROVE  task'[q].my_secret # FREED
  BY <1>0, <1>3, CallEffect
<1>4. ASSUME NEW p \in Procs, legilimens_copy(p) PROVE task'[q].my_secret # FREED
  BY Zenon, <1>0, <1>4, CopyEffect
<1>5. ASSUME NEW p \in Procs, NEW size \in Sizes, sys_magic_list_secrets(p, size)
      PROVE  task'[q].my_secret # FREED
  BY <1>0, <1>5, ListEffect
<1>6. ASSUME NEW p \in Procs, NEW c \in Procs, do_fork(p, c) PROVE task'[q].my_secret # FREED
  BY <1>0, <1>6, <1>f, ForkEffect
<1>7. ASSUME NEW p \in Procs, do_exit(p) PROVE task'[q].my_secret # FREED
  BY Zenon, <1>0, <1>7, ExitEffect
<1>8. ASSUME NEW p \in Procs, release_task(p) PROVE task'[q].my_secret # FREED
  BY <1>0, <1>8, ReleaseEffect DEF NoTask
<1>9. CASE UNCHANGED vars
  BY <1>0, <1>9 DEF vars
<1> QED
  BY <1>1, <1>2, <1>3, <1>4, <1>5, <1>6, <1>7, <1>8, <1>9 DEF Next

\* What breaks the kernel.
LEMMA BreaksStep ==
    ASSUME TypeOK, Lives, Fresh, LiveInv, BreaksOnlyThen, [Next]_vars
    PROVE  BreaksOnlyThen'
<1>w. world' = world
  BY WorldSame
<1> SUFFICES ASSUME ~Produces("dead_target"), ~StringFault
             PROVE  ~broken'
  BY <1>w DEF BreaksOnlyThen, StringFault, Produces
<1>0. ~broken
  BY DEF BreaksOnlyThen
<1>s. ~Produces("secret_changes") /\ ~Produces("bad_pointer")
  BY DEF StringFault
<1>1. ASSUME NEW p \in Procs, NEW power \in Powers, NEW secret \in Secrets,
             sys_magic_get_wand(p, power, secret) PROVE ~broken'
  BY Zenon, <1>0, <1>1, GetEffect
<1>2. ASSUME NEW p \in Procs, NEW t \in Procs, sys_magic_attack(p, t) PROVE ~broken'
  BY Zenon, <1>0, <1>2, AttackEffect
<1>3. ASSUME NEW p \in Procs, NEW t \in Procs, sys_magic_legilimens(p, t) PROVE ~broken'
  BY <1>0, <1>3, CallEffect
<1>4. ASSUME NEW p \in Procs, legilimens_copy(p) PROVE ~broken'
  <2>1. readable(call[p])
    BY Zenon, <1>4, CopyEffect DEF LiveInv, Targets, Lives, readable
  <2> QED
    BY Zenon, <1>0, <1>4, <2>1, CopyEffect
<1>5. ASSUME NEW p \in Procs, NEW size \in Sizes, sys_magic_list_secrets(p, size) PROVE ~broken'
  BY <1>0, <1>s, <1>5, ListEffect
<1>6. ASSUME NEW p \in Procs, NEW c \in Procs, do_fork(p, c) PROVE ~broken'
  BY <1>0, <1>6, ForkEffect
<1>7. ASSUME NEW p \in Procs, do_exit(p) PROVE ~broken'
  BY Zenon, <1>0, <1>s, <1>7, ExitEffect DEF Runs, Fresh
<1>8. ASSUME NEW p \in Procs, release_task(p) PROVE ~broken'
  BY <1>0, <1>8, ReleaseEffect
<1>9. CASE UNCHANGED vars
  BY <1>0, <1>9 DEF vars
<1> QED
  BY <1>1, <1>2, <1>3, <1>4, <1>5, <1>6, <1>7, <1>8, <1>9 DEF Next

\* Secrets of different processes differ.
LEMMA DistinctStep ==
    ASSUME TypeOK, Distinct, [Next]_vars
    PROVE  Distinct'
<1>w. world' = world
  BY WorldSame
<1> SUFFICES ASSUME ~Produces("same_secret"), NEW a \in Procs, NEW b \in Procs, a # b,
                    task'[a].my_secret \in Secrets, task'[a].my_secret = task'[b].my_secret
             PROVE  FALSE
  BY <1>w DEF Distinct, Produces
<1>0. task[a].my_secret \in Secrets => task[a].my_secret # task[b].my_secret
  BY DEF Distinct
<1>f. NULL \notin Secrets /\ FREED \notin Secrets
  BY WandAssumption
<1>1. ASSUME NEW p \in Procs, NEW power \in Powers, NEW secret \in Secrets,
             sys_magic_get_wand(p, power, secret) PROVE FALSE
  <2>1. \A x \in Procs : task[x].my_secret # secret
    BY ZenonT(40), <1>1, GetEffect DEF may_get_wand
  <2>2. /\ task'[p].my_secret \in {secret, FREED, NULL} \/ task' = task
        /\ \A x \in Procs \ {p} : task'[x] = task[x]
    BY Zenon, <1>1, GetEffect
  <2> QED
    BY <1>0, <1>f, <2>1, <2>2
<1>2. ASSUME NEW p \in Procs, NEW t \in Procs, sys_magic_attack(p, t) PROVE FALSE
  BY Zenon, <1>0, <1>2, AttackEffect
<1>3. ASSUME NEW p \in Procs, NEW t \in Procs, sys_magic_legilimens(p, t) PROVE FALSE
  BY <1>0, <1>3, CallEffect
<1>4. ASSUME NEW p \in Procs, legilimens_copy(p) PROVE FALSE
  BY Zenon, <1>0, <1>4, CopyEffect
<1>5. ASSUME NEW p \in Procs, NEW size \in Sizes, sys_magic_list_secrets(p, size) PROVE FALSE
  BY <1>0, <1>5, ListEffect
<1>6. ASSUME NEW p \in Procs, NEW c \in Procs, do_fork(p, c) PROVE FALSE
  BY <1>0, <1>6, <1>f, ForkEffect
<1>7. ASSUME NEW p \in Procs, do_exit(p) PROVE FALSE
  <2>1. /\ task' = task \/ task'[p].my_secret \in {NULL, FREED}
        /\ \A x \in Procs \ {p} : task'[x] = task[x]
    BY Zenon, <1>7, ExitEffect
  <2>2. task' # task => a # p /\ b # p
    BY <1>f, <2>1
  <2> QED
    BY <1>0, <2>1, <2>2
<1>8. ASSUME NEW p \in Procs, release_task(p) PROVE FALSE
  BY <1>0, <1>8, <1>f, ReleaseEffect DEF NoTask
<1>9. CASE UNCHANGED vars
  BY <1>0, <1>9 DEF vars
<1> QED
  BY <1>1, <1>2, <1>3, <1>4, <1>5, <1>6, <1>7, <1>8, <1>9 DEF Next

\* Every step keeps that robbers and the robbed have wands.
LEMMA RobbersStep ==
    ASSUME TypeOK, Lives, Robbers, [Next]_vars, NEW a \in Procs, NEW b \in Procs,
           <<a, b>> \in robbed', Victims
    PROVE  task'[a].holding_wand = 1 /\ task'[b].holding_wand = 1
<1> DEFINE Goal == task'[a].holding_wand = 1 /\ task'[b].holding_wand = 1
<1>0. <<a, b>> \in robbed => task[a].holding_wand = 1 /\ task[b].holding_wand = 1
  BY DEF Robbers
<1>1. ASSUME NEW p \in Procs, NEW power \in Powers, NEW secret \in Secrets,
             sys_magic_get_wand(p, power, secret) PROVE Goal
  BY Zenon, <1>0, <1>1, GetEffect
<1>2. ASSUME NEW p \in Procs, NEW t \in Procs, sys_magic_attack(p, t) PROVE Goal
  BY Zenon, <1>0, <1>2, AttackEffect
<1>3. ASSUME NEW p \in Procs, NEW t \in Procs, sys_magic_legilimens(p, t) PROVE Goal
  BY <1>0, <1>3, CallEffect
<1>4. ASSUME NEW p \in Procs, legilimens_copy(p) PROVE Goal
  <2>1. \A x \in Procs : task'[x].holding_wand = task[x].holding_wand
    BY Zenon, <1>4, CopyEffect
  <2>2. <<a, b>> \in robbed \/ (a = p /\ b = call[p] /\ b \in Procs)
    <3>1. robbed' = robbed \/ robbed' = robbed \cup ({<<p, call[p]>>} \cap (Procs \X Procs))
      BY Zenon, <1>4, CopyEffect
    <3>2. <<a, b>> \in robbed \/ <<a, b>> = <<p, call[p]>>
      BY <3>1
    <3> QED
      BY <3>2
  <2>3. task[p].holding_wand = 1 /\ (call[p] \in Procs => task[call[p]].holding_wand = 1)
    BY Zenon, <1>4, CopyEffect DEF Lives, Victims
  <2> QED
    BY <1>0, <2>1, <2>2, <2>3
<1>5. ASSUME NEW p \in Procs, NEW size \in Sizes, sys_magic_list_secrets(p, size) PROVE Goal
  BY <1>0, <1>5, ListEffect
<1>6. ASSUME NEW p \in Procs, NEW c \in Procs, do_fork(p, c) PROVE Goal
  <2>1. task[c].holding_wand # 1
    BY <1>6, ForkEffect DEF Lives
  <2> QED
    BY <1>0, <1>6, <2>1, ForkEffect
<1>7. ASSUME NEW p \in Procs, do_exit(p) PROVE Goal
  BY Zenon, <1>0, <1>7, ExitEffect
<1>8. ASSUME NEW p \in Procs, release_task(p) PROVE Goal
  <2>1. <<a, b>> \in robbed /\ p \notin {a, b}
    BY <1>8, ReleaseEffect
  <2> QED
    BY <1>0, <1>8, <2>1, ReleaseEffect
<1>9. CASE UNCHANGED vars
  BY <1>0, <1>9 DEF vars
<1> QED
  BY <1>1, <1>2, <1>3, <1>4, <1>5, <1>6, <1>7, <1>8, <1>9 DEF Next

\* Every step keeps that the target of a legilimens that sleeps has a wand.
LEMMA VictimsStep ==
    ASSUME TypeOK, Lives, Victims, [Next]_vars
    PROVE  Victims'
<1> SUFFICES ASSUME NEW q \in Procs, call'[q] \in Procs
             PROVE  task'[call'[q]].holding_wand = 1
  BY DEF Victims
<1> DEFINE Goal == task'[call'[q]].holding_wand = 1
<1>0. call[q] \in Procs => task[call[q]].holding_wand = 1
  BY DEF Victims
<1>f. NULL \notin Procs /\ FREED \notin Procs
  BY WandAssumption
<1>1. ASSUME NEW p \in Procs, NEW power \in Powers, NEW secret \in Secrets,
             sys_magic_get_wand(p, power, secret) PROVE Goal
  BY ZenonT(40), <1>0, <1>1, GetEffect
<1>2. ASSUME NEW p \in Procs, NEW t \in Procs, sys_magic_attack(p, t) PROVE Goal
  <2>1. call' = call /\ \A x \in Procs : task'[x].holding_wand = task[x].holding_wand
    BY Zenon, <1>2, AttackEffect
  <2> QED
    BY <1>0, <2>1
<1>3. ASSUME NEW p \in Procs, NEW t \in Procs, sys_magic_legilimens(p, t) PROVE Goal
  BY <1>0, <1>3, CallEffect
<1>4. ASSUME NEW p \in Procs, legilimens_copy(p) PROVE Goal
  <2>1. /\ \A x \in Procs : task'[x].holding_wand = task[x].holding_wand
        /\ call'[q] = NULL \/ call'[q] = call[q]
    BY Zenon, <1>4, CopyEffect
  <2> QED
    BY <1>0, <1>f, <2>1
<1>5. ASSUME NEW p \in Procs, NEW size \in Sizes, sys_magic_list_secrets(p, size) PROVE Goal
  BY <1>0, <1>5, ListEffect
<1>6. ASSUME NEW p \in Procs, NEW c \in Procs, do_fork(p, c) PROVE Goal
  <2>1. task[c].holding_wand # 1
    BY <1>6, ForkEffect DEF Lives
  <2> QED
    BY <1>0, <1>6, <2>1, ForkEffect
<1>7. ASSUME NEW p \in Procs, do_exit(p) PROVE Goal
  <2>1. call' = call /\ \A x \in Procs : task'[x].holding_wand = task[x].holding_wand
    BY Zenon, <1>7, ExitEffect
  <2> QED
    BY <1>0, <2>1
<1>8. ASSUME NEW p \in Procs, release_task(p) PROVE Goal
  BY <1>0, <1>8, <1>f, ReleaseEffect
<1>9. CASE UNCHANGED vars
  BY <1>0, <1>9 DEF vars
<1> QED
  BY <1>1, <1>2, <1>3, <1>4, <1>5, <1>6, <1>7, <1>8, <1>9 DEF Next

-----------------------------------------------------------------------------
(* Lists of stolen secrets                                                   *)

\* What appending does to a list without repetitions.
LEMMA StolenOnce ==
    ASSUME NEW S, NEW list \in Seq(S), NEW x \in S, IsInjective(list),
           ~(\E i \in DOMAIN list : list[i] = x)
    PROVE  IsInjective(Append(list, x))
<1> DEFINE new == Append(list, x)
<1>1. /\ DOMAIN new = 1 .. Len(list) + 1 /\ DOMAIN list = 1 .. Len(list) /\ Len(list) \in Nat
      /\ new[Len(list) + 1] = x /\ \A i \in 1 .. Len(list) : new[i] = list[i]
  OBVIOUS
<1> HIDE DEF new
<1>2. IsInjective(new)
  BY <1>1 DEF IsInjective
<1> QED
  BY <1>2 DEF new

\* Without dead targets no step puts a secret in a list twice.
LEMMA OnceStep ==
    ASSUME TypeOK, Lives, LiveInv, ~Produces("dead_target"), [Next]_vars
    PROVE  Once'
<1> SUFFICES ASSUME NEW q \in Procs PROVE IsInjective(task'[q].secrets)
  BY DEF Once
<1> DEFINE Goal == IsInjective(task'[q].secrets)
<1>0. IsInjective(task[q].secrets)
  BY DEF LiveInv, Once
<1>e. IsInjective(<<>>)
  BY DEF IsInjective
<1>1. ASSUME NEW p \in Procs, NEW power \in Powers, NEW secret \in Secrets,
             sys_magic_get_wand(p, power, secret) PROVE Goal
  BY Zenon, <1>0, <1>1, GetEffect
<1>2. ASSUME NEW p \in Procs, NEW t \in Procs, sys_magic_attack(p, t) PROVE Goal
  BY Zenon, <1>0, <1>2, AttackEffect
<1>3. ASSUME NEW p \in Procs, NEW t \in Procs, sys_magic_legilimens(p, t) PROVE Goal
  BY <1>0, <1>3, CallEffect
<1>4. ASSUME NEW p \in Procs, legilimens_copy(p) PROVE Goal
  <2>1. CASE q # p \/ task' = task
    BY ZenonT(40), <1>0, <1>4, <2>1, CopyEffect
  <2>2. CASE q = p /\ task' # task
    <3>1. PICK s \in secret_read(call[p]) : /\ s \in Secrets \cup {JUNK}
                                            /\ task'[p].secrets = Append(task[p].secrets, s)
      BY Zenon, <1>4, <2>2, CopyEffect
    <3>2. /\ call[p] \in Procs /\ task[call[p]].my_secret \in Secrets
          /\ ~has_stolen(p, task[call[p]].my_secret)
      BY Zenon, <1>4, CopyEffect DEF LiveInv, Targets, Lives
    <3>3. s = task[call[p]].my_secret
      BY <3>2 DEF secret_read, readable
    <3>4. ~(\E i \in DOMAIN task[p].secrets : task[p].secrets[i] = s)
      BY <3>2, <3>3 DEF has_stolen
    <3> DEFINE list == task[p].secrets
    <3>5. IsInjective(list) /\ list \in Seq(Secrets \cup {JUNK})
      BY <1>0, <2>2, TaskType
    <3>6. ~(\E i \in DOMAIN list : list[i] = s)
      BY <3>4
    <3> HIDE DEF list
    <3>7. IsInjective(Append(list, s))
      BY <3>1, <3>5, <3>6, StolenOnce
    <3> QED
      BY <2>2, <3>1, <3>7 DEF list
  <2> QED
    BY <2>1, <2>2
<1>5. ASSUME NEW p \in Procs, NEW size \in Sizes, sys_magic_list_secrets(p, size) PROVE Goal
  BY <1>0, <1>5, ListEffect
<1>6. ASSUME NEW p \in Procs, NEW c \in Procs, do_fork(p, c) PROVE Goal
  BY <1>0, <1>6, <1>e, ForkEffect
<1>7. ASSUME NEW p \in Procs, do_exit(p) PROVE Goal
  BY Zenon, <1>0, <1>7, <1>e, ExitEffect
<1>8. ASSUME NEW p \in Procs, release_task(p) PROVE Goal
  <2>1. NoTask.secrets = <<>>
    BY DEF NoTask
  <2> QED
    BY <1>0, <1>8, <1>e, <2>1, ReleaseEffect
<1>9. CASE UNCHANGED vars
  BY <1>0, <1>9 DEF vars
<1> QED
  BY <1>1, <1>2, <1>3, <1>4, <1>5, <1>6, <1>7, <1>8, <1>9 DEF Next

\* A process in legilimens keeps its list, and its target keeps its secret,
\* until the copy.
LEMMA TargetsStep ==
    ASSUME TypeOK, Lives, LiveInv, ~Produces("dead_target"), [Next]_vars
    PROVE  Targets'
<1> DEFINE Good(t, rq, rt) == /\ rt.life = "alive" /\ rt.holding_wand = 1
                              /\ ~(\E i \in DOMAIN rq.secrets : rq.secrets[i] = rt.my_secret)
<1> SUFFICES ASSUME NEW q \in Procs, call'[q] # NULL
             PROVE  call'[q] \in Procs /\ Good(call'[q], task'[q], task'[call'[q]])
  BY DEF Targets, has_stolen
<1> DEFINE Goal == call'[q] \in Procs /\ Good(call'[q], task'[q], task'[call'[q]])
<1>0. call[q] # NULL => call[q] \in Procs /\ Good(call[q], task[q], task[call[q]])
  BY DEF LiveInv, Targets, has_stolen
<1>f. NULL \notin Procs /\ FREED \notin Procs
  BY WandAssumption
\* The caller's list, and the target's secret.
<1>same. ASSUME call[q] # NULL, call'[q] = call[q], task'[q].secrets = task[q].secrets,
                task'[call[q]].life = task[call[q]].life,
                task'[call[q]].holding_wand = task[call[q]].holding_wand,
                task'[call[q]].my_secret = task[call[q]].my_secret
         PROVE  Goal
  BY <1>0, <1>same
<1>1. ASSUME NEW p \in Procs, NEW power \in Powers, NEW secret \in Secrets,
             sys_magic_get_wand(p, power, secret) PROVE Goal
  <2>0. call' = call /\ task[p].holding_wand = 0
    BY Zenon, <1>1, GetEffect
  <2>1. call[q] # p /\ call' = call
    BY <1>0, <2>0
  <2> QED
    BY Zenon, <1>0, <1>1, <1>same, <2>1, GetEffect
<1>2. ASSUME NEW p \in Procs, NEW t \in Procs, sys_magic_attack(p, t) PROVE Goal
  BY Zenon, <1>0, <1>2, <1>same, AttackEffect
<1>3. ASSUME NEW p \in Procs, NEW t \in Procs, sys_magic_legilimens(p, t) PROVE Goal
  <2>1. CASE q # p
    <3>1. call'[q] = call[q] /\ task' = task
      BY <1>3, <2>1, CallEffect
    <3>2. call[q] # NULL
      BY <3>1
    <3>3. /\ task'[q] = task[q] /\ task'[call[q]] = task[call[q]]
      BY ONLY <3>1
    <3> QED
      BY Zenon, <1>same, <3>1, <3>2, <3>3
  <2>2. CASE q = p
    <3>1. call'[p] = t /\ task' = task /\ task[t].life = "alive" /\ task[t].holding_wand = 1
      BY <1>3, CallEffect
    <3>2. PICK s \in secret_read(t) : ~has_stolen(p, s)
      BY <1>3, CallEffect
    <3>3. s = task[t].my_secret
      BY <3>1, <3>2 DEF secret_read, readable, Lives
    <3> QED
      BY <2>2, <3>1, <3>2, <3>3 DEF has_stolen
  <2> QED
    BY <2>1, <2>2
<1>4. ASSUME NEW p \in Procs, legilimens_copy(p) PROVE Goal
  <2>1. q # p /\ call'[q] = call[q]
    BY Zenon, <1>4, CopyEffect
  <2> QED
    BY Zenon, <1>0, <1>4, <1>same, <2>1, CopyEffect
<1>5. ASSUME NEW p \in Procs, NEW size \in Sizes, sys_magic_list_secrets(p, size) PROVE Goal
  BY <1>5, <1>same, ListEffect
<1>6. ASSUME NEW p \in Procs, NEW c \in Procs, do_fork(p, c) PROVE Goal
  <2>1. call' = call /\ task[c].life = "none"
    BY <1>6, ForkEffect
  <2>2. q # c /\ call[q] # c /\ call[q] \in Procs
    BY <1>0, <2>1 DEF Lives
  <2>3. /\ task'[q].secrets = task[q].secrets
        /\ task'[call[q]].life = task[call[q]].life
        /\ task'[call[q]].holding_wand = task[call[q]].holding_wand
        /\ task'[call[q]].my_secret = task[call[q]].my_secret
    BY <1>6, <2>2, ForkEffect
  <2>4. call[q] # NULL /\ call'[q] = call[q]
    BY ONLY <2>1, call'[q] # NULL
  <2> QED
    BY Zenon, <1>same, <2>3, <2>4
<1>7. ASSUME NEW p \in Procs, do_exit(p) PROVE Goal
  <2>1. call' = call /\ call[q] # p /\ call[p] = NULL
    BY Zenon, <1>7, ExitEffect DEF Runs
  <2>2. q # p /\ call[q] \in Procs
    BY <1>0, <2>1
  <2> QED
    BY Zenon, <1>7, <1>same, <2>1, <2>2, ExitEffect
<1>8. ASSUME NEW p \in Procs, release_task(p) PROVE Goal
  <2>1. task[p].life = "dead" /\ call'[q] = IF call[q] = p THEN FREED ELSE call[q]
    BY <1>8, ReleaseEffect
  <2>2. call[q] # NULL
    BY <1>f, <2>1
  <2>3. call[q] # p /\ q # p
    BY <1>0, <2>1, <2>2 DEF Lives
  <2> QED
    BY <1>0, <1>8, <1>same, <2>1, <2>2, <2>3, ReleaseEffect
<1>9. CASE UNCHANGED vars
  BY <1>9, <1>same DEF vars
<1> QED
  BY <1>1, <1>2, <1>3, <1>4, <1>5, <1>6, <1>7, <1>8, <1>9 DEF Next

\* Lists and robberies: p's list after one step, for two processes with wands.
LEMMA TellStep ==
    ASSUME TypeOK, Lives, LiveInv, Robbers, Victims, Distinct, ListsTellRobberies, [Next]_vars
    PROVE  ListsTellRobberies'
<1>w. world' = world
  BY WorldSame
<1> DEFINE In(list, s) == \E i \in DOMAIN list : list[i] = s
           Wand(r) == r.life = "alive" /\ r.holding_wand = 1
<1> SUFFICES ASSUME ~Produces("dead_target"), ~Produces("same_secret"),
                    NEW a \in Procs, NEW b \in Procs, Wand(task'[a]), Wand(task'[b])
             PROVE  In(task'[a].secrets, task'[b].my_secret) <=> <<a, b>> \in robbed'
  BY Zenon, <1>w DEF ListsTellRobberies, Produces, Wands, has_stolen
<1> DEFINE Goal == In(task'[a].secrets, task'[b].my_secret) <=> <<a, b>> \in robbed'
<1>0. Wand(task[a]) /\ Wand(task[b]) => (In(task[a].secrets, task[b].my_secret) <=> <<a, b>> \in robbed)
  BY DEF ListsTellRobberies, Wands, has_stolen
<1>same. ASSUME \A x \in {a, b} : /\ task'[x].life = task[x].life /\ task'[x].secrets = task[x].secrets
                                  /\ task'[x].holding_wand = task[x].holding_wand
                                  /\ task'[x].my_secret = task[x].my_secret,
                <<a, b>> \in robbed' <=> <<a, b>> \in robbed
         PROVE  Goal
  BY <1>0, <1>same
<1>1. ASSUME NEW p \in Procs, NEW power \in Powers, NEW secret \in Secrets,
             sys_magic_get_wand(p, power, secret) PROVE Goal
  <2>1. /\ robbed' = robbed /\ task[p].holding_wand = 0
        /\ \A x \in Procs \ {p} : task'[x] = task[x]
        /\ \A x \in Procs : ~In(task[x].secrets, secret)
        /\ task'[p].secrets = task[p].secrets
        /\ task'[p].holding_wand = 1 => task'[p].my_secret = secret
    <3>1. \A x \in Procs : ~In(task[x].secrets, secret)
      <4>1. may_get_wand(p, secret)
        BY Zenon, <1>1, GetEffect
      <4> QED
        BY <4>1 DEF may_get_wand, has_stolen
    <3>2. /\ robbed' = robbed /\ task[p].holding_wand = 0
          /\ \A x \in Procs \ {p} : task'[x] = task[x]
          /\ task'[p].secrets = task[p].secrets
      BY Zenon, <1>1, GetEffect
    <3>3. task'[p].holding_wand = 1 => task'[p].my_secret = secret
      BY Zenon, <1>1, GetEffect
    <3> QED
      BY <3>1, <3>2, <3>3
  <2>2. CASE a # p /\ b # p
    BY <1>0, <2>1, <2>2
  <2>3. CASE b = p
    <3>1. <<a, b>> \notin robbed
      BY <2>1, <2>3 DEF Robbers
    <3>2. task'[b].my_secret = secret /\ task'[a].secrets = task[a].secrets
      BY <2>1, <2>3
    <3> QED
      BY <2>1, <3>1, <3>2
  <2>4. CASE a = p /\ b # p
    <3>1. <<a, b>> \notin robbed /\ task'[b] = task[b] /\ task'[a].secrets = task[a].secrets
      BY <2>1, <2>4 DEF Robbers
    \* p has never had a wand and therefore has stolen nothing.
    <3>2. task[p].secrets = <<>>
      BY <2>1 DEF Lives
    <3> QED
      BY <2>1, <2>4, <3>1, <3>2
  <2> QED
    BY <2>2, <2>3, <2>4
<1>2. ASSUME NEW p \in Procs, NEW t \in Procs, sys_magic_attack(p, t) PROVE Goal
  BY Zenon, <1>2, <1>same, AttackEffect
<1>3. ASSUME NEW p \in Procs, NEW t \in Procs, sys_magic_legilimens(p, t) PROVE Goal
  BY <1>3, <1>same, CallEffect
<1>5. ASSUME NEW p \in Procs, NEW size \in Sizes, sys_magic_list_secrets(p, size) PROVE Goal
  BY <1>5, <1>same, ListEffect
<1>6. ASSUME NEW p \in Procs, NEW c \in Procs, do_fork(p, c) PROVE Goal
  <2>1. (a # c /\ b # c) \/ task' = task
    BY <1>6, ForkEffect
  <2> QED
    BY <1>6, <1>same, <2>1, ForkEffect
<1>7. ASSUME NEW p \in Procs, do_exit(p) PROVE Goal
  <2>1. (a # p /\ b # p) \/ task' = task
    BY Zenon, <1>7, ExitEffect
  <2> QED
    BY Zenon, <1>7, <1>same, <2>1, ExitEffect
<1>8. ASSUME NEW p \in Procs, release_task(p) PROVE Goal
  <2>1. NoTask.life = "none"
    BY DEF NoTask
  <2>2. a # p /\ b # p
    BY <1>8, <2>1, ReleaseEffect
  <2>3. <<a, b>> \in robbed' <=> <<a, b>> \in robbed
    BY <1>8, <2>2, ReleaseEffect
  <2> QED
    BY <1>8, <1>same, <2>2, <2>3, ReleaseEffect
<1>4. ASSUME NEW p \in Procs, legilimens_copy(p) PROVE Goal
  <2>1. CASE task' = task /\ robbed' = robbed
    BY <1>same, <2>1
  <2>2. CASE ~(task' = task /\ robbed' = robbed)
    <3> DEFINE t == call[p]
               list == task[p].secrets
               new == Append(list, task[t].my_secret)
    <3>1. /\ t \in Procs /\ task[t].life = "alive" /\ task[t].holding_wand = 1
          /\ task[t].my_secret \in Secrets
      BY Zenon, <1>4, CopyEffect DEF LiveInv, Targets, Lives
    <3>2. secret_read(t) = {task[t].my_secret}
      BY <3>1 DEF secret_read, readable
    <3>3. /\ task'[p].secrets = new
          /\ robbed' = robbed \cup ({<<p, t>>} \cap (Procs \X Procs))
      <4>1. \/ /\ \E s \in secret_read(call[p]) : task'[p].secrets = Append(task[p].secrets, s)
               /\ robbed' = robbed \cup ({<<p, call[p]>>} \cap (Procs \X Procs))
            \/ UNCHANGED <<task, robbed>>
        BY ZenonT(40), <1>4, CopyEffect
      <4> QED
        BY <2>2, <3>2, <4>1
    <3>4. robbed' = robbed \cup {<<p, t>>}
      BY <3>1, <3>3
    <3>5. \A x \in Procs : /\ task'[x].life = task[x].life /\ task'[x].my_secret = task[x].my_secret
                           /\ task'[x].holding_wand = task[x].holding_wand
                           /\ x # p => task'[x] = task[x]
      <4>1. /\ task'[p].life = task[p].life /\ task'[p].my_secret = task[p].my_secret
            /\ task'[p].holding_wand = task[p].holding_wand
        BY Zenon, <1>4, CopyEffect
      <4>2. \A x \in Procs \ {p} : task'[x] = task[x]
        BY Zenon, <1>4, CopyEffect
      <4> QED
        BY <4>1, <4>2
    <3>6. CASE a # p
      BY <1>0, <3>4, <3>5, <3>6
    <3>7. CASE a = p
      <4>1. list \in Seq(Secrets \cup {JUNK})
        BY TaskType
      <4>2. In(new, task[b].my_secret) <=> In(list, task[b].my_secret) \/ task[b].my_secret = task[t].my_secret
        <5> DEFINE u == task[t].my_secret
                   v == task[b].my_secret
        <5>1. u \in Secrets \cup {JUNK}
          BY <3>1
        <5> HIDE DEF u, v, list
        <5>2. In(Append(list, u), v) <=> In(list, v) \/ v = u
          <6> DEFINE long == Append(list, u)
          <6>1. /\ DOMAIN long = 1 .. Len(list) + 1 /\ DOMAIN list = 1 .. Len(list)
                /\ Len(list) \in Nat /\ long[Len(list) + 1] = u
                /\ \A i \in 1 .. Len(list) : long[i] = list[i]
            BY <4>1, <5>1
          <6> HIDE DEF long
          <6>2. In(long, v) <=> In(list, v) \/ v = u
            BY <6>1
          <6> QED
            BY <6>2 DEF long
        <5> QED
          BY <5>2 DEF u, v
      <4>3. task[b].my_secret = task[t].my_secret <=> b = t
        BY <3>1 DEF Distinct
      <4>4. In(list, task[b].my_secret) <=> <<a, b>> \in robbed
        BY <1>0, <3>5, <3>7
      <4>5. <<a, b>> \in robbed' <=> <<a, b>> \in robbed \/ b = t
        BY <3>4, <3>7
      <4>6. Goal <=> (In(new, task[b].my_secret) <=> <<a, b>> \in robbed')
        BY Zenon, <3>3, <3>5, <3>7
      <4> QED
        BY <4>2, <4>3, <4>4, <4>5, <4>6
    <3> QED
      BY <3>6, <3>7
  <2> QED
    BY <2>1, <2>2
<1>9. CASE UNCHANGED vars
  BY <1>9, <1>same DEF vars
<1> QED
  BY <1>1, <1>2, <1>3, <1>4, <1>5, <1>6, <1>7, <1>8, <1>9 DEF Next

-----------------------------------------------------------------------------
(* The theorems                                                              *)

\* The invariant holds at the beginning.
LEMMA InitWand == Init => WandInv
<1> SUFFICES ASSUME Init PROVE WandInv
  OBVIOUS
<1>1. PICK boot \in kSubset(world.nproc, Procs) :
          task = [p \in Procs |-> IF p \in boot THEN [NoTask EXCEPT !.life = "alive"] ELSE NoTask]
  BY DEF Init
<1>2. boot \subseteq Procs /\ Cardinality(boot) = world.nproc
  BY DEF kSubset
<1> DEFINE first == [NoTask EXCEPT !.life = "alive"]
<1>3. /\ NoTask \in Tasks /\ first \in Tasks
      /\ NoTask.life = "none" /\ first.life = "alive"
      /\ \A r \in {NoTask, first} : r.holding_wand = 0 /\ r.my_secret = NULL /\ r.secrets = <<>>
  <2>1. <<>> \in Seq(Secrets \cup {JUNK})
    OBVIOUS
  <2>2. NoTask \in Tasks
    BY <2>1 DEF NoTask, Tasks
  <2>3. first \in Tasks /\ first.life = "alive" /\ first.holding_wand = 0 /\ first.my_secret = NULL
        /\ first.secrets = <<>>
    BY Zenon, <2>1 DEF NoTask, Tasks
  <2> QED
    BY <2>2, <2>3 DEF NoTask
<1>4. \A p \in Procs : /\ task[p] \in {NoTask, first} /\ task[p].life # "dead"
                       /\ task[p].life # "none" <=> p \in boot
  <2> HIDE DEF first
  <2> QED
    BY <1>1, <1>3 DEF first
<1> HIDE DEF first
<1>5. task \in [Procs -> Tasks]
  BY <1>1, <1>3 DEF first
<1>6. /\ call = [p \in Procs |-> NULL] /\ robbed = {} /\ processes = world.nproc
      /\ broken = FALSE /\ world \in Worlds
  BY DEF Init
<1>7. world.nproc \in Nat
  BY <1>2, WandAssumption, FS_Subset, FS_CardinalityType
<1>8. TypeOK
  <2>1. processes \in 0 .. world.nproc
    BY <1>6, <1>7
  <2>3. broken \in BOOLEAN
    BY Zenon, <1>6
  <2>2. call \in [Procs -> Procs \cup {NULL, FREED}] /\ robbed \subseteq Procs \X Procs
    BY <1>6
  <2> QED
    BY <1>5, <1>6, <2>1, <2>2, <2>3 DEF TypeOK
<1>9. There = boot
  BY <1>2, <1>4 DEF There, Found
<1>10. Counted
  BY <1>2, <1>6, <1>7, <1>9 DEF Counted
<1>11. \A p \in Procs : /\ task[p].holding_wand = 0 /\ task[p].my_secret = NULL
                        /\ task[p].secrets = <<>> /\ call[p] = NULL
  BY <1>3, <1>4, <1>6
<1>12. Lives
  BY <1>4, <1>11 DEF Lives
<1>13. Fresh
  BY <1>11, WandAssumption DEF Fresh
<1>14. LiveInv
  BY <1>11 DEF LiveInv, Targets, Once, IsInjective
<1>15. Robbers /\ Victims
  BY <1>6, <1>11, WandAssumption DEF Robbers, Victims
<1>16. Distinct
  BY <1>11, WandAssumption DEF Distinct
<1>17. ListsTellRobberies
  BY <1>11 DEF ListsTellRobberies, Wands
<1>18. BreaksOnlyThen
  BY <1>6 DEF BreaksOnlyThen
<1> QED
  BY <1>8, <1>10, <1>12, <1>13, <1>14, <1>15, <1>16, <1>17, <1>18 DEF WandInv

\* Every step keeps the invariant.
LEMMA WandStep == WandInv /\ [Next]_vars => WandInv'
<1> SUFFICES ASSUME WandInv, [Next]_vars PROVE WandInv'
  OBVIOUS
<1> USE DEF WandInv
<1>1. TypeOK' /\ Counted' /\ world' = world
  BY TypeStep, CountedStep, WorldSame
<1>2. Lives' /\ Fresh' /\ Victims' /\ Distinct'
  BY LivesStep, FreshStep, VictimsStep, DistinctStep
<1>3. LiveInv'
  BY <1>1, OnceStep, TargetsStep DEF LiveInv, Produces
<1>4. Robbers'
  BY RobbersStep DEF Robbers
<1>5. ListsTellRobberies' /\ BreaksOnlyThen'
  BY TellStep, BreaksStep
<1> QED
  BY <1>1, <1>2, <1>3, <1>4, <1>5

-----------------------------------------------------------------------------
(* Listings                                                                  *)

\* The loop of sys_magic_list_secrets() writes the secrets from the first on and
\* then empty strings, up to the size of the array.
LEMMA CopyLoop ==
    ASSUME NEW S, NEW list \in Seq(S), NEW size \in Nat
    PROVE  /\ copy_loop(list, size) \in Seq(S \cup {EMPTY}) /\ Len(copy_loop(list, size)) = size
           /\ \A i \in 1 .. size : copy_loop(list, size)[i] = IF i <= Len(list) THEN list[i] ELSE EMPTY
<1> DEFINE f == [i \in 1 .. size |-> IF i <= Len(list) THEN list[i] ELSE EMPTY]
<1>1. Len(list) \in Nat
  BY LenProperties
<1>2. ASSUME NEW i \in 1 .. size, i <= Len(list) PROVE list[i] \in S
  <2>1. i \in 1 .. Len(list)
    BY <1>1, <1>2
  <2> QED
    BY <2>1, ElementOfSeq
<1>3. f \in [1 .. size -> S \cup {EMPTY}] /\ DOMAIN f = 1 .. size
  BY <1>2
<1>4. \A i \in 1 .. size : f[i] = IF i <= Len(list) THEN list[i] ELSE EMPTY
  OBVIOUS
<1>5. copy_loop(list, size) = f
  BY DEF copy_loop
<1> HIDE DEF f
<1>6. f \in Seq(S \cup {EMPTY})
  BY <1>3, SeqDef
<1>7. Len(f) \in Nat /\ DOMAIN f = 1 .. Len(f)
  BY <1>6, LenProperties
<1>8. Len(f) = size
  BY <1>3, <1>7
<1> QED
  BY <1>4, <1>5, <1>6, <1>8

\* r is what sys_magic_list_secrets() may have told who has this list now.
True(r, list) ==
    \E n \in 0 .. Len(r.secrets) :
        /\ n + r.rest <= Len(list)
        /\ \A i \in 1 .. n : r.secrets[i] = list[i]
        /\ \A i \in n + 1 .. Len(r.secrets) : r.secrets[i] = EMPTY
        /\ n < Len(r.secrets) => r.rest = 0

Replies == [secrets : Seq(Secrets \cup {JUNK, EMPTY}), rest : Nat]

\* A process that could have no reply has none, and all replies are true.
Told ==
    /\ reply \in [Procs -> Replies]
    /\ \A p \in Procs : p \notin Wands => reply[p] = NoReply
    /\ \A p \in Wands : True(reply[p], task[p].secrets)

\* An empty reply is true, and a true one stays so when the list grows.
LEMMA StaysTrue ==
    ASSUME NEW list \in Seq(Secrets \cup {JUNK})
    PROVE  /\ True(NoReply, list)
           /\ \A r \in Replies, s \in Secrets \cup {JUNK} : True(r, list) => True(r, Append(list, s))
<1>1. True(NoReply, list)
  <2>1. Len(NoReply.secrets) = 0 /\ NoReply.rest = 0
    BY DEF NoReply
  <2> QED
    BY <2>1 DEF True
<1>2. ASSUME NEW r \in Replies, NEW s \in Secrets \cup {JUNK}, True(r, list)
      PROVE  True(r, Append(list, s))
  <2>1. r.rest \in Nat /\ Len(r.secrets) \in Nat /\ Len(list) \in Nat
    BY LenProperties DEF Replies
  <2>2. PICK n \in 0 .. Len(r.secrets) :
           /\ n + r.rest <= Len(list)
           /\ \A i \in 1 .. n : r.secrets[i] = list[i]
           /\ \A i \in n + 1 .. Len(r.secrets) : r.secrets[i] = EMPTY
           /\ n < Len(r.secrets) => r.rest = 0
    BY <1>2 DEF True
  <2>3. Len(Append(list, s)) = Len(list) + 1 /\ \A i \in 1 .. Len(list) : Append(list, s)[i] = list[i]
    BY AppendProperties
  <2>4. n \in Nat /\ n + r.rest <= Len(Append(list, s)) /\ n <= Len(list)
    <3>1. n \in Nat /\ n + r.rest <= Len(list)
      BY <2>1, <2>2
    <3> QED
      BY ONLY <2>1, <2>3, <3>1
  <2>5. \A i \in 1 .. n : r.secrets[i] = Append(list, s)[i]
    <3> SUFFICES ASSUME NEW i \in 1 .. n PROVE r.secrets[i] = Append(list, s)[i]
      BY Zenon
    <3>1. i \in 1 .. Len(list)
      BY <2>1, <2>4
    <3> QED
      BY <2>2, <2>3, <3>1
  <2> QED
    BY <2>2, <2>4, <2>5 DEF True
<1> QED
  BY <1>1, <1>2

\* A new reply is true.
LEMMA NewReply ==
    ASSUME NEW list \in Seq(Secrets \cup {JUNK}), NEW size \in Nat
    PROVE  LET r == [secrets |-> copy_loop(list, size),
                     rest |-> Len(list) - (IF Len(list) < size THEN Len(list) ELSE size)]
           IN  r \in Replies /\ True(r, list)
<1> DEFINE c == copy_loop(list, size)
           n == IF Len(list) < size THEN Len(list) ELSE size
<1>1. /\ c \in Seq(Secrets \cup {JUNK, EMPTY}) /\ Len(c) = size
      /\ \A i \in 1 .. size : c[i] = IF i <= Len(list) THEN list[i] ELSE EMPTY
  <2>1. (Secrets \cup {JUNK}) \cup {EMPTY} = Secrets \cup {JUNK, EMPTY}
    OBVIOUS
  <2> QED
    BY Zenon, <2>1, CopyLoop
<1> HIDE DEF c
<1>2. Len(list) \in Nat
  BY LenProperties
<1>3. /\ n \in 0 .. size /\ n <= Len(list) /\ Len(list) - n \in Nat
      /\ n < size => Len(list) - n = 0
  BY <1>2
<1>4. \A i \in 1 .. n : i \in 1 .. size /\ i <= Len(list)
  BY <1>2
<1>5. \A i \in n + 1 .. size : i \in 1 .. size /\ ~(i <= Len(list))
  BY <1>2
<1>6. n + (Len(list) - n) <= Len(list)
  BY <1>2, <1>3
<1> HIDE DEF n
<1>7. [secrets |-> c, rest |-> Len(list) - n] \in Replies
  BY <1>1, <1>3 DEF Replies
<1>8. True([secrets |-> c, rest |-> Len(list) - n], list)
  BY <1>1, <1>3, <1>4, <1>5, <1>6 DEF True
<1> QED
  BY <1>7, <1>8 DEF c, n

\* Every call keeps the replies true.
LEMMA ToldStep ==
    ASSUME TypeOK, Told, [Next]_vars
    PROVE  Told'
<1>t. /\ task \in [Procs -> Tasks] /\ reply \in [Procs -> Replies]
      /\ \A q \in Procs : task[q].secrets \in Seq(Secrets \cup {JUNK})
  BY DEF TypeOK, Told, Tasks
<1>n. NoReply \in Replies
  BY EmptySeq DEF NoReply, Replies
\* What is left to show of a process.
<1> DEFINE Fine(q) == /\ reply'[q] \in Replies
                      /\ q \notin Wands' => reply'[q] = NoReply
                      /\ q \in Wands' => True(reply'[q], task'[q].secrets)
<1>same. ASSUME NEW q \in Procs, reply'[q] = reply[q], task'[q] = task[q] PROVE Fine(q)
  BY <1>t, <1>same DEF Told, Wands
<1>all. ASSUME reply' = reply \/ (\E p \in Procs, r \in Replies : reply' = [reply EXCEPT ![p] = r]),
               \A q \in Procs : Fine(q)
        PROVE  Told'
  <2>1. reply' \in [Procs -> Replies]
    BY <1>t, <1>all
  <2>2. \A q \in Wands' : q \in Procs
    BY DEF Wands
  <2> QED
    BY <1>all, <2>1, <2>2 DEF Told
<1> HIDE DEF Fine
<1>1. ASSUME NEW p \in Procs, NEW power \in Powers, NEW secret \in Secrets,
             sys_magic_get_wand(p, power, secret) PROVE Told'
  <2>1. /\ reply' = reply /\ \A q \in Procs \ {p} : task'[q] = task[q]
        /\ task[p].holding_wand = 0 /\ task'[p].secrets = task[p].secrets
    BY Zenon, <1>1, <1>t, GetEffect DEF sys_magic_get_wand
  <2>2. reply[p] = NoReply
    BY <2>1 DEF Told, Wands
  <2>3. Fine(p)
    BY <1>t, <1>n, <2>1, <2>2, StaysTrue DEF Fine
  <2> QED
    BY <1>same, <1>all, <2>1, <2>3
<1>2. ASSUME NEW p \in Procs, NEW t \in Procs, sys_magic_attack(p, t) PROVE Told'
  <2>1. /\ reply' = reply /\ \A q \in Procs \ {t} : task'[q] = task[q]
        /\ task'[t].secrets = task[t].secrets /\ task'[t].life = task[t].life
        /\ task'[t].holding_wand = task[t].holding_wand
    BY Zenon, <1>2, <1>t, AttackEffect DEF sys_magic_attack
  <2>2. Fine(t)
    BY <1>t, <2>1 DEF Fine, Told, Wands
  <2> QED
    BY <1>same, <1>all, <2>1, <2>2
<1>3. ASSUME NEW p \in Procs, NEW t \in Procs, sys_magic_legilimens(p, t) PROVE Told'
  BY <1>3, <1>same, <1>all, CallEffect
<1>4. ASSUME NEW p \in Procs, legilimens_copy(p) PROVE Told'
  <2>1. /\ reply' = reply /\ \A q \in Procs \ {p} : task'[q] = task[q]
        /\ task'[p].life = task[p].life /\ task'[p].holding_wand = task[p].holding_wand
        /\ \/ task'[p].secrets = task[p].secrets
           \/ \E s \in Secrets \cup {JUNK} : task'[p].secrets = Append(task[p].secrets, s)
    BY Zenon, <1>4, <1>t, CopyEffect DEF legilimens_copy
  <2>2. p \in Wands => True(reply[p], task'[p].secrets)
    BY Zenon, <1>t, <2>1, StaysTrue DEF Told
  <2>3. Fine(p)
    BY <1>t, <2>1, <2>2 DEF Fine, Told, Wands
  <2> QED
    BY <1>same, <1>all, <2>1, <2>3
<1>5. ASSUME NEW p \in Procs, NEW size \in Sizes, sys_magic_list_secrets(p, size) PROVE Told'
  <2> DEFINE list == task[p].secrets
             r == [secrets |-> copy_loop(list, size),
                   rest |-> Len(list) - (IF Len(list) < size THEN Len(list) ELSE size)]
  <2>1. size \in Nat /\ list \in Seq(Secrets \cup {JUNK})
    BY <1>t, WandAssumption
  <2>2. r \in Replies /\ True(r, list)
    BY Zenon, <2>1, NewReply
  <2>3. reply' = reply \/ reply' = [reply EXCEPT ![p] = r]
    BY <1>5 DEF sys_magic_list_secrets
  <2> HIDE DEF r
  <2>4. p \in Wands /\ task' = task
    BY <1>5, ListEffect DEF Wands, Runs
  <2>5. CASE reply' = reply
    BY <1>same, <1>all, <2>4, <2>5
  <2>6. CASE reply' = [reply EXCEPT ![p] = r]
    <3>1. p \in Wands' /\ reply'[p] = r /\ \A q \in Procs \ {p} : reply'[q] = reply[q]
      BY <1>t, <2>4, <2>6 DEF Wands
    <3>2. Fine(p)
      BY <2>2, <2>4, <3>1 DEF Fine
    <3> QED
      BY Zenon, <1>same, <1>all, <2>2, <2>4, <2>6, <3>1, <3>2
  <2> QED
    BY <2>3, <2>5, <2>6
<1>6. ASSUME NEW p \in Procs, NEW c \in Procs, do_fork(p, c) PROVE Told'
  <2>1. /\ reply' = reply /\ \A q \in Procs \ {c} : task'[q] = task[q]
        /\ task[c].life = "none" /\ (task'[c].holding_wand = 0 \/ task'[c] = task[c])
    BY Zenon, <1>6, <1>t, ForkEffect DEF do_fork, new_task
  <2>2. Fine(c)
    BY <1>t, <2>1 DEF Fine, Told, Wands
  <2> QED
    BY <1>same, <1>all, <2>1, <2>2
<1>7. ASSUME NEW p \in Procs, do_exit(p) PROVE Told'
  <2>1. \/ reply' = reply /\ task' = task
        \/ /\ reply' = [reply EXCEPT ![p] = NoReply] /\ task'[p].life = "dead"
           /\ \A q \in Procs \ {p} : task'[q] = task[q]
    BY Zenon, <1>7, ExitEffect
  <2>2. CASE reply' = reply /\ task' = task
    BY <1>same, <1>all, <2>2
  <2>3. CASE /\ reply' = [reply EXCEPT ![p] = NoReply] /\ task'[p].life = "dead"
             /\ \A q \in Procs \ {p} : task'[q] = task[q]
    <3>1. reply'[p] = NoReply /\ \A q \in Procs \ {p} : reply'[q] = reply[q]
      BY <1>t, <2>3
    <3>2. Fine(p)
      BY <1>n, <2>3, <3>1 DEF Fine, Wands
    <3> QED
      BY Zenon, <1>n, <1>same, <1>all, <2>3, <3>1, <3>2
  <2> QED
    BY <2>1, <2>2, <2>3
<1>8. ASSUME NEW p \in Procs, release_task(p) PROVE Told'
  <2>1. /\ reply' = reply /\ \A q \in Procs \ {p} : task'[q] = task[q]
        /\ task[p].life = "dead" /\ task'[p] = NoTask
    BY <1>8, ReleaseEffect
  <2>2. Fine(p)
    BY <1>t, <2>1 DEF Fine, Told, Wands, NoTask
  <2> QED
    BY <1>same, <1>all, <2>1, <2>2
<1>9. CASE UNCHANGED vars
  BY <1>9, <1>same, <1>all DEF vars
<1> QED
  BY <1>1, <1>2, <1>3, <1>4, <1>5, <1>6, <1>7, <1>8, <1>9 DEF Next

-----------------------------------------------------------------------------
(* Theorems                                                                  *)

\* The system calls of magic_all.c and the hooks in do_fork() and do_exit()
\* keep, in any order and in every world: who has a wand has a secret, who waits
\* in legilimens() has not got its target's secret yet, the two sides of a
\* robbery have wands, and only a secret that changes leaves a stale pointer.
THEOREM WandInvariant == Spec => []WandInv
<1> QED
  BY InitWand, WandStep, PTL DEF Spec

\* The user's count of processes that do_fork() raises and release_task()
\* lowers is the number of task_structs, as long as there is memory for the
\* list heads.
THEOREM ProcessesAreCounted == Spec => []ProcessesCounted
<1>1. WandInv => ProcessesCounted
  BY DEF WandInv, Counted, There, ProcessesCounted
<1> QED
  BY <1>1, WandInvariant, PTL

\* No process has a secret twice: sys_magic_legilimens() tests before it sleeps
\* in kmalloc(), and what it tested still holds when it copies.
THEOREM NoSecretIsStolenTwice == Spec => []NoSecretTwice
<1>1. WandInv => NoSecretTwice
  BY DEF WandInv, LiveInv, Once, NoSecretTwice, Wands
<1> QED
  BY <1>1, WandInvariant, PTL

\* strcmp() on the lists finds exactly the robberies, for sys_magic_attack()
\* and for sys_magic_legilimens().
THEOREM RobberiesAreTold == Spec => []ListsTellRobberies
<1>1. WandInv => ListsTellRobberies
  BY DEF WandInv
<1> QED
  BY <1>1, WandInvariant, PTL

\* As long as targets live and the strings and arrays that processes pass are
\* sound, no system call follows a null or freed pointer, goes past a buffer or
\* frees memory twice: no failed allocation, no equal secrets and no order of
\* the calls, forks and exits does it.
THEOREM NothingElseBreaks == Spec => []BreaksOnlyThen
<1>1. WandInv => BreaksOnlyThen
  BY DEF WandInv
<1> QED
  BY <1>1, WandInvariant, PTL

\* sys_magic_attack() never brings a process with a wand back from health zero.
THEOREM DeathStaysFinal == Spec => DeathIsFinal
<1> DEFINE Final == \A p \in Procs : task[p].holding_wand = 1 /\ task[p].health = 0
                                     /\ task'[p].holding_wand = 1 => task'[p].health = 0
<1>1. WandInv /\ [Next]_vars => [Final]_vars
  <2> SUFFICES ASSUME WandInv, Next, NEW q \in Procs, task[q].holding_wand = 1, task[q].health = 0,
                      task'[q].holding_wand = 1
               PROVE  task'[q].health = 0
    OBVIOUS
  <2> USE DEF WandInv
  <2>1. ASSUME NEW p \in Procs, NEW power \in Powers, NEW secret \in Secrets,
               sys_magic_get_wand(p, power, secret) PROVE task'[q].health = 0
    <3>1. task[p].holding_wand = 0 /\ \A x \in Procs \ {p} : task'[x] = task[x]
      BY Zenon, <2>1, GetEffect
    <3> QED
      BY <3>1
  <2>2. ASSUME NEW p \in Procs, NEW t \in Procs, sys_magic_attack(p, t) PROVE task'[q].health = 0
    <3>1. q # t
      BY Zenon, <2>2, AttackEffect DEF both_fit
    <3> QED
      BY ZenonT(40), <2>2, <3>1, AttackEffect
  <2>3. ASSUME NEW p \in Procs, NEW t \in Procs, sys_magic_legilimens(p, t)
        PROVE  task'[q].health = 0
    BY <2>3, CallEffect
  <2>4. ASSUME NEW p \in Procs, legilimens_copy(p) PROVE task'[q].health = 0
    BY Zenon, <2>4, CopyEffect
  <2>5. ASSUME NEW p \in Procs, NEW size \in Sizes, sys_magic_list_secrets(p, size)
        PROVE  task'[q].health = 0
    BY <2>5, ListEffect
  <2>6. ASSUME NEW p \in Procs, NEW c \in Procs, do_fork(p, c) PROVE task'[q].health = 0
    BY <2>6, ForkEffect DEF Lives
  <2>7. ASSUME NEW p \in Procs, do_exit(p) PROVE task'[q].health = 0
    BY Zenon, <2>7, ExitEffect
  <2>8. ASSUME NEW p \in Procs, release_task(p) PROVE task'[q].health = 0
    BY <2>8, ReleaseEffect DEF NoTask
  <2> QED
    BY <2>1, <2>2, <2>3, <2>4, <2>5, <2>6, <2>7, <2>8 DEF Next
<1> QED
  BY <1>1, WandInvariant, PTL DEF Spec, DeathIsFinal

\* What sys_magic_list_secrets() told a process stays true until it exits, for
\* every list and every size of the array: legilimens() only appends.
THEOREM ListingsStayTrue == Spec => []ListingStaysTrue
<1>1. Init => Told
  <2> SUFFICES ASSUME Init PROVE Told
    OBVIOUS
  <2>1. NoReply \in Replies
    BY EmptySeq DEF NoReply, Replies
  <2>2. \A p \in Procs : task[p].holding_wand = 0
    BY DEF Init, NoTask
  <2> QED
    BY <2>1, <2>2 DEF Init, Told, Wands
<1>2. WandInv /\ Told /\ [Next]_vars => Told'
  BY ToldStep DEF WandInv
<1>3. Told => ListingStaysTrue
  BY DEF Told, ListingStaysTrue, True
<1> QED
  BY <1>1, <1>2, <1>3, WandInvariant, PTL DEF Spec

\* While no target exits before or during the call, sys_magic_legilimens() adds
\* the secret of the process that it was called for to the list of the caller,
\* also when it has slept in kmalloc(); and nothing else adds to the list of a
\* process that sleeps there.
THEOREM StolenFromLiveTargets ==
    Spec /\ ~Produces("dead_target") => StolenIsTargets
<1> DEFINE Stolen(q) == /\ readable(call[q])
                       /\ task'[q].secrets = Append(task[q].secrets, task[call[q]].my_secret)
           Faithful ==
               \A p \in Procs :
                   call[p] # NULL /\ task'[p].secrets # task[p].secrets
                       => /\ readable(call[p])
                          /\ task'[p].secrets = Append(task[p].secrets, task[call[p]].my_secret)
           Safe == ~Produces("dead_target")
<1>1. WandInv /\ Safe /\ [Next]_vars => [Faithful]_vars
  <2> SUFFICES ASSUME WandInv, Safe, Next, NEW q \in Procs, call[q] # NULL
               PROVE  task'[q].secrets = task[q].secrets \/ Stolen(q)
    OBVIOUS
  <2> DEFINE Goal == task'[q].secrets = task[q].secrets \/ Stolen(q)
  <2>0. /\ TypeOK /\ task[q].life = "alive" /\ task[q].holding_wand = 1 /\ call[q] \in Procs
        /\ readable(call[q])
    BY Zenon DEF WandInv, Lives, LiveInv, Targets, readable
  <2>1. ASSUME NEW p \in Procs, NEW power \in Powers, NEW secret \in Secrets,
               sys_magic_get_wand(p, power, secret) PROVE Goal
    BY Zenon, <2>0, <2>1, GetEffect
  <2>2. ASSUME NEW p \in Procs, NEW t \in Procs, sys_magic_attack(p, t) PROVE Goal
    BY Zenon, <2>0, <2>2, AttackEffect
  <2>3. ASSUME NEW p \in Procs, NEW t \in Procs, sys_magic_legilimens(p, t) PROVE Goal
    BY Zenon, <2>0, <2>3, CallEffect
  <2>4. ASSUME NEW p \in Procs, legilimens_copy(p) PROVE Goal
    <3>1. CASE q # p \/ task' = task
      BY Zenon, <2>0, <2>4, <3>1, CopyEffect
    <3>2. CASE q = p /\ task' # task
      <4>1. \E s \in secret_read(call[q]) : task'[q].secrets = Append(task[q].secrets, s)
        BY ZenonT(40), <2>0, <2>4, <3>2, CopyEffect
      <4>2. secret_read(call[q]) = {task[call[q]].my_secret}
        BY Zenon, <2>0 DEF secret_read
      <4> QED
        BY ONLY <2>0, <4>1, <4>2
    <3> QED
      BY Zenon, <3>1, <3>2
  <2>5. ASSUME NEW p \in Procs, NEW size \in Sizes, sys_magic_list_secrets(p, size) PROVE Goal
    BY Zenon, <2>5, ListEffect
  <2>6. ASSUME NEW p \in Procs, NEW c \in Procs, do_fork(p, c) PROVE Goal
    BY Zenon, <2>0, <2>6, ForkEffect
  <2>7. ASSUME NEW p \in Procs, do_exit(p) PROVE Goal
    <3>1. q # p
      BY Zenon, <2>0, <2>7, ExitEffect DEF Runs
    <3> QED
      BY ZenonT(40), <2>0, <2>7, <3>1, ExitEffect
  <2>8. ASSUME NEW p \in Procs, release_task(p) PROVE Goal
    BY <2>0, <2>8, ReleaseEffect
  <2> QED
    BY Zenon, <2>1, <2>2, <2>3, <2>4, <2>5, <2>6, <2>7, <2>8 DEF Next
<1>2. WandInv /\ Safe /\ [Next]_vars => Safe'
  <2> SUFFICES ASSUME WandInv, [Next]_vars PROVE world' = world
    BY DEF Produces
  <2> QED
    BY Zenon, WorldSame DEF WandInv
<1>3. ~Produces("dead_target") => Safe
  OBVIOUS
<1> HIDE DEF Safe
<1> QED
  BY <1>1, <1>2, <1>3, WandInvariant, PTL DEF Spec, StolenIsTargets

=============================================================================
