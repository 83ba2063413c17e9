-------------------------------- MODULE Wand --------------------------------
(***************************************************************************)
(* The wand system calls of magic_all.c, with the hooks in do_fork() and   *)
(* do_exit() that set up and tear down their data.  The kernel does not    *)
(* preempt; of these functions only sys_magic_legilimens() sleeps (in      *)
(* kmalloc()) between two uses of another process's data, so it is two     *)
(* actions and every other call is one.  Calls that only return an error   *)
(* change nothing and have no action.                                      *)
(*                                                                         *)
(* Memory that was freed may hold any secret, or none: JUNK.               *)
(***************************************************************************)
EXTENDS Integers, Sequences, FiniteSetsExt, Functions

CONSTANTS
    Procs,      \* the pids
    Secrets,    \* the strings that processes take as secrets
    Powers,     \* the powers that they take
    Sizes,      \* the sizes given to sys_magic_list_secrets()
    FullHealth, \* the health of a new wand
    IntWord,    \* number of values of an int
    MaxStolen,  \* bound: a process with so many secrets steals no more
    NULL,
    Worlds      \* the environments considered

\* Uses that the code does not guard against.
Situations == {
    "dead_target",      \* a process that has exited, or exits meanwhile, is a target
    "same_secret",      \* a process takes a secret that another one has or stole
    "secret_changes",   \* another thread changes the secret during sys_magic_get_wand()
    "long_secret",      \* a secret has no terminator in its first SECRET_MAXSIZE characters
    "bad_pointer",      \* a process passes an address that is not, or not all, its own memory
    "no_list_head"}     \* there is no memory for the list head of a child

JUNK == "junk"

FREED == "freed"

\* The empty string.
EMPTY == ""

\* A world is what processes produce of these, with RLIMIT_NPROC of their user.
ASSUME WandAssumption ==
    /\ IsFiniteSet(Procs)
    /\ NULL \notin Procs \cup Secrets /\ FREED \notin Procs \cup Secrets \cup {NULL}
    /\ Powers \subseteq Int /\ Sizes \subseteq Nat
    /\ MaxStolen \in Nat /\ IntWord \in Nat \ {0} /\ FullHealth \in Nat /\ 2 * FullHealth < IntWord
    /\ Worlds \subseteq [stress : SUBSET Situations, nproc : 0 .. Cardinality(Procs)]

VARIABLES
    task,       \* the fields of each task_struct
    call,       \* the target of each process's pending legilimens, or NULL; FREED
                \* when its task_struct is gone
    reply,      \* what the last sys_magic_list_secrets() of each process gave
    robbed,     \* history: the pairs <<p, t>> where p has stolen t's secret
    processes,  \* the user's count of processes
    broken,     \* the kernel went past a buffer, into freed memory or to a user's bad
                \* address, or freed memory twice
    world       \* the environment

vars == <<task, call, reply, robbed, processes, broken, world>>

NoTask == [life |-> "none", holding_wand |-> 0, my_secret |-> NULL,
           health |-> 0, power |-> 0, secrets |-> <<>>]

NoReply == [secrets |-> <<>>, rest |-> 0]

\* There are as many processes as there may be.
Init ==
    /\ world \in Worlds
    /\ \E boot \in kSubset(world.nproc, Procs) :
          task = [p \in Procs |-> IF p \in boot THEN [NoTask EXCEPT !.life = "alive"] ELSE NoTask]
    /\ call = [p \in Procs |-> NULL]
    /\ reply = [p \in Procs |-> NoReply]
    /\ robbed = {}
    /\ processes = world.nproc
    /\ broken = FALSE

Produces(situation) == situation \in world.stress

\* p may enter the kernel.
Runs(p) == ~broken /\ task[p].life = "alive" /\ call[p] = NULL

\* find_task_by_pid() finds t: also when it is exiting or a zombie.
Found(t) == task[t].life # "none"

\* The my_secret of t is there.
readable(t) == t \in Procs /\ task[t].my_secret \in Secrets

\* What reading it may give.
secret_read(t) == IF readable(t) THEN {task[t].my_secret} ELSE Secrets \cup {JUNK}

Int32(n) == LET u == n % IntWord IN IF 2 * u < IntWord THEN u ELSE u - IntWord

max(a, b) == IF a > b THEN a ELSE b

\* s is in the list of stolen secrets of p.
has_stolen(p, s) == \E i \in DOMAIN task[p].secrets : task[p].secrets[i] = s

-----------------------------------------------------------------------------
may_get_wand(p, secret) ==
    /\ Runs(p)
    /\ task[p].holding_wand = 0
    /\ \/ Produces("same_secret")
       \/ \A q \in Procs : task[q].my_secret # secret /\ ~has_stolen(q, secret)

\* What may be wrong with the string while it is read and copied: strcpy() goes
\* past the buffer, or there is nothing at the address.
StringFault == Produces("long_secret") \/ Produces("secret_changes") \/ Produces("bad_pointer")

\* Success; or the last check fails because the secret changed meanwhile, the
\* buffer is freed and my_secret keeps pointing to it; or there is no memory;
\* or the string, which is read where it is in the user's memory, is not as the
\* code expects it.
sys_magic_get_wand(p, power, secret) ==
    /\ may_get_wand(p, secret)
    /\ \/ /\ \/ task' = [task EXCEPT ![p].my_secret = secret, ![p].power = power,
                                     ![p].holding_wand = 1, ![p].health = FullHealth]
             \/ Produces("secret_changes") /\ task' = [task EXCEPT ![p].my_secret = FREED]
             \/ task' = [task EXCEPT ![p].my_secret = NULL]
          /\ UNCHANGED broken
       \/ StringFault /\ broken' = TRUE /\ UNCHANGED task
    /\ UNCHANGED <<call, reply, robbed, processes, world>>

\* The health that is left to t.
health_left(p, t) == max(Int32(task[t].health - task[p].power), 0)

\* Mutant: the target's health is not tested.
M_attack_the_dead(p, t) == task[p].holding_wand = 1 /\ task[t].holding_wand = 1 /\ task[p].health # 0

\* Both have a wand and are well.
both_fit(p, t) ==
    /\ task[p].holding_wand = 1 /\ task[t].holding_wand = 1
    /\ task[p].health # 0 /\ task[t].health # 0

\* The list head of a dead target was freed; it may still look empty.
sys_magic_attack(p, t) ==
    /\ Runs(p)
    /\ Found(t)
    /\ Produces("dead_target") \/ task[t].life = "alive"
    /\ both_fit(p, t)
    /\ p # t
    /\ \/ /\ ~has_stolen(t, task[p].my_secret)
          /\ task' = [task EXCEPT ![t].health = health_left(p, t)]
          /\ UNCHANGED broken
       \/ task[t].life = "dead" /\ broken' = TRUE /\ UNCHANGED task
    /\ UNCHANGED <<call, reply, robbed, processes, world>>

\* Mutant: the list is not searched.
M_legilimens_unchecked(p, t) ==
    /\ Runs(p)
    /\ p # t /\ Found(t) /\ Len(task[p].secrets) < MaxStolen
    /\ Produces("dead_target") \/ task[t].life = "alive"
    /\ task[p].holding_wand = 1 /\ task[t].holding_wand = 1
    /\ call' = [call EXCEPT ![p] = t]
    /\ UNCHANGED <<task, reply, robbed, processes, broken, world>>

\* Mutant: the target's wand is not tested.
M_legilimens_no_wand(p, t) ==
    /\ Runs(p)
    /\ p # t /\ Found(t) /\ Len(task[p].secrets) < MaxStolen
    /\ Produces("dead_target") \/ task[t].life = "alive"
    /\ task[p].holding_wand = 1
    /\ \E s \in secret_read(t) : ~has_stolen(p, s)
    /\ call' = [call EXCEPT ![p] = t]
    /\ UNCHANGED <<task, reply, robbed, processes, broken, world>>

\* Up to kmalloc().
sys_magic_legilimens(p, t) ==
    /\ Runs(p)
    /\ p # t /\ Found(t) /\ Len(task[p].secrets) < MaxStolen
    /\ Produces("dead_target") \/ task[t].life = "alive"
    /\ task[p].holding_wand = 1 /\ task[t].holding_wand = 1
    /\ \E s \in secret_read(t) : ~has_stolen(p, s)
    /\ call' = [call EXCEPT ![p] = t]
    /\ UNCHANGED <<task, reply, robbed, processes, broken, world>>

\* kmalloc() returns, with memory or without.  The target is not looked up
\* again.
legilimens_copy(p) ==
    LET t == call[p]
    IN  /\ ~broken
        /\ t # NULL
        /\ \/ \E s \in secret_read(t) :
                 /\ task' = [task EXCEPT ![p].secrets = Append(@, s)]
                 /\ robbed' = robbed \cup ({<<p, t>>} \cap (Procs \X Procs))
                 /\ UNCHANGED broken
           \/ UNCHANGED <<task, robbed, broken>>
           \/ ~readable(t) /\ broken' = TRUE /\ UNCHANGED <<task, robbed>>
        /\ call' = [call EXCEPT ![p] = NULL]
        /\ UNCHANGED <<reply, processes, world>>

\* Mutant: the padding starts one entry too late.
M_copy_loop_pads_late(list, size) ==
    [i \in 1 .. size |-> IF i <= Len(list) THEN list[i] ELSE IF i = Len(list) + 1 THEN JUNK ELSE EMPTY]

\* The user's array after the copying loop: a secret per round while the
\* counter lasts; when it is used up, the inner loop writes empty strings from
\* list_len on.
copy_loop(list, size) == [i \in 1 .. size |-> IF i <= Len(list) THEN list[i] ELSE EMPTY]

\* copy_to_user() may fail in any round; the caller's array is then of no use.
\* The empty strings are written without it, straight to the user's address.
sys_magic_list_secrets(p, size) ==
    LET list == task[p].secrets
        stolen == IF Len(list) < size THEN Len(list) ELSE size
    IN  /\ Runs(p)
        /\ task[p].holding_wand = 1
        /\ \/ /\ reply' = [reply EXCEPT ![p] = [secrets |-> copy_loop(list, size),
                                                rest |-> Len(list) - stolen]]
              /\ UNCHANGED broken
           \/ /\ Produces("bad_pointer") /\ Len(list) < size
              /\ broken' = TRUE
              /\ UNCHANGED reply
        /\ UNCHANGED <<task, call, robbed, processes, world>>

-----------------------------------------------------------------------------
\* Mutant: the child gets its parent's list.
M_new_task_keeps_list(p) == [task[p] EXCEPT !.holding_wand = 0, !.my_secret = NULL]

\* A child has its parent's health and power, but no wand.
new_task(p) == [task[p] EXCEPT !.holding_wand = 0, !.my_secret = NULL, !.secrets = <<>>]

\* Without memory for the list head the call returns at once, and the user's
\* count stays as if there were a child.
do_fork(p, c) ==
    /\ Runs(p)
    /\ task[c].life = "none"
    /\ processes < world.nproc
    /\ \/ task' = [task EXCEPT ![c] = new_task(p)]
       \/ Produces("no_list_head") /\ UNCHANGED task
    /\ processes' = processes + 1
    /\ UNCHANGED <<call, reply, robbed, broken, world>>

\* The data are freed; the process keeps its wand until it is reaped.
do_exit(p) ==
    /\ Runs(p)
    /\ Produces("dead_target") \/ \A q \in Procs : call[q] # p
    /\ IF task[p].my_secret = FREED
       THEN broken' = TRUE /\ UNCHANGED <<task, reply>>
       ELSE /\ task' = [task EXCEPT ![p].life = "dead", ![p].secrets = <<>>,
                                    ![p].my_secret = IF @ = NULL THEN NULL ELSE FREED]
            /\ reply' = [reply EXCEPT ![p] = NoReply]
            /\ UNCHANGED broken
    /\ UNCHANGED <<call, robbed, processes, world>>

\* Mutant: the count is not lowered.
M_release_not_counted(p) ==
    /\ ~broken
    /\ task[p].life = "dead"
    /\ task' = [task EXCEPT ![p] = NoTask]
    /\ call' = [q \in Procs |-> IF call[q] = p THEN FREED ELSE call[q]]
    /\ robbed' = {r \in robbed : p \notin {r[1], r[2]}}
    /\ UNCHANGED <<reply, processes, broken, world>>

\* The parent's wait4() frees the task_struct; the pid is free again.
release_task(p) ==
    /\ ~broken
    /\ task[p].life = "dead"
    /\ task' = [task EXCEPT ![p] = NoTask]
    /\ call' = [q \in Procs |-> IF call[q] = p THEN FREED ELSE call[q]]
    /\ robbed' = {r \in robbed : p \notin {r[1], r[2]}}
    /\ processes' = processes - 1
    /\ UNCHANGED <<reply, broken, world>>

Next ==
    \E p \in Procs :
      \/ \E power \in Powers, secret \in Secrets : sys_magic_get_wand(p, power, secret)
      \/ \E t \in Procs : sys_magic_attack(p, t)
      \/ \E t \in Procs : sys_magic_legilimens(p, t)
      \/ legilimens_copy(p)
      \/ \E size \in Sizes : sys_magic_list_secrets(p, size)
      \/ \E c \in Procs : do_fork(p, c)
      \/ do_exit(p)
      \/ release_task(p)

Spec == Init /\ [][Next]_vars

-----------------------------------------------------------------------------
Wands == {p \in Procs : task[p].life = "alive" /\ task[p].holding_wand = 1}

Tasks == [life : {"none", "alive", "dead"}, holding_wand : {0, 1},
          my_secret : Secrets \cup {NULL, FREED}, health : Nat, power : Powers \cup {0},
          secrets : Seq(Secrets \cup {JUNK})]

TypeOK ==
    /\ task \in [Procs -> Tasks]
    /\ call \in [Procs -> Procs \cup {NULL, FREED}]
    /\ robbed \subseteq Procs \X Procs
    /\ processes \in 0 .. world.nproc
    /\ broken \in BOOLEAN
    /\ world \in Worlds

\* A process whose health has reached zero stays at zero as long as it has its
\* wand: sys_magic_attack() cannot raise it again, not even by a negative power
\* or by a difference that leaves the range of an int.
DeathIsFinal ==
    [][\A p \in Procs :
          task[p].holding_wand = 1 /\ task[p].health = 0 /\ task'[p].holding_wand = 1
             => task'[p].health = 0]_vars

\* No process has the same secret twice, although sys_magic_legilimens()
\* sleeps between looking for the secret in the list and adding it, and also
\* when several processes have the same secret.
NoSecretTwice ==
    ~Produces("dead_target") => \A p \in Wands : IsInjective(task[p].secrets)

\* Comparing strings finds exactly the robberies: p has t's secret in its list
\* if and only if p has robbed t.  This is what sys_magic_attack() goes by when
\* it protects p from t, and sys_magic_legilimens() when it returns EEXIST.
\* Secrets must differ, and targets live.
ListsTellRobberies ==
    ~Produces("dead_target") /\ ~Produces("same_secret") =>
        \A p, t \in Wands : has_stolen(p, task[t].my_secret) <=> <<p, t>> \in robbed

\* What a process was told by sys_magic_list_secrets() stays true until it
\* exits: the array begins with its first secrets in the order of the
\* robberies, the rest is empty, and no secret was unaccounted for.
ListingStaysTrue ==
    \A p \in Wands :
        LET r == reply[p]
            list == task[p].secrets
        IN  \E n \in 0 .. Len(r.secrets) :
                /\ n + r.rest <= Len(list)
                /\ \A i \in 1 .. n : r.secrets[i] = list[i]
                /\ \A i \in n + 1 .. Len(r.secrets) : r.secrets[i] = EMPTY
                /\ n < Len(r.secrets) => r.rest = 0

\* What breaks the kernel is one of four uses: a target that has exited, a
\* secret without a terminator, one that changes while it is copied, or an
\* address that is not the caller's memory.  With targets that live and strings
\* and arrays that are sound, no failed allocation, no equal secrets and no order
\* of the calls makes it follow a null or freed pointer, or free memory twice.
BreaksOnlyThen == broken => Produces("dead_target") \/ StringFault

\* The count that do_fork() compares with RLIMIT_NPROC is the number of
\* processes there are, zombies included, as long as the allocation of the
\* list head, which comes after the count was raised, does not fail.  All
\* variables have their types.
ProcessesCounted ==
    /\ TypeOK
    /\ ~Produces("no_list_head") => processes = Cardinality({p \in Procs : Found(p)})

\* "Copy the wand secret from the target process": what a call adds to the
\* list is the secret of the process that it was called for.
StolenIsTargets ==
    [][\A p \in Procs :
          call[p] # NULL /\ task'[p].secrets # task[p].secrets
             => /\ readable(call[p])
                /\ task'[p].secrets = Append(task[p].secrets, task[call[p]].my_secret)]_vars

=============================================================================
