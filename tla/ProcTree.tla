------------------------------ MODULE ProcTree ------------------------------
(***************************************************************************)
(* The family tree of the processes: who is whose parent, which threads    *)
(* form a group, who waits for whom, and what an exit does to all of them. *)
(* do_fork(), do_exit(), exit_notify(), sys_wait4() and the two ptrace()   *)
(* calls that move a process to another parent, with the signal that tells *)
(* a parent of a death and the completion on which vfork() waits.          *)
(*                                                                         *)
(* A C function that changes the tasks is an operator from the function T  *)
(* of all tasks to the function after the call.                            *)
(***************************************************************************)
EXTENDS Integers, Sequences, FiniteSetsExt, Functions

CONSTANTS
    Tasks,       \* the task structures, child_reaper among them
    child_reaper,\* the init process
    NULL,
    Options,     \* the arguments sys_wait4() is called with
    CloneFlags,  \* the flags processes other than init give to do_fork()
    Catchers,    \* the tasks that have a handler for the exit signals of their children
    MaxForks,    \* bound on total_forks
    Stress       \* the situations below that the processes produce

\* Situations in which a process that waits can be forgotten, or a child be
\* released twice or never.  A run leaves one out to ask what holds without it.
Situations == {
    "exec_in_group",  \* a thread calls execve() while its group has others
    "trace_clone",    \* a process whose exit signal is not SIGCHLD is given to a tracer
    "clone_for_init", \* a child of init makes a sibling whose exit signal is not SIGCHLD
    "status_faults"}  \* writing the status of wait4() sleeps in a group of threads

\* pid is NULL for "any child"; clone is __WCLONE, all is __WALL, nothread is
\* __WNOTHREAD and nohang is WNOHANG.
WaitOption == [pid : Tasks \cup {NULL}, clone : BOOLEAN, all : BOOLEAN,
               nothread : BOOLEAN, nohang : BOOLEAN]

\* signal is clone_flags & CSIGNAL.
CloneFlag == [signal : {"SIGCHLD", "other"}, parent : BOOLEAN, thread : BOOLEAN, vfork : BOOLEAN]

ASSUME TreeAssumption == /\ IsFiniteSet(Tasks)
                         /\ child_reaper \in Tasks
                         /\ NULL \notin Tasks
                         /\ Options \subseteq WaitOption
                         /\ CloneFlags \subseteq CloneFlag
                         /\ Catchers \subseteq Tasks
                         /\ MaxForks \in Nat
                         /\ Stress \subseteq Situations

VARIABLES
    task,        \* the task structures
    total_forks, \* the forks so far
    broken       \* a task structure was released twice

vars == <<task, total_forks, broken>>

\* pc is the system call the task is in and opt the options of wait4(); tsk is
\* the child whose status wait4() is writing to user memory; next is
\* next_thread(); done tells a vfork() parent that its completion is done.
Structs == [state : {"none", "running", "interruptible", "uninterruptible", "zombie"},
            pc : {"user", "wait4", "status", "vfork", "exit"},
            opt : WaitOption,
            tsk : Tasks \cup {NULL},
            exiting : BOOLEAN,
            pptr : Tasks \cup {NULL},
            opptr : Tasks \cup {NULL},
            cptr : Seq(Tasks),
            next : Tasks,
            exit_signal : {"SIGCHLD", "other"},
            ptrace : BOOLEAN,
            sigpending : BOOLEAN,
            vfork_done : Tasks \cup {NULL},
            done : BOOLEAN]

\* What wait4(-1, ...) without options is called with.
AnyChild == [pid |-> NULL, clone |-> FALSE, all |-> FALSE, nothread |-> FALSE, nohang |-> FALSE]

\* A free task structure.
NoTask(t) == [state |-> "none", pc |-> "user", opt |-> AnyChild, tsk |-> NULL,
              exiting |-> FALSE, pptr |-> NULL, opptr |-> NULL, cptr |-> <<>>,
              next |-> t, exit_signal |-> "SIGCHLD", ptrace |-> FALSE,
              sigpending |-> FALSE, vfork_done |-> NULL, done |-> FALSE]

-----------------------------------------------------------------------------
(* Links.                                                                    *)

\* A list of children without p, which is in it.
unlink(l, p) ==
    LET i == CHOOSE i \in DOMAIN l : l[i] = p
    IN  SubSeq(l, 1, i - 1) \o SubSeq(l, i + 1, Len(l))

REMOVE_LINKS(T, p) == [T EXCEPT ![T[p].pptr].cptr = unlink(@, p)]

SET_LINKS(T, p) == [T EXCEPT ![T[p].pptr].cptr = <<p>> \o @]

\* Mutant: the process is not taken out of its old parent's list.
M_set_pptr_keeps_link(T, p, q) == SET_LINKS([T EXCEPT ![p].pptr = q], p)

\* The three lines by which a process is moved to another parent.
set_pptr(T, p, q) == SET_LINKS([REMOVE_LINKS(T, p) EXCEPT ![p].pptr = q], p)

\* The threads met by following next_thread() from t, which is the first and
\* after one round comes again.
threads(T, t) ==
    LET f[i \in 0 .. Cardinality(Tasks)] == IF i = 0 THEN t ELSE T[f[i - 1]].next
    IN  f

Group(T, t) == Range(threads(T, t))

\* list_del(&p->thread_group)
leave_group(T, p) ==
    LET prev == CHOOSE q \in Tasks : T[q].next = p
    IN  [T EXCEPT ![prev].next = T[p].next, ![p].next = p]

-----------------------------------------------------------------------------
(* Wakeups and signals.                                                      *)

\* Only wait4() sleeps in state INTERRUPTIBLE, each task on its own queue.
try_to_wake_up(T, p) == [T EXCEPT ![p].state = IF @ \in {"interruptible", "uninterruptible"}
                                               THEN "running" ELSE @]

\* Mutant: only the parent is woken, not the threads of its group.
M_wake_only_parent(T, q) ==
    [T EXCEPT ![q].state = IF @ = "interruptible" THEN "running" ELSE @]

wake_up_parent(T, q) ==
    [t \in Tasks |-> [T[t] EXCEPT !.state = IF t \in Group(T, q) /\ @ = "interruptible"
                                            THEN "running" ELSE @]]

\* A signal that is not ignored.  One that comes to a task in user mode is
\* handled before the task calls wait4() and leaves no trace.
signal_wake_up(T, t) ==
    IF T[t].pc # "wait4" THEN T
    ELSE [T EXCEPT ![t].sigpending = TRUE, ![t].state = IF @ = "interruptible" THEN "running" ELSE @]

do_notify_parent(T, p) ==
    LET q == T[p].pptr
    IN  wake_up_parent(IF q \in Catchers THEN signal_wake_up(T, q) ELSE T, q)

\* Mutant: the woken parent's completion stays undone.
M_mm_release_forgets(T, p) ==
    LET q == T[p].vfork_done
    IN  IF q = NULL THEN T ELSE try_to_wake_up([T EXCEPT ![p].vfork_done = NULL], q)

\* complete(vfork_done)
mm_release(T, p) ==
    LET q == T[p].vfork_done
    IN  IF q = NULL THEN T
        ELSE try_to_wake_up([T EXCEPT ![p].vfork_done = NULL, ![q].done = TRUE], q)

-----------------------------------------------------------------------------
(* fork.                                                                     *)

\* From the line where the child's parents are set.
link_child(T, p, c, f) ==
    LET n == [NoTask(c) EXCEPT !.state = "running",
                               !.exit_signal = f.signal,
                               !.opptr = IF f.parent THEN T[p].opptr ELSE p,
                               !.pptr = IF f.parent THEN T[p].pptr ELSE p,
                               !.next = IF f.thread THEN T[p].next ELSE c,
                               !.vfork_done = IF f.vfork THEN p ELSE NULL]
        U == [T EXCEPT ![c] = n, ![p].next = IF f.thread THEN c ELSE @]
    IN  SET_LINKS(U, c)

-----------------------------------------------------------------------------
(* exit.                                                                     *)

\* Mutant: the last such thread before the ring comes back to father.
M_reaper_last(T, father) ==
    LET f == threads(T, father)
        round == {i \in DOMAIN f : \A j \in 1 .. i : f[j] # father}
        live == {i \in round : ~T[f[i]].exiting}
    IN  IF live = {} THEN child_reaper ELSE f[Max(live)]

\* The next thread of the group that is not exiting, or else init.
reaper_of(T, father) ==
    LET f == threads(T, father)
        live == {i \in 1 .. Cardinality(Tasks) : ~T[f[i]].exiting}
    IN  IF live = {} THEN child_reaper ELSE f[Min(live)]

\* Mutant: a thread may become its own parent.
M_forget_no_self_check(T, father) ==
    [t \in Tasks |-> IF T[t].opptr # father THEN T[t]
                     ELSE [T[t] EXCEPT !.exit_signal = "SIGCHLD", !.opptr = reaper_of(T, father)]]

\* Mutant: the exit signal of an orphan is kept.
M_forget_keeps_signal(T, father) ==
    [t \in Tasks |-> IF T[t].opptr # father THEN T[t]
                     ELSE [T[t] EXCEPT !.opptr = IF t = reaper_of(T, father) THEN child_reaper
                                                 ELSE reaper_of(T, father)]]

forget_original_parent(T, father) ==
    [t \in Tasks |-> IF T[t].opptr # father THEN T[t]
                     ELSE [T[t] EXCEPT !.exit_signal = "SIGCHLD",
                                       !.opptr = IF t = reaper_of(T, father) THEN child_reaper
                                                 ELSE reaper_of(T, father)]]

\* One round of the loop over the children of an exiting process.
reparent_child(T, p) ==
    LET U == set_pptr([T EXCEPT ![p].ptrace = FALSE], p, T[p].opptr)
    IN  IF T[p].state = "zombie" THEN do_notify_parent(U, p) ELSE U

\* sig is the exit signal after the check of the exec ids.
exit_notify(T, p, sig) ==
    LET U == forget_original_parent(T, p)
        V == [U EXCEPT ![p].state = "zombie", ![p].exit_signal = sig]
        after[i \in 0 .. Len(V[p].cptr)] ==
            IF i = 0 THEN do_notify_parent(V, p) ELSE reparent_child(after[i - 1], V[p].cptr[i])
    IN  after[Len(V[p].cptr)]

-----------------------------------------------------------------------------
(* wait4.                                                                    *)

eligible(T, p, o) ==
    /\ o.pid \in {NULL, p}
    /\ o.all \/ (T[p].exit_signal # "SIGCHLD") = o.clone

\* The children of thread q that wait4() may report, by their places in the list.
candidates(T, q, o) == {j \in DOMAIN T[q].cptr : eligible(T, T[q].cptr[j], o)}

dead(T, q, o) == {j \in candidates(T, q, o) : T[T[q].cptr[j]].state = "zombie"}

\* The threads whose children wait4() looks at, by their places after t.
walk(o) == IF o.nothread THEN {0} ELSE 0 .. Cardinality(Tasks)

\* There is a child to wait for.
flag(T, t, o) == \E i \in walk(o) : candidates(T, threads(T, t)[i], o) # {}

\* The first dead child that is met, or NULL.
dead_child(T, t, o) ==
    LET f == threads(T, t)
        found == {i \in walk(o) : dead(T, f[i], o) # {}}
        q == f[Min(found)]
    IN  IF found = {} THEN NULL ELSE T[q].cptr[Min(dead(T, q, o))]

release_task(T, p) == [leave_group(REMOVE_LINKS(T, p), p) EXCEPT ![p] = NoTask(p)]

return_to_user(T, t) == [T EXCEPT ![t].pc = "user", ![t].state = "running", ![t].tsk = NULL,
                                  ![t].opt = AnyChild, ![t].sigpending = FALSE, ![t].done = FALSE]

\* The child's status has been written: a traced child goes back to its own
\* parent, another one is released.
reap(T, t, p) ==
    return_to_user(IF T[p].opptr # T[p].pptr
                   THEN do_notify_parent(set_pptr(T, p, T[p].opptr), p)
                   ELSE release_task(T, p), t)

-----------------------------------------------------------------------------
(* Actions.                                                                  *)

InUser(t) == ~broken /\ task[t].state = "running" /\ task[t].pc = "user" /\ ~task[t].exiting

Become(T) == task' = T /\ UNCHANGED <<total_forks, broken>>

Fork(p, c, f) ==
    /\ InUser(p)
    /\ task[c].state = "none"
    /\ total_forks < MaxForks
    /\ f.parent /\ f.signal # "SIGCHLD" =>
        /\ task[p].opptr = child_reaper => "clone_for_init" \in Stress
        /\ task[p].opptr # task[p].pptr => "trace_clone" \in Stress
    /\ LET T == link_child(task, p, c, f)
       IN  task' = IF f.vfork THEN [T EXCEPT ![p].pc = "vfork", ![p].state = "uninterruptible"]
                   ELSE T
    /\ total_forks' = total_forks + 1
    /\ UNCHANGED broken

\* wait_for_completion() in do_fork() after a wakeup.
ForkReturn(p) ==
    /\ ~broken
    /\ task[p].pc = "vfork" /\ task[p].state = "running"
    /\ Become(IF task[p].done THEN return_to_user(task, p)
              ELSE [task EXCEPT ![p].state = "uninterruptible"])

Exec(t) ==
    /\ InUser(t)
    /\ task[t].next # t => "exec_in_group" \in Stress
    /\ task[t].vfork_done # NULL \/ task[t].next # t
    /\ Become(leave_group(mm_release(task, t), t))

\* do_exit() up to the calls that may sleep.
BeginExit(p) ==
    /\ InUser(p)
    /\ p # child_reaper
    /\ Become([mm_release(task, p) EXCEPT ![p].exiting = TRUE, ![p].pc = "exit"])

\* The exec ids and CAP_KILL decide whether another exit signal is kept.
ExitNotify(p) ==
    /\ ~broken
    /\ task[p].exiting /\ task[p].state = "running"
    /\ \E sig \in {"SIGCHLD", task[p].exit_signal} : Become(exit_notify(task, p, sig))

\* One pass over the children.  Writing the status may fail, and it may sleep
\* before the child is released.
WaitPass(t, o) ==
    LET p == dead_child(task, t, o)
    IN  \/ p # NULL /\ Become(reap(task, t, p))
        \/ p # NULL /\ Become(return_to_user(task, t))
        \/ /\ p # NULL
           /\ task[t].next # t => "status_faults" \in Stress
           /\ Become([task EXCEPT ![t].pc = "status", ![t].state = "running", ![t].tsk = p])
        \/ /\ p = NULL
           /\ ~flag(task, t, o) \/ o.nohang \/ task[t].sigpending
           /\ Become(return_to_user(task, t))
        \/ /\ p = NULL
           /\ flag(task, t, o) /\ ~o.nohang /\ ~task[t].sigpending
           /\ Become([task EXCEPT ![t].pc = "wait4", ![t].state = "interruptible", ![t].opt = o])

Wait4(t, o) ==
    /\ InUser(t)
    /\ t = child_reaper => o = AnyChild
    /\ o.pid # t
    /\ WaitPass(t, o)

WaitAgain(t) ==
    /\ ~broken
    /\ task[t].pc = "wait4" /\ task[t].state = "running"
    /\ WaitPass(t, task[t].opt)

\* The status is written: the child found before is released.
WaitStatus(t) ==
    /\ ~broken
    /\ task[t].pc = "status"
    /\ LET p == task[t].tsk
       IN  IF task[p].state = "zombie" THEN Become(reap(task, t, p))
           ELSE broken' = TRUE /\ UNCHANGED <<task, total_forks>>

\* A signal with a handler.
Signal(t) == /\ ~broken
             /\ task[t].pc = "wait4" /\ ~task[t].sigpending
             /\ Become(signal_wake_up(task, t))

\* The test of task->mm lets an exiting task pass that has not come to
\* __exit_mm(), before which the process accounting may sleep.  The model does not
\* know how far it has come, and refuses only a zombie.
Attach(t, p) ==
    /\ InUser(t)
    /\ p \notin {child_reaper, t}
    /\ task[p].state \notin {"none", "zombie"} /\ ~task[p].ptrace
    /\ task[p].exit_signal # "SIGCHLD" => "trace_clone" \in Stress
    /\ LET T == [task EXCEPT ![p].ptrace = TRUE]
       IN  Become(IF task[p].pptr = t THEN T ELSE set_pptr(T, p, t))

Detach(t, p) ==
    /\ InUser(t)
    /\ task[p].ptrace /\ task[p].pptr = t
    /\ task[p].state \notin {"none", "zombie"}
    /\ Become(set_pptr([task EXCEPT ![p].ptrace = FALSE], p, task[p].opptr))

Init == /\ task = [t \in Tasks |-> IF t = child_reaper
                                   THEN [NoTask(t) EXCEPT !.state = "running"] ELSE NoTask(t)]
        /\ total_forks = 0
        /\ broken = FALSE

\* The program that init runs calls fork() only.  The kernel threads that init
\* starts before, some of them without an exit signal, never exit and are left out.
ForkFlags(p) == IF p = child_reaper
                THEN {[signal |-> "SIGCHLD", parent |-> FALSE, thread |-> FALSE, vfork |-> FALSE]}
                ELSE CloneFlags

Next ==
    \/ \E p, c \in Tasks : \E f \in ForkFlags(p) : Fork(p, c, f)
    \/ \E t \in Tasks : ForkReturn(t) \/ Exec(t) \/ BeginExit(t) \/ ExitNotify(t)
    \/ \E t \in Tasks : \E o \in Options \cup {AnyChild} : Wait4(t, o)
    \/ \E t \in Tasks : WaitAgain(t) \/ WaitStatus(t) \/ Signal(t)
    \/ \E t, p \in Tasks : Attach(t, p) \/ Detach(t, p)

Spec == Init /\ [][Next]_vars

-----------------------------------------------------------------------------
(* Properties.                                                               *)

Used == {t \in Tasks : task[t].state # "none"}

Alive == {t \in Used : task[t].state # "zombie"}

\* The types of all fields.
TypeOK ==
    /\ task \in [Tasks -> Structs]
    /\ total_forks \in 0 .. MaxForks
    /\ broken \in BOOLEAN

\* A task is in the list of children of its p_pptr, once, and in no other list;
\* and the ring of a group holds no released task.  fork, exit, wait4, attach
\* and detach all relink tasks by hand.  The links have their types.
LinksAgree ==
    /\ TypeOK
    /\ \A p \in Tasks :
          /\ IsInjective(task[p].cptr)
          /\ Range(task[p].cptr) = {c \in Used : task[c].pptr = p}
          /\ p \in Used => Group(task, p) \subseteq Used

\* No task but init has a dead or released parent or original parent: exit_notify()
\* finds every task that points to the exiting one.
ParentsAlive ==
    \A t \in Used \ {child_reaper} : {task[t].pptr, task[t].opptr} \subseteq Alive \ {t}

\* t and its ancestors by p_opptr.
Ancestors(t) ==
    LET up[i \in 0 .. Cardinality(Tasks)] ==
            IF i = 0 THEN t
            ELSE IF up[i - 1] = child_reaper THEN child_reaper ELSE task[up[i - 1]].opptr
    IN  {up[i] : i \in DOMAIN up}

\* Every task descends from init, or from a task that is exiting and will hand
\* its children on: the choice of a reaper in forget_original_parent() makes a
\* circle of parents only through an exiting thread.
Rooted ==
    \A t \in Used : \/ child_reaper \in Ancestors(t)
                    \/ \E a \in Ancestors(t) : task[a].exiting

\* A task asleep in wait4() has no child it could reap: no death was announced
\* to somebody else or before the task went to sleep.
NoDeathMissed ==
    \A t \in Tasks : task[t].state = "interruptible" => dead_child(task, t, task[t].opt) = NULL

\* The completion of vfork() is on the stack of the parent: as long as a child
\* points to it the parent has not left do_fork(), and a parent that sleeps
\* there undone has such a child.
CompletionOnStack ==
    /\ \A c \in Used : task[c].vfork_done # NULL =>
        task[task[c].vfork_done].pc = "vfork" /\ ~task[task[c].vfork_done].done
    /\ \A p \in Used : task[p].pc = "vfork" /\ ~task[p].done =>
        Cardinality({c \in Used : task[c].vfork_done = p}) = 1
    /\ \A p \in Used : task[p].pc = "vfork" /\ task[p].done => task[p].state = "running"

\* No child is released twice while wait4() writes its status to user memory.
NotReleasedTwice == ~broken

\* init can reap every process it makes or inherits: an orphan reports its death
\* by SIGCHLD, which wait4() without __WCLONE looks for.
InitCanReap ==
    \A t \in Used : task[t].opptr = child_reaper => task[t].exit_signal = "SIGCHLD"

=============================================================================
