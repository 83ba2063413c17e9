------------------------------ MODULE PidAlloc ------------------------------
(***************************************************************************)
(* Process numbers: get_pid() hands out the number after the last one, and *)
(* looks at the list of tasks only when that number reaches next_safe, the *)
(* least number it has seen in use beyond last_pid.  A number is in use as *)
(* long as a task has it as its pid, process group, thread group or        *)
(* session.  A new task becomes visible in the list only later in          *)
(* do_fork(), after calls that may sleep; its group and session were       *)
(* copied from its parent before get_pid().                                *)
(***************************************************************************)
EXTENDS Integers, FiniteSets

CONSTANTS
    Tasks,      \* the task structures
    Boot,       \* the first of them, process 1
    PidMax,     \* PID_MAX
    Daemons,    \* where the numbers start again
    MaxThreads, \* max_threads
    NULL,
    Stress      \* the situations below that the processes produce

\* Situations that get_pid() does not expect.
Situations == {
    "exhausted",           \* every number is in use
    "wrap_while_forking",  \* the numbers start again while a fork is between get_pid() and the list
    "regroup_while_forking"}  \* setpgid() moves a process that is there

ASSUME PidAssumption == /\ PidMax \in Nat /\ Daemons \in 2 .. PidMax - 1
                        /\ Boot \in Tasks
                        /\ MaxThreads \in Nat
                        /\ Stress \subseteq Situations
                        /\ NULL \notin [by : Tasks, beginpid : Nat, todo : SUBSET Tasks]
                        /\ NULL \notin [pid : Nat, pgrp : Nat, tgid : Nat, session : Nat]

VARIABLES
    ids,        \* the numbers of the tasks in the list, NULL for the others
    pending,    \* the number a task has for the child it is forking, 0 for none
    copied,     \* the group and session of that child
    last_pid,
    next_safe,
    scan        \* get_pid() in its loop over the tasks, or NULL

vars == <<ids, pending, copied, last_pid, next_safe, scan>>

Listed == {t \in Tasks : ids[t] # NULL}

NumbersOf(t) == {ids[t].pid, ids[t].pgrp, ids[t].tgid, ids[t].session}

Inherited(r) == [pgrp |-> r.pgrp, session |-> r.session]

NoCopy == [pgrp |-> 0, session |-> 0]

InUse(n) == \E t \in Listed : n \in NumbersOf(t)

-----------------------------------------------------------------------------
(* get_pid.  lastpid_lock and the lack of preemption make it one step for    *)
(* everybody else: nothing but its loop runs while scan is not NULL.         *)

\* A free number is found before, or after, the numbers start again.
RoomAhead == \E n \in last_pid + 1 .. PidMax - 1 : ~InUse(n)

RoomBehind == \E n \in Daemons .. last_pid - 1 : ~InUse(n)

MayAsk(p) ==
    /\ scan = NULL
    /\ p \in Listed /\ pending[p] = 0
    /\ Cardinality(Listed) < MaxThreads
    /\ RoomAhead \/ RoomBehind \/ "exhausted" \in Stress
    /\ RoomAhead \/ (\A q \in Tasks : pending[q] = 0) \/ "wrap_while_forking" \in Stress

\* The child's task structure, of which *p = *current has set the rest.
Give(p, n) ==
    /\ pending' = [pending EXCEPT ![p] = n]
    /\ copied' = [copied EXCEPT ![p] = Inherited(ids[p])]

\* The fork is over.
Done(p) ==
    /\ pending' = [pending EXCEPT ![p] = 0]
    /\ copied' = [copied EXCEPT ![p] = NoCopy]

\* Mutant: one number too far without looking.
M_GetPidNext_late(p) ==
    /\ MayAsk(p)
    /\ last_pid + 1 < PidMax /\ last_pid + 1 <= next_safe
    /\ last_pid' = last_pid + 1
    /\ Give(p, last_pid + 1)
    /\ UNCHANGED <<ids, next_safe, scan>>

\* Below next_safe the next number is free.
GetPidNext(p) ==
    /\ MayAsk(p)
    /\ last_pid + 1 < PidMax /\ last_pid + 1 < next_safe
    /\ last_pid' = last_pid + 1
    /\ Give(p, last_pid + 1)
    /\ UNCHANGED <<ids, next_safe, scan>>

\* From the label inside.
GetPidScan(p) ==
    /\ MayAsk(p)
    /\ last_pid + 1 >= PidMax \/ last_pid + 1 >= next_safe
    /\ last_pid' = IF last_pid + 1 >= PidMax THEN Daemons ELSE last_pid + 1
    /\ next_safe' = PidMax
    /\ scan' = [by |-> p, beginpid |-> last_pid, todo |-> Listed]
    /\ UNCHANGED <<ids, pending, copied>>

\* Mutant: the search goes on with the next task.
M_ScanHit_no_repeat(t) ==
    /\ scan # NULL /\ t \in scan.todo
    /\ last_pid \in NumbersOf(t)
    /\ LET far == last_pid + 1 >= next_safe
           n == IF far /\ last_pid + 1 >= PidMax THEN Daemons ELSE last_pid + 1
       IN  /\ last_pid' = n
           /\ next_safe' = IF far THEN PidMax ELSE next_safe
           /\ scan' = IF n = scan.beginpid THEN NULL ELSE [scan EXCEPT !.todo = @ \ {t}]
    /\ UNCHANGED <<ids, pending, copied>>

\* Mutant: the numbers start again at every hit beyond next_safe.
M_ScanHit_restarts(t) ==
    /\ scan # NULL /\ t \in scan.todo
    /\ last_pid \in NumbersOf(t)
    /\ LET far == last_pid + 1 >= next_safe
           n == IF far THEN Daemons ELSE last_pid + 1
       IN  /\ last_pid' = n
           /\ next_safe' = IF far THEN PidMax ELSE next_safe
           /\ scan' = IF n = scan.beginpid THEN NULL ELSE [scan EXCEPT !.todo = Listed]
    /\ UNCHANGED <<ids, pending, copied>>

\* last_pid is in use: try the next number, from the first task on.  Back at
\* beginpid the fork fails.
ScanHit(t) ==
    /\ scan # NULL /\ t \in scan.todo
    /\ last_pid \in NumbersOf(t)
    /\ LET far == last_pid + 1 >= next_safe
           n == IF far /\ last_pid + 1 >= PidMax THEN Daemons ELSE last_pid + 1
       IN  /\ last_pid' = n
           /\ next_safe' = IF far THEN PidMax ELSE next_safe
           /\ scan' = IF n = scan.beginpid THEN NULL ELSE [scan EXCEPT !.todo = Listed]
    /\ UNCHANGED <<ids, pending, copied>>

\* Mutant: the process group is not looked at.
M_Lower_no_pgrp(t) ==
    LET beyond == {n \in {ids[t].pid, ids[t].tgid, ids[t].session} : n > last_pid} \cup {next_safe}
    IN  CHOOSE m \in beyond : \A n \in beyond : m <= n

\* The least of next_safe and the numbers of t beyond last_pid.
Lower(t) ==
    LET beyond == {n \in NumbersOf(t) : n > last_pid} \cup {next_safe}
    IN  CHOOSE m \in beyond : \A n \in beyond : m <= n

ScanMiss(t) ==
    /\ scan # NULL /\ t \in scan.todo
    /\ last_pid \notin NumbersOf(t)
    /\ next_safe' = Lower(t)
    /\ scan' = [scan EXCEPT !.todo = @ \ {t}]
    /\ UNCHANGED <<ids, pending, copied, last_pid>>

ScanEnd ==
    /\ scan # NULL /\ scan.todo = {}
    /\ Give(scan.by, last_pid)
    /\ scan' = NULL
    /\ UNCHANGED <<ids, last_pid, next_safe>>

-----------------------------------------------------------------------------
(* The rest of fork, exit, and the calls that change groups and sessions.    *)

\* thread is CLONE_THREAD.
LinkChild(p, c, thread) ==
    /\ scan = NULL /\ pending[p] # 0
    /\ ids[c] = NULL
    /\ ids' = [ids EXCEPT ![c] = [pid |-> pending[p],
                                  tgid |-> IF thread THEN ids[p].tgid ELSE pending[p],
                                  pgrp |-> copied[p].pgrp, session |-> copied[p].session]]
    /\ Done(p)
    /\ UNCHANGED <<last_pid, next_safe, scan>>

\* A later part of do_fork() fails; the number is lost.
ForkFails(p) ==
    /\ scan = NULL /\ pending[p] # 0
    /\ Done(p)
    /\ UNCHANGED <<ids, last_pid, next_safe, scan>>

\* A dead task leaves the list.
unhash_process(t) ==
    /\ scan = NULL /\ t \in Listed /\ t # Boot /\ pending[t] = 0
    /\ ids' = [ids EXCEPT ![t] = NULL]
    /\ UNCHANGED <<pending, copied, last_pid, next_safe, scan>>

\* p sets the group of t, itself or a child.  A session leader's pid is its
\* session.
setpgid(p, t, g) ==
    /\ scan = NULL /\ {p, t} \subseteq Listed /\ pending[p] = 0
    /\ pending[t] # 0 => "regroup_while_forking" \in Stress
    /\ ids[t].session = ids[p].session /\ ids[t].session # ids[t].pid
    /\ \/ g = ids[t].pid
       \/ \E q \in Listed : ids[q].pgrp = g /\ ids[q].session = ids[p].session
    /\ ids' = [ids EXCEPT ![t].pgrp = g]
    /\ UNCHANGED <<pending, copied, last_pid, next_safe, scan>>

setsid(p) ==
    /\ scan = NULL /\ p \in Listed /\ pending[p] = 0
    /\ \A q \in Listed : ids[q].pgrp # ids[p].pid
    /\ ids' = [ids EXCEPT ![p].session = ids[p].pid, ![p].pgrp = ids[p].pid]
    /\ UNCHANGED <<pending, copied, last_pid, next_safe, scan>>

\* execve() takes a task out of its thread group.
de_thread(t) ==
    /\ scan = NULL /\ t \in Listed /\ pending[t] = 0
    /\ ids' = [ids EXCEPT ![t].tgid = ids[t].pid]
    /\ UNCHANGED <<pending, copied, last_pid, next_safe, scan>>

\* Process 1 has inherited the group and session of the idle task.
Init == /\ ids = [t \in Tasks |-> IF t = Boot THEN [pid |-> 1, pgrp |-> 0, tgid |-> 1, session |-> 0]
                                  ELSE NULL]
        /\ pending = [t \in Tasks |-> 0]
        /\ copied = [t \in Tasks |-> NoCopy]
        /\ last_pid = 1
        /\ next_safe = PidMax
        /\ scan = NULL

Scan == ScanEnd \/ \E t \in Tasks : ScanHit(t) \/ ScanMiss(t)

Next ==
    \/ \E p \in Tasks : GetPidNext(p) \/ GetPidScan(p)
    \/ Scan
    \/ \E p, c \in Tasks, thread \in BOOLEAN : LinkChild(p, c, thread)
    \/ \E p \in Tasks : ForkFails(p) \/ unhash_process(p) \/ setsid(p) \/ de_thread(p)
    \/ \E p, t \in Tasks : \E g \in 1 .. PidMax - 1 : setpgid(p, t, g)

Spec == Init /\ [][Next]_vars

\* The loop runs with the CPU to itself.
FairSpec == Spec /\ WF_vars(Scan)

-----------------------------------------------------------------------------
(* Properties.                                                               *)

Numbers == 0 .. PidMax - 1

\* The types of the variables; last_pid never reaches PID_MAX.
TypeOK ==
    /\ ids \in [Tasks -> [pid : Numbers, pgrp : Numbers, tgid : Numbers, session : Numbers] \cup {NULL}]
    /\ pending \in [Tasks -> Numbers]
    /\ copied \in [Tasks -> [pgrp : Numbers, session : Numbers]]
    /\ last_pid \in Numbers \ {0}
    /\ next_safe \in 1 .. PidMax
    /\ scan \in [by : Tasks, beginpid : Numbers, todo : SUBSET Tasks] \cup {NULL}

\* What next_safe promises outside get_pid(): no number between last_pid and
\* next_safe is in use, whatever forks, exits and changes of groups and
\* sessions came after the scan that set it.
GapIsFree ==
    scan = NULL => \A n \in last_pid + 1 .. next_safe - 1 : ~InUse(n)

\* No two tasks have the same pid, counting the children still being forked.
PidsUnique ==
    /\ \A p, q \in Listed : p # q => ids[p].pid # ids[q].pid
    /\ \A p \in Tasks : pending[p] # 0 =>
        /\ \A q \in Listed : ids[q].pid # pending[p]
        /\ \A q \in Tasks : q # p => pending[q] # pending[p]

\* A number that get_pid() returns is not the number of a task, group, thread
\* group or session: a child is not born into an old process group.
FreshPid ==
    [][\A p \in Tasks : pending'[p] \notin {0, pending[p]} => ~InUse(pending'[p])]_vars

\* The loop of get_pid() ends.
GetPidReturns == scan # NULL ~> scan = NULL

-----------------------------------------------------------------------------
(* Why this holds.                                                           *)

NothingPending == \A q \in Tasks : pending[q] = 0

FreeIn(low, high) == \E n \in low .. high : ~InUse(n)

\* Where the loop is.  It is past beginpid and will find a number before
\* PID_MAX, or it will start again, or it has, and will find one before
\* beginpid.
WillFind ==
    LET begin == scan.beginpid
    IN  \/ begin < last_pid /\ FreeIn(last_pid, PidMax - 1)
        \/ begin < last_pid /\ NothingPending /\ FreeIn(Daemons, begin - 1)
        \/ last_pid < begin /\ NothingPending /\ FreeIn(last_pid, begin - 1)

\* The tasks that the loop has seen have no number from last_pid to next_safe.
Scanning ==
    /\ scan.by \in Listed /\ pending[scan.by] = 0
    /\ scan.todo \subseteq Listed
    /\ \A t \in Listed \ scan.todo : \A n \in NumbersOf(t) : n < last_pid \/ n >= next_safe
    /\ WillFind

\* What a fork has copied has not changed.
CopiesCurrent == \A q \in Tasks : pending[q] # 0 => copied[q] = Inherited(ids[q])

\* The inductive invariant of get_pid() when Stress is empty: the numbers given
\* and not yet visible are behind last_pid, and those ahead up to next_safe are
\* free, or are being looked at.
Inductive ==
    /\ TypeOK
    /\ PidsUnique
    /\ GapIsFree
    /\ CopiesCurrent
    /\ last_pid < next_safe
    /\ \A q \in Tasks : pending[q] # 0 => /\ q \in Listed
                                        /\ pending[q] <= IF scan = NULL THEN last_pid ELSE scan.beginpid
    /\ scan # NULL => Scanning

=============================================================================
