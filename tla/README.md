# Models of the OS lab homeworks

The repository holds three homeworks on Linux 2.4.18: the *wand* system calls
(first homework), the *magic clock*, a change of the scheduler that gives one
process the CPU for itself (second homework), and the *repeated* character
device (third homework). This directory models the final version of each in
TLA+, together with the parts of the kernel that they are built into: time
sharing, the process tree and the process numbers. It checks the models with TLC
on small instances. With TLAPS it proves, for instances of any size, all safety
properties that the passing runs check but one, and that the device driver
implements an abstract device.

Sources are named relative to
`src/OS HW2/PRINTLESS VERSION [KNOWN WORKING]/SOURCES/`, the version of the
kernel files that is built, except for `repeated.c`, which is
`src/OS HW3/repeated.c`, and for files that the homeworks do not change
(`kernel/signal.c`, `kernel/ptrace.c`, `kernel/sys.c`, `fs/exec.c`), which are
those of `src/OS HW1/linux-2.4.18-14custom/`.

Most of the repository is that unchanged kernel: drivers, file systems,
networking, memory management and code for other architectures. The models cover
the homeworks and what they touch of the scheduler, of fork, exit, exec and
wait, and of the process numbers. That is a few thousand lines, a very small
share of all, and the rest is not modelled.

## The system

| part | source | state | operations |
|---|---|---|---|
| run queue | `kernel/sched.c` | two priority arrays with lists, bitmaps and counters; per task: state, prio, array, time_slice | enqueue, dequeue, (de)activate, wake, fork, exit |
| magic clock | `kernel/sched.c`, `magic_all.c` | `magicProcess`, `MAGICTIME`, `idle_from_magic`, `magic_sleep_flag`, `global_magic_call_time`; per task: `magic_time`, `started_magic`, `magic_call_time` | `sys_magic_clock`, and hooks in `scheduler_tick` and `schedule` |
| time sharing | `kernel/sched.c` | per task: nice value, policy, sleep average, timeslice; the order of the lists, `expired_timestamp`, `need_resched` | tick, `schedule`, wake, nice, `setscheduler`, yield |
| process tree | `fork.c`, `exit.c`, `signal.c`, `ptrace.c`, `exec.c` | per task: parents, children, ring of threads, exit signal, `vfork_done` | clone, vfork, exec, exit, wait4, attach, detach, signal |
| process numbers | `fork.c`, `sys.c`, `exec.c` | `last_pid`, `next_safe`; per task: pid, pgrp, tgid, session | `get_pid`, the rest of fork, exit, setpgid, setsid, exec |
| process hooks | `kernel/fork.c`, `kernel/exit.c` | the fields above and those of the wand | `do_fork`, `do_exit`, `release_task`, `sys_wait4` |
| wand calls | `arch/i386/kernel/magic_all.c` | per task: `holding_wand`, `my_secret`, `health`, `power`, the list of stolen secrets | get_wand, attack, legilimens, list_secrets |
| repeated device | `repeated.c` | per minor: string, sizes; per file: position | open, release, read, write, llseek, ioctl, insmod, rmmod |

The kernel is configured for one processor and does not preempt kernel code.
What runs concurrently is: the timer interrupt and wakeups, at any time, with
every process; and processes with one another wherever a system call sleeps,
that is in `schedule()`, in `kmalloc(GFP_KERNEL)` and on access to user memory.
An action of a model is the code between two such points.

Hard behaviours, listed with their lines as hazards in `PROJECT.json`: the magic
timer may run out while the magic process runs, sleeps, has been woken but not
yet chosen, has called again, has exited; the flags that say which of these is
the case are spread over five globals and three task fields; the device driver
keeps pointers across sleeps; legilimens keeps a pointer to another process
across a sleep; fork has a number for its child, and a copy of its own groups,
long before the child is visible; wait4 must not sleep through a death that any
thread, tracer or exiting parent announces.

## Modules

| module | models |
|---|---|
| `RunQueue` | the run-queue functions of `sched.c`, as functions from scheduling state to scheduling state |
| `MagicSched` | the magic clock, the tick, `schedule()`, and everything that drives them, as actions on one record `k` |
| `SchedProofs` | proofs about `MagicSched`: the globals of the magic clock, and what each function does to the run queue |
| `QueueProofs` | proofs about `MagicSched` that build on them: bitmaps and counters, priorities, and the system without the situations |
| `TimeSharing` | the scheduler for tasks without magic, with the order inside the lists and the arithmetic of priorities |
| `TimeProofs` | the proofs about `TimeSharing` |
| `ProcTree` | parents, threads, exit, wait4, tracing and vfork |
| `TreeLemmas` | the invariant of `ProcTree`, and what each function of the code does to links, rings and completions |
| `TreeProofs` | that each action keeps the invariant, and the theorems |
| `PidAlloc` | `get_pid()` and all that changes which numbers are in use |
| `PidProofs` | the proofs about `PidAlloc` |
| `Wand` | the four wand calls and their hooks in fork and exit |
| `WandProofs` | the proofs about `Wand` |
| `RepeatedDevice` | what the device promises (abstract) |
| `RepeatedDriver` | `repeated.c`; `Device` maps it to `RepeatedDevice` |
| `DriverProofs` | the proofs about `RepeatedDriver`, the refinement included |
| `MCMagicSched`, `MCTimeSharing`, `MCProcTree`, `MCPidAlloc`, `MCWand`, `MCRepeatedDriver` | symmetry sets, and values of constants that a cfg file cannot write |

Definitions carry the names of the C functions. Those that begin with `M_` are
variants of the definition below them with a plausible mistake; `PROJECT.json`
names for each property the variant that breaks it. No specification uses them.

### Situations and worlds

The code does not guard against some situations, such as a target that exits
during a call. Each module names its own in `Situations`. In `MagicSched`,
`ProcTree` and `PidAlloc` the constant `Stress` says which of them the processes
produce. In `Wand`, `RepeatedDriver` and `TimeSharing` the environment is a
variable `world`, chosen in `Init` from the constant `Worlds` and never changed,
so that one run covers several environments, and a property that does not hold
in all of them says which it is about.

### The magic clock

`k` is a record with the fields of the task structs (functions of the task), of
the run queue, and the globals of the magic clock. A C function is an operator
on such a record; `schedule()` gives the set of its possible results, because
the order of the tasks inside one priority list is left open. Following a null
array, or the head of an empty list, or a `BUG()`, sets `oops`; nothing happens
after that. Two fields abstract the time stamps: `called[p]` says that p's
`magic_call_time` is the present jiffy, `call_seen` that
`global_magic_call_time` equals that of the magic process, which is how
`schedule()` recognises a new call. `effective_prio()` is any member of
`UserPrios`, and the choice of the array for an expired task is open. A
timeslice and a `magic_time` are unsigned with `Word` values, `MAGICTIME` is the
corresponding signed int.

The functions of the stock kernel that it meets are modelled by what they do to
these fields, and more loosely than they are written: any signal may come to any
process at any time, blocked or ignored or not (`Signal`), and be taken on return
to user mode (`TakeSignal`; that a signal stops or ends the process is
`set_current_state` and `do_exit`); an exit may wake any one process as the
parent, or none, with or without a pending signal (`do_notify_parent`).

Its situations:

* `uninterruptible`: a process with magic time goes to an uninterruptible or
  stopped state;
* `exit_before_start`: a process exits after `sys_magic_clock()`, before
  `schedule()` has seen the call;
* `tick_before_resched`: a tick comes between the wakeup of the sleeping magic
  process and the idle loop's next `schedule()`;
* `fork_without_slice`: a process forks with an empty timeslice;
* `recall_same_jiffy`, `cancel_same_jiffy`: the magic process calls again within
  the jiffy of its last call, with a duration or with zero.

### Time sharing

An array is the sequence of its tasks in the order in which `schedule()` would
choose them. The list of one priority is a stretch of it, from the place `first`
to the one before `behind`; `list_del` and `list_add` take out and put in one task
and keep the order of the others. The jiffies are replaced by ages, which stop
growing where the code no longer tells them apart. Priorities, bonuses, timeslices and the limit for
starving tasks are computed as in the C macros, with division towards zero.
A world says which of nice (of oneself or of others), `setscheduler()` and
`sched_yield()` tasks call, besides sleeping, which all do. Fork and exit are in
`MagicSched`.

### The process tree

`task` holds the links as the C code does: `cptr` is the list that `p_cptr` and
the sibling pointers make, youngest first, and `next` the ring of the threads of
a group. A function of the C code is an operator from `task` to `task`. Fork is
one step, from the assignment of the parents on, since what comes before is
private to the new task; exit is two, because much of it may sleep; wait4 is a
pass over the children that ends in a result, in sleep, or in the state where
the status is being written to user memory. Of exec there is what concerns the
tree: the end of vfork, and leaving the group.

Whether an exiting process keeps an exit signal other than SIGCHLD depends on
exec ids and a capability, and is left open. A task in user mode handles a
signal before its next call, so signals matter only to tasks in wait4. The
program that init runs calls fork and waits for any child; the kernel threads that
the kernel starts before, some of them without an exit signal, never exit and are
left out. A process that has begun to exit can be traced until it is a zombie,
which is later than `task->mm` allows. Not modelled: stopped processes and what
`ptrace` does with them (attach and detach only move the process), job control,
the selection of children by process group, `pdeath_signal`, `CLONE_PTRACE`.

Situations: `exec_in_group` (a thread with siblings calls execve),
`trace_clone` (a process whose exit signal is not SIGCHLD is traced),
`clone_for_init` (a child of init makes a sibling with another exit signal),
`status_faults` (writing the status sleeps in a process with threads). The first
makes `Rooted` fail (when the parent of the thread exits, the thread is given to
one that it has created itself, and the two are parents of each other), the
others `NoDeathMissed`, `InitCanReap` and `NotReleasedTwice`.

### Process numbers

`get_pid()` is one step where it takes the next number, and otherwise a loop with
one action per task looked at, in any order; nothing else runs during the loop.
`pending[p]` is the number that p has for its child until the child is linked, and
`copied[p]` the group and session that `*p = *current` copied before `get_pid()`.
Failure of any later part of the fork loses the number.

Situations: `exhausted` (every number is in use), `wrap_while_forking` (the
numbers start again while a fork is between `get_pid()` and the list), and
`regroup_while_forking` (`setpgid()` moves a process that is there, so that its
child enters the list with the old group). With the last one pids stay unique,
but `GapIsFree` and `FreshPid` fail; with the others `PidsUnique` fails too: a
search that ends at `nomorepids` leaves `next_safe` at `PID_MAX`, and the next fork
takes the number after `last_pid` without looking. `GetPidReturns` holds with each
of them.

### The wand calls

Only legilimens sleeps between two uses of another process's data, so it is two
actions. Memory that was freed may hold any secret or `JUNK`, and following a
pointer from it may break the kernel (`broken`). A pointer to a task struct that
is gone is `FREED`. `robbed` is a history
variable: who has stolen whose secret. A world has a limit for the number of the
user's processes and some of the situations `dead_target`, `same_secret`,
`secret_changes` (a thread changes the secret during get_wand), `long_secret`
(no terminator in the buffer), `bad_pointer` (a process passes an address that is
not its own memory) and `no_list_head` (no memory for the list of a child).

`sys_magic_get_wand()` reads the secret where it is in the user's memory, and
`sys_magic_list_secrets()` writes its padding there (`magic_all.c:64`, `75`, `91`,
`95`, `333`), so a bad address breaks the kernel in these places, while
`copy_to_user()` returns an error. `BreaksOnlyThen` says that the wand calls break
the kernel in no other case than these, a secret that changes or does not end, and
a target that has exited: no order of calls, forks and exits, and no failing
allocation, does it.

### The device

A buffer is a member of `Bufs` and `heap` says what it holds, one place more
than the string has, or that it is free. `call` holds the locals of a call that
sleeps. Reading beyond or through a freed or null buffer sets `broken`, and so
does the loop of `my_read()` that never ends. A world has the minors in use, a
bound on the total of the writes, and some of the situations `overlap` (a string
is set or reset while another process sets or reads it), `read_without_string`,
`bad_pointer` (SET_STRING looks for the end of its string by reading the user's
memory directly, after it has freed the old string; `repeated.c:255`) and
`rmmod_in_use` (the module is removed while files are open; a later call on
one of them breaks the kernel). Each process has at most one open file. Calls
that return an error at once change nothing and have no action.

`RepeatedDevice` says it without buffers: a read delivers
`Repeated(string, position, n)`, n being what the call asks for, up to the size
found when it began; a write adds exactly its count to the size; a seek goes to
the place between 0 and the size that is nearest to the position plus the shift;
SET_STRING has two steps, between which the minor has no string, and ends with the
string that it was called with, or fails and leaves none. A process has one
operation at a time.

## Runs

Passing runs:

| run | shows | instance |
|---|---|---|
| `sched_stress` | exclusive CPU, agreement of the globals, idle only while magic sleeps, bitmaps, counters, the invariant of the proof; with all situations but `cancel_same_jiffy` | 2 tasks, timeslice 2, word 5, calls for 0 and 2 jiffies; 1.9 million states |
| `sched_calm` | no oops, full consistency of the queue, runnable = queued, timer within the request, priority raised and restored with magic; without those situations | the same with 2 user priorities; 1.1 million states |
| `sched_live` | magic ends; a woken magic process returns | 2 tasks, timeslice 1 |
| `time_share` | the best active task runs; distant nice levels keep their order; yield gives way; no queued task starves | 3 tasks that yield, or 2 with two nice values, or 2 with real-time policies; 340 thousand states |
| `proc_tree` | links agree, parents are alive, no circle, no death missed, vfork's completion, no double release, init can reap | init and 3 tasks, 3 forks, 5 kinds of clone, waiting for clones or others; 330 thousand states |
| `pid_alloc` | fresh and unique numbers, `get_pid()` returns, the invariant of the proof, which says what `next_safe` promises | 3 tasks, numbers 1 to 5, 2 to 5 after the first round; 480 thousand states |
| `rep_device` | the driver implements the device; every call returns | 2 processes, 1 minor, 2 buffers, strings of 0 to 2 letters, size up to 3; 480 thousand states |
| `rep_safety` | no broken pointer, buffers have one owner, no string no size, minors are independent | 2 processes, 3 buffers; 2 minors with care, 1 minor with all situations, 1 with `rmmod_in_use` alone; 3.6 million states |
| `wand` | lists tell robberies, nothing twice, listings stay true, what breaks the kernel, processes are counted, death is final | 3 processes, 3 secrets, powers -1 and 1, ints of 4 values, arrays of 1 and 2 places, four worlds; 2.1 million states |

The types are checked as a part of `Inductive` (magic clock, process numbers),
`LinksAgree`, `HeapOwned` and `ProcessesCounted`, and on their own in
`time_share`.

Two tasks and the idle task are enough for one magic process, one competitor
(which can also be its parent or child) and every flag; a timeslice of 2 lets a
task be at its last jiffy or not; the durations 0 and 2 cancel magic and let it
be interrupted between two ticks, and with `Word` = 5 neither is negative as an
int (3 and 4 are; see the known disagreements). An array of one place is shorter
than some lists, one of two places longer than others, so that the padding is
there and absent. Two processes are enough for an overlap in the driver, and a
string of two different letters for an order and a wrap-around. With three
processes one can rob two others, and a pid can be reused while the other two
go on.

In `time_share` the nice values -20 and 0 are far enough apart for `NiceWins` (the
distance of exactly ten levels is left to the proof); the
sleep average of 2 reaches all of bonus -5, 0 and +5, so that tasks become
interactive and cease to be; a timeslice is 1 or 2; `STARVATION_LIMIT` = 1 lets
the limit be reached. In `proc_tree` three tasks are a parent with two threads or
children, or a process, its child and a tracer; three forks create all of them,
or one of them again after its end. In `pid_alloc` groups and sessions
outlive their leaders while four numbers are used round and round. That a free
number is left is assumed there: `max_threads` (a sixteenth of the pages of
memory) keeps four numbers per task within `PID_MAX` on a machine with 512 MB or
less.

Deadlock is not checked where the model may stop: after an oops or a break, and
when all processes of `Wand` have exited.

What the properties of `time_share` exclude is there: with `nice_another` the
better task waits for the next tick or call (`sched.c:1262`); with `setscheduler`
likewise; and a task in the expired array can wait for ever while other tasks
sleep and wake, because only expiring tasks look at `EXPIRED_STARVING`.

Runs that end with a violation show a comment or an assertion that the code
does not keep. The findings in `PROJECT.json` quote the line.

| run | the code |
|---|---|
| `v_slice` | leaves a timeslice of 0 after magic, which the tick that ends the magic wraps around |
| `v_read_spins` | loops for ever in a read without a string |
| `v_steal_exits` | reads the secret of a process after it was freed |

Known disagreements that the models contain but no run is devoted to:

* `fork.c:745`, `if (!current->time_slice) BUG();`: met by a process that forks
  with the timeslice of 0 of `v_slice` (situation `fork_without_slice`, without
  which `NoOops` holds);
* `sched.c:770`, "Called when a magic process calls sys_magic_clock more than
  once. Updates timer": not for a second call in the same jiffy (situation
  `recall_same_jiffy`, without which `TimerWithinRequest` holds);
* `sched.c:371`, 'The "current" process is always on the run-queue': not after
  an uninterruptible sleep with magic time (situation `uninterruptible`, without
  which `RunnableIffQueued` holds);
* `magic_all.c:355`, 'exclusive CPU access for "seconds" seconds': a request in
  the upper half of the unsigned range becomes a negative `MAGICTIME`, which is
  never counted down, and the magic does not end (`MagicEnds` with `Seconds` =
  {3}); a fork with one jiffy left in the timeslice takes a jiffy of magic away;
* `exit.c:571`, "when current->state = ZOMBIE, schedule() never returns": a
  process that exits after `sys_magic_clock()`, before `schedule()` has seen the
  call, falls through to `start_magic()`, whose `dequeue_task()` follows the null
  array of the zombie (situation `exit_before_start`);
* `sched.h:178`, "SCHED_OTHER tasks are in the range MAX_RT_PRIO..MAX_PRIO-1":
  not the child of a magic process, which keeps priority 50;
* `sched.c:1259`, "or increased its priority then reschedule its CPU": the
  comparison comes after the assignment, so only `current` is rescheduled;
* `sched.c:109`, "the possible -5 ... 0 ... +5 dynamic priority range a task can
  explore": `sched_yield()` gives the caller the priority of the next list, which
  may be far below (so `NiceWins` is about worlds without yield);
* `sched.c:104`, the row of nice -10 in the table of `TASK_INTERACTIVE`: the
  division towards zero makes six of the eleven values interactive, not seven;
* `repeated.c:193`, "updates max_size to max_size+count": wraps around as an int;
* `repeated.c:238`, "kmalloc is (string_size + 1)": not after two overlapping
  SET_STRINGs, which can leave the buffer of one and the size of the other;
* `magic_all.c:196`, "Secret for pid was already read": also returned when
  another process's equal secret was read (situation `same_secret`).

### Fairness

`time_share` assumes that the timer interrupt keeps coming and that a set
`need_resched` is looked at on the way to user mode or in the idle loop (weak
fairness of both). Nothing is assumed of the tasks, so `NoStarvation` has the
premise that wakeups and calls of `setscheduler()` cease, and that no real-time
task stands in the way. `pid_alloc` assumes that the loop of `get_pid()` goes on,
which has the CPU to itself.
`sched_live` assumes that the timer interrupt keeps coming (strong fairness,
because without `tick_before_resched` it is not enabled in every state) and
that a process that must call `schedule()`, or the idle loop, which calls it
after every interrupt, does so. Nothing is assumed of processes otherwise, so
`MagicEnds` has the premise that calls of `sys_magic_clock()` stop.
`rep_device` assumes that a process inside a driver function goes on: `kmalloc()`
and accesses to user memory return.

## Proofs

Every theorem holds for all values of the constants that satisfy the `ASSUME` of
its module, which TLC evaluates in the runs: any finite set of tasks or
processes, any sets of priorities, strings, sizes and flags. Where a theorem
excludes situations, its statement says so, with an `ASSUME` on `Stress` or, for
the modules with worlds, inside the property. Each proof has the same plan: an
invariant that one step keeps, a lemma for each C function that says what the
function changes (its effect), a lemma for each action, and the properties from
the invariant.

### The magic clock

`SchedProofs` proves, for every finite set of tasks, every set of user
priorities, durations and word size that satisfy the assumptions of `RunQueue`
and `MagicSched`:

| theorem | states |
|---|---|
| `TypeCorrect` | `Spec => []TypeOK` |
| `ExclusiveCPUHolds` | `Spec => []ExclusiveCPU` |
| `MagicGlobalsAgreeHold` | `Spec => []MagicGlobalsAgree` |
| `IdleWhileAsleepHolds` | `Spec => []IdleWhileAsleep` |
| `InductiveHolds` | `Spec => []Inductive`, from which the others follow |

all under the assumption that `cancel_same_jiffy` is not in `Stress`. The other
five situations may be.

None of the three invariants is inductive. `schedule()` starts magic for
`current` when `magic_time > 0` and `started_magic = 0`, so one must know that
such a task is `current` and no other (`PendingIsCurrent`). It switches to
`magicProcess` without looking at the queue, so with a magic process that has
cancelled (`magic_time = 0`) one must know that the call has not been seen yet
and `update_magic()` is going to end the magic first (in `SomeMagic`): this is
where `cancel_same_jiffy` is excluded. An ordinary switch chooses any queued
task, which must not be dead (`DeadNotQueued`) or the idle task (`IdleInert`).
`NoMagic` and `SomeMagic` fix the values of the globals in the two phases.

The invariant is a predicate `SchedInv(s)` of any scheduling state, so that each
C function has a lemma of its own about what it keeps, cited by the actions
that call it: `DequeueKeeps`, `StartMagicKeeps`, `ExitMagicInv`,
`SchedulerTickInv`, `ScheduleInv` and so on; then one lemma per action and
`StepInv`.

### Process numbers

`PidProofs` proves, for every set of tasks, every `PidMax`, `Daemons` and
`MaxThreads` that satisfy `PidAssumption`, and under the assumption that `Stress`
is empty:

| theorem | states |
|---|---|
| `AllocatorInvariant` | `Spec => []Inductive` |
| `PidsAreUnique` | `Spec => []PidsUnique` |
| `NextSafeIsSafe` | `Spec => []GapIsFree` |
| `NewPidsAreFresh` | `Spec => FreshPid` |

`GapIsFree` is not inductive: a number handed out and not yet visible could enter
the list ahead of `last_pid`. `Inductive` adds that all such numbers are at or
behind `last_pid` (behind `beginpid` during the loop), that what a fork has copied is
still its parent's group and session, and where the loop stands: the tasks looked
at have no number from `last_pid` to `next_safe` (`Scanning`), and there is a free
number ahead of `last_pid`, or the numbers will start again or have, with no fork
pending, and there is one before `beginpid` (`WillFind`). So the loop never comes
to `nomorepids`, and at its end `last_pid` is in use by nobody, seen or unseen.
Each action has a lemma; the changes of the list outside `get_pid()` share
`ListChangeKeeps`.

### The run queue

The end of `SchedProofs` and the first part of `QueueProofs`, under the same
assumption:

| theorem | states |
|---|---|
| `QueueInvariantHolds` | `Spec => []QueueInvariant`, that is `Inductive` and `Visible(k)` |
| `QueueVisibleHolds` | `Spec => []QueueVisible` |
| `PriorityFollowsMagicHolds` | `Spec => PriorityFollowsMagic` |

A magic process that is linked on list 50 may get priority 130 without being
requeued, so one cannot say that a task is on the list of its priority.
`Visible` says what is left: the bit of the list that a queued task is *linked
on* is set, counters count, and a task with a real-time priority is on the list
of that priority. Every C function either moves one task (`Moved`: off its list,
perhaps onto another, with the changes of bitmap and counters) or none
(`SameQueue`), and both keep `Visible`.

The second part of `QueueProofs` assumes `Stress = {}`:

| theorem | states |
|---|---|
| `CalmInvariantHolds` | `Spec => []CalmInvariant` |
| `NoOopsHolds` | `Spec => []NoOops` |
| `QueueConsistentHolds` | `Spec => []QueueConsistent` |
| `RunnableIffQueuedHolds` | `Spec => []RunnableIffQueued` |
| `TimerWithinRequestHolds` | `Spec => TimerWithinRequest` |

These four depend on one another: that no null array is followed needs that
runnable tasks are queued, which needs that `schedule()` knows the magic process
when it takes a sleeper off the queue. `Calm` joins them, and adds that no call
of a sleeping magic process waits to be seen (`SleeperSeen`), that a seen call
bounds the timer (`TimerBounded`), and that only an interruptible sleeper, or the
magic process as it exits, brings magic time into `schedule()` (`PlainSleep`).

### Time sharing

`TimeProofs`, in every world:

| theorem | states |
|---|---|
| `TimeInvariantHolds` | `Spec => []TimeInvariant` |
| `TimeTypeHolds` | `Spec => []TypeOK`, the order of both arrays included |
| `BestRunsHolds` | `Spec => []BestRuns` |
| `NiceWinsHolds` | `Spec => []NiceWins` |
| `YieldGivesWayHolds` | `Spec => YieldGivesWay` |

The invariant says that both arrays are ordered by priority, without repetition
and disjoint, that every task's priority fits its policy, and that the running
task is queued (`Balanced`); without yield, that every dynamic priority is within
5 of the nice level (`AllNear`, from which `NiceWins` follows by arithmetic on the
macros); without nice of others and `setscheduler()`, that the best task runs or
`need_resched` is set (`Served`). The work is in `list_del` and `list_add` at the
places that `first` and `behind` count out: `DelPlaces` and `AddPlaces` say which
task is where afterwards.

### The process tree

`TreeLemmas` and `TreeProofs`, for any finite set of tasks:

| theorem | states | assumes |
|---|---|---|
| `TreeInvariantHolds` | `Spec => []TreeInvariant` | |
| `LinksAgreeHolds` | `Spec => []LinksAgree` | |
| `ParentsAliveHolds` | `Spec => []ParentsAlive` | |
| `CompletionOnStackHolds` | `Spec => []CompletionOnStack` | |
| `NoDeathMissedHolds` | `Spec => []NoDeathMissed` | `trace_clone` not in `Stress` |
| `NotReleasedTwiceHolds` | `Spec => []NotReleasedTwice` | `status_faults` not in `Stress` |
| `InitCanReapHolds` | `Spec => []InitCanReap` | `clone_for_init` not in `Stress` |

`TreeInvariant` says that every task is in the list of its `p_pptr` exactly once
(`Lists`), that `next` is a permutation of the tasks (`Rings`), with free ones
alone, what state goes with what place in the code (`Phases`), that
parents live (`Parents`), and who points to whose completion (`Completions`). To
it come, each with its situation, that orphans of init and traced tasks report
by SIGCHLD (`Orphans`, `Traced`), that no sleeper in wait4 overlooks a dead child
(`Heard`), and that a child whose status is being written stays (`PinnedFor`).
`NoDeathMissed` needs `Traced`: `forget_original_parent()` changes the exit signal
of a dead child whose tracer sleeps in wait4, and with it who may wait for the
child, but wakes nobody.

`next_thread()` is followed at most as many times as there are tasks. That this
reaches all of a ring, and comes back, is proved without induction, by the least
number for which it would fail (`LeastNumber`); the same argument serves the loop
of `exit_notify()` over the children.

### The wand calls

`WandProofs`, in every world:

| theorem | states |
|---|---|
| `WandInvariant` | `Spec => []WandInv` |
| `ProcessesAreCounted` | `Spec => []ProcessesCounted` |
| `NoSecretIsStolenTwice` | `Spec => []NoSecretTwice` |
| `RobberiesAreTold` | `Spec => []ListsTellRobberies` |
| `ListingsStayTrue` | `Spec => []ListingStaysTrue` |
| `NothingElseBreaks` | `Spec => []BreaksOnlyThen` |
| `DeathStaysFinal` | `Spec => DeathIsFinal` |
| `StolenFromLiveTargets` | `Spec /\ ~Produces("dead_target") => StolenIsTargets` |

The last one is the counterpart of `v_steal_exits`: the situation of that run is
the only one in which legilimens stores anything but its target's secret. The
invariant carries the test that legilimens makes before it sleeps over to the
copy: the target of a sleeping call lives, has its wand, and its secret is not in
the caller's list yet (`Targets`); nobody but the caller appends to that list.
The worlds without `same_secret` have different secrets (`Distinct`), so that
comparing strings finds robberies. What a listing told is a prefix of the list,
padded (`Told`).

### The device

`DriverProofs`:

| theorem | states |
|---|---|
| `DriverInvariant` | `Spec => []DriverInv` |
| `NothingBreaks` | `Spec => []NotBroken` |
| `BuffersOwned` | `Spec => []HeapOwned` |
| `NoStringNoSizeHolds` | `Spec => []NoStringNoSize` |
| `MinorsAreIndependent` | `Spec => MinorsIndependent` |
| `DriverImplementsDevice` | `Spec /\ world.stress = {} => ImplementsDevice`, if `2 * MaxSize < IntWord` |

Without overlap nobody works on a string that another process is setting
(`Exclusive`), a SET_STRING that sleeps finds its minor as it left it (`Setters`),
and buffers in use and minors with a string belong to each other (`Owners`).
Without any situation, moreover, the buffer has the size that the minor claims
(`Sized`) and a read has the pointer and the size that the minor still has
(`Readers`); hence nothing breaks. The refinement needs two more facts: sizes and
positions are below the limit at which an int wraps around (`Bounded`, the reason
for the assumption on `MaxSize`), and a read that sleeps has so far delivered
`Repeated` of its string (`Progress`). Then each step of the driver is shown to be
one of the device or a stutter; the last byte of a read is the step at which the
device delivers all of it, and the copy, or the failure to allocate or to copy,
that at which it has the string or none.

### Only model-checked

Liveness under fairness is out of the prover's reach: `MagicEnds`,
`WokenMagicReturns`, `NoStarvation`, `GetPidReturns` and `CallsReturn` stay with
TLC. So does `Rooted` of the process tree. That there is no circle of parents
after an exit depends on the order of the ring: a new thread stands right behind
its creator, so a thread between an exiting one and its reaper is exiting too.
The proof would need an invariant that relates the order of all rings to paths of
parents of any length, and induction over those paths.

## Not modelled

* Multiprocessor code (not configured); `sched_old.c` and the version with
  traces; the first homework's earlier copies; tests.
* The user-space wrappers and `entry.S`: they pass arguments on and have no state.
* The stock kernel beyond the functions that the modified files work with.
* Of the process tree: stops and job control, as said above, and of `fork.c`,
  `exit.c` and `exec.c` the copying and freeing of address spaces, files and
  signal handlers, which the homeworks leave alone.
* Of the scheduler: `setscheduler()` during magic, the weights `CHILD_PENALTY` and
  `EXIT_WEIGHT` on the sleep average, CPU affinity, the inner structure of wait
  queues.
* Of the device: a file shared between processes.

## Plan

1. Prove more: `Rooted` of `ProcTree` without `exec_in_group`, from an invariant on
   the order of the threads in a ring.
2. Extend: `setscheduler()` in `MagicSched`; a file shared by two processes in
   `RepeatedDriver`; stopped processes in `ProcTree`; `TimeSharing` as a
   refinement of `RunQueue`.
