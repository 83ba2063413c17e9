--------------------------- MODULE RepeatedDriver ---------------------------
(***************************************************************************)
(* The character device driver of the third homework, repeated.c.  The     *)
(* kernel does not preempt, so a driver function runs alone except where   *)
(* it may sleep: in kmalloc() and wherever it touches user memory.  An     *)
(* action is the code between two such points.                             *)
(*                                                                         *)
(* Each process has at most one open file.  A string is a sequence of      *)
(* characters; an allocated buffer holds one place more, for the           *)
(* terminator.                                                             *)
(***************************************************************************)
EXTENDS Integers, Sequences, FiniteSets

CONSTANTS
    Procs,      \* the processes that use the device
    Minors,     \* the minor numbers
    Bufs,       \* the memory kmalloc() can hand out
    NULL,
    Chars,      \* the characters of strings
    Strings,    \* the strings given to SET_STRING
    Counts,     \* the counts given to read() and write()
    Shifts,     \* the offsets given to llseek()
    MaxSize,    \* bound on the sizes below
    IntWord,    \* number of values of an int
    Worlds      \* the environments considered

\* Uses that the driver does not guard against.
Situations == {
    "overlap",             \* a string is set or reset while another process sets or reads it
    "read_without_string", \* a minor is read that has no string, or an empty one
    "bad_pointer",         \* SET_STRING is given an address that is not the caller's memory
    "rmmod_in_use"}        \* the module is removed while a file is open

JUNK == "junk"  \* what a new buffer holds

NUL == "nul"    \* the terminator

Bytes == Chars \cup {JUNK, NUL}

\* A world is what processes produce of these, with the minors they use and a
\* bound: writes stop when max_size would exceed it.

ASSUME DriverAssumption ==
    /\ NULL \notin Procs \cup Minors \cup Bufs \cup Seq(Bytes)
    /\ Strings \subseteq Seq(Chars)
    /\ Counts \subseteq Nat /\ Shifts \subseteq Int
    /\ MaxSize \in Nat /\ IntWord \in Nat \ {0}
    /\ Worlds \subseteq
         [stress : SUBSET Situations, minors : SUBSET Minors, size : 0 .. MaxSize]

VARIABLES
    loaded,     \* is the module inserted?
    OurData,    \* the driver's data, by minor
    heap,       \* what each buffer holds, NULL when it is free
    filp,       \* the open file of each process
    call,       \* what each process is doing in the driver
    broken,     \* the kernel followed a bad pointer, or loops for ever
    world       \* the environment

vars == <<loaded, OurData, heap, filp, call, broken, world>>

\* The value an int has after n is stored in it.
Int32(n) == LET u == n % IntWord IN IF 2 * u < IntWord THEN u ELSE u - IntWord

\* A minor before its first use.
Fresh == [flag |-> 0, module_string |-> NULL, max_size |-> 0, string_size |-> 0]

Closed == [private_data |-> NULL, f_pos |-> 0, got |-> <<>>]

Idle == [pc |-> "idle"]

Init ==
    /\ loaded = FALSE
    /\ OurData = [m \in Minors |-> Fresh]
    /\ heap = [b \in Bufs |-> NULL]
    /\ filp = [p \in Procs |-> Closed]
    /\ call = [p \in Procs |-> Idle]
    /\ broken = FALSE
    /\ world \in Worlds

Produces(situation) == situation \in world.stress

kfree(h, b) == IF b = NULL THEN h ELSE [h EXCEPT ![b] = NULL]

\* Nothing more is said about a broken kernel.
Break == broken' = TRUE /\ UNCHANGED <<loaded, OurData, heap, filp, call, world>>

\* The minor that p's file stands for.
curr_minor(p) == filp[p].private_data

\* p is about to enter the driver by one of its file operations.
Enters(p) == loaded /\ ~broken /\ call[p] = Idle /\ curr_minor(p) # NULL

\* The other processes inside a function of p's minor.
Others(p, pcs) == {q \in Procs \ {p} : curr_minor(q) = curr_minor(p) /\ call[q].pc \in pcs}

\* insmod.  A file of a module that is gone is not open any more by then.
init_module ==
    /\ ~loaded /\ ~broken
    /\ \A p \in Procs : filp[p] = Closed
    /\ loaded' = TRUE
    /\ OurData' = [m \in Minors |-> Fresh]
    /\ UNCHANGED <<heap, filp, call, broken, world>>

\* rmmod.  my_open() does not raise the module's use count, so nothing but the
\* administrator's care keeps the module while a file is open.
cleanup_module ==
    /\ loaded /\ ~broken
    /\ Produces("rmmod_in_use") \/ \A p \in Procs : filp[p] = Closed
    /\ loaded' = FALSE
    /\ heap' = [b \in Bufs |-> IF \E m \in Minors : OurData[m].module_string = b
                              THEN NULL ELSE heap[b]]
    /\ UNCHANGED <<OurData, filp, call, broken, world>>

\* A file operation, or the return into one, after the module is gone.
call_unloaded(p) ==
    /\ ~loaded /\ ~broken
    /\ filp[p] # Closed
    /\ Break

\* The kmalloc() of the minor number fails, or the file is open.
my_open(p, m) ==
    /\ loaded /\ ~broken
    /\ filp[p] = Closed /\ m \in world.minors
    /\ OurData' = [OurData EXCEPT ![m].flag = 1]
    /\ \/ UNCHANGED filp
       \/ filp' = [filp EXCEPT ![p] = [private_data |-> m, f_pos |-> 0, got |-> <<>>]]
    /\ UNCHANGED <<loaded, heap, call, broken, world>>

my_release(p) ==
    /\ Enters(p)
    /\ filp' = [filp EXCEPT ![p] = Closed]
    /\ UNCHANGED <<loaded, OurData, heap, call, broken, world>>

-----------------------------------------------------------------------------
(* read()                                                                    *)

\* The locals of my_read() when it enters its loop.
reading(p, count) ==
    LET d == OurData[curr_minor(p)]
    IN  [pc |-> "read",
         module_string |-> d.module_string,
         string_size |-> d.string_size,
         allowed_bytes |-> Int32(d.max_size - filp[p].f_pos),
         count |-> count,
         string_pos |-> filp[p].f_pos % d.string_size,
         out |-> <<>>]

\* The loop that reduces the position never ends when string_size = 0, and the
\* processor is never given up.
spin(p) ==
    /\ call' = [call EXCEPT ![p] = [pc |-> "spin"]]
    /\ broken' = TRUE
    /\ UNCHANGED <<loaded, OurData, heap, filp, world>>

\* Entry of my_read(), up to the first copy_to_user().
my_read(p, count) ==
    LET d == OurData[curr_minor(p)]
    IN  /\ Enters(p)
        /\ \/ Produces("overlap")
           \/ Others(p, {"set", "copy"}) = {}
        /\ \/ Produces("read_without_string")
           \/ d.string_size > 0
        /\ IF d.string_size = 0 THEN spin(p)
           ELSE /\ IF reading(p, count).allowed_bytes > 0 /\ count > 0
                   THEN /\ call' = [call EXCEPT ![p] = reading(p, count)]
                        /\ UNCHANGED filp
                   ELSE /\ filp' = [filp EXCEPT ![p].got = <<>>]
                        /\ UNCHANGED call
                /\ UNCHANGED <<loaded, OurData, heap, broken, world>>

\* The end of my_read(): the bytes are out and the position moves on.
read_return(p, out) ==
    /\ filp' = [filp EXCEPT ![p].f_pos = @ + Len(out), ![p].got = out]
    /\ call' = [call EXCEPT ![p] = Idle]

\* Mutant: the position goes one place too far before it wraps.
M_next_pos_late(c) == IF c.string_pos + 1 > c.string_size THEN 0 ELSE c.string_pos + 1

\* Where the loop goes on in the string.
next_pos(c) == IF c.string_pos + 1 >= c.string_size THEN 0 ELSE c.string_pos + 1

\* One round of the loop: a byte goes out, or the copy fails.
copy_byte(p) ==
    LET c == call[p]
        out == Append(c.out, heap[c.module_string][c.string_pos + 1])
    IN  /\ loaded /\ ~broken
        /\ c.pc = "read"
        /\ IF \/ c.module_string = NULL
              \/ heap[c.module_string] = NULL
              \/ c.string_pos >= Len(heap[c.module_string])
           THEN Break
           ELSE /\ \/ /\ Len(out) < c.allowed_bytes /\ Len(out) < c.count
                      /\ call' = [call EXCEPT ![p].out = out, ![p].string_pos = next_pos(c)]
                      /\ UNCHANGED filp
                   \/ /\ Len(out) = c.allowed_bytes \/ Len(out) = c.count
                      /\ read_return(p, out)
                   \/ /\ call' = [call EXCEPT ![p] = Idle]
                      /\ UNCHANGED filp
                /\ UNCHANGED <<loaded, OurData, heap, broken, world>>

-----------------------------------------------------------------------------
my_write(p, count) ==
    LET m == curr_minor(p)
    IN  /\ Enters(p)
        /\ OurData[m].max_size + count <= world.size
        /\ OurData' = [OurData EXCEPT ![m].max_size = Int32(@ + count)]
        /\ UNCHANGED <<loaded, heap, filp, call, broken, world>>

my_llseek(p, shift) ==
    LET max == OurData[curr_minor(p)].max_size
        new == filp[p].f_pos + shift
        top == IF new >= max THEN max ELSE new
    IN  /\ Enters(p)
        /\ filp' = [filp EXCEPT ![p].f_pos = IF top <= 0 THEN 0 ELSE top]
        /\ UNCHANGED <<loaded, OurData, heap, call, broken, world>>

-----------------------------------------------------------------------------
(* ioctl()                                                                   *)

\* Mutant: the string is not freed.
M_reset_leaks(p) ==
    /\ Enters(p)
    /\ OurData' = [OurData EXCEPT ![curr_minor(p)] = [Fresh EXCEPT !.flag = 1]]
    /\ UNCHANGED <<loaded, heap, filp, call, broken, world>>

\* Mutant: all minors are reset.
M_reset_all_minors(p) ==
    /\ Enters(p)
    /\ OurData' = [m \in Minors |-> Fresh]
    /\ heap' = [b \in Bufs |-> NULL]
    /\ UNCHANGED <<loaded, filp, call, broken, world>>

reset(p) ==
    LET m == curr_minor(p)
    IN  /\ Enters(p)
        /\ \/ Produces("overlap")
           \/ Others(p, {"read", "set", "copy"}) = {}
        /\ OurData' = [OurData EXCEPT ![m].max_size = 0,
                                      ![m].string_size = 0,
                                      ![m].module_string = NULL]
        /\ heap' = kfree(heap, OurData[m].module_string)
        /\ UNCHANGED <<loaded, filp, call, broken, world>>

\* Mutant: string_size is not reset.
M_no_string_keeps_size(d) == [d EXCEPT !.module_string = NULL]

\* What a SET_STRING that fails leaves of its minor.
no_string(d) == [d EXCEPT !.module_string = NULL, !.string_size = 0]

\* Mutant: no place for the terminator.
M_kmalloc_exact(s) == [i \in 1 .. Len(s) |-> JUNK]

\* The new buffer for a string s.
kmalloc(s) == [i \in 1 .. Len(s) + 1 |-> JUNK]

\* SET_STRING up to the first byte of the user's string.
set_string(p, s) ==
    LET m == curr_minor(p)
    IN  /\ Enters(p)
        /\ \/ Produces("overlap")
           \/ Others(p, {"read", "set", "copy"}) = {}
        /\ heap' = kfree(heap, OurData[m].module_string)
        /\ OurData' = [OurData EXCEPT ![m].module_string = NULL]
        /\ call' = [call EXCEPT ![p] = [pc |-> "set", new_string |-> s]]
        /\ UNCHANGED <<loaded, filp, broken, world>>

\* The loop that looks for the end of the new string reads the user's memory
\* directly and meets an address where there is none.  The old string is gone
\* by then, but string_size is not.
set_string_fault(p) ==
    /\ loaded /\ ~broken
    /\ call[p].pc = "set"
    /\ Produces("bad_pointer")
    /\ Break

\* The string has been scanned and kmalloc() returns.
set_string_alloc(p) ==
    LET m == curr_minor(p)
        s == call[p].new_string
        free == {b \in Bufs : heap[b] = NULL}
    IN  /\ loaded /\ ~broken
        /\ call[p].pc = "set"
        /\ \/ \E b \in free :
                 /\ heap' = [heap EXCEPT ![b] = kmalloc(s)]
                 /\ OurData' = [OurData EXCEPT ![m].module_string = b]
                 /\ call' = [call EXCEPT ![p] = [pc |-> "copy", new_string |-> s, to |-> b]]
           \/ /\ OurData' = [OurData EXCEPT ![m] = no_string(@)]
              /\ call' = [call EXCEPT ![p] = Idle]
              /\ UNCHANGED heap
        /\ UNCHANGED <<loaded, filp, broken, world>>

\* copy_from_user() returns.  The pointer is read again from OurData.
set_string_copy(p) ==
    LET m == curr_minor(p)
        s == call[p].new_string
        to == call[p].to
        b == OurData[m].module_string
        copied == [heap EXCEPT ![to] = [i \in DOMAIN @ |-> IF i <= Len(s) THEN s[i] ELSE @[i]]]
    IN  /\ loaded /\ ~broken
        /\ call[p].pc = "copy"
        /\ \/ IF \/ heap[to] = NULL \/ Len(heap[to]) < Len(s)
                 \/ b = NULL \/ heap[b] = NULL \/ Len(heap[b]) < Len(s) + 1
              THEN Break
              ELSE /\ heap' = [copied EXCEPT ![b][Len(s) + 1] = NUL]
                   /\ OurData' = [OurData EXCEPT ![m].string_size = Len(s)]
                   /\ call' = [call EXCEPT ![p] = Idle]
                   /\ UNCHANGED <<loaded, filp, broken, world>>
           \/ /\ heap' = kfree(heap, b)
              /\ OurData' = [OurData EXCEPT ![m] = no_string(@)]
              /\ call' = [call EXCEPT ![p] = Idle]
              /\ UNCHANGED <<loaded, filp, broken, world>>

Step(p) == copy_byte(p) \/ set_string_alloc(p) \/ set_string_copy(p)

Next ==
    \/ init_module
    \/ cleanup_module
    \/ \E p \in Procs :
         \/ \E m \in Minors : my_open(p, m)
         \/ my_release(p)
         \/ call_unloaded(p)
         \/ set_string_fault(p)
         \/ \E count \in Counts : my_read(p, count)
         \/ \E count \in Counts : my_write(p, count)
         \/ \E shift \in Shifts : my_llseek(p, shift)
         \/ reset(p)
         \/ \E s \in Strings : set_string(p, s)
         \/ Step(p)

Spec == Init /\ [][Next]_vars

\* A process inside the driver goes on.
FairSpec == Spec /\ \A p \in Procs : WF_vars(Step(p))

-----------------------------------------------------------------------------
Datas == [flag : {0, 1}, module_string : Bufs \cup {NULL}, max_size : Int, string_size : Nat]

Files == [private_data : Minors \cup {NULL}, f_pos : Nat, got : Seq(Bytes)]

Reading == [pc : {"read"}, module_string : Bufs \cup {NULL}, string_size : Nat,
            allowed_bytes : Int, count : Counts, string_pos : Nat, out : Seq(Bytes)]

SettingString == [pc : {"set"}, new_string : Strings]

CopyingString == [pc : {"copy"}, new_string : Strings, to : Bufs]

TypeOK ==
    /\ loaded \in BOOLEAN /\ broken \in BOOLEAN /\ world \in Worlds
    /\ OurData \in [Minors -> Datas]
    /\ heap \in [Bufs -> {NULL} \cup Seq(Bytes)]
    /\ filp \in [Procs -> Files]
    /\ call \in [Procs -> {Idle, [pc |-> "spin"]} \cup Reading \cup SettingString \cup CopyingString]

\* A SET_STRING of minor m is under way.
Setting(m) == \E p \in Procs : curr_minor(p) = m /\ call[p].pc \in {"set", "copy"}

\* No driver function follows a null pointer, touches freed memory or the
\* place behind a buffer, or loops for ever, as long as processes do not
\* overlap, read what has no string, pass a bad address, or lose the module.
NotBroken == broken => world.stress # {}

\* Every buffer in use is the string of exactly one minor: none is leaked and
\* none is shared, also after rmmod and after a SET_STRING that failed.  Only
\* two SET_STRINGs of one minor at a time may lose one.  All variables have
\* their types.
HeapOwned ==
    LET owned == {m \in Minors : loaded /\ OurData[m].module_string # NULL}
    IN  /\ TypeOK
        /\ ~Produces("overlap") =>
              /\ {b \in Bufs : heap[b] # NULL} = {OurData[m].module_string : m \in owned}
              /\ \A m, n \in owned : OurData[m].module_string = OurData[n].module_string => m = n

\* A minor whose string is gone has string_size 0, unless a SET_STRING is
\* under way: whichever of two racing calls ends last.
NoStringNoSize ==
    ~broken =>
        \A m \in Minors :
            OurData[m].module_string = NULL /\ ~Setting(m) => OurData[m].string_size = 0

\* The string and the sizes of minor m.
Visible(m) ==
    LET d == OurData[m]
    IN  <<d.max_size, d.string_size, d.module_string,
          IF d.module_string = NULL THEN <<>> ELSE heap[d.module_string]>>

\* A minor that no process has open keeps its string and its sizes, whatever
\* happens to the others and to the buffers that they have had in turn.  A copy
\* that another SET_STRING of its minor overtakes would write into a buffer that
\* may be some other minor's by then.
MinorsIndependent ==
    [][\A m \in Minors :
          ~Produces("overlap") /\ loaded /\ loaded' /\ (\A p \in Procs : curr_minor(p) # m) => Visible(m)' = Visible(m)]_vars

\* Every call returns: "Returns the amount of bytes added to the buffer".
CallsReturn == \A p \in Procs : call[p] # Idle ~> call[p] = Idle

\* What users see of minor m's string, and of the read or SET_STRING that p is in.
Str(m) ==
    IF ~loaded \/ OurData[m].module_string = NULL \/ Setting(m) THEN NULL
    ELSE SubSeq(heap[OurData[m].module_string], 1, OurData[m].string_size)

Asked(p) == IF call[p].pc = "read" THEN call[p].count ELSE 0

Avail(p) == IF call[p].pc = "read" THEN call[p].allowed_bytes ELSE 0

New(p) == IF call[p].pc \in {"set", "copy"} THEN call[p].new_string ELSE NULL

\* The driver does what the device promises.
Device == INSTANCE RepeatedDevice WITH
    Sizes <- 0 .. MaxSize,
    str <- [m \in Minors |-> Str(m)],
    size <- [m \in Minors |-> OurData[m].max_size],
    at <- [p \in Procs |-> filp[p].private_data],
    pos <- [p \in Procs |-> filp[p].f_pos],
    got <- [p \in Procs |-> filp[p].got],
    asked <- [p \in Procs |-> Asked(p)],
    avail <- [p \in Procs |-> Avail(p)],
    new <- [p \in Procs |-> New(p)]

\* Reads deliver the string over and over from the position on, up to the
\* size; a write adds its count to the size; a seek goes to the nearest place
\* there is; a SET_STRING leaves its own string, or none, and a RESET nothing.
ImplementsDevice == Device!DSpec

=============================================================================
