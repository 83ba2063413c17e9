--------------------------- MODULE RepeatedDevice ---------------------------
(***************************************************************************)
(* What the "repeated" device promises its users, whatever the driver's    *)
(* data structures: each minor has a string and a size; reading delivers   *)
(* the string over and over, up to that size.  Every operation takes       *)
(* effect at one instant, but for a read, which delivers what the size     *)
(* allowed when it was called, and a SET_STRING, during which the minor    *)
(* has no string.                                                          *)
(***************************************************************************)
EXTENDS Integers, Sequences

CONSTANTS
    Procs,      \* the processes, each with one open file
    Minors,
    NULL,       \* no string, no open file
    Strings,    \* the strings processes set
    Counts,     \* how many characters a read asks for, or a write adds
    Shifts,     \* how far a seek moves
    Sizes       \* the sizes a minor can have

VARIABLES
    str,        \* str[m]: the string of minor m, NULL if none
    size,       \* size[m]: how many characters there are to read
    at,         \* at[p]: the minor p has open, NULL if none
    pos,        \* pos[p]: p's position
    asked,      \* asked[p]: how many characters p's pending read wants, 0 if none is pending
    avail,      \* avail[p]: how many there were when it was called
    got,        \* got[p]: what the last read of p delivered
    new         \* new[p]: the string that p's pending SET_STRING sets, NULL if none is pending

dvars == <<str, size, at, pos, asked, avail, got, new>>

DInit ==
    /\ str = [m \in Minors |-> NULL]
    /\ size = [m \in Minors |-> 0]
    /\ at = [p \in Procs |-> NULL]
    /\ pos = [p \in Procs |-> 0]
    /\ asked = [p \in Procs |-> 0]
    /\ avail = [p \in Procs |-> 0]
    /\ got = [p \in Procs |-> <<>>]
    /\ new = [p \in Procs |-> NULL]

\* p has the device open and is in no call.
Ready(p) == at[p] # NULL /\ asked[p] = 0 /\ new[p] = NULL

\* n characters of s repeated for ever, from position i.
Repeated(s, i, n) == [j \in 1 .. n |-> s[((i + j - 1) % Len(s)) + 1]]

Load ==
    /\ str' = [m \in Minors |-> NULL]
    /\ size' = [m \in Minors |-> 0]
    /\ \A p \in Procs : at[p] = NULL
    /\ UNCHANGED <<at, pos, asked, avail, got, new>>

Unload ==
    /\ str' = [m \in Minors |-> NULL]
    /\ \A p \in Procs : at[p] = NULL
    /\ UNCHANGED <<size, at, pos, asked, avail, got, new>>

Open(p, m) ==
    /\ at[p] = NULL
    /\ at' = [at EXCEPT ![p] = m]
    /\ pos' = [pos EXCEPT ![p] = 0]
    /\ got' = [got EXCEPT ![p] = <<>>]
    /\ UNCHANGED <<str, size, asked, avail, new>>

Close(p) ==
    /\ Ready(p)
    /\ at' = [at EXCEPT ![p] = NULL]
    /\ pos' = [pos EXCEPT ![p] = 0]
    /\ got' = [got EXCEPT ![p] = <<>>]
    /\ UNCHANGED <<str, size, asked, avail, new>>

\* A read of at most n characters, when some are there.
CallRead(p, n) ==
    /\ Ready(p) /\ n > 0
    /\ size[at[p]] > pos[p]
    /\ asked' = [asked EXCEPT ![p] = n]
    /\ avail' = [avail EXCEPT ![p] = size[at[p]] - pos[p]]
    /\ UNCHANGED <<str, size, at, pos, got, new>>

\* It delivers as many as it can.
ReturnRead(p) ==
    LET n == IF asked[p] < avail[p] THEN asked[p] ELSE avail[p]
    IN  /\ asked[p] > 0
        /\ str[at[p]] # NULL
        /\ got' = [got EXCEPT ![p] = Repeated(str[at[p]], pos[p], n)]
        /\ pos' = [pos EXCEPT ![p] = @ + n]
        /\ asked' = [asked EXCEPT ![p] = 0]
        /\ avail' = [avail EXCEPT ![p] = 0]
        /\ UNCHANGED <<str, size, at, new>>

\* Or it fails, and the position stays.
FailRead(p) ==
    /\ asked[p] > 0
    /\ asked' = [asked EXCEPT ![p] = 0]
    /\ avail' = [avail EXCEPT ![p] = 0]
    /\ UNCHANGED <<str, size, at, pos, got, new>>

\* There is nothing to read, or nothing is asked for.
EmptyRead(p, n) ==
    /\ Ready(p)
    /\ size[at[p]] <= pos[p] \/ n = 0
    /\ got' = [got EXCEPT ![p] = <<>>]
    /\ UNCHANGED <<str, size, at, pos, asked, avail, new>>

\* There are n characters more to read.
Write(p, n) ==
    /\ Ready(p)
    /\ size[at[p]] + n \in Sizes
    /\ size' = [size EXCEPT ![at[p]] = @ + n]
    /\ UNCHANGED <<str, at, pos, asked, avail, got, new>>

\* The place between the first and the one after the last that is next to i.
Nearest(i, last) == IF i < 0 THEN 0 ELSE IF i > last THEN last ELSE i

Seek(p, shift) ==
    /\ Ready(p)
    /\ pos' = [pos EXCEPT ![p] = Nearest(@ + shift, size[at[p]])]
    /\ UNCHANGED <<str, size, at, asked, avail, got, new>>

\* The old string is gone as soon as a new one is to be set.
CallSet(p, s) ==
    /\ Ready(p)
    /\ str' = [str EXCEPT ![at[p]] = NULL]
    /\ new' = [new EXCEPT ![p] = s]
    /\ UNCHANGED <<size, at, pos, asked, avail, got>>

ReturnSet(p) ==
    /\ new[p] # NULL
    /\ str[at[p]] = NULL
    /\ str' = [str EXCEPT ![at[p]] = new[p]]
    /\ new' = [new EXCEPT ![p] = NULL]
    /\ UNCHANGED <<size, at, pos, asked, avail, got>>

\* Or there is no memory or no string at the address, and the minor has none.
FailSet(p) ==
    /\ new[p] # NULL
    /\ str[at[p]] = NULL
    /\ new' = [new EXCEPT ![p] = NULL]
    /\ UNCHANGED <<str, size, at, pos, asked, avail, got>>

Reset(p) ==
    /\ Ready(p)
    /\ str' = [str EXCEPT ![at[p]] = NULL]
    /\ size' = [size EXCEPT ![at[p]] = 0]
    /\ UNCHANGED <<at, pos, asked, avail, got, new>>

DNext ==
    \/ Load \/ Unload
    \/ \E p \in Procs :
         \/ \E m \in Minors : Open(p, m)
         \/ \E n \in Counts : CallRead(p, n) \/ EmptyRead(p, n) \/ Write(p, n)
         \/ \E shift \in Shifts : Seek(p, shift)
         \/ \E s \in Strings : CallSet(p, s)
         \/ Close(p) \/ ReturnRead(p) \/ FailRead(p)
         \/ ReturnSet(p) \/ FailSet(p) \/ Reset(p)

DSpec == DInit /\ [][DNext]_dvars

=============================================================================
