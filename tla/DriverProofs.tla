---------------------------- MODULE DriverProofs ----------------------------
(***************************************************************************)
(* Proofs about repeated.c, for any numbers of processes, minors and       *)
(* buffers.                                                                *)
(***************************************************************************)
EXTENDS RepeatedDriver, TLAPS

-----------------------------------------------------------------------------
(* Types                                                                     *)

\* A new buffer is a string of the length asked for, and is not NULL.
LEMMA KmallocType ==
    ASSUME NEW s \in Strings
    PROVE  /\ kmalloc(s) \in Seq(Bytes) /\ Len(kmalloc(s)) = Len(s) + 1
           /\ kmalloc(s) # NULL /\ Len(s) \in Nat
<1>1. s \in Seq(Bytes)
  BY DriverAssumption DEF Bytes
<1>2. Len(s) + 1 \in Nat
  BY <1>1
<1>3. kmalloc(s) \in [1 .. Len(s) + 1 -> Bytes]
  BY DEF kmalloc, Bytes
<1>4. kmalloc(s) \in Seq(Bytes)
  BY <1>2, <1>3
<1> QED
  BY <1>1, <1>2, <1>3, <1>4, DriverAssumption

\* The value of an int is an integer.
LEMMA Int32Type == ASSUME NEW n \in Int PROVE Int32(n) \in Int
<1>1. n % IntWord \in Int
  BY DriverAssumption
<1> QED
  BY <1>1, DriverAssumption DEF Int32

Calls == {Idle, [pc |-> "spin"]} \cup Reading \cup SettingString \cup CopyingString

\* What a process can be doing, by the place it has reached.
LEMMA CallForms ==
    ASSUME NEW c \in Calls
    PROVE  /\ c.pc = "idle" => c = Idle
           /\ c.pc = "spin" => c = [pc |-> "spin"]
           /\ c.pc = "read" => c \in Reading
           /\ c.pc = "set" => c \in SettingString
           /\ c.pc = "copy" => c \in CopyingString
           /\ c.pc \in {"idle", "spin", "read", "set", "copy"}
BY DEF Calls, Idle, Reading, SettingString, CopyingString

\* A process inside a loop of the driver goes on with its own variables, and
\* every new value that it computes has its type.
LEMMA ReadingType ==
    ASSUME TypeOK, NEW p \in Procs, NEW count \in Counts,
           curr_minor(p) \in Minors, OurData[curr_minor(p)].string_size # 0
    PROVE  reading(p, count) \in Reading
<1> DEFINE d == OurData[curr_minor(p)]
<1>1. d \in Datas /\ filp[p] \in Files
  BY DEF TypeOK
<1>2. d.string_size \in Nat \ {0} /\ filp[p].f_pos \in Nat /\ d.max_size \in Int
      /\ d.module_string \in Bufs \cup {NULL}
  BY <1>1 DEF Datas, Files
<1>3. filp[p].f_pos % d.string_size \in Nat
  BY <1>2
<1>4. Int32(d.max_size - filp[p].f_pos) \in Int
  BY <1>2, Int32Type
<1>5. <<>> \in Seq(Bytes)
  OBVIOUS
<1> QED
  BY <1>2, <1>3, <1>4, <1>5 DEF reading, Reading

\* A read that has copied one more byte is still a read.
LEMMA CopyByteType ==
    ASSUME TypeOK, NEW p \in Procs, call[p].pc = "read",
           call[p].module_string # NULL, heap[call[p].module_string] # NULL,
           ~(call[p].string_pos >= Len(heap[call[p].module_string]))
    PROVE  /\ call[p] \in Reading
           /\ call[p].module_string \in Bufs
           /\ heap[call[p].module_string] \in Seq(Bytes)
           /\ heap[call[p].module_string][call[p].string_pos + 1] \in Bytes
           /\ Append(call[p].out, heap[call[p].module_string][call[p].string_pos + 1])
                \in Seq(Bytes)
           /\ next_pos(call[p]) \in Nat
<1>1. call[p] \in Reading
  BY CallForms DEF TypeOK, Calls
<1>2. /\ call[p].module_string \in Bufs /\ call[p].string_pos \in Nat
      /\ call[p].string_size \in Nat /\ call[p].out \in Seq(Bytes)
  BY <1>1 DEF Reading
<1>3. heap[call[p].module_string] \in Seq(Bytes)
  BY <1>2 DEF TypeOK
<1>4. call[p].string_pos + 1 \in 1 .. Len(heap[call[p].module_string])
  BY <1>2, <1>3
<1>5. heap[call[p].module_string][call[p].string_pos + 1] \in Bytes
  BY <1>3, <1>4
<1>6. next_pos(call[p]) \in Nat
  BY <1>2 DEF next_pos
<1> QED
  BY <1>1, <1>2, <1>3, <1>5, <1>6

\* Freeing keeps the heap's type.
LEMMA KfreeType ==
    ASSUME NEW h \in [Bufs -> {NULL} \cup Seq(Bytes)], NEW b \in Bufs \cup {NULL}
    PROVE  kfree(h, b) \in [Bufs -> {NULL} \cup Seq(Bytes)]
BY DEF kfree

-----------------------------------------------------------------------------
(* What each operation does, field by field.  A caller is inside its file's  *)
(* minor, and the minors, files and calls of the others stay as they are.    *)

\* Setting fields of a minor or of a file sets these fields and no other.
LEMMA DataUpdates ==
    ASSUME NEW D \in [Minors -> Datas], NEW m \in Minors, NEW d \in Datas
    PROVE  /\ [D EXCEPT ![m] = d] \in [Minors -> Datas]
           /\ [D EXCEPT ![m] = d][m] = d
           /\ \A n \in Minors \ {m} : [D EXCEPT ![m] = d][n] = D[n]
OBVIOUS

\* Assigning to a file keeps the type of filp and the other files.
LEMMA FileUpdates ==
    ASSUME NEW F \in [Procs -> Files], NEW p \in Procs, NEW f \in Files
    PROVE  /\ [F EXCEPT ![p] = f] \in [Procs -> Files]
           /\ [F EXCEPT ![p] = f][p] = f
           /\ \A q \in Procs \ {p} : [F EXCEPT ![p] = f][q] = F[q]
OBVIOUS

\* Assigning to the locals of a call keeps the type of call and the other calls.
LEMMA CallUpdates ==
    ASSUME NEW C \in [Procs -> Calls], NEW p \in Procs, NEW c \in Calls
    PROVE  /\ [C EXCEPT ![p] = c] \in [Procs -> Calls]
           /\ [C EXCEPT ![p] = c][p] = c
           /\ \A q \in Procs \ {p} : [C EXCEPT ![p] = c][q] = C[q]
OBVIOUS

\* The process is in the driver on behalf of an open file.
LEMMA EntersMinor ==
    ASSUME TypeOK, NEW p \in Procs, Enters(p)
    PROVE  /\ curr_minor(p) \in Minors /\ curr_minor(p) = filp[p].private_data
           /\ OurData[curr_minor(p)] \in Datas /\ filp[p] \in Files
           /\ loaded /\ ~broken /\ call[p] = Idle
BY DEF Enters, curr_minor, TypeOK, Files

\* my_open(): a new file at position 0, and no string or size changed.
LEMMA OpenEffect ==
    ASSUME TypeOK, NEW p \in Procs, NEW m \in Minors, my_open(p, m)
    PROVE  /\ OurData' \in [Minors -> Datas]
           /\ \A n \in Minors : /\ OurData'[n].module_string = OurData[n].module_string
                                /\ OurData'[n].max_size = OurData[n].max_size
                                /\ OurData'[n].string_size = OurData[n].string_size
           /\ filp' \in [Procs -> Files]
           /\ \A q \in Procs \ {p} : filp'[q] = filp[q]
           /\ \/ filp' = filp
              \/ /\ filp'[p].private_data = m /\ filp'[p].f_pos = 0 /\ filp'[p].got = <<>>
                 /\ filp' = [filp EXCEPT ![p] = [private_data |-> m, f_pos |-> 0, got |-> <<>>]]
           /\ loaded /\ ~broken /\ filp[p] = Closed
           /\ UNCHANGED <<loaded, heap, call, broken, world>>
<1> DEFINE d == [OurData[m] EXCEPT !.flag = 1]
           f == [private_data |-> m, f_pos |-> 0, got |-> <<>>]
<1>1. OurData[m] \in Datas /\ OurData \in [Minors -> Datas] /\ filp \in [Procs -> Files]
  BY DEF TypeOK
<1>2. /\ d \in Datas /\ d.module_string = OurData[m].module_string
      /\ d.max_size = OurData[m].max_size /\ d.string_size = OurData[m].string_size
  BY <1>1 DEF Datas
<1>3. f \in Files /\ f.private_data = m /\ f.f_pos = 0 /\ f.got = <<>>
  BY DEF Files
<1>4. OurData' = [OurData EXCEPT ![m] = d] /\ (filp' = filp \/ filp' = [filp EXCEPT ![p] = f])
  BY DEF my_open
<1> HIDE DEF d, f
<1>5. /\ OurData' \in [Minors -> Datas] /\ OurData'[m] = d
      /\ \A n \in Minors \ {m} : OurData'[n] = OurData[n]
  BY <1>1, <1>2, <1>4, DataUpdates
<1>6. /\ filp' \in [Procs -> Files] /\ \A q \in Procs \ {p} : filp'[q] = filp[q]
      /\ filp' = filp \/ (filp' = [filp EXCEPT ![p] = f] /\ filp'[p] = f)
  BY <1>1, <1>3, <1>4, FileUpdates
<1>7. \A n \in Minors : /\ OurData'[n].module_string = OurData[n].module_string
                         /\ OurData'[n].max_size = OurData[n].max_size
                         /\ OurData'[n].string_size = OurData[n].string_size
  BY <1>2, <1>5
<1>8. filp' = filp \/ /\ filp'[p].private_data = m /\ filp'[p].f_pos = 0
                      /\ filp'[p].got = <<>> /\ filp' = [filp EXCEPT ![p] = f]
  BY <1>3, <1>6
<1> QED
  BY <1>5, <1>6, <1>7, <1>8 DEF my_open, f

\* my_release(): only the file of the caller is closed.
LEMMA ReleaseEffect ==
    ASSUME TypeOK, NEW p \in Procs, my_release(p)
    PROVE  /\ filp' \in [Procs -> Files] /\ filp'[p] = Closed
           /\ \A q \in Procs \ {p} : filp'[q] = filp[q]
           /\ Enters(p)
           /\ UNCHANGED <<loaded, OurData, heap, call, broken, world>>
<1>1. Closed \in Files
  BY DEF Closed, Files
<1> QED
  BY <1>1, FileUpdates DEF my_release, TypeOK

\* my_write(): only max_size of the caller's minor, which may wrap around as an int.
LEMMA WriteEffect ==
    ASSUME TypeOK, NEW p \in Procs, NEW count \in Counts, my_write(p, count)
    PROVE  LET m == curr_minor(p)
           IN  /\ Enters(p)
               /\ OurData' \in [Minors -> Datas]
               /\ \A n \in Minors \ {m} : OurData'[n] = OurData[n]
               /\ OurData'[m].module_string = OurData[m].module_string
               /\ OurData'[m].string_size = OurData[m].string_size
               /\ OurData'[m].max_size = Int32(OurData[m].max_size + count)
               /\ OurData[m].max_size + count <= world.size
               /\ UNCHANGED <<loaded, heap, filp, call, broken, world>>
<1> DEFINE m == curr_minor(p)
           size == Int32(OurData[m].max_size + count)
           d == [OurData[m] EXCEPT !.max_size = size]
<1>1. m \in Minors /\ OurData[m] \in Datas
  BY EntersMinor DEF my_write
<1>2. OurData[m].max_size + count \in Int
  BY <1>1, DriverAssumption DEF Datas
<1>3. size \in Int
  BY <1>2, Int32Type
<1>4. OurData' = [OurData EXCEPT ![m] = d] /\ OurData \in [Minors -> Datas]
  BY DEF my_write, TypeOK
<1>5. /\ d \in Datas /\ d.module_string = OurData[m].module_string
      /\ d.string_size = OurData[m].string_size /\ d.max_size = size
  <2> HIDE DEF size, m
  <2> QED
    BY <1>1, <1>3 DEF Datas
<1> HIDE DEF d
<1>6. OurData' \in [Minors -> Datas] /\ OurData'[m] = d
      /\ \A n \in Minors \ {m} : OurData'[n] = OurData[n]
  BY <1>1, <1>4, <1>5, DataUpdates
<1> QED
  BY <1>5, <1>6 DEF my_write

\* my_llseek(): only the position of the caller's file.
LEMMA SeekEffect ==
    ASSUME TypeOK, NEW p \in Procs, NEW shift \in Shifts, my_llseek(p, shift)
    PROVE  LET m == curr_minor(p)
           IN  /\ Enters(p)
               /\ filp' \in [Procs -> Files]
               /\ \A q \in Procs \ {p} : filp'[q] = filp[q]
               /\ filp'[p].private_data = m /\ filp'[p].got = filp[p].got
               /\ LET new == filp[p].f_pos + shift
                      top == IF new >= OurData[m].max_size THEN OurData[m].max_size ELSE new
                  IN  filp'[p].f_pos = IF top <= 0 THEN 0 ELSE top
               /\ filp'[p].f_pos = 0 \/ filp'[p].f_pos <= OurData[m].max_size
               /\ UNCHANGED <<loaded, OurData, heap, call, broken, world>>
<1> DEFINE m == curr_minor(p)
           max == OurData[m].max_size
           new == filp[p].f_pos + shift
           top == IF new >= max THEN max ELSE new
           pos == IF top <= 0 THEN 0 ELSE top
           f == [filp[p] EXCEPT !.f_pos = pos]
<1>1. m \in Minors /\ OurData[m] \in Datas /\ filp[p] \in Files /\ m = filp[p].private_data
  BY EntersMinor DEF my_llseek
<1>2. max \in Int /\ new \in Int
  BY <1>1, DriverAssumption DEF Datas, Files
<1>3. pos \in Nat /\ (pos = 0 \/ pos <= max)
  <2> HIDE DEF max, new
  <2> QED
    BY <1>2
<1>4. filp' = [filp EXCEPT ![p] = f] /\ filp \in [Procs -> Files]
  BY DEF my_llseek, TypeOK
<1>5. /\ f \in Files /\ f.private_data = m /\ f.f_pos = pos /\ f.got = filp[p].got
  <2> HIDE DEF pos, m
  <2> QED
    BY <1>1, <1>3 DEF Files
<1> HIDE DEF f
<1>6. filp' \in [Procs -> Files] /\ filp'[p] = f
      /\ \A q \in Procs \ {p} : filp'[q] = filp[q]
  BY <1>4, <1>5, FileUpdates
<1> QED
  BY Zenon, <1>3, <1>5, <1>6 DEF my_llseek

\* my_read() up to its first copy_to_user(): nothing but the locals of the call, unless it spins.
LEMMA ReadEffect ==
    ASSUME TypeOK, NEW p \in Procs, NEW count \in Counts, my_read(p, count)
    PROVE  /\ Enters(p)
           /\ Produces("overlap") \/ Others(p, {"set", "copy"}) = {}
           /\ Produces("read_without_string") \/ OurData[curr_minor(p)].string_size > 0
           /\ UNCHANGED <<loaded, OurData, heap, world>>
           /\ call' \in [Procs -> Calls] /\ filp' \in [Procs -> Files]
           /\ \A q \in Procs \ {p} : call'[q] = call[q] /\ filp'[q] = filp[q]
           /\ filp'[p].private_data = curr_minor(p) /\ filp'[p].f_pos = filp[p].f_pos
           /\ \/ /\ OurData[curr_minor(p)].string_size = 0
                 /\ broken' = TRUE /\ filp' = filp /\ call'[p] = [pc |-> "spin"]
              \/ /\ OurData[curr_minor(p)].string_size > 0
                 /\ reading(p, count).allowed_bytes > 0 /\ count > 0
                 /\ reading(p, count) \in Reading
                 /\ broken' = broken /\ filp' = filp /\ call'[p] = reading(p, count)
              \/ /\ ~(reading(p, count).allowed_bytes > 0 /\ count > 0)
                 /\ reading(p, count) \in Reading
                 /\ broken' = broken /\ call' = call /\ filp'[p].got = <<>>
<1>1. /\ Enters(p) /\ curr_minor(p) \in Minors /\ curr_minor(p) = filp[p].private_data
      /\ OurData[curr_minor(p)] \in Datas /\ filp[p] \in Files
      /\ filp \in [Procs -> Files] /\ call \in [Procs -> Calls]
  BY EntersMinor DEF my_read, TypeOK, Calls
<1>2. OurData[curr_minor(p)].string_size \in Nat
  BY <1>1 DEF Datas
<1>3. CASE OurData[curr_minor(p)].string_size = 0
  <2>1. call' = [call EXCEPT ![p] = [pc |-> "spin"]] /\ filp' = filp /\ broken' = TRUE
    BY <1>3 DEF my_read, spin
  <2>2. [pc |-> "spin"] \in Calls
    BY DEF Calls
  <2>3. /\ call' \in [Procs -> Calls] /\ call'[p] = [pc |-> "spin"]
        /\ \A q \in Procs \ {p} : call'[q] = call[q]
    BY <1>1, <2>1, <2>2, CallUpdates
  <2> QED
    BY <1>1, <1>3, <2>1, <2>3 DEF my_read, spin
<1>4. CASE OurData[curr_minor(p)].string_size # 0
  <2>1. reading(p, count) \in Reading
    BY <1>1, <1>4, ReadingType
  <2>2. CASE reading(p, count).allowed_bytes > 0 /\ count > 0
    <3>1. call' = [call EXCEPT ![p] = reading(p, count)] /\ filp' = filp
      BY <1>4, <2>2 DEF my_read
    <3>2. reading(p, count) \in Calls
      BY <2>1 DEF Calls
    <3>3. /\ call' \in [Procs -> Calls] /\ call'[p] = reading(p, count)
          /\ \A q \in Procs \ {p} : call'[q] = call[q]
      BY <1>1, <3>1, <3>2, CallUpdates
    <3> QED
      BY <1>1, <1>2, <1>4, <2>1, <2>2, <3>1, <3>3 DEF my_read
  <2>3. CASE ~(reading(p, count).allowed_bytes > 0 /\ count > 0)
    <3> DEFINE f == [filp[p] EXCEPT !.got = <<>>]
    <3>1. call' = call /\ filp' = [filp EXCEPT ![p] = f]
      BY <1>4, <2>3 DEF my_read
    <3>2. f \in Files /\ f.private_data = curr_minor(p) /\ f.got = <<>> /\ f.f_pos = filp[p].f_pos
      <4>1. <<>> \in Seq(Bytes)
        OBVIOUS
      <4> HIDE DEF curr_minor
      <4> QED
        BY Zenon, <1>1, <4>1 DEF Files
    <3> HIDE DEF f
    <3>3. /\ filp' \in [Procs -> Files] /\ filp'[p] = f
          /\ \A q \in Procs \ {p} : filp'[q] = filp[q]
      BY <1>1, <3>1, <3>2, FileUpdates
    <3> QED
      BY <1>1, <1>4, <2>1, <2>3, <3>1, <3>2, <3>3 DEF my_read
  <2> QED
    BY Zenon, <2>2, <2>3
<1> QED
  BY Zenon, <1>3, <1>4

\* RESET: the buffer of the caller's minor is freed, its string and sizes are gone.
LEMMA ResetEffect ==
    ASSUME TypeOK, NEW p \in Procs, reset(p)
    PROVE  LET m == curr_minor(p)
           IN  /\ Enters(p)
               /\ Produces("overlap") \/ Others(p, {"read", "set", "copy"}) = {}
               /\ OurData' \in [Minors -> Datas]
               /\ \A n \in Minors \ {m} : OurData'[n] = OurData[n]
               /\ OurData'[m].max_size = 0 /\ OurData'[m].string_size = 0
               /\ OurData'[m].module_string = NULL
               /\ OurData[m].module_string \in Bufs \cup {NULL}
               /\ heap' = kfree(heap, OurData[m].module_string)
               /\ heap' \in [Bufs -> {NULL} \cup Seq(Bytes)]
               /\ UNCHANGED <<loaded, filp, call, broken, world>>
<1> DEFINE m == curr_minor(p)
           d == [OurData[m] EXCEPT !.max_size = 0, !.string_size = 0, !.module_string = NULL]
<1>1. m \in Minors /\ OurData[m] \in Datas /\ OurData \in [Minors -> Datas]
  BY EntersMinor DEF reset, TypeOK
<1>2. OurData' = [OurData EXCEPT ![m] = d]
  BY Zenon, <1>1 DEF reset
<1>3. /\ d \in Datas /\ d.module_string = NULL /\ d.string_size = 0 /\ d.max_size = 0
      /\ OurData[m].module_string \in Bufs \cup {NULL}
  <2> DEFINE d1 == [OurData[m] EXCEPT !.max_size = 0]
             d2 == [d1 EXCEPT !.string_size = 0]
  <2>1. d1 \in Datas /\ d1.max_size = 0 /\ OurData[m].module_string \in Bufs \cup {NULL}
    <3> HIDE DEF m
    <3> QED
      BY <1>1 DEF Datas
  <2>2. d = [d2 EXCEPT !.module_string = NULL]
    OBVIOUS
  <2> HIDE DEF d, d1
  <2>3. d2 \in Datas /\ d2.max_size = 0 /\ d2.string_size = 0
    BY <2>1 DEF Datas
  <2> HIDE DEF d2
  <2> QED
    BY <2>1, <2>2, <2>3 DEF Datas
<1> HIDE DEF d
<1>4. OurData' \in [Minors -> Datas] /\ OurData'[m] = d
      /\ \A n \in Minors \ {m} : OurData'[n] = OurData[n]
  BY <1>1, <1>2, <1>3, DataUpdates
<1>5. heap' \in [Bufs -> {NULL} \cup Seq(Bytes)]
  BY <1>3, KfreeType DEF reset, TypeOK
<1> QED
  BY <1>3, <1>4, <1>5 DEF reset

\* SET_STRING up to kmalloc(): the old buffer is freed and the minor has no string.
LEMMA SetEffect ==
    ASSUME TypeOK, NEW p \in Procs, NEW s \in Strings, set_string(p, s)
    PROVE  LET m == curr_minor(p)
           IN  /\ Enters(p)
               /\ Produces("overlap") \/ Others(p, {"read", "set", "copy"}) = {}
               /\ OurData' \in [Minors -> Datas]
               /\ \A n \in Minors \ {m} : OurData'[n] = OurData[n]
               /\ OurData'[m].max_size = OurData[m].max_size
               /\ OurData'[m].string_size = OurData[m].string_size
               /\ OurData'[m].module_string = NULL
               /\ OurData[m].module_string \in Bufs \cup {NULL}
               /\ heap' = kfree(heap, OurData[m].module_string)
               /\ heap' \in [Bufs -> {NULL} \cup Seq(Bytes)]
               /\ call' \in [Procs -> Calls]
               /\ call'[p] \in SettingString /\ call'[p].pc = "set" /\ call'[p].new_string = s
               /\ \A q \in Procs \ {p} : call'[q] = call[q]
               /\ UNCHANGED <<loaded, filp, broken, world>>
<1> DEFINE m == curr_minor(p)
           d == [OurData[m] EXCEPT !.module_string = NULL]
           c == [pc |-> "set", new_string |-> s]
<1>1. m \in Minors /\ OurData[m] \in Datas /\ OurData \in [Minors -> Datas]
  BY EntersMinor DEF set_string, TypeOK
<1>2. OurData' = [OurData EXCEPT ![m] = d] /\ call' = [call EXCEPT ![p] = c]
  BY DEF set_string
<1>3. /\ d \in Datas /\ d.module_string = NULL /\ d.string_size = OurData[m].string_size
      /\ d.max_size = OurData[m].max_size
      /\ OurData[m].module_string \in Bufs \cup {NULL}
  <2> HIDE DEF m
  <2> QED
    BY <1>1 DEF Datas
<1>4. c \in SettingString /\ c.pc = "set" /\ c.new_string = s /\ c \in Calls
  BY DEF SettingString, Calls
<1> HIDE DEF c, d
<1>5. OurData' \in [Minors -> Datas] /\ OurData'[m] = d
      /\ \A n \in Minors \ {m} : OurData'[n] = OurData[n]
  BY <1>1, <1>2, <1>3, DataUpdates
<1>6. heap' \in [Bufs -> {NULL} \cup Seq(Bytes)]
  BY <1>3, KfreeType DEF set_string, TypeOK
<1>7. call' \in [Procs -> Calls] /\ call'[p] = c /\ \A q \in Procs \ {p} : call'[q] = call[q]
  BY <1>2, <1>4, CallUpdates DEF TypeOK, Calls
<1> QED
  BY <1>3, <1>4, <1>5, <1>6, <1>7 DEF set_string

\* A process inside the driver has its file open.
InFile == \A p \in Procs : call[p] # Idle => curr_minor(p) \in Minors

\* A SET_STRING that fails.
LEMMA NoStringEffect ==
    ASSUME TypeOK, NEW p \in Procs, NEW m \in Minors,
           OurData' = [OurData EXCEPT ![m] = no_string(@)], call' = [call EXCEPT ![p] = Idle]
    PROVE  /\ OurData' \in [Minors -> Datas] /\ call' \in [Procs -> Calls]
           /\ \A n \in Minors \ {m} : OurData'[n] = OurData[n]
           /\ \A q \in Procs \ {p} : call'[q] = call[q]
           /\ OurData'[m].string_size = 0 /\ OurData'[m].max_size = OurData[m].max_size
           /\ OurData'[m].module_string = NULL /\ call'[p] = Idle
<1> DEFINE d == no_string(OurData[m])
<1>1. OurData' = [OurData EXCEPT ![m] = d] /\ OurData \in [Minors -> Datas] /\ OurData[m] \in Datas
      /\ call \in [Procs -> Calls]
  BY DEF TypeOK, Calls
<1>2. /\ d \in Datas /\ d.module_string = NULL /\ d.string_size = 0
      /\ d.max_size = OurData[m].max_size
  BY Zenon, <1>1 DEF Datas, no_string
<1>3. Idle \in Calls
  BY DEF Calls
<1> HIDE DEF d
<1>4. OurData' \in [Minors -> Datas] /\ OurData'[m] = d
      /\ \A n \in Minors \ {m} : OurData'[n] = OurData[n]
  BY <1>1, <1>2, DataUpdates
<1>5. call' \in [Procs -> Calls] /\ call'[p] = Idle /\ \A q \in Procs \ {p} : call'[q] = call[q]
  BY <1>1, <1>3, CallUpdates
<1> QED
  BY <1>2, <1>4, <1>5

\* SET_STRING after kmalloc(): the minor has a buffer that nobody had.
LEMMA AllocEffect ==
    ASSUME TypeOK, InFile, NEW p \in Procs, set_string_alloc(p)
    PROVE  LET m == curr_minor(p)
           IN  /\ loaded /\ ~broken /\ call[p].pc = "set" /\ call[p] \in SettingString
               /\ m \in Minors
               /\ OurData' \in [Minors -> Datas]
               /\ \A n \in Minors \ {m} : OurData'[n] = OurData[n]
               /\ OurData'[m].max_size = OurData[m].max_size
               /\ heap' \in [Bufs -> {NULL} \cup Seq(Bytes)]
               /\ call' \in [Procs -> Calls]
               /\ \A q \in Procs \ {p} : call'[q] = call[q]
               /\ \/ \E b \in Bufs :
                        /\ heap[b] = NULL /\ heap' = [heap EXCEPT ![b] = kmalloc(call[p].new_string)]
                        /\ OurData'[m].string_size = OurData[m].string_size
                        /\ OurData'[m].module_string = b
                        /\ call'[p] \in CopyingString /\ call'[p].pc = "copy"
                        /\ call'[p].to = b /\ call'[p].new_string = call[p].new_string
                  \/ /\ heap' = heap /\ call'[p] = Idle
                     /\ OurData'[m].string_size = 0 /\ OurData'[m].module_string = NULL
               /\ UNCHANGED <<loaded, filp, broken, world>>
<1> DEFINE m == curr_minor(p)
           s == call[p].new_string
<1>1. /\ loaded /\ ~broken /\ call[p].pc = "set" /\ call \in [Procs -> Calls]
      /\ OurData \in [Minors -> Datas] /\ heap \in [Bufs -> {NULL} \cup Seq(Bytes)]
  BY DEF set_string_alloc, TypeOK, Calls
<1>2. call[p] \in SettingString /\ call[p] # Idle
  BY <1>1, CallForms DEF Idle
<1>3. m \in Minors /\ OurData[m] \in Datas /\ s \in Strings
  BY <1>1, <1>2 DEF InFile, SettingString
<1>4. ASSUME NEW b \in Bufs, heap[b] = NULL, heap' = [heap EXCEPT ![b] = kmalloc(s)],
             OurData' = [OurData EXCEPT ![m].module_string = b],
             call' = [call EXCEPT ![p] = [pc |-> "copy", new_string |-> s, to |-> b]]
      PROVE  /\ OurData' \in [Minors -> Datas] /\ call' \in [Procs -> Calls]
             /\ heap' \in [Bufs -> {NULL} \cup Seq(Bytes)]
             /\ \A n \in Minors \ {m} : OurData'[n] = OurData[n]
             /\ \A q \in Procs \ {p} : call'[q] = call[q]
             /\ OurData'[m].string_size = OurData[m].string_size
             /\ OurData'[m].max_size = OurData[m].max_size
             /\ OurData'[m].module_string = b
             /\ call'[p] \in CopyingString /\ call'[p].pc = "copy"
             /\ call'[p].to = b /\ call'[p].new_string = s
  <2> DEFINE d == [OurData[m] EXCEPT !.module_string = b]
             c == [pc |-> "copy", new_string |-> s, to |-> b]
  <2>1. OurData' = [OurData EXCEPT ![m] = d] /\ call' = [call EXCEPT ![p] = c]
    BY <1>4
  <2> HIDE DEF m, s
  <2>2. /\ d \in Datas /\ d.module_string = b /\ d.string_size = OurData[m].string_size
        /\ d.max_size = OurData[m].max_size
    BY <1>3 DEF Datas
  <2>3. c \in CopyingString /\ c.pc = "copy" /\ c.to = b /\ c.new_string = s /\ c \in Calls
    BY <1>3 DEF CopyingString, Calls
  <2> HIDE DEF c, d
  <2>4. OurData' \in [Minors -> Datas] /\ OurData'[m] = d
        /\ \A n \in Minors \ {m} : OurData'[n] = OurData[n]
    BY <1>1, <1>3, <2>1, <2>2, DataUpdates
  <2>5. call' \in [Procs -> Calls] /\ call'[p] = c /\ \A q \in Procs \ {p} : call'[q] = call[q]
    BY <1>1, <2>1, <2>3, CallUpdates
  <2>6. heap' \in [Bufs -> {NULL} \cup Seq(Bytes)]
    BY <1>1, <1>3, <1>4, KmallocType
  <2> QED
    BY <2>2, <2>3, <2>4, <2>5, <2>6
<1>5. ASSUME OurData' = [OurData EXCEPT ![m] = no_string(@)], call' = [call EXCEPT ![p] = Idle]
      PROVE  /\ OurData' \in [Minors -> Datas] /\ call' \in [Procs -> Calls]
             /\ \A n \in Minors \ {m} : OurData'[n] = OurData[n]
             /\ \A q \in Procs \ {p} : call'[q] = call[q]
             /\ OurData'[m].string_size = 0 /\ OurData'[m].max_size = OurData[m].max_size
             /\ OurData'[m].module_string = NULL /\ call'[p] = Idle
  BY Zenon, <1>3, <1>5, NoStringEffect
<1> QED
  BY <1>1, <1>2, <1>3, <1>4, <1>5 DEF set_string_alloc

\* SET_STRING at its end: the buffer holds the string and the minor its size.
LEMMA CopyEffect ==
    ASSUME TypeOK, InFile, NEW p \in Procs, set_string_copy(p)
    PROVE  LET m == curr_minor(p)
               s == call[p].new_string
               to == call[p].to
               b == OurData[m].module_string
           IN  /\ loaded /\ ~broken /\ call[p].pc = "copy" /\ call[p] \in CopyingString
               /\ m \in Minors /\ s \in Strings /\ to \in Bufs /\ b \in Bufs \cup {NULL}
               /\ UNCHANGED <<loaded, filp, world>>
               /\ OurData' \in [Minors -> Datas]
               /\ heap' \in [Bufs -> {NULL} \cup Seq(Bytes)]
               /\ call' \in [Procs -> Calls]
               /\ \/ /\ \/ heap[to] = NULL \/ Len(heap[to]) < Len(s)
                        \/ b = NULL \/ heap[b] = NULL \/ Len(heap[b]) < Len(s) + 1
                     /\ Break
                  \/ /\ broken' = broken /\ call'[p] = Idle
                     /\ \A q \in Procs \ {p} : call'[q] = call[q]
                     /\ \A n \in Minors \ {m} : OurData'[n] = OurData[n]
                     /\ OurData'[m].max_size = OurData[m].max_size
                     /\ \/ /\ b # NULL
                           /\ OurData'[m].string_size = Len(s) /\ OurData'[m].module_string = b
                           /\ \A x \in Bufs \ {to, b} : heap'[x] = heap[x]
                           /\ \A x \in Bufs : heap'[x] = NULL <=> heap[x] = NULL
                           /\ to = b => /\ Len(heap'[b]) = Len(heap[b])
                                        /\ \A i \in 1 .. Len(s) : heap'[b][i] = s[i]
                        \/ /\ heap' = kfree(heap, b)
                           /\ OurData'[m].string_size = 0 /\ OurData'[m].module_string = NULL
<1> DEFINE m == curr_minor(p)
           s == call[p].new_string
           to == call[p].to
           b == OurData[m].module_string
           bad == \/ heap[to] = NULL \/ Len(heap[to]) < Len(s)
                  \/ b = NULL \/ heap[b] = NULL \/ Len(heap[b]) < Len(s) + 1
           copied == [heap EXCEPT ![to] = [i \in DOMAIN @ |-> IF i <= Len(s) THEN s[i] ELSE @[i]]]
<1>1. /\ loaded /\ ~broken /\ call[p].pc = "copy" /\ call \in [Procs -> Calls]
      /\ OurData \in [Minors -> Datas] /\ heap \in [Bufs -> {NULL} \cup Seq(Bytes)]
  BY DEF set_string_copy, TypeOK, Calls
<1>2. call[p] \in CopyingString /\ call[p] # Idle
  BY <1>1, CallForms DEF Idle
<1>3. m \in Minors /\ OurData[m] \in Datas /\ s \in Strings /\ to \in Bufs
  BY <1>1, <1>2 DEF InFile, CopyingString
<1>4. b \in Bufs \cup {NULL}
  BY <1>3 DEF Datas
<1>5. \/ bad /\ Break
      \/ /\ ~bad
         /\ heap' = [copied EXCEPT ![b][Len(s) + 1] = NUL]
         /\ OurData' = [OurData EXCEPT ![m].string_size = Len(s)]
         /\ call' = [call EXCEPT ![p] = Idle]
         /\ UNCHANGED <<loaded, filp, broken, world>>
      \/ /\ heap' = kfree(heap, b)
         /\ OurData' = [OurData EXCEPT ![m] = no_string(@)]
         /\ call' = [call EXCEPT ![p] = Idle]
         /\ UNCHANGED <<loaded, filp, broken, world>>
  BY Zenon DEF set_string_copy
<1>6. CASE bad /\ Break
  BY Zenon, <1>1, <1>2, <1>3, <1>4, <1>6 DEF Break
<1>7. CASE /\ ~bad
           /\ heap' = [copied EXCEPT ![b][Len(s) + 1] = NUL]
           /\ OurData' = [OurData EXCEPT ![m].string_size = Len(s)]
           /\ call' = [call EXCEPT ![p] = Idle]
           /\ UNCHANGED <<loaded, filp, broken, world>>
  <2>1. /\ heap' \in [Bufs -> {NULL} \cup Seq(Bytes)]
        /\ \A x \in Bufs \ {to, b} : heap'[x] = heap[x]
        /\ \A x \in Bufs : heap'[x] = NULL <=> heap[x] = NULL
        /\ to = b => Len(heap'[b]) = Len(heap[b]) /\ \A i \in 1 .. Len(s) : heap'[b][i] = s[i]
    <3>1. /\ b \in Bufs /\ heap[to] # NULL /\ heap[b] # NULL
          /\ ~(Len(heap[to]) < Len(s)) /\ ~(Len(heap[b]) < Len(s) + 1)
      BY <1>4, <1>7
    <3>2. heap' = [copied EXCEPT ![b][Len(s) + 1] = NUL]
      BY <1>7
    <3> DEFINE c == [i \in DOMAIN heap[to] |-> IF i <= Len(s) THEN s[i] ELSE heap[to][i]]
    <3>3. s \in Seq(Bytes) /\ heap[to] \in Seq(Bytes)
      BY <1>1, <1>3, <3>1, DriverAssumption DEF Bytes
    <3> HIDE DEF s, to, b
    <3>4. DOMAIN heap[to] = 1 .. Len(heap[to]) /\ Len(heap[to]) \in Nat /\ Len(s) \in Nat
      BY <3>3
    <3>5. c \in [1 .. Len(heap[to]) -> Bytes]
      <4>1. \A i \in 1 .. Len(heap[to]) : (IF i <= Len(s) THEN s[i] ELSE heap[to][i]) \in Bytes
        BY <3>1, <3>3, <3>4
      <4> QED
        BY <3>4, <4>1
    <3>6. c \in Seq(Bytes) /\ Len(c) = Len(heap[to]) /\ \A i \in 1 .. Len(s) : c[i] = s[i]
      BY <3>1, <3>4, <3>5
    <3>7. copied = [heap EXCEPT ![to] = c]
      OBVIOUS
    <3> HIDE DEF c
    <3>8. /\ copied \in [Bufs -> {NULL} \cup Seq(Bytes)] /\ copied[to] = c
          /\ \A x \in Bufs \ {to} : copied[x] = heap[x]
      BY <1>1, <1>3, <3>6, <3>7
    <3> HIDE DEF copied
    <3>9. /\ copied[b] \in Seq(Bytes) /\ Len(copied[b]) = Len(heap[b])
          /\ Len(s) + 1 \in 1 .. Len(copied[b])
      <4>1. heap[b] \in Seq(Bytes)
        BY <1>1, <3>1
      <4>2. copied[b] \in Seq(Bytes) /\ Len(copied[b]) = Len(heap[b])
        BY <3>1, <3>6, <3>8, <4>1
      <4> QED
        BY <3>1, <3>4, <4>2
    <3> DEFINE e == [copied[b] EXCEPT ![Len(s) + 1] = NUL]
    <3>10. /\ e \in Seq(Bytes) /\ Len(e) = Len(heap[b])
           /\ \A i \in 1 .. Len(s) : e[i] = copied[b][i]
      <4>1. NUL \in Bytes
        BY DEF Bytes
      <4> QED
        BY <3>4, <3>9, <4>1
    <3>11. heap' = [copied EXCEPT ![b] = e]
      BY <3>2
    <3> HIDE DEF e
    <3>12. /\ heap' \in [Bufs -> {NULL} \cup Seq(Bytes)] /\ heap'[b] = e
           /\ \A x \in Bufs \ {b} : heap'[x] = copied[x]
      BY <3>1, <3>8, <3>10, <3>11
    <3>13. \A x \in Bufs : heap'[x] = NULL <=> heap[x] = NULL
      BY <3>1, <3>6, <3>8, <3>10, <3>12, DriverAssumption
    <3> QED
      BY <1>3, <3>1, <3>6, <3>8, <3>10, <3>12, <3>13
  <2> DEFINE d == [OurData[m] EXCEPT !.string_size = Len(s)]
  <2>2. OurData' = [OurData EXCEPT ![m] = d]
    BY <1>7
  <2>3. d \in Datas /\ d.module_string = b /\ d.string_size = Len(s) /\ d.max_size = OurData[m].max_size
    <3>1. Len(s) \in Nat
      BY <1>3, KmallocType
    <3> HIDE DEF m, s
    <3> QED
      BY <1>3, <3>1 DEF Datas
  <2> HIDE DEF d
  <2>4. OurData' \in [Minors -> Datas] /\ OurData'[m] = d
        /\ \A n \in Minors \ {m} : OurData'[n] = OurData[n]
    BY <1>1, <1>3, <2>2, <2>3, DataUpdates
  <2>5. Idle \in Calls
    BY DEF Calls
  <2>6. call' \in [Procs -> Calls] /\ call'[p] = Idle /\ \A q \in Procs \ {p} : call'[q] = call[q]
    BY <1>1, <1>7, <2>5, CallUpdates
  <2> QED
    BY Zenon, <1>1, <1>2, <1>3, <1>4, <1>7, <2>1, <2>3, <2>4, <2>6
<1>8. CASE /\ heap' = kfree(heap, b)
           /\ OurData' = [OurData EXCEPT ![m] = no_string(@)]
           /\ call' = [call EXCEPT ![p] = Idle]
           /\ UNCHANGED <<loaded, filp, broken, world>>
  <2>1. heap' \in [Bufs -> {NULL} \cup Seq(Bytes)]
    BY <1>1, <1>4, <1>8, KfreeType
  <2> QED
    BY Zenon, <1>1, <1>2, <1>3, <1>4, <1>8, <2>1, NoStringEffect
<1> QED
  BY Zenon, <1>5, <1>6, <1>7, <1>8

\* my_read() copies one byte; at the end the position moves by what was delivered.
LEMMA ByteEffect ==
    ASSUME TypeOK, InFile, NEW p \in Procs, copy_byte(p)
    PROVE  LET c == call[p]
               byte == heap[c.module_string][c.string_pos + 1]
               out == Append(c.out, byte)
           IN  /\ loaded /\ ~broken /\ c.pc = "read" /\ c \in Reading
               /\ curr_minor(p) \in Minors
               /\ UNCHANGED <<loaded, OurData, heap, world>>
               /\ call' \in [Procs -> Calls] /\ filp' \in [Procs -> Files]
               /\ \A q \in Procs \ {p} : call'[q] = call[q] /\ filp'[q] = filp[q]
               /\ filp'[p].private_data = filp[p].private_data
               /\ \/ /\ \/ c.module_string = NULL \/ heap[c.module_string] = NULL
                        \/ c.string_pos >= Len(heap[c.module_string])
                     /\ Break
                  \/ /\ broken' = broken
                     /\ c.module_string \in Bufs /\ heap[c.module_string] \in Seq(Bytes)
                     /\ byte \in Bytes /\ out \in Seq(Bytes)
                     /\ \/ /\ Len(out) < c.allowed_bytes /\ Len(out) < c.count
                           /\ filp' = filp
                           /\ call'[p] \in Reading
                           /\ call'[p] = [c EXCEPT !.out = out, !.string_pos = next_pos(c)]
                        \/ /\ Len(out) = c.allowed_bytes \/ Len(out) = c.count
                           /\ call'[p] = Idle
                           /\ filp'[p].f_pos = filp[p].f_pos + Len(out) /\ filp'[p].got = out
                        \/ /\ filp' = filp /\ call'[p] = Idle
<1> DEFINE c == call[p]
           byte == heap[c.module_string][c.string_pos + 1]
           out == Append(c.out, byte)
           bad == \/ c.module_string = NULL \/ heap[c.module_string] = NULL
                  \/ c.string_pos >= Len(heap[c.module_string])
<1>1. /\ loaded /\ ~broken /\ c.pc = "read" /\ call \in [Procs -> Calls]
      /\ filp \in [Procs -> Files] /\ filp[p] \in Files
  BY DEF copy_byte, TypeOK, Calls
<1>2. c \in Reading /\ c # Idle
  BY <1>1, CallForms DEF Idle
<1>3. curr_minor(p) \in Minors
  BY <1>2 DEF InFile
<1>4. CASE bad
  <2>1. Break
    BY Zenon, <1>4 DEF copy_byte
  <2> QED
    BY Zenon, <1>1, <1>2, <1>3, <1>4, <2>1 DEF Break
<1>5. CASE ~bad
  <2>1. /\ c.module_string \in Bufs /\ heap[c.module_string] \in Seq(Bytes)
        /\ byte \in Bytes /\ out \in Seq(Bytes) /\ next_pos(c) \in Nat
    BY <1>1, <1>5, CopyByteType
  <2>2. UNCHANGED <<loaded, OurData, heap, broken, world>>
    BY <1>5 DEF copy_byte
  <2>3. \/ /\ Len(out) < c.allowed_bytes /\ Len(out) < c.count
           /\ call' = [call EXCEPT ![p].out = out, ![p].string_pos = next_pos(c)]
           /\ filp' = filp
        \/ /\ Len(out) = c.allowed_bytes \/ Len(out) = c.count
           /\ read_return(p, out)
        \/ /\ call' = [call EXCEPT ![p] = Idle]
           /\ filp' = filp
    BY Zenon, <1>5 DEF copy_byte
  <2>4. Idle \in Calls
    BY DEF Calls
  <2>5. CASE /\ Len(out) < c.allowed_bytes /\ Len(out) < c.count
             /\ call' = [call EXCEPT ![p].out = out, ![p].string_pos = next_pos(c)]
             /\ filp' = filp
    <3> DEFINE e == [c EXCEPT !.out = out, !.string_pos = next_pos(c)]
    <3>1. call' = [call EXCEPT ![p] = e]
      BY Zenon, <1>1, <2>5
    <3>2. e \in Reading
      <4> HIDE DEF c, out
      <4> QED
        BY Zenon, <1>2, <2>1 DEF Reading
    <3>3. e \in Calls
      BY <3>2 DEF Calls
    <3> HIDE DEF e
    <3>4. /\ call' \in [Procs -> Calls] /\ call'[p] = e
          /\ \A q \in Procs \ {p} : call'[q] = call[q]
      BY <1>1, <3>1, <3>3, CallUpdates
    <3> QED
      BY Zenon, <1>1, <1>2, <1>3, <2>1, <2>2, <2>5, <3>2, <3>4 DEF e
  <2>6. CASE /\ Len(out) = c.allowed_bytes \/ Len(out) = c.count
             /\ read_return(p, out)
    <3> DEFINE f == [filp[p] EXCEPT !.f_pos = @ + Len(out), !.got = out]
    <3>1. filp' = [filp EXCEPT ![p] = f] /\ call' = [call EXCEPT ![p] = Idle]
      BY Zenon, <1>1, <2>6 DEF read_return
    <3>2. /\ f \in Files /\ f.private_data = filp[p].private_data
          /\ f.f_pos = filp[p].f_pos + Len(out) /\ f.got = out
      <4>1. Len(out) \in Nat
        BY <2>1
      <4> DEFINE f1 == [filp[p] EXCEPT !.f_pos = @ + Len(out)]
      <4> HIDE DEF c, out
      <4>2. /\ f1 \in Files /\ f1.private_data = filp[p].private_data
            /\ f1.f_pos = filp[p].f_pos + Len(out)
        BY <1>1, <4>1 DEF Files
      <4>3. f = [f1 EXCEPT !.got = out]
        OBVIOUS
      <4> HIDE DEF f1, f
      <4> QED
        BY Zenon, <2>1, <4>2, <4>3 DEF Files
    <3> HIDE DEF f
    <3>3. /\ call' \in [Procs -> Calls] /\ call'[p] = Idle
          /\ \A q \in Procs \ {p} : call'[q] = call[q]
      BY <1>1, <2>4, <3>1, CallUpdates
    <3>4. /\ filp' \in [Procs -> Files] /\ filp'[p] = f
          /\ \A q \in Procs \ {p} : filp'[q] = filp[q]
      BY <1>1, <3>1, <3>2, FileUpdates
    <3> QED
      BY Zenon, <1>1, <1>2, <1>3, <2>1, <2>2, <2>6, <3>2, <3>3, <3>4
  <2>7. CASE call' = [call EXCEPT ![p] = Idle] /\ filp' = filp
    <3>1. /\ call' \in [Procs -> Calls] /\ call'[p] = Idle
          /\ \A q \in Procs \ {p} : call'[q] = call[q]
      BY <1>1, <2>4, <2>7, CallUpdates
    <3> QED
      BY <1>1, <1>2, <1>3, <2>1, <2>2, <2>7, <3>1
  <2> QED
    BY Zenon, <2>3, <2>5, <2>6, <2>7
<1> QED
  BY Zenon, <1>4, <1>5

-----------------------------------------------------------------------------
(* Types                                                                     *)

\* All variables keep their types, and a process inside the driver its file.
TypeInv == TypeOK /\ InFile

\* TypeOK, with the calls under one name.
LEMMA Typed ==
    TypeOK <=> /\ loaded \in BOOLEAN /\ broken \in BOOLEAN /\ world \in Worlds
               /\ OurData \in [Minors -> Datas]
               /\ heap \in [Bufs -> {NULL} \cup Seq(Bytes)]
               /\ filp \in [Procs -> Files] /\ call \in [Procs -> Calls]
BY DEF TypeOK, Calls

\* The types hold before insmod.
LEMMA InitType == Init => TypeInv
<1> SUFFICES ASSUME Init PROVE TypeInv
  OBVIOUS
<1>1. Fresh \in Datas /\ Closed \in Files /\ Idle \in Calls
  BY DEF Fresh, Datas, Closed, Files, Calls
<1>2. TypeOK
  BY Zenon, <1>1, Typed DEF Init
<1> QED
  BY <1>2 DEF Init, TypeInv, InFile

\* A step of the driver keeps the types, one action at a time.
LEMMA TypeStep == TypeInv /\ [Next]_vars => TypeInv'
<1> SUFFICES ASSUME TypeInv, [Next]_vars PROVE TypeInv'
  OBVIOUS
<1> USE DEF InFile, TypeInv
<1>0. /\ loaded \in BOOLEAN /\ broken \in BOOLEAN /\ world \in Worlds
      /\ OurData \in [Minors -> Datas]
      /\ heap \in [Bufs -> {NULL} \cup Seq(Bytes)]
      /\ filp \in [Procs -> Files] /\ call \in [Procs -> Calls]
  BY Typed
<1>t. TypeOK' <=> (/\ loaded \in BOOLEAN /\ broken \in BOOLEAN /\ world \in Worlds
                   /\ OurData \in [Minors -> Datas]
                   /\ heap \in [Bufs -> {NULL} \cup Seq(Bytes)]
                   /\ filp \in [Procs -> Files] /\ call \in [Procs -> Calls])'
  BY DEF TypeOK, Calls
<1>1. CASE init_module
  <2>1. Fresh \in Datas
    BY DEF Fresh, Datas
  <2> QED
    BY <1>0, <1>1, <2>1, <1>t DEF init_module, curr_minor
<1>2. CASE cleanup_module
  BY Zenon, <1>0, <1>2, <1>t DEF cleanup_module, curr_minor
<1>3. ASSUME NEW p \in Procs, NEW m \in Minors, my_open(p, m) PROVE TypeInv'
  BY <1>0, <1>3, OpenEffect, <1>t DEF curr_minor
<1>4. ASSUME NEW p \in Procs, my_release(p) PROVE TypeInv'
  BY <1>0, <1>4, ReleaseEffect, EntersMinor, <1>t DEF curr_minor
<1>5. ASSUME NEW p \in Procs, call_unloaded(p) \/ set_string_fault(p) PROVE TypeInv'
  BY <1>0, <1>5, <1>t DEF call_unloaded, set_string_fault, Break, curr_minor
<1>6. ASSUME NEW p \in Procs, NEW count \in Counts, my_read(p, count) PROVE TypeInv'
  BY Zenon, <1>0, <1>6, ReadEffect, EntersMinor, <1>t DEF curr_minor
<1>7. ASSUME NEW p \in Procs, NEW count \in Counts, my_write(p, count) PROVE TypeInv'
  BY <1>0, <1>7, WriteEffect, EntersMinor, <1>t DEF curr_minor
<1>8. ASSUME NEW p \in Procs, NEW shift \in Shifts, my_llseek(p, shift) PROVE TypeInv'
  BY <1>0, <1>8, SeekEffect, EntersMinor, <1>t DEF curr_minor
<1>9. ASSUME NEW p \in Procs, reset(p) PROVE TypeInv'
  BY <1>0, <1>9, ResetEffect, EntersMinor, <1>t DEF curr_minor
<1>10. ASSUME NEW p \in Procs, NEW s \in Strings, set_string(p, s) PROVE TypeInv'
  BY <1>0, <1>10, SetEffect, EntersMinor, <1>t DEF curr_minor
<1>11. ASSUME NEW p \in Procs, copy_byte(p) PROVE TypeInv'
  BY Zenon, <1>0, <1>11, ByteEffect, <1>t DEF curr_minor, Break
<1>12. ASSUME NEW p \in Procs, set_string_alloc(p) PROVE TypeInv'
  BY <1>0, <1>12, AllocEffect, <1>t DEF curr_minor
<1>13. ASSUME NEW p \in Procs, set_string_copy(p) PROVE TypeInv'
  BY Zenon, <1>0, <1>13, CopyEffect, <1>t DEF curr_minor, Break
<1>14. CASE UNCHANGED vars
  BY <1>0, <1>14, <1>t DEF vars, curr_minor
<1> QED
  BY <1>1, <1>2, <1>3, <1>4, <1>5, <1>6, <1>7, <1>8, <1>9, <1>10, <1>11, <1>12, <1>13,
     <1>14 DEF Next, Step

\* A process without an open file is not inside the driver.
LEMMA ClosedIdle ==
    ASSUME TypeInv, NEW p \in Procs, filp[p] = Closed
    PROVE  call[p] = Idle
<1>1. filp[p].private_data = NULL
  BY DEF Closed
<1> QED
  BY <1>1, DriverAssumption DEF TypeInv, InFile, curr_minor

-----------------------------------------------------------------------------
(* The inductive invariant                                                   *)

\* Whoever sets the string of a minor is alone with it.
Exclusive ==
    \A p, q \in Procs :
        p # q /\ curr_minor(p) = curr_minor(q) /\ call[p].pc \in {"set", "copy"}
            => call[q].pc \notin {"read", "set", "copy"}

\* A SET_STRING has no buffer yet, or the one that it has allocated.
Setters ==
    loaded =>
        \A p \in Procs :
            LET d == OurData[curr_minor(p)]
            IN  /\ call[p].pc = "set" => d.module_string = NULL
                /\ call[p].pc = "copy" =>
                      /\ d.module_string = call[p].to
                      /\ Len(heap[call[p].to]) = Len(call[p].new_string) + 1

\* Buffers in use and minors with a string belong to each other.
Owners ==
    /\ \A b \in Bufs : heap[b] # NULL <=> \E m \in Minors : loaded /\ OurData[m].module_string = b
    /\ \A m, n \in Minors : loaded /\ OurData[m].module_string # NULL
                            /\ OurData[m].module_string = OurData[n].module_string => m = n

\* Without overlapping calls.
OwnInv == ~Produces("overlap") => Exclusive /\ Setters /\ Owners

\* A string that nobody is setting has its size, and room for the terminator.
Sized ==
    loaded =>
        \A m \in Minors : OurData[m].module_string # NULL /\ ~Setting(m)
            => Len(heap[OurData[m].module_string]) = OurData[m].string_size + 1

\* A read has the pointer and the size that its minor still has.
Readers ==
    \A p \in Procs :
        LET c == call[p]
            d == OurData[curr_minor(p)]
        IN  c.pc = "read" =>
                /\ d.module_string # NULL /\ c.module_string = d.module_string
                /\ c.string_size = d.string_size /\ c.string_pos < c.string_size

\* In the calm.
CalmInv ==
    world.stress = {} =>
        /\ ~broken /\ Sized /\ Readers
        /\ \A p \in Procs : filp[p] # Closed => loaded

\* Positions and sizes stay within the bound on writes.
Bounded ==
    /\ \A m \in Minors : OurData[m].max_size \in 0 .. MaxSize
    /\ \A p \in Procs : filp[p].f_pos \in 0 .. MaxSize

\* What a read has delivered so far is the string over and over from the
\* file's position on, and it is not yet all.
Progress ==
    \A p \in Procs :
        LET c == call[p]
            s == heap[c.module_string]
            pos == filp[p].f_pos
        IN  c.pc = "read" =>
                /\ Len(c.out) < c.allowed_bytes /\ Len(c.out) < c.count
                /\ pos + c.allowed_bytes <= MaxSize
                /\ c.string_pos = (pos + Len(c.out)) % c.string_size
                /\ \A j \in 1 .. Len(c.out) : c.out[j] = s[((pos + j - 1) % c.string_size) + 1]

-----------------------------------------------------------------------------
(* A minor without a string has size 0, in every world.                      *)

\* A minor without a string has no size, after each function.
LEMMA NoSizeStep ==
    ASSUME TypeInv, TypeInv', NoStringNoSize, [Next]_vars
    PROVE  NoStringNoSize'
<1> SUFFICES ASSUME ~broken', NEW n \in Minors, OurData'[n].module_string = NULL,
                    \A q \in Procs : ~(filp'[q].private_data = n /\ call'[q].pc \in {"set", "copy"})
             PROVE  OurData'[n].string_size = 0
  BY DEF NoStringNoSize, Setting, curr_minor
<1>0. /\ ~broken /\ OurData[n].module_string = NULL
      /\ (\A q \in Procs : ~(filp[q].private_data = n /\ call[q].pc \in {"set", "copy"}))
      => OurData[n].string_size = 0
  BY DEF NoStringNoSize, Setting, curr_minor
<1>i. Idle.pc = "idle"
  BY DEF Idle
<1> USE DEF TypeInv
<1>1. CASE init_module
  BY <1>1 DEF init_module, Fresh
<1>2. CASE cleanup_module
  BY <1>0, <1>2 DEF cleanup_module
<1>3. ASSUME NEW p \in Procs, NEW m \in Minors, my_open(p, m) PROVE OurData'[n].string_size = 0
  <2>1. call[p].pc = "idle"
    BY <1>3, <1>i, OpenEffect, ClosedIdle
  <2> QED
    BY <1>0, <1>3, <2>1, OpenEffect
<1>4. ASSUME NEW p \in Procs, my_release(p) PROVE OurData'[n].string_size = 0
  BY <1>0, <1>4, <1>i, ReleaseEffect, EntersMinor
<1>5. ASSUME NEW p \in Procs, call_unloaded(p) \/ set_string_fault(p) PROVE OurData'[n].string_size = 0
  BY <1>5 DEF call_unloaded, set_string_fault, Break
<1>6. ASSUME NEW p \in Procs, NEW count \in Counts, my_read(p, count)
      PROVE  OurData'[n].string_size = 0
  BY Zenon, <1>0, <1>6, <1>i, ReadEffect, EntersMinor DEF curr_minor
<1>7. ASSUME NEW p \in Procs, NEW count \in Counts, my_write(p, count)
      PROVE  OurData'[n].string_size = 0
  BY <1>0, <1>7, WriteEffect
<1>8. ASSUME NEW p \in Procs, NEW shift \in Shifts, my_llseek(p, shift)
      PROVE  OurData'[n].string_size = 0
  BY <1>0, <1>8, SeekEffect DEF curr_minor
<1>9. ASSUME NEW p \in Procs, reset(p) PROVE OurData'[n].string_size = 0
  BY <1>0, <1>9, ResetEffect
<1>10. ASSUME NEW p \in Procs, NEW s \in Strings, set_string(p, s)
       PROVE  OurData'[n].string_size = 0
  BY <1>0, <1>10, <1>i, SetEffect, EntersMinor DEF curr_minor
<1>11. ASSUME NEW p \in Procs, copy_byte(p) PROVE OurData'[n].string_size = 0
  BY Zenon, <1>0, <1>11, <1>i, ByteEffect DEF Break
<1>12. ASSUME NEW p \in Procs, set_string_alloc(p) PROVE OurData'[n].string_size = 0
  <2>1. CASE n = curr_minor(p)
    BY <1>12, <2>1, AllocEffect, DriverAssumption
  <2>2. CASE n # curr_minor(p)
    BY <1>0, <1>12, <2>2, AllocEffect DEF curr_minor
  <2> QED
    BY <2>1, <2>2
<1>13. ASSUME NEW p \in Procs, set_string_copy(p) PROVE OurData'[n].string_size = 0
  <2>1. CASE n = curr_minor(p)
    BY Zenon, <1>13, <2>1, CopyEffect DEF Break
  <2>2. CASE n # curr_minor(p)
    BY ZenonT(40), <1>0, <1>13, <2>2, CopyEffect DEF Break, curr_minor
  <2> QED
    BY <2>1, <2>2
<1>14. CASE UNCHANGED vars
  BY <1>0, <1>14 DEF vars
<1> QED
  BY <1>1, <1>2, <1>3, <1>4, <1>5, <1>6, <1>7, <1>8, <1>9, <1>10, <1>11, <1>12, <1>13,
     <1>14 DEF Next, Step

-----------------------------------------------------------------------------
(* Buffers and minors, in worlds without overlapping calls.                  *)

\* The environment is chosen once.
LEMMA WorldSame == ASSUME TypeInv, [Next]_vars PROVE world' = world
<1> USE DEF TypeInv
<1>1. ASSUME NEW p \in Procs, \/ copy_byte(p) \/ set_string_alloc(p) \/ set_string_copy(p)
                              \/ \E count \in Counts : my_read(p, count)
      PROVE  world' = world
  BY Zenon, <1>1, ByteEffect, AllocEffect, CopyEffect, ReadEffect
<1> QED
  BY Zenon, <1>1 DEF Next, Step, vars, init_module, cleanup_module, my_open, my_release, call_unloaded,
              set_string_fault, Break, my_write, my_llseek, reset, set_string

\* Nobody else is at one of these places in p's minor.
LEMMA Alone ==
    ASSUME NEW p \in Procs, NEW pcs, Others(p, pcs) = {}, NEW q \in Procs, q # p,
           filp[q].private_data = filp[p].private_data
    PROVE  call[q].pc \notin pcs
BY DEF Others, curr_minor

\* Without overlap two processes are never inside calls on the string of one minor.
LEMMA ExclusiveStep ==
    ASSUME TypeInv, ~Produces("overlap"), Exclusive, [Next]_vars
    PROVE  Exclusive'
<1> SUFFICES ASSUME NEW p1 \in Procs, NEW q1 \in Procs, p1 # q1,
                    filp'[p1].private_data = filp'[q1].private_data,
                    call'[p1].pc \in {"set", "copy"}, call'[q1].pc \in {"read", "set", "copy"}
             PROVE  FALSE
  BY DEF Exclusive, curr_minor
<1>0. ~(/\ filp[p1].private_data = filp[q1].private_data
        /\ call[p1].pc \in {"set", "copy"} /\ call[q1].pc \in {"read", "set", "copy"})
  BY DEF Exclusive, curr_minor
<1>i. Idle.pc = "idle" /\ [pc |-> "spin"].pc = "spin"
  BY DEF Idle
<1> USE DEF TypeInv
<1>1. CASE init_module
  BY <1>0, <1>1 DEF init_module
<1>2. CASE cleanup_module
  BY <1>0, <1>2 DEF cleanup_module
<1>3. ASSUME NEW p \in Procs, NEW m \in Minors, my_open(p, m) PROVE FALSE
  <2>1. call[p].pc = "idle"
    BY <1>3, <1>i, OpenEffect, ClosedIdle
  <2> QED
    BY <1>0, <1>3, <2>1, OpenEffect
<1>4. ASSUME NEW p \in Procs, my_release(p) PROVE FALSE
  BY <1>0, <1>4, <1>i, ReleaseEffect, EntersMinor
<1>5. ASSUME NEW p \in Procs, call_unloaded(p) \/ set_string_fault(p) PROVE FALSE
  BY <1>0, <1>5 DEF call_unloaded, set_string_fault, Break
<1>6. ASSUME NEW p \in Procs, NEW count \in Counts, my_read(p, count) PROVE FALSE
  <2>1. Others(p, {"set", "copy"}) = {} /\ call[p].pc = "idle"
    BY Zenon, <1>6, <1>i, ReadEffect, EntersMinor
  <2>2. call'[p].pc \in {"idle", "spin", "read"}
    BY Zenon, <1>6, <1>i, <2>1, ReadEffect DEF Reading
  <2>3. \A q \in Procs : filp'[q].private_data = filp[q].private_data
    BY Zenon, <1>6, ReadEffect DEF curr_minor
  <2>4. q1 = p
    BY Zenon, <1>0, <1>6, <2>2, <2>3, ReadEffect
  <2>5. call[p1].pc \in {"set", "copy"}
    BY Zenon, <1>6, <2>4, ReadEffect
  <2> QED
    BY <2>1, <2>3, <2>4, <2>5, Alone
<1>7. ASSUME NEW p \in Procs, NEW count \in Counts, my_write(p, count) PROVE FALSE
  BY <1>0, <1>7, WriteEffect
<1>8. ASSUME NEW p \in Procs, NEW shift \in Shifts, my_llseek(p, shift) PROVE FALSE
  BY <1>0, <1>8, SeekEffect DEF curr_minor
<1>9. ASSUME NEW p \in Procs, reset(p) PROVE FALSE
  BY <1>0, <1>9, ResetEffect
<1>10. ASSUME NEW p \in Procs, NEW s \in Strings, set_string(p, s) PROVE FALSE
  <2>1. Others(p, {"read", "set", "copy"}) = {} /\ filp' = filp
    BY <1>10, SetEffect
  <2>2. \A q \in Procs \ {p} : call'[q] = call[q]
    BY <1>10, SetEffect
  <2>3. CASE p1 = p
    BY <2>1, <2>2, <2>3, Alone
  <2>4. CASE q1 = p
    BY <2>1, <2>2, <2>4, Alone
  <2> QED
    BY <1>0, <2>1, <2>2, <2>3, <2>4
<1>11. ASSUME NEW p \in Procs, copy_byte(p) PROVE FALSE
  <2>1. call[p].pc = "read" /\ call'[p].pc \in {"idle", "read"}
    BY Zenon, <1>11, <1>i, ByteEffect DEF Reading, Break
  <2> QED
    BY Zenon, <1>0, <1>11, <2>1, ByteEffect
<1>12. ASSUME NEW p \in Procs, set_string_alloc(p) PROVE FALSE
  BY <1>0, <1>12, <1>i, AllocEffect
<1>13. ASSUME NEW p \in Procs, set_string_copy(p) PROVE FALSE
  BY Zenon, <1>0, <1>13, <1>i, CopyEffect DEF Break
<1>14. CASE UNCHANGED vars
  BY <1>0, <1>14 DEF vars
<1> QED
  BY <1>1, <1>2, <1>3, <1>4, <1>5, <1>6, <1>7, <1>8, <1>9, <1>10, <1>11, <1>12, <1>13,
     <1>14 DEF Next, Step

\* Freeing a minor's string leaves all other buffers as they are.
LEMMA KfreeOthers ==
    ASSUME NEW h \in [Bufs -> {NULL} \cup Seq(Bytes)], NEW b \in Bufs \cup {NULL}
    PROVE  /\ \A x \in Bufs : x # b => kfree(h, b)[x] = h[x]
           /\ b # NULL => kfree(h, b)[b] = NULL
BY DEF kfree

\* A SET_STRING that sleeps finds its minor as it left it.
LEMMA SettersStep ==
    ASSUME TypeInv, ~Produces("overlap"), Exclusive, Setters, Owners, [Next]_vars
    PROVE  Setters'
<1> USE DEF TypeInv
<1> DEFINE m(q) == filp[q].private_data
           Goal(q) == /\ call'[q].pc = "set" => OurData'[filp'[q].private_data].module_string = NULL
                      /\ call'[q].pc = "copy" =>
                           /\ OurData'[filp'[q].private_data].module_string = call'[q].to
                           /\ Len(heap'[call'[q].to]) = Len(call'[q].new_string) + 1
<1> SUFFICES ASSUME loaded', NEW q \in Procs, call'[q].pc \in {"set", "copy"} PROVE Goal(q)
  BY DEF Setters, curr_minor
<1>i. Idle.pc = "idle" /\ [pc |-> "spin"].pc = "spin"
  BY DEF Idle
<1>t. /\ heap \in [Bufs -> {NULL} \cup Seq(Bytes)] /\ OurData \in [Minors -> Datas]
      /\ call[q] \in Calls /\ NULL \notin Minors /\ NULL \notin Bufs
  BY Typed, DriverAssumption
<1>0. ASSUME loaded, call[q].pc \in {"set", "copy"}
      PROVE  /\ m(q) \in Minors
             /\ call[q].pc = "set" => OurData[m(q)].module_string = NULL
             /\ call[q].pc = "copy" =>
                   /\ call[q].to \in Bufs /\ OurData[m(q)].module_string = call[q].to
                   /\ heap[call[q].to] # NULL
                   /\ Len(heap[call[q].to]) = Len(call[q].new_string) + 1
  <2>1. m(q) \in Minors
    BY <1>0, <1>i DEF InFile, curr_minor
  <2>2. call[q].pc = "copy" => call[q].to \in Bufs
    BY <1>t, CallForms DEF CopyingString
  <2> QED
    BY <1>0, <2>1, <2>2 DEF Setters, Owners, curr_minor
<1>1. CASE init_module
  BY <1>1, <1>i, ClosedIdle DEF init_module
<1>2. CASE cleanup_module
  BY <1>2 DEF cleanup_module
<1>3. ASSUME NEW p \in Procs, NEW n \in Minors, my_open(p, n) PROVE Goal(q)
  <2>1. call[p].pc = "idle"
    BY Zenon, <1>3, <1>i, OpenEffect, ClosedIdle
  <2> QED
    BY ZenonT(40), <1>0, <1>3, <2>1, OpenEffect
<1>4. ASSUME NEW p \in Procs, my_release(p) PROVE Goal(q)
  BY Zenon, <1>0, <1>4, <1>i, ReleaseEffect, EntersMinor
<1>5. ASSUME NEW p \in Procs, call_unloaded(p) \/ set_string_fault(p) PROVE Goal(q)
  <2>1. loaded' = loaded /\ OurData' = OurData /\ heap' = heap /\ filp' = filp /\ call' = call
    BY <1>5 DEF call_unloaded, set_string_fault, Break
  <2>2. loaded
    BY <2>1
  <2>3. call[q].pc \in {"set", "copy"}
    BY <2>1
  <2> QED
    BY <1>0, <2>1, <2>2, <2>3
<1>6. ASSUME NEW p \in Procs, NEW count \in Counts, my_read(p, count) PROVE Goal(q)
  <2>0. loaded /\ call[p].pc = "idle"
    BY Zenon, <1>6, <1>i, ReadEffect, EntersMinor
  <2>1. loaded /\ call'[p].pc \in {"idle", "spin", "read"}
    BY Zenon, <1>6, <1>i, <2>0, ReadEffect DEF Reading
  <2> QED
    BY Zenon, <1>0, <1>6, <2>1, ReadEffect
<1>7. ASSUME NEW p \in Procs, NEW count \in Counts, my_write(p, count) PROVE Goal(q)
  BY ZenonT(40), <1>0, <1>7, WriteEffect, EntersMinor
<1>8. ASSUME NEW p \in Procs, NEW shift \in Shifts, my_llseek(p, shift) PROVE Goal(q)
  BY Zenon, <1>0, <1>8, SeekEffect, EntersMinor DEF curr_minor
<1>9. ASSUME NEW p \in Procs, reset(p) PROVE Goal(q)
  <2>1. /\ Others(p, {"read", "set", "copy"}) = {} /\ filp' = filp /\ call' = call
        /\ loaded /\ call[p].pc = "idle" /\ m(p) \in Minors
        /\ OurData[m(p)].module_string \in Bufs \cup {NULL}
        /\ heap' = kfree(heap, OurData[m(p)].module_string)
        /\ \A n \in Minors \ {m(p)} : OurData'[n] = OurData[n]
    BY Zenon, <1>9, <1>i, ResetEffect, EntersMinor DEF curr_minor
  <2>2. m(q) # m(p)
    BY <2>1, Alone
  <2>3. call[q].pc = "copy" => heap'[call[q].to] = heap[call[q].to]
    BY <1>0, <1>t, <2>1, <2>2, KfreeOthers DEF Owners
  <2> QED
    BY Zenon, <1>0, <2>1, <2>2, <2>3
<1>10. ASSUME NEW p \in Procs, NEW s \in Strings, set_string(p, s) PROVE Goal(q)
  <2>1. /\ Others(p, {"read", "set", "copy"}) = {} /\ filp' = filp
        /\ loaded /\ call[p].pc = "idle" /\ m(p) \in Minors
        /\ OurData[m(p)].module_string \in Bufs \cup {NULL}
        /\ heap' = kfree(heap, OurData[m(p)].module_string)
        /\ \A n \in Minors \ {m(p)} : OurData'[n] = OurData[n]
        /\ OurData'[m(p)].module_string = NULL /\ call'[p].pc = "set"
        /\ \A x \in Procs \ {p} : call'[x] = call[x]
    BY Zenon, <1>10, <1>i, SetEffect, EntersMinor DEF curr_minor
  <2>2. CASE q = p
    BY Zenon, <2>1, <2>2
  <2>3. CASE q # p
    <3>1. m(q) # m(p)
      BY <2>1, <2>3, Alone
    <3>2. call[q].pc = "copy" => heap'[call[q].to] = heap[call[q].to]
      BY <1>0, <1>t, <2>1, <2>3, <3>1, KfreeOthers DEF Owners
    <3> QED
      BY Zenon, <1>0, <2>1, <2>3, <3>1, <3>2
  <2> QED
    BY <2>2, <2>3
<1>11. ASSUME NEW p \in Procs, copy_byte(p) PROVE Goal(q)
  <2>1. call[p].pc = "read" /\ call'[p].pc \in {"idle", "read"}
    BY Zenon, <1>11, <1>i, ByteEffect DEF Reading, Break
  <2> QED
    BY Zenon, <1>0, <1>11, <2>1, ByteEffect
<1>12. ASSUME NEW p \in Procs, set_string_alloc(p) PROVE Goal(q)
  <2>1. /\ filp' = filp /\ loaded /\ call[p].pc = "set" /\ m(p) \in Minors
        /\ \A n \in Minors \ {m(p)} : OurData'[n] = OurData[n]
        /\ \A x \in Procs \ {p} : call'[x] = call[x]
        /\ call[p].new_string \in Strings
    BY Zenon, <1>12, AllocEffect DEF curr_minor, SettingString
  <2>2. CASE q = p
    <3>1. PICK b \in Bufs : /\ heap' = [heap EXCEPT ![b] = kmalloc(call[p].new_string)]
                            /\ OurData'[m(p)].module_string = b
                            /\ call'[p].pc = "copy" /\ call'[p].to = b
                            /\ call'[p].new_string = call[p].new_string
      BY Zenon, <1>12, <1>i, <2>2, AllocEffect DEF curr_minor
    <3>2. Len(heap'[b]) = Len(call[p].new_string) + 1
      BY <1>t, <2>1, <3>1, KmallocType
    <3> QED
      BY <2>1, <2>2, <3>1, <3>2
  <2>3. CASE q # p
    <3>1. m(q) # m(p)
      BY <2>1, <2>3 DEF Exclusive, curr_minor
    <3>2. call[q].pc = "copy" => heap'[call[q].to] = heap[call[q].to]
      BY <1>0, <1>12, <1>t, <2>1, <2>3, AllocEffect
    <3> QED
      BY <1>0, <2>1, <2>3, <3>1, <3>2
  <2> QED
    BY <2>2, <2>3
<1>13. ASSUME NEW p \in Procs, set_string_copy(p) PROVE Goal(q)
  <2>1. /\ filp' = filp /\ loaded /\ call[p].pc = "copy" /\ m(p) \in Minors
        /\ OurData[m(p)].module_string \in Bufs \cup {NULL}
        /\ call[p].to = OurData[m(p)].module_string
    BY Zenon, <1>13, CopyEffect DEF curr_minor, Setters
  <2>2. CASE Break
    BY <1>0, <2>1, <2>2 DEF Break
  <2>3. CASE ~Break
    <3>1. /\ call'[p] = Idle /\ \A x \in Procs \ {p} : call'[x] = call[x]
          /\ \A n \in Minors \ {m(p)} : OurData'[n] = OurData[n]
          /\ \A x \in Bufs : x # OurData[m(p)].module_string => heap'[x] = heap[x]
      <4>1. /\ call'[p] = Idle /\ \A x \in Procs \ {p} : call'[x] = call[x]
            /\ \A n \in Minors \ {m(p)} : OurData'[n] = OurData[n]
            /\ \/ \A x \in Bufs \ {call[p].to, OurData[m(p)].module_string} : heap'[x] = heap[x]
               \/ heap' = kfree(heap, OurData[m(p)].module_string)
        BY Zenon, <1>13, <2>3, CopyEffect DEF curr_minor
      <4>2. \A x \in Bufs : x # OurData[m(p)].module_string =>
                kfree(heap, OurData[m(p)].module_string)[x] = heap[x]
        BY Zenon, <1>t, <2>1, KfreeOthers
      <4>3. \A x \in Bufs : x # OurData[m(p)].module_string => heap'[x] = heap[x]
        BY Zenon, <2>1, <4>1, <4>2
      <4> QED
        BY Zenon, <4>1, <4>3
    <3>2. q # p
      BY <1>i, <3>1
    <3>3. m(q) # m(p)
      BY <2>1, <3>1, <3>2 DEF Exclusive, curr_minor
    <3>4. call[q].pc = "copy" => heap'[call[q].to] = heap[call[q].to]
      BY <1>0, <2>1, <3>1, <3>2, <3>3, <1>t DEF Owners
    <3> QED
      BY Zenon, <1>0, <2>1, <3>1, <3>2, <3>3, <3>4
  <2> QED
    BY <2>2, <2>3
<1>14. CASE UNCHANGED vars
  BY <1>0, <1>14 DEF vars
<1> QED
  BY Zenon, <1>1, <1>2, <1>3, <1>4, <1>5, <1>6, <1>7, <1>8, <1>9, <1>10, <1>11, <1>12, <1>13,
     <1>14 DEF Next, Step

\* Every step keeps that each buffer in use has exactly one minor that points to it.
LEMMA OwnersStep ==
    ASSUME TypeInv, ~Produces("overlap"), Exclusive, Setters, Owners, [Next]_vars
    PROVE  Owners'
<1> USE DEF TypeInv
<1> DEFINE m(q) == filp[q].private_data
<1>t. /\ heap \in [Bufs -> {NULL} \cup Seq(Bytes)] /\ OurData \in [Minors -> Datas]
      /\ NULL \notin Minors /\ NULL \notin Bufs
  BY Typed, DriverAssumption
\* The strings and the buffers are as before.
<1>same. ASSUME loaded' = loaded, heap' = heap,
                \A n \in Minors : OurData'[n].module_string = OurData[n].module_string
         PROVE  Owners'
  BY <1>same DEF Owners
\* A minor loses its string, and the buffer is freed.
<1>free. ASSUME NEW n \in Minors, loaded, loaded', OurData[n].module_string \in Bufs \cup {NULL},
                heap' = kfree(heap, OurData[n].module_string),
                OurData'[n].module_string = NULL,
                \A x \in Minors \ {n} : OurData'[x] = OurData[x]
         PROVE  Owners'
  <2>1. /\ \A x \in Bufs : x # OurData[n].module_string => heap'[x] = heap[x]
        /\ OurData[n].module_string # NULL => heap'[OurData[n].module_string] = NULL
    BY <1>free, <1>t, KfreeOthers
  <2>2. \A b \in Bufs : heap'[b] # NULL <=> \E x \in Minors : OurData'[x].module_string = b
    BY <1>free, <1>t, <2>1 DEF Owners
  <2>3. \A x, y \in Minors : OurData'[x].module_string # NULL
                             /\ OurData'[x].module_string = OurData'[y].module_string => x = y
    BY <1>free DEF Owners
  <2> QED
    BY <1>free, <2>2, <2>3 DEF Owners
<1>1. CASE init_module
  <2>1. /\ \A n \in Minors : OurData'[n].module_string = NULL
        /\ heap' = heap /\ ~loaded
    BY <1>1 DEF init_module, Fresh
  <2> QED
    BY <1>t, <2>1 DEF Owners
<1>2. CASE cleanup_module
  BY <1>2, <1>t DEF cleanup_module, Owners
<1>3. ASSUME NEW p \in Procs, NEW n \in Minors, my_open(p, n) PROVE Owners'
  BY <1>3, <1>same, OpenEffect
<1>4. ASSUME NEW p \in Procs, my_release(p) PROVE Owners'
  BY <1>4, <1>same, ReleaseEffect
<1>5. ASSUME NEW p \in Procs, call_unloaded(p) \/ set_string_fault(p) PROVE Owners'
  BY <1>5, <1>same DEF call_unloaded, set_string_fault, Break
<1>6. ASSUME NEW p \in Procs, NEW count \in Counts, my_read(p, count) PROVE Owners'
  BY Zenon, <1>6, <1>same, ReadEffect
<1>7. ASSUME NEW p \in Procs, NEW count \in Counts, my_write(p, count) PROVE Owners'
  BY <1>7, <1>same, WriteEffect
<1>8. ASSUME NEW p \in Procs, NEW shift \in Shifts, my_llseek(p, shift) PROVE Owners'
  BY <1>8, <1>same, SeekEffect
<1>9. ASSUME NEW p \in Procs, reset(p) PROVE Owners'
  BY <1>9, <1>free, ResetEffect, EntersMinor
<1>10. ASSUME NEW p \in Procs, NEW s \in Strings, set_string(p, s) PROVE Owners'
  BY <1>10, <1>free, SetEffect, EntersMinor
<1>11. ASSUME NEW p \in Procs, copy_byte(p) PROVE Owners'
  BY Zenon, <1>11, <1>same, ByteEffect
<1>12. ASSUME NEW p \in Procs, set_string_alloc(p) PROVE Owners'
  <2>1. /\ loaded /\ loaded' /\ m(p) \in Minors /\ OurData[m(p)].module_string = NULL
        /\ \A n \in Minors \ {m(p)} : OurData'[n] = OurData[n]
        /\ call[p].new_string \in Strings
    BY <1>12, AllocEffect DEF curr_minor, SettingString, Setters
  <2>2. ASSUME NEW b \in Bufs, heap[b] = NULL, OurData'[m(p)].module_string = b,
               heap' = [heap EXCEPT ![b] = kmalloc(call[p].new_string)]
        PROVE  Owners'
    <3>1. heap'[b] # NULL /\ \A x \in Bufs \ {b} : heap'[x] = heap[x]
      BY <1>t, <2>1, <2>2, KmallocType
    <3>2. \A x \in Bufs : heap'[x] # NULL <=> \E n \in Minors : OurData'[n].module_string = x
      BY <1>t, <2>1, <2>2, <3>1 DEF Owners
    <3>3. \A x, y \in Minors : OurData'[x].module_string # NULL
                               /\ OurData'[x].module_string = OurData'[y].module_string => x = y
      BY <1>t, <2>1, <2>2 DEF Owners
    <3> QED
      BY <2>1, <3>2, <3>3 DEF Owners
  <2>3. CASE heap' = heap /\ OurData'[m(p)].module_string = NULL
    BY <1>same, <2>1, <2>3
  <2> QED
    BY <1>12, <2>2, <2>3, AllocEffect DEF curr_minor
<1>13. ASSUME NEW p \in Procs, set_string_copy(p) PROVE Owners'
  <2>1. /\ loaded /\ loaded' /\ m(p) \in Minors
        /\ OurData[m(p)].module_string \in Bufs \cup {NULL}
    <3>1. loaded /\ loaded' = loaded
      BY Zenon, <1>13, CopyEffect
    <3>2. m(p) \in Minors /\ OurData[m(p)].module_string \in Bufs \cup {NULL}
      BY Zenon, <1>13, CopyEffect DEF curr_minor
    <3>3. loaded'
      BY <3>1
    <3> QED
      BY Zenon, <3>1, <3>2, <3>3
  <2>2. CASE Break
    BY <1>same, <2>2 DEF Break
  <2>3. ASSUME OurData'[m(p)].module_string = OurData[m(p)].module_string,
               \A n \in Minors \ {m(p)} : OurData'[n] = OurData[n],
               \A x \in Bufs : heap'[x] = NULL <=> heap[x] = NULL
        PROVE  Owners'
    BY <2>1, <2>3 DEF Owners
  <2> QED
    BY Zenon, <1>13, <1>free, <2>1, <2>2, <2>3, CopyEffect DEF curr_minor
<1>14. CASE UNCHANGED vars
  BY <1>same, <1>14 DEF vars
<1> QED
  BY <1>1, <1>2, <1>3, <1>4, <1>5, <1>6, <1>7, <1>8, <1>9, <1>10, <1>11, <1>12, <1>13,
     <1>14 DEF Next, Step

\* Together.
LEMMA OwnStep == ASSUME TypeInv, OwnInv, [Next]_vars PROVE OwnInv'
BY WorldSame, ExclusiveStep, SettersStep, OwnersStep DEF OwnInv, Produces

\* Nobody owns a buffer at the beginning.
LEMMA InitOwn == ASSUME Init PROVE OwnInv
<1>1. \A p \in Procs : call[p].pc = "idle"
  BY DEF Init, Idle
<1>2. \A n \in Minors : OurData[n].module_string = NULL
  BY DEF Init, Fresh
<1> QED
  BY <1>1, <1>2, DriverAssumption DEF OwnInv, Exclusive, Setters, Owners, Init

-----------------------------------------------------------------------------
(* Nothing breaks in the calm.                                               *)

\* The world is calm, and the invariant holds.
Calm == /\ TypeInv /\ world.stress = {} /\ ~broken
        /\ NoStringNoSize /\ Exclusive /\ Setters /\ Owners /\ Sized /\ Readers
        /\ \A p \in Procs : filp[p] # Closed => loaded

\* No situation is produced.
LEMMA CalmProduces == ASSUME Calm, NEW x PROVE ~Produces(x)
BY DEF Calm, Produces

\* A reader's buffer is there, with the string that it reads.
LEMMA ReaderBuffer ==
    ASSUME Calm, NEW p \in Procs, call[p].pc = "read", loaded
    PROVE  /\ call[p] \in Reading /\ curr_minor(p) \in Minors
           /\ call[p].module_string \in Bufs
           /\ call[p].module_string = OurData[curr_minor(p)].module_string
           /\ call[p].string_size = OurData[curr_minor(p)].string_size
           /\ call[p].string_pos < call[p].string_size
           /\ heap[call[p].module_string] # NULL /\ heap[call[p].module_string] \in Seq(Bytes)
           /\ Len(heap[call[p].module_string]) = call[p].string_size + 1
           /\ ~Setting(curr_minor(p))
<1> USE DEF Calm, TypeInv
<1>1. call[p] \in Reading /\ call[p] # Idle
  BY CallForms, Typed DEF Idle
<1>2. curr_minor(p) \in Minors
  BY <1>1 DEF InFile
<1>3. call[p].module_string \in Bufs
  BY <1>1 DEF Reading, Readers
<1>4. heap[call[p].module_string] # NULL /\ heap[call[p].module_string] \in Seq(Bytes)
  BY <1>2, <1>3, Typed DEF Owners, Readers
<1>5. ~Setting(curr_minor(p))
  BY DEF Setting, Exclusive
<1>6. Len(heap[call[p].module_string]) = call[p].string_size + 1
  BY <1>2, <1>5 DEF Sized, Readers
<1> QED
  BY <1>1, <1>2, <1>3, <1>4, <1>5, <1>6 DEF Readers

\* A SET_STRING's buffer is there, with room for the string and the terminator.
LEMMA CopyBuffer ==
    ASSUME Calm, NEW p \in Procs, call[p].pc = "copy", loaded
    PROVE  /\ call[p] \in CopyingString /\ curr_minor(p) \in Minors
           /\ call[p].to \in Bufs /\ call[p].to = OurData[curr_minor(p)].module_string
           /\ heap[call[p].to] # NULL /\ Len(heap[call[p].to]) = Len(call[p].new_string) + 1
           /\ Len(call[p].new_string) \in Nat
<1> USE DEF Calm, TypeInv
<1>1. call[p] \in CopyingString /\ call[p] # Idle
  BY CallForms, Typed DEF Idle
<1>2. curr_minor(p) \in Minors
  BY <1>1 DEF InFile
<1>3. call[p].to \in Bufs /\ call[p].new_string \in Strings
  BY <1>1 DEF CopyingString
<1> QED
  BY <1>1, <1>2, <1>3, KmallocType DEF Setters, Owners

\* The end of SET_STRING in the calm.
LEMMA CalmCopy ==
    ASSUME Calm, NEW p \in Procs, set_string_copy(p)
    PROVE  LET m == curr_minor(p)
               s == call[p].new_string
               b == call[p].to
           IN  /\ loaded /\ call[p].pc = "copy" /\ m \in Minors
               /\ s \in Strings /\ Len(s) \in Nat
               /\ b \in Bufs /\ b = OurData[m].module_string
               /\ UNCHANGED <<loaded, filp, broken, world>>
               /\ OurData' \in [Minors -> Datas]
               /\ heap' \in [Bufs -> {NULL} \cup Seq(Bytes)]
               /\ call'[p] = Idle /\ \A q \in Procs \ {p} : call'[q] = call[q]
               /\ \A n \in Minors \ {m} : OurData'[n] = OurData[n]
               /\ OurData'[m].max_size = OurData[m].max_size
               /\ \A x \in Bufs \ {b} : heap'[x] = heap[x]
               /\ \/ /\ OurData'[m].string_size = Len(s) /\ OurData'[m].module_string = b
                     /\ heap'[b] # NULL /\ Len(heap'[b]) = Len(s) + 1
                     /\ \A i \in 1 .. Len(s) : heap'[b][i] = s[i]
                  \/ /\ OurData'[m].string_size = 0 /\ OurData'[m].module_string = NULL
                     /\ heap'[b] = NULL
<1> USE DEF Calm, TypeInv
<1> DEFINE m == curr_minor(p)
           s == call[p].new_string
           b == call[p].to
<1>1. loaded /\ call[p].pc = "copy"
  BY Zenon, CopyEffect
<1>2. /\ m \in Minors /\ b \in Bufs /\ b = OurData[m].module_string
      /\ heap[b] # NULL /\ Len(heap[b]) = Len(s) + 1
      /\ s \in Strings /\ Len(s) \in Nat /\ NULL \notin Bufs
      /\ heap \in [Bufs -> {NULL} \cup Seq(Bytes)]
  BY <1>1, CopyBuffer, Typed, DriverAssumption DEF CopyingString
<1>3. /\ UNCHANGED <<loaded, filp, broken, world>>
      /\ OurData' \in [Minors -> Datas]
      /\ heap' \in [Bufs -> {NULL} \cup Seq(Bytes)]
      /\ call'[p] = Idle /\ \A q \in Procs \ {p} : call'[q] = call[q]
      /\ \A n \in Minors \ {m} : OurData'[n] = OurData[n]
      /\ OurData'[m].max_size = OurData[m].max_size
      /\ \/ /\ OurData'[m].string_size = Len(s) /\ OurData'[m].module_string = b
            /\ \A x \in Bufs \ {b} : heap'[x] = heap[x]
            /\ heap'[b] # NULL /\ Len(heap'[b]) = Len(s) + 1
            /\ \A i \in 1 .. Len(s) : heap'[b][i] = s[i]
         \/ /\ heap' = kfree(heap, b)
            /\ OurData'[m].string_size = 0 /\ OurData'[m].module_string = NULL
  <2>1. ~(Len(heap[b]) < Len(s)) /\ ~(Len(heap[b]) < Len(s) + 1)
    BY <1>2
  <2>2. b # NULL
    BY <1>2
  <2>3. ~(\/ heap[b] = NULL \/ Len(heap[b]) < Len(s)
          \/ b = NULL \/ heap[b] = NULL \/ Len(heap[b]) < Len(s) + 1)
    BY Zenon, <1>2, <2>1, <2>2
  <2>4. /\ UNCHANGED <<loaded, filp, world>> /\ OurData' \in [Minors -> Datas]
        /\ heap' \in [Bufs -> {NULL} \cup Seq(Bytes)]
    BY Zenon, CopyEffect
  <2>5. /\ broken' = broken /\ call'[p] = Idle
        /\ \A q \in Procs \ {p} : call'[q] = call[q]
        /\ \A n \in Minors \ {m} : OurData'[n] = OurData[n]
        /\ OurData'[m].max_size = OurData[m].max_size
        /\ \/ /\ OurData'[m].string_size = Len(s) /\ OurData'[m].module_string = b
              /\ \A x \in Bufs \ {b} : heap'[x] = heap[x]
              /\ \A x \in Bufs : heap'[x] = NULL <=> heap[x] = NULL
              /\ Len(heap'[b]) = Len(heap[b]) /\ \A i \in 1 .. Len(s) : heap'[b][i] = s[i]
           \/ /\ heap' = kfree(heap, b)
              /\ OurData'[m].string_size = 0 /\ OurData'[m].module_string = NULL
    <3>1. OurData[m].module_string = b
      BY <1>2
    <3>2. ~Break => /\ broken' = broken /\ call'[p] = Idle
                    /\ \A q \in Procs \ {p} : call'[q] = call[q]
                    /\ \A n \in Minors \ {m} : OurData'[n] = OurData[n]
                    /\ OurData'[m].max_size = OurData[m].max_size
      BY Zenon, CopyEffect
    <3>3. ~Break
      BY Zenon, <2>3, <3>1, CopyEffect DEF Break
    <3>4. \/ /\ OurData'[m].string_size = Len(s) /\ OurData'[m].module_string = b
             /\ \A x \in Bufs \ {b} : heap'[x] = heap[x]
             /\ \A x \in Bufs : heap'[x] = NULL <=> heap[x] = NULL
             /\ Len(heap'[b]) = Len(heap[b]) /\ \A i \in 1 .. Len(s) : heap'[b][i] = s[i]
          \/ /\ heap' = kfree(heap, b)
             /\ OurData'[m].string_size = 0 /\ OurData'[m].module_string = NULL
      <4> DEFINE o == OurData[m].module_string
      <4>1. \/ /\ OurData'[m].string_size = Len(s) /\ OurData'[m].module_string = o
               /\ \A x \in Bufs \ {b, o} : heap'[x] = heap[x]
               /\ \A x \in Bufs : heap'[x] = NULL <=> heap[x] = NULL
               /\ b = o => Len(heap'[o]) = Len(heap[o]) /\ \A i \in 1 .. Len(s) : heap'[o][i] = s[i]
            \/ /\ heap' = kfree(heap, o)
               /\ OurData'[m].string_size = 0 /\ OurData'[m].module_string = NULL
        BY Zenon, <3>3, CopyEffect
      <4>2. o = b
        BY <3>1
      <4> HIDE DEF o, b, s, m
      <4> QED
        BY ONLY <4>1, <4>2
    <3> QED
      BY Zenon, <3>2, <3>3, <3>4
  <2> QED
    BY Zenon, <1>2, <2>4, <2>5
<1>4. (\A x \in Bufs \ {b} : kfree(heap, b)[x] = heap[x]) /\ kfree(heap, b)[b] = NULL
  BY <1>2, KfreeOthers
<1> QED
  BY Zenon, <1>1, <1>2, <1>3, <1>4

\* Without the situations no function follows a bad pointer or spins.
LEMMA NotBrokenStep ==
    ASSUME Calm, [Next]_vars
    PROVE  ~broken'
<1> USE DEF Calm, TypeInv
<1>1. ASSUME NEW p \in Procs, call_unloaded(p) \/ set_string_fault(p) PROVE FALSE
  <2>1. ~Produces("bad_pointer")
    BY CalmProduces
  <2> QED
    BY <1>1, <2>1 DEF call_unloaded, set_string_fault
<1>2. ASSUME NEW p \in Procs, NEW count \in Counts, my_read(p, count) PROVE ~broken'
  <2>1. ~Produces("read_without_string")
    BY CalmProduces
  <2>2. OurData[curr_minor(p)].string_size # 0
    BY <1>2, <2>1 DEF my_read
  <2>3. broken' = broken
    BY Zenon, <1>2, <2>2, ReadEffect
  <2> QED
    BY <2>3
<1>3. ASSUME NEW p \in Procs, copy_byte(p) PROVE ~broken'
  <2>1. loaded /\ call[p].pc = "read"
    BY Zenon, <1>3, ByteEffect
  <2>2. /\ call[p].module_string \in Bufs /\ heap[call[p].module_string] # NULL
        /\ ~(call[p].string_pos >= Len(heap[call[p].module_string]))
    BY <2>1, ReaderBuffer DEF Reading
  <2> QED
    BY Zenon, <1>3, <2>2, ByteEffect, DriverAssumption
<1>4. ASSUME NEW p \in Procs, set_string_alloc(p) PROVE ~broken'
  BY <1>4, AllocEffect
<1>5. ASSUME NEW p \in Procs, set_string_copy(p) PROVE ~broken'
  BY <1>5, CalmCopy
<1> QED
  BY Zenon, <1>1, <1>2, <1>3, <1>4, <1>5 DEF Next, Step, vars, init_module, cleanup_module, my_open,
     my_release, my_write, my_llseek, reset, set_string

\* rmmod waits until no file is open.
LEMMA LoadedStep ==
    ASSUME Calm, [Next]_vars
    PROVE  \A p \in Procs : filp'[p] # Closed => loaded'
<1> USE DEF Calm, TypeInv
<1>1. CASE cleanup_module
  BY <1>1, CalmProduces DEF cleanup_module
<1>2. ASSUME NEW p \in Procs, set_string_alloc(p) PROVE loaded'
  BY <1>2, AllocEffect
<1>3. ASSUME NEW p \in Procs, set_string_copy(p) PROVE loaded'
  <2>1. loaded /\ loaded' = loaded
    BY Zenon, <1>3, CopyEffect
  <2> QED
    BY <2>1
<1>4. ASSUME NEW p \in Procs, copy_byte(p) PROVE loaded'
  BY Zenon, <1>4 DEF copy_byte, Break
<1>5. ASSUME NEW p \in Procs, NEW n \in Counts, my_read(p, n) PROVE loaded'
  BY Zenon, <1>5, ReadEffect, EntersMinor
<1>6. ASSUME NEW p \in Procs, \/ reset(p) \/ \E s \in Strings : set_string(p, s)
                              \/ \E n \in Counts : my_write(p, n)
                              \/ \E n \in Shifts : my_llseek(p, n)
                              \/ my_release(p)
      PROVE  loaded'
  BY <1>6 DEF Enters, reset, set_string, my_write, my_llseek, my_release
<1> QED
  BY <1>1, <1>2, <1>3, <1>4, <1>5, <1>6 DEF Next, Step, vars, init_module, my_open,
     call_unloaded, set_string_fault, Break

\* Without the situations the buffer of a minor has room for its string and the terminator.
LEMMA SizedStep ==
    ASSUME Calm, [Next]_vars
    PROVE  Sized'
<1> USE DEF Calm, TypeInv
<1> DEFINE m(q) == filp[q].private_data
           Busy(n) == \E q \in Procs : m(q) = n /\ call[q].pc \in {"set", "copy"}
<1> SUFFICES ASSUME loaded', NEW n \in Minors, OurData'[n].module_string # NULL,
                    \A q \in Procs : ~(filp'[q].private_data = n /\ call'[q].pc \in {"set", "copy"})
             PROVE  Len(heap'[OurData'[n].module_string]) = OurData'[n].string_size + 1
  BY DEF Sized, Setting, curr_minor
<1> DEFINE Goal == Len(heap'[OurData'[n].module_string]) = OurData'[n].string_size + 1
<1>0. loaded /\ OurData[n].module_string # NULL /\ ~Busy(n)
      => Len(heap[OurData[n].module_string]) = OurData[n].string_size + 1
  BY DEF Sized, Setting, curr_minor
<1>i. Idle.pc = "idle"
  BY DEF Idle
<1>t. /\ heap \in [Bufs -> {NULL} \cup Seq(Bytes)] /\ OurData \in [Minors -> Datas]
      /\ OurData[n].module_string \in Bufs \cup {NULL}
      /\ NULL \notin Minors /\ NULL \notin Bufs
  BY Typed, DriverAssumption DEF Datas
\* Nothing but the other minors' buffers has changed.
<1>same. ASSUME loaded, ~Busy(n), OurData'[n].module_string = OurData[n].module_string,
                OurData'[n].string_size = OurData[n].string_size,
                heap'[OurData[n].module_string] = heap[OurData[n].module_string]
         PROVE  Goal
  BY <1>0, <1>same
<1>1. CASE init_module
  BY <1>1 DEF init_module, Fresh
<1>2. CASE cleanup_module
  BY <1>2 DEF cleanup_module
<1>3. ASSUME NEW p \in Procs, NEW x \in Minors, my_open(p, x) PROVE Goal
  <2>1. call[p].pc = "idle"
    BY Zenon, <1>3, <1>i, OpenEffect, ClosedIdle
  <2>2. ASSUME NEW q \in Procs, m(q) = n, call[q].pc \in {"set", "copy"} PROVE FALSE
    <3>1. q # p
      BY <2>1, <2>2
    <3>2. filp'[q] = filp[q]
      BY <1>3, <3>1, Typed DEF my_open
    <3>3. call' = call
      BY <1>3 DEF my_open
    <3> QED
      BY <2>2, <3>2, <3>3
  <2>3. loaded /\ ~Busy(n)
    BY Zenon, <1>3, <2>2, OpenEffect
  <2> QED
    BY <1>3, <1>same, <2>3, OpenEffect
<1>4. ASSUME NEW p \in Procs, my_release(p) PROVE Goal
  <2>1. ~Busy(n) /\ loaded
    BY Zenon, <1>4, <1>i, ReleaseEffect, EntersMinor
  <2> QED
    BY <1>4, <1>same, <2>1, ReleaseEffect
<1>5. ASSUME NEW p \in Procs, call_unloaded(p) \/ set_string_fault(p) PROVE Goal
  <2>1. ~Produces("bad_pointer")
    BY CalmProduces
  <2> QED
    BY <1>5, <2>1 DEF call_unloaded, set_string_fault
<1>6. ASSUME NEW p \in Procs, NEW count \in Counts, my_read(p, count) PROVE Goal
  <2>1. ~Busy(n) /\ loaded
    BY Zenon, <1>6, <1>i, ReadEffect, EntersMinor DEF curr_minor
  <2> QED
    BY Zenon, <1>6, <1>same, <2>1, ReadEffect
<1>7. ASSUME NEW p \in Procs, NEW count \in Counts, my_write(p, count) PROVE Goal
  <2>1. ~Busy(n) /\ loaded
    BY Zenon, <1>7, WriteEffect, EntersMinor
  <2> QED
    BY Zenon, <1>7, <1>same, <2>1, WriteEffect
<1>8. ASSUME NEW p \in Procs, NEW shift \in Shifts, my_llseek(p, shift) PROVE Goal
  <2>1. ~Busy(n) /\ loaded
    BY Zenon, <1>8, SeekEffect, EntersMinor DEF curr_minor
  <2> QED
    BY <1>8, <1>same, <2>1, SeekEffect
<1>9. ASSUME NEW p \in Procs, reset(p) PROVE Goal
  <2>1. /\ ~Busy(n) /\ loaded /\ curr_minor(p) \in Minors /\ n # curr_minor(p)
        /\ OurData'[n] = OurData[n]
        /\ OurData[curr_minor(p)].module_string \in Bufs \cup {NULL}
    BY Zenon, <1>9, ResetEffect, EntersMinor
  <2>2. heap'[OurData[n].module_string] = heap[OurData[n].module_string]
    BY <1>9, <1>t, <2>1, ResetEffect, KfreeOthers DEF Owners
  <2> QED
    BY <1>same, <2>1, <2>2
<1>10. ASSUME NEW p \in Procs, NEW s \in Strings, set_string(p, s) PROVE Goal
  <2>1. /\ ~Busy(n) /\ loaded /\ curr_minor(p) \in Minors /\ n # curr_minor(p)
        /\ OurData'[n] = OurData[n]
        /\ OurData[curr_minor(p)].module_string \in Bufs \cup {NULL}
    BY ZenonT(40), <1>10, SetEffect, EntersMinor DEF curr_minor
  <2>2. heap'[OurData[n].module_string] = heap[OurData[n].module_string]
    BY <1>10, <1>t, <2>1, SetEffect, KfreeOthers DEF Owners
  <2> QED
    BY <1>same, <2>1, <2>2
<1>11. ASSUME NEW p \in Procs, copy_byte(p) PROVE Goal
  <2>1. ~Busy(n) /\ loaded
    BY Zenon, <1>11, ByteEffect DEF Break
  <2> QED
    BY Zenon, <1>11, <1>same, <2>1, ByteEffect
<1>12. ASSUME NEW p \in Procs, set_string_alloc(p) PROVE Goal
  <2>1. n # curr_minor(p) /\ curr_minor(p) \in Minors /\ loaded
    BY Zenon, <1>12, AllocEffect DEF curr_minor
  <2>2. ~Busy(n) /\ OurData'[n] = OurData[n]
    BY Zenon, <1>12, <2>1, AllocEffect DEF curr_minor
  <2>3. heap[OurData[n].module_string] # NULL
    BY <1>t, <2>1, <2>2 DEF Owners
  <2>4. heap'[OurData[n].module_string] = heap[OurData[n].module_string]
    BY Zenon, <1>12, <1>t, <2>2, <2>3, AllocEffect
  <2> QED
    BY <1>same, <2>1, <2>2, <2>4
<1>13. ASSUME NEW p \in Procs, set_string_copy(p) PROVE Goal
  <2>1. CASE n = curr_minor(p)
    BY Zenon, <1>13, <1>t, <2>1, CalmCopy
  <2>2. CASE n # curr_minor(p)
    <3>1. /\ curr_minor(p) \in Minors /\ loaded /\ OurData'[n] = OurData[n]
          /\ OurData[curr_minor(p)].module_string = call[p].to /\ call[p].to \in Bufs
      BY Zenon, <1>13, <2>2, CalmCopy
    <3>2. ASSUME NEW q \in Procs, m(q) = n, call[q].pc \in {"set", "copy"} PROVE FALSE
      <4>1. q # p
        BY <2>2, <3>2 DEF curr_minor
      <4>2. call'[q] = call[q] /\ filp' = filp
        BY Zenon, <1>13, <4>1, CalmCopy
      <4> QED
        BY <3>2, <4>2
    <3>3. OurData[n].module_string # call[p].to
      BY Zenon, <1>t, <2>2, <3>1 DEF Owners
    <3>4. heap'[OurData[n].module_string] = heap[OurData[n].module_string]
      BY Zenon, <1>13, <1>t, <3>1, <3>3, CalmCopy
    <3> QED
      BY <1>same, <3>1, <3>2, <3>4
  <2> QED
    BY <2>1, <2>2
<1>14. CASE UNCHANGED vars
  BY <1>0, <1>14 DEF vars
<1> QED
  BY Zenon, <1>1, <1>2, <1>3, <1>4, <1>5, <1>6, <1>7, <1>8, <1>9, <1>10, <1>11, <1>12, <1>13,
     <1>14 DEF Next, Step

\* A process that starts to read finds a string, and a position within it.
LEMMA CalmRead ==
    ASSUME Calm, NEW p \in Procs, NEW count \in Counts, my_read(p, count)
    PROVE  LET d == OurData[curr_minor(p)]
           IN  /\ curr_minor(p) \in Minors /\ d.string_size \in Nat \ {0}
               /\ d.module_string # NULL /\ filp[p].f_pos \in Nat
               /\ filp[p].f_pos % d.string_size \in 0 .. d.string_size - 1
<1> USE DEF Calm, TypeInv
<1> DEFINE n == curr_minor(p)
<1>1. n \in Minors /\ OurData[n] \in Datas /\ filp[p] \in Files /\ call[p].pc = "idle"
  <2>1. Enters(p) /\ Idle.pc = "idle"
    BY DEF my_read, Idle
  <2> QED
    BY <2>1, EntersMinor
<1>2. ~Produces("read_without_string") /\ ~Produces("overlap")
  BY CalmProduces
<1>3. OurData[n].string_size \in Nat /\ OurData[n].string_size > 0 /\ filp[p].f_pos \in Nat
  BY <1>1, <1>2 DEF my_read, Datas, Files
<1>4. Others(p, {"set", "copy"}) = {}
  BY <1>2 DEF my_read
<1>5. ~Setting(n)
  BY <1>1, <1>4 DEF Setting, Others
<1>6. OurData[n].module_string # NULL
  BY <1>1, <1>3, <1>5 DEF NoStringNoSize
<1>7. filp[p].f_pos % OurData[n].string_size \in 0 .. OurData[n].string_size - 1
  BY <1>3
<1> QED
  BY <1>1, <1>3, <1>6, <1>7

\* Without the situations the buffer and size that my_read() keeps across a sleep are the minor's.
LEMMA ReadersStep ==
    ASSUME Calm, [Next]_vars
    PROVE  Readers'
<1> USE DEF Calm, TypeInv
<1> DEFINE m(q) == filp[q].private_data
           Old(c, d) == /\ d.module_string # NULL /\ c.module_string = d.module_string
                        /\ c.string_size = d.string_size /\ c.string_pos < c.string_size
<1> SUFFICES ASSUME NEW q \in Procs, call'[q].pc = "read"
             PROVE  Old(call'[q], OurData'[filp'[q].private_data])
  BY Zenon DEF Readers, curr_minor
<1> DEFINE Goal == Old(call'[q], OurData'[filp'[q].private_data])
<1>0. call[q].pc = "read" => Old(call[q], OurData[m(q)]) /\ m(q) \in Minors /\ m(q) = curr_minor(q)
  <2>1. Idle.pc = "idle"
    BY DEF Idle
  <2> QED
    BY <2>1 DEF Readers, curr_minor, InFile
<1>i. Idle.pc = "idle" /\ [pc |-> "spin"].pc = "spin"
  BY DEF Idle
<1>same. ASSUME call'[q] = call[q], filp'[q].private_data = m(q),
                \/ m(q) \in Minors => OurData'[m(q)] = OurData[m(q)]
                \/ /\ OurData'[m(q)].module_string = OurData[m(q)].module_string
                   /\ OurData'[m(q)].string_size = OurData[m(q)].string_size
         PROVE  Goal
  BY <1>0, <1>same
<1>1. CASE init_module
  BY <1>1, <1>i, ClosedIdle DEF init_module
<1>2. CASE cleanup_module
  BY <1>2, <1>same DEF cleanup_module
<1>3. ASSUME NEW p \in Procs, NEW x \in Minors, my_open(p, x) PROVE Goal
  <2>1. call[p].pc = "idle" /\ call' = call
    BY <1>3, <1>i, OpenEffect, ClosedIdle
  <2>2. q # p /\ m(q) \in Minors
    BY <1>0, <2>1
  <2> QED
    BY <1>3, <1>same, <2>1, <2>2, OpenEffect
<1>4. ASSUME NEW p \in Procs, my_release(p) PROVE Goal
  <2>1. call[p].pc = "idle" /\ call' = call /\ OurData' = OurData
    BY Zenon, <1>4, <1>i, ReleaseEffect, EntersMinor
  <2> QED
    BY <1>4, <1>same, <2>1, ReleaseEffect
<1>5. ASSUME NEW p \in Procs, call_unloaded(p) \/ set_string_fault(p) PROVE Goal
  BY <1>5, <1>same DEF call_unloaded, set_string_fault, Break
<1>6. ASSUME NEW p \in Procs, NEW count \in Counts, my_read(p, count) PROVE Goal
  <2>1. OurData' = OurData /\ filp'[q].private_data = m(q)
    BY Zenon, <1>6, ReadEffect DEF curr_minor
  <2>2. CASE q # p
    BY Zenon, <1>6, <1>same, <2>1, <2>2, ReadEffect
  <2>3. CASE q = p
    <3>1. call'[p] = reading(p, count)
      <4>1. call[p].pc = "idle"
        BY Zenon, <1>6, <1>i, ReadEffect, EntersMinor
      <4> QED
        BY Zenon, <1>6, <1>i, <2>3, <4>1, ReadEffect
    <3>2. /\ call'[p].module_string = OurData[m(p)].module_string
          /\ call'[p].string_size = OurData[m(p)].string_size
          /\ call'[p].string_pos = filp[p].f_pos % OurData[m(p)].string_size
      BY <3>1 DEF reading, curr_minor
    <3>3. /\ OurData[m(p)].string_size \in Nat \ {0} /\ OurData[m(p)].module_string # NULL
          /\ filp[p].f_pos % OurData[m(p)].string_size \in 0 .. OurData[m(p)].string_size - 1
      BY Zenon, <1>6, CalmRead DEF curr_minor
    <3>4. call'[p].string_pos < call'[p].string_size
      BY <3>2, <3>3
    <3> QED
      BY Zenon, <2>1, <2>3, <3>2, <3>3, <3>4
  <2> QED
    BY <2>2, <2>3
<1>7. ASSUME NEW p \in Procs, NEW count \in Counts, my_write(p, count) PROVE Goal
  BY <1>7, <1>same, WriteEffect
<1>8. ASSUME NEW p \in Procs, NEW shift \in Shifts, my_llseek(p, shift) PROVE Goal
  BY Zenon, <1>8, <1>same, SeekEffect DEF curr_minor
<1>9. ASSUME NEW p \in Procs, reset(p) PROVE Goal
  <2>1. /\ Others(p, {"read", "set", "copy"}) = {} /\ call[p].pc = "idle"
        /\ call' = call /\ filp' = filp
    BY Zenon, <1>9, <1>i, ResetEffect, EntersMinor, CalmProduces
  <2>2. m(q) # curr_minor(p)
    BY <2>1, Alone DEF curr_minor
  <2> QED
    BY Zenon, <1>9, <1>same, <2>1, <2>2, ResetEffect
<1>10. ASSUME NEW p \in Procs, NEW s \in Strings, set_string(p, s) PROVE Goal
  <2>1. /\ Others(p, {"read", "set", "copy"}) = {} /\ call'[p].pc = "set"
        /\ \A x \in Procs \ {p} : call'[x] = call[x] /\ filp' = filp
    BY Zenon, <1>10, SetEffect, CalmProduces
  <2>2. q # p /\ m(q) # curr_minor(p) /\ filp' = filp /\ call'[q] = call[q]
    BY <2>1, Alone DEF curr_minor
  <2> QED
    BY Zenon, <1>10, <1>same, <2>2, SetEffect
<1>11. ASSUME NEW p \in Procs, copy_byte(p) PROVE Goal
  <2>1. /\ OurData' = OurData /\ filp'[q].private_data = m(q) /\ loaded
        /\ call[p].pc = "read"
    BY Zenon, <1>11, ByteEffect
  <2>2. CASE q # p \/ call' = call
    BY Zenon, <1>11, <1>same, <2>1, <2>2, ByteEffect
  <2>3. CASE q = p /\ call' # call
    <3> DEFINE c == call[p]
               out == Append(c.out, heap[c.module_string][c.string_pos + 1])
    <3>1. call'[p] = [c EXCEPT !.out = out, !.string_pos = next_pos(c)]
      BY Zenon, <1>11, <1>i, <2>3, ByteEffect DEF Break
    <3>2. /\ c \in Reading /\ c.string_size \in Nat /\ c.string_pos \in Nat
          /\ c.string_pos < c.string_size
      BY <2>1, ReaderBuffer DEF Reading
    <3>3. next_pos(c) < c.string_size
      BY <3>2 DEF next_pos
    <3>4. /\ call'[p].module_string = c.module_string /\ call'[p].string_size = c.string_size
          /\ call'[p].string_pos = next_pos(c)
      <4> HIDE DEF out, c
      <4> QED
        BY <3>1, <3>2 DEF Reading
    <3> QED
      BY <1>0, <2>1, <2>3, <3>3, <3>4
  <2> QED
    BY <2>2, <2>3
<1>12. ASSUME NEW p \in Procs, set_string_alloc(p) PROVE Goal
  <2>1. /\ filp' = filp /\ call[p].pc = "set" /\ call'[p].pc \in {"idle", "copy"}
        /\ \A x \in Procs \ {p} : call'[x] = call[x]
        /\ \A x \in Minors \ {m(p)} : OurData'[x] = OurData[x]
    BY <1>12, <1>i, AllocEffect DEF curr_minor
  <2>2. q # p /\ m(q) # m(p)
    BY <2>1 DEF Exclusive, curr_minor
  <2> QED
    BY <1>same, <2>1, <2>2
<1>13. ASSUME NEW p \in Procs, set_string_copy(p) PROVE Goal
  <2>1. /\ filp' = filp /\ call[p].pc = "copy" /\ call'[p].pc = "idle"
        /\ \A x \in Procs \ {p} : call'[x] = call[x]
        /\ \A x \in Minors \ {m(p)} : OurData'[x] = OurData[x]
    BY Zenon, <1>13, <1>i, CalmCopy DEF curr_minor
  <2>2. q # p /\ m(q) # m(p)
    BY <2>1 DEF Exclusive, curr_minor
  <2> QED
    BY <1>same, <2>1, <2>2
<1>14. CASE UNCHANGED vars
  BY <1>same, <1>14 DEF vars
<1> QED
  BY Zenon, <1>1, <1>2, <1>3, <1>4, <1>5, <1>6, <1>7, <1>8, <1>9, <1>10, <1>11, <1>12, <1>13,
     <1>14 DEF Next, Step

-----------------------------------------------------------------------------
(* The safety theorems                                                       *)

DriverInv == TypeInv /\ NoStringNoSize /\ OwnInv /\ CalmInv

\* The three together.
LEMMA CalmStep == ASSUME DriverInv, TypeInv', [Next]_vars PROVE CalmInv'
<1> SUFFICES ASSUME world'.stress = {}
             PROVE  ~broken' /\ Sized' /\ Readers' /\ \A p \in Procs : filp'[p] # Closed => loaded'
  BY DEF CalmInv
<1>1. world.stress = {}
  BY WorldSame DEF DriverInv
<1>2. Calm
  BY <1>1 DEF DriverInv, OwnInv, CalmInv, Produces, Calm
<1> QED
  BY <1>2, NotBrokenStep, LoadedStep, SizedStep, ReadersStep

\* The invariant holds at the beginning.
LEMMA InitDriver == Init => DriverInv
<1> SUFFICES ASSUME Init PROVE DriverInv
  OBVIOUS
<1>1. \A p \in Procs : call[p].pc = "idle"
  BY DEF Init, Idle
<1>2. NoStringNoSize
  BY DEF Init, NoStringNoSize, Fresh
<1>3. CalmInv
  BY <1>1 DEF Init, CalmInv, Sized, Readers
<1> QED
  BY <1>2, <1>3, InitType, InitOwn DEF DriverInv

\* Every step keeps the invariant.
LEMMA DriverStep == DriverInv /\ [Next]_vars => DriverInv'
<1> SUFFICES ASSUME DriverInv, [Next]_vars PROVE DriverInv'
  OBVIOUS
<1>1. TypeInv'
  BY TypeStep DEF DriverInv
<1> QED
  BY <1>1, NoSizeStep, OwnStep, CalmStep DEF DriverInv

\* The inductive invariant holds in every state of every world.
THEOREM DriverInvariant == Spec => []DriverInv
BY InitDriver, DriverStep, PTL DEF Spec

\* my_read(), SET_STRING and RESET never follow a bad pointer, run behind a
\* buffer or loop for ever in a world without the four situations.
THEOREM NothingBreaks == Spec => []NotBroken
<1>1. DriverInv => NotBroken
  BY DEF DriverInv, CalmInv, NotBroken
<1> QED
  BY <1>1, DriverInvariant, PTL

\* Every buffer that kmalloc() has handed out is the string of one minor, and
\* of one only, in worlds without overlapping calls: also after a failed
\* SET_STRING and after rmmod, whoever has files open then.
THEOREM BuffersOwned == Spec => []HeapOwned
<1>1. DriverInv => HeapOwned
  <2> SUFFICES ASSUME DriverInv, ~Produces("overlap")
               PROVE  LET owned == {m \in Minors : loaded /\ OurData[m].module_string # NULL}
                      IN  /\ {b \in Bufs : heap[b] # NULL} = {OurData[m].module_string : m \in owned}
                          /\ \A m, n \in owned :
                                OurData[m].module_string = OurData[n].module_string => m = n
    BY DEF HeapOwned, DriverInv, TypeInv
  <2>1. Owners
    BY DEF DriverInv, OwnInv
  <2>2. \A m \in Minors : OurData[m].module_string \in Bufs \cup {NULL}
    BY Typed DEF DriverInv, TypeInv, Datas
  <2> QED
    BY <2>1, <2>2, DriverAssumption DEF Owners
<1> QED
  BY <1>1, DriverInvariant, PTL

\* A minor that has lost its string has size 0, in every world: whatever the
\* order in which racing SET_STRINGs and RESETs finish.
THEOREM NoStringNoSizeHolds == Spec => []NoStringNoSize
<1>1. DriverInv => NoStringNoSize
  BY DEF DriverInv
<1> QED
  BY <1>1, DriverInvariant, PTL

\* A call changes nothing that can be seen of another minor.
LEMMA IndependentStep ==
    ASSUME DriverInv, [Next]_vars, NEW n \in Minors, ~Produces("overlap"), loaded, loaded',
           \A p \in Procs : curr_minor(p) # n
    PROVE  Visible(n)' = Visible(n)
<1> USE DEF DriverInv, TypeInv
<1>o. Exclusive /\ Setters /\ Owners
  BY DEF OwnInv
<1>t. /\ heap \in [Bufs -> {NULL} \cup Seq(Bytes)] /\ OurData \in [Minors -> Datas]
      /\ \A m \in Minors : OurData[m].module_string \in Bufs \cup {NULL}
      /\ NULL \notin Minors /\ NULL \notin Bufs
  BY Typed, DriverAssumption DEF Datas
<1>same. ASSUME OurData'[n].max_size = OurData[n].max_size,
                OurData'[n].string_size = OurData[n].string_size,
                OurData'[n].module_string = OurData[n].module_string,
                OurData[n].module_string # NULL =>
                    heap'[OurData[n].module_string] = heap[OurData[n].module_string]
         PROVE  Visible(n)' = Visible(n)
  BY <1>same DEF Visible
<1>free. ASSUME NEW m \in Minors, m # n,
                heap' = kfree(heap, OurData[m].module_string), OurData'[n] = OurData[n]
         PROVE  Visible(n)' = Visible(n)
  <2>1. OurData[n].module_string # NULL => OurData[n].module_string # OurData[m].module_string
    BY <1>free, <1>o DEF Owners
  <2>2. OurData[n].module_string # NULL =>
            heap'[OurData[n].module_string] = heap[OurData[n].module_string]
    BY <1>free, <1>t, <2>1, KfreeOthers
  <2> QED
    BY <1>free, <1>same, <2>2
<1>1. CASE init_module \/ cleanup_module
  BY <1>1 DEF init_module, cleanup_module
<1>3. ASSUME NEW p \in Procs, NEW x \in Minors, my_open(p, x) PROVE Visible(n)' = Visible(n)
  BY <1>3, <1>same, OpenEffect
<1>4. ASSUME NEW p \in Procs, my_release(p) PROVE Visible(n)' = Visible(n)
  BY Zenon, <1>4, <1>same, ReleaseEffect
<1>5. ASSUME NEW p \in Procs, call_unloaded(p) \/ set_string_fault(p) PROVE Visible(n)' = Visible(n)
  BY <1>5, <1>same DEF call_unloaded, set_string_fault, Break
<1>6. ASSUME NEW p \in Procs, NEW count \in Counts, my_read(p, count)
      PROVE  Visible(n)' = Visible(n)
  BY Zenon, <1>6, <1>same, ReadEffect
<1>7. ASSUME NEW p \in Procs, NEW count \in Counts, my_write(p, count)
      PROVE  Visible(n)' = Visible(n)
  BY Zenon, <1>7, <1>same, WriteEffect
<1>8. ASSUME NEW p \in Procs, NEW shift \in Shifts, my_llseek(p, shift)
      PROVE  Visible(n)' = Visible(n)
  BY Zenon, <1>8, <1>same, SeekEffect
<1>9. ASSUME NEW p \in Procs, reset(p) PROVE Visible(n)' = Visible(n)
  BY <1>9, <1>free, ResetEffect, EntersMinor
<1>10. ASSUME NEW p \in Procs, NEW s \in Strings, set_string(p, s) PROVE Visible(n)' = Visible(n)
  <2>1. /\ Enters(p) /\ heap' = kfree(heap, OurData[curr_minor(p)].module_string)
        /\ \A x \in Minors \ {curr_minor(p)} : OurData'[x] = OurData[x]
    BY Zenon, <1>10, SetEffect
  <2>2. curr_minor(p) \in Minors /\ curr_minor(p) # n
    BY Zenon, <2>1, EntersMinor
  <2> QED
    BY Zenon, <1>free, <2>1, <2>2
<1>11. ASSUME NEW p \in Procs, copy_byte(p) PROVE Visible(n)' = Visible(n)
  BY Zenon, <1>11, <1>same, ByteEffect
<1>12. ASSUME NEW p \in Procs, set_string_alloc(p) PROVE Visible(n)' = Visible(n)
  <2>1. OurData'[n] = OurData[n]
    BY <1>12, AllocEffect
  <2>2. OurData[n].module_string # NULL => heap[OurData[n].module_string] # NULL
    BY <1>o, <1>t DEF Owners
  <2>3. OurData[n].module_string # NULL =>
            heap'[OurData[n].module_string] = heap[OurData[n].module_string]
    BY <1>12, <1>t, <2>2, AllocEffect
  <2> QED
    BY <1>same, <2>1, <2>3
<1>13. ASSUME NEW p \in Procs, set_string_copy(p) PROVE Visible(n)' = Visible(n)
  <2>1. /\ curr_minor(p) \in Minors /\ curr_minor(p) # n
        /\ call[p].to = OurData[curr_minor(p)].module_string
    BY Zenon, <1>13, <1>o, CopyEffect DEF Setters
  <2>2. CASE Break
    BY <2>2, <1>same DEF Break
  <2>3. CASE heap' = kfree(heap, OurData[curr_minor(p)].module_string) /\ OurData'[n] = OurData[n]
    BY Zenon, <1>free, <2>1, <2>3
  <2>4. CASE /\ OurData'[n] = OurData[n]
             /\ \A x \in Bufs \ {call[p].to} : heap'[x] = heap[x]
    BY <1>o, <1>same, <1>t, <2>1, <2>4 DEF Owners
  <2> QED
    BY Zenon, <1>13, <2>1, <2>2, <2>3, <2>4, CopyEffect
<1>14. CASE UNCHANGED vars
  BY <1>same, <1>14 DEF vars
<1> QED
  BY <1>1, <1>3, <1>4, <1>5, <1>6, <1>7, <1>8, <1>9, <1>10, <1>11, <1>12, <1>13,
     <1>14 DEF Next, Step

\* What is done to one minor never shows in another that nobody has open: its
\* string, its sizes and its buffer stay, in worlds without overlapping calls.
THEOREM MinorsAreIndependent == Spec => MinorsIndependent
<1>1. DriverInv /\ [Next]_vars
      => [\A m \in Minors :
             ~Produces("overlap") /\ loaded /\ loaded' /\ (\A p \in Procs : curr_minor(p) # m)
                => Visible(m)' = Visible(m)]_vars
  BY IndependentStep
<1> QED
  BY <1>1, DriverInvariant, PTL DEF Spec, MinorsIndependent

-----------------------------------------------------------------------------
(* A read delivers the string over and over.                                 *)

\* The remainders that the loop of my_read() goes through.
LEMMA ModNext ==
    ASSUME NEW x \in Nat, NEW n \in Nat \ {0}
    PROVE  /\ x % n \in 0 .. n - 1
           /\ (x + 1) % n = IF (x % n) + 1 >= n THEN 0 ELSE (x % n) + 1
<1> DEFINE r == x % n
           q == x \div n
<1>1. r \in 0 .. n - 1 /\ q \in Int /\ x = n * q + r
  OBVIOUS
<1>2. \A y \in Int, d \in Int : \A e \in 0 .. n - 1 : y = n * d + e => y % n = e
  OBVIOUS
<1> HIDE DEF r, q
<1>3. CASE r + 1 >= n
  <2>1. x + 1 = n * (q + 1) + 0
    BY <1>1, <1>3
  <2>2. (x + 1) % n = 0
    BY <1>1, <1>2, <2>1
  <2> QED
    BY <1>1, <1>3, <2>2 DEF r
<1>4. CASE ~(r + 1 >= n)
  <2>1. x + 1 = n * q + (r + 1) /\ r + 1 \in 0 .. n - 1
    BY <1>1, <1>4
  <2>2. (x + 1) % n = r + 1
    BY <1>1, <1>2, <2>1
  <2> QED
    BY <1>1, <1>4, <2>2 DEF r
<1> QED
  BY <1>1, <1>3, <1>4 DEF r

\* The sizes within the bound fit into an int.
LEMMA Int32Small ==
    ASSUME 2 * MaxSize < IntWord, NEW n \in Int, -MaxSize <= n, n <= MaxSize
    PROVE  Int32(n) = n
<1>1. MaxSize \in Nat /\ IntWord \in Nat
  BY DriverAssumption
<1>2. CASE n >= 0
  <2>1. n % IntWord = n
    BY <1>1, <1>2
  <2> QED
    BY <1>1, <1>2, <2>1 DEF Int32
<1>3. CASE n < 0
  <2>1. n % IntWord = n + IntWord
    BY <1>1, <1>3
  <2> QED
    BY <1>1, <1>3, <2>1 DEF Int32
<1> QED
  BY <1>2, <1>3

\* The state of a driver used with care, as far as a read depends on it.
CalmRun == Calm /\ Bounded /\ Progress

\* Positions and max_size stay in the range where int arithmetic is exact.
LEMMA BoundedStep ==
    ASSUME 2 * MaxSize < IntWord, CalmRun, [Next]_vars
    PROVE  Bounded'
<1> USE DEF CalmRun, Calm, TypeInv
<1>b. /\ \A n \in Minors : OurData[n].max_size \in 0 .. MaxSize
      /\ \A q \in Procs : filp[q].f_pos \in 0 .. MaxSize
      /\ MaxSize \in Nat
  BY DriverAssumption DEF Bounded
\* It is enough to look at what changes.
<1> SUFFICES /\ \A n \in Minors : OurData'[n].max_size \in 0 .. MaxSize
             /\ \A q \in Procs : filp'[q].f_pos \in 0 .. MaxSize
  BY DEF Bounded
<1> DEFINE Goal == /\ \A n \in Minors : OurData'[n].max_size \in 0 .. MaxSize
                   /\ \A q \in Procs : filp'[q].f_pos \in 0 .. MaxSize
<1>1. CASE init_module
  BY <1>1, <1>b DEF init_module, Fresh
<1>2. CASE cleanup_module
  BY <1>2, <1>b DEF cleanup_module
<1>3. ASSUME NEW p \in Procs, NEW x \in Minors, my_open(p, x) PROVE Goal
  <2>1. \A n \in Minors : OurData'[n].max_size \in 0 .. MaxSize
    BY <1>3, <1>b, OpenEffect
  <2>2. \A q \in Procs : filp'[q].f_pos \in 0 .. MaxSize
    BY <1>3, <1>b, OpenEffect
  <2> QED
    BY <2>1, <2>2
<1>4. ASSUME NEW p \in Procs, my_release(p) PROVE Goal
  <2>1. Closed.f_pos = 0
    BY DEF Closed
  <2> QED
    BY <1>4, <1>b, <2>1, ReleaseEffect
<1>5. ASSUME NEW p \in Procs, call_unloaded(p) \/ set_string_fault(p) PROVE Goal
  BY <1>5, <1>b DEF call_unloaded, set_string_fault, Break
<1>6. ASSUME NEW p \in Procs, NEW count \in Counts, my_read(p, count) PROVE Goal
  BY Zenon, <1>6, <1>b, ReadEffect
<1>7. ASSUME NEW p \in Procs, NEW count \in Counts, my_write(p, count) PROVE Goal
  <2> DEFINE m == curr_minor(p)
             new == OurData[m].max_size + count
  <2>1. m \in Minors /\ new <= world.size /\ OurData'[m].max_size = Int32(new)
    BY <1>7, WriteEffect, EntersMinor
  <2>2. count \in Nat /\ world.size \in 0 .. MaxSize
    BY Typed, DriverAssumption
  <2>3. new \in 0 .. MaxSize
    BY <1>b, <2>1, <2>2
  <2>4. Int32(new) = new
    <3> HIDE DEF new
    <3> QED
      BY <1>b, <2>3, Int32Small
  <2> QED
    BY <1>7, <1>b, <2>1, <2>3, <2>4, WriteEffect
<1>8. ASSUME NEW p \in Procs, NEW shift \in Shifts, my_llseek(p, shift) PROVE Goal
  <2>1. curr_minor(p) \in Minors /\ filp' \in [Procs -> Files] /\ OurData' = OurData
    BY <1>8, SeekEffect, EntersMinor
  <2>2. filp'[p].f_pos \in Nat
    BY <2>1 DEF Files
  <2>3. filp'[p].f_pos \in 0 .. MaxSize
    BY <1>8, <1>b, <2>1, <2>2, SeekEffect
  <2> QED
    BY <1>8, <1>b, <2>1, <2>3, SeekEffect
<1>9. ASSUME NEW p \in Procs, reset(p) PROVE Goal
  <2>1. /\ \A n \in Minors \ {curr_minor(p)} : OurData'[n] = OurData[n]
        /\ OurData'[curr_minor(p)].max_size = 0 /\ filp' = filp
    BY Zenon, <1>9, ResetEffect
  <2> QED
    BY ONLY <1>b, <2>1
<1>10. ASSUME NEW p \in Procs, NEW s \in Strings, set_string(p, s) PROVE Goal
  BY <1>10, <1>b, SetEffect
<1>11. ASSUME NEW p \in Procs, copy_byte(p) PROVE Goal
  <2> DEFINE c == call[p]
             out == Append(c.out, heap[c.module_string][c.string_pos + 1])
  <2>1. OurData' = OurData /\ c \in Reading /\ c.pc = "read" /\ filp[p].f_pos \in Nat
    <3>1. OurData' = OurData
      BY Zenon, <1>11, ByteEffect
    <3>2. c.pc = "read"
      BY <1>11 DEF copy_byte
    <3>3. c \in Reading
      BY <3>2, CallForms, Typed
    <3> QED
      BY <1>b, <3>1, <3>2, <3>3
  <2>2. /\ Len(c.out) < c.allowed_bytes /\ filp[p].f_pos + c.allowed_bytes <= MaxSize
        /\ c.allowed_bytes \in Int /\ c.out \in Seq(Bytes)
    BY <2>1 DEF Progress, Reading
  <2>3. Len(out) = Len(c.out) + 1 /\ Len(c.out) \in Nat
    BY <2>2
  <2>4. filp'[p].f_pos = filp[p].f_pos \/ filp'[p].f_pos = filp[p].f_pos + Len(out)
    BY Zenon, <1>11, ByteEffect DEF Break
  <2>5. filp'[p].f_pos \in 0 .. MaxSize
    <3>1. filp[p].f_pos \in 0 .. MaxSize /\ MaxSize \in Nat
      BY <1>b
    <3> HIDE DEF out, c
    <3>2. Len(out) \in Nat /\ Len(out) <= c.allowed_bytes
      BY ONLY <2>2, <2>3
    <3>3. filp[p].f_pos + Len(out) \in 0 .. MaxSize
      BY ONLY <2>2, <3>1, <3>2
    <3> QED
      BY Zenon, <2>4, <3>1, <3>3
  <2> QED
    BY Zenon, <1>11, <1>b, <2>1, <2>5, ByteEffect
<1>12. ASSUME NEW p \in Procs, set_string_alloc(p) PROVE Goal
  BY <1>12, <1>b, AllocEffect
<1>13. ASSUME NEW p \in Procs, set_string_copy(p) PROVE Goal
  BY <1>13, <1>b, CalmCopy
<1>14. CASE UNCHANGED vars
  BY <1>14, <1>b DEF vars
<1> QED
  BY Zenon, <1>1, <1>2, <1>3, <1>4, <1>5, <1>6, <1>7, <1>8, <1>9, <1>10, <1>11, <1>12, <1>13,
     <1>14 DEF Next, Step

\* What p does to its own minor's string is nothing to the other minors.
LEMMA MinorKept ==
    ASSUME Calm, NEW p \in Procs, NEW n \in Minors, n # curr_minor(p),
           \/ reset(p) \/ set_string_alloc(p) \/ set_string_copy(p)
           \/ \E s \in Strings : set_string(p, s)
    PROVE  /\ OurData'[n] = OurData[n]
           /\ OurData[n].module_string # NULL
                => heap'[OurData[n].module_string] = heap[OurData[n].module_string]
<1> USE DEF Calm, TypeInv
<1> DEFINE m == curr_minor(p)
           b == OurData[n].module_string
<1>1. b \in Bufs \cup {NULL}
  BY Zenon, Typed DEF Datas
<1>2. loaded /\ m \in Minors
  BY Zenon, ResetEffect, SetEffect, AllocEffect, CalmCopy, EntersMinor
<1>3. b # NULL => b \in Bufs /\ heap[b] # NULL /\ OurData[m].module_string # b
  BY <1>1, <1>2 DEF Owners
<1>4. CASE reset(p) \/ \E s \in Strings : set_string(p, s)
  <2>1. /\ OurData'[n] = OurData[n] /\ heap' = kfree(heap, OurData[m].module_string)
        /\ OurData[m].module_string \in Bufs \cup {NULL}
    BY Zenon, <1>4, ResetEffect, SetEffect
  <2> QED
    BY <1>3, <2>1, KfreeOthers, Typed
<1>5. CASE set_string_alloc(p)
  <2>1. OurData'[n] = OurData[n]
    BY Zenon, <1>5, AllocEffect
  <2>2. \/ heap' = heap
        \/ \E x \in Bufs : heap[x] = NULL /\ heap' = [heap EXCEPT ![x] = kmalloc(call[p].new_string)]
    BY Zenon, <1>5, AllocEffect
  <2>3. b # NULL => heap'[b] = heap[b]
    <3> HIDE DEF b
    <3> QED
      BY <1>3, <2>2, Typed
  <2> QED
    BY Zenon, <2>1, <2>3
<1>6. CASE set_string_copy(p)
  BY Zenon, <1>3, <1>6, CalmCopy
<1> QED
  BY Zenon, <1>4, <1>5, <1>6

\* Every step keeps what Progress says of the reads under way.
LEMMA ProgressStep ==
    ASSUME 2 * MaxSize < IntWord, CalmRun, [Next]_vars
    PROVE  Progress'
<1> USE DEF CalmRun, Calm, TypeInv
<1> DEFINE Good(c, s, pos) ==
               /\ Len(c.out) < c.allowed_bytes /\ Len(c.out) < c.count
               /\ pos + c.allowed_bytes <= MaxSize
               /\ c.string_pos = (pos + Len(c.out)) % c.string_size
               /\ \A j \in 1 .. Len(c.out) : c.out[j] = s[((pos + j - 1) % c.string_size) + 1]
<1> SUFFICES ASSUME NEW q \in Procs, call'[q].pc = "read"
             PROVE  Good(call'[q], heap'[call'[q].module_string], filp'[q].f_pos)
  BY Zenon DEF Progress
<1> DEFINE Goal == Good(call'[q], heap'[call'[q].module_string], filp'[q].f_pos)
<1>0. call[q].pc = "read" => Good(call[q], heap[call[q].module_string], filp[q].f_pos)
  BY Zenon DEF Progress
<1>i. Idle.pc = "idle" /\ [pc |-> "spin"].pc = "spin"
  BY Zenon DEF Idle
<1>l. call[q].pc = "read" => loaded /\ curr_minor(q) \in Minors
  <2>1. call[q].pc = "read" => curr_minor(q) \in Minors
    BY Zenon, <1>i DEF InFile
  <2>2. Closed.private_data = NULL
    BY DEF Closed
  <2> QED
    BY <2>1, <2>2, DriverAssumption DEF curr_minor
<1>same. ASSUME call'[q] = call[q], filp'[q].f_pos = filp[q].f_pos,
                heap'[call[q].module_string] = heap[call[q].module_string]
         PROVE  Goal
  BY Zenon, <1>0, <1>same
<1> HIDE DEF Good
<1>1. CASE init_module
  BY <1>1, <1>i, ClosedIdle DEF init_module
<1>2. CASE cleanup_module
  <2>1. filp[q] = Closed /\ call' = call
    BY <1>2, CalmProduces DEF cleanup_module
  <2> QED
    BY <1>i, <2>1, ClosedIdle
<1>3. ASSUME NEW p \in Procs, NEW x \in Minors, my_open(p, x) PROVE Goal
  <2>1. call[p].pc = "idle" /\ call' = call /\ heap' = heap
    BY <1>3, <1>i, OpenEffect, ClosedIdle
  <2> QED
    BY <1>3, <1>same, <2>1, OpenEffect
<1>4. ASSUME NEW p \in Procs, my_release(p) PROVE Goal
  <2>1. call[p].pc = "idle" /\ call' = call /\ heap' = heap
    BY <1>4, <1>i, ReleaseEffect, EntersMinor
  <2> QED
    BY <1>4, <1>same, <2>1, ReleaseEffect
<1>5. ASSUME NEW p \in Procs, call_unloaded(p) \/ set_string_fault(p) PROVE Goal
  BY <1>5, <1>same DEF call_unloaded, set_string_fault, Break
<1>6. ASSUME NEW p \in Procs, NEW count \in Counts, my_read(p, count) PROVE Goal
  <2>1. heap' = heap /\ filp'[q].f_pos = filp[q].f_pos
    BY Zenon, <1>6, ReadEffect
  <2>2. CASE q # p
    BY Zenon, <1>6, <1>same, <2>1, <2>2, ReadEffect
  <2>3. CASE q = p
    <3> DEFINE r == reading(p, count)
               d == OurData[curr_minor(p)]
               pos == filp[p].f_pos
    <3>1. call'[p] = r /\ r.allowed_bytes > 0 /\ count > 0
      <4>1. call[p].pc = "idle"
        BY Zenon, <1>6, <1>i, ReadEffect, EntersMinor
      <4> QED
        BY Zenon, <1>6, <1>i, <2>3, <4>1, ReadEffect
    <3>2. /\ r.out = <<>> /\ r.count = count /\ r.string_size = d.string_size
          /\ r.string_pos = pos % d.string_size
          /\ r.allowed_bytes = Int32(d.max_size - pos)
      BY Zenon DEF reading
    <3>3. /\ d.max_size \in 0 .. MaxSize /\ pos \in 0 .. MaxSize /\ MaxSize \in Nat
          /\ count \in Nat
      BY <1>6, CalmRead, DriverAssumption DEF Bounded
    <3>4. Int32(d.max_size - pos) = d.max_size - pos
      <4> HIDE DEF d, pos
      <4> QED
        BY <3>3, Int32Small
    <3>5. Good(r, heap'[r.module_string], pos)
      <4> HIDE DEF r, d, pos
      <4>1. Len(r.out) = 0 /\ pos + 0 = pos
        BY <3>2, <3>3
      <4> QED
        BY <3>1, <3>2, <3>3, <3>4, <4>1 DEF Good
    <3> QED
      BY <2>1, <2>3, <3>1, <3>5
  <2> QED
    BY <2>2, <2>3
<1>7. ASSUME NEW p \in Procs, NEW count \in Counts, my_write(p, count) PROVE Goal
  BY <1>7, <1>same, WriteEffect
<1>8. ASSUME NEW p \in Procs, NEW shift \in Shifts, my_llseek(p, shift) PROVE Goal
  <2>1. call[p].pc = "idle" /\ call' = call /\ heap' = heap
    BY <1>8, <1>i, SeekEffect, EntersMinor
  <2> QED
    BY Zenon, <1>8, <1>same, <2>1, SeekEffect
<1>9. ASSUME NEW p \in Procs, reset(p) PROVE Goal
  <2>1. /\ Others(p, {"read", "set", "copy"}) = {} /\ call[p].pc = "idle"
        /\ call' = call /\ filp' = filp
    BY Zenon, <1>9, <1>i, ResetEffect, EntersMinor, CalmProduces
  <2>2. curr_minor(q) # curr_minor(p) /\ call[q].pc = "read"
    BY <2>1, Alone DEF curr_minor
  <2>3. heap'[call[q].module_string] = heap[call[q].module_string]
    BY ZenonT(40), <1>9, <1>l, <2>2, MinorKept DEF Readers
  <2> QED
    BY <1>same, <2>1, <2>3
<1>10. ASSUME NEW p \in Procs, NEW s \in Strings, set_string(p, s) PROVE Goal
  <2>1. /\ Others(p, {"read", "set", "copy"}) = {} /\ call'[p].pc = "set"
        /\ filp' = filp /\ \A x \in Procs \ {p} : call'[x] = call[x]
    BY Zenon, <1>10, SetEffect, CalmProduces
  <2>2. q # p /\ curr_minor(q) # curr_minor(p) /\ call'[q] = call[q] /\ call[q].pc = "read"
    BY <2>1, Alone DEF curr_minor
  <2>3. heap'[call[q].module_string] = heap[call[q].module_string]
    BY Zenon, <1>10, <1>l, <2>2, MinorKept DEF Readers
  <2> QED
    BY Zenon, <1>same, <2>1, <2>2, <2>3
<1>11. ASSUME NEW p \in Procs, copy_byte(p) PROVE Goal
  <2>1. heap' = heap /\ loaded /\ call[p].pc = "read"
    BY Zenon, <1>11, ByteEffect
  <2>2. CASE q # p
    BY Zenon, <1>11, <1>same, <2>1, <2>2, ByteEffect
  <2>3. CASE q = p
    <3> DEFINE c == call[p]
               byte == heap[c.module_string][c.string_pos + 1]
               out == Append(c.out, byte)
               pos == filp[p].f_pos
    <3>1. CASE call'[p] = call[p] /\ filp' = filp
      BY <1>same, <2>1, <2>3, <3>1
    <3>2. CASE /\ call'[p] = [c EXCEPT !.out = out, !.string_pos = next_pos(c)] /\ filp' = filp
               /\ Len(out) < c.allowed_bytes /\ Len(out) < c.count
      <4>1. /\ c \in Reading /\ c.string_size \in Nat /\ c.string_pos \in Nat
            /\ c.string_pos < c.string_size /\ c.out \in Seq(Bytes) /\ pos \in Nat
        BY <2>1, ReaderBuffer DEF Reading, Bounded
      <4>2. /\ call'[p].module_string = c.module_string /\ call'[p].string_size = c.string_size
            /\ call'[p].string_pos = next_pos(c) /\ call'[p].out = out
            /\ call'[p].allowed_bytes = c.allowed_bytes /\ call'[p].count = c.count
        <5> HIDE DEF out, c
        <5> QED
          BY <3>2, <4>1 DEF Reading
      <4>3. Good(c, heap[c.module_string], pos)
        BY <1>0, <2>1, <2>3
      <4>4. /\ Len(out) = Len(c.out) + 1 /\ Len(c.out) \in Nat /\ out[Len(c.out) + 1] = byte
            /\ \A j \in 1 .. Len(c.out) : out[j] = c.out[j]
        <5> HIDE DEF byte
        <5> QED
          BY <4>1
      <4> DEFINE n == Len(c.out)
                 str == heap[c.module_string]
                 size == c.string_size
      <4>5. c.string_pos = (pos + n) % size
        BY <4>3 DEF Good
      <4>6. next_pos(c) = (pos + Len(out)) % size
        <5>1. (pos + n + 1) % size = IF ((pos + n) % size) + 1 >= size THEN 0
                                     ELSE ((pos + n) % size) + 1
          <6> HIDE DEF n, pos, size
          <6>1. pos + n \in Nat /\ size \in Nat \ {0}
            BY <4>1, <4>4 DEF n, size
          <6> QED
            BY Zenon, <6>1, ModNext
        <5>2. pos + n + 1 = pos + Len(out)
          BY <4>1, <4>4
        <5> HIDE DEF n, pos, size, out
        <5> QED
          BY <4>5, <5>1, <5>2 DEF next_pos, size
      <4>7. ASSUME NEW j \in 1 .. Len(out)
            PROVE  out[j] = str[((pos + j - 1) % size) + 1]
        <5>1. CASE j \in 1 .. n
          BY Zenon, <4>3, <4>4, <5>1 DEF Good
        <5>2. CASE j = n + 1
          <6>1. pos + j - 1 = pos + n
            BY <4>1, <4>4, <5>2
          <6>2. out[j] = str[c.string_pos + 1]
            BY <4>4, <5>2
          <6> HIDE DEF out, str, n, pos, size
          <6> QED
            BY <4>5, <6>1, <6>2
        <5> QED
          <6> HIDE DEF out, str, n, pos, size
          <6>1. n \in Nat /\ Len(out) = n + 1
            BY <4>4 DEF n
          <6>2. j \in 1 .. n \/ j = n + 1
            BY ONLY <6>1, j \in 1 .. Len(out)
          <6> QED
            BY Zenon, <5>1, <5>2, <6>2
      <4>8. pos + c.allowed_bytes <= MaxSize
        BY <4>3 DEF Good
      <4>9. Good(call'[p], str, pos)
        <5> HIDE DEF out, str, n, pos, size, c
        <5> QED
          BY <3>2, <4>2, <4>6, <4>7, <4>8 DEF Good, size
      <4> QED
        BY <2>1, <2>3, <3>2, <4>2, <4>9
    <3>3. call'[p].pc # "idle"
      BY <2>3
    <3> QED
      BY Zenon, <1>11, <1>i, <3>1, <3>2, <3>3, ByteEffect DEF Break
  <2> QED
    BY <2>2, <2>3
<1>12. ASSUME NEW p \in Procs, set_string_alloc(p) PROVE Goal
  <2>1. /\ filp' = filp /\ call[p].pc = "set" /\ call'[p].pc \in {"idle", "copy"}
        /\ \A x \in Procs \ {p} : call'[x] = call[x]
    BY Zenon, <1>12, <1>i, AllocEffect
  <2>2. q # p /\ curr_minor(q) # curr_minor(p) /\ call[q].pc = "read"
    BY <2>1 DEF Exclusive
  <2>3. heap'[call[q].module_string] = heap[call[q].module_string]
    BY Zenon, <1>12, <1>l, <2>2, MinorKept DEF Readers
  <2> QED
    BY <1>same, <2>1, <2>2, <2>3
<1>13. ASSUME NEW p \in Procs, set_string_copy(p) PROVE Goal
  <2>1. /\ filp' = filp /\ call[p].pc = "copy" /\ call'[p].pc = "idle"
        /\ \A x \in Procs \ {p} : call'[x] = call[x]
    BY Zenon, <1>13, <1>i, CalmCopy
  <2>2. q # p /\ curr_minor(q) # curr_minor(p) /\ call[q].pc = "read"
    BY <2>1 DEF Exclusive
  <2>3. heap'[call[q].module_string] = heap[call[q].module_string]
    BY Zenon, <1>13, <1>l, <2>2, MinorKept DEF Readers
  <2> QED
    BY <1>same, <2>1, <2>2, <2>3
<1>14. CASE UNCHANGED vars
  BY Zenon, <1>same, <1>14 DEF vars
<1> QED
  BY Zenon, <1>1, <1>2, <1>3, <1>4, <1>5, <1>6, <1>7, <1>8, <1>9, <1>10, <1>11, <1>12, <1>13,
     <1>14 DEF Next, Step

-----------------------------------------------------------------------------
(* The driver implements the device.                                         *)

\* Whether a SET_STRING is under way on a minor depends on calls and files only.
LEMMA SettingKept ==
    ASSUME NEW n \in Minors,
           \A q \in Procs :
               (filp'[q].private_data = n /\ call'[q].pc \in {"set", "copy"})
                   <=> (filp[q].private_data = n /\ call[q].pc \in {"set", "copy"})
    PROVE  Setting(n)' <=> Setting(n)
BY DEF Setting, curr_minor

\* The string of a minor, as the device has it, depends on its buffer only.
LEMMA StrKept ==
    ASSUME NEW n \in Minors, loaded' = loaded, Setting(n)' <=> Setting(n),
           OurData'[n].module_string = OurData[n].module_string,
           OurData'[n].string_size = OurData[n].string_size,
           OurData[n].module_string # NULL
               => heap'[OurData[n].module_string] = heap[OurData[n].module_string]
    PROVE  Str(n)' = Str(n)
BY DEF Str

\* A process whose call does not change is seen to go on reading, or not to.
LEMMA ReadKept ==
    ASSUME NEW q \in Procs,
           \/ call'[q] = call[q]
           \/ call[q].pc # "read" /\ call'[q].pc # "read"
    PROVE  Asked(q)' = Asked(q) /\ Avail(q)' = Avail(q)
BY DEF Asked, Avail

\* A process that is not in a read asks for nothing.
LEMMA NotAsking ==
    ASSUME NEW q \in Procs
    PROVE  /\ call[q].pc # "read" => Asked(q) = 0 /\ Avail(q) = 0
           /\ call'[q].pc # "read" => Asked(q)' = 0 /\ Avail(q)' = 0
BY DEF Asked, Avail

\* A process that is not in a SET_STRING sets nothing, before or after the step;
\* one whose call does not change goes on setting its string.
LEMMA NewKept ==
    ASSUME NEW q \in Procs
    PROVE  /\ call[q].pc \notin {"set", "copy"} => New(q) = NULL
           /\ call'[q].pc \notin {"set", "copy"} => New(q)' = NULL
           /\ call'[q] = call[q] => New(q)' = New(q)
BY DEF New

\* A step that changes none of what the mapping reads is a stutter of the device.
LEMMA DeviceSame ==
    ASSUME \A n \in Minors : Str(n)' = Str(n) /\ OurData'[n].max_size = OurData[n].max_size,
           \A q \in Procs : /\ filp'[q].private_data = filp[q].private_data
                            /\ filp'[q].f_pos = filp[q].f_pos /\ filp'[q].got = filp[q].got
                            /\ Asked(q)' = Asked(q) /\ Avail(q)' = Avail(q) /\ New(q)' = New(q)
    PROVE  UNCHANGED Device!dvars
BY DEF Device!dvars

\* The first state of the driver is the first state of the device.
LEMMA DeviceInit == ASSUME Init PROVE Device!DInit
<1>1. \A n \in Minors : Str(n) = NULL
  BY DEF Str, Init
<1>2. \A n \in Minors : OurData[n].max_size = 0
  BY DEF Init, Fresh
<1>3. \A q \in Procs : /\ filp[q].private_data = NULL /\ filp[q].f_pos = 0 /\ filp[q].got = <<>>
                       /\ call[q].pc = "idle"
  BY DEF Init, Closed, Idle
<1>4. \A q \in Procs : Asked(q) = 0 /\ Avail(q) = 0 /\ New(q) = NULL
  BY <1>3, NotAsking, NewKept
<1> QED
  BY <1>1, <1>2, <1>3, <1>4 DEF Device!DInit

\* insmod and rmmod
LEMMA DeviceLoad == ASSUME Calm, init_module PROVE Device!Load
<1> USE DEF Calm, TypeInv
<1>1. \A n \in Minors : Str(n)' = NULL /\ OurData'[n].max_size = 0
  BY DEF Str, init_module, Fresh
<1>2. \A q \in Procs : filp[q].private_data = NULL /\ filp' = filp /\ call' = call
  BY DEF init_module, Closed
<1>3. \A q \in Procs : Asked(q)' = Asked(q) /\ Avail(q)' = Avail(q) /\ New(q)' = New(q)
  BY <1>2, ReadKept, NewKept
<1> QED
  BY <1>1, <1>2, <1>3 DEF Device!Load

\* rmmod is the device's Unload.
LEMMA DeviceUnload == ASSUME Calm, cleanup_module PROVE Device!Unload
<1> USE DEF Calm, TypeInv
<1>1. \A n \in Minors : Str(n)' = NULL /\ OurData' = OurData
  BY DEF Str, cleanup_module
<1>2. \A q \in Procs : filp[q].private_data = NULL /\ filp' = filp /\ call' = call
  BY CalmProduces DEF cleanup_module, Closed
<1>3. \A q \in Procs : Asked(q)' = Asked(q) /\ Avail(q)' = Avail(q) /\ New(q)' = New(q)
  BY <1>2, ReadKept, NewKept
<1> QED
  BY <1>1, <1>2, <1>3 DEF Device!Unload

\* my_open() is the device's open, or fails.
LEMMA DeviceOpen ==
    ASSUME Calm, NEW p \in Procs, NEW m \in Minors, my_open(p, m)
    PROVE  Device!Open(p, m) \/ UNCHANGED Device!dvars
<1> USE DEF Calm, TypeInv
<1>1. call' = call /\ heap' = heap /\ loaded' = loaded /\ call[p].pc = "idle"
  <2>1. call[p] = Idle
    BY OpenEffect, ClosedIdle
  <2> QED
    BY <2>1, OpenEffect DEF Idle
<1>2. ASSUME NEW n \in Minors
      PROVE  Str(n)' = Str(n) /\ OurData'[n].max_size = OurData[n].max_size
  <2>1. Setting(n)' <=> Setting(n)
    <3>1. \A q \in Procs \ {p} : filp'[q] = filp[q]
      BY OpenEffect
    <3> QED
      BY <1>1, <3>1, SettingKept
  <2> QED
    BY Zenon, <1>1, <2>1, OpenEffect, StrKept
<1>3. \A q \in Procs : Asked(q)' = Asked(q) /\ Avail(q)' = Avail(q) /\ New(q)' = New(q)
  BY <1>1, ReadKept, NewKept
<1>4. CASE filp' = filp
  BY Zenon, <1>2, <1>3, <1>4, DeviceSame
<1>5. CASE /\ filp'[p].private_data = m /\ filp'[p].f_pos = 0 /\ filp'[p].got = <<>>
  <2>1. filp[p].private_data = NULL /\ \A q \in Procs \ {p} : filp'[q] = filp[q]
    BY OpenEffect DEF Closed
  <2> QED
    BY Zenon, <1>2, <1>3, <1>5, <2>1 DEF Device!Open
<1> QED
  BY <1>4, <1>5, OpenEffect

\* my_release() is the device's close.
LEMMA DeviceClose ==
    ASSUME Calm, NEW p \in Procs, my_release(p)
    PROVE  Device!Close(p)
<1> USE DEF Calm, TypeInv
<1>1. /\ call' = call /\ heap' = heap /\ loaded' = loaded /\ OurData' = OurData
      /\ call[p] = Idle /\ filp[p].private_data # NULL
  BY ZenonT(40), ReleaseEffect, EntersMinor, DriverAssumption
<1>i. call[p].pc = "idle"
  BY <1>1 DEF Idle
<1>2. \A q \in Procs \ {p} : filp'[q] = filp[q]
  BY ReleaseEffect
<1>3. ASSUME NEW n \in Minors PROVE Str(n)' = Str(n)
  <2>1. Setting(n)' <=> Setting(n)
    BY <1>1, <1>i, <1>2, SettingKept
  <2> QED
    BY <1>1, <2>1, StrKept
<1>4. \A q \in Procs : Asked(q)' = Asked(q) /\ Avail(q)' = Avail(q) /\ New(q)' = New(q)
  BY <1>1, ReadKept, NewKept
<1>5. Device!Ready(p)
  BY <1>1, <1>i, NotAsking, NewKept DEF Device!Ready
<1>6. filp'[p].private_data = NULL /\ filp'[p].f_pos = 0 /\ filp'[p].got = <<>>
  BY ReleaseEffect DEF Closed
<1> QED
  BY Zenon, <1>1, <1>2, <1>3, <1>4, <1>5, <1>6 DEF Device!Close

\* Steps that leave strings, buffers and the files' minors alone.
LEMMA StringsKept ==
    ASSUME loaded' = loaded, heap' = heap,
           \A n \in Minors : /\ OurData'[n].module_string = OurData[n].module_string
                             /\ OurData'[n].string_size = OurData[n].string_size,
           \A q \in Procs : /\ filp'[q].private_data = filp[q].private_data
                            /\ call'[q].pc \in {"set", "copy"} <=> call[q].pc \in {"set", "copy"}
    PROVE  \A n \in Minors : Str(n)' = Str(n)
<1> TAKE n \in Minors
<1>1. Setting(n)' <=> Setting(n)
  BY SettingKept
<1> QED
  BY <1>1, StrKept

\* my_read() up to its first copy begins a read of the device, or is an empty one.
LEMMA DeviceRead ==
    ASSUME 2 * MaxSize < IntWord, CalmRun, NEW p \in Procs, NEW count \in Counts, my_read(p, count)
    PROVE  Device!CallRead(p, count) \/ Device!EmptyRead(p, count)
<1> USE DEF CalmRun, Calm, TypeInv
<1> DEFINE r == reading(p, count)
           m == filp[p].private_data
           pos == filp[p].f_pos
<1>1. /\ Enters(p) /\ m \in Minors /\ m # NULL /\ call[p] = Idle
      /\ heap' = heap /\ loaded' = loaded /\ OurData' = OurData
      /\ \A q \in Procs \ {p} : call'[q] = call[q] /\ filp'[q] = filp[q]
      /\ filp'[p].private_data = m /\ filp'[p].f_pos = pos
  BY Zenon, ReadEffect, EntersMinor, DriverAssumption DEF curr_minor
<1>i. call[p].pc = "idle"
  BY <1>1 DEF Idle
<1>r. Device!Ready(p) /\ New(p) = NULL
  BY <1>1, <1>i, NotAsking, NewKept DEF Device!Ready
<1>2. /\ OurData[m].max_size \in 0 .. MaxSize /\ pos \in 0 .. MaxSize /\ MaxSize \in Nat
      /\ count \in Nat
  BY Zenon, <1>1, DriverAssumption DEF Bounded
<1>3. r.allowed_bytes = OurData[m].max_size - pos /\ r.count = count /\ r.pc = "read"
  <2>1. r.allowed_bytes = Int32(OurData[m].max_size - pos) /\ r.count = count /\ r.pc = "read"
    BY DEF reading, curr_minor
  <2>2. Int32(OurData[m].max_size - pos) = OurData[m].max_size - pos
    BY <1>2, Int32Small
  <2> QED
    BY <2>1, <2>2
<1>4. \A q \in Procs \ {p} : Asked(q)' = Asked(q) /\ Avail(q)' = Avail(q) /\ New(q)' = New(q)
  BY <1>1, ReadKept, NewKept
<1>5. CASE /\ r.allowed_bytes > 0 /\ count > 0 /\ filp' = filp /\ call'[p] = r
  <2>1. call'[p].pc = "read"
    BY <1>3, <1>5
  <2>2. \A n \in Minors : Str(n)' = Str(n)
    <3> HIDE DEF r
    <3> QED
      BY Zenon, <1>1, <1>i, <2>1, StringsKept
  <2>3. Asked(p)' = count /\ Avail(p)' = OurData[m].max_size - pos /\ New(p)' = New(p)
    <3>1. New(p)' = NULL
      BY <2>1, NewKept
    <3> HIDE DEF r
    <3> QED
      BY <1>3, <1>5, <1>r, <2>1, <3>1 DEF Asked, Avail
  <2>4. OurData[m].max_size > pos
    BY <1>2, <1>3, <1>5
  <2>5. Device!CallRead(p, count)
    <3> HIDE DEF r
    <3> QED
      BY Zenon, <1>1, <1>r, <1>4, <1>5, <2>2, <2>3, <2>4 DEF Device!CallRead
  <2> QED
    BY <2>5
<1>6. CASE /\ ~(r.allowed_bytes > 0 /\ count > 0) /\ call' = call /\ filp'[p].got = <<>>
  <2>1. \A n \in Minors : Str(n)' = Str(n)
    BY <1>1, <1>6, StringsKept
  <2>2. \A q \in Procs : Asked(q)' = Asked(q) /\ Avail(q)' = Avail(q) /\ New(q)' = New(q)
    BY <1>6, ReadKept, NewKept
  <2>3. OurData[m].max_size <= pos \/ count = 0
    BY <1>2, <1>3, <1>6
  <2>4. Device!EmptyRead(p, count)
    <3> HIDE DEF r
    <3> QED
      BY Zenon, <1>1, <1>r, <1>6, <2>1, <2>2, <2>3 DEF Device!EmptyRead
  <2> QED
    BY <2>4
<1>7. OurData[m].string_size # 0
  BY CalmRead DEF curr_minor
<1> QED
  BY Zenon, <1>5, <1>6, <1>7, ReadEffect DEF curr_minor

\* my_write() is the device's write.
LEMMA DeviceWrite ==
    ASSUME 2 * MaxSize < IntWord, CalmRun, Bounded',
           NEW p \in Procs, NEW count \in Counts, my_write(p, count)
    PROVE  Device!Write(p, count)
<1> USE DEF CalmRun, Calm, TypeInv
<1> DEFINE m == filp[p].private_data
           new == OurData[m].max_size + count
<1>1. /\ m \in Minors /\ m # NULL /\ heap' = heap /\ loaded' = loaded /\ call' = call /\ filp' = filp
      /\ call[p] = Idle
      /\ new <= world.size /\ OurData'[m].max_size = Int32(new)
      /\ \A n \in Minors \ {m} : OurData'[n] = OurData[n]
      /\ \A n \in Minors : /\ OurData'[n].module_string = OurData[n].module_string
                           /\ OurData'[n].string_size = OurData[n].string_size
  BY Zenon, WriteEffect, EntersMinor, DriverAssumption DEF curr_minor
<1>2. count \in Nat /\ world.size \in 0 .. MaxSize /\ MaxSize \in Nat
  BY Typed, DriverAssumption
<1>3. OurData[m].max_size \in 0 .. MaxSize
  BY <1>1 DEF Bounded
<1>4. new \in 0 .. MaxSize
  <2>1. new <= world.size
    BY <1>1
  <2> QED
    BY ONLY <1>2, <1>3, <2>1
<1>5. OurData'[m].max_size = new
  <2> HIDE DEF new
  <2> QED
    BY <1>1, <1>2, <1>4, Int32Small
<1>6. \A n \in Minors : Str(n)' = Str(n)
  BY <1>1, StringsKept
<1>7. \A q \in Procs : Asked(q)' = Asked(q) /\ Avail(q)' = Avail(q) /\ New(q)' = New(q)
  BY Zenon, <1>1, ReadKept, NewKept
<1>r. Device!Ready(p)
  <2>1. call[p].pc = "idle"
    BY <1>1 DEF Idle
  <2> QED
    BY <1>1, <2>1, NotAsking, NewKept DEF Device!Ready
<1> QED
  BY Zenon, <1>1, <1>r, <1>4, <1>5, <1>6, <1>7 DEF Device!Write

\* my_llseek() is the device's seek.
LEMMA DeviceSeek ==
    ASSUME CalmRun, NEW p \in Procs, NEW shift \in Shifts, my_llseek(p, shift)
    PROVE  Device!Seek(p, shift)
<1> USE DEF CalmRun, Calm, TypeInv
<1> DEFINE m == filp[p].private_data
<1>1. /\ m \in Minors /\ m # NULL /\ heap' = heap /\ loaded' = loaded /\ call' = call
      /\ OurData' = OurData /\ call[p] = Idle /\ filp' \in [Procs -> Files]
      /\ \A q \in Procs \ {p} : filp'[q] = filp[q]
      /\ filp'[p].private_data = m /\ filp'[p].got = filp[p].got
  BY Zenon, SeekEffect, EntersMinor, DriverAssumption DEF curr_minor
<1>2. filp'[p].f_pos = Device!Nearest(filp[p].f_pos + shift, OurData[m].max_size)
  <2> DEFINE new == filp[p].f_pos + shift
             max == OurData[m].max_size
  <2>1. filp'[p].f_pos = IF (IF new >= max THEN max ELSE new) <= 0 THEN 0
                         ELSE IF new >= max THEN max ELSE new
    BY SeekEffect DEF curr_minor
  <2>2. new \in Int /\ max \in Nat
    BY <1>1, DriverAssumption DEF Bounded
  <2>3. \A i \in Int, last \in Nat :
          Device!Nearest(i, last) = IF (IF i >= last THEN last ELSE i) <= 0 THEN 0
                                    ELSE IF i >= last THEN last ELSE i
    BY DEF Device!Nearest
  <2> QED
    BY Zenon, <2>1, <2>2, <2>3
<1>3. Device!Ready(p)
  <2>1. call[p].pc = "idle"
    BY <1>1 DEF Idle
  <2> QED
    BY <1>1, <2>1, NotAsking, NewKept DEF Device!Ready
<1>4. \A n \in Minors : Str(n)' = Str(n)
  BY Zenon, <1>1, StringsKept
<1>5. \A q \in Procs : Asked(q)' = Asked(q) /\ Avail(q)' = Avail(q) /\ New(q)' = New(q)
  BY Zenon, <1>1, ReadKept, NewKept
<1> QED
  BY Zenon, <1>1, <1>2, <1>3, <1>4, <1>5 DEF Device!Seek

\* The strings of the other minors, when p sets or resets its own.
LEMMA OtherStrings ==
    ASSUME Calm, NEW p \in Procs, NEW n \in Minors, n # curr_minor(p),
           loaded' = loaded, filp' = filp, \A q \in Procs \ {p} : call'[q] = call[q],
           \/ reset(p) \/ set_string_alloc(p) \/ set_string_copy(p)
           \/ \E s \in Strings : set_string(p, s)
    PROVE  Str(n)' = Str(n)
<1>1. /\ OurData'[n] = OurData[n]
      /\ OurData[n].module_string # NULL
           => heap'[OurData[n].module_string] = heap[OurData[n].module_string]
  BY Zenon, MinorKept
<1>2. Setting(n)' <=> Setting(n)
  BY SettingKept DEF curr_minor
<1> QED
  BY <1>1, <1>2, StrKept

\* RESET is the device's reset.
LEMMA DeviceReset ==
    ASSUME Calm, NEW p \in Procs, reset(p)
    PROVE  Device!Reset(p)
<1> USE DEF Calm, TypeInv
<1> DEFINE m == filp[p].private_data
<1>1. /\ m \in Minors /\ m # NULL /\ loaded' = loaded /\ call' = call /\ filp' = filp /\ call[p] = Idle
      /\ \A n \in Minors \ {m} : OurData'[n] = OurData[n]
      /\ OurData'[m].max_size = 0 /\ OurData'[m].module_string = NULL
  BY Zenon, ResetEffect, EntersMinor, DriverAssumption DEF curr_minor
<1>2. Str(m)' = NULL
  BY <1>1 DEF Str
<1>3. \A n \in Minors \ {m} : Str(n)' = Str(n)
  BY Zenon, <1>1, OtherStrings DEF curr_minor
<1>4. \A q \in Procs : Asked(q)' = Asked(q) /\ Avail(q)' = Avail(q) /\ New(q)' = New(q)
  BY Zenon, <1>1, ReadKept, NewKept
<1>r. Device!Ready(p)
  <2>1. call[p].pc = "idle"
    BY <1>1 DEF Idle
  <2> QED
    BY <1>1, <2>1, NotAsking, NewKept DEF Device!Ready
<1> QED
  BY Zenon, <1>1, <1>r, <1>2, <1>3, <1>4 DEF Device!Reset

\* A string is not NULL.
LEMMA StringsNotNull == \A s \in Strings : s # NULL
<1>1. Chars \subseteq Bytes
  BY DEF Bytes
<1> QED
  BY <1>1, DriverAssumption

\* SET_STRING up to kmalloc() begins to set a string, and the device has none.
LEMMA DeviceCallSet ==
    ASSUME Calm, NEW p \in Procs, NEW s \in Strings, set_string(p, s)
    PROVE  Device!CallSet(p, s)
<1> USE DEF Calm, TypeInv
<1> DEFINE m == filp[p].private_data
<1>1. /\ m \in Minors /\ m # NULL /\ loaded' = loaded /\ filp' = filp
      /\ \A n \in Minors \ {m} : OurData'[n] = OurData[n]
      /\ OurData'[m].max_size = OurData[m].max_size /\ OurData'[m].module_string = NULL
      /\ call[p] = Idle /\ call'[p].pc = "set" /\ call'[p].new_string = s
      /\ \A q \in Procs \ {p} : call'[q] = call[q]
  BY Zenon, SetEffect, EntersMinor, DriverAssumption DEF curr_minor
<1>2. Str(m)' = NULL
  BY <1>1 DEF Str
<1>3. \A n \in Minors \ {m} : Str(n)' = Str(n)
  BY Zenon, <1>1, OtherStrings DEF curr_minor
<1>4. call[p].pc = "idle"
  BY <1>1 DEF Idle
<1>5. \A q \in Procs : Asked(q)' = Asked(q) /\ Avail(q)' = Avail(q)
  BY Zenon, <1>1, <1>4, ReadKept
<1>6. New(p)' = s /\ \A q \in Procs \ {p} : New(q)' = New(q)
  BY <1>1, NewKept DEF New
<1>r. Device!Ready(p)
  BY <1>1, <1>4, NotAsking, NewKept DEF Device!Ready
<1> QED
  BY Zenon, <1>1, <1>r, <1>2, <1>3, <1>5, <1>6 DEF Device!CallSet

\* Nothing is seen of the allocation, unless it fails.
LEMMA DeviceAlloc ==
    ASSUME Calm, NEW p \in Procs, set_string_alloc(p)
    PROVE  Device!FailSet(p) \/ UNCHANGED Device!dvars
<1> USE DEF Calm, TypeInv
<1> DEFINE m == filp[p].private_data
<1>1. /\ m \in Minors /\ loaded /\ loaded' = loaded /\ filp' = filp /\ call[p].new_string \in Strings
      /\ \A n \in Minors \ {m} : OurData'[n] = OurData[n]
      /\ OurData'[m].max_size = OurData[m].max_size
      /\ call[p].pc = "set" /\ \A q \in Procs \ {p} : call'[q] = call[q]
  BY Zenon, AllocEffect DEF curr_minor, SettingString
<1>2. \/ call'[p].pc = "copy" /\ call'[p].new_string = call[p].new_string
      \/ (call'[p].pc = "idle" /\ OurData'[m].module_string = NULL)
  BY AllocEffect DEF curr_minor, Idle
<1>3. Str(m) = NULL
  BY <1>1 DEF Str, Setters, curr_minor
<1>4. Str(m)' = NULL
  <2>1. CASE call'[p].pc = "copy"
    BY <1>1, <2>1 DEF Str, Setting, curr_minor
  <2>2. CASE OurData'[m].module_string = NULL
    BY <1>1, <2>2 DEF Str
  <2> QED
    BY <1>2, <2>1, <2>2
<1>5. \A n \in Minors \ {m} : Str(n)' = Str(n)
  BY Zenon, <1>1, OtherStrings DEF curr_minor
<1>6. \A q \in Procs : Asked(q)' = Asked(q) /\ Avail(q)' = Avail(q)
  BY Zenon, <1>1, <1>2, ReadKept
<1>7. New(p) # NULL /\ New(p) = call[p].new_string /\ \A q \in Procs \ {p} : New(q)' = New(q)
  <2>1. New(p) = call[p].new_string
    BY <1>1 DEF New
  <2>2. call[p].new_string # NULL
    BY <1>1, StringsNotNull
  <2> QED
    BY Zenon, <1>1, <2>1, <2>2, NewKept
<1>8. CASE call'[p].pc = "copy" /\ call'[p].new_string = call[p].new_string
  <2>1. New(p)' = New(p)
    BY <1>7, <1>8 DEF New
  <2> QED
    BY Zenon, <1>1, <1>3, <1>4, <1>5, <1>6, <1>7, <2>1, DeviceSame
<1>9. CASE call'[p].pc = "idle"
  <2>1. New(p)' = NULL
    BY <1>9, NewKept
  <2> QED
    BY Zenon, <1>1, <1>3, <1>4, <1>5, <1>6, <1>7, <2>1 DEF Device!FailSet
<1> QED
  BY <1>2, <1>8, <1>9

\* The end of SET_STRING gives the device its new string, or fails.
LEMMA DeviceSet ==
    ASSUME Calm, NEW p \in Procs, set_string_copy(p)
    PROVE  Device!ReturnSet(p) \/ Device!FailSet(p)
<1> USE DEF Calm, TypeInv
<1> DEFINE m == filp[p].private_data
           s == call[p].new_string
           b == call[p].to
<1>1. /\ m \in Minors /\ m # NULL /\ loaded /\ loaded' = loaded /\ filp' = filp
      /\ \A n \in Minors \ {m} : OurData'[n] = OurData[n]
      /\ OurData'[m].max_size = OurData[m].max_size
      /\ call[p].pc = "copy" /\ \A q \in Procs \ {p} : call'[q] = call[q]
      /\ call'[p] = Idle /\ s \in Strings /\ b \in Bufs
      /\ heap' \in [Bufs -> {NULL} \cup Seq(Bytes)]
  BY Zenon, CalmCopy, DriverAssumption DEF curr_minor
<1>2. call'[p].pc = "idle"
  BY <1>1 DEF Idle
<1>3. Str(m) = NULL
  BY Zenon, <1>1 DEF Str, Setting, curr_minor
<1>4. \A n \in Minors \ {m} : Str(n)' = Str(n)
  BY Zenon, <1>1, OtherStrings DEF curr_minor
<1>5. \A q \in Procs : Asked(q)' = Asked(q) /\ Avail(q)' = Avail(q)
  BY <1>1, <1>2, ReadKept
<1>n. New(p) = s /\ s # NULL /\ New(p)' = NULL /\ \A q \in Procs \ {p} : New(q)' = New(q)
  <2>1. New(p) = s
    BY <1>1 DEF New
  <2>2. s # NULL
    BY Zenon, <1>1, StringsNotNull
  <2> HIDE DEF s
  <2> QED
    BY Zenon, <1>1, <1>2, <2>1, <2>2, NewKept
<1>6. CASE /\ OurData'[m].string_size = Len(s) /\ OurData'[m].module_string = b
           /\ heap'[b] # NULL /\ Len(heap'[b]) = Len(s) + 1
           /\ \A i \in 1 .. Len(s) : heap'[b][i] = s[i]
  <2>1. ~Setting(m)'
    BY Zenon, <1>1, <1>2 DEF Setting, Exclusive, curr_minor
  <2>2. b # NULL
    BY Zenon, <1>1, DriverAssumption
  <2>3. Str(m)' = SubSeq(heap'[b], 1, Len(s))
    BY Zenon, <1>1, <1>6, <2>1, <2>2 DEF Str
  <2>4. SubSeq(heap'[b], 1, Len(s)) = s
    <3> HIDE DEF b, s
    <3>1. heap'[b] \in Seq(Bytes)
      BY Zenon, <1>1, <1>6
    <3>2. s \in Seq(Chars) /\ Len(s) \in Nat
      BY <1>1, DriverAssumption
    <3> QED
      BY <1>6, <3>1, <3>2
  <2>5. Device!ReturnSet(p)
    <3> HIDE DEF b, s
    <3> QED
      BY Zenon, <1>1, <1>3, <1>4, <1>5, <1>n, <2>3, <2>4 DEF Device!ReturnSet
  <2> QED
    BY <2>5
<1>7. CASE OurData'[m].module_string = NULL
  <2>1. Str(m)' = NULL
    BY Zenon, <1>1, <1>7 DEF Str
  <2> QED
    BY Zenon, <1>1, <1>3, <1>4, <1>5, <1>n, <2>1 DEF Device!FailSet
<1> QED
  BY Zenon, <1>6, <1>7, CalmCopy DEF curr_minor

\* A round of the loop of my_read() shows nothing, delivers what the device
\* promises, or fails.
LEMMA DeviceByte ==
    ASSUME CalmRun, NEW p \in Procs, copy_byte(p)
    PROVE  Device!ReturnRead(p) \/ Device!FailRead(p) \/ UNCHANGED Device!dvars
<1> USE DEF CalmRun, Calm, TypeInv
<1> DEFINE c == call[p]
           m == filp[p].private_data
           pos == filp[p].f_pos
           out == Append(c.out, heap[c.module_string][c.string_pos + 1])
<1>i. Idle.pc = "idle"
  BY DEF Idle
<1>1. /\ loaded /\ loaded' = loaded /\ OurData' = OurData /\ heap' = heap /\ c.pc = "read"
      /\ \A q \in Procs \ {p} : call'[q] = call[q] /\ filp'[q] = filp[q]
      /\ filp'[p].private_data = m
  BY Zenon, ByteEffect
<1>2. /\ c \in Reading /\ m \in Minors
      /\ c.module_string \in Bufs /\ c.module_string = OurData[m].module_string
      /\ c.string_size = OurData[m].string_size
      /\ c.string_pos < c.string_size
      /\ heap[c.module_string] # NULL /\ heap[c.module_string] \in Seq(Bytes)
      /\ Len(heap[c.module_string]) = c.string_size + 1 /\ ~Setting(m)
  BY Zenon, <1>1, ReaderBuffer DEF curr_minor
<1>3. /\ c.string_size \in Nat /\ c.string_pos \in Nat /\ c.allowed_bytes \in Int
      /\ c.count \in Nat /\ c.out \in Seq(Bytes) /\ pos \in Nat
  <2>1. c.count \in Nat
    BY Zenon, <1>2, DriverAssumption DEF Reading
  <2>2. pos \in Nat
    BY DEF Bounded
  <2> QED
    BY Zenon, <1>2, <2>1, <2>2 DEF Reading
<1>4. /\ Len(c.out) < c.allowed_bytes /\ Len(c.out) < c.count
      /\ c.string_pos = (pos + Len(c.out)) % c.string_size
      /\ \A j \in 1 .. Len(c.out) :
            c.out[j] = heap[c.module_string][((pos + j - 1) % c.string_size) + 1]
  BY Zenon, <1>1 DEF Progress
<1>5. Asked(p) = c.count /\ Avail(p) = c.allowed_bytes /\ Asked(p) > 0
  <2>1. Asked(p) = c.count /\ Avail(p) = c.allowed_bytes
    BY Zenon, <1>1 DEF Asked, Avail
  <2>2. Len(c.out) \in Nat
    BY <1>3
  <2> QED
    BY ONLY <2>1, <2>2, <1>3, <1>4
<1>6. \A q \in Procs \ {p} : Asked(q)' = Asked(q) /\ Avail(q)' = Avail(q) /\ New(q)' = New(q)
  BY Zenon, <1>1, ReadKept, NewKept
<1>n. ASSUME call'[p].pc \in {"read", "idle"} PROVE New(p)' = New(p)
  <2>1. New(p)' = NULL
    BY <1>n, NewKept
  <2>2. New(p) = NULL
    BY <1>1, NewKept
  <2> QED
    BY <2>1, <2>2
<1>7. ASSUME call'[p].pc \in {"read", "idle"}
      PROVE  \A n \in Minors : Str(n)' = Str(n)
  BY Zenon, <1>1, <1>7, StringsKept
<1>8. CASE /\ call'[p] = [c EXCEPT !.out = out, !.string_pos = next_pos(c)] /\ filp' = filp
  <2>1. call'[p].pc = "read" /\ call'[p].allowed_bytes = c.allowed_bytes /\ call'[p].count = c.count
    <3> HIDE DEF c, out
    <3> QED
      BY <1>1, <1>2, <1>8 DEF Reading
  <2>2. Asked(p)' = Asked(p) /\ Avail(p)' = Avail(p)
    BY <1>1, <2>1 DEF Asked, Avail
  <2> QED
    BY <1>1, <1>6, <1>7, <1>8, <1>n, <2>1, <2>2, DeviceSame
<1>9. CASE call'[p] = Idle /\ filp' = filp
  <2>1. call'[p].pc = "idle" /\ Asked(p)' = 0 /\ Avail(p)' = 0
    BY <1>i, <1>9, NotAsking
  <2>2. Device!FailRead(p)
    BY Zenon, <1>1, <1>5, <1>6, <1>7, <1>9, <1>n, <2>1 DEF Device!FailRead
  <2> QED
    BY <2>2
<1>10. CASE /\ Len(out) = c.allowed_bytes \/ Len(out) = c.count
            /\ call'[p] = Idle /\ filp'[p].f_pos = pos + Len(out) /\ filp'[p].got = out
  <2> DEFINE buf == heap[c.module_string]
             s == SubSeq(buf, 1, c.string_size)
             n == IF Asked(p) < Avail(p) THEN Asked(p) ELSE Avail(p)
  <2>1. call'[p].pc = "idle" /\ Asked(p)' = 0 /\ Avail(p)' = 0
    BY <1>i, <1>10, NotAsking
  <2>2. Str(m) = s /\ s # NULL
    <3>1. Str(m) = s
      BY Zenon, <1>1, <1>2, DriverAssumption DEF Str
    <3>2. s \in Seq(Bytes)
      <4>1. buf \in Seq(Bytes) /\ Len(buf) = c.string_size + 1 /\ c.string_size \in Nat
        BY Zenon, <1>2, <1>3
      <4> HIDE DEF buf, c
      <4> QED
        BY ONLY <4>1
    <3> QED
      BY Zenon, <3>1, <3>2, DriverAssumption
  <2>3. Len(s) = c.string_size /\ \A i \in 1 .. c.string_size : s[i] = buf[i]
    <3>1. buf \in Seq(Bytes) /\ Len(buf) = c.string_size + 1 /\ c.string_size \in Nat
      BY Zenon, <1>2, <1>3
    <3> HIDE DEF buf, c
    <3> QED
      BY ONLY <3>1
  <2>4. /\ Len(out) = Len(c.out) + 1 /\ Len(c.out) \in Nat
        /\ out[Len(c.out) + 1] = buf[c.string_pos + 1]
        /\ \A j \in 1 .. Len(c.out) : out[j] = c.out[j]
        /\ DOMAIN out = 1 .. Len(out) /\ out = [j \in 1 .. Len(out) |-> out[j]]
    <3> DEFINE x == buf[c.string_pos + 1]
    <3>1. x \in Bytes
      <4>1. /\ buf \in Seq(Bytes) /\ Len(buf) = c.string_size + 1
            /\ c.string_size \in Nat /\ c.string_pos \in Nat /\ c.string_pos < c.string_size
        BY Zenon, <1>2, <1>3
      <4> HIDE DEF buf, c
      <4> QED
        BY ONLY <4>1
    <3>2. out = Append(c.out, x)
      OBVIOUS
    <3> HIDE DEF x
    <3>3. Append(c.out, x) \in Seq(Bytes) /\ Len(Append(c.out, x)) = Len(c.out) + 1
      BY <1>3, <3>1
    <3>4. c.out \in Seq(Bytes)
      BY <1>3
    <3> HIDE DEF c, out
    <3>5. /\ Len(c.out) \in Nat /\ Append(c.out, x)[Len(c.out) + 1] = x
          /\ \A j \in 1 .. Len(c.out) : Append(c.out, x)[j] = c.out[j]
      BY ONLY <3>1, <3>4
    <3>6. /\ DOMAIN out = 1 .. Len(out) /\ out = [j \in 1 .. Len(out) |-> out[j]]
      BY ONLY <3>2, <3>3
    <3> QED
      BY Zenon, <3>2, <3>3, <3>5, <3>6 DEF x
  <2>5. Len(out) = n
    <3> HIDE DEF out, c
    <3> QED
      BY <1>3, <1>4, <1>5, <1>10, <2>4
  <2>6. ASSUME NEW j \in 1 .. Len(out)
        PROVE  out[j] = s[((pos + j - 1) % Len(s)) + 1]
    <3> DEFINE k == (pos + j - 1) % c.string_size
    <3>0. j \in Nat \ {0} /\ (j \in 1 .. Len(c.out) \/ j = Len(c.out) + 1)
      <4> HIDE DEF out, c
      <4> QED
        BY <2>4
    <3>1. k \in 0 .. c.string_size - 1
      <4>1. pos + j - 1 \in Nat /\ c.string_size \in Nat \ {0}
        BY <1>2, <1>3, <3>0
      <4> HIDE DEF c, pos
      <4> QED
        BY Zenon, <4>1, ModNext
    <3>2. s[k + 1] = buf[k + 1]
      <4> HIDE DEF k, s, buf
      <4> QED
        BY <1>3, <2>3, <3>1
    <3>3. out[j] = buf[k + 1]
      <4>1. CASE j \in 1 .. Len(c.out)
        BY Zenon, <1>4, <2>4, <4>1
      <4>2. CASE j = Len(c.out) + 1
        <5>1. pos + j - 1 = pos + Len(c.out)
          <6>1. pos \in Nat /\ Len(c.out) \in Nat
            BY Zenon, <1>3, <2>4
          <6> HIDE DEF pos, c
          <6> QED
            BY ONLY <4>2, <6>1
        <5> QED
          BY Zenon, <1>4, <2>4, <4>2, <5>1
      <4> QED
        BY Zenon, <3>0, <4>1, <4>2
    <3> QED
      BY Zenon, <2>3, <3>2, <3>3
  <2>7. out = Device!Repeated(s, pos, n)
    <3> HIDE DEF out, s, n
    <3> QED
      BY <2>4, <2>5, <2>6 DEF Device!Repeated
  <2>8. Device!ReturnRead(p)
    <3> HIDE DEF out, s, c
    <3> QED
      BY Zenon, <1>1, <1>2, <1>5, <1>6, <1>7, <1>10, <1>n, <2>1, <2>2, <2>5, <2>7 DEF Device!ReturnRead
  <2> QED
    BY <2>8
<1>11. ~Break /\ c.module_string # NULL
  <2>1. Next
    BY Zenon DEF Next, Step
  <2>2. ~broken'
    BY <2>1, NotBrokenStep
  <2> QED
    BY Zenon, <1>2, <2>2, DriverAssumption DEF Break
<1> QED
  BY Zenon, <1>2, <1>3, <1>8, <1>9, <1>10, <1>11, ByteEffect

\* Every step of the driver is one of the device, or is not seen.
LEMMA DeviceStep ==
    ASSUME 2 * MaxSize < IntWord, CalmRun, Bounded', [Next]_vars
    PROVE  [Device!DNext]_(Device!dvars)
<1>1. CASE init_module
  BY <1>1, DeviceLoad DEF CalmRun, Device!DNext
<1>2. CASE cleanup_module
  BY <1>2, DeviceUnload DEF CalmRun, Device!DNext
<1>3. ASSUME NEW p \in Procs, NEW m \in Minors, my_open(p, m) PROVE [Device!DNext]_(Device!dvars)
  BY <1>3, DeviceOpen DEF CalmRun, Device!DNext
<1>4. ASSUME NEW p \in Procs, my_release(p) PROVE [Device!DNext]_(Device!dvars)
  BY <1>4, DeviceClose DEF CalmRun, Device!DNext
<1>5. ASSUME NEW p \in Procs, call_unloaded(p) \/ set_string_fault(p) PROVE FALSE
  <2>1. ~Produces("bad_pointer")
    BY CalmProduces DEF CalmRun
  <2> QED
    BY <1>5, <2>1 DEF CalmRun, Calm, call_unloaded, set_string_fault
<1>6. ASSUME NEW p \in Procs, NEW count \in Counts, my_read(p, count)
      PROVE  [Device!DNext]_(Device!dvars)
  BY <1>6, DeviceRead DEF Device!DNext
<1>7. ASSUME NEW p \in Procs, NEW count \in Counts, my_write(p, count)
      PROVE  [Device!DNext]_(Device!dvars)
  BY <1>7, DeviceWrite DEF Device!DNext
<1>8. ASSUME NEW p \in Procs, NEW shift \in Shifts, my_llseek(p, shift)
      PROVE  [Device!DNext]_(Device!dvars)
  BY <1>8, DeviceSeek DEF Device!DNext
<1>9. ASSUME NEW p \in Procs, reset(p) PROVE [Device!DNext]_(Device!dvars)
  BY <1>9, DeviceReset DEF CalmRun, Device!DNext
<1>10. ASSUME NEW p \in Procs, NEW s \in Strings, set_string(p, s)
       PROVE  [Device!DNext]_(Device!dvars)
  BY <1>10, DeviceCallSet DEF CalmRun, Device!DNext
<1>11. ASSUME NEW p \in Procs, copy_byte(p) PROVE [Device!DNext]_(Device!dvars)
  BY <1>11, DeviceByte DEF Device!DNext
<1>12. ASSUME NEW p \in Procs, set_string_alloc(p) PROVE [Device!DNext]_(Device!dvars)
  BY <1>12, DeviceAlloc DEF CalmRun, Device!DNext
<1>13. ASSUME NEW p \in Procs, set_string_copy(p) PROVE [Device!DNext]_(Device!dvars)
  BY <1>13, DeviceSet DEF CalmRun, Device!DNext
<1>14. CASE UNCHANGED vars
  <2>1. /\ \A n \in Minors : Str(n)' = Str(n)
        /\ \A q \in Procs : Asked(q)' = Asked(q) /\ Avail(q)' = Avail(q) /\ New(q)' = New(q)
    BY <1>14, StringsKept, ReadKept, NewKept DEF vars
  <2> QED
    BY <1>14, <2>1, DeviceSame DEF vars
<1> QED
  BY <1>1, <1>2, <1>3, <1>4, <1>5, <1>6, <1>7, <1>8, <1>9, <1>10, <1>11, <1>12, <1>13,
     <1>14 DEF Next, Step

\* The calm of the invariants and of Calm are one.
LEMMA CalmIsCalm == DriverInv /\ world.stress = {} <=> Calm
BY DEF DriverInv, CalmInv, OwnInv, Calm, Produces

\* Used with care (no overlapping settings, no reads of a minor without a
\* string, no bad address, no rmmod under an open file), and as long as sizes
\* fit into an int, the driver of repeated.c does what the device promises: a
\* read delivers the string over and over from the position on, up to the size;
\* a write makes the device longer by exactly its count; a seek goes to the place
\* nearest to the one asked for; and a SET_STRING ends with the string it was
\* called with, or with none when it fails.
THEOREM DriverImplementsDevice ==
    ASSUME 2 * MaxSize < IntWord
    PROVE  Spec /\ world.stress = {} => ImplementsDevice
<1> DEFINE Inv == CalmRun
<1>1. Init /\ world.stress = {} => Inv /\ Device!DInit
  <2> SUFFICES ASSUME Init, world.stress = {} PROVE Inv /\ Device!DInit
    OBVIOUS
  <2>1. Calm
    BY InitDriver, CalmIsCalm
  <2>2. MaxSize \in Nat
    BY DriverAssumption
  <2>3. Bounded
    BY <2>2 DEF Bounded, Init, Fresh, Closed
  <2>4. Progress
    BY DEF Progress, Init, Idle
  <2> QED
    BY <2>1, <2>3, <2>4, DeviceInit DEF CalmRun
<1>2. Inv /\ [Next]_vars => Inv' /\ [Device!DNext]_(Device!dvars)
  <2> SUFFICES ASSUME Inv, [Next]_vars PROVE Inv' /\ [Device!DNext]_(Device!dvars)
    OBVIOUS
  <2>1. DriverInv /\ world.stress = {}
    BY CalmIsCalm DEF CalmRun
  <2>2. DriverInv' /\ world' = world
    BY <2>1, DriverStep, WorldSame DEF DriverInv
  <2>3. Calm'
    BY Zenon, <2>1, <2>2 DEF DriverInv, CalmInv, OwnInv, Calm, Produces
  <2>4. Bounded' /\ Progress'
    BY BoundedStep, ProgressStep
  <2> QED
    BY <2>3, <2>4, DeviceStep DEF CalmRun
<1> QED
  BY <1>1, <1>2, PTL DEF Spec, ImplementsDevice, Device!DSpec

=============================================================================
