----------------------------- MODULE PidProofs -----------------------------
(***************************************************************************)
(* get_pid() gives unique numbers, for any number of tasks and any range   *)
(* of numbers, as long as some number is free, no fork sleeps while the    *)
(* numbers start again, and nobody moves a process that forks to another   *)
(* group.                                                                  *)
(***************************************************************************)
EXTENDS PidAlloc, TLAPS

IdRecord == [pid : Numbers, pgrp : Numbers, tgid : Numbers, session : Numbers]

ScanRecord == [by : Tasks, beginpid : Numbers, todo : SUBSET Tasks]

\* NULL is neither the numbers of a task nor a loop over the tasks.
LEMMA NullIsNoRecord == NULL \notin IdRecord /\ NULL \notin ScanRecord
BY PidAssumption DEF IdRecord, ScanRecord, Numbers

\* The numbers of a task in the list are numbers.
LEMMA NumbersType ==
    ASSUME TypeOK, NEW t \in Listed
    PROVE  t \in Tasks /\ ids[t] \in IdRecord /\ NumbersOf(t) \subseteq Numbers
BY DEF TypeOK, Listed, IdRecord, NumbersOf

\* Lower() is at most next_safe, beyond last_pid, and none of the numbers of t
\* is between the two.
LEMMA LowerBounds ==
    ASSUME TypeOK, NEW t \in Listed, last_pid < next_safe
    PROVE  /\ Lower(t) \in 1 .. PidMax /\ Lower(t) > last_pid /\ Lower(t) <= next_safe
           /\ \A n \in NumbersOf(t) : n <= last_pid \/ n >= Lower(t)
<1> DEFINE beyond == {n \in NumbersOf(t) : n > last_pid} \cup {next_safe}
<1>1. /\ ids[t].pid \in Nat /\ ids[t].pgrp \in Nat /\ ids[t].tgid \in Nat /\ ids[t].session \in Nat
      /\ NumbersOf(t) = {ids[t].pid, ids[t].pgrp, ids[t].tgid, ids[t].session}
      /\ next_safe \in Nat /\ last_pid \in Nat
  BY NumbersType, PidAssumption DEF NumbersOf, IdRecord, Numbers, TypeOK
<1>2. \E m \in beyond : \A n \in beyond : m <= n
  BY <1>1
<1>3. PICK m \in beyond : m = Lower(t) /\ \A n \in beyond : m <= n
  BY <1>2 DEF Lower
<1>4. m \in 1 .. PidMax /\ m > last_pid /\ m <= next_safe
  BY <1>1, <1>3, NumbersType, PidAssumption DEF Numbers, TypeOK
<1>5. ASSUME NEW n \in NumbersOf(t)
      PROVE  n <= last_pid \/ n >= m
  BY <1>1, <1>3
<1> QED BY <1>3, <1>4, <1>5

\* What MayAsk() says when Stress is empty.
LEMMA Asking ==
    ASSUME Stress = {}, NEW p \in Tasks, MayAsk(p)
    PROVE  /\ scan = NULL /\ p \in Listed /\ pending[p] = 0
           /\ \/ FreeIn(last_pid + 1, PidMax - 1)
              \/ NothingPending /\ FreeIn(Daemons, last_pid - 1)
BY DEF MayAsk, RoomAhead, RoomBehind, FreeIn, NothingPending

\* A step that leaves the numbers in the list alone leaves what is in use alone.
LEMMA SameIds ==
    ASSUME ids' = ids
    PROVE  /\ Listed' = Listed
           /\ \A t : NumbersOf(t)' = NumbersOf(t)
           /\ \A n : InUse(n)' = InUse(n)
           /\ \A a, b : FreeIn(a, b)' = FreeIn(a, b)
BY DEF Listed, NumbersOf, InUse, FreeIn

\* The next number, below next_safe, is new.
LEMMA NextIsFree ==
    ASSUME Inductive, NEW p \in Tasks, GetPidNext(p)
    PROVE  ~InUse(last_pid + 1) /\ \A q \in Tasks : pending[q] <= last_pid
<1>1. scan = NULL /\ last_pid + 1 < next_safe
  BY DEF GetPidNext, MayAsk
<1>2. last_pid \in Nat /\ next_safe \in Nat /\ \A q \in Tasks : pending[q] \in Nat
  BY PidAssumption DEF Inductive, TypeOK, Numbers
<1>3. ~InUse(last_pid + 1)
  BY <1>1, <1>2 DEF Inductive, GapIsFree
<1>4. \A q \in Tasks : pending[q] <= last_pid
  BY <1>1, <1>2 DEF Inductive
<1> QED BY <1>3, <1>4

\* A number that is not in use and is beyond every pending one keeps the pids
\* unique.
LEMMA GiveKeepsUnique ==
    ASSUME TypeOK, PidsUnique, NEW p \in Tasks, NEW n \in Numbers,
           pending' = [pending EXCEPT ![p] = n], ids' = ids,
           ~InUse(n), pending[p] = 0,
           \A q \in Tasks : pending[q] < n
    PROVE  PidsUnique'
<1>1. pending \in [Tasks -> Numbers] /\ \A q \in Tasks : pending'[q] = IF q = p THEN n ELSE pending[q]
  BY DEF TypeOK
<1>2. \A q \in Listed : ids[q].pid # n
  BY DEF InUse, NumbersOf
<1>3. \A q \in Tasks : pending[q] # n
  BY <1>1 DEF Numbers
<1> QED BY <1>1, <1>2, <1>3, SameIds DEF PidsUnique, Listed

\* The child's group and session are those of its parent, and are numbers.
LEMMA GiveCopies ==
    ASSUME TypeOK, CopiesCurrent, NEW p \in Listed, NEW n,
           pending' = [pending EXCEPT ![p] = n], ids' = ids,
           copied' = [copied EXCEPT ![p] = Inherited(ids[p])]
    PROVE  CopiesCurrent' /\ copied' \in [Tasks -> [pgrp : Numbers, session : Numbers]]
<1>1. p \in Tasks /\ ids[p] \in IdRecord
  BY NumbersType
<1>2. Inherited(ids[p]) \in [pgrp : Numbers, session : Numbers]
  BY <1>1 DEF Inherited, IdRecord
<1>3. \A q \in Tasks : /\ pending'[q] = IF q = p THEN n ELSE pending[q]
                      /\ copied'[q] = IF q = p THEN Inherited(ids[p]) ELSE copied[q]
  BY <1>1 DEF TypeOK
<1> QED BY <1>1, <1>2, <1>3 DEF CopiesCurrent, TypeOK

\* The short way through get_pid() keeps the invariant.
LEMMA GetPidNextKeeps ==
    ASSUME Stress = {}, Inductive, NEW p \in Tasks, GetPidNext(p)
    PROVE  Inductive'
<1> USE DEF Numbers
<1>1. /\ scan = NULL /\ p \in Listed /\ pending[p] = 0
      /\ last_pid' = last_pid + 1 /\ last_pid + 1 < PidMax /\ last_pid + 1 < next_safe
      /\ pending' = [pending EXCEPT ![p] = last_pid + 1]
      /\ copied' = [copied EXCEPT ![p] = Inherited(ids[p])]
      /\ ids' = ids /\ next_safe' = next_safe /\ scan' = NULL
  BY DEF GetPidNext, MayAsk, Give
<1>2. last_pid \in Nat /\ next_safe \in Nat /\ PidMax \in Nat /\ pending \in [Tasks -> Numbers]
  BY PidAssumption DEF Inductive, TypeOK
<1>3. TypeOK' /\ CopiesCurrent'
  <2>1. CopiesCurrent' /\ copied' \in [Tasks -> [pgrp : 0 .. PidMax - 1, session : 0 .. PidMax - 1]]
    BY Zenon, <1>1, GiveCopies DEF Inductive
  <2> QED BY <1>1, <1>2, <2>1 DEF Inductive, TypeOK
<1>4. PidsUnique'
  <2>1. \A q \in Tasks : pending[q] < last_pid + 1
    BY <1>2, NextIsFree
  <2>2. last_pid + 1 \in Numbers /\ ~InUse(last_pid + 1) /\ TypeOK /\ PidsUnique
    BY <1>1, <1>2, NextIsFree DEF Inductive
  <2> HIDE DEF Numbers
  <2> QED BY Zenon, <1>1, <2>1, <2>2, GiveKeepsUnique
<1>5. GapIsFree'
  BY <1>1, <1>2, SameIds DEF Inductive, GapIsFree
<1>6. \A q \in Tasks : pending'[q] # 0 => q \in Listed' /\ pending'[q] <= last_pid'
  BY <1>1, <1>2, SameIds, NextIsFree DEF Inductive
<1> QED BY <1>1, <1>2, <1>3, <1>4, <1>5, <1>6 DEF Inductive

\* So does entering the loop.
LEMMA GetPidScanKeeps ==
    ASSUME Stress = {}, Inductive, NEW p \in Tasks, GetPidScan(p)
    PROVE  Inductive'
<1> USE DEF Numbers
<1>1. /\ scan = NULL /\ p \in Listed /\ pending[p] = 0
      /\ last_pid + 1 >= PidMax \/ last_pid + 1 >= next_safe
      /\ last_pid' = IF last_pid + 1 >= PidMax THEN Daemons ELSE last_pid + 1
      /\ next_safe' = PidMax
      /\ scan' = [by |-> p, beginpid |-> last_pid, todo |-> Listed]
      /\ ids' = ids /\ pending' = pending /\ copied' = copied
  BY DEF GetPidScan, MayAsk
<1>2. /\ last_pid \in Nat /\ last_pid < PidMax /\ PidMax \in Nat /\ Daemons \in 2 .. PidMax - 1
      /\ Listed \subseteq Tasks
  BY PidAssumption DEF Inductive, TypeOK, Listed
<1>3. scan' \in ScanRecord /\ scan' # NULL
  BY <1>1, <1>2, NullIsNoRecord DEF ScanRecord
<1>4. TypeOK'
  BY <1>1, <1>2, <1>3 DEF Inductive, TypeOK, ScanRecord
<1>5. PidsUnique'
  BY <1>1, SameIds DEF Inductive, PidsUnique
<1>6. WillFind'
  <2>1. CASE last_pid + 1 >= PidMax
    <3>1. NothingPending /\ FreeIn(Daemons, last_pid - 1)
      BY <1>2, <2>1, Asking DEF FreeIn, GetPidScan
    <3>2. Daemons < last_pid
      BY <1>2, <3>1 DEF FreeIn
    <3> QED BY <1>1, <2>1, <3>1, <3>2, SameIds DEF WillFind, NothingPending
  <2>2. CASE last_pid + 1 < PidMax
    <3>1. \/ FreeIn(last_pid + 1, PidMax - 1)
          \/ NothingPending /\ FreeIn(Daemons, last_pid - 1)
      BY Asking DEF GetPidScan
    <3>2. last_pid' = last_pid + 1 /\ last_pid < last_pid'
      BY <1>1, <1>2, <2>2
    <3> QED BY <1>1, <3>1, <3>2, SameIds DEF WillFind, NothingPending
  <2> QED BY <1>2, <2>1, <2>2
<1>7. Scanning'
  BY <1>1, <1>6, SameIds DEF Scanning
<1>8. \A q \in Tasks : pending'[q] # 0 => q \in Listed' /\ pending'[q] <= scan'.beginpid
  BY <1>1, SameIds DEF Inductive
<1> QED BY <1>1, <1>2, <1>3, <1>4, <1>5, <1>7, <1>8 DEF Inductive, GapIsFree, CopiesCurrent

\* So does a task that has the number: the search goes on and comes to an end.
LEMMA ScanHitKeeps ==
    ASSUME Stress = {}, Inductive, NEW t \in Tasks, ScanHit(t)
    PROVE  Inductive'
<1> USE DEF Numbers
<1> DEFINE far == last_pid + 1 >= next_safe
           n == IF far /\ last_pid + 1 >= PidMax THEN Daemons ELSE last_pid + 1
           begin == scan.beginpid
<1>1. /\ scan # NULL /\ t \in scan.todo /\ last_pid \in NumbersOf(t)
      /\ last_pid' = n
      /\ next_safe' = IF far THEN PidMax ELSE next_safe
      /\ scan' = IF n = begin THEN NULL ELSE [scan EXCEPT !.todo = Listed]
      /\ ids' = ids /\ pending' = pending /\ copied' = copied
  BY DEF ScanHit
<1>2. /\ last_pid \in Nat /\ last_pid < PidMax /\ PidMax \in Nat /\ Daemons \in 2 .. PidMax - 1
      /\ next_safe \in 1 .. PidMax /\ last_pid < next_safe
      /\ Listed \subseteq Tasks
      /\ scan \in ScanRecord /\ begin \in Numbers
  BY <1>1, PidAssumption DEF Inductive, TypeOK, Listed, ScanRecord
<1>3. InUse(last_pid)
  BY <1>1 DEF InUse, Inductive, Scanning
<1>4. n \in Numbers \ {0} /\ n < next_safe' /\ next_safe' \in 1 .. PidMax
  BY <1>1, <1>2
<1>5. /\ n # begin
      /\ \/ begin < n /\ FreeIn(n, PidMax - 1)
         \/ begin < n /\ NothingPending /\ FreeIn(Daemons, begin - 1)
         \/ n < begin /\ NothingPending /\ FreeIn(n, begin - 1)
  <2>1. CASE begin < last_pid /\ FreeIn(last_pid, PidMax - 1)
    <3>1. PICK m \in last_pid .. PidMax - 1 : ~InUse(m)
      BY <2>1 DEF FreeIn
    <3>2. m # last_pid /\ n = last_pid + 1
      BY <1>2, <1>3, <3>1
    <3> QED BY <1>2, <2>1, <3>1, <3>2 DEF FreeIn
  <2>2. CASE begin < last_pid /\ NothingPending /\ FreeIn(Daemons, begin - 1)
    <3>1. Daemons < begin
      BY <1>2, <2>2 DEF FreeIn
    <3>2. n = Daemons \/ n = last_pid + 1
      OBVIOUS
    <3> QED BY <1>2, <2>2, <3>1, <3>2
  <2>3. CASE last_pid < begin /\ NothingPending /\ FreeIn(last_pid, begin - 1)
    <3>1. PICK m \in last_pid .. begin - 1 : ~InUse(m)
      BY <2>3 DEF FreeIn
    <3>2. m # last_pid /\ n = last_pid + 1
      BY <1>2, <1>3, <3>1
    <3> QED BY <1>2, <2>3, <3>1, <3>2 DEF FreeIn
  <2> QED BY <1>1, <2>1, <2>2, <2>3 DEF Inductive, Scanning, WillFind
<1>6. scan' = [by |-> scan.by, beginpid |-> begin, todo |-> Listed] /\ scan' \in ScanRecord /\ scan' # NULL
  BY <1>1, <1>2, <1>5, NullIsNoRecord DEF ScanRecord
<1> HIDE DEF n
<1>7. TypeOK'
  BY <1>1, <1>4, <1>6 DEF Inductive, TypeOK, ScanRecord
<1>8. PidsUnique'
  BY <1>1, SameIds DEF Inductive, PidsUnique
<1>9. WillFind'
  BY <1>1, <1>5, <1>6, SameIds DEF WillFind, NothingPending
<1>10. Scanning'
  BY <1>1, <1>6, <1>9, SameIds DEF Inductive, Scanning
<1>11. \A q \in Tasks : pending'[q] # 0 => q \in Listed' /\ pending'[q] <= scan'.beginpid
  BY <1>1, <1>6, SameIds DEF Inductive
<1> QED BY <1>1, <1>4, <1>6, <1>7, <1>8, <1>10, <1>11 DEF Inductive, GapIsFree, CopiesCurrent

\* So does a task that does not, which may lower next_safe.
LEMMA ScanMissKeeps ==
    ASSUME Stress = {}, Inductive, NEW t \in Tasks, ScanMiss(t)
    PROVE  Inductive'
<1> USE DEF Numbers
<1>1. /\ scan # NULL /\ t \in scan.todo /\ last_pid \notin NumbersOf(t)
      /\ next_safe' = Lower(t)
      /\ scan' = [scan EXCEPT !.todo = @ \ {t}]
      /\ ids' = ids /\ pending' = pending /\ copied' = copied /\ last_pid' = last_pid
  BY DEF ScanMiss
<1>2. /\ scan \in ScanRecord /\ t \in Listed /\ TypeOK /\ Scanning
      /\ last_pid < next_safe /\ last_pid \in Nat /\ next_safe \in Nat
  BY <1>1, PidAssumption DEF Inductive, TypeOK, ScanRecord, Scanning
<1>3. /\ Lower(t) \in 1 .. PidMax /\ Lower(t) > last_pid /\ Lower(t) <= next_safe
      /\ \A n \in NumbersOf(t) : n <= last_pid \/ n >= Lower(t)
  BY <1>2, LowerBounds
<1>4. /\ scan'.by = scan.by /\ scan'.beginpid = scan.beginpid /\ scan'.todo = scan.todo \ {t}
      /\ scan' \in ScanRecord /\ scan' # NULL
  BY <1>1, <1>2, NullIsNoRecord DEF ScanRecord
<1>5. TypeOK'
  BY <1>1, <1>2, <1>3, <1>4 DEF TypeOK, ScanRecord
<1>6. PidsUnique'
  BY <1>1, SameIds DEF Inductive, PidsUnique
<1>7. WillFind'
  BY <1>1, <1>2, <1>4, SameIds DEF Scanning, WillFind, NothingPending
<1>8. ASSUME NEW u \in Listed \ scan'.todo, NEW n \in NumbersOf(u)
      PROVE  n < last_pid \/ n >= Lower(t)
  <2>1. n \in Nat
    BY <1>2, NumbersType, PidAssumption
  <2>2. Lower(t) \in Nat
    BY <1>3, PidAssumption
  <2>3. CASE u = t
    BY <1>1, <1>2, <1>3, <2>1, <2>2, <2>3
  <2>4. CASE u # t
    <3>1. n < last_pid \/ n >= next_safe
      BY <1>2, <1>4, <2>4 DEF Scanning
    <3> QED BY <1>2, <1>3, <2>1, <2>2, <3>1
  <2> QED BY <2>3, <2>4
<1>9. Scanning'
  BY <1>1, <1>2, <1>4, <1>7, <1>8, SameIds DEF Scanning
<1>10. \A q \in Tasks : pending'[q] # 0 => q \in Listed' /\ pending'[q] <= scan'.beginpid
  BY <1>1, <1>4, SameIds DEF Inductive
<1> QED BY <1>1, <1>3, <1>4, <1>5, <1>6, <1>9, <1>10 DEF Inductive, GapIsFree, CopiesCurrent

\* At the end of the loop last_pid is new.
LEMMA EndIsFree ==
    ASSUME Inductive, ScanEnd
    PROVE  ~InUse(last_pid) /\ \A q \in Tasks : pending[q] < last_pid
<1> USE DEF Numbers
<1>1. /\ scan # NULL /\ scan.todo = {} /\ Scanning /\ TypeOK
      /\ last_pid \in Nat /\ next_safe \in Nat /\ last_pid < next_safe
      /\ scan.beginpid \in Nat /\ \A q \in Tasks : pending[q] \in Nat
  BY PidAssumption DEF ScanEnd, Inductive, TypeOK
<1>2. ~InUse(last_pid)
  BY <1>1, NumbersType DEF Scanning, InUse
<1>3. \A q \in Tasks : pending[q] <= scan.beginpid \/ pending[q] = 0
  BY <1>1 DEF Inductive
<1>4. CASE scan.beginpid < last_pid
  BY <1>1, <1>2, <1>3, <1>4
<1>5. CASE NothingPending
  <2>1. last_pid # 0
    BY <1>1 DEF TypeOK
  <2> QED BY <1>1, <1>2, <1>5, <2>1 DEF NothingPending
<1> QED BY <1>1, <1>4, <1>5 DEF Scanning, WillFind

\* So does the end of the loop, which gives the number found.
LEMMA ScanEndKeeps ==
    ASSUME Stress = {}, Inductive, ScanEnd
    PROVE  Inductive'
<1> USE DEF Numbers
<1>1. /\ scan # NULL /\ scan.todo = {} /\ Scanning /\ TypeOK /\ PidsUnique
      /\ pending' = [pending EXCEPT ![scan.by] = last_pid]
      /\ copied' = [copied EXCEPT ![scan.by] = Inherited(ids[scan.by])]
      /\ scan' = NULL /\ ids' = ids /\ last_pid' = last_pid /\ next_safe' = next_safe
  BY DEF ScanEnd, Give, Inductive
<1>2. /\ last_pid \in Nat /\ next_safe \in Nat /\ last_pid < next_safe
      /\ pending \in [Tasks -> Numbers] /\ scan.by \in Tasks /\ scan.by \in Listed /\ pending[scan.by] = 0
  BY <1>1, PidAssumption DEF Inductive, TypeOK, Scanning
<1>3. TypeOK' /\ CopiesCurrent'
  BY Zenon, <1>1, <1>2, GiveCopies DEF Inductive, TypeOK
<1>4. PidsUnique'
  <2>1. last_pid \in Numbers
    BY <1>1 DEF TypeOK
  <2> HIDE DEF Numbers
  <2> QED BY Zenon, <1>1, <1>2, <2>1, EndIsFree, GiveKeepsUnique
<1>5. GapIsFree'
  <2>1. \A n \in last_pid + 1 .. next_safe - 1 : ~InUse(n)
    BY <1>1, <1>2 DEF Scanning, InUse
  <2> QED BY <1>1, <2>1, SameIds DEF GapIsFree
<1>6. \A q \in Tasks : pending'[q] # 0 => q \in Listed' /\ pending'[q] <= last_pid'
  <2> TAKE q \in Tasks
  <2>1. CASE q = scan.by
    BY <1>1, <1>2, <2>1, SameIds
  <2>2. CASE q # scan.by
    <3>1. pending'[q] = pending[q] /\ pending[q] \in Nat
      BY <1>1, <1>2, <2>2, PidAssumption
    <3> QED BY <1>1, <1>2, <3>1, SameIds, EndIsFree DEF Inductive
  <2> QED BY <2>1, <2>2
<1> QED BY <1>1, <1>2, <1>3, <1>4, <1>5, <1>6 DEF Inductive

\* A change of the list outside get_pid() keeps the invariant if it brings in
\* no number ahead of last_pid, and no pid twice.
LEMMA ListChangeKeeps ==
    ASSUME Inductive, scan = NULL, TypeOK', PidsUnique', CopiesCurrent',
           last_pid' = last_pid, next_safe' = next_safe, scan' = NULL,
           \A n \in Numbers : InUse(n)' => InUse(n) \/ n <= last_pid,
           \A q \in Tasks : pending'[q] # 0 => q \in Listed' /\ pending'[q] = pending[q]
    PROVE  Inductive'
<1>1. last_pid \in Nat /\ next_safe \in 1 .. PidMax /\ PidMax \in Nat
  BY PidAssumption DEF Inductive, TypeOK, Numbers
<1>2. GapIsFree'
  <2>1. SUFFICES ASSUME NEW n \in last_pid + 1 .. next_safe - 1
                 PROVE  ~InUse(n)'
    BY DEF GapIsFree
  <2>2. n \in Numbers /\ ~(n <= last_pid)
    BY <1>1 DEF Numbers
  <2>3. ~InUse(n)
    BY DEF Inductive, GapIsFree
  <2> QED BY <2>2, <2>3
<1> QED BY <1>1, <1>2 DEF Inductive

\* The child that enters the list has the number its parent was given, or has
\* inherited numbers.
LEMMA LinkChildKeeps ==
    ASSUME Inductive, NEW p \in Tasks, NEW c \in Tasks, NEW thread \in BOOLEAN,
           LinkChild(p, c, thread)
    PROVE  Inductive'
<1> DEFINE new == [pid |-> pending[p], tgid |-> IF thread THEN ids[p].tgid ELSE pending[p],
                   pgrp |-> copied[p].pgrp, session |-> copied[p].session]
<1>1. /\ scan = NULL /\ pending[p] # 0 /\ ids[c] = NULL
      /\ ids' = [ids EXCEPT ![c] = new]
      /\ pending' = [pending EXCEPT ![p] = 0]
      /\ copied' = [copied EXCEPT ![p] = NoCopy]
      /\ last_pid' = last_pid /\ next_safe' = next_safe /\ scan' = NULL
  BY DEF LinkChild, Done
<1>2. /\ TypeOK /\ PidsUnique /\ p \in Listed /\ pending[p] <= last_pid /\ pending[p] \in Numbers
      /\ copied[p] = Inherited(ids[p])
  BY <1>1 DEF Inductive, TypeOK, CopiesCurrent
<1>3. /\ ids[p] \in IdRecord /\ new \in IdRecord /\ new # NULL
      /\ new.pid = pending[p] /\ new.pgrp = ids[p].pgrp /\ new.session = ids[p].session
      /\ new.tgid \in {ids[p].tgid, pending[p]}
  BY <1>2, NumbersType, NullIsNoRecord DEF IdRecord, Inherited
<1> HIDE DEF new
<1>4. 0 \in Numbers
  BY PidAssumption DEF Numbers
<1>5. TypeOK'
  BY <1>1, <1>2, <1>3, <1>4 DEF TypeOK, IdRecord, NoCopy
<1>6. /\ Listed' = Listed \cup {c} /\ c \notin Listed
      /\ ids'[c] = new /\ \A q \in Listed : ids'[q] = ids[q]
  BY <1>1, <1>2, <1>3 DEF Listed, TypeOK
<1>7. \A q \in Tasks : pending'[q] = IF q = p THEN 0 ELSE pending[q]
  BY <1>1, <1>2 DEF TypeOK
<1>8. PidsUnique'
  BY <1>1, <1>2, <1>3, <1>6, <1>7 DEF PidsUnique
<1>9. \A n \in Numbers : InUse(n)' => InUse(n) \/ n <= last_pid
  <2>1. \A q \in Listed : NumbersOf(q)' = NumbersOf(q)
    BY <1>6 DEF NumbersOf
  <2>2. \A n \in NumbersOf(c)' : n \in NumbersOf(p) \/ n <= last_pid
    BY <1>2, <1>3, <1>6 DEF NumbersOf
  <2> QED BY <1>2, <1>6, <2>1, <2>2 DEF InUse
<1>10. \A q \in Tasks : pending'[q] # 0 => q \in Listed' /\ pending'[q] = pending[q]
  BY <1>6, <1>7 DEF Inductive
<1>11. CopiesCurrent'
  <2>1. \A q \in Tasks : q # p => copied'[q] = copied[q]
    BY <1>1, <1>2 DEF TypeOK
  <2>2. \A q \in Tasks : pending[q] # 0 => q \in Listed /\ copied[q] = Inherited(ids[q])
    BY DEF Inductive, CopiesCurrent
  <2> QED BY <1>6, <1>7, <2>1, <2>2 DEF CopiesCurrent
<1> QED BY <1>1, <1>5, <1>8, <1>9, <1>10, <1>11, ListChangeKeeps

\* A fork that fails gives its number up.
LEMMA ForkFailsKeeps ==
    ASSUME Inductive, NEW p \in Tasks, ForkFails(p)
    PROVE  Inductive'
<1>1. /\ scan = NULL /\ pending' = [pending EXCEPT ![p] = 0]
      /\ copied' = [copied EXCEPT ![p] = NoCopy]
      /\ ids' = ids /\ last_pid' = last_pid /\ next_safe' = next_safe /\ scan' = NULL
  BY DEF ForkFails, Done
<1>2. /\ TypeOK /\ PidsUnique /\ 0 \in Numbers
      /\ \A q \in Tasks : /\ pending'[q] = IF q = p THEN 0 ELSE pending[q]
                         /\ q # p => copied'[q] = copied[q]
  BY <1>1, PidAssumption DEF Inductive, TypeOK, Numbers
<1>3. TypeOK' /\ CopiesCurrent'
  BY <1>1, <1>2 DEF Inductive, CopiesCurrent, TypeOK, NoCopy
<1>4. PidsUnique'
  BY <1>1, <1>2, SameIds DEF PidsUnique
<1>5. \A q \in Tasks : pending'[q] # 0 => q \in Listed' /\ pending'[q] = pending[q]
  BY <1>1, <1>2, SameIds DEF Inductive
<1> QED BY <1>1, <1>3, <1>4, <1>5, SameIds, ListChangeKeeps

\* A task that leaves the list frees numbers and takes none.
LEMMA UnhashKeeps ==
    ASSUME Inductive, NEW t \in Tasks, unhash_process(t)
    PROVE  Inductive'
<1>1. /\ scan = NULL /\ pending[t] = 0 /\ ids' = [ids EXCEPT ![t] = NULL]
      /\ copied' = copied /\ pending' = pending /\ last_pid' = last_pid /\ next_safe' = next_safe /\ scan' = NULL
  BY DEF unhash_process
<1>2. TypeOK /\ PidsUnique
  BY DEF Inductive
<1>3. TypeOK' /\ CopiesCurrent'
  BY <1>1, <1>2 DEF Inductive, CopiesCurrent, TypeOK
<1>4. Listed' = Listed \ {t} /\ \A q \in Listed' : ids'[q] = ids[q]
  BY <1>1, <1>2 DEF Listed, TypeOK
<1>5. PidsUnique'
  BY <1>1, <1>2, <1>4 DEF PidsUnique
<1>6. \A n \in Numbers : InUse(n)' => InUse(n)
  BY <1>4 DEF InUse, NumbersOf
<1>7. \A q \in Tasks : pending'[q] # 0 => q \in Listed' /\ pending'[q] = pending[q]
  BY <1>1, <1>4 DEF Inductive
<1> QED BY <1>1, <1>3, <1>5, <1>6, <1>7, ListChangeKeeps

\* A task that is not forking and takes on the number of another, or its own, as
\* its group, thread group or session keeps the invariant.
LEMMA GroupChangeKeeps ==
    ASSUME Inductive, scan = NULL, NEW t \in Listed, NEW r \in IdRecord, pending[t] = 0,
           ids' = [ids EXCEPT ![t] = r], r.pid = ids[t].pid,
           \A n \in {r.pgrp, r.tgid, r.session} : InUse(n),
           UNCHANGED <<pending, copied, last_pid, next_safe, scan>>
    PROVE  Inductive'
<1>1. TypeOK /\ PidsUnique /\ t \in Tasks /\ r # NULL
  BY NullIsNoRecord, NumbersType DEF Inductive
<1>2. TypeOK'
  BY <1>1 DEF TypeOK, IdRecord
<1>3. Listed' = Listed /\ ids'[t] = r /\ \A q \in Listed : q # t => ids'[q] = ids[q]
  BY <1>1 DEF Listed, TypeOK
<1>4. \A q \in Listed : ids'[q].pid = ids[q].pid
  BY <1>3
<1>5. PidsUnique'
  BY <1>1, <1>3, <1>4 DEF PidsUnique
<1>6. \A n \in Numbers : InUse(n)' => InUse(n)
  <2>1. \A q \in Listed : q # t => NumbersOf(q)' = NumbersOf(q)
    BY <1>3 DEF NumbersOf
  <2>2. \A n \in NumbersOf(t)' : InUse(n)
    BY <1>3 DEF NumbersOf, InUse
  <2> QED BY <1>3, <2>1, <2>2 DEF InUse
<1>7. \A q \in Tasks : pending'[q] # 0 => q \in Listed' /\ pending'[q] = pending[q]
  BY <1>3 DEF Inductive
<1>8. CopiesCurrent'
  BY <1>3 DEF Inductive, CopiesCurrent
<1> QED BY <1>2, <1>5, <1>6, <1>7, <1>8, ListChangeKeeps

\* setpgid() takes the pid of a process or the number of a group.
LEMMA SetpgidKeeps ==
    ASSUME Stress = {}, Inductive, NEW p \in Tasks, NEW t \in Tasks, NEW g \in 1 .. PidMax - 1,
           setpgid(p, t, g)
    PROVE  Inductive'
<1> DEFINE r == [ids[t] EXCEPT !.pgrp = g]
<1>1. t \in Listed /\ ids' = [ids EXCEPT ![t] = r] /\ TypeOK /\ scan = NULL /\ pending[t] = 0
  BY DEF setpgid, Inductive
<1>2. g \in Numbers /\ InUse(g)
  BY <1>1, PidAssumption DEF setpgid, InUse, NumbersOf, Numbers
<1>3. ids[t] \in IdRecord
  BY <1>1, NumbersType
<1>4. r \in IdRecord /\ r.pid = ids[t].pid /\ r.pgrp = g /\ r.tgid = ids[t].tgid /\ r.session = ids[t].session
  BY <1>2, <1>3 DEF IdRecord
<1>5. \A n \in {r.pgrp, r.tgid, r.session} : InUse(n)
  BY <1>1, <1>2, <1>4 DEF InUse, NumbersOf
<1>6. UNCHANGED <<pending, copied, last_pid, next_safe, scan>>
  BY DEF setpgid
<1> HIDE DEF r
<1> QED BY Zenon, <1>1, <1>4, <1>5, <1>6, GroupChangeKeeps

\* setsid() takes the caller's pid.
LEMMA SetsidKeeps ==
    ASSUME Inductive, NEW p \in Tasks, setsid(p)
    PROVE  Inductive'
<1> DEFINE r == [ids[p] EXCEPT !.session = ids[p].pid, !.pgrp = ids[p].pid]
<1>1. p \in Listed /\ TypeOK /\ scan = NULL /\ pending[p] = 0
  BY DEF setsid, Inductive
<1>2. ids[p] \in IdRecord /\ ids[p].pid \in Numbers
  BY <1>1, NumbersType DEF IdRecord
<1>3. ids' = [ids EXCEPT ![p] = r]
  BY Zenon, <1>1 DEF setsid, TypeOK
<1>4. r \in IdRecord /\ r.pid = ids[p].pid /\ r.pgrp = ids[p].pid /\ r.tgid = ids[p].tgid /\ r.session = ids[p].pid
  BY Zenon, <1>2 DEF IdRecord
<1>5. \A n \in {r.pgrp, r.tgid, r.session} : InUse(n)
  BY <1>1, <1>4 DEF InUse, NumbersOf
<1>6. UNCHANGED <<pending, copied, last_pid, next_safe, scan>>
  BY DEF setsid
<1> HIDE DEF r
<1> QED BY Zenon, <1>1, <1>3, <1>4, <1>5, <1>6, GroupChangeKeeps

\* execve() makes the caller's pid its thread group.
LEMMA DeThreadKeeps ==
    ASSUME Inductive, NEW t \in Tasks, de_thread(t)
    PROVE  Inductive'
<1> DEFINE r == [ids[t] EXCEPT !.tgid = ids[t].pid]
<1>1. t \in Listed /\ TypeOK /\ scan = NULL /\ pending[t] = 0 /\ ids' = [ids EXCEPT ![t] = r]
  BY DEF de_thread, Inductive
<1>2. ids[t] \in IdRecord /\ ids[t].pid \in Numbers
  BY <1>1, NumbersType DEF IdRecord
<1>3. r \in IdRecord /\ r.pid = ids[t].pid /\ r.pgrp = ids[t].pgrp /\ r.tgid = ids[t].pid /\ r.session = ids[t].session
  BY <1>2 DEF IdRecord
<1>4. \A n \in {r.pgrp, r.tgid, r.session} : InUse(n)
  BY <1>1, <1>3 DEF InUse, NumbersOf
<1>5. UNCHANGED <<pending, copied, last_pid, next_safe, scan>>
  BY DEF de_thread
<1> HIDE DEF r
<1> QED BY Zenon, <1>1, <1>3, <1>4, <1>5, GroupChangeKeeps

\* Process 1 alone satisfies the invariant.
LEMMA InitIsInductive == Init => Inductive
<1> SUFFICES ASSUME Init PROVE Inductive
  OBVIOUS
<1> DEFINE one == [pid |-> 1, pgrp |-> 0, tgid |-> 1, session |-> 0]
<1>1. one \in IdRecord /\ one # NULL /\ PidMax \in Nat /\ PidMax >= 3 /\ Boot \in Tasks
  BY PidAssumption, NullIsNoRecord DEF IdRecord, Numbers
<1>2. Listed = {Boot} /\ NumbersOf(Boot) = {0, 1}
  BY <1>1 DEF Init, Listed, NumbersOf
<1>3. TypeOK
  BY <1>1 DEF Init, TypeOK, IdRecord, Numbers, NoCopy
<1>4. PidsUnique
  BY <1>2 DEF Init, PidsUnique
<1>5. GapIsFree
  BY <1>1, <1>2 DEF Init, GapIsFree, InUse
<1> QED BY <1>1, <1>3, <1>4, <1>5 DEF Init, Inductive, CopiesCurrent

\* Every step keeps the invariant.
LEMMA NextKeeps ==
    ASSUME Stress = {}, Inductive, [Next]_vars
    PROVE  Inductive'
<1>1. CASE UNCHANGED vars
  <2>1. ids' = ids /\ pending' = pending /\ copied' = copied /\ last_pid' = last_pid /\ next_safe' = next_safe /\ scan' = scan
    BY <1>1 DEF vars
  <2> QED BY <2>1 DEF Inductive, TypeOK, PidsUnique, GapIsFree, CopiesCurrent, Scanning, WillFind,
                     NothingPending, FreeIn, InUse, NumbersOf, Listed
<1>2. CASE Scan
  BY <1>2, ScanEndKeeps, ScanHitKeeps, ScanMissKeeps DEF Scan
<1>3. CASE \E p \in Tasks : GetPidNext(p) \/ GetPidScan(p)
  BY <1>3, GetPidNextKeeps, GetPidScanKeeps
<1>4. CASE \E p, c \in Tasks, thread \in BOOLEAN : LinkChild(p, c, thread)
  BY <1>4, LinkChildKeeps
<1>5. CASE \E p \in Tasks : ForkFails(p) \/ unhash_process(p) \/ setsid(p) \/ de_thread(p)
  BY <1>5, ForkFailsKeeps, UnhashKeeps, SetsidKeeps, DeThreadKeeps
<1>6. CASE \E p, t \in Tasks : \E g \in 1 .. PidMax - 1 : setpgid(p, t, g)
  BY <1>6, SetpgidKeeps
<1> QED BY <1>1, <1>2, <1>3, <1>4, <1>5, <1>6 DEF Next

\* The inductive invariant of get_pid(), with what next_safe promises and the
\* uniqueness of the numbers.
THEOREM AllocatorInvariant ==
    ASSUME Stress = {}
    PROVE  Spec => []Inductive
<1>1. Inductive /\ [Next]_vars => Inductive'
  BY NextKeeps
<1> QED BY <1>1, InitIsInductive, PTL DEF Spec

\* No two processes have the same pid, children still being forked included.
THEOREM PidsAreUnique ==
    ASSUME Stress = {}
    PROVE  Spec => []PidsUnique
<1>1. Inductive => PidsUnique
  BY DEF Inductive
<1> QED BY <1>1, AllocatorInvariant, PTL

\* Between last_pid and next_safe nothing is in use when get_pid() is not
\* running.
THEOREM NextSafeIsSafe ==
    ASSUME Stress = {}
    PROVE  Spec => []GapIsFree
<1>1. Inductive => GapIsFree
  BY DEF Inductive
<1> QED BY <1>1, AllocatorInvariant, PTL

\* The body of FreshPid.
LEMMA StepIsFresh ==
    ASSUME Inductive, [Next]_vars, NEW p \in Tasks, pending'[p] \notin {0, pending[p]}
    PROVE  ~InUse(pending'[p])
<1>1. pending \in [Tasks -> Numbers]
  BY DEF Inductive, TypeOK
<1>2. ASSUME NEW q \in Tasks, GetPidNext(q)
      PROVE  ~InUse(pending'[p])
  <2>1. pending'[p] = last_pid + 1
    BY <1>1, <1>2 DEF GetPidNext, Give
  <2> QED BY <1>2, <2>1, NextIsFree
<1>3. ASSUME ScanEnd
      PROVE  ~InUse(pending'[p])
  <2>1. pending'[p] = last_pid
    BY <1>1, <1>3 DEF ScanEnd, Give
  <2> QED BY <1>3, <2>1, EndIsFree
<1>4. ASSUME NEW q \in Tasks, pending' = [pending EXCEPT ![q] = 0]
      PROVE  FALSE
  BY <1>1, <1>4
<1>5. pending' # pending
  OBVIOUS
<1> QED BY Zenon, <1>2, <1>3, <1>4, <1>5 DEF Next, vars, Scan, GetPidScan, ScanHit, ScanMiss,
             LinkChild, ForkFails, Done, unhash_process, setpgid, setsid, de_thread

\* A new pid is the number of no task, group, thread group or session.
THEOREM NewPidsAreFresh ==
    ASSUME Stress = {}
    PROVE  Spec => FreshPid
<1>1. Inductive /\ [Next]_vars =>
        [\A p \in Tasks : pending'[p] \notin {0, pending[p]} => ~InUse(pending'[p])]_vars
  BY StepIsFresh
<1> QED BY <1>1, AllocatorInvariant, PTL DEF Spec, FreshPid

=============================================================================
