----------------------------- MODULE TimeProofs -----------------------------
(***************************************************************************)
(* Proofs about the time sharing: the arrays stay ordered by priority with *)
(* every task in them at most once, the best task runs, nice levels keep   *)
(* their distance and sched_yield() gives way.                             *)
(***************************************************************************)
EXTENDS TimeSharing, SequenceTheorems, FiniteSetTheorems, WellFoundedInduction, TLAPS

\* An array as a sequence: ordered by priority, and without repetition.
Sorted(q, prio) == \A i, j \in 1 .. Len(q) : i < j => prio[q[i]] <= prio[q[j]]

\* The sequence r is q with p at place n.
Widened(q, n, p, r) ==
    /\ Len(r) = Len(q) + 1
    /\ \A j \in 1 .. Len(q) + 1 : r[j] = IF j < n THEN q[j] ELSE IF j = n THEN p ELSE q[j - 1]

\* Place n of q is right for p.
Fits(q, prio, n, p) ==
    \A j \in 1 .. Len(q) : /\ j < n => prio[q[j]] <= prio[p]
                           /\ j >= n => prio[q[j]] >= prio[p]

Distinct(q) == \A i, j \in 1 .. Len(q) : q[i] = q[j] => i = j

-----------------------------------------------------------------------------
(* Sequences                                                                 *)

\* What list_del leaves, place by place.
LEMMA DelPlaces ==
    ASSUME NEW S, NEW q \in Seq(S), NEW n \in 1 .. Len(q)
    PROVE  /\ list_del(q, n) \in Seq(S)
           /\ Len(list_del(q, n)) = Len(q) - 1
           /\ \A j \in 1 .. Len(q) - 1 :
                 list_del(q, n)[j] = IF j < n THEN q[j] ELSE q[j + 1]
<1> DEFINE l == SubSeq(q, 1, n - 1)
           r == SubSeq(q, n + 1, Len(q))
<1>1. Len(q) \in Nat
  BY LenProperties
<1>2. /\ l \in Seq(S) /\ Len(l) = n - 1
      /\ \A j \in 1 .. n - 1 : l[j] = q[j]
  BY <1>1, SubSeqProperties
<1>3. /\ r \in Seq(S) /\ Len(r) = Len(q) - n
      /\ \A j \in 1 .. Len(q) - n : r[j] = q[n + j]
  BY <1>1, SubSeqProperties
<1> HIDE DEF l, r
<1>4. /\ l \o r \in Seq(S) /\ Len(l \o r) = Len(l) + Len(r)
      /\ \A j \in 1 .. Len(l) + Len(r) :
            (l \o r)[j] = IF j <= Len(l) THEN l[j] ELSE r[j - Len(l)]
  BY Zenon, <1>2, <1>3, ConcatProperties
<1>5. list_del(q, n) = l \o r
  BY DEF list_del, l, r
<1>6. ASSUME NEW j \in 1 .. Len(q) - 1
      PROVE  (l \o r)[j] = IF j < n THEN q[j] ELSE q[j + 1]
  <2>1. CASE j < n
    BY <1>1, <1>2, <1>3, <1>4, <2>1
  <2>2. CASE j >= n
    <3>1. (l \o r)[j] = r[j - (n - 1)]
      BY <1>1, <1>2, <1>3, <1>4, <2>2
    <3>2. j - (n - 1) \in 1 .. Len(q) - n /\ n + (j - (n - 1)) = j + 1
      BY <1>1, <2>2
    <3> QED
      BY <1>1, <1>3, <2>2, <3>1, <3>2
  <2> QED
    <3>1. j < n \/ j >= n
      BY <1>1
    <3> QED
      BY Zenon, <2>1, <2>2, <3>1
<1> QED
  BY <1>1, <1>2, <1>3, <1>4, <1>5, <1>6

\* What list_add gives, place by place.
LEMMA AddPlaces ==
    ASSUME NEW S, NEW q \in Seq(S), NEW n \in 1 .. Len(q) + 1, NEW p \in S
    PROVE  list_add(q, n, p) \in Seq(S) /\ Widened(q, n, p, list_add(q, n, p))
<1> DEFINE l == SubSeq(q, 1, n - 1)
           r == SubSeq(q, n, Len(q))
           m == l \o <<p>>
<1>1. Len(q) \in Nat
  BY LenProperties
<1>2. /\ l \in Seq(S) /\ Len(l) = n - 1
      /\ \A j \in 1 .. n - 1 : l[j] = q[j]
  BY <1>1, SubSeqProperties
<1>3. /\ r \in Seq(S) /\ Len(r) = Len(q) - n + 1
      /\ \A j \in 1 .. Len(q) - n + 1 : r[j] = q[n + j - 1]
  BY <1>1, SubSeqProperties
<1> HIDE DEF l, r
<1>4. <<p>> \in Seq(S) /\ Len(<<p>>) = 1 /\ <<p>>[1] = p
  OBVIOUS
<1>5. /\ m \in Seq(S) /\ Len(m) = n
      /\ \A j \in 1 .. n : m[j] = IF j < n THEN q[j] ELSE p
  <2>1. /\ m \in Seq(S) /\ Len(m) = Len(l) + Len(<<p>>)
        /\ \A j \in 1 .. Len(l) + Len(<<p>>) :
              m[j] = IF j <= Len(l) THEN l[j] ELSE <<p>>[j - Len(l)]
    BY <1>2, <1>4, ConcatProperties
  <2>2. ASSUME NEW j \in 1 .. n PROVE m[j] = IF j < n THEN q[j] ELSE p
    <3>1. CASE j < n
      BY <1>1, <1>2, <1>4, <2>1, <3>1
    <3>2. CASE j = n
      <4>1. j - Len(l) = 1
        BY <1>1, <1>2, <3>2
      <4> QED
        BY <1>1, <1>2, <1>4, <2>1, <3>2, <4>1
    <3> QED
      <4>1. j < n \/ j = n
        BY <1>1
      <4> QED
        BY Zenon, <3>1, <3>2, <4>1
  <2> QED
    <3>1. Len(m) = n
      BY <1>1, <1>2, <1>4, <2>1
    <3> QED
      BY <2>1, <2>2, <3>1
<1> HIDE DEF m
<1>6. /\ m \o r \in Seq(S) /\ Len(m \o r) = Len(m) + Len(r)
      /\ \A j \in 1 .. Len(m) + Len(r) :
            (m \o r)[j] = IF j <= Len(m) THEN m[j] ELSE r[j - Len(m)]
  BY <1>3, <1>5, ConcatProperties
<1>7. list_add(q, n, p) = m \o r
  BY DEF list_add, l, r, m
<1>8. ASSUME NEW j \in 1 .. Len(q) + 1
      PROVE  (m \o r)[j] = IF j < n THEN q[j] ELSE IF j = n THEN p ELSE q[j - 1]
  <2>1. CASE j <= n
    BY <1>1, <1>3, <1>5, <1>6, <2>1
  <2>2. CASE j > n
    <3>1. (m \o r)[j] = r[j - n]
      BY <1>1, <1>3, <1>5, <1>6, <2>2
    <3>2. j - n \in 1 .. Len(q) - n + 1 /\ n + (j - n) - 1 = j - 1
      BY <1>1, <2>2
    <3> QED
      BY <1>1, <1>3, <2>2, <3>1, <3>2
  <2> QED
    <3>1. j <= n \/ j > n
      BY <1>1
    <3> QED
      BY Zenon, <2>1, <2>2, <3>1
<1> QED
  BY <1>1, <1>3, <1>5, <1>6, <1>7, <1>8 DEF Widened

\* A task taken out of an array that holds it once is no longer in it, and the
\* rest keeps its order.
LEMMA Removing ==
    ASSUME NEW q \in Seq(Tasks), Distinct(q), NEW n \in 1 .. Len(q), NEW p, q[n] = p,
           NEW prio, Sorted(q, prio), NEW r, r = list_del(q, n)
    PROVE  /\ r \in Seq(Tasks) /\ Distinct(r) /\ Sorted(r, prio)
           /\ \A x \in Tasks : on_list(r, x) <=> on_list(q, x) /\ x # p
<1> DEFINE at(j) == IF j < n THEN j ELSE j + 1
<1>1. n \in 1 .. Len(q) /\ n \in Int
  BY LenProperties
<1>2. Len(q) \in Nat
  BY LenProperties
<1>3. /\ r \in Seq(Tasks) /\ Len(r) = Len(q) - 1
      /\ \A j \in 1 .. Len(q) - 1 : r[j] = IF j < n THEN q[j] ELSE q[j + 1]
  BY Zenon, DelPlaces
<1>4. \A j \in 1 .. Len(r) : at(j) \in 1 .. Len(q) /\ at(j) # n /\ r[j] = q[at(j)]
  <2> SUFFICES ASSUME NEW j \in 1 .. Len(r)
               PROVE  at(j) \in 1 .. Len(q) /\ at(j) # n /\ r[j] = q[at(j)]
    OBVIOUS
  <2>1. j \in 1 .. Len(q) - 1
    BY <1>3
  <2>2. at(j) \in 1 .. Len(q) /\ at(j) # n
    BY <1>1, <1>2, <2>1
  <2> QED
    BY <1>3, <2>1, <2>2
<1>5. \A i, j \in 1 .. Len(r) : (i < j => at(i) < at(j)) /\ (at(i) = at(j) => i = j)
  BY <1>1, <1>2, <1>3
<1>6. \A m \in 1 .. Len(q) : m # n => \E j \in 1 .. Len(r) : at(j) = m
  <2> SUFFICES ASSUME NEW m \in 1 .. Len(q), m # n
               PROVE  \E j \in 1 .. Len(r) : at(j) = m
    OBVIOUS
  <2>1. CASE m < n
    <3>1. m \in 1 .. Len(r) /\ at(m) = m
      BY <1>1, <1>2, <1>3, <2>1
    <3> QED
      BY <3>1
  <2>2. CASE m > n
    <3>1. m - 1 \in 1 .. Len(r) /\ at(m - 1) = m
      BY <1>1, <1>2, <1>3, <2>2
    <3> QED
      BY <3>1
  <2> QED
    BY <1>1, <1>2, <2>1, <2>2
<1> HIDE DEF at
<1>7. Distinct(r)
  BY <1>4, <1>5 DEF Distinct
<1>8. Sorted(r, prio)
  BY <1>4, <1>5 DEF Sorted
<1>9. ASSUME NEW x \in Tasks
      PROVE  on_list(r, x) <=> on_list(q, x) /\ x # p
  <2>1. on_list(r, x) => on_list(q, x) /\ x # p
    BY <1>1, <1>4 DEF on_list, Distinct
  <2>2. ASSUME on_list(q, x), x # p PROVE on_list(r, x)
    <3>1. PICK m \in 1 .. Len(q) : q[m] = x
      BY <2>2 DEF on_list
    <3>2. PICK j \in 1 .. Len(r) : at(j) = m
      BY <1>1, <1>6, <2>2, <3>1
    <3> QED
      BY <1>4, <3>1, <3>2 DEF on_list
  <2> QED
    BY <2>1, <2>2
<1> QED
  BY <1>3, <1>7, <1>8, <1>9

\* A task that goes behind nothing worse and before nothing better leaves the
\* array ordered.
LEMMA Inserting ==
    ASSUME NEW q \in Seq(Tasks), Distinct(q), NEW p \in Tasks, ~on_list(q, p),
           NEW prio \in [Tasks -> Int], Sorted(q, prio), NEW n \in 1 .. Len(q) + 1,
           Fits(q, prio, n, p), NEW r, r = list_add(q, n, p)
    PROVE  /\ r \in Seq(Tasks) /\ Distinct(r) /\ Sorted(r, prio)
           /\ \A x \in Tasks : on_list(r, x) <=> on_list(q, x) \/ x = p
           /\ r # <<>> /\ (n > 1 => Head(r) # p)
<1> DEFINE at(j) == IF j < n THEN j ELSE j - 1
<1>1. Len(q) \in Nat
  BY LenProperties
<1>2. /\ r \in Seq(Tasks) /\ Len(r) = Len(q) + 1
      /\ \A j \in 1 .. Len(q) + 1 : r[j] = IF j < n THEN q[j] ELSE IF j = n THEN p ELSE q[j - 1]
  <2>1. r \in Seq(Tasks) /\ Widened(q, n, p, r)
    BY AddPlaces
  <2> QED
    BY <2>1 DEF Widened
<1>3. \A j \in 1 .. Len(r) : j # n => at(j) \in 1 .. Len(q) /\ r[j] = q[at(j)]
  BY <1>1, <1>2
<1>4. n \in 1 .. Len(r) /\ r[n] = p
  BY <1>1, <1>2
<1>5. \A i, j \in 1 .. Len(r) :
          i # n /\ j # n => (i < j => at(i) < at(j)) /\ (at(i) = at(j) => i = j)
  <2>1. Len(r) \in Nat /\ n \in Int
    BY <1>1, <1>2
  <2> QED
    BY ONLY <2>1
<1>6. \A j \in 1 .. Len(r) : (j < n => at(j) < n) /\ (j > n => at(j) >= n)
  BY <1>1, <1>2
<1>7. \A m \in 1 .. Len(q) : \E j \in 1 .. Len(r) : j # n /\ at(j) = m
  <2> SUFFICES ASSUME NEW m \in 1 .. Len(q)
               PROVE  \E j \in 1 .. Len(r) : j # n /\ at(j) = m
    OBVIOUS
  <2>1. CASE m < n
    <3>1. m \in 1 .. Len(r) /\ m # n /\ at(m) = m
      BY <1>1, <1>2, <2>1
    <3> QED
      BY <3>1
  <2>2. CASE m >= n
    <3>1. m + 1 \in 1 .. Len(r) /\ m + 1 # n /\ at(m + 1) = m
      BY <1>1, <1>2, <2>2
    <3> QED
      BY <3>1
  <2> QED
    BY <1>1, <2>1, <2>2
<1> HIDE DEF at
<1>8. \A j \in 1 .. Len(r) : j # n => r[j] # p
  BY <1>3 DEF on_list
<1>9. Distinct(r)
  <2> SUFFICES ASSUME NEW i \in 1 .. Len(r), NEW j \in 1 .. Len(r), r[i] = r[j], i # j
               PROVE  FALSE
    BY DEF Distinct
  <2>1. i # n /\ j # n
    BY <1>4, <1>8
  <2>2. at(i) \in 1 .. Len(q) /\ at(j) \in 1 .. Len(q) /\ q[at(i)] = q[at(j)]
    BY <1>3, <2>1
  <2>3. at(i) = at(j)
    BY Zenon, <2>2 DEF Distinct
  <2> QED
    BY <1>5, <2>1, <2>3
<1>10. Sorted(r, prio)
  <2> SUFFICES ASSUME NEW i \in 1 .. Len(r), NEW j \in 1 .. Len(r), i < j
               PROVE  prio[r[i]] <= prio[r[j]]
    BY DEF Sorted
  <2>1. CASE i = n
    <3>1. j # n /\ j > n
      BY <1>1, <1>2, <2>1
    <3> QED
      BY Zenon, <1>3, <1>4, <1>6, <2>1, <3>1 DEF Fits
  <2>2. CASE j = n
    <3>1. i # n /\ i < n
      BY <1>1, <1>2, <2>2
    <3>2. at(i) \in 1 .. Len(q) /\ r[i] = q[at(i)] /\ at(i) < n
      BY <1>3, <1>6, <3>1
    <3> QED
      BY <1>4, <2>2, <3>2 DEF Fits
  <2>3. CASE i # n /\ j # n
    BY Zenon, <1>3, <1>5, <2>3 DEF Sorted
  <2> QED
    BY <2>1, <2>2, <2>3
<1>11. ASSUME NEW x \in Tasks
       PROVE  on_list(r, x) <=> on_list(q, x) \/ x = p
  <2>1. on_list(r, x) => on_list(q, x) \/ x = p
    BY <1>3, <1>4 DEF on_list
  <2>2. on_list(q, x) => on_list(r, x)
    BY <1>3, <1>7 DEF on_list
  <2> QED
    BY Zenon, <1>4, <2>1, <2>2 DEF on_list
<1>12. r # <<>> /\ Head(r) = r[1]
  BY <1>1, <1>2
<1>13. n > 1 => Head(r) # p
  BY <1>1, <1>2, <1>8, <1>12
<1> QED
  BY <1>2, <1>9, <1>10, <1>11, <1>12, <1>13

\* Every set of numbers has a least.
LEMMA LeastNumber ==
    ASSUME NEW S \in SUBSET Nat, S # {}
    PROVE  \E i \in S : \A j \in S : i <= j
<1>1. PICK i \in S : \A j \in S : ~(<<j, i>> \in OpToRel(<, Nat))
  BY Zenon, NatLessThanWellFounded, WFMin
<1>2. \A j \in S : ~(j < i)
  BY Zenon, <1>1 DEF OpToRel
<1> QED
  BY <1>2

\* Places that reach down to the first are as many as the last says.
LEMMA FirstPlaces ==
    ASSUME NEW n \in Nat, NEW S \in SUBSET (1 .. n),
           \A i \in S, j \in 1 .. n : j < i => j \in S
    PROVE  Cardinality(S) \in 0 .. n /\ S = 1 .. Cardinality(S)
<1> DEFINE C == {i \in 1 .. n + 1 : i \notin S}
<1>1. C \in SUBSET Nat /\ n + 1 \in C
  OBVIOUS
<1>2. PICK m \in C : \A j \in C : m <= j
  BY Zenon, <1>1, LeastNumber
<1>3. m \in 1 .. n + 1 /\ m \notin S
  BY <1>2
<1>4. \A j \in 1 .. m - 1 : j \in S
  BY <1>2, <1>3
<1>5. ASSUME NEW i \in S PROVE i \in 1 .. m - 1
  <2>1. i \in 1 .. n /\ i # m
    BY <1>3
  <2>2. m < i => m \in S
    BY <1>3, <2>1
  <2> QED
    BY <1>3, <2>1, <2>2
<1>6. S = 1 .. m - 1
  BY Zenon, <1>4, <1>5
<1>7. Cardinality(1 .. m - 1) = m - 1
  BY <1>3, FS_Interval
<1> QED
  BY <1>3, <1>6, <1>7

\* Where a list begins and ends in an ordered array.
LEMMA Places ==
    ASSUME NEW s, NEW a, s[a] \in Seq(Tasks), s.prio \in [Tasks -> Int],
           Sorted(s[a], s.prio), NEW i \in Int
    PROVE  /\ first(s, a, i) \in 1 .. Len(s[a]) + 1
           /\ \A j \in 1 .. Len(s[a]) : j < first(s, a, i) <=> s.prio[s[a][j]] < i
           /\ behind(s, a, i) \in 1 .. Len(s[a]) + 1
           /\ \A j \in 1 .. Len(s[a]) : j < behind(s, a, i) <=> s.prio[s[a][j]] <= i
<1> DEFINE q == s[a]
           prio == s.prio
           L == {n \in 1 .. Len(q) : prio[q[n]] < i}
           B == {n \in 1 .. Len(q) : prio[q[n]] <= i}
<1>1. Len(q) \in Nat /\ \A j \in 1 .. Len(q) : prio[q[j]] \in Int
  BY LenProperties, ElementOfSeq
<1>2. \A n, j \in 1 .. Len(q) : j < n => prio[q[j]] <= prio[q[n]]
  BY DEF Sorted
<1>3. first(s, a, i) = 1 + Cardinality(L) /\ behind(s, a, i) = 1 + Cardinality(B)
  BY DEF first, behind
<1> HIDE DEF q, prio
<1>4. L \in SUBSET (1 .. Len(q)) /\ \A n \in L, j \in 1 .. Len(q) : j < n => j \in L
  BY <1>1, <1>2
<1>5. B \in SUBSET (1 .. Len(q)) /\ \A n \in B, j \in 1 .. Len(q) : j < n => j \in B
  BY <1>1, <1>2
<1>6. \A j \in 1 .. Len(q) : (j \in L <=> prio[q[j]] < i) /\ (j \in B <=> prio[q[j]] <= i)
  OBVIOUS
<1> HIDE DEF L, B
<1>7. Cardinality(L) \in 0 .. Len(q) /\ L = 1 .. Cardinality(L)
  BY Zenon, <1>1, <1>4, FirstPlaces
<1>8. Cardinality(B) \in 0 .. Len(q) /\ B = 1 .. Cardinality(B)
  BY Zenon, <1>1, <1>5, FirstPlaces
<1>9. /\ first(s, a, i) \in 1 .. Len(q) + 1
      /\ \A j \in 1 .. Len(q) : j < first(s, a, i) <=> prio[q[j]] < i
  BY <1>1, <1>3, <1>6, <1>7
<1>10. /\ behind(s, a, i) \in 1 .. Len(q) + 1
       /\ \A j \in 1 .. Len(q) : j < behind(s, a, i) <=> prio[q[j]] <= i
  BY <1>1, <1>3, <1>6, <1>8
<1> QED
  BY <1>9, <1>10 DEF q, prio

-----------------------------------------------------------------------------
(* The two arrays                                                            *)

Policies == {"OTHER", "RR", "FIFO"}

RunQueues ==
    [active : Seq(Tasks), expired : Seq(Tasks), curr : Tasks \cup {Idle},
     need_resched : BOOLEAN, expired_age : Nat,
     static_prio : [Tasks -> MAX_RT_PRIO .. MAX_PRIO - 1],
     prio : [Tasks -> 0 .. MAX_PRIO - 1],
     policy : [Tasks -> Policies],
     time_slice : [Tasks -> 0 .. MAX_TIMESLICE],
     sleep_avg : [Tasks -> 0 .. MAX_SLEEP_AVG],
     sleep_age : [Tasks -> Nat]]

Arrays == {"active", "expired"}

\* The arrays are ordered, and a task is in one place at most.
Ordered(s) ==
    /\ Sorted(s.active, s.prio) /\ Sorted(s.expired, s.prio)
    /\ Distinct(s.active) /\ Distinct(s.expired)
    /\ \A x \in Tasks : ~(on_list(s.active, x) /\ on_list(s.expired, x))

Sound(s) == s \in RunQueues /\ Ordered(s)

\* Nothing but the arrays differs, and only p has moved, to array a.
Moved(s, t, p, a) ==
    /\ t = [s EXCEPT !.active = t.active, !.expired = t.expired]
    /\ \A x \in Tasks : array(t, x) = IF x = p THEN a ELSE array(s, x)

\* In a sound state array() says which array holds a task.
LEMMA ArrayHolds ==
    ASSUME NEW s, Sound(s), NEW p \in Tasks
    PROVE  /\ array(s, p) \in Arrays \cup {"null"}
           /\ array(s, p) = "active" <=> on_list(s.active, p)
           /\ array(s, p) = "expired" <=> on_list(s.expired, p)
BY DEF Sound, Ordered, array, Arrays

\* A state that differs from a sound one in one array is sound when that array
\* is ordered and shares no task with the other; then array() is known.
LEMMA OneArray ==
    ASSUME NEW s, Sound(s), NEW a \in Arrays, NEW r \in Seq(Tasks), NEW p \in Tasks,
           NEW b \in Arrays \cup {"null"}, NEW t, t = [s EXCEPT ![a] = r],
           Distinct(r), Sorted(r, s.prio),
           array(s, p) \in {a, "null"}, b \in {a, "null"},
           \A x \in Tasks : on_list(r, x) <=> IF x = p THEN b = a ELSE on_list(s[a], x)
    PROVE  Sound(t) /\ Moved(s, t, p, b)
<1>1. CASE a = "active"
  <2>1. t = [s EXCEPT !.active = r]
    BY Zenon, <1>1
  <2>2. /\ t \in RunQueues /\ t.active = r /\ t.expired = s.expired /\ t.prio = s.prio
        /\ t = [s EXCEPT !.active = t.active, !.expired = t.expired]
    BY Zenon, <2>1 DEF Sound, RunQueues
  <2>3. \A x \in Tasks : on_list(r, x) <=> IF x = p THEN b = "active" ELSE on_list(s.active, x)
    BY <1>1
  <2>4. ~on_list(s.expired, p)
    BY <1>1, ArrayHolds
  <2>5. Ordered(t)
    BY <2>2, <2>3, <2>4 DEF Sound, Ordered
  <2>6. \A x \in Tasks : array(t, x) = IF x = p THEN b ELSE array(s, x)
    BY <1>1, <2>2, <2>3, <2>4 DEF array
  <2> QED
    BY Zenon, <2>2, <2>5, <2>6 DEF Sound, Moved
<1>2. CASE a = "expired"
  <2>1. t = [s EXCEPT !.expired = r]
    BY Zenon, <1>2
  <2>2. /\ t \in RunQueues /\ t.expired = r /\ t.active = s.active /\ t.prio = s.prio
        /\ t = [s EXCEPT !.active = t.active, !.expired = t.expired]
    BY Zenon, <2>1 DEF Sound, RunQueues
  <2>3. \A x \in Tasks : on_list(r, x) <=> IF x = p THEN b = "expired" ELSE on_list(s.expired, x)
    BY <1>2
  <2>4. ~on_list(s.active, p)
    BY <1>2, ArrayHolds
  <2>5. Ordered(t)
    BY <2>2, <2>3, <2>4 DEF Sound, Ordered
  <2>6. \A x \in Tasks : array(t, x) = IF x = p THEN b ELSE array(s, x)
    BY <1>2, <2>2, <2>3, <2>4 DEF array
  <2> QED
    BY Zenon, <2>2, <2>5, <2>6 DEF Sound, Moved
<1> QED
  BY <1>1, <1>2 DEF Arrays

\* An array of a sound state, whichever it is.
LEMMA EitherArray ==
    ASSUME NEW s, Sound(s), NEW a \in Arrays
    PROVE  /\ s[a] \in Seq(Tasks) /\ Distinct(s[a]) /\ Sorted(s[a], s.prio)
           /\ s.prio \in [Tasks -> Int]
           /\ \A x \in Tasks : on_list(s[a], x) <=> array(s, x) = a
<1>1. s \in RunQueues /\ s.prio \in [Tasks -> Int]
  <2>1. s \in RunQueues
    BY DEF Sound
  <2>2. s.prio \in [Tasks -> 0 .. MAX_PRIO - 1]
    BY <2>1 DEF RunQueues
  <2>3. 0 .. MAX_PRIO - 1 \subseteq Int
    BY DEF MAX_PRIO, MAX_RT_PRIO
  <2> QED
    BY <2>1, <2>2, <2>3
<1>2. CASE a = "active"
  BY Zenon, <1>1, <1>2, ArrayHolds DEF Sound, Ordered, RunQueues
<1>3. CASE a = "expired"
  BY Zenon, <1>1, <1>3, ArrayHolds DEF Sound, Ordered, RunQueues
<1> QED
  BY <1>2, <1>3 DEF Arrays

\* dequeue_task() of a queued task.
LEMMA Dequeue ==
    ASSUME NEW s, Sound(s), NEW p \in Tasks, NEW a \in Arrays, array(s, p) = a
    PROVE  /\ Sound(dequeue_task(s, p, a))
           /\ Moved(s, dequeue_task(s, p, a), p, "null")
<1> DEFINE q == s[a]
           n == CHOOSE n \in 1 .. Len(q) : q[n] = p
           r == list_del(q, n)
           t == [s EXCEPT ![a] = r]
<1>1. /\ q \in Seq(Tasks) /\ Distinct(q) /\ Sorted(q, s.prio)
      /\ \A x \in Tasks : on_list(q, x) <=> array(s, x) = a
  BY EitherArray
<1>2. n \in 1 .. Len(q) /\ q[n] = p
  BY <1>1 DEF on_list
<1>3. dequeue_task(s, p, a) = t
  <2>1. a \in DOMAIN s
    BY DEF Sound, RunQueues, Arrays
  <2> QED
    BY <2>1 DEF dequeue_task
<1> HIDE DEF n
<1>4. /\ r \in Seq(Tasks) /\ Distinct(r) /\ Sorted(r, s.prio)
      /\ \A x \in Tasks : on_list(r, x) <=> on_list(q, x) /\ x # p
  BY <1>1, <1>2, Removing
<1> HIDE DEF r
<1>5. \A x \in Tasks : on_list(r, x) <=> IF x = p THEN "null" = a ELSE on_list(s[a], x)
  BY <1>4 DEF Arrays
<1> QED
  BY Zenon, <1>3, <1>4, <1>5, OneArray

\* A task outside the arrays may get any priority.
LEMMA Outside ==
    ASSUME NEW s, Sound(s), NEW p \in Tasks, array(s, p) = "null",
           NEW t \in RunQueues, t.active = s.active, t.expired = s.expired,
           \A x \in Tasks \ {p} : t.prio[x] = s.prio[x]
    PROVE  Sound(t) /\ \A x \in Tasks : array(t, x) = array(s, x)
<1>1. s.active \in Seq(Tasks) /\ s.expired \in Seq(Tasks)
  BY DEF Sound, RunQueues
<1>2. ~on_list(s.active, p) /\ ~on_list(s.expired, p)
  BY ArrayHolds
<1>3. Sorted(s.active, t.prio)
  BY <1>1, <1>2, ElementOfSeq DEF Sound, Ordered, Sorted, on_list
<1>4. Sorted(s.expired, t.prio)
  BY <1>1, <1>2, ElementOfSeq DEF Sound, Ordered, Sorted, on_list
<1>5. \A x \in Tasks : array(t, x) = array(s, x)
  BY DEF array
<1> QED
  BY <1>3, <1>4, <1>5 DEF Sound, Ordered

\* A place in an array for a task that is in none.
LEMMA PutAt ==
    ASSUME NEW s, Sound(s), NEW p \in Tasks, NEW a \in Arrays, array(s, p) = "null",
           NEW n \in 1 .. Len(s[a]) + 1,
           Fits(s[a], s.prio, n, p),
           NEW t, t = [s EXCEPT ![a] = list_add(s[a], n, p)]
    PROVE  /\ Sound(t) /\ Moved(s, t, p, a)
           /\ n > 1 => Head(t[a]) # p
<1> DEFINE q == s[a]
           prio == s.prio
           r == list_add(q, n, p)
<1>1. /\ q \in Seq(Tasks) /\ Distinct(q) /\ Sorted(q, prio) /\ prio \in [Tasks -> Int]
      /\ \A x \in Tasks : on_list(q, x) <=> array(s, x) = a
  BY EitherArray
<1>2. ~on_list(q, p)
  BY <1>1 DEF Arrays
<1>3. n \in 1 .. Len(q) + 1 /\ Fits(q, prio, n, p)
  OBVIOUS
<1>4. t = [s EXCEPT ![a] = r] /\ t[a] = r
  BY DEF Sound, RunQueues, Arrays
<1> HIDE DEF q, prio
<1>5. /\ r \in Seq(Tasks) /\ Distinct(r) /\ Sorted(r, prio)
      /\ \A x \in Tasks : on_list(r, x) <=> on_list(q, x) \/ x = p
      /\ r # <<>> /\ (n > 1 => Head(r) # p)
  BY <1>1, <1>2, <1>3, Inserting
<1> HIDE DEF r
<1>6. \A x \in Tasks : on_list(r, x) <=> IF x = p THEN a = a ELSE on_list(s[a], x)
  BY <1>5 DEF q
<1>7. Sound(t) /\ Moved(s, t, p, a)
  BY Zenon, <1>4, <1>5, <1>6, OneArray DEF prio
<1> QED
  BY <1>4, <1>5, <1>7

\* enqueue_task() of a task that is in no array.
LEMMA Enqueue ==
    ASSUME NEW s, Sound(s), NEW p \in Tasks, NEW a \in Arrays, array(s, p) = "null"
    PROVE  /\ Sound(enqueue_task(s, p, a))
           /\ Moved(s, enqueue_task(s, p, a), p, a)
           /\ behind(s, a, s.prio[p]) > 1 => Head(enqueue_task(s, p, a)[a]) # p
<1> DEFINE n == behind(s, a, s.prio[p])
           t == [s EXCEPT ![a] = list_add(s[a], n, p)]
<1>1. /\ s[a] \in Seq(Tasks) /\ Sorted(s[a], s.prio) /\ s.prio \in [Tasks -> Int]
  BY EitherArray
<1>2. s.prio[p] \in Int /\ Len(s[a]) \in Nat /\ \A j \in 1 .. Len(s[a]) : s.prio[s[a][j]] \in Int
  BY <1>1, ElementOfSeq, LenProperties
<1>3. /\ n \in 1 .. Len(s[a]) + 1
      /\ \A j \in 1 .. Len(s[a]) : j < n <=> s.prio[s[a][j]] <= s.prio[p]
  BY Zenon, <1>1, <1>2, Places
<1>4. enqueue_task(s, p, a) = t
  BY DEF enqueue_task, Sound, RunQueues, Arrays
<1> HIDE DEF n
<1>5. Fits(s[a], s.prio, n, p)
  BY <1>2, <1>3 DEF Fits
<1>6. /\ Sound(t) /\ Moved(s, t, p, a)
      /\ n > 1 => Head(t[a]) # p
  BY Zenon, <1>3, <1>5, PutAt
<1> QED
  BY <1>4, <1>6 DEF n

-----------------------------------------------------------------------------
(* Priorities and timeslices                                                 *)

\* effective_prio() stays within five levels of the nice value and never
\* makes a real-time task.
LEMMA EffectivePrio ==
    ASSUME NEW s \in RunQueues, NEW p \in Tasks
    PROVE  /\ effective_prio(s, p) \in MAX_RT_PRIO .. MAX_PRIO - 1
           /\ effective_prio(s, p) \in s.static_prio[p] - 5 .. s.static_prio[p] + 5
<1> DEFINE a == s.sleep_avg[p]
           M == MAX_SLEEP_AVG
           st == s.static_prio[p]
           v == (1000 * a) \div M
           bonus == v \div 100 - 5
<1>1. M \in Nat /\ M > 0 /\ a \in 0 .. M
  BY TimeAssumption DEF RunQueues
<1>2. st \in 100 .. 139
  BY DEF RunQueues, MAX_PRIO, MAX_RT_PRIO
<1> HIDE DEF a, M, st
<1>3. v \in 0 .. 1000
  BY <1>1
<1> HIDE DEF v
<1>4. bonus \in -5 .. 5
  BY ONLY <1>3
<1>5. effective_prio(s, p) = IF st - bonus < 100 THEN 100
                             ELSE IF st - bonus > 139 THEN 139 ELSE st - bonus
  BY DEF effective_prio, MAX_PRIO, MAX_RT_PRIO, a, M, v, st
<1> HIDE DEF bonus
<1> QED
  BY <1>2, <1>4, <1>5 DEF MAX_PRIO, MAX_RT_PRIO, st

\* TASK_TIMESLICE() is a timeslice for every nice value.
LEMMA Timeslice ==
    ASSUME NEW s \in RunQueues, NEW p \in Tasks
    PROVE  TASK_TIMESLICE(s, p) \in 1 .. MAX_TIMESLICE
<1> DEFINE k == 139 - s.static_prio[p]
           D == MAX_TIMESLICE - MIN_TIMESLICE
<1>1. k \in 0 .. 39
  <2>1. s.static_prio[p] \in 100 .. 139
    BY DEF RunQueues, MAX_PRIO, MAX_RT_PRIO
  <2> QED
    BY <2>1
<1>2. D \in Nat /\ MIN_TIMESLICE \in Nat \ {0} /\ MAX_TIMESLICE \in Nat
  BY TimeAssumption
<1>3. TASK_TIMESLICE(s, p) = MIN_TIMESLICE + (D * k) \div 39
  BY DEF TASK_TIMESLICE, MAX_PRIO, MAX_RT_PRIO
<1> HIDE DEF k
<1>4. D * k \in Nat /\ D * k <= D * 39
  <2> HIDE DEF D
  <2>1. D * k \in Nat /\ D * (39 - k) \in Nat
    BY <1>1, <1>2
  <2>2. D * 39 = D * k + D * (39 - k)
    BY <1>1, <1>2
  <2> QED
    BY <1>2, <2>1, <2>2
<1>5. (D * k) \div 39 \in 0 .. D
  <2> DEFINE x == D * k
  <2> HIDE DEF x, D
  <2>1. x \in Nat /\ x <= D * 39 /\ D \in Nat
    BY <1>2, <1>4 DEF x
  <2>2. x \div 39 \in 0 .. D
    BY <2>1
  <2> QED
    BY <2>2 DEF x
<1> QED
  BY <1>2, <1>3, <1>5

\* The policy says whether a task has a real-time priority, and its timeslice
\* is not used up.
Standing(s, p) ==
    /\ rt_task(s, p) <=> s.policy[p] # "OTHER"
    /\ s.time_slice[p] >= 1

\* The priority of a normal task is within five levels of its nice value.
Near(s, p) ==
    s.policy[p] = "OTHER" => s.prio[p] \in s.static_prio[p] - 5 .. s.static_prio[p] + 5

\* Nothing has changed for the other tasks.
Others(s, t, p) ==
    \A x \in Tasks \ {p} :
        /\ t.prio[x] = s.prio[x] /\ t.static_prio[x] = s.static_prio[x]
        /\ t.policy[x] = s.policy[x] /\ t.time_slice[x] = s.time_slice[x]
        /\ array(t, x) = array(s, x)

\* t is sound, and only p has changed, whose standing is right.
Step(s, t, p) ==
    Sound(t) /\ Others(s, t, p) /\ Standing(t, p) /\ (Near(s, p) => Near(t, p))

\* The same CPU state.
SameCpu(s, t) == t.curr = s.curr /\ t.need_resched = s.need_resched

\* What a move of p leaves alone.
LEMMA MovedFields ==
    ASSUME NEW s \in RunQueues, NEW t, NEW p, NEW a, Moved(s, t, p, a)
    PROVE  /\ t.curr = s.curr /\ t.need_resched = s.need_resched
           /\ t.expired_age = s.expired_age /\ t.static_prio = s.static_prio
           /\ t.prio = s.prio /\ t.policy = s.policy /\ t.time_slice = s.time_slice
           /\ t.sleep_avg = s.sleep_avg /\ t.sleep_age = s.sleep_age
           /\ \A x \in Tasks : array(t, x) = IF x = p THEN a ELSE array(s, x)
BY Zenon DEF Moved, RunQueues

\* activate_task() of a task that is in no array.
LEMMA Activate ==
    ASSUME NEW s, Sound(s), NEW p \in Tasks, array(s, p) = "null", Standing(s, p)
    PROVE  LET t == activate_task(s, p)
           IN  Step(s, t, p) /\ SameCpu(s, t) /\ array(t, p) = "active"
<1> DEFINE sum == s.sleep_avg[p] + s.sleep_age[p]
           avg == IF sum > MAX_SLEEP_AVG THEN MAX_SLEEP_AVG ELSE sum
           r == [s EXCEPT !.sleep_avg[p] = avg]
           u == [r EXCEPT !.prio[p] = effective_prio(r, p)]
           v == IF rt_task(s, p) \/ s.sleep_age[p] = 0 THEN s ELSE u
           t == enqueue_task(v, p, "active")
<1>1. s \in RunQueues
  BY DEF Sound
<1>2. avg \in 0 .. MAX_SLEEP_AVG
  <2>1. s.sleep_avg[p] \in 0 .. MAX_SLEEP_AVG /\ s.sleep_age[p] \in Nat /\ MAX_SLEEP_AVG \in Nat
    BY <1>1, TimeAssumption DEF RunQueues
  <2> QED
    BY <2>1
<1> HIDE DEF avg
<1>3. /\ r \in RunQueues /\ r.active = s.active /\ r.expired = s.expired
      /\ r.prio = s.prio /\ r.static_prio = s.static_prio /\ r.policy = s.policy
      /\ r.time_slice = s.time_slice /\ SameCpu(s, r)
  BY Zenon, <1>1, <1>2 DEF RunQueues, SameCpu
<1> HIDE DEF r
<1> DEFINE e == effective_prio(r, p)
<1>4. e \in 100 .. 139 /\ e \in s.static_prio[p] - 5 .. s.static_prio[p] + 5
  BY <1>3, EffectivePrio DEF MAX_PRIO, MAX_RT_PRIO
<1> HIDE DEF e
<1>5. /\ u \in RunQueues /\ u.active = s.active /\ u.expired = s.expired
      /\ u.prio = [s.prio EXCEPT ![p] = e] /\ u.static_prio = s.static_prio
      /\ u.policy = s.policy /\ u.time_slice = s.time_slice /\ SameCpu(s, u)
  <2>1. u = [r EXCEPT !.prio[p] = e]
    BY DEF e
  <2>2. e \in 0 .. MAX_PRIO - 1
    BY <1>4 DEF MAX_PRIO, MAX_RT_PRIO
  <2> HIDE DEF u
  <2> QED
    BY Zenon, <1>3, <2>1, <2>2 DEF RunQueues, SameCpu
<1> HIDE DEF u
<1>6. /\ v \in RunQueues /\ v.active = s.active /\ v.expired = s.expired
      /\ v.static_prio = s.static_prio /\ v.policy = s.policy
      /\ v.time_slice = s.time_slice /\ SameCpu(s, v)
      /\ \A x \in Tasks \ {p} : v.prio[x] = s.prio[x]
  BY Zenon, <1>1, <1>5 DEF RunQueues, SameCpu
<1>7. Standing(v, p) /\ (Near(s, p) => Near(v, p))
  <2>1. CASE rt_task(s, p) \/ s.sleep_age[p] = 0
    BY <2>1
  <2>2. CASE ~(rt_task(s, p) \/ s.sleep_age[p] = 0)
    <3>1. v.prio[p] = e /\ s.policy[p] = "OTHER"
      BY <1>1, <1>5, <2>2 DEF RunQueues, Standing
    <3> QED
      BY <1>4, <1>6, <3>1 DEF Standing, Near, rt_task, MAX_RT_PRIO
  <2> QED
    BY <2>1, <2>2
<1> HIDE DEF v
<1>8. Sound(v) /\ \A x \in Tasks : array(v, x) = array(s, x)
  BY <1>6, Outside
<1>9. Sound(t) /\ Moved(v, t, p, "active")
  BY <1>8, Enqueue DEF Arrays
<1>10. activate_task(s, p) = t
  BY DEF activate_task, t, v, u, r, avg
<1> HIDE DEF t
<1>11. /\ t.curr = v.curr /\ t.need_resched = v.need_resched
       /\ t.prio = v.prio /\ t.static_prio = v.static_prio
       /\ t.policy = v.policy /\ t.time_slice = v.time_slice
       /\ \A x \in Tasks : array(t, x) = IF x = p THEN "active" ELSE array(v, x)
  BY <1>6, <1>9, MovedFields
<1>12. Others(s, t, p) /\ SameCpu(s, t) /\ array(t, p) = "active"
  BY <1>6, <1>8, <1>11 DEF Others, SameCpu
<1>13. Standing(t, p) /\ (Near(s, p) => Near(t, p))
  BY <1>7, <1>11 DEF Standing, Near, rt_task
<1> QED
  BY <1>9, <1>10, <1>12, <1>13 DEF Step

-----------------------------------------------------------------------------
(* scheduler_tick()                                                          *)

\* Nothing differs but the ages and sleep averages.
Same(s, t) ==
    /\ SameCpu(s, t)
    /\ t.active = s.active /\ t.expired = s.expired
    /\ t.static_prio = s.static_prio /\ t.prio = s.prio
    /\ t.policy = s.policy /\ t.time_slice = s.time_slice

\* The ages of a new jiffy change no array and no priority.
LEMMA NextJiffy ==
    ASSUME NEW s, Sound(s)
    PROVE  Sound(next_jiffy(s)) /\ Same(s, next_jiffy(s))
<1> DEFINE up(n, max) == IF n < max THEN n + 1 ELSE n
           aging == {p \in world.tasks : array(s, p) = "null" \/ Makes("setscheduler")}
           ages == [p \in Tasks |-> IF p \in aging THEN up(s.sleep_age[p], MAX_SLEEP_AVG)
                                    ELSE s.sleep_age[p]]
           age == IF s.expired_age = 0 THEN 0
                  ELSE up(s.expired_age, STARVATION_LIMIT * Cardinality(world.tasks) + 2)
           t == [s EXCEPT !.sleep_age = ages, !.expired_age = age]
<1>1. s \in RunQueues
  BY DEF Sound
<1>2. ages \in [Tasks -> Nat]
  BY <1>1 DEF RunQueues
<1>3. age \in Nat
  BY <1>1 DEF RunQueues
<1>4. next_jiffy(s) = t
  BY <1>1 DEF next_jiffy, RunQueues
<1> HIDE DEF ages, age
<1>5. t \in RunQueues /\ Same(s, t)
  BY Zenon, <1>1, <1>2, <1>3 DEF RunQueues, Same, SameCpu
<1> HIDE DEF t
<1> QED
  BY <1>4, <1>5 DEF Sound, Ordered, Same

\* A tick changes the order of tasks only where it asks for schedule().
Quiet(s, t) ==
    \/ t.need_resched
    \/ /\ SameCpu(s, t) /\ t.prio = s.prio
       /\ \A x \in Tasks : array(t, x) = array(s, x)

\* A state with another timeslice for p.
LEMMA NewSlice ==
    ASSUME NEW s, Sound(s), NEW p \in Tasks, NEW t \in RunQueues, SameCpu(s, t),
           t.active = s.active, t.expired = s.expired, t.prio = s.prio,
           t.static_prio = s.static_prio, t.policy = s.policy,
           \A x \in Tasks \ {p} : t.time_slice[x] = s.time_slice[x]
    PROVE  Sound(t) /\ Others(s, t, p) /\ Quiet(s, t) /\ array(t, p) = array(s, p)
<1>1. Sound(t)
  BY DEF Sound, Ordered
<1>2. \A x \in Tasks : array(t, x) = array(s, x)
  BY DEF array
<1> QED
  BY <1>1, <1>2 DEF Others, Quiet

\* The part of scheduler_tick() for real-time tasks.
LEMMA RtTick ==
    ASSUME NEW s, Sound(s), NEW p \in Tasks, array(s, p) = "active", Standing(s, p)
    PROVE  LET t == rt_tick(s, p)
           IN  Step(s, t, p) /\ Quiet(s, t) /\ t.curr = s.curr /\ array(t, p) = "active"
<1> DEFINE d == [s EXCEPT !.time_slice[p] = @ - 1]
           slice == TASK_TIMESLICE(d, p)
           r == [d EXCEPT !.time_slice[p] = slice, !.need_resched = TRUE]
           o == dequeue_task(r, p, "active")
           e == enqueue_task(o, p, "active")
<1>1. s \in RunQueues
  BY DEF Sound
<1>2. s.time_slice[p] - 1 \in 0 .. MAX_TIMESLICE
  <2>1. s.time_slice[p] \in 0 .. MAX_TIMESLICE /\ s.time_slice[p] >= 1 /\ MAX_TIMESLICE \in Nat
    BY <1>1, TimeAssumption DEF RunQueues, Standing
  <2> QED
    BY <2>1
<1>3. /\ d \in RunQueues /\ SameCpu(s, d)
      /\ d.active = s.active /\ d.expired = s.expired /\ d.prio = s.prio
      /\ d.static_prio = s.static_prio /\ d.policy = s.policy
      /\ d.time_slice = [s.time_slice EXCEPT ![p] = @ - 1]
  BY Zenon, <1>1, <1>2 DEF RunQueues, SameCpu
<1>4. rt_tick(s, p) = IF s.policy[p] # "RR" THEN s ELSE IF d.time_slice[p] # 0 THEN d ELSE e
  BY DEF rt_tick
<1> HIDE DEF d
<1>5. slice \in 1 .. MAX_TIMESLICE
  BY <1>3, Timeslice
<1> HIDE DEF slice
<1>6. /\ r \in RunQueues /\ r.need_resched /\ r.curr = s.curr
      /\ r.active = s.active /\ r.expired = s.expired /\ r.prio = s.prio
      /\ r.static_prio = s.static_prio /\ r.policy = s.policy
      /\ r.time_slice = [s.time_slice EXCEPT ![p] = slice]
  <2>1. slice \in 0 .. MAX_TIMESLICE /\ MAX_TIMESLICE \in Nat
    BY <1>5, TimeAssumption
  <2> QED
    BY Zenon, <1>1, <1>3, <2>1 DEF RunQueues, SameCpu
<1> HIDE DEF r
<1>7. CASE s.policy[p] # "RR"
  <2>1. rt_tick(s, p) = s
    BY <1>4, <1>7
  <2> QED
    BY <2>1 DEF Step, Others, Quiet, SameCpu
<1>8. CASE s.policy[p] = "RR" /\ d.time_slice[p] # 0
  <2>1. rt_tick(s, p) = d
    BY <1>4, <1>8
  <2>2. Sound(d) /\ Others(s, d, p) /\ Quiet(s, d) /\ array(d, p) = array(s, p)
    <3>1. \A x \in Tasks \ {p} : d.time_slice[x] = s.time_slice[x]
      BY <1>1, <1>3 DEF RunQueues
    <3> QED
      BY Zenon, <1>3, <3>1, NewSlice
  <2>3. d.time_slice[p] >= 1
    BY <1>1, <1>2, <1>3, <1>8 DEF RunQueues
  <2>4. Standing(d, p) /\ (Near(s, p) => Near(d, p))
    BY <1>3, <2>3 DEF Standing, Near, rt_task
  <2> QED
    BY <1>3, <2>1, <2>2, <2>4 DEF Step, SameCpu
<1>9. CASE s.policy[p] = "RR" /\ d.time_slice[p] = 0
  <2>1. rt_tick(s, p) = e
    BY <1>4, <1>9
  <2>2. Sound(r) /\ \A x \in Tasks : array(r, x) = array(s, x)
    BY <1>6 DEF Sound, Ordered, array
  <2>3. Sound(o) /\ Moved(r, o, p, "null")
    BY <2>2, Dequeue DEF Arrays
  <2> HIDE DEF o
  <2>4. array(o, p) = "null"
    BY <2>3 DEF Moved
  <2>5. Sound(e) /\ Moved(o, e, p, "active")
    BY <2>3, <2>4, Enqueue DEF Arrays
  <2> HIDE DEF e
  <2>6. /\ o.curr = r.curr /\ o.need_resched = r.need_resched
        /\ o.prio = r.prio /\ o.static_prio = r.static_prio
        /\ o.policy = r.policy /\ o.time_slice = r.time_slice
        /\ \A x \in Tasks : array(o, x) = IF x = p THEN "null" ELSE array(r, x)
    <3>1. r \in RunQueues
      BY <1>6
    <3> QED
      BY ONLY <2>3, <3>1, MovedFields
  <2>7. /\ e.curr = o.curr /\ e.need_resched = o.need_resched
        /\ e.prio = o.prio /\ e.static_prio = o.static_prio
        /\ e.policy = o.policy /\ e.time_slice = o.time_slice
        /\ \A x \in Tasks : array(e, x) = IF x = p THEN "active" ELSE array(o, x)
    BY <2>3, <2>5, MovedFields DEF Sound
  <2>8. e.time_slice[p] >= 1 /\ \A x \in Tasks \ {p} : e.time_slice[x] = s.time_slice[x]
    BY <1>1, <1>5, <1>6, <2>6, <2>7 DEF RunQueues
  <2>9. Others(s, e, p)
    BY <1>6, <2>2, <2>6, <2>7, <2>8 DEF Others
  <2>10. Standing(e, p) /\ (Near(s, p) => Near(e, p))
    BY <1>6, <2>6, <2>7, <2>8 DEF Standing, Near, rt_task
  <2> QED
    BY <1>6, <2>1, <2>5, <2>6, <2>7, <2>9, <2>10 DEF Step, Quiet
<1> QED
  BY <1>7, <1>8, <1>9

\* e has the fields of r, and the arrays of s but for p, which is in array b.
Placed(s, r, e, p, b) ==
    /\ e.curr = r.curr /\ e.need_resched = r.need_resched
    /\ e.prio = r.prio /\ e.static_prio = r.static_prio
    /\ e.policy = r.policy /\ e.time_slice = r.time_slice
    /\ \A x \in Tasks : array(e, x) = IF x = p THEN b ELSE array(s, x)

\* A task that is taken out of its array, gets what fields it may, and is put
\* into an array.
LEMMA Requeue ==
    ASSUME NEW s, Sound(s), NEW p \in Tasks, array(s, p) \in Arrays,
           NEW d, d = dequeue_task(s, p, array(s, p)),
           NEW r \in RunQueues, r.active = d.active, r.expired = d.expired,
           \A x \in Tasks \ {p} : r.prio[x] = s.prio[x],
           NEW b \in Arrays, NEW e, e = enqueue_task(r, p, b)
    PROVE  Sound(e) /\ Placed(s, r, e, p, b)
<1>1. Sound(d) /\ Moved(s, d, p, "null")
  BY Dequeue
<1>2. d.prio = s.prio /\ \A x \in Tasks : array(d, x) = IF x = p THEN "null" ELSE array(s, x)
  <2>1. s \in RunQueues
    BY DEF Sound
  <2> QED
    BY ONLY <1>1, <2>1, MovedFields
<1>3. Sound(r) /\ \A x \in Tasks : array(r, x) = array(d, x)
  BY <1>1, <1>2, Outside
<1>4. array(r, p) = "null"
  BY <1>2, <1>3
<1>5. Sound(e) /\ Moved(r, e, p, b)
  BY <1>3, <1>4, Enqueue
<1>6. /\ e.curr = r.curr /\ e.need_resched = r.need_resched
      /\ e.prio = r.prio /\ e.static_prio = r.static_prio
      /\ e.policy = r.policy /\ e.time_slice = r.time_slice
      /\ \A x \in Tasks : array(e, x) = IF x = p THEN b ELSE array(r, x)
  <2>1. r \in RunQueues
    OBVIOUS
  <2> QED
    BY ONLY <1>5, <2>1, MovedFields
<1> QED
  BY <1>2, <1>3, <1>5, <1>6 DEF Placed

\* The part of scheduler_tick() that moves a task whose timeslice has run out.
LEMMA ExpireTask ==
    ASSUME NEW s, Sound(s), NEW p \in Tasks, array(s, p) = "active",
           s.policy[p] = "OTHER"
    PROVE  LET t == expire_task(s, p)
           IN  Step(s, t, p) /\ t.need_resched /\ t.curr = s.curr /\ array(t, p) \in Arrays
<1> DEFINE o == dequeue_task(s, p, "active")
           prio == effective_prio(s, p)
           slice == TASK_TIMESLICE(s, p)
           d == [o EXCEPT !.need_resched = TRUE, !.prio[p] = prio, !.time_slice[p] = slice]
           late == [d EXCEPT !.expired_age = IF @ = 0 THEN 1 ELSE @]
           t == expire_task(s, p)
<1>1. s \in RunQueues
  BY DEF Sound
<1>2. /\ t = enqueue_task(late, p, "expired") \/ t = enqueue_task(d, p, "active")
  BY DEF expire_task
<1>3. Sound(o) /\ Moved(s, o, p, "null")
  BY Dequeue DEF Arrays
<1>4. o \in RunQueues
  BY <1>3 DEF Sound
<1>5. /\ o.curr = s.curr /\ o.prio = s.prio /\ o.static_prio = s.static_prio
      /\ o.policy = s.policy /\ o.time_slice = s.time_slice
  BY ONLY <1>1, <1>3, MovedFields
<1>6. o = dequeue_task(s, p, array(s, p)) /\ array(s, p) \in Arrays
  BY DEF Arrays
<1> HIDE DEF o
<1>7. prio \in 100 .. 139 /\ prio \in s.static_prio[p] - 5 .. s.static_prio[p] + 5
  BY <1>1, EffectivePrio DEF MAX_PRIO, MAX_RT_PRIO
<1>8. slice \in 1 .. MAX_TIMESLICE
  BY <1>1, Timeslice
<1> HIDE DEF prio, slice, t
<1>9. prio \in 0 .. MAX_PRIO - 1 /\ slice \in 0 .. MAX_TIMESLICE
  BY <1>7, <1>8, TimeAssumption DEF MAX_PRIO, MAX_RT_PRIO
<1>10. /\ d \in RunQueues /\ d.active = o.active /\ d.expired = o.expired
       /\ d.curr = s.curr /\ d.need_resched /\ d.static_prio = s.static_prio
       /\ d.policy = s.policy /\ d.prio = [s.prio EXCEPT ![p] = prio]
       /\ d.time_slice = [s.time_slice EXCEPT ![p] = slice]
  BY Zenon, <1>4, <1>5, <1>9 DEF RunQueues
<1> HIDE DEF d
<1>11. /\ late \in RunQueues /\ late.active = o.active /\ late.expired = o.expired
       /\ late.curr = s.curr /\ late.need_resched /\ late.static_prio = s.static_prio
       /\ late.policy = s.policy /\ late.prio = [s.prio EXCEPT ![p] = prio]
       /\ late.time_slice = [s.time_slice EXCEPT ![p] = slice]
  BY Zenon, <1>10 DEF RunQueues
<1> HIDE DEF late
<1>12. ASSUME NEW r \in RunQueues, r.active = o.active, r.expired = o.expired,
              r.curr = s.curr, r.need_resched, r.static_prio = s.static_prio,
              r.policy = s.policy, r.prio = [s.prio EXCEPT ![p] = prio],
              r.time_slice = [s.time_slice EXCEPT ![p] = slice],
              NEW b \in Arrays, t = enqueue_task(r, p, b)
       PROVE  Step(s, t, p) /\ t.need_resched /\ t.curr = s.curr /\ array(t, p) \in Arrays
  <2>1. /\ r.prio[p] = prio /\ r.time_slice[p] = slice
        /\ \A x \in Tasks \ {p} : r.prio[x] = s.prio[x] /\ r.time_slice[x] = s.time_slice[x]
    BY <1>1, <1>12 DEF RunQueues
  <2>2. /\ Sound(t)
        /\ t.curr = r.curr /\ t.need_resched = r.need_resched
        /\ t.prio = r.prio /\ t.static_prio = r.static_prio
        /\ t.policy = r.policy /\ t.time_slice = r.time_slice
        /\ \A x \in Tasks : array(t, x) = IF x = p THEN b ELSE array(s, x)
    <3>1. \A x \in Tasks \ {p} : r.prio[x] = s.prio[x]
      BY <2>1
    <3>2. Sound(t) /\ Placed(s, r, t, p, b)
      BY Zenon, <1>6, <1>12, <3>1, Requeue
    <3> QED
      BY <3>2 DEF Placed
  <2>3. Others(s, t, p)
    BY <1>12, <2>1, <2>2 DEF Others
  <2>4. Standing(t, p) /\ Near(t, p)
    BY <1>7, <1>8, <1>12, <2>1, <2>2 DEF Standing, Near, rt_task, MAX_RT_PRIO
  <2> QED
    BY <1>12, <2>2, <2>3, <2>4 DEF Step
<1>13. CASE t = enqueue_task(late, p, "expired")
  <2>1. "expired" \in Arrays
    BY DEF Arrays
  <2> QED
    BY <1>11, <1>12, <1>13, <2>1 DEF t
<1>14. CASE t = enqueue_task(d, p, "active")
  <2>1. "active" \in Arrays
    BY DEF Arrays
  <2> QED
    BY <1>10, <1>12, <1>14, <2>1 DEF t
<1> QED
  BY <1>2, <1>13, <1>14

\* The part of scheduler_tick() for the other tasks.
LEMMA OtherTick ==
    ASSUME NEW s, Sound(s), NEW p \in Tasks, array(s, p) = "active", Standing(s, p),
           s.policy[p] = "OTHER"
    PROVE  LET t == other_tick(s, p)
           IN  Step(s, t, p) /\ Quiet(s, t) /\ t.curr = s.curr /\ array(t, p) \in Arrays
<1> DEFINE avg == IF s.sleep_avg[p] = 0 THEN 0 ELSE s.sleep_avg[p] - 1
           d == [s EXCEPT !.sleep_avg[p] = avg, !.time_slice[p] = @ - 1]
           t == expire_task(d, p)
<1>1. s \in RunQueues
  BY DEF Sound
<1>2. s.time_slice[p] - 1 \in 0 .. MAX_TIMESLICE /\ avg \in 0 .. MAX_SLEEP_AVG
  <2>1. s.time_slice[p] \in 0 .. MAX_TIMESLICE /\ s.time_slice[p] >= 1 /\ MAX_TIMESLICE \in Nat
    BY <1>1, TimeAssumption DEF RunQueues, Standing
  <2>2. s.sleep_avg[p] \in 0 .. MAX_SLEEP_AVG /\ MAX_SLEEP_AVG \in Nat
    BY <1>1, TimeAssumption DEF RunQueues
  <2> QED
    BY <2>1, <2>2
<1>3. other_tick(s, p) = IF d.time_slice[p] = 0 THEN t ELSE d
  BY <1>1 DEF other_tick, RunQueues
<1> HIDE DEF avg
<1>4. /\ d \in RunQueues /\ SameCpu(s, d)
      /\ d.active = s.active /\ d.expired = s.expired /\ d.prio = s.prio
      /\ d.static_prio = s.static_prio /\ d.policy = s.policy
      /\ d.time_slice = [s.time_slice EXCEPT ![p] = @ - 1]
  BY Zenon, <1>1, <1>2 DEF RunQueues, SameCpu
<1> HIDE DEF d
<1>5. \A x \in Tasks \ {p} : d.time_slice[x] = s.time_slice[x]
  BY <1>1, <1>4 DEF RunQueues
<1>6. Sound(d) /\ Others(s, d, p) /\ Quiet(s, d) /\ array(d, p) = array(s, p)
  BY Zenon, <1>4, <1>5, NewSlice
<1>7. Near(s, p) => Near(d, p)
  BY <1>4 DEF Near
<1>8. CASE d.time_slice[p] = 0
  <2>1. Step(d, t, p) /\ t.need_resched /\ t.curr = d.curr /\ array(t, p) \in Arrays
    BY <1>4, <1>6, ExpireTask
  <2>2. other_tick(s, p) = t
    BY <1>3, <1>8
  <2> HIDE DEF t
  <2>3. Others(s, t, p)
    BY <1>6, <2>1 DEF Step, Others
  <2> QED
    BY <1>4, <1>7, <2>1, <2>2, <2>3 DEF Step, Quiet, SameCpu
<1>9. CASE d.time_slice[p] # 0
  <2>1. other_tick(s, p) = d
    BY <1>3, <1>9
  <2>2. d.time_slice[p] >= 1
    BY <1>1, <1>2, <1>4, <1>9 DEF RunQueues
  <2>3. Standing(d, p)
    BY <1>4, <2>2 DEF Standing, rt_task
  <2> QED
    BY <1>4, <1>6, <1>7, <2>1, <2>3 DEF Step, SameCpu, Arrays
<1> QED
  BY <1>8, <1>9

-----------------------------------------------------------------------------
(* schedule()                                                                *)

\* The task that runs is in the active array, and none in it is better.
RunsBest(t) ==
    /\ t.curr # Idle => array(t, t.curr) = "active"
    /\ \A x \in Tasks : array(t, x) = "active" => curr_prio(t) <= t.prio[x]

\* What pick_next_task() leaves alone.
Kept(s, t) ==
    /\ t.prio = s.prio /\ t.static_prio = s.static_prio
    /\ t.policy = s.policy /\ t.time_slice = s.time_slice

\* The head of an ordered array is the best task in it.
LEMMA HeadIsBest ==
    ASSUME NEW t, Sound(t), t.active # <<>>, t.curr = Head(t.active)
    PROVE  t.curr \in Tasks /\ RunsBest(t)
<1> DEFINE q == t.active
<1>1. t \in RunQueues /\ q \in Seq(Tasks) /\ Idle \notin Tasks
  BY Zenon, TimeAssumption DEF Sound, RunQueues
<1>2. t.prio \in [Tasks -> Int]
  BY EitherArray DEF Arrays
<1>3. q # <<>> /\ Len(q) \in Nat /\ Len(q) >= 1 /\ Head(q) = q[1] /\ q[1] \in Tasks
  BY <1>1
<1>4. t.curr \in Tasks /\ curr_prio(t) = t.prio[q[1]] /\ curr_prio(t) \in Int
  BY <1>1, <1>2, <1>3 DEF curr_prio
<1>5. on_list(q, t.curr)
  BY <1>3 DEF on_list
<1>6. array(t, t.curr) = "active"
  BY <1>5 DEF array
<1>7. ASSUME NEW x \in Tasks, array(t, x) = "active" PROVE curr_prio(t) <= t.prio[x]
  <2>1. on_list(q, x)
    BY <1>7, ArrayHolds
  <2>2. PICK i \in 1 .. Len(q) : q[i] = x
    BY <2>1 DEF on_list
  <2>3. Sorted(q, t.prio)
    BY DEF Sound, Ordered
  <2>4. i = 1 \/ 1 < i
    BY <1>3, <2>2
  <2>5. 1 \in 1 .. Len(q)
    BY <1>3
  <2>6. 1 < i => t.prio[q[1]] <= t.prio[q[i]]
    BY <2>2, <2>3, <2>5 DEF Sorted
  <2> QED
    BY <1>4, <2>2, <2>4, <2>6
<1> QED
  BY <1>4, <1>6, <1>7 DEF RunsBest

\* pick_next_task() takes the best task of the array whose turn it is.
LEMMA Pick ==
    ASSUME NEW s, Sound(s), NEW t, t = pick_next_task(s)
    PROVE  /\ Sound(t) /\ Kept(s, t) /\ RunsBest(t)
           /\ t.curr # Idle => t.curr \in Tasks
           /\ \A x \in Tasks :
                 \/ array(s, x) = "active" /\ Head(s.active) # x
                 \/ array(s, x) = "expired" /\ Head(s.expired) # x
                 => t.curr # x
<1>1. /\ s \in RunQueues /\ s.active \in Seq(Tasks) /\ s.expired \in Seq(Tasks)
      /\ Idle \notin Tasks
  BY TimeAssumption DEF Sound, RunQueues
<1>2. /\ Len(s.active) \in Nat /\ Len(s.expired) \in Nat
      /\ Len(s.active) = 0 <=> s.active = <<>>
      /\ Len(s.expired) = 0 <=> s.expired = <<>>
  BY <1>1, LenProperties, EmptySeq
<1>3. nr_running(s) = 0 <=> s.active = <<>> /\ s.expired = <<>>
  <2>1. nr_running(s) = Len(s.active) + Len(s.expired)
    BY DEF nr_running
  <2>2. \A m, n \in Nat : m + n = 0 <=> m = 0 /\ n = 0
    OBVIOUS
  <2> QED
    BY ONLY <1>2, <2>1, <2>2, Zenon
<1>4. CASE nr_running(s) = 0
  <2> DEFINE w == [s EXCEPT !.expired_age = 0]
  <2>1. t = [w EXCEPT !.need_resched = FALSE, !.curr = Idle]
    BY <1>4 DEF pick_next_task, switch_tasks
  <2>2. /\ w \in RunQueues /\ w.active = s.active /\ w.expired = s.expired /\ Kept(s, w)
    BY Zenon, <1>1 DEF RunQueues, Kept
  <2> HIDE DEF w
  <2>3. /\ t \in RunQueues /\ t.active = s.active /\ t.expired = s.expired
        /\ t.curr = Idle /\ Kept(s, t)
    BY Zenon, <2>1, <2>2 DEF RunQueues, Kept
  <2>4. Sound(t) /\ \A x \in Tasks : array(t, x) = array(s, x)
    BY <2>3 DEF Sound, Ordered, Kept, array
  <2>5. \A x \in Tasks : array(t, x) # "active"
    BY <1>3, <1>4, <2>3 DEF array, on_list
  <2> QED
    BY <1>1, <2>3, <2>4, <2>5 DEF RunsBest
<1>5. CASE nr_running(s) # 0 /\ s.active = <<>>
  <2> DEFINE h == Head(s.expired)
  <2>1. s.expired # <<>> /\ h \in Tasks
    BY <1>1, <1>3, <1>5, HeadTailProperties
  <2> DEFINE w == [s EXCEPT !.active = s.expired, !.expired = <<>>, !.expired_age = 0]
  <2>2. t = [w EXCEPT !.need_resched = FALSE, !.curr = h]
    BY <1>5 DEF pick_next_task, switch_tasks
  <2>3. <<>> \in Seq(Tasks)
    OBVIOUS
  <2> HIDE DEF h
  <2>4. /\ w \in RunQueues /\ w.active = s.expired /\ w.expired = <<>> /\ Kept(s, w)
    BY Zenon, <1>1, <2>3 DEF RunQueues, Kept
  <2> HIDE DEF w
  <2>5. /\ t \in RunQueues /\ t.active = s.expired /\ t.expired = <<>>
        /\ t.curr = h /\ Kept(s, t)
    BY Zenon, <2>1, <2>2, <2>4 DEF RunQueues, Kept
  <2>6. Sorted(<<>>, t.prio) /\ Distinct(<<>>) /\ \A x \in Tasks : ~on_list(<<>>, x)
    BY DEF Sorted, Distinct, on_list
  <2>7. Sound(t)
    BY <2>5, <2>6 DEF Sound, Ordered, Kept
  <2>8. t.curr \in Tasks /\ RunsBest(t)
    BY <2>1, <2>5, <2>7, HeadIsBest DEF h
  <2>9. \A x \in Tasks : array(s, x) # "active"
    BY <1>5 DEF array, on_list
  <2> QED
    BY <2>5, <2>7, <2>8, <2>9 DEF h
<1>6. CASE nr_running(s) # 0 /\ s.active # <<>>
  <2> DEFINE h == Head(s.active)
  <2>1. h \in Tasks
    BY <1>1, <1>6, HeadTailProperties
  <2>2. t = [s EXCEPT !.need_resched = FALSE, !.curr = h]
    BY <1>6 DEF pick_next_task, switch_tasks
  <2> HIDE DEF h
  <2>3. /\ t \in RunQueues /\ t.active = s.active /\ t.expired = s.expired
        /\ t.curr = h /\ Kept(s, t)
    BY Zenon, <1>1, <2>1, <2>2 DEF RunQueues, Kept
  <2>4. Sound(t) /\ \A x \in Tasks : array(t, x) = array(s, x)
    BY <2>3 DEF Sound, Ordered, Kept, array
  <2>5. t.curr \in Tasks /\ RunsBest(t)
    BY <1>6, <2>3, <2>4, HeadIsBest DEF h
  <2>6. \A x \in Tasks : array(s, x) = "expired" => t.curr # x
    BY <2>4, <2>5, <1>1 DEF RunsBest
  <2> QED
    BY <2>3, <2>4, <2>5, <2>6 DEF h
<1> QED
  BY <1>4, <1>5, <1>6

\* stamp() changes an age.
LEMMA Stamp ==
    ASSUME NEW s, Sound(s)
    PROVE  /\ Sound(stamp(s)) /\ Same(s, stamp(s))
           /\ \A x \in Tasks : array(stamp(s), x) = array(s, x)
<1> DEFINE t == stamp(s)
<1>1. t \in RunQueues /\ Same(s, t)
  BY Zenon DEF Sound, RunQueues, stamp, Same, SameCpu
<1> QED
  BY <1>1 DEF Sound, Ordered, Same, array

-----------------------------------------------------------------------------
(* sched_yield()                                                             *)

\* list_add() behind the first task of list i.
LEMMA AddSecond ==
    ASSUME NEW s, Sound(s), NEW p \in Tasks, NEW a \in Arrays, array(s, p) = "null",
           NEW i \in 0 .. MAX_PRIO - 1, NEW t, t = add_second(s, p, a, i)
    PROVE  /\ Sound(t)
           /\ Placed(s, [s EXCEPT !.prio[p] = i], t, p, a)
           /\ ~list_empty(s, a, i) \/ first(s, a, i) > 1 => Head(t[a]) # p
<1> DEFINE r == [s EXCEPT !.prio[p] = i]
           f == first(s, a, i)
           b == behind(s, a, i)
           n == IF f = b THEN f ELSE f + 1
           w == [r EXCEPT ![a] = list_add(r[a], n, p)]
<1>1. s \in RunQueues /\ a \in DOMAIN s /\ a # "prio"
  BY Zenon DEF Sound, RunQueues, Arrays
<1>2. /\ s[a] \in Seq(Tasks) /\ Sorted(s[a], s.prio) /\ s.prio \in [Tasks -> Int]
      /\ \A x \in Tasks : on_list(s[a], x) <=> array(s, x) = a
  BY EitherArray
<1>3. i \in Int
  BY DEF MAX_PRIO, MAX_RT_PRIO
<1>4. /\ f \in 1 .. Len(s[a]) + 1
      /\ \A j \in 1 .. Len(s[a]) : j < f <=> s.prio[s[a][j]] < i
      /\ b \in 1 .. Len(s[a]) + 1
      /\ \A j \in 1 .. Len(s[a]) : j < b <=> s.prio[s[a][j]] <= i
  BY Zenon, <1>2, <1>3, Places
<1>5. Len(s[a]) \in Nat /\ \A j \in 1 .. Len(s[a]) : s[a][j] \in Tasks /\ s.prio[s[a][j]] \in Int
  BY <1>2, ElementOfSeq, LenProperties
<1>6. \A j \in 1 .. Len(s[a]) : s[a][j] # p
  BY <1>2 DEF on_list, Arrays
<1>7. t = w
  <2>1. t = [s EXCEPT !.prio[p] = i, ![a] = list_add(s[a], n, p)]
    BY <1>1 DEF add_second, list_empty
  <2>2. r[a] = s[a]
    BY <1>1
  <2> HIDE DEF n
  <2> QED
    BY Zenon, <1>1, <2>1, <2>2
<1>8. list_empty(s, a, i) <=> f = b
  BY DEF list_empty
<1> HIDE DEF f, b
<1>9. f <= b
  <2>1. \A j \in 1 .. Len(s[a]) : j < f => j < b
    BY <1>3, <1>4, <1>5
  <2>2. f # 1 => f - 1 \in 1 .. Len(s[a]) /\ f - 1 < f
    BY <1>4, <1>5
  <2>3. f # 1 => f - 1 < b
    BY <2>1, <2>2
  <2> QED
    BY <1>4, <1>5, <2>3
<1>10. n \in 1 .. Len(s[a]) + 1 /\ (f # b \/ f > 1 => n > 1)
  BY <1>4, <1>5, <1>9
<1>11. \A j \in 1 .. Len(s[a]) : /\ j < n => s.prio[s[a][j]] <= i
                                 /\ j >= n => s.prio[s[a][j]] >= i
  <2> SUFFICES ASSUME NEW j \in 1 .. Len(s[a])
               PROVE  /\ j < n => s.prio[s[a][j]] <= i
                      /\ j >= n => s.prio[s[a][j]] >= i
    OBVIOUS
  <2>1. j < n => j < f \/ j < b
    BY <1>4, <1>5, <1>9
  <2>2. j >= n => ~(j < f)
    BY <1>4, <1>5, <1>9
  <2>3. (j < f <=> s.prio[s[a][j]] < i) /\ (j < b <=> s.prio[s[a][j]] <= i)
    BY <1>4
  <2>4. s.prio[s[a][j]] \in Int
    BY <1>5
  <2> HIDE DEF n
  <2> QED
    BY <1>3, <2>1, <2>2, <2>3, <2>4
<1> HIDE DEF n
<1>12. /\ r \in RunQueues /\ r.active = s.active /\ r.expired = s.expired
       /\ r.prio = [s.prio EXCEPT ![p] = i] /\ r[a] = s[a]
  BY Zenon, <1>1 DEF RunQueues
<1> HIDE DEF r
<1>13. r.prio[p] = i /\ \A x \in Tasks \ {p} : r.prio[x] = s.prio[x]
  BY <1>2, <1>12
<1>14. Sound(r) /\ \A x \in Tasks : array(r, x) = array(s, x)
  BY Zenon, <1>12, <1>13, Outside
<1>15. Fits(r[a], r.prio, n, p)
  BY <1>5, <1>6, <1>11, <1>12, <1>13 DEF Fits
<1>16. /\ Sound(w) /\ Moved(r, w, p, a)
       /\ n > 1 => Head(w[a]) # p
  <2>1. n \in 1 .. Len(r[a]) + 1 /\ array(r, p) = "null"
    BY <1>10, <1>12, <1>14
  <2> QED
    BY Zenon, <1>14, <1>15, <2>1, PutAt
<1> HIDE DEF w
<1>17. /\ w.curr = r.curr /\ w.need_resched = r.need_resched
       /\ w.prio = r.prio /\ w.static_prio = r.static_prio
       /\ w.policy = r.policy /\ w.time_slice = r.time_slice
       /\ \A x \in Tasks : array(w, x) = IF x = p THEN a ELSE array(r, x)
  <2>1. r \in RunQueues
    BY <1>12
  <2> QED
    BY ONLY <1>16, <2>1, MovedFields
<1>18. Placed(s, r, w, p, a)
  BY <1>14, <1>17 DEF Placed
<1> QED
  BY <1>7, <1>8, <1>10, <1>16, <1>18 DEF r, f

\* The array of the caller holds another task that it gives way to.
Rival(s, p) ==
    \E x \in Tasks \ {p} :
        array(s, x) = array(s, p) /\ (rt_task(s, p) => s.prio[x] <= s.prio[p])

\* Where sched_yield() puts a task: in the array it was in, not at the head of
\* it when there is a rival.
LEMMA Yield ==
    ASSUME NEW s, Sound(s), s.curr \in Tasks, NEW a \in Arrays, array(s, s.curr) = a,
           Standing(s, s.curr)
    PROVE  LET t == yield_requeue(s)
           IN  /\ Sound(t) /\ Others(s, t, s.curr) /\ Standing(t, s.curr)
               /\ t.curr = s.curr /\ array(t, s.curr) = a
               /\ Rival(s, s.curr) => Head(t[a]) # s.curr
<1> DEFINE p == s.curr
           d == dequeue_task(s, p, a)
           i == IF d[a] = <<>> THEN MAX_PRIO ELSE d.prio[Head(d[a])]
           k == IF ~list_empty(d, a, s.prio[p]) \/ i = MAX_PRIO \/ i <= s.prio[p] THEN s.prio[p]
                ELSE i
           t == yield_requeue(s)
           r == [d EXCEPT !.prio[p] = k]
<1>1. s \in RunQueues /\ p \in Tasks
  BY DEF Sound
<1>2. Sound(d) /\ Moved(s, d, p, "null")
  BY Dequeue
<1>3. t = IF rt_task(s, p) THEN enqueue_task(d, p, a) ELSE add_second(d, p, a, k)
  BY DEF yield_requeue
<1> HIDE DEF d, t
<1>4. d \in RunQueues
  BY <1>2 DEF Sound
<1>5. /\ d.curr = s.curr /\ d.need_resched = s.need_resched
      /\ d.prio = s.prio /\ d.static_prio = s.static_prio
      /\ d.policy = s.policy /\ d.time_slice = s.time_slice
      /\ \A x \in Tasks : array(d, x) = IF x = p THEN "null" ELSE array(s, x)
  BY ONLY <1>1, <1>2, MovedFields
<1>6. /\ d[a] \in Seq(Tasks) /\ Sorted(d[a], d.prio) /\ d.prio \in [Tasks -> Int]
      /\ \A x \in Tasks : on_list(d[a], x) <=> array(d, x) = a
  BY <1>2, EitherArray
<1>7. Len(d[a]) \in Nat /\ \A j \in 1 .. Len(d[a]) : d[a][j] \in Tasks
  BY <1>6, ElementOfSeq, LenProperties
<1>8. array(d, p) = "null" /\ s.prio[p] \in 0 .. MAX_PRIO - 1
  BY <1>1, <1>5 DEF RunQueues
<1>9. \A x \in Tasks \ {p} : array(s, x) = a => on_list(d[a], x)
  BY <1>5, <1>6
<1>10. Rival(s, p) => /\ d[a] # <<>> /\ Len(d[a]) >= 1 /\ Head(d[a]) = d[a][1]
                      /\ d[a][1] \in Tasks
                      /\ rt_task(s, p) => d.prio[d[a][1]] <= d.prio[p]
  <2> SUFFICES ASSUME Rival(s, p)
               PROVE  /\ d[a] # <<>> /\ Len(d[a]) >= 1 /\ Head(d[a]) = d[a][1]
                      /\ d[a][1] \in Tasks
                      /\ rt_task(s, p) => d.prio[d[a][1]] <= d.prio[p]
    OBVIOUS
  <2>1. PICK x \in Tasks \ {p} :
            array(s, x) = array(s, p) /\ (rt_task(s, p) => s.prio[x] <= s.prio[p])
    BY DEF Rival
  <2>2. PICK j \in 1 .. Len(d[a]) : d[a][j] = x
    BY <1>9, <2>1 DEF on_list
  <2>3. Len(d[a]) >= 1 /\ 1 \in 1 .. Len(d[a]) /\ (j = 1 \/ 1 < j)
    BY <1>7, <2>2
  <2>4. d[a] # <<>> /\ Head(d[a]) = d[a][1] /\ d[a][1] \in Tasks
    BY <1>6, <1>7, <2>3
  <2>5. d.prio[d[a][1]] <= d.prio[x]
    <3>1. 1 < j => d.prio[d[a][1]] <= d.prio[d[a][j]]
      BY <1>6, <2>2, <2>3 DEF Sorted
    <3>2. d.prio[x] \in Int
      BY <1>6
    <3> QED
      BY <2>2, <2>3, <3>1, <3>2
  <2>6. rt_task(s, p) => d.prio[d[a][1]] <= d.prio[p]
    BY <1>1, <1>5, <1>6, <2>1, <2>4, <2>5
  <2> QED
    BY <2>3, <2>4, <2>6
<1>11. CASE rt_task(s, p)
  <2>1. /\ Sound(t) /\ Moved(d, t, p, a)
        /\ behind(d, a, d.prio[p]) > 1 => Head(t[a]) # p
    BY <1>1, <1>2, <1>3, <1>8, <1>11, Enqueue
  <2>2. /\ t.curr = d.curr /\ t.need_resched = d.need_resched
        /\ t.prio = d.prio /\ t.static_prio = d.static_prio
        /\ t.policy = d.policy /\ t.time_slice = d.time_slice
        /\ \A x \in Tasks : array(t, x) = IF x = p THEN a ELSE array(d, x)
    BY ONLY <1>4, <2>1, MovedFields
  <2>3. d.prio[p] \in Int
    BY <1>1, <1>6
  <2>4. /\ behind(d, a, d.prio[p]) \in 1 .. Len(d[a]) + 1
        /\ \A j \in 1 .. Len(d[a]) : j < behind(d, a, d.prio[p]) <=> d.prio[d[a][j]] <= d.prio[p]
    BY Zenon, <1>6, <2>3, Places
  <2>5. Rival(s, p) => behind(d, a, d.prio[p]) > 1
    BY <1>7, <1>10, <1>11, <2>4
  <2>6. Others(s, t, p) /\ Standing(t, p) /\ t.curr = p /\ array(t, p) = a
    BY <1>1, <1>5, <2>2 DEF Others, Standing, rt_task
  <2> QED
    BY <2>1, <2>5, <2>6 DEF t
<1>12. CASE ~rt_task(s, p)
  <2>1. d[a] # <<>> => /\ Head(d[a]) = d[a][1] /\ 1 \in 1 .. Len(d[a]) /\ d[a][1] \in Tasks
                       /\ i = d.prio[d[a][1]] /\ i \in 0 .. MAX_PRIO - 1
    <3>1. d[a] # <<>> => Head(d[a]) = d[a][1] /\ 1 \in 1 .. Len(d[a]) /\ d[a][1] \in Tasks
      BY <1>6, <1>7
    <3> QED
      BY Zenon, <1>4, <3>1 DEF RunQueues
  <2>2. MAX_PRIO = 140
    BY DEF MAX_PRIO, MAX_RT_PRIO
  <2>3. d[a] = <<>> => i = MAX_PRIO
    OBVIOUS
  <2> HIDE DEF i
  <2>4. i = 140 \/ i \in 0 .. 139
    <3>1. i = MAX_PRIO \/ i \in 0 .. MAX_PRIO - 1
      BY <2>1, <2>3, Zenon
    <3>2. MAX_PRIO - 1 = 139
      BY <2>2
    <3> QED
      BY ONLY <2>2, <3>1, <3>2, Zenon
  <2>5. k \in 0 .. MAX_PRIO - 1 /\ k >= s.prio[p]
    <3>1. s.prio[p] \in 0 .. 139
      <4>1. s.prio[p] \in 0 .. MAX_PRIO - 1
        BY Zenon, <1>8
      <4>2. MAX_PRIO - 1 = 139
        BY ONLY <2>2
      <4> QED
        BY ONLY Zenon, <4>1, <4>2
    <3>2. k = s.prio[p] \/ (k = i /\ i # 140 /\ ~(i <= s.prio[p]))
      BY DEF MAX_PRIO, MAX_RT_PRIO
    <3> HIDE DEF k
    <3>3. CASE k = s.prio[p]
      <4>1. \A x \in 0 .. 139 : x \in 0 .. MAX_PRIO - 1 /\ x >= x
        BY ONLY <2>2
      <4> QED
        BY ONLY Zenon, <3>1, <3>3, <4>1
    <3>4. CASE k = i /\ i # 140 /\ ~(i <= s.prio[p])
      <4>1. i \in 0 .. 139
        BY <2>4, <3>4
      <4> QED
        BY ONLY <2>2, <3>1, <3>4, <4>1
    <3> QED
      BY <3>2, <3>3, <3>4
  <2>6. Rival(s, p) => ~list_empty(d, a, k) \/ first(d, a, k) > 1
    <3> SUFFICES ASSUME Rival(s, p), list_empty(d, a, k)
                 PROVE  first(d, a, k) > 1
      OBVIOUS
    <3>1. d[a] # <<>> /\ 1 \in 1 .. Len(d[a]) /\ i = d.prio[d[a][1]] /\ i \in 0 .. MAX_PRIO - 1
      BY <1>10, <2>1
    <3>2. k \in Int
      <4> HIDE DEF k
      <4> QED
        BY <2>5 DEF MAX_PRIO, MAX_RT_PRIO
    <3>3. /\ first(d, a, k) \in 1 .. Len(d[a]) + 1
          /\ \A j \in 1 .. Len(d[a]) : j < first(d, a, k) <=> d.prio[d[a][j]] < k
          /\ behind(d, a, k) \in 1 .. Len(d[a]) + 1
          /\ \A j \in 1 .. Len(d[a]) : j < behind(d, a, k) <=> d.prio[d[a][j]] <= k
      BY Zenon, <1>6, <3>2, Places
    <3>4. i <= k
      <4>1. i = MAX_PRIO => FALSE
        BY <3>1 DEF MAX_PRIO, MAX_RT_PRIO
      <4>2. CASE i <= s.prio[p]
        BY Zenon, <3>1, <1>8, <2>5, <4>2 DEF MAX_PRIO, MAX_RT_PRIO
      <4>3. CASE ~(i <= s.prio[p])
        <5>1. ~list_empty(d, a, s.prio[p]) => k = s.prio[p]
          OBVIOUS
        <5>2. list_empty(d, a, s.prio[p])
          BY <5>1
        <5>3. k = i
          BY <4>1, <4>3, <5>2
        <5>4. i \in Int
          BY <2>4
        <5> HIDE DEF k
        <5> QED
          BY <5>3, <5>4
      <4> QED
        BY <4>2, <4>3
    <3> HIDE DEF i, k
    <3>5. 1 < behind(d, a, k)
      BY <3>1, <3>3, <3>4
    <3> QED
      BY <3>5 DEF list_empty
  <2>7. t = add_second(d, p, a, k)
    BY <1>3, <1>12
  <2> HIDE DEF i, k
  <2>8. /\ Sound(t) /\ Placed(d, r, t, p, a)
        /\ ~list_empty(d, a, k) \/ first(d, a, k) > 1 => Head(t[a]) # p
    BY <1>1, <1>2, <1>8, <2>5, <2>7, AddSecond
  <2>9. /\ r.curr = d.curr /\ r.prio = [d.prio EXCEPT ![p] = k]
        /\ r.static_prio = d.static_prio /\ r.policy = d.policy
        /\ r.time_slice = d.time_slice
    BY <1>4 DEF RunQueues
  <2> HIDE DEF r
  <2>10. r.prio[p] = k /\ \A x \in Tasks \ {p} : r.prio[x] = d.prio[x]
    BY <1>1, <1>6, <2>9
  <2>11. Others(s, t, p) /\ t.curr = p /\ array(t, p) = a
    BY <1>1, <1>5, <2>8, <2>9, <2>10 DEF Others, Placed
  <2>12. Standing(t, p)
    <3>1. t.prio[p] = k /\ t.policy = s.policy /\ t.time_slice = s.time_slice
      BY <1>5, <2>8, <2>9, <2>10 DEF Placed
    <3>2. ~(k < MAX_RT_PRIO)
      BY <1>8, <1>12, <2>5 DEF rt_task, MAX_RT_PRIO, MAX_PRIO
    <3> QED
      BY <1>12, <3>1, <3>2 DEF Standing, rt_task
  <2> QED
    BY <2>6, <2>8, <2>11, <2>12 DEF t
<1> QED
  BY <1>11, <1>12

-----------------------------------------------------------------------------
(* The invariant                                                             *)

\* The arrays are in order, every task is in good standing and the running
\* task is queued.
Balanced(s) ==
    /\ Sound(s)
    /\ \A x \in Tasks : Standing(s, x)
    /\ s.curr # Idle => array(s, s.curr) \in Arrays

AllNear(s) == \A x \in Tasks : Near(s, x)

\* schedule() is about to be called, or the best task runs.
Served(s) ==
    \/ s.need_resched
    \/ \A x \in Tasks : array(s, x) = "active" => curr_prio(s) <= s.prio[x]

\* The inductive invariant of the time sharing.
TimeInvariant ==
    /\ Balanced(rq) /\ world \in Worlds
    /\ ~Makes("yield") => AllNear(rq)
    /\ ~Makes("nice_another") /\ ~Makes("setscheduler") => Served(rq)

\* What every step does.
Keeps(s, t) == Balanced(t) /\ (AllNear(s) => AllNear(t))

\* A function that moves at most one task keeps the arrays in order.
LEMMA StepKeeps ==
    ASSUME NEW s, Balanced(s), NEW p \in Tasks, NEW t, Step(s, t, p), t.curr = s.curr,
           s.curr = p => array(t, p) \in Arrays
    PROVE  Keeps(s, t)
<1>1. s.curr \in Tasks \cup {Idle}
  BY DEF Balanced, Sound, RunQueues
<1>2. \A x \in Tasks : Standing(t, x)
  BY DEF Balanced, Step, Others, Standing, rt_task
<1>3. AllNear(s) => AllNear(t)
  BY DEF AllNear, Step, Others, Near
<1>4. t.curr # Idle => array(t, t.curr) \in Arrays
  BY <1>1 DEF Balanced, Step, Others
<1> QED
  BY <1>2, <1>3, <1>4 DEF Keeps, Balanced, Step

\* States with the same tasks and arrays.
LEMMA SameKeeps ==
    ASSUME NEW s, Balanced(s), NEW t, Sound(t), Same(s, t)
    PROVE  /\ Keeps(s, t) /\ (Served(s) => Served(t))
           /\ \A x \in Tasks \cup {Idle} : array(t, x) = array(s, x)
<1>1. \A x \in Tasks \cup {Idle} : array(t, x) = array(s, x)
  BY DEF Same, array
<1>2. s.curr \in Tasks \cup {Idle}
  BY DEF Balanced, Sound, RunQueues
<1>3. Balanced(t)
  BY <1>1, <1>2 DEF Balanced, Same, SameCpu, Standing, rt_task
<1>4. AllNear(s) => AllNear(t)
  BY DEF AllNear, Near, Same
<1>5. Served(s) => Served(t)
  BY <1>1 DEF Served, Same, SameCpu, curr_prio
<1> QED
  BY <1>1, <1>3, <1>4, <1>5 DEF Keeps

\* scheduler_tick(), a jiffy after the last.
LEMMA TickKeeps ==
    ASSUME NEW s, Balanced(s), NEW t, t = scheduler_tick(next_jiffy(s))
    PROVE  Keeps(s, t) /\ (Served(s) => Served(t))
<1> DEFINE r == next_jiffy(s)
           p == r.curr
<1>1. Sound(r) /\ Same(s, r)
  BY NextJiffy DEF Balanced
<1>2. t = IF p = Idle THEN r
          ELSE IF array(r, p) # "active" THEN set_need_resched(r)
          ELSE IF rt_task(r, p) THEN rt_tick(r, p)
          ELSE other_tick(r, p)
  BY DEF scheduler_tick
<1> HIDE DEF r
<1>3. /\ Keeps(s, r) /\ (Served(s) => Served(r))
      /\ \A x \in Tasks \cup {Idle} : array(r, x) = array(s, x)
  BY <1>1, SameKeeps
<1>4. Balanced(r) /\ (AllNear(s) => AllNear(r))
  BY <1>3 DEF Keeps
<1>5. SUFFICES Keeps(r, t) /\ (Served(r) => Served(t))
  BY <1>3, <1>4 DEF Keeps
<1>6. r \in RunQueues /\ (p = Idle \/ p \in Tasks)
  BY <1>1 DEF Sound, RunQueues
<1>7. ASSUME p \in Tasks, Step(r, t, p), Quiet(r, t), t.curr = r.curr, array(t, p) \in Arrays
      PROVE  Keeps(r, t) /\ (Served(r) => Served(t))
  <2>1. Keeps(r, t)
    BY <1>4, <1>7, StepKeeps
  <2>2. Served(r) => Served(t)
    BY <1>7 DEF Quiet, Served, SameCpu, curr_prio
  <2> QED
    BY <2>1, <2>2
<1>8. CASE p = Idle
  BY <1>2, <1>4, <1>8 DEF Keeps
<1>9. CASE p \in Tasks /\ p # Idle /\ array(r, p) # "active"
  <2>1. t = [r EXCEPT !.need_resched = TRUE]
    BY <1>2, <1>9 DEF set_need_resched
  <2>2. /\ t \in RunQueues /\ t.need_resched /\ t.curr = r.curr
        /\ t.active = r.active /\ t.expired = r.expired /\ Kept(r, t)
    BY Zenon, <1>6, <2>1 DEF RunQueues, Kept
  <2>3. Sound(t) /\ \A x \in Tasks : array(t, x) = array(r, x)
    BY <1>1, <2>2 DEF Sound, Ordered, Kept, array
  <2>4. Balanced(t)
    BY <1>4, <1>9, <2>2, <2>3 DEF Balanced, Standing, Kept, rt_task
  <2>5. AllNear(r) => AllNear(t)
    BY <2>2 DEF AllNear, Near, Kept
  <2> QED
    BY <2>2, <2>4, <2>5 DEF Keeps, Served
<1>10. CASE p \in Tasks /\ p # Idle /\ array(r, p) = "active" /\ rt_task(r, p)
  <2>1. t = rt_tick(r, p) /\ Standing(r, p)
    BY <1>2, <1>4, <1>10 DEF Balanced
  <2>2. Step(r, t, p) /\ Quiet(r, t) /\ t.curr = r.curr /\ array(t, p) = "active"
    BY <1>1, <1>10, <2>1, RtTick
  <2> QED
    BY <1>7, <1>10, <2>2 DEF Arrays
<1>11. CASE p \in Tasks /\ p # Idle /\ array(r, p) = "active" /\ ~rt_task(r, p)
  <2>1. t = other_tick(r, p) /\ Standing(r, p) /\ r.policy[p] = "OTHER"
    BY <1>2, <1>4, <1>11 DEF Balanced, Standing
  <2>2. Step(r, t, p) /\ Quiet(r, t) /\ t.curr = r.curr /\ array(t, p) \in Arrays
    BY <1>1, <1>11, <2>1, OtherTick
  <2> QED
    BY <1>7, <1>11, <2>2
<1> QED
  BY <1>6, <1>8, <1>9, <1>10, <1>11

\* pick_next_task() from any state whose tasks are in good standing.
LEMMA PickKeeps ==
    ASSUME NEW s, Sound(s), \A x \in Tasks : Standing(s, x), NEW t, t = pick_next_task(s)
    PROVE  Keeps(s, t) /\ Served(t)
<1>1. Sound(t) /\ Kept(s, t) /\ RunsBest(t)
  BY Pick
<1>2. Balanced(t)
  BY <1>1 DEF Balanced, Kept, RunsBest, Standing, rt_task, Arrays
<1>3. AllNear(s) => AllNear(t)
  BY <1>1 DEF AllNear, Near, Kept
<1> QED
  BY <1>1, <1>2, <1>3 DEF Keeps, RunsBest, Served

\* schedule() with prev->state RUNNING.
LEMMA ScheduleKeeps ==
    ASSUME NEW s, Sound(s), \A x \in Tasks : Standing(s, x), NEW t, t = schedule(s)
    PROVE  Keeps(s, t) /\ Served(t)
<1> DEFINE r == stamp(s)
<1>1. Sound(r) /\ Same(s, r) /\ t = pick_next_task(r)
  BY Stamp DEF schedule
<1> HIDE DEF r
<1>2. \A x \in Tasks : Standing(r, x)
  BY <1>1 DEF Same, Standing, rt_task
<1>3. AllNear(s) => AllNear(r)
  BY <1>1 DEF AllNear, Near, Same
<1>4. Keeps(r, t) /\ Served(t)
  BY <1>1, <1>2, PickKeeps
<1> QED
  BY <1>3, <1>4 DEF Keeps

-----------------------------------------------------------------------------
(* One lemma per action                                                      *)

\* The running task leaves the queue.
LEMMA SleepKeeps ==
    ASSUME TimeInvariant, Sleep
    PROVE  Keeps(rq, rq') /\ Served(rq')
<1> DEFINE p == rq.curr
           a == array(rq, p)
           r == stamp(rq)
           d == dequeue_task(r, p, a)
<1>1. Balanced(rq) /\ Sound(rq)
  BY DEF TimeInvariant, Balanced
<1>2. p \in Tasks /\ a \in Arrays
  BY <1>1 DEF Sleep, Running, Balanced, Sound, RunQueues
<1>3. rq' = pick_next_task(d)
  BY DEF Sleep, Become
<1>4. Sound(r) /\ Same(rq, r) /\ \A x \in Tasks : array(r, x) = array(rq, x)
  BY <1>1, Stamp
<1> HIDE DEF r
<1>5. Sound(d) /\ Moved(r, d, p, "null")
  BY <1>2, <1>4, Dequeue
<1> HIDE DEF d
<1>6. Kept(r, d)
  <2>1. r \in RunQueues
    BY <1>4 DEF Sound
  <2>2. d.prio = r.prio /\ d.static_prio = r.static_prio
        /\ d.policy = r.policy /\ d.time_slice = r.time_slice
    BY ONLY <1>5, <2>1, MovedFields
  <2> QED
    BY <2>2 DEF Kept
<1>7. \A x \in Tasks : Standing(d, x)
  BY <1>1, <1>4, <1>6 DEF Balanced, Same, Kept, Standing, rt_task
<1>8. AllNear(rq) => AllNear(d)
  BY <1>4, <1>6 DEF AllNear, Near, Same, Kept
<1>9. Keeps(d, rq') /\ Served(rq')
  BY <1>3, <1>5, <1>7, PickKeeps
<1> QED
  BY <1>8, <1>9 DEF Keeps

\* A wakeup tells the running task of a better one.
LEMMA WakeUpKeeps ==
    ASSUME TimeInvariant, NEW p \in Tasks, try_to_wake_up(p)
    PROVE  Keeps(rq, rq') /\ (Served(rq) => Served(rq'))
<1> DEFINE a == activate_task(rq, p)
           b == [a EXCEPT !.need_resched = TRUE]
<1>1. Balanced(rq) /\ Sound(rq) /\ Standing(rq, p) /\ array(rq, p) = "null" /\ rq \in RunQueues
  BY DEF TimeInvariant, Balanced, try_to_wake_up, Sound
<1>2. Step(rq, a, p) /\ SameCpu(rq, a) /\ array(a, p) = "active"
  BY <1>1, Activate
<1>3. rq' = IF a.prio[p] < curr_prio(a) THEN b ELSE a
  BY DEF try_to_wake_up, Become, set_need_resched
<1> HIDE DEF a
<1>4. rq.curr # p /\ rq.curr \in Tasks \cup {Idle}
  BY <1>1, TimeAssumption DEF Balanced, Arrays, RunQueues
<1>5. Keeps(rq, a)
  BY <1>1, <1>2, <1>4, StepKeeps DEF SameCpu
<1>6. a \in RunQueues
  BY <1>2 DEF Step, Sound
<1>7. /\ b \in RunQueues /\ b.need_resched /\ b.curr = a.curr
      /\ b.active = a.active /\ b.expired = a.expired /\ Kept(a, b)
  BY Zenon, <1>6 DEF RunQueues, Kept
<1> HIDE DEF b
<1>8. CASE a.prio[p] < curr_prio(a)
  <2>1. Sound(b) /\ \A x \in Tasks \cup {Idle} : array(b, x) = array(a, x)
    BY <1>5, <1>7 DEF Keeps, Balanced, Sound, Ordered, Kept, array
  <2>2. Balanced(b)
    BY <1>2, <1>4, <1>5, <1>7, <2>1 DEF Keeps, Balanced, Kept, Standing, rt_task, SameCpu
  <2>3. AllNear(a) => AllNear(b)
    BY <1>7 DEF AllNear, Near, Kept
  <2> QED
    BY <1>3, <1>5, <1>7, <1>8, <2>2, <2>3 DEF Keeps, Served
<1>9. CASE ~(a.prio[p] < curr_prio(a))
  <2>1. a.prio \in [Tasks -> Int]
    BY <1>2, EitherArray DEF Step, Arrays
  <2>2. curr_prio(a) \in Int /\ a.prio[p] \in Int
    BY <1>2, <1>4, <2>1 DEF curr_prio, SameCpu, MAX_PRIO, MAX_RT_PRIO
  <2>3. curr_prio(a) <= a.prio[p]
    BY <1>9, <2>2
  <2>4. curr_prio(a) = curr_prio(rq)
    BY <1>2, <1>4 DEF curr_prio, SameCpu, Step, Others
  <2>5. Served(rq) => Served(a)
    BY <1>2, <2>3, <2>4 DEF Served, SameCpu, Step, Others
  <2> QED
    BY <1>3, <1>5, <1>9, <2>5
<1> QED
  BY <1>8, <1>9

\* set_user_nice() of the running task asks for schedule().
LEMMA NiceKeeps ==
    ASSUME TimeInvariant, NEW p \in Tasks, NEW nice \in world.nices, set_user_nice(p, nice)
    PROVE  Keeps(rq, rq') /\ (p = rq.curr => (Served(rq) => Served(rq')))
<1> DEFINE a == array(rq, p)
           new == NICE_TO_PRIO(nice)
           d == IF a = "null" THEN rq ELSE dequeue_task(rq, p, a)
           r == [d EXCEPT !.static_prio[p] = new, !.prio[p] = new]
           e == enqueue_task(r, p, a)
           n == [e EXCEPT !.need_resched = TRUE]
           w == [rq EXCEPT !.static_prio[p] = new]
<1>1. Balanced(rq) /\ Sound(rq) /\ Standing(rq, p) /\ rq \in RunQueues
  BY DEF TimeInvariant, Balanced, Sound
<1>2. new \in 100 .. 139
  <2>1. nice \in -20 .. 19
    BY TimeAssumption DEF TimeInvariant
  <2> QED
    BY <2>1 DEF NICE_TO_PRIO, MAX_RT_PRIO
<1>3. \/ rt_task(rq, p) /\ rq' = w
      \/ ~rt_task(rq, p) /\ a = "null" /\ rq' = r
      \/ ~rt_task(rq, p) /\ a # "null" /\ (rq' = n \/ (rq' = e /\ p # rq.curr))
  BY Zenon DEF set_user_nice, Become, set_need_resched
<1>4. a \in Arrays \cup {"null"} /\ (p = rq.curr => a # "null")
  BY <1>1, ArrayHolds, TimeAssumption DEF Balanced, Arrays
<1> HIDE DEF new
<1>5. CASE rt_task(rq, p) /\ rq' = w
  <2>1. /\ w \in RunQueues /\ SameCpu(rq, w) /\ w.active = rq.active /\ w.expired = rq.expired
        /\ w.prio = rq.prio /\ w.policy = rq.policy /\ w.time_slice = rq.time_slice
        /\ w.static_prio = [rq.static_prio EXCEPT ![p] = new]
    <3>1. new \in MAX_RT_PRIO .. MAX_PRIO - 1
      BY <1>2 DEF MAX_RT_PRIO, MAX_PRIO
    <3> QED
      BY Zenon, <1>1, <3>1 DEF RunQueues, SameCpu
  <2> HIDE DEF w
  <2>2. \A x \in Tasks \ {p} : w.static_prio[x] = rq.static_prio[x]
    BY <1>1, <2>1 DEF RunQueues
  <2>3. Sound(w) /\ \A x \in Tasks : array(w, x) = array(rq, x)
    BY <1>1, <2>1 DEF Sound, Ordered, array
  <2>4. Others(rq, w, p)
    BY <2>1, <2>2, <2>3 DEF Others
  <2>5. Standing(w, p) /\ Near(w, p)
    BY <1>1, <1>5, <2>1 DEF Standing, Near, rt_task
  <2>6. Keeps(rq, w)
    BY <1>1, <1>4, <2>1, <2>3, <2>4, <2>5, StepKeeps DEF Step, SameCpu
  <2>7. Served(rq) => Served(w)
    BY <2>1, <2>3 DEF Served, SameCpu, curr_prio
  <2> QED
    BY <1>5, <2>6, <2>7
<1>6. /\ Sound(d) /\ Kept(rq, d) /\ SameCpu(rq, d)
      /\ \A x \in Tasks : array(d, x) = IF x = p THEN "null" ELSE array(rq, x)
  <2>1. CASE a = "null"
    BY <1>1, <2>1 DEF Kept, SameCpu
  <2>2. CASE a # "null"
    <3>1. Sound(d) /\ Moved(rq, d, p, "null")
      BY <1>1, <1>4, <2>2, Dequeue
    <3> HIDE DEF d
    <3>2. /\ d.curr = rq.curr /\ d.need_resched = rq.need_resched
          /\ d.prio = rq.prio /\ d.static_prio = rq.static_prio
          /\ d.policy = rq.policy /\ d.time_slice = rq.time_slice
          /\ \A x \in Tasks : array(d, x) = IF x = p THEN "null" ELSE array(rq, x)
      BY ONLY <1>1, <3>1, MovedFields
    <3> QED
      BY <3>1, <3>2 DEF Kept, SameCpu
  <2> QED
    BY <2>1, <2>2
<1>7. a # "null" => d = dequeue_task(rq, p, array(rq, p))
  OBVIOUS
<1> HIDE DEF d
<1>8. /\ r \in RunQueues /\ SameCpu(rq, r) /\ r.active = d.active /\ r.expired = d.expired
      /\ r.policy = rq.policy /\ r.time_slice = rq.time_slice
      /\ r.prio = [rq.prio EXCEPT ![p] = new]
      /\ r.static_prio = [rq.static_prio EXCEPT ![p] = new]
  <2>1. d \in RunQueues /\ new \in 0 .. MAX_PRIO - 1 /\ new \in MAX_RT_PRIO .. MAX_PRIO - 1
    BY <1>2, <1>6 DEF Sound, MAX_RT_PRIO, MAX_PRIO
  <2> QED
    BY Zenon, <1>6, <2>1 DEF RunQueues, Kept, SameCpu
<1> HIDE DEF r
<1>9. /\ r.prio[p] = new /\ r.static_prio[p] = new
      /\ \A x \in Tasks \ {p} : r.prio[x] = rq.prio[x] /\ r.static_prio[x] = rq.static_prio[x]
  BY <1>1, <1>8 DEF RunQueues
<1>10. CASE ~rt_task(rq, p) /\ a = "null" /\ rq' = r
  <2>1. \A x \in Tasks \ {p} : r.prio[x] = d.prio[x]
    BY <1>6, <1>9 DEF Kept
  <2>2. Sound(r) /\ \A x \in Tasks : array(r, x) = array(d, x)
    BY Zenon, <1>6, <1>8, <2>1, Outside
  <2>3. Others(rq, r, p)
    BY <1>6, <1>8, <1>9, <2>2 DEF Others
  <2>4. Standing(r, p) /\ Near(r, p)
    BY <1>1, <1>2, <1>8, <1>9, <1>10 DEF Standing, Near, rt_task, MAX_RT_PRIO
  <2>5. Keeps(rq, r)
    BY <1>1, <1>4, <1>8, <1>10, <2>2, <2>3, <2>4, StepKeeps DEF Step, SameCpu
  <2> QED
    BY <1>4, <1>10, <2>5
<1>11. CASE ~rt_task(rq, p) /\ a # "null" /\ (rq' = n \/ (rq' = e /\ p # rq.curr))
  <2>1. Sound(e) /\ Placed(rq, r, e, p, a)
    <3>1. \A x \in Tasks \ {p} : r.prio[x] = rq.prio[x]
      BY <1>9
    <3>2. a \in Arrays
      BY <1>4, <1>11
    <3> QED
      BY Zenon, <1>1, <1>7, <1>8, <1>11, <3>1, <3>2, Requeue
  <2> HIDE DEF e
  <2>2. /\ n \in RunQueues /\ n.need_resched /\ n.curr = e.curr
        /\ n.active = e.active /\ n.expired = e.expired /\ Kept(e, n)
    BY Zenon, <2>1 DEF Sound, RunQueues, Kept
  <2> HIDE DEF n
  <2>3. Sound(n) /\ \A x \in Tasks : array(n, x) = array(e, x)
    BY <2>1, <2>2 DEF Sound, Ordered, Kept, array
  <2>4. ASSUME NEW t, Sound(t), Kept(e, t), t.curr = e.curr,
               \A x \in Tasks : array(t, x) = array(e, x)
        PROVE  Keeps(rq, t)
    <3>1. Others(rq, t, p)
      BY <1>8, <1>9, <2>1, <2>4 DEF Others, Placed, Kept
    <3>2. /\ t.prio[p] = new /\ t.static_prio[p] = new /\ t.policy[p] = rq.policy[p]
          /\ t.time_slice[p] = rq.time_slice[p] /\ array(t, p) = a /\ t.curr = rq.curr
      BY <1>8, <1>9, <2>1, <2>4 DEF Placed, Kept, SameCpu
    <3>3. Standing(t, p) /\ Near(t, p)
      BY <1>1, <1>2, <1>11, <3>2 DEF Standing, Near, rt_task, MAX_RT_PRIO
    <3>4. array(t, p) \in Arrays
      BY <1>4, <1>11, <3>2
    <3> QED
      BY <1>1, <2>4, <3>1, <3>2, <3>3, <3>4, StepKeeps DEF Step
  <2>5. Keeps(rq, n)
    BY <2>2, <2>3, <2>4
  <2>6. Keeps(rq, e)
    BY <2>1, <2>4 DEF Kept
  <2> QED
    BY <1>11, <2>2, <2>5, <2>6 DEF Served
<1> QED
  BY <1>3, <1>5, <1>10, <1>11

\* setscheduler() gives a task the priority of its policy.
LEMMA SetschedulerKeeps ==
    ASSUME TimeInvariant, NEW p \in Tasks, NEW policy \in Policies,
           NEW rt \in RtPriorities \cup {0}, setscheduler(p, policy, rt)
    PROVE  Keeps(rq, rq')
<1> DEFINE a == array(rq, p)
           d == IF a = "null" THEN rq ELSE dequeue_task(rq, p, a)
           prio == IF policy = "OTHER" THEN d.static_prio[p] ELSE MAX_USER_RT_PRIO - 1 - rt
           r == [d EXCEPT !.policy[p] = policy, !.prio[p] = prio]
           t == activate_task(r, p)
<1>1. Balanced(rq) /\ Sound(rq) /\ Standing(rq, p) /\ rq \in RunQueues
  BY DEF TimeInvariant, Balanced, Sound
<1>2. rq' = (IF a = "null" THEN r ELSE t) /\ ((policy = "OTHER") = (rt = 0))
  BY DEF setscheduler, Become
<1>3. a \in Arrays \cup {"null"} /\ (p = rq.curr => a # "null")
  BY <1>1, ArrayHolds, TimeAssumption DEF Balanced, Arrays
<1>4. /\ Sound(d) /\ Kept(rq, d) /\ SameCpu(rq, d)
      /\ \A x \in Tasks : array(d, x) = IF x = p THEN "null" ELSE array(rq, x)
  <2>1. CASE a = "null"
    BY <1>1, <2>1 DEF Kept, SameCpu
  <2>2. CASE a # "null"
    <3>1. Sound(d) /\ Moved(rq, d, p, "null")
      BY <1>1, <1>3, <2>2, Dequeue
    <3> HIDE DEF d
    <3>2. /\ d.curr = rq.curr /\ d.need_resched = rq.need_resched
          /\ d.prio = rq.prio /\ d.static_prio = rq.static_prio
          /\ d.policy = rq.policy /\ d.time_slice = rq.time_slice
          /\ \A x \in Tasks : array(d, x) = IF x = p THEN "null" ELSE array(rq, x)
      BY ONLY <1>1, <3>1, MovedFields
    <3> QED
      BY <3>1, <3>2 DEF Kept, SameCpu
  <2> QED
    BY <2>1, <2>2
<1> HIDE DEF d
<1>5. d \in RunQueues /\ d.static_prio[p] \in 100 .. 139
  BY <1>4 DEF Sound, RunQueues, MAX_PRIO, MAX_RT_PRIO
<1>6. /\ prio \in 0 .. 139 /\ (prio < 100 <=> policy # "OTHER")
      /\ policy = "OTHER" => prio = d.static_prio[p]
  <2>1. CASE policy = "OTHER"
    BY <1>5, <2>1
  <2>2. CASE policy # "OTHER"
    <3>1. rt \in 1 .. 99
      BY <1>2, <2>2, TimeAssumption
    <3> QED
      BY <2>2, <3>1 DEF MAX_USER_RT_PRIO
  <2> QED
    BY Zenon, <2>1, <2>2
<1> HIDE DEF prio
<1>7. /\ r \in RunQueues /\ SameCpu(rq, r) /\ r.active = d.active /\ r.expired = d.expired
      /\ r.policy = [rq.policy EXCEPT ![p] = policy] /\ r.time_slice = rq.time_slice
      /\ r.prio = [rq.prio EXCEPT ![p] = prio] /\ r.static_prio = rq.static_prio
  <2>1. prio \in 0 .. MAX_PRIO - 1
    BY <1>6 DEF MAX_RT_PRIO, MAX_PRIO
  <2> QED
    BY Zenon, <1>4, <1>5, <2>1 DEF RunQueues, Kept, SameCpu
<1> HIDE DEF r
<1>8. /\ r.prio[p] = prio /\ r.policy[p] = policy
      /\ \A x \in Tasks \ {p} : r.prio[x] = rq.prio[x] /\ r.policy[x] = rq.policy[x]
  BY <1>1, <1>7 DEF RunQueues
<1>9. \A x \in Tasks \ {p} : r.prio[x] = d.prio[x]
  BY <1>4, <1>8 DEF Kept
<1>10. Sound(r) /\ \A x \in Tasks : array(r, x) = array(d, x)
  BY Zenon, <1>4, <1>7, <1>9, Outside
<1>11. Others(rq, r, p)
  BY <1>4, <1>7, <1>8, <1>10 DEF Others
<1>12. Standing(r, p)
  BY <1>1, <1>6, <1>7, <1>8 DEF Standing, rt_task, MAX_RT_PRIO
<1>13. Near(r, p)
  BY <1>4, <1>5, <1>6, <1>7, <1>8 DEF Near, Kept
<1>14. CASE a = "null"
  <2>1. rq' = r /\ rq.curr # p
    BY <1>2, <1>3, <1>14
  <2> QED
    BY <1>1, <1>7, <1>10, <1>11, <1>12, <1>13, <2>1, StepKeeps DEF Step, SameCpu
<1>15. CASE a # "null"
  <2>1. rq' = t /\ array(r, p) = "null"
    BY <1>2, <1>4, <1>10, <1>15
  <2>2. Step(r, t, p) /\ SameCpu(r, t) /\ array(t, p) = "active"
    BY <1>10, <1>12, <2>1, Activate
  <2> HIDE DEF t
  <2>3. Others(rq, t, p)
    BY <1>11, <2>2 DEF Others, Step
  <2> QED
    BY <1>1, <1>7, <1>13, <2>1, <2>2, <2>3, StepKeeps DEF Step, SameCpu, Arrays
<1> QED
  BY <1>14, <1>15

\* sched_yield() may move a normal task away from its nice value.
LEMMA YieldKeeps ==
    ASSUME TimeInvariant, sys_sched_yield
    PROVE  /\ Balanced(rq') /\ Served(rq')
           /\ Rival(rq, rq.curr) => rq'.curr # rq.curr
<1> DEFINE p == rq.curr
           a == array(rq, p)
           y == yield_requeue(rq)
           r == stamp(y)
<1>1. Balanced(rq) /\ Sound(rq)
  BY DEF TimeInvariant, Balanced
<1>2. p \in Tasks /\ a \in Arrays /\ Standing(rq, p)
  BY <1>1 DEF sys_sched_yield, Running, Balanced, Sound, RunQueues
<1>3. rq' = schedule(y)
  BY DEF sys_sched_yield, Become
<1>4. /\ Sound(y) /\ Others(rq, y, p) /\ Standing(y, p)
      /\ y.curr = p /\ array(y, p) = a
      /\ Rival(rq, p) => Head(y[a]) # p
  BY <1>1, <1>2, Yield
<1> HIDE DEF y
<1>5. \A x \in Tasks : Standing(y, x)
  BY <1>1, <1>4 DEF Balanced, Others, Standing, rt_task
<1>6. Keeps(y, rq') /\ Served(rq')
  BY <1>3, <1>4, <1>5, ScheduleKeeps
<1>7. ASSUME Rival(rq, p) PROVE rq'.curr # p
  <2>1. /\ Sound(r) /\ Same(y, r) /\ rq' = pick_next_task(r)
        /\ \A x \in Tasks : array(r, x) = array(y, x)
    BY <1>3, <1>4, Stamp DEF schedule
  <2> HIDE DEF r
  <2>2. \/ array(r, p) = "active" /\ Head(r.active) # p
        \/ array(r, p) = "expired" /\ Head(r.expired) # p
    BY <1>2, <1>4, <1>7, <2>1 DEF Arrays, Same
  <2>3. \A x \in Tasks :
            \/ array(r, x) = "active" /\ Head(r.active) # x
            \/ array(r, x) = "expired" /\ Head(r.expired) # x
            => rq'.curr # x
    BY <2>1, Pick
  <2> QED
    BY <1>2, <2>2, <2>3
<1> QED
  BY <1>6, <1>7 DEF Keeps

-----------------------------------------------------------------------------
(* The theorems                                                              *)

\* The invariant holds at the beginning.
LEMMA TimeInit == Init => TimeInvariant
<1> SUFFICES ASSUME Init PROVE TimeInvariant
  OBVIOUS
<1>1. world \in Worlds /\ world.tasks \subseteq Tasks /\ world.nices \subseteq -20 .. 19
  BY Zenon, TimeAssumption DEF Init
<1>2. PICK nice \in [world.tasks -> world.nices] :
        LET prio == [p \in Tasks |-> NICE_TO_PRIO(IF p \in world.tasks THEN nice[p] ELSE 0)]
        IN  rq = [active |-> <<>>, expired |-> <<>>, curr |-> Idle,
                  need_resched |-> FALSE, expired_age |-> 0,
                  static_prio |-> prio,
                  prio |-> prio,
                  policy |-> [p \in Tasks |-> "OTHER"],
                  time_slice |-> [p \in Tasks |-> MIN_TIMESLICE],
                  sleep_avg |-> [p \in Tasks |-> 0],
                  sleep_age |-> [p \in Tasks |-> 0]]
  BY DEF Init
<1> DEFINE prio == [p \in Tasks |-> NICE_TO_PRIO(IF p \in world.tasks THEN nice[p] ELSE 0)]
<1>3. prio \in [Tasks -> 100 .. 139]
  BY <1>1 DEF NICE_TO_PRIO, MAX_RT_PRIO
<1>4. /\ rq.active = <<>> /\ rq.expired = <<>> /\ rq.curr = Idle /\ rq.need_resched = FALSE
      /\ rq.static_prio = prio /\ rq.prio = prio
      /\ rq.policy = [p \in Tasks |-> "OTHER"]
      /\ rq.time_slice = [p \in Tasks |-> MIN_TIMESLICE]
  BY <1>2
<1>5. rq \in RunQueues
  <2>1. prio \in [Tasks -> MAX_RT_PRIO .. MAX_PRIO - 1] /\ prio \in [Tasks -> 0 .. MAX_PRIO - 1]
    BY <1>3 DEF MAX_PRIO, MAX_RT_PRIO
  <2>2. MIN_TIMESLICE \in 0 .. MAX_TIMESLICE /\ 0 \in 0 .. MAX_SLEEP_AVG
    BY TimeAssumption
  <2>3. /\ [p \in Tasks |-> "OTHER"] \in [Tasks -> Policies]
        /\ [p \in Tasks |-> MIN_TIMESLICE] \in [Tasks -> 0 .. MAX_TIMESLICE]
        /\ [p \in Tasks |-> 0] \in [Tasks -> 0 .. MAX_SLEEP_AVG]
        /\ [p \in Tasks |-> 0] \in [Tasks -> Nat]
    BY <2>2 DEF Policies
  <2>4. <<>> \in Seq(Tasks)
    OBVIOUS
  <2> HIDE DEF prio
  <2> QED
    BY Zenon, <1>2, <2>1, <2>3, <2>4 DEF RunQueues, prio
<1>6. Ordered(rq) /\ \A x \in Tasks : array(rq, x) = "null"
  BY <1>4 DEF Ordered, Sorted, Distinct, on_list, array
<1> HIDE DEF prio
<1>7. \A x \in Tasks : Standing(rq, x) /\ Near(rq, x)
  <2> SUFFICES ASSUME NEW x \in Tasks PROVE Standing(rq, x) /\ Near(rq, x)
    OBVIOUS
  <2>1. /\ rq.prio[x] \in 100 .. 139 /\ rq.static_prio[x] = rq.prio[x]
        /\ rq.policy[x] = "OTHER" /\ rq.time_slice[x] = MIN_TIMESLICE
    BY <1>3, <1>4
  <2>2. MIN_TIMESLICE >= 1
    BY TimeAssumption
  <2> QED
    BY <2>1, <2>2 DEF Standing, Near, rt_task, MAX_RT_PRIO
<1>8. Balanced(rq) /\ AllNear(rq) /\ Served(rq)
  BY <1>4, <1>5, <1>6, <1>7 DEF Balanced, Sound, AllNear, Served
<1> QED
  BY <1>1, <1>8 DEF TimeInvariant

\* Every step keeps the invariant.
LEMMA TimeNext == TimeInvariant /\ [Next]_vars => TimeInvariant'
<1> SUFFICES ASSUME TimeInvariant, [Next]_vars PROVE TimeInvariant'
  OBVIOUS
<1>1. /\ Balanced(rq) /\ Sound(rq) /\ world \in Worlds /\ \A x \in Tasks : Standing(rq, x)
  BY DEF TimeInvariant, Balanced
<1>2. ASSUME UNCHANGED world, Keeps(rq, rq'), Served(rq) => Served(rq')
      PROVE  TimeInvariant'
  BY <1>2 DEF TimeInvariant, Keeps, Makes
<1>3. CASE Tick
  <2>1. rq' = scheduler_tick(next_jiffy(rq)) /\ UNCHANGED world
    BY <1>3 DEF Tick, Become
  <2> QED
    BY <1>1, <1>2, <2>1, TickKeeps
<1>4. CASE Reschedule \/ ScheduleAnyway
  <2>1. rq' = schedule(rq) /\ UNCHANGED world
    BY <1>4 DEF Reschedule, ScheduleAnyway, Become
  <2> QED
    BY <1>1, <1>2, <2>1, ScheduleKeeps
<1>5. CASE Sleep
  <2>1. UNCHANGED world
    BY <1>5 DEF Sleep, Become
  <2> QED
    BY <1>2, <1>5, <2>1, SleepKeeps
<1>6. CASE sys_sched_yield
  <2>1. UNCHANGED world /\ Makes("yield")
    BY <1>6 DEF sys_sched_yield, Become
  <2>2. Balanced(rq') /\ Served(rq')
    BY <1>6, YieldKeeps
  <2> QED
    BY <1>1, <2>1, <2>2 DEF TimeInvariant, Makes
<1>7. CASE \E p \in Tasks, nice \in world.nices : set_user_nice(p, nice)
  <2>1. PICK p \in Tasks, nice \in world.nices : set_user_nice(p, nice)
    BY <1>7
  <2>2. UNCHANGED world /\ (Makes("nice_another") \/ p = rq.curr)
    BY <2>1 DEF set_user_nice, Become
  <2>3. Keeps(rq, rq') /\ (p = rq.curr => (Served(rq) => Served(rq')))
    BY <2>1, NiceKeeps
  <2> QED
    BY <2>2, <2>3 DEF TimeInvariant, Keeps, Makes
<1>8. CASE Arrives
  <2>1. CASE \E p \in Tasks : try_to_wake_up(p)
    <3>1. PICK p \in Tasks : try_to_wake_up(p)
      BY <2>1
    <3>2. UNCHANGED world
      BY <3>1 DEF try_to_wake_up, Become
    <3> QED
      BY <1>2, <3>1, <3>2, WakeUpKeeps
  <2>2. CASE \E p \in Tasks, policy \in Policies, rt \in RtPriorities \cup {0} :
                 setscheduler(p, policy, rt)
    <3>1. PICK p \in Tasks, policy \in Policies, rt \in RtPriorities \cup {0} :
              setscheduler(p, policy, rt)
      BY <2>2
    <3>2. UNCHANGED world /\ Makes("setscheduler")
      BY <3>1 DEF setscheduler, Become
    <3>3. Keeps(rq, rq')
      BY <3>1, SetschedulerKeeps
    <3> QED
      BY <3>2, <3>3 DEF TimeInvariant, Keeps, Makes
  <2> QED
    BY <1>8, <2>1, <2>2 DEF Arrives, Policies
<1>9. CASE UNCHANGED vars
  BY <1>9 DEF vars, TimeInvariant, Balanced, Sound, Ordered, AllNear, Served, Makes,
      Standing, Near, rt_task, array, curr_prio
<1> QED
  BY <1>3, <1>4, <1>5, <1>6, <1>7, <1>8, <1>9 DEF Next

\* In every world the arrays are ordered by priority and share no task, every
\* task is in good standing, the running task is queued, priorities follow
\* nice values where nobody yields, and the best task runs where nobody
\* changes the standing of another.
THEOREM TimeInvariantHolds == Spec => []TimeInvariant
BY TimeInit, TimeNext, PTL DEF Spec

\* enqueue_task(), dequeue_task() and sched_yield() keep both arrays ordered and
\* every task in one place, current is queued, and prio, time_slice and sleep_avg
\* stay in the ranges of the code.
THEOREM TimeTypeHolds == Spec => []TypeOK
<1>1. TimeInvariant => TypeOK
  <2> SUFFICES ASSUME TimeInvariant PROVE TypeOK
    OBVIOUS
  <2>1. rq \in RunQueues /\ Ordered(rq) /\ Balanced(rq) /\ Sound(rq)
    BY DEF TimeInvariant, Balanced, Sound
  <2>2. \A a \in {"active", "expired"} :
            \A i, j \in 1 .. Len(rq[a]) : i < j => rq.prio[rq[a][i]] <= rq.prio[rq[a][j]]
    BY <2>1, EitherArray DEF Arrays, Sorted
  <2>3. IsInjective(rq.active \o rq.expired)
    <3> DEFINE A == rq.active
               E == rq.expired
    <3>1. A \in Seq(Tasks) /\ E \in Seq(Tasks)
      BY <2>1 DEF RunQueues
    <3>2. Distinct(A) /\ Distinct(E) /\ \A x \in Tasks : ~(on_list(A, x) /\ on_list(E, x))
      BY <2>1 DEF Ordered
    <3> HIDE DEF A, E
    <3>3. Len(A) \in Nat /\ Len(E) \in Nat
      BY <3>1, LenProperties
    <3>4. /\ A \o E \in Seq(Tasks) /\ Len(A \o E) = Len(A) + Len(E)
          /\ \A i \in 1 .. Len(A) + Len(E) :
                (A \o E)[i] = IF i <= Len(A) THEN A[i] ELSE E[i - Len(A)]
      BY <3>1, ConcatProperties
    <3>5. DOMAIN (A \o E) = 1 .. Len(A) + Len(E)
      BY <3>4, LenProperties
    <3>6. \A i \in 1 .. Len(A), j \in 1 .. Len(E) : A[i] # E[j]
      BY <3>1, <3>2, ElementOfSeq DEF on_list
    <3> DEFINE C == A \o E
    <3>7. C = A \o E
      OBVIOUS
    <3> HIDE DEF C
    <3>8. ASSUME NEW i \in 1 .. Len(A) + Len(E), NEW j \in 1 .. Len(A) + Len(E),
                 C[i] = C[j]
          PROVE  i = j
      <4>1. i > Len(A) => i - Len(A) \in 1 .. Len(E)
        BY <3>3
      <4>2. j > Len(A) => j - Len(A) \in 1 .. Len(E)
        BY <3>3
      <4>3. (i <= Len(A) => C[i] = A[i]) /\ (i > Len(A) => C[i] = E[i - Len(A)])
        BY <3>3, <3>4, <3>7
      <4>4. (j <= Len(A) => C[j] = A[j]) /\ (j > Len(A) => C[j] = E[j - Len(A)])
        BY <3>3, <3>4, <3>7
      <4>5. CASE i <= Len(A) /\ j <= Len(A)
        <5>1. i \in 1 .. Len(A) /\ j \in 1 .. Len(A) /\ A[i] = A[j]
          BY <3>3, <3>8, <4>3, <4>4, <4>5
        <5> QED
          BY <3>2, <5>1 DEF Distinct
      <4>6. CASE i > Len(A) /\ j > Len(A)
        <5>1. E[i - Len(A)] = E[j - Len(A)]
          BY <3>3, <3>8, <4>3, <4>4, <4>6
        <5>2. i - Len(A) = j - Len(A)
          BY <3>2, <4>1, <4>2, <4>6, <5>1 DEF Distinct
        <5> QED
          BY <3>3, <5>2
      <4>7. CASE i <= Len(A) /\ j > Len(A)
        BY <3>3, <3>6, <3>8, <4>2, <4>3, <4>4, <4>7
      <4>8. CASE i > Len(A) /\ j <= Len(A)
        BY <3>3, <3>6, <3>8, <4>1, <4>3, <4>4, <4>8
      <4> QED
        BY <3>3, <4>5, <4>6, <4>7, <4>8
    <3> QED
      BY Zenon, <3>5, <3>8 DEF IsInjective, A, E, C
  <2>4. rq.curr # Idle => Queued(rq.curr)
    BY <2>1 DEF Balanced, Queued, Arrays
  <2>5. \A p \in Tasks : /\ rq.prio[p] \in 0 .. MAX_PRIO - 1
                         /\ rt_task(rq, p) <=> rq.policy[p] # "OTHER"
                         /\ rq.static_prio[p] \in MAX_RT_PRIO .. MAX_PRIO - 1
                         /\ rq.time_slice[p] \in 1 .. MAX_TIMESLICE
                         /\ rq.sleep_avg[p] \in 0 .. MAX_SLEEP_AVG
    <3> SUFFICES ASSUME NEW p \in Tasks
                 PROVE  /\ rq.prio[p] \in 0 .. MAX_PRIO - 1
                        /\ rt_task(rq, p) <=> rq.policy[p] # "OTHER"
                        /\ rq.static_prio[p] \in MAX_RT_PRIO .. MAX_PRIO - 1
                        /\ rq.time_slice[p] \in 1 .. MAX_TIMESLICE
                        /\ rq.sleep_avg[p] \in 0 .. MAX_SLEEP_AVG
      OBVIOUS
    <3>1. Standing(rq, p)
      BY <2>1 DEF Balanced
    <3>2. /\ rq.prio[p] \in 0 .. MAX_PRIO - 1
          /\ rq.static_prio[p] \in MAX_RT_PRIO .. MAX_PRIO - 1
          /\ rq.time_slice[p] \in 0 .. MAX_TIMESLICE
          /\ rq.sleep_avg[p] \in 0 .. MAX_SLEEP_AVG
      BY <2>1 DEF RunQueues
    <3>3. rq.time_slice[p] \in 1 .. MAX_TIMESLICE
      BY <3>1, <3>2, TimeAssumption DEF Standing
    <3> QED
      BY <3>1, <3>2, <3>3 DEF Standing
  <2> QED
    BY <2>2, <2>3, <2>4, <2>5 DEF TypeOK
<1> QED
  BY <1>1, TimeInvariantHolds, PTL

\* Where nobody changes the standing of another task, no task in the active array
\* is better than the running one unless schedule() is about to be called:
\* try_to_wake_up(), scheduler_tick() and set_user_nice() set need_resched
\* whenever they must.
THEOREM BestRunsHolds == Spec => []BestRuns
<1>1. TimeInvariant => BestRuns
  BY DEF TimeInvariant, BestRuns, Served
<1> QED
  BY <1>1, TimeInvariantHolds, PTL

\* Without sched_yield() a task ten nice levels ahead is never behind: what
\* effective_prio() adds and takes away is five levels at most.
THEOREM NiceWinsHolds == Spec => []NiceWins
<1>1. TimeInvariant => NiceWins
  <2> SUFFICES ASSUME TimeInvariant, ~Makes("yield"), NEW p \in Tasks, NEW q \in Tasks,
                      rq.policy[p] = "OTHER", rq.policy[q] = "OTHER",
                      rq.static_prio[q] - rq.static_prio[p] >= 10
               PROVE  rq.prio[p] <= rq.prio[q]
    BY DEF NiceWins
  <2>1. Near(rq, p) /\ Near(rq, q)
    BY DEF TimeInvariant, AllNear
  <2>2. rq.static_prio[p] \in Int /\ rq.static_prio[q] \in Int
    <3>1. rq \in RunQueues
      BY DEF TimeInvariant, Balanced, Sound
    <3>2. /\ rq.static_prio[p] \in MAX_RT_PRIO .. MAX_PRIO - 1
          /\ rq.static_prio[q] \in MAX_RT_PRIO .. MAX_PRIO - 1
      BY <3>1 DEF RunQueues
    <3> QED
      BY <3>2 DEF MAX_PRIO, MAX_RT_PRIO
  <2> QED
    BY <2>1, <2>2 DEF Near
<1> QED
  BY <1>1, TimeInvariantHolds, PTL

\* sched_yield() hands the processor to another task whenever the caller's array
\* holds one that it should give way to.
THEOREM YieldGivesWayHolds == Spec => YieldGivesWay
<1> DEFINE Gives ==
        sys_sched_yield =>
            LET a == rq[array(rq, rq.curr)]
            IN  (\E i \in 1 .. Len(a) :
                    /\ a[i] # rq.curr
                    /\ rt_task(rq, rq.curr) => rq.prio[a[i]] <= rq.prio[rq.curr])
                => rq'.curr # rq.curr
<1>1. TimeInvariant => Gives
  <2> DEFINE p == rq.curr
             a == array(rq, p)
  <2> SUFFICES ASSUME TimeInvariant, sys_sched_yield, NEW i \in 1 .. Len(rq[a]),
                      rq[a][i] # p, rt_task(rq, p) => rq.prio[rq[a][i]] <= rq.prio[p]
               PROVE  rq'.curr # p
    OBVIOUS
  <2>1. Sound(rq) /\ a \in Arrays
    BY DEF TimeInvariant, Balanced, sys_sched_yield, Running
  <2>2. rq[a] \in Seq(Tasks) /\ \A x \in Tasks : on_list(rq[a], x) <=> array(rq, x) = a
    BY <2>1, EitherArray
  <2>3. rq[a][i] \in Tasks /\ array(rq, rq[a][i]) = a
    BY <2>2, ElementOfSeq DEF on_list
  <2>4. Rival(rq, p)
    BY <2>3 DEF Rival
  <2> QED
    BY <2>4, YieldKeeps
<1> QED
  BY <1>1, TimeInvariantHolds, PTL DEF YieldGivesWay

=============================================================================
