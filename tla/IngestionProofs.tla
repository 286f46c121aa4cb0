---------------------------- MODULE IngestionProofs ----------------------------
(***************************************************************************)
(* Proofs about Ingestion, for every set of keys, users, lines and rules,  *)
(* every window and threshold, any units, any of which may fail, and any   *)
(* number of runs, lines and seconds.                                      *)
(***************************************************************************)
EXTENDS Ingestion, Foundations, FiniteSetTheorems, SequenceTheorems, TLAPS

-----------------------------------------------------------------------------
(* What the helpers on sequences return. *)

\* The elements of an extended sequence.
LEMMA AppendSet ==
  ASSUME NEW R, NEW s \in Seq(R), NEW e \in R
  PROVE  ToSet(Append(s, e)) = ToSet(s) \cup {e}
BY AppendProperties, LenProperties DEF ToSet

\* Of a sequence Kept keeps what is wanted, and nothing else, in its order.
LEMMA KeptShape ==
  ASSUME NEW R, NEW records \in Seq(R), NEW wanted
  PROVE  /\ Kept(records, wanted) \in Seq(R)
         /\ ToSet(Kept(records, wanted)) = ToSet(records) \cap wanted
         /\ \A p, q \in 1 .. Len(Kept(records, wanted)) : p < q =>
              \E a, b \in 1 .. Len(records) :
                /\ a < b
                /\ Kept(records, wanted)[p] = records[a]
                /\ Kept(records, wanted)[q] = records[b]
<1> DEFINE n == Len(records)
           A == Seq(R)
           step == [p \in A \X (1 .. n) |->
                      IF records[p[2]] \in wanted THEN Append(p[1], records[p[2]]) ELSE p[1]]
<1>1. n \in Nat /\ <<>> \in A
  OBVIOUS
<1>2. \A i \in 1 .. n : records[i] \in R
  OBVIOUS
<1>3. \A i \in 1 .. n : i # 0 /\ i \in 0 .. n /\ i - 1 \in 0 .. n
  BY <1>1
<1>4. \A i \in 0 .. n : i # 0 => i \in 1 .. n
  BY <1>1
<1>5. step \in Steps(n, A)
  BY <1>1, <1>2 DEF Steps
<1>6. \A a \in A : \A i \in 1 .. n :
        step[<<a, i>>] = IF records[i] \in wanted THEN Append(a, records[i]) ELSE a
  OBVIOUS
<1> HIDE DEF n, A, step
<1>7. PICK f \in [0 .. n -> A] : f[0] = <<>> /\ \A i \in 1 .. n : f[i] = step[<<f[i - 1], i>>]
  <2>1. Loops(n, A, <<>>, step) # {}
    BY ONLY <1>1, <1>5, Fold
  <2>2. QED
    BY <2>1 DEF Loops
<1>8. f = [i \in 0 .. n |-> IF i = 0 THEN <<>>
                           ELSE IF records[i] \in wanted THEN Append(f[i - 1], records[i])
                           ELSE f[i - 1]]
  <2>1. \A i \in 1 .. n : f[i] = IF records[i] \in wanted THEN Append(f[i - 1], records[i])
                                ELSE f[i - 1]
    BY <1>3, <1>6, <1>7
  <2>2. \A i \in 0 .. n : f[i] = IF i = 0 THEN <<>>
                                ELSE IF records[i] \in wanted THEN Append(f[i - 1], records[i])
                                ELSE f[i - 1]
    BY <1>4, <1>7, <2>1
  <2>3. QED
    BY <2>2
<1> DEFINE upTo[i \in 0 .. n] ==
             IF i = 0 THEN <<>>
             ELSE IF records[i] \in wanted THEN Append(upTo[i - 1], records[i])
             ELSE upTo[i - 1]
<1>9. upTo = [i \in 0 .. n |-> IF i = 0 THEN <<>>
                              ELSE IF records[i] \in wanted THEN Append(upTo[i - 1], records[i])
                              ELSE upTo[i - 1]]
  BY <1>8
<1>10. Kept(records, wanted) = upTo[n]
  BY DEF Kept, n
<1> HIDE DEF upTo
<1> DEFINE Follow(s, i) == \A p, q \in 1 .. Len(s) : p < q =>
                             \E a, b \in 1 .. i : a < b /\ s[p] = records[a] /\ s[q] = records[b]
           Good == {i \in 0 .. n : /\ upTo[i] \in Seq(R)
                                   /\ ToSet(upTo[i]) = {records[j] : j \in 1 .. i} \cap wanted
                                   /\ Follow(upTo[i], i)}
<1>11. 0 \in Good
  <2>1. upTo[0] = <<>>
    BY <1>1, <1>9
  <2>2. QED
    BY <1>1, <2>1 DEF ToSet
<1>12. ASSUME NEW i \in 1 .. n, i - 1 \in Good PROVE i \in Good
  <2> DEFINE s == upTo[i - 1]
  <2>1. {records[j] : j \in 1 .. i} = {records[j] : j \in 1 .. i - 1} \cup {records[i]}
    OBVIOUS
  <2>2. s \in Seq(R) /\ ToSet(s) = {records[j] : j \in 1 .. i - 1} \cap wanted /\ Follow(s, i - 1)
    BY <1>12
  <2>3. CASE records[i] \in wanted
    <3>1. upTo[i] = Append(s, records[i])
      BY <1>3, <1>9, <2>3
    <3> HIDE DEF s
    <3>2. Append(s, records[i]) \in Seq(R)
          /\ ToSet(Append(s, records[i])) = ToSet(s) \cup {records[i]}
      BY <1>2, <2>2, AppendSet
    <3> DEFINE e == Append(s, records[i])
    <3>3. Len(e) = Len(s) + 1
      BY <2>2
    <3>4. ASSUME NEW p \in 1 .. Len(e), NEW q \in 1 .. Len(e), p < q
          PROVE  \E a, b \in 1 .. i : /\ a < b
                                      /\ e[p] = records[a]
                                      /\ e[q] = records[b]
      <4>1. Len(s) \in Nat /\ p \in 1 .. Len(s) /\ e[p] = s[p]
        BY <2>2, <3>3, <3>4
      <4>2. CASE q \in 1 .. Len(s)
        BY <2>2, <3>4, <4>1, <4>2
      <4>3. CASE q = Len(s) + 1
        <5>1. e[q] = records[i]
          BY <2>2, <4>3
        <5>2. s[p] \in ToSet(s)
          BY <2>2, <4>1 DEF ToSet
        <5>3. PICK a \in 1 .. i - 1 : s[p] = records[a]
          BY <2>2, <5>2
        <5>4. a \in 1 .. i /\ a < i /\ i \in 1 .. i
          OBVIOUS
        <5>5. QED
          BY <4>1, <5>1, <5>3, <5>4
      <4>4. QED
        BY <3>3, <4>1, <4>2, <4>3
    <3>5. Follow(e, i)
      <4> HIDE DEF e
      <4>1. QED
        BY <3>4
    <3> HIDE DEF Follow
    <3>6. upTo[i] \in Seq(R) /\ Follow(upTo[i], i)
      BY <3>1, <3>2, <3>5
    <3>7. ToSet(upTo[i]) = {records[j] : j \in 1 .. i} \cap wanted
      BY <2>1, <2>2, <2>3, <3>1, <3>2
    <3>8. QED
      BY <1>3, <3>6, <3>7
  <2>4. CASE records[i] \notin wanted
    <3>1. upTo[i] = s
      BY <1>3, <1>9, <2>4
    <3>2. Follow(s, i)
      <4> HIDE DEF s
      <4>1. \A a \in 1 .. i - 1 : a \in 1 .. i
        OBVIOUS
      <4>2. ASSUME NEW p \in 1 .. Len(s), NEW q \in 1 .. Len(s), p < q
            PROVE  \E a, b \in 1 .. i : a < b /\ s[p] = records[a] /\ s[q] = records[b]
        <5>1. PICK a \in 1 .. i - 1, b \in 1 .. i - 1 :
                a < b /\ s[p] = records[a] /\ s[q] = records[b]
          BY <2>2, <4>2
        <5>2. QED
          BY <4>1, <5>1
      <4>3. QED
        BY <4>2
    <3> HIDE DEF Follow
    <3>3. QED
      BY <1>3, <2>1, <2>2, <2>4, <3>1, <3>2
  <2>5. QED
    BY <2>3, <2>4
<1>13. n \in Good
  <2> HIDE DEF Good
  <2>1. \A i \in 1 .. n : i - 1 \in Good => i \in Good
    BY <1>12
  <2>2. \A i \in 0 .. n : i \in Good
    BY <1>1, <1>11, <2>1, Climb
  <2>3. QED
    BY <1>1, <2>2
<1>14. ToSet(records) = {records[j] : j \in 1 .. n}
  BY DEF ToSet, n
<1>15. QED
  BY <1>10, <1>13, <1>14 DEF n

\* What has a time, in the order of time, and without repetitions.
Timed(R) == \A r \in R : r.at \in Int
Sorted(s) == \A i, j \in 1 .. Len(s) : i < j => s[i].at <= s[j].at
Distinct(s) == \A i, j \in 1 .. Len(s) : i < j => s[i] # s[j]

\* In a sorted sequence there is a place for each time.
LEMMA PlaceFound ==
  ASSUME NEW R, Timed(R), NEW s \in Seq(R), Sorted(s), NEW time \in Int
  PROVE  /\ Place(s, time) \in 0 .. Len(s)
         /\ \A i \in 1 .. Len(s) : i <= Place(s, time) <=> s[i].at <= time
<1> DEFINE Early == {i \in 1 .. Len(s) : s[i].at <= time} \cup {0}
<1>1. Len(s) \in Nat /\ DOMAIN s = 1 .. Len(s) /\ \A i \in 1 .. Len(s) : s[i].at \in Int
  BY DEF Timed
<1>2. PICK k \in Early : \A m \in Early : m <= k
  <2>1. Early \in SUBSET Nat /\ Early # {} /\ \A m \in Early : m <= Len(s)
    BY <1>1
  <2> HIDE DEF Early
  <2>2. QED
    BY <1>1, <2>1, Greatest
<1>3. k \in 0 .. Len(s)
  BY <1>1
<1>4. ASSUME NEW i \in 1 .. Len(s) PROVE i <= k <=> s[i].at <= time
  <2>1. CASE i <= k
    <3>1. k \in 1 .. Len(s) /\ s[k].at <= time
      BY <1>1, <2>1
    <3>2. s[i].at <= s[k].at
      BY <1>1, <2>1, <3>1 DEF Sorted
    <3>3. QED
      BY <1>1, <2>1, <3>1, <3>2
  <2>2. CASE ~(i <= k)
    BY <1>1, <1>2, <1>3, <2>2
  <2>3. QED
    BY <2>1, <2>2
<1>5. \E m \in 0 .. Len(s) : \A i \in DOMAIN s : i <= m <=> s[i].at <= time
  BY <1>1, <1>3, <1>4
<1>6. QED
  BY <1>1, <1>5 DEF Place

\* What an insertion moves.
LEMMA InsertShape ==
  ASSUME NEW R, NEW s \in Seq(R), NEW k \in 0 .. Len(s), NEW e \in R
  PROVE  /\ InsertAt(s, k + 1, e) \in Seq(R)
         /\ Len(InsertAt(s, k + 1, e)) = Len(s) + 1
         /\ \A i \in 1 .. Len(s) + 1 :
              InsertAt(s, k + 1, e)[i] =
                IF i <= k THEN s[i] ELSE IF i = k + 1 THEN e ELSE s[i - 1]
<1> DEFINE a == SubSeq(s, 1, k)
           c == SubSeq(s, k + 1, Len(s))
<1>1. Len(s) \in Nat /\ k \in Int /\ k + 1 \in Int
  OBVIOUS
<1>2. a \in Seq(R) /\ Len(a) = k /\ \A i \in 1 .. k : a[i] = s[i]
  OBVIOUS
<1>3. c \in Seq(R) /\ Len(c) = Len(s) - k /\ \A i \in 1 .. Len(s) - k : c[i] = s[k + i]
  OBVIOUS
<1>4. InsertAt(s, k + 1, e) = (a \o <<e>>) \o c
  <2>1. (k + 1) - 1 = k
    BY <1>1
  <2>2. InsertAt(s, k + 1, e) = SubSeq(s, 1, (k + 1) - 1) \o <<e>> \o c
    BY DEF InsertAt
  <2>3. QED
    BY <2>1, <2>2
<1> DEFINE b == a \o <<e>>
<1> HIDE DEF a, c
<1>5. b \in Seq(R) /\ Len(b) = k + 1 /\ b[k + 1] = e /\ \A i \in 1 .. k : b[i] = a[i]
  BY <1>2
<1> HIDE DEF b
<1> DEFINE t == InsertAt(s, k + 1, e)
<1>6. t = b \o c
  BY <1>4 DEF b
<1> HIDE DEF t
<1>7. t \in Seq(R) /\ Len(t) = Len(s) + 1
  BY <1>1, <1>3, <1>5, <1>6
<1>8. ASSUME NEW i \in 1 .. Len(s) + 1
      PROVE  t[i] = IF i <= k THEN s[i] ELSE IF i = k + 1 THEN e ELSE s[i - 1]
  <2>1. CASE i <= k + 1
    <3>1. t[i] = b[i]
      BY <1>1, <1>3, <1>5, <1>6, <2>1
    <3>2. QED
      BY <1>1, <1>2, <1>5, <2>1, <3>1
  <2>2. CASE i > k + 1
    <3>1. t[i] = c[i - (k + 1)]
      BY <1>1, <1>3, <1>5, <1>6, <2>2
    <3>2. i - (k + 1) \in 1 .. Len(s) - k /\ k + (i - (k + 1)) = i - 1
      BY <1>1, <2>2
    <3>3. QED
      BY <1>1, <1>3, <2>2, <3>1, <3>2
  <2>3. i <= k + 1 \/ i > k + 1
    BY <1>1
  <2>4. QED
    BY <2>1, <2>2, <2>3
<1>9. QED
  BY <1>7, <1>8 DEF t

\* A record put in its place in a sorted sequence.
LEMMA PlacedShape ==
  ASSUME NEW R, Timed(R), NEW s \in Seq(R), Sorted(s), NEW e \in R
  PROVE  LET t == InsertAt(s, Place(s, e.at) + 1, e) IN
         /\ t \in Seq(R)
         /\ Sorted(t)
         /\ ToSet(t) = ToSet(s) \cup {e}
         /\ e \notin ToSet(s) /\ Distinct(s) => Distinct(t)
<1> DEFINE k == Place(s, e.at)
           t == InsertAt(s, k + 1, e)
<1>1. Len(s) \in Nat /\ e.at \in Int /\ \A i \in 1 .. Len(s) : s[i].at \in Int
  BY DEF Timed
<1>2. k \in 0 .. Len(s) /\ \A i \in 1 .. Len(s) : i <= k <=> s[i].at <= e.at
  BY <1>1, PlaceFound
<1> HIDE DEF k
<1>3. /\ t \in Seq(R)
      /\ Len(t) = Len(s) + 1
      /\ \A i \in 1 .. Len(s) + 1 :
           t[i] = IF i <= k THEN s[i] ELSE IF i = k + 1 THEN e ELSE s[i - 1]
  <2>1. k \in 0 .. Len(s)
    BY <1>2
  <2>2. s \in Seq(R) /\ e \in R
    OBVIOUS
  <2>3. QED
    BY ONLY <2>1, <2>2, InsertShape
<1> HIDE DEF t
<1>4. \A i \in 1 .. Len(s) + 1 : i <= k => i \in 1 .. Len(s) /\ t[i] = s[i]
  BY <1>1, <1>2, <1>3
<1>5. k + 1 \in 1 .. Len(s) + 1 /\ t[k + 1] = e
  <2>1. k + 1 \in 1 .. Len(s) + 1 /\ ~(k + 1 <= k)
    BY <1>1, <1>2
  <2>2. QED
    BY <1>3, <2>1
<1>6. \A i \in 1 .. Len(s) + 1 : i > k + 1 => i - 1 \in 1 .. Len(s) /\ i - 1 > k /\ t[i] = s[i - 1]
  <2> SUFFICES ASSUME NEW i \in 1 .. Len(s) + 1, i > k + 1
               PROVE  i - 1 \in 1 .. Len(s) /\ i - 1 > k /\ t[i] = s[i - 1]
    OBVIOUS
  <2>1. i - 1 \in 1 .. Len(s) /\ i - 1 > k /\ ~(i <= k) /\ i # k + 1
    BY <1>1, <1>2
  <2>2. QED
    BY <1>3, <2>1
<1>7. \A i \in 1 .. Len(s) + 1 : i <= k \/ i = k + 1 \/ i > k + 1
  BY <1>1, <1>2
<1>8. Sorted(t)
  <2> SUFFICES ASSUME NEW i \in 1 .. Len(s) + 1, NEW j \in 1 .. Len(s) + 1, i < j
               PROVE  t[i].at <= t[j].at
    BY <1>3 DEF Sorted
  <2>1. CASE j <= k
    <3>1. i <= k
      BY <1>1, <1>2, <2>1
    <3>2. QED
      BY <1>4, <2>1, <3>1 DEF Sorted
  <2>2. CASE j = k + 1
    <3>1. i <= k
      BY <1>1, <1>2, <2>2
    <3>2. QED
      BY <1>2, <1>4, <1>5, <2>2, <3>1
  <2>3. CASE j > k + 1
    <3>1. e.at < s[j - 1].at
      BY <1>1, <1>2, <1>6, <2>3
    <3>2. CASE i <= k
      <4>1. s[i].at <= e.at
        BY <1>2, <1>4, <3>2
      <4>2. QED
        BY <1>1, <1>4, <1>6, <2>3, <3>1, <3>2, <4>1
    <3>3. CASE i = k + 1
      BY <1>1, <1>5, <1>6, <2>3, <3>1, <3>3
    <3>4. CASE i > k + 1
      <4>1. i - 1 < j - 1
        BY <1>1
      <4>2. QED
        BY <1>6, <2>3, <3>4, <4>1 DEF Sorted
    <3>5. QED
      BY <1>7, <3>2, <3>3, <3>4
  <2>4. QED
    BY <1>7, <2>1, <2>2, <2>3
<1>9. ToSet(t) = ToSet(s) \cup {e}
  <2>1. ToSet(t) = {t[i] : i \in 1 .. Len(s) + 1} /\ ToSet(s) = {s[i] : i \in 1 .. Len(s)}
    BY <1>3 DEF ToSet
  <2>2. ASSUME NEW i \in 1 .. Len(s) + 1 PROVE t[i] \in ToSet(s) \cup {e}
    BY <1>4, <1>5, <1>6, <1>7, <2>1
  <2>3. ASSUME NEW i \in 1 .. Len(s) PROVE s[i] \in ToSet(t)
    <3>1. CASE i <= k
      <4>1. i \in 1 .. Len(s) + 1
        BY <1>1
      <4>2. QED
        BY <1>4, <2>1, <3>1, <4>1
    <3>2. CASE ~(i <= k)
      <4>1. i + 1 \in 1 .. Len(s) + 1 /\ i + 1 > k + 1 /\ (i + 1) - 1 = i
        BY <1>1, <1>2, <3>2
      <4>2. QED
        BY <1>6, <2>1, <4>1
    <3>3. QED
      BY <3>1, <3>2
  <2>4. e \in ToSet(t)
    BY <1>5, <2>1
  <2>5. QED
    BY <2>1, <2>2, <2>3, <2>4
<1>10. ASSUME e \notin ToSet(s), Distinct(s) PROVE Distinct(t)
  <2> SUFFICES ASSUME NEW i \in 1 .. Len(s) + 1, NEW j \in 1 .. Len(s) + 1, i < j
               PROVE  t[i] # t[j]
    BY <1>3 DEF Distinct
  <2>1. \A m \in 1 .. Len(s) : s[m] # e
    BY <1>10 DEF ToSet
  <2>2. CASE j <= k
    <3>1. i <= k
      BY <1>1, <1>2, <2>2
    <3>2. QED
      BY <1>4, <1>10, <2>2, <3>1 DEF Distinct
  <2>3. CASE j = k + 1
    <3>1. i <= k
      BY <1>1, <1>2, <2>3
    <3>2. QED
      BY <1>4, <1>5, <2>1, <2>3, <3>1
  <2>4. CASE j > k + 1
    <3>1. CASE i <= k
      <4>1. i < j - 1
        BY <1>1, <1>2, <2>4, <3>1
      <4>2. QED
        BY <1>4, <1>6, <1>10, <2>4, <3>1, <4>1 DEF Distinct
    <3>2. CASE i = k + 1
      BY <1>5, <1>6, <2>1, <2>4, <3>2
    <3>3. CASE i > k + 1
      <4>1. i - 1 < j - 1
        BY <1>1
      <4>2. QED
        BY <1>6, <1>10, <2>4, <3>3, <4>1 DEF Distinct
    <3>4. QED
      BY <1>7, <3>1, <3>2, <3>3
  <2>5. QED
    BY <1>7, <2>2, <2>3, <2>4
<1>11. QED
  BY <1>3, <1>8, <1>9, <1>10 DEF k, t

\* What comes last in time is put last.
LEMMA PlacedLast ==
  ASSUME NEW R, Timed(R), NEW s \in Seq(R), Sorted(s), NEW e \in R,
         \A i \in 1 .. Len(s) : s[i].at <= e.at,
         NEW t, t = InsertAt(s, Place(s, e.at) + 1, e)
  PROVE  /\ Len(t) = Len(s) + 1
         /\ \A i \in 1 .. Len(s) : t[i] = s[i]
         /\ t[Len(s) + 1] = e
<1> DEFINE k == Place(s, e.at)
           m == Len(s)
<1>1. e.at \in Int /\ m \in Nat
  BY DEF Timed
<1>2. /\ k \in 0 .. m
      /\ \A i \in 1 .. m : i <= k <=> s[i].at <= e.at
  BY <1>1, PlaceFound
<1> HIDE DEF k
<1>3. k = m
  <2>1. CASE m = 0
    BY <1>2, <2>1
  <2>2. CASE m # 0
    <3>1. m \in 1 .. m
      BY <1>1, <2>2
    <3>2. m <= k
      BY <1>2, <3>1
    <3>3. QED
      BY <1>1, <1>2, <3>2
  <2>3. QED
    BY <2>1, <2>2
<1>4. /\ Len(t) = m + 1
      /\ \A i \in 1 .. m + 1 : t[i] = IF i <= k THEN s[i] ELSE IF i = k + 1 THEN e ELSE s[i - 1]
  BY <1>2, InsertShape DEF k
<1> HIDE DEF m
<1>5. \A i \in 1 .. m : i \in 1 .. m + 1 /\ i <= m
  BY <1>1
<1>6. m + 1 \in 1 .. m + 1 /\ ~(m + 1 <= m)
  BY <1>1
<1>7. t[m + 1] = e /\ \A i \in 1 .. m : t[i] = s[i]
  BY <1>3, <1>4, <1>5, <1>6
<1>8. QED
  BY <1>4, <1>7 DEF m

\* Sorting by insertion sorts, keeps what there is, repeats nothing, and leaves what
\* is sorted as it is.
LEMMA ByTimeShape ==
  ASSUME NEW R, Timed(R), NEW records \in Seq(R)
  PROVE  /\ ByTime(records) \in Seq(R)
         /\ Sorted(ByTime(records))
         /\ ToSet(ByTime(records)) = ToSet(records)
         /\ Distinct(records) => Distinct(ByTime(records))
         /\ Sorted(records) => ByTime(records) = records
<1> DEFINE n == Len(records)
           A == {s \in Seq(R) : Sorted(s)}
           Put(s, e) == InsertAt(s, Place(s, e.at) + 1, e)
           step == [p \in A \X (1 .. n) |-> Put(p[1], records[p[2]])]
           Same(s, i) == Len(s) = i /\ \A j \in 1 .. i : s[j] = records[j]
<1>1. n \in Nat /\ <<>> \in A
  BY DEF Sorted
<1>2. \A i \in 1 .. n : records[i] \in R
  OBVIOUS
<1>3. \A i \in 1 .. n : i # 0 /\ i \in 0 .. n /\ i - 1 \in 0 .. n
  BY <1>1
<1>4. \A i \in 0 .. n : i # 0 => i \in 1 .. n
  BY <1>1
<1>5. ASSUME NEW s \in A, NEW e \in R
      PROVE  /\ Put(s, e) \in A
             /\ ToSet(Put(s, e)) = ToSet(s) \cup {e}
             /\ e \notin ToSet(s) /\ Distinct(s) => Distinct(Put(s, e))
  BY PlacedShape
<1>6. ASSUME Sorted(records), NEW i \in 1 .. n, NEW s \in A, Same(s, i - 1)
      PROVE  Same(Put(s, records[i]), i)
  <2> DEFINE m == i - 1
             e == records[i]
             t == Put(s, e)
  <2>1. /\ Timed(R) /\ s \in Seq(R) /\ Sorted(s) /\ e \in R
        /\ Len(s) = m /\ m + 1 = i /\ \A j \in 1 .. m : s[j] = records[j]
    BY <1>6
  <2>2. \A j \in 1 .. m : j \in 1 .. n /\ j < i
    BY <1>1
  <2>3. \A j \in 1 .. Len(s) : s[j].at <= e.at
    BY <2>1, <2>2, <1>6 DEF Sorted
  <2> HIDE DEF m, e
  <2>4. Len(t) = m + 1 /\ t[m + 1] = e /\ \A j \in 1 .. m : t[j] = s[j]
    <3> HIDE DEF t
    <3>1. t = InsertAt(s, Place(s, e.at) + 1, e)
      BY DEF t, Put
    <3>2. /\ Len(t) = Len(s) + 1
          /\ \A j \in 1 .. Len(s) : t[j] = s[j]
          /\ t[Len(s) + 1] = e
      BY ONLY <2>1, <2>3, <3>1, PlacedLast
    <3>3. QED
      BY <2>1, <3>2
  <2> HIDE DEF t
  <2>5. \A j \in 1 .. i : j = i \/ j \in 1 .. m
    BY DEF m
  <2>6. Len(t) = i /\ \A j \in 1 .. i : t[j] = records[j]
    BY <2>1, <2>4, <2>5 DEF e
  <2>7. QED
    BY <2>6 DEF t, e
<1> HIDE DEF n, A, Put, Same
<1>7. step \in Steps(n, A)
  BY <1>1, <1>2, <1>5 DEF Steps
<1>8. \A a \in A : \A i \in 1 .. n : step[<<a, i>>] = Put(a, records[i])
  OBVIOUS
<1> HIDE DEF step
<1>9. PICK f \in [0 .. n -> A] : f[0] = <<>> /\ \A i \in 1 .. n : f[i] = step[<<f[i - 1], i>>]
  <2>1. Loops(n, A, <<>>, step) # {}
    BY ONLY <1>1, <1>7, Fold
  <2>2. QED
    BY <2>1 DEF Loops
<1>10. f = [i \in 0 .. n |-> IF i = 0 THEN <<>> ELSE Put(f[i - 1], records[i])]
  <2>1. \A i \in 1 .. n : f[i] = Put(f[i - 1], records[i])
    BY <1>3, <1>8, <1>9
  <2>2. \A i \in 0 .. n : f[i] = IF i = 0 THEN <<>> ELSE Put(f[i - 1], records[i])
    BY <1>4, <1>9, <2>1
  <2>3. QED
    BY <2>2
<1> DEFINE upTo[i \in 0 .. n] == IF i = 0 THEN <<>> ELSE Put(upTo[i - 1], records[i])
<1>11. upTo = [i \in 0 .. n |-> IF i = 0 THEN <<>> ELSE Put(upTo[i - 1], records[i])]
  BY <1>10
<1>12. ByTime(records) = upTo[n]
  BY DEF ByTime, n, Put
<1> HIDE DEF upTo
<1> DEFINE Good == {i \in 0 .. n : /\ upTo[i] \in A
                                   /\ ToSet(upTo[i]) = {records[j] : j \in 1 .. i}
                                   /\ Distinct(records) => Distinct(upTo[i])
                                   /\ Sorted(records) => Same(upTo[i], i)}
<1>13. 0 \in Good
  <2>1. upTo[0] = <<>>
    BY <1>1, <1>11
  <2>2. QED
    BY <1>1, <2>1 DEF ToSet, Distinct, Same
<1>14. ASSUME NEW i \in 1 .. n, i - 1 \in Good PROVE i \in Good
  <2> DEFINE s == upTo[i - 1]
             e == records[i]
  <2>1. {records[j] : j \in 1 .. i} = {records[j] : j \in 1 .. i - 1} \cup {records[i]}
    OBVIOUS
  <2>2. s \in A /\ ToSet(s) = {records[j] : j \in 1 .. i - 1}
    BY <1>14
  <2>3. Distinct(records) => Distinct(s)
    BY <1>14
  <2>4. upTo[i] = Put(s, e)
    BY <1>3, <1>11
  <2>5. e \in R
    BY <1>2
  <2>6. Distinct(records) => e \notin ToSet(s)
    BY <2>2 DEF Distinct, n
  <2>7. Sorted(records) => Same(Put(s, e), i)
    BY <1>6, <1>14, <2>2
  <2> HIDE DEF s, e, Good
  <2>8. upTo[i] \in A /\ ToSet(upTo[i]) = ToSet(s) \cup {e}
    BY <1>5, <2>2, <2>4, <2>5
  <2>9. Distinct(records) => Distinct(upTo[i])
    BY <1>5, <2>2, <2>3, <2>4, <2>5, <2>6
  <2>10. QED
    BY <1>3, <2>1, <2>2, <2>4, <2>7, <2>8, <2>9 DEF e, Good
<1>15. n \in Good
  <2> HIDE DEF Good
  <2>1. \A i \in 1 .. n : i - 1 \in Good => i \in Good
    BY <1>14
  <2>2. \A i \in 0 .. n : i \in Good
    BY <1>1, <1>13, <2>1, Climb
  <2>3. QED
    BY <1>1, <2>2
<1>16. ToSet(records) = {records[j] : j \in 1 .. n}
  BY DEF ToSet, n
<1>17. Sorted(records) => upTo[n] = records
  <2>1. upTo[n] \in Seq(R) /\ Len(records) = n
    BY <1>15 DEF A, n
  <2>2. Sorted(records) => Len(upTo[n]) = n /\ \A j \in 1 .. n : upTo[n][j] = records[j]
    BY <1>15 DEF Same
  <2>3. QED
    BY <2>1, <2>2, SeqEqual
<1>18. QED
  BY <1>12, <1>15, <1>16, <1>17 DEF A

\* What is pruned from a list is its front, up to the first recent time.
LEMMA PrunedShape ==
  ASSUME NEW times \in Seq(Nat), NEW moment \in Nat, NEW window \in Nat
  PROVE  \E k \in 1 .. Len(times) + 1 :
           /\ Pruned(times, moment, window) = SubSeq(times, k, Len(times))
           /\ k <= Len(times) => times[k] >= moment - window
           /\ \A i \in 1 .. k - 1 : times[i] < moment - window
<1> DEFINE I == {i \in 1 .. Len(times) : times[i] >= moment - window}
<1>1. CASE I = {}
  <2>1. Pruned(times, moment, window) = <<>>
    BY <1>1 DEF Pruned, SelectInSeq
  <2>2. SubSeq(times, Len(times) + 1, Len(times)) = <<>>
    OBVIOUS
  <2>3. Len(times) + 1 \in 1 .. Len(times) + 1 /\ ~(Len(times) + 1 <= Len(times))
    OBVIOUS
  <2>4. \A i \in 1 .. (Len(times) + 1) - 1 : times[i] < moment - window
    <3>1. \A i \in 1 .. Len(times) : ~(times[i] >= moment - window) /\ times[i] \in Int
      BY <1>1
    <3>2. QED
      BY <3>1
  <2>5. QED
    BY <2>1, <2>2, <2>3, <2>4
<1>2. CASE I # {}
  <2>1. I \in SUBSET Nat
    OBVIOUS
  <2>2. \E k \in I : \A m \in I : k <= m
    <3> HIDE DEF I
    <3> QED
      BY <1>2, <2>1, Least
  <2>3. Min(I) \in I /\ \A m \in I : Min(I) <= m
    <3> HIDE DEF I
    <3> QED
      BY <2>2 DEF Min
  <2>4. Pruned(times, moment, window) = SubSeq(times, Min(I), Len(times))
    <3>1. SelectInSeq(times, LAMBDA t : t >= moment - window) = Min(I)
      BY <1>2 DEF SelectInSeq
    <3>2. Min(I) # 0
      BY <2>3
    <3> HIDE DEF I
    <3>3. QED
      BY <3>1, <3>2 DEF Pruned
  <2>5. Min(I) \in 1 .. Len(times) + 1 /\ times[Min(I)] >= moment - window
    BY <2>3
  <2>6. \A i \in 1 .. Min(I) - 1 : times[i] < moment - window
    <3>1. \A i \in 1 .. Len(times) : i \notin I => times[i] < moment - window
      <4>1. \A i \in 1 .. Len(times) : times[i] \in Int
        OBVIOUS
      <4>2. QED
        BY <4>1
    <3>2. \A i \in 1 .. Min(I) - 1 : i \in 1 .. Len(times) /\ i \notin I
      <4>1. Min(I) \in 1 .. Len(times) /\ \A m \in I : Min(I) <= m
        BY <2>3
      <4> HIDE DEF I
      <4>2. QED
        BY <4>1
    <3>3. QED
      BY <3>1, <3>2
  <2>7. QED
    BY <2>4, <2>5, <2>6
<1>3. QED
  BY <1>1, <1>2

LEMMA PrunedPairsShape ==
  ASSUME NEW pairs \in Seq(Nat \X User), NEW moment \in Nat, NEW window \in Nat
  PROVE  \E k \in 1 .. Len(pairs) + 1 :
           /\ PrunedPairs(pairs, moment, window) = SubSeq(pairs, k, Len(pairs))
           /\ k <= Len(pairs) => pairs[k][1] >= moment - window
           /\ \A i \in 1 .. k - 1 : pairs[i][1] < moment - window
<1> DEFINE I == {i \in 1 .. Len(pairs) : pairs[i][1] >= moment - window}
<1>1. CASE I = {}
  <2>1. PrunedPairs(pairs, moment, window) = <<>>
    BY <1>1 DEF PrunedPairs, SelectInSeq
  <2>2. SubSeq(pairs, Len(pairs) + 1, Len(pairs)) = <<>>
    OBVIOUS
  <2>3. Len(pairs) + 1 \in 1 .. Len(pairs) + 1 /\ ~(Len(pairs) + 1 <= Len(pairs))
    OBVIOUS
  <2>4. \A i \in 1 .. (Len(pairs) + 1) - 1 : pairs[i][1] < moment - window
    <3>1. \A i \in 1 .. Len(pairs) : pairs[i][1] \in Int
      OBVIOUS
    <3>2. \A i \in 1 .. Len(pairs) : ~(pairs[i][1] >= moment - window)
      BY <1>1
    <3>3. QED
      BY <3>1, <3>2
  <2>5. QED
    BY <2>1, <2>2, <2>3, <2>4
<1>2. CASE I # {}
  <2>1. I \in SUBSET Nat
    OBVIOUS
  <2>2. \E k \in I : \A m \in I : k <= m
    <3> HIDE DEF I
    <3> QED
      BY <1>2, <2>1, Least
  <2>3. Min(I) \in I /\ \A m \in I : Min(I) <= m
    <3> HIDE DEF I
    <3> QED
      BY <2>2 DEF Min
  <2>4. PrunedPairs(pairs, moment, window) = SubSeq(pairs, Min(I), Len(pairs))
    <3>1. SelectInSeq(pairs, LAMBDA p : p[1] >= moment - window) = Min(I)
      BY <1>2 DEF SelectInSeq
    <3>2. Min(I) # 0
      BY <2>3
    <3> HIDE DEF I
    <3>3. QED
      BY <3>1, <3>2 DEF PrunedPairs
  <2>5. Min(I) \in 1 .. Len(pairs) + 1 /\ pairs[Min(I)][1] >= moment - window
    BY <2>3
  <2>6. \A i \in 1 .. Min(I) - 1 : pairs[i][1] < moment - window
    <3>1. \A i \in 1 .. Len(pairs) : i \notin I => pairs[i][1] < moment - window
      <4>1. \A i \in 1 .. Len(pairs) : pairs[i][1] \in Int
        OBVIOUS
      <4>2. QED
        BY <4>1
    <3>2. \A i \in 1 .. Min(I) - 1 : i \in 1 .. Len(pairs) /\ i \notin I
      <4>1. Min(I) \in 1 .. Len(pairs) /\ \A m \in I : Min(I) <= m
        BY <2>3
      <4> HIDE DEF I
      <4>2. QED
        BY <4>1
    <3>3. QED
      BY <3>1, <3>2
  <2>7. QED
    BY <2>4, <2>5, <2>6
<1>3. QED
  BY <1>1, <1>2

-----------------------------------------------------------------------------
(* The types of what the detector remembers. *)

LEMMA ListNames == List = {"auth", "mail", "errors", "sudo", "burst"}
BY DEF List, RuleOf

LEMMA SourceNames == Source = {"auth", "sudo", "nginx", "mail", "fail2ban"}
BY DEF Source, TypesOf

LEMMA WindowTyped ==
  /\ \A l \in List : Window[l] \in Nat
  /\ \A w \in {"users", "success", "probe_auth", "probe_ban", "sources"} : Window[w] \in Nat
BY WindowAssumption, ListNames DEF WindowNames

LEMMA PrunedTyped ==
  ASSUME NEW times \in Seq(Nat), NEW moment \in Nat, NEW window \in Nat
  PROVE  Pruned(times, moment, window) \in Seq(Nat)
<1>1. PICK k \in 1 .. Len(times) + 1 : Pruned(times, moment, window) = SubSeq(times, k, Len(times))
  BY PrunedShape
<1>2. SubSeq(times, k, Len(times)) \in Seq(Nat)
  OBVIOUS
<1>3. QED
  BY <1>1, <1>2

LEMMA PrunedPairsTyped ==
  ASSUME NEW pairs \in Seq(Nat \X User), NEW moment \in Nat, NEW window \in Nat
  PROVE  PrunedPairs(pairs, moment, window) \in Seq(Nat \X User)
<1>1. PICK k \in 1 .. Len(pairs) + 1 :
        PrunedPairs(pairs, moment, window) = SubSeq(pairs, k, Len(pairs))
  BY PrunedPairsShape
<1>2. SubSeq(pairs, k, Len(pairs)) \in Seq(Nat \X User)
  OBVIOUS
<1>3. QED
  BY <1>1, <1>2

LEMMA EmptyTyped == EmptyState \in [Key -> Memory]
<1>1. Fresh \in Memory
  BY DEF Fresh, Memory, Never
<1>2. QED
  BY <1>1 DEF EmptyState

LEMMA NotedTyped ==
  ASSUME NEW st \in [Key -> Memory], NEW r \in Record
  PROVE  Noted(st, r) \in Memory
<1> DEFINE d == st[r.key]
<1>1. r.key \in Key /\ r.at \in Nat /\ r.user \in User
  BY DEF Record
<1>2. /\ d \in Memory
      /\ d.times \in [List -> Seq(Nat)] /\ d.users \in Seq(Nat \X User)
      /\ d.activity \in [Activity -> Seq(Nat)]
  BY <1>1 DEF Memory
<1> HIDE DEF d
<1>3. NotedTimes(d, r) \in [List -> Seq(Nat)]
  <2>1. ASSUME NEW l \in List
        PROVE  /\ d.times[l] \in Seq(Nat) /\ Append(d.times[l], r.at) \in Seq(Nat)
               /\ Pruned(Append(d.times[l], r.at), r.at, Window[l]) \in Seq(Nat)
               /\ Pruned(d.times[l], r.at, Window["success"]) \in Seq(Nat)
    <3>1. d.times[l] \in Seq(Nat) /\ Append(d.times[l], r.at) \in Seq(Nat)
      BY <1>1, <1>2
    <3>2. QED
      BY <1>1, <3>1, WindowTyped, PrunedTyped
  <2>2. QED
    BY <2>1 DEF NotedTimes
<1>4. PrunedPairs(Append(d.users, <<r.at, r.user>>), r.at, Window["users"]) \in Seq(Nat \X User)
  <2>1. Append(d.users, <<r.at, r.user>>) \in Seq(Nat \X User)
    BY <1>1, <1>2
  <2>2. QED
    BY <1>1, <2>1, WindowTyped, PrunedPairsTyped
<1>5. NotedActivity(st, r) \in [Activity -> Seq(Nat)]
  <2>1. ASSUME NEW s \in Activity
        PROVE  /\ Pruned(d.activity[s], r.at, Window["sources"]) \in Seq(Nat)
               /\ Pruned(Append(d.activity[s], r.at), r.at, Window["sources"]) \in Seq(Nat)
    <3>1. d.activity[s] \in Seq(Nat) /\ Append(d.activity[s], r.at) \in Seq(Nat)
      BY <1>1, <1>2
    <3>2. QED
      BY <1>1, <3>1, WindowTyped, PrunedTyped
  <2>2. QED
    BY <2>1 DEF NotedActivity, d
<1>6. QED
  BY <1>1, <1>2, <1>3, <1>4, <1>5 DEF Noted, d, Memory

LEMMA ProcessedTyped ==
  ASSUME NEW st \in [Key -> Memory], NEW r \in Record
  PROVE  Processed(st, r) \in [Key -> Memory]
<1> DEFINE d == Noted(st, r)
<1>1. d \in Memory
  BY NotedTyped
<1>2. r.key \in Key
  BY DEF Record
<1>3. d.alerted \cup (Firing(d, r) \ Repeating) \in SUBSET Rule
  BY <1>1 DEF Firing, Memory
<1> HIDE DEF d
<1>4. [d EXCEPT !.alerted = @ \cup (Firing(d, r) \ Repeating)] \in Memory
  BY <1>1, <1>3 DEF Memory
<1>5. QED
  BY <1>2, <1>4 DEF Processed, d

\* A replay goes from one set of states to the next with each record.
LEMMA ReplayedIn ==
  ASSUME NEW st \in [Key -> Memory], NEW records \in Seq(Record),
         NEW stage \in [0 .. Len(records) -> SUBSET [Key -> Memory]], st \in stage[0],
         \A i \in 1 .. Len(records) : \A a \in stage[i - 1] : Processed(a, records[i]) \in stage[i]
  PROVE  Replayed(st, records) \in stage[Len(records)]
<1> DEFINE n == Len(records)
           A == [Key -> Memory]
           step == [p \in A \X (1 .. n) |-> Processed(p[1], records[p[2]])]
<1>1. n \in Nat /\ st \in A
  OBVIOUS
<1>2. \A i \in 1 .. n : records[i] \in Record
  OBVIOUS
<1>3. \A i \in 1 .. n : i # 0 /\ i \in 0 .. n /\ i - 1 \in 0 .. n
  BY <1>1
<1>4. \A i \in 0 .. n : i # 0 => i \in 1 .. n
  BY <1>1
<1>5. \A a \in A : \A i \in 1 .. n : Processed(a, records[i]) \in A
  BY <1>2, ProcessedTyped
<1> HIDE DEF n, A
<1>6. step \in Steps(n, A)
  BY <1>5 DEF Steps
<1>7. \A a \in A : \A i \in 1 .. n : step[<<a, i>>] = Processed(a, records[i])
  OBVIOUS
<1> HIDE DEF step
<1>8. PICK f \in [0 .. n -> A] : f[0] = st /\ \A i \in 1 .. n : f[i] = step[<<f[i - 1], i>>]
  <2>1. Loops(n, A, st, step) # {}
    BY ONLY <1>1, <1>6, Fold
  <2>2. QED
    BY <2>1 DEF Loops
<1>9. f = [i \in 0 .. n |-> IF i = 0 THEN st ELSE Processed(f[i - 1], records[i])]
  <2>1. \A i \in 1 .. n : f[i] = Processed(f[i - 1], records[i])
    BY <1>3, <1>7, <1>8
  <2>2. \A i \in 0 .. n : f[i] = IF i = 0 THEN st ELSE Processed(f[i - 1], records[i])
    BY <1>4, <1>8, <2>1
  <2>3. QED
    BY <2>2
<1> DEFINE upTo[i \in 0 .. n] == IF i = 0 THEN st ELSE Processed(upTo[i - 1], records[i])
<1>10. upTo = [i \in 0 .. n |-> IF i = 0 THEN st ELSE Processed(upTo[i - 1], records[i])]
  BY <1>9
<1>11. Replayed(st, records) = upTo[n]
  BY DEF Replayed, n
<1> HIDE DEF upTo
<1> DEFINE Good == {i \in 0 .. n : upTo[i] \in stage[i]}
<1>12. 0 \in Good
  BY <1>1, <1>10
<1>13. ASSUME NEW i \in 1 .. n, i - 1 \in Good PROVE i \in Good
  <2>1. upTo[i - 1] \in stage[i - 1]
    BY <1>13
  <2>2. upTo[i] = Processed(upTo[i - 1], records[i])
    BY <1>3, <1>10
  <2>3. Processed(upTo[i - 1], records[i]) \in stage[i]
    BY <2>1 DEF n
  <2>4. QED
    BY <1>3, <2>2, <2>3
<1>14. n \in Good
  <2> HIDE DEF Good
  <2>1. \A i \in 1 .. n : i - 1 \in Good => i \in Good
    BY <1>13
  <2>2. \A i \in 0 .. n : i \in Good
    BY <1>1, <1>12, <2>1, Climb
  <2>3. QED
    BY <1>1, <2>2
<1>15. QED
  BY <1>11, <1>14 DEF n

LEMMA ReplayedTyped ==
  ASSUME NEW st \in [Key -> Memory], NEW records \in Seq(Record)
  PROVE  Replayed(st, records) \in [Key -> Memory]
<1> DEFINE stage == [i \in 0 .. Len(records) |-> [Key -> Memory]]
<1>1. stage \in [0 .. Len(records) -> SUBSET [Key -> Memory]] /\ st \in stage[0]
  OBVIOUS
<1>2. \A i \in 1 .. Len(records) : \A a \in stage[i - 1] : Processed(a, records[i]) \in stage[i]
  <2> SUFFICES ASSUME NEW i \in 1 .. Len(records), NEW a \in stage[i - 1]
               PROVE  Processed(a, records[i]) \in stage[i]
    OBVIOUS
  <2>1. i \in 0 .. Len(records) /\ i - 1 \in 0 .. Len(records) /\ records[i] \in Record
    OBVIOUS
  <2>2. QED
    BY <2>1, ProcessedTyped
<1>3. stage[Len(records)] = [Key -> Memory]
  OBVIOUS
<1> HIDE DEF stage
<1>4. Replayed(st, records) \in stage[Len(records)]
  BY <1>1, <1>2, ReplayedIn
<1>5. QED
  BY <1>3, <1>4

LEMMA UsernamesFinite ==
  ASSUME NEW d \in Memory
  PROVE  IsFiniteSet(Usernames(d)) /\ Cardinality(Usernames(d)) \in Nat
<1> DEFINE f == [i \in 1 .. Len(d.users) |-> d.users[i][2]]
<1>1. d.users \in Seq(Nat \X User)
  BY DEF Memory
<1>2. Len(d.users) \in Nat /\ DOMAIN d.users = 1 .. Len(d.users)
  BY <1>1
<1>3. Usernames(d) = {f[i] : i \in 1 .. Len(d.users)}
  BY <1>2 DEF Usernames
<1> HIDE DEF f
<1>4. QED
  BY <1>2, <1>3, ListedFinite, FS_CardinalityType

LEMMA FindingsTyped ==
  ASSUME NEW st \in [Key -> Memory], NEW r \in Record
  PROVE  FindingsAt(st, r) \subseteq Finding
<1> DEFINE d == Noted(st, r)
<1>1. d \in Memory
  BY NotedTyped
<1>2. r.key \in Key /\ r.at \in 1 .. LastTime
  BY DEF Record
<1> HIDE DEF d
<1>3. ASSUME NEW rule \in Firing(d, r) PROVE Counted(d, r, rule) \in Nat
  <2>1. ASSUME NEW l \in List PROVE Len(d.times[l]) \in Nat
    BY <1>1 DEF Memory
  <2>2. ASSUME rule \in {RuleOf["auth"], RuleOf["mail"], RuleOf["sudo"], RuleOf["burst"]}
        PROVE  (CHOOSE l \in List : RuleOf[l] = rule) \in List
    BY <2>2, ListNames
  <2>3. ASSUME rule \in Repeating PROVE (CHOOSE l \in List : LooksBack(r, l)) \in List
    <3>1. Conditions(d, r)[rule]
      BY DEF Firing
    <3>2. CASE rule = "success_after_failures"
      <4>1. Conditions(d, r)["success_after_failures"]
        BY <3>1, <3>2
      <4>2. LooksBack(r, "auth")
        BY <4>1 DEF Conditions
      <4>3. QED
        BY <4>2, ListNames
    <3>3. CASE rule = "mail_success_after_failures"
      <4>1. Conditions(d, r)["mail_success_after_failures"]
        BY <3>1, <3>3
      <4>2. LooksBack(r, "mail")
        BY <4>1 DEF Conditions
      <4>3. QED
        BY <4>2, ListNames
    <3>4. QED
      BY <2>3, <3>2, <3>3 DEF Repeating
  <2>4. QED
    BY <1>1, <2>1, <2>2, <2>3, UsernamesFinite DEF Counted
<1>4. QED
  BY <1>2, <1>3 DEF FindingsAt, Findings, Finding, d

-----------------------------------------------------------------------------
(* The types of what a run collects. *)

\* A bounded set of times has a latest.
LEMMA MaxFound ==
  ASSUME NEW S \in SUBSET Nat, S # {}, NEW b \in Nat, \A m \in S : m <= b
  PROVE  Max(S) \in S /\ \A m \in S : m <= Max(S)
<1>1. \E x \in S : \A y \in S : x >= y
  <2>1. PICK x \in S : \A y \in S : y <= x
    BY Greatest
  <2>2. QED
    BY <2>1
<1>2. Max(S) \in S /\ \A y \in S : Max(S) >= y
  BY <1>1 DEF Max
<1>3. QED
  BY <1>2

LEMMA ConcatSet ==
  ASSUME NEW R, NEW s \in Seq(R), NEW t \in Seq(R)
  PROVE  s \o t \in Seq(R) /\ ToSet(s \o t) = ToSet(s) \cup ToSet(t)
<1> DEFINE u == s \o t
<1>1. /\ u \in Seq(R) /\ Len(u) = Len(s) + Len(t)
      /\ \A i \in 1 .. Len(s) + Len(t) : u[i] = IF i <= Len(s) THEN s[i] ELSE t[i - Len(s)]
  BY ConcatProperties
<1> HIDE DEF u
<1>2. Len(s) \in Nat /\ Len(t) \in Nat
  OBVIOUS
<1>3. /\ ToSet(u) = {u[i] : i \in 1 .. Len(s) + Len(t)}
      /\ ToSet(s) = {s[i] : i \in 1 .. Len(s)} /\ ToSet(t) = {t[i] : i \in 1 .. Len(t)}
  BY <1>1 DEF ToSet
<1>4. ASSUME NEW i \in 1 .. Len(s) + Len(t) PROVE u[i] \in ToSet(s) \cup ToSet(t)
  <2>1. CASE i <= Len(s)
    BY <1>1, <1>2, <1>3, <2>1
  <2>2. CASE ~(i <= Len(s))
    <3>1. i - Len(s) \in 1 .. Len(t)
      BY <1>2, <2>2
    <3>2. QED
      BY <1>1, <1>3, <2>2, <3>1
  <2>3. QED
    BY <2>1, <2>2
<1>5. ASSUME NEW i \in 1 .. Len(s) PROVE s[i] \in ToSet(u)
  <2>1. i \in 1 .. Len(s) + Len(t) /\ i <= Len(s)
    BY <1>2
  <2>2. QED
    BY <1>1, <1>3, <2>1
<1>6. ASSUME NEW i \in 1 .. Len(t) PROVE t[i] \in ToSet(u)
  <2>1. /\ i + Len(s) \in 1 .. Len(s) + Len(t) /\ ~(i + Len(s) <= Len(s))
        /\ (i + Len(s)) - Len(s) = i
    BY <1>2
  <2>2. QED
    BY <1>1, <1>3, <2>1
<1>7. ToSet(u) = ToSet(s) \cup ToSet(t)
  <2>1. ToSet(u) \subseteq ToSet(s) \cup ToSet(t)
    BY <1>3, <1>4
  <2>2. ToSet(s) \subseteq ToSet(u) /\ ToSet(t) \subseteq ToSet(u)
    BY <1>3, <1>5, <1>6
  <2>3. QED
    BY <2>1, <2>2
<1>8. QED
  BY <1>1, <1>7 DEF u

\* The clock stays in the years that a stamp may be read in.
LEMMA YearFacts ==
  /\ LastTime \in Nat /\ MaxTime <= LastTime /\ MaxTime \in Nat
  /\ \A t \in 1 .. MaxTime : \A a \in 1 .. t :
       Year(t) * YearLength + (a % YearLength) \in 1 .. LastTime
<1> DEFINE top == MaxTime \div YearLength
<1>1. YearLength \in Nat \ {0} /\ MaxTime \in Nat \ {0}
  BY YearAssumption, BoundAssumption
<1>2. top \in Nat /\ MaxTime < (top + 1) * YearLength
  BY <1>1
<1>3. (top + 1) * YearLength \in Nat
  BY <1>1, <1>2
<1>4. LastTime = (top + 1) * YearLength - 1
  BY DEF LastTime, Year
<1>5. LastTime \in Nat /\ MaxTime <= LastTime
  <2> HIDE DEF top
  <2> QED
    BY <1>1, <1>2, <1>3, <1>4
<1>6. ASSUME NEW t \in 1 .. MaxTime, NEW a \in 1 .. t
      PROVE  Year(t) * YearLength + (a % YearLength) \in 1 .. LastTime
  <2> DEFINE q == t \div YearLength
             m == a % YearLength
  <2>1. q \in Nat /\ m \in 0 .. YearLength - 1 /\ t \in Nat /\ a \in Nat
    BY <1>1
  <2>2. q <= top
    BY <1>1
  <2>3. q = 0 => m >= 1
    <3>1. q = 0 => t < YearLength
      BY <1>1
    <3>2. a < YearLength => m = a
      BY <1>1
    <3>3. QED
      BY <1>1, <3>1, <3>2
  <2> HIDE DEF q, m, top
  <2>4. q * YearLength + m <= (top + 1) * YearLength - 1
    BY <1>1, <1>2, <2>1, <2>2
  <2>5. q * YearLength + m >= 1
    <3>1. CASE q = 0
      BY <1>1, <2>1, <2>3, <3>1
    <3>2. CASE q >= 1
      BY <1>1, <2>1, <3>2
    <3>3. QED
      BY <2>1, <3>1, <3>2
  <2>6. q * YearLength + m \in Int
    BY <1>1, <2>1
  <2>7. q * YearLength + m \in 1 .. LastTime
    BY <1>4, <1>5, <2>4, <2>5, <2>6
  <2>8. QED
    BY <2>7 DEF q, m, Year
<1>7. QED
  BY <1>1, <1>5, <1>6

LEMMA RecordTimed == Timed(Record)
BY DEF Timed, Record

LEMMA ParsedTyped ==
  ASSUME now \in 1 .. MaxTime, NEW r \in Record, r.at <= now
  PROVE  Parsed(r) \in Record
<1>1. r.at \in 1 .. now
  BY YearFacts DEF Record
<1>2. Year(now) * YearLength + (r.at % YearLength) \in 1 .. LastTime
  BY <1>1, YearFacts
<1> DEFINE t == Year(now) * YearLength + (r.at % YearLength)
<1> HIDE DEF t
<1>3. [r EXCEPT !.at = t] \in Record
  BY <1>2 DEF Record, t
<1>4. QED
  BY <1>3 DEF Parsed, t

\* No row is later than the last.
LEMMA LastStoredIs ==
  ASSUME events \in Seq(Record), actions \in Seq(Record)
  PROVE  /\ Rows \subseteq Record
         /\ LastStored \in 0 .. LastTime
         /\ LastStored \in {r.at : r \in Rows} \cup {0}
         /\ \A r \in Rows : r.at <= LastStored
<1>1. Rows \subseteq Record
  BY DEF Rows, ToSet
<1> DEFINE S == {r.at : r \in Rows} \cup {0}
<1>2. S \in SUBSET Nat /\ S # {} /\ \A m \in S : m <= LastTime
  BY <1>1, YearFacts DEF Record
<1>3. \A r \in Rows : r.at \in S
  OBVIOUS
<1>4. LastStored = Max(S)
  BY DEF LastStored
<1>5. Max(S) \in S /\ \A m \in S : m <= Max(S)
  <2> HIDE DEF S
  <2> QED
    BY <1>2, MaxFound, YearFacts
<1>6. LastStored \in S /\ LastStored \in 0 .. LastTime
  <2> HIDE DEF S
  <2>1. LastStored \in S
    BY <1>4, <1>5
  <2>2. LastStored \in Nat /\ LastStored <= LastTime
    BY <1>2, <2>1
  <2>3. QED
    BY <2>1, <2>2, YearFacts
<1>7. \A r \in Rows : r.at <= LastStored
  <2> HIDE DEF S
  <2> QED
    BY <1>3, <1>4, <1>5
<1>8. QED
  BY <1>1, <1>6, <1>7

\* What a run has collected: in order, no older than where it began.
LEMMA CollectedShape ==
  ASSUME now \in 1 .. MaxTime, lines \in [Source -> Seq(Record)],
         \A s \in Source : \A r \in ToSet(lines[s]) : r.at <= now
  PROVE  /\ Collected \in Seq(Record)
         /\ Sorted(Collected)
         /\ \A i \in 1 .. Len(Collected) : Collected[i].at >= since
<1>1. Numbered \in Seq(Record) /\ \A r \in ToSet(Numbered) : r.at <= now
  <2>1. \A s \in Source : lines[s] \in Seq(Record)
    OBVIOUS
  <2> DEFINE a == lines["auth"] \o lines["sudo"]
             b == a \o lines["fail2ban"]
             c == b \o lines["nginx"]
  <2>2. a \in Seq(Record) /\ ToSet(a) = ToSet(lines["auth"]) \cup ToSet(lines["sudo"])
    BY <2>1, SourceNames, ConcatSet
  <2> HIDE DEF a
  <2>3. b \in Seq(Record) /\ ToSet(b) = ToSet(a) \cup ToSet(lines["fail2ban"])
    BY <2>1, <2>2, SourceNames, ConcatSet
  <2> HIDE DEF b
  <2>4. c \in Seq(Record) /\ ToSet(c) = ToSet(b) \cup ToSet(lines["nginx"])
    BY <2>1, <2>3, SourceNames, ConcatSet
  <2> HIDE DEF c
  <2>5. c \o lines["mail"] \in Seq(Record)
        /\ ToSet(c \o lines["mail"]) = ToSet(c) \cup ToSet(lines["mail"])
    BY <2>1, <2>4, SourceNames, ConcatSet
  <2>6. Numbered = c \o lines["mail"]
    BY DEF Numbered, a, b, c
  <2>7. QED
    BY <2>2, <2>3, <2>4, <2>5, <2>6, SourceNames
<1> DEFINE read == [i \in DOMAIN Numbered |-> Parsed(Numbered[i])]
           late == {r \in ToSet(read) : r.at >= since}
<1>2. read \in Seq(Record)
  <2>1. Len(Numbered) \in Nat /\ DOMAIN Numbered = 1 .. Len(Numbered)
    BY <1>1
  <2>2. \A i \in 1 .. Len(Numbered) : Parsed(Numbered[i]) \in Record
    <3>1. \A i \in 1 .. Len(Numbered) : Numbered[i] \in Record /\ Numbered[i].at <= now
      BY <1>1, <2>1 DEF ToSet
    <3>2. QED
      BY <3>1, ParsedTyped
  <2>3. QED
    BY <2>1, <2>2
<1>3. Collected = ByTime(Kept(read, late))
  BY DEF Collected
<1> HIDE DEF read, late
<1>4. Kept(read, late) \in Seq(Record) /\ ToSet(Kept(read, late)) = ToSet(read) \cap late
  BY <1>2, KeptShape
<1>5. /\ Collected \in Seq(Record) /\ Sorted(Collected)
      /\ ToSet(Collected) = ToSet(read) \cap late
  BY <1>3, <1>4, RecordTimed, ByTimeShape
<1>6. ASSUME NEW i \in 1 .. Len(Collected) PROVE Collected[i].at >= since
  <2>1. Collected[i] \in ToSet(Collected)
    BY <1>5 DEF ToSet
  <2>2. QED
    BY <1>5, <2>1 DEF late
<1>7. QED
  BY <1>5, <1>6

\* What the detector is warmed with.
LEMMA WarmedTyped ==
  ASSUME events \in Seq(Record), actions \in Seq(Record), NEW first
  PROVE  Warmed(first) \in [Key -> Memory]
<1>1. ASSUME NEW rows \in Seq(Record), NEW wanted
      PROVE  Kept(ByTime(rows), wanted) \in Seq(Record)
  BY RecordTimed, ByTimeShape, KeptShape
<1>2. ASSUME NEW evs \in Seq(Record), NEW acts \in Seq(Record)
      PROVE  Replayed(Replayed(EmptyState, evs), acts) \in [Key -> Memory]
  BY EmptyTyped, ReplayedTyped
<1>3. QED
  BY <1>1, <1>2 DEF Warmed

-----------------------------------------------------------------------------
(* Incidents. *)

\* What is stored of a key.
StoredOf(key) == {e \in Located : e.key = key}

\* What the drafts of a key are at a time: runs of what is stored up to then.
AreRuns(ds, key, time) ==
  /\ \A p \in 1 .. Len(ds) : ds[p] # {}
  /\ UNION ToSet(ds) = {e \in StoredOf(key) : e.at <= time}
  /\ \A p, q \in 1 .. Len(ds) : p < q =>
       \A e \in ds[p], d \in ds[q] : d.at - e.at > Gap
  /\ \A p \in 1 .. Len(ds) : \A e \in ds[p] :
       \/ \A d \in ds[p] : d.at <= e.at
       \/ \E d \in ds[p] : d.at > e.at /\ d.at - e.at <= Gap

LocatedTyped == \A e \in Located : e.at \in 1 .. LastTime

\* The times of a draft have a latest.
LEMMA EndTimeIs ==
  ASSUME LocatedTyped, NEW draft \in SUBSET Located, draft # {}
  PROVE  /\ \E e \in draft : e.at = EndTime(draft)
         /\ \A e \in draft : e.at <= EndTime(draft)
<1> DEFINE S == {e.at : e \in draft}
<1>1. S \in SUBSET Nat /\ S # {} /\ \A m \in S : m <= LastTime
  BY YearFacts DEF LocatedTyped
<1>2. Max(S) \in S /\ \A m \in S : m <= Max(S)
  <2> HIDE DEF S
  <2> QED
    BY <1>1, MaxFound, YearFacts
<1>3. EndTime(draft) = Max(S)
  BY DEF EndTime
<1>4. QED
  BY <1>2, <1>3

\* A second more of the loop: nothing, a new run, or the last one goes on.
LEMMA DraftedRuns ==
  ASSUME LocatedTyped, NEW key, NEW ds \in Seq(SUBSET Located), NEW time \in 1 .. LastTime,
         AreRuns(ds, key, time - 1)
  PROVE  AreRuns(Drafted(ds, key, time), key, time)
<1> DEFINE M == Moment(key, time)
           u == Drafted(ds, key, time)
           n == Len(ds)
<1>1. M = {e \in StoredOf(key) : e.at = time}
  BY DEF Moment, StoredOf
<1>2. {e \in StoredOf(key) : e.at <= time} = {e \in StoredOf(key) : e.at <= time - 1} \cup M
  BY <1>1 DEF StoredOf, LocatedTyped
<1>3. n \in Nat /\ \A p \in 1 .. n : ds[p] \subseteq Located /\ ds[p] # {}
  BY DEF AreRuns
<1>4. \A p \in 1 .. n : \A e \in ds[p] : e.at \in Int /\ e.at < time
  <2> SUFFICES ASSUME NEW p \in 1 .. n, NEW e \in ds[p] PROVE e.at \in Int /\ e.at < time
    OBVIOUS
  <2>1. ds[p] \in ToSet(ds)
    BY DEF ToSet
  <2>2. e \in StoredOf(key) /\ e.at <= time - 1
    BY <2>1 DEF AreRuns
  <2>3. QED
    BY <2>2 DEF StoredOf, LocatedTyped
<1>5. Gap \in Nat /\ time \in Int
  BY IncidentAssumption
<1>6. \A e \in M : e.at = time
  BY <1>1
<1>7. CASE M = {}
  <2>1. u = ds
    BY <1>7 DEF Drafted
  <2>2. UNION ToSet(ds) = {e \in StoredOf(key) : e.at <= time}
    BY <1>2, <1>7 DEF AreRuns
  <2>3. QED
    BY <2>1, <2>2 DEF AreRuns
<1>8. CASE M # {} /\ StartsNew(ds, time)
  <2>1. u = Append(ds, M)
    BY <1>8 DEF Drafted
  <2>2. Len(u) = n + 1 /\ u[n + 1] = M /\ \A p \in 1 .. n : u[p] = ds[p]
    BY <1>3, <2>1
  <2>3. \A p \in 1 .. n + 1 : p \in 1 .. n \/ p = n + 1
    BY <1>3
  <2>4. UNION ToSet(u) = (UNION ToSet(ds)) \cup M
    <3>1. M \in SUBSET Located
      BY DEF Moment
    <3>2. ToSet(u) = ToSet(ds) \cup {M}
      BY <2>1, <3>1, AppendSet
    <3> HIDE DEF u, M
    <3>3. QED
      BY <3>2
  <2> HIDE DEF u, M
  <2>5. ASSUME NEW p \in 1 .. n, NEW e \in ds[p] PROVE time - e.at > Gap
    <3>1. ds # <<>> /\ n \in 1 .. n /\ Last(ds) = ds[n] /\ n >= 1
      BY <1>3, <2>5 DEF Last
    <3>2. time - EndTime(ds[n]) > Gap
      BY <1>8, <3>1 DEF StartsNew
    <3>3. PICK z \in ds[n] : z.at = EndTime(ds[n])
      BY <1>3, <3>1, EndTimeIs
    <3>4. \A d \in ds[n] : d.at <= EndTime(ds[n])
      BY <1>3, <3>1, EndTimeIs
    <3>5. CASE p = n
      BY <1>4, <1>5, <3>1, <3>2, <3>3, <3>4, <3>5
    <3>6. CASE p # n
      <4>1. z.at - e.at > Gap
        BY <1>3, <3>1, <3>6 DEF AreRuns
      <4>2. QED
        BY <1>4, <1>5, <3>1, <3>2, <3>3, <4>1
    <3>7. QED
      BY <3>5, <3>6
  <2>6. \A p \in 1 .. Len(u) : u[p] # {}
    BY <1>3, <1>8, <2>2, <2>3
  <2>7. UNION ToSet(u) = {e \in StoredOf(key) : e.at <= time}
    BY <1>2, <2>4 DEF AreRuns
  <2>8. ASSUME NEW p \in 1 .. Len(u), NEW q \in 1 .. Len(u), p < q, NEW e \in u[p], NEW d \in u[q]
        PROVE  d.at - e.at > Gap
    <3>1. p \in 1 .. n /\ u[p] = ds[p]
      BY <1>3, <2>2, <2>8
    <3>2. CASE q \in 1 .. n
      BY <2>2, <2>8, <3>1, <3>2 DEF AreRuns
    <3>3. CASE q = n + 1
      BY <1>6, <2>2, <2>5, <2>8, <3>1, <3>3
    <3>4. QED
      BY <2>2, <2>3, <3>2, <3>3
  <2>9. ASSUME NEW p \in 1 .. Len(u), NEW e \in u[p]
        PROVE  \/ \A d \in u[p] : d.at <= e.at
               \/ \E d \in u[p] : d.at > e.at /\ d.at - e.at <= Gap
    <3>1. CASE p \in 1 .. n
      BY <2>2, <3>1 DEF AreRuns
    <3>2. CASE p = n + 1
      BY <1>5, <1>6, <2>2, <3>2
    <3>3. QED
      BY <2>2, <2>3, <3>1, <3>2
  <2>10. QED
    BY <2>6, <2>7, <2>8, <2>9 DEF AreRuns, u
<1>9. CASE M # {} /\ ~StartsNew(ds, time)
  <2>1. u = [ds EXCEPT ![n] = @ \cup M]
    BY <1>9 DEF Drafted
  <2>2. ds # <<>> /\ n \in 1 .. n /\ Last(ds) = ds[n]
    BY <1>3, <1>9 DEF StartsNew, Last
  <2>3. time - EndTime(ds[n]) <= Gap
    <3>1. EndTime(ds[n]) \in Int
      <4>1. PICK z \in ds[n] : z.at = EndTime(ds[n])
        BY <1>3, <2>2, EndTimeIs
      <4>2. QED
        BY <1>4, <2>2, <4>1
    <3>2. QED
      BY <1>5, <1>9, <2>2, <3>1 DEF StartsNew
  <2>4. Len(u) = n /\ u[n] = ds[n] \cup M /\ \A p \in 1 .. n : p # n => u[p] = ds[p]
    BY <1>3, <2>1, <2>2
  <2>5. UNION ToSet(u) = (UNION ToSet(ds)) \cup M
    <3>1. DOMAIN u = 1 .. n /\ DOMAIN ds = 1 .. n
      BY <1>3, <2>1
    <3> HIDE DEF u, M
    <3>2. ToSet(u) = {u[p] : p \in 1 .. n} /\ ToSet(ds) = {ds[p] : p \in 1 .. n}
      BY <3>1 DEF ToSet
    <3>3. \A e : e \in UNION ToSet(u) <=> e \in (UNION ToSet(ds)) \cup M
      BY <2>2, <2>4, <3>2
    <3>4. QED
      BY <3>3
  <2> HIDE DEF u, M
  <2>6. \A p \in 1 .. Len(u) : u[p] # {}
    BY <1>3, <2>2, <2>4
  <2>7. UNION ToSet(u) = {e \in StoredOf(key) : e.at <= time}
    BY <1>2, <2>5 DEF AreRuns
  <2>8. ASSUME NEW p \in 1 .. Len(u), NEW q \in 1 .. Len(u), p < q, NEW e \in u[p], NEW d \in u[q]
        PROVE  d.at - e.at > Gap
    <3>1. p \in 1 .. n /\ q \in 1 .. n /\ p # n /\ u[p] = ds[p]
      BY <1>3, <2>4, <2>8
    <3>2. CASE d \in ds[q]
      BY <2>8, <3>1, <3>2 DEF AreRuns
    <3>3. CASE d \notin ds[q]
      <4>1. q = n /\ d \in M
        BY <2>4, <2>8, <3>1, <3>3
      <4>2. PICK z \in ds[n] : TRUE
        BY <1>3, <2>2
      <4>3. z.at - e.at > Gap /\ z.at < time /\ z.at \in Int /\ e.at \in Int
        BY <1>4, <2>2, <2>8, <3>1, <4>1 DEF AreRuns
      <4>4. QED
        BY <1>5, <1>6, <4>1, <4>3
    <3>4. QED
      BY <3>2, <3>3
  <2>9. ASSUME NEW p \in 1 .. Len(u), NEW e \in u[p]
        PROVE  \/ \A d \in u[p] : d.at <= e.at
               \/ \E d \in u[p] : d.at > e.at /\ d.at - e.at <= Gap
    <3>1. CASE p # n
      BY <2>4, <3>1 DEF AreRuns
    <3>2. CASE p = n /\ e \in M
      <4>1. \A d \in u[n] : d.at <= e.at
        BY <1>4, <1>5, <1>6, <2>2, <2>4, <3>2
      <4>2. QED
        BY <3>2, <4>1
    <3>3. CASE p = n /\ e \notin M
      <4>1. e \in ds[n]
        BY <2>4, <3>3
      <4>2. CASE \A d \in ds[n] : d.at <= e.at
        <5>1. e.at >= EndTime(ds[n]) /\ EndTime(ds[n]) \in Int
          <6>1. PICK z \in ds[n] : z.at = EndTime(ds[n])
            BY <1>3, <2>2, EndTimeIs
          <6>2. QED
            BY <1>4, <2>2, <4>1, <4>2, <6>1
        <5>2. PICK d \in M : TRUE
          BY <1>9
        <5>3. d.at > e.at /\ d.at - e.at <= Gap
          BY <1>4, <1>5, <1>6, <2>2, <2>3, <4>1, <5>1
        <5>4. QED
          BY <2>4, <3>3, <5>3
      <4>3. CASE ~(\A d \in ds[n] : d.at <= e.at)
        <5>1. \E d \in ds[n] : d.at > e.at /\ d.at - e.at <= Gap
          BY <2>2, <4>1, <4>3 DEF AreRuns
        <5>2. QED
          BY <2>4, <3>3, <5>1
      <4>4. QED
        BY <4>2, <4>3
    <3>4. QED
      BY <3>1, <3>2, <3>3
  <2>10. QED
    BY <2>6, <2>7, <2>8, <2>9 DEF AreRuns, u
<1>10. QED
  BY <1>7, <1>8, <1>9

\* The whole loop leaves the runs of all that is stored of a key.
LEMMA DraftsRuns ==
  ASSUME LocatedTyped, NEW key
  PROVE  Drafts(key) \in Seq(SUBSET Located) /\ AreRuns(Drafts(key), key, LastTime)
<1> DEFINE n == LastTime
           A == Seq(SUBSET Located)
           step == [p \in A \X (1 .. n) |-> Drafted(p[1], key, p[2])]
<1>1. n \in Nat /\ <<>> \in A
  BY YearFacts
<1>2. \A i \in 1 .. n : i # 0 /\ i \in 0 .. n /\ i - 1 \in 0 .. n
  BY <1>1
<1>3. \A i \in 0 .. n : i # 0 => i \in 1 .. n
  BY <1>1
<1>4. ASSUME NEW a \in A, NEW i \in 1 .. n PROVE Drafted(a, key, i) \in A
  <2> DEFINE M == Moment(key, i)
  <2>1. M \in SUBSET Located
    BY DEF Moment
  <2>2. Append(a, M) \in A
    BY <2>1
  <2>3. a # <<>> => [a EXCEPT ![Len(a)] = @ \cup M] \in A
    <3> SUFFICES ASSUME a # <<>> PROVE [a EXCEPT ![Len(a)] = @ \cup M] \in A
      OBVIOUS
    <3>1. Len(a) \in 1 .. Len(a) /\ a[Len(a)] \cup M \in SUBSET Located
      BY <2>1
    <3> HIDE DEF M
    <3>2. QED
      BY <3>1, ExceptSeq
  <2> HIDE DEF M
  <2>4. QED
    BY <2>2, <2>3 DEF Drafted, StartsNew, M
<1> HIDE DEF n, A
<1>5. step \in Steps(n, A)
  BY <1>4 DEF Steps
<1>6. \A a \in A : \A i \in 1 .. n : step[<<a, i>>] = Drafted(a, key, i)
  OBVIOUS
<1> HIDE DEF step
<1>7. PICK f \in [0 .. n -> A] : f[0] = <<>> /\ \A i \in 1 .. n : f[i] = step[<<f[i - 1], i>>]
  <2>1. Loops(n, A, <<>>, step) # {}
    BY ONLY <1>1, <1>5, Fold
  <2>2. QED
    BY <2>1 DEF Loops
<1>8. f = [i \in 0 .. n |-> IF i = 0 THEN <<>> ELSE Drafted(f[i - 1], key, i)]
  <2>1. \A i \in 1 .. n : f[i] = Drafted(f[i - 1], key, i)
    BY <1>2, <1>6, <1>7
  <2>2. \A i \in 0 .. n : f[i] = IF i = 0 THEN <<>> ELSE Drafted(f[i - 1], key, i)
    BY <1>3, <1>7, <2>1
  <2>3. QED
    BY <2>2
<1> DEFINE upTo[t \in 0 .. n] == IF t = 0 THEN <<>> ELSE Drafted(upTo[t - 1], key, t)
<1>9. upTo = [t \in 0 .. n |-> IF t = 0 THEN <<>> ELSE Drafted(upTo[t - 1], key, t)]
  BY <1>8
<1>10. Drafts(key) = upTo[n]
  BY DEF Drafts, n
<1> HIDE DEF upTo
<1> DEFINE Good == {i \in 0 .. n : upTo[i] \in A /\ AreRuns(upTo[i], key, i)}
<1>11. 0 \in Good
  <2>1. upTo[0] = <<>>
    BY <1>1, <1>9
  <2>2. {e \in StoredOf(key) : e.at <= 0} = {}
    BY DEF StoredOf, LocatedTyped
  <2>3. AreRuns(<<>>, key, 0)
    BY <2>2 DEF AreRuns, ToSet
  <2>4. QED
    BY <1>1, <2>1, <2>3
<1>12. ASSUME NEW i \in 1 .. n, i - 1 \in Good PROVE i \in Good
  <2>1. upTo[i - 1] \in A /\ AreRuns(upTo[i - 1], key, i - 1)
    BY <1>12
  <2>2. upTo[i] = Drafted(upTo[i - 1], key, i)
    BY <1>2, <1>9
  <2>3. AreRuns(upTo[i], key, i)
    BY <2>1, <2>2, DraftedRuns DEF A, n
  <2>4. QED
    BY <1>2, <1>4, <2>1, <2>2, <2>3
<1>13. n \in Good
  <2> HIDE DEF Good
  <2>1. \A i \in 1 .. n : i - 1 \in Good => i \in Good
    BY <1>12
  <2>2. \A i \in 0 .. n : i \in Good
    BY <1>1, <1>11, <2>1, Climb
  <2>3. QED
    BY <1>1, <2>2
<1>14. QED
  BY <1>10, <1>13 DEF n, A

\* What IncidentsAreRuns says of a set of incidents.
ExactRuns(I) ==
  /\ Located \cap findings \subseteq UNION I
  /\ \A i \in I : \A d \in Located \ i :
       ~\E e \in i : d.key = e.key /\ d.at - e.at \in -Gap .. Gap
  /\ \A i \in I : \A e \in i :
       \/ e.at = EndTime(i)
       \/ \E d \in i : d.key = e.key /\ d.at > e.at /\ d.at - e.at <= Gap
  /\ \A i, j \in I : i # j => i \cap j = {}

\* A draft is one of the runs of its key.
LEMMA DraftOf ==
  ASSUME LocatedTyped, NEW i \in Rebuilt
  PROVE  \E key \in Key : \E p \in 1 .. Len(Drafts(key)) : i = Drafts(key)[p]
<1>1. PICK key \in Key : i \in ToSet(Drafts(key))
  BY DEF Rebuilt
<1>2. DOMAIN Drafts(key) = 1 .. Len(Drafts(key))
  BY DraftsRuns
<1>3. QED
  BY <1>1, <1>2 DEF ToSet

\* Each thing stored of a key is in a run of it, and only that is.
LEMMA InSomeRun ==
  ASSUME LocatedTyped, NEW key
  PROVE  /\ \A e \in StoredOf(key) : \E p \in 1 .. Len(Drafts(key)) : e \in Drafts(key)[p]
         /\ \A p \in 1 .. Len(Drafts(key)) : Drafts(key)[p] \subseteq StoredOf(key)
         /\ DOMAIN Drafts(key) = 1 .. Len(Drafts(key))
<1> DEFINE ds == Drafts(key)
<1>1. ds \in Seq(SUBSET Located) /\ AreRuns(ds, key, LastTime)
  BY DraftsRuns
<1> HIDE DEF ds
<1>2. DOMAIN ds = 1 .. Len(ds) /\ ToSet(ds) = {ds[p] : p \in 1 .. Len(ds)}
  BY <1>1 DEF ToSet
<1>3. UNION ToSet(ds) = StoredOf(key)
  BY <1>1 DEF AreRuns, StoredOf, LocatedTyped
<1>4. \A e \in StoredOf(key) : \E p \in 1 .. Len(ds) : e \in ds[p]
  BY <1>2, <1>3
<1>5. \A p \in 1 .. Len(ds) : ds[p] \subseteq StoredOf(key)
  BY <1>2, <1>3
<1>6. QED
  BY <1>2, <1>4, <1>5 DEF ds

LEMMA RebuiltRuns ==
  ASSUME LocatedTyped, \A f \in findings : f.key \in Key
  PROVE  ExactRuns(Rebuilt)
<1>1. ASSUME NEW key, NEW p \in 1 .. Len(Drafts(key)), NEW q \in 1 .. Len(Drafts(key)), p # q,
             NEW e \in Drafts(key)[p], NEW d \in Drafts(key)[q]
      PROVE  ~(d.at - e.at \in -Gap .. Gap)
  <2>1. AreRuns(Drafts(key), key, LastTime)
    BY DraftsRuns
  <2>2. e.at \in Int /\ d.at \in Int /\ Gap \in Nat
    <3>1. e \in Located /\ d \in Located
      BY InSomeRun DEF StoredOf
    <3>2. QED
      BY <3>1, IncidentAssumption DEF LocatedTyped
  <2>3. p < q \/ q < p
    BY <1>1
  <2>4. d.at - e.at > Gap \/ e.at - d.at > Gap
    BY <2>1, <2>3 DEF AreRuns
  <2>5. QED
    BY <2>2, <2>4
<1>2. Located \cap findings \subseteq UNION Rebuilt
  <2> SUFFICES ASSUME NEW f \in Located \cap findings PROVE f \in UNION Rebuilt
    OBVIOUS
  <2>1. f \in StoredOf(f.key) /\ f.key \in Key
    BY DEF StoredOf
  <2>2. PICK p \in 1 .. Len(Drafts(f.key)) : f \in Drafts(f.key)[p]
    BY <2>1, InSomeRun
  <2>3. Drafts(f.key)[p] \in ToSet(Drafts(f.key))
    BY InSomeRun DEF ToSet
  <2>4. Relevant(Drafts(f.key)[p])
    BY <2>2 DEF Relevant
  <2>5. Drafts(f.key)[p] \in Rebuilt
    BY <2>1, <2>3, <2>4 DEF Rebuilt
  <2>6. QED
    BY <2>2, <2>5
<1>3. ASSUME NEW i \in Rebuilt, NEW d \in Located \ i, NEW e \in i, d.key = e.key
      PROVE  ~(d.at - e.at \in -Gap .. Gap)
  <2>1. PICK key \in Key : \E p \in 1 .. Len(Drafts(key)) : i = Drafts(key)[p]
    BY DraftOf
  <2>2. PICK p \in 1 .. Len(Drafts(key)) : i = Drafts(key)[p]
    BY <2>1
  <2>3. d \in StoredOf(key)
    BY <1>3, <2>2, InSomeRun DEF StoredOf
  <2>4. PICK q \in 1 .. Len(Drafts(key)) : d \in Drafts(key)[q]
    BY <2>3, InSomeRun
  <2>5. p # q
    BY <2>2, <2>4
  <2>6. QED
    BY <1>1, <2>2, <2>4, <2>5
<1>4. ASSUME NEW i \in Rebuilt, NEW e \in i
      PROVE  \/ e.at = EndTime(i)
             \/ \E d \in i : d.key = e.key /\ d.at > e.at /\ d.at - e.at <= Gap
  <2>1. PICK key \in Key : \E p \in 1 .. Len(Drafts(key)) : i = Drafts(key)[p]
    BY DraftOf
  <2>2. PICK p \in 1 .. Len(Drafts(key)) : i = Drafts(key)[p]
    BY <2>1
  <2>3. AreRuns(Drafts(key), key, LastTime)
    BY DraftsRuns
  <2>4. i \subseteq StoredOf(key) /\ i \in SUBSET Located
    BY <2>2, InSomeRun DEF StoredOf
  <2>5. CASE \A d \in i : d.at <= e.at
    <3>1. PICK z \in i : z.at = EndTime(i)
      BY <2>4, EndTimeIs
    <3>2. e.at <= EndTime(i) /\ EndTime(i) <= e.at /\ e.at \in Int /\ EndTime(i) \in Int
      BY <2>4, <2>5, <3>1, EndTimeIs DEF LocatedTyped
    <3>3. QED
      BY <3>2
  <2>6. CASE \E d \in i : d.at > e.at /\ d.at - e.at <= Gap
    BY <2>4, <2>6 DEF StoredOf
  <2>7. QED
    BY <2>2, <2>3, <2>5, <2>6 DEF AreRuns
<1>5. ASSUME NEW i \in Rebuilt, NEW j \in Rebuilt, i # j, NEW e, e \in i, e \in j PROVE FALSE
  <2>1. PICK key \in Key : \E p \in 1 .. Len(Drafts(key)) : i = Drafts(key)[p]
    BY DraftOf
  <2>2. PICK other \in Key : \E q \in 1 .. Len(Drafts(other)) : j = Drafts(other)[q]
    BY DraftOf
  <2>3. e.key = key /\ e.key = other
    BY <1>5, <2>1, <2>2, InSomeRun DEF StoredOf
  <2>4. PICK p \in 1 .. Len(Drafts(key)) : i = Drafts(key)[p]
    BY <2>1
  <2>5. PICK q \in 1 .. Len(Drafts(key)) : j = Drafts(key)[q]
    BY <2>2, <2>3
  <2>6. p # q
    BY <1>5, <2>4, <2>5
  <2>7. e \in Drafts(key)[p] /\ e \in Drafts(key)[q]
    BY <1>5, <2>4, <2>5
  <2>8. ~(e.at - e.at \in -Gap .. Gap)
    BY <1>1, <2>6, <2>7
  <2>9. e.at \in Int /\ Gap \in Nat
    BY <2>7, InSomeRun, IncidentAssumption DEF StoredOf, LocatedTyped
  <2>10. QED
    BY <2>8, <2>9
<1>6. QED
  BY <1>2, <1>3, <1>4, <1>5 DEF ExactRuns

-----------------------------------------------------------------------------
(* Type correctness. *)

\* What the journal has, and what was collected of it, was logged by now.
LoggedByNow ==
  /\ \A r \in ToSet(journal) : r.at <= now
  /\ \A s \in Source : \A r \in ToSet(lines[s]) : r.at <= now

TypeInv == TypeOK /\ LoggedByNow

LEMMA NoLinesTyped ==
  /\ NoLines \in [Source -> Seq(Record)]
  /\ \A s \in Source : ToSet(NoLines[s]) = {}
BY DEF NoLines, ToSet

LEMMA LocatedIs == TypeOK => LocatedTyped
<1> SUFFICES ASSUME TypeOK, NEW e \in Located PROVE e.at \in 1 .. LastTime
  BY DEF LocatedTyped
<1>1. e \in Record \/ e \in Finding
  BY DEF TypeOK, Located, Rows, ToSet
<1>2. QED
  BY <1>1 DEF Record, Finding

LEMMA RebuiltTyped ==
  ASSUME TypeOK
  PROVE  \A i \in Rebuilt : i \subseteq Record \cup Finding /\ i # {}
<1> SUFFICES ASSUME NEW i \in Rebuilt PROVE i \subseteq Record \cup Finding /\ i # {}
  OBVIOUS
<1>1. LocatedTyped
  BY LocatedIs
<1>2. PICK key \in Key : \E p \in 1 .. Len(Drafts(key)) : i = Drafts(key)[p]
  BY <1>1, DraftOf
<1>3. PICK p \in 1 .. Len(Drafts(key)) : i = Drafts(key)[p]
  BY <1>2
<1>4. i # {}
  BY <1>1, <1>3, DraftsRuns DEF AreRuns
<1>5. i \subseteq Located
  BY <1>1, <1>3, InSomeRun DEF StoredOf
<1>6. Located \subseteq Record \cup Finding
  BY DEF TypeOK, Located, Rows, ToSet
<1>7. QED
  BY <1>4, <1>5, <1>6

LEMMA InitType == Init => TypeInv
<1> SUFFICES ASSUME Init PROVE TypeInv
  OBVIOUS
<1>1. now \in 1 .. MaxTime /\ 0 \in (1 - FirstSpan) .. LastTime
  BY BoundAssumption, YearFacts DEF Init
<1>2. <<>> \in Seq(Record) /\ <<>> \in Seq(Source) /\ ToSet(<<>>) = {}
  BY DEF ToSet
<1>3. QED
  BY <1>1, <1>2, EmptyTyped, NoLinesTyped DEF Init, TypeInv, TypeOK, LoggedByNow

\* A run that is over leaves nothing.
LEMMA EndRunType ==
  ASSUME EndRun
  PROVE  /\ pc' = "idle" /\ mode' = "daemon" /\ since' \in (1 - FirstSpan) .. LastTime
         /\ waiting' \in Seq(Source) /\ lines' \in [Source -> Seq(Record)]
         /\ (\A s \in Source : ToSet(lines'[s]) = {})
         /\ batch' = <<>> /\ batch' \in Seq(Record) /\ state' \in [Key -> Memory]
         /\ pending' = {} /\ fresh' = {}
BY EmptyTyped, NoLinesTyped, BoundAssumption, YearFacts DEF EndRun

LEMMA SinceTyped ==
  ASSUME TypeOK
  PROVE  SinceLastRun \in (1 - FirstSpan) .. LastTime /\ 0 \in (1 - FirstSpan) .. LastTime
<1>1. LastStored \in 0 .. LastTime
  BY LastStoredIs DEF TypeOK
<1>2. now \in 1 .. MaxTime
  BY DEF TypeOK
<1>3. QED
  BY <1>1, <1>2, BoundAssumption, YearFacts DEF SinceLastRun

LEMMA BeginType ==
  ASSUME TypeInv, BeginTick \/ BeginCli
  PROVE  TypeInv'
<1>1. Units \o <<"sudo">> \in Seq(Source)
  <2>1. Units \in Seq(Source) /\ <<"sudo">> \in Seq(Source)
    BY UnitsAssumption, SourceNames
  <2>2. QED
    BY <2>1
<1>2. since' \in (1 - FirstSpan) .. LastTime
  BY SinceTyped DEF TypeInv, BeginTick, BeginCli
<1>3. QED
  BY <1>1, <1>2 DEF TypeInv, TypeOK, LoggedByNow, BeginTick, BeginCli, dbVars

LEMMA HostType ==
  ASSUME TypeInv, ClockTick \/ \E l \in Line : Log(l)
  PROVE  TypeInv'
<1> USE DEF TypeInv, TypeOK, LoggedByNow, dbVars, runVars
<1>1. CASE ClockTick
  <2>1. now' \in 1 .. MaxTime /\ now <= now'
    BY <1>1, BoundAssumption DEF ClockTick
  <2>2. \A r \in Record : r.at <= now => r.at <= now'
    BY <2>1 DEF Record
  <2>3. ToSet(journal) \subseteq Record /\ \A s \in Source : ToSet(lines[s]) \subseteq Record
    BY DEF ToSet
  <2>4. QED
    BY <1>1, <2>1, <2>2, <2>3 DEF ClockTick
<1>2. ASSUME NEW l \in Line, Log(l) PROVE TypeInv'
  <2> DEFINE r == [type |-> l.type, key |-> l.key, user |-> l.user, error |-> l.error,
                   raw |-> l.raw, at |-> now]
  <2>1. now \in 1 .. LastTime
    BY YearFacts
  <2>2. r \in Record
    BY <2>1, LineAssumption DEF Record
  <2>3. r.at = now
    OBVIOUS
  <2> HIDE DEF r
  <2>4. journal' = Append(journal, r)
    BY <1>2 DEF Log, r
  <2>5. journal' \in Seq(Record) /\ ToSet(journal') = ToSet(journal) \cup {r}
    BY <2>2, <2>4, AppendSet
  <2>6. QED
    BY <1>2, <2>1, <2>3, <2>5 DEF Log
<1>3. QED
  BY <1>1, <1>2

LEMMA CollectType ==
  ASSUME TypeInv, Collect
  PROVE  TypeInv'
<1> USE DEF TypeInv, TypeOK, LoggedByNow, dbVars
<1>1. Head(waiting) \in Source /\ Tail(waiting) \in Seq(Source)
  BY HeadTailProperties DEF Collect
<1> DEFINE wanted == {r \in ToSet(journal) : From(r, Head(waiting)) /\ r.at >= since}
<1>2. /\ Kept(journal, wanted) \in Seq(Record)
      /\ ToSet(Kept(journal, wanted)) = ToSet(journal) \cap wanted
  BY KeptShape
<1>3. CASE lines' = [lines EXCEPT ![Head(waiting)] = Kept(journal, wanted)]
  <2> HIDE DEF wanted
  <2>1. lines' \in [Source -> Seq(Record)]
    BY <1>1, <1>2, <1>3
  <2>2. \A s \in Source : \A r \in ToSet(lines'[s]) : r.at <= now
    BY <1>1, <1>2, <1>3
  <2>3. QED
    BY <1>1, <2>1, <2>2 DEF Collect
<1>4. CASE UNCHANGED lines
  BY <1>1, <1>4 DEF Collect
<1>5. QED
  BY <1>3, <1>4 DEF Collect

LEMMA SeedType ==
  ASSUME TypeInv, Seed
  PROVE  TypeInv'
<1> USE DEF TypeInv, TypeOK, LoggedByNow, dbVars
<1>1. Collected \in Seq(Record)
  BY CollectedShape
<1>2. state' \in [Key -> Memory]
  <2>1. \A first : Warmed(first) \in [Key -> Memory]
    BY WarmedTyped
  <2>2. QED
    BY <2>1, EmptyTyped DEF Seed
<1>3. 0 \in (1 - FirstSpan) .. LastTime
  BY SinceTyped
<1>4. QED
  BY <1>1, <1>2, <1>3, NoLinesTyped DEF Seed

LEMMA ProcessType ==
  ASSUME TypeInv, ProcessRecord
  PROVE  TypeInv'
<1> USE DEF TypeInv, TypeOK, LoggedByNow
<1> DEFINE r == Head(batch)
<1>1. r \in Record /\ Tail(batch) \in Seq(Record)
  BY HeadTailProperties DEF ProcessRecord
<1>2. Processed(state, r) \in [Key -> Memory] /\ FindingsAt(state, r) \subseteq Finding
  BY <1>1, ProcessedTyped, FindingsTyped
<1>3. Append(events, r) \in Seq(Record) /\ Append(actions, r) \in Seq(Record)
  BY <1>1
<1> HIDE DEF r
<1>4. /\ state' = state \/ state' = Processed(state, r)
      /\ pending' = pending \/ pending' = FindingsAt(state, r)
      /\ events' = events \/ events' = Append(events, r)
      /\ actions' = actions \/ actions' = Append(actions, r)
      /\ batch' = Tail(batch)
  BY DEF ProcessRecord, r
<1>5. QED
  BY <1>1, <1>2, <1>3, <1>4 DEF ProcessRecord

LEMMA RestType ==
  ASSUME TypeInv,
         (\E f \in pending : InsertFinding(f)) \/ Rebuild \/ Report \/ Finish \/ Fail
  PROVE  TypeInv'
<1> USE DEF TypeInv, TypeOK, LoggedByNow, dbVars, runVars
<1>1. CASE \E f \in pending : InsertFinding(f)
  BY <1>1 DEF InsertFinding
<1>2. CASE Rebuild
  BY <1>2, RebuiltTyped, EmptyTyped DEF Rebuild
<1>3. CASE Report
  BY <1>3, RebuiltTyped DEF Report
<1>4. CASE Finish
  BY <1>4, EndRunType DEF Finish
<1>5. CASE Fail
  BY <1>5, EndRunType DEF Fail
<1>6. QED
  BY <1>1, <1>2, <1>3, <1>4, <1>5

LEMMA NextType == TypeInv /\ [Next]_vars => TypeInv'
<1> SUFFICES ASSUME TypeInv, [Next]_vars PROVE TypeInv'
  OBVIOUS
<1>1. CASE UNCHANGED vars
  BY <1>1 DEF TypeInv, TypeOK, LoggedByNow, vars, dbVars, runVars
<1>2. CASE Next
  BY <1>2, HostType, BeginType, CollectType, SeedType, ProcessType, RestType DEF Next
<1>3. QED
  BY <1>1, <1>2

\* Every row, finding, incident and memory of the detector is of its set, whatever
\* the windows, the thresholds and the year that a stamp is read in.
THEOREM TypeCorrect == Spec => []TypeOK
<1>1. Init => TypeInv
  BY InitType
<1>2. TypeInv /\ [Next]_vars => TypeInv'
  BY NextType
<1>3. TypeInv => TypeOK
  BY DEF TypeInv
<1>4. QED
  BY <1>1, <1>2, <1>3, PTL DEF Spec

-----------------------------------------------------------------------------
(* The cursor. *)

\* While a run collects, since is no earlier than any row; its batch is in order,
\* and no earlier than any row either.  Otherwise there is no batch.
CursorInv ==
  /\ pc # "process" => batch = <<>>
  /\ pc = "collect" => \A r \in Rows : r.at <= since
  /\ Sorted(batch)
  /\ \A i \in 1 .. Len(batch) : \A r \in Rows : r.at <= batch[i].at

\* What one record more makes of the rows.
LEMMA RowsGrow ==
  ASSUME TypeOK, ProcessRecord
  PROVE  /\ Head(batch) \in Record
         /\ Rows' = Rows \/ Rows' = Rows \cup {Head(batch)}
<1>1. Head(batch) \in Record
  BY HeadTailProperties DEF TypeOK, ProcessRecord
<1> DEFINE r == Head(batch)
<1>2. /\ ToSet(Append(events, r)) = ToSet(events) \cup {r}
      /\ ToSet(Append(actions, r)) = ToSet(actions) \cup {r}
  BY <1>1, AppendSet DEF TypeOK
<1> HIDE DEF r
<1>3. \/ events' = events /\ actions' = actions
      \/ events' = Append(events, r) /\ actions' = actions
      \/ events' = events /\ actions' = Append(actions, r)
  BY DEF ProcessRecord, r
<1>4. Rows' = Rows \/ Rows' = Rows \cup {r}
  BY <1>2, <1>3 DEF Rows
<1>5. QED
  BY <1>1, <1>4 DEF r

LEMMA InitCursor == Init => CursorInv
BY DEF Init, CursorInv, Sorted, Rows, ToSet

LEMMA NextCursor ==
  ASSUME "all" \notin CliSince, TypeInv, CursorInv, [Next]_vars
  PROVE  CursorInv'
<1> USE DEF TypeInv, TypeOK
<1>1. ASSUME UNCHANGED <<events, actions, batch, since, pc>> PROVE CursorInv'
  BY <1>1 DEF CursorInv, Sorted, Rows
<1>2. ASSUME pc' = "idle" \/ pc' = "alert", batch' = <<>>, UNCHANGED <<events, actions>>
      PROVE CursorInv'
  BY <1>2 DEF CursorInv, Sorted
<1>3. CASE BeginTick \/ BeginCli
  <2>1. /\ since' = SinceLastRun /\ pc' = "collect" /\ batch' = <<>>
        /\ UNCHANGED <<events, actions>>
    BY <1>3, ModesAssumption DEF BeginTick, BeginCli, dbVars, CursorInv
  <2>2. \A r \in Rows : r.at <= SinceLastRun
    BY LastStoredIs DEF SinceLastRun
  <2>3. QED
    BY <2>1, <2>2 DEF CursorInv, Sorted, Rows
<1>4. CASE Collect
  BY <1>1, <1>4 DEF Collect, dbVars
<1>5. CASE Seed
  <2>1. /\ pc' = "process" /\ batch' = Collected /\ pc = "collect"
        /\ UNCHANGED <<events, actions>>
    BY <1>5 DEF Seed, dbVars
  <2>2. /\ Collected \in Seq(Record) /\ Sorted(Collected)
        /\ \A i \in 1 .. Len(Collected) : Collected[i].at >= since
    BY CollectedShape DEF LoggedByNow
  <2>3. Rows \subseteq Record /\ since \in Int
    BY LastStoredIs
  <2>4. ASSUME NEW i \in 1 .. Len(Collected), NEW r \in Rows PROVE r.at <= Collected[i].at
    <3>1. r.at <= since /\ Collected[i].at >= since
      BY <2>1, <2>2 DEF CursorInv
    <3>2. Collected[i] \in Record
      BY <2>2
    <3>3. QED
      BY <2>3, <3>1, <3>2 DEF Record
  <2>5. QED
    BY <2>1, <2>2, <2>4 DEF CursorInv, Rows
<1>6. CASE ProcessRecord
  <2>1. batch # <<>> /\ batch \in Seq(Record) /\ batch' = Tail(batch) /\ UNCHANGED pc
        /\ pc = "process"
    BY <1>6 DEF ProcessRecord
  <2>2. /\ Len(batch) \in Nat /\ Head(batch) = batch[1] /\ 1 \in 1 .. Len(batch)
        /\ Len(batch') = Len(batch) - 1
        /\ \A i \in 1 .. Len(batch') : batch'[i] = batch[i + 1]
    BY <2>1, HeadTailProperties
  <2>3. \A i \in 1 .. Len(batch') : i + 1 \in 1 .. Len(batch) /\ 1 < i + 1
    BY <2>2
  <2>4. Sorted(batch')
    <3> SUFFICES ASSUME NEW i \in 1 .. Len(batch'), NEW j \in 1 .. Len(batch'), i < j
                 PROVE  batch'[i].at <= batch'[j].at
      BY DEF Sorted
    <3>1. i + 1 < j + 1
      OBVIOUS
    <3>2. QED
      BY <2>2, <2>3, <3>1 DEF CursorInv, Sorted
  <2>5. ASSUME NEW i \in 1 .. Len(batch'), NEW r \in Rows' PROVE r.at <= batch'[i].at
    <3>1. CASE r \in Rows
      BY <2>2, <2>3, <3>1 DEF CursorInv
    <3>2. CASE r = batch[1]
      BY <2>2, <2>3, <3>2 DEF CursorInv, Sorted
    <3>3. QED
      BY <1>6, <2>2, <3>1, <3>2, RowsGrow
  <2>6. QED
    BY <2>1, <2>4, <2>5 DEF CursorInv
<1>7. CASE Rebuild
  BY <1>2, <1>7 DEF Rebuild
<1>8. CASE Finish
  BY <1>2, <1>8, EndRunType DEF Finish, dbVars
<1>9. CASE Fail
  BY <1>2, <1>9, EndRunType DEF Fail, dbVars
<1>10. CASE ClockTick \/ \E l \in Line : Log(l)
  BY <1>1, <1>10 DEF ClockTick, Log, dbVars, runVars
<1>11. CASE Report
  BY <1>1, <1>11 DEF Report, runVars
<1>12. CASE \E f \in pending : InsertFinding(f)
  BY <1>1, <1>12 DEF InsertFinding
<1>13. CASE UNCHANGED vars
  BY <1>1, <1>13 DEF vars, dbVars, runVars
<1>14. QED
  BY <1>3, <1>4, <1>5, <1>6, <1>7, <1>8, <1>9, <1>10, <1>11, <1>12, <1>13 DEF Next

LEMMA CursorHolds ==
  ASSUME TypeInv, CursorInv
  PROVE  NoneBehindCursor
<1>1. batch \in Seq(Record) /\ DOMAIN batch = 1 .. Len(batch)
  BY DEF TypeInv, TypeOK
<1>2. LastStored \in {r.at : r \in Rows} \cup {0}
  BY LastStoredIs DEF TypeInv, TypeOK
<1>3. ASSUME NEW i \in 1 .. Len(batch) PROVE batch[i].at >= LastStored
  <2>1. batch[i] \in Record
    BY <1>1
  <2>2. \A r \in Rows : r.at <= batch[i].at
    BY DEF CursorInv
  <2>3. batch[i].at >= 0
    BY <2>1 DEF Record
  <2>4. QED
    BY <1>2, <2>2, <2>3
<1>4. QED
  BY <1>1, <1>3 DEF NoneBehindCursor

\* While no command line collects from the beginning, nothing that a run has
\* yet to store is older than the last row, whichever sources fail, whatever
\* year the lines are read in and wherever earlier runs ended: so the next run,
\* which starts there, collects it again.
THEOREM CursorCorrect ==
  ASSUME "all" \notin CliSince
  PROVE  Spec => []NoneBehindCursor
<1>1. Init => TypeInv /\ CursorInv
  BY InitType, InitCursor
<1>2. TypeInv /\ CursorInv /\ [Next]_vars => (TypeInv /\ CursorInv)'
  BY NextType, NextCursor
<1>3. TypeInv /\ CursorInv => NoneBehindCursor
  BY CursorHolds
<1>4. QED
  BY <1>1, <1>2, <1>3, PTL DEF Spec

-----------------------------------------------------------------------------
(* The incidents of a rebuild. *)

\* From its rebuild until it alerts a run has the incidents of what is stored.
IncidentsInv == pc = "alert" => ExactRuns(incidents)

LEMMA NextIncidents ==
  ASSUME TypeInv, IncidentsInv, [Next]_vars
  PROVE  IncidentsInv'
<1> SUFFICES ASSUME pc' = "alert" PROVE ExactRuns(incidents)'
  BY DEF IncidentsInv
<1>1. CASE UNCHANGED vars
  BY <1>1 DEF vars, dbVars, runVars, IncidentsInv, ExactRuns, Located, Rows
<1>2. CASE Rebuild
  <2>1. ExactRuns(Rebuilt)
    BY RebuiltRuns, LocatedIs DEF TypeInv, TypeOK, Finding
  <2>2. incidents' = Rebuilt /\ UNCHANGED <<events, actions, findings>>
    BY <1>2 DEF Rebuild
  <2>3. QED
    BY <2>1, <2>2 DEF ExactRuns, Located, Rows
<1>3. CASE Next /\ ~Rebuild
  BY <1>3 DEF Next, Log, ClockTick, HostMoves, BeginTick, BeginCli, Collect, Seed, ProcessRecord,
              InsertFinding, Report, Finish, Fail, EndRun, runVars, dbVars
<1>4. QED
  BY <1>1, <1>2, <1>3

\* A rebuild cuts what is stored of each address exactly at the long gaps: a
\* finding is in an incident, incidents share nothing and are further apart than
\* the gap, and none has a longer one within; for any gap, rows and findings.
THEOREM IncidentsCorrect == Spec => []IncidentsAreRuns
<1>1. Init => TypeInv /\ IncidentsInv
  BY InitType DEF Init, IncidentsInv
<1>2. TypeInv /\ IncidentsInv /\ [Next]_vars => (TypeInv /\ IncidentsInv)'
  BY NextType, NextIncidents
<1>3. IncidentsInv => IncidentsAreRuns
  BY DEF IncidentsInv, IncidentsAreRuns, ExactRuns
<1>4. QED
  BY <1>1, <1>2, <1>3, PTL DEF Spec
=============================================================================
