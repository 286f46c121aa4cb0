------------------------------ MODULE AlarmProofs ------------------------------
(***************************************************************************)
(* Proofs about what the detector's findings in Ingestion rest on, for any *)
(* keys, users, windows, thresholds and enabled rules, and any number of   *)
(* runs, some of which fail: no false alarm, and none missed.              *)
(***************************************************************************)
EXTENDS IngestionProofs

-----------------------------------------------------------------------------
(* Lists of times, and the rows that back them. *)

InOrder(times) == \A i, j \in 1 .. Len(times) : i < j => times[i] <= times[j]

\* The places of a list, each with a row of its own that has its time.
Backing(T, times) ==
  {g \in [1 .. Len(times) -> T] :
     /\ \A i, j \in 1 .. Len(times) : g[i] = g[j] => i = j
     /\ \A i \in 1 .. Len(times) : g[i].at = times[i]}

Backed(T, times) == InOrder(times) /\ Backing(T, times) # {}

LEMMA NothingBacked ==
  ASSUME NEW T
  PROVE  Backed(T, <<>>)
<1> DEFINE g == [i \in 1 .. Len(<<>>) |-> 0]
<1>1. g \in Backing(T, <<>>)
  BY DEF Backing
<1>2. QED
  BY <1>1 DEF Backed, InOrder

\* More rows back what fewer do.
LEMMA BackedByMore ==
  ASSUME NEW T, NEW U, T \subseteq U, NEW times, Backed(T, times)
  PROVE  Backed(U, times)
<1>1. PICK g \in Backing(T, times) : TRUE
  BY DEF Backed
<1>2. g \in [1 .. Len(times) -> U]
  BY <1>1 DEF Backing
<1>3. g \in Backing(U, times)
  BY <1>1, <1>2 DEF Backing
<1>4. QED
  BY <1>3 DEF Backed

\* A list is no longer than the rows that back it are many.
LEMMA BackedFew ==
  ASSUME NEW T, IsFiniteSet(T), NEW times \in Seq(Nat), Backed(T, times)
  PROVE  Len(times) <= Cardinality(T)
<1>1. PICK g \in Backing(T, times) : TRUE
  BY DEF Backed
<1>2. /\ g \in [1 .. Len(times) -> T]
      /\ \A i, j \in 1 .. Len(times) : g[i] = g[j] => i = j
  BY <1>1 DEF Backing
<1>3. Len(times) \in Nat
  OBVIOUS
<1>4. QED
  BY <1>2, <1>3, ListedFew

\* One row more, later than the others, backs one place more.
LEMMA BackedAppend ==
  ASSUME NEW T, NEW times \in Seq(Nat), Backed(T, times),
         NEW r, r \notin T, r.at \in Nat, \A s \in T : s.at <= r.at
  PROVE  Backed(T \cup {r}, Append(times, r.at))
<1> DEFINE n == Len(times)
           new == Append(times, r.at)
<1>1. PICK g \in Backing(T, times) : TRUE
  BY DEF Backed
<1>2. /\ g \in [1 .. n -> T]
      /\ \A i, j \in 1 .. n : g[i] = g[j] => i = j
      /\ \A i \in 1 .. n : g[i].at = times[i]
  BY <1>1 DEF Backing
<1>3. /\ n \in Nat /\ Len(new) = n + 1
      /\ \A i \in 1 .. n : new[i] = times[i]
      /\ new[n + 1] = r.at
  BY AppendProperties
<1>4. \A i \in 1 .. n : times[i] \in Nat /\ times[i] <= r.at
  BY <1>2
<1>5. \A i, j \in 1 .. n : i < j => times[i] <= times[j]
  BY DEF Backed, InOrder
<1> DEFINE h == [i \in 1 .. n + 1 |-> IF i = n + 1 THEN r ELSE g[i]]
<1> HIDE DEF new, n
<1>6. InOrder(new)
  <2> SUFFICES ASSUME NEW i \in 1 .. n + 1, NEW j \in 1 .. n + 1, i < j PROVE new[i] <= new[j]
    BY <1>3 DEF InOrder
  <2>1. i \in 1 .. n
    BY <1>3
  <2>2. CASE j = n + 1
    BY <1>3, <1>4, <2>1, <2>2
  <2>3. CASE j # n + 1
    <3>1. j \in 1 .. n
      BY <1>3, <2>3
    <3>2. QED
      BY <1>3, <1>5, <2>1, <3>1
  <2>4. QED
    BY <2>2, <2>3
<1>7. \A i \in 1 .. n + 1 : i # n + 1 => i \in 1 .. n
  BY <1>3
<1>8. h \in [1 .. n + 1 -> T \cup {r}]
  BY <1>2, <1>7
<1>9. \A i \in 1 .. n : h[i] = g[i] /\ h[i] \in T
  BY <1>2, <1>3
<1>10. h[n + 1] = r
  BY <1>3
<1> HIDE DEF h
<1>11. \A i, j \in 1 .. n + 1 : h[i] = h[j] => i = j
  BY <1>2, <1>7, <1>9, <1>10
<1>12. \A i \in 1 .. n + 1 : h[i].at = new[i]
  BY <1>2, <1>3, <1>7, <1>9, <1>10
<1>13. h \in Backing(T \cup {r}, new)
  BY <1>3, <1>8, <1>11, <1>12 DEF Backing
<1>14. QED
  BY <1>6, <1>13 DEF Backed, new

\* What the window leaves of a list is backed by the rows in the window.
LEMMA BackedPruned ==
  ASSUME NEW T, NEW times \in Seq(Nat), Backed(T, times),
         NEW moment \in Nat, NEW window \in Nat
  PROVE  Backed({s \in T : s.at >= moment - window}, Pruned(times, moment, window))
<1> DEFINE n == Len(times)
           left == Pruned(times, moment, window)
           U == {s \in T : s.at >= moment - window}
<1>1. PICK g \in Backing(T, times) : TRUE
  BY DEF Backed
<1>2. /\ g \in [1 .. n -> T]
      /\ \A i, j \in 1 .. n : g[i] = g[j] => i = j
      /\ \A i \in 1 .. n : g[i].at = times[i]
  BY <1>1 DEF Backing
<1>3. PICK k \in 1 .. n + 1 : /\ left = SubSeq(times, k, n)
                              /\ k <= n => times[k] >= moment - window
  BY PrunedShape
<1> DEFINE m == n - k + 1
<1>4. n \in Nat /\ m \in Nat /\ k \in Nat
  OBVIOUS
<1>5. Len(left) = m /\ \A i \in 1 .. m : left[i] = times[i + (k - 1)]
  BY <1>3
<1>6. \A i \in 1 .. n : times[i] \in Nat
  OBVIOUS
<1>7. \A i, j \in 1 .. n : i < j => times[i] <= times[j]
  BY DEF Backed, InOrder
<1> HIDE DEF left, n
<1>8. \A i \in 1 .. m : i + (k - 1) \in 1 .. n /\ k <= i + (k - 1) /\ k \in 1 .. n
  BY <1>4
<1>9. ASSUME NEW i \in 1 .. m PROVE times[i + (k - 1)] >= moment - window
  <2>1. times[k] >= moment - window /\ times[k] \in Nat /\ times[i + (k - 1)] \in Nat
    BY <1>3, <1>4, <1>6, <1>8
  <2>2. times[k] <= times[i + (k - 1)]
    BY <1>6, <1>7, <1>8, <2>1
  <2>3. QED
    BY <2>1, <2>2
<1>10. ASSUME NEW i \in 1 .. m, NEW j \in 1 .. m, i < j PROVE left[i] <= left[j]
  <2>1. i + (k - 1) < j + (k - 1)
    BY <1>4, <1>10
  <2>2. QED
    BY <1>5, <1>7, <1>8, <2>1
<1> DEFINE h == [i \in 1 .. m |-> g[i + (k - 1)]]
<1>11. \A i \in 1 .. m : h[i] \in U /\ h[i].at = left[i]
  BY <1>2, <1>5, <1>8, <1>9
<1>12. ASSUME NEW i \in 1 .. m, NEW j \in 1 .. m, h[i] = h[j] PROVE i = j
  <2>1. i + (k - 1) = j + (k - 1)
    BY <1>2, <1>8, <1>12
  <2>2. QED
    BY <1>4, <2>1
<1>13. h \in Backing(U, left)
  <2>1. h \in [1 .. m -> U]
    BY <1>11
  <2> HIDE DEF h, U, m
  <2>2. QED
    BY <1>5, <1>11, <1>12, <2>1 DEF Backing
<1>14. InOrder(left)
  <2> HIDE DEF m
  <2> QED
    BY <1>5, <1>10 DEF InOrder
<1>15. QED
  BY <1>13, <1>14 DEF Backed, left, U

\* The mail accounts of a list of pairs, each named by a row of that time.
Names(s, pair) == s.at = pair[1] /\ s.user = pair[2] /\ s.user # ""
Named(T, pairs) ==
  /\ \A i, j \in 1 .. Len(pairs) : i < j => pairs[i][1] <= pairs[j][1]
  /\ \A i \in 1 .. Len(pairs) :
       \E s \in T : Names(s, pairs[i])

LEMMA NamedByMore ==
  ASSUME NEW T, NEW U, T \subseteq U, NEW pairs, Named(T, pairs)
  PROVE  Named(U, pairs)
BY DEF Named

LEMMA NamedAppend ==
  ASSUME NEW T, NEW pairs \in Seq(Nat \X User), Named(T, pairs),
         NEW U, T \subseteq U, NEW pair \in Nat \X User,
         \E s \in U : Names(s, pair),
         \A s \in T : s.at <= pair[1]
  PROVE  Named(U, Append(pairs, pair))
<1> DEFINE n == Len(pairs)
           new == Append(pairs, pair)
<1>1. /\ n \in Nat /\ Len(new) = n + 1
      /\ \A i \in 1 .. n : new[i] = pairs[i]
      /\ new[n + 1] = pair
  BY AppendProperties
<1>2. /\ \A i, j \in 1 .. n : i < j => pairs[i][1] <= pairs[j][1]
      /\ \A i \in 1 .. n : \E s \in T : Names(s, pairs[i])
  BY DEF Named
<1>3. \A i \in 1 .. n : pairs[i][1] \in Nat /\ pairs[i][1] <= pair[1]
  <2>1. \A i \in 1 .. n : pairs[i][1] \in Nat
    OBVIOUS
  <2>2. ASSUME NEW i \in 1 .. n PROVE pairs[i][1] <= pair[1]
    <3>1. PICK s \in T : Names(s, pairs[i])
      BY <1>2
    <3>2. s.at = pairs[i][1]
      BY <3>1 DEF Names
    <3>3. s.at <= pair[1]
      BY <3>1
    <3>4. QED
      BY <3>2, <3>3
  <2>3. QED
    BY <2>1, <2>2
<1>4. \A i \in 1 .. n + 1 : i # n + 1 => i \in 1 .. n
  BY <1>1
<1> HIDE DEF new, n
<1>5. ASSUME NEW i \in 1 .. n + 1, NEW j \in 1 .. n + 1, i < j PROVE new[i][1] <= new[j][1]
  <2>1. i \in 1 .. n
    BY <1>1, <1>5
  <2>2. CASE j = n + 1
    <3>1. new[i] = pairs[i] /\ new[j][1] = pair[1]
      BY <1>1, <2>1, <2>2
    <3>2. QED
      BY <1>3, <2>1, <3>1
  <2>3. CASE j # n + 1
    <3>1. new[i] = pairs[i] /\ new[j] = pairs[j] /\ j \in 1 .. n
      BY <1>1, <1>4, <2>1, <2>3
    <3>2. QED
      BY <1>2, <1>5, <2>1, <3>1
  <2>4. QED
    BY <2>2, <2>3
<1>6. ASSUME NEW i \in 1 .. n + 1
      PROVE  \E s \in U : Names(s, new[i])
  <2>1. CASE i = n + 1
    BY <1>1, <2>1
  <2>2. CASE i # n + 1
    <3>1. i \in 1 .. n /\ new[i] = pairs[i]
      BY <1>1, <1>4, <2>2
    <3>2. QED
      BY <1>2, <3>1
  <2>3. QED
    BY <2>1, <2>2
<1>7. QED
  BY <1>1, <1>5, <1>6 DEF Named, new

LEMMA NamedPruned ==
  ASSUME NEW T, NEW pairs \in Seq(Nat \X User), Named(T, pairs),
         NEW moment \in Nat, NEW window \in Nat
  PROVE  Named({s \in T : s.at >= moment - window}, PrunedPairs(pairs, moment, window))
<1> DEFINE n == Len(pairs)
           left == PrunedPairs(pairs, moment, window)
           U == {s \in T : s.at >= moment - window}
<1>1. /\ \A i, j \in 1 .. n : i < j => pairs[i][1] <= pairs[j][1]
      /\ \A i \in 1 .. n : \E s \in T : Names(s, pairs[i])
  BY DEF Named
<1>2. PICK k \in 1 .. n + 1 : /\ left = SubSeq(pairs, k, n)
                              /\ k <= n => pairs[k][1] >= moment - window
  BY PrunedPairsShape
<1> DEFINE m == n - k + 1
<1>3. n \in Nat /\ m \in Nat /\ k \in Nat
  OBVIOUS
<1>4. Len(left) = m /\ \A i \in 1 .. m : left[i] = pairs[i + (k - 1)]
  BY <1>2
<1>5. \A i \in 1 .. n : pairs[i][1] \in Nat
  OBVIOUS
<1> HIDE DEF left, n
<1>6. \A i \in 1 .. m : i + (k - 1) \in 1 .. n /\ k <= i + (k - 1) /\ k \in 1 .. n
  BY <1>3
<1>7. ASSUME NEW i \in 1 .. m PROVE pairs[i + (k - 1)][1] >= moment - window
  <2>1. pairs[k][1] >= moment - window /\ pairs[k][1] \in Nat /\ pairs[i + (k - 1)][1] \in Nat
    BY <1>2, <1>3, <1>5, <1>6
  <2>2. pairs[k][1] <= pairs[i + (k - 1)][1]
    <3>1. CASE k < i + (k - 1)
      BY <1>1, <1>6, <3>1
    <3>2. CASE k = i + (k - 1)
      BY <2>1, <3>2
    <3>3. QED
      BY <1>3, <1>6, <3>1, <3>2
  <2>3. QED
    BY <2>1, <2>2
<1>8. ASSUME NEW i \in 1 .. m, NEW j \in 1 .. m, i < j PROVE left[i][1] <= left[j][1]
  <2>1. i + (k - 1) < j + (k - 1)
    BY <1>3, <1>8
  <2>2. QED
    BY <1>1, <1>4, <1>6, <2>1
<1>9. ASSUME NEW i \in 1 .. m
      PROVE  \E s \in U : Names(s, left[i])
  <2>1. left[i] = pairs[i + (k - 1)] /\ i + (k - 1) \in 1 .. n
    BY <1>4, <1>6
  <2>2. PICK s \in T : Names(s, left[i])
    BY <1>1, <2>1
  <2>3. s.at >= moment - window
    BY <1>7, <2>1, <2>2 DEF Names
  <2>4. QED
    BY <2>2, <2>3
<1>10. QED
  <2> HIDE DEF m, U
  <2>1. Named(U, left)
    BY <1>4, <1>8, <1>9 DEF Named
  <2>2. QED
    BY <2>1 DEF left, U

-----------------------------------------------------------------------------
(* What the detector remembers, and the rows that show it. *)

\* Of the rows of a key, the ones that show each part of what is remembered.
Shown(own, d) ==
  /\ \A l \in List : Backed(Fed(own, l), d.times[l])
  /\ Named(Fed(own, "mail"), d.users)
  /\ \A s \in Activity : Backed(Of(own, s), d.activity[s])
  /\ \A s \in d.seenIn : Of(own, s) # {}
  /\ d.probed # Never => \E s \in own : s.type = "nginx_suspicious_request" /\ s.at = d.probed

OwnRows(S, key) == {s \in S : s.key = key}

AllShown(S, st) == \A key \in Key : Shown(OwnRows(S, key), st[key])

LEMMA ShownByMore ==
  ASSUME NEW T, NEW U, T \subseteq U, NEW d, d.seenIn \subseteq Activity, Shown(T, d)
  PROVE  Shown(U, d)
<1>1. /\ \A l \in List : Fed(T, l) \subseteq Fed(U, l)
      /\ Fed(T, "mail") \subseteq Fed(U, "mail")
      /\ \A s \in Activity : Of(T, s) \subseteq Of(U, s)
  BY DEF Fed, Of
<1>2. /\ \A l \in List : Backed(Fed(U, l), d.times[l])
      /\ \A s \in Activity : Backed(Of(U, s), d.activity[s])
      /\ Named(Fed(U, "mail"), d.users)
  BY <1>1, BackedByMore, NamedByMore DEF Shown
<1>3. \A s \in d.seenIn : Of(U, s) # {}
  BY <1>1 DEF Shown
<1>4. d.probed # Never => \E s \in U : s.type = "nginx_suspicious_request" /\ s.at = d.probed
  BY DEF Shown
<1>5. QED
  BY <1>2, <1>3, <1>4 DEF Shown

LEMMA AllShownByMore ==
  ASSUME NEW S, NEW U, S \subseteq U, NEW st \in [Key -> Memory], AllShown(S, st)
  PROVE  AllShown(U, st)
<1> SUFFICES ASSUME NEW key \in Key PROVE Shown(OwnRows(U, key), st[key])
  BY DEF AllShown
<1>1. OwnRows(S, key) \subseteq OwnRows(U, key) /\ Shown(OwnRows(S, key), st[key])
  BY DEF OwnRows, AllShown
<1>2. st[key].seenIn \subseteq Activity
  BY DEF Memory
<1>3. QED
  BY <1>1, <1>2, ShownByMore

\* A new detector remembers nothing.
LEMMA FreshShown ==
  ASSUME NEW S
  PROVE  AllShown(S, EmptyState)
<1> SUFFICES ASSUME NEW key \in Key PROVE Shown(OwnRows(S, key), Fresh)
  BY DEF AllShown, EmptyState
<1>1. /\ \A l \in List : Fresh.times[l] = <<>>
      /\ \A s \in Activity : Fresh.activity[s] = <<>>
      /\ Fresh.users = <<>> /\ Fresh.seenIn = {} /\ Fresh.probed = Never
  BY DEF Fresh
<1>2. \A T : Named(T, <<>>)
  BY DEF Named
<1>3. QED
  BY <1>1, <1>2, NothingBacked DEF Shown

\* What a record shows of its key, and how recent it is: the list it belongs to
\* goes back no further than the window, and so does one it looks back on.
LEMMA NotedShown ==
  ASSUME NEW d \in Memory, NEW st \in [Key -> Memory], NEW r \in Record, d = st[r.key],
         NEW own \in SUBSET Record, Shown(own, d), r \notin own,
         \A s \in own : s.key = r.key /\ s.at <= r.at
  PROVE  LET new == Noted(st, r)
             all == own \cup {r}
             Since(window) == {s \in all : s.at >= r.at - window}
         IN /\ \A l \in List : Feeds(r, l) => Backed(Fed(Since(Window[l]), l), new.times[l])
            /\ \A l \in List : LooksBack(r, l) =>
                 Backed(Fed(Since(Window["success"]), l), new.times[l])
            /\ Feeds(r, "mail") /\ r.user # "" =>
                 Named(Fed(Since(Window["users"]), "mail"), new.users)
            /\ (\E s \in Activity : From(r, s)) =>
                 \A s \in Activity : Backed(Of(Since(Window["sources"]), s), new.activity[s])
            /\ Shown(all, new)
<1> DEFINE new == Noted(st, r)
           all == own \cup {r}
           Since(window) == {s \in all : s.at >= r.at - window}
<1>1. /\ r.key \in Key /\ r.at \in Nat /\ r.user \in User
      /\ d.times \in [List -> Seq(Nat)] /\ d.users \in Seq(Nat \X User)
      /\ d.activity \in [Activity -> Seq(Nat)] /\ d.seenIn \subseteq Activity
  BY DEF Memory, Record
<1>2. /\ new.times = NotedTimes(d, r)
      /\ new.users = IF Feeds(r, "mail") /\ r.user # ""
                     THEN PrunedPairs(Append(d.users, <<r.at, r.user>>), r.at, Window["users"])
                     ELSE d.users
      /\ new.activity = IF \E s \in Activity : From(r, s) THEN NotedActivity(st, r)
                        ELSE d.activity
      /\ new.seenIn = d.seenIn \cup {s \in Activity : From(r, s)}
      /\ new.probed = IF r.type = "nginx_suspicious_request" /\ d.probed = Never THEN r.at
                      ELSE d.probed
  BY <1>1 DEF Noted, Memory
<1> HIDE DEF new
<1>3. /\ \A l \in List : Backed(Fed(own, l), d.times[l])
      /\ Named(Fed(own, "mail"), d.users)
      /\ \A s \in Activity : Backed(Of(own, s), d.activity[s])
      /\ \A s \in d.seenIn : Of(own, s) # {}
      /\ d.probed # Never => \E s \in own : s.type = "nginx_suspicious_request" /\ s.at = d.probed
  BY DEF Shown
<1>4. ASSUME NEW l \in List, Feeds(r, l)
      PROVE  Backed(Fed(Since(Window[l]), l), new.times[l])
  <2> DEFINE T == Fed(own, l)
  <2>1. Backed(T \cup {r}, Append(d.times[l], r.at))
    <3>1. r \notin T /\ \A s \in T : s.at <= r.at
      BY DEF Fed
    <3>2. d.times[l] \in Seq(Nat) /\ Backed(T, d.times[l])
      BY <1>1, <1>3
    <3> HIDE DEF T
    <3>3. QED
      BY <1>1, <3>1, <3>2, BackedAppend
  <2>2. new.times[l] = Pruned(Append(d.times[l], r.at), r.at, Window[l])
    BY <1>2, <1>4 DEF NotedTimes
  <2>3. {s \in T \cup {r} : s.at >= r.at - Window[l]} = Fed(Since(Window[l]), l)
    BY <1>4 DEF Fed
  <2>4. Append(d.times[l], r.at) \in Seq(Nat) /\ Window[l] \in Nat
    BY <1>1, WindowTyped
  <2>5. Backed({s \in T \cup {r} : s.at >= r.at - Window[l]},
               Pruned(Append(d.times[l], r.at), r.at, Window[l]))
    <3> HIDE DEF T
    <3> QED
      BY <1>1, <2>1, <2>4, BackedPruned
  <2>6. QED
    BY <2>2, <2>3, <2>5
<1>5. ASSUME NEW l \in List, LooksBack(r, l)
      PROVE  Backed(Fed(Since(Window["success"]), l), new.times[l])
  <2> DEFINE T == Fed(own, l)
             U == {s \in T : s.at >= r.at - Window["success"]}
  <2>1. Backed(U, Pruned(d.times[l], r.at, Window["success"]))
    <3>1. d.times[l] \in Seq(Nat) /\ Backed(T, d.times[l]) /\ Window["success"] \in Nat
      BY <1>1, <1>3, WindowTyped
    <3> HIDE DEF T
    <3>2. QED
      BY <1>1, <3>1, BackedPruned
  <2>2. ~Feeds(r, l)
    BY <1>5 DEF LooksBack, Feeds
  <2>3. new.times[l] = Pruned(d.times[l], r.at, Window["success"])
    BY <1>2, <1>5, <2>2 DEF NotedTimes
  <2>4. U \subseteq Fed(Since(Window["success"]), l)
    BY DEF Fed
  <2> HIDE DEF U
  <2>5. QED
    BY <2>1, <2>3, <2>4, BackedByMore
<1>6. ASSUME Feeds(r, "mail"), r.user # ""
      PROVE  Named(Fed(Since(Window["users"]), "mail"), new.users)
  <2> DEFINE T == Fed(own, "mail")
             pair == <<r.at, r.user>>
  <2>1. Named(T \cup {r}, Append(d.users, pair))
    <3>1. /\ \A s \in T : s.at <= pair[1]
          /\ Named(T, d.users)
      BY <1>3 DEF Fed
    <3>2. /\ pair \in Nat \X User
          /\ Names(r, pair)
          /\ T \subseteq T \cup {r}
      BY <1>1, <1>6 DEF Names
    <3> HIDE DEF T, pair
    <3>3. QED
      BY <1>1, <3>1, <3>2, NamedAppend
  <2>2. {s \in T \cup {r} : s.at >= r.at - Window["users"]} = Fed(Since(Window["users"]), "mail")
    BY <1>6 DEF Fed
  <2>3. Append(d.users, <<r.at, r.user>>) \in Seq(Nat \X User) /\ Window["users"] \in Nat
    BY <1>1, WindowTyped
  <2>4. Named({s \in T \cup {r} : s.at >= r.at - Window["users"]},
              PrunedPairs(Append(d.users, <<r.at, r.user>>), r.at, Window["users"]))
    <3> HIDE DEF T
    <3> QED
      BY <1>1, <2>1, <2>3, NamedPruned
  <2>5. QED
    BY <1>2, <1>6, <2>2, <2>4
<1>7. ASSUME \E s \in Activity : From(r, s), NEW s \in Activity
      PROVE  Backed(Of(Since(Window["sources"]), s), new.activity[s])
  <2> DEFINE T == Of(own, s)
             added == IF From(r, s) /\ Admitted(st, r.key) THEN Append(d.activity[s], r.at)
                      ELSE d.activity[s]
  <2>1. new.activity[s] = Pruned(added, r.at, Window["sources"])
    BY <1>2, <1>7 DEF NotedActivity
  <2>2. Backed(Of(all, s), added) /\ added \in Seq(Nat)
    <3>1. T \subseteq Of(all, s) /\ r \notin T /\ \A x \in T : x.at <= r.at
      BY DEF Of
    <3>2. d.activity[s] \in Seq(Nat) /\ Backed(T, d.activity[s])
      BY <1>1, <1>3
    <3>3. From(r, s) => T \cup {r} \subseteq Of(all, s)
      BY DEF Of
    <3> HIDE DEF T, all
    <3>4. Backed(Of(all, s), d.activity[s])
      BY <3>1, <3>2, BackedByMore
    <3>5. Backed(T \cup {r}, Append(d.activity[s], r.at))
      BY <1>1, <3>1, <3>2, BackedAppend
    <3>6. From(r, s) => Backed(Of(all, s), Append(d.activity[s], r.at))
      BY <3>3, <3>5, BackedByMore
    <3>7. QED
      BY <1>1, <3>2, <3>4, <3>6
  <2> HIDE DEF added
  <2>3. {x \in Of(all, s) : x.at >= r.at - Window["sources"]} = Of(Since(Window["sources"]), s)
    BY DEF Of
  <2>4. Backed({x \in Of(all, s) : x.at >= r.at - Window["sources"]}, new.activity[s])
    <3> HIDE DEF all
    <3> QED
      BY <1>1, <2>1, <2>2, WindowTyped, BackedPruned
  <2>5. QED
    BY <2>3, <2>4
<1>8. Shown(all, new)
  <2>1. ASSUME NEW l \in List PROVE Backed(Fed(all, l), new.times[l])
    <3>1. /\ Fed(Since(Window[l]), l) \subseteq Fed(all, l)
          /\ Fed(Since(Window["success"]), l) \subseteq Fed(all, l)
          /\ Fed(own, l) \subseteq Fed(all, l)
      BY DEF Fed
    <3>2. ~Feeds(r, l) /\ ~LooksBack(r, l) => new.times[l] = d.times[l]
      BY <1>2 DEF NotedTimes
    <3> HIDE DEF all, Since
    <3>3. QED
      BY <1>3, <1>4, <1>5, <3>1, <3>2, BackedByMore
  <2>2. Named(Fed(all, "mail"), new.users)
    <3>1. /\ Fed(Since(Window["users"]), "mail") \subseteq Fed(all, "mail")
          /\ Fed(own, "mail") \subseteq Fed(all, "mail")
      BY DEF Fed
    <3> HIDE DEF all, Since
    <3>2. QED
      BY <1>2, <1>3, <1>6, <3>1, NamedByMore
  <2>3. ASSUME NEW s \in Activity PROVE Backed(Of(all, s), new.activity[s])
    <3>1. /\ Of(Since(Window["sources"]), s) \subseteq Of(all, s)
          /\ Of(own, s) \subseteq Of(all, s)
      BY DEF Of
    <3> HIDE DEF all, Since
    <3>2. QED
      BY <1>2, <1>3, <1>7, <3>1, BackedByMore
  <2>4. ASSUME NEW s \in new.seenIn PROVE Of(all, s) # {}
    BY <1>2, <1>3 DEF Of
  <2>5. ASSUME new.probed # Never
        PROVE  \E s \in all : s.type = "nginx_suspicious_request" /\ s.at = new.probed
    BY <1>2, <1>3, <2>5
  <2>6. QED
    <3> HIDE DEF all
    <3> QED
      BY <2>1, <2>2, <2>3, <2>4, <2>5 DEF Shown
<1>9. QED
  BY <1>4, <1>5, <1>6, <1>7, <1>8 DEF new

\* What is shown of a memory does not depend on its alerts.
LEMMA ShownUnalerted ==
  ASSUME NEW own, NEW d \in Memory, NEW rules, Shown(own, d)
  PROVE  Shown(own, [d EXCEPT !.alerted = rules])
<1> DEFINE new == [d EXCEPT !.alerted = rules]
<1>1. /\ new.times = d.times /\ new.users = d.users /\ new.activity = d.activity
      /\ new.seenIn = d.seenIn /\ new.probed = d.probed
  BY DEF Memory
<1> HIDE DEF new
<1>2. Shown(own, new)
  BY <1>1 DEF Shown
<1>3. QED
  BY <1>2 DEF new

\* A record that is later than the rows, and is stored, leaves all shown.
LEMMA ProcessedShown ==
  ASSUME NEW S \in SUBSET Record, NEW st \in [Key -> Memory], AllShown(S, st),
         NEW r \in Record, r \notin S, \A s \in S : s.at <= r.at
  PROVE  AllShown(S \cup {r}, Processed(st, r))
<1> DEFINE own == OwnRows(S, r.key)
           d == Noted(st, r)
<1>1. r.key \in Key
  BY DEF Record
<1>2. Shown(own \cup {r}, d)
  <2>1. /\ own \in SUBSET Record /\ r \notin own
        /\ \A s \in own : s.key = r.key /\ s.at <= r.at
        /\ Shown(own, st[r.key]) /\ st[r.key] \in Memory
    BY <1>1 DEF OwnRows, AllShown
  <2> HIDE DEF own
  <2>2. QED
    BY <2>1, NotedShown
<1>3. own \cup {r} = OwnRows(S \cup {r}, r.key)
  BY DEF OwnRows
<1>4. d \in Memory
  BY NotedTyped
<1> HIDE DEF own, d
<1>5. Processed(st, r)[r.key] = [d EXCEPT !.alerted = d.alerted \cup (Firing(d, r) \ Repeating)]
  BY <1>1 DEF Processed, d
<1>6. Shown(OwnRows(S \cup {r}, r.key), Processed(st, r)[r.key])
  <2>1. ASSUME NEW rules PROVE Shown(own \cup {r}, [d EXCEPT !.alerted = rules])
    BY <1>2, <1>4, ShownUnalerted
  <2>2. QED
    BY <1>3, <1>5, <2>1
<1>7. ASSUME NEW key \in Key, key # r.key
      PROVE  Shown(OwnRows(S \cup {r}, key), Processed(st, r)[key])
  <2>1. Processed(st, r)[key] = st[key] /\ OwnRows(S \cup {r}, key) = OwnRows(S, key)
    BY <1>7 DEF Processed, OwnRows
  <2>2. QED
    BY <2>1 DEF AllShown
<1>8. QED
  BY <1>6, <1>7 DEF AllShown

\* An action of fail2ban leaves what is remembered, but for the alerts.
LEMMA EnforcedLeaves ==
  ASSUME NEW st \in [Key -> Memory], NEW r \in Record, From(r, "fail2ban"), NEW key \in Key
  PROVE  /\ Processed(st, r)[key].times = st[key].times
         /\ Processed(st, r)[key].users = st[key].users
         /\ Processed(st, r)[key].activity = st[key].activity
         /\ Processed(st, r)[key].seenIn = st[key].seenIn
         /\ Processed(st, r)[key].probed = st[key].probed
<1> DEFINE d == Noted(st, r)
           old == st[r.key]
           new == Processed(st, r)[r.key]
<1>1. r.key \in Key /\ old \in Memory /\ d \in Memory
  BY NotedTyped DEF Record
<1>2. r.type \in {"ban", "unban"}
  BY DEF From, TypesOf
<1>3. /\ \A l \in List : ~Feeds(r, l) /\ ~LooksBack(r, l)
      /\ ~Feeds(r, "mail")
      /\ \A s \in Activity : ~From(r, s)
  BY <1>2, ListNames DEF Feeds, LooksBack, From, TypesOf, Activity
<1>4. /\ d.times = old.times /\ d.users = old.users /\ d.activity = old.activity
      /\ d.seenIn = old.seenIn /\ d.probed = old.probed
  <2>1. NotedTimes(old, r) = old.times
    BY <1>1, <1>3 DEF NotedTimes, Memory
  <2>2. /\ ~(Feeds(r, "mail") /\ r.user # "") /\ {s \in Activity : From(r, s)} = {}
        /\ ~(r.type = "nginx_suspicious_request")
    BY <1>2, <1>3
  <2>3. d = [old EXCEPT !.times = NotedTimes(old, r), !.users = old.users,
                        !.activity = old.activity, !.seenIn = old.seenIn \cup {},
                        !.probed = old.probed]
    BY <2>2 DEF Noted
  <2>4. /\ d.times = NotedTimes(old, r) /\ d.users = old.users /\ d.activity = old.activity
        /\ d.seenIn = old.seenIn \cup {} /\ d.probed = old.probed
    <3> HIDE DEF d, old
    <3> QED
      BY <1>1, <2>3 DEF Memory
  <2>5. QED
    BY <2>1, <2>4
<1> HIDE DEF d, old
<1>5. new = [d EXCEPT !.alerted = d.alerted \cup (Firing(d, r) \ Repeating)]
  BY <1>1 DEF Processed, d
<1> HIDE DEF new
<1>6. /\ new.times = old.times /\ new.users = old.users /\ new.activity = old.activity
      /\ new.seenIn = old.seenIn /\ new.probed = old.probed
  BY <1>1, <1>4, <1>5 DEF Memory
<1>7. CASE key = r.key
  BY <1>6, <1>7 DEF new, old
<1>8. CASE key # r.key
  <2>1. Processed(st, r)[key] = st[key]
    BY <1>8 DEF Processed
  <2>2. QED
    BY <2>1
<1>9. QED
  BY <1>7, <1>8

LEMMA EnforcedShown ==
  ASSUME NEW S, NEW st \in [Key -> Memory], AllShown(S, st),
         NEW r \in Record, From(r, "fail2ban")
  PROVE  AllShown(S, Processed(st, r))
<1>1. ASSUME NEW key \in Key, NEW own, Shown(own, st[key])
      PROVE  Shown(own, Processed(st, r)[key])
  BY <1>1, EnforcedLeaves DEF Shown
<1>2. QED
  BY <1>1 DEF AllShown

\* A replay of rows in order of time leaves what it remembers shown by them.
LEMMA ReplayedShown ==
  ASSUME NEW records \in Seq(Record), Sorted(records), Distinct(records)
  PROVE  AllShown(ToSet(records), Replayed(EmptyState, records))
<1> DEFINE n == Len(records)
           upTo(i) == {records[j] : j \in 1 .. i}
           stage == [i \in 0 .. n |-> {st \in [Key -> Memory] : AllShown(upTo(i), st)}]
<1>1. n \in Nat /\ \A i \in 1 .. n : records[i] \in Record
  OBVIOUS
<1>2. stage \in [0 .. n -> SUBSET [Key -> Memory]]
  OBVIOUS
<1>3. EmptyState \in stage[0]
  BY <1>1, EmptyTyped, FreshShown
<1>4. ASSUME NEW i \in 1 .. n, NEW st \in stage[i - 1] PROVE Processed(st, records[i]) \in stage[i]
  <2>1. i \in 0 .. n /\ i - 1 \in 0 .. n /\ records[i] \in Record
    BY <1>1
  <2>2. st \in [Key -> Memory] /\ AllShown(upTo(i - 1), st)
    BY <2>1
  <2>3. \A j \in 1 .. i - 1 : j \in 1 .. n /\ j < i
    BY <1>1
  <2>4. /\ upTo(i - 1) \in SUBSET Record /\ records[i] \notin upTo(i - 1)
        /\ \A s \in upTo(i - 1) : s.at <= records[i].at
    BY <1>1, <2>3 DEF Sorted, Distinct
  <2>5. upTo(i) = upTo(i - 1) \cup {records[i]}
    <3>1. \A j \in 1 .. i : j = i \/ j \in 1 .. i - 1
      OBVIOUS
    <3>2. i \in 1 .. i /\ \A j \in 1 .. i - 1 : j \in 1 .. i
      OBVIOUS
    <3>3. QED
      BY <3>1, <3>2
  <2> HIDE DEF upTo
  <2>6. AllShown(upTo(i), Processed(st, records[i]))
    BY <2>1, <2>2, <2>4, <2>5, ProcessedShown
  <2>7. QED
    BY <2>1, <2>2, <2>6, ProcessedTyped
<1>5. Replayed(EmptyState, records) \in stage[n]
  <2> HIDE DEF stage
  <2> QED
    BY <1>2, <1>3, <1>4, EmptyTyped, ReplayedIn
<1>6. AllShown(upTo(n), Replayed(EmptyState, records))
  BY <1>1, <1>5
<1>7. upTo(n) = ToSet(records)
  BY DEF ToSet
<1>8. QED
  BY <1>6, <1>7

LEMMA EnforcedAllShown ==
  ASSUME NEW S, NEW st \in [Key -> Memory], AllShown(S, st),
         NEW records \in Seq(Record), \A r \in ToSet(records) : From(r, "fail2ban")
  PROVE  AllShown(S, Replayed(st, records))
<1> DEFINE n == Len(records)
           Good == {a \in [Key -> Memory] : AllShown(S, a)}
           stage == [i \in 0 .. n |-> Good]
<1>1. n \in Nat /\ \A i \in 1 .. n : records[i] \in Record /\ From(records[i], "fail2ban")
  BY DEF ToSet
<1>2. stage \in [0 .. n -> SUBSET [Key -> Memory]] /\ st \in stage[0] /\ stage[n] = Good
  BY <1>1
<1>3. ASSUME NEW i \in 1 .. n, NEW a \in stage[i - 1] PROVE Processed(a, records[i]) \in stage[i]
  <2>1. i \in 0 .. n /\ i - 1 \in 0 .. n
    BY <1>1
  <2>2. a \in [Key -> Memory] /\ AllShown(S, a)
    BY <2>1
  <2>3. QED
    BY <1>1, <2>1, <2>2, EnforcedShown, ProcessedTyped
<1>4. Replayed(st, records) \in stage[n]
  <2> HIDE DEF stage
  <2> QED
    BY <1>2, <1>3, ReplayedIn
<1>5. QED
  BY <1>2, <1>4

\* What Kept keeps of a list in order, without repetitions, is another such list.
LEMMA KeptInOrder ==
  ASSUME NEW records \in Seq(Record), Sorted(records), Distinct(records), NEW wanted
  PROVE  Sorted(Kept(records, wanted)) /\ Distinct(Kept(records, wanted))
<1>1. \A p, q \in 1 .. Len(Kept(records, wanted)) : p < q =>
        \E a, b \in 1 .. Len(records) :
          /\ a < b
          /\ Kept(records, wanted)[p] = records[a]
          /\ Kept(records, wanted)[q] = records[b]
  BY KeptShape
<1> DEFINE kept == Kept(records, wanted)
<1>2. ASSUME NEW p \in 1 .. Len(kept), NEW q \in 1 .. Len(kept), p < q
      PROVE  kept[p].at <= kept[q].at /\ kept[p] # kept[q]
  <2>1. PICK i \in 1 .. Len(records), j \in 1 .. Len(records) :
          i < j /\ kept[p] = records[i] /\ kept[q] = records[j]
    BY <1>1, <1>2
  <2>2. records[i].at <= records[j].at /\ records[i] # records[j]
    BY <2>1 DEF Sorted, Distinct
  <2>3. QED
    BY <2>1, <2>2
<1>3. QED
  BY <1>2 DEF Sorted, Distinct

\* The warm start remembers nothing but what the rows show, in whichever runs
\* they were stored.
LEMMA WarmedShown ==
  ASSUME events \in Seq(Record), actions \in Seq(Record), Distinct(events),
         \A r \in ToSet(actions) : From(r, "fail2ban"), NEW first
  PROVE  AllShown(Rows, Warmed(first))
<1>1. /\ ByTime(events) \in Seq(Record) /\ ToSet(ByTime(events)) = ToSet(events)
      /\ Sorted(ByTime(events)) /\ Distinct(ByTime(events))
      /\ ByTime(actions) \in Seq(Record) /\ ToSet(ByTime(actions)) = ToSet(actions)
  BY RecordTimed, ByTimeShape
<1>2. ASSUME NEW wanted
      PROVE  /\ Kept(ByTime(events), wanted) \in Seq(Record)
             /\ ToSet(Kept(ByTime(events), wanted)) \subseteq ToSet(events)
             /\ Sorted(Kept(ByTime(events), wanted)) /\ Distinct(Kept(ByTime(events), wanted))
             /\ Kept(ByTime(actions), wanted) \in Seq(Record)
             /\ ToSet(Kept(ByTime(actions), wanted)) \subseteq ToSet(actions)
  BY <1>1, KeptShape, KeptInOrder
<1>3. ASSUME NEW evs \in Seq(Record), Sorted(evs), Distinct(evs),
             ToSet(evs) \subseteq ToSet(events),
             NEW acts \in Seq(Record), ToSet(acts) \subseteq ToSet(actions)
      PROVE  AllShown(Rows, Replayed(Replayed(EmptyState, evs), acts))
  <2>1. Replayed(EmptyState, evs) \in [Key -> Memory]
    BY EmptyTyped, ReplayedTyped
  <2>2. AllShown(ToSet(evs), Replayed(EmptyState, evs))
    BY <1>3, ReplayedShown
  <2>3. ToSet(evs) \subseteq Rows
    BY <1>3 DEF Rows
  <2>4. AllShown(Rows, Replayed(EmptyState, evs))
    BY <2>1, <2>2, <2>3, AllShownByMore
  <2>5. \A r \in ToSet(acts) : From(r, "fail2ban")
    BY <1>3
  <2>6. QED
    BY <2>1, <2>4, <2>5, EnforcedAllShown
<1>4. QED
  BY <1>2, <1>3 DEF Warmed

-----------------------------------------------------------------------------
(* What speaks for each rule. *)

LEMMA RuleOfIs ==
  /\ RuleOf["auth"] = "repeated_failed_login"
  /\ RuleOf["mail"] = "repeated_mail_auth_failures"
  /\ RuleOf["errors"] = "repeated_http_error_responses"
  /\ RuleOf["sudo"] = "repeated_sudo_auth_failures"
  /\ RuleOf["burst"] = "http_request_burst"
BY DEF RuleOf

ListRules == {RuleOf[l] : l \in List}

LEMMA ListRulesIs ==
  ListRules = {"repeated_failed_login", "repeated_mail_auth_failures",
               "repeated_http_error_responses", "repeated_sudo_auth_failures",
               "http_request_burst"}
BY ListNames, RuleOfIs DEF ListRules

\* Each list is for one rule.
LEMMA ListOf ==
  ASSUME NEW l \in List
  PROVE  (CHOOSE m \in List : RuleOf[m] = RuleOf[l]) = l
<1>1. \A m \in List : RuleOf[m] = RuleOf[l] => m = l
  BY ListNames, RuleOfIs
<1>2. QED
  BY <1>1

LEMMA EvidenceOfList ==
  ASSUME NEW S, NEW r, NEW l \in List
  PROVE  /\ Evidence(S, r, RuleOf[l]) =
              IF Feeds(r, l) THEN Fed(Lately(S, r, Window[l]), l) ELSE {}
         /\ Needed(RuleOf[l]) = Threshold[l]
<1>1. RuleOf[l] \notin {"root_login_attempt", "suspicious_web_probe"}
  BY ListNames, RuleOfIs
<1>2. \E m \in List : RuleOf[m] = RuleOf[l]
  OBVIOUS
<1>3. RuleOf[l] \notin {"mail_password_spray_attempt", "success_after_failures",
        "mail_success_after_failures", "web_probe_followed_by_auth_activity",
        "web_probe_followed_by_fail2ban_ban", "multi_source_ip_activity",
        "ip_banned_after_auth_activity", "ip_banned_after_web_activity",
        "ip_banned_after_mail_activity"}
  BY ListNames, RuleOfIs
<1>4. QED
  BY <1>1, <1>2, <1>3, ListOf DEF Evidence, Needed, Repeating

\* The record itself, if it is of a type.
Alone(r, type) == {s \in {r} : s.type = type}

LEMMA EvidenceOfOthers ==
  ASSUME NEW S, NEW r
  PROVE  /\ Evidence(S, r, "root_login_attempt") = Alone(r, "ssh_root_login_attempt")
         /\ Evidence(S, r, "suspicious_web_probe") = Alone(r, "nginx_suspicious_request")
         /\ Evidence(S, r, "mail_password_spray_attempt") =
              IF Feeds(r, "mail") /\ r.user # ""
                 /\ Cardinality(Fed(Lately(S, r, Window["mail"]), "mail")) >= Threshold["spray"]
              THEN {s.user : s \in {x \in Fed(Lately(S, r, Window["users"]), "mail") : x.user # ""}}
              ELSE {}
         /\ Evidence(S, r, "success_after_failures") =
              IF LooksBack(r, "auth") THEN Fed(Lately(S, r, Window["success"]), "auth") ELSE {}
         /\ Evidence(S, r, "mail_success_after_failures") =
              IF LooksBack(r, "mail") THEN Fed(Lately(S, r, Window["success"]), "mail") ELSE {}
         /\ Evidence(S, r, "web_probe_followed_by_auth_activity") =
              IF From(r, "auth") THEN Probes(S, r, Window["probe_auth"]) ELSE {}
         /\ Evidence(S, r, "web_probe_followed_by_fail2ban_ban") =
              IF r.type = "ban" THEN Probes(S, r, Window["probe_ban"]) ELSE {}
         /\ Evidence(S, r, "multi_source_ip_activity") =
              IF \E s \in Activity : From(r, s)
              THEN {s \in Activity :
                      Cardinality(Of(Lately(S, r, Window["sources"]), s)) >= Threshold["sources"]}
              ELSE {}
         /\ Evidence(S, r, "ip_banned_after_auth_activity") =
              IF r.type = "ban" THEN Of(History(S, r), "auth") ELSE {}
         /\ Evidence(S, r, "ip_banned_after_web_activity") =
              IF r.type = "ban" THEN Of(History(S, r), "nginx") ELSE {}
         /\ Evidence(S, r, "ip_banned_after_mail_activity") =
              IF r.type = "ban" THEN Of(History(S, r), "mail") ELSE {}
<1>1. \A rule \in Rule \ ListRules : ~\E l \in List : RuleOf[l] = rule
  BY DEF ListRules
<1>2. {"root_login_attempt", "suspicious_web_probe", "mail_password_spray_attempt",
       "success_after_failures", "mail_success_after_failures",
       "web_probe_followed_by_auth_activity", "web_probe_followed_by_fail2ban_ban",
       "multi_source_ip_activity", "ip_banned_after_auth_activity",
       "ip_banned_after_web_activity", "ip_banned_after_mail_activity"} = Rule \ ListRules
  BY ListRulesIs DEF Rule
<1>3. QED
  BY <1>1, <1>2 DEF Evidence, Alone

LEMMA NeededOfOthers ==
  /\ Needed("mail_password_spray_attempt") = Threshold["users"]
  /\ \A rule \in Repeating : Needed(rule) = Threshold["success"]
  /\ Needed("multi_source_ip_activity") = 2
  /\ \A rule \in Rule \ (ListRules \cup Repeating \cup
       {"mail_password_spray_attempt", "multi_source_ip_activity"}) : Needed(rule) = 1
<1>1. \A rule : rule \notin ListRules => ~\E l \in List : RuleOf[l] = rule
  BY DEF ListRules
<1>2. /\ "mail_password_spray_attempt" \notin ListRules \cup Repeating
      /\ "multi_source_ip_activity" \notin ListRules \cup Repeating
      /\ Repeating \cap ListRules = {}
      /\ Repeating \cap {"mail_password_spray_attempt", "multi_source_ip_activity"} = {}
  BY ListRulesIs DEF Repeating
<1>3. QED
  BY <1>1, <1>2 DEF Needed

-----------------------------------------------------------------------------
(* More rows speak for no rule less. *)

LEMMA LatelyGrows ==
  ASSUME NEW S, NEW U, S \subseteq U, NEW r
  PROVE  /\ History(S, r) \subseteq History(U, r) /\ History(U, r) \subseteq U
         /\ \A window : Lately(S, r, window) \subseteq Lately(U, r, window)
         /\ \A window : Lately(U, r, window) \subseteq U
         /\ \A window : Probes(S, r, window) \subseteq Probes(U, r, window)
         /\ \A window : Probes(U, r, window) \subseteq U
BY DEF History, Lately, Probes

LEMMA CardinalGrows ==
  ASSUME NEW U, IsFiniteSet(U), NEW A, A \subseteq U, NEW B, B \subseteq A
  PROVE  /\ IsFiniteSet(A) /\ IsFiniteSet(B)
         /\ Cardinality(A) \in Nat /\ Cardinality(B) \in Nat
         /\ Cardinality(B) <= Cardinality(A)
<1>1. IsFiniteSet(A)
  BY FS_Subset
<1>2. IsFiniteSet(B) /\ Cardinality(B) <= Cardinality(A)
  BY <1>1, FS_Subset
<1>3. QED
  BY <1>1, <1>2, FS_CardinalityType

\* The users that some rows name are finitely many.
LEMMA UsersFinite ==
  ASSUME NEW A, IsFiniteSet(A)
  PROVE  IsFiniteSet({s.user : s \in A})
<1> DEFINE T == {s.user : s \in A}
           g == [s \in A |-> s.user]
<1>1. g \in Surjection(A, T)
  BY DEF Surjection
<1> HIDE DEF g, T
<1>2. IsFiniteSet(T)
  BY <1>1, FS_Surjection
<1>3. QED
  BY <1>2 DEF T

LEMMA ThresholdTyped ==
  /\ \A l \in List : Threshold[l] \in Nat \ {0}
  /\ \A t \in {"users", "spray", "success", "sources"} : Threshold[t] \in Nat \ {0}
BY ThresholdAssumption, ListNames DEF ThresholdNames

LEMMA ActivityFinite == IsFiniteSet(Activity)
<1>1. /\ IsFiniteSet({}) /\ IsFiniteSet({} \cup {"auth"})
      /\ IsFiniteSet({} \cup {"auth"} \cup {"nginx"})
      /\ IsFiniteSet({} \cup {"auth"} \cup {"nginx"} \cup {"mail"})
  BY FS_EmptySet, FS_AddElement
<1>2. {} \cup {"auth"} \cup {"nginx"} \cup {"mail"} = Activity
  BY DEF Activity
<1>3. QED
  BY <1>1, <1>2

LEMMA EvidenceGrows ==
  ASSUME NEW U, IsFiniteSet(U), NEW S, S \subseteq U, NEW r, NEW rule \in Rule
  PROVE  /\ IsFiniteSet(Evidence(U, r, rule))
         /\ Evidence(S, r, rule) \subseteq Evidence(U, r, rule)
<1> DEFINE Grows(A, B) == IsFiniteSet(B) /\ A \subseteq B
           Good(x) == Grows(Evidence(S, r, x), Evidence(U, r, x))
<1>1. Grows({}, {})
  BY FS_EmptySet
<1>2. ASSUME NEW A, NEW B, A \subseteq B, B \subseteq U PROVE Grows(A, B)
  BY <1>2, FS_Subset
<1>3. ASSUME NEW window, NEW l
      PROVE  /\ Fed(Lately(S, r, window), l) \subseteq Fed(Lately(U, r, window), l)
             /\ Fed(Lately(U, r, window), l) \subseteq U
             /\ Of(Lately(S, r, window), l) \subseteq Of(Lately(U, r, window), l)
             /\ Of(Lately(U, r, window), l) \subseteq U
             /\ Of(History(S, r), l) \subseteq Of(History(U, r), l)
             /\ Of(History(U, r), l) \subseteq U
  BY LatelyGrows DEF Fed, Of
<1>4. \A window, l : Grows(Fed(Lately(S, r, window), l), Fed(Lately(U, r, window), l))
  BY <1>2, <1>3
<1>5. \A l : Grows(Of(History(S, r), l), Of(History(U, r), l))
  BY <1>2, <1>3
<1>6. \A window : Grows(Probes(S, r, window), Probes(U, r, window))
  BY <1>2, LatelyGrows
<1>7. \A window, l :
        /\ Cardinality(Fed(Lately(S, r, window), l)) \in Nat
        /\ Cardinality(Fed(Lately(U, r, window), l)) \in Nat
        /\ Cardinality(Fed(Lately(S, r, window), l)) <= Cardinality(Fed(Lately(U, r, window), l))
        /\ Cardinality(Of(Lately(S, r, window), l)) \in Nat
        /\ Cardinality(Of(Lately(U, r, window), l)) \in Nat
        /\ Cardinality(Of(Lately(S, r, window), l)) <= Cardinality(Of(Lately(U, r, window), l))
  BY <1>3, CardinalGrows
<1>8. \A l \in List : Good(RuleOf[l])
  <2> SUFFICES ASSUME NEW l \in List PROVE Good(RuleOf[l])
    OBVIOUS
  <2>1. Evidence(S, r, RuleOf[l]) = IF Feeds(r, l) THEN Fed(Lately(S, r, Window[l]), l) ELSE {}
    BY EvidenceOfList
  <2>2. Evidence(U, r, RuleOf[l]) = IF Feeds(r, l) THEN Fed(Lately(U, r, Window[l]), l) ELSE {}
    BY EvidenceOfList
  <2>3. QED
    BY <1>1, <1>4, <2>1, <2>2
<1>9. Good("root_login_attempt") /\ Good("suspicious_web_probe")
  <2>1. IsFiniteSet({r})
    BY FS_Singleton
  <2>2. \A type : IsFiniteSet(Alone(r, type))
    BY <2>1, FS_Subset DEF Alone
  <2>3. ASSUME NEW X
        PROVE  Evidence(X, r, "root_login_attempt") = Alone(r, "ssh_root_login_attempt")
    BY EvidenceOfOthers
  <2>4. ASSUME NEW X
        PROVE  Evidence(X, r, "suspicious_web_probe") = Alone(r, "nginx_suspicious_request")
    BY EvidenceOfOthers
  <2>5. QED
    BY <2>2, <2>3, <2>4
<1>10. Good("mail_password_spray_attempt")
  <2> DEFINE Many(X) == Cardinality(Fed(Lately(X, r, Window["mail"]), "mail"))
                          >= Threshold["spray"]
             Who(X) == {s.user : s \in {x \in Fed(Lately(X, r, Window["users"]), "mail") :
                                          x.user # ""}}
  <2>1. Many(S) => Many(U)
    BY <1>7, ThresholdTyped
  <2>2. Grows(Who(S), Who(U))
    <3> DEFINE A == {x \in Fed(Lately(U, r, Window["users"]), "mail") : x.user # ""}
    <3>1. A \subseteq U
      BY <1>3
    <3> HIDE DEF A
    <3>2. IsFiniteSet(A)
      BY <3>1, FS_Subset
    <3>3. IsFiniteSet({s.user : s \in A})
      BY <3>2, UsersFinite
    <3>4. Who(S) \subseteq Who(U)
      BY <1>3
    <3>5. QED
      BY <3>3, <3>4 DEF A
  <2>3. /\ Evidence(S, r, "mail_password_spray_attempt") =
             IF Feeds(r, "mail") /\ r.user # "" /\ Many(S) THEN Who(S) ELSE {}
        /\ Evidence(U, r, "mail_password_spray_attempt") =
             IF Feeds(r, "mail") /\ r.user # "" /\ Many(U) THEN Who(U) ELSE {}
    BY EvidenceOfOthers
  <2> HIDE DEF Many, Who
  <2>4. QED
    BY <1>1, <2>1, <2>2, <2>3
<1>11. Good("success_after_failures") /\ Good("mail_success_after_failures")
  <2> DEFINE E(X, l) ==
               IF LooksBack(r, l) THEN Fed(Lately(X, r, Window["success"]), l) ELSE {}
  <2>1. ASSUME NEW X PROVE /\ Evidence(X, r, "success_after_failures") = E(X, "auth")
                           /\ Evidence(X, r, "mail_success_after_failures") = E(X, "mail")
    BY EvidenceOfOthers
  <2>2. Grows(E(S, "auth"), E(U, "auth")) /\ Grows(E(S, "mail"), E(U, "mail"))
    BY <1>1, <1>4
  <2> HIDE DEF E
  <2>3. QED
    BY <2>1, <2>2
<1>12. /\ Good("web_probe_followed_by_auth_activity")
       /\ Good("web_probe_followed_by_fail2ban_ban")
  <2> DEFINE E(X) == IF From(r, "auth") THEN Probes(X, r, Window["probe_auth"]) ELSE {}
             F(X) == IF r.type = "ban" THEN Probes(X, r, Window["probe_ban"]) ELSE {}
  <2>1. ASSUME NEW X PROVE /\ Evidence(X, r, "web_probe_followed_by_auth_activity") = E(X)
                           /\ Evidence(X, r, "web_probe_followed_by_fail2ban_ban") = F(X)
    BY EvidenceOfOthers
  <2>2. Grows(E(S), E(U)) /\ Grows(F(S), F(U))
    BY <1>1, <1>6
  <2> HIDE DEF E, F
  <2>3. QED
    BY <2>1, <2>2
<1>13. /\ Good("ip_banned_after_auth_activity") /\ Good("ip_banned_after_web_activity")
       /\ Good("ip_banned_after_mail_activity")
  <2> DEFINE E(X, s) == IF r.type = "ban" THEN Of(History(X, r), s) ELSE {}
  <2>1. ASSUME NEW X PROVE /\ Evidence(X, r, "ip_banned_after_auth_activity") = E(X, "auth")
                           /\ Evidence(X, r, "ip_banned_after_web_activity") = E(X, "nginx")
                           /\ Evidence(X, r, "ip_banned_after_mail_activity") = E(X, "mail")
    BY EvidenceOfOthers
  <2>2. \A s : Grows(E(S, s), E(U, s))
    BY <1>1, <1>5
  <2> HIDE DEF E
  <2>3. QED
    BY <2>1, <2>2
<1>14. Good("multi_source_ip_activity")
  <2> DEFINE Seen(X) == {s \in Activity :
                Cardinality(Of(Lately(X, r, Window["sources"]), s)) >= Threshold["sources"]}
  <2>1. Seen(S) \subseteq Seen(U)
    BY <1>7, ThresholdTyped
  <2>2. IsFiniteSet(Seen(U))
    BY ActivityFinite, FS_Subset
  <2>3. QED
    BY <1>1, <2>1, <2>2, EvidenceOfOthers
<1> HIDE DEF Good
<1>15. Good(rule)
  BY <1>8, <1>9, <1>10, <1>11, <1>12, <1>13, <1>14, ListNames, RuleOfIs DEF Rule
<1>16. QED
  BY <1>15 DEF Good

\* What is due stays due.
LEMMA DueStays ==
  ASSUME NEW U, IsFiniteSet(U), NEW S, S \subseteq U, NEW r, NEW rule \in Rule
  PROVE  /\ Cardinality(Evidence(S, r, rule)) \in Nat /\ Cardinality(Evidence(U, r, rule)) \in Nat
         /\ Cardinality(Evidence(S, r, rule)) <= Cardinality(Evidence(U, r, rule))
         /\ Due(S, r, rule) => Due(U, r, rule)
<1>1. /\ Cardinality(Evidence(S, r, rule)) \in Nat /\ Cardinality(Evidence(U, r, rule)) \in Nat
      /\ Cardinality(Evidence(S, r, rule)) <= Cardinality(Evidence(U, r, rule))
  BY EvidenceGrows, CardinalGrows
<1>2. Needed(rule) \in Nat
  <2>1. ASSUME NEW l \in List PROVE Needed(RuleOf[l]) \in Nat
    BY EvidenceOfList, ThresholdTyped
  <2>2. rule \in ListRules => Needed(rule) \in Nat
    BY <2>1 DEF ListRules
  <2>3. rule \in Rule \ ListRules => Needed(rule) \in Nat
    BY NeededOfOthers, ThresholdTyped
  <2>4. QED
    BY <2>2, <2>3
<1>3. QED
  BY <1>1, <1>2 DEF Due

-----------------------------------------------------------------------------
(* No false alarm. *)

\* The number in a message.
LEMMA CountedIs ==
  ASSUME NEW d, NEW r
  PROVE  /\ \A l \in List \ {"errors"} : Counted(d, r, RuleOf[l]) = Len(d.times[l])
         /\ Counted(d, r, "mail_password_spray_attempt") = Cardinality(Usernames(d))
         /\ \A rule \in Repeating, l \in List : LooksBack(r, l) =>
              Counted(d, r, rule) = Len(d.times[l])
         /\ \A rule \in Rule \ ((ListRules \ {RuleOf["errors"]}) \cup Repeating
                                 \cup {"mail_password_spray_attempt"}) :
              Counted(d, r, rule) = 0
<1>1. ASSUME NEW l \in List \ {"errors"} PROVE Counted(d, r, RuleOf[l]) = Len(d.times[l])
  <2>1. RuleOf[l] \in {RuleOf["auth"], RuleOf["mail"], RuleOf["sudo"], RuleOf["burst"]}
    BY ListNames
  <2>2. RuleOf[l] # "mail_password_spray_attempt" /\ RuleOf[l] \notin Repeating
    BY ListNames, RuleOfIs DEF Repeating
  <2>3. QED
    BY <2>1, <2>2, ListOf DEF Counted
<1>2. ListRules \cap (Repeating \cup {"mail_password_spray_attempt"}) = {}
  BY ListRulesIs DEF Repeating
<1>3. /\ {RuleOf["auth"], RuleOf["mail"], RuleOf["sudo"], RuleOf["burst"]}
             = ListRules \ {RuleOf["errors"]}
      /\ "mail_password_spray_attempt" \notin Repeating
  BY ListRulesIs, RuleOfIs DEF Repeating
<1>4. Counted(d, r, "mail_password_spray_attempt") = Cardinality(Usernames(d))
  BY <1>2, <1>3 DEF Counted
<1>5. ASSUME NEW rule \in Repeating, NEW l \in List, LooksBack(r, l)
      PROVE  Counted(d, r, rule) = Len(d.times[l])
  <2>1. \A m \in List : LooksBack(r, m) => m = l
    BY <1>5 DEF LooksBack
  <2>2. (CHOOSE m \in List : LooksBack(r, m)) = l
    BY <1>5, <2>1
  <2>3. QED
    BY <1>2, <1>3, <2>2 DEF Counted
<1>6. ASSUME NEW rule \in Rule \ ((ListRules \ {RuleOf["errors"]}) \cup Repeating
                                  \cup {"mail_password_spray_attempt"})
      PROVE  Counted(d, r, rule) = 0
  BY <1>3 DEF Counted
<1>7. QED
  BY <1>1, <1>4, <1>5, <1>6

\* The condition of each rule.
LEMMA ConditionsAre ==
  ASSUME NEW d, NEW r
  PROVE  /\ \A l \in List : Conditions(d, r)[RuleOf[l]] =
              (Feeds(r, l) /\ Len(d.times[l]) >= Threshold[l])
         /\ Conditions(d, r)["root_login_attempt"] = (r.type = "ssh_root_login_attempt")
         /\ Conditions(d, r)["suspicious_web_probe"] = (r.type = "nginx_suspicious_request")
         /\ Conditions(d, r)["mail_password_spray_attempt"] =
              (/\ Feeds(r, "mail") /\ r.user # ""
               /\ Cardinality(Usernames(d)) >= Threshold["users"]
               /\ Len(d.times["mail"]) >= Threshold["spray"])
         /\ Conditions(d, r)["success_after_failures"] =
              (LooksBack(r, "auth") /\ Len(d.times["auth"]) >= Threshold["success"])
         /\ Conditions(d, r)["mail_success_after_failures"] =
              (LooksBack(r, "mail") /\ Len(d.times["mail"]) >= Threshold["success"])
         /\ Conditions(d, r)["web_probe_followed_by_auth_activity"] =
              (From(r, "auth") /\ ProbedBefore(d, r, Window["probe_auth"]))
         /\ Conditions(d, r)["web_probe_followed_by_fail2ban_ban"] =
              (r.type = "ban" /\ ProbedBefore(d, r, Window["probe_ban"]))
         /\ Conditions(d, r)["multi_source_ip_activity"] =
              ((\E s \in Activity : From(r, s)) /\ Cardinality(Busy(d)) >= 2)
         /\ Conditions(d, r)["ip_banned_after_auth_activity"] =
              (r.type = "ban" /\ "auth" \in d.seenIn)
         /\ Conditions(d, r)["ip_banned_after_web_activity"] =
              (r.type = "ban" /\ "nginx" \in d.seenIn)
         /\ Conditions(d, r)["ip_banned_after_mail_activity"] =
              (r.type = "ban" /\ "mail" \in d.seenIn)
<1>1. \A l \in List : Conditions(d, r)[RuleOf[l]] =
        (Feeds(r, l) /\ Len(d.times[l]) >= Threshold[l])
  <2>1. /\ Conditions(d, r)["repeated_failed_login"] =
             (Feeds(r, "auth") /\ Len(d.times["auth"]) >= Threshold["auth"])
        /\ Conditions(d, r)["repeated_mail_auth_failures"] =
             (Feeds(r, "mail") /\ Len(d.times["mail"]) >= Threshold["mail"])
        /\ Conditions(d, r)["repeated_http_error_responses"] =
             (Feeds(r, "errors") /\ Len(d.times["errors"]) >= Threshold["errors"])
        /\ Conditions(d, r)["repeated_sudo_auth_failures"] =
             (Feeds(r, "sudo") /\ Len(d.times["sudo"]) >= Threshold["sudo"])
        /\ Conditions(d, r)["http_request_burst"] =
             (Feeds(r, "burst") /\ Len(d.times["burst"]) >= Threshold["burst"])
    BY DEF Conditions
  <2>2. QED
    BY <2>1, ListNames, RuleOfIs
<1>2. QED
  BY <1>1 DEF Conditions

\* What fires at a record that is later than the rows, and what its message
\* counts, is borne out by the rows and the record.
LEMMA NoFalseAlarm ==
  ASSUME NEW S \in SUBSET Record, IsFiniteSet(S), NEW st \in [Key -> Memory], AllShown(S, st),
         NEW r \in Record, r \notin S, \A s \in S : s.at <= r.at,
         NEW rule \in Firing(Noted(st, r), r)
  PROVE  /\ Due(S \cup {r}, r, rule)
         /\ Counted(Noted(st, r), r, rule) <= Cardinality(Evidence(S \cup {r}, r, rule))
<1> DEFINE d == Noted(st, r)
           U == S \cup {r}
           all == OwnRows(S, r.key) \cup {r}
           Since(window) == {s \in all : s.at >= r.at - window}
           Borne(x) == /\ Cardinality(Evidence(U, r, x)) >= Needed(x)
                       /\ Counted(d, r, x) <= Cardinality(Evidence(U, r, x))
<1>1. /\ \A l \in List : Feeds(r, l) => Backed(Fed(Since(Window[l]), l), d.times[l])
      /\ \A l \in List : LooksBack(r, l) => Backed(Fed(Since(Window["success"]), l), d.times[l])
      /\ Feeds(r, "mail") /\ r.user # "" => Named(Fed(Since(Window["users"]), "mail"), d.users)
      /\ (\E s \in Activity : From(r, s)) =>
           \A s \in Activity : Backed(Of(Since(Window["sources"]), s), d.activity[s])
      /\ Shown(all, d)
  <2> DEFINE own == OwnRows(S, r.key)
  <2>1. /\ own \in SUBSET Record /\ r \notin own /\ st[r.key] \in Memory
        /\ \A s \in own : s.key = r.key /\ s.at <= r.at
        /\ Shown(own, st[r.key])
    BY DEF OwnRows, AllShown, Record
  <2> HIDE DEF own
  <2>2. QED
    BY <2>1, NotedShown DEF own
<1>2. d \in Memory
  BY NotedTyped
<1>3. /\ \A l \in List : d.times[l] \in Seq(Nat) /\ Len(d.times[l]) \in Nat
      /\ \A s \in Activity : d.activity[s] \in Seq(Nat) /\ Len(d.activity[s]) \in Nat
      /\ d.users \in Seq(Nat \X User)
  BY <1>2 DEF Memory
<1>4. /\ all \subseteq History(U, r)
      /\ \A window \in Nat : Since(window) \subseteq Lately(U, r, window)
  <2>1. \A s \in all : s \in U /\ s.key = r.key /\ s.at \in Nat /\ r.at \in Nat /\ s.at <= r.at
    BY DEF OwnRows, Record
  <2>2. all \subseteq History(U, r)
    BY <2>1 DEF History
  <2>3. ASSUME NEW window \in Nat, NEW s \in Since(window) PROVE s \in Lately(U, r, window)
    <3>1. s \in History(U, r) /\ s.at >= r.at - window
      BY <2>2
    <3>2. QED
      BY <2>1, <3>1 DEF Lately
  <2>4. QED
    BY <2>2, <2>3
<1>5. IsFiniteSet(U)
  BY FS_AddElement
<1>6. Conditions(d, r)[rule] /\ rule \in Rule
  BY DEF Firing
<1> HIDE DEF d, all, Since, U
<1>7. ASSUME NEW l \in List, NEW window \in Nat, Backed(Fed(Since(window), l), d.times[l])
      PROVE  Len(d.times[l]) <= Cardinality(Fed(Lately(U, r, window), l))
  <2> DEFINE A == Fed(Since(window), l)
             B == Fed(Lately(U, r, window), l)
  <2>1. A \subseteq B
    BY <1>4 DEF Fed
  <2>2. B \subseteq U
    BY LatelyGrows DEF Fed
  <2>3. Backed(A, d.times[l])
    BY <1>7
  <2> HIDE DEF A, B
  <2>4. Backed(B, d.times[l]) /\ IsFiniteSet(B)
    BY <1>5, <2>1, <2>2, <2>3, BackedByMore, FS_Subset
  <2>5. Len(d.times[l]) <= Cardinality(B)
    BY <1>3, <2>4, BackedFew
  <2>6. QED
    BY <2>5 DEF B
<1>8. ASSUME NEW l \in List, rule = RuleOf[l] PROVE Borne(rule)
  <2>1. Feeds(r, l) /\ Len(d.times[l]) >= Threshold[l]
    BY <1>6, <1>8, ConditionsAre
  <2>2. Len(d.times[l]) <= Cardinality(Fed(Lately(U, r, Window[l]), l))
    BY <1>1, <1>7, <2>1, WindowTyped
  <2>3. /\ Evidence(U, r, rule) = Fed(Lately(U, r, Window[l]), l)
        /\ Needed(rule) = Threshold[l] /\ Threshold[l] \in Nat
    BY <1>8, <2>1, EvidenceOfList, ThresholdTyped
  <2>4. Cardinality(Evidence(U, r, rule)) \in Nat
    BY <1>5, <1>6, DueStays
  <2>5. Counted(d, r, rule) \in {0, Len(d.times[l])}
    <3>1. CASE l # "errors"
      BY <1>8, <3>1, CountedIs
    <3>2. CASE l = "errors"
      <4>1. rule \in Rule \ ((ListRules \ {RuleOf["errors"]}) \cup Repeating
                                 \cup {"mail_password_spray_attempt"})
        BY <1>6, <1>8, <3>2, RuleOfIs DEF Repeating
      <4>2. QED
        BY <4>1, CountedIs
    <3>3. QED
      BY <3>1, <3>2
  <2>6. QED
    BY <1>3, <2>1, <2>2, <2>3, <2>4, <2>5
<1>9. ASSUME NEW l \in {"auth", "mail"}, LooksBack(r, l),
             Len(d.times[l]) >= Threshold["success"], rule \in Repeating,
             Evidence(U, r, rule) = Fed(Lately(U, r, Window["success"]), l)
      PROVE  Borne(rule)
  <2>1. l \in List
    BY ListNames
  <2>2. Len(d.times[l]) <= Cardinality(Fed(Lately(U, r, Window["success"]), l))
    BY <1>1, <1>7, <1>9, <2>1, WindowTyped
  <2>3. Needed(rule) = Threshold["success"] /\ Counted(d, r, rule) = Len(d.times[l])
    BY <1>9, <2>1, NeededOfOthers, CountedIs
  <2>4. Cardinality(Evidence(U, r, rule)) \in Nat /\ Threshold["success"] \in Nat
    BY <1>5, <1>6, DueStays, ThresholdTyped
  <2>5. QED
    BY <1>3, <1>9, <2>1, <2>2, <2>3, <2>4
<1>10. ASSUME rule = "success_after_failures" \/ rule = "mail_success_after_failures"
       PROVE  Borne(rule)
  <2>1. CASE rule = "success_after_failures"
    <3>1. LooksBack(r, "auth") /\ Len(d.times["auth"]) >= Threshold["success"]
      BY <1>6, <2>1, ConditionsAre
    <3>2. Evidence(U, r, rule) = Fed(Lately(U, r, Window["success"]), "auth")
      BY <2>1, <3>1, EvidenceOfOthers
    <3>3. QED
      BY <1>9, <2>1, <3>1, <3>2 DEF Repeating
  <2>2. CASE rule = "mail_success_after_failures"
    <3>1. LooksBack(r, "mail") /\ Len(d.times["mail"]) >= Threshold["success"]
      BY <1>6, <2>2, ConditionsAre
    <3>2. Evidence(U, r, rule) = Fed(Lately(U, r, Window["success"]), "mail")
      BY <2>2, <3>1, EvidenceOfOthers
    <3>3. QED
      BY <1>9, <2>2, <3>1, <3>2 DEF Repeating
  <2>3. QED
    BY <1>10, <2>1, <2>2
<1>11. ASSUME rule = "mail_password_spray_attempt" PROVE Borne(rule)
  <2>1. /\ Feeds(r, "mail") /\ r.user # ""
        /\ Cardinality(Usernames(d)) >= Threshold["users"]
        /\ Len(d.times["mail"]) >= Threshold["spray"]
    BY <1>6, <1>11, ConditionsAre
  <2> DEFINE A == Fed(Lately(U, r, Window["mail"]), "mail")
             B == {x \in Fed(Lately(U, r, Window["users"]), "mail") : x.user # ""}
             W == {s.user : s \in B}
  <2>2. Len(d.times["mail"]) <= Cardinality(A)
    BY <1>1, <1>7, <2>1, WindowTyped, ListNames
  <2>3. Cardinality(A) >= Threshold["spray"]
    <3>1. A \subseteq U
      BY LatelyGrows DEF Fed
    <3> HIDE DEF A
    <3>2. Cardinality(A) \in Nat
      BY <1>5, <3>1, FS_Subset, FS_CardinalityType
    <3>3. /\ Threshold["spray"] \in Nat /\ Len(d.times["mail"]) \in Nat
          /\ Len(d.times["mail"]) >= Threshold["spray"]
      BY <1>3, <2>1, ThresholdTyped, ListNames
    <3>4. QED
      BY <2>2, <3>2, <3>3
  <2>4. Evidence(U, r, rule) = W
    BY <1>11, <2>1, <2>3, EvidenceOfOthers
  <2>5. IsFiniteSet(W)
    <3>1. B \subseteq U
      BY LatelyGrows DEF Fed
    <3> HIDE DEF B
    <3>2. QED
      BY <1>5, <3>1, FS_Subset, UsersFinite
  <2>6. Usernames(d) \subseteq W
    <3> SUFFICES ASSUME NEW i \in DOMAIN d.users PROVE d.users[i][2] \in W
      BY DEF Usernames
    <3>1. i \in 1 .. Len(d.users)
      BY <1>3
    <3>2. PICK s \in Fed(Since(Window["users"]), "mail") : Names(s, d.users[i])
      BY <1>1, <2>1, <3>1 DEF Named
    <3>3. s \in Fed(Lately(U, r, Window["users"]), "mail")
      BY <1>4, WindowTyped DEF Fed
    <3>4. s \in B /\ s.user = d.users[i][2]
      BY <3>2, <3>3 DEF Names
    <3>5. QED
      BY <3>4
  <2> HIDE DEF W
  <2>7. /\ Cardinality(Usernames(d)) <= Cardinality(W)
        /\ Cardinality(Usernames(d)) \in Nat /\ Cardinality(W) \in Nat
    BY <2>5, <2>6, CardinalGrows
  <2>8. /\ Needed(rule) = Threshold["users"] /\ Threshold["users"] \in Nat
        /\ Counted(d, r, rule) = Cardinality(Usernames(d))
    BY <1>11, NeededOfOthers, CountedIs, ThresholdTyped
  <2>9. Cardinality(Usernames(d)) >= Threshold["users"]
    BY <2>1
  <2>10. QED
    BY <2>4, <2>7, <2>8, <2>9
<1>12. ASSUME NEW A, NEW x \in A, Evidence(U, r, rule) = A, Needed(rule) = 1,
              Counted(d, r, rule) = 0
       PROVE  Borne(rule)
  <2>1. IsFiniteSet(A) /\ {x} \subseteq A
    BY <1>5, <1>6, <1>12, EvidenceGrows
  <2>2. Cardinality({x}) = 1
    BY FS_Singleton
  <2>3. 1 <= Cardinality(A) /\ Cardinality(A) \in Nat
    BY <2>1, <2>2, FS_Subset, FS_CardinalityType
  <2>4. QED
    BY <1>12, <2>3
<1>13. ASSUME rule \notin ListRules \cup Repeating
                \cup {"mail_password_spray_attempt", "multi_source_ip_activity"}
       PROVE  Needed(rule) = 1 /\ Counted(d, r, rule) = 0
  <2>1. rule \in Rule \ (ListRules \cup Repeating \cup
                           {"mail_password_spray_attempt", "multi_source_ip_activity"})
    BY <1>6, <1>13
  <2>2. rule \in Rule \ ((ListRules \ {RuleOf["errors"]}) \cup Repeating
                            \cup {"mail_password_spray_attempt"})
    BY <2>1
  <2>3. Needed(rule) = 1
    BY <2>1, NeededOfOthers
  <2>4. Counted(d, r, rule) = 0
    BY <2>2, CountedIs
  <2>5. QED
    BY <2>3, <2>4
<1>14. ASSUME rule = "multi_source_ip_activity" PROVE Borne(rule)
  <2>1. (\E s \in Activity : From(r, s)) /\ Cardinality(Busy(d)) >= 2
    BY <1>6, <1>14, ConditionsAre
  <2>2. Evidence(U, r, rule) = {s \in Activity :
          Cardinality(Of(Lately(U, r, Window["sources"]), s)) >= Threshold["sources"]}
    BY <1>14, <2>1, EvidenceOfOthers
  <2>3. ASSUME NEW s \in Busy(d) PROVE s \in Evidence(U, r, rule)
    <3> DEFINE A == Of(Since(Window["sources"]), s)
               B == Of(Lately(U, r, Window["sources"]), s)
    <3>1. s \in Activity /\ Len(d.activity[s]) >= Threshold["sources"]
      BY DEF Busy
    <3>2. A \subseteq B
      BY <1>4, WindowTyped DEF Of
    <3>3. B \subseteq U
      BY LatelyGrows DEF Of
    <3>4. Backed(A, d.activity[s])
      BY <1>1, <2>1, <3>1
    <3> HIDE DEF A, B
    <3>5. Backed(B, d.activity[s]) /\ IsFiniteSet(B)
      BY <1>5, <3>2, <3>3, <3>4, BackedByMore, FS_Subset
    <3>6. Len(d.activity[s]) <= Cardinality(B)
      BY <1>3, <3>1, <3>5, BackedFew
    <3>7. Cardinality(B) \in Nat
      BY <3>5, FS_CardinalityType
    <3>8. Cardinality(B) >= Threshold["sources"]
      BY <1>3, <3>1, <3>6, <3>7, ThresholdTyped
    <3>9. QED
      BY <2>2, <3>1, <3>8 DEF B
  <2>4. IsFiniteSet(Evidence(U, r, rule)) /\ Busy(d) \subseteq Evidence(U, r, rule)
    BY <1>5, <1>6, <2>3, EvidenceGrows
  <2>5. /\ Cardinality(Busy(d)) \in Nat /\ Cardinality(Evidence(U, r, rule)) \in Nat
        /\ Cardinality(Busy(d)) <= Cardinality(Evidence(U, r, rule))
    BY <2>4, CardinalGrows
  <2>6. Counted(d, r, rule) = 0 /\ Needed(rule) = 2
    <3>1. rule \notin ListRules \cup Repeating \cup {"mail_password_spray_attempt"}
      BY <1>14, ListRulesIs DEF Repeating
    <3>2. rule \in Rule \ ((ListRules \ {RuleOf["errors"]}) \cup Repeating
                              \cup {"mail_password_spray_attempt"})
      BY <1>6, <3>1
    <3>3. Counted(d, r, rule) = 0
      BY <3>2, CountedIs
    <3>4. Needed(rule) = 2
      BY <1>14, NeededOfOthers
    <3>5. QED
      BY <3>3, <3>4
  <2>7. QED
    BY <2>1, <2>5, <2>6
<1>15. ASSUME rule = "root_login_attempt" \/ rule = "suspicious_web_probe" PROVE Borne(rule)
  <2>1. r \in Evidence(U, r, rule)
    <3>1. CASE rule = "root_login_attempt"
      <4>1. r.type = "ssh_root_login_attempt"
        BY <1>6, <3>1, ConditionsAre
      <4>2. Evidence(U, r, rule) = Alone(r, "ssh_root_login_attempt")
        BY <3>1, EvidenceOfOthers
      <4>3. QED
        BY <4>1, <4>2 DEF Alone
    <3>2. CASE rule = "suspicious_web_probe"
      <4>1. r.type = "nginx_suspicious_request"
        BY <1>6, <3>2, ConditionsAre
      <4>2. Evidence(U, r, rule) = Alone(r, "nginx_suspicious_request")
        BY <3>2, EvidenceOfOthers
      <4>3. QED
        BY <4>1, <4>2 DEF Alone
    <3>3. QED
      BY <1>15, <3>1, <3>2
  <2>2. Needed(rule) = 1 /\ Counted(d, r, rule) = 0
    BY <1>13, <1>15, ListRulesIs DEF Repeating
  <2>3. QED
    BY <1>12, <2>1, <2>2
<1>16. ASSUME NEW window \in Nat, ProbedBefore(d, r, window)
       PROVE  \E s : s \in Probes(U, r, window)
  <2>1. d.probed # Never /\ d.probed < r.at /\ r.at - d.probed <= window
    BY <1>16 DEF ProbedBefore
  <2>2. PICK s \in all : s.type = "nginx_suspicious_request" /\ s.at = d.probed
    BY <1>1, <2>1 DEF Shown
  <2>3. s \in Probes(U, r, window)
    BY <1>4, <2>1, <2>2 DEF Probes, Lately
  <2>4. QED
    BY <2>3
<1>17. ASSUME rule = "web_probe_followed_by_auth_activity"
              \/ rule = "web_probe_followed_by_fail2ban_ban"
       PROVE  Borne(rule)
  <2>1. Needed(rule) = 1 /\ Counted(d, r, rule) = 0
    BY <1>13, <1>17, ListRulesIs DEF Repeating
  <2>2. CASE rule = "web_probe_followed_by_auth_activity"
    <3>1. From(r, "auth") /\ ProbedBefore(d, r, Window["probe_auth"])
      BY <1>6, <2>2, ConditionsAre
    <3>2. Evidence(U, r, rule) = Probes(U, r, Window["probe_auth"])
      BY <2>2, <3>1, EvidenceOfOthers
    <3>3. QED
      BY <1>12, <1>16, <2>1, <3>1, <3>2, WindowTyped
  <2>3. CASE rule = "web_probe_followed_by_fail2ban_ban"
    <3>1. r.type = "ban" /\ ProbedBefore(d, r, Window["probe_ban"])
      BY <1>6, <2>3, ConditionsAre
    <3>2. Evidence(U, r, rule) = Probes(U, r, Window["probe_ban"])
      BY <2>3, <3>1, EvidenceOfOthers
    <3>3. QED
      BY <1>12, <1>16, <2>1, <3>1, <3>2, WindowTyped
  <2>4. QED
    BY <1>17, <2>2, <2>3
<1>18. ASSUME NEW s \in d.seenIn PROVE \E x : x \in Of(History(U, r), s)
  BY <1>1, <1>4 DEF Shown, Of
<1>19. ASSUME rule \in {"ip_banned_after_auth_activity", "ip_banned_after_web_activity",
                        "ip_banned_after_mail_activity"}
       PROVE  Borne(rule)
  <2>1. Needed(rule) = 1 /\ Counted(d, r, rule) = 0
    BY <1>13, <1>19, ListRulesIs DEF Repeating
  <2>2. \E s \in d.seenIn : Evidence(U, r, rule) = Of(History(U, r), s)
    <3>1. CASE rule = "ip_banned_after_auth_activity"
      <4>1. r.type = "ban" /\ "auth" \in d.seenIn
        BY <1>6, <3>1, ConditionsAre
      <4>2. QED
        BY <3>1, <4>1, EvidenceOfOthers
    <3>2. CASE rule = "ip_banned_after_web_activity"
      <4>1. r.type = "ban" /\ "nginx" \in d.seenIn
        BY <1>6, <3>2, ConditionsAre
      <4>2. QED
        BY <3>2, <4>1, EvidenceOfOthers
    <3>3. CASE rule = "ip_banned_after_mail_activity"
      <4>1. r.type = "ban" /\ "mail" \in d.seenIn
        BY <1>6, <3>3, ConditionsAre
      <4>2. QED
        BY <3>3, <4>1, EvidenceOfOthers
    <3>4. QED
      BY <1>19, <3>1, <3>2, <3>3
  <2>3. QED
    BY <1>12, <1>18, <2>1, <2>2
<1> HIDE DEF Borne
<1>20. Borne(rule)
  BY <1>6, <1>8, <1>10, <1>11, <1>14, <1>15, <1>17, <1>19, ListNames, RuleOfIs DEF Rule
<1>21. QED
  BY <1>20 DEF Borne, Due, d, U

-----------------------------------------------------------------------------
(* The runs. *)

\* The rows are different, and apart from those of fail2ban; and while a run goes
\* through its batch, what its detector remembers is shown by them.
AlarmInv ==
  /\ Distinct(events)
  /\ \A r \in ToSet(actions) : From(r, "fail2ban")
  /\ pc = "process" => AllShown(Rows, state)

\* The elements of a sequence.
LEMMA ToSetIs ==
  ASSUME NEW R, NEW s \in Seq(R)
  PROVE  /\ ToSet(s) = {s[i] : i \in 1 .. Len(s)}
         /\ ToSet(s) \subseteq R
         /\ IsFiniteSet(ToSet(s))
<1>1. ToSet(s) = {s[i] : i \in 1 .. Len(s)} /\ Len(s) \in Nat
  BY DEF ToSet
<1>2. IsFiniteSet({s[i] : i \in 1 .. Len(s)})
  BY <1>1, ListedFinite
<1>3. QED
  BY <1>1, <1>2

LEMMA RowsFinite ==
  ASSUME TypeOK
  PROVE  IsFiniteSet(Rows) /\ Rows \subseteq Record
<1>1. /\ IsFiniteSet(ToSet(events)) /\ ToSet(events) \subseteq Record
      /\ IsFiniteSet(ToSet(actions)) /\ ToSet(actions) \subseteq Record
  BY ToSetIs DEF TypeOK
<1>2. QED
  BY <1>1, FS_Union DEF Rows

\* A sequence stays without repetitions when what it does not have is added.
LEMMA DistinctAppend ==
  ASSUME NEW s \in Seq(Record), Distinct(s), NEW r \in Record, r \notin ToSet(s)
  PROVE  Distinct(Append(s, r))
<1> DEFINE n == Len(s)
           t == Append(s, r)
<1>1. n \in Nat /\ Len(t) = n + 1 /\ t[n + 1] = r /\ \A i \in 1 .. n : t[i] = s[i] /\ s[i] # r
  BY AppendProperties DEF ToSet
<1>2. \A i, j \in 1 .. n : i < j => s[i] # s[j]
  BY DEF Distinct
<1> HIDE DEF t, n
<1>3. ASSUME NEW i \in 1 .. n + 1, NEW j \in 1 .. n + 1, i < j PROVE t[i] # t[j]
  <2>1. i \in 1 .. n /\ (j = n + 1 \/ j \in 1 .. n)
    BY <1>1, <1>3
  <2>2. QED
    BY <1>1, <1>2, <1>3, <2>1
<1>4. QED
  BY <1>1, <1>3 DEF Distinct, t

\* What a step that stores a record does.
LEMMA StoredStep ==
  ASSUME TypeInv, CursorInv, ProcessRecord, NEW r, r = Head(batch), ~(Suppressed(r) \/ r \in Rows)
  PROVE  /\ r \in Record /\ r \notin Rows /\ \A s \in Rows : s.at <= r.at
         /\ state' = Processed(state, r) /\ pending' = FindingsAt(state, r)
         /\ Rows' = Rows \cup {r}
         /\ From(r, "fail2ban") => events' = events /\ actions' = Append(actions, r)
         /\ ~From(r, "fail2ban") => events' = Append(events, r) /\ actions' = actions
<1>1. batch \in Seq(Record) /\ batch # <<>>
  BY DEF TypeInv, TypeOK, ProcessRecord
<1>2. r = batch[1] /\ 1 \in 1 .. Len(batch) /\ r \in Record
  BY <1>1, HeadTailProperties
<1>3. /\ state' = Processed(state, r) /\ pending' = FindingsAt(state, r)
      /\ From(r, "fail2ban") => events' = events /\ actions' = Append(actions, r)
      /\ ~From(r, "fail2ban") => events' = Append(events, r) /\ actions' = actions
  BY DEF ProcessRecord
<1>4. /\ ToSet(Append(events, r)) = ToSet(events) \cup {r}
      /\ ToSet(Append(actions, r)) = ToSet(actions) \cup {r}
  BY <1>2, AppendSet DEF TypeInv, TypeOK
<1>5. Rows' = Rows \cup {r}
  BY <1>3, <1>4 DEF Rows
<1>6. \A s \in Rows : s.at <= r.at
  BY <1>2 DEF CursorInv
<1>7. QED
  BY <1>2, <1>3, <1>5, <1>6

LEMMA NextAlarm ==
  ASSUME "all" \notin CliSince, TypeInv, CursorInv, AlarmInv, [Next]_vars
  PROVE  AlarmInv'
<1>1. ASSUME UNCHANGED <<events, actions>>, pc' # "process" \/ UNCHANGED <<pc, state>>
      PROVE  AlarmInv'
  BY <1>1 DEF AlarmInv, Rows
<1>2. CASE Seed
  <2>1. /\ UNCHANGED <<events, actions>>
        /\ state' = IF Collected = <<>> THEN EmptyState ELSE Warmed(Head(Collected).at)
    BY <1>2 DEF Seed, dbVars
  <2>2. /\ events \in Seq(Record) /\ actions \in Seq(Record) /\ Distinct(events)
        /\ \A r \in ToSet(actions) : From(r, "fail2ban")
    BY DEF TypeInv, TypeOK, AlarmInv
  <2>3. \A first : AllShown(Rows, Warmed(first))
    BY <2>2, WarmedShown
  <2>4. AllShown(Rows, state')
    BY <2>1, <2>3, FreshShown
  <2>5. QED
    BY <2>1, <2>2, <2>4 DEF AlarmInv, Rows
<1>3. CASE ProcessRecord
  <2> DEFINE r == Head(batch)
  <2>1. CASE Suppressed(r) \/ r \in Rows
    BY <1>1, <1>3, <2>1 DEF ProcessRecord
  <2>2. CASE ~(Suppressed(r) \/ r \in Rows)
    <3> HIDE DEF r
    <3>1. /\ r \in Record /\ r \notin Rows /\ \A s \in Rows : s.at <= r.at
          /\ state' = Processed(state, r)
          /\ Rows' = Rows \cup {r}
          /\ From(r, "fail2ban") => events' = events /\ actions' = Append(actions, r)
          /\ ~From(r, "fail2ban") => events' = Append(events, r) /\ actions' = actions
      BY <1>3, <2>2, StoredStep DEF r
    <3>2. AllShown(Rows, state) /\ state \in [Key -> Memory] /\ Rows \in SUBSET Record
      BY <1>3, RowsFinite DEF AlarmInv, ProcessRecord, TypeInv, TypeOK
    <3>3. AllShown(Rows', state')
      BY <3>1, <3>2, ProcessedShown
    <3>4. /\ events \in Seq(Record) /\ actions \in Seq(Record) /\ Distinct(events)
          /\ \A x \in ToSet(actions) : From(x, "fail2ban")
          /\ r \notin ToSet(events)
      BY <3>1 DEF TypeInv, TypeOK, AlarmInv, Rows
    <3>5. Distinct(events')
      BY <3>1, <3>4, DistinctAppend
    <3>6. \A x \in ToSet(actions') : From(x, "fail2ban")
      <4>1. ToSet(Append(actions, r)) = ToSet(actions) \cup {r}
        BY <3>1, <3>4, AppendSet
      <4>2. QED
        BY <3>1, <3>4, <4>1
    <3>7. QED
      BY <3>3, <3>5, <3>6 DEF AlarmInv
  <2>3. QED
    BY <2>1, <2>2
<1>4. CASE BeginTick \/ BeginCli
  BY <1>1, <1>4 DEF BeginTick, BeginCli, dbVars
<1>5. CASE Collect
  BY <1>1, <1>5 DEF Collect, dbVars
<1>6. CASE Rebuild
  BY <1>1, <1>6 DEF Rebuild
<1>7. CASE Finish \/ Fail
  BY <1>1, <1>7 DEF Finish, Fail, EndRun, dbVars
<1>8. CASE ClockTick \/ \E l \in Line : Log(l)
  BY <1>1, <1>8 DEF ClockTick, Log, dbVars, runVars
<1>9. CASE Report
  BY <1>1, <1>9 DEF Report, runVars
<1>10. CASE \E f \in pending : InsertFinding(f)
  BY <1>1, <1>10 DEF InsertFinding
<1>11. CASE UNCHANGED vars
  BY <1>1, <1>11 DEF vars, dbVars, runVars
<1>12. QED
  BY <1>2, <1>3, <1>4, <1>5, <1>6, <1>7, <1>8, <1>9, <1>10, <1>11 DEF Next

\* Among the rows is one that the finding was made at, and that is borne out.
BorneOut(f, S) ==
  \E r \in S : /\ r.key = f.key /\ r.at = f.at
               /\ Due(S, r, f.type)
               /\ f.n <= Cardinality(Evidence(S, r, f.type))

LEMMA BorneOutStays ==
  ASSUME NEW U, IsFiniteSet(U), NEW S, S \subseteq U, NEW f \in Finding, BorneOut(f, S)
  PROVE  BorneOut(f, U)
<1>1. PICK r \in S : /\ r.key = f.key /\ r.at = f.at
                     /\ Due(S, r, f.type)
                     /\ f.n <= Cardinality(Evidence(S, r, f.type))
  BY DEF BorneOut
<1>2. f.type \in Rule /\ f.n \in Nat
  BY EnabledAssumption DEF Finding
<1>3. /\ Cardinality(Evidence(S, r, f.type)) \in Nat /\ Cardinality(Evidence(U, r, f.type)) \in Nat
      /\ Cardinality(Evidence(S, r, f.type)) <= Cardinality(Evidence(U, r, f.type))
      /\ Due(U, r, f.type)
  BY <1>1, <1>2, DueStays
<1>4. r \in U /\ f.n <= Cardinality(Evidence(U, r, f.type))
  BY <1>1, <1>2, <1>3
<1>5. QED
  BY <1>1, <1>3, <1>4 DEF BorneOut

LEMMA NextSound ==
  ASSUME TypeInv, CursorInv, AlarmInv, Sound, [Next]_vars
  PROVE  Sound'
<1>1. \A f \in findings \cup pending : f \in Finding /\ BorneOut(f, Rows)
  BY DEF Sound, BorneOut, TypeInv, TypeOK
<1>2. ASSUME UNCHANGED <<events, actions>>, findings' \cup pending' \subseteq findings \cup pending
      PROVE  Sound'
  <2>1. Rows' = Rows
    BY <1>2 DEF Rows
  <2>2. QED
    BY <1>2, <2>1 DEF Sound
<1>3. CASE ProcessRecord
  <2> DEFINE r == Head(batch)
  <2>1. CASE Suppressed(r) \/ r \in Rows
    BY <1>2, <1>3, <2>1 DEF ProcessRecord
  <2>2. CASE ~(Suppressed(r) \/ r \in Rows)
    <3> HIDE DEF r
    <3>1. /\ r \in Record /\ r \notin Rows /\ \A s \in Rows : s.at <= r.at
          /\ pending' = FindingsAt(state, r)
          /\ Rows' = Rows \cup {r}
      BY <1>3, <2>2, StoredStep DEF r
    <3>2. /\ AllShown(Rows, state) /\ state \in [Key -> Memory] /\ Rows \in SUBSET Record
          /\ IsFiniteSet(Rows) /\ IsFiniteSet(Rows') /\ findings' = findings
      BY <1>3, <3>1, RowsFinite, FS_AddElement DEF AlarmInv, ProcessRecord, TypeInv, TypeOK
    <3>3. ASSUME NEW f \in findings PROVE BorneOut(f, Rows')
      BY <1>1, <3>1, <3>2, BorneOutStays
    <3>4. ASSUME NEW f \in FindingsAt(state, r) PROVE BorneOut(f, Rows')
      <4>1. PICK rule \in Firing(Noted(state, r), r) :
              f = [type |-> rule, key |-> r.key, at |-> r.at,
                   n |-> Counted(Noted(state, r), r, rule)]
        BY DEF FindingsAt, Findings
      <4>2. /\ Due(Rows \cup {r}, r, rule)
            /\ Counted(Noted(state, r), r, rule) <= Cardinality(Evidence(Rows \cup {r}, r, rule))
        BY <3>1, <3>2, NoFalseAlarm
      <4>3. QED
        BY <3>1, <4>1, <4>2 DEF BorneOut
    <3>5. \A f \in findings' \cup pending' : BorneOut(f, Rows')
      BY <3>1, <3>2, <3>3, <3>4
    <3>6. QED
      BY <3>5 DEF Sound, BorneOut
  <2>3. QED
    BY <2>1, <2>2
<1>4. CASE \E f \in pending : InsertFinding(f)
  BY <1>2, <1>4 DEF InsertFinding
<1>5. CASE BeginTick \/ BeginCli
  BY <1>2, <1>5 DEF BeginTick, BeginCli, dbVars
<1>6. CASE Collect
  BY <1>2, <1>6 DEF Collect, dbVars
<1>7. CASE Seed
  BY <1>2, <1>7 DEF Seed, dbVars
<1>8. CASE Rebuild
  BY <1>2, <1>8 DEF Rebuild
<1>9. CASE Finish \/ Fail
  BY <1>2, <1>9 DEF Finish, Fail, EndRun, dbVars
<1>10. CASE ClockTick \/ \E l \in Line : Log(l)
  BY <1>2, <1>10 DEF ClockTick, Log, dbVars, runVars
<1>11. CASE Report
  BY <1>2, <1>11 DEF Report, runVars
<1>12. CASE UNCHANGED vars
  BY <1>2, <1>12 DEF vars, dbVars, runVars
<1>13. QED
  BY <1>3, <1>4, <1>5, <1>6, <1>7, <1>8, <1>9, <1>10, <1>11, <1>12 DEF Next

LEMMA InitAlarm == Init => AlarmInv /\ Sound
<1> SUFFICES ASSUME Init PROVE AlarmInv /\ Sound
  OBVIOUS
<1>1. AlarmInv
  BY DEF Init, AlarmInv, Distinct, ToSet
<1>2. Sound
  BY DEF Init, Sound
<1>3. QED
  BY <1>1, <1>2

\* No false alarm: while no command line collects from the beginning, each finding
\* has a row at which the rows of its window, users and sources satisfy its rule,
\* and its message counts no more of them than there are, however the rows are
\* spread over runs that read them back and runs that failed.
THEOREM AlarmsSound ==
  ASSUME "all" \notin CliSince
  PROVE  Spec => []Sound
<1>1. Init => TypeInv /\ CursorInv /\ AlarmInv /\ Sound
  BY InitType, InitCursor, InitAlarm
<1>2. TypeInv /\ CursorInv /\ AlarmInv /\ Sound /\ [Next]_vars
        => (TypeInv /\ CursorInv /\ AlarmInv /\ Sound)'
  BY NextType, NextCursor, NextAlarm, NextSound
<1>3. QED
  BY <1>1, <1>2, PTL DEF Spec

-----------------------------------------------------------------------------
(* Rows, and the lists of times that hold them. *)

\* A place of its own in the list for each row, with the row's time.
Holding(T, times) ==
  {h \in [T -> 1 .. Len(times)] :
     /\ \A s, t \in T : h[s] = h[t] => s = t
     /\ \A s \in T : times[h[s]] = s.at}

Held(T, times) == Holding(T, times) # {}

LEMMA NothingHeld ==
  ASSUME NEW times
  PROVE  Held({}, times)
<1> DEFINE h == [s \in {} |-> 0]
<1>1. h \in Holding({}, times)
  BY DEF Holding
<1>2. QED
  BY <1>1 DEF Held

\* What holds rows holds fewer.
LEMMA HeldFewer ==
  ASSUME NEW T, NEW U, U \subseteq T, NEW times, Held(T, times)
  PROVE  Held(U, times)
<1>1. PICK h \in Holding(T, times) : TRUE
  BY DEF Held
<1>2. /\ h \in [T -> 1 .. Len(times)]
      /\ \A s, t \in T : h[s] = h[t] => s = t
      /\ \A s \in T : times[h[s]] = s.at
  BY <1>1 DEF Holding
<1> DEFINE g == [s \in U |-> h[s]]
<1>3. g \in [U -> 1 .. Len(times)] /\ \A s \in U : g[s] = h[s] /\ s \in T
  BY <1>2
<1> HIDE DEF g
<1>4. g \in Holding(U, times)
  BY <1>2, <1>3 DEF Holding
<1>5. QED
  BY <1>4 DEF Held

\* A list is as long as the rows that it holds are many.
LEMMA HeldMany ==
  ASSUME NEW T, NEW times \in Seq(Nat), Held(T, times)
  PROVE  Cardinality(T) <= Len(times)
<1>1. PICK h \in Holding(T, times) : TRUE
  BY DEF Held
<1>2. h \in Injection(T, 1 .. Len(times))
  BY <1>1 DEF Holding, Injection, IsInjective
<1>3. IsFiniteSet(1 .. Len(times)) /\ Cardinality(1 .. Len(times)) = Len(times)
  <2> DEFINE n == Len(times)
  <2>1. n \in Nat
    OBVIOUS
  <2> HIDE DEF n
  <2>2. IsFiniteSet(1 .. n) /\ Cardinality(1 .. n) = IF 1 > n THEN 0 ELSE n - 1 + 1
    BY <2>1, FS_Interval
  <2>3. Cardinality(1 .. n) = n
    BY <2>1, <2>2
  <2>4. QED
    BY <2>2, <2>3 DEF n
<1>4. Cardinality(T) <= Cardinality(1 .. Len(times))
  BY <1>2, <1>3, FS_Injection
<1>5. QED
  BY <1>3, <1>4

LEMMA HeldAppend ==
  ASSUME NEW T, NEW times \in Seq(Nat), Held(T, times), NEW r, r \notin T, r.at \in Nat
  PROVE  /\ Held(T, Append(times, r.at))
         /\ Held(T \cup {r}, Append(times, r.at))
<1> DEFINE n == Len(times)
           new == Append(times, r.at)
           h(g) == [s \in T \cup {r} |-> IF s = r THEN n + 1 ELSE g[s]]
<1>1. PICK g \in Holding(T, times) : TRUE
  BY DEF Held
<1>2. /\ g \in [T -> 1 .. n]
      /\ \A s, t \in T : g[s] = g[t] => s = t
      /\ \A s \in T : times[g[s]] = s.at
  BY <1>1 DEF Holding
<1>3. /\ n \in Nat /\ Len(new) = n + 1
      /\ \A i \in 1 .. n : new[i] = times[i]
      /\ new[n + 1] = r.at
  BY AppendProperties
<1> HIDE DEF new, n
<1>4. \A i \in 1 .. n : i \in 1 .. n + 1 /\ i # n + 1
  BY <1>3
<1>5. h(g) \in [T \cup {r} -> 1 .. n + 1]
  BY <1>2, <1>3, <1>4
<1>6. h(g)[r] = n + 1 /\ \A s \in T : h(g)[s] = g[s] /\ g[s] \in 1 .. n
  BY <1>2
<1> HIDE DEF h
<1>7. \A s, t \in T \cup {r} : h(g)[s] = h(g)[t] => s = t
  BY <1>2, <1>4, <1>6
<1>8. \A s \in T \cup {r} : new[h(g)[s]] = s.at
  BY <1>2, <1>3, <1>6
<1>9. h(g) \in Holding(T \cup {r}, new)
  BY <1>3, <1>5, <1>7, <1>8 DEF Holding
<1>10. Held(T \cup {r}, new)
  BY <1>9 DEF Held
<1>11. Held(T, new)
  BY <1>10, HeldFewer
<1>12. QED
  BY <1>10, <1>11 DEF new

\* What is pruned still holds the rows in the window.
LEMMA HeldPruned ==
  ASSUME NEW T, NEW times \in Seq(Nat), Held(T, times), NEW moment \in Nat, NEW window \in Nat,
         \A s \in T : s.at >= moment - window
  PROVE  Held(T, Pruned(times, moment, window))
<1> DEFINE n == Len(times)
           left == Pruned(times, moment, window)
<1>1. PICK h \in Holding(T, times) : TRUE
  BY DEF Held
<1>2. /\ h \in [T -> 1 .. n]
      /\ \A s, t \in T : h[s] = h[t] => s = t
      /\ \A s \in T : times[h[s]] = s.at
  BY <1>1 DEF Holding
<1>3. PICK k \in 1 .. n + 1 : /\ left = SubSeq(times, k, n)
                              /\ \A i \in 1 .. k - 1 : times[i] < moment - window
  BY PrunedShape
<1> DEFINE m == n - k + 1
<1>4. n \in Nat /\ m \in Nat /\ k \in Nat
  OBVIOUS
<1>5. Len(left) = m /\ \A i \in 1 .. m : left[i] = times[i + (k - 1)]
  BY <1>3
<1>6. \A i \in 1 .. n : times[i] \in Nat
  OBVIOUS
<1> HIDE DEF left, n
<1>7. ASSUME NEW s \in T
      PROVE  /\ h[s] - (k - 1) \in 1 .. m
             /\ left[h[s] - (k - 1)] = s.at
  <2>1. h[s] \in 1 .. n /\ times[h[s]] = s.at /\ s.at >= moment - window /\ times[h[s]] \in Nat
    BY <1>2, <1>6
  <2>2. ~(h[s] \in 1 .. k - 1)
    <3>1. ~(times[h[s]] < moment - window)
      BY <2>1
    <3>2. QED
      BY <1>3, <3>1
  <2>3. h[s] - (k - 1) \in 1 .. m /\ (h[s] - (k - 1)) + (k - 1) = h[s]
    BY <1>4, <2>1, <2>2
  <2>4. left[h[s] - (k - 1)] = times[h[s]]
    BY <1>5, <2>3
  <2>5. QED
    BY <2>1, <2>3, <2>4
<1> DEFINE g == [s \in T |-> h[s] - (k - 1)]
<1>8. g \in [T -> 1 .. m]
  BY <1>7
<1>9. \A s, t \in T : g[s] = g[t] => s = t
  <2> SUFFICES ASSUME NEW s \in T, NEW t \in T, g[s] = g[t] PROVE s = t
    OBVIOUS
  <2>1. h[s] \in 1 .. n /\ h[t] \in 1 .. n /\ h[s] - (k - 1) = h[t] - (k - 1)
    BY <1>2
  <2>2. h[s] = h[t]
    BY <1>4, <2>1
  <2>3. QED
    BY <1>2, <2>2
<1>10. \A s \in T : left[g[s]] = s.at
  BY <1>7
<1>11. g \in Holding(T, left)
  <2> HIDE DEF g, m
  <2> QED
    BY <1>5, <1>8, <1>9, <1>10 DEF Holding
<1>12. QED
  BY <1>11 DEF Held, left

\* The mail accounts that rows name are in a list of pairs, with their times.
Listed(T, pairs) ==
  \A s \in T : s.user # "" => \E i \in 1 .. Len(pairs) : Names(s, pairs[i])

LEMMA ListedAppend ==
  ASSUME NEW T, NEW pairs \in Seq(Nat \X User), Listed(T, pairs),
         NEW pair \in Nat \X User, NEW r, Names(r, pair)
  PROVE  Listed(T \cup {r}, Append(pairs, pair))
<1> DEFINE n == Len(pairs)
           new == Append(pairs, pair)
<1>1. /\ n \in Nat /\ Len(new) = n + 1
      /\ \A i \in 1 .. n : new[i] = pairs[i]
      /\ new[n + 1] = pair
  BY AppendProperties
<1> HIDE DEF new, n
<1>2. \A i \in 1 .. n : i \in 1 .. n + 1
  BY <1>1
<1>3. n + 1 \in 1 .. n + 1
  BY <1>1
<1>4. ASSUME NEW s \in T \cup {r}, s.user # "" PROVE \E i \in 1 .. n + 1 : Names(s, new[i])
  <2>1. CASE s = r
    BY <1>1, <1>3, <2>1
  <2>2. CASE s \in T
    <3>1. PICK i \in 1 .. n : Names(s, pairs[i])
      BY <1>4, <2>2 DEF Listed, n
    <3>2. QED
      BY <1>1, <1>2, <3>1
  <2>3. QED
    BY <2>1, <2>2
<1>5. QED
  BY <1>1, <1>4 DEF Listed, new

LEMMA ListedPruned ==
  ASSUME NEW T, NEW pairs \in Seq(Nat \X User), Listed(T, pairs),
         NEW moment \in Nat, NEW window \in Nat, \A s \in T : s.at >= moment - window
  PROVE  Listed(T, PrunedPairs(pairs, moment, window))
<1> DEFINE n == Len(pairs)
           left == PrunedPairs(pairs, moment, window)
<1>1. PICK k \in 1 .. n + 1 : /\ left = SubSeq(pairs, k, n)
                              /\ \A i \in 1 .. k - 1 : pairs[i][1] < moment - window
  BY PrunedPairsShape
<1> DEFINE m == n - k + 1
<1>2. n \in Nat /\ m \in Nat /\ k \in Nat
  OBVIOUS
<1>3. Len(left) = m /\ \A i \in 1 .. m : left[i] = pairs[i + (k - 1)]
  BY <1>1, <1>2, SMTT(30)
<1>4. \A i \in 1 .. n : pairs[i][1] \in Nat
  OBVIOUS
<1> HIDE DEF left, n
<1>5. ASSUME NEW s \in T, s.user # "" PROVE \E i \in 1 .. m : Names(s, left[i])
  <2>1. PICK i \in 1 .. n : Names(s, pairs[i])
    BY <1>5 DEF Listed, n
  <2>2. s.at = pairs[i][1] /\ s.at >= moment - window /\ pairs[i][1] \in Nat
    BY <1>4, <2>1 DEF Names
  <2>3. ~(i \in 1 .. k - 1)
    <3>1. ~(pairs[i][1] < moment - window)
      BY <2>2
    <3>2. QED
      BY <1>1, <3>1
  <2>4. i - (k - 1) \in 1 .. m /\ (i - (k - 1)) + (k - 1) = i
    BY <1>2, <2>3
  <2>5. left[i - (k - 1)] = pairs[i]
    BY <1>3, <2>4
  <2>6. QED
    BY <2>1, <2>4, <2>5
<1>6. QED
  <2> HIDE DEF m
  <2> QED
    BY <1>3, <1>5 DEF Listed, left

-----------------------------------------------------------------------------
(* What is remembered, and the rows that it holds. *)

\* What the settings have to be for the history that is read back to be enough, and
\* are by default: room for each address, a window of those that the warm start
\* looks at that is as long as that of bursts, and no failure forgotten sooner at a
\* login than by the failures after it.
Ample ==
  /\ IsFiniteSet(Key) /\ Cardinality(Key) <= MaxTracked
  /\ \E w \in WindowNames \ {"burst"} : Window["burst"] <= Window[w]
  /\ Window["auth"] <= Window["success"] /\ Window["mail"] <= Window["success"]

Within(T, moment, window) == {s \in T : s.at >= moment - window}

\* Of the rows of a key, those in the window of each list as it is at a moment.
Remembered(own, moment, d) ==
  /\ \A l \in List : Held(Within(Fed(own, l), moment, Window[l]), d.times[l])
  /\ Listed(Within(Fed(own, "mail"), moment, Window["users"]), d.users)
  /\ \A s \in Activity : Held(Within(Of(own, s), moment, Window["sources"]), d.activity[s])

AllRemembered(S, moment, st) == \A key \in Key : Remembered(OwnRows(S, key), moment, st[key])

\* Later, fewer rows have to be remembered.
LEMMA RememberedLater ==
  ASSUME NEW own \in SUBSET Record, NEW moment \in Nat, NEW later \in Nat, moment <= later,
         NEW d, Remembered(own, moment, d)
  PROVE  Remembered(own, later, d)
<1>1. ASSUME NEW T \in SUBSET own, NEW window \in Nat
      PROVE  Within(T, later, window) \subseteq Within(T, moment, window)
  BY <1>1 DEF Within, Record
<1>2. /\ \A l \in List : Fed(own, l) \in SUBSET own
      /\ \A s \in Activity : Of(own, s) \in SUBSET own
  BY DEF Fed, Of
<1>3. ASSUME NEW l \in List PROVE Held(Within(Fed(own, l), later, Window[l]), d.times[l])
  <2>1. Within(Fed(own, l), later, Window[l]) \subseteq Within(Fed(own, l), moment, Window[l])
    BY <1>1, <1>2, WindowTyped
  <2>2. Held(Within(Fed(own, l), moment, Window[l]), d.times[l])
    BY DEF Remembered
  <2>3. QED
    BY <2>1, <2>2, HeldFewer
<1>4. Listed(Within(Fed(own, "mail"), later, Window["users"]), d.users)
  <2>1. Within(Fed(own, "mail"), later, Window["users"])
          \subseteq Within(Fed(own, "mail"), moment, Window["users"])
    BY <1>1, <1>2, WindowTyped, ListNames
  <2>2. Listed(Within(Fed(own, "mail"), moment, Window["users"]), d.users)
    BY DEF Remembered
  <2>3. QED
    BY <2>1, <2>2 DEF Listed
<1>5. ASSUME NEW s \in Activity
      PROVE  Held(Within(Of(own, s), later, Window["sources"]), d.activity[s])
  <2>1. Within(Of(own, s), later, Window["sources"])
          \subseteq Within(Of(own, s), moment, Window["sources"])
    BY <1>1, <1>2, WindowTyped
  <2>2. Held(Within(Of(own, s), moment, Window["sources"]), d.activity[s])
    BY DEF Remembered
  <2>3. QED
    BY <2>1, <2>2, HeldFewer
<1>6. QED
  BY <1>3, <1>4, <1>5 DEF Remembered

LEMMA AllRememberedLater ==
  ASSUME NEW S \in SUBSET Record, NEW moment \in Nat, NEW later \in Nat, moment <= later,
         NEW st, AllRemembered(S, moment, st)
  PROVE  AllRemembered(S, later, st)
<1>1. ASSUME NEW key \in Key PROVE Remembered(OwnRows(S, key), later, st[key])
  <2>1. OwnRows(S, key) \in SUBSET Record /\ Remembered(OwnRows(S, key), moment, st[key])
    BY DEF OwnRows, AllRemembered
  <2>2. QED
    BY <2>1, RememberedLater
<1>2. QED
  BY <1>1 DEF AllRemembered

\* As long as there is room for all, every address is tracked.
LEMMA RoomForAll ==
  ASSUME Ample, NEW st, NEW key \in Key
  PROVE  Admitted(st, key)
<1>1. CASE key \in Tracked(st)
  BY <1>1 DEF Admitted
<1>2. CASE key \notin Tracked(st)
  <2> DEFINE T == Tracked(st)
  <2>1. T \subseteq Key /\ T # Key
    BY <1>2 DEF Tracked
  <2>2. IsFiniteSet(Key) /\ Cardinality(Key) <= MaxTracked
    BY DEF Ample
  <2> HIDE DEF T
  <2>3. Cardinality(T) < Cardinality(Key) /\ Cardinality(T) \in Nat /\ Cardinality(Key) \in Nat
    BY <2>1, <2>2, FS_Subset, FS_CardinalityType
  <2>4. Cardinality(T) < MaxTracked
    BY <2>2, <2>3, MaxTrackedAssumption
  <2>5. QED
    BY <2>4 DEF Admitted, T
<1>3. QED
  BY <1>1, <1>2

\* A record noted is remembered, and with it what was.
LEMMA NotedRemembered ==
  ASSUME Ample,
         NEW d \in Memory, NEW st \in [Key -> Memory], NEW r \in Record, d = st[r.key],
         NEW own \in SUBSET Record, r \notin own,
         NEW moment \in Nat, r.at <= moment, Remembered(own, moment, d)
  PROVE  Remembered(own \cup {r}, moment, Noted(st, r))
<1> DEFINE new == Noted(st, r)
           all == own \cup {r}
<1>1. /\ r.key \in Key /\ r.at \in Nat /\ r.user \in User
      /\ d.times \in [List -> Seq(Nat)] /\ d.users \in Seq(Nat \X User)
      /\ d.activity \in [Activity -> Seq(Nat)]
      /\ \A s \in all : s.at \in Nat
  BY DEF Memory, Record
<1>2. /\ new.times = NotedTimes(d, r)
      /\ new.users = IF Feeds(r, "mail") /\ r.user # ""
                     THEN PrunedPairs(Append(d.users, <<r.at, r.user>>), r.at, Window["users"])
                     ELSE d.users
      /\ new.activity = IF \E s \in Activity : From(r, s) THEN NotedActivity(st, r)
                        ELSE d.activity
  BY <1>1 DEF Noted, Memory
<1> HIDE DEF new
<1>3. /\ \A l \in List : Held(Within(Fed(own, l), moment, Window[l]), d.times[l])
      /\ Listed(Within(Fed(own, "mail"), moment, Window["users"]), d.users)
      /\ \A s \in Activity : Held(Within(Of(own, s), moment, Window["sources"]), d.activity[s])
  BY DEF Remembered
<1>4. ASSUME NEW T, T \subseteq all, NEW window \in Nat, NEW longer \in Nat, window <= longer,
             NEW s \in Within(T, moment, window)
      PROVE  s.at >= r.at - longer
  <2>1. s \in all /\ s.at >= moment - window
    BY <1>4 DEF Within
  <2>2. s.at \in Nat /\ r.at \in Nat
    BY <1>1, <2>1
  <2>3. QED
    BY <1>4, <2>1, <2>2
<1>5. ASSUME NEW T \in SUBSET own, NEW times \in Seq(Nat), NEW window \in Nat,
             Held(Within(T, moment, window), times)
      PROVE  /\ Held(Within(T \cup {r}, moment, window), Append(times, r.at))
             /\ Append(times, r.at) \in Seq(Nat)
  <2> DEFINE A == Within(T, moment, window)
             B == Within(T \cup {r}, moment, window)
  <2>1. r \notin A /\ B \subseteq A \cup {r}
    BY DEF Within
  <2>2. Held(A, times)
    BY <1>5
  <2> HIDE DEF A, B
  <2>3. Held(A \cup {r}, Append(times, r.at))
    BY <1>1, <2>1, <2>2, HeldAppend
  <2>4. Held(B, Append(times, r.at))
    BY <2>1, <2>3, HeldFewer
  <2>5. QED
    BY <1>1, <2>4 DEF B
<1>6. ASSUME NEW l \in List PROVE Held(Within(Fed(all, l), moment, Window[l]), new.times[l])
  <2> DEFINE T == Fed(own, l)
             times == d.times[l]
             window == Window[l]
  <2>1. /\ T \in SUBSET own /\ times \in Seq(Nat) /\ window \in Nat
        /\ Held(Within(T, moment, window), times)
    BY <1>1, <1>3, WindowTyped DEF Fed
  <2>2. Feeds(r, l) => Fed(all, l) = T \cup {r}
    BY DEF Fed
  <2>3. ~Feeds(r, l) => Fed(all, l) = T
    BY DEF Fed
  <2>4. new.times[l] = IF Feeds(r, l) THEN Pruned(Append(times, r.at), r.at, window)
                       ELSE IF LooksBack(r, l) THEN Pruned(times, r.at, Window["success"])
                       ELSE times
    BY <1>2 DEF NotedTimes
  <2> HIDE DEF T, times, all
  <2>5. CASE Feeds(r, l)
    <3> DEFINE A == Within(T \cup {r}, moment, window)
    <3>1. Held(A, Append(times, r.at)) /\ Append(times, r.at) \in Seq(Nat)
      BY <1>5, <2>1
    <3>2. ASSUME NEW s \in A PROVE s.at >= r.at - window
      <4>1. T \cup {r} \subseteq all /\ window <= window
        BY <2>1 DEF all
      <4>2. QED
        BY <1>4, <2>1, <3>2, <4>1
    <3> HIDE DEF A, window
    <3>3. Held(A, Pruned(Append(times, r.at), r.at, window))
      BY <1>1, <2>1, <3>1, <3>2, HeldPruned
    <3>4. QED
      BY <2>2, <2>4, <2>5, <3>3 DEF A, window
  <2>6. CASE ~Feeds(r, l) /\ LooksBack(r, l)
    <3> DEFINE A == Within(T, moment, window)
    <3>1. window <= Window["success"] /\ Window["success"] \in Nat
      BY <2>6, WindowTyped DEF LooksBack, Ample
    <3>2. \A s \in A : s.at >= r.at - Window["success"]
      <4>1. T \subseteq all
        BY <2>1 DEF all
      <4>2. QED
        BY <1>4, <2>1, <3>1, <4>1
    <3> HIDE DEF A, window
    <3>3. Held(A, Pruned(times, r.at, Window["success"]))
      BY <1>1, <2>1, <3>1, <3>2, HeldPruned DEF A
    <3>4. QED
      BY <2>3, <2>4, <2>6, <3>3 DEF A, window
  <2>7. CASE ~Feeds(r, l) /\ ~LooksBack(r, l)
    BY <2>1, <2>3, <2>4, <2>7
  <2>8. QED
    BY <2>5, <2>6, <2>7
<1>7. Listed(Within(Fed(all, "mail"), moment, Window["users"]), new.users)
  <2> DEFINE A == Within(Fed(own, "mail"), moment, Window["users"])
             B == Within(Fed(all, "mail"), moment, Window["users"])
  <2>1. Window["users"] \in Nat /\ "mail" \in List
    BY WindowTyped, ListNames
  <2>2. CASE Feeds(r, "mail") /\ r.user # ""
    <3> DEFINE pair == <<r.at, r.user>>
               long == Append(d.users, pair)
    <3>1. pair \in Nat \X User /\ Names(r, pair)
      BY <1>1, <2>2 DEF Names
    <3> HIDE DEF pair
    <3>2. Listed(A \cup {r}, long) /\ long \in Seq(Nat \X User)
      BY <1>1, <1>3, <3>1, ListedAppend
    <3>3. B \subseteq A \cup {r}
      BY DEF Within, Fed
    <3>4. ASSUME NEW s \in B PROVE s.at >= r.at - Window["users"]
      <4>1. Fed(all, "mail") \subseteq all
        BY DEF Fed
      <4>2. Window["users"] <= Window["users"]
        BY <2>1
      <4>3. QED
        BY <1>4, <2>1, <3>4, <4>1, <4>2
    <3> HIDE DEF A, B, long
    <3>5. Listed(B, long)
      BY <3>2, <3>3 DEF Listed
    <3>6. Listed(B, PrunedPairs(long, r.at, Window["users"]))
      BY <1>1, <2>1, <3>2, <3>4, <3>5, ListedPruned
    <3>7. QED
      BY <1>2, <2>2, <3>6 DEF B, long, pair
  <2>3. CASE ~(Feeds(r, "mail") /\ r.user # "")
    <3>1. \A s \in B : s \in A \/ s.user = ""
      BY <2>3 DEF Within, Fed
    <3> HIDE DEF A, B
    <3>2. Listed(B, d.users)
      BY <1>3, <3>1 DEF Listed, A
    <3>3. QED
      BY <1>2, <2>3, <3>2 DEF B
  <2>4. QED
    BY <2>2, <2>3
<1>8. ASSUME NEW s \in Activity
      PROVE  Held(Within(Of(all, s), moment, Window["sources"]), new.activity[s])
  <2> DEFINE T == Of(own, s)
             times == d.activity[s]
             window == Window["sources"]
             A == Within(Of(all, s), moment, window)
  <2>1. /\ T \in SUBSET own /\ times \in Seq(Nat) /\ window \in Nat
        /\ Held(Within(T, moment, window), times)
    BY <1>1, <1>3, WindowTyped DEF Of
  <2>2. From(r, s) => Of(all, s) = T \cup {r}
    BY DEF Of
  <2>3. ~From(r, s) => Of(all, s) = T
    BY DEF Of
  <2>4. ASSUME NEW x \in A PROVE x.at >= r.at - window
    <3>1. Of(all, s) \subseteq all
      BY DEF Of
    <3>2. window <= window
      BY <2>1
    <3>3. QED
      BY <1>4, <2>1, <2>4, <3>1, <3>2
  <2>5. (\E x \in Activity : From(r, x)) =>
          new.activity[s] = Pruned(IF From(r, s) THEN Append(times, r.at) ELSE times,
                                   r.at, window)
    BY <1>1, <1>2, RoomForAll DEF NotedActivity
  <2>6. ~(\E x \in Activity : From(r, x)) => new.activity[s] = times
    BY <1>2
  <2> HIDE DEF T, times, window
  <2>7. CASE From(r, s)
    <3>1. Held(A, Append(times, r.at)) /\ Append(times, r.at) \in Seq(Nat)
      BY <1>5, <2>1, <2>2, <2>7
    <3> HIDE DEF A
    <3>2. Held(A, Pruned(Append(times, r.at), r.at, window))
      BY <1>1, <2>1, <2>4, <3>1, HeldPruned
    <3>3. QED
      BY <2>5, <2>7, <3>2 DEF A, window
  <2>8. CASE ~From(r, s)
    <3>1. Held(A, times)
      BY <2>1, <2>3, <2>8
    <3> HIDE DEF A
    <3>2. Held(A, Pruned(times, r.at, window))
      BY <1>1, <2>1, <2>4, <3>1, HeldPruned
    <3>3. QED
      BY <2>5, <2>6, <2>8, <3>1, <3>2 DEF A, window
  <2>9. QED
    BY <2>7, <2>8
<1>9. QED
  BY <1>6, <1>7, <1>8 DEF Remembered, all, new

\* What is remembered does not depend on the alerts.
LEMMA ProcessedRemembered ==
  ASSUME Ample,
         NEW S \in SUBSET Record, NEW st \in [Key -> Memory], NEW r \in Record, r \notin S,
         NEW moment \in Nat, r.at <= moment, AllRemembered(S, moment, st)
  PROVE  AllRemembered(S \cup {r}, moment, Processed(st, r))
<1> DEFINE own == OwnRows(S, r.key)
           d == Noted(st, r)
           new == Processed(st, r)[r.key]
<1>1. r.key \in Key /\ st[r.key] \in Memory /\ d \in Memory
  BY NotedTyped DEF Record
<1>2. Remembered(own \cup {r}, moment, d)
  <2>1. own \in SUBSET Record /\ r \notin own /\ Remembered(own, moment, st[r.key])
    BY <1>1 DEF OwnRows, AllRemembered
  <2> HIDE DEF own, d
  <2>2. QED
    BY <1>1, <2>1, NotedRemembered DEF d
<1>3. own \cup {r} = OwnRows(S \cup {r}, r.key)
  BY DEF OwnRows
<1>4. new = [d EXCEPT !.alerted = d.alerted \cup (Firing(d, r) \ Repeating)]
  BY <1>1 DEF Processed
<1> HIDE DEF own, d, new
<1>5. new.times = d.times /\ new.users = d.users /\ new.activity = d.activity
  BY <1>1, <1>4 DEF Memory
<1>6. Remembered(OwnRows(S \cup {r}, r.key), moment, new)
  BY <1>2, <1>3, <1>5 DEF Remembered
<1>7. ASSUME NEW key \in Key, key # r.key
      PROVE  Remembered(OwnRows(S \cup {r}, key), moment, Processed(st, r)[key])
  <2>1. Processed(st, r)[key] = st[key] /\ OwnRows(S \cup {r}, key) = OwnRows(S, key)
    BY <1>7 DEF Processed, OwnRows
  <2>2. QED
    BY <2>1 DEF AllRemembered
<1>8. QED
  BY <1>6, <1>7 DEF AllRemembered, new

LEMMA EnforcedRemembered ==
  ASSUME NEW S, NEW moment, NEW st \in [Key -> Memory], AllRemembered(S, moment, st),
         NEW r \in Record, From(r, "fail2ban")
  PROVE  AllRemembered(S, moment, Processed(st, r))
<1>1. ASSUME NEW key \in Key, NEW own, Remembered(own, moment, st[key])
      PROVE  Remembered(own, moment, Processed(st, r)[key])
  BY <1>1, EnforcedLeaves DEF Remembered
<1>2. QED
  BY <1>1 DEF AllRemembered

LEMMA FreshRemembered ==
  ASSUME NEW moment
  PROVE  AllRemembered({}, moment, EmptyState)
<1>1. ASSUME NEW key \in Key, NEW d PROVE Remembered(OwnRows({}, key), moment, d)
  <2>1. /\ \A l \in List : Within(Fed(OwnRows({}, key), l), moment, Window[l]) = {}
        /\ Within(Fed(OwnRows({}, key), "mail"), moment, Window["users"]) = {}
        /\ \A s \in Activity : Within(Of(OwnRows({}, key), s), moment, Window["sources"]) = {}
    BY DEF Within, Fed, Of, OwnRows
  <2>2. QED
    BY <2>1, NothingHeld DEF Remembered, Listed
<1>2. QED
  BY <1>1 DEF AllRemembered

\* What holds the rows since a moment, a window before which nothing was left out,
\* holds what there is.
LEMMA RememberedEnough ==
  ASSUME NEW S \in SUBSET Record, NEW moment \in Nat, NEW st, NEW U \in SUBSET S,
         NEW longest \in Nat, \A s \in S : s.at >= moment - longest => s \in U,
         \A l \in List : Window[l] <= longest,
         Window["users"] <= longest, Window["sources"] <= longest,
         AllRemembered(U, moment, st)
  PROVE  AllRemembered(S, moment, st)
<1>1. ASSUME NEW key \in Key PROVE Remembered(OwnRows(S, key), moment, st[key])
  <2> DEFINE A == OwnRows(S, key)
             B == OwnRows(U, key)
             d == st[key]
  <2>1. ASSUME NEW window \in Nat, window <= longest, NEW s \in A, s.at >= moment - window
        PROVE  s \in B
    <3>1. s \in S /\ s.key = key /\ s.at \in Nat
      BY DEF OwnRows, Record
    <3>2. s.at >= moment - longest
      BY <2>1, <3>1
    <3>3. QED
      BY <3>1, <3>2 DEF OwnRows
  <2>2. Remembered(B, moment, d)
    BY DEF AllRemembered
  <2> HIDE DEF A, B, d
  <2>3. ASSUME NEW l \in List PROVE Held(Within(Fed(A, l), moment, Window[l]), d.times[l])
    <3>1. Window[l] \in Nat /\ Window[l] <= longest
      BY WindowTyped
    <3>2. Within(Fed(A, l), moment, Window[l]) \subseteq Within(Fed(B, l), moment, Window[l])
      BY <2>1, <3>1 DEF Within, Fed
    <3>3. QED
      BY <2>2, <3>2, HeldFewer DEF Remembered
  <2>4. Listed(Within(Fed(A, "mail"), moment, Window["users"]), d.users)
    <3>1. Within(Fed(A, "mail"), moment, Window["users"])
            \subseteq Within(Fed(B, "mail"), moment, Window["users"])
      BY <2>1, WindowTyped DEF Within, Fed
    <3>2. Listed(Within(Fed(B, "mail"), moment, Window["users"]), d.users)
      BY <2>2 DEF Remembered
    <3>3. QED
      BY <3>1, <3>2 DEF Listed
  <2>5. ASSUME NEW s \in Activity
        PROVE  Held(Within(Of(A, s), moment, Window["sources"]), d.activity[s])
    <3>1. Within(Of(A, s), moment, Window["sources"])
            \subseteq Within(Of(B, s), moment, Window["sources"])
      BY <2>1, WindowTyped DEF Within, Of
    <3>2. QED
      BY <2>2, <3>1, HeldFewer DEF Remembered
  <2>6. QED
    BY <2>3, <2>4, <2>5 DEF Remembered, A, d
<1>2. QED
  BY <1>1 DEF AllRemembered

-----------------------------------------------------------------------------
(* The alerts. *)

\* A key is marked for a rule that fires at a record of it, and for no other.
LEMMA MarkedBy ==
  ASSUME NEW st \in [Key -> Memory], NEW r \in Record, NEW key \in Key,
         NEW rule \in Processed(st, r)[key].alerted
  PROVE  \/ rule \in st[key].alerted
         \/ key = r.key /\ rule \in Firing(Noted(st, r), r)
<1>1. r.key \in Key /\ st[r.key] \in Memory /\ Noted(st, r) \in Memory
  BY NotedTyped DEF Record
<1>2. Noted(st, r).alerted = st[r.key].alerted
  BY <1>1 DEF Noted, Memory
<1>3. CASE key # r.key
  <2>1. Processed(st, r)[key] = st[key]
    BY <1>3 DEF Processed
  <2>2. QED
    BY <2>1
<1>4. CASE key = r.key
  <2> DEFINE d == Noted(st, r)
  <2>1. Processed(st, r)[key] = [d EXCEPT !.alerted = d.alerted \cup (Firing(d, r) \ Repeating)]
    BY <1>1, <1>4 DEF Processed
  <2> HIDE DEF d
  <2>2. Processed(st, r)[key].alerted = d.alerted \cup (Firing(d, r) \ Repeating)
    BY <1>1, <2>1 DEF Memory, d
  <2>3. QED
    BY <1>2, <1>4, <2>2 DEF d
<1>5. QED
  BY <1>3, <1>4

LEMMA CoveredIs ==
  Covered = ListRules \cup {"root_login_attempt", "suspicious_web_probe",
                            "mail_password_spray_attempt", "multi_source_ip_activity"}
BY DEF Covered, ListRules

\* No covered rule fires at an action of fail2ban.
LEMMA EnforcedFires ==
  ASSUME NEW d, NEW r, From(r, "fail2ban"), NEW rule \in Firing(d, r)
  PROVE  rule \notin Covered
<1>1. r.type \in {"ban", "unban"}
  BY DEF From, TypesOf
<1>2. /\ \A l \in List : ~Feeds(r, l)
      /\ ~Feeds(r, "mail")
      /\ \A s \in Activity : ~From(r, s)
      /\ r.type # "ssh_root_login_attempt" /\ r.type # "nginx_suspicious_request"
  BY <1>1, ListNames DEF Feeds, From, TypesOf, Activity
<1>3. Conditions(d, r)[rule]
  BY DEF Firing
<1>4. \A l \in List : rule # RuleOf[l]
  BY <1>2, <1>3, ConditionsAre
<1>5. rule # "root_login_attempt" /\ rule # "suspicious_web_probe"
  BY <1>2, <1>3, ConditionsAre
<1>6. rule # "mail_password_spray_attempt" /\ rule # "multi_source_ip_activity"
  BY <1>2, <1>3, ConditionsAre
<1>7. QED
  BY <1>4, <1>5, <1>6 DEF Covered

-----------------------------------------------------------------------------
(* No missed alarm. *)

\* A covered rule that the rows and a record after them satisfy is seen when that is
\* noted.
LEMMA NoMissedAlarm ==
  ASSUME Ample,
         NEW S \in SUBSET Record, IsFiniteSet(S), NEW st \in [Key -> Memory],
         NEW r \in Record, r \notin S, \A s \in S : s.at <= r.at, AllRemembered(S, r.at, st),
         NEW rule \in Covered, Due(S \cup {r}, r, rule)
  PROVE  Conditions(Noted(st, r), r)[rule]
<1> DEFINE d == Noted(st, r)
           U == S \cup {r}
           all == OwnRows(S, r.key) \cup {r}
<1>1. Remembered(all, r.at, d)
  <2> DEFINE own == OwnRows(S, r.key)
  <2>1. /\ own \in SUBSET Record /\ r \notin own /\ st[r.key] \in Memory /\ r.at \in Nat
        /\ Remembered(own, r.at, st[r.key]) /\ r.at <= r.at
    BY DEF OwnRows, AllRemembered, Record
  <2> HIDE DEF own
  <2>2. QED
    BY <2>1, NotedRemembered DEF own
<1>2. d \in Memory
  BY NotedTyped
<1>3. /\ \A l \in List : d.times[l] \in Seq(Nat) /\ Len(d.times[l]) \in Nat
      /\ \A s \in Activity : d.activity[s] \in Seq(Nat) /\ Len(d.activity[s]) \in Nat
      /\ d.users \in Seq(Nat \X User)
  BY <1>2 DEF Memory
<1>4. \A window \in Nat : Lately(U, r, window) = Within(all, r.at, window)
  <2>1. \A s \in U : s.at \in Nat /\ r.at \in Nat /\ s.at <= r.at
    BY DEF Record
  <2>2. all = History(U, r)
    BY <2>1 DEF OwnRows, History
  <2>3. ASSUME NEW window \in Nat, NEW s \in U
        PROVE  r.at - s.at <= window <=> s.at >= r.at - window
    BY <2>1
  <2>4. History(U, r) \subseteq U
    BY DEF History
  <2> HIDE DEF all, U
  <2>5. QED
    BY <2>2, <2>3, <2>4 DEF Lately, Within
<1>5. IsFiniteSet(U)
  BY FS_AddElement
<1>6. Cardinality(Evidence(U, r, rule)) >= Needed(rule)
  BY DEF Due
<1>7. rule \in Rule
  BY CoveredIs, ListRulesIs DEF Rule
<1> HIDE DEF d, all, U
<1>8. ASSUME NEW l \in List
      PROVE  /\ Cardinality(Fed(Lately(U, r, Window[l]), l)) \in Nat
             /\ Cardinality(Fed(Lately(U, r, Window[l]), l)) <= Len(d.times[l])
  <2> DEFINE A == Fed(Lately(U, r, Window[l]), l)
  <2>1. A = Within(Fed(all, l), r.at, Window[l])
    BY <1>4, WindowTyped DEF Fed, Within
  <2>2. A \subseteq U
    BY LatelyGrows DEF Fed
  <2> HIDE DEF A
  <2>3. Held(A, d.times[l])
    BY <1>1, <2>1 DEF Remembered
  <2>4. Cardinality(A) <= Len(d.times[l])
    BY <1>3, <2>3, HeldMany
  <2>5. Cardinality(A) \in Nat
    BY <1>5, <2>2, FS_Subset, FS_CardinalityType
  <2>6. QED
    BY <2>4, <2>5 DEF A
<1>9. Cardinality({}) = 0
  BY FS_EmptySet
<1>10. ASSUME NEW l \in List, rule = RuleOf[l] PROVE Conditions(d, r)[rule]
  <2>1. /\ Evidence(U, r, rule) = IF Feeds(r, l) THEN Fed(Lately(U, r, Window[l]), l) ELSE {}
        /\ Needed(rule) = Threshold[l] /\ Threshold[l] \in Nat \ {0}
    BY <1>10, EvidenceOfList, ThresholdTyped
  <2>2. Feeds(r, l)
    <3>1. CASE ~Feeds(r, l)
      <4>1. Evidence(U, r, rule) = {}
        BY <2>1, <3>1
      <4>2. QED
        BY <1>6, <1>9, <2>1, <4>1
    <3>2. QED
      BY <3>1
  <2>3. Cardinality(Fed(Lately(U, r, Window[l]), l)) >= Threshold[l]
    BY <1>6, <2>1, <2>2
  <2>4. Len(d.times[l]) >= Threshold[l]
    BY <1>3, <1>8, <2>1, <2>3
  <2>5. QED
    BY <1>10, <2>2, <2>4, ConditionsAre
<1>11. ASSUME rule = "mail_password_spray_attempt" PROVE Conditions(d, r)[rule]
  <2> DEFINE A == Fed(Lately(U, r, Window["mail"]), "mail")
             B == {x \in Fed(Lately(U, r, Window["users"]), "mail") : x.user # ""}
             W == {s.user : s \in B}
             C == /\ Feeds(r, "mail") /\ r.user # ""
                  /\ Cardinality(A) >= Threshold["spray"]
  <2>1. Evidence(U, r, rule) = IF C THEN W ELSE {}
    BY <1>11, EvidenceOfOthers
  <2>2. Needed(rule) = Threshold["users"] /\ Threshold["users"] \in Nat \ {0}
        /\ Threshold["spray"] \in Nat
    BY <1>11, NeededOfOthers, ThresholdTyped
  <2>3. Cardinality(A) \in Nat /\ Cardinality(A) <= Len(d.times["mail"])
    BY <1>8, ListNames
  <2>4. W \subseteq Usernames(d)
    <3> SUFFICES ASSUME NEW s \in B PROVE s.user \in Usernames(d)
      OBVIOUS
    <3>1. s \in Within(Fed(all, "mail"), r.at, Window["users"]) /\ s.user # ""
      BY <1>4, WindowTyped DEF Within, Fed
    <3>2. PICK i \in 1 .. Len(d.users) : Names(s, d.users[i])
      BY <1>1, <3>1 DEF Remembered, Listed
    <3>3. s.user = d.users[i][2]
      BY <3>2 DEF Names
    <3>4. i \in DOMAIN d.users
      BY <1>3, LenProperties
    <3>5. QED
      BY <3>3, <3>4 DEF Usernames
  <2>5. IsFiniteSet(Usernames(d)) /\ Cardinality(Usernames(d)) \in Nat
    BY <1>2, UsernamesFinite
  <2> HIDE DEF A, W, C
  <2>6. C
    <3>1. CASE ~C
      <4>1. Evidence(U, r, rule) = {}
        BY <2>1, <3>1
      <4>2. QED
        BY <1>6, <1>9, <2>2, <4>1
    <3>2. QED
      BY <3>1
  <2>7. Cardinality(W) >= Threshold["users"]
    BY <1>6, <2>1, <2>2, <2>6
  <2>8. Cardinality(W) \in Nat /\ Cardinality(W) <= Cardinality(Usernames(d))
    BY <2>4, <2>5, FS_Subset, FS_CardinalityType
  <2>9. Cardinality(Usernames(d)) >= Threshold["users"]
    BY <2>2, <2>5, <2>7, <2>8
  <2>10. /\ Feeds(r, "mail") /\ r.user # ""
         /\ Cardinality(A) >= Threshold["spray"]
    BY <2>6 DEF C
  <2>11. Len(d.times["mail"]) >= Threshold["spray"]
    <3> DEFINE n == Len(d.times["mail"])
    <3>1. n \in Nat
      BY <1>3, ListNames
    <3>2. Cardinality(A) \in Nat /\ Cardinality(A) <= n /\ Threshold["spray"] \in Nat
      BY <2>2, <2>3
    <3>3. Cardinality(A) >= Threshold["spray"]
      BY <2>10
    <3> HIDE DEF n
    <3>4. n >= Threshold["spray"]
      BY ONLY <3>1, <3>2, <3>3
    <3>5. QED
      BY <3>4 DEF n
  <2>12. QED
    BY <1>11, <2>9, <2>10, <2>11, ConditionsAre
<1>12. ASSUME rule = "multi_source_ip_activity" PROVE Conditions(d, r)[rule]
  <2> DEFINE C == \E s \in Activity : From(r, s)
             W == {s \in Activity :
                     Cardinality(Of(Lately(U, r, Window["sources"]), s)) >= Threshold["sources"]}
  <2>1. Evidence(U, r, rule) = IF C THEN W ELSE {}
    BY <1>12, EvidenceOfOthers
  <2>2. Needed(rule) = 2
    BY <1>12, NeededOfOthers
  <2>3. W \subseteq Busy(d)
    <3> SUFFICES ASSUME NEW s \in Activity,
                        Cardinality(Of(Lately(U, r, Window["sources"]), s)) >= Threshold["sources"]
                 PROVE  s \in Busy(d)
      OBVIOUS
    <3> DEFINE A == Of(Lately(U, r, Window["sources"]), s)
    <3>1. A = Within(Of(all, s), r.at, Window["sources"])
      BY <1>4, WindowTyped DEF Of, Within
    <3>2. A \subseteq U
      BY LatelyGrows DEF Of
    <3>3. Cardinality(A) >= Threshold["sources"]
      OBVIOUS
    <3> HIDE DEF A
    <3>4. Held(A, d.activity[s])
      BY <1>1, <3>1 DEF Remembered
    <3>5. Cardinality(A) <= Len(d.activity[s])
      BY <1>3, <3>4, HeldMany
    <3>6. Cardinality(A) \in Nat
      BY <1>5, <3>2, FS_Subset, FS_CardinalityType
    <3>7. Len(d.activity[s]) >= Threshold["sources"]
      BY <1>3, <3>3, <3>5, <3>6, ThresholdTyped
    <3>8. QED
      BY <3>7 DEF Busy
  <2>4. IsFiniteSet(Busy(d))
    BY ActivityFinite, FS_Subset DEF Busy
  <2> HIDE DEF C, W
  <2>5. C
    <3>1. CASE ~C
      <4>1. Evidence(U, r, rule) = {}
        BY <2>1, <3>1
      <4>2. QED
        BY <1>6, <1>9, <2>2, <4>1
    <3>2. QED
      BY <3>1
  <2>6. Cardinality(W) >= 2
    BY <1>6, <2>1, <2>2, <2>5
  <2>7. /\ Cardinality(W) \in Nat /\ Cardinality(Busy(d)) \in Nat
        /\ Cardinality(W) <= Cardinality(Busy(d))
    BY <2>3, <2>4, FS_Subset, FS_CardinalityType
  <2>8. Cardinality(Busy(d)) >= 2
    BY <2>6, <2>7
  <2>9. QED
    BY <1>12, <2>5, <2>8, ConditionsAre DEF C
<1>13. ASSUME rule = "root_login_attempt" \/ rule = "suspicious_web_probe"
       PROVE  Conditions(d, r)[rule]
  <2>1. Needed(rule) = 1
    <3>1. rule \in Rule \ (ListRules \cup Repeating \cup
                             {"mail_password_spray_attempt", "multi_source_ip_activity"})
      BY <1>7, <1>13, ListRulesIs DEF Repeating
    <3>2. QED
      BY <3>1, NeededOfOthers
  <2>2. Evidence(U, r, rule) # {}
    BY <1>6, <1>9, <2>1
  <2>3. CASE rule = "root_login_attempt"
    <3>1. Evidence(U, r, rule) = Alone(r, "ssh_root_login_attempt")
      BY <2>3, EvidenceOfOthers
    <3>2. r.type = "ssh_root_login_attempt"
      BY <2>2, <3>1 DEF Alone
    <3>3. QED
      BY <2>3, <3>2, ConditionsAre
  <2>4. CASE rule = "suspicious_web_probe"
    <3>1. Evidence(U, r, rule) = Alone(r, "nginx_suspicious_request")
      BY <2>4, EvidenceOfOthers
    <3>2. r.type = "nginx_suspicious_request"
      BY <2>2, <3>1 DEF Alone
    <3>3. QED
      BY <2>4, <3>2, ConditionsAre
  <2>5. QED
    BY <1>13, <2>3, <2>4
<1>14. Conditions(d, r)[rule]
  BY <1>10, <1>11, <1>12, <1>13 DEF Covered
<1>15. QED
  BY <1>14 DEF d

-----------------------------------------------------------------------------
(* The history that is read back. *)

\* Among the findings F is one of the rule, by a moment.
Found(F, key, rule, moment) == \E f \in F : f.type = rule /\ f.key = key /\ f.at <= moment

\* What is marked as alerted has been found.
AlertsFound(F, moment, st) ==
  \A key \in Key : \A rule \in Covered \cap Enabled :
    rule \in st[key].alerted => Found(F, key, rule, moment)

\* What rows that are read back in order make of the detector, if the findings that
\* they make are among F: it remembers them, and marks for what was found.
LEMMA ReplayedRemembered ==
  ASSUME Ample, NEW records \in Seq(Record), Sorted(records), Distinct(records),
         NEW moment \in Nat, \A r \in ToSet(records) : r.at <= moment,
         NEW F,
         \A i \in 1 .. Len(records) : \A rule \in Covered \cap Enabled :
           Due({records[j] : j \in 1 .. i}, records[i], rule)
             => Found(F, records[i].key, rule, moment)
  PROVE  LET st == Replayed(EmptyState, records)
         IN AllRemembered(ToSet(records), moment, st) /\ AlertsFound(F, moment, st)
<1> DEFINE n == Len(records)
           upTo(i) == {records[j] : j \in 1 .. i}
           Good(i, st) == /\ AllShown(upTo(i), st)
                          /\ AllRemembered(upTo(i), moment, st)
                          /\ AlertsFound(F, moment, st)
           stage == [i \in 0 .. n |-> {st \in [Key -> Memory] : Good(i, st)}]
<1>1. n \in Nat /\ \A i \in 1 .. n : records[i] \in Record /\ records[i].at <= moment
  BY DEF ToSet
<1>2. stage \in [0 .. n -> SUBSET [Key -> Memory]]
  OBVIOUS
<1>3. EmptyState \in stage[0]
  <2>1. upTo(0) = {}
    OBVIOUS
  <2>2. AlertsFound(F, moment, EmptyState)
    BY DEF AlertsFound, EmptyState, Fresh
  <2>3. AllShown(upTo(0), EmptyState) /\ AllRemembered(upTo(0), moment, EmptyState)
    BY <2>1, FreshShown, FreshRemembered
  <2> HIDE DEF upTo
  <2>4. QED
    BY <1>1, <2>2, <2>3, EmptyTyped
<1>4. ASSUME NEW i \in 1 .. n, NEW st \in stage[i - 1] PROVE Processed(st, records[i]) \in stage[i]
  <2> DEFINE r == records[i]
             S == upTo(i - 1)
  <2>1. i \in 0 .. n /\ i - 1 \in 0 .. n /\ r \in Record /\ r.at <= moment
    BY <1>1
  <2>2. /\ st \in [Key -> Memory] /\ AllShown(S, st) /\ AllRemembered(S, moment, st)
        /\ AlertsFound(F, moment, st)
    BY <2>1
  <2>3. \A j \in 1 .. i - 1 : j \in 1 .. n /\ j < i
    BY <1>1
  <2>4. S \in SUBSET Record /\ r \notin S /\ \A s \in S : s.at <= r.at
    BY <1>1, <2>3 DEF Sorted, Distinct
  <2>5. upTo(i) = S \cup {r}
    <3>1. \A j \in 1 .. i : j = i \/ j \in 1 .. i - 1
      OBVIOUS
    <3>2. i \in 1 .. i /\ \A j \in 1 .. i - 1 : j \in 1 .. i
      OBVIOUS
    <3>3. QED
      BY <3>1, <3>2
  <2>6. IsFiniteSet(S)
    <3>1. i - 1 \in Nat
      BY <2>1
    <3>2. QED
      BY <3>1, ListedFinite
  <2>7. \A rule \in Covered \cap Enabled : Due(upTo(i), r, rule) => Found(F, r.key, rule, moment)
    OBVIOUS
  <2> HIDE DEF upTo, r, S
  <2>8. AllShown(upTo(i), Processed(st, r)) /\ AllRemembered(upTo(i), moment, Processed(st, r))
    BY <2>1, <2>2, <2>4, <2>5, ProcessedShown, ProcessedRemembered
  <2>9. ASSUME NEW key \in Key, NEW rule \in Covered \cap Enabled,
               rule \in Processed(st, r)[key].alerted
        PROVE  Found(F, key, rule, moment)
    <3>1. CASE rule \in st[key].alerted
      BY <2>2, <3>1 DEF AlertsFound
    <3>2. CASE key = r.key /\ rule \in Firing(Noted(st, r), r)
      <4>1. Due(S \cup {r}, r, rule)
        BY <2>1, <2>2, <2>4, <2>6, <3>2, NoFalseAlarm
      <4>2. QED
        BY <2>5, <2>7, <3>2, <4>1
    <3>3. QED
      BY <2>1, <2>2, <2>9, <3>1, <3>2, MarkedBy
  <2>10. AlertsFound(F, moment, Processed(st, r))
    BY <2>9 DEF AlertsFound
  <2>11. Processed(st, r) \in [Key -> Memory]
    BY <2>1, <2>2, ProcessedTyped
  <2>12. QED
    BY <2>1, <2>8, <2>10, <2>11 DEF r
<1>5. Replayed(EmptyState, records) \in stage[n]
  <2> HIDE DEF stage
  <2> QED
    BY <1>2, <1>3, <1>4, EmptyTyped, ReplayedIn
<1>6. n \in 0 .. n /\ upTo(n) = ToSet(records)
  BY <1>1 DEF ToSet
<1> HIDE DEF upTo, n
<1>7. QED
  BY <1>5, <1>6

\* Actions that are read back after them change neither.
LEMMA EnforcedAllRemembered ==
  ASSUME NEW S, NEW moment, NEW F, NEW st \in [Key -> Memory],
         AllRemembered(S, moment, st), AlertsFound(F, moment, st),
         NEW records \in Seq(Record), \A r \in ToSet(records) : From(r, "fail2ban")
  PROVE  /\ AllRemembered(S, moment, Replayed(st, records))
         /\ AlertsFound(F, moment, Replayed(st, records))
<1> DEFINE n == Len(records)
           Good == {a \in [Key -> Memory] :
                      AllRemembered(S, moment, a) /\ AlertsFound(F, moment, a)}
           stage == [i \in 0 .. n |-> Good]
<1>1. n \in Nat /\ \A i \in 1 .. n : records[i] \in Record /\ From(records[i], "fail2ban")
  BY DEF ToSet
<1>2. stage \in [0 .. n -> SUBSET [Key -> Memory]] /\ st \in stage[0] /\ stage[n] = Good
  BY <1>1
<1>3. ASSUME NEW r \in Record, From(r, "fail2ban"), NEW a \in Good PROVE Processed(a, r) \in Good
  <2>1. AllRemembered(S, moment, Processed(a, r))
    BY <1>3, EnforcedRemembered
  <2>2. ASSUME NEW key \in Key, NEW rule \in Covered \cap Enabled,
               rule \in Processed(a, r)[key].alerted
        PROVE  Found(F, key, rule, moment)
    <3>1. rule \in a[key].alerted
      BY <1>3, <2>2, MarkedBy, EnforcedFires
    <3>2. QED
      BY <3>1 DEF AlertsFound
  <2>3. AlertsFound(F, moment, Processed(a, r))
    BY <2>2 DEF AlertsFound
  <2>4. QED
    BY <1>3, <2>1, <2>3, ProcessedTyped
<1>4. ASSUME NEW i \in 1 .. n, NEW a \in stage[i - 1] PROVE Processed(a, records[i]) \in stage[i]
  <2>1. i \in 0 .. n /\ i - 1 \in 0 .. n
    BY <1>1
  <2> HIDE DEF Good
  <2>2. a \in Good
    BY <2>1
  <2>3. QED
    BY <1>1, <1>3, <2>1, <2>2
<1>5. Replayed(st, records) \in stage[n]
  <2> HIDE DEF stage
  <2> QED
    BY <1>2, <1>3, <1>4, ReplayedIn
<1>6. QED
  BY <1>2, <1>5

\* The warm start remembers the events of every window, and marks for what has been
\* found: what it reads back at an event was stored when that was.
LEMMA WarmedRemembered ==
  ASSUME Ample, events \in Seq(Record), actions \in Seq(Record),
         Distinct(events), Sorted(events), \A r \in ToSet(actions) : From(r, "fail2ban"),
         \A r \in ToSet(events) : ~Suppressed(r),
         NEW first \in Nat, \A r \in ToSet(events) : r.at <= first,
         findings \cup pending \cup lost \subseteq Finding, Complete
  PROVE  /\ AllRemembered(ToSet(events), first, Warmed(first))
         /\ AlertsFound(findings \cup pending \cup lost, first, Warmed(first))
<1> DEFINE longest == Max({Window[w] : w \in WindowNames \ {"burst"}})
           F == findings \cup pending \cup lost
           wanted == {r \in ToSet(events) : r.at >= first - longest /\ ~Suppressed(r)}
           evs == Kept(events, wanted)
           wantedActs == {r \in ToSet(actions) : r.at >= first - longest /\ ~Suppressed(r)}
           acts == Kept(ByTime(actions), wantedActs)
<1>1. /\ longest \in Nat
      /\ \A l \in List : Window[l] <= longest
      /\ Window["users"] <= longest /\ Window["sources"] <= longest
  <2> DEFINE T == {Window[w] : w \in WindowNames \ {"burst"}}
  <2>1. T \in SUBSET Nat
    BY WindowAssumption
  <2>2. Window["auth"] \in T /\ Window["mail"] \in T /\ Window["errors"] \in T
        /\ Window["sudo"] \in T /\ Window["users"] \in T /\ Window["sources"] \in T
    BY DEF WindowNames
  <2>3. \E b \in Nat : \A m \in T : m <= b
    <3> DEFINE names == <<"auth", "mail", "errors", "sudo", "users",
                          "success", "probe_auth", "probe_ban", "sources">>
    <3>1. /\ Window["auth"] \in Nat /\ Window["mail"] \in Nat /\ Window["errors"] \in Nat
          /\ Window["sudo"] \in Nat /\ Window["users"] \in Nat /\ Window["success"] \in Nat
          /\ Window["probe_auth"] \in Nat /\ Window["probe_ban"] \in Nat
          /\ Window["sources"] \in Nat
      BY WindowAssumption DEF WindowNames
    <3> DEFINE b == Window["auth"] + Window["mail"] + Window["errors"] + Window["sudo"]
                    + Window["users"] + Window["success"] + Window["probe_auth"]
                    + Window["probe_ban"] + Window["sources"]
    <3>2. /\ b \in Nat
          /\ Window["auth"] <= b /\ Window["mail"] <= b /\ Window["errors"] <= b
          /\ Window["sudo"] <= b /\ Window["users"] <= b /\ Window["success"] <= b
          /\ Window["probe_auth"] <= b /\ Window["probe_ban"] <= b /\ Window["sources"] <= b
      BY ONLY <3>1
    <3> HIDE DEF b
    <3>3. \A w \in WindowNames \ {"burst"} : Window[w] <= b
      BY <3>2 DEF WindowNames
    <3>4. QED
      BY <3>2, <3>3
  <2>4. PICK w \in WindowNames \ {"burst"} : Window["burst"] <= Window[w]
    BY DEF Ample
  <2>5. Window[w] \in T /\ Window["burst"] \in Nat
    BY <2>4, WindowTyped, ListNames
  <2> HIDE DEF T
  <2>6. Max(T) \in T /\ \A m \in T : m <= Max(T)
    BY <2>1, <2>2, <2>3, MaxFound
  <2>7. Window["burst"] <= Max(T)
    <3>1. Window[w] \in Nat /\ Max(T) \in Nat /\ Window[w] <= Max(T)
      BY <2>1, <2>5, <2>6
    <3>2. QED
      BY <2>4, <2>5, <3>1
  <2>8. \A l \in List : Window[l] <= Max(T)
    BY <2>2, <2>6, <2>7, ListNames
  <2>9. Max(T) \in Nat /\ Window["users"] <= Max(T) /\ Window["sources"] <= Max(T)
    BY <2>1, <2>2, <2>6
  <2>10. QED
    BY <2>8, <2>9 DEF T
<1>2. ByTime(events) = events /\ ByTime(actions) \in Seq(Record)
      /\ ToSet(ByTime(actions)) = ToSet(actions)
  BY RecordTimed, ByTimeShape
<1>3. Warmed(first) = Replayed(Replayed(EmptyState, evs), acts)
  BY <1>2 DEF Warmed
<1> HIDE DEF longest
<1>4. /\ evs \in Seq(Record) /\ ToSet(evs) = ToSet(events) \cap wanted
      /\ \A p, q \in 1 .. Len(evs) : p < q =>
           \E a, b \in 1 .. Len(events) : a < b /\ evs[p] = events[a] /\ evs[q] = events[b]
      /\ Sorted(evs) /\ Distinct(evs)
  <2> HIDE DEF wanted
  <2> QED
    BY KeptShape, KeptInOrder
<1>5. acts \in Seq(Record) /\ \A r \in ToSet(acts) : From(r, "fail2ban")
  <2> HIDE DEF wantedActs
  <2>1. acts \in Seq(Record) /\ ToSet(acts) = ToSet(ByTime(actions)) \cap wantedActs
    BY <1>2, KeptShape
  <2>2. QED
    BY <1>2, <2>1
<1>6. ToSet(events) \subseteq Record /\ ToSet(evs) \subseteq ToSet(events)
  BY <1>4, ToSetIs
<1> HIDE DEF evs, acts, F
<1>7. ASSUME NEW i \in 1 .. Len(evs), NEW rule \in Covered \cap Enabled,
             Due({evs[j] : j \in 1 .. i}, evs[i], rule)
      PROVE  Found(F, evs[i].key, rule, first)
  <2> DEFINE S == {evs[j] : j \in 1 .. i}
             n == Len(events)
  <2>1. n \in Nat /\ DOMAIN events = 1 .. n /\ Len(evs) \in Nat
    BY <1>4
  <2>2. PICK p \in 1 .. n : evs[i] = events[p]
    <3>1. evs[i] \in ToSet(evs)
      BY <1>4, ToSetIs
    <3>2. evs[i] \in ToSet(events)
      BY <1>6, <3>1
    <3>3. QED
      BY <3>2, ToSetIs
  <2>3. ASSUME NEW j \in 1 .. i PROVE \E a \in 1 .. p : evs[j] = events[a]
    <3>1. CASE j = i
      BY <2>2, <3>1
    <3>2. CASE j < i
      <4>1. j \in 1 .. Len(evs)
        BY <2>1
      <4>2. PICK a \in 1 .. n, b \in 1 .. n : a < b /\ evs[j] = events[a] /\ evs[i] = events[b]
        BY <1>4, <3>2, <4>1
      <4>3. b = p
        <5>1. ~(b < p)
          BY <2>2, <4>2 DEF Distinct
        <5>2. ~(p < b)
          BY <2>2, <4>2 DEF Distinct
        <5>3. b \in Nat /\ p \in Nat
          BY <2>1
        <5>4. QED
          BY <5>1, <5>2, <5>3
      <4>4. a \in 1 .. p
        BY <2>1, <4>2, <4>3
      <4>5. QED
        BY <4>2, <4>4
    <3>3. QED
      BY <3>1, <3>2
  <2>4. StoredUntil(p) = {events[a] : a \in 1 .. p}
    <3> DEFINE first_p == SubSeq(events, 1, p)
    <3>1. first_p \in Seq(Record) /\ Len(first_p) = p
          /\ \A a \in 1 .. p : first_p[a] = events[a]
      BY <2>1
    <3> HIDE DEF first_p
    <3>2. ToSet(first_p) = {first_p[a] : a \in 1 .. Len(first_p)}
      BY <3>1, ToSetIs
    <3>3. {first_p[a] : a \in 1 .. Len(first_p)} = {events[a] : a \in 1 .. p}
      BY ONLY <3>1
    <3>4. QED
      BY <3>2, <3>3 DEF first_p, StoredUntil
  <2>5. S \subseteq StoredUntil(p)
    BY <2>3, <2>4
  <2>6. IsFiniteSet(StoredUntil(p))
    <3>1. p \in Nat
      BY <2>1
    <3>2. QED
      BY <2>4, <3>1, ListedFinite
  <2>7. rule \in Rule
    BY EnabledAssumption
  <2> HIDE DEF S
  <2>8. Due(StoredUntil(p), events[p], rule)
    <3>1. Due(S, events[p], rule)
      BY <1>7, <2>2 DEF S
    <3>2. QED
      BY <2>5, <2>6, <2>7, <3>1, DueStays
  <2>9. PICK f \in F : f.type = rule /\ f.key = events[p].key /\ f.at <= events[p].at
    BY <2>1, <2>8 DEF Complete, F
  <2>10. f.at <= first
    <3>1. events[p] \in ToSet(events)
      BY ToSetIs
    <3>2. events[p].at <= first /\ events[p].at \in Nat
      BY <1>6, <3>1 DEF Record
    <3>3. f.at \in Nat
      BY DEF Finding, F
    <3>4. QED
      BY <2>9, <3>2, <3>3
  <2>11. QED
    BY <2>2, <2>9, <2>10 DEF Found
<1>8. /\ AllRemembered(ToSet(evs), first, Replayed(EmptyState, evs))
      /\ AlertsFound(F, first, Replayed(EmptyState, evs))
  <2>1. \A r \in ToSet(evs) : r.at <= first
    BY <1>6
  <2>2. QED
    BY <1>4, <1>7, <2>1, ReplayedRemembered
<1>9. Replayed(EmptyState, evs) \in [Key -> Memory]
  BY <1>4, EmptyTyped, ReplayedTyped
<1>10. AllRemembered(ToSet(events), first, Replayed(EmptyState, evs))
  <2>1. \A s \in ToSet(events) : s.at >= first - longest => s \in ToSet(evs)
    BY <1>4
  <2> HIDE DEF wanted
  <2>2. QED
    BY <1>1, <1>6, <1>8, <2>1, RememberedEnough
<1>11. /\ AllRemembered(ToSet(events), first, Replayed(Replayed(EmptyState, evs), acts))
       /\ AlertsFound(F, first, Replayed(Replayed(EmptyState, evs), acts))
  BY <1>5, <1>8, <1>9, <1>10, EnforcedAllRemembered
<1>12. QED
  BY <1>3, <1>11 DEF F

-----------------------------------------------------------------------------
(* The runs that miss none. *)

Made == findings \cup pending \cup lost

\* The events are stored in order, and none of them is suppressed; and while a run
\* goes through its batch, its detector remembers the events of every window, and is
\* marked only for what has been found.
CompleteInv ==
  /\ Sorted(events)
  /\ \A r \in ToSet(events) : ~Suppressed(r)
  /\ pc # "process" => pending = {}
  /\ pc = "process" /\ batch # <<>> =>
       /\ AllRemembered(ToSet(events), Head(batch).at, state)
       /\ AlertsFound(Made, Head(batch).at, state)

LEMMA MadeTyped == TypeInv => Made \subseteq Finding
BY DEF TypeInv, TypeOK, Made

LEMMA AlertsFoundLater ==
  ASSUME NEW F, NEW G \in SUBSET Finding, F \subseteq G, NEW st,
         NEW moment \in Nat, NEW later \in Nat, moment <= later, AlertsFound(F, moment, st)
  PROVE  AlertsFound(G, later, st)
<1>1. ASSUME NEW key, NEW rule, Found(F, key, rule, moment) PROVE Found(G, key, rule, later)
  <2>1. PICK f \in F : f.type = rule /\ f.key = key /\ f.at <= moment
    BY <1>1 DEF Found
  <2>2. f \in G /\ f.at \in Nat
    BY DEF Finding
  <2>3. f.at <= later
    BY <2>1, <2>2
  <2>4. QED
    BY <2>1, <2>2, <2>3 DEF Found
<1>2. QED
  BY <1>1 DEF AlertsFound

\* The events until one stay what they are when another one is stored.
LEMMA StoredUntilStays ==
  ASSUME events \in Seq(Record), NEW r \in Record, events' = Append(events, r)
  PROVE  /\ DOMAIN events' = 1 .. Len(events) + 1
         /\ events'[Len(events) + 1] = r
         /\ \A i : i = Len(events) + 1 => StoredUntil(i)' = ToSet(events) \cup {r}
         /\ \A i \in 1 .. Len(events) : /\ events'[i] = events[i]
                                        /\ StoredUntil(i)' = StoredUntil(i)
<1> DEFINE n == Len(events)
           long == Append(events, r)
<1>1. /\ n \in Nat /\ long \in Seq(Record) /\ Len(long) = n + 1 /\ DOMAIN long = 1 .. n + 1
      /\ long[n + 1] = r /\ \A i \in 1 .. n : long[i] = events[i]
  BY AppendProperties
<1>2. ToSet(long) = ToSet(events) \cup {r}
  BY AppendSet
<1> HIDE DEF long, n
<1>3. SubSeq(long, 1, n + 1) = long
  BY <1>1
<1>4. ASSUME NEW i \in 1 .. n PROVE SubSeq(long, 1, i) = SubSeq(events, 1, i)
  <2>1. n = Len(events)
    BY DEF n
  <2>2. QED
    BY <1>1, <2>1
<1>5. events' = long
  BY DEF long
<1>6. \A i : StoredUntil(i)' = ToSet(SubSeq(long, 1, i))
  BY <1>5 DEF StoredUntil
<1>7. \A i \in 1 .. n : StoredUntil(i)' = StoredUntil(i)
  BY <1>4, <1>6 DEF StoredUntil
<1>8. QED
  BY <1>1, <1>2, <1>3, <1>5, <1>6, <1>7 DEF n

\* What a step that stores an event does: if it makes a rule be due, the finding is
\* made.
LEMMA EventStored ==
  ASSUME Ample, TypeInv, CursorInv, AlarmInv, CompleteInv, Complete, ProcessRecord,
         NEW r, r = Head(batch), ~(Suppressed(r) \/ r \in Rows), ~From(r, "fail2ban")
  PROVE  /\ Sorted(events')
         /\ \A x \in ToSet(events') : ~Suppressed(x)
         /\ AllRemembered(ToSet(events'), r.at, state')
         /\ AlertsFound(Made', r.at, state')
         /\ Complete'
<1> DEFINE n == Len(events)
           S == ToSet(events)
           d == Noted(state, r)
<1>1. /\ r \in Record /\ r \notin Rows /\ \A s \in Rows : s.at <= r.at
      /\ state' = Processed(state, r) /\ pending' = FindingsAt(state, r)
      /\ events' = Append(events, r)
  BY StoredStep
<1>2. /\ batch # <<>> /\ pc = "process" /\ pending = {}
      /\ findings' = findings /\ lost' = lost
  BY DEF ProcessRecord
<1>3. /\ events \in Seq(Record) /\ state \in [Key -> Memory] /\ n \in Nat
      /\ S \subseteq Rows
  BY DEF TypeInv, TypeOK, Rows
<1>4. S \in SUBSET Record /\ IsFiniteSet(S) /\ DOMAIN events = 1 .. n
  BY <1>3, ToSetIs
<1>5. AllRemembered(S, r.at, state) /\ AlertsFound(Made, r.at, state)
  BY <1>2 DEF CompleteInv
<1>6. r.key \in Key /\ r.at \in Nat /\ d \in Memory
  <2>1. r.key \in Key /\ r.at \in Nat
    BY <1>1 DEF Record
  <2>2. QED
    BY <1>1, <1>3, <2>1, NotedTyped
<1>7. Made' = findings \cup lost \cup FindingsAt(state, r) /\ Made \subseteq Made'
  BY <1>1, <1>2 DEF Made
<1>8. /\ DOMAIN events' = 1 .. n + 1 /\ events'[n + 1] = r
      /\ \A i : i = n + 1 => StoredUntil(i)' = S \cup {r}
      /\ \A i \in 1 .. n : events'[i] = events[i] /\ StoredUntil(i)' = StoredUntil(i)
  BY <1>1, <1>3, StoredUntilStays
<1>9. ToSet(events') = S \cup {r} /\ Len(events') = n + 1
  BY <1>1, <1>3, AppendSet
<1>10. ASSUME NEW rule \in Firing(d, r) \cap Enabled PROVE Found(Made', r.key, rule, r.at)
  <2> DEFINE f == [type |-> rule, key |-> r.key, at |-> r.at, n |-> Counted(d, r, rule)]
  <2>1. f \in FindingsAt(state, r)
    BY DEF FindingsAt, Findings
  <2>2. f.type = rule /\ f.key = r.key /\ f.at <= r.at
    BY <1>6
  <2> HIDE DEF f
  <2>3. f \in Made'
    BY <1>7, <2>1
  <2>4. QED
    BY <2>2, <2>3 DEF Found
<1> HIDE DEF d, S, n
<1>11. Sorted(events')
  <2> SUFFICES ASSUME NEW i \in 1 .. n + 1, NEW j \in 1 .. n + 1, i < j
               PROVE  events'[i].at <= events'[j].at
    BY <1>9 DEF Sorted
  <2>1. i \in 1 .. n /\ (j \in 1 .. n \/ j = n + 1)
    BY <1>3
  <2>2. events[i] \in Rows /\ events'[i] = events[i]
    BY <1>3, <1>4, <1>8, <2>1, ToSetIs DEF S, n
  <2>3. CASE j = n + 1
    BY <1>1, <1>8, <2>2, <2>3
  <2>4. CASE j \in 1 .. n
    BY <1>8, <2>1, <2>2, <2>4 DEF CompleteInv, Sorted, n
  <2>5. QED
    BY <2>1, <2>3, <2>4
<1>12. \A x \in ToSet(events') : ~Suppressed(x)
  BY <1>9 DEF CompleteInv, S
<1>13. r \notin S /\ \A s \in S : s.at <= r.at
  BY <1>1, <1>3
<1>14. AllRemembered(ToSet(events'), r.at, state')
  <2>1. r.at <= r.at
    BY <1>6
  <2>2. QED
    BY <1>1, <1>3, <1>4, <1>5, <1>6, <1>9, <1>13, <2>1, ProcessedRemembered
<1>15. AlertsFound(Made', r.at, state')
  <2> SUFFICES ASSUME NEW key \in Key, NEW rule \in Covered \cap Enabled,
                      rule \in Processed(state, r)[key].alerted
               PROVE  Found(Made', key, rule, r.at)
    BY <1>1 DEF AlertsFound
  <2>1. \/ rule \in state[key].alerted
        \/ key = r.key /\ rule \in Firing(d, r)
    BY <1>1, <1>3, MarkedBy DEF d
  <2>2. CASE rule \in state[key].alerted
    <3>1. Found(Made, key, rule, r.at)
      BY <1>5, <2>2 DEF AlertsFound
    <3>2. QED
      BY <1>7, <3>1 DEF Found
  <2>3. QED
    BY <1>10, <2>1, <2>2
<1>16. ASSUME NEW rule \in Covered \cap Enabled, Due(S \cup {r}, r, rule)
       PROVE  Found(Made', r.key, rule, r.at)
  <2>1. Conditions(d, r)[rule]
    BY <1>1, <1>3, <1>4, <1>5, <1>13, <1>16, NoMissedAlarm DEF d
  <2>2. CASE rule \in state[r.key].alerted
    <3>1. Found(Made, r.key, rule, r.at)
      BY <1>5, <1>6, <2>2 DEF AlertsFound
    <3>2. QED
      BY <1>7, <3>1 DEF Found
  <2>3. CASE rule \notin state[r.key].alerted
    <3>1. d.alerted = state[r.key].alerted
      BY <1>3, <1>6 DEF d, Noted, Memory
    <3>2. rule \in Rule
      BY EnabledAssumption
    <3>3. rule \in Firing(d, r)
      BY <2>1, <2>3, <3>1, <3>2 DEF Firing
    <3>4. QED
      BY <1>10, <3>3
  <2>4. QED
    BY <2>2, <2>3
<1>17. ASSUME NEW i \in DOMAIN events', NEW rule \in Covered \cap Enabled,
              Due(StoredUntil(i)', events'[i], rule)
       PROVE  Found(Made', events'[i].key, rule, events'[i].at)
  <2>1. i \in 1 .. n \/ i = n + 1
    BY <1>3, <1>8
  <2>2. CASE i = n + 1
    BY <1>8, <1>16, <1>17, <2>2
  <2>3. CASE i \in 1 .. n
    <3>1. Due(StoredUntil(i), events[i], rule)
      BY <1>8, <1>17, <2>3
    <3>2. Found(Made, events[i].key, rule, events[i].at)
      BY <1>4, <2>3, <3>1 DEF Complete, Found, Made
    <3>3. QED
      BY <1>7, <1>8, <2>3, <3>2 DEF Found
  <2>4. QED
    BY <2>1, <2>2, <2>3
<1>18. Complete'
  BY <1>17 DEF Complete, Found, Made
<1>19. QED
  BY <1>11, <1>12, <1>14, <1>15, <1>18

\* What has been found stays found as long as the events do.
LEMMA CompleteStays ==
  ASSUME UNCHANGED events, Made \subseteq Made', Complete
  PROVE  Complete'
<1>1. \A i : StoredUntil(i)' = StoredUntil(i)
  BY DEF StoredUntil
<1>2. QED
  BY <1>1 DEF Complete, Made

LEMMA SeedComplete ==
  ASSUME "all" \notin CliSince, Ample, TypeInv, CursorInv, AlarmInv, CompleteInv, Complete, Seed
  PROVE  CompleteInv'
<1>1. /\ pc = "collect" /\ pc' = "process" /\ batch' = Collected
      /\ UNCHANGED <<events, actions, findings, pending, lost>>
      /\ state' = IF Collected = <<>> THEN EmptyState ELSE Warmed(Head(Collected).at)
  BY DEF Seed, dbVars
<1>2. CASE Collected = <<>>
  BY <1>1, <1>2 DEF CompleteInv
<1>3. CASE Collected # <<>>
  <2> DEFINE first == Head(Collected).at
  <2>1. Collected \in Seq(Record) /\ CursorInv'
    BY CollectedShape, NextCursor DEF TypeInv, TypeOK, LoggedByNow, Next
  <2>2. Head(Collected) = Collected[1] /\ 1 \in 1 .. Len(Collected) /\ first \in Nat
    <3>1. Head(Collected) = Collected[1] /\ 1 \in 1 .. Len(Collected)
      BY <1>3, <2>1, HeadTailProperties
    <3>2. Head(Collected) \in Record
      BY <2>1, <3>1
    <3>3. QED
      BY <3>1, <3>2 DEF Record
  <2>3. \A r \in ToSet(events) : r.at <= first
    BY <1>1, <2>1, <2>2 DEF CursorInv, Rows
  <2> HIDE DEF first
  <2>4. /\ AllRemembered(ToSet(events), first, Warmed(first))
        /\ AlertsFound(Made, first, Warmed(first))
    <3>1. /\ events \in Seq(Record) /\ actions \in Seq(Record)
          /\ Made \subseteq Finding
          /\ Distinct(events) /\ Sorted(events)
          /\ \A r \in ToSet(actions) : From(r, "fail2ban")
          /\ \A r \in ToSet(events) : ~Suppressed(r)
      BY MadeTyped DEF TypeInv, TypeOK, AlarmInv, CompleteInv
    <3>2. QED
      BY <2>2, <2>3, <3>1, WarmedRemembered DEF Made
  <2>5. /\ state' = Warmed(first) /\ Head(batch').at = first /\ Made' = Made
    BY <1>1, <1>3 DEF first, Made
  <2>6. QED
    BY <1>1, <2>4, <2>5 DEF CompleteInv
<1>4. QED
  BY <1>2, <1>3

\* The rest of the batch comes later.
LEMMA NextInBatch ==
  ASSUME TypeInv, CursorInv, ProcessRecord, batch' # <<>>
  PROVE  Head(batch).at \in Nat /\ Head(batch').at \in Nat /\ Head(batch).at <= Head(batch').at
<1>1. batch \in Seq(Record) /\ batch # <<>> /\ batch' = Tail(batch) /\ Sorted(batch)
  BY DEF TypeInv, TypeOK, CursorInv, ProcessRecord
<1>2. /\ Len(batch) \in Nat /\ Head(batch) = batch[1] /\ Len(batch') = Len(batch) - 1
      /\ batch' \in Seq(Record)
      /\ \A i \in 1 .. Len(batch') : batch'[i] = batch[i + 1]
  BY <1>1, HeadTailProperties
<1>3. Head(batch') = batch'[1] /\ 1 \in 1 .. Len(batch')
  BY <1>2, HeadTailProperties
<1>4. 1 \in 1 .. Len(batch) /\ 2 \in 1 .. Len(batch) /\ Head(batch') = batch[2]
  BY <1>2, <1>3
<1>5. batch[1] \in Record /\ batch[2] \in Record /\ batch[1].at <= batch[2].at
  BY <1>1, <1>4 DEF Sorted
<1>6. QED
  BY <1>2, <1>4, <1>5 DEF Record

LEMMA ProcessComplete ==
  ASSUME Ample, TypeInv, CursorInv, AlarmInv, CompleteInv, Complete, ProcessRecord
  PROVE  CompleteInv' /\ Complete'
<1> DEFINE r == Head(batch)
<1>1. /\ pc = "process" /\ pc' = "process" /\ batch # <<>> /\ pending = {}
      /\ UNCHANGED <<findings, lost>>
  BY DEF ProcessRecord
<1>2. Made \subseteq Made'
  BY <1>1 DEF Made
<1>3. Made' \in SUBSET Finding
  <2>1. TypeInv'
    BY NextType DEF Next
  <2>2. Made' = findings' \cup pending' \cup lost'
    BY DEF Made
  <2>3. findings' \subseteq Finding /\ pending' \subseteq Finding /\ lost' \subseteq Finding
    BY <2>1 DEF TypeInv, TypeOK
  <2>4. QED
    BY <2>2, <2>3
<1>4. AllRemembered(ToSet(events), r.at, state) /\ AlertsFound(Made, r.at, state)
      /\ Sorted(events) /\ \A x \in ToSet(events) : ~Suppressed(x)
  BY <1>1 DEF CompleteInv
<1>5. events \in Seq(Record) /\ state \in [Key -> Memory] /\ r \in Record
      /\ r.at \in Nat /\ r.at <= r.at
  <2>1. events \in Seq(Record) /\ state \in [Key -> Memory] /\ batch \in Seq(Record)
    BY DEF TypeInv, TypeOK
  <2>2. r \in Record
    BY <1>1, <2>1, HeadTailProperties
  <2> HIDE DEF r
  <2>3. r.at \in Nat /\ r.at <= r.at
    BY <2>2 DEF Record
  <2>4. QED
    BY <2>1, <2>2, <2>3
<1>6. /\ AllRemembered(ToSet(events'), r.at, state') /\ AlertsFound(Made', r.at, state')
      /\ Sorted(events') /\ (\A x \in ToSet(events') : ~Suppressed(x))
      /\ Complete'
  <2>1. CASE Suppressed(r) \/ r \in Rows
    <3>1. UNCHANGED <<events, state, pending>>
      BY <2>1 DEF ProcessRecord
    <3>2. /\ AllRemembered(ToSet(events'), r.at, state') /\ AlertsFound(Made', r.at, state')
          /\ Sorted(events') /\ \A x \in ToSet(events') : ~Suppressed(x)
      <4>1. Made' = Made
        BY <1>1, <3>1 DEF Made
      <4>2. QED
        BY <1>4, <3>1, <4>1
    <3>3. Complete'
      BY <1>2, <3>1, CompleteStays
    <3>4. QED
      BY <3>2, <3>3
  <2>2. CASE ~(Suppressed(r) \/ r \in Rows) /\ From(r, "fail2ban")
    <3>1. state' = Processed(state, r) /\ events' = events
      BY <2>2, StoredStep
    <3>2. AllRemembered(ToSet(events'), r.at, state')
      BY <1>4, <1>5, <2>2, <3>1, EnforcedRemembered
    <3>3. AlertsFound(Made', r.at, state')
      <4> SUFFICES ASSUME NEW key \in Key, NEW rule \in Covered \cap Enabled,
                          rule \in Processed(state, r)[key].alerted
                   PROVE  Found(Made', key, rule, r.at)
        BY <3>1 DEF AlertsFound
      <4>1. rule \in state[key].alerted
        BY <1>5, <2>2, MarkedBy, EnforcedFires
      <4>2. Found(Made, key, rule, r.at)
        BY <1>4, <4>1 DEF AlertsFound
      <4>3. QED
        BY <1>2, <4>2 DEF Found
    <3>4. Complete'
      BY <1>2, <3>1, CompleteStays
    <3>5. QED
      BY <1>4, <3>1, <3>2, <3>3, <3>4
  <2>3. CASE ~(Suppressed(r) \/ r \in Rows) /\ ~From(r, "fail2ban")
    BY <2>3, EventStored
  <2>4. QED
    BY <2>1, <2>2, <2>3
<1>7. ASSUME batch' # <<>>
       PROVE  /\ AllRemembered(ToSet(events'), Head(batch').at, state')
              /\ AlertsFound(Made', Head(batch').at, state')
  <2> DEFINE later == Head(batch').at
  <2>1. r.at \in Nat /\ later \in Nat /\ r.at <= later
    BY <1>7, NextInBatch
  <2>2. ToSet(events') \in SUBSET Record
    <3>1. events' \in Seq(Record)
      BY NextType DEF Next, TypeInv, TypeOK
    <3>2. QED
      BY <3>1, ToSetIs
  <2> HIDE DEF later, r
  <2>3. AllRemembered(ToSet(events'), later, state')
    BY <1>6, <2>1, <2>2, AllRememberedLater
  <2>4. AlertsFound(Made', later, state')
    BY <1>3, <1>6, <2>1, AlertsFoundLater
  <2>5. QED
    BY <2>3, <2>4 DEF later
<1>8. CompleteInv'
  BY <1>1, <1>6, <1>7 DEF CompleteInv
<1>9. QED
  BY <1>6, <1>8

LEMMA NextComplete ==
  ASSUME "all" \notin CliSince, Ample, TypeInv, CursorInv, AlarmInv, CompleteInv, Complete,
         [Next]_vars
  PROVE  CompleteInv' /\ Complete'
<1>1. ASSUME UNCHANGED events, Made' = Made,
             pc' # "process" => pending' = {},
             pc' = "process" => UNCHANGED <<pc, batch, state>>
      PROVE  CompleteInv' /\ Complete'
  <2>1. CompleteInv'
    BY <1>1 DEF CompleteInv
  <2>2. QED
    BY <1>1, <2>1, CompleteStays
<1>2. CASE Seed
  <2>1. UNCHANGED events /\ Made' = Made
    BY <1>2 DEF Seed, dbVars, Made
  <2>2. QED
    BY <1>2, <2>1, SeedComplete, CompleteStays
<1>3. CASE ProcessRecord
  BY <1>3, ProcessComplete
<1>4. CASE BeginTick \/ BeginCli
  <2>1. /\ UNCHANGED <<events, findings, pending, lost>> /\ pc = "idle" /\ pc' = "collect"
    BY <1>4 DEF BeginTick, BeginCli, dbVars
  <2>2. QED
    BY <1>1, <2>1 DEF CompleteInv, Made
<1>5. CASE Collect
  BY <1>1, <1>5 DEF Collect, dbVars, CompleteInv, Made
<1>6. CASE Rebuild
  BY <1>1, <1>6 DEF Rebuild, CompleteInv, Made
<1>7. CASE Finish
  <2>1. /\ UNCHANGED <<events, findings, lost>> /\ pc = "alert" /\ pc' = "idle" /\ pending' = {}
    BY <1>7 DEF Finish, EndRun, dbVars
  <2>2. QED
    BY <1>1, <2>1 DEF CompleteInv, Made
<1>8. CASE Fail
  <2>1. /\ UNCHANGED <<events, findings>> /\ lost' = lost \cup pending
        /\ pc' = "idle" /\ pending' = {}
    BY <1>8 DEF Fail, EndRun, dbVars
  <2>2. Made' = Made
    BY <2>1 DEF Made
  <2>3. QED
    BY <1>1, <2>1, <2>2
<1>9. CASE ClockTick \/ \E l \in Line : Log(l)
  BY <1>1, <1>9 DEF ClockTick, Log, dbVars, runVars, CompleteInv, Made
<1>10. CASE Report
  BY <1>1, <1>10 DEF Report, runVars, CompleteInv, Made
<1>11. CASE \E f \in pending : InsertFinding(f)
  <2>1. PICK f \in pending : InsertFinding(f)
    BY <1>11
  <2>2. /\ UNCHANGED <<events, lost, pc, batch, state>> /\ pc = "process"
        /\ pending' = pending \ {f} /\ findings' = findings \cup {f}
    BY <2>1 DEF InsertFinding
  <2>3. Made' = Made
    BY <2>2 DEF Made
  <2>4. QED
    BY <1>1, <2>2, <2>3
<1>12. CASE UNCHANGED vars
  BY <1>1, <1>12 DEF vars, dbVars, runVars, CompleteInv, Made
<1>13. QED
  BY <1>2, <1>3, <1>4, <1>5, <1>6, <1>7, <1>8, <1>9, <1>10, <1>11, <1>12 DEF Next

LEMMA InitComplete == Init => CompleteInv /\ Complete
<1> SUFFICES ASSUME Init PROVE CompleteInv /\ Complete
  OBVIOUS
<1>1. events = <<>> /\ pending = {} /\ pc = "idle"
  BY DEF Init
<1>2. QED
  BY <1>1 DEF CompleteInv, Complete, Sorted, ToSet

\* No missed alarm: while no command line collects from the beginning, and the
\* settings are ample, each windowed rule that the rows satisfied when one of them
\* was stored has a finding by then, whichever runs stored them and read them back,
\* and whichever of those failed; only what a failed run had made may be missing.
THEOREM AlarmsComplete ==
  ASSUME "all" \notin CliSince, Ample
  PROVE  Spec => []Complete
<1>1. Init => TypeInv /\ CursorInv /\ AlarmInv /\ CompleteInv /\ Complete
  BY InitType, InitCursor, InitAlarm, InitComplete
<1>2. TypeInv /\ CursorInv /\ AlarmInv /\ CompleteInv /\ Complete /\ [Next]_vars
        => (TypeInv /\ CursorInv /\ AlarmInv /\ CompleteInv /\ Complete)'
  BY NextType, NextCursor, NextAlarm, NextComplete
<1>3. QED
  BY <1>1, <1>2, PTL DEF Spec
=============================================================================
