--------------------------- MODULE HostChangeProofs ---------------------------
(***************************************************************************)
(* Proofs about HostChange, for every set of processes, modes, records and *)
(* every retention.                                                        *)
(***************************************************************************)
EXTENDS HostChange, TLAPS

\* Every finding a change is stored as is a finding.
LEMMA FindingOfType == ASSUME NEW c \in Change PROVE FindingOf(c) \in Finding
BY DEF Finding

\* A comparison yields changes, whatever the history.
LEMMA FlaggedType ==
  ASSUME NEW S \in SUBSET Rec PROVE Flagged(S) \subseteq Change
BY DEF Flagged, Change, Wording

\* What is compared of a set of sockets are some of them.
LEMMA FirstsAreRecords ==
  ASSUME NEW S \in SUBSET Rec, NEW F \in FirstOfPort(S) PROVE F \in SUBSET Rec
BY DEF FirstOfPort

-----------------------------------------------------------------------------
(* The type invariant. *)

LEMMA InitType == Init => TypeOK
<1> SUFFICES ASSUME Init PROVE TypeOK
  OBVIOUS
<1>1. MaxDay \in Nat
  BY RetentionAssumption
<1>2. 0 \in 0 .. MaxDay
  BY <1>1
<1>3. QED
  BY <1>2 DEF Init, TypeOK

LEMMA NextType == TypeOK /\ [Next]_vars => TypeOK'
<1> SUFFICES ASSUME TypeOK, [Next]_vars PROVE TypeOK'
  OBVIOUS
<1> USE DEF TypeOK, Goto, seenVars, runVars
<1>0. MaxDay \in Nat /\ 0 \in 0 .. MaxDay
  BY RetentionAssumption
<1>1. ASSUME NEW p \in Proc, BeginDiff(p) PROVE TypeOK'
  BY <1>1 DEF BeginDiff, Snapshots
<1>2. ASSUME NEW p \in Proc, BeginAbsorb(p) PROVE TypeOK'
  BY <1>2 DEF BeginAbsorb, Snapshots
<1>3. ASSUME NEW p \in Proc, Detect(p) PROVE TypeOK'
  <2> DEFINE watched == {r \in todo[p] : Watched(r)}
             units == {r \in watched : r.kind = "unit"}
  <2>1. Flagged(units) \subseteq Change
    BY FlaggedType
  <2>2. QED
    BY <1>3, <2>1 DEF Detect
<1>14. ASSUME NEW p \in Proc, NEW k \in Kinds, Compare(p, k) PROVE TypeOK'
  <2> DEFINE mine == {r \in unread[p] : r.kind = k}
  <2>1. PICK F \in FirstOfPort(mine) : changes' = [changes EXCEPT ![p] = @ \cup Flagged(F)]
    BY <1>14 DEF Compare
  <2>2. Flagged(F) \subseteq Change
    BY FirstsAreRecords, FlaggedType
  <2>3. QED
    BY <1>14, <2>1, <2>2 DEF Compare
<1>15. ASSUME NEW p \in Proc, Compared(p) PROVE TypeOK'
  BY <1>15 DEF Compared
<1>4. ASSUME NEW p \in Proc, NEW r \in Rec, InsertRecord(p, r) PROVE TypeOK'
  BY <1>4 DEF InsertRecord
<1>5. ASSUME NEW p \in Proc, Persisted(p) PROVE TypeOK'
  BY <1>5 DEF Persisted
<1>6. ASSUME NEW p \in Proc, NEW c \in Change, InsertFinding(p, c) PROVE TypeOK'
  <2>1. FindingOf(c) \in Finding /\ c.rec \in Rec
    BY FindingOfType DEF Change
  <2>2. QED
    BY <1>6, <2>1 DEF InsertFinding
<1>7. ASSUME NEW p \in Proc, Reported(p) PROVE TypeOK'
  BY <1>7 DEF Reported
<1>8. ASSUME NEW p \in Proc, Prune(p) PROVE TypeOK'
  BY <1>8 DEF Prune
<1>9. ASSUME NEW p \in Proc, Dispatch(p) PROVE TypeOK'
  BY <1>9, <1>0 DEF Dispatch, EndRun
<1>10. ASSUME NEW p \in Proc, Fail(p) PROVE TypeOK'
  BY <1>10, <1>0 DEF Fail, EndRun
<1>11. ASSUME DayPasses PROVE TypeOK'
  BY <1>11, <1>0 DEF DayPasses
<1>12. ASSUME UNCHANGED vars PROVE TypeOK'
  BY <1>12 DEF vars
<1>13. QED
  BY <1>1, <1>2, <1>3, <1>4, <1>5, <1>6, <1>7, <1>8, <1>9, <1>10, <1>11, <1>12,
     <1>14, <1>15
  DEF Next, Step

\* The type invariant holds whatever the processes, modes and records are.
THEOREM TypeCorrect == Spec => []TypeOK
<1>1. Init => TypeOK
  BY InitType
<1>2. TypeOK /\ [Next]_vars => TypeOK'
  BY NextType
<1>3. QED
  BY <1>1, <1>2, PTL DEF Spec
-----------------------------------------------------------------------------
(* Rows are forgotten only when they have expired.  What makes it inductive *)
(* is that the row a record has is the last one it had.                     *)

RowIsLast == \A r \in Stored : lastRow[r] = history[r]
ForgetInv == RowIsLast /\ ForgottenOnlyExpired

LEMMA NextForget == TypeOK /\ ForgetInv /\ [Next]_vars => ForgetInv'
<1> SUFFICES ASSUME TypeOK, ForgetInv, [Next]_vars PROVE ForgetInv'
  OBVIOUS
<1> USE DEF ForgetInv, RowIsLast, ForgottenOnlyExpired, Stored, Seen
<1>0. Retention \in Nat /\ MaxDay \in Nat /\ clock \in Int
  BY RetentionAssumption DEF TypeOK
<1>1. ASSUME UNCHANGED <<history, lastRow, clock>> PROVE ForgetInv'
  BY <1>1
<1>2. ASSUME NEW p \in Proc, NEW r \in Rec, InsertRecord(p, r) PROVE ForgetInv'
  <2>1. CASE r \in Stored
    BY <1>2, <2>1 DEF InsertRecord, seenVars
  <2>2. CASE r \notin Stored
    <3>1. /\ history' = [history EXCEPT ![r] = at[p]]
          /\ lastRow' = [lastRow EXCEPT ![r] = at[p]]
          /\ clock' = clock
      BY <1>2, <2>2 DEF InsertRecord
    <3>2. at[p] # NotStored
      BY DEF TypeOK, NotStored
    <3>3. QED
      BY <3>1, <3>2 DEF TypeOK
  <2>3. QED
    BY <2>1, <2>2
<1>3. ASSUME NEW p \in Proc, Prune(p) PROVE ForgetInv'
  <2>1. CASE UNCHANGED history
    BY <1>1, <1>3, <2>1 DEF Prune, seenVars
  <2>2. CASE /\ Retention > 0
             /\ history' = [r \in Rec |-> IF Expired(r) THEN NotStored ELSE history[r]]
    <3>1. lastRow' = lastRow /\ clock' = clock
      BY <1>3 DEF Prune, seenVars
    <3>2. ASSUME NEW r \in Rec, Expired(r) PROVE clock - lastRow[r] > Retention
      BY <3>2, <1>0 DEF Expired, TypeOK, NotStored
    <3>3. ASSUME NEW r \in Stored' PROVE lastRow'[r] = history'[r]
      BY <2>2, <3>1, <3>3
    <3>4. ASSUME NEW r \in (Seen \ Stored)'
          PROVE Retention > 0 /\ clock' - lastRow'[r] > Retention
      BY <2>2, <3>1, <3>2, <3>4
    <3>5. QED
      BY <3>3, <3>4
  <2>3. QED
    BY <1>3, <2>1, <2>2 DEF Prune
<1>4. ASSUME DayPasses PROVE ForgetInv'
  <2>1. clock' = clock + 1 /\ history' = history /\ lastRow' = lastRow
    BY <1>4 DEF DayPasses, seenVars
  <2>2. ASSUME NEW r \in Seen \ Stored PROVE clock' - lastRow[r] > Retention
    BY <2>1, <2>2, <1>0 DEF TypeOK, NotStored
  <2>3. QED
    BY <2>1, <2>2
<1>5. ASSUME NEW p \in Proc,
             \/ BeginDiff(p) \/ BeginAbsorb(p) \/ Detect(p) \/ Compared(p) \/ Persisted(p)
             \/ \E k \in Kinds : Compare(p, k)
             \/ \E c \in Change : InsertFinding(p, c)
             \/ Reported(p) \/ Dispatch(p) \/ Fail(p)
      PROVE ForgetInv'
  BY <1>1, <1>5 DEF BeginDiff, BeginAbsorb, Detect, Compare, Compared, Persisted,
                    InsertFinding, Reported, Dispatch, Fail, seenVars
<1>6. ASSUME UNCHANGED vars PROVE ForgetInv'
  BY <1>1, <1>6 DEF vars, seenVars
<1>7. QED
  BY <1>2, <1>3, <1>4, <1>5, <1>6 DEF Next, Step

\* A record that had a row has one still, unless the retention is over.
THEOREM ForgottenCorrect == Spec => []ForgottenOnlyExpired
<1>1. Init => ForgetInv
  BY DEF Init, ForgetInv, RowIsLast, ForgottenOnlyExpired, Stored, Seen, NotStored
<1>2. TypeOK /\ ForgetInv /\ [Next]_vars => ForgetInv'
  BY NextForget
<1>3. ForgetInv => ForgottenOnlyExpired
  BY DEF ForgetInv
<1>4. QED
  BY <1>1, <1>2, <1>3, TypeCorrect, PTL DEF Spec

-----------------------------------------------------------------------------
(* Every stored finding is in one hand.  FindingsAccounted is inductive as *)
(* it stands: the equivalence says a finding without a row is in no hand.  *)

\* A step that leaves the findings and who holds them alone preserves it.
LEMMA HandsUnchanged ==
  FindingsAccounted /\ UNCHANGED <<findings, fresh, alerts, dropped>> => FindingsAccounted'
BY DEF FindingsAccounted, InOneHand

LEMMA NextFindings == TypeOK /\ FindingsAccounted /\ [Next]_vars => FindingsAccounted'
<1> SUFFICES ASSUME TypeOK, FindingsAccounted, [Next]_vars PROVE FindingsAccounted'
  OBVIOUS
<1>1. ASSUME NEW p \in Proc, NEW c \in Change, InsertFinding(p, c)
      PROVE FindingsAccounted'
  <2>1. CASE FindingOf(c) \in findings
    BY <1>1, <2>1, HandsUnchanged DEF InsertFinding
  <2>2. CASE FindingOf(c) \notin findings
    <3>0. FindingOf(c) \in Finding
      BY FindingOfType
    <3>1. /\ findings' = findings \cup {FindingOf(c)}
          /\ fresh' = [fresh EXCEPT ![p] = @ \cup {FindingOf(c)}]
          /\ alerts' = alerts /\ dropped' = dropped
      BY <1>1, <2>2 DEF InsertFinding
    <3>2. /\ alerts[FindingOf(c)] = 0
          /\ FindingOf(c) \notin dropped
          /\ \A q \in Proc : FindingOf(c) \notin fresh[q]
      BY <2>2, <3>0 DEF FindingsAccounted, InOneHand, TypeOK
    <3>3. QED
      BY <3>0, <3>1, <3>2 DEF FindingsAccounted, InOneHand, TypeOK
  <2>3. QED
    BY <2>1, <2>2
<1>2. ASSUME NEW p \in Proc, Dispatch(p) PROVE FindingsAccounted'
  <2>1. /\ alerts' = [f \in Finding |-> alerts[f] + (IF f \in fresh[p] THEN 1 ELSE 0)]
        /\ fresh' = [fresh EXCEPT ![p] = {}]
        /\ findings' = findings /\ dropped' = dropped
    BY <1>2 DEF Dispatch, EndRun
  <2>2. QED
    BY <2>1 DEF FindingsAccounted, InOneHand, TypeOK
<1>3. ASSUME NEW p \in Proc, Fail(p) PROVE FindingsAccounted'
  <2>1. /\ dropped' = dropped \cup fresh[p]
        /\ fresh' = [fresh EXCEPT ![p] = {}]
        /\ findings' = findings /\ alerts' = alerts
    BY <1>3 DEF Fail, EndRun
  <2>2. QED
    BY <2>1 DEF FindingsAccounted, InOneHand, TypeOK
<1>4. ASSUME NEW p \in Proc, BeginDiff(p) \/ BeginAbsorb(p) \/ Detect(p) \/ Compared(p)
                             \/ Persisted(p) \/ Reported(p) \/ Prune(p)
                             \/ (\E k \in Kinds : Compare(p, k))
                             \/ \E r \in Rec : InsertRecord(p, r)
      PROVE FindingsAccounted'
  BY <1>4, HandsUnchanged
  DEF BeginDiff, BeginAbsorb, Detect, Compare, Compared, Persisted, Reported, Prune,
      InsertRecord
<1>5. ASSUME DayPasses \/ UNCHANGED vars PROVE FindingsAccounted'
  BY <1>5, HandsUnchanged DEF DayPasses, vars, runVars
<1>6. QED
  BY <1>1, <1>2, <1>3, <1>4, <1>5 DEF Next, Step

\* A finding is announced once, waits with one run, or was dropped by one.
THEOREM FindingsCorrect == Spec => []FindingsAccounted
<1>1. Init => FindingsAccounted
  BY DEF Init, FindingsAccounted, InOneHand
<1>2. TypeOK /\ FindingsAccounted /\ [Next]_vars => FindingsAccounted'
  BY NextFindings
<1>3. QED
  BY <1>1, <1>2, TypeCorrect, PTL DEF Spec
-----------------------------------------------------------------------------
(* Nothing watched slips into the history.  The strengthening follows a     *)
(* record from the comparison to its row: what a comparing run is about to  *)
(* insert is explained already, because the comparison either made a change *)
(* of it or found its identity in the history, where it was explained.      *)

\* A comparing run that may have compared some of its snapshot.
Comparing(p) == pc[p] = "compare" \/ (pc[p] = "persist" /\ stance[p] = "diff")

AccountInv ==
  /\ Accounted
  /\ Stored \subseteq Seen
  /\ \A p \in Proc : pc[p] \notin {"compare", "persist", "report"} => changes[p] = {}
  /\ \A p \in Proc : pc[p] # "compare" => unread[p] = {}
  /\ \A p \in Proc : Comparing(p) =>
       \A r \in todo[p] \ unread[p] : Watched(r) => Explained(r)

\* The records of one identity are explained together.
LEMMA IdentityShared ==
  ASSUME NEW r \in Rec, NEW s \in Identity(r)
  PROVE  /\ r \in Identity(r) /\ s \in Rec
         /\ Identity(s) = Identity(r)
         /\ Explained(s) => Explained(r)
<1>1. r \in Identity(r) /\ s \in Rec /\ Identity(s) = Identity(r)
  BY DEF Identity, SameKey
<1>2. About(s) = About(r)
  BY <1>1 DEF About
<1>3. QED
  BY <1>1, <1>2 DEF Explained

\* A record of a watched record's identity is watched, or is a socket that
\* does not listen.
LEMMA IdentityWatched ==
  ASSUME NEW r \in Rec, NEW s \in Identity(r), Watched(r)
  PROVE  Watched(s) \/ (s.kind = "socket" /\ s.content # "LISTEN")
BY DEF Identity, SameKey, Watched

\* A record whose identity is in the history is explained.
LEMMA StoredExplains ==
  ASSUME TypeOK, AccountInv, NEW r \in Rec, Watched(r), Identity(r) \cap Stored # {}
  PROVE  Explained(r)
<1>1. PICK s \in Rec : s \in Identity(r) /\ s \in Stored
  BY DEF Stored
<1>2. s \in Seen
  BY <1>1 DEF AccountInv
<1>3. CASE Watched(s)
  BY <1>1, <1>2, <1>3, IdentityShared DEF AccountInv, Accounted
<1>4. CASE ~Watched(s)
  BY <1>1, <1>2, <1>4, IdentityWatched DEF Explained
<1>5. QED
  BY <1>3, <1>4

\* A record is explained once a run has a change of its identity in hand.
LEMMA ChangeExplains ==
  ASSUME NEW p \in Proc, NEW r \in Rec, NEW c \in Change,
         c \in changes'[p], c.rec \in Identity(r)
  PROVE  Explained(r)'
<1>1. FindingOf(c) \in About(r)'
  BY DEF About
<1>2. FindingOf(c) \in Concluded'
  BY DEF Concluded
<1>3. QED
  BY <1>1, <1>2 DEF Explained

\* Of the records S of one kind, a comparison that flags F explains every one.
LEMMA FlaggedExplains ==
  ASSUME TypeOK, AccountInv, NEW S \in SUBSET Rec, NEW F \in FirstOfPort(S),
         NEW r \in S, Watched(r), Identity(r) \cap Stored = {}
  PROVE  \E c \in Flagged(F) : c \in Change /\ c.rec \in Identity(r)
<1>1. PICK s \in F : s \in Identity(r)
  BY DEF FirstOfPort, Identity, SameKey
<1>2. s \in Rec /\ Identity(s) \cap Stored = {}
  BY <1>1, IdentityShared
<1>3. [rec |-> s, type |-> Wording(s)] \in Flagged(F) \cap Change
  BY <1>2 DEF Flagged, Change, Wording
<1>4. QED
  BY <1>1, <1>3

\* No step takes back a conclusion, a row's day or who inserted it.
LEMMA ExplanationsStay ==
  ASSUME TypeOK, AccountInv, [Next]_vars
  PROVE  /\ Concluded \subseteq Concluded' /\ Seen \subseteq Seen'
         /\ baselined \subseteq baselined' /\ absorbed \subseteq absorbed'
<1> USE DEF Concluded, Seen, seenVars, TypeOK
<1>1. ASSUME NEW p \in Proc, NEW c \in Change, InsertFinding(p, c)
      PROVE Concluded \subseteq Concluded'
  <2>1. /\ changes' = [changes EXCEPT ![p] = @ \ {c}] /\ lost' = lost
        /\ findings \cup {FindingOf(c)} \subseteq findings'
    BY <1>1 DEF InsertFinding
  <2>2. QED
    BY <2>1
<1>2. ASSUME NEW p \in Proc, Fail(p) PROVE Concluded \subseteq Concluded'
  <2>1. /\ lost' = lost \cup changes[p] /\ findings' = findings
        /\ changes' = [changes EXCEPT ![p] = {}]
    BY <1>2 DEF Fail, EndRun
  <2>2. QED
    BY <2>1
<1>3. ASSUME NEW p \in Proc, Dispatch(p) PROVE Concluded \subseteq Concluded'
  <2>1. /\ changes' = [changes EXCEPT ![p] = {}] /\ changes[p] = {}
        /\ lost' = lost /\ findings' = findings
    BY <1>3 DEF Dispatch, EndRun, AccountInv
  <2>2. QED
    BY <2>1
<1>4. ASSUME NEW p \in Proc, Detect(p) PROVE Concluded \subseteq Concluded'
  <2>1. lost' = lost /\ findings' = findings /\ changes[p] = {}
    BY <1>4 DEF Detect, AccountInv
  <2>2. \A q \in Proc : changes[q] \subseteq changes'[q]
    BY <1>4, <2>1 DEF Detect
  <2>3. QED
    BY <2>1, <2>2
<1>10. ASSUME NEW p \in Proc, NEW k \in Kinds, Compare(p, k)
      PROVE Concluded \subseteq Concluded' /\ UNCHANGED seenVars
  <2>1. lost' = lost /\ findings' = findings /\ UNCHANGED seenVars
    BY <1>10 DEF Compare
  <2>2. \A q \in Proc : changes[q] \subseteq changes'[q]
    BY <1>10 DEF Compare
  <2>3. QED
    BY <2>1, <2>2
<1>5. ASSUME NEW p \in Proc, NEW r \in Rec, InsertRecord(p, r)
      PROVE /\ Concluded \subseteq Concluded' /\ Seen \subseteq Seen'
            /\ baselined \subseteq baselined' /\ absorbed \subseteq absorbed'
  <2>1. findings' = findings /\ lost' = lost /\ changes' = changes
    BY <1>5 DEF InsertRecord
  <2>2. baselined \subseteq baselined' /\ absorbed \subseteq absorbed'
    BY <1>5 DEF InsertRecord
  <2>3. Seen \subseteq Seen'
    BY <1>5 DEF InsertRecord, NotStored
  <2>4. QED
    BY <2>1, <2>2, <2>3
<1>6. ASSUME NEW p \in Proc,
             \/ BeginDiff(p) \/ BeginAbsorb(p) \/ Compared(p) \/ Persisted(p)
             \/ Reported(p) \/ Prune(p)
      PROVE Concluded \subseteq Concluded' /\ UNCHANGED seenVars
  BY <1>6 DEF BeginDiff, BeginAbsorb, Compared, Persisted, Reported, Prune
<1>7. ASSUME NEW p \in Proc,
             Dispatch(p) \/ Detect(p) \/ Fail(p) \/ \E c \in Change : InsertFinding(p, c)
      PROVE UNCHANGED seenVars
  BY <1>7 DEF Dispatch, Detect, Fail, InsertFinding
<1>8. ASSUME DayPasses \/ UNCHANGED vars
      PROVE Concluded \subseteq Concluded' /\ UNCHANGED seenVars
  BY <1>8 DEF DayPasses, vars, runVars
<1>9. QED
  BY <1>1, <1>2, <1>3, <1>4, <1>5, <1>6, <1>7, <1>8, <1>10 DEF Next, Step

\* So an explained record stays explained.
LEMMA ExplainedStays ==
  ASSUME TypeOK, AccountInv, [Next]_vars, NEW r, Explained(r)
  PROVE  Explained(r)'
BY ExplanationsStay DEF Explained, About

\* A step that inserts nothing preserves the invariant, if what it moves out
\* of the unread is explained.
LEMMA AccountUnchanged ==
  ASSUME TypeOK, AccountInv, [Next]_vars, UNCHANGED lastRow, Stored' \subseteq Stored,
         \A p \in Proc : pc'[p] \notin {"compare", "persist", "report"} => changes'[p] = {},
         \A p \in Proc : pc'[p] # "compare" => unread'[p] = {},
         \A p \in Proc : Comparing(p)' => \A r \in todo'[p] \ unread'[p] :
            \/ Comparing(p) /\ r \in todo[p] \ unread[p]
            \/ Watched(r) => Explained(r)'
  PROVE  AccountInv'
<1>1. Seen' = Seen
  BY DEF Seen
<1>2. ASSUME NEW r \in Seen', Watched(r) PROVE Explained(r)'
  BY <1>1, <1>2, ExplainedStays DEF AccountInv, Accounted
<1>3. ASSUME NEW p \in Proc, Comparing(p)', NEW r \in todo'[p] \ unread'[p], Watched(r)
      PROVE Explained(r)'
  BY <1>3, ExplainedStays DEF AccountInv
<1>4. QED
  BY <1>1, <1>2, <1>3 DEF AccountInv, Accounted, Watched

\* The first comparison: the units of the snapshot are explained by it.
LEMMA DetectAccount ==
  ASSUME TypeOK, AccountInv, [Next]_vars, NEW p \in Proc, Detect(p)
  PROVE  AccountInv'
<1> DEFINE watched == {r \in todo[p] : Watched(r)}
           units == {r \in watched : r.kind = "unit"}
<1>0. /\ history' = history /\ lastRow' = lastRow /\ todo' = todo /\ pc[p] = "detect"
      /\ \A q \in Proc : q # p =>
           /\ pc'[q] = pc[q] /\ stance'[q] = stance[q]
           /\ unread'[q] = unread[q] /\ changes'[q] = changes[q]
  BY DEF Detect, Goto, seenVars, TypeOK
<1>1. Stored' = Stored /\ changes[p] = {} /\ unread[p] = {}
  BY <1>0 DEF AccountInv, Stored
<1>2. CASE Stored = {}
  <2>1. /\ pc'[p] = "persist" /\ stance'[p] = "baseline"
        /\ changes'[p] = {} /\ unread'[p] = {}
    BY <1>1, <1>2 DEF Detect, Goto, TypeOK
  <2>2. QED
    BY <1>0, <1>1, <2>1, AccountUnchanged DEF AccountInv, Comparing
<1>3. CASE Stored # {}
  <2>1. /\ pc'[p] = "compare" /\ changes'[p] = Flagged(units)
        /\ unread'[p] = watched \ units
    BY <1>3 DEF Detect, Goto, TypeOK
  <2>2. ASSUME NEW r \in todo[p] \ (watched \ units), Watched(r) PROVE Explained(r)'
    <3>1. r \in units /\ r \in Rec
      BY <2>2 DEF TypeOK
    <3>2. CASE Identity(r) \cap Stored # {}
      BY <2>2, <3>1, <3>2, StoredExplains, ExplainedStays
    <3>3. CASE Identity(r) \cap Stored = {}
      <4>1. [rec |-> r, type |-> Wording(r)] \in changes'[p] \cap Change
        BY <2>1, <3>1, <3>3 DEF Flagged, Change, Wording
      <4>2. r \in Identity(r)
        BY <3>1 DEF Identity, SameKey
      <4>3. QED
        BY <3>1, <4>1, <4>2, ChangeExplains
    <3>4. QED
      BY <3>2, <3>3
  <2> HIDE DEF watched, units
  <2>3. QED
    BY <1>0, <1>1, <2>1, <2>2, AccountUnchanged DEF AccountInv, Comparing
<1>4. QED
  BY <1>2, <1>3

\* The other comparisons: the records of the kind are explained by it.
LEMMA CompareAccount ==
  ASSUME TypeOK, AccountInv, [Next]_vars, NEW p \in Proc, NEW k \in Kinds, Compare(p, k)
  PROVE  AccountInv'
<1> DEFINE mine == {r \in unread[p] : r.kind = k}
<1>0. /\ UNCHANGED <<history, lastRow, todo, pc, stance>> /\ pc[p] = "compare"
      /\ unread' = [unread EXCEPT ![p] = @ \ mine]
      /\ \A q \in Proc : q # p => changes'[q] = changes[q]
  BY DEF Compare, seenVars, TypeOK
<1>1. PICK F \in FirstOfPort(mine) : changes'[p] = changes[p] \cup Flagged(F)
  BY DEF Compare, TypeOK
<1>2. mine \in SUBSET Rec
  BY DEF TypeOK
<1>3. ASSUME NEW r \in mine, Watched(r) PROVE Explained(r)'
  <2>1. CASE Identity(r) \cap Stored # {}
    BY <1>2, <1>3, <2>1, StoredExplains, ExplainedStays
  <2>2. CASE Identity(r) \cap Stored = {}
    <3>1. PICK c \in Flagged(F) : c \in Change /\ c.rec \in Identity(r)
      <4> HIDE DEF mine
      <4> QED
        BY <1>2, <1>3, <2>2, FlaggedExplains
    <3>2. QED
      BY <1>1, <1>2, <3>1, ChangeExplains
  <2>3. QED
    BY <2>1, <2>2
<1> HIDE DEF mine
<1>4. ASSUME NEW q \in Proc, Comparing(q)', NEW r \in todo'[q] \ unread'[q]
      PROVE  \/ Comparing(q) /\ r \in todo[q] \ unread[q]
             \/ Watched(r) => Explained(r)'
  BY <1>0, <1>3, <1>4 DEF Comparing, TypeOK
<1>5. /\ Stored' = Stored
      /\ \A q \in Proc : pc'[q] # "compare" => unread'[q] = {}
      /\ \A q \in Proc : pc'[q] \notin {"compare", "persist", "report"} => changes'[q] = {}
  BY <1>0 DEF AccountInv, Stored, TypeOK
<1>6. QED
  BY <1>0, <1>4, <1>5, AccountUnchanged

\* The insertion: the new row's record was explained, or now counts as
\* inserted by a baseline or an absorbing run.
LEMMA InsertAccount ==
  ASSUME TypeOK, AccountInv, [Next]_vars, NEW p \in Proc, NEW r \in Rec, InsertRecord(p, r)
  PROVE  AccountInv'
<1>0. /\ UNCHANGED <<pc, stance, changes, unread>> /\ r \in todo[p]
      /\ pc[p] = "persist" /\ \A q \in Proc : todo'[q] \subseteq todo[q]
  BY DEF InsertRecord, TypeOK
<1>1. Stored' \subseteq Seen' /\ Seen' \subseteq Seen \cup {r}
  <2>1. CASE r \in Stored
    BY <2>1 DEF InsertRecord, AccountInv, Stored, Seen, seenVars
  <2>2. CASE r \notin Stored
    <3>1. /\ history' = [history EXCEPT ![r] = at[p]]
          /\ lastRow' = [lastRow EXCEPT ![r] = at[p]]
      BY <2>2 DEF InsertRecord
    <3>2. QED
      BY <3>1 DEF AccountInv, Stored, Seen, TypeOK
  <2>3. QED
    BY <2>1, <2>2
<1>2. ASSUME Watched(r) PROVE Explained(r)' \/ r \in Seen
  <2>1. CASE stance[p] = "diff"
    BY <1>0, <1>2, <2>1, ExplainedStays DEF AccountInv, Comparing
  <2>2. CASE r \in Stored
    BY <2>2 DEF AccountInv
  <2>3. CASE stance[p] # "diff" /\ r \notin Stored
    <3>1. r \in baselined' \cup absorbed'
      BY <2>3 DEF InsertRecord, TypeOK
    <3>2. r \in Identity(r)
      BY DEF Identity, SameKey
    <3>3. QED
      BY <3>1, <3>2 DEF Explained
  <2>4. QED
    BY <2>1, <2>2, <2>3
<1>3. ASSUME NEW s \in Seen', Watched(s) PROVE Explained(s)'
  <2>1. CASE s \in Seen
    BY <1>3, <2>1, ExplainedStays DEF AccountInv, Accounted
  <2>2. CASE s = r /\ r \notin Seen
    BY <1>2, <1>3, <2>2
  <2>3. QED
    BY <1>1, <2>1, <2>2
<1>4. ASSUME NEW q \in Proc, Comparing(q)', NEW s \in todo'[q] \ unread'[q], Watched(s)
      PROVE Explained(s)'
  BY <1>0, <1>4, ExplainedStays DEF AccountInv, Comparing
<1>5. ASSUME NEW q \in Proc
      PROVE /\ pc'[q] \notin {"compare", "persist", "report"} => changes'[q] = {}
            /\ pc'[q] # "compare" => unread'[q] = {}
  BY <1>0, <1>5 DEF AccountInv
<1>6. QED
  BY <1>1, <1>3, <1>4, <1>5 DEF AccountInv, Accounted, Watched

LEMMA NextAccount == TypeOK /\ AccountInv /\ [Next]_vars => AccountInv'
<1> SUFFICES ASSUME TypeOK, AccountInv, [Next]_vars PROVE AccountInv'
  OBVIOUS
<1>1. ASSUME NEW p \in Proc, BeginDiff(p) \/ BeginAbsorb(p) PROVE AccountInv'
  <2>1. UNCHANGED <<history, lastRow, changes, unread>> /\ pc[p] = "idle"
    BY <1>1 DEF BeginDiff, BeginAbsorb, seenVars
  <2>2. \A q \in Proc : q # p =>
          pc'[q] = pc[q] /\ stance'[q] = stance[q] /\ todo'[q] = todo[q]
    BY <1>1 DEF BeginDiff, BeginAbsorb, Goto, TypeOK
  <2>3. pc'[p] = "detect" \/ (pc'[p] = "persist" /\ stance'[p] # "diff")
    BY <1>1 DEF BeginDiff, BeginAbsorb, Goto, TypeOK
  <2>4. changes[p] = {} /\ unread[p] = {}
    BY <2>1 DEF AccountInv
  <2>5. QED
    BY <2>1, <2>2, <2>3, <2>4, AccountUnchanged DEF Stored, AccountInv, Comparing
<1>7. ASSUME NEW p \in Proc, Compared(p) PROVE AccountInv'
  <2>1. /\ UNCHANGED <<history, lastRow, changes, unread, stance, todo>>
        /\ pc[p] = "compare" /\ pc' = [pc EXCEPT ![p] = "persist"] /\ unread[p] = {}
    BY <1>7 DEF Compared, seenVars, Goto
  <2>2. QED
    BY <2>1, AccountUnchanged DEF Stored, AccountInv, Comparing, TypeOK
<1>2. ASSUME NEW p \in Proc, Persisted(p) \/ Reported(p) \/ Prune(p) PROVE AccountInv'
  <2>1. UNCHANGED <<lastRow, changes, unread, stance, todo>> /\ Stored' \subseteq Stored
    BY <1>2 DEF Persisted, Reported, Prune, Expired, seenVars, Stored, TypeOK, NotStored
  <2>2. /\ \A q \in Proc : q # p => pc'[q] = pc[q]
        /\ pc'[p] \in {"report", "prune", "alert"}
        /\ pc'[p] # "report" => changes[p] = {}
        /\ unread[p] = {}
    BY <1>2 DEF Persisted, Reported, Prune, Goto, TypeOK, AccountInv
  <2>3. QED
    BY <2>1, <2>2, AccountUnchanged DEF AccountInv, Comparing
<1>3. ASSUME NEW p \in Proc, NEW c \in Change, InsertFinding(p, c) PROVE AccountInv'
  <2>1. UNCHANGED <<history, lastRow, pc, stance, todo, unread>>
    BY <1>3 DEF InsertFinding, seenVars
  <2>2. \A q \in Proc : changes'[q] \subseteq changes[q]
    BY <1>3 DEF InsertFinding, TypeOK
  <2>3. QED
    BY <2>1, <2>2, AccountUnchanged DEF AccountInv, Comparing, Stored
<1>4. ASSUME NEW p \in Proc, Dispatch(p) \/ Fail(p) PROVE AccountInv'
  <2>1. UNCHANGED <<history, lastRow>>
    BY <1>4 DEF Dispatch, Fail, seenVars
  <2>2. /\ pc'[p] = "idle" /\ changes'[p] = {} /\ unread'[p] = {}
        /\ \A q \in Proc : q # p =>
             /\ pc'[q] = pc[q] /\ stance'[q] = stance[q] /\ todo'[q] = todo[q]
             /\ changes'[q] = changes[q] /\ unread'[q] = unread[q]
    BY <1>4 DEF Dispatch, Fail, EndRun, Goto, TypeOK
  <2>3. QED
    BY <2>1, <2>2, AccountUnchanged DEF AccountInv, Comparing, Stored
<1>5. ASSUME DayPasses \/ UNCHANGED vars PROVE AccountInv'
  <2>1. UNCHANGED <<history, lastRow, pc, stance, todo, unread, changes>>
    BY <1>5 DEF DayPasses, vars, runVars, seenVars
  <2>2. QED
    BY <2>1, AccountUnchanged DEF AccountInv, Comparing, Stored
<1>6. QED
  BY <1>1, <1>2, <1>3, <1>4, <1>5, <1>7, DetectAccount, CompareAccount, InsertAccount
  DEF Next, Step

\* Whatever runs interleave, fail and prune, no watched record enters the
\* history unexplained.
THEOREM AccountedCorrect == Spec => []Accounted
<1>1. Init => AccountInv
  BY DEF Init, AccountInv, Accounted, Stored, Seen
<1>2. TypeOK /\ AccountInv /\ [Next]_vars => AccountInv'
  BY NextAccount
<1>3. AccountInv => Accounted
  BY DEF AccountInv
<1>4. QED
  BY <1>1, <1>2, <1>3, TypeCorrect, PTL DEF Spec
-----------------------------------------------------------------------------
(* The findings table and the alerts implement the ledger.                  *)

LEMMA StepRefines ==
  ASSUME TypeOK, FindingsAccounted, [Next]_vars
  PROVE  [Ledger!Next]_(Ledger!vars)
<1> USE DEF Ledger!vars
<1>0. ASSUME NEW p \in Proc PROVE fresh[p] \in SUBSET Ledger!Waiting
  BY DEF Ledger!Waiting, FindingsAccounted, InOneHand, TypeOK
<1>1. ASSUME NEW p \in Proc, NEW c \in Change, InsertFinding(p, c)
      PROVE [Ledger!Next]_(Ledger!vars)
  <2>1. CASE FindingOf(c) \in findings
    BY <1>1, <2>1 DEF InsertFinding
  <2>2. CASE FindingOf(c) \notin findings
    <3>1. FindingOf(c) \in Finding /\ Ledger!Store(FindingOf(c))
      BY <1>1, <2>2, FindingOfType DEF InsertFinding, Ledger!Store
    <3>2. QED
      BY <3>1 DEF Ledger!Next
  <2>3. QED
    BY <2>1, <2>2
<1>2. ASSUME NEW p \in Proc, Dispatch(p) PROVE [Ledger!Next]_(Ledger!vars)
  <2>1. Ledger!Announce(fresh[p])
    BY <1>2 DEF Dispatch, Ledger!Announce
  <2>2. QED
    BY <1>0, <2>1 DEF Ledger!Next
<1>3. ASSUME NEW p \in Proc, Fail(p) PROVE [Ledger!Next]_(Ledger!vars)
  <2>1. Ledger!Drop(fresh[p])
    BY <1>3 DEF Fail, Ledger!Drop
  <2>2. QED
    BY <1>0, <2>1 DEF Ledger!Next
<1>4. ASSUME NEW p \in Proc, BeginDiff(p) \/ BeginAbsorb(p) \/ Detect(p) \/ Compared(p)
                             \/ Persisted(p) \/ Reported(p) \/ Prune(p)
                             \/ (\E k \in Kinds : Compare(p, k))
                             \/ \E r \in Rec : InsertRecord(p, r)
      PROVE UNCHANGED Ledger!vars
  BY <1>4 DEF BeginDiff, BeginAbsorb, Detect, Compare, Compared, Persisted, Reported, Prune,
              InsertRecord
<1>5. ASSUME DayPasses \/ UNCHANGED vars PROVE UNCHANGED Ledger!vars
  BY <1>5 DEF DayPasses, vars
<1>6. QED
  BY <1>1, <1>2, <1>3, <1>4, <1>5 DEF Next, Step

\* Change detection, with its processes, failures and pruning, is a ledger.
THEOREM ImplementsLedger == Spec => LedgerSpec
<1>1. Init => Ledger!Init
  BY DEF Init, Ledger!Init
<1>2. TypeOK /\ FindingsAccounted /\ [Next]_vars => [Ledger!Next]_(Ledger!vars)
  BY StepRefines
<1>3. QED
  BY <1>1, <1>2, TypeCorrect, FindingsCorrect, PTL DEF Spec, LedgerSpec, Ledger!Spec
=============================================================================
