---------------------------- MODULE FindingLedger ----------------------------
(***************************************************************************)
(* What the finding tables and the alert dispatcher promise together: a    *)
(* finding enters its table once, and is announced at most once, by the    *)
(* run that stored it.  A run that dies after storing a finding drops it:  *)
(* no later run announces it.  Every insert_*_finding returns whether the  *)
(* row was new, and dispatch_alerts is given the new ones only.            *)
(***************************************************************************)
EXTENDS Naturals

CONSTANT Finding

VARIABLES
  stored,      \* findings with a row in the table
  announced,   \* how many alerts named each finding
  dropped      \* stored findings whose run died before its alert

vars == <<stored, announced, dropped>>

Init ==
  /\ stored = {}
  /\ announced = [f \in Finding |-> 0]
  /\ dropped = {}

Store(f) ==
  /\ f \notin stored
  /\ stored' = stored \cup {f}
  /\ UNCHANGED <<announced, dropped>>

\* The findings no alert has named and no dead run has dropped.
Waiting == {f \in stored \ dropped : announced[f] = 0}

Announce(F) ==
  /\ announced' = [f \in Finding |-> announced[f] + (IF f \in F THEN 1 ELSE 0)]
  /\ UNCHANGED <<stored, dropped>>

Drop(F) ==
  /\ dropped' = dropped \cup F
  /\ UNCHANGED <<stored, announced>>

Next ==
  \/ \E f \in Finding : Store(f)
  \/ \E F \in SUBSET Waiting : Announce(F) \/ Drop(F)

Spec == Init /\ [][Next]_vars
=============================================================================
