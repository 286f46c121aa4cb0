----------------------------- MODULE ReviewDrops -----------------------------
(***************************************************************************)
(* write_review_drop, by several processes on one directory: a file named  *)
(* by the second and the run, latest.json, and the removal of the files    *)
(* whose names sort first beyond max_drops.  Every replacement and every   *)
(* unlink is atomic; a process may stop or die between any two.            *)
(***************************************************************************)
EXTENDS Naturals, FiniteSets

CONSTANTS
  Proc,
  MaxDrops,  \* alerts.max_drops
  MaxTime    \* bound on the clock

ASSUME DropAssumption == MaxDrops \in Nat \ {0} /\ MaxTime \in Nat

VARIABLES
  now,       \* the second
  drops,     \* the run-*.json files in the directory
  latest,    \* the run in latest.json, Nothing at first
  step,      \* by process: how far its write is
  name,      \* the file it writes
  doomed,    \* what it has still to unlink
  written,   \* ghost: every name that was ever in the directory
  unpruned   \* ghost: a file was written that no listing has seen, or one that a listing
             \* was to remove was not removed

dropVars == <<now, drops, latest, step, name, doomed, written, unpruned>>

\* A name is the second, and eight digits of a random run id.
Name == (0 .. MaxTime) \X Nat
Nothing == <<0, 0>>

\* The order of the names as strings.
After(m, n) == m[1] > n[1] \/ (m[1] = n[1] /\ m[2] > n[2])

\* Mutant: the directory is left with one less.
PrunedOneMore(present) ==
  {n \in present : Cardinality({m \in present : After(m, n)}) + 1 >= MaxDrops}

\* Those beyond the last max_drops.
Pruned(present) ==
  {n \in present : Cardinality({m \in present : After(m, n)}) >= MaxDrops}

DropsInit ==
  /\ now = 0
  /\ drops = {}
  /\ latest = Nothing
  /\ step = [r \in Proc |-> "none"]
  /\ name = [r \in Proc |-> Nothing]
  /\ doomed = [r \in Proc |-> {}]
  /\ written = {}
  /\ unpruned = FALSE

Second ==
  /\ now < MaxTime
  /\ now' = now + 1
  /\ UNCHANGED <<drops, latest, step, name, doomed, written, unpruned>>

Move(r, to) == step' = [step EXCEPT ![r] = to]

\* The name is made when the write begins.
BeginDrop(r, id) ==
  /\ step[r] = "none"
  /\ Move(r, "drop")
  /\ name' = [name EXCEPT ![r] = <<now, id>>]
  /\ UNCHANGED <<now, drops, latest, doomed, written, unpruned>>

WriteDrop(r) ==
  /\ step[r] = "drop"
  /\ drops' = drops \cup {name[r]}
  /\ written' = written \cup {name[r]}
  /\ unpruned' = TRUE
  /\ Move(r, "latest")
  /\ UNCHANGED <<now, latest, name, doomed>>

WriteLatest(r) ==
  /\ step[r] = "latest"
  /\ latest' = name[r]
  /\ Move(r, "list")
  /\ UNCHANGED <<now, drops, name, doomed, written, unpruned>>

\* Mutant: only what is older than one's own file is looked at.
ListOlder(r) ==
  /\ step[r] = "list"
  /\ doomed' = [doomed EXCEPT ![r] = Pruned({n \in drops : ~After(n, name[r])})]
  /\ unpruned' = FALSE
  /\ Move(r, "prune")
  /\ UNCHANGED <<now, drops, latest, name, written>>

ListDrops(r) ==
  /\ step[r] = "list"
  /\ doomed' = [doomed EXCEPT ![r] = Pruned(drops)]
  /\ unpruned' = FALSE
  /\ Move(r, "prune")
  /\ UNCHANGED <<now, drops, latest, name, written>>

\* The first one first; it may be gone already, and an OSError leaves it there.
Unlink(r) ==
  /\ step[r] = "prune"
  /\ \E n \in doomed[r] :
       /\ \A m \in doomed[r] : ~After(n, m)
       /\ \/ drops' = drops \ {n} /\ unpruned' = unpruned
          \/ drops' = drops /\ unpruned' = TRUE
       /\ doomed' = [doomed EXCEPT ![r] = @ \ {n}]
  /\ UNCHANGED <<now, latest, step, name, written>>

EndDrop(r) ==
  /\ step[r] = "prune" /\ doomed[r] = {}
  /\ Move(r, "none")
  /\ name' = [name EXCEPT ![r] = Nothing]
  /\ UNCHANGED <<now, drops, latest, doomed, written, unpruned>>

\* An OSError is logged and the run goes on, a dead process does not: here it is one.
AbandonDrop(r) ==
  /\ step[r] # "none"
  /\ Move(r, "none")
  /\ doomed' = [doomed EXCEPT ![r] = {}]
  /\ name' = [name EXCEPT ![r] = Nothing]
  /\ unpruned' = (unpruned \/ step[r] = "prune")
  /\ UNCHANGED <<now, drops, latest, written>>

DropStep(r) ==
  \/ WriteDrop(r) \/ WriteLatest(r) \/ ListDrops(r) \/ Unlink(r) \/ EndDrop(r)
  \/ AbandonDrop(r)

-----------------------------------------------------------------------------
(* What the directory guarantees. *)

\* A run's file, and that of the run in latest.json, is only gone when max_drops
\* names after it were written, whoever removed what meanwhile.
DropsKept ==
  \A n \in (written \cup {latest}) \ (drops \cup {Nothing}) :
    Cardinality({m \in written : After(m, n)}) >= MaxDrops

\* Whichever processes overlapped, the last one to look leaves at most max_drops
\* files, unless it failed between looking and removing, or a file could not be removed.
DropsBounded ==
  (~unpruned /\ \A r \in Proc : step[r] # "prune") => Cardinality(drops) <= MaxDrops
=============================================================================
