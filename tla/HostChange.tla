------------------------------ MODULE HostChange ------------------------------
(***************************************************************************)
(* Cross-run change detection: the host state history in SQLite, the runs  *)
(* that diff a snapshot against it (daemon ticks, --rootkit-scan, --full)  *)
(* and the runs that only add to it (--audit, --monitor, --learn-baseline, *)
(* --setup), the change findings, their deduplication and their alerts,    *)
(* and the daemon's retention pruning.  Every insert commits on its own,   *)
(* so two processes interleave, and a process fails, between any two rows. *)
(***************************************************************************)
EXTENDS Integers, FiniteSets

CONSTANTS
  Proc,        \* the processes that share the database
  Daemon,      \* those of them that run the scheduler loop
  Modes,       \* the modes the other ones are started in
  Rec,         \* host state records a collector can return
  Toggled,     \* kinds whose changes.* toggle is on ({} if changes.enabled is not)
  Ignored,     \* keys the changes.ignored_* lists name
  Retention,   \* daemon.retention_days; 0 keeps every row
  MaxDay,      \* bound on the clock
  CanFail      \* whether a run may raise or be killed half way

\* unit:    systemd_service, compared by its exact record
\* file:    the path-tracked categories and users and groups, by record within a key
\* device:  usb_device and browser_extension, like file with an ignore list
\* module:  kernel_module, compared by name alone
\* socket:  socket_*, compared by (address, port); content is the state
\* process: what no detector reads (process, shadow_metadata)
Kinds == {"unit", "file", "device", "module", "socket", "process"}

ASSUME DaemonAssumption == Daemon \subseteq Proc
ASSUME ModesAssumption == Modes \subseteq {"scan", "audit", "monitor", "learn", "setup"}
ASSUME RecAssumption == \A r \in Rec : r.kind \in Kinds
ASSUME RetentionAssumption == Retention \in Nat /\ MaxDay \in Nat
ASSUME FailAssumption == CanFail \in BOOLEAN

NotStored == -1

\* A change: the record a run flags and how it words it.  The row a change is
\* stored as names its type, its key and the evidence, which leaves the
\* content of the file out (the record's own hash does not).  The state of a
\* socket is in the evidence, but a flagged socket has one state only.
Change == [rec : Rec, type : {"new", "changed"}]
FindingOf(c) ==
  [type |-> c.type, kind |-> c.rec.kind, key |-> c.rec.key, meta |-> c.rec.meta]
Finding == {FindingOf(c) : c \in Change}

VARIABLES
  clock,     \* the day
  history,   \* host_state_records: the timestamp of each record's row
  findings,  \* rootkit_findings: the change findings with a row
  pc,        \* what each process does next
  at,        \* the timestamp of each process's run
  stance,    \* "diff": the run compares; "baseline": it met an empty history;
             \* "absorb": its mode does not compare
  todo,      \* records of the run not inserted yet
  unread,    \* watched records of the run whose kind is not compared yet
  changes,   \* changes found by the run and not inserted yet
  fresh      \* findings of the run whose row was new

(* Observed, never read by the program. *)
VARIABLES
  lastRow,   \* the timestamp of the last row each record had, pruned or not
  baselined, \* records a baseline run inserted
  absorbed,  \* records a run in an absorbing mode inserted
  reported,  \* records whose own finding was new when it was inserted
  lost,      \* changes a failed run had found and not inserted
  dropped,   \* new findings a failed run had not alerted
  alerts     \* the number of alerts that named each finding

runVars == <<pc, at, stance, todo, unread, changes, fresh>>
seenVars == <<lastRow, baselined, absorbed>>
vars == <<clock, history, findings, runVars, seenVars, reported, lost, dropped, alerts>>

-----------------------------------------------------------------------------
(* The comparison. *)

Stored == {r \in Rec : history[r] # NotStored}

Watched(r) ==
  /\ r.kind \in Toggled \ {"process"}
  /\ r.kind = "socket" => r.content = "LISTEN"
  /\ ~(r.kind \in {"device", "module", "socket"} /\ r.key \in Ignored)

SameKey(r) == {s \in Rec : s.kind = r.kind /\ s.key = r.key}

\* The records whose presence in the history makes r known.
Identity(r) == IF r.kind \in {"module", "socket"} THEN SameKey(r) ELSE {r}

Wording(r) ==
  IF r.kind \in {"file", "device"} /\ SameKey(r) \cap Stored # {} THEN "changed" ELSE "new"

\* Mutant: comparing after the run's own records were persisted.
FlaggedAfterPersisting(S) ==
  {[rec |-> r, type |-> Wording(r)] :
     r \in {s \in S : Identity(s) \cap (Stored \cup S) = {}}}

\* Mutant: a kind with no history yet taken for its own baseline.
FlaggedKindBaselines(S) ==
  {[rec |-> r, type |-> Wording(r)] :
     r \in {s \in S : /\ Identity(s) \cap Stored = {}
                      /\ \E t \in Stored : t.kind = s.kind}}

\* Mutant: the flagged records returned in place of the findings about them.
FlaggedRecords(S) == {s \in S : Identity(s) \cap Stored = {}}

\* The changes that watched records S of one kind are, by the history read now.
Flagged(S) ==
  {[rec |-> r, type |-> Wording(r)] : r \in {s \in S : Identity(s) \cap Stored = {}}}

\* seen_this_run: of the sockets that listen on one address and port, the first
\* in the list is compared.  The list comes in no particular order.
FirstOfPort(S) ==
  {F \in SUBSET S :
     \A r \in S : IF r.kind = "socket" THEN \E s \in S : F \cap SameKey(r) = {s}
                  ELSE r \in F}

\* What collect_host_state can return: the host changes between runs, and a
\* collector that fails is skipped.  Several sockets may share a port.
Snapshots == {S \in SUBSET Rec : \A r \in S : r.kind # "socket" => S \cap SameKey(r) = {r}}

-----------------------------------------------------------------------------

Init ==
  /\ clock = 0
  /\ history = [r \in Rec |-> NotStored]
  /\ findings = {}
  /\ pc = [p \in Proc |-> "idle"]
  /\ at = [p \in Proc |-> 0]
  /\ stance = [p \in Proc |-> "diff"]
  /\ todo = [p \in Proc |-> {}]
  /\ unread = [p \in Proc |-> {}]
  /\ changes = [p \in Proc |-> {}]
  /\ fresh = [p \in Proc |-> {}]
  /\ lastRow = [r \in Rec |-> NotStored]
  /\ baselined = {}
  /\ absorbed = {}
  /\ reported = {}
  /\ lost = {}
  /\ dropped = {}
  /\ alerts = [f \in Finding |-> 0]

Goto(p, label) == pc' = [pc EXCEPT ![p] = label]

\* Mutant: the list of new findings kept from one run to the next.
EndRunKeepingFresh(p) ==
  /\ Goto(p, "idle")
  /\ at' = [at EXCEPT ![p] = 0]
  /\ stance' = [stance EXCEPT ![p] = "diff"]
  /\ todo' = [todo EXCEPT ![p] = {}]
  /\ unread' = [unread EXCEPT ![p] = {}]
  /\ changes' = [changes EXCEPT ![p] = {}]
  /\ UNCHANGED fresh

\* The end of a run, whichever way it ends: its local variables are gone.
EndRun(p) ==
  /\ Goto(p, "idle")
  /\ at' = [at EXCEPT ![p] = 0]
  /\ stance' = [stance EXCEPT ![p] = "diff"]
  /\ todo' = [todo EXCEPT ![p] = {}]
  /\ unread' = [unread EXCEPT ![p] = {}]
  /\ changes' = [changes EXCEPT ![p] = {}]
  /\ fresh' = [fresh EXCEPT ![p] = {}]

\* A daemon tick, or a rootkit-scan or full run: the snapshot is compared next.
BeginDiff(p) ==
  /\ pc[p] = "idle"
  /\ p \in Daemon \/ "scan" \in Modes
  /\ \E S \in Snapshots : todo' = [todo EXCEPT ![p] = S]
  /\ at' = [at EXCEPT ![p] = clock]
  /\ Goto(p, "detect")
  /\ UNCHANGED <<clock, history, findings, stance, unread, changes, fresh, seenVars,
                 reported, lost, dropped, alerts>>

\* An audit, monitor, learn-baseline or setup run: the snapshot is only inserted.
BeginAbsorb(p) ==
  /\ pc[p] = "idle"
  /\ p \notin Daemon
  /\ Modes \ {"scan"} # {}
  /\ \E S \in Snapshots : todo' = [todo EXCEPT ![p] = S]
  /\ at' = [at EXCEPT ![p] = clock]
  /\ stance' = [stance EXCEPT ![p] = IF Stored = {} THEN "baseline" ELSE "absorb"]
  /\ Goto(p, "persist")
  /\ UNCHANGED <<clock, history, findings, unread, changes, fresh, seenVars,
                 reported, lost, dropped, alerts>>

\* The hashes of the whole history are read first: an empty history makes this
\* run the baseline, and units are compared by these hashes.
Detect(p) ==
  /\ pc[p] = "detect"
  /\ IF Stored = {}
     THEN /\ stance' = [stance EXCEPT ![p] = "baseline"]
          /\ Goto(p, "persist")
          /\ UNCHANGED <<unread, changes>>
     ELSE LET watched == {r \in todo[p] : Watched(r)}
              units == {r \in watched : r.kind = "unit"}
          IN /\ changes' = [changes EXCEPT ![p] = Flagged(units)]
             /\ unread' = [unread EXCEPT ![p] = watched \ units]
             /\ Goto(p, "compare")
             /\ UNCHANGED stance
  /\ UNCHANGED <<clock, history, findings, at, todo, fresh, seenVars,
                 reported, lost, dropped, alerts>>

\* Every other kind has a SELECT of its own, so another run may insert between
\* two of them.  The kinds come in any order: no detector reads another's.
Compare(p, k) ==
  /\ pc[p] = "compare"
  /\ LET mine == {r \in unread[p] : r.kind = k}
     IN /\ mine # {}
        /\ \E F \in FirstOfPort(mine) : changes' = [changes EXCEPT ![p] = @ \cup Flagged(F)]
        /\ unread' = [unread EXCEPT ![p] = @ \ mine]
  /\ UNCHANGED <<clock, history, findings, pc, at, stance, todo, fresh, seenVars,
                 reported, lost, dropped, alerts>>

Compared(p) ==
  /\ pc[p] = "compare"
  /\ unread[p] = {}
  /\ Goto(p, "persist")
  /\ UNCHANGED <<clock, history, findings, at, stance, todo, unread, changes, fresh,
                 seenVars, reported, lost, dropped, alerts>>

\* INSERT OR IGNORE: the row of a record that is there keeps its timestamp.
\* The records of a snapshot come in no particular order.
InsertRecord(p, r) ==
  /\ pc[p] = "persist"
  /\ r \in todo[p]
  /\ todo' = [todo EXCEPT ![p] = @ \ {r}]
  /\ IF r \in Stored
     THEN UNCHANGED <<history, seenVars>>
     ELSE /\ history' = [history EXCEPT ![r] = at[p]]
          /\ lastRow' = [lastRow EXCEPT ![r] = at[p]]
          /\ baselined' = IF stance[p] = "baseline" THEN baselined \cup {r} ELSE baselined
          /\ absorbed' = IF stance[p] = "absorb" THEN absorbed \cup {r} ELSE absorbed
  /\ UNCHANGED <<clock, findings, pc, at, stance, unread, changes, fresh,
                 reported, lost, dropped, alerts>>

Persisted(p) ==
  /\ pc[p] = "persist"
  /\ todo[p] = {}
  /\ Goto(p, "report")
  /\ UNCHANGED <<clock, history, findings, at, stance, todo, unread, changes, fresh,
                 seenVars, reported, lost, dropped, alerts>>

\* Mutant: a finding handed to the alert whether its row was new or not.
InsertFindingAlwaysNew(p, c) ==
  /\ pc[p] = "report"
  /\ c \in changes[p]
  /\ changes' = [changes EXCEPT ![p] = @ \ {c}]
  /\ findings' = findings \cup {FindingOf(c)}
  /\ fresh' = [fresh EXCEPT ![p] = @ \cup {FindingOf(c)}]
  /\ reported' = reported \cup {c.rec}
  /\ UNCHANGED <<clock, history, pc, at, stance, todo, unread, seenVars, lost, dropped, alerts>>

InsertFinding(p, c) ==
  /\ pc[p] = "report"
  /\ c \in changes[p]
  /\ changes' = [changes EXCEPT ![p] = @ \ {c}]
  /\ IF FindingOf(c) \in findings
     THEN UNCHANGED <<findings, fresh, reported>>
     ELSE /\ findings' = findings \cup {FindingOf(c)}
          /\ fresh' = [fresh EXCEPT ![p] = @ \cup {FindingOf(c)}]
          /\ reported' = reported \cup {c.rec}
  /\ UNCHANGED <<clock, history, pc, at, stance, todo, unread, seenVars, lost, dropped, alerts>>

Reported(p) ==
  /\ pc[p] = "report"
  /\ changes[p] = {}
  /\ Goto(p, IF p \in Daemon THEN "prune" ELSE "alert")
  /\ UNCHANGED <<clock, history, findings, at, stance, todo, unread, changes, fresh,
                 seenVars, reported, lost, dropped, alerts>>

\* Mutant: the cutoff day itself pruned.
ExpiredTooSoon(r) == history[r] # NotStored /\ history[r] <= clock - Retention

Expired(r) == history[r] # NotStored /\ history[r] < clock - Retention

\* Rows older than the cutoff go; a pruning that fails is logged and skipped.
Prune(p) ==
  /\ pc[p] = "prune"
  /\ \/ /\ Retention > 0
        /\ history' = [r \in Rec |-> IF Expired(r) THEN NotStored ELSE history[r]]
     \/ UNCHANGED history
  /\ Goto(p, "alert")
  /\ UNCHANGED <<clock, findings, at, stance, todo, unread, changes, fresh,
                 seenVars, reported, lost, dropped, alerts>>

\* Mutant: only the daemon alerts.
DispatchDaemonOnly(p) ==
  /\ pc[p] = "alert"
  /\ alerts' = [f \in Finding |-> alerts[f] + (IF p \in Daemon /\ f \in fresh[p] THEN 1 ELSE 0)]
  /\ EndRun(p)
  /\ UNCHANGED <<clock, history, findings, seenVars, reported, lost, dropped>>

Dispatch(p) ==
  /\ pc[p] = "alert"
  /\ alerts' = [f \in Finding |-> alerts[f] + (IF f \in fresh[p] THEN 1 ELSE 0)]
  /\ EndRun(p)
  /\ UNCHANGED <<clock, history, findings, seenVars, reported, lost, dropped>>

\* An exception (a locked database, a full disk) that the scheduler logs and
\* a one-shot run dies of, or a kill: what the run had in memory is gone.
Fail(p) ==
  /\ CanFail
  /\ pc[p] # "idle"
  /\ lost' = lost \cup changes[p]
  /\ dropped' = dropped \cup fresh[p]
  /\ EndRun(p)
  /\ UNCHANGED <<clock, history, findings, seenVars, reported, alerts>>

Step(p) ==
  \/ Detect(p)
  \/ \E k \in Kinds : Compare(p, k)
  \/ Compared(p)
  \/ \E r \in Rec : InsertRecord(p, r)
  \/ Persisted(p)
  \/ \E c \in Change : InsertFinding(p, c)
  \/ Reported(p)
  \/ Prune(p)
  \/ Dispatch(p)

DayPasses ==
  /\ clock < MaxDay
  /\ clock' = clock + 1
  /\ UNCHANGED <<history, findings, runVars, seenVars, reported, lost, dropped, alerts>>

Next ==
  \/ \E p \in Proc : BeginDiff(p) \/ BeginAbsorb(p) \/ Step(p) \/ Fail(p)
  \/ DayPasses

Spec == Init /\ [][Next]_vars

\* A run is sequential code that nothing blocks for ever: once begun, it goes on.
FairSpec == Spec /\ \A p \in Proc : WF_vars(Step(p))
-----------------------------------------------------------------------------
(* What the component guarantees. *)

\* The type invariant: every row, label, timestamp and finding is of its set.
TypeOK ==
  /\ clock \in 0 .. MaxDay
  /\ history \in [Rec -> (0 .. MaxDay) \cup {NotStored}]
  /\ findings \subseteq Finding
  /\ pc \in [Proc -> {"idle", "detect", "compare", "persist", "report", "prune", "alert"}]
  /\ at \in [Proc -> 0 .. MaxDay]
  /\ stance \in [Proc -> {"diff", "baseline", "absorb"}]
  /\ todo \in [Proc -> SUBSET Rec]
  /\ unread \in [Proc -> SUBSET Rec]
  /\ changes \in [Proc -> SUBSET Change]
  /\ fresh \in [Proc -> SUBSET Finding]
  /\ lastRow \in [Rec -> (0 .. MaxDay) \cup {NotStored}]
  /\ baselined \subseteq Rec
  /\ absorbed \subseteq Rec
  /\ reported \subseteq Rec
  /\ lost \subseteq Change
  /\ dropped \subseteq Finding
  /\ alerts \in [Finding -> Nat]

Seen == {r \in Rec : lastRow[r] # NotStored}

\* The findings that say something of r's identity.
About(r) == {FindingOf(c) : c \in {d \in Change : d.rec \in Identity(r)}}

\* The change findings some run, dead or alive, has come to.
Concluded ==
  findings \cup {FindingOf(c) : c \in lost \cup UNION {changes[p] : p \in Proc}}

\* Why a record may be in the history: a baseline run or a mode that does not
\* compare put it there, a finding was made of it, or a socket in another
\* state had already been seen on its address and port.
Explained(r) ==
  \/ Identity(r) \cap (baselined \cup absorbed) # {}
  \/ About(r) \cap Concluded # {}
  \/ \E s \in Identity(r) \cap Seen : s.kind = "socket" /\ s.content # "LISTEN"

\* Nothing watched slips into the history: every record that has ever had a row
\* is explained, whichever processes interleave, fail or prune in between.
Accounted == \A r \in Seen : Watched(r) => Explained(r)

\* The rows of the history are gone for one reason only: a record that once had
\* a row has one now, or that row was older than the retention of the daemon.
ForgottenOnlyExpired ==
  \A r \in Seen \ Stored : Retention > 0 /\ clock - lastRow[r] > Retention

\* A stored finding was announced once, or will be by the one run that stored
\* it, or was dropped by a run that failed: exactly one of these, although the
\* change may be found by two runs at once, after a pruning or after a revert.
InOneHand(f) ==
  /\ \A p, q \in Proc : f \in fresh[p] /\ f \in fresh[q] => p = q
  /\ \A p \in Proc : f \in fresh[p] => alerts[f] = 0 /\ f \notin dropped
  /\ f \in dropped => alerts[f] = 0
  /\ alerts[f] <= 1
FindingsAccounted ==
  \A f \in Finding :
    /\ InOneHand(f)
    /\ f \in findings <=> (alerts[f] = 1 \/ f \in dropped \/ \E p \in Proc : f \in fresh[p])

\* The findings table and the alerts implement the ledger: a row enters once,
\* and no alert names a finding twice or after the run that stored it died.
Ledger == INSTANCE FindingLedger WITH
  Finding <- Finding, stored <- findings, announced <- alerts, dropped <- dropped
LedgerSpec == Ledger!Spec

\* A change that a run has found is alerted in the end, by this run or by the
\* run that stored the same finding, unless the one or the other fails.
FoundIsAlerted ==
  \A c \in Change :
    (\E p \in Proc : c \in changes[p])
      ~> (alerts[FindingOf(c)] > 0 \/ c \in lost \/ FindingOf(c) \in dropped)

-----------------------------------------------------------------------------
(* What the documents say and the code does not do. *)

\* docs/architecture.md:497: "absent from history" means "seen for the first
\* time".  A comparison flags only what never had a row.
FlaggedIsFirstSeen ==
  [][\A p \in Proc : \A c \in changes'[p] \ changes[p] : Identity(c.rec) \cap Seen = {}]_vars

\* README.md:267: only identical findings of earlier runs are deduplicated.  So a
\* changed file that a comparing run inserted has an alert of its own coming.
EachContentReported ==
  \A r \in Seen : Watched(r) /\ r.kind = "file" =>
    \/ r \in baselined \cup absorbed \cup reported
    \/ \E c \in lost \cup UNION {changes[p] : p \in Proc} : c.rec = r
=============================================================================
