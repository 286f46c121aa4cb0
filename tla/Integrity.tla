------------------------------ MODULE Integrity ------------------------------
(***************************************************************************)
(* The file integrity baseline and its scans, by several processes on one  *)
(* database while the files change, and the alert of a scan's findings     *)
(* with the review drop of ReviewDrops.  Reading the baseline, listing the *)
(* paths, hashing each of them and committing each row are steps of their  *)
(* own; a run may fail before any of them.                                 *)
(***************************************************************************)
EXTENDS ReviewDrops, Sequences

CONSTANTS
  Path,       \* the monitored paths and directory entries
  Entries,    \* the directory entries among them
  Ignored,    \* those an ignore pattern matches
  Content,    \* what a file can hold: hash and size
  FileMode,
  Builders,   \* the processes that build baselines
  FirstDisks, \* what the disk may hold, or have held when the baseline was built, at first
  Becomes,    \* what a path may become
  MaxRuns,    \* bound on the runs
  MaxChanges  \* bound on the changes of the disk

ASSUME IntegrityAssumption ==
  /\ Ignored \subseteq Path /\ Entries \subseteq Path /\ Builders \subseteq Proc
  /\ MaxRuns \in Nat /\ MaxChanges \in Nat

VARIABLES
  disk,       \* by path: no file, a file, a link, or one that cannot be hashed
  baseline,   \* the rows of integrity_baseline
  pc,         \* by process: where its run is
  todo,       \* the paths still to be hashed
  hashed,     \* the row a build has hashed and not committed, if any
  listed,     \* current_paths
  base,       \* the baseline a scan has read
  found,      \* its findings, to be inserted
  fresh,      \* those of them that were new
  stored, announced, dropped,  \* the ledger of findings; dropped is a ghost
  runs,
  changes,
  whole,      \* ghost: the entries of the last baseline that was completed
  partial,    \* ghost: a baseline was begun after it
  wholeRead,  \* ghost: by process, those entries when its scan read the baseline
  doubtful,   \* ghost: by process, whether another was begun after them
  seen,       \* ghost: by process and path, what was there since the run began
  cut         \* ghost: by process, the entries its listing of a directory left out

diskVars == <<disk, changes>>
runVars == <<pc, todo, hashed, listed, base, found, fresh>>
ledgerVars == <<stored, announced, dropped>>
ghostVars == <<whole, partial, wholeRead, doubtful, seen, cut>>
vars == <<diskVars, baseline, runVars, ledgerVars, runs, ghostVars, dropVars>>

-----------------------------------------------------------------------------
(* Files.  A link leads to another path; only a file that is not too big and *)
(* can be read is hashed, and a link is not followed.                        *)

File == [kind : {"file"}, content : Content, mode : FileMode]
Missing == [kind |-> "missing"]
Unreadable == [kind |-> "unreadable"]
Link == [kind : {"link"}, to : Path]
OnDisk == File \cup {Missing, Unreadable} \cup Link

ASSUME DiskAssumption == FirstDisks \subseteq [Path -> OnDisk] /\ Becomes \subseteq OnDisk

IsFile(p) == disk[p].kind \in {"file", "unreadable"}
Resolved(p) == IF disk[p].kind = "link" THEN disk[p].to ELSE p
Exists(p) == IsFile(Resolved(p))

\* One path for each file, the first in the order of the directory.
Expansions ==
  {L \in SUBSET {p \in Path : Exists(p)} :
     \A p \in Path : Exists(p) => \E q \in L :
       Resolved(q) = Resolved(p) /\ \A x \in L \ {q} : Resolved(x) # Resolved(p)}

\* An OSError while a directory is read leaves out the rest of its entries.
Listing(r) ==
  \E L \in Expansions : \E C \in SUBSET (Entries \cap L) :
    /\ todo' = [todo EXCEPT ![r] = L \ C]
    /\ listed' = [listed EXCEPT ![r] = L \ C]
    /\ cut' = [cut EXCEPT ![r] = C]

Hashable(p) == p \notin Ignored /\ disk[p].kind = "file"

\* A row of the baseline.
Entry(f) == [content |-> f.content, mode |-> f.mode]

None == "none"
Finding ==
  [type : {"new"}, path : Path, expected : {None}, actual : Content]
    \cup [type : {"missing"}, path : Path, expected : Content, actual : {None}]
    \cup [type : {"changed"}, path : Path, expected : Content, actual : Content]

Found(type, p, expected, actual) ==
  [type |-> type, path |-> p, expected |-> expected, actual |-> actual]

\* What a path that is in the baseline b and not hashed makes.
Gone(b, p) ==
  IF p \in DOMAIN b \ Ignored THEN {Found("missing", p, b[p].content, None)} ELSE {}

\* What a listed path makes.
Compared(b, p) ==
  CASE ~Hashable(p) -> Gone(b, p)
    [] Hashable(p) /\ p \notin DOMAIN b -> {Found("new", p, None, disk[p].content)}
    [] OTHER -> IF Entry(disk[p]) = b[p] THEN {}
                ELSE {Found("changed", p, b[p].content, disk[p].content)}

-----------------------------------------------------------------------------

NoRows == [p \in {} |-> None]
NotSeen == [p \in Path |-> {}]

Recorded(d) == [p \in {q \in Path \ Ignored : d[q].kind = "file"} |-> Entry(d[p])]

\* No baseline yet, or one of the disk as it is or was.
Init ==
  /\ disk \in FirstDisks
  /\ changes = 0
  /\ baseline \in {NoRows} \cup {Recorded(d) : d \in FirstDisks}
  /\ pc = [r \in Proc |-> "idle"]
  /\ todo = [r \in Proc |-> {}]
  /\ hashed = [r \in Proc |-> NoRows]
  /\ listed = [r \in Proc |-> {}]
  /\ base = [r \in Proc |-> NoRows]
  /\ found = [r \in Proc |-> {}]
  /\ fresh = [r \in Proc |-> {}]
  /\ stored = {}
  /\ announced = [f \in Finding |-> 0]
  /\ dropped = {}
  /\ runs = 0
  /\ whole = baseline
  /\ partial = FALSE
  /\ wholeRead = [r \in Proc |-> NoRows]
  /\ doubtful = [r \in Proc |-> FALSE]
  /\ seen = [r \in Proc |-> NotSeen]
  /\ cut = [r \in Proc |-> {}]
  /\ DropsInit

Goto(r, label) == pc' = [pc EXCEPT ![r] = label]

\* What a run knows is gone with it.
EndRun(r) ==
  /\ Goto(r, "idle")
  /\ todo' = [todo EXCEPT ![r] = {}]
  /\ hashed' = [hashed EXCEPT ![r] = NoRows]
  /\ listed' = [listed EXCEPT ![r] = {}]
  /\ base' = [base EXCEPT ![r] = NoRows]
  /\ found' = [found EXCEPT ![r] = {}]
  /\ fresh' = [fresh EXCEPT ![r] = {}]
  /\ wholeRead' = [wholeRead EXCEPT ![r] = NoRows]
  /\ doubtful' = [doubtful EXCEPT ![r] = FALSE]
  /\ seen' = [seen EXCEPT ![r] = NotSeen]
  /\ cut' = [cut EXCEPT ![r] = {}]

\* Somebody changes a file.
Change(p, f) ==
  /\ changes < MaxChanges
  /\ f # disk[p]
  /\ changes' = changes + 1
  /\ disk' = [disk EXCEPT ![p] = f]
  /\ seen' = [r \in Proc |-> IF pc[r] = "idle" THEN NotSeen
                           ELSE [seen[r] EXCEPT ![p] = @ \cup {f}]]
  /\ UNCHANGED <<baseline, runVars, ledgerVars, runs, whole, partial, wholeRead, doubtful,
                 cut, dropVars>>

Begin(r) ==
  /\ pc[r] = "idle"
  /\ runs < MaxRuns
  /\ runs' = runs + 1
  /\ seen' = [seen EXCEPT ![r] = [p \in Path |-> {disk[p]}]]

NoBuild == \A q \in Builders : pc[q] \notin {"cleared", "build"}

\* Mutant: the old rows stay.
BuildOverOld(r) ==
  /\ r \in Builders /\ NoBuild
  /\ Begin(r)
  /\ partial' = TRUE
  /\ Goto(r, "cleared")
  /\ UNCHANGED <<diskVars, baseline, todo, hashed, listed, base, found, fresh, ledgerVars, whole,
                 wholeRead, doubtful, cut, dropVars>>

\* clear_integrity_baseline is committed.  One build at a time.
BuildBaseline(r) ==
  /\ r \in Builders /\ NoBuild
  /\ Begin(r)
  /\ baseline' = NoRows
  /\ partial' = TRUE
  /\ Goto(r, "cleared")
  /\ UNCHANGED <<diskVars, todo, hashed, listed, base, found, fresh, ledgerVars, whole, wholeRead,
                 doubtful, cut, dropVars>>

ListForBuild(r) ==
  /\ pc[r] = "cleared"
  /\ Listing(r)
  /\ Goto(r, "build")
  /\ UNCHANGED <<diskVars, baseline, hashed, base, found, fresh, ledgerVars, runs, whole, partial,
                 wholeRead, doubtful, seen, dropVars>>

\* A path is hashed, or skipped.
HashPath(r, p) ==
  /\ pc[r] = "build" /\ hashed[r] = NoRows
  /\ p \in todo[r]
  /\ todo' = [todo EXCEPT ![r] = @ \ {p}]
  /\ hashed' = [hashed EXCEPT ![r] = IF Hashable(p) THEN [q \in {p} |-> Entry(disk[p])] ELSE @]
  /\ UNCHANGED <<diskVars, baseline, pc, listed, base, found, fresh, ledgerVars, runs, ghostVars,
                 dropVars>>

\* Its row is committed.
SetBaseline(r) ==
  /\ pc[r] = "build" /\ hashed[r] # NoRows
  /\ baseline' = [q \in DOMAIN baseline \cup DOMAIN hashed[r] |->
                    IF q \in DOMAIN hashed[r] THEN hashed[r][q] ELSE baseline[q]]
  /\ hashed' = [hashed EXCEPT ![r] = NoRows]
  /\ UNCHANGED <<diskVars, pc, todo, listed, base, found, fresh, ledgerVars, runs, ghostVars,
                 dropVars>>

Built(r) ==
  /\ pc[r] = "build" /\ todo[r] = {} /\ hashed[r] = NoRows
  /\ EndRun(r)
  /\ whole' = baseline
  /\ partial' = FALSE
  /\ UNCHANGED <<diskVars, baseline, ledgerVars, runs, dropVars>>

\* A full run scans if there is a baseline; ticks and scan runs do not ask.
BeginFull(r) ==
  /\ baseline # NoRows
  /\ Begin(r)
  /\ Goto(r, "read")
  /\ UNCHANGED <<diskVars, baseline, todo, hashed, listed, base, found, fresh, ledgerVars, whole,
                 partial, wholeRead, doubtful, cut, dropVars>>

\* The baseline is read once.
Read(r) ==
  /\ base' = [base EXCEPT ![r] = baseline]
  /\ wholeRead' = [wholeRead EXCEPT ![r] = whole]
  /\ doubtful' = [doubtful EXCEPT ![r] = partial]
  /\ Goto(r, "list")
  /\ UNCHANGED <<diskVars, baseline, todo, hashed, listed, found, fresh, ledgerVars, whole, partial,
                 cut, dropVars>>

BeginScan(r) == Begin(r) /\ Read(r)

ScanAfterAll(r) == pc[r] = "read" /\ Read(r) /\ UNCHANGED <<runs, seen>>

\* Then the paths are listed.
ListForScan(r) ==
  /\ pc[r] = "list"
  /\ Listing(r)
  /\ Goto(r, "scan")
  /\ UNCHANGED <<diskVars, baseline, hashed, base, found, fresh, ledgerVars, runs, whole, partial,
                 wholeRead, doubtful, seen, dropVars>>

\* Mutant: the baseline is read again for each path.
ScanPathReading(r, p) ==
  /\ pc[r] = "scan"
  /\ p \in todo[r]
  /\ todo' = [todo EXCEPT ![r] = @ \ {p}]
  /\ found' = [found EXCEPT ![r] = @ \cup Compared(baseline, p)]
  /\ UNCHANGED <<diskVars, baseline, pc, hashed, listed, base, fresh, ledgerVars, runs, ghostVars,
                 dropVars>>

ScanPath(r, p) ==
  /\ pc[r] = "scan"
  /\ p \in todo[r]
  /\ todo' = [todo EXCEPT ![r] = @ \ {p}]
  /\ found' = [found EXCEPT ![r] = @ \cup Compared(base[r], p)]
  /\ UNCHANGED <<diskVars, baseline, pc, hashed, listed, base, fresh, ledgerVars, runs, ghostVars,
                 dropVars>>

\* Mutant: the rows whose path was not listed are left out.
ScannedListed(r) ==
  /\ pc[r] = "scan" /\ todo[r] = {}
  /\ Goto(r, "insert")
  /\ UNCHANGED <<diskVars, baseline, todo, hashed, listed, base, found, fresh, ledgerVars, runs,
                 ghostVars, dropVars>>

\* The rows of the baseline whose path was not listed.
Scanned(r) ==
  /\ pc[r] = "scan" /\ todo[r] = {}
  /\ found' = [found EXCEPT ![r] = @ \cup UNION {Gone(base[r], p) : p \in Path \ listed[r]}]
  /\ Goto(r, "insert")
  /\ UNCHANGED <<diskVars, baseline, todo, hashed, listed, base, fresh, ledgerVars, runs,
                 ghostVars, dropVars>>

\* Mutant: an insert that is not committed.
InsertUncommitted(r, f) ==
  /\ pc[r] = "insert"
  /\ f \in found[r]
  /\ found' = [found EXCEPT ![r] = @ \ {f}]
  /\ fresh' = [fresh EXCEPT ![r] = IF f \in stored THEN @ ELSE @ \cup {f}]
  /\ UNCHANGED <<diskVars, baseline, pc, todo, hashed, listed, base, stored, announced, dropped,
                 runs, ghostVars, dropVars>>

\* Mutant: an insert that reports every row as new.
InsertAlwaysNew(r, f) ==
  /\ pc[r] = "insert"
  /\ f \in found[r]
  /\ found' = [found EXCEPT ![r] = @ \ {f}]
  /\ stored' = stored \cup {f}
  /\ fresh' = [fresh EXCEPT ![r] = @ \cup {f}]
  /\ UNCHANGED <<diskVars, baseline, pc, todo, hashed, listed, base, announced, dropped, runs,
                 ghostVars, dropVars>>

InsertIntegrityFinding(r, f) ==
  /\ pc[r] = "insert"
  /\ f \in found[r]
  /\ found' = [found EXCEPT ![r] = @ \ {f}]
  /\ stored' = stored \cup {f}
  /\ fresh' = [fresh EXCEPT ![r] = IF f \in stored THEN @ ELSE @ \cup {f}]
  /\ UNCHANGED <<diskVars, baseline, pc, todo, hashed, listed, base, announced, dropped, runs,
                 ghostVars, dropVars>>

\* dispatch_alerts: nothing without new findings, else the alert and then the drop.
Dispatch(r) ==
  /\ pc[r] = "insert" /\ found[r] = {}
  /\ IF fresh[r] = {}
     THEN EndRun(r) /\ UNCHANGED <<announced, dropVars>>
     ELSE /\ announced' = [f \in Finding |->
                             announced[f] + (IF f \in fresh[r] THEN 1 ELSE 0)]
          /\ fresh' = [fresh EXCEPT ![r] = {}]
          /\ \E id \in 1 .. MaxRuns : /\ id \notin {n[2] : n \in written}
                                      /\ \A q \in Proc : name[q][2] # id
                                      /\ BeginDrop(r, id)
          /\ Goto(r, "drop")
          /\ UNCHANGED <<todo, hashed, listed, base, found, wholeRead, doubtful, seen, cut>>
  /\ UNCHANGED <<diskVars, baseline, stored, dropped, runs, whole, partial>>

Drop(r) ==
  /\ pc[r] = "drop"
  /\ DropStep(r)
  /\ IF step'[r] = "none" THEN EndRun(r) ELSE UNCHANGED <<runVars, wholeRead, doubtful, seen, cut>>
  /\ UNCHANGED <<diskVars, baseline, ledgerVars, runs, whole, partial>>

\* The database raises, or the process dies.
Fail(r) ==
  /\ pc[r] \in {"cleared", "build", "read", "list", "scan", "insert"}
  /\ EndRun(r)
  /\ dropped' = dropped \cup fresh[r]
  /\ UNCHANGED <<diskVars, baseline, stored, announced, runs, whole, partial, dropVars>>

Step(r) ==
  \/ BuildBaseline(r) \/ ListForBuild(r) \/ SetBaseline(r) \/ Built(r)
  \/ BeginFull(r) \/ BeginScan(r) \/ ScanAfterAll(r) \/ ListForScan(r)
  \/ \E p \in Path : HashPath(r, p) \/ ScanPath(r, p)
  \/ Scanned(r)
  \/ \E f \in found[r] : InsertIntegrityFinding(r, f)
  \/ Dispatch(r) \/ Drop(r) \/ Fail(r)

Next ==
  \/ \E r \in Proc : Step(r)
  \/ \E p \in Path, f \in Becomes : Change(p, f)
  \/ Second /\ UNCHANGED <<diskVars, baseline, runVars, ledgerVars, runs, ghostVars>>

Spec == Init /\ [][Next]_vars

-----------------------------------------------------------------------------
(* What baselines, scans and alerts guarantee. *)

\* The type invariant; what is read and compared is of monitored paths that are not
\* ignored.
TypeOK ==
  /\ disk \in [Path -> OnDisk] /\ changes \in 0 .. MaxChanges
  /\ \A b \in {baseline, whole} \cup UNION {{base[r], hashed[r]} : r \in Proc} :
       /\ DOMAIN b \subseteq Path \ Ignored
       /\ \A p \in DOMAIN b : b[p] \in [content : Content, mode : FileMode]
  /\ pc \in [Proc -> {"idle", "cleared", "build", "read", "list", "scan", "insert", "drop"}]
  /\ todo \in [Proc -> SUBSET Path] /\ listed \in [Proc -> SUBSET Path]
  /\ found \in [Proc -> SUBSET Finding] /\ fresh \in [Proc -> SUBSET Finding]
  /\ \A r \in Proc : fresh[r] \subseteq stored
  /\ stored \subseteq Finding /\ dropped \subseteq stored
  /\ announced \in [Finding -> Nat]
  /\ runs \in 0 .. MaxRuns
  /\ partial \in BOOLEAN /\ doubtful \in [Proc -> BOOLEAN]
  /\ seen \in [Proc -> [Path -> SUBSET OnDisk]] /\ cut \in [Proc -> SUBSET Entries]
  /\ drops \subseteq Name /\ written \subseteq Name /\ latest \in Name
  /\ step \in [Proc -> {"none", "drop", "latest", "list", "prune"}]
  /\ \A r \in Proc : step[r] # "none" <=> pc[r] = "drop"

\* A file that a link leads to may be listed as the link, which is not hashed.
LinkedTo(p, states) == \E q \in Path \ {p} : [kind |-> "link", to |-> p] \in states[q]

Files(states) == {s \in states : s.kind = "file"}

\* While states were seen, there was no file at p, or a link to it, or a listing of its
\* directory that broke off left it out.
Absent(p, states, left) ==
  states[p] # Files(states[p]) \/ LinkedTo(p, states) \/ p \in left

BorneOut(b, r, f) ==
  LET p == f.path
      files == Files(seen[r][p])
  IN \/ /\ f.type = "new"
        /\ p \notin DOMAIN b /\ \E s \in files : s.content = f.actual
     \/ /\ f.type = "missing"
        /\ p \in DOMAIN b /\ b[p].content = f.expected
        /\ Absent(p, seen[r], cut[r])
     \/ /\ f.type = "changed"
        /\ p \in DOMAIN b /\ b[p].content = f.expected
        /\ \E s \in files : s.content = f.actual /\ Entry(s) # b[p]

\* Every finding of a scan is borne out by the rows it read at its start and by what
\* was on disk while it ran, also when a baseline is built meanwhile.  Those rows are
\* the last whole baseline, unless another was begun before and is not done or failed:
\* then they are the part that is there.  A file may be reported as missing because a
\* link leads to it, or because the listing of its directory broke off.
FindingsBorneOut ==
  \A r \in Proc : \A f \in found[r] :
    BorneOut(base[r], r, f) /\ (~doubtful[r] => BorneOut(wholeRead[r], r, f))

\* What a file that was b[p], or not in b, and is now disk[p] should make.
Difference(b, p) ==
  LET was == p \in DOMAIN b
      is == disk[p].kind = "file"
  IN {f \in Finding :
        /\ f.path = p
        /\ f.type = "new" => ~was /\ is
        /\ f.type = "missing" => was /\ ~is
        /\ f.type = "changed" =>
             was /\ is /\ (b[p].content # disk[p].content \/ b[p].mode # disk[p].mode)
        /\ f.expected = IF was THEN b[p].content ELSE None
        /\ f.actual = IF is THEN disk[p].content ELSE None}

\* A scan is done on a disk without links that did not change, and was all listed.
ScannedStill(r) ==
  /\ pc[r] = "scan" /\ pc'[r] = "insert" /\ cut[r] = {}
  /\ \A p \in Path : Cardinality(seen[r][p]) = 1 /\ disk[p].kind # "link"

\* A scan during which the disk did not change finds exactly the differences from the
\* rows it read, however they were built before or change meanwhile; links and
\* listings that broke off apart.
ScanExact ==
  [][\A r \in Proc : ScannedStill(r) =>
       found'[r] = UNION {Difference(base[r], p) : p \in Path \ Ignored}]_vars

\* The row of p, if any, is that of a file in states.
Witnessed(rows, p, states, left) ==
  IF p \in DOMAIN rows THEN \E s \in Files(states[p]) : rows[p] = Entry(s)
  ELSE Absent(p, states, left)

\* A baseline that is completed has, of every file that was there throughout, the row,
\* and no row that was not a file's while it was built, whatever failed before; but the
\* build does not notice that the listing of a directory broke off.
BaselineWhole ==
  [][\A r \in Proc : (pc[r] = "build" /\ partial /\ ~partial') =>
       \A p \in Path \ Ignored : Witnessed(whole', p, seen[r], cut[r])]_vars

\* Findings and alerts implement the ledger, with two processes that find the same.
Ledger == INSTANCE FindingLedger
LedgerSpec == Ledger!Spec
=============================================================================
