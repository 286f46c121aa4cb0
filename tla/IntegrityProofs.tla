---------------------------- MODULE IntegrityProofs ----------------------------
(***************************************************************************)
(* Proofs about Integrity and the review drops its runs write, for every   *)
(* set of processes, paths and contents, and any number of drops: types,   *)
(* the refinement of the ledger of findings, what becomes of a drop, and   *)
(* how many there are.                                                     *)
(***************************************************************************)
EXTENDS Integrity, Foundations, FiniteSetTheorems, TLAPS

-----------------------------------------------------------------------------
(* Types.                                                                   *)

Row == [content : Content, mode : FileMode]
Rows(b) == DOMAIN b \subseteq Path \ Ignored /\ \A p \in DOMAIN b : b[p] \in Row

\* The part about the directory, with the variables TypeOK leaves out.
DropsTyped ==
  /\ now \in 0 .. MaxTime
  /\ name \in [Proc -> Name]
  /\ doomed \in [Proc -> SUBSET Name]
  /\ drops \subseteq Name /\ written \subseteq Name /\ latest \in Name
  /\ step \in [Proc -> {"none", "drop", "latest", "list", "prune"}]

Labels == {"idle", "cleared", "build", "read", "list", "scan", "insert", "drop"}

\* The runs and the ledger.
RunsTyped ==
  /\ disk \in [Path -> OnDisk] /\ changes \in 0 .. MaxChanges
  /\ Rows(baseline) /\ Rows(whole)
  /\ base = [r \in Proc |-> base[r]] /\ \A r \in Proc : Rows(base[r])
  /\ hashed = [r \in Proc |-> hashed[r]] /\ \A r \in Proc : Rows(hashed[r])
  /\ wholeRead = [r \in Proc |-> wholeRead[r]]
  /\ pc \in [Proc -> Labels]
  /\ todo \in [Proc -> SUBSET Path] /\ listed \in [Proc -> SUBSET Path]
  /\ found \in [Proc -> SUBSET Finding] /\ fresh \in [Proc -> SUBSET Finding]
  /\ \A r \in Proc : fresh[r] \subseteq stored
  /\ stored \subseteq Finding /\ dropped \subseteq stored
  /\ announced \in [Finding -> Nat]
  /\ runs \in 0 .. MaxRuns
  /\ partial \in BOOLEAN /\ doubtful \in [Proc -> BOOLEAN]
  /\ seen \in [Proc -> [Path -> SUBSET OnDisk]] /\ cut \in [Proc -> SUBSET Entries]

Writing == \A r \in Proc : step[r] # "none" <=> pc[r] = "drop"

TypeInv == RunsTyped /\ DropsTyped /\ Writing

LEMMA TypeFromInv == TypeInv => TypeOK
BY DEF TypeInv, RunsTyped, Labels, DropsTyped, Writing, Rows, Row, TypeOK

\* What is hashed is a file.
LEMMA HashedTyped ==
  ASSUME disk \in [Path -> OnDisk], NEW p \in Path, Hashable(p)
  PROVE  disk[p].content \in Content /\ Entry(disk[p]) \in Row
<1>1. disk[p] \in File
  BY DEF Hashable, OnDisk, File, Missing, Unreadable, Link
<1>2. QED
  BY <1>1 DEF File, Entry, Row

\* What a scan makes of a path is a finding.
LEMMA FindingsTyped ==
  ASSUME disk \in [Path -> OnDisk], NEW b, Rows(b), NEW p \in Path
  PROVE  Gone(b, p) \subseteq Finding /\ Compared(b, p) \subseteq Finding
<1>1. Gone(b, p) \subseteq Finding
  <2> SUFFICES ASSUME p \in DOMAIN b PROVE Found("missing", p, b[p].content, None) \in Finding
    BY DEF Gone
  <2>1. b[p].content \in Content
    BY DEF Rows, Row
  <2>2. QED
    BY <2>1 DEF Found, Finding
<1>2. ASSUME Hashable(p) PROVE disk[p].content \in Content /\ Entry(disk[p]) \in Row
  BY <1>2, HashedTyped
<1>3. CASE ~Hashable(p)
  BY <1>1, <1>3 DEF Compared
<1>4. CASE Hashable(p) /\ p \notin DOMAIN b
  <2>1. Found("new", p, None, disk[p].content) \in Finding
    BY <1>2, <1>4 DEF Found, Finding
  <2>2. QED
    BY <1>1, <1>4, <2>1 DEF Compared
<1>5. CASE Hashable(p) /\ p \in DOMAIN b
  <2>1. b[p].content \in Content
    BY <1>5 DEF Rows, Row
  <2>2. Found("changed", p, b[p].content, disk[p].content) \in Finding
    BY <1>2, <1>5, <2>1 DEF Found, Finding
  <2>3. Compared(b, p) \subseteq {Found("changed", p, b[p].content, disk[p].content)}
    BY <1>5 DEF Compared
  <2>4. QED
    BY <1>1, <2>2, <2>3
<1>6. QED
  BY <1>3, <1>4, <1>5

LEMMA NoRowsTyped == Rows(NoRows)
BY DEF Rows, NoRows

LEMMA RecordedTyped ==
  ASSUME NEW d \in FirstDisks PROVE Rows(Recorded(d))
<1> DEFINE S == {q \in Path \ Ignored : d[q].kind = "file"}
<1>1. d \in [Path -> OnDisk]
  BY DiskAssumption
<1>2. ASSUME NEW p \in S PROVE Entry(d[p]) \in Row
  <2>1. d[p] \in File
    BY <1>1, <1>2 DEF OnDisk, File, Missing, Unreadable, Link
  <2>2. QED
    BY <2>1 DEF File, Entry, Row
<1>3. Recorded(d) = [p \in S |-> Entry(d[p])]
  BY DEF Recorded
<1>4. QED
  BY <1>2, <1>3 DEF Rows

LEMMA InitType == Init => TypeInv
<1> SUFFICES ASSUME Init PROVE TypeInv
  OBVIOUS
<1>1. Rows(baseline) /\ Rows(whole) /\ \A r \in Proc : Rows(base[r]) /\ Rows(hashed[r])
  BY NoRowsTyped, RecordedTyped DEF Init
<1>2. disk \in [Path -> OnDisk] /\ changes \in 0 .. MaxChanges /\ runs \in 0 .. MaxRuns
  BY DiskAssumption, IntegrityAssumption DEF Init
<1>3. seen \in [Proc -> [Path -> SUBSET OnDisk]]
  BY DEF Init, NotSeen
<1>4. RunsTyped
  BY <1>1, <1>2, <1>3 DEF Init, RunsTyped, Labels
<1>5. Nothing \in Name
  BY DropAssumption DEF Nothing, Name
<1>6. DropsTyped
  BY <1>5, DropAssumption DEF Init, DropsInit, DropsTyped
<1>7. QED
  BY <1>4, <1>6 DEF Init, DropsInit, Writing, TypeInv

-----------------------------------------------------------------------------

\* The directory's steps keep its types.
LEMMA DropStepType ==
  ASSUME DropsTyped, NEW r \in Proc, DropStep(r) PROVE DropsTyped'
<1>0. Nothing \in Name
  BY DropAssumption DEF Nothing, Name
<1> USE DEF DropsTyped, Move
<1>1. CASE WriteDrop(r)
  BY <1>1 DEF WriteDrop
<1>2. CASE WriteLatest(r)
  BY <1>2 DEF WriteLatest
<1>3. CASE ListDrops(r)
  BY <1>3 DEF ListDrops, Pruned
<1>4. CASE Unlink(r)
  BY <1>4 DEF Unlink
<1>5. CASE EndDrop(r)
  BY <1>0, <1>5 DEF EndDrop
<1>6. CASE AbandonDrop(r)
  BY <1>0, <1>6 DEF AbandonDrop
<1>7. QED
  BY <1>1, <1>2, <1>3, <1>4, <1>5, <1>6 DEF DropStep

LEMMA DropStepMoves ==
  ASSUME DropsTyped, NEW r \in Proc, DropStep(r)
  PROVE  \A q \in Proc : q # r => step'[q] = step[q]
BY DEF DropStep, WriteDrop, WriteLatest, ListDrops, Unlink, EndDrop, AbandonDrop, Move, DropsTyped

\* A run that ends keeps the types.
LEMMA EndRunType ==
  ASSUME RunsTyped, NEW r \in Proc, EndRun(r),
         UNCHANGED <<diskVars, announced, runs, stored>>,
         Rows(baseline'), Rows(whole'), partial' \in BOOLEAN,
         dropped' \subseteq stored
  PROVE  RunsTyped'
<1>1. seen' \in [Proc -> [Path -> SUBSET OnDisk]]
  BY DEF EndRun, RunsTyped, NotSeen
<1>2. base' = [q \in Proc |-> base'[q]] /\ \A q \in Proc : Rows(base'[q])
  BY NoRowsTyped DEF EndRun, RunsTyped
<1>3. fresh' \in [Proc -> SUBSET Finding] /\ \A q \in Proc : fresh'[q] \subseteq stored
  BY DEF EndRun, RunsTyped
<1>4. hashed' = [q \in Proc |-> hashed'[q]] /\ \A q \in Proc : Rows(hashed'[q])
  BY NoRowsTyped DEF EndRun, RunsTyped
<1>5. QED
  BY <1>1, <1>2, <1>3, <1>4 DEF EndRun, Goto, RunsTyped, Labels, diskVars, Rows

\* A run that begins.
LEMMA BeginType ==
  ASSUME RunsTyped, NEW r \in Proc, Begin(r)
  PROVE  runs' \in 0 .. MaxRuns /\ seen' \in [Proc -> [Path -> SUBSET OnDisk]]
BY IntegrityAssumption DEF RunsTyped, Begin

LEMMA ReadType ==
  ASSUME RunsTyped, NEW r \in Proc, Read(r),
         runs' \in 0 .. MaxRuns, seen' \in [Proc -> [Path -> SUBSET OnDisk]]
  PROVE  RunsTyped'
<1>1. base' = [q \in Proc |-> base'[q]] /\ \A q \in Proc : Rows(base'[q])
  BY DEF Read, RunsTyped
<1>2. QED
  BY <1>1 DEF Read, Goto, RunsTyped, Labels, diskVars, ledgerVars, Rows

LEMMA ListingType ==
  ASSUME RunsTyped, NEW r \in Proc, Listing(r)
  PROVE  /\ todo' \in [Proc -> SUBSET Path] /\ listed' \in [Proc -> SUBSET Path]
         /\ cut' \in [Proc -> SUBSET Entries]
<1>1. \A L \in Expansions : L \subseteq Path
  BY DEF Expansions
<1>2. QED
  BY <1>1 DEF Listing, RunsTyped

LEMMA StepType ==
  ASSUME RunsTyped, DropsTyped, NEW r \in Proc, Step(r) PROVE RunsTyped'
<1> USE DEF diskVars, ledgerVars, ghostVars
<1>1. CASE BuildBaseline(r)
  BY <1>1, BeginType, NoRowsTyped DEF BuildBaseline, Goto, RunsTyped, Labels, Rows
<1>2. CASE Built(r)
  BY <1>2, EndRunType DEF Built, RunsTyped, Rows
<1>3. CASE BeginFull(r)
  BY <1>3, BeginType DEF BeginFull, Goto, RunsTyped, Labels, Rows
<1>4. CASE BeginScan(r)
  BY <1>4, BeginType, ReadType DEF BeginScan
<1>5. CASE ScanAfterAll(r)
  BY <1>5, ReadType DEF ScanAfterAll, RunsTyped
<1>6. ASSUME NEW p \in Path, HashPath(r, p) PROVE RunsTyped'
  <2>1. Hashable(p) => Entry(disk[p]) \in Row /\ p \notin Ignored
    BY HashedTyped DEF Hashable, RunsTyped
  <2>2. Hashable(p) => Rows([q \in {p} |-> Entry(disk[p])])
    BY <2>1 DEF Rows
  <2>3. hashed' = [q \in Proc |-> hashed'[q]] /\ \A q \in Proc : Rows(hashed'[q])
    BY <1>6, <2>2 DEF HashPath, RunsTyped
  <2>4. QED
    BY <1>6, <2>3 DEF HashPath, RunsTyped, Rows
<1>7. ASSUME NEW p \in Path, ScanPath(r, p) PROVE RunsTyped'
  <2>1. Compared(base[r], p) \subseteq Finding
    BY FindingsTyped DEF RunsTyped
  <2>2. found' \in [Proc -> SUBSET Finding]
    BY <1>7, <2>1 DEF ScanPath, RunsTyped
  <2>3. QED
    BY <1>7, <2>2 DEF ScanPath, RunsTyped, Rows
<1>8. CASE Scanned(r)
  <2>1. \A p \in Path : Gone(base[r], p) \subseteq Finding
    BY FindingsTyped DEF RunsTyped
  <2>2. UNION {Gone(base[r], p) : p \in Path \ listed[r]} \subseteq Finding
    BY <2>1
  <2>3. found' \in [Proc -> SUBSET Finding]
    BY <1>8, <2>2 DEF Scanned, RunsTyped
  <2>4. QED
    BY <1>8, <2>3 DEF Scanned, Goto, RunsTyped, Labels, Rows
<1>9. ASSUME NEW f \in found[r], InsertIntegrityFinding(r, f) PROVE RunsTyped'
  BY <1>9 DEF InsertIntegrityFinding, RunsTyped, Rows
<1>10. CASE Dispatch(r)
  <2>1. CASE fresh[r] = {}
    BY <1>10, <2>1, EndRunType DEF Dispatch, RunsTyped, Rows
  <2>2. CASE fresh[r] # {}
    <3>1. announced' \in [Finding -> Nat]
      <4>1. announced \in [Finding -> Nat]
        BY DEF RunsTyped
      <4>2. announced' = [f \in Finding |-> announced[f] + (IF f \in fresh[r] THEN 1 ELSE 0)]
        BY <1>10, <2>2 DEF Dispatch
      <4>3. QED
        BY <4>1, <4>2
    <3>2. fresh' \in [Proc -> SUBSET Finding] /\ \A q \in Proc : fresh'[q] \subseteq stored
      BY <1>10, <2>2 DEF Dispatch, RunsTyped
    <3>3. QED
      BY <1>10, <2>2, <3>1, <3>2 DEF Dispatch, Goto, RunsTyped, Labels, Rows
  <2>3. QED
    BY <2>1, <2>2
<1>11. CASE Drop(r)
  <2>1. CASE step'[r] = "none"
    BY <1>11, <2>1, EndRunType DEF Drop, RunsTyped, Rows
  <2>2. CASE step'[r] # "none"
    BY <1>11, <2>2 DEF Drop, runVars, RunsTyped, Rows
  <2>3. QED
    BY <2>1, <2>2
<1>12. CASE Fail(r)
  BY <1>12, EndRunType DEF Fail, RunsTyped, Rows
<1>13. CASE SetBaseline(r)
  <2>1. Rows(baseline) /\ Rows(hashed[r])
    BY DEF RunsTyped
  <2>2. Rows(baseline')
    BY <1>13, <2>1 DEF SetBaseline, Rows
  <2>3. hashed' = [q \in Proc |-> hashed'[q]] /\ \A q \in Proc : Rows(hashed'[q])
    BY <1>13, NoRowsTyped DEF SetBaseline, RunsTyped
  <2>4. QED
    BY <1>13, <2>2, <2>3 DEF SetBaseline, RunsTyped, Rows
<1>14. CASE ListForBuild(r) \/ ListForScan(r)
  <2>1. /\ todo' \in [Proc -> SUBSET Path] /\ listed' \in [Proc -> SUBSET Path]
        /\ cut' \in [Proc -> SUBSET Entries]
    BY <1>14, ListingType DEF ListForBuild, ListForScan
  <2>2. pc' \in [Proc -> Labels]
    BY <1>14 DEF ListForBuild, ListForScan, Goto, RunsTyped, Labels
  <2>3. QED
    BY <1>14, <2>1, <2>2 DEF ListForBuild, ListForScan, RunsTyped, Rows
<1>15. QED
  BY <1>1, <1>2, <1>3, <1>4, <1>5, <1>6, <1>7, <1>8, <1>9, <1>10, <1>11, <1>12, <1>13, <1>14
  DEF Step

\* What a step of a run does to the directory.
LEMMA StepDropsType ==
  ASSUME RunsTyped, DropsTyped, Writing, NEW r \in Proc, Step(r)
  PROVE  DropsTyped' /\ Writing'
<1>1. CASE Dispatch(r)
  <2>1. CASE fresh[r] = {}
    BY <1>1, <2>1 DEF Dispatch, EndRun, Goto, dropVars, DropsTyped, Writing, RunsTyped
  <2>2. CASE fresh[r] # {}
    <3>1. PICK id \in 1 .. MaxRuns : BeginDrop(r, id)
      BY <1>1, <2>2 DEF Dispatch
    <3>2. <<now, id>> \in Name
      BY IntegrityAssumption DEF Name, DropsTyped
    <3>3. DropsTyped'
      BY <3>1, <3>2 DEF BeginDrop, Move, DropsTyped
    <3>4. Writing'
      BY <1>1, <2>2, <3>1 DEF Dispatch, BeginDrop, Move, Goto, DropsTyped, RunsTyped, Writing
    <3>5. QED
      BY <3>3, <3>4
  <2>3. QED
    BY <2>1, <2>2
<1>2. CASE Drop(r)
  <2>1. DropsTyped' /\ \A q \in Proc : q # r => step'[q] = step[q]
    BY <1>2, DropStepType, DropStepMoves DEF Drop
  <2>2. pc' = [pc EXCEPT ![r] = IF step'[r] = "none" THEN "idle" ELSE "drop"]
    BY <1>2 DEF Drop, EndRun, Goto, runVars, RunsTyped
  <2>3. QED
    BY <2>1, <2>2 DEF RunsTyped, Writing
<1>3. ASSUME UNCHANGED dropVars, pc[r] # "drop", pc'[r] # "drop",
             \A q \in Proc : q # r => pc'[q] = pc[q]
      PROVE  DropsTyped' /\ Writing'
  BY <1>3 DEF dropVars, DropsTyped, Writing
<1>4. CASE \/ BuildBaseline(r) \/ ListForBuild(r) \/ SetBaseline(r) \/ BeginFull(r)
           \/ BeginScan(r) \/ ScanAfterAll(r) \/ ListForScan(r)
  BY <1>3, <1>4
  DEF BuildBaseline, ListForBuild, SetBaseline, BeginFull, BeginScan, ScanAfterAll, ListForScan,
      Begin, Read, Goto, RunsTyped
<1>5. CASE Built(r) \/ Fail(r) \/ Scanned(r)
  BY <1>3, <1>5 DEF Built, Fail, Scanned, EndRun, Goto, RunsTyped
<1>6. ASSUME NEW p \in Path, HashPath(r, p) \/ ScanPath(r, p) PROVE DropsTyped' /\ Writing'
  BY <1>3, <1>6 DEF HashPath, ScanPath
<1>7. ASSUME NEW f \in found[r], InsertIntegrityFinding(r, f) PROVE DropsTyped' /\ Writing'
  BY <1>3, <1>7 DEF InsertIntegrityFinding
<1>8. QED
  BY <1>1, <1>2, <1>4, <1>5, <1>6, <1>7 DEF Step

LEMMA NextType == TypeInv /\ [Next]_vars => TypeInv'
<1> SUFFICES ASSUME TypeInv, [Next]_vars PROVE TypeInv'
  OBVIOUS
<1>1. ASSUME NEW r \in Proc, Step(r) PROVE TypeInv'
  BY <1>1, StepType, StepDropsType DEF TypeInv
<1>2. ASSUME NEW p \in Path, NEW f \in Becomes, Change(p, f) PROVE TypeInv'
  <2>1. f \in OnDisk
    BY DiskAssumption
  <2>2. disk' \in [Path -> OnDisk] /\ changes' \in 0 .. MaxChanges
    BY <1>2, <2>1, IntegrityAssumption DEF Change, TypeInv, RunsTyped
  <2>3. seen' \in [Proc -> [Path -> SUBSET OnDisk]]
    BY <1>2, <2>1 DEF Change, NotSeen, TypeInv, RunsTyped
  <2>4. RunsTyped'
    BY <1>2, <2>2, <2>3 DEF Change, runVars, ledgerVars, TypeInv, RunsTyped, Rows
  <2>5. QED
    BY <1>2, <2>4 DEF Change, runVars, dropVars, TypeInv, DropsTyped, Writing
<1>3. ASSUME Second, UNCHANGED <<diskVars, baseline, runVars, ledgerVars, runs, ghostVars>>
      PROVE  TypeInv'
  BY <1>3, DropAssumption DEF Second, diskVars, runVars, ledgerVars, ghostVars, TypeInv,
                              RunsTyped, DropsTyped, Writing, Rows
<1>4. CASE UNCHANGED vars
  BY <1>4 DEF vars, diskVars, runVars, ledgerVars, ghostVars, dropVars, TypeInv,
              RunsTyped, DropsTyped, Writing, Rows
<1>5. QED
  BY <1>1, <1>2, <1>3, <1>4 DEF Next

\* What runs read, compare, insert and write is of the right kind, whichever interleave.
THEOREM TypeCorrect == Spec => []TypeOK
<1>1. Init => TypeInv
  BY InitType
<1>2. TypeInv /\ [Next]_vars => TypeInv'
  BY NextType
<1>3. TypeInv => TypeOK
  BY TypeFromInv
<1>4. QED
  BY <1>1, <1>2, <1>3, PTL DEF Spec

-----------------------------------------------------------------------------
(* The findings and the alerts implement the ledger.                        *)

\* What a run holds is waiting, and no other run holds it.
HeldInv ==
  /\ \A r \in Proc : \A f \in fresh[r] : f \in stored \ dropped /\ announced[f] = 0
  /\ \A q, r \in Proc : q # r => fresh[q] \cap fresh[r] = {}
  /\ \A f \in Finding \ stored : announced[f] = 0

\* Steps that store, announce and drop nothing, of runs that hold no more than before.
LEMMA HeldUnchanged ==
  ASSUME HeldInv, UNCHANGED ledgerVars, \A r \in Proc : fresh'[r] \subseteq fresh[r]
  PROVE  HeldInv'
BY DEF HeldInv, ledgerVars

\* Steps that have nothing to do with findings.
Aside(r) ==
  \/ BuildBaseline(r) \/ ListForBuild(r) \/ SetBaseline(r) \/ Built(r)
  \/ BeginFull(r) \/ BeginScan(r) \/ ScanAfterAll(r) \/ ListForScan(r)
  \/ \E p \in Path : HashPath(r, p) \/ ScanPath(r, p)
  \/ Scanned(r) \/ Drop(r)

LEMMA AsideHolds ==
  ASSUME TypeInv, NEW r \in Proc, Aside(r)
  PROVE  UNCHANGED ledgerVars /\ \A q \in Proc : fresh'[q] \subseteq fresh[q]
<1>1. UNCHANGED ledgerVars
  BY DEF Aside, BuildBaseline, ListForBuild, SetBaseline, Built, BeginFull, BeginScan,
         ScanAfterAll, Read, ListForScan, HashPath, ScanPath, Scanned, Drop
<1>2. fresh' = fresh \/ fresh' = [fresh EXCEPT ![r] = {}]
  BY DEF Aside, BuildBaseline, ListForBuild, SetBaseline, Built, BeginFull, BeginScan,
         ScanAfterAll, Read, ListForScan, HashPath, ScanPath, Scanned, Drop, EndRun, runVars
<1>3. QED
  BY <1>1, <1>2 DEF TypeInv, RunsTyped

LEMMA NextHeld == TypeInv /\ HeldInv /\ [Next]_vars => HeldInv'
<1> SUFFICES ASSUME TypeInv, HeldInv, [Next]_vars PROVE HeldInv'
  OBVIOUS
<1>0. fresh \in [Proc -> SUBSET Finding] /\ stored \subseteq Finding /\ dropped \subseteq stored
  BY DEF TypeInv, RunsTyped
<1>1. ASSUME NEW r \in Proc, Aside(r) PROVE HeldInv'
  BY <1>1, AsideHolds, HeldUnchanged
<1>2. ASSUME NEW r \in Proc, NEW f \in found[r], InsertIntegrityFinding(r, f) PROVE HeldInv'
  <2>1. f \in Finding
    BY DEF TypeInv, RunsTyped
  <2>2. CASE f \in stored
    BY <1>0, <1>2, <2>2, HeldUnchanged DEF InsertIntegrityFinding, ledgerVars
  <2>3. CASE f \notin stored
    <3>1. /\ stored' = stored \cup {f} /\ announced' = announced /\ dropped' = dropped
          /\ fresh' = [fresh EXCEPT ![r] = fresh[r] \cup {f}]
      BY <1>2, <2>3 DEF InsertIntegrityFinding
    <3>2. \A q \in Proc : f \notin fresh[q]
      BY <2>3 DEF HeldInv
    <3>3. \A q \in Proc : fresh'[q] = IF q = r THEN fresh[r] \cup {f} ELSE fresh[q]
      BY <1>0, <3>1
    <3>4. f \notin dropped /\ announced[f] = 0
      BY <1>0, <2>1, <2>3 DEF HeldInv
    <3>5. QED
      BY <3>1, <3>2, <3>3, <3>4 DEF HeldInv
  <2>4. QED
    BY <2>2, <2>3
<1>3. ASSUME NEW r \in Proc, Dispatch(r) PROVE HeldInv'
  <2>1. CASE fresh[r] = {}
    BY <1>0, <1>3, <2>1, HeldUnchanged DEF Dispatch, EndRun, ledgerVars
  <2>2. CASE fresh[r] # {}
    <3>1. /\ announced' = [f \in Finding |-> announced[f] + (IF f \in fresh[r] THEN 1 ELSE 0)]
          /\ fresh' = [fresh EXCEPT ![r] = {}] /\ stored' = stored /\ dropped' = dropped
      BY <1>3, <2>2 DEF Dispatch
    <3>2. \A f \in Finding \ fresh[r] : announced'[f] = announced[f]
      BY <3>1 DEF TypeInv, RunsTyped
    <3>3. \A q \in Proc : fresh'[q] = IF q = r THEN {} ELSE fresh[q]
      BY <1>0, <3>1
    <3>4. \A q \in Proc : \A f \in fresh'[q] : f \in Finding \ fresh[r]
      BY <1>0, <3>3 DEF HeldInv
    <3>5. \A f \in Finding \ stored : f \notin fresh[r]
      BY DEF HeldInv
    <3>6. QED
      BY <3>1, <3>2, <3>3, <3>4, <3>5 DEF HeldInv
  <2>3. QED
    BY <2>1, <2>2
<1>4. ASSUME NEW r \in Proc, Fail(r) PROVE HeldInv'
  <2>1. /\ dropped' = dropped \cup fresh[r] /\ stored' = stored /\ announced' = announced
        /\ fresh' = [fresh EXCEPT ![r] = {}]
    BY <1>4 DEF Fail, EndRun
  <2>2. \A q \in Proc : fresh'[q] = IF q = r THEN {} ELSE fresh[q]
    BY <1>0, <2>1
  <2>3. QED
    BY <2>1, <2>2 DEF HeldInv
<1>5. ASSUME NEW p \in Path, NEW f \in Becomes, Change(p, f) PROVE HeldInv'
  BY <1>5, HeldUnchanged DEF Change, runVars
<1>6. CASE Second /\ UNCHANGED <<diskVars, baseline, runVars, ledgerVars, runs, ghostVars>>
  BY <1>6, HeldUnchanged DEF runVars
<1>7. CASE UNCHANGED vars
  BY <1>7, HeldUnchanged DEF vars, runVars
<1>8. QED
  BY <1>1, <1>2, <1>3, <1>4, <1>5, <1>6, <1>7 DEF Next, Step, Aside

LEMMA StepRefines ==
  ASSUME TypeInv, HeldInv, [Next]_vars PROVE [Ledger!Next]_(Ledger!vars)
<1> USE DEF Ledger!vars
<1>0. ASSUME NEW r \in Proc PROVE fresh[r] \in SUBSET Ledger!Waiting
  BY DEF HeldInv, Ledger!Waiting
<1>1. ASSUME NEW r \in Proc, Aside(r) PROVE UNCHANGED Ledger!vars
  BY <1>1, AsideHolds DEF ledgerVars
<1>2. ASSUME NEW r \in Proc, NEW f \in found[r], InsertIntegrityFinding(r, f)
      PROVE  [Ledger!Next]_(Ledger!vars)
  <2>1. CASE f \in stored
    BY <1>2, <2>1 DEF InsertIntegrityFinding
  <2>2. CASE f \notin stored
    <3>1. f \in Finding /\ Ledger!Store(f)
      BY <1>2, <2>2 DEF InsertIntegrityFinding, Ledger!Store, TypeInv, RunsTyped
    <3>2. QED
      BY <3>1 DEF Ledger!Next
  <2>3. QED
    BY <2>1, <2>2
<1>3. ASSUME NEW r \in Proc, Dispatch(r) PROVE [Ledger!Next]_(Ledger!vars)
  <2>1. CASE fresh[r] = {}
    BY <1>3, <2>1 DEF Dispatch
  <2>2. CASE fresh[r] # {}
    <3>1. Ledger!Announce(fresh[r])
      BY <1>3, <2>2 DEF Dispatch, Ledger!Announce
    <3>2. QED
      BY <1>0, <3>1 DEF Ledger!Next
  <2>3. QED
    BY <2>1, <2>2
<1>4. ASSUME NEW r \in Proc, Fail(r) PROVE [Ledger!Next]_(Ledger!vars)
  <2>1. Ledger!Drop(fresh[r])
    BY <1>4 DEF Fail, Ledger!Drop
  <2>2. QED
    BY <1>0, <2>1 DEF Ledger!Next
<1>5. ASSUME NEW p \in Path, NEW f \in Becomes, Change(p, f) PROVE UNCHANGED Ledger!vars
  BY <1>5 DEF Change, ledgerVars
<1>6. ASSUME UNCHANGED ledgerVars \/ UNCHANGED vars PROVE UNCHANGED Ledger!vars
  BY <1>6 DEF vars, ledgerVars
<1>7. QED
  BY <1>1, <1>2, <1>3, <1>4, <1>5, <1>6 DEF Next, Step, Aside

\* Scans by any number of processes, that find the same, build, fail and write drops,
\* store each finding once and announce it at most once.
THEOREM ImplementsLedger == Spec => LedgerSpec
<1>1. Init => Ledger!Init
  BY DEF Init, Ledger!Init
<1>2. Init => TypeInv /\ HeldInv
  BY InitType DEF Init, HeldInv
<1>3. TypeInv /\ HeldInv /\ [Next]_vars => (TypeInv /\ HeldInv)'
  BY NextType, NextHeld
<1>4. TypeInv /\ HeldInv /\ [Next]_vars => [Ledger!Next]_(Ledger!vars)
  BY StepRefines
<1>5. QED
  BY <1>1, <1>2, <1>3, <1>4, PTL DEF Spec, LedgerSpec, Ledger!Spec

-----------------------------------------------------------------------------
(* What the steps of a run do to the directory of drops. *)

DropsNext ==
  \/ \E r \in Proc, id \in 1 .. MaxRuns : BeginDrop(r, id)
  \/ \E r \in Proc : DropStep(r)
  \/ Second

\* Every step of the runs is one of the directory, or leaves it alone.
LEMMA NextDrops == [Next]_vars => [DropsNext]_dropVars
<1> SUFFICES ASSUME [Next]_vars PROVE [DropsNext]_dropVars
  OBVIOUS
<1>1. ASSUME NEW r \in Proc, Dispatch(r) PROVE [DropsNext]_dropVars
  BY <1>1 DEF Dispatch, DropsNext
<1>2. ASSUME NEW r \in Proc, Drop(r) PROVE [DropsNext]_dropVars
  BY <1>2 DEF Drop, DropsNext
<1>3. ASSUME NEW r \in Proc, Step(r) PROVE [DropsNext]_dropVars
  BY <1>1, <1>2, <1>3
  DEF Step, BuildBaseline, ListForBuild, SetBaseline, Built, BeginFull, BeginScan, ScanAfterAll,
      Read, ListForScan, HashPath, ScanPath, Scanned, InsertIntegrityFinding, Fail
<1>4. CASE \E p \in Path, f \in Becomes : Change(p, f)
  BY <1>4 DEF Change
<1>5. CASE Second
  BY <1>5 DEF DropsNext
<1>6. CASE UNCHANGED vars
  BY <1>6 DEF vars
<1>7. QED
  BY <1>3, <1>4, <1>5, <1>6 DEF Next

-----------------------------------------------------------------------------
(* A drop goes only when enough newer ones were written. *)

Newer(n) == {m \in written : After(m, n)}
Enough(n) == Cardinality(Newer(n)) >= MaxDrops

\* The writes in progress have their file, and what is doomed has newer ones.
DropInv ==
  /\ IsFiniteSet(written)
  /\ drops \subseteq written
  /\ latest \in written \cup {Nothing}
  /\ step = [r \in Proc |-> step[r]]
  /\ name = [r \in Proc |-> name[r]]
  /\ doomed = [r \in Proc |-> doomed[r]]
  /\ \A r \in Proc : step[r] \in {"latest", "list", "prune"} => name[r] \in written
  /\ \A r \in Proc : \A n \in doomed[r] : n \in written /\ Enough(n)
  /\ \A n \in written \ drops : Enough(n)

LEMMA DropsFromInv == DropInv => DropsKept
BY DEF DropInv, DropsKept, Enough, Newer

LEMMA InitDrops == Init => DropInv
BY FS_EmptySet DEF Init, DropsInit, DropInv

\* Cardinalities of finite sets are natural numbers, and grow with the set.
LEMMA NewerGrows ==
  ASSUME NEW A, NEW B, IsFiniteSet(B), A \subseteq B,
         NEW n, Cardinality({m \in A : After(m, n)}) >= MaxDrops
  PROVE  Cardinality({m \in B : After(m, n)}) >= MaxDrops
<1> DEFINE S == {m \in A : After(m, n)}
           T == {m \in B : After(m, n)}
<1>1. IsFiniteSet(T) /\ S \subseteq T
  BY FS_Subset
<1>2. IsFiniteSet(S) /\ Cardinality(S) <= Cardinality(T)
  BY <1>1, FS_Subset
<1>3. Cardinality(S) \in Nat /\ Cardinality(T) \in Nat
  BY <1>1, <1>2, FS_CardinalityType
<1>4. MaxDrops \in Nat
  BY DropAssumption
<1>5. QED
  BY <1>2, <1>3, <1>4

\* Written drops stay written, so what was enough stays enough.
LEMMA EnoughStays ==
  ASSUME NEW n, Enough(n), IsFiniteSet(written'), written \subseteq written'
  PROVE  Enough(n)'
<1>1. Cardinality({m \in written' : After(m, n)}) >= MaxDrops
  BY NewerGrows DEF Enough, Newer
<1>2. QED
  BY <1>1 DEF Enough, Newer, After

LEMMA StepDrops == DropInv /\ [DropsNext]_dropVars => DropInv'
<1> SUFFICES ASSUME DropInv, [DropsNext]_dropVars PROVE DropInv'
  OBVIOUS
<1> USE DEF Move
<1>1. ASSUME NEW r \in Proc, NEW id, BeginDrop(r, id) PROVE DropInv'
  BY <1>1 DEF BeginDrop, DropInv, Enough, Newer, After
<1>2. ASSUME NEW r \in Proc, WriteDrop(r) PROVE DropInv'
  <2>1. IsFiniteSet(written') /\ written \subseteq written'
    BY <1>2, FS_AddElement DEF WriteDrop, DropInv
  <2>2. \A n : Enough(n) => Enough(n)'
    BY <2>1, EnoughStays
  <2>3. \A n \in written' \ drops' : Enough(n)'
    BY <1>2, <2>2 DEF WriteDrop, DropInv
  <2>4. \A q \in Proc : \A n \in doomed'[q] : n \in written' /\ Enough(n)'
    BY <1>2, <2>1, <2>2 DEF WriteDrop, DropInv
  <2>5. QED
    BY <1>2, <2>1, <2>3, <2>4 DEF WriteDrop, DropInv
<1>3. ASSUME NEW r \in Proc, WriteLatest(r) PROVE DropInv'
  BY <1>3 DEF WriteLatest, DropInv, Enough, Newer, After
<1>4. ASSUME NEW r \in Proc, ListDrops(r) PROVE DropInv'
  <2>1. ASSUME NEW n \in Pruned(drops) PROVE n \in written /\ Enough(n)
    <3> DEFINE S == {m \in drops : After(m, n)}
               T == {m \in written : After(m, n)}
    <3>1. Cardinality(S) >= MaxDrops /\ n \in drops
      BY DEF Pruned
    <3>2. IsFiniteSet(written) /\ S \subseteq T /\ T \subseteq written
      BY DEF DropInv
    <3>3. IsFiniteSet(T)
      BY <3>2, FS_Subset
    <3>4. IsFiniteSet(S) /\ Cardinality(S) <= Cardinality(T)
      BY <3>2, <3>3, FS_Subset
    <3>5. Cardinality(S) \in Nat /\ Cardinality(T) \in Nat
      BY <3>3, <3>4, FS_CardinalityType
    <3>6. MaxDrops \in Nat
      BY DropAssumption
    <3>7. Cardinality(T) >= MaxDrops
      <4> HIDE DEF S, T
      <4> QED  BY <3>1, <3>4, <3>5, <3>6
    <3>8. QED
      BY <3>1, <3>7 DEF DropInv, Enough, Newer
  <2>2. /\ written' = written /\ drops' = drops /\ latest' = latest /\ name' = name
        /\ doomed' = [doomed EXCEPT ![r] = Pruned(drops)]
        /\ step' = [step EXCEPT ![r] = "prune"] /\ step[r] = "list"
    BY <1>4 DEF ListDrops
  <2>3. \A n : Enough(n) => Enough(n)'
    BY <2>2 DEF Enough, Newer, After
  <2>4. \A q \in Proc : \A n \in doomed'[q] : n \in written' /\ Enough(n)'
    BY <2>1, <2>2, <2>3 DEF DropInv
  <2>5. \A q \in Proc : step'[q] \in {"latest", "list", "prune"} => name'[q] \in written'
    BY <2>2 DEF DropInv
  <2>6. QED
    BY <2>2, <2>3, <2>4, <2>5 DEF DropInv
<1>5. ASSUME NEW r \in Proc, Unlink(r) PROVE DropInv'
  <2>1. PICK n \in doomed[r] : /\ drops' \in {drops, drops \ {n}}
                               /\ doomed' = [doomed EXCEPT ![r] = doomed[r] \ {n}]
    BY <1>5 DEF Unlink
  <2>2. UNCHANGED <<latest, step, name, written>>
    BY <1>5 DEF Unlink
  <2>3. \A m : Enough(m) => Enough(m)'
    BY <2>2 DEF Enough, Newer, After
  <2>4. \A m \in written' \ drops' : Enough(m)'
    BY <2>1, <2>2, <2>3 DEF DropInv
  <2>5. \A q \in Proc : \A m \in doomed'[q] : m \in written' /\ Enough(m)'
    BY <2>1, <2>2, <2>3 DEF DropInv
  <2>6. QED
    BY <2>1, <2>2, <2>4, <2>5 DEF DropInv
<1>6. ASSUME NEW r \in Proc, EndDrop(r) PROVE DropInv'
  <2>1. /\ UNCHANGED <<drops, latest, doomed, written>>
        /\ step' = [step EXCEPT ![r] = "none"] /\ name' = [name EXCEPT ![r] = Nothing]
    BY <1>6 DEF EndDrop
  <2>2. \A n : Enough(n) => Enough(n)'
    BY <2>1 DEF Enough, Newer, After
  <2>3. \A q \in Proc : step'[q] \in {"latest", "list", "prune"} => name'[q] \in written
    BY <2>1 DEF DropInv
  <2>4. QED
    BY <2>1, <2>2, <2>3 DEF DropInv
<1>7. ASSUME NEW r \in Proc, AbandonDrop(r) PROVE DropInv'
  <2>1. /\ UNCHANGED <<drops, latest, written>> /\ doomed' = [doomed EXCEPT ![r] = {}]
        /\ step' = [step EXCEPT ![r] = "none"] /\ name' = [name EXCEPT ![r] = Nothing]
    BY <1>7 DEF AbandonDrop
  <2>2. \A n : Enough(n) => Enough(n)'
    BY <2>1 DEF Enough, Newer, After
  <2>3. \A q \in Proc : step'[q] \in {"latest", "list", "prune"} => name'[q] \in written
    BY <2>1 DEF DropInv
  <2>4. QED
    BY <2>1, <2>2, <2>3 DEF DropInv
<1>8. ASSUME Second PROVE DropInv'
  BY <1>8 DEF Second, DropInv, Enough, Newer, After
<1>9. ASSUME UNCHANGED dropVars PROVE DropInv'
  BY <1>9 DEF dropVars, DropInv, Enough, Newer, After
<1>10. QED
  BY <1>1, <1>2, <1>3, <1>4, <1>5, <1>6, <1>7, <1>8, <1>9 DEF DropsNext, DropStep

\* A review drop, and the one latest.json names, is removed only when max_drops newer
\* ones were written, however many processes list, write and prune at once, and
\* wherever they stop.
THEOREM DropsCorrect == Spec => []DropsKept
<1>1. Init => DropInv
  BY InitDrops
<1>2. DropInv /\ [Next]_vars => DropInv'
  BY NextDrops, StepDrops
<1>3. DropInv => DropsKept
  BY DropsFromInv
<1>4. QED
  BY <1>1, <1>2, <1>3, PTL DEF Spec
-----------------------------------------------------------------------------
(* How many drops are left when nobody is about to prune. *)

\* The names are ordered by their seconds, then their ids: one of them sorts first.
LEMMA FirstName ==
  ASSUME NEW S \in SUBSET Name, S # {}
  PROVE  \E n \in S : \A m \in S \ {n} : After(m, n)
<1> DEFINE Seconds == {n[1] : n \in S}
<1>1. \A n \in S : n[1] \in Nat /\ n[2] \in Nat /\ n = <<n[1], n[2]>>
  BY DEF Name
<1>2. PICK a \in Seconds : \A b \in Seconds : a <= b
  <2>1. Seconds \in SUBSET Nat /\ Seconds # {}
    BY <1>1
  <2>2. QED
    BY <2>1, Least
<1> DEFINE Ids == {n[2] : n \in {m \in S : m[1] = a}}
<1>3. Ids \in SUBSET Nat /\ Ids # {}
  BY <1>1, <1>2
<1>4. PICK i \in Ids : \A j \in Ids : i <= j
  BY <1>3, Least
<1>5. PICK n \in S : n[1] = a /\ n[2] = i
  BY <1>4
<1>6. ASSUME NEW m \in S \ {n} PROVE After(m, n)
  <2>1. m[1] \in Nat /\ m[2] \in Nat /\ n[1] \in Nat /\ n[2] \in Nat /\ n[1] <= m[1]
    BY <1>1, <1>2, <1>5
  <2>2. CASE m[1] > n[1]
    BY <2>2 DEF After
  <2>3. CASE m[1] = n[1]
    <3>1. n[2] <= m[2]
      BY <1>4, <1>5, <2>3
    <3>2. m[2] # n[2]
      BY <1>1, <1>6, <2>3
    <3>3. QED
      BY <2>1, <2>3, <3>1, <3>2 DEF After
  <2>4. QED
    BY <2>1, <2>2, <2>3
<1>7. QED
  BY <1>6

\* No name sorts after itself.
LEMMA NotAfterItself == ASSUME NEW n \in Name PROVE ~After(n, n)
BY DEF Name, After

Later(S, n) == {m \in S : After(m, n)}

\* If fewer than max_drops come after each, there are at most max_drops: all but the
\* first come after the first.
LEMMA FewAfterEach ==
  ASSUME NEW S \in SUBSET Name, IsFiniteSet(S),
         \A n \in S : Cardinality(Later(S, n)) < MaxDrops
  PROVE  Cardinality(S) <= MaxDrops
<1>0. MaxDrops \in Nat
  BY DropAssumption
<1>1. CASE S = {}
  BY <1>0, <1>1, FS_EmptySet
<1>2. CASE S # {}
  <2>1. PICK n \in S : \A m \in S \ {n} : After(m, n)
    BY <1>2, FirstName
  <2>2. Later(S, n) = S \ {n}
    BY <2>1, NotAfterItself DEF Later
  <2>3. Cardinality(S \ {n}) = Cardinality(S) - 1 /\ Cardinality(S) \in Nat
    BY <2>1, FS_RemoveElement, FS_CardinalityType
  <2>4. Cardinality(S) - 1 < MaxDrops
    BY <2>2, <2>3
  <2>5. QED
    BY <1>0, <2>3, <2>4
<1>3. QED
  BY <1>1, <1>2

\* Once somebody has looked at all that was written, a file is about to be removed, or
\* few come after it.
Going(n) == \E r \in Proc : step[r] = "prune" /\ n \in doomed[r]
BoundInv == ~unpruned => \A n \in drops : Going(n) \/ Cardinality(Later(drops, n)) < MaxDrops

\* What is removed leaves fewer after each of the others.
LEMMA FewerLater ==
  ASSUME NEW S, IsFiniteSet(S), NEW T \in SUBSET S, NEW n,
         Cardinality(Later(S, n)) < MaxDrops
  PROVE  Cardinality(Later(T, n)) < MaxDrops
<1>1. Later(T, n) \subseteq Later(S, n) /\ Later(S, n) \subseteq S
  BY DEF Later
<1>2. IsFiniteSet(Later(S, n)) /\ IsFiniteSet(Later(T, n))
  BY <1>1, FS_Subset
<1>3. Cardinality(Later(T, n)) <= Cardinality(Later(S, n))
  BY <1>1, <1>2, FS_Subset
<1>4. Cardinality(Later(T, n)) \in Nat /\ Cardinality(Later(S, n)) \in Nat
  BY <1>2, FS_CardinalityType
<1>5. QED
  BY <1>3, <1>4, DropAssumption

LEMMA StepBound == DropInv /\ BoundInv /\ [DropsNext]_dropVars => BoundInv'
<1> SUFFICES ASSUME DropInv, BoundInv, [DropsNext]_dropVars, ~unpruned', NEW n \in drops'
             PROVE  Going(n)' \/ Cardinality(Later(drops, n))' < MaxDrops
  BY DEF BoundInv
<1> USE DEF Move
<1>0. /\ IsFiniteSet(drops) /\ MaxDrops \in Nat
      /\ step = [r \in Proc |-> step[r]] /\ doomed = [r \in Proc |-> doomed[r]]
  BY DropAssumption, FS_Subset DEF DropInv
<1> DEFINE Few == Cardinality(Later(drops, n)) < MaxDrops
<1>1. ASSUME drops' = drops, Few PROVE Few'
  BY <1>1 DEF Later, After
<1>2. ASSUME drops' = drops, unpruned' = unpruned, doomed' = doomed,
             \A q \in Proc : step[q] = "prune" /\ doomed[q] # {} => step'[q] = "prune"
      PROVE  Going(n)' \/ Few'
  <2>1. Going(n) \/ Few
    BY <1>2 DEF BoundInv
  <2>2. Going(n) => Going(n)'
    BY <1>2 DEF Going
  <2>3. QED
    BY <1>1, <1>2, <2>1, <2>2
<1>3. ASSUME NEW r \in Proc, NEW id, BeginDrop(r, id) PROVE Going(n)' \/ Few'
  BY <1>0, <1>2, <1>3 DEF BeginDrop
<1>4. ASSUME NEW r \in Proc, WriteDrop(r) PROVE FALSE
  BY <1>4 DEF WriteDrop
<1>5. ASSUME NEW r \in Proc, WriteLatest(r) PROVE Going(n)' \/ Few'
  BY <1>0, <1>2, <1>5 DEF WriteLatest
<1>6. ASSUME NEW r \in Proc, ListDrops(r) PROVE Going(n)' \/ Few'
  <2>1. /\ drops' = drops
        /\ doomed' = [doomed EXCEPT ![r] = Pruned(drops)]
        /\ step' = [step EXCEPT ![r] = "prune"]
    BY <1>6 DEF ListDrops
  <2>2. CASE n \in Pruned(drops)
    BY <1>0, <2>1, <2>2 DEF Going
  <2>3. CASE n \notin Pruned(drops)
    <3>1. Later(drops, n) \subseteq drops
      BY DEF Later
    <3>2. Cardinality(Later(drops, n)) \in Nat
      BY <1>0, <3>1, FS_Subset, FS_CardinalityType
    <3>3. ~(Cardinality(Later(drops, n)) >= MaxDrops)
      BY <2>1, <2>3 DEF Pruned, Later
    <3>4. QED
      BY <1>0, <1>1, <2>1, <3>2, <3>3
  <2>4. QED
    BY <2>2, <2>3
<1>7. ASSUME NEW r \in Proc, Unlink(r) PROVE Going(n)' \/ Few'
  <2>1. PICK d \in doomed[r] : /\ drops' = drops \ {d} /\ unpruned' = unpruned
                               /\ doomed' = [doomed EXCEPT ![r] = doomed[r] \ {d}]
    BY <1>7 DEF Unlink
  <2>2. step' = step /\ unpruned' = unpruned /\ n # d /\ n \in drops
    BY <1>7, <2>1 DEF Unlink
  <2>3. CASE Going(n)
    BY <1>0, <2>1, <2>2, <2>3 DEF Going
  <2>4. CASE Few
    <3>1. Cardinality(Later(drops', n)) < MaxDrops
      BY <1>0, <2>1, <2>4, FewerLater
    <3>2. QED
      BY <3>1 DEF Later, After
  <2>5. QED
    BY <2>2, <2>3, <2>4 DEF BoundInv
<1>8. ASSUME NEW r \in Proc, EndDrop(r) PROVE Going(n)' \/ Few'
  BY <1>0, <1>2, <1>8 DEF EndDrop
<1>9. ASSUME NEW r \in Proc, AbandonDrop(r) PROVE Going(n)' \/ Few'
  <2>1. /\ drops' = drops /\ ~unpruned /\ step[r] # "prune"
        /\ doomed' = [doomed EXCEPT ![r] = {}] /\ step' = [step EXCEPT ![r] = "none"]
    BY <1>9 DEF AbandonDrop
  <2>2. Going(n) \/ Few
    BY <2>1 DEF BoundInv
  <2>3. Going(n) => Going(n)'
    BY <1>0, <2>1 DEF Going
  <2>4. QED
    BY <1>1, <2>1, <2>2, <2>3
<1>10. ASSUME Second PROVE Going(n)' \/ Few'
  BY <1>2, <1>10 DEF Second
<1>11. ASSUME UNCHANGED dropVars PROVE Going(n)' \/ Few'
  BY <1>2, <1>11 DEF dropVars
<1>12. QED
  BY <1>3, <1>4, <1>5, <1>6, <1>7, <1>8, <1>9, <1>10, <1>11 DEF DropsNext, DropStep

\* Whichever processes overlapped, the last one to look leaves at most max_drops files,
\* unless it failed between looking and removing, or a file could not be removed.
THEOREM BoundCorrect == Spec => []DropsBounded
<1>1. Init => TypeInv /\ DropInv /\ BoundInv
  <2>1. Init => BoundInv
    BY DEF Init, DropsInit, BoundInv
  <2>2. QED
    BY <2>1, InitType, InitDrops
<1>2. /\ TypeInv /\ DropInv /\ BoundInv /\ [Next]_vars
      => (TypeInv /\ DropInv /\ BoundInv)'
  BY NextType, NextDrops, StepDrops, StepBound
<1>3. TypeInv /\ DropInv /\ BoundInv => DropsBounded
  <2> SUFFICES ASSUME TypeInv, DropInv, BoundInv, ~unpruned, \A r \in Proc : step[r] # "prune"
               PROVE  Cardinality(drops) <= MaxDrops
    BY DEF DropsBounded
  <2>1. drops \in SUBSET Name /\ IsFiniteSet(drops)
    BY FS_Subset DEF TypeInv, DropsTyped, DropInv
  <2>2. \A n \in drops : Cardinality(Later(drops, n)) < MaxDrops
    BY DEF BoundInv, Going
  <2>3. QED
    BY <2>1, <2>2, FewAfterEach
<1>4. QED
  BY <1>1, <1>2, <1>3, PTL DEF Spec
=============================================================================
