----------------------------- MODULE ScanProofs -----------------------------
(***************************************************************************)
(* Proofs about what baselines and scans of Integrity say of the disk,     *)
(* with any number of processes, paths and changes.                        *)
(***************************************************************************)
EXTENDS IntegrityProofs

-----------------------------------------------------------------------------
(* What was seen.  It only grows while a run goes on.                       *)

SeenInv == \A r \in Proc : pc[r] # "idle" => \A p \in Path : disk[p] \in seen[r][p]

LEMMA FilesGrow ==
  ASSUME NEW S, NEW T, S \subseteq T
  PROVE  Files(S) \subseteq Files(T) /\ (S # Files(S) => T # Files(T))
BY DEF Files

LEMMA AbsentGrows ==
  ASSUME NEW p \in Path, NEW s, NEW t, NEW left, \A x \in Path : s[x] \subseteq t[x],
         Absent(p, s, left)
  PROVE  Absent(p, t, left)
BY FilesGrow DEF Absent, LinkedTo

LEMMA WitnessGrows ==
  ASSUME NEW p \in Path, NEW rows, NEW s, NEW t, NEW left, \A x \in Path : s[x] \subseteq t[x],
         Witnessed(rows, p, s, left)
  PROVE  Witnessed(rows, p, t, left)
BY FilesGrow, AbsentGrows DEF Witnessed

\* A path that is not listed is no file, or the file is listed by a link to it, or it
\* was left out.
LEMMA UnlistedAbsent ==
  ASSUME disk \in [Path -> OnDisk], NEW L \in Expansions, NEW left, NEW p \in Path \ (L \ left),
         NEW s, \A x \in Path : disk[x] \in s[x]
  PROVE  Absent(p, s, left)
<1>1. CASE disk[p].kind # "file" \/ p \in left
  BY <1>1 DEF Absent, Files
<1>2. CASE disk[p].kind = "file" /\ p \notin left
  <2>1. Resolved(p) = p /\ Exists(p)
    BY <1>2 DEF Resolved, Exists, IsFile
  <2>2. PICK q \in L : Resolved(q) = p
    BY <2>1 DEF Expansions
  <2>3. q \in Path /\ q # p
    BY <1>2 DEF Expansions
  <2>4. disk[q].kind = "link" /\ disk[q].to = p
    BY <2>2, <2>3 DEF Resolved
  <2>5. disk[q] \in Link
    BY <2>3, <2>4 DEF OnDisk, File, Missing, Unreadable
  <2>6. disk[q] = [kind |-> "link", to |-> p]
    BY <2>4, <2>5 DEF Link
  <2>7. QED
    BY <2>3, <2>6 DEF Absent, LinkedTo
<1>3. QED
  BY <1>1, <1>2

\* What a listing leaves of a run's paths.
LEMMA ListingAbsent ==
  ASSUME TypeInv, SeenInv, NEW r \in Proc, Listing(r), pc[r] # "idle"
  PROVE  /\ todo'[r] = listed'[r]
         /\ \A p \in Path \ listed'[r] : Absent(p, seen[r], cut'[r])
<1>1. PICK L \in Expansions, C \in SUBSET Entries :
        /\ todo' = [todo EXCEPT ![r] = L \ C] /\ listed' = [listed EXCEPT ![r] = L \ C]
        /\ cut' = [cut EXCEPT ![r] = C]
  BY DEF Listing
<1>2. todo'[r] = L \ C /\ listed'[r] = L \ C /\ cut'[r] = C
  BY <1>1 DEF TypeInv, RunsTyped
<1>3. disk \in [Path -> OnDisk] /\ \A x \in Path : disk[x] \in seen[r][x]
  BY DEF TypeInv, RunsTyped, SeenInv
<1>4. \A p \in Path \ (L \ C) : Absent(p, seen[r], C)
  BY <1>3, UnlistedAbsent
<1>5. QED
  BY <1>2, <1>4

\* A path that is not hashed, and not ignored, is no file.
LEMMA UnhashedAbsent ==
  ASSUME NEW p \in Path \ Ignored, ~Hashable(p), NEW s, disk[p] \in s[p], NEW left
  PROVE  Absent(p, s, left)
BY DEF Hashable, Absent, Files

\* The run that begins sees the disk as it is, the others see what they saw and
\* what became of it.
LEMMA NextSeen ==
  ASSUME TypeInv, SeenInv, [Next]_vars
  PROVE  /\ SeenInv'
         /\ \A r \in Proc : pc[r] # "idle" /\ pc'[r] # "idle" =>
              \A p \in Path : seen[r][p] \subseteq seen'[r][p]
<1>0. /\ pc \in [Proc -> Labels]
      /\ seen \in [Proc -> [Path -> SUBSET OnDisk]] /\ disk \in [Path -> OnDisk]
  BY DEF TypeInv, RunsTyped
<1>1. ASSUME NEW r \in Proc, disk' = disk, UNCHANGED seen,
             \A q \in Proc : pc'[q] # "idle" => pc[q] # "idle"
      PROVE SeenInv' /\ \A q \in Proc, p \in Path : seen[q][p] \subseteq seen'[q][p]
  BY <1>1 DEF SeenInv
<1>2. ASSUME NEW r \in Proc, disk' = disk, Begin(r), \A q \in Proc \ {r} : pc'[q] = pc[q]
      PROVE  /\ SeenInv'
             /\ \A q \in Proc : pc[q] # "idle" =>
                  \A p \in Path : seen[q][p] \subseteq seen'[q][p]
  BY <1>0, <1>2 DEF Begin, SeenInv
<1>3. ASSUME NEW r \in Proc, disk' = disk, EndRun(r)
      PROVE  /\ SeenInv'
             /\ \A q \in Proc : pc'[q] # "idle" =>
                  \A p \in Path : seen[q][p] \subseteq seen'[q][p]
  BY <1>0, <1>3 DEF EndRun, Goto, SeenInv
<1>4. CASE \E r \in Proc : BuildBaseline(r) \/ BeginFull(r) \/ BeginScan(r)
  BY <1>0, <1>2, <1>4 DEF BuildBaseline, BeginFull, BeginScan, Read, Goto, diskVars
<1>5. CASE \E r \in Proc : Built(r) \/ Fail(r)
  BY <1>3, <1>5 DEF Built, Fail, diskVars
<1>6. CASE \E r \in Proc : ScanAfterAll(r) \/ Scanned(r) \/ ListForBuild(r) \/ ListForScan(r)
  BY <1>0, <1>1, <1>6
  DEF ScanAfterAll, Read, Scanned, ListForBuild, ListForScan, Goto, diskVars, ghostVars
<1>7. CASE \E r \in Proc : \/ \E p \in Path : HashPath(r, p) \/ ScanPath(r, p)
                           \/ \E f \in found[r] : InsertIntegrityFinding(r, f)
                           \/ SetBaseline(r)
  BY <1>1, <1>7
  DEF HashPath, SetBaseline, ScanPath, InsertIntegrityFinding, diskVars, ghostVars
<1>8. ASSUME NEW r \in Proc, Dispatch(r)
      PROVE  /\ SeenInv'
             /\ \A q \in Proc : pc[q] # "idle" /\ pc'[q] # "idle" =>
                  \A p \in Path : seen[q][p] \subseteq seen'[q][p]
  <2>1. CASE fresh[r] = {}
    BY <1>3, <1>8, <2>1 DEF Dispatch, diskVars
  <2>2. CASE fresh[r] # {}
    BY <1>0, <1>1, <1>8, <2>2 DEF Dispatch, Goto, diskVars
  <2>3. QED
    BY <2>1, <2>2
<1>9. ASSUME NEW r \in Proc, Drop(r)
      PROVE  /\ SeenInv'
             /\ \A q \in Proc : pc[q] # "idle" /\ pc'[q] # "idle" =>
                  \A p \in Path : seen[q][p] \subseteq seen'[q][p]
  BY <1>1, <1>3, <1>9 DEF Drop, diskVars, runVars
<1>10. ASSUME NEW p \in Path, NEW f \in Becomes, Change(p, f)
       PROVE  /\ SeenInv'
              /\ \A q \in Proc : pc[q] # "idle" =>
                   \A x \in Path : seen[q][x] \subseteq seen'[q][x]
  <2>1. pc' = pc /\ disk' = [disk EXCEPT ![p] = f]
    BY <1>10 DEF Change, runVars
  <2>2. \A q \in Proc : pc[q] # "idle" => seen'[q] = [seen[q] EXCEPT ![p] = seen[q][p] \cup {f}]
    BY <1>10 DEF Change
  <2>3. \A q \in Proc : pc[q] # "idle" => \A x \in Path :
          seen'[q][x] = IF x = p THEN seen[q][x] \cup {f} ELSE seen[q][x]
    <3> SUFFICES ASSUME NEW q \in Proc, pc[q] # "idle", NEW x \in Path
                 PROVE  seen'[q][x] = IF x = p THEN seen[q][x] \cup {f} ELSE seen[q][x]
      OBVIOUS
    <3>1. DOMAIN seen[q] = Path
      BY <1>0
    <3>2. QED
      BY <2>2, <3>1
  <2>4. QED
    BY <1>0, <2>1, <2>3 DEF SeenInv
<1>11. CASE \/ Second /\ UNCHANGED <<diskVars, baseline, runVars, ledgerVars, runs, ghostVars>>
            \/ UNCHANGED vars
  BY <1>11 DEF vars, diskVars, runVars, ghostVars, SeenInv
<1>12. QED
  BY <1>4, <1>5, <1>6, <1>7, <1>8, <1>9, <1>10, <1>11 DEF Next, Step

-----------------------------------------------------------------------------
(* Baselines.                                                               *)

Building == {r \in Proc : pc[r] \in {"cleared", "build"}}

\* One run builds.  Of every path that it has not still to hash or to commit, the row in
\* the table is a witness; so will be the one that is hashed.
BuildInv ==
  /\ \A r \in Building : r \in Builders /\ partial
  /\ \A q, r \in Building : q = r
  /\ \A r \in Proc : pc[r] = "cleared" => DOMAIN baseline = {}
  /\ \A r \in Proc : pc[r] # "build" => hashed[r] = NoRows
  /\ \A r \in Proc : pc[r] = "build" =>
       /\ \A p \in Path \ Ignored :
            \/ p \in todo[r] \cup DOMAIN hashed[r] /\ p \notin DOMAIN baseline
            \/ Witnessed(baseline, p, seen[r], cut[r])
       /\ \A p \in DOMAIN hashed[r] : \E s \in Files(seen[r][p]) : hashed[r][p] = Entry(s)

\* Steps of others than the builder, that leave the table as it is.
LEMMA BuildUnchanged ==
  ASSUME TypeInv, SeenInv, BuildInv, [Next]_vars, baseline' = baseline,
         \A r \in Proc : pc'[r] \in {"cleared", "build"} =>
           /\ pc[r] = pc'[r] /\ todo'[r] = todo[r] /\ hashed'[r] = hashed[r]
           /\ cut'[r] = cut[r] /\ partial' = partial,
         \A r \in Proc : pc'[r] # "build" => hashed'[r] = NoRows
  PROVE  BuildInv'
<1>1. ASSUME NEW r \in Proc, pc'[r] = "build", NEW p \in Path \ Ignored,
             Witnessed(baseline, p, seen[r], cut[r])
      PROVE  Witnessed(baseline, p, seen'[r], cut'[r])
  BY <1>1, NextSeen, WitnessGrows
<1>2. ASSUME NEW r \in Proc, pc'[r] = "build", NEW p \in DOMAIN hashed'[r]
      PROVE  \E s \in Files(seen'[r][p]) : hashed'[r][p] = Entry(s)
  <2>1. pc[r] = "build" /\ hashed'[r] = hashed[r] /\ p \in Path
    BY <1>2 DEF TypeInv, RunsTyped, Rows
  <2>2. \E s \in Files(seen[r][p]) : hashed[r][p] = Entry(s)
    BY <1>2, <2>1 DEF BuildInv
  <2>3. Files(seen[r][p]) \subseteq Files(seen'[r][p])
    BY <1>2, <2>1, NextSeen, FilesGrow
  <2>4. QED
    BY <2>1, <2>2, <2>3
<1>3. \A r \in Building' : r \in Building /\ partial' = partial
  BY DEF Building
<1>4. QED
  BY <1>1, <1>2, <1>3 DEF BuildInv, Witnessed, Absent, LinkedTo, Files, Entry

LEMMA BuildBegins ==
  ASSUME TypeInv, BuildInv, NEW r \in Proc, BuildBaseline(r)
  PROVE  BuildInv'
<1>1. DOMAIN baseline' = {} /\ partial' = TRUE /\ r \in Builders /\ hashed' = hashed
  BY DEF BuildBaseline, NoRows
<1>2. pc[r] = "idle" /\ pc' = [pc EXCEPT ![r] = "cleared"]
  BY DEF BuildBaseline, Begin, Goto
<1>3. Building' = {r}
  <2>1. \A q \in Proc : pc'[q] = IF q = r THEN "cleared" ELSE pc[q]
    BY <1>2 DEF TypeInv, RunsTyped
  <2>2. \A q \in Proc : pc[q] \notin {"cleared", "build"}
    BY DEF BuildBaseline, NoBuild, BuildInv, Building
  <2>3. QED
    BY <2>1, <2>2 DEF Building
<1>4. \A q \in Proc : pc'[q] # "build" /\ hashed'[q] = NoRows
  BY <1>1, <1>2, <1>3 DEF BuildInv, Building
<1>5. QED
  BY <1>1, <1>3, <1>4 DEF BuildInv

LEMMA BuildLists ==
  ASSUME TypeInv, SeenInv, BuildInv, NEW r \in Proc, ListForBuild(r)
  PROVE  BuildInv'
<1>1. /\ pc[r] = "cleared" /\ pc' = [pc EXCEPT ![r] = "build"]
      /\ UNCHANGED <<baseline, hashed, partial, seen>>
  BY DEF ListForBuild, Goto
<1>2. DOMAIN baseline = {} /\ hashed[r] = NoRows /\ DOMAIN NoRows = {}
  BY <1>1 DEF BuildInv, NoRows
<1>3. /\ \A p \in Path \ listed'[r] : Absent(p, seen[r], cut'[r])
      /\ todo'[r] = listed'[r]
  BY <1>1, ListingAbsent DEF ListForBuild
<1>4. Building' = Building /\ Building = {r}
  BY <1>1 DEF BuildInv, Building, TypeInv, RunsTyped
<1>5. \A q \in Proc : (pc'[q] = "build" <=> q = r) /\ pc'[q] # "cleared"
  BY <1>1, <1>4 DEF Building, TypeInv, RunsTyped
<1>6. \A p \in Path \ Ignored : \/ p \in todo'[r] /\ p \notin DOMAIN baseline
                                \/ Witnessed(baseline, p, seen[r], cut'[r])
  BY <1>2, <1>3 DEF Witnessed
<1>7. QED
  BY <1>1, <1>2, <1>4, <1>5, <1>6 DEF BuildInv, Witnessed, Absent, LinkedTo

\* The builder goes on to another of its paths, or commits.
LEMMA BuildGoesOn ==
  ASSUME TypeInv, BuildInv, NEW r \in Proc, pc[r] = "build", pc' = pc,
         partial' = partial, seen' = seen, cut' = cut,
         \A q \in Proc : q # r => hashed'[q] = hashed[q],
         \A x \in Path \ Ignored :
            \/ x \in todo'[r] \cup DOMAIN hashed'[r] /\ x \notin DOMAIN baseline'
            \/ Witnessed(baseline', x, seen[r], cut[r]),
         \A x \in DOMAIN hashed'[r] : \E s \in Files(seen[r][x]) : hashed'[r][x] = Entry(s)
  PROVE  BuildInv'
<1>1. Building' = Building /\ Building = {r}
  BY DEF BuildInv, Building
<1>2. \A q \in Proc : (pc[q] = "build" <=> q = r) /\ pc[q] # "cleared"
  BY <1>1 DEF Building
<1>3. QED
  BY <1>1, <1>2 DEF BuildInv, Witnessed, Absent, LinkedTo, Files, Entry

LEMMA BuildHashes ==
  ASSUME TypeInv, SeenInv, BuildInv, NEW r \in Proc, NEW p \in Path, HashPath(r, p)
  PROVE  BuildInv'
<1>1. /\ pc[r] = "build" /\ pc' = pc /\ p \in todo[r] /\ hashed[r] = NoRows
      /\ UNCHANGED <<baseline, partial, seen, cut>>
  BY DEF HashPath, ghostVars
<1>2. /\ todo'[r] = todo[r] \ {p}
      /\ hashed'[r] = IF Hashable(p) THEN [q \in {p} |-> Entry(disk[p])] ELSE NoRows
      /\ \A q \in Proc : q # r => hashed'[q] = hashed[q]
  BY <1>1 DEF HashPath, TypeInv, RunsTyped
<1>3. disk[p] \in seen[r][p] /\ DOMAIN NoRows = {}
  BY <1>1 DEF SeenInv, NoRows
<1>4. \A x \in DOMAIN hashed'[r] : \E s \in Files(seen[r][x]) : hashed'[r][x] = Entry(s)
  <2>1. CASE Hashable(p)
    BY <1>2, <1>3, <2>1 DEF Hashable, Files
  <2>2. CASE ~Hashable(p)
    BY <1>2, <1>3, <2>2
  <2>3. QED
    BY <2>1, <2>2
<1>5. ASSUME NEW x \in Path \ Ignored
      PROVE  \/ x \in todo'[r] \cup DOMAIN hashed'[r] /\ x \notin DOMAIN baseline
             \/ Witnessed(baseline, x, seen[r], cut[r])
  <2>1. \/ x \in todo[r] /\ x \notin DOMAIN baseline
        \/ Witnessed(baseline, x, seen[r], cut[r])
    BY <1>1, <1>3 DEF BuildInv
  <2>2. CASE x # p
    BY <1>2, <2>1, <2>2
  <2>3. CASE x = p /\ Hashable(p)
    BY <1>2, <2>1, <2>3
  <2>4. CASE x = p /\ ~Hashable(p)
    BY <1>3, <2>1, <2>4, UnhashedAbsent DEF Witnessed
  <2>5. QED
    BY <2>2, <2>3, <2>4
<1>6. QED
  BY <1>1, <1>2, <1>4, <1>5, BuildGoesOn

LEMMA BuildCommits ==
  ASSUME TypeInv, BuildInv, NEW r \in Proc, SetBaseline(r)
  PROVE  BuildInv'
<1>1. /\ pc[r] = "build" /\ pc' = pc /\ todo' = todo
      /\ UNCHANGED <<partial, seen, cut>>
  BY DEF SetBaseline, ghostVars
<1>2. /\ hashed'[r] = NoRows /\ DOMAIN NoRows = {}
      /\ \A q \in Proc : q # r => hashed'[q] = hashed[q]
  BY DEF SetBaseline, TypeInv, RunsTyped, NoRows
<1>3. ASSUME NEW x \in Path \ Ignored
      PROVE  \/ x \in todo[r] /\ x \notin DOMAIN baseline'
             \/ Witnessed(baseline', x, seen[r], cut[r])
  <2>1. CASE x \in DOMAIN hashed[r]
    <3>1. x \in DOMAIN baseline' /\ baseline'[x] = hashed[r][x]
      BY <2>1 DEF SetBaseline
    <3>2. \E s \in Files(seen[r][x]) : hashed[r][x] = Entry(s)
      BY <1>1, <2>1 DEF BuildInv
    <3>3. QED
      BY <3>1, <3>2 DEF Witnessed
  <2>2. CASE x \notin DOMAIN hashed[r]
    <3>1. x \in DOMAIN baseline' <=> x \in DOMAIN baseline
      BY <2>2 DEF SetBaseline
    <3>2. x \in DOMAIN baseline => baseline'[x] = baseline[x]
      BY <2>2 DEF SetBaseline
    <3>3. \/ x \in todo[r] /\ x \notin DOMAIN baseline
          \/ Witnessed(baseline, x, seen[r], cut[r])
      BY <1>1, <2>2 DEF BuildInv
    <3>4. QED
      BY <3>1, <3>2, <3>3 DEF Witnessed
  <2>3. QED
    BY <2>1, <2>2
<1>4. QED
  BY <1>1, <1>2, <1>3, BuildGoesOn

LEMMA NextBuild ==
  ASSUME TypeInv, SeenInv, BuildInv, [Next]_vars PROVE BuildInv'
<1>0. /\ pc \in [Proc -> Labels] /\ todo \in [Proc -> SUBSET Path]
      /\ cut \in [Proc -> SUBSET Entries] /\ hashed = [r \in Proc |-> hashed[r]]
      /\ \A r \in Proc : pc[r] # "build" => hashed[r] = NoRows
  BY DEF TypeInv, RunsTyped, BuildInv
<1>1. CASE \E r \in Proc : BuildBaseline(r)
  BY <1>1, BuildBegins
<1>2. CASE \E r \in Proc : ListForBuild(r)
  BY <1>2, BuildLists
<1>3. CASE \E r \in Proc, p \in Path : HashPath(r, p)
  BY <1>3, BuildHashes
<1>4. CASE \E r \in Proc : SetBaseline(r)
  BY <1>4, BuildCommits
<1>5. ASSUME NEW r \in Proc, Built(r) PROVE BuildInv'
  <2>1. /\ baseline' = baseline /\ pc[r] = "build" /\ pc' = [pc EXCEPT ![r] = "idle"]
        /\ hashed' = [hashed EXCEPT ![r] = NoRows]
    BY <1>5 DEF Built, EndRun, Goto
  <2>2. \A q \in Proc : pc'[q] \notin {"cleared", "build"} /\ hashed'[q] = NoRows
    BY <1>0, <2>1 DEF BuildInv, Building
  <2>3. QED
    BY <2>1, <2>2, BuildUnchanged
<1>6. ASSUME NEW r \in Proc,
             \/ BeginFull(r) \/ BeginScan(r) \/ ScanAfterAll(r) \/ ListForScan(r) \/ Scanned(r)
             \/ Dispatch(r) \/ Drop(r) \/ Fail(r)
      PROVE BuildInv'
  <2> USE DEF BeginFull, BeginScan, ScanAfterAll, Read, ListForScan, Listing, Scanned, Dispatch,
              Drop, Fail
  <2>1. baseline' = baseline /\ partial' = partial
    BY <1>6 DEF ghostVars
  <2>2. \A q \in Proc \ {r} : /\ pc'[q] = pc[q] /\ todo'[q] = todo[q] /\ cut'[q] = cut[q]
                              /\ hashed'[q] = hashed[q]
    BY <1>0, <1>6 DEF EndRun, Begin, Goto, runVars, ghostVars
  <2>3. pc'[r] \notin {"cleared", "build"} /\ hashed'[r] = NoRows
    BY <1>0, <1>6 DEF EndRun, Begin, Goto, runVars
  <2>4. \A q \in Proc : pc'[q] # "build" => hashed'[q] = NoRows
    BY <1>0, <2>2, <2>3
  <2>5. QED
    BY <2>1, <2>2, <2>3, <2>4, BuildUnchanged
<1>7. ASSUME NEW r \in Proc, \/ \E p \in Path : ScanPath(r, p)
                             \/ \E f \in found[r] : InsertIntegrityFinding(r, f)
      PROVE BuildInv'
  <2>1. /\ UNCHANGED <<baseline, partial, pc, hashed, cut>>
        /\ pc[r] \notin {"cleared", "build"}
    BY <1>7 DEF ScanPath, InsertIntegrityFinding, ghostVars
  <2>2. \A q \in Proc \ {r} : todo'[q] = todo[q]
    BY <1>0, <1>7 DEF ScanPath, InsertIntegrityFinding
  <2>3. QED
    BY <1>0, <2>1, <2>2, BuildUnchanged
<1>8. CASE \/ \E p \in Path, f \in Becomes : Change(p, f)
           \/ Second /\ UNCHANGED <<diskVars, baseline, runVars, ledgerVars, runs, ghostVars>>
           \/ UNCHANGED vars
  <2>1. UNCHANGED <<baseline, pc, todo, hashed, cut, partial>>
    BY <1>8 DEF Change, runVars, ghostVars, vars
  <2>2. QED
    BY <1>0, <2>1, BuildUnchanged
<1>9. QED
  BY <1>1, <1>2, <1>3, <1>4, <1>5, <1>6, <1>7, <1>8 DEF Next, Step

LEMMA InitBuild == Init => SeenInv /\ BuildInv
BY DEF Init, SeenInv, BuildInv, Building

LEMMA OnlyBuilt ==
  ASSUME [Next]_vars, partial, ~partial' PROVE \E q \in Proc : Built(q)
<1>1. ASSUME NEW q \in Proc,
             \/ BuildBaseline(q) \/ ListForBuild(q) \/ SetBaseline(q)
             \/ BeginFull(q) \/ BeginScan(q) \/ ScanAfterAll(q) \/ ListForScan(q)
      PROVE FALSE
  BY <1>1 DEF BuildBaseline, ListForBuild, SetBaseline, BeginFull, BeginScan, ScanAfterAll, Read,
              ListForScan, ghostVars
<1>2. ASSUME NEW q \in Proc, Scanned(q) \/ Dispatch(q) \/ Drop(q) \/ Fail(q) PROVE FALSE
  BY <1>2 DEF Scanned, Dispatch, Drop, Fail, ghostVars
<1>3. ASSUME NEW q \in Proc, \/ \E p \in Path : HashPath(q, p) \/ ScanPath(q, p)
                             \/ \E f \in found[q] : InsertIntegrityFinding(q, f)
      PROVE FALSE
  BY <1>3 DEF HashPath, ScanPath, InsertIntegrityFinding, ghostVars
<1>4. CASE \/ \E p \in Path, f \in Becomes : Change(p, f)
           \/ Second /\ UNCHANGED <<diskVars, baseline, runVars, ledgerVars, runs, ghostVars>>
           \/ UNCHANGED vars
  BY <1>4 DEF Change, ghostVars, vars
<1>5. QED
  BY <1>1, <1>2, <1>3, <1>4 DEF Next, Step

\* A baseline that is completed is of the files that were there while it was built,
\* whatever changes, scans and failed builds came before or between.
THEOREM BaselineCorrect == Spec => BaselineWhole
<1>1. Init => TypeInv /\ SeenInv /\ BuildInv
  BY InitType, InitBuild
<1>2. TypeInv /\ SeenInv /\ BuildInv /\ [Next]_vars => (TypeInv /\ SeenInv /\ BuildInv)'
  BY NextType, NextSeen, NextBuild
<1>3. TypeInv /\ BuildInv /\ [Next]_vars =>
        [\A r \in Proc : (pc[r] = "build" /\ partial /\ ~partial') =>
           \A p \in Path \ Ignored : Witnessed(whole', p, seen[r], cut[r])]_vars
  <2> SUFFICES ASSUME TypeInv, BuildInv, [Next]_vars, NEW r \in Proc,
                      pc[r] = "build", partial, ~partial', NEW p \in Path \ Ignored
               PROVE  Witnessed(whole', p, seen[r], cut[r])
    OBVIOUS
  <2>1. PICK q \in Proc : Built(q)
    BY OnlyBuilt
  <2>2. q = r /\ todo[r] = {} /\ hashed[r] = NoRows /\ whole' = baseline
    BY <2>1 DEF Built, BuildInv, Building
  <2>3. DOMAIN hashed[r] = {}
    BY <2>2 DEF NoRows
  <2>4. QED
    BY <2>2, <2>3 DEF BuildInv
<1>4. QED
  BY <1>1, <1>2, <1>3, PTL DEF Spec, BaselineWhole

-----------------------------------------------------------------------------
(* Scans.                                                                   *)

Scanning == {"list", "scan", "insert"}

\* A scan has read the last whole baseline, unless another was begun; what it does not
\* list is no file of its own; what it has found is borne out by what it read.
ScanOf(r) ==
  /\ pc[r] \in Scanning /\ ~doubtful[r] => wholeRead[r] = base[r]
  /\ pc[r] = "scan" => \A p \in Path \ listed[r] : Absent(p, seen[r], cut[r])
  /\ found[r] # {} => pc[r] \in {"scan", "insert"}
  /\ \A f \in found[r] : BorneOut(base[r], r, f)

ScanInv == (~partial => whole = baseline) /\ \A r \in Proc : ScanOf(r)

LEMMA FindingsFromInv == ScanInv => FindingsBorneOut
BY DEF ScanInv, ScanOf, Scanning, FindingsBorneOut

\* What is borne out stays so while more is seen.
LEMMA BorneOutStays ==
  ASSUME NEW r \in Proc, NEW f \in Finding, BorneOut(base[r], r, f),
         base'[r] = base[r], cut'[r] = cut[r], \A p \in Path : seen[r][p] \subseteq seen'[r][p]
  PROVE  BorneOut(base[r], r, f)'
<1>1. f.path \in Path
  BY DEF Finding
<1>2. Files(seen[r][f.path]) \subseteq Files(seen'[r][f.path])
  BY <1>1, FilesGrow
<1>3. Absent(f.path, seen[r], cut[r]) => Absent(f.path, seen'[r], cut[r])
  BY <1>1, AbsentGrows
<1>4. QED
  BY <1>2, <1>3 DEF BorneOut, Absent, LinkedTo, Files, Entry

\* What a scan makes of a path is borne out by what it sees.
LEMMA ComparedBorneOut ==
  ASSUME disk \in [Path -> OnDisk], NEW r \in Proc, NEW p \in Path,
         disk[p] \in seen[r][p], NEW f \in Compared(base[r], p)
  PROVE  BorneOut(base[r], r, f)
<1>1. CASE ~Hashable(p)
  <2>1. /\ f = Found("missing", p, base[r][p].content, None)
        /\ p \in DOMAIN base[r] /\ p \notin Ignored
    BY <1>1 DEF Compared, Gone
  <2>2. Absent(p, seen[r], cut[r])
    BY <1>1, <2>1, UnhashedAbsent
  <2>3. QED
    BY <2>1, <2>2 DEF BorneOut, Found
<1>2. CASE Hashable(p) /\ p \notin DOMAIN base[r]
  <2>1. f = Found("new", p, None, disk[p].content)
    BY <1>2 DEF Compared
  <2>2. disk[p] \in Files(seen[r][p])
    BY <1>2 DEF Hashable, Files
  <2>3. QED
    BY <1>2, <2>1, <2>2 DEF BorneOut, Found
<1>3. CASE Hashable(p) /\ p \in DOMAIN base[r]
  <2>1. /\ f = Found("changed", p, base[r][p].content, disk[p].content)
        /\ Entry(disk[p]) # base[r][p]
    BY <1>3 DEF Compared
  <2>2. disk[p] \in Files(seen[r][p])
    BY <1>3 DEF Hashable, Files
  <2>3. QED
    BY <1>3, <2>1, <2>2 DEF BorneOut, Found
<1>4. QED
  BY <1>1, <1>2, <1>3

LEMMA GoneBorneOut ==
  ASSUME NEW r \in Proc, NEW p \in Path, Absent(p, seen[r], cut[r]),
         NEW f \in Gone(base[r], p)
  PROVE  BorneOut(base[r], r, f)
<1>1. f = Found("missing", p, base[r][p].content, None) /\ p \in DOMAIN base[r]
  BY DEF Gone
<1>2. QED
  BY <1>1 DEF BorneOut, Found

\* A process of which a step leaves the scan alone.
Kept(r) ==
  /\ pc'[r] = pc[r] /\ listed'[r] = listed[r] /\ base'[r] = base[r] /\ cut'[r] = cut[r]
  /\ wholeRead'[r] = wholeRead[r] /\ doubtful'[r] = doubtful[r]
  /\ found'[r] \subseteq found[r]

LEMMA KeptScan ==
  ASSUME TypeInv, SeenInv, [Next]_vars, NEW r \in Proc, ScanOf(r), Kept(r)
  PROVE  ScanOf(r)'
<1>1. found[r] \subseteq Finding
  BY DEF TypeInv, RunsTyped
<1>2. CASE pc[r] \in Scanning
  <2>1. \A p \in Path : seen[r][p] \subseteq seen'[r][p]
    BY <1>2, NextSeen DEF Kept, Scanning
  <2>2. ASSUME pc[r] = "scan", NEW p \in Path \ listed[r] PROVE Absent(p, seen'[r], cut[r])
    BY <2>1, <2>2, AbsentGrows DEF ScanOf
  <2>3. ASSUME NEW f \in found'[r] PROVE BorneOut(base[r], r, f)'
    BY <1>1, <2>1, <2>3, BorneOutStays DEF ScanOf, Kept
  <2>4. QED
    BY <1>2, <2>2, <2>3 DEF ScanOf, Kept, Absent, LinkedTo, Files
<1>3. CASE pc[r] \notin Scanning
  <2>1. found'[r] = {} /\ pc'[r] \notin Scanning
    BY <1>3 DEF ScanOf, Kept, Scanning
  <2>2. QED
    BY <2>1 DEF ScanOf, Scanning
<1>4. QED
  BY <1>2, <1>3

LEMMA OthersKept ==
  ASSUME TypeInv, NEW r \in Proc, Step(r), NEW q \in Proc, q # r PROVE Kept(q)
<1>0. /\ pc \in [Proc -> Labels] /\ listed \in [Proc -> SUBSET Path]
      /\ found \in [Proc -> SUBSET Finding] /\ doubtful \in [Proc -> BOOLEAN]
      /\ base = [x \in Proc |-> base[x]] /\ wholeRead = [x \in Proc |-> wholeRead[x]]
      /\ cut \in [Proc -> SUBSET Entries]
  BY DEF TypeInv, RunsTyped
<1> USE DEF Kept, Goto
<1>1. CASE BuildBaseline(r) \/ ListForBuild(r) \/ SetBaseline(r)
  BY <1>0, <1>1 DEF BuildBaseline, ListForBuild, Listing, SetBaseline, ghostVars
<1>2. CASE BeginFull(r) \/ BeginScan(r) \/ ScanAfterAll(r) \/ ListForScan(r)
  BY <1>0, <1>2 DEF BeginFull, BeginScan, ScanAfterAll, Read, ListForScan, Listing
<1>3. CASE \E p \in Path : HashPath(r, p) \/ ScanPath(r, p)
  BY <1>0, <1>3 DEF HashPath, ScanPath, ghostVars
<1>4. CASE Scanned(r) \/ \E f \in found[r] : InsertIntegrityFinding(r, f)
  BY <1>0, <1>4 DEF Scanned, InsertIntegrityFinding, ghostVars
<1>5. CASE Built(r) \/ Dispatch(r) \/ Drop(r) \/ Fail(r)
  BY <1>0, <1>5 DEF Built, Dispatch, Drop, Fail, EndRun, runVars
<1>6. QED
  BY <1>1, <1>2, <1>3, <1>4, <1>5 DEF Step

\* A run that does not scan, or not any more.
LEMMA NoScan ==
  ASSUME NEW r \in Proc, found'[r] = {}, pc'[r] \notin Scanning PROVE ScanOf(r)'
BY DEF ScanOf, Scanning

\* A scan finds more.
LEMMA MoreFound ==
  ASSUME TypeInv, NEW r \in Proc, ScanOf(r), pc[r] = "scan", NEW F,
         \A f \in F : BorneOut(base[r], r, f), found'[r] = found[r] \cup F,
         pc'[r] \in {"scan", "insert"},
         UNCHANGED <<listed, base, wholeRead, doubtful, seen, cut>>
  PROVE  ScanOf(r)'
<1>1. ASSUME NEW f \in found'[r] PROVE BorneOut(base[r], r, f)'
  <2>1. BorneOut(base[r], r, f)
    BY <1>1 DEF ScanOf
  <2>2. QED
    BY <2>1 DEF BorneOut, Absent, LinkedTo, Files, Entry
<1>2. QED
  BY <1>1 DEF ScanOf, Scanning, Absent, LinkedTo, Files

LEMMA OwnScan ==
  ASSUME TypeInv, SeenInv, ScanInv, [Next]_vars, NEW r \in Proc, Step(r) PROVE ScanOf(r)'
<1>0. /\ pc \in [Proc -> Labels] /\ listed \in [Proc -> SUBSET Path]
      /\ found \in [Proc -> SUBSET Finding] /\ doubtful \in [Proc -> BOOLEAN]
      /\ base = [x \in Proc |-> base[x]] /\ wholeRead = [x \in Proc |-> wholeRead[x]]
      /\ cut \in [Proc -> SUBSET Entries] /\ disk \in [Path -> OnDisk]
  BY DEF TypeInv, RunsTyped
<1>a. ScanOf(r)
  BY DEF ScanInv
<1>1. CASE BuildBaseline(r) \/ ListForBuild(r) \/ BeginFull(r)
  <2>1. found'[r] = found[r] /\ pc[r] \in {"idle", "cleared"}
    BY <1>1 DEF BuildBaseline, ListForBuild, BeginFull, Begin
  <2>2. pc'[r] \in {"cleared", "build", "read"}
    BY <1>0, <1>1 DEF BuildBaseline, ListForBuild, BeginFull, Goto
  <2>3. QED
    BY <1>a, <2>1, <2>2, NoScan DEF ScanOf, Scanning
<1>2. CASE EndRun(r)
  BY <1>0, <1>2, NoScan DEF EndRun, Goto, Scanning
<1>3. CASE Built(r) \/ Fail(r)
  BY <1>2, <1>3 DEF Built, Fail
<1>4. CASE BeginScan(r) \/ ScanAfterAll(r)
  <2>1. Read(r) /\ pc[r] \in {"idle", "read"}
    BY <1>4 DEF BeginScan, ScanAfterAll, Begin
  <2>2. found'[r] = {} /\ pc'[r] = "list"
    BY <1>0, <1>a, <2>1 DEF Read, Goto, ScanOf
  <2>3. base'[r] = baseline /\ wholeRead'[r] = whole /\ doubtful'[r] = partial
    BY <1>0, <2>1 DEF Read
  <2>4. QED
    BY <2>2, <2>3 DEF ScanOf, ScanInv
<1>5. CASE ListForScan(r)
  <2>1. /\ pc[r] = "list" /\ pc'[r] = "scan" /\ found' = found /\ seen' = seen
        /\ UNCHANGED <<base, wholeRead, doubtful>>
    BY <1>0, <1>5 DEF ListForScan, Goto
  <2>2. \A p \in Path \ listed'[r] : Absent(p, seen[r], cut'[r])
    BY <1>5, <2>1, ListingAbsent DEF ListForScan
  <2>3. found'[r] = {}
    BY <1>a, <2>1 DEF ScanOf
  <2>4. QED
    BY <1>a, <2>1, <2>2, <2>3 DEF ScanOf, Scanning, Absent, LinkedTo, Files
<1>6. ASSUME NEW p \in Path, HashPath(r, p) PROVE ScanOf(r)'
  BY <1>a, <1>6, KeptScan DEF HashPath, Kept, ghostVars
<1>7. CASE SetBaseline(r)
  BY <1>a, <1>7, KeptScan DEF SetBaseline, Kept, ghostVars
<1>8. ASSUME NEW p \in Path, ScanPath(r, p) PROVE ScanOf(r)'
  <2>1. /\ pc[r] = "scan" /\ pc' = pc /\ found'[r] = found[r] \cup Compared(base[r], p)
        /\ UNCHANGED <<listed, base, wholeRead, doubtful, seen, cut>>
    BY <1>0, <1>8 DEF ScanPath, ghostVars
  <2>2. \A f \in Compared(base[r], p) : BorneOut(base[r], r, f)
    BY <1>0, <2>1, ComparedBorneOut DEF SeenInv
  <2>3. QED
    BY <1>a, <2>1, <2>2, MoreFound
<1>9. CASE Scanned(r)
  <2> DEFINE F == UNION {Gone(base[r], p) : p \in Path \ listed[r]}
  <2>1. /\ pc[r] = "scan" /\ pc'[r] = "insert" /\ found'[r] = found[r] \cup F
        /\ UNCHANGED <<listed, base, wholeRead, doubtful, seen, cut>>
    BY <1>0, <1>9 DEF Scanned, Goto, ghostVars
  <2>2. \A p \in Path \ listed[r] : Absent(p, seen[r], cut[r])
    BY <1>a, <2>1 DEF ScanOf
  <2>3. \A f \in F : BorneOut(base[r], r, f)
    BY <2>2, GoneBorneOut
  <2> HIDE DEF F
  <2>4. QED
    BY <1>a, <2>1, <2>3, MoreFound
<1>10. ASSUME NEW f \in found[r], InsertIntegrityFinding(r, f) PROVE ScanOf(r)'
  BY <1>0, <1>a, <1>10, KeptScan DEF InsertIntegrityFinding, Kept, ghostVars
<1>11. CASE Dispatch(r)
  <2>1. CASE fresh[r] = {}
    BY <1>2, <1>11, <2>1 DEF Dispatch
  <2>2. CASE fresh[r] # {}
    BY <1>0, <1>11, <2>2, NoScan DEF Dispatch, Goto, Scanning
  <2>3. QED
    BY <2>1, <2>2
<1>12. CASE Drop(r)
  <2>1. CASE step'[r] = "none"
    BY <1>2, <1>12, <2>1 DEF Drop
  <2>2. CASE step'[r] # "none"
    BY <1>a, <1>12, <2>2, KeptScan DEF Drop, Kept, runVars
  <2>3. QED
    BY <2>1, <2>2
<1>13. QED
  BY <1>1, <1>3, <1>4, <1>5, <1>6, <1>7, <1>8, <1>9, <1>10, <1>11, <1>12 DEF Step

\* While no build is begun, the table is as the last one left it.
LEMMA NextWhole ==
  ASSUME TypeInv, BuildInv, ScanInv, [Next]_vars PROVE ~partial' => whole' = baseline'
<1>0. ~partial => whole = baseline
  BY DEF ScanInv
<1>1. ASSUME NEW r \in Proc, BuildBaseline(r) \/ Built(r) PROVE ~partial' => whole' = baseline'
  BY <1>1 DEF BuildBaseline, Built
<1>2. ASSUME NEW r \in Proc, SetBaseline(r) PROVE partial'
  BY <1>2 DEF SetBaseline, ghostVars, BuildInv, Building
<1>3. ASSUME NEW r \in Proc, Step(r), ~BuildBaseline(r), ~Built(r), ~SetBaseline(r)
      PROVE  UNCHANGED <<whole, partial, baseline>>
  BY <1>3 DEF Step, ListForBuild, HashPath, BeginFull, BeginScan, ScanAfterAll, Read, ListForScan,
              ScanPath, Scanned, InsertIntegrityFinding, Dispatch, Drop, Fail, ghostVars
<1>4. CASE \/ \E p \in Path, f \in Becomes : Change(p, f)
           \/ Second /\ UNCHANGED <<diskVars, baseline, runVars, ledgerVars, runs, ghostVars>>
           \/ UNCHANGED vars
  BY <1>0, <1>4 DEF Change, ghostVars, vars
<1>5. QED
  BY <1>0, <1>1, <1>2, <1>3, <1>4 DEF Next

LEMMA NextScan ==
  ASSUME TypeInv, SeenInv, BuildInv, ScanInv, [Next]_vars PROVE ScanInv'
<1>1. ASSUME NEW q \in Proc PROVE ScanOf(q)'
  <2>1. ScanOf(q)
    BY DEF ScanInv
  <2>2. ASSUME NEW r \in Proc, Step(r) PROVE ScanOf(q)'
    <3>1. CASE q = r
      BY <2>2, <3>1, OwnScan
    <3>2. CASE q # r
      BY <2>1, <2>2, <3>2, OthersKept, KeptScan
    <3>3. QED
      BY <3>1, <3>2
  <2>3. CASE \/ \E p \in Path, f \in Becomes : Change(p, f)
             \/ Second /\ UNCHANGED <<diskVars, baseline, runVars, ledgerVars, runs, ghostVars>>
             \/ UNCHANGED vars
    <3>1. Kept(q)
      BY <2>3 DEF Change, runVars, ghostVars, vars, Kept
    <3>2. QED
      BY <2>1, <3>1, KeptScan
  <2>4. QED
    BY <2>2, <2>3 DEF Next
<1>2. ~partial' => whole' = baseline'
  BY NextWhole
<1>3. QED
  BY <1>1, <1>2 DEF ScanInv

LEMMA InitScan == Init => ScanInv
BY DEF Init, ScanInv, ScanOf, Scanning

\* What a scan reports was so, by the rows it read and the disk while it ran, also while
\* others build, and whatever changes between its steps; and those rows are the last
\* whole baseline if no build had been begun after it.
THEOREM FindingsCorrect == Spec => []FindingsBorneOut
<1> DEFINE Inv == TypeInv /\ SeenInv /\ BuildInv /\ ScanInv
<1>1. Init => Inv
  BY InitType, InitBuild, InitScan
<1>2. Inv /\ [Next]_vars => Inv'
  BY NextType, NextSeen, NextBuild, NextScan
<1>3. Inv => FindingsBorneOut
  BY FindingsFromInv
<1>4. QED
  BY <1>1, <1>2, <1>3, PTL DEF Spec

-----------------------------------------------------------------------------
(* Scans of a disk that does not change.                                    *)

\* So far the run has seen nothing but what is there.
Still(r) == \A p \in Path : seen[r][p] = {disk[p]}

\* What it has found is what the paths done so far make.
SoFar(r) ==
  /\ \E L \in Expansions : listed[r] = L \ cut[r]
  /\ todo[r] \subseteq listed[r]
  /\ found[r] = UNION {Compared(base[r], p) : p \in listed[r] \ todo[r]}

StillInv ==
  /\ \A r \in Proc : \A p \in Path : IsFiniteSet(seen[r][p])
  /\ \A r \in Proc : pc[r] = "scan" /\ Still(r) => SoFar(r)

\* An entry is a row like any other: by content and mode.
LEMMA EntryIsRow ==
  ASSUME NEW d \in File, NEW row \in Row
  PROVE  Entry(d) = row <=> d.content = row.content /\ d.mode = row.mode
BY DEF Entry, Row, File

LEMMA FoundIs ==
  ASSUME NEW f \in Finding
  PROVE  f = Found(f.type, f.path, f.expected, f.actual)
<1>1. CASE f \in [type : {"new"}, path : Path, expected : {None}, actual : Content]
  BY <1>1 DEF Found
<1>2. CASE f \in [type : {"missing"}, path : Path, expected : Content, actual : {None}]
  BY <1>2 DEF Found
<1>3. CASE f \in [type : {"changed"}, path : Path, expected : Content, actual : Content]
  BY <1>3 DEF Found
<1>4. QED
  BY <1>1, <1>2, <1>3 DEF Finding

\* The two ways to say what a path makes agree.
LEMMA GoneDifference ==
  ASSUME NEW b, Rows(b), NEW p \in Path \ Ignored, disk[p].kind # "file"
  PROVE  Gone(b, p) = Difference(b, p)
<1>1. CASE p \in DOMAIN b
  <2>1. Gone(b, p) = {Found("missing", p, b[p].content, None)}
    BY <1>1 DEF Gone
  <2>2. Found("missing", p, b[p].content, None) \in Finding
    BY <1>1 DEF Rows, Row, Found, Finding
  <2>3. Found("missing", p, b[p].content, None) \in Difference(b, p)
    BY <1>1, <2>2 DEF Found, Difference
  <2>4. ASSUME NEW f \in Difference(b, p) PROVE f = Found("missing", p, b[p].content, None)
    <3>1. f \in Finding /\ f.path = p /\ f.expected = b[p].content /\ f.actual = None
      BY <1>1, <2>4 DEF Difference
    <3>2. f.type \in {"new", "missing", "changed"}
      BY <3>1 DEF Finding
    <3>3. f.type = "missing"
      BY <1>1, <2>4, <3>2 DEF Difference
    <3>4. QED
      BY <3>1, <3>3, FoundIs
  <2>5. QED
    BY <2>1, <2>3, <2>4
<1>2. CASE p \notin DOMAIN b
  <2>1. \A f \in Finding : f.type \in {"new", "missing", "changed"}
    BY DEF Finding
  <2>2. QED
    BY <1>2, <2>1 DEF Gone, Difference
<1>3. QED
  BY <1>1, <1>2

LEMMA ComparedDifference ==
  ASSUME disk \in [Path -> OnDisk], NEW b, Rows(b), NEW p \in Path \ Ignored
  PROVE  Compared(b, p) = Difference(b, p)
<1>0. \A f \in Finding : f.type \in {"new", "missing", "changed"}
  BY DEF Finding
<1>1. CASE ~Hashable(p)
  BY <1>1, GoneDifference DEF Compared, Hashable
<1>2. CASE Hashable(p) /\ p \notin DOMAIN b
  <2>1. Compared(b, p) = {Found("new", p, None, disk[p].content)}
    BY <1>2 DEF Compared
  <2>2. disk[p].content \in Content /\ disk[p].kind = "file"
    BY <1>2, HashedTyped DEF Hashable
  <2>3. Found("new", p, None, disk[p].content) \in Difference(b, p)
    BY <1>2, <2>2 DEF Found, Difference, Finding
  <2>4. ASSUME NEW f \in Difference(b, p) PROVE f = Found("new", p, None, disk[p].content)
    <3>1. f \in Finding /\ f.path = p /\ f.expected = None /\ f.actual = disk[p].content
      BY <1>2, <2>2, <2>4 DEF Difference
    <3>2. f.type = "new"
      BY <1>0, <1>2, <2>2, <2>4, <3>1 DEF Difference
    <3>3. QED
      BY <3>1, <3>2, FoundIs
  <2>5. QED
    BY <2>1, <2>3, <2>4
<1>3. CASE Hashable(p) /\ p \in DOMAIN b
  <2>1. disk[p] \in File /\ b[p] \in Row /\ disk[p].kind = "file"
    BY <1>3 DEF Hashable, OnDisk, File, Missing, Unreadable, Link, Rows
  <2>2. Entry(disk[p]) = b[p] <=> disk[p].content = b[p].content /\ disk[p].mode = b[p].mode
    BY <2>1, EntryIsRow
  <2>3. CASE Entry(disk[p]) = b[p]
    <3>1. Compared(b, p) = {}
      BY <1>3, <2>3 DEF Compared
    <3>2. Difference(b, p) = {}
      BY <1>0, <1>3, <2>1, <2>2, <2>3 DEF Difference
    <3>3. QED
      BY <3>1, <3>2
  <2>4. CASE Entry(disk[p]) # b[p]
    <3>1. Compared(b, p) = {Found("changed", p, b[p].content, disk[p].content)}
      BY <1>3, <2>4 DEF Compared
    <3>2. Found("changed", p, b[p].content, disk[p].content) \in Finding
      BY <2>1 DEF Found, Finding, File, Row
    <3>3. Found("changed", p, b[p].content, disk[p].content) \in Difference(b, p)
      BY <1>3, <2>1, <2>2, <2>4, <3>2 DEF Found, Difference
    <3>4. ASSUME NEW f \in Difference(b, p)
          PROVE  f = Found("changed", p, b[p].content, disk[p].content)
      <4>1. f \in Finding /\ f.path = p /\ f.expected = b[p].content
              /\ f.actual = disk[p].content
        BY <1>3, <2>1, <3>4 DEF Difference
      <4>2. f.type = "changed"
        BY <1>0, <1>3, <2>1, <3>4, <4>1 DEF Difference
      <4>3. QED
        BY <4>1, <4>2, FoundIs
    <3>5. QED
      BY <3>1, <3>3, <3>4
  <2>5. QED
    BY <2>3, <2>4
<1>4. QED
  BY <1>1, <1>2, <1>3

\* An ignored path makes nothing.
LEMMA IgnoredNothing ==
  ASSUME NEW b, NEW p \in Ignored PROVE Gone(b, p) = {} /\ Compared(b, p) = {}
<1>1. ~Hashable(p) /\ Gone(b, p) = {}
  BY DEF Hashable, Gone
<1>2. QED
  BY <1>1 DEF Compared

\* Without links the listed paths are those where something is.
LEMMA WithoutLinks ==
  ASSUME NEW L \in Expansions, \A p \in Path : disk[p].kind # "link"
  PROVE  L \subseteq Path /\ \A p \in Path \ L : disk[p].kind # "file"
<1>1. \A p \in Path : Resolved(p) = p
  BY DEF Resolved
<1>2. QED
  BY <1>1 DEF Expansions, Exists, IsFile

\* So what is found is the differences, of all paths.
LEMMA AllDifferences ==
  ASSUME disk \in [Path -> OnDisk], NEW b, Rows(b), NEW L \in Expansions,
         \A p \in Path : disk[p].kind # "link"
  PROVE  (UNION {Compared(b, p) : p \in L}) \cup (UNION {Gone(b, p) : p \in Path \ L})
           = UNION {Difference(b, p) : p \in Path \ Ignored}
<1>1. L \subseteq Path /\ \A p \in Path \ L : disk[p].kind # "file"
  BY WithoutLinks
<1>2. \A p \in Path \ Ignored : Compared(b, p) = Difference(b, p)
  BY ComparedDifference
<1>3. \A p \in (Path \ Ignored) \ L : Gone(b, p) = Difference(b, p)
  BY <1>1, GoneDifference
<1>4. \A p \in Ignored : Gone(b, p) = {} /\ Compared(b, p) = {}
  BY IgnoredNothing
<1>5. ASSUME NEW f
      PROVE  (\E p \in L : f \in Compared(b, p)) \/ (\E p \in Path \ L : f \in Gone(b, p))
               <=> \E p \in Path \ Ignored : f \in Difference(b, p)
  <2>1. ASSUME NEW p \in L, f \in Compared(b, p)
        PROVE  \E q \in Path \ Ignored : f \in Difference(b, q)
    BY <1>1, <1>2, <1>4, <2>1
  <2>2. ASSUME NEW p \in Path \ L, f \in Gone(b, p)
        PROVE  \E q \in Path \ Ignored : f \in Difference(b, q)
    BY <1>3, <1>4, <2>2
  <2>3. ASSUME NEW p \in Path \ Ignored, f \in Difference(b, p)
        PROVE  (\E q \in L : f \in Compared(b, q)) \/ (\E q \in Path \ L : f \in Gone(b, q))
    BY <1>2, <1>3, <2>3
  <2>4. QED
    BY <2>1, <2>2, <2>3
<1>6. QED
  BY <1>5

\* While all that was seen is what is there, nothing has changed.
LEMMA StillBefore ==
  ASSUME TypeInv, SeenInv, [Next]_vars, NEW r \in Proc, pc[r] # "idle", pc'[r] # "idle",
         Still(r)'
  PROVE  Still(r) /\ disk' = disk
<1>1. ASSUME NEW p \in Path PROVE seen[r][p] = {disk[p]} /\ disk'[p] = disk[p]
  <2>1. disk[p] \in seen[r][p] /\ seen[r][p] \subseteq seen'[r][p]
    BY NextSeen DEF SeenInv
  <2>2. seen'[r][p] = {disk'[p]}
    BY DEF Still
  <2>3. QED
    BY <2>1, <2>2
<1>2. disk \in [Path -> OnDisk] /\ disk' \in [Path -> OnDisk]
  BY NextType DEF TypeInv, RunsTyped
<1>3. QED
  BY <1>1, <1>2 DEF Still

\* What is seen of a path is finitely much.
LEMMA NextFinite ==
  ASSUME TypeInv, StillInv, [Next]_vars, NEW r \in Proc, NEW p \in Path
  PROVE  IsFiniteSet(seen'[r][p])
<1>0. seen \in [Proc -> [Path -> SUBSET OnDisk]] /\ IsFiniteSet({}) /\ IsFiniteSet(seen[r][p])
  BY FS_EmptySet DEF TypeInv, RunsTyped, StillInv
<1>1. ASSUME NEW q \in Proc, Begin(q) PROVE IsFiniteSet(seen'[r][p])
  BY <1>0, <1>1, FS_Singleton DEF Begin
<1>2. ASSUME NEW q \in Proc, EndRun(q) PROVE IsFiniteSet(seen'[r][p])
  BY <1>0, <1>2 DEF EndRun, NotSeen
<1>3. ASSUME NEW x \in Path, NEW f \in Becomes, Change(x, f) PROVE IsFiniteSet(seen'[r][p])
  <2>1. seen'[r][p] \in {{}, seen[r][p], seen[r][p] \cup {f}}
    BY <1>0, <1>3 DEF Change, NotSeen
  <2>2. IsFiniteSet(seen[r][p] \cup {f})
    BY <1>0, FS_AddElement
  <2>3. QED
    BY <1>0, <2>1, <2>2
<1>4. CASE seen' = seen
  BY <1>0, <1>4
<1>5. ASSUME NEW q \in Proc, Step(q), seen' # seen PROVE Begin(q) \/ EndRun(q)
  BY <1>5 DEF Step, BuildBaseline, ListForBuild, HashPath, SetBaseline, Built, BeginFull, BeginScan,
              ScanAfterAll, ListForScan, ScanPath, Scanned, InsertIntegrityFinding, Dispatch, Drop,
              Fail, ghostVars
<1>6. QED
  BY <1>1, <1>2, <1>3, <1>4, <1>5 DEF Next, vars, ghostVars

\* Steps in which a scan neither begins nor goes on.
LEMMA StillUnchanged ==
  ASSUME TypeInv, SeenInv, [Next]_vars, StillInv, NEW r \in Proc, pc'[r] = "scan", Still(r)',
         pc[r] = "scan",
         listed'[r] = listed[r], todo'[r] = todo[r], base'[r] = base[r], found'[r] = found[r],
         cut'[r] = cut[r]
  PROVE  SoFar(r)'
<1>1. Still(r) /\ disk' = disk
  BY StillBefore
<1>2. Expansions' = Expansions
  BY <1>1 DEF Expansions, Exists, IsFile, Resolved
<1>3. (UNION {Compared(base[r], p) : p \in listed[r] \ todo[r]})'
        = UNION {Compared(base[r], p) : p \in listed[r] \ todo[r]}
  BY <1>1 DEF Compared, Hashable, Gone
<1>4. QED
  BY <1>1, <1>2, <1>3 DEF StillInv, SoFar

LEMMA StillBegins ==
  ASSUME TypeInv, ScanInv, NEW r \in Proc, ListForScan(r)
  PROVE  SoFar(r)'
<1>1. PICK L \in Expansions, C \in SUBSET Entries :
        /\ todo' = [todo EXCEPT ![r] = L \ C] /\ listed' = [listed EXCEPT ![r] = L \ C]
        /\ cut' = [cut EXCEPT ![r] = C]
  BY DEF ListForScan, Listing
<1>2. listed'[r] = L \ C /\ todo'[r] = L \ C /\ cut'[r] = C
  BY <1>1 DEF TypeInv, RunsTyped
<1>3. found'[r] = {}
  BY DEF ListForScan, ScanInv, ScanOf
<1>4. Expansions' = Expansions
  BY DEF ListForScan, diskVars, Expansions, Exists, IsFile, Resolved
<1>5. (UNION {Compared(base[r], p) : p \in listed[r] \ todo[r]})' = {}
  BY <1>2
<1>6. QED
  BY <1>2, <1>3, <1>4, <1>5 DEF SoFar

LEMMA StillGoesOn ==
  ASSUME TypeInv, NEW r \in Proc, NEW p \in Path, ScanPath(r, p), SoFar(r)
  PROVE  SoFar(r)'
<1>1. /\ p \in todo[r] /\ listed' = listed /\ base' = base /\ disk' = disk /\ cut' = cut
      /\ todo'[r] = todo[r] \ {p} /\ found'[r] = found[r] \cup Compared(base[r], p)
  BY DEF ScanPath, diskVars, ghostVars, TypeInv, RunsTyped
<1>2. Expansions' = Expansions
  BY <1>1 DEF Expansions, Exists, IsFile, Resolved
<1>3. (UNION {Compared(base[r], x) : x \in listed[r] \ todo[r]})'
        = UNION {Compared(base[r], x) : x \in listed[r] \ todo'[r]}
  BY <1>1 DEF Compared, Hashable, Gone
<1>4. listed[r] \ todo'[r] = (listed[r] \ todo[r]) \cup {p}
  BY <1>1 DEF SoFar
<1>5. found'[r] = UNION {Compared(base[r], x) : x \in listed[r] \ todo'[r]}
  BY <1>1, <1>4 DEF SoFar
<1>6. QED
  BY <1>1, <1>2, <1>3, <1>5 DEF SoFar

LEMMA NextStill ==
  ASSUME TypeInv, SeenInv, ScanInv, StillInv, [Next]_vars PROVE StillInv'
<1>0. /\ pc \in [Proc -> Labels]
      /\ todo \in [Proc -> SUBSET Path] /\ listed \in [Proc -> SUBSET Path]
      /\ found \in [Proc -> SUBSET Finding] /\ base = [q \in Proc |-> base[q]]
      /\ cut \in [Proc -> SUBSET Entries]
  BY DEF TypeInv, RunsTyped
<1> SUFFICES ASSUME NEW r \in Proc, pc'[r] = "scan", Still(r)' PROVE SoFar(r)'
  BY NextFinite DEF StillInv
<1> DEFINE Same == /\ pc[r] = "scan" /\ listed'[r] = listed[r] /\ todo'[r] = todo[r]
                   /\ base'[r] = base[r] /\ found'[r] = found[r] /\ cut'[r] = cut[r]
<1>1. CASE Same
  BY <1>1, StillUnchanged
<1>2. CASE ListForScan(r)
  BY <1>2, StillBegins
<1>3. ASSUME NEW p \in Path, ScanPath(r, p) PROVE SoFar(r)'
  <2>1. pc[r] = "scan" /\ pc[r] # "idle" /\ pc'[r] # "idle"
    BY <1>3 DEF ScanPath
  <2>2. Still(r)
    BY <2>1, StillBefore
  <2>3. SoFar(r)
    BY <2>1, <2>2 DEF StillInv
  <2>4. QED
    BY <1>3, <2>3, StillGoesOn
<1>4. CASE \/ BuildBaseline(r) \/ ListForBuild(r) \/ SetBaseline(r) \/ Built(r)
           \/ BeginFull(r) \/ BeginScan(r) \/ ScanAfterAll(r)
           \/ \E p \in Path : HashPath(r, p)
           \/ Scanned(r) \/ Dispatch(r) \/ Drop(r) \/ Fail(r)
  BY <1>0, <1>4 DEF BuildBaseline, ListForBuild, HashPath, SetBaseline, Built, BeginFull, BeginScan,
                    ScanAfterAll, Read, Scanned, Dispatch, Drop, Fail, EndRun, Goto, runVars,
                    TypeInv, Writing
<1>5. CASE \E f \in found[r] : InsertIntegrityFinding(r, f)
  BY <1>0, <1>5 DEF InsertIntegrityFinding
<1>6. ASSUME NEW q \in Proc, q # r, Step(q) PROVE Same
  <2>1. Kept(r)
    BY <1>6, OthersKept
  <2>2. todo'[r] = todo[r] /\ found'[r] = found[r]
    BY <1>0, <1>6 DEF Step, BuildBaseline, ListForBuild, Listing, HashPath, SetBaseline, Built,
                      BeginFull, BeginScan, ScanAfterAll, Read, ListForScan, ScanPath, Scanned,
                      InsertIntegrityFinding, Dispatch, Drop, Fail, EndRun, Goto, runVars
  <2>3. QED
    BY <2>1, <2>2 DEF Kept
<1>7. CASE \/ \E p \in Path, f \in Becomes : Change(p, f)
           \/ Second /\ UNCHANGED <<diskVars, baseline, runVars, ledgerVars, runs, ghostVars>>
           \/ UNCHANGED vars
  <2>1. Same
    BY <1>7 DEF Change, runVars, ghostVars, vars
  <2>2. QED
    BY <1>1, <2>1
<1>8. QED
  BY <1>1, <1>2, <1>3, <1>4, <1>5, <1>6, <1>7 DEF Next, Step

LEMMA InitStill == Init => StillInv
BY FS_EmptySet DEF Init, StillInv, NotSeen

LEMMA OnlyScanned ==
  ASSUME TypeInv, [Next]_vars, NEW r \in Proc, pc[r] = "scan", pc'[r] = "insert"
  PROVE  Scanned(r)
<1>0. pc \in [Proc -> Labels]
  BY DEF TypeInv, RunsTyped
<1>1. ASSUME NEW q \in Proc,
             \/ BuildBaseline(q) \/ ListForBuild(q) \/ SetBaseline(q) \/ Built(q)
             \/ BeginFull(q) \/ BeginScan(q) \/ ScanAfterAll(q) \/ ListForScan(q)
      PROVE FALSE
  BY <1>0, <1>1 DEF BuildBaseline, ListForBuild, SetBaseline, Built, BeginFull, BeginScan,
                    ScanAfterAll, Read, ListForScan, EndRun, Begin, Goto
<1>2. ASSUME NEW q \in Proc, Dispatch(q) \/ Drop(q) \/ Fail(q) PROVE FALSE
  BY <1>0, <1>2 DEF Dispatch, Drop, Fail, EndRun, Goto, runVars
<1>3. ASSUME NEW q \in Proc, Scanned(q), q # r PROVE FALSE
  BY <1>0, <1>3 DEF Scanned, Goto
<1>4. ASSUME NEW q \in Proc, \/ \E p \in Path : HashPath(q, p) \/ ScanPath(q, p)
                             \/ \E f \in found[q] : InsertIntegrityFinding(q, f)
      PROVE FALSE
  BY <1>4 DEF HashPath, ScanPath, InsertIntegrityFinding
<1>5. CASE \/ \E p \in Path, f \in Becomes : Change(p, f)
           \/ Second /\ UNCHANGED <<diskVars, baseline, runVars, ledgerVars, runs, ghostVars>>
           \/ UNCHANGED vars
  BY <1>5 DEF Change, runVars, vars
<1>6. QED
  BY <1>1, <1>2, <1>3, <1>4, <1>5 DEF Next, Step

\* A scan of a disk that does not change, without links, finds what differs from the
\* rows it read and nothing else.
THEOREM ScanCorrect == Spec => ScanExact
<1> DEFINE Inv == TypeInv /\ SeenInv /\ BuildInv /\ ScanInv /\ StillInv
<1>1. Init => Inv
  BY InitType, InitBuild, InitScan, InitStill
<1>2. Inv /\ [Next]_vars => Inv'
  BY NextType, NextSeen, NextBuild, NextScan, NextStill
<1>3. Inv /\ [Next]_vars =>
        [\A r \in Proc : ScannedStill(r) =>
           found'[r] = UNION {Difference(base[r], p) : p \in Path \ Ignored}]_vars
  <2> SUFFICES ASSUME Inv, [Next]_vars, NEW r \in Proc, ScannedStill(r)
               PROVE  found'[r] = UNION {Difference(base[r], p) : p \in Path \ Ignored}
    OBVIOUS
  <2>0. /\ pc \in [Proc -> Labels]
        /\ found \in [Proc -> SUBSET Finding] /\ disk \in [Path -> OnDisk] /\ Rows(base[r])
    BY DEF TypeInv, RunsTyped
  <2>1. pc[r] = "scan" /\ pc'[r] = "insert"
    BY DEF ScannedStill
  <2>2. Scanned(r)
    BY <2>1, OnlyScanned
  <2>3. ASSUME NEW p \in Path PROVE seen[r][p] = {disk[p]}
    <3>1. IsFiniteSet(seen[r][p]) /\ Cardinality(seen[r][p]) = 1 /\ disk[p] \in seen[r][p]
      BY <2>1 DEF ScannedStill, StillInv, SeenInv
    <3>2. PICK x : seen[r][p] = {x}
      BY <3>1, FS_Singleton
    <3>3. QED
      BY <3>1, <3>2
  <2>4. SoFar(r)
    BY <2>1, <2>3 DEF StillInv, Still
  <2>5. todo[r] = {} /\ listed[r] \in Expansions
    <3>1. PICK L \in Expansions : listed[r] = L \ cut[r]
      BY <2>4 DEF SoFar
    <3>2. cut[r] = {}
      BY DEF ScannedStill
    <3>3. QED
      BY <2>2, <3>1, <3>2 DEF Scanned
  <2>6. found[r] = UNION {Compared(base[r], p) : p \in listed[r]}
    BY <2>4, <2>5 DEF SoFar
  <2>7. found'[r] = found[r] \cup UNION {Gone(base[r], p) : p \in Path \ listed[r]}
    BY <2>0, <2>2 DEF Scanned
  <2>8. \A p \in Path : disk[p].kind # "link"
    BY DEF ScannedStill
  <2>9. found'[r] = UNION {Difference(base[r], p) : p \in Path \ Ignored}
    BY <2>0, <2>5, <2>6, <2>7, <2>8, AllDifferences
  <2>10. QED
    BY <2>9
<1>4. QED
  BY <1>1, <1>2, <1>3, PTL DEF Spec, ScanExact
=============================================================================
