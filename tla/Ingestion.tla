------------------------------ MODULE Ingestion ------------------------------
(***************************************************************************)
(* Log ingestion into SQLite: a daemon tick, or a --journal run on the     *)
(* command line, collects the journal lines since a time, source by        *)
(* source, sorts them, warms a new detector with the stored rows, and then *)
(* stores and processes the new ones.  Every insert commits on its own; an *)
(* exception or a kill may come between any two.  One run at a time.       *)
(***************************************************************************)
EXTENDS Detector

CONSTANTS
  Line,      \* what a log line can say: records without their time
  Raw,       \* what tells lines of one second, key and type apart: port, pid, path
  Units,     \* the sources journald.units names, in its order
  Ignored,   \* the keys and mail users the suppression lists name
  Modes,     \* which runs there are: "daemon", "cli"
  CliSince,  \* what --since may be on the command line: "last-run", "all"
  FirstSpan, \* how far back a first --since last-run looks (24 h)
  YearLength, \* the length of a year
  Gap,       \* incident_gap_window_seconds
  MinEvidence, \* incident_min_evidence
  MaxTime,   \* bound on the clock
  MaxLines,  \* bound on the lines logged
  Flaky,     \* the sources whose journalctl may fail or time out
  CanFail    \* whether a run may raise or be killed half way

ASSUME EnabledAssumption == Enabled \subseteq Rule
ASSUME UnitsAssumption == Units \in Seq({"auth", "fail2ban", "nginx", "mail"})
ASSUME LineAssumption ==
  Line \subseteq [type : Type, key : Key, user : User, error : BOOLEAN, raw : Raw]
ASSUME ModesAssumption ==
  Modes \subseteq {"daemon", "cli"} /\ CliSince \subseteq {"last-run", "all"}
ASSUME BoundAssumption == FirstSpan \in Nat \ {0} /\ MaxTime \in Nat \ {0} /\ MaxLines \in Nat
ASSUME YearAssumption == YearLength \in Nat \ {0}
ASSUME IncidentAssumption == Gap \in Nat /\ MinEvidence \in Nat
ASSUME FailAssumption == CanFail \in BOOLEAN /\ Flaky \subseteq Source

Year(time) == time \div YearLength

\* The last time of the last year, which a stamp may be read as.
LastTime == (Year(MaxTime) + 1) * YearLength - 1

Record ==
  [type : Type, key : Key, user : User, error : BOOLEAN, raw : Raw, at : 1 .. LastTime]
Finding == [type : Enabled, key : Key, at : 1 .. LastTime, n : Nat]

VARIABLES
  now,       \* the clock
  journal,   \* the lines logged so far, in the order they were
  events,    \* the rows of events, in the order they were inserted
  actions,   \* the rows of enforcement_actions, likewise
  findings,  \* the rows of findings
  incidents, \* the rows of incidents, each the set of its evidence
  pc,        \* what the run does next
  mode,      \* what the run is
  since,     \* where its collection starts
  waiting,   \* the sources it has not collected yet
  lines,     \* what it collected of each source
  batch,     \* its records in time order, not processed yet
  state,     \* its DetectionState
  pending,   \* findings of the record it is at, not inserted yet
  fresh      \* findings of the run whose row was new

(* Observed, never read by the program. *)
VARIABLES
  lost,      \* findings a failed run had made and not inserted
  alerted    \* findings an alert has named

dbVars == <<events, actions, findings, incidents>>
runVars == <<pc, mode, since, waiting, lines, batch, state, pending, fresh>>
vars == <<now, journal, dbVars, runVars, lost, alerted>>

-----------------------------------------------------------------------------

Rows == ToSet(events) \cup ToSet(actions)

\* get_last_event_timestamp; 0 when nothing is stored.
LastStored == Max({r.at : r \in Rows} \cup {0})

\* Mutant: a cursor that leaves out the rest of the last second.
SinceAfterLastRun == IF Rows = {} THEN now - FirstSpan ELSE LastStored + 1

\* _parse_since("last-run").
SinceLastRun == IF Rows = {} THEN now - FirstSpan ELSE LastStored

\* The records of a sequence that are in a set.
Kept(records, wanted) ==
  LET upTo[i \in 0 .. Len(records)] ==
        IF i = 0 THEN <<>>
        ELSE IF records[i] \in wanted THEN Append(upTo[i - 1], records[i])
        ELSE upTo[i - 1]
  IN upTo[Len(records)]

\* After which of the records, which are in order, one of that time comes.
Place(records, time) ==
  CHOOSE k \in 0 .. Len(records) :
    \A i \in DOMAIN records : i <= k <=> records[i].at <= time

\* The records of a sequence by time, those of one time in their order.
ByTime(records) ==
  LET upTo[i \in 0 .. Len(records)] ==
        IF i = 0 THEN <<>>
        ELSE InsertAt(upTo[i - 1], Place(upTo[i - 1], records[i].at) + 1, records[i])
  IN upTo[Len(records)]

\* The lines in the order in which they are numbered, source by source.
Numbered == lines["auth"] \o lines["sudo"] \o lines["fail2ban"] \o lines["nginx"] \o lines["mail"]

\* The line of an auth or mail unit is rebuilt without its year, and is read as
\* one of the year it is parsed in.
Undated == {"auth", "sudo", "mail"}
Parsed(r) ==
  IF \E s \in Undated : From(r, s)
  THEN [r EXCEPT !.at = Year(now) * YearLength + (r.at % YearLength)]
  ELSE r

\* Mutant: no sort, the sources one after the other.
CollectedUnsorted == Numbered

\* _collect_normalized_events: parsed, cut off again at since, and sorted.
Collected ==
  LET read == [i \in DOMAIN Numbered |-> Parsed(Numbered[i])]
  IN ByTime(Kept(read, {r \in ToSet(read) : r.at >= since}))

Suppressed(r) == r.key \in Ignored \/ r.user \in Ignored

\* Mutant: no history replayed.
WarmedByNothing(first) == EmptyState

\* _seed_detection_state_from_history: all the events from a window before the
\* first new record on, then all the actions.  There is no upper end.
Warmed(first) ==
  LET longest == Max({Window[w] : w \in WindowNames \ {"burst"}})
      Recent(rows) == Kept(ByTime(rows),
                           {r \in ToSet(rows) : r.at >= first - longest /\ ~Suppressed(r)})
  IN Replayed(Replayed(EmptyState, Recent(events)), Recent(actions))

NoLines == [s \in Source |-> <<>>]

-----------------------------------------------------------------------------
(* Incidents: what is stored of an address, cut where nothing came for long. *)

\* What has a source address: no sudo event, and no finding of one.
Located == {e \in Rows \cup findings : e.type \notin TypesOf["sudo"] \cup {RuleOf["sudo"]}}

\* What an address has in one second is never cut, and comes as one set.
Moment(key, time) == {e \in Located : e.key = key /\ e.at = time}

StartTime(draft) == Min({e.at : e \in draft})
EndTime(draft) == Max({e.at : e \in draft})

\* Mutant: the gap measured from where the incident starts.
StartsNewFromStart(drafts, time) ==
  \/ drafts = <<>>
  \/ time - StartTime(Last(drafts)) > Gap

\* Whether what an address has at a time starts a new incident.
StartsNew(drafts, time) ==
  \/ drafts = <<>>
  \/ time - EndTime(Last(drafts)) > Gap

Drafted(drafts, key, time) ==
  IF Moment(key, time) = {} THEN drafts
  ELSE IF StartsNew(drafts, time) THEN Append(drafts, Moment(key, time))
  ELSE [drafts EXCEPT ![Len(drafts)] = @ \cup Moment(key, time)]

\* The loop of rebuild_incidents over an address; the next one starts anew.
Drafts(key) ==
  LET upTo[t \in 0 .. LastTime] ==
        IF t = 0 THEN <<>> ELSE Drafted(upTo[t - 1], key, t)
  IN upTo[LastTime]

\* _persist_incident_if_relevant.
Relevant(draft) == draft \cap findings # {} \/ Cardinality(draft) >= MinEvidence

\* rebuild_incidents: the tables emptied and filled again, in one transaction.
Rebuilt == {draft \in UNION {ToSet(Drafts(key)) : key \in Key} : Relevant(draft)}

-----------------------------------------------------------------------------

Init ==
  /\ now = 1
  /\ journal = <<>>
  /\ events = <<>>
  /\ actions = <<>>
  /\ findings = {}
  /\ incidents = {}
  /\ pc = "idle"
  /\ mode = "daemon"
  /\ since = 0
  /\ waiting = <<>>
  /\ lines = NoLines
  /\ batch = <<>>
  /\ state = EmptyState
  /\ pending = {}
  /\ fresh = {}
  /\ lost = {}
  /\ alerted = {}

\* A run reads the journal and the clock until it has collected; what happens on
\* the host while it works on its batch is left to happen when it is done.
HostMoves == pc \in {"idle", "collect"}

\* The host logs a line.
Log(l) ==
  /\ HostMoves
  /\ Len(journal) < MaxLines
  /\ journal' = Append(journal, [type |-> l.type, key |-> l.key, user |-> l.user,
                                 error |-> l.error, raw |-> l.raw, at |-> now])
  /\ UNCHANGED <<now, dbVars, runVars, lost, alerted>>

ClockTick ==
  /\ HostMoves
  /\ now < MaxTime
  /\ now' = now + 1
  /\ UNCHANGED <<journal, dbVars, runVars, lost, alerted>>

\* A daemon tick: the units of the configuration, then the identifiers.
BeginTick ==
  /\ pc = "idle"
  /\ "daemon" \in Modes
  /\ pc' = "collect"
  /\ mode' = "daemon"
  /\ since' = SinceLastRun
  /\ waiting' = Units \o <<"sudo">>
  /\ UNCHANGED <<now, journal, dbVars, lines, batch, state, pending, fresh,
                 lost, alerted>>

\* traxerax-lite --journal.
BeginCli ==
  /\ pc = "idle"
  /\ "cli" \in Modes
  /\ pc' = "collect"
  /\ mode' = "cli"
  /\ \E s \in CliSince : since' = IF s = "all" THEN 0 ELSE SinceLastRun
  /\ waiting' = Units \o <<"sudo">>
  /\ UNCHANGED <<now, journal, dbVars, lines, batch, state, pending, fresh,
                 lost, alerted>>

\* One journalctl: the lines its source has by now, or none if it times out.
Collect ==
  /\ pc = "collect"
  /\ waiting # <<>>
  /\ LET s == Head(waiting) IN
     \/ lines' = [lines EXCEPT ![s] = Kept(journal, {r \in ToSet(journal) :
                                                     From(r, s) /\ r.at >= since})]
     \/ s \in Flaky /\ UNCHANGED lines
  /\ waiting' = Tail(waiting)
  /\ UNCHANGED <<now, journal, dbVars, pc, mode, since, batch, state, pending, fresh,
                 lost, alerted>>

\* All is collected; what it was collected since and as is not used again.
Seed ==
  /\ pc = "collect"
  /\ waiting = <<>>
  /\ batch' = Collected
  /\ state' = IF Collected = <<>> THEN EmptyState ELSE Warmed(Head(Collected).at)
  /\ lines' = NoLines
  /\ since' = 0
  /\ pc' = "process"
  /\ UNCHANGED <<now, journal, dbVars, mode, waiting, pending, fresh, lost, alerted>>

\* The next record of the batch: suppressed, known by its hash, or stored and
\* processed.  The row is committed before its findings are.
ProcessRecord ==
  /\ pc = "process"
  /\ pending = {}
  /\ batch # <<>>
  /\ LET r == Head(batch) IN
     IF Suppressed(r) \/ r \in Rows
     THEN UNCHANGED <<events, actions, state, pending>>
     ELSE /\ state' = Processed(state, r)
          /\ pending' = FindingsAt(state, r)
          /\ IF From(r, "fail2ban")
             THEN actions' = Append(actions, r) /\ UNCHANGED events
             ELSE events' = Append(events, r) /\ UNCHANGED actions
  /\ batch' = Tail(batch)
  /\ UNCHANGED <<now, journal, findings, incidents, pc, mode, since, waiting, lines, fresh,
                 lost, alerted>>

InsertFinding(f) ==
  /\ pc = "process"
  /\ f \in pending
  /\ pending' = pending \ {f}
  /\ findings' = findings \cup {f}
  /\ fresh' = IF f \in findings THEN fresh ELSE fresh \cup {f}
  /\ UNCHANGED <<now, journal, events, actions, incidents, pc, mode, since, waiting, lines,
                 batch, state, lost, alerted>>

\* What is left of a run that is over.
EndRun ==
  /\ pc' = "idle"
  /\ mode' = "daemon"
  /\ since' = 0
  /\ waiting' = <<>>
  /\ lines' = NoLines
  /\ batch' = <<>>
  /\ state' = EmptyState
  /\ pending' = {}
  /\ fresh' = {}

\* The batch is done.  The detector is not used again.
Rebuild ==
  /\ pc = "process"
  /\ pending = {}
  /\ batch = <<>>
  /\ incidents' = Rebuilt
  /\ state' = EmptyState
  /\ pc' = "alert"
  /\ UNCHANGED <<now, journal, events, actions, findings, mode, since, waiting, lines,
                 batch, pending, fresh, lost, alerted>>

\* traxerax-lite --report rebuilds too, and then only reads.
Report ==
  /\ pc = "idle"
  /\ "cli" \in Modes
  /\ incidents' = Rebuilt
  /\ UNCHANGED <<now, journal, events, actions, findings, runVars, lost, alerted>>

\* A daemon tick alerts what was new, the command line throws its list of new
\* findings away.
Finish ==
  /\ pc = "alert"
  /\ alerted' = IF mode = "daemon" THEN alerted \cup fresh ELSE alerted
  /\ EndRun
  /\ UNCHANGED <<now, journal, dbVars, lost>>

\* An exception, after which a tick goes on without its new log findings and
\* the command line ends; or a kill.
Fail ==
  /\ CanFail
  /\ pc # "idle"
  /\ lost' = lost \cup pending
  /\ EndRun
  /\ UNCHANGED <<now, journal, dbVars, alerted>>

Next ==
  \/ \E l \in Line : Log(l)
  \/ ClockTick
  \/ BeginTick
  \/ BeginCli
  \/ Collect
  \/ Seed
  \/ ProcessRecord
  \/ \E f \in pending : InsertFinding(f)
  \/ Rebuild
  \/ Report
  \/ Finish
  \/ Fail

Spec == Init /\ [][Next]_vars

-----------------------------------------------------------------------------
(* The rules over the stored rows, whoever stored them and in which run. *)

\* Of a set of rows those of r's key up to r, and those at most a window before it.
History(S, r) == {s \in S : s.key = r.key /\ s.at <= r.at}
Lately(S, r, window) == {s \in History(S, r) : r.at - s.at <= window}
Fed(S, l) == {s \in S : Feeds(s, l)}
Of(S, source) == {s \in S : From(s, source)}
Probes(S, r, window) ==
  {s \in Lately(S, r, window) : s.type = "nginx_suspicious_request" /\ s.at < r.at}

\* What in the rows speaks for the rule at the record r: rows, users or sources.
Evidence(S, r, rule) ==
  CASE rule = "root_login_attempt" -> {s \in {r} : s.type = "ssh_root_login_attempt"}
    [] rule = "suspicious_web_probe" -> {s \in {r} : s.type = "nginx_suspicious_request"}
    [] \E l \in List : RuleOf[l] = rule ->
         LET l == CHOOSE m \in List : RuleOf[m] = rule
         IN IF Feeds(r, l) THEN Fed(Lately(S, r, Window[l]), l) ELSE {}
    [] rule = "mail_password_spray_attempt" ->
         IF Feeds(r, "mail") /\ r.user # ""
            /\ Cardinality(Fed(Lately(S, r, Window["mail"]), "mail")) >= Threshold["spray"]
         THEN {s.user : s \in {x \in Fed(Lately(S, r, Window["users"]), "mail") : x.user # ""}}
         ELSE {}
    [] rule = "success_after_failures" ->
         IF LooksBack(r, "auth") THEN Fed(Lately(S, r, Window["success"]), "auth") ELSE {}
    [] rule = "mail_success_after_failures" ->
         IF LooksBack(r, "mail") THEN Fed(Lately(S, r, Window["success"]), "mail") ELSE {}
    [] rule = "web_probe_followed_by_auth_activity" ->
         IF From(r, "auth") THEN Probes(S, r, Window["probe_auth"]) ELSE {}
    [] rule = "web_probe_followed_by_fail2ban_ban" ->
         IF r.type = "ban" THEN Probes(S, r, Window["probe_ban"]) ELSE {}
    [] rule = "multi_source_ip_activity" ->
         IF \E s \in Activity : From(r, s)
         THEN {s \in Activity :
                 Cardinality(Of(Lately(S, r, Window["sources"]), s)) >= Threshold["sources"]}
         ELSE {}
    [] rule = "ip_banned_after_auth_activity" ->
         IF r.type = "ban" THEN Of(History(S, r), "auth") ELSE {}
    [] rule = "ip_banned_after_web_activity" ->
         IF r.type = "ban" THEN Of(History(S, r), "nginx") ELSE {}
    [] rule = "ip_banned_after_mail_activity" ->
         IF r.type = "ban" THEN Of(History(S, r), "mail") ELSE {}

Needed(rule) ==
  CASE \E l \in List : RuleOf[l] = rule -> Threshold[CHOOSE l \in List : RuleOf[l] = rule]
    [] rule = "mail_password_spray_attempt" -> Threshold["users"]
    [] rule \in Repeating -> Threshold["success"]
    [] rule = "multi_source_ip_activity" -> 2
    [] OTHER -> 1

Due(S, r, rule) == Cardinality(Evidence(S, r, rule)) >= Needed(rule)

\* The first events that were stored.
StoredUntil(i) == ToSet(SubSeq(events, 1, i))

\* The rules with a window of their own that the replayed history covers.  The
\* others are known to forget: bans look back without a window, a probe is only
\* remembered the first time, and logins look back on a list cut shorter.
Covered ==
  {"root_login_attempt", "suspicious_web_probe", "mail_password_spray_attempt",
   "multi_source_ip_activity"} \cup {RuleOf[l] : l \in List}

-----------------------------------------------------------------------------
(* What the component guarantees. *)

\* The type invariant: every row, finding and memory of the detector is of its set.
TypeOK ==
  /\ now \in 1 .. MaxTime
  /\ journal \in Seq(Record)
  /\ events \in Seq(Record) /\ actions \in Seq(Record)
  /\ findings \subseteq Finding /\ pending \subseteq Finding
  /\ fresh \subseteq findings /\ lost \subseteq Finding /\ alerted \subseteq findings
  /\ \A i \in incidents : i \subseteq Record \cup Finding /\ i # {}
  /\ pc \in {"idle", "collect", "process", "alert"}
  /\ mode \in {"daemon", "cli"}
  /\ since \in (1 - FirstSpan) .. LastTime
  /\ waiting \in Seq(Source)
  /\ lines \in [Source -> Seq(Record)]
  /\ batch \in Seq(Record)
  /\ state \in [Key -> Memory]

\* No false alarm: while collections start at the last stored time, every finding
\* is borne out by the rows, though most of them were stored by earlier runs, some
\* of which failed, and its message counts no more than the rows have.
Sound ==
  \A f \in findings \cup pending : \E r \in Rows :
    /\ r.key = f.key /\ r.at = f.at
    /\ Due(Rows, r, f.type)
    /\ f.n <= Cardinality(Evidence(Rows, r, f.type))

\* No missed alarm, whichever runs the rows of a burst were stored by: a windowed
\* rule that the rows satisfied at a row when that was stored, the events until it
\* and itself, has a finding by that time, unless a run that failed had made it.
Complete ==
  \A i \in DOMAIN events : \A rule \in Covered \cap Enabled :
    Due(StoredUntil(i), events[i], rule) =>
      \E f \in findings \cup pending \cup lost :
        f.type = rule /\ f.key = events[i].key /\ f.at <= events[i].at

\* Nothing that was collected falls behind the cursor: what a run has yet to store
\* is no older than the last row, so that after a failure the next run, which
\* starts there, collects it again.
NoneBehindCursor == \A i \in DOMAIN batch : batch[i].at >= LastStored

\* A rebuild cuts the evidence of an address exactly at the long gaps, whatever the
\* order and the runs it was stored in: each finding is in an incident, no two
\* incidents share evidence or come close, and none spans a long gap.
IncidentsAreRuns ==
  pc = "alert" =>
    LET evidence == Located IN
    /\ evidence \cap findings \subseteq UNION incidents
    /\ \A i \in incidents : \A d \in evidence \ i :
         ~\E e \in i : d.key = e.key /\ d.at - e.at \in -Gap .. Gap
    /\ \A i \in incidents : \A e \in i :
         \/ e.at = EndTime(i)
         \/ \E d \in i : d.key = e.key /\ d.at > e.at /\ d.at - e.at <= Gap
    /\ \A i, j \in incidents : i # j => i \cap j = {}

-----------------------------------------------------------------------------
(* What the documents say and the code does not do. *)

\* journald.py:203: a line rebuilt from the journal is read as of the instant it
\* was logged at.  Every row has the time of a logged line.
RoundTrips == \A r \in Rows : r \in ToSet(journal)

\* README.md:267: every run alerts the findings that are new.  Without failures a
\* finding is alerted, or a run still has it to alert.
EveryRunAlerts == \A f \in findings : f \in fresh \cup alerted

\* detector.py:246: a login is reported with the failures within the success window
\* before it.  One with enough of them strictly before it has its finding.
SuccessReported ==
  \A r \in Rows : \A l \in {"auth", "mail"} :
    /\ LooksBack(r, l)
    /\ Cardinality({s \in Fed(Lately(Rows, r, Window["success"]), l) : s.at < r.at})
         >= Threshold["success"]
    => \E f \in findings \cup pending : f.type \in Repeating /\ f.key = r.key /\ f.at = r.at
=============================================================================
