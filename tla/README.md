# Traxerax Lite in TLA+

A verification development for `traxerax_lite`, a single-host security monitor:
TLA+ modules translated from `src/traxerax_lite`, configurations that TLC
checks on small instances, and theorems that TLAPS checks for every value of
the constants. File and line references below are into
`src/traxerax_lite/` unless a path says otherwise.

## 1. The system

The program is one Python package. `main.py` chooses a run mode: a one-shot
run (`--audit`, `--monitor`, `--rootkit-scan`, `--full`, `--learn-baseline`,
`--integrity-scan`, log ingestion, `--setup`) or the daemon, whose scheduler
calls one tick after another. All of them share one SQLite file. Every insert
commits by itself, so the unit of atomicity is one row, two processes
interleave between rows, and a process can die between any two.

| Component | State it keeps | Operations | Hard behaviour | What makes it correct |
| --- | --- | --- | --- | --- |
| host change detection (`change_detection.py`, `host_models.py`) | none; reads `host_state_records` | compare a snapshot with the history, by kind | must compare before the run's own rows are inserted; first run is a baseline; some kinds compare by less than the record | nothing watched enters the history without having been flagged or knowingly absorbed |
| storage (`storage.py`) | the tables | `INSERT OR IGNORE` by hash, prune, last timestamp | identity is a hash over some of the fields; retention goes by the first timestamp | a row is new once; rows go only when they expired |
| run modes and tick (`main.py`) | local variables of a run | order of comparing, persisting, reporting, pruning, alerting | crash between the steps; two processes on one database | a stored finding is alerted once, or was dropped by a run that failed |
| detector (`detector.py`) | `DetectionState`: lists of recent times, first probe, alerted marks, per address or user | one record in, findings out | windows, records out of order, lists shared by two rules, a cap on tracked addresses | a rule fires when, and only when, its window holds enough evidence |
| log ingestion (`main.py`, `journald.py`, `baseline.py`) | rows of `events`, `enforcement_actions`, `findings` | collect since a cursor, sort, warm start, store and process | the state is rebuilt from the rows each run; a source fails; a run dies half way | the answer does not depend on which run stored which row; nothing is lost behind the cursor |
| alerts (`alerts.py`) | review drops, `latest.json` | dispatch the new findings of a run; write a drop, replace `latest.json`, prune | drops of one second, two processes on one directory, a write that fails | one alert per new finding; a drop goes only for enough newer ones; the directory stays bounded |
| scheduler (`scheduler.py`) | stop flag and event | loop, wait, signal handler | a signal between any two steps; exception in a tick | the daemon ends after the tick it is in |
| eBPF loader (`ebpf_loader.py`, `ebpf/loader.c`) | child process, reader thread, buffer | start, handshake, read, drain, stop | thread against main thread, full pipe, cap, timeout then kill | what was read is buffered, counted, or lost only at the stop |
| cross-view detection (`rootkit_detection.py`, collectors) | none | compare `/proc`, sockets, probe events | views taken at different times while the host goes on | what stays hidden is found; what is reported is hidden, or a named race |
| integrity (`integrity.py`) | baseline rows | rebuild, scan | rebuild commits per path; a scan meanwhile; links | a scan reports each difference from the baseline it read |
| incidents (`incidents.py`) | incident tables | rebuild from all rows | rows of many runs in any order | an address's evidence is cut exactly at the long gaps |
| installer, parsers, audit checks, configuration, queries and reports | files of the host, none | linear scripts, text to records, read-only checks, formatting | little | outside the model, see section 7 |

The interactions are calls within a run, and, between runs and processes, the
database: a run's comparison reads what other runs inserted, the return value
of an insert (new or not) decides what is alerted, and log ingestion restarts
its detector and its cursor from the rows. The loader is a child process and a
reader thread beside the main thread, and the host changes under every run.

The hazards this leads to are in `PROJECT.json`, each at its line, with the
properties that would catch it, or a note on why none does.

## 2. Modules

| Module | What it is |
| --- | --- |
| `FindingLedger` | Abstract specification: a finding is stored once, and announced at most once, by the run that stored it; a run that dies drops what it had not announced. |
| `HostChange` | Change detection across runs and processes, findings, alerts, retention. Implements `FindingLedger`. |
| `MCHostChange` | Small hosts: cron file with several contents, kernel module, sockets on one port, device, unit. |
| `HostChangeProofs` | Theorems about `HostChange`. |
| `Detector` | The log detector as operators on what is remembered of each key. No variables. |
| `Ingestion` | Runs of log ingestion around `Detector` and the database, and the rebuild of incidents. |
| `MCIngestion` | Small windows, thresholds, log lines. |
| `IngestionProofs` | Theorems about `Ingestion` and `Detector`: types, the cursor, incidents; lemmas on what the sort, the pruning and the replay do. |
| `AlarmProofs` | Theorems about the findings of `Ingestion`: no false alarm, none missed. |
| `LossyQueue` | Abstract specification of the event loader: in order, once, counted when full, lost only after the stop. |
| `EbpfLoader` | Scheduler, loader, reader thread and child process. Implements `LossyQueue`. |
| `EbpfLoaderProofs` | Theorems about `EbpfLoader`: types, what becomes of what is read, the queue. |
| `RootkitRules` | The detectors of `rootkit_detection.py`, one operator each. No variables. |
| `CrossView` | The runs that look for hidden processes and ports, on a host that changes meanwhile. Uses `LossyQueue` as its loader and `RootkitRules` as its detector. |
| `MCCrossView` | What processes do, and how they look. |
| `CrossViewProofs` | Theorems about `CrossView`: types, what is reported and what is found; lemmas on what the detectors of `RootkitRules` return. |
| `ReviewDrops` | The directory of review drops, written and pruned by several processes. |
| `Integrity` | Baselines and scans by several processes while files change; ends in the alert and the drop of `ReviewDrops`. Implements `FindingLedger`. |
| `MCIntegrity` | Small disks. |
| `IntegrityProofs` | Theorems about `Integrity` and `ReviewDrops`: types, the ledger, the drops that are kept and how many are left. |
| `ScanProofs` | Theorems about what baselines and scans of `Integrity` say of the disk. |
| `Foundations` | What several proofs need of the natural numbers and of finite lists: a least and a greatest member, and that a loop over a list has a value at every turn. |

### HostChange

`history` is `host_state_records` (the timestamp of each record's row, or
`NotStored`), `findings` the change findings in `rootkit_findings`. Each
process has a label `pc` and the local variables of its run: the snapshot not
inserted yet (`todo`), the changes found and not inserted yet (`changes`), and
the new findings to alert (`fresh`). The actions follow the code:

| Action | Code |
| --- | --- |
| `BeginDiff`, `BeginAbsorb` | a mode that compares, or one that only inserts, takes its snapshot (`main.py` `_run_*_mode`) |
| `Detect` | `detect_host_changes` reads the hashes of the history: it is empty, or the units are compared |
| `Compare`, `Compared` | one more kind is read and compared, until all are |
| `InsertRecord` | `insert_host_state_record`, one commit each |
| `InsertFinding` | `insert_rootkit_finding`; new rows go into `fresh` |
| `Prune` | `prune_old_records`, in the daemon only; its failure is logged |
| `Dispatch` | `dispatch_alerts` on `fresh` |
| `Fail` | an exception or a kill, anywhere in a run |
| `DayPasses` | the clock |

A record has a kind, a key, the metadata that a finding's evidence shows and
the content it does not show. The kinds group the categories that are compared
by the same rule. A finding is what `RootkitFinding.hash` covers. Each kind is
read by a query of its own, so another process may insert or prune between two
kinds (`unread` is what is yet to be compared). Several sockets of a snapshot
may listen on one address and port; the first in the list, which is any, is
compared and the others are passed over (`FirstOfPort`, `seen_this_run` in the
code). The history
variables `lastRow`, `baselined`, `absorbed`, `reported`, `lost` and `dropped`
record what happened and are read by no action.

Abstractions. A snapshot is a set of records, taken at once when the run begins.
The tables of one kind (the four of the sockets, the path-tracked categories)
are read together: a row that another process inserts between two of them is in
the code read or not by table, in the model by kind. The state of a socket takes
the place of the content, as it is LISTEN in every finding about one.

### Detector and Ingestion

`Detector!Fresh` is `DetectionState` seen from one key. `Noted` is what
`process_event` adds to the lists and prunes, `Conditions` the condition of
each rule, `Firing` those that hold and are not marked, `Findings` what is
returned. Suppressed and disabled rules keep the code's order: a disabled rule
marks the key all the same. The pruning is the code's: it drops from the front
and stops at the first recent time.

`Ingestion` has the database (`events`, `actions`, `findings`, `incidents`), the host's
`journal`, and one run. `BeginTick` and `BeginCli` choose the sources and the
cursor, `Collect` is one `journalctl`, `Seed` sorts the batch and replays the
stored rows, `ProcessRecord` and `InsertFinding` are one commit each, `Rebuild`
is `rebuild_incidents`, `Finish` alerts (or, on the command line, does not),
`Fail` ends the run anywhere. `Report` is the report mode, which rebuilds too.
`Parsed` gives the lines of auth, sudo and mail units the year they are parsed
in, because `_reconstruct_line` leaves it out. An incident is the set of its
evidence (rows and findings of one address); `Moment`, `Drafted`, `Drafts` and
`Relevant` are the loop of `rebuild_incidents`.

Abstractions. The host logs lines and the clock moves only while no run is
working on its batch (`HostMoves`): after `Seed` a run reads neither the
journal nor the clock, so a line logged in that time is one logged after the
run. A record has its time, kind, key, user, and in `raw` what else
`make_event_hash` covers and no rule reads (the line, the port, the pid): two
lines of one second that differ in nothing are one row, all others are rows of
their own. PAM failures of
services other than sudo share the sudo rule's list, threshold and mark in the
code, and are one rule in the model. The evidence of an address in one second
comes as one set, since a gap is never negative. `--year` is not modelled.

### LossyQueue and EbpfLoader

The main thread of the daemon, the reader thread and the child each take their
own steps. `Popen`, `Attached`, `ExitedEarly`, `NotInTime` and `Refuse` are the
returns of `EBPFLoader.start`; `Stop`, `Terminate`, `Terminated`, `Timeout`,
`TimeoutAgain` and `Join` are `stop` and `_terminate`, each wait with its
timeout, which may expire at once; `Drain` swaps the list. The reader's
`ReadLine`, `Break` or `Parse`, `Skip`, `Store` or `NoRoom`, `Count`, `LookUp`
and `AppendEvent` are one turn of `_read_events`: the look at the stop, that at
the length, the look-up of `self.events` and the append are steps of their own,
so that `Stop` and `Drain` can come between any two. An append may then go to
the list that was handed out (`late`), or to the one that took its place and
that nobody drains (`drained`). The child attaches and pins, prints into a pipe of
`PipeSize` lines, blocks when it is full, looks at the signal only between two
polls, and may die; after a kill its pins stay. `Loop`, `Wait`, `Wake`,
`Return` are the scheduler's loop with the lock that `Event.wait` holds, and
`Signal` is the handler, in the main thread, between any two of its steps, as
often as signals come; the handler of one may interrupt that of another while it
holds the lock, which is `stuck` like the interrupted wait.

`Queue` maps this to `LossyQueue`: the events offered are the lines printed,
those seen the ones the reader is done with (`Done`). `CrossView` has the same
module as its loader, with the main thread's `Stop` and `Drain`.

Abstractions: a tick begins when the child and the reader of the last one are
gone (the operating system ends a killed child, and the reader sees the end of
its pipe). The checks before `Popen` are one refusal. `start` waits for the
handshake with `select` and a deadline, and then reads with `readline`, and a
loader that exited early has its error output read to the end; neither read has
a timeout of its own. The model lets the deadline expire at any time, which
takes from the child in `loader.c` that it writes whole lines.

### RootkitRules and CrossView

Events and host records have one form, `Item`: what it is, whose, whether the
setting that allows it lists it, which of the signs its data shows, and a name
(of a memfd or a socket). A finding is what its hash covers. The detectors are
set comprehensions over them.

`CrossView` has the host (`alive`, `owner`), the loader, and one run: a tick
collects and then opens the window (`main.py:1166`), a scan the reverse
(`main.py:755`). The collectors run in any order, since the setting is a set;
descriptors are read pid by pid. `StoreKernelEvents` and `Detect` read the same
list, to which a late reader may still append. The history variables `born`,
`ended`, `thinned`, `unheard`, `stirred`, `drained` record what happened and
are read by no action.

Abstractions: a socket has one process that holds it at a time, which may pass
it on (`owner`); a descriptor that several processes inherited or share, as in
prefork servers and socket activation, is not modelled. A pid is not used again
in a run: one whose process has ended is in no claim of what is found. The
listing of processes is one step, and so are the checks for
`/proc/<pid>` of one detection and the inserts of its findings (an insert that
raises leaves fewer of them). A collector that is disabled or raises is one
that `Enabled` leaves out. A socket collector that finds nothing would switch
the check off: `Lasting` sockets are there throughout, as on a real host. Events before the handshake returns
count as in the window. Change detection and alerts of the same runs are in
`HostChange`.

### Integrity and ReviewDrops

`disk` says of each path whether there is nothing, a file, a link or something
that cannot be hashed. `Expansions` are the lists `_expand_monitored_paths` may
return: one path for each file, the first in directory order, which is any.
`Listing` is what it does return: an `OSError` while a directory is read
(`integrity.py:184`) leaves some of its entries out (`cut`).
`BuildBaseline` clears, `ListForBuild` lists, `HashPath` hashes one path and
`SetBaseline` commits its row, and between any two of these a file may change.
`BeginScan` (or `BeginFull` and `ScanAfterAll`, the full run that first asks
whether there is a baseline) reads the baseline once, `ListForScan` lists,
`ScanPath` hashes and compares one path, `Scanned` adds the rows not listed,
`InsertIntegrityFinding` is one commit, `Dispatch` alerts what was new and goes
on to the drop. The history variables `whole`, `partial`, `wholeRead`,
`doubtful`, `seen` and `cut` are read by no action.

`ReviewDrops` is `write_review_drop`: `WriteDrop`, `WriteLatest`, `ListDrops`,
one `Unlink` each, which removes the file or, on an `OSError`, leaves it and goes
on; `AbandonDrop` is an `OSError` elsewhere or the end of the process. A
name is the second and a random number.

Abstractions: content and size of a file are one value. One process builds at a
time (`NoBuild`); the code does not see to that, and two builds at once would mix
their rows. A listing is one step, a broken-off one may leave out any of the
entries in `Entries`, and a link leads to one of the paths of the model, and no
further. A path does not change while it is hashed (the code reads through one
descriptor). A foreign temporary file, which makes `_write_atomic` skip a
write, is left out.

## 3. Properties and runs

Passing runs:

| Run | Checks | Shows |
| --- | --- | --- |
| `HostChange_two` | `TypeOK`, `Accounted`, `FindingsAccounted`, `LedgerSpec`, `FoundIsAlerted` | A daemon and a command line (scan or learn) on one database, either failing anywhere. |
| `HostChange_rules` | `Accounted`, `ForgottenOnlyExpired` | Kinds compared by less than the record, two sockets that listen on one port, a daemon that prunes. |
| `Ingestion_runs` | `TypeOK`, `Sound`, `Complete`, `NoneBehindCursor`, `IncidentsAreRuns` | Ticks and `--since last-run` runs in any order, a source that fails, runs that fail anywhere. |
| `EbpfLoader_window` | `TypeOK`, `ReadIsAccounted`, `QueueSpec`, `SignalStops`, `ReaderEnds` | Windows with a full pipe and a full buffer, a child that hangs, dies or is killed, signals at any time. |
| `CrossView_views` | `TypeOK`, `EveryAlarmHasItsEvent`, `HiddenFound`, `HiddenOnly`, `PortFound`, `PortOnly` | Ticks and scans, with root and without, on a host that changes between the views. |
| `Integrity_scans` | `TypeOK`, `FindingsBorneOut`, `ScanExact`, `BaselineWhole`, `LedgerSpec`, `DropsKept`, `DropsBounded` | A daemon that scans and a command line that scans and builds, files that change, runs that fail anywhere. |

- `Accounted`: a watched record that has ever had a row was put there by a
  baseline run or a mode that does not compare, or a finding was made of it by
  some run, alive or dead, or it is a socket whose address and port had been
  seen in another state. The last case is a limit of the code that the
  property has to name. So is a change that a failed run had found: it counts as
  found, although the code has lost it.
- `FindingsAccounted`: a stored finding was alerted exactly once, or is held by
  exactly one run, or was dropped by a run that failed.
- `LedgerSpec`: the same as a refinement, step by step.
- `FoundIsAlerted`: what a run finds is alerted in the end, or a run failed.
- `ForgottenOnlyExpired`: rows go only when older than the retention.
- `Sound`, `Complete`: the findings against a reference definition of the rules
  (`Evidence`, `Needed`, `Due`) that is stated on the set of stored rows, with
  no lists, no marks and no notion of which run stored what. `Complete` is for
  the rules whose own window the warm start covers (`Covered`), and asks at each
  event about the events stored until then, itself included: lines of one second
  have an order, and the detector looks at a rule when a line comes. A finding
  that a failed run had made counts as made, stored or lost, alerted or not.
- `NoneBehindCursor`: what a run has yet to store is no older than the last
  stored row, so a run that dies half way leaves its rest to the next.
- `IncidentsAreRuns`: after a rebuild each finding of an address is in an
  incident, no two incidents share evidence or come within the gap, and none
  spans a longer gap, whatever the order and runs the rows came in.
- `ReadIsAccounted`: of what the reader read, at most two events are neither
  buffered to be drained, drained nor counted: the one it held when it saw the
  stop, and one it stored in the list that `drain` left behind. The second case
  is a limit of the code that the property has to name.
- `QueueSpec`: the refinement of `LossyQueue`.
- `SignalStops`: a signal ends the daemon, also with a child blocked on a pipe
  nobody reads. The one exception is a signal that arrives while the main
  thread holds the lock of the event, or while the handler of another does
  (`stuck`), see below. `ReaderEnds`: no
  reader thread is left behind by a window that was stopped, unless the main
  thread is stuck so.
- `EveryAlarmHasItsEvent`: wherever a run fails, a finding on an event has the
  event in `kernel_events`, unless a late reader appended it.
- `HiddenFound`: a run that got through has reported every process that was
  hidden from its `execve` in the window on, if the event was delivered,
  whichever comes first, snapshot or window; those of whose pid a thread has
  ended excepted. `HiddenOnly`: who is reported is hidden, or has ended and the
  event of its end was not delivered, the race the code's docstring accepts.
- `PortFound`: the port a hidden process had open throughout is reported, in
  whatever order the views were taken. `PortOnly`: a reported port belongs to a
  hidden process, or its socket was opened, closed, passed on or hidden during
  the run, or, without root, it has the run's uid and a process of another user
  holds it, whose descriptors the run cannot read. The last case came up in the
  proof: a socket has to be passed on before the run begins.
- `FindingsBorneOut`: each finding of a scan is borne out by the rows that the
  scan read at its start and by what was on disk while it ran, also when a
  baseline is built meanwhile. These rows are the last whole baseline, unless
  another build had been begun when they were read and was not done, or had
  failed (`doubtful`): then the code compares with the part that is there, and
  reports what the part lacks as new. A file may be reported as missing when a
  link leads to it or the listing of its directory broke off.
  `ScanExact`: with an unchanging disk without links a scan whose listing does
  not break off finds exactly the differences from the rows it read.
  `BaselineWhole`: a completed baseline has the row of every file
  that was there throughout, and no other, whatever failed before, with the
  same two exceptions.
- `DropsKept`: a drop, and that of the run in `latest.json`, is gone only when
  `max_drops` names after it were written. Of one second, the names after it
  need not be of later drops. `DropsBounded`: the last process to
  look leaves at most `max_drops`, unless it fails before it has removed them, or
  one cannot be removed.

Runs that TLC refutes. Each states what a document or message of the program
says:

| Run | Property | What happens |
| --- | --- | --- |
| `HostChange_retention` | `FlaggedIsFirstSeen` | The row of a record keeps its first timestamp, so retention deletes what is still there and the next tick flags it as new (`storage.py:803`, `docs/architecture.md:497`). |
| `HostChange_content` | `EachContentReported` | Evidence leaves the content out: the second change of a file with the same line count has the first one's hash and is dropped (`change_detection.py:735`). |
| `Ingestion_cli` | `EveryRunAlerts` | Log ingestion on the command line throws its new findings away unalerted (`main.py:597`, `README.md:267`). |
| `Ingestion_login` | `SuccessReported` | A login looks back on a list already pruned with the shorter failure window (`detector.py:235`, message at `detector.py:247`). |
| `Ingestion_year` | `RoundTrips` | A line of an auth, sudo or mail unit is rebuilt without its year and parsed in the current one: a December line collected in January is stored a year ahead, and moves the cursor there (`parser.py:117`, `journald.py:224`). |
| `CrossView_threads` | `HiddenReported` | The exit event of a thread has the pid of its process, so a live hidden process counts as ended (`rootkit_detection.py:514`, docstring at `:498`). |

Met while modelling, and left without a run:

- The signal handler calls `Event.set` in the main thread (`scheduler.py:28`).
  When the signal comes while that thread is inside `Event.wait` with the lock
  of its condition, `set` waits for that lock for ever: the lock is not
  reentrant. A second signal that comes while the handler of the first has the
  lock does the same. The window is short; no document speaks of it.
- `dropped_events` is read by nobody, although `docs/architecture.md:279` says
  it makes lost visibility visible. A loader that dies in the window leaves
  `probe_attached` true. A killed loader's pins stay until the next clean exit.
- A reader that looks `self.events` up after `drain` has replaced it appends to
  a list that is never drained (`ebpf_loader.py:242`).
- A scan that reads the baseline while it is rebuilt, or after a build that
  failed, reports unchanged files as new (`integrity.py:38`).
- Review drops are pruned by name, so of one second a later one, that of
  `latest.json` included, may go first, although `alerts.py:167` says "oldest
  first". A run that dies after its records were inserted loses the changes it
  had found for good (`main.py:1199`); one that dies in log ingestion, the
  findings of the row it had stored (`main.py:1503`); and the findings of a
  tick's log ingestion that raises are stored and never alerted (`main.py:1275`).
- Two integrity findings that differ in mode or size only have one hash
  (`host_models.py:116`), so the second is not alerted.
- The local time zone is a fixed offset taken at the start (`main.py:146`).
- `--audit` and `--monitor` insert records without comparing, and so absorb
  changes that the next comparison would have flagged (`main.py:644`, `:730`).
  `Accounted` names them as an explanation.
- The warm start replays all events, then all actions (`main.py:1541`), and has
  no upper end; with `--since all` an older log meets later rows, and `Sound`
  does not hold. The runs keep to `--since last-run`, as the daemon does.
- A mail failure without an account does not look for a spray, although the
  failures it completes may be as many as the rule asks for (`detector.py:486`);
  the next failure that names an account finds it.
- The cursor is the last timestamp of any source. A source whose `journalctl`
  failed, or whose line came after it was collected, is skipped when another
  source moves the cursor on.

### Bounds

- Processes: one daemon and one other; each interleaving hazard is between two
  runs. The proofs are for any number.
- Records: two records of one key in `HostChange_two` (first seen, changed, and
  changed back); in `HostChange_rules` two records of a module, two sockets that
  listen on one port and a client's. The ignored device, the unit and a process
  are in the two violation runs, whose few records leave room for them.
- `MaxDay` 2 or 3 with a retention of one day: a row can be on the cutoff, past
  it, pruned and inserted again.
- `MaxLines` 3, `MaxTime` 3: windows of 1 and 2, thresholds of 2, so a burst
  can be completed within a run, across two or three runs, be too far apart, or
  fall on the edge of a window. `Ingestion_login` needs one more second. A
  failed login comes from one of two ports, so that two failures of one second
  can be two rows; the ports are alike, which is why `Ingestion_runs` takes them
  as a symmetry set.
- `FirstSpan` 2 stands for the 24 hours of a first `--since last-run`, shorter
  than `MaxTime` so that it cuts something off.
- `Flaky` is one source, the one whose lines most rules need.
- `YearLength` is longer than `MaxTime`, but for `Ingestion_year`, where the
  year turns. `Gap` 1 and `MinEvidence` 2: single rows, and rows that are
  joined or cut.
- `MaxBuffered` 2, `PipeSize` 1, `MaxPrinted` 4, of two kinds of event: the
  buffer fills with the reader holding one more, and the pipe blocks. Windows
  follow each other without bound.
- `CrossView`: two pids, one with threads, one of the user of an unprivileged
  run; two sockets besides the lasting one (one in `CrossView_threads`); a buffer
  of one event; one run (`MaxRuns`) in which the host takes two steps
  (`MaxMoves`): a process starts hidden and ends, a thread ends and its process
  goes on, a socket is passed on and closed. A host with processes already hidden
  and sockets already passed on is an initial state, and needs no step.
- `Integrity_scans`: two paths, two contents, two modes; two runs and one change
  of the disk, so a scan meets a build, a failed build or another scan, and any
  of them a change; at first two equal files, with no baseline or one of them, so
  that links and other contents come by the change; one path is a directory's
  entry, which a listing may leave out; one drop to keep.
- `CHECK_DEADLOCK` is off where the system does stop: a daemon that was ended,
  a bound on runs that is reached. It is on in the other runs, where a process
  can always begin another.

### Fairness

`FairSpec` assumes weak fairness of each process's `Step`, and is used for
`FoundIsAlerted` only. A run is sequential code: after it has begun, each of
its steps is enabled until it is taken (SQLite's lock waits end in a row or in
an exception, which is `Fail`). Nothing is assumed of when runs begin, of the
clock, or of failures.

`EbpfLoader!FairSpec` assumes weak fairness of the main thread, of the reader
thread and of the kernel's kill, each of which is always scheduled in the end:
every wait of the main thread has a timeout. Of the child nothing is assumed
but that a kill ends it.

## 4. What is proved

`HostChangeProofs` proves, for every set of processes, modes, records, toggles,
ignore list and retention, finite or not, with failures or without:

| Theorem | Says |
| --- | --- |
| `TypeCorrect` | `Spec => []TypeOK` |
| `ForgottenCorrect` | `Spec => []ForgottenOnlyExpired` |
| `FindingsCorrect` | `Spec => []FindingsAccounted` |
| `AccountedCorrect` | `Spec => []Accounted` |
| `ImplementsLedger` | `Spec => LedgerSpec` |

The assumptions are those `HostChange` names: the daemons are processes, the
modes and kinds are known ones, the retention and the bound on the clock are
natural numbers, `CanFail` is a Boolean.

The arguments:

- `TypeOK` is inductive.
- `ForgottenOnlyExpired` alone is not: `Prune` looks at `history`, the property
  at `lastRow`. `ForgetInv` adds that the two agree on every stored row.
- `FindingsAccounted` is inductive with `TypeOK`. The step that matters is
  `InsertFinding`: a finding without a row is in nobody's hand, so the one that
  inserts it is alone.
- `Accounted` needs to speak of runs that are under way. `AccountInv` adds that
  each watched record a comparing run has yet to insert is explained already:
  the comparison of its kind made a change of it, or of another socket on its
  port (`FlaggedExplains`, `ChangeExplains`), or found its identity in the
  history, where it was explained (`StoredExplains`). The records whose kind is
  not compared yet are excepted. It also says that changes are held only from
  the comparison to the insert. Explanations stay (`ExplanationsStay`), so another
  process that inserts the same record first, prunes, or fails in between takes
  none away.
- `ImplementsLedger`: `InsertFinding` is `Store` or a stutter, `Dispatch` is
  `Announce` of the run's findings, `Fail` is `Drop`, every other action
  stutters. `FindingsAccounted` gives that what a run holds is waiting.

`IntegrityProofs` and `ScanProofs` prove, for every set of processes, builders,
paths, ignored paths, contents and first disks, whatever paths become:

| Module | Theorem | Says |
| --- | --- | --- |
| `IntegrityProofs` | `TypeCorrect` | `Spec => []TypeOK` |
| | `ImplementsLedger` | `Spec => LedgerSpec` |
| | `DropsCorrect` | `Spec => []DropsKept` |
| | `BoundCorrect` | `Spec => []DropsBounded` |
| `ScanProofs` | `BaselineCorrect` | `Spec => BaselineWhole` |
| | `FindingsCorrect` | `Spec => []FindingsBorneOut` |
| | `ScanCorrect` | `Spec => ScanExact` |

The assumptions are named where the constants are: `max_drops` is at least one,
the bounds are natural numbers, ignored paths are monitored ones, the disk holds
files, links, what cannot be hashed, or nothing. The bounds on runs, changes and
the clock may be any numbers, the paths and processes any sets.

- `TypeOK` is inductive with the types of the names a process writes and of
  those it has doomed, which it leaves out (`TypeInv`).
- `ImplementsLedger` rests on `HeldInv`: what a run holds has a row, was in no
  alert, and no other run holds it. The step that matters is the insert: the row
  is new for one run only.
- `DropsKept` needs `DropInv`: what a run has doomed had `max_drops` newer names
  when it listed, and names once written count for good (`EnoughStays`), so an
  old list does no harm when it is carried out late.
- `DropsBounded` needs `BoundInv`: when the last process has listed all that was
  written, each file is about to be removed or has fewer than `max_drops` after
  it. If that is so of each file of a finite set, there are at most `max_drops`
  (`FewAfterEach`): all but the first come after the first, and there is a first
  as names are ordered by second and number (`FirstName`, from `Least` of
  `Foundations`).
- `BaselineWhole` needs `BuildInv`: one run builds at a time, and each path that
  is not in its list any more has a row that is the entry of a file it saw, or
  was no file when it looked. What was seen only grows (`NextSeen`), so this
  stays while files change. A path that the expansion leaves out is no file, or
  a link leads to it (`UnlistedAbsent`).
- `FindingsBorneOut` needs `ScanInv`: without a build under way or failed the
  table is the last whole baseline, so what a scan read then (`~doubtful`) is
  that, and stays so when a build begins during the scan.
- `ScanExact` needs `StillInv`: as long as a run has seen nothing but what is
  there, it has found what the paths done so far make. At the end these are the
  differences (`AllDifferences`), as the two ways to say them agree.

`EbpfLoaderProofs` proves, for every set of events and of wanted events, every
size of buffer and pipe, with crashes or without:

| Theorem | Says |
| --- | --- |
| `TypeCorrect` | `Spec => []TypeOK` |
| `NothingUnaccounted` | `Spec => []ReadIsAccounted` |
| `LoaderIsLossyQueue` | `Spec => QueueSpec` |

The assumptions: buffer and pipe hold at least one line, wanted events are
events, `CanCrash` is a Boolean.

- All three rest on `LoaderInv`, which says where the reader can be while the
  main thread goes through the window. Between its test of the length and its
  append there is room (`RoomToStore`), because the drain only makes more. What
  it holds was read, and is wanted if it is to be kept (`HeldIsRead`). There is
  no reader before the window and none without a stop after it
  (`ReaderInWindow`), so nothing is appended to a list of the next window. The
  result is empty until the drain, and a late append comes after a stop only
  (`DrainIsOnce`). To the list that the drain leaves one event is appended at
  most, since a reader looks at the stop before its next one (`NewList`).
- `ReadIsAccounted` is not inductive: while the reader goes on, what it has done
  and what is kept of it have to be equal, and differ by one at most once it has
  ended after a stop (`Balanced`); the list left behind makes the second
  (`BalancedIsAccounted`).
- `LoaderIsLossyQueue`: a line that the child prints, at once or when the pipe
  has room again, is `Offer`; the reader's `Skip` is `Pass`, `Count` is `Count`,
  `AppendEvent` is `Accept`, or `AcceptLate` into the list that was drained, and
  `Break` is `Lose`; `Stop` is `Close`, `Drain` is `Take`, `StartTick` is
  `Renew`. Every other step stutters.

`CrossViewProofs` proves, for every set of processes, sockets, deeds and
traits, every uid of the run, both orders of snapshot and window, every buffer
size, and any number of runs and of moves of the host in each:

| Theorem | Says |
| --- | --- |
| `TypeCorrect` | `Spec => []TypeOK` |
| `AlarmsCorrect` | `Spec => []EveryAlarmHasItsEvent` |
| `ReportedIsHidden` | `Spec => HiddenOnly` |
| `HiddenCorrect` | `Spec => []HiddenFound` |
| `ReportedPort` | `Spec => PortOnly` |
| `PortsFound` | `Spec => []PortFound` |

The assumptions: the sockets are finitely many names, those that last are none
of the others, and a deed is an event other than the end of a process.
Its first lemmas give what a finding of the detection can be (`DetectCases`)
and which findings it has (`DetectHas`), so that no proof about the runs opens
the detectors.

- `TypeOK` is inductive with the types of what the views hold (`TypeInv`).
- `EveryAlarmHasItsEvent` needs `EvidenceInv`: a finding on an event shows one
  of the list, and from the detection on all that was drained is stored. The
  list only grows during a run (`TakenGrows`), so a late event disturbs neither.
- `HiddenOnly` needs `EventInv`, which ties the events offered to the host: who
  executed is alive, or the event of its end was offered too, or its end was
  unheard.
- `HiddenFound` needs the converse, that an exit event is of a pid that ended or
  lost a thread, and `BornInv`: what came up hidden in the window is in no
  snapshot, whether that was taken before or after. `TakenInv` says that what
  the loader delivers was offered.
- `PortOnly` and `PortFound` need `SocketInv`, which says of each socket that
  nothing happened to, at every point of the two collections, whether it is in
  the views or still to be read; it is what makes their order irrelevant.
- `FoundInv` carries what the detection made through the inserts to the end.

`IngestionProofs` and `AlarmProofs` prove, for every set of keys, users, lines
and enabled rules, every window, threshold, gap and year, every order of units,
with sources and runs that fail or not:

| Module | Theorem | Says |
| --- | --- | --- |
| `IngestionProofs` | `TypeCorrect` | `Spec => []TypeOK` |
| | `CursorCorrect` | `Spec => []NoneBehindCursor`, unless `--since all` is given |
| | `IncidentsCorrect` | `Spec => []IncidentsAreRuns` |
| `AlarmProofs` | `AlarmsSound` | `Spec => []Sound`, unless `--since all` is given |
| | `AlarmsComplete` | `Spec => []Complete`, likewise, with `Ample` settings |

The assumptions are the named ones of `Detector` and `Ingestion`: windows and
bounds are natural numbers, thresholds are positive, units and lines are of
known types. `CursorCorrect`, `AlarmsSound` and `AlarmsComplete` also assume that
no run of the command line is given `--since all`: such a run takes up records
older than the last row, and the properties are false of it by design.
`AlarmsComplete` also assumes `Ample`, what the settings have to be for the rows
that are read back to be enough: no more addresses than `max_tracked_source_ips`;
a burst window no longer than the longest of the others, as
`_seed_detection_state_from_history` leaves that one out when it computes how far
back to read; and failure windows no longer than the success window, as a login
cuts the list of failures to that one. The default settings satisfy the last two,
and the first up to a hundred thousand addresses.

The loops over lists (`Kept`, `ByTime`, `Replayed`, `Drafts`) are recursive
functions. `Fold` of `Foundations` gives that such
a function has a value at every turn, and `Climb` that what holds before the
first turn and is kept by each holds after the last; so the lemmas say of every
list what the loop makes of it:

- `KeptShape`: the records that are wanted, in their order. `ByTimeShape`: the
  same records in order of time, each as often as before. `PrunedShape`: what
  is left of a list in order is exactly what the window holds.
- `TypeOK` is inductive with `LoggedByNow`: what is in the journal or collected
  was logged by now. Without it the year that `Parsed` gives a line could be
  that of a time after `LastTime` (`YearFacts`).
- `NoneBehindCursor` needs `CursorInv`: while a run collects, no row is later
  than its `since`; its batch is in order and none of it is older than any row.
  The step that matters is `Seed`: the second cut at `since`, after the year was
  filled in, is what keeps the batch above the rows (`CollectedShape`), and the
  sort is what keeps it so while rows are added one by one.
- `IncidentsAreRuns` rests on the invariant of the loop: after each second the
  drafts of an address are disjoint, cover what it has so far, are cut exactly
  at the long gaps and end in order (`DraftedRuns`, `DraftsRuns`). `Rebuilt`
  takes the relevant ones; a draft with a finding always is one, which is why no
  finding is without an incident (`RebuiltRuns`).
- `AlarmsSound` needs `AlarmInv`: no row is stored twice, and every list that the
  detector keeps is backed by rows (`AllShown`): there is a row of its own for
  each entry, of that time and kind, and the list is in order. The order is what
  makes pruning from the front exact, so what is counted is no more than the
  rows that are in the window (`CountedIs`). `NotedShown` and `ProcessedShown`
  give it of one record, `ReplayedShown` and `WarmedShown` of the loops that
  read rows back, in which the rows taken up so far back the lists. A finding
  stays borne out because rows are only added, at or after the last one, and
  what they add to the evidence at a row of the same second can only be more
  (`EvidenceGrows`, `DueStays`).
- `AlarmsComplete` needs the dual, `CompleteInv`: while a run goes through its
  batch, the lists hold every event that is within their window at the next
  record (`AllRemembered`), and an address is marked for a covered rule only if
  that has been found (`AlertsFound`). `NoMissedAlarm` then says that a rule that
  is due is seen when its last record is noted. Marks are where a run could lose
  a finding for good: a warm start throws the findings of the rows it reads back
  away and keeps their marks. `WarmedRemembered` shows that it does so only for
  findings that were made when those rows were stored: the events are stored in
  order, so what the warm start has read up to a row was stored before it, and
  what is due of those rows was due then (`NoFalseAlarm`, `DueStays`). So
  `Complete` itself is part of the induction. Findings of a run that failed
  count as made; they are the `lost` ones.

## 5. Only model-checked

Liveness: `FoundIsAlerted`, `SignalStops`, `ReaderEnds`, which rest on fairness
and `ENABLED`. The runs that expect a violation state what a document says and
the code does not do; there is nothing to prove of them.

## 6. Plan

Every safety property that a run checks is also a theorem. What could be added
is more of the system: the readers of the configuration and the audit checks, as
far as a property is about them.

## 7. Not modelled

- Parsers, collectors' text and audit checks: text of logs and of the host to
  records. Their results are the records that the modules enumerate.
- Installer: a linear script of privileged calls. Its rewrite of the
  configuration in place is listed as a hazard.
- Queries, hunting, reports, terminal and JSON output: they read and format.
- Configuration and command line: settings are the constants of the modules.
- Severities, messages and escalation notes, except the number a message gives.
- Audit findings through the tick: they use the same insert and alert path as
  the change and integrity findings.
- Run records, the schema and its migrations.
- Two ingestions at once: a second detector state would double what TLC has to
  explore, beyond the bounds at which the windows are of use.
