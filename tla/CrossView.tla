------------------------------ MODULE CrossView ------------------------------
(***************************************************************************)
(* The runs that look for hidden processes and ports: the collectors, the  *)
(* window of kernel events and the look at /proc while detecting are views *)
(* of one host at different times, and the host goes on in between.  The   *)
(* loader is what LossyQueue says of it, which EbpfLoader implements.      *)
(* Change detection, audit and alerts of these runs are in HostChange.     *)
(***************************************************************************)
EXTENDS RootkitRules

Collectors == {"processes", "network", "socket_fds"}

CONSTANTS
  Socket,        \* the inodes of listening sockets
  Lasting,       \* those of processes that were there before and stay, in the clear
  Deeds,         \* items for what a process may do, but for its pid
  Traits,        \* what the record of a process shows and lists, by pid
  Multithreaded, \* the pids whose processes have threads that end before them
  Mine,          \* the pids whose processes run as the user of an unprivileged run
  PacketSockets, \* how many packet sockets are open
  Capacity,      \* MAX_BUFFERED_EVENTS
  Enabled,       \* the sets of collectors that may be enabled and do not raise
  Modes,         \* a subset of {"daemon", "scan"}; full runs are like scans
  Roots,         \* whether runs are privileged, a subset of BOOLEAN
  MaxRuns,       \* bound on the runs
  MaxMoves       \* bound on what the host does in a run

ASSUME PidAssumption ==
  /\ Multithreaded \subseteq Pid /\ Mine \subseteq Pid
  /\ Pid \cap {Nobody, "new", "closed"} = {}
ASSUME SocketAssumption ==
  /\ Socket \subseteq Name /\ Lasting \subseteq Name /\ Socket \cap Lasting = {}
  /\ IsFiniteSet(Socket) /\ IsFiniteSet(Lasting)
ASSUME DeedAssumption ==
  /\ Deeds \subseteq {d \in Item : d.type \in EventTypes \ {"process_exit"}}
  /\ Traits \in [Pid -> [listed : BOOLEAN, shows : SUBSET Signs]]
ASSUME BoundAssumption ==
  PacketSockets \in Nat /\ Capacity \in Nat /\ MaxRuns \in Nat /\ MaxMoves \in Nat
ASSUME EnabledAssumption == Enabled \subseteq SUBSET Collectors
ASSUME ModeAssumption == Modes \subseteq {"daemon", "scan"} /\ Roots \subseteq BOOLEAN

VARIABLES
  alive,       \* by pid: "none", "visible" or "hidden"
  owner,       \* by socket: "new", "closed", or the pid that holds it
  creator,     \* by socket: whose uid it has
  offered, seen, queue, counted, open, taken,  \* the loader
  probing,     \* whether the child polls the ring buffer
  pc,          \* where the run is
  mode,
  root,
  attached,    \* what start returned
  todo,        \* enabled collectors still to run
  walk,        \* pids whose descriptors are still to be read
  processes, listeners, descriptors,  \* host records
  persisted,   \* how many of the events are in kernel_events
  found,       \* findings to be inserted
  stored,      \* rootkit_findings
  fresh,       \* those of this run
  born,        \* ghost: pids that came into use, hidden, in this run's window
  ended,       \* ghost: pids that a process of this run's window has left
  thinned,     \* ghost: pids that a thread has left
  unheard,     \* ghost: those of them of whose end the loader got no event
  stirred,     \* ghost: sockets opened, closed, passed on or hidden since it began
  drained,     \* ghost: how many events there were when drain returned
  runs,        \* runs begun
  moves        \* what the host did in this one

hostVars == <<alive, owner, creator>>
probeVars == <<offered, seen, queue, counted, open, taken>>
viewVars == <<processes, listeners, descriptors>>
ghostVars == <<born, ended, thinned, unheard, stirred, drained>>
runVars == <<pc, mode, root, attached, todo, walk, viewVars, persisted, found, stored, fresh>>
bounds == <<runs, moves>>
vars == <<hostVars, probeVars, probing, runVars, ghostVars, bounds>>

\* Every type of event is wanted.
Loader == INSTANCE LossyQueue WITH Event <- Item, Wanted <- Item

\* The host has been up for a while; a socket may have been passed on.
Init ==
  /\ alive \in [Pid -> {"none", "visible", "hidden"}]
  /\ owner \in [Socket -> {"new"} \cup {p \in Pid : alive[p] # "none"}]
  /\ creator \in [Socket -> Pid \cup {Nobody}]
  /\ \A s \in Socket : creator[s] = Nobody <=> owner[s] = "new"
  /\ Loader!Init
  /\ probing = FALSE
  /\ pc = "begin"
  /\ mode \in Modes
  /\ root \in Roots
  /\ attached = FALSE
  /\ todo = {} /\ walk = {}
  /\ processes = {} /\ listeners = {} /\ descriptors = {}
  /\ persisted = 0
  /\ found = {} /\ stored = {} /\ fresh = {}
  /\ born = {} /\ ended = {} /\ thinned = {} /\ unheard = {} /\ stirred = {}
  /\ drained = 0
  /\ runs = 0 /\ moves = 0

-----------------------------------------------------------------------------
(* The host. *)

Visible == {p \in Pid : alive[p] = "visible"}
Hidden == {p \in Pid : alive[p] = "hidden"}

\* The probe is there for an event, unless the ring buffer has no room.
Raise(e) ==
  \/ /\ probing
     /\ Loader!Offer(e)
  \/ UNCHANGED probeVars

\* A process does something; with an execve its pid may be new, and hidden at once.
Act(p, d, look) ==
  /\ \/ /\ alive[p] # "none"
        /\ look = alive[p]
        /\ UNCHANGED born
     \/ /\ alive[p] = "none"
        /\ d.type = "execve"
        /\ born' = IF probing /\ look = "hidden" THEN born \cup {p} ELSE born
  /\ alive' = [alive EXCEPT ![p] = look]
  /\ Raise([d EXCEPT !.pid = p])
  /\ UNCHANGED <<owner, creator, probing, runVars, ended, thinned, unheard, stirred, drained>>

Hide(p) ==
  /\ alive[p] = "visible"
  /\ alive' = [alive EXCEPT ![p] = "hidden"]
  /\ stirred' = stirred \cup {s \in Socket : owner[s] = p}
  /\ UNCHANGED <<owner, creator, probeVars, probing, runVars, born, ended, unheard,
                 thinned, drained>>

\* sched_process_exit is raised for every thread, and the probe sends the pid
\* of the process.
ExitEvent(p) == [NoItem EXCEPT !.type = "process_exit", !.pid = p]

ThreadExit(p) ==
  /\ p \in Multithreaded
  /\ alive[p] # "none"
  /\ thinned' = thinned \cup {p}
  /\ Raise(ExitEvent(p))
  /\ UNCHANGED <<hostVars, probing, runVars, born, ended, unheard, stirred,
                 drained>>

Exit(p) ==
  /\ alive[p] # "none"
  /\ alive' = [alive EXCEPT ![p] = "none"]
  /\ owner' = [s \in Socket |-> IF owner[s] = p THEN "closed" ELSE owner[s]]
  /\ ended' = ended \cup {p}
  /\ stirred' = stirred \cup {s \in Socket : owner[s] = p}
  /\ Raise(ExitEvent(p))
  /\ unheard' = IF offered' = offered THEN unheard \cup {p} ELSE unheard
  /\ UNCHANGED <<creator, probing, runVars, born, thinned, drained>>

\* A socket is in the hands of one process at a time.
Listen(p, s) ==
  /\ alive[p] # "none"
  /\ owner[s] = "new"
  /\ owner' = [owner EXCEPT ![s] = p]
  /\ creator' = [creator EXCEPT ![s] = p]
  /\ stirred' = stirred \cup {s}
  /\ UNCHANGED <<alive, probeVars, probing, runVars, born, ended, thinned, unheard,
                 drained>>

\* Closed, or handed to another process.
Release(s, to) ==
  /\ owner[s] \in Pid
  /\ to \in {"closed"} \cup {p \in Pid \ {owner[s]} : alive[p] # "none"}
  /\ owner' = [owner EXCEPT ![s] = to]
  /\ stirred' = stirred \cup {s}
  /\ UNCHANGED <<alive, creator, probeVars, probing, runVars, born, ended, thinned, unheard,
                 drained>>

\* Nothing looks at the host between the detection and the next run.
HostStep ==
  /\ pc \notin {"begin", "insert", "done"}
  /\ moves < MaxMoves
  /\ moves' = moves + 1
  /\ UNCHANGED runs
  /\ \/ \E p \in Pid, d \in Deeds, look \in {"visible", "hidden"} : Act(p, d, look)
     \/ \E p \in Pid : Hide(p) \/ ThreadExit(p) \/ Exit(p)
     \/ \E s \in Socket : \/ \E p \in Pid : Listen(p, s)
                          \/ \E to \in Pid \cup {"closed"} : Release(s, to)

-----------------------------------------------------------------------------
(* The run.  A tick collects and then opens the window; a scan the reverse. *)

Begin ==
  /\ pc \in {"begin", "done"}
  /\ ~probing
  /\ runs < MaxRuns
  /\ runs' = runs + 1
  /\ moves' = 0
  /\ Loader!Renew
  /\ mode' \in Modes
  /\ root' \in Roots
  /\ pc' = IF mode' = "daemon" THEN "collect" ELSE "start"
  /\ attached' = FALSE
  /\ todo' \in Enabled
  /\ walk' = {}
  /\ processes' = {} /\ listeners' = {} /\ descriptors' = {}
  /\ persisted' = 0
  /\ found' = {} /\ fresh' = {}
  /\ born' = {} /\ ended' = {} /\ thinned' = {} /\ unheard' = {} /\ stirred' = {}
  /\ drained' = 0
  /\ UNCHANGED <<hostVars, probing, stored>>

\* Of a process of the host, and of the run itself, which is always there.
Record(p) ==
  [NoItem EXCEPT !.type = "process", !.pid = p,
                 !.listed = Traits[p].listed, !.shows = Traits[p].shows]

OwnRecord == [NoItem EXCEPT !.type = "process"]

SocketRecord(s) == [NoItem EXCEPT !.type = "socket", !.pid = creator[s], !.name = s]

LastingRecords == {[NoItem EXCEPT !.type = "socket", !.name = s] : s \in Lasting}

\* The enabled collectors are a set of strings and run in any order.
CollectProcesses ==
  /\ pc = "collect" /\ walk = {}
  /\ "processes" \in todo
  /\ todo' = todo \ {"processes"}
  /\ processes' = {OwnRecord} \cup {Record(p) : p \in Visible}
  /\ UNCHANGED <<hostVars, probeVars, probing, pc, mode, root, attached, walk, listeners,
                 descriptors, persisted, found, stored, fresh, ghostVars>>

CollectNetwork ==
  /\ pc = "collect" /\ walk = {}
  /\ "network" \in todo
  /\ todo' = todo \ {"network"}
  /\ listeners' = {SocketRecord(s) : s \in {t \in Socket : owner[t] \in Pid}}
                    \cup LastingRecords
  /\ UNCHANGED <<hostVars, probeVars, probing, pc, mode, root, attached, walk, processes,
                 descriptors, persisted, found, stored, fresh, ghostVars>>

\* /proc is listed once, and the descriptors are read pid by pid.
CollectSocketFds ==
  /\ pc = "collect" /\ walk = {}
  /\ "socket_fds" \in todo
  /\ todo' = todo \ {"socket_fds"}
  /\ walk' = Visible
  /\ descriptors' = LastingRecords
  /\ UNCHANGED <<hostVars, probeVars, probing, pc, mode, root, attached, processes,
                 listeners, persisted, found, stored, fresh, ghostVars>>

\* Those of others cannot be read without root, nor those of a process that is gone.
ReadDescriptors(p) ==
  /\ p \in walk
  /\ walk' = walk \ {p}
  /\ descriptors' = IF p \in Visible /\ (root \/ p \in Mine)
                    THEN descriptors \cup
                           {SocketRecord(s) : s \in {t \in Socket : owner[t] = p}}
                    ELSE descriptors
  /\ UNCHANGED <<hostVars, probeVars, probing, pc, mode, root, attached, todo, processes,
                 listeners, persisted, found, stored, fresh, ghostVars>>

Goto(label) ==
  /\ pc' = label
  /\ UNCHANGED <<mode, root, todo, walk, viewVars, stored, fresh>>

Collected ==
  /\ pc = "collect" /\ todo = {} /\ walk = {}
  /\ Goto(IF mode = "daemon" THEN "start" ELSE "store")
  /\ UNCHANGED <<hostVars, probeVars, probing, attached, persisted, found, ghostVars>>

AfterWindow == IF mode = "daemon" THEN "store" ELSE "collect"

\* Mutant: the loader starts without root.
AttachUnprivileged ==
  /\ pc = "start"
  /\ probing' = TRUE
  /\ attached' = TRUE
  /\ Goto("window")
  /\ UNCHANGED <<hostVars, probeVars, persisted, found, ghostVars>>

\* start returns True ...
Attach ==
  /\ pc = "start"
  /\ root
  /\ probing' = TRUE
  /\ attached' = TRUE
  /\ Goto("window")
  /\ UNCHANGED <<hostVars, probeVars, persisted, found, ghostVars>>

\* ... or not: no loader, no root, or it is not attached in time.
NotAttached ==
  /\ pc = "start"
  /\ Goto(AfterWindow)
  /\ UNCHANGED <<hostVars, probeVars, probing, attached, persisted, found, ghostVars>>

\* The child may be gone before it is stopped; nobody asks.
ProbeGone ==
  /\ probing
  /\ probing' = FALSE
  /\ UNCHANGED <<hostVars, probeVars, runVars, ghostVars>>

Stop ==
  /\ pc = "window"
  /\ Loader!Close
  /\ Goto("drain")
  /\ UNCHANGED <<hostVars, probing, attached, persisted, found, ghostVars>>

\* After the child has ended.
Drain ==
  /\ pc = "drain"
  /\ ~probing
  /\ Loader!Take
  /\ drained' = Len(taken')
  /\ Goto(AfterWindow)
  /\ UNCHANGED <<hostVars, probing, attached, persisted, found, born, ended, thinned,
                 unheard, stirred>>

\* The reader thread: on its way, or late.  After the detection nobody uses the list.
Reader ==
  /\ pc \notin {"begin", "insert", "done"}
  /\ Loader!Accept \/ Loader!Count \/ Loader!Lose \/ (pc # "drain" /\ Loader!AcceptLate)
  /\ UNCHANGED <<hostVars, probing, runVars, ghostVars>>

\* Mutant: the events are not stored before the detection.
StoreNothing ==
  /\ pc = "store"
  /\ Goto("detect")
  /\ UNCHANGED <<hostVars, probeVars, probing, attached, persisted, found, ghostVars>>

\* A row is committed for each; one that is put into the list meanwhile is stored too.
StoreKernelEvents ==
  /\ pc = "store"
  /\ persisted' = Len(taken)
  /\ Goto("detect")
  /\ UNCHANGED <<hostVars, probeVars, probing, attached, found, ghostVars>>

\* Mutant: root sees no more than others.
DetectUnprivileged ==
  /\ pc = "detect"
  /\ found' = DetectRootkitActivity(taken, processes, listeners, descriptors, attached,
                                    Visible, PacketSockets, Mine)
  /\ Goto("insert")
  /\ UNCHANGED <<hostVars, probeVars, probing, attached, persisted, ghostVars>>

\* The same list once more, with a look at /proc.
Detect ==
  /\ pc = "detect"
  /\ found' = DetectRootkitActivity(taken, processes, listeners, descriptors, attached,
                                    Visible, PacketSockets, IF root THEN Pid ELSE Mine)
  /\ Goto("insert")
  /\ UNCHANGED <<hostVars, probeVars, probing, attached, persisted, ghostVars>>

\* A commit for each.  An insert that raises leaves some of them, which is less than
\* this and more than Fail.
InsertRootkitFindings ==
  /\ pc = "insert"
  /\ pc' = "done"
  /\ stored' = stored \cup found
  /\ fresh' = found \ stored
  /\ found' = {}
  /\ UNCHANGED <<hostVars, probeVars, probing, mode, root, attached, todo, walk,
                 viewVars, persisted, ghostVars>>

\* The stop may raise, and any insert.
Fail ==
  /\ pc \in {"drain", "store", "insert"}
  /\ Goto("begin")
  /\ UNCHANGED <<hostVars, probeVars, probing, attached, persisted, found, ghostVars>>

RunStep ==
  \/ CollectProcesses \/ CollectNetwork \/ CollectSocketFds
  \/ \E p \in Pid : ReadDescriptors(p)
  \/ Collected \/ Attach \/ NotAttached \/ Stop \/ Drain
  \/ StoreKernelEvents \/ Detect
  \/ InsertRootkitFindings \/ Fail

Next == HostStep \/ Begin \/ ((ProbeGone \/ Reader \/ RunStep) /\ UNCHANGED bounds)

Spec == Init /\ [][Next]_vars

-----------------------------------------------------------------------------
(* What the runs guarantee. *)

HostTyped ==
  /\ alive \in [Pid -> {"none", "visible", "hidden"}]
  /\ owner \in [Socket -> Pid \cup {"new", "closed"}]
  /\ creator \in [Socket -> Pid \cup {Nobody}]
  /\ (born \cup ended \cup thinned \cup unheard) \subseteq Pid /\ stirred \subseteq Socket

LoaderTyped ==
  /\ offered \in Seq(Item) /\ queue \in Seq(Item) /\ taken \in Seq(Item)
  /\ Len(queue) <= Capacity /\ seen \in 0 .. Len(offered) /\ counted \in Nat
  /\ open \in BOOLEAN
  /\ persisted \in 0 .. Len(taken) /\ drained \in 0 .. Len(taken)

RunTyped ==
  /\ probing \in BOOLEAN /\ attached \in BOOLEAN /\ root \in BOOLEAN
  /\ (attached => root)
  /\ pc \in {"begin", "collect", "start", "window", "drain", "store", "detect", "insert",
             "done"}
  /\ mode \in {"daemon", "scan"}
  /\ todo \subseteq Collectors
  /\ walk \subseteq Pid /\ (walk # {} => pc = "collect")
  /\ (processes \cup listeners \cup descriptors) \subseteq Item
  /\ (found \cup fresh) \subseteq Finding /\ fresh \subseteq stored

\* The type invariant; no more events are stored than were taken, only root attaches,
\* and what is about to be read belongs to a collector that runs.
TypeOK == HostTyped /\ LoaderTyped /\ RunTyped

Alarms(findings, type) == {f \in findings : f.type = type}

\* Wherever a run fails, a new finding on an event has the event in kernel_events,
\* unless the reader thread put it into the list after drain had returned it.
EveryAlarmHasItsEvent ==
  \A f \in fresh : f.evidence.type \in EventTypes =>
    \E i \in DOMAIN taken : taken[i] = f.evidence /\ (i <= persisted \/ i > drained)

\* Pids whose process came up hidden in the window and is there still.  A pid that was
\* left since, and may be in use again, is not among them.
StayedHidden == (born \cap Hidden) \ ended

Reported(p) ==
  \A i \in 1 .. drained : (taken[i].type = "execve" /\ taken[i].pid = p) =>
    One("possible_hidden_process", taken[i]) \in stored

\* A run that got through has reported every process that was hidden from its
\* execve in the window on, if the event was delivered; whichever comes first,
\* snapshot or window.  Not those of whose pid a thread has ended.
HiddenFound ==
  (pc = "done" /\ processes # {}) => \A p \in StayedHidden \ thinned : Reported(p)

\* The same of every such process, as the docstring of the detector has it.
HiddenReported ==
  (pc = "done" /\ processes # {}) => \A p \in StayedHidden : Reported(p)

\* Who is reported as hidden is, unless it ended and the event of its end was not
\* delivered: raised after the window or with no room in the ring buffer, or lost
\* or left out by the loader.
HiddenOnly ==
  [][\A f \in Alarms(found' \ found, "possible_hidden_process") :
       LET p == f.evidence.pid
       IN alive[p] = "hidden" \/ p \in unheard \/ taken # offered]_vars

\* A port that a hidden process has had open all the time is reported, in whatever
\* order the views were taken.
PortFound ==
  (pc = "done" /\ listeners # {} /\ descriptors # {}) =>
    \A s \in Socket \ stirred :
      (owner[s] \in Hidden /\ (root \/ creator[s] \in Mine)) =>
        One("possible_hidden_port", SocketRecord(s)) \in stored

\* A port is reported when its process is hidden, or it was opened, closed, passed on
\* or hidden since the run began; without root, also a port of one's own that another's
\* process holds, whose descriptors cannot be read.
PortOnly ==
  [][\A f \in Alarms(found' \ found, "possible_hidden_port") :
       LET s == f.evidence.name
       IN \/ owner[s] \in Hidden
          \/ s \in stirred
          \/ ~root /\ creator[s] \in Mine /\ owner[s] \notin Mine]_vars
=============================================================================
