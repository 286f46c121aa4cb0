---------------------------- MODULE CrossViewProofs ----------------------------
(***************************************************************************)
(* Proofs about CrossView, for every set of processes, sockets and deeds,  *)
(* both orders of snapshot and window, with root and without, and any      *)
(* number of runs and of moves of the host: types, and that what is        *)
(* reported and what is found are what the properties say.                 *)
(***************************************************************************)
EXTENDS CrossView, Foundations, FiniteSetTheorems, TLAPS

-----------------------------------------------------------------------------
(* What the detectors of RootkitRules return, whatever events and records  *)
(* they are given: what their findings show, and who makes which.          *)

\* The findings on one event each.
OnEvent(events) ==
  UNION {SuspiciousExecutions(events), KernelModuleLoads(events), UnexpectedBpfLoads(events),
         CredentialChanges(events), LogTampering(events), PtraceActivity(events),
         SuspiciousMount(events), NamespaceEnter(events)}

EventRules ==
  ExecutionSigns \cup {"kernel_module_loaded", "bpf_program_loaded", "credential_change",
                       "log_tampering", "ptrace_activity", "suspicious_mount",
                       "namespace_enter"}

LEMMA OnEventShape ==
  ASSUME NEW events, NEW f \in OnEvent(events)
  PROVE  \E t \in EventRules, e \in events : f = One(t, e)
<1> USE DEF OnEvent, Of, Unlisted, EventRules
<1>1. CASE f \in SuspiciousExecutions(events)
  BY <1>1 DEF SuspiciousExecutions
<1>2. CASE f \in KernelModuleLoads(events)
  BY <1>2 DEF KernelModuleLoads
<1>3. CASE f \in UnexpectedBpfLoads(events)
  BY <1>3 DEF UnexpectedBpfLoads
<1>4. CASE f \in CredentialChanges(events)
  BY <1>4 DEF CredentialChanges
<1>5. CASE f \in LogTampering(events)
  BY <1>5 DEF LogTampering
<1>6. CASE f \in PtraceActivity(events)
  BY <1>6 DEF PtraceActivity
<1>7. CASE f \in SuspiciousMount(events)
  BY <1>7 DEF SuspiciousMount
<1>8. CASE f \in NamespaceEnter(events)
  BY <1>8 DEF NamespaceEnter
<1>9. QED
  BY <1>1, <1>2, <1>3, <1>4, <1>5, <1>6, <1>7, <1>8

\* One on a name is counted, and shows the first event of the name.
LEMMA MemfdShape ==
  ASSUME NEW sequence \in Seq(Item), NEW f \in MemfdExecution(sequence)
  PROVE  \E n \in Nat, i \in DOMAIN sequence :
           f = [type |-> "memfd_create", count |-> n, evidence |-> sequence[i]]
<1> DEFINE at(name) == {i \in DOMAIN sequence :
                          sequence[i].type = "memfd_create" /\ sequence[i].name = name}
           first(name) == CHOOSE i \in at(name) : \A j \in at(name) : i <= j
           names == {sequence[i].name : i \in {j \in DOMAIN sequence :
                                                 sequence[j].type = "memfd_create"}}
<1>0. MemfdExecution(sequence) =
        {[type |-> "memfd_create", count |-> Cardinality(at(name)),
          evidence |-> sequence[first(name)]] : name \in names}
  BY DEF MemfdExecution
<1>1. PICK name \in names :
        f = [type |-> "memfd_create", count |-> Cardinality(at(name)),
             evidence |-> sequence[first(name)]]
  <2> HIDE DEF at, first, names
  <2> QED  BY <1>0
<1> DEFINE A == at(name)
<1>2. DOMAIN sequence = 1 .. Len(sequence) /\ Len(sequence) \in Nat
  OBVIOUS
<1>3. A \in SUBSET Nat /\ A # {} /\ A \subseteq DOMAIN sequence
  BY <1>1, <1>2
<1>4. \E i \in A : \A j \in A : i <= j
  <2> HIDE DEF A
  <2> QED  BY <1>3, Least
<1>5. first(name) \in A
  BY <1>4
<1>6. IsFiniteSet(1 .. Len(sequence))
  BY <1>2, FS_Interval
<1>7. IsFiniteSet(A)
  <2> HIDE DEF A
  <2> QED  BY <1>2, <1>3, <1>6, FS_Subset
<1>8. Cardinality(A) \in Nat
  <2> HIDE DEF A
  <2> QED  BY <1>7, FS_CardinalityType
<1>9. first(name) \in DOMAIN sequence
  <2> HIDE DEF A, first
  <2> QED  BY <1>3, <1>5
<1>10. QED
  <2> HIDE DEF first
  <2> QED  BY <1>1, <1>8, <1>9

ProcessRules == {"deleted_executable_running", "suspicious_process_location"}

LEMMA AnomalyShape ==
  ASSUME NEW records, NEW packets, NEW f \in ProcessAnomalies(records, packets)
  PROVE  \/ \E t \in ProcessRules, r \in records : f = One(t, r)
         \/ f = [type |-> "packet_sockets_present", count |-> packets, evidence |-> NoItem]
BY DEF ProcessAnomalies, ProcessRules

LEMMA PortShape ==
  ASSUME NEW listening, NEW held, NEW verifiable,
         NEW f \in HiddenPorts(listening, held, verifiable)
  PROVE  \/ f = [type |-> "listening_socket_summary", count |-> Cardinality(listening),
                 evidence |-> NoItem]
         \/ \E r \in listening : /\ f = One("possible_hidden_port", r)
                                 /\ r.name \notin {d.name : d \in held}
                                 /\ r.pid \in verifiable
                                 /\ held # {}
BY DEF HiddenPorts

Events(sequence) == {sequence[i] : i \in DOMAIN sequence}

LEMMA HiddenShape ==
  ASSUME NEW records, NEW sequence, NEW present,
         NEW f \in HiddenProcesses(records, Events(sequence), present)
  PROVE  \E i \in DOMAIN sequence : /\ f = One("possible_hidden_process", sequence[i])
                                    /\ sequence[i].type = "execve"
                                    /\ sequence[i].pid \notin Exited(Events(sequence))
                                    /\ sequence[i].pid \notin present
BY DEF HiddenProcesses, Of, Events

\* What the detection returns, by detector.
LEMMA DetectCases ==
  ASSUME NEW sequence \in Seq(Item), NEW records, NEW listening, NEW held, NEW visible,
         NEW present, NEW packets, NEW verifiable,
         NEW f \in DetectRootkitActivity(sequence, records, listening, held, visible, present,
                                        packets, verifiable)
  PROVE  \/ \E t \in EventRules, i \in DOMAIN sequence : f = One(t, sequence[i])
         \/ \E n \in Nat, i \in DOMAIN sequence :
              f = [type |-> "memfd_create", count |-> n, evidence |-> sequence[i]]
         \/ f \in HiddenProcesses(records, Events(sequence), present)
         \/ f \in ProcessAnomalies(records, packets)
         \/ f \in HiddenPorts(listening, held, verifiable)
         \/ f = One("kernel_visibility_limited", NoItem)
<1>1. \/ f \in OnEvent(Events(sequence)) \/ f \in MemfdExecution(sequence)
      \/ f \in HiddenProcesses(records, Events(sequence), present)
      \/ f \in ProcessAnomalies(records, packets)
      \/ f \in HiddenPorts(listening, held, verifiable)
      \/ f \in KernelVisibility(visible)
  BY DEF DetectRootkitActivity, OnEvent, Events
<1>2. CASE f \in OnEvent(Events(sequence))
  BY <1>2, OnEventShape DEF Events
<1>3. CASE f \in MemfdExecution(sequence)
  BY <1>3, MemfdShape
<1>4. CASE f \in KernelVisibility(visible)
  BY <1>4 DEF KernelVisibility
<1>5. QED
  BY <1>1, <1>2, <1>3, <1>4

\* The two views that are compared are among the detectors.
LEMMA DetectHas ==
  ASSUME NEW sequence, NEW records, NEW listening, NEW held, NEW visible,
         NEW present, NEW packets, NEW verifiable
  PROVE  HiddenProcesses(records, Events(sequence), present)
           \cup HiddenPorts(listening, held, verifiable)
         \subseteq DetectRootkitActivity(sequence, records, listening, held, visible, present,
                                        packets, verifiable)
BY DEF DetectRootkitActivity, Events

LEMMA NoItemTyped == NoItem \in Item
BY DEF NoItem, Item

LEMMA OneTyped == ASSUME NEW t \in Rules, NEW e \in Item PROVE One(t, e) \in Finding
BY DEF One, Finding

\* Findings are findings.
LEMMA DetectType ==
  ASSUME NEW sequence \in Seq(Item), NEW records \in SUBSET Item,
         NEW listening \in SUBSET Item, IsFiniteSet(listening), NEW held, NEW visible,
         NEW present, NEW packets \in Nat, NEW verifiable
  PROVE  DetectRootkitActivity(sequence, records, listening, held, visible, present,
                               packets, verifiable) \subseteq Finding
<1> SUFFICES ASSUME NEW f \in DetectRootkitActivity(sequence, records, listening, held, visible,
                                                   present, packets, verifiable)
             PROVE  f \in Finding
  OBVIOUS
<1>0. \A i \in DOMAIN sequence : sequence[i] \in Item
  OBVIOUS
<1>1. ASSUME NEW t \in EventRules, NEW i \in DOMAIN sequence, f = One(t, sequence[i])
      PROVE  f \in Finding
  <2>1. t \in Rules
    BY DEF EventRules, Rules
  <2>2. QED
    BY <1>0, <1>1, <2>1, OneTyped
<1>2. ASSUME NEW n \in Nat, NEW i \in DOMAIN sequence,
             f = [type |-> "memfd_create", count |-> n, evidence |-> sequence[i]]
      PROVE  f \in Finding
  BY <1>0, <1>2 DEF Finding, Rules
<1>3. CASE f \in HiddenProcesses(records, Events(sequence), present)
  BY <1>0, <1>3, HiddenShape, OneTyped DEF Rules
<1>4. CASE f \in ProcessAnomalies(records, packets)
  <2>1. CASE \E t \in ProcessRules, r \in records : f = One(t, r)
    BY <2>1, OneTyped DEF ProcessRules, Rules
  <2>2. CASE f = [type |-> "packet_sockets_present", count |-> packets, evidence |-> NoItem]
    BY <2>2, NoItemTyped DEF Finding, Rules
  <2>3. QED
    BY <1>4, <2>1, <2>2, AnomalyShape
<1>5. CASE f \in HiddenPorts(listening, held, verifiable)
  <2>1. CASE \E r \in listening : f = One("possible_hidden_port", r)
    BY <2>1, OneTyped DEF Rules
  <2>2. CASE f = [type |-> "listening_socket_summary", count |-> Cardinality(listening),
                  evidence |-> NoItem]
    BY <2>2, NoItemTyped, FS_CardinalityType DEF Finding, Rules
  <2>3. QED
    BY <1>5, <2>1, <2>2, PortShape
<1>6. CASE f = One("kernel_visibility_limited", NoItem)
  BY <1>6, NoItemTyped, OneTyped DEF Rules
<1>7. QED
  BY <1>1, <1>2, <1>3, <1>4, <1>5, <1>6, DetectCases

\* A finding on an event shows one of the events of the window.
LEMMA DetectEvidence ==
  ASSUME NEW sequence \in Seq(Item), NEW records, \A r \in records : r.type = "process",
         NEW listening, \A r \in listening : r.type = "socket", NEW held, NEW visible,
         NEW present, NEW packets, NEW verifiable,
         NEW f \in DetectRootkitActivity(sequence, records, listening, held, visible, present,
                                        packets, verifiable),
         f.evidence.type \in EventTypes
  PROVE  \E i \in DOMAIN sequence : sequence[i] = f.evidence
<1>0. NoItem.type \notin EventTypes /\ \A r \in records \cup listening : r.type \notin EventTypes
  BY DEF NoItem, EventTypes
<1>1. CASE \E t \in EventRules, i \in DOMAIN sequence : f = One(t, sequence[i])
  BY <1>1 DEF One
<1>2. CASE \E n \in Nat, i \in DOMAIN sequence :
             f = [type |-> "memfd_create", count |-> n, evidence |-> sequence[i]]
  BY <1>2
<1>3. CASE f \in HiddenProcesses(records, Events(sequence), present)
  BY <1>3, HiddenShape DEF One
<1>4. CASE f \in ProcessAnomalies(records, packets)
  BY <1>0, <1>4, AnomalyShape DEF One
<1>5. CASE f \in HiddenPorts(listening, held, verifiable)
  BY <1>0, <1>5, PortShape DEF One
<1>6. CASE f = One("kernel_visibility_limited", NoItem)
  BY <1>0, <1>6 DEF One
<1>7. QED
  BY <1>1, <1>2, <1>3, <1>4, <1>5, <1>6, DetectCases

\* Who makes the two alarms.
LEMMA DetectAlarm ==
  ASSUME NEW sequence \in Seq(Item), NEW records, NEW listening, NEW held, NEW visible,
         NEW present, NEW packets, NEW verifiable,
         NEW f \in DetectRootkitActivity(sequence, records, listening, held, visible, present,
                                        packets, verifiable)
  PROVE  /\ f.type = "possible_hidden_process" =>
              f \in HiddenProcesses(records, Events(sequence), present)
         /\ f.type = "possible_hidden_port" =>
              \E r \in listening : /\ f = One("possible_hidden_port", r)
                                  /\ r.name \notin {d.name : d \in held}
                                  /\ r.pid \in verifiable
                                  /\ held # {}
<1> DEFINE Alarming == {"possible_hidden_process", "possible_hidden_port"}
<1>1. ASSUME NEW t \in EventRules, NEW i \in DOMAIN sequence, f = One(t, sequence[i])
      PROVE  f.type \notin Alarming
  BY <1>1 DEF One, EventRules, ExecutionSigns
<1>2. CASE \E n \in Nat, i \in DOMAIN sequence :
             f = [type |-> "memfd_create", count |-> n, evidence |-> sequence[i]]
  BY <1>2
<1>3. CASE f \in HiddenProcesses(records, Events(sequence), present)
  BY <1>3, HiddenShape DEF One
<1>4. CASE f \in ProcessAnomalies(records, packets)
  BY <1>4, AnomalyShape DEF One, ProcessRules
<1>5. CASE f \in HiddenPorts(listening, held, verifiable)
  BY <1>5, PortShape DEF One
<1>6. CASE f = One("kernel_visibility_limited", NoItem)
  BY <1>6 DEF One
<1>7. QED
  BY <1>1, <1>2, <1>3, <1>4, <1>5, <1>6, DetectCases

-----------------------------------------------------------------------------
(* The types, with what kind of records the views hold. *)

ViewsTyped ==
  /\ \A r \in processes : r.type = "process"
  /\ \A r \in listeners : r.type = "socket"
  /\ IsFiniteSet(listeners)

TypeInv == TypeOK /\ ViewsTyped

-----------------------------------------------------------------------------
(* Who changes what. *)

\* The run, the child and the reader leave the host alone, ...
LEMMA RunLeavesHost ==
  ASSUME ProbeGone \/ Reader \/ RunStep
  PROVE  UNCHANGED <<alive, owner, creator, born, ended, thinned, unheard, stirred, offered>>
<1> USE DEF hostVars, probeVars, runVars, viewVars, ghostVars
<1>1. CASE ProbeGone
  BY <1>1 DEF ProbeGone
<1>2. CASE Reader
  BY <1>2 DEF Reader, Loader!Accept, Loader!Count, Loader!Lose, Loader!AcceptLate
<1>3. CASE CollectProcesses
  BY <1>3 DEF CollectProcesses
<1>4. CASE CollectNetwork
  BY <1>4 DEF CollectNetwork
<1>5. CASE CollectSocketFds
  BY <1>5 DEF CollectSocketFds
<1>6. CASE Collected
  BY <1>6 DEF Collected, Goto
<1>7. CASE Attach
  BY <1>7 DEF Attach, Goto
<1>8. CASE NotAttached
  BY <1>8 DEF NotAttached, Goto
<1>9. CASE Stop
  BY <1>9 DEF Stop, Goto, Loader!Close
<1>10. CASE Drain
  BY <1>10 DEF Drain, Goto, Loader!Take
<1>11. CASE StoreKernelEvents
  BY <1>11 DEF StoreKernelEvents, Goto
<1>12. CASE Detect
  BY <1>12 DEF Detect, Goto
<1>13. CASE InsertRootkitFindings
  BY <1>13 DEF InsertRootkitFindings
<1>14. CASE Fail
  BY <1>14 DEF Fail, Goto
<1>15. ASSUME NEW p \in Pid, ReadDescriptors(p)
      PROVE  UNCHANGED <<alive, owner, creator, born, ended, thinned, unheard, stirred, offered>>
  BY <1>15 DEF ReadDescriptors
<1>16. QED
  BY <1>1, <1>2, <1>3, <1>4, <1>5, <1>6, <1>7, <1>8, <1>9, <1>10, <1>11,
     <1>12, <1>13, <1>14, <1>15 DEF RunStep

\* ... and the host does nothing to the run but raise events.
LEMMA HostLeavesRun ==
  ASSUME HostStep
  PROVE  /\ UNCHANGED <<probing, runVars, drained, seen, queue, counted, open, taken, runs>>
         /\ pc \notin {"begin", "insert", "done"}
<1> USE DEF HostStep, runVars, viewVars, probeVars, Raise, Loader!Offer
<1> DEFINE Left == UNCHANGED <<probing, runVars, drained, seen, queue, counted, open, taken>>
<1>1. ASSUME NEW p \in Pid, NEW d \in Deeds, NEW look, Act(p, d, look) PROVE Left
  BY <1>1 DEF Act
<1>2. ASSUME NEW p \in Pid, Hide(p) PROVE Left
  BY <1>2 DEF Hide
<1>3. ASSUME NEW p \in Pid, ThreadExit(p) PROVE Left
  BY <1>3 DEF ThreadExit
<1>4. ASSUME NEW p \in Pid, Exit(p) PROVE Left
  BY <1>4 DEF Exit
<1>5. ASSUME NEW p \in Pid, NEW t \in Socket, Listen(p, t) PROVE Left
  BY <1>5 DEF Listen
<1>6. ASSUME NEW t \in Socket, NEW to, Release(t, to) PROVE Left
  BY <1>6 DEF Release
<1>7. QED
  BY <1>1, <1>2, <1>3, <1>4, <1>5, <1>6

-----------------------------------------------------------------------------
(* The types are kept. *)

LEMMA HostType == HostTyped /\ [Next]_vars => HostTyped'
<1> SUFFICES ASSUME HostTyped, [Next]_vars PROVE HostTyped'
  OBVIOUS
<1> USE DEF HostTyped
<1>1. ASSUME NEW p \in Pid, NEW d \in Deeds, NEW look \in {"visible", "hidden"}, Act(p, d, look)
      PROVE  HostTyped'
  BY <1>1 DEF Act
<1>2. ASSUME NEW p \in Pid, Hide(p) PROVE HostTyped'
  BY <1>2 DEF Hide
<1>3. ASSUME NEW p \in Pid, ThreadExit(p) PROVE HostTyped'
  BY <1>3 DEF ThreadExit, hostVars
<1>4. ASSUME NEW p \in Pid, Exit(p) PROVE HostTyped'
  BY <1>4 DEF Exit
<1>5. ASSUME NEW p \in Pid, NEW t \in Socket, Listen(p, t) PROVE HostTyped'
  BY <1>5 DEF Listen
<1>6. ASSUME NEW t \in Socket, NEW to \in Pid \cup {"closed"}, Release(t, to) PROVE HostTyped'
  BY <1>6 DEF Release
<1>7. ASSUME Begin PROVE HostTyped'
  BY <1>7 DEF Begin, hostVars
<1>8. CASE ProbeGone \/ Reader \/ RunStep
  BY <1>8, RunLeavesHost
<1>9. CASE UNCHANGED vars
  BY <1>9 DEF vars, hostVars, ghostVars
<1>10. QED
  BY <1>1, <1>2, <1>3, <1>4, <1>5, <1>6, <1>7, <1>8, <1>9 DEF Next, HostStep

\* What the host raises is an item.
LEMMA RaisedTyped ==
  ASSUME NEW p \in Pid
  PROVE  /\ ExitEvent(p) \in Item
         /\ \A d \in Deeds : [d EXCEPT !.pid = p] \in Item
<1>1. ExitEvent(p) \in Item
  BY DEF ExitEvent, NoItem, Item, EventTypes
<1>2. ASSUME NEW d \in Deeds PROVE [d EXCEPT !.pid = p] \in Item
  <2>1. d \in Item
    BY DeedAssumption
  <2>2. QED
    BY <2>1 DEF Item
<1>3. QED
  BY <1>1, <1>2

LEMMA LoaderType == LoaderTyped /\ [Next]_vars => LoaderTyped'
<1> SUFFICES ASSUME LoaderTyped, [Next]_vars PROVE LoaderTyped'
  OBVIOUS
<1>0. Capacity \in Nat
  BY BoundAssumption
<1>1. ASSUME UNCHANGED <<probeVars, persisted, drained>> PROVE LoaderTyped'
  BY <1>1 DEF LoaderTyped, probeVars
<1>2. ASSUME NEW e \in Item, Raise(e), UNCHANGED <<persisted, drained>> PROVE LoaderTyped'
  <2>1. CASE UNCHANGED probeVars
    BY <1>1, <1>2, <2>1
  <2>2. CASE Loader!Offer(e)
    BY <1>2, <2>2 DEF LoaderTyped, Loader!Offer
  <2>3. QED
    BY <1>2, <2>1, <2>2 DEF Raise
<1>3. ASSUME HostStep PROVE LoaderTyped'
  <2>1. UNCHANGED <<persisted, drained>>
    BY <1>3, HostLeavesRun DEF runVars
  <2>2. ASSUME NEW p \in Pid, NEW d \in Deeds, NEW look, Act(p, d, look) PROVE LoaderTyped'
    BY <1>2, <2>1, <2>2, RaisedTyped DEF Act
  <2>3. ASSUME NEW p \in Pid, Hide(p) PROVE LoaderTyped'
    BY <1>1, <2>1, <2>3 DEF Hide
  <2>4. ASSUME NEW p \in Pid, ThreadExit(p) PROVE LoaderTyped'
    BY <1>2, <2>1, <2>4, RaisedTyped DEF ThreadExit
  <2>5. ASSUME NEW p \in Pid, Exit(p) PROVE LoaderTyped'
    BY <1>2, <2>1, <2>5, RaisedTyped DEF Exit
  <2>6. ASSUME NEW p \in Pid, NEW t \in Socket, Listen(p, t) PROVE LoaderTyped'
    BY <1>1, <2>1, <2>6 DEF Listen
  <2>7. ASSUME NEW t \in Socket, NEW to, Release(t, to) PROVE LoaderTyped'
    BY <1>1, <2>1, <2>7 DEF Release
  <2>8. QED
    BY <1>3, <2>2, <2>3, <2>4, <2>5, <2>6, <2>7 DEF HostStep
<1>4. ASSUME Begin PROVE LoaderTyped'
  BY <1>0, <1>4 DEF Begin, Loader!Renew, LoaderTyped
<1>5. ASSUME Reader PROVE LoaderTyped'
  <2> USE DEF Loader!Look, LoaderTyped
  <2>0. UNCHANGED <<persisted, drained>>
    BY <1>5 DEF Reader, runVars, ghostVars
  <2>1. CASE Loader!Accept
    BY <1>0, <2>0, <2>1 DEF Loader!Accept
  <2>2. CASE Loader!Count
    BY <2>0, <2>2 DEF Loader!Count
  <2>3. CASE Loader!Lose
    BY <2>0, <2>3 DEF Loader!Lose
  <2>4. CASE Loader!AcceptLate
    BY <2>0, <2>4 DEF Loader!AcceptLate
  <2>5. QED
    BY <1>5, <2>1, <2>2, <2>3, <2>4 DEF Reader
<1>6. ASSUME Stop PROVE LoaderTyped'
  BY <1>6 DEF Stop, Loader!Close, LoaderTyped, ghostVars
<1>7. ASSUME Drain PROVE LoaderTyped'
  <2>1. /\ taken' = taken \o queue /\ queue' = <<>> /\ drained' = Len(taken')
        /\ UNCHANGED <<offered, seen, counted, open, persisted>>
    BY <1>7 DEF Drain, Loader!Take
  <2>2. taken' \in Seq(Item) /\ Len(taken') = Len(taken) + Len(queue)
    BY <2>1 DEF LoaderTyped
  <2>3. QED
    BY <1>0, <2>1, <2>2 DEF LoaderTyped
<1>8. ASSUME StoreKernelEvents PROVE LoaderTyped'
  BY <1>8 DEF StoreKernelEvents, LoaderTyped, probeVars, ghostVars
<1>9. ASSUME \/ CollectProcesses \/ CollectNetwork \/ CollectSocketFds \/ Collected \/ Attach
             \/ NotAttached \/ Detect \/ InsertRootkitFindings \/ Fail \/ ProbeGone
             \/ \E p \in Pid : ReadDescriptors(p)
      PROVE  UNCHANGED <<probeVars, persisted, drained>>
  BY <1>9
  DEF CollectProcesses, CollectNetwork, CollectSocketFds, Collected, Attach, NotAttached,
      Detect, InsertRootkitFindings, Fail, ProbeGone, ReadDescriptors, runVars, ghostVars
<1>10. CASE UNCHANGED vars
  BY <1>1, <1>10 DEF vars, runVars, ghostVars
<1>11. QED
  BY <1>1, <1>3, <1>4, <1>5, <1>6, <1>7, <1>8, <1>9, <1>10 DEF Next, RunStep

\* What the collectors record is an item of its kind.
LEMMA ProcessRecords ==
  /\ OwnRecord \in Item /\ OwnRecord.type = "process" /\ OwnRecord.pid = Nobody
  /\ \A p \in Pid : Record(p) \in Item /\ Record(p).type = "process" /\ Record(p).pid = p
<1>1. OwnRecord \in Item /\ OwnRecord.type = "process" /\ OwnRecord.pid = Nobody
  BY DEF OwnRecord, NoItem, Item
<1>2. ASSUME NEW p \in Pid
      PROVE  Record(p) \in Item /\ Record(p).type = "process" /\ Record(p).pid = p
  <2>1. Traits[p] \in [listed : BOOLEAN, shows : SUBSET Signs]
    BY DeedAssumption
  <2>2. Record(p) \in Item
    BY <2>1 DEF Record, NoItem, Item
  <2>3. Record(p).type = "process" /\ Record(p).pid = p
    BY DEF Record, NoItem
  <2>4. QED
    BY <2>2, <2>3
<1>3. QED
  BY <1>1, <1>2

LEMMA SocketRecordTyped ==
  ASSUME HostTyped, NEW s \in Socket
  PROVE  /\ SocketRecord(s) \in Item /\ SocketRecord(s).type = "socket"
         /\ SocketRecord(s).pid = creator[s] /\ SocketRecord(s).name = s
<1>1. creator[s] \in Pid \cup {Nobody} /\ s \in Name
  BY SocketAssumption DEF HostTyped
<1>2. SocketRecord(s) \in Item
  BY <1>1 DEF SocketRecord, NoItem, Item
<1>3. /\ SocketRecord(s).type = "socket"
      /\ SocketRecord(s).pid = creator[s] /\ SocketRecord(s).name = s
  BY DEF SocketRecord, NoItem
<1>4. QED
  BY <1>2, <1>3

LEMMA LastingTyped ==
  ASSUME NEW r \in LastingRecords
  PROVE  r \in Item /\ r.type = "socket" /\ r.pid = Nobody /\ r.name \in Lasting
<1>1. PICK t \in Lasting : r = [NoItem EXCEPT !.type = "socket", !.name = t]
  BY DEF LastingRecords
<1>2. t \in Name
  BY SocketAssumption
<1>3. r \in Item
  BY <1>1, <1>2 DEF NoItem, Item
<1>4. r.type = "socket" /\ r.pid = Nobody /\ r.name \in Lasting
  BY <1>1 DEF NoItem
<1>5. QED
  BY <1>3, <1>4

\* There are finitely many listeners, as there are sockets.
LEMMA ListenersFinite ==
  ASSUME NEW S \in SUBSET Socket
  PROVE  IsFiniteSet({SocketRecord(s) : s \in S} \cup LastingRecords)
<1> DEFINE A == {SocketRecord(s) : s \in S}
           f == [s \in S |-> SocketRecord(s)]
           g == [t \in Lasting |-> [NoItem EXCEPT !.type = "socket", !.name = t]]
<1>1. IsFiniteSet(S) /\ IsFiniteSet(Lasting)
  BY SocketAssumption, FS_Subset
<1>2. f \in Surjection(S, A)
  BY DEF Surjection
<1>3. g \in Surjection(Lasting, LastingRecords)
  BY DEF Surjection, LastingRecords
<1>4. IsFiniteSet(A)
  <2> HIDE DEF A, f
  <2> QED  BY <1>1, <1>2, FS_Surjection
<1>5. IsFiniteSet(LastingRecords)
  <2> HIDE DEF g
  <2> QED  BY <1>1, <1>3, FS_Surjection
<1>6. QED
  BY <1>4, <1>5, FS_Union

Runs == RunTyped /\ ViewsTyped

LEMMA RunType == TypeInv /\ [Next]_vars => (RunTyped /\ ViewsTyped)'
<1> SUFFICES ASSUME TypeInv, [Next]_vars PROVE Runs'
  BY DEF Runs
<1>0. HostTyped /\ LoaderTyped /\ RunTyped /\ ViewsTyped /\ Visible \subseteq Pid
  BY DEF TypeInv, TypeOK, Visible
<1> USE DEF Runs, viewVars, runVars
<1>1. ASSUME UNCHANGED <<probing, runVars>> PROVE Runs'
  BY <1>0, <1>1 DEF RunTyped, ViewsTyped
<1>2. ASSUME HostStep PROVE Runs'
  BY <1>1, <1>2, HostLeavesRun
<1>3. ASSUME Begin PROVE Runs'
  <2>1. IsFiniteSet({})
    BY FS_EmptySet
  <2>2. todo' \subseteq Collectors
    BY <1>3, EnabledAssumption DEF Begin
  <2>3. mode' \in {"daemon", "scan"} /\ root' \in BOOLEAN
    BY <1>3, ModeAssumption DEF Begin
  <2>4. QED
    BY <1>0, <1>3, <2>1, <2>2, <2>3 DEF Begin, RunTyped, ViewsTyped
<1>4. ASSUME ProbeGone PROVE Runs'
  BY <1>0, <1>4 DEF ProbeGone, RunTyped, ViewsTyped
<1>5. ASSUME Reader PROVE Runs'
  BY <1>1, <1>5 DEF Reader
<1>6. ASSUME CollectProcesses PROVE Runs'
  <2>1. processes' \subseteq Item /\ \A r \in processes' : r.type = "process"
    BY <1>0, <1>6, ProcessRecords DEF CollectProcesses
  <2>2. QED
    BY <1>0, <1>6, <2>1 DEF CollectProcesses, RunTyped, ViewsTyped
<1>7. ASSUME CollectNetwork PROVE Runs'
  <2>1. listeners' \subseteq Item /\ \A r \in listeners' : r.type = "socket"
    BY <1>0, <1>7, SocketRecordTyped, LastingTyped DEF CollectNetwork
  <2>2. IsFiniteSet(listeners')
    BY <1>7, ListenersFinite DEF CollectNetwork
  <2>3. QED
    BY <1>0, <1>7, <2>1, <2>2 DEF CollectNetwork, RunTyped, ViewsTyped
<1>8. ASSUME CollectSocketFds PROVE Runs'
  <2>1. descriptors' \subseteq Item /\ walk' \subseteq Pid
    BY <1>0, <1>8, LastingTyped DEF CollectSocketFds
  <2>2. QED
    BY <1>0, <1>8, <2>1 DEF CollectSocketFds, RunTyped, ViewsTyped
<1>9. ASSUME NEW p \in Pid, ReadDescriptors(p) PROVE Runs'
  <2>1. descriptors' \subseteq Item
    BY <1>0, <1>9, SocketRecordTyped DEF ReadDescriptors, RunTyped
  <2>2. QED
    BY <1>0, <1>9, <2>1 DEF ReadDescriptors, RunTyped, ViewsTyped
<1> USE DEF Goto
<1>10. ASSUME Collected PROVE Runs'
  BY <1>0, <1>10 DEF Collected, RunTyped, ViewsTyped
<1>11. ASSUME Attach PROVE Runs'
  BY <1>0, <1>11 DEF Attach, RunTyped, ViewsTyped
<1>12. ASSUME NotAttached PROVE Runs'
  BY <1>0, <1>12 DEF NotAttached, AfterWindow, RunTyped, ViewsTyped
<1>13. ASSUME Stop PROVE Runs'
  BY <1>0, <1>13 DEF Stop, RunTyped, ViewsTyped
<1>14. ASSUME Drain PROVE Runs'
  BY <1>0, <1>14 DEF Drain, AfterWindow, RunTyped, ViewsTyped
<1>15. ASSUME StoreKernelEvents PROVE Runs'
  <2>1. UNCHANGED <<probing, attached, found>> /\ Goto("detect") /\ pc = "store"
    BY <1>15 DEF StoreKernelEvents
  <2>2. QED
    BY <1>0, <2>1 DEF RunTyped, ViewsTyped
<1>16. ASSUME Detect PROVE Runs'
  <2>1. found' \subseteq Finding
    BY <1>0, <1>16, DetectType, BoundAssumption
    DEF Detect, RunTyped, LoaderTyped, ViewsTyped
  <2>2. QED
    BY <1>0, <1>16, <2>1 DEF Detect, RunTyped, ViewsTyped
<1>17. ASSUME InsertRootkitFindings PROVE Runs'
  BY <1>0, <1>17 DEF InsertRootkitFindings, RunTyped, ViewsTyped
<1>18. ASSUME Fail PROVE Runs'
  BY <1>0, <1>18 DEF Fail, RunTyped, ViewsTyped
<1>19. CASE UNCHANGED vars
  BY <1>1, <1>19 DEF vars
<1>20. QED
  BY <1>2, <1>3, <1>4, <1>5, <1>6, <1>7, <1>8, <1>9, <1>10, <1>11, <1>12, <1>13, <1>14,
     <1>15, <1>16, <1>17, <1>18, <1>19 DEF Next, RunStep

LEMMA InitType == Init => TypeInv
<1> SUFFICES ASSUME Init PROVE TypeInv
  OBVIOUS
<1>1. HostTyped
  BY DEF Init, HostTyped
<1>2. LoaderTyped
  <2>1. <<>> \in Seq(Item) /\ Len(<<>>) = 0 /\ Capacity \in Nat
    BY BoundAssumption
  <2>2. QED
    BY <2>1 DEF Init, Loader!Init, LoaderTyped
<1>3. RunTyped /\ ViewsTyped
  BY FS_EmptySet, ModeAssumption DEF Init, RunTyped, ViewsTyped
<1>4. QED
  BY <1>1, <1>2, <1>3 DEF TypeInv, TypeOK

LEMMA NextType == TypeInv /\ [Next]_vars => TypeInv'
BY HostType, LoaderType, RunType DEF TypeInv, TypeOK

\* The type invariant holds whatever the processes, sockets, deeds and bounds are: no
\* more is stored than was taken, only root attaches, the buffer keeps its bound.
THEOREM TypeCorrect == Spec => []TypeOK
<1>1. TypeInv => TypeOK
  BY DEF TypeInv
<1>2. QED
  BY <1>1, InitType, NextType, PTL DEF Spec

-----------------------------------------------------------------------------
(* Every alarm has its event. *)

\* A finding that shows an event shows one that was taken.
EvidenceInv ==
  /\ pc # "done" => fresh = {}
  /\ pc \in {"detect", "insert", "done"} => drained <= persisted
  /\ \A f \in found \cup fresh :
       f.evidence.type \in EventTypes => \E i \in DOMAIN taken : taken[i] = f.evidence

\* The list only grows in a run.
Grows == \A i \in DOMAIN taken : i \in DOMAIN taken' /\ taken'[i] = taken[i]

LEMMA TakenGrows == ASSUME TypeInv, [Next]_vars, ~Begin PROVE Grows
<1> USE DEF TypeInv, TypeOK, LoaderTyped, Grows, probeVars
<1>1. CASE UNCHANGED taken
  BY <1>1
<1>2. CASE HostStep
  BY <1>1, <1>2, HostLeavesRun
<1>3. CASE Reader
  <2>1. CASE Loader!AcceptLate
    BY <2>1 DEF Loader!AcceptLate, Loader!Look
  <2>2. QED
    BY <1>1, <1>3, <2>1 DEF Reader, Loader!Accept, Loader!Count, Loader!Lose
<1>4. CASE Drain
  BY <1>4 DEF Drain, Loader!Take
<1>5. CASE (RunStep /\ ~Drain) \/ ProbeGone \/ UNCHANGED vars
  <2>1. UNCHANGED taken
    BY <1>5
    DEF RunStep, CollectProcesses, CollectNetwork, CollectSocketFds, Collected, Attach,
        NotAttached, Stop, Loader!Close, StoreKernelEvents, Detect, InsertRootkitFindings,
        Fail, ProbeGone, ReadDescriptors, vars
  <2>2. QED
    BY <1>1, <2>1
<1>6. QED
  BY <1>2, <1>3, <1>4, <1>5 DEF Next

LEMMA NextEvidence == TypeInv /\ EvidenceInv /\ [Next]_vars => EvidenceInv'
<1> SUFFICES ASSUME TypeInv, EvidenceInv, [Next]_vars PROVE EvidenceInv'
  OBVIOUS
<1> USE DEF EvidenceInv, viewVars, runVars, ghostVars, probeVars
<1>1. ASSUME Begin PROVE EvidenceInv'
  BY <1>1 DEF Begin
<1>2. ASSUME Grows, UNCHANGED <<found, fresh>>
      PROVE  \A f \in (found \cup fresh)' :
               f.evidence.type \in EventTypes => \E i \in DOMAIN taken' : taken'[i] = f.evidence
  BY <1>2 DEF Grows
<1>3. ASSUME ~Begin, UNCHANGED <<found, fresh, drained, persisted>>,
             pc' = "done" => pc = "done",
             pc' \in {"detect", "insert", "done"} => pc \in {"detect", "insert", "done"},
             pc = "done" => pc' = "done"
      PROVE  EvidenceInv'
  BY <1>2, <1>3, TakenGrows
<1>4. CASE HostStep
  <2>1. ~Begin
    BY <1>4, HostLeavesRun DEF Begin
  <2>2. QED
    BY <1>3, <1>4, <2>1, HostLeavesRun
<1>5. CASE ~Begin /\ (ProbeGone \/ Reader)
  BY <1>3, <1>5 DEF ProbeGone, Reader
<1>6. CASE ~Begin /\ (CollectProcesses \/ CollectNetwork \/ CollectSocketFds
                       \/ \E p \in Pid : ReadDescriptors(p))
  BY <1>3, <1>6 DEF CollectProcesses, CollectNetwork, CollectSocketFds, ReadDescriptors
<1> USE DEF Goto
<1>7. CASE ~Begin /\ (Collected \/ Attach \/ NotAttached \/ Stop)
  BY <1>3, <1>7 DEF Collected, Attach, NotAttached, Stop, AfterWindow
<1>8. CASE ~Begin /\ Drain
  <2>1. UNCHANGED <<found, fresh>> /\ pc # "done" /\ pc' \in {"store", "collect"}
    BY <1>8 DEF Drain, AfterWindow
  <2>2. QED
    BY <1>2, <1>8, <2>1, TakenGrows
<1>9. CASE ~Begin /\ StoreKernelEvents
  <2>1. /\ UNCHANGED <<found, fresh, drained, taken>> /\ pc = "store" /\ pc' = "detect"
        /\ persisted' = Len(taken)
    BY <1>9 DEF StoreKernelEvents
  <2>2. drained \in 0 .. Len(taken)
    BY DEF TypeInv, TypeOK, LoaderTyped
  <2>3. QED
    BY <2>1, <2>2
<1>10. CASE ~Begin /\ Detect
  <2>1. /\ UNCHANGED <<fresh, drained, persisted, taken>> /\ pc = "detect" /\ pc' = "insert"
        /\ fresh = {}
    BY <1>10 DEF Detect
  <2>2. \A f \in found' :
          f.evidence.type \in EventTypes => \E i \in DOMAIN taken : taken[i] = f.evidence
    BY <1>10, DetectEvidence DEF Detect, TypeInv, TypeOK, LoaderTyped, ViewsTyped
  <2>3. QED
    BY <2>1, <2>2
<1>11. CASE ~Begin /\ InsertRootkitFindings
  BY <1>11 DEF InsertRootkitFindings
<1>12. CASE ~Begin /\ Fail
  BY <1>2, <1>12, TakenGrows DEF Fail
<1>13. CASE UNCHANGED vars
  BY <1>13 DEF vars
<1>14. QED
  BY <1>1, <1>4, <1>5, <1>6, <1>7, <1>8, <1>9, <1>10, <1>11, <1>12, <1>13 DEF Next, RunStep

\* A run that stored a finding on an event has stored the event, unless the reader put it
\* into the list after drain; whichever runs fail, and whatever the reader does.
THEOREM AlarmsCorrect == Spec => []EveryAlarmHasItsEvent
<1>1. Init => EvidenceInv
  BY DEF Init, EvidenceInv
<1>2. TypeInv /\ EvidenceInv => EveryAlarmHasItsEvent
  <2> SUFFICES ASSUME TypeInv, EvidenceInv, NEW f \in fresh, f.evidence.type \in EventTypes
               PROVE  \E i \in DOMAIN taken :
                        taken[i] = f.evidence /\ (i <= persisted \/ i > drained)
    BY DEF EveryAlarmHasItsEvent
  <2>1. drained <= persisted /\ \E i \in DOMAIN taken : taken[i] = f.evidence
    BY DEF EvidenceInv
  <2>2. persisted \in Nat /\ drained \in Nat /\ DOMAIN taken \subseteq Nat
    BY DEF TypeInv, TypeOK, LoaderTyped
  <2>3. QED
    BY <2>1, <2>2
<1>3. QED
  BY <1>1, <1>2, InitType, NextType, NextEvidence, PTL DEF Spec

-----------------------------------------------------------------------------
(* Who is reported as hidden. *)

\* What the events of the window say of the host: a pid that executed is alive, or the
\* event of its end is there, or was not heard; an event of an end is of a process or of
\* a thread.
EventInv ==
  \A i \in DOMAIN offered :
    LET p == offered[i].pid
    IN /\ p \in Pid
       /\ offered[i].type = "execve" =>
            \/ alive[p] # "none" \/ p \in unheard
            \/ \E j \in DOMAIN offered : offered[j].type = "process_exit" /\ offered[j].pid = p
       /\ offered[i].type = "process_exit" => p \in ended \cup thinned

\* The probe's event is one more, or was not delivered.
LEMMA Raised ==
  ASSUME NEW e, Raise(e), offered \in Seq(Item), e \in Item
  PROVE  \/ offered' = offered
         \/ /\ offered' = Append(offered, e) /\ offered' # offered
            /\ DOMAIN offered' = DOMAIN offered \cup {Len(offered) + 1}
            /\ offered'[Len(offered) + 1] = e
            /\ \A i \in DOMAIN offered : offered'[i] = offered[i]
<1>1. CASE UNCHANGED probeVars
  BY <1>1 DEF probeVars
<1>2. CASE Loader!Offer(e)
  <2>1. offered' = Append(offered, e)
    BY <1>2 DEF Loader!Offer
  <2>2. Len(offered') = Len(offered) + 1 /\ Len(offered) \in Nat
    BY <2>1
  <2>3. offered' # offered
    BY <2>2
  <2>4. QED
    BY <2>1, <2>3
<1>3. QED
  BY <1>1, <1>2 DEF Raise

\* The same events, of pids that are no less alive, unheard, ended or thinned.
LEMMA EventStays ==
  ASSUME EventInv, offered' = offered, unheard \subseteq unheard',
         ended \subseteq ended', thinned \subseteq thinned',
         \A p \in Pid : alive[p] # "none" => alive'[p] # "none"
  PROVE  EventInv'
BY DEF EventInv

LEMMA NextEvent == TypeInv /\ EventInv /\ [Next]_vars => EventInv'
<1> SUFFICES ASSUME TypeInv, EventInv, [Next]_vars PROVE EventInv'
  OBVIOUS
<1>0. HostTyped /\ offered \in Seq(Item)
  BY DEF TypeInv, TypeOK, LoaderTyped
<1> USE DEF HostTyped
<1>1. ASSUME NEW p \in Pid, NEW d \in Deeds, NEW look \in {"visible", "hidden"}, Act(p, d, look)
      PROVE  EventInv'
  <2> DEFINE e == [d EXCEPT !.pid = p]
  <2>1. /\ alive' = [alive EXCEPT ![p] = look] /\ Raise(e)
        /\ UNCHANGED <<ended, thinned, unheard>>
    BY <1>1 DEF Act
  <2>2. d \in Item /\ d.type # "process_exit" /\ e \in Item
    BY DeedAssumption, RaisedTyped
  <2>3. e.pid = p /\ e.type # "process_exit"
    BY <2>2 DEF Item
  <2>4. \A q \in Pid : alive[q] # "none" => alive'[q] # "none"
    BY <1>0, <2>1
  <2>5. alive'[p] # "none"
    BY <1>0, <2>1
  <2> HIDE DEF e
  <2>6. CASE offered' = offered
    BY <2>1, <2>4, <2>6, EventStays
  <2>7. CASE offered' # offered
    <3>1. /\ DOMAIN offered' = DOMAIN offered \cup {Len(offered) + 1}
          /\ offered'[Len(offered) + 1] = e
          /\ \A i \in DOMAIN offered : offered'[i] = offered[i]
      BY <1>0, <2>1, <2>2, <2>7, Raised
    <3>2. QED
      BY <2>1, <2>3, <2>4, <2>5, <3>1 DEF EventInv
  <2>8. QED
    BY <2>6, <2>7
<1>2. ASSUME NEW p \in Pid, Hide(p) PROVE EventInv'
  <2>1. /\ alive' = [alive EXCEPT ![p] = "hidden"]
        /\ UNCHANGED <<ended, thinned, unheard, offered>>
    BY <1>2 DEF Hide, probeVars
  <2>2. QED
    BY <1>0, <2>1, EventStays
<1>3. ASSUME NEW p \in Pid, ThreadExit(p) PROVE EventInv'
  <2>1. /\ thinned' = thinned \cup {p} /\ Raise(ExitEvent(p))
        /\ UNCHANGED <<alive, ended, unheard>>
    BY <1>3 DEF ThreadExit, hostVars
  <2>2. ExitEvent(p) \in Item /\ ExitEvent(p).pid = p /\ ExitEvent(p).type = "process_exit"
    BY RaisedTyped DEF ExitEvent, NoItem
  <2>3. CASE offered' = offered
    BY <2>1, <2>3, EventStays
  <2>4. CASE offered' # offered
    <3>1. /\ DOMAIN offered' = DOMAIN offered \cup {Len(offered) + 1}
          /\ offered'[Len(offered) + 1] = ExitEvent(p)
          /\ \A i \in DOMAIN offered : offered'[i] = offered[i]
      BY <1>0, <2>1, <2>2, <2>4, Raised
    <3>2. QED
      BY <2>1, <2>2, <3>1 DEF EventInv
  <2>5. QED
    BY <2>3, <2>4
<1>4. ASSUME NEW p \in Pid, Exit(p) PROVE EventInv'
  <2>1. /\ alive' = [alive EXCEPT ![p] = "none"] /\ ended' = ended \cup {p}
        /\ Raise(ExitEvent(p)) /\ thinned' = thinned
        /\ unheard' = IF offered' = offered THEN unheard \cup {p} ELSE unheard
    BY <1>4 DEF Exit
  <2>2. ExitEvent(p) \in Item /\ ExitEvent(p).pid = p /\ ExitEvent(p).type = "process_exit"
    BY RaisedTyped DEF ExitEvent, NoItem
  <2>3. \A q \in Pid : q # p => alive'[q] = alive[q]
    BY <1>0, <2>1
  <2>4. CASE offered' = offered
    <3>1. unheard' = unheard \cup {p}
      BY <2>1, <2>4
    <3>2. QED
      BY <2>1, <2>3, <2>4, <3>1 DEF EventInv
  <2>5. CASE offered' # offered
    <3>1. unheard' = unheard
      BY <2>1, <2>5
    <3>2. /\ DOMAIN offered' = DOMAIN offered \cup {Len(offered) + 1}
          /\ offered'[Len(offered) + 1] = ExitEvent(p)
          /\ \A i \in DOMAIN offered : offered'[i] = offered[i]
      BY <1>0, <2>1, <2>2, <2>5, Raised
    <3>3. QED
      BY <2>1, <2>2, <2>3, <3>1, <3>2 DEF EventInv
  <2>6. QED
    BY <2>4, <2>5
<1>5. ASSUME NEW p \in Pid, NEW t \in Socket, Listen(p, t) PROVE EventInv'
  BY <1>5, EventStays DEF Listen, probeVars
<1>6. ASSUME NEW t \in Socket, NEW to, Release(t, to) PROVE EventInv'
  BY <1>6, EventStays DEF Release, probeVars
<1>7. ASSUME Begin PROVE EventInv'
  BY <1>7 DEF Begin, Loader!Renew, EventInv
<1>8. CASE ProbeGone \/ Reader \/ RunStep
  BY <1>8, RunLeavesHost, EventStays
<1>9. CASE UNCHANGED vars
  BY <1>9, EventStays DEF vars, hostVars, ghostVars, probeVars
<1>10. QED
  BY <1>1, <1>2, <1>3, <1>4, <1>5, <1>6, <1>7, <1>8, <1>9 DEF Next, HostStep

\* New findings are made by the detection only.
LEMMA OnlyDetectFinds == ASSUME [Next]_vars, ~Detect PROVE found' \subseteq found
<1> USE DEF runVars, viewVars
<1>1. CASE HostStep
  BY <1>1, HostLeavesRun
<1>2. CASE Begin
  BY <1>2 DEF Begin
<1>3. CASE ProbeGone \/ Reader
  BY <1>3 DEF ProbeGone, Reader
<1>4. CASE RunStep
  BY <1>4
  DEF RunStep, CollectProcesses, CollectNetwork, CollectSocketFds, Collected, Attach,
      NotAttached, Stop, Drain, StoreKernelEvents, InsertRootkitFindings, Fail, ReadDescriptors
<1>5. CASE UNCHANGED vars
  BY <1>5 DEF vars
<1>6. QED
  BY <1>1, <1>2, <1>3, <1>4, <1>5 DEF Next

\* Who is reported as hidden is hidden, or has ended and the event of that was not
\* delivered; however the snapshot, the window and the look at /proc lie.
THEOREM ReportedIsHidden == Spec => HiddenOnly
<1>1. Init => EventInv
  BY DEF Init, Loader!Init, EventInv
<1>2. TypeInv /\ EventInv /\ [Next]_vars
      => [\A f \in Alarms(found' \ found, "possible_hidden_process") :
            LET p == f.evidence.pid
            IN alive[p] = "hidden" \/ p \in unheard \/ taken # offered]_vars
  <2> SUFFICES ASSUME TypeInv, EventInv, [Next]_vars,
                      NEW f \in found' \ found, f.type = "possible_hidden_process",
                      taken = offered, f.evidence.pid \notin unheard
               PROVE  alive[f.evidence.pid] = "hidden"
    BY DEF Alarms
  <2>1. Detect
    BY OnlyDetectFinds
  <2>2. HostTyped /\ taken \in Seq(Item)
    BY DEF TypeInv, TypeOK, LoaderTyped
  <2>3. f \in HiddenProcesses(processes, Events(taken), Visible)
    BY <2>1, <2>2, DetectAlarm DEF Detect
  <2>4. PICK i \in DOMAIN taken : /\ f = One("possible_hidden_process", taken[i])
                                  /\ taken[i].type = "execve"
                                  /\ taken[i].pid \notin Exited(Events(taken))
                                  /\ taken[i].pid \notin Visible
    BY <2>3, HiddenShape
  <2>5. f.evidence = taken[i] /\ taken[i].pid \in Pid /\ taken[i].pid \notin unheard
    BY <2>4 DEF One, EventInv
  <2>6. ~\E j \in DOMAIN taken : taken[j].type = "process_exit" /\ taken[j].pid = taken[i].pid
    BY <2>4 DEF Exited, Of, Events
  <2>7. alive[taken[i].pid] # "none"
    BY <2>4, <2>5, <2>6 DEF EventInv
  <2>8. QED
    BY <2>2, <2>4, <2>5, <2>7 DEF HostTyped, Visible
<1>3. QED
  BY <1>1, <1>2, InitType, NextType, NextEvent, PTL DEF Spec, HiddenOnly

-----------------------------------------------------------------------------
(* Who is found. *)

\* Whatever the loader has was offered.
TakenInv ==
  /\ \A i \in DOMAIN queue : \E j \in DOMAIN offered : offered[j] = queue[i]
  /\ \A i \in DOMAIN taken : \E j \in DOMAIN offered : offered[j] = taken[i]

LEMMA NextTaken == TypeInv /\ TakenInv /\ [Next]_vars => TakenInv'
<1> SUFFICES ASSUME TypeInv, TakenInv, [Next]_vars PROVE TakenInv'
  OBVIOUS
<1>0. offered \in Seq(Item) /\ queue \in Seq(Item) /\ taken \in Seq(Item) /\ seen \in Nat
  BY DEF TypeInv, TypeOK, LoaderTyped
<1>1. ASSUME UNCHANGED <<offered, queue, taken>> PROVE TakenInv'
  BY <1>1 DEF TakenInv
<1>2. ASSUME NEW e \in Item, Raise(e), UNCHANGED <<queue, taken>> PROVE TakenInv'
  <2>1. CASE offered' = offered
    BY <1>1, <1>2, <2>1
  <2>2. CASE offered' # offered
    BY <1>0, <1>2, <2>2, Raised DEF TakenInv
  <2>3. QED
    BY <2>1, <2>2
<1>3. CASE HostStep
  <2>1. UNCHANGED <<queue, taken>>
    BY <1>3, HostLeavesRun
  <2> USE <2>1
  <2>2. ASSUME NEW p \in Pid, NEW d \in Deeds, NEW look, Act(p, d, look) PROVE TakenInv'
    BY <1>2, <2>2, RaisedTyped DEF Act
  <2>3. ASSUME NEW p \in Pid, ThreadExit(p) \/ Exit(p) PROVE TakenInv'
    BY <1>2, <2>3, RaisedTyped DEF ThreadExit, Exit
  <2>4. ASSUME NEW p \in Pid, Hide(p) PROVE TakenInv'
    BY <1>1, <2>4 DEF Hide, probeVars
  <2>5. ASSUME NEW p \in Pid, NEW t \in Socket, Listen(p, t) PROVE TakenInv'
    BY <1>1, <2>5 DEF Listen, probeVars
  <2>6. ASSUME NEW t \in Socket, NEW to, Release(t, to) PROVE TakenInv'
    BY <1>1, <2>6 DEF Release, probeVars
  <2>7. QED
    BY <1>3, <2>2, <2>3, <2>4, <2>5, <2>6 DEF HostStep
<1>4. CASE Begin
  BY <1>4 DEF Begin, Loader!Renew, TakenInv
<1>5. CASE Reader
  <2>1. ASSUME Loader!Look
        PROVE  seen' \in DOMAIN offered
    BY <1>0, <2>1 DEF Loader!Look
  <2>2. ASSUME NEW s \in Seq(Item), \A i \in DOMAIN s : \E j \in DOMAIN offered : offered[j] = s[i],
               NEW k \in DOMAIN offered
        PROVE  \A i \in DOMAIN Append(s, offered[k]) :
                 \E j \in DOMAIN offered : offered[j] = Append(s, offered[k])[i]
    <3>1. offered[k] \in Item
      BY <1>0
    <3>2. /\ DOMAIN Append(s, offered[k]) = DOMAIN s \cup {Len(s) + 1}
          /\ Append(s, offered[k])[Len(s) + 1] = offered[k]
          /\ \A i \in DOMAIN s : Append(s, offered[k])[i] = s[i]
      BY <3>1
    <3>3. QED
      BY <2>2, <3>2
  <2>3. CASE Loader!Accept \/ Loader!AcceptLate
    <3>1. offered' = offered /\ seen' \in DOMAIN offered
      BY <2>1, <2>3 DEF Loader!Accept, Loader!AcceptLate
    <3>2. \/ queue' = Append(queue, offered[seen']) /\ taken' = taken
          \/ taken' = Append(taken, offered[seen']) /\ queue' = queue
      BY <2>3 DEF Loader!Accept, Loader!AcceptLate
    <3>3. CASE queue' = Append(queue, offered[seen']) /\ taken' = taken
      BY <1>0, <2>2, <3>1, <3>3 DEF TakenInv
    <3>4. CASE taken' = Append(taken, offered[seen']) /\ queue' = queue
      BY <1>0, <2>2, <3>1, <3>4 DEF TakenInv
    <3>5. QED
      BY <3>2, <3>3, <3>4
  <2>4. CASE Loader!Count \/ Loader!Lose
    BY <1>1, <2>4 DEF Loader!Count, Loader!Lose
  <2>5. QED
    BY <1>5, <2>3, <2>4 DEF Reader
<1>6. CASE Drain
  <2>1. offered' = offered /\ queue' = <<>> /\ taken' = taken \o queue
    BY <1>6 DEF Drain, Loader!Take
  <2>2. \A i \in DOMAIN taken' : \/ i \in DOMAIN taken /\ taken'[i] = taken[i]
                                 \/ /\ i - Len(taken) \in DOMAIN queue
                                    /\ taken'[i] = queue[i - Len(taken)]
    BY <1>0, <2>1
  <2>3. QED
    BY <2>1, <2>2 DEF TakenInv
<1>7. CASE ProbeGone \/ Stop
  BY <1>1, <1>7 DEF ProbeGone, Stop, Loader!Close, probeVars
<1>8. CASE \/ CollectProcesses \/ CollectNetwork \/ CollectSocketFds \/ Collected \/ Attach
           \/ NotAttached \/ StoreKernelEvents \/ Detect \/ InsertRootkitFindings \/ Fail
           \/ \E p \in Pid : ReadDescriptors(p)
  BY <1>1, <1>8
  DEF CollectProcesses, CollectNetwork, CollectSocketFds, Collected, Attach, NotAttached,
      StoreKernelEvents, Detect, InsertRootkitFindings, Fail, ReadDescriptors, probeVars
<1>9. CASE UNCHANGED vars
  BY <1>1, <1>9 DEF vars, probeVars
<1>10. QED
  BY <1>3, <1>4, <1>5, <1>6, <1>7, <1>8, <1>9 DEF Next, RunStep

\* What came up hidden in the window and has not ended is hidden, and in no snapshot,
\* before or after.
BornInv ==
  /\ \A p \in born \ ended : alive[p] = "hidden"
  /\ \A r \in processes : r.pid \in Pid \ ended => r.pid \notin born /\ alive[r.pid] # "none"

LEMMA NextBorn == TypeInv /\ BornInv /\ [Next]_vars => BornInv'
<1> SUFFICES ASSUME TypeInv, BornInv, [Next]_vars PROVE BornInv'
  OBVIOUS
<1>0. HostTyped
  BY DEF TypeInv, TypeOK
<1> USE DEF HostTyped, BornInv
<1>1. CASE HostStep
  <2>1. processes' = processes
    BY <1>1, HostLeavesRun DEF runVars, viewVars
  <2> USE <2>1
  <2>2. ASSUME NEW p \in Pid, NEW d \in Deeds, NEW look \in {"visible", "hidden"}, Act(p, d, look)
        PROVE  BornInv'
    <3>1. ended' = ended /\ alive' = [alive EXCEPT ![p] = look]
      BY <2>2 DEF Act
    <3>2. CASE alive[p] # "none"
      BY <1>0, <2>2, <3>1, <3>2 DEF Act
    <3>3. CASE alive[p] = "none"
      BY <1>0, <2>2, <3>1, <3>3 DEF Act
    <3>4. QED
      BY <3>2, <3>3
  <2>3. ASSUME NEW p \in Pid, Hide(p) PROVE BornInv'
    BY <1>0, <2>3 DEF Hide
  <2>4. ASSUME NEW p \in Pid, ThreadExit(p) PROVE BornInv'
    BY <2>4 DEF ThreadExit, hostVars
  <2>5. ASSUME NEW p \in Pid, Exit(p) PROVE BornInv'
    BY <1>0, <2>5 DEF Exit
  <2>6. ASSUME NEW p \in Pid, NEW t \in Socket, Listen(p, t) PROVE BornInv'
    BY <2>6 DEF Listen
  <2>7. ASSUME NEW t \in Socket, NEW to, Release(t, to) PROVE BornInv'
    BY <2>7 DEF Release
  <2>8. QED
    BY <1>1, <2>2, <2>3, <2>4, <2>5, <2>6, <2>7 DEF HostStep
<1>2. CASE Begin
  BY <1>2 DEF Begin
<1>3. CASE CollectProcesses
  <2>1. UNCHANGED <<alive, born, ended>>
    BY <1>3 DEF CollectProcesses, hostVars, ghostVars
  <2>2. \A r \in processes' : r.pid \in Pid => alive[r.pid] = "visible"
    BY <1>3, ProcessRecords, PidAssumption DEF CollectProcesses, Visible
  <2>3. QED
    BY <2>1, <2>2
<1>4. CASE ProbeGone \/ Reader \/ (RunStep /\ ~CollectProcesses)
  <2>1. UNCHANGED <<alive, born, ended>>
    BY <1>4, RunLeavesHost
  <2>2. processes' = processes
    BY <1>4
    DEF ProbeGone, Reader, RunStep, CollectNetwork, CollectSocketFds, ReadDescriptors,
        Collected, Attach, NotAttached, Stop, Drain, StoreKernelEvents, Detect,
        InsertRootkitFindings, Fail, Goto, runVars, viewVars
  <2>3. QED
    BY <2>1, <2>2
<1>5. CASE UNCHANGED vars
  BY <1>5 DEF vars, hostVars, ghostVars, runVars, viewVars
<1>6. QED
  BY <1>1, <1>2, <1>3, <1>4, <1>5 DEF Next

-----------------------------------------------------------------------------
(* The sockets. *)

\* A socket that is open is held by a process that lives, and was created by one.
OwnerInv ==
  \A s \in Socket : owner[s] \in Pid => alive[owner[s]] # "none" /\ creator[s] \in Pid

LEMMA InitOwner == Init => OwnerInv
BY PidAssumption DEF Init, OwnerInv

LEMMA NextOwner == TypeInv /\ OwnerInv /\ [Next]_vars => OwnerInv'
<1> SUFFICES ASSUME TypeInv, OwnerInv, [Next]_vars PROVE OwnerInv'
  OBVIOUS
<1>0. HostTyped /\ Pid \cap {Nobody, "new", "closed"} = {}
  BY PidAssumption DEF TypeInv, TypeOK
<1> USE DEF HostTyped, OwnerInv
<1>1. ASSUME NEW p \in Pid, NEW d \in Deeds, NEW look \in {"visible", "hidden"}, Act(p, d, look)
      PROVE  OwnerInv'
  BY <1>0, <1>1 DEF Act
<1>2. ASSUME NEW p \in Pid, Hide(p) PROVE OwnerInv'
  BY <1>0, <1>2 DEF Hide
<1>3. ASSUME NEW p \in Pid, ThreadExit(p) PROVE OwnerInv'
  BY <1>3 DEF ThreadExit, hostVars
<1>4. ASSUME NEW p \in Pid, Exit(p) PROVE OwnerInv'
  <2>1. /\ alive' = [alive EXCEPT ![p] = "none"] /\ creator' = creator
        /\ owner' = [s \in Socket |-> IF owner[s] = p THEN "closed" ELSE owner[s]]
    BY <1>4 DEF Exit
  <2>2. ASSUME NEW s \in Socket, owner'[s] \in Pid PROVE owner'[s] = owner[s] /\ owner[s] # p
    BY <1>0, <2>1, <2>2
  <2>3. QED
    BY <1>0, <2>1, <2>2
<1>5. ASSUME NEW p \in Pid, NEW t \in Socket, Listen(p, t) PROVE OwnerInv'
  BY <1>0, <1>5 DEF Listen
<1>6. ASSUME NEW t \in Socket, NEW to \in Pid \cup {"closed"}, Release(t, to) PROVE OwnerInv'
  BY <1>0, <1>6 DEF Release
<1>7. CASE Begin
  BY <1>7 DEF Begin, hostVars
<1>8. CASE ProbeGone \/ Reader \/ RunStep
  BY <1>8, RunLeavesHost
<1>9. CASE UNCHANGED vars
  BY <1>9 DEF vars, hostVars
<1>10. QED
  BY <1>1, <1>2, <1>3, <1>4, <1>5, <1>6, <1>7, <1>8, <1>9 DEF Next, HostStep

\* What the two views say of the sockets that nothing happened to: a listener is one of
\* them, and of those a process in the clear holds the descriptors are read or still to be.
SocketInv ==
  /\ listeners # {} =>
       \A s \in Socket \ stirred : owner[s] \in Pid => SocketRecord(s) \in listeners
  /\ \A r \in listeners : r.pid \in Pid =>
       /\ r.name \in Socket
       /\ r.name \in stirred \/ (r = SocketRecord(r.name) /\ owner[r.name] \in Pid)
  /\ \A d \in descriptors : d.name \notin Lasting =>
       /\ d.name \in Socket
       /\ d.name \in stirred \/ owner[d.name] \in Visible
  /\ (descriptors # {} \/ walk # {}) =>
       \A s \in Socket \ stirred :
         (owner[s] \in Visible /\ (root \/ owner[s] \in Mine)) =>
           owner[s] \in walk \/ \E d \in descriptors : d.name = s

Views == <<listeners, descriptors, walk, root>>

\* Whatever happens, it stirs the sockets it happens to.
LEMMA SocketStays ==
  ASSUME HostTyped, SocketInv, UNCHANGED Views, stirred \subseteq stirred',
         \A s \in Socket \ stirred' :
           /\ owner'[s] = owner[s] /\ creator'[s] = creator[s]
           /\ owner[s] \in Pid => alive'[owner[s]] = alive[owner[s]]
  PROVE  SocketInv'
<1>1. \A s \in Socket \ stirred' :
        /\ SocketRecord(s)' = SocketRecord(s)
        /\ owner'[s] = owner[s]
        /\ owner[s] \in Visible' <=> owner[s] \in Visible
  BY DEF SocketRecord, Visible
<1>2. QED
  BY <1>1 DEF SocketInv, Views

LEMMA NextSocket == TypeInv /\ OwnerInv /\ SocketInv /\ [Next]_vars => SocketInv'
<1> SUFFICES ASSUME TypeInv, OwnerInv, SocketInv, [Next]_vars PROVE SocketInv'
  OBVIOUS
<1>0. HostTyped /\ Pid \cap {Nobody, "new", "closed"} = {} /\ Visible \subseteq Pid
  BY PidAssumption DEF TypeInv, TypeOK, Visible
<1>1. CASE HostStep
  <2>0. UNCHANGED Views
    BY <1>1, HostLeavesRun DEF runVars, viewVars, Views
  <2> DEFINE Kept ==
        /\ stirred \subseteq stirred'
        /\ \A s \in Socket \ stirred' :
             /\ owner'[s] = owner[s] /\ creator'[s] = creator[s]
             /\ owner[s] \in Pid => alive'[owner[s]] = alive[owner[s]]
  <2> USE <1>0 DEF HostTyped
  <2>1. ASSUME NEW p \in Pid, NEW d \in Deeds, NEW look, Act(p, d, look) PROVE Kept
    BY <2>1 DEF Act, OwnerInv
  <2>2. ASSUME NEW p \in Pid, Hide(p) PROVE Kept
    BY <2>2 DEF Hide
  <2>3. ASSUME NEW p \in Pid, ThreadExit(p) PROVE Kept
    BY <2>3 DEF ThreadExit, hostVars
  <2>4. ASSUME NEW p \in Pid, Exit(p) PROVE Kept
    BY <2>4 DEF Exit
  <2>5. ASSUME NEW p \in Pid, NEW t \in Socket, Listen(p, t) PROVE Kept
    BY <2>5 DEF Listen
  <2>6. ASSUME NEW t \in Socket, NEW to, Release(t, to) PROVE Kept
    BY <2>6 DEF Release
  <2>7. Kept
    <3> HIDE DEF Kept
    <3> QED  BY <1>1, <2>1, <2>2, <2>3, <2>4, <2>5, <2>6 DEF HostStep
  <2>8. QED
    BY <2>0, <2>7, SocketStays
<1>2. CASE Begin
  BY <1>2 DEF Begin, SocketInv
<1>3. CASE CollectNetwork
  <2>1. UNCHANGED <<alive, owner, creator, stirred, descriptors, walk, root>>
    BY <1>3 DEF CollectNetwork, hostVars, ghostVars
  <2>2. listeners' = {SocketRecord(s) : s \in {t \in Socket : owner[t] \in Pid}}
                       \cup LastingRecords
    BY <1>3 DEF CollectNetwork
  <2>3. \A s \in Socket : SocketRecord(s)' = SocketRecord(s)
    BY <2>1 DEF SocketRecord
  <2>4. Visible' = Visible
    BY <2>1 DEF Visible
  <2>5. \A r \in listeners' : r.pid \in Pid =>
          r.name \in Socket /\ r = SocketRecord(r.name) /\ owner[r.name] \in Pid
    BY <1>0, <2>2, SocketRecordTyped, LastingTyped
  <2>6. QED
    BY <2>1, <2>2, <2>3, <2>4, <2>5 DEF SocketInv
<1>4. CASE CollectSocketFds
  <2>1. UNCHANGED <<alive, owner, creator, stirred, listeners, root>>
    BY <1>4 DEF CollectSocketFds, hostVars, ghostVars
  <2>2. walk' = Visible /\ descriptors' = LastingRecords
    BY <1>4 DEF CollectSocketFds
  <2>3. \A s \in Socket : SocketRecord(s)' = SocketRecord(s)
    BY <2>1 DEF SocketRecord
  <2>4. Visible' = Visible
    BY <2>1 DEF Visible
  <2>5. \A d \in descriptors' : d.name \in Lasting
    BY <2>2, LastingTyped
  <2>6. QED
    BY <2>1, <2>2, <2>3, <2>4, <2>5 DEF SocketInv
<1>5. ASSUME NEW p \in Pid, ReadDescriptors(p) PROVE SocketInv'
  <2>1. UNCHANGED <<alive, owner, creator, stirred, listeners, root>>
    BY <1>5 DEF ReadDescriptors, hostVars, ghostVars
  <2>2. \A s \in Socket : SocketRecord(s)' = SocketRecord(s)
    BY <2>1 DEF SocketRecord
  <2>3. Visible' = Visible
    BY <2>1 DEF Visible
  <2>4. p \in walk /\ walk' = walk \ {p} /\ descriptors \subseteq descriptors'
    BY <1>5 DEF ReadDescriptors
  <2>5. \A d \in descriptors' \ descriptors : d.name \in Socket /\ owner[d.name] \in Visible
    BY <1>0, <1>5, SocketRecordTyped DEF ReadDescriptors
  <2>6. ASSUME NEW s \in Socket, owner[s] = p, p \in Visible, root \/ p \in Mine
        PROVE  \E d \in descriptors' : d.name = s
    <3>1. SocketRecord(s) \in descriptors' /\ SocketRecord(s).name = s
      BY <1>0, <1>5, <2>6, SocketRecordTyped DEF ReadDescriptors
    <3>2. QED
      BY <3>1
  <2>7. QED
    BY <2>1, <2>2, <2>3, <2>4, <2>5, <2>6 DEF SocketInv
<1>6. CASE ProbeGone \/ Reader \/ (RunStep /\ ~CollectNetwork /\ ~CollectSocketFds
                                     /\ ~\E p \in Pid : ReadDescriptors(p))
  <2>1. UNCHANGED <<alive, owner, creator, stirred>>
    BY <1>6, RunLeavesHost
  <2>2. UNCHANGED Views
    BY <1>6
    DEF ProbeGone, Reader, RunStep, CollectProcesses, Collected, Attach, NotAttached, Stop,
        Drain, StoreKernelEvents, Detect, InsertRootkitFindings, Fail, Goto, runVars,
        viewVars, Views
  <2>3. QED
    BY <1>0, <2>1, <2>2, SocketStays
<1>7. CASE UNCHANGED vars
  BY <1>0, <1>7, SocketStays DEF vars, hostVars, ghostVars, runVars, viewVars, Views
<1>8. QED
  BY <1>1, <1>2, <1>3, <1>4, <1>5, <1>6, <1>7 DEF Next, RunStep

SocketsInv == OwnerInv /\ SocketInv

LEMMA InitSockets == Init => SocketsInv
BY InitOwner DEF Init, SocketInv, SocketsInv

LEMMA NextSockets == TypeInv /\ SocketsInv /\ [Next]_vars => SocketsInv'
BY NextOwner, NextSocket DEF SocketsInv

\* A port is reported when its process is hidden, or something happened to it since the
\* run began; without root, also one's own that a process of somebody else holds.
THEOREM ReportedPort == Spec => PortOnly
<1>1. TypeInv /\ SocketsInv /\ [Next]_vars
      => [\A f \in Alarms(found' \ found, "possible_hidden_port") :
            LET s == f.evidence.name
            IN \/ owner[s] \in Hidden
               \/ s \in stirred
               \/ ~root /\ creator[s] \in Mine /\ owner[s] \notin Mine]_vars
  <2> SUFFICES ASSUME TypeInv, OwnerInv, SocketInv, [Next]_vars,
                      NEW f \in found' \ found, f.type = "possible_hidden_port",
                      owner[f.evidence.name] \notin Hidden, f.evidence.name \notin stirred
               PROVE  /\ ~root
                      /\ creator[f.evidence.name] \in Mine
                      /\ owner[f.evidence.name] \notin Mine
    BY DEF Alarms, SocketsInv
  <2>1. Detect
    BY OnlyDetectFinds
  <2>2. HostTyped /\ taken \in Seq(Item) /\ walk = {}
    BY <2>1 DEF TypeInv, TypeOK, LoaderTyped, RunTyped, Detect
  <2>3. PICK r \in listeners : /\ f = One("possible_hidden_port", r)
                               /\ r.name \notin {d.name : d \in descriptors}
                               /\ r.pid \in (IF root THEN Pid ELSE Mine)
                               /\ descriptors # {}
    BY <2>1, <2>2, DetectAlarm DEF Detect
  <2>4. f.evidence.name = r.name /\ r.pid \in Pid
    BY <2>3, PidAssumption DEF One
  <2>5. r.name \in Socket /\ r = SocketRecord(r.name) /\ owner[r.name] \in Pid
    BY <2>4 DEF SocketInv
  <2>6. r.pid = creator[r.name]
    BY <2>2, <2>5, SocketRecordTyped
  <2>7. owner[r.name] \in Visible
    BY <2>2, <2>4, <2>5 DEF OwnerInv, HostTyped, Visible, Hidden
  <2>8. ~(root \/ owner[r.name] \in Mine)
    BY <2>2, <2>3, <2>4, <2>5, <2>7 DEF SocketInv
  <2>9. QED
    BY <2>3, <2>4, <2>6, <2>8
<1>2. QED
  BY <1>1, InitType, NextType, InitSockets, NextSockets, PTL DEF Spec, PortOnly

-----------------------------------------------------------------------------
(* What is found reaches the database. *)

\* The findings a run has made, or those it leaves.
Made == IF pc = "insert" THEN found ELSE stored

\* Once the run has looked, what stayed hidden is among them, and so is each port that a
\* hidden process had open all along.
FoundInv ==
  pc \in {"insert", "done"} =>
    /\ processes # {} =>
         \A p \in StayedHidden \ thinned : \A i \in DOMAIN taken :
           (taken[i].type = "execve" /\ taken[i].pid = p) =>
             One("possible_hidden_process", taken[i]) \in Made
    /\ (listeners # {} /\ descriptors # {}) =>
         \A s \in Socket \ stirred :
           (owner[s] \in Hidden /\ (root \/ creator[s] \in Mine)) =>
             One("possible_hidden_port", SocketRecord(s)) \in Made

WholeInv == TypeInv /\ EventInv /\ TakenInv /\ BornInv /\ SocketsInv

LEMMA DetectFinds == WholeInv /\ Detect => FoundInv'
<1> SUFFICES ASSUME WholeInv, Detect PROVE FoundInv'
  OBVIOUS
<1> DEFINE verifiable == IF root THEN Pid ELSE Mine
<1>1. /\ pc' = "insert"
      /\ UNCHANGED <<alive, owner, creator, born, ended, thinned, stirred, taken, root,
                     processes, listeners, descriptors>>
  BY DEF Detect, Goto, viewVars, hostVars, probeVars, ghostVars
<1>2. found' = DetectRootkitActivity(taken, processes, listeners, descriptors, attached,
                                     Visible, PacketSockets, verifiable)
  BY DEF Detect
<1>3. /\ HiddenProcesses(processes, Events(taken), Visible) \subseteq found'
      /\ HiddenPorts(listeners, descriptors, verifiable) \subseteq found'
  <2> HIDE DEF verifiable
  <2> QED  BY <1>2, DetectHas
<1>4. HostTyped /\ taken \in Seq(Item)
  BY DEF WholeInv, TypeInv, TypeOK, LoaderTyped
<1>5. ASSUME processes # {}, NEW p \in StayedHidden \ thinned, NEW i \in DOMAIN taken,
             taken[i].type = "execve", taken[i].pid = p
      PROVE  One("possible_hidden_process", taken[i]) \in found'
  <2>1. p \in Pid /\ p \in born \ ended /\ p \notin thinned /\ p \notin Visible
    BY <1>4, <1>5 DEF StayedHidden, Hidden, Visible
  <2>2. p \notin {r.pid : r \in processes}
    BY <2>1 DEF WholeInv, BornInv
  <2>3. ASSUME NEW j \in DOMAIN taken, taken[j].type = "process_exit" PROVE taken[j].pid # p
    <3>1. PICK k \in DOMAIN offered : offered[k] = taken[j]
      BY DEF WholeInv, TakenInv
    <3>2. taken[j].pid \in ended \cup thinned
      BY <2>3, <3>1 DEF WholeInv, EventInv
    <3>3. QED
      BY <2>1, <3>2
  <2>4. p \notin Exited(Events(taken))
    BY <2>3 DEF Exited, Of, Events
  <2>5. One("possible_hidden_process", taken[i])
          \in HiddenProcesses(processes, Events(taken), Visible)
    BY <1>5, <2>1, <2>2, <2>4 DEF HiddenProcesses, Of, Events
  <2>6. QED
    BY <1>3, <2>5
<1>6. ASSUME listeners # {}, descriptors # {}, NEW s \in Socket \ stirred,
             owner[s] \in Hidden, root \/ creator[s] \in Mine
      PROVE  One("possible_hidden_port", SocketRecord(s)) \in found'
  <2>1. owner[s] \in Pid /\ owner[s] \notin Visible
    BY <1>6 DEF Hidden, Visible
  <2>2. SocketRecord(s) \in listeners
    BY <1>6, <2>1 DEF WholeInv, SocketsInv, SocketInv
  <2>3. SocketRecord(s).name = s /\ SocketRecord(s).pid = creator[s]
    BY <1>4, SocketRecordTyped
  <2>4. s \notin {d.name : d \in descriptors}
    BY <2>1, SocketAssumption DEF WholeInv, SocketsInv, SocketInv
  <2>5. creator[s] \in verifiable
    BY <1>6, <2>1 DEF WholeInv, SocketsInv, OwnerInv
  <2>6. One("possible_hidden_port", SocketRecord(s))
          \in HiddenPorts(listeners, descriptors, verifiable)
    <3> HIDE DEF verifiable
    <3> QED  BY <1>6, <2>2, <2>3, <2>4, <2>5 DEF HiddenPorts
  <2>7. QED
    BY <1>3, <2>6
<1>7. /\ StayedHidden' = StayedHidden /\ Hidden' = Hidden /\ Made' = found'
      /\ \A s \in Socket : SocketRecord(s)' = SocketRecord(s)
  BY <1>1 DEF StayedHidden, Hidden, Made, SocketRecord
<1>8. QED
  BY <1>1, <1>5, <1>6, <1>7 DEF FoundInv

\* Until the next run nothing that it speaks of changes.
LEMMA FoundStays ==
  ASSUME FoundInv, pc \in {"insert", "done"}, Made \subseteq Made',
         UNCHANGED <<alive, owner, creator, born, ended, thinned, stirred, taken, root,
                     processes, listeners, descriptors>>
  PROVE  FoundInv'
<1>1. /\ StayedHidden' = StayedHidden /\ Hidden' = Hidden
      /\ \A s \in Socket : SocketRecord(s)' = SocketRecord(s)
  BY DEF StayedHidden, Hidden, SocketRecord
<1>2. QED
  BY <1>1 DEF FoundInv

LEMMA NextFound == WholeInv /\ FoundInv /\ [Next]_vars => FoundInv'
<1> SUFFICES ASSUME WholeInv, FoundInv, [Next]_vars PROVE FoundInv'
  OBVIOUS
<1> USE DEF hostVars, probeVars, ghostVars, runVars, viewVars
<1>0. pc \in {"insert", "done"} => walk = {}
  BY DEF WholeInv, TypeInv, TypeOK, RunTyped
<1>1. CASE HostStep
  BY <1>1, HostLeavesRun DEF FoundInv
<1>2. CASE Begin
  BY <1>2 DEF Begin, FoundInv
<1>3. CASE Detect
  BY <1>3, DetectFinds
<1>4. CASE InsertRootkitFindings
  BY <1>4, FoundStays DEF InsertRootkitFindings, Made
<1>5. CASE Fail
  BY <1>5 DEF Fail, Goto, FoundInv
<1>6. CASE ProbeGone \/ Reader
  <2>1. CASE pc \in {"insert", "done"}
    <3>1. ProbeGone
      BY <1>6, <2>1 DEF Reader
    <3>2. QED
      BY <2>1, <3>1, FoundStays DEF ProbeGone, Made
  <2>2. CASE pc \notin {"insert", "done"}
    BY <1>6, <2>2 DEF ProbeGone, Reader, FoundInv
  <2>3. QED
    BY <2>1, <2>2
<1>7. CASE \/ CollectProcesses \/ CollectNetwork \/ CollectSocketFds \/ Collected \/ Attach
           \/ NotAttached \/ Stop \/ Drain \/ StoreKernelEvents
           \/ \E p \in Pid : ReadDescriptors(p)
  <2>1. pc' \notin {"insert", "done"}
    BY <1>0, <1>7
    DEF CollectProcesses, CollectNetwork, CollectSocketFds, Collected, Attach, NotAttached,
        Stop, Drain, StoreKernelEvents, ReadDescriptors, Goto, AfterWindow
  <2>2. QED
    BY <2>1 DEF FoundInv
<1>8. CASE UNCHANGED vars
  <2>1. CASE pc \in {"insert", "done"}
    BY <1>8, <2>1, FoundStays DEF vars, Made
  <2>2. CASE pc \notin {"insert", "done"}
    BY <1>8, <2>2 DEF vars, FoundInv
  <2>3. QED
    BY <2>1, <2>2
<1>9. QED
  BY <1>1, <1>2, <1>3, <1>4, <1>5, <1>6, <1>7, <1>8 DEF Next, RunStep

LEMMA WholeInvariant == Spec => [](WholeInv /\ FoundInv)
<1>1. Init => WholeInv /\ FoundInv
  <2>1. Init => EventInv /\ TakenInv /\ BornInv /\ FoundInv
    BY DEF Init, Loader!Init, EventInv, TakenInv, BornInv, FoundInv
  <2>2. QED
    BY <2>1, InitType, InitSockets DEF WholeInv
<1>2. WholeInv /\ [Next]_vars => WholeInv'
  BY NextType, NextEvent, NextTaken, NextBorn, NextSockets DEF WholeInv
<1>3. QED
  BY <1>1, <1>2, NextFound, PTL DEF Spec

\* A run that got through has reported every process that came up hidden in the window
\* and stayed so, if the event of its execve was delivered and no thread of it ended.
THEOREM HiddenCorrect == Spec => []HiddenFound
<1>1. WholeInv /\ FoundInv => HiddenFound
  <2> SUFFICES ASSUME WholeInv, FoundInv, pc = "done", processes # {},
                      NEW p \in StayedHidden \ thinned, NEW i \in 1 .. drained,
                      taken[i].type = "execve", taken[i].pid = p
               PROVE  One("possible_hidden_process", taken[i]) \in stored
    BY DEF HiddenFound, Reported
  <2>1. i \in DOMAIN taken
    BY DEF WholeInv, TypeInv, TypeOK, LoaderTyped
  <2>2. QED
    BY <2>1 DEF FoundInv, Made
<1>2. QED
  BY <1>1, WholeInvariant, PTL

\* It has reported every port that a hidden process had open all along, in whatever order
\* the views were taken; without root, those of one's own uid.
THEOREM PortsFound == Spec => []PortFound
<1>1. WholeInv /\ FoundInv => PortFound
  BY DEF PortFound, FoundInv, Made
<1>2. QED
  BY <1>1, WholeInvariant, PTL

=============================================================================
