---------------------------- MODULE RootkitRules ----------------------------
(***************************************************************************)
(* What detect_rootkit_activity makes of the events and records of a run,  *)
(* one operator per detector.  Events and host records have one form: what *)
(* they are, whose, whether the setting that allows them lists their       *)
(* command (a module load: the module), which of the things the detectors  *)
(* look for their data shows, and the name of a memfd or a socket.         *)
(***************************************************************************)
EXTENDS Naturals, Sequences, FiniteSets

CONSTANTS
  Pid,
  Name  \* of a memfd or a socket

Nobody == "nobody"

EventTypes == {"execve", "kernel_module_load", "bpf_prog_load", "commit_creds",
               "memfd_create", "unlink", "rename", "ptrace", "mount", "setns",
               "process_exit"}

ExecutionSigns == {"fileless_execution", "suspicious_execution_location",
                   "shell_spawned_by_service"}

Signs == ExecutionSigns \cup
         {"euid_not_root",                     \* the payload parses, to another euid
          "log_target", "proc_or_sys_target",
          "exe_deleted", "exe_read", "exe_suspicious", "cwd_suspicious"}

Item == [type : EventTypes \cup {"process", "socket", "none"}, pid : Pid \cup {Nobody},
         listed : BOOLEAN, shows : SUBSET Signs, name : Name \cup {""}]

NoItem == [type |-> "none", pid |-> Nobody, listed |-> FALSE, shows |-> {}, name |-> ""]

Rules == ExecutionSigns \cup
  {"kernel_module_loaded", "bpf_program_loaded", "credential_change", "memfd_create",
   "log_tampering", "ptrace_activity", "suspicious_mount", "namespace_enter",
   "possible_hidden_process", "deleted_executable_running", "suspicious_process_location",
   "packet_sockets_present", "listening_socket_summary", "possible_hidden_port",
   "kernel_visibility_limited"}

\* A finding as far as its hash can tell: type, numbers in the message, evidence.
Finding == [type : Rules, count : Nat, evidence : Item]

One(type, item) == [type |-> type, count |-> 1, evidence |-> item]

Of(events, types) == {e \in events : e.type \in types}
Unlisted(events, types) == {e \in Of(events, types) : ~e.listed}

-----------------------------------------------------------------------------
(* The detectors that look at one event at a time. *)

SuspiciousExecutions(events) ==
  UNION {{One(sign, e) : sign \in e.shows \cap ExecutionSigns} : e \in Of(events, {"execve"})}

KernelModuleLoads(events) ==
  {One("kernel_module_loaded", e) : e \in Unlisted(events, {"kernel_module_load"})}

UnexpectedBpfLoads(events) ==
  {One("bpf_program_loaded", e) : e \in Unlisted(events, {"bpf_prog_load"})}

CredentialChanges(events) ==
  {One("credential_change", e) :
     e \in {x \in Unlisted(events, {"commit_creds"}) : "euid_not_root" \notin x.shows}}

LogTampering(events) ==
  {One("log_tampering", e) :
     e \in {x \in Unlisted(events, {"unlink", "rename"}) : "log_target" \in x.shows}}

PtraceActivity(events) ==
  {One("ptrace_activity", e) : e \in Unlisted(events, {"ptrace"})}

SuspiciousMount(events) ==
  {One("suspicious_mount", e) :
     e \in {x \in Of(events, {"mount"}) : "proc_or_sys_target" \in x.shows}}

NamespaceEnter(events) ==
  {One("namespace_enter", e) : e \in Unlisted(events, {"setns"})}
-----------------------------------------------------------------------------
(* The detectors that look at more than one. *)

\* One finding per name, with how often and where first; the events in order.
MemfdExecution(sequence) ==
  LET at(name) == {i \in DOMAIN sequence :
                     sequence[i].type = "memfd_create" /\ sequence[i].name = name}
      first(name) == CHOOSE i \in at(name) : \A j \in at(name) : i <= j
      names == {sequence[i].name : i \in {j \in DOMAIN sequence :
                                            sequence[j].type = "memfd_create"}}
  IN {[type |-> "memfd_create", count |-> Cardinality(at(name)),
       evidence |-> sequence[first(name)]] : name \in names}

\* Mutant: whatever happened to a pid, it has ended.
EveryPid(events) == {e.pid : e \in events}

Exited(events) == {e.pid : e \in Of(events, {"process_exit"})}

\* Mutant: no look at /proc while detecting.
NotInSnapshot(processes, events, present) ==
  LET listed == {r.pid : r \in processes}
  IN {One("possible_hidden_process", e) :
        e \in {x \in Of(events, {"execve"}) :
                 /\ processes # {}
                 /\ x.pid \notin listed
                 /\ x.pid \notin Exited(events)}}

\* Executed in the window, in no process record, with no exit event, and not in
\* /proc now.  Without process records nothing is missing from them.
HiddenProcesses(processes, events, present) ==
  LET listed == {r.pid : r \in processes}
  IN {One("possible_hidden_process", e) :
        e \in {x \in Of(events, {"execve"}) :
                 /\ processes # {}
                 /\ x.pid \notin listed
                 /\ x.pid \notin Exited(events)
                 /\ x.pid \notin present}}

\* The allow list does not cover a deleted executable; the working directory counts
\* when the executable cannot be read.
ProcessAnomalies(processes, packetSockets) ==
  LET deleted == {r \in processes : "exe_deleted" \in r.shows}
      located == {r \in processes :
                    /\ ~r.listed
                    /\ IF "exe_read" \in r.shows THEN "exe_suspicious" \in r.shows
                                                  ELSE "cwd_suspicious" \in r.shows}
  IN {One("deleted_executable_running", r) : r \in deleted}
       \cup {One("suspicious_process_location", r) : r \in located}
       \cup {[type |-> "packet_sockets_present", count |-> n, evidence |-> NoItem] :
               n \in {packetSockets} \ {0}}

\* Mutant: without root, everyone's.
UnownedPorts(listeners, descriptors, verifiable) ==
  {[type |-> "listening_socket_summary", count |-> n, evidence |-> NoItem] :
     n \in {Cardinality(listeners)} \ {0}}
    \cup {One("possible_hidden_port", r) :
            r \in {x \in listeners :
                     /\ descriptors # {}
                     /\ x.name \notin {d.name : d \in descriptors}}}

\* A listener that no descriptor record has; without root, only one's own.
HiddenPorts(listeners, descriptors, verifiable) ==
  {[type |-> "listening_socket_summary", count |-> n, evidence |-> NoItem] :
     n \in {Cardinality(listeners)} \ {0}}
    \cup {One("possible_hidden_port", r) :
            r \in {x \in listeners :
                     /\ descriptors # {}
                     /\ x.name \notin {d.name : d \in descriptors}
                     /\ x.pid \in verifiable}}

KernelVisibility(attached) ==
  IF attached THEN {} ELSE {One("kernel_visibility_limited", NoItem)}

DetectRootkitActivity(sequence, processes, listeners, descriptors, attached, present, packets, verifiable) ==
  LET events == {sequence[i] : i \in DOMAIN sequence}
  IN UNION {SuspiciousExecutions(events), KernelModuleLoads(events),
            UnexpectedBpfLoads(events), CredentialChanges(events),
            MemfdExecution(sequence), LogTampering(events), PtraceActivity(events),
            SuspiciousMount(events), NamespaceEnter(events),
            HiddenProcesses(processes, events, present),
            ProcessAnomalies(processes, packets),
            HiddenPorts(listeners, descriptors, verifiable),
            KernelVisibility(attached)}
=============================================================================
