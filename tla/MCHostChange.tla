----------------------------- MODULE MCHostChange -----------------------------
(* Small hosts for HostChange: which records its collectors can return. *)
EXTENDS HostChange

R(kind, key, meta, content) ==
  [kind |-> kind, key |-> key, meta |-> meta, content |-> content]

\* A cron file with two contents of the same line count, and a longer one.
CronA == R("file", "cron", 1, "a")
CronB == R("file", "cron", 1, "b")
CronC == R("file", "cron", 2, "c")
\* A kernel module with two reference counts: one identity, two records.
ModuleIdle == R("module", "mod", 0, "-")
ModuleUsed == R("module", "mod", 1, "-")
\* A port on which two processes listen, each with an inode, and a client's.
Listener == R("socket", "port", 1, "LISTEN")
Listener2 == R("socket", "port", 2, "LISTEN")
Client == R("socket", "port", 3, "ESTABLISHED")
\* A running unit and a process no detector looks at.
Unit == R("unit", "ssh", "up", "-")
Process == R("process", "pid", 1, "-")
\* A device on the ignore list.
Stick == R("device", "stick", "storage", "-")

\* One file with two records, for two processes; a file, with a process and
\* an ignored device that keep the history from being empty, for the retention;
\* three contents of one file, and a unit; the kinds compared by less than their record.
PairRec == {CronA, CronC}
KeptRec == {CronA, Process, Stick}
CollidingRec == {CronA, CronB, CronC, Unit}
PortRec == {ModuleIdle, ModuleUsed, Listener, Listener2, Client}

AllToggles == {"unit", "file", "device", "module", "socket"}
=============================================================================
