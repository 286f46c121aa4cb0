------------------------------ MODULE EbpfLoader ------------------------------
(***************************************************************************)
(* The daemon's scheduler loop and, in each tick, the window in which a    *)
(* child process loads the probe and prints its events, a reader thread    *)
(* buffers them, and the main thread waits, stops the child and drains.    *)
(* Every wait of the main thread has a timeout, which may expire at once:  *)
(* the child writes whole lines, so that the readline of the handshake,    *)
(* which has none of its own, does not wait once there is something to     *)
(* read.  What a tick does after its window is in the other modules.       *)
(***************************************************************************)
EXTENDS Integers, Sequences, FiniteSets

CONSTANTS
  Event,       \* what a line of the child can be
  Wanted,      \* those of the types kernel.event_types names
  MaxBuffered, \* MAX_BUFFERED_EVENTS
  PipeSize,    \* how many lines the child can print ahead of the reader
  MaxPrinted,  \* bound on the lines printed in a window
  CanCrash     \* whether the child may be killed by others

ASSUME EventAssumption == Wanted \subseteq Event
ASSUME SizeAssumption ==
  MaxBuffered \in Nat \ {0} /\ PipeSize \in Nat \ {0} /\ MaxPrinted \in Nat
ASSUME CrashAssumption == CanCrash \in BOOLEAN

VARIABLES
  pc,        \* where the main thread is
  signalled, \* Scheduler._stop, and its event
  stop,      \* EBPFLoader._stop_event
  child,     \* the loader process
  termed,    \* SIGTERM was sent to it
  killed,    \* SIGKILL was sent to it
  pinned,    \* whether pins are left in the BPF file system
  announced, \* the child has printed that it is attached
  printed,   \* the lines it has printed since, whole
  read,      \* how many of them the reader has read
  reader,    \* what the reader thread is doing
  buffer,    \* self.events
  dropped,   \* self.dropped_events
  result,    \* the list drain returned
  drained    \* drain has put a new list in its place, and is not called again

mainVars == <<pc, signalled, stop>>
childVars == <<child, termed, killed, pinned, announced, printed>>
readerVars == <<read, reader, buffer, dropped, result, drained>>
vars == <<mainVars, childVars, readerVars>>

-----------------------------------------------------------------------------

Gone == child \in {"none", "exited", "dead"}

\* The line the reader holds.
Held == printed[read]

Init ==
  /\ pc = "begin"
  /\ signalled = FALSE
  /\ stop = FALSE
  /\ child = "none"
  /\ termed = FALSE
  /\ killed = FALSE
  /\ pinned = FALSE
  /\ announced = FALSE
  /\ printed = <<>>
  /\ read = 0
  /\ reader = "none"
  /\ buffer = <<>>
  /\ dropped = 0
  /\ result = <<>>
  /\ drained = FALSE

Goto(label) == pc' = label /\ UNCHANGED <<signalled, stop>>

-----------------------------------------------------------------------------
(* The scheduler.  The first tick is run without looking at the signal.    *)

\* A tick, with a loader of its own.  What the last one left behind is gone.
StartTick ==
  /\ pc = "begin"
  /\ Gone
  /\ reader \in {"none", "ended"}
  /\ pc' = "start"
  /\ stop' = FALSE
  /\ child' = "none"
  /\ termed' = FALSE
  /\ killed' = FALSE
  /\ announced' = FALSE
  /\ printed' = <<>>
  /\ read' = 0
  /\ reader' = "none"
  /\ buffer' = <<>>
  /\ dropped' = 0
  /\ result' = <<>>
  /\ drained' = FALSE
  /\ UNCHANGED <<signalled, pinned>>

\* The rest of the tick; an exception of its ends here too.
EndTick ==
  /\ pc = "rest"
  /\ Goto("loop")
  /\ UNCHANGED <<childVars, readerVars>>

\* while not self._stop: Event.wait takes the lock of its condition ...
Loop ==
  /\ pc = "loop"
  /\ Goto(IF signalled THEN "ended" ELSE "locked")
  /\ UNCHANGED <<childVars, readerVars>>

\* ... gives it up while it waits, unless the event is set ...
Wait ==
  /\ pc = "locked"
  /\ Goto(IF signalled THEN "relocked" ELSE "waiting")
  /\ UNCHANGED <<childVars, readerVars>>

\* ... and has it again when the event is set or the interval is over.
Wake ==
  /\ pc = "waiting"
  /\ Goto("relocked")
  /\ UNCHANGED <<childVars, readerVars>>

Return ==
  /\ pc = "relocked"
  /\ Goto(IF signalled THEN "ended" ELSE "begin")
  /\ UNCHANGED <<childVars, readerVars>>

\* SIGINT or SIGTERM, as often as they come.  The handler runs in the main thread,
\* between any two of its steps; Event.set needs the lock, which is not reentrant: the
\* step it interrupts may have it, and so may the handler of a signal just before.
Signal ==
  /\ pc \notin {"stuck", "ended"}
  /\ signalled' = TRUE
  /\ pc' \in IF pc \in {"locked", "relocked"} THEN {"stuck"} ELSE {pc, "stuck"}
  /\ UNCHANGED <<stop, childVars, readerVars>>

-----------------------------------------------------------------------------
(* EBPFLoader.start. *)

\* No binary, no root, disabled, not trusted, or Popen fails.
Refuse ==
  /\ pc = "start"
  /\ Goto("rest")
  /\ UNCHANGED <<childVars, readerVars>>

Popen ==
  /\ pc = "start"
  /\ Goto("handshake")
  /\ child' = "loading"
  /\ UNCHANGED <<termed, killed, pinned, announced, printed, readerVars>>

\* poll() is looked at first.
ExitedEarly ==
  /\ pc = "handshake"
  /\ Gone
  /\ Goto("rest")
  /\ UNCHANGED <<childVars, readerVars>>

\* The child may have died since it announced itself.
Attached ==
  /\ pc = "handshake"
  /\ announced
  /\ reader' = "reading"
  /\ Goto("window")
  /\ UNCHANGED <<childVars, read, buffer, dropped, result, drained>>

\* The deadline: _terminate, and no reader.
NotInTime ==
  /\ pc = "handshake"
  /\ Goto("terminate")
  /\ UNCHANGED <<childVars, readerVars>>

-----------------------------------------------------------------------------
(* EBPFLoader.stop, _terminate and drain. *)

Stop ==
  /\ pc = "window"
  /\ stop' = TRUE
  /\ pc' = "terminate"
  /\ UNCHANGED <<signalled, childVars, readerVars>>

Terminate ==
  /\ pc = "terminate"
  /\ termed' = ~Gone
  /\ Goto("wait5")
  /\ UNCHANGED <<child, killed, pinned, announced, printed, readerVars>>

\* stop goes on to the reader, a start that failed returns.
Terminated ==
  /\ pc \in {"wait5", "wait2"}
  /\ Gone
  /\ Goto(IF stop THEN "join" ELSE "rest")
  /\ UNCHANGED <<childVars, readerVars>>

\* Mutant: the child is not killed.
TimeoutWithoutKill ==
  /\ pc = "wait5"
  /\ ~Gone
  /\ Goto("wait2")
  /\ UNCHANGED <<childVars, readerVars>>

\* Mutant: a wait without a timeout.
NoTimeout == FALSE /\ UNCHANGED vars

\* TimeoutExpired: SIGKILL.
Timeout ==
  /\ pc = "wait5"
  /\ ~Gone
  /\ killed' = TRUE
  /\ Goto("wait2")
  /\ UNCHANGED <<child, termed, pinned, announced, printed, readerVars>>

\* The second wait is in the handler of the first: its timeout is raised out of
\* stop, the reader is not joined, nothing is drained, the tick fails.
TimeoutAgain ==
  /\ pc = "wait2"
  /\ ~Gone
  /\ Goto("rest")
  /\ UNCHANGED <<childVars, readerVars>>

\* join(timeout=2.0) does not say whether the reader has ended.
Join ==
  /\ pc = "join"
  /\ Goto("drain")
  /\ UNCHANGED <<childVars, readerVars>>

\* Mutant: a drain that starts the count of dropped events again.
DrainResetting ==
  /\ pc = "drain"
  /\ result' = buffer
  /\ buffer' = <<>>
  /\ drained' = TRUE
  /\ dropped' = 0
  /\ reader' = IF reader = "bound" THEN "late" ELSE reader
  /\ Goto("rest")
  /\ UNCHANGED <<childVars, read>>

\* The list changes hands.  A reader about to append may have the old one; one that has
\* yet to look for it will find the new one.
Drain ==
  /\ pc = "drain"
  /\ result' = buffer
  /\ buffer' = <<>>
  /\ drained' = TRUE
  /\ reader' = IF reader = "bound" THEN "late" ELSE reader
  /\ Goto("rest")
  /\ UNCHANGED <<childVars, read, dropped>>

-----------------------------------------------------------------------------
(* The reader thread: _read_events.  Another thread may run between any two *)
(* looks it takes at what they share: the stop, the length, the list.       *)

ReaderGoes(from, to) ==
  /\ reader = from
  /\ reader' = to
  /\ UNCHANGED <<mainVars, childVars, drained>>

ReadLine ==
  /\ ReaderGoes("reading", "holding")
  /\ read < Len(printed)
  /\ read' = read + 1
  /\ UNCHANGED <<buffer, dropped, result>>

\* What a child that died in the middle of a line has left is no JSON.
EndOfFile ==
  /\ ReaderGoes("reading", "ended")
  /\ read = Len(printed)
  /\ Gone
  /\ UNCHANGED <<read, buffer, dropped, result>>

Break ==
  /\ ReaderGoes("holding", "ended")
  /\ stop
  /\ UNCHANGED <<read, buffer, dropped, result>>

\* The line is parsed, whatever the stop is from here on.
Parse ==
  /\ ReaderGoes("holding", "parsing")
  /\ ~stop
  /\ UNCHANGED <<read, buffer, dropped, result>>

Skip ==
  /\ ReaderGoes("parsing", "reading")
  /\ Held \notin Wanted
  /\ UNCHANGED <<read, buffer, dropped, result>>

\* Mutant: room for one too many.
StoreOneTooMany ==
  /\ ReaderGoes("parsing", "storing")
  /\ Held \in Wanted
  /\ Len(buffer) <= MaxBuffered
  /\ UNCHANGED <<read, buffer, dropped, result>>

\* There is room.
Store ==
  /\ ReaderGoes("parsing", "storing")
  /\ Held \in Wanted
  /\ Len(buffer) < MaxBuffered
  /\ UNCHANGED <<read, buffer, dropped, result>>

NoRoom ==
  /\ ReaderGoes("parsing", "counting")
  /\ Held \in Wanted
  /\ Len(buffer) >= MaxBuffered
  /\ UNCHANGED <<read, buffer, dropped, result>>

\* Mutant: an event too many, silently left out.
CountNothing ==
  /\ ReaderGoes("counting", "reading")
  /\ UNCHANGED <<read, buffer, dropped, result>>

Count ==
  /\ ReaderGoes("counting", "reading")
  /\ dropped' = dropped + 1
  /\ UNCHANGED <<read, buffer, result>>

\* self.events is looked up again ...
LookUp ==
  /\ ReaderGoes("storing", "bound")
  /\ UNCHANGED <<read, buffer, dropped, result>>

\* ... and the event appended to what was found, also when drain has returned it since.
AppendEvent ==
  /\ \/ /\ ReaderGoes("bound", "reading")
        /\ buffer' = Append(buffer, Held)
        /\ UNCHANGED result
     \/ /\ ReaderGoes("late", "reading")
        /\ result' = Append(result, Held)
        /\ UNCHANGED buffer
  /\ UNCHANGED <<read, dropped>>

ReaderStep ==
  \/ ReadLine \/ EndOfFile \/ Break \/ Parse \/ Skip \/ Store \/ NoRoom \/ Count
  \/ LookUp \/ AppendEvent

-----------------------------------------------------------------------------
(* The child: loader.c. *)

\* Loading, attaching or pinning fails.
ChildFails ==
  /\ child = "loading"
  /\ child' = "exited"
  /\ UNCHANGED <<mainVars, termed, killed, pinned, announced, printed, readerVars>>

\* Programs pinned already by an earlier child are no failure.
ChildAttaches ==
  /\ child = "loading"
  /\ child' = "polling"
  /\ pinned' = TRUE
  /\ announced' = TRUE
  /\ UNCHANGED <<mainVars, termed, killed, printed, readerVars>>

\* Poll has an event; the batch goes on after a signal.
ChildPrints(e) ==
  /\ child = "polling"
  /\ Len(printed) < MaxPrinted
  /\ IF Len(printed) - read < PipeSize
     THEN printed' = Append(printed, e) /\ UNCHANGED child
     ELSE child' = "blocked" /\ UNCHANGED printed
  /\ UNCHANGED <<mainVars, termed, killed, pinned, announced, readerVars>>

\* There is room in the pipe again.
ChildUnblocks(e) ==
  /\ child = "blocked"
  /\ Len(printed) - read < PipeSize
  /\ printed' = Append(printed, e)
  /\ child' = "polling"
  /\ UNCHANGED <<mainVars, termed, killed, pinned, announced, readerVars>>

\* It looks at the signal between two polls only, and cleans up.
ChildExits ==
  /\ child = "polling"
  /\ termed
  /\ child' = "exited"
  /\ pinned' = FALSE
  /\ UNCHANGED <<mainVars, termed, killed, announced, printed, readerVars>>

\* An error of poll ends it as a signal does.
ChildPollFails ==
  /\ child = "polling"
  /\ ~termed
  /\ child' = "exited"
  /\ pinned' = FALSE
  /\ UNCHANGED <<mainVars, termed, killed, announced, printed, readerVars>>

ChildKilled ==
  /\ killed
  /\ ~Gone
  /\ child' = "dead"
  /\ UNCHANGED <<mainVars, termed, killed, pinned, announced, printed, readerVars>>

ChildCrashes ==
  /\ CanCrash
  /\ ~Gone
  /\ child' = "dead"
  /\ UNCHANGED <<mainVars, termed, killed, pinned, announced, printed, readerVars>>

-----------------------------------------------------------------------------

MainStep ==
  \/ StartTick \/ EndTick \/ Loop \/ Wait \/ Wake \/ Return
  \/ Refuse \/ Popen \/ ExitedEarly \/ Attached \/ NotInTime
  \/ Stop \/ Terminate \/ Terminated \/ Timeout \/ TimeoutAgain \/ Join \/ Drain

ChildStep ==
  \/ ChildFails \/ ChildAttaches \/ ChildExits \/ ChildPollFails \/ ChildKilled
  \/ ChildCrashes
  \/ \E e \in Event : ChildPrints(e) \/ ChildUnblocks(e)

Next == MainStep \/ Signal \/ ReaderStep \/ ChildStep

Spec == Init /\ [][Next]_vars

\* The main thread's waits end by a timeout at the latest, the reader is scheduled,
\* the kernel kills what it is told to kill.  Of the child nothing else is assumed.
FairSpec == Spec /\ WF_vars(MainStep) /\ WF_vars(ReaderStep) /\ WF_vars(ChildKilled)

-----------------------------------------------------------------------------
(* What the component guarantees. *)

\* The type invariant; the buffer never exceeds its bound.
TypeOK ==
  /\ pc \in {"begin", "start", "handshake", "window", "terminate", "wait5", "wait2",
             "join", "drain", "rest", "loop", "locked", "waiting", "relocked",
             "stuck", "ended"}
  /\ signalled \in BOOLEAN /\ stop \in BOOLEAN
  /\ child \in {"none", "loading", "polling", "blocked", "exited", "dead"}
  /\ termed \in BOOLEAN /\ killed \in BOOLEAN /\ pinned \in BOOLEAN
  /\ announced \in BOOLEAN
  /\ printed \in Seq(Event) /\ read \in 0 .. Len(printed)
  /\ reader \in {"none", "reading", "holding", "parsing", "storing", "counting", "bound",
                 "late", "ended"}
  /\ buffer \in Seq(Wanted) /\ Len(buffer) <= MaxBuffered
  /\ dropped \in Nat
  /\ result \in Seq(Wanted)
  /\ drained \in BOOLEAN

InHand == reader \in {"holding", "parsing", "storing", "counting", "bound", "late"}

\* How many lines the reader is done with.
Done == IF InHand THEN read - 1 ELSE read

\* What drain has returned or will return.  The list it leaves nobody drains.
Drainable == IF drained THEN <<>> ELSE buffer

\* Everything that was read is buffered, drained or in dropped_events, however the stop,
\* the drain and the reader interleave, but for two events at most: the line the reader
\* holds when it sees the stop, and, if it was past that look when the lists were
\* changed, the one it then appends to the new list.
ReadIsAccounted ==
  LET kept == Len(Drainable) + Len(result) + dropped
      lost == Cardinality({i \in 1 .. Done : printed[i] \in Wanted}) - kept
      atStop == IF reader = "ended" /\ stop THEN 1 ELSE 0
      astray == IF drained THEN 1 ELSE 0
  IN lost \in 0 .. atStop + astray

\* The loader implements the lossy queue: in order, once, counted when full, lost
\* only after the stop.
Queue == INSTANCE LossyQueue WITH
  Capacity <- MaxBuffered,
  offered <- printed,
  seen <- Done,
  queue <- Drainable,
  counted <- dropped,
  open <- ~stop,
  taken <- result
QueueSpec == Queue!Spec

\* Stop signals end the daemon, wherever the loader and the reader are, also with a
\* child that is blocked on the pipe nobody reads any more, unless one came while the
\* scheduler or another handler had the lock of the event that the handler sets.
SignalStops == signalled ~> pc \in {"ended", "stuck"}

\* No reader is left behind by a window that was stopped, unless the daemon hangs in
\* its signal handler.
ReaderEnds == stop ~> reader \in {"none", "ended"} \/ pc = "stuck"
=============================================================================
