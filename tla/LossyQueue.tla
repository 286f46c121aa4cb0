------------------------------ MODULE LossyQueue ------------------------------
(***************************************************************************)
(* What the event loader promises the run that uses it: the events offered *)
(* by the probe are taken in order and once each.  While the queue is open *)
(* an event that is wanted is left out only when the queue is full, and is *)
(* then counted; once it is closed, what the reader is not done with yet   *)
(* may be lost.                                                            *)
(***************************************************************************)
EXTENDS Naturals, Sequences

CONSTANTS
  Event,     \* what the probe can write
  Wanted,    \* the events of the types the settings ask for
  Capacity   \* MAX_BUFFERED_EVENTS

VARIABLES
  offered,   \* the events the probe has written, in order
  seen,      \* how many of them the reader is done with
  queue,     \* the events buffered
  counted,   \* dropped_events
  open,      \* whether the stop event is clear
  taken      \* what drain has returned

vars == <<offered, seen, queue, counted, open, taken>>

Init ==
  /\ offered = <<>>
  /\ seen = 0
  /\ queue = <<>>
  /\ counted = 0
  /\ open = TRUE
  /\ taken = <<>>

Offer(e) ==
  /\ offered' = Append(offered, e)
  /\ UNCHANGED <<seen, queue, counted, open, taken>>

\* The reader is done with the next event.
Look ==
  /\ seen < Len(offered)
  /\ seen' = seen + 1

\* The event is of no type the settings ask for.
Pass ==
  /\ Look
  /\ offered[seen'] \notin Wanted
  /\ UNCHANGED <<offered, queue, counted, open, taken>>

Accept ==
  /\ Look
  /\ offered[seen'] \in Wanted
  /\ Len(queue) < Capacity
  /\ queue' = Append(queue, offered[seen'])
  /\ UNCHANGED <<offered, counted, open, taken>>

\* The queue is full, or was when it was taken.
Count ==
  /\ Look
  /\ offered[seen'] \in Wanted
  /\ Len(queue) = Capacity \/ (~open /\ Len(taken) >= Capacity)
  /\ counted' = counted + 1
  /\ UNCHANGED <<offered, queue, open, taken>>

Close ==
  /\ open' = FALSE
  /\ UNCHANGED <<offered, seen, queue, counted, taken>>

Lose ==
  /\ Look
  /\ ~open
  /\ UNCHANGED <<offered, queue, counted, open, taken>>

Take ==
  /\ ~open
  /\ taken' = taken \o queue
  /\ queue' = <<>>
  /\ UNCHANGED <<offered, seen, counted, open>>

\* An event that was on its way into the list when drain returned it.
AcceptLate ==
  /\ Look
  /\ offered[seen'] \in Wanted
  /\ ~open
  /\ taken' = Append(taken, offered[seen'])
  /\ UNCHANGED <<offered, queue, counted, open>>

\* The next run has a loader of its own; this one was closed, or a handshake
\* that failed never began to read.
Renew ==
  /\ ~open \/ seen = 0
  /\ offered' = <<>>
  /\ seen' = 0
  /\ queue' = <<>>
  /\ counted' = 0
  /\ open' = TRUE
  /\ taken' = <<>>

Next ==
  \/ \E e \in Event : Offer(e)
  \/ Pass \/ Accept \/ Count \/ Close \/ Lose \/ Take \/ AcceptLate
  \/ Renew

Spec == Init /\ [][Next]_vars
=============================================================================
