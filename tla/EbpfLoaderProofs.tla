--------------------------- MODULE EbpfLoaderProofs ---------------------------
(***************************************************************************)
(* Proofs about EbpfLoader, for every set of events, every bound of the    *)
(* buffer and of the pipe, and windows of any length: the types, that what *)
(* was read is accounted for, and that the loader implements LossyQueue.   *)
(***************************************************************************)
EXTENDS EbpfLoader, FiniteSetTheorems, TLAPS

(* What makes the accounting inductive: where the reader can be while the  *)
(* main thread goes through the window, and what it is sure of.            *)

\* The reader has room for what it is about to append, and for what it counts there was
\* none in the list that is, or was, being filled.
RoomToStore ==
  /\ reader \in {"storing", "bound"} => Len(buffer) < MaxBuffered
  /\ reader = "counting" => Len(IF drained THEN result ELSE buffer) = MaxBuffered

\* The line in the reader's hand has been read, and is wanted if it is to be kept.
HeldIsRead ==
  /\ InHand => read > 0
  /\ reader \in {"storing", "counting", "bound", "late"} => Held \in Wanted

\* There is no reader before the window, nothing is read without one, and beyond the
\* window one is left only after a stop.
ReaderInWindow ==
  /\ reader = "none" => read = 0
  /\ (reader # "none" /\ ~stop) => pc \in {"window", "stuck"}
  /\ pc \in {"start", "handshake"} => reader = "none" /\ ~stop

\* Only a stop leads to the drain, and only the drain fills the result.
DrainIsOnce ==
  /\ pc \in {"join", "drain"} => stop
  /\ pc \in {"start", "handshake", "window", "terminate", "wait5", "wait2", "join", "drain"}
       => result = <<>> /\ reader # "late" /\ ~drained
  /\ reader = "late" \/ drained => stop

\* To the list that drain leaves, one event is appended at most: that of a reader that
\* was past its look at the stop.
NewList ==
  drained => /\ Len(buffer) <= 1
             /\ reader \in {"parsing", "storing", "bound"} => Len(buffer) = 0

LoaderInv == RoomToStore /\ HeldIsRead /\ ReaderInWindow /\ DrainIsOnce /\ NewList
-----------------------------------------------------------------------------
(* The types. *)

\* The empty sequence is one of any kind, and fits.
LEMMA NoLines ==
  /\ <<>> \in Seq(Event) /\ <<>> \in Seq(Wanted)
  /\ Len(<<>>) = 0 /\ 0 \in 0 .. Len(<<>>) /\ Len(<<>>) <= MaxBuffered
BY SizeAssumption

LEMMA InitType == Init => TypeOK
<1> SUFFICES ASSUME Init PROVE TypeOK
  OBVIOUS
<1>1. printed = <<>> /\ read = 0 /\ buffer = <<>> /\ dropped = 0 /\ result = <<>>
  BY DEF Init
<1>2. /\ printed \in Seq(Event) /\ read \in 0 .. Len(printed) /\ buffer \in Seq(Wanted)
      /\ Len(buffer) <= MaxBuffered /\ dropped \in Nat /\ result \in Seq(Wanted)
  BY <1>1, NoLines
<1>3. QED
  BY <1>2 DEF Init, TypeOK

LEMMA NextType == TypeOK /\ LoaderInv /\ [Next]_vars => TypeOK'
<1> SUFFICES ASSUME TypeOK, LoaderInv, [Next]_vars PROVE TypeOK'
  OBVIOUS
<1> USE DEF TypeOK, mainVars, childVars, readerVars
<1>1. ASSUME StartTick PROVE TypeOK'
  BY <1>1, NoLines DEF StartTick
<1>2. ASSUME EndTick PROVE TypeOK'
  BY <1>2 DEF EndTick, Goto
<1>3. ASSUME Loop PROVE TypeOK'
  BY <1>3 DEF Loop, Goto
<1>4. ASSUME Wait PROVE TypeOK'
  BY <1>4 DEF Wait, Goto
<1>5. ASSUME Wake PROVE TypeOK'
  BY <1>5 DEF Wake, Goto
<1>6. ASSUME Return PROVE TypeOK'
  BY <1>6 DEF Return, Goto
<1>7. ASSUME Refuse PROVE TypeOK'
  BY <1>7 DEF Refuse, Goto
<1>8. ASSUME Popen PROVE TypeOK'
  BY <1>8 DEF Popen, Goto
<1>9. ASSUME ExitedEarly PROVE TypeOK'
  BY <1>9 DEF ExitedEarly, Goto
<1>10. ASSUME Attached PROVE TypeOK'
  BY <1>10 DEF Attached, Goto
<1>11. ASSUME NotInTime PROVE TypeOK'
  BY <1>11 DEF NotInTime, Goto
<1>12. ASSUME Stop PROVE TypeOK'
  BY <1>12 DEF Stop
<1>13. ASSUME Terminate PROVE TypeOK'
  BY <1>13 DEF Terminate, Goto, Gone
<1>14. ASSUME Terminated PROVE TypeOK'
  BY <1>14 DEF Terminated, Goto
<1>15. ASSUME Timeout PROVE TypeOK'
  BY <1>15 DEF Timeout, Goto
<1>16. ASSUME TimeoutAgain PROVE TypeOK'
  BY <1>16 DEF TimeoutAgain, Goto
<1>17. ASSUME Join PROVE TypeOK'
  BY <1>17 DEF Join, Goto
<1>18. ASSUME Drain PROVE TypeOK'
  BY <1>18, NoLines DEF Drain, Goto
<1>19. ASSUME Signal PROVE TypeOK'
  BY <1>19 DEF Signal
<1>20. ASSUME ReadLine PROVE TypeOK'
  BY <1>20 DEF ReadLine, ReaderGoes
<1>21. ASSUME EndOfFile PROVE TypeOK'
  BY <1>21 DEF EndOfFile, ReaderGoes
<1>22. ASSUME Break PROVE TypeOK'
  BY <1>22 DEF Break, ReaderGoes
<1>23. ASSUME Skip PROVE TypeOK'
  BY <1>23 DEF Skip, ReaderGoes
<1>24. ASSUME Count PROVE TypeOK'
  BY <1>24 DEF Count, ReaderGoes
<1>25. ASSUME Store PROVE TypeOK'
  BY <1>25 DEF Store, ReaderGoes
<1>26. ASSUME AppendEvent PROVE TypeOK'
  <2>1. Held \in Wanted
    BY <1>26 DEF AppendEvent, ReaderGoes, LoaderInv, HeldIsRead
  <2>2. CASE reader = "bound"
    <3>1. /\ buffer' = Append(buffer, Held) /\ reader' = "reading"
          /\ UNCHANGED <<mainVars, childVars, drained, read, dropped, result>>
      BY <1>26, <2>2 DEF AppendEvent, ReaderGoes
    <3>2. Len(buffer) < MaxBuffered /\ buffer \in Seq(Wanted) /\ MaxBuffered \in Nat
      BY <2>2, SizeAssumption DEF LoaderInv, RoomToStore
    <3>3. buffer' \in Seq(Wanted) /\ Len(buffer') <= MaxBuffered
      BY ONLY <2>1, <3>1, <3>2
    <3>4. QED
      BY <3>1, <3>3
  <2>3. CASE reader = "late"
    BY <1>26, <2>1, <2>3, SMTT(30) DEF AppendEvent, ReaderGoes
  <2>4. QED
    BY <1>26, <2>2, <2>3 DEF AppendEvent, ReaderGoes
<1>27. ASSUME ChildFails PROVE TypeOK'
  BY <1>27 DEF ChildFails
<1>28. ASSUME ChildAttaches PROVE TypeOK'
  BY <1>28 DEF ChildAttaches
<1>29. ASSUME ChildExits PROVE TypeOK'
  BY <1>29, ZenonT(40) DEF ChildExits
<1>30. ASSUME ChildPollFails PROVE TypeOK'
  BY <1>30, ZenonT(40) DEF ChildPollFails
<1>31. ASSUME ChildKilled PROVE TypeOK'
  BY <1>31 DEF ChildKilled
<1>32. ASSUME ChildCrashes PROVE TypeOK'
  BY <1>32 DEF ChildCrashes
<1>33. ASSUME NEW e \in Event, ChildPrints(e) PROVE TypeOK'
  <2>1. CASE Len(printed) - read < PipeSize
    BY <1>33, <2>1, SMTT(30) DEF ChildPrints
  <2>2. CASE ~(Len(printed) - read < PipeSize)
    BY <1>33, <2>2, SMTT(30) DEF ChildPrints
  <2>3. QED
    BY <2>1, <2>2
<1>34. ASSUME NEW e \in Event, ChildUnblocks(e) PROVE TypeOK'
  BY <1>34 DEF ChildUnblocks
<1>35. ASSUME UNCHANGED vars PROVE TypeOK'
  BY <1>35 DEF vars
<1>36. ASSUME Parse PROVE TypeOK'
  BY <1>36 DEF Parse, ReaderGoes
<1>37. ASSUME NoRoom PROVE TypeOK'
  BY <1>37 DEF NoRoom, ReaderGoes
<1>38. ASSUME LookUp PROVE TypeOK'
  BY <1>38 DEF LookUp, ReaderGoes
<1>39. QED
  BY <1>1, <1>2, <1>3, <1>4, <1>5, <1>6, <1>7, <1>8, <1>9, <1>10, <1>11, <1>12, <1>13,
     <1>14, <1>15, <1>16, <1>17, <1>18, <1>19, <1>20, <1>21, <1>22, <1>23, <1>24, <1>25,
     <1>26, <1>27, <1>28, <1>29, <1>30, <1>31, <1>32, <1>33, <1>34, <1>35, <1>36, <1>37,
     <1>38
  DEF Next, MainStep, ReaderStep, ChildStep

LEMMA InitLoader == Init => LoaderInv
BY DEF Init, LoaderInv, RoomToStore, HeldIsRead, ReaderInWindow, DrainIsOnce, NewList, InHand

LEMMA NextLoader == TypeOK /\ LoaderInv /\ [Next]_vars => LoaderInv'
<1> SUFFICES ASSUME TypeOK, LoaderInv, [Next]_vars PROVE LoaderInv'
  OBVIOUS
<1> USE DEF TypeOK, LoaderInv, RoomToStore, HeldIsRead, ReaderInWindow, DrainIsOnce, NewList,
            InHand, Held, mainVars, childVars, readerVars
<1>1. ASSUME StartTick PROVE LoaderInv'
  BY <1>1 DEF StartTick
<1>2. ASSUME EndTick PROVE LoaderInv'
  BY <1>2 DEF EndTick, Goto
<1>3. ASSUME Loop PROVE LoaderInv'
  BY <1>3 DEF Loop, Goto
<1>4. ASSUME Wait PROVE LoaderInv'
  BY <1>4 DEF Wait, Goto
<1>5. ASSUME Wake PROVE LoaderInv'
  BY <1>5 DEF Wake, Goto
<1>6. ASSUME Return PROVE LoaderInv'
  BY <1>6 DEF Return, Goto
<1>7. ASSUME Refuse PROVE LoaderInv'
  BY <1>7 DEF Refuse, Goto
<1>8. ASSUME Popen PROVE LoaderInv'
  BY <1>8 DEF Popen, Goto
<1>9. ASSUME ExitedEarly PROVE LoaderInv'
  BY <1>9 DEF ExitedEarly, Goto
<1>10. ASSUME Attached PROVE LoaderInv'
  BY <1>10 DEF Attached, Goto
<1>11. ASSUME NotInTime PROVE LoaderInv'
  BY <1>11 DEF NotInTime, Goto
<1>12. ASSUME Stop PROVE LoaderInv'
  BY <1>12 DEF Stop
<1>13. ASSUME Terminate PROVE LoaderInv'
  BY <1>13 DEF Terminate, Goto, Gone
<1>14. ASSUME Terminated PROVE LoaderInv'
  BY <1>14 DEF Terminated, Goto
<1>15. ASSUME Timeout PROVE LoaderInv'
  BY <1>15 DEF Timeout, Goto
<1>16. ASSUME TimeoutAgain PROVE LoaderInv'
  BY <1>16 DEF TimeoutAgain, Goto
<1>17. ASSUME Join PROVE LoaderInv'
  BY <1>17 DEF Join, Goto
<1>18. ASSUME Drain PROVE LoaderInv'
  <2>1. /\ Len(buffer') = 0 /\ stop /\ stop' = stop /\ drained' /\ pc' = "rest"
        /\ result' = buffer /\ ~drained
    BY <1>18, NoLines DEF Drain, Goto
  <2>2. /\ UNCHANGED <<read, printed>>
        /\ reader' = IF reader = "bound" THEN "late" ELSE reader
    BY <1>18 DEF Drain, Goto
  <2>3. MaxBuffered \in Nat \ {0}
    BY SizeAssumption
  <2>4. RoomToStore'
    BY ONLY <2>1, <2>2, <2>3, RoomToStore DEF RoomToStore
  <2>5. HeldIsRead'
    BY ONLY <2>1, <2>2, HeldIsRead DEF HeldIsRead, InHand, Held
  <2>6. ReaderInWindow' /\ DrainIsOnce' /\ NewList'
    BY ONLY <2>1, <2>2, ReaderInWindow DEF ReaderInWindow, DrainIsOnce, NewList
  <2>7. QED
    BY ONLY <2>4, <2>5, <2>6 DEF LoaderInv
<1>19. ASSUME Signal PROVE LoaderInv'
  BY <1>19 DEF Signal
<1>20. ASSUME ReadLine PROVE LoaderInv'
  BY <1>20 DEF ReadLine, ReaderGoes
<1>21. ASSUME EndOfFile PROVE LoaderInv'
  BY <1>21 DEF EndOfFile, ReaderGoes
<1>22. ASSUME Break PROVE LoaderInv'
  BY <1>22 DEF Break, ReaderGoes
<1>23. ASSUME Skip PROVE LoaderInv'
  BY <1>23 DEF Skip, ReaderGoes
<1>24. ASSUME Count PROVE LoaderInv'
  BY <1>24 DEF Count, ReaderGoes
<1>25. ASSUME Store PROVE LoaderInv'
  BY <1>25 DEF Store, ReaderGoes
<1>26. ASSUME AppendEvent PROVE LoaderInv'
  BY <1>26 DEF AppendEvent, ReaderGoes
<1>27. ASSUME ChildFails PROVE LoaderInv'
  BY <1>27 DEF ChildFails
<1>28. ASSUME ChildAttaches PROVE LoaderInv'
  BY <1>28 DEF ChildAttaches
<1>29. ASSUME ChildExits PROVE LoaderInv'
  BY <1>29 DEF ChildExits
<1>30. ASSUME ChildPollFails PROVE LoaderInv'
  BY <1>30 DEF ChildPollFails
<1>31. ASSUME ChildKilled PROVE LoaderInv'
  BY <1>31 DEF ChildKilled
<1>32. ASSUME ChildCrashes PROVE LoaderInv'
  BY <1>32 DEF ChildCrashes
<1>33. ASSUME NEW e \in Event, ChildPrints(e) PROVE LoaderInv'
  <2>1. CASE Len(printed) - read < PipeSize
    BY <1>33, <2>1, SMTT(30) DEF ChildPrints
  <2>2. CASE ~(Len(printed) - read < PipeSize)
    BY <1>33, <2>2, SMTT(30) DEF ChildPrints
  <2>3. QED
    BY <2>1, <2>2
<1>34. ASSUME NEW e \in Event, ChildUnblocks(e) PROVE LoaderInv'
  BY <1>34 DEF ChildUnblocks
<1>35. ASSUME UNCHANGED vars PROVE LoaderInv'
  BY <1>35 DEF vars
<1>36. ASSUME Parse PROVE LoaderInv'
  BY <1>36 DEF Parse, ReaderGoes
<1>37. ASSUME NoRoom PROVE LoaderInv'
  <2>1. Len(buffer) \in Nat /\ Len(buffer) = MaxBuffered
    BY <1>37, SizeAssumption DEF NoRoom, ReaderGoes
  <2>2. ~drained
    BY <1>37, <2>1, SizeAssumption DEF NoRoom, ReaderGoes
  <2>3. QED
    BY <1>37, <2>1, <2>2 DEF NoRoom, ReaderGoes
<1>38. ASSUME LookUp PROVE LoaderInv'
  BY <1>38 DEF LookUp, ReaderGoes
<1>39. QED
  BY <1>1, <1>2, <1>3, <1>4, <1>5, <1>6, <1>7, <1>8, <1>9, <1>10, <1>11, <1>12, <1>13,
     <1>14, <1>15, <1>16, <1>17, <1>18, <1>19, <1>20, <1>21, <1>22, <1>23, <1>24, <1>25,
     <1>26, <1>27, <1>28, <1>29, <1>30, <1>31, <1>32, <1>33, <1>34, <1>35, <1>36, <1>37,
     <1>38
  DEF Next, MainStep, ReaderStep, ChildStep

\* The type invariant, with the bound of the buffer, holds whatever the events, the
\* bounds and the interleaving of daemon, reader and child are.
THEOREM TypeCorrect == Spec => []TypeOK
<1>1. Init => TypeOK /\ LoaderInv
  BY InitType, InitLoader
<1>2. TypeOK /\ LoaderInv /\ [Next]_vars => (TypeOK /\ LoaderInv)'
  BY NextType, NextLoader
<1>3. QED
  BY <1>1, <1>2, PTL DEF Spec

-----------------------------------------------------------------------------
(* The accounting. *)

\* The positions of the wanted lines the reader is done with.
Seen == {i \in 1 .. Done : printed[i] \in Wanted}

\* Of lines done with there are finitely many.
LEMMA SeenFinite == ASSUME TypeOK, LoaderInv PROVE IsFiniteSet(Seen) /\ Done \in Nat
<1>1. Done \in Nat
  BY DEF TypeOK, LoaderInv, HeldIsRead, Done
<1>2. IsFiniteSet(1 .. Done)
  BY <1>1, FS_Interval
<1>3. Seen \subseteq 1 .. Done
  BY DEF Seen
<1>4. QED
  BY <1>1, <1>2, <1>3, FS_Subset

\* What the child prints meanwhile is not among them.
LEMMA SeenStays ==
  ASSUME TypeOK, LoaderInv, Done' = Done,
         printed' = printed \/ \E e \in Event : printed' = Append(printed, e)
  PROVE  Seen' = Seen
<1>1. Done \in Nat /\ Done <= Len(printed) /\ printed \in Seq(Event)
  BY DEF TypeOK, LoaderInv, HeldIsRead, Done
<1>2. \A i \in 1 .. Done : printed'[i] = printed[i]
  BY <1>1
<1>3. QED
  BY <1>2 DEF Seen

\* The reader is done with one more line.
LEMMA SeenGrows ==
  ASSUME TypeOK, LoaderInv, Done' = Done + 1, printed' = printed
  PROVE  Cardinality(Seen') = Cardinality(Seen)
                                + (IF printed[Done + 1] \in Wanted THEN 1 ELSE 0)
<1>1. Done \in Nat /\ IsFiniteSet(Seen) /\ Cardinality(Seen) \in Nat
  BY SeenFinite, FS_CardinalityType
<1>2. CASE printed[Done + 1] \in Wanted
  <2>1. Seen' = Seen \cup {Done + 1}
    BY <1>1, <1>2 DEF Seen
  <2>2. Done + 1 \notin Seen
    BY <1>1 DEF Seen
  <2>3. QED
    BY <1>1, <1>2, <2>1, <2>2, FS_AddElement
<1>3. CASE printed[Done + 1] \notin Wanted
  <2>1. Seen' = Seen
    BY <1>1, <1>3 DEF Seen
  <2>2. QED
    BY <1>1, <1>3, <2>1
<1>4. QED
  BY <1>2, <1>3

Kept == Len(buffer) + Len(result) + dropped

\* While nothing is drained all but the line in hand at the stop is kept; what is in the
\* list that drain leaves is kept, but not drainable.
Balanced == IF reader = "ended" /\ stop THEN Cardinality(Seen) - Kept \in 0 .. 1
                                        ELSE Cardinality(Seen) - Kept = 0

\* The property follows, since that list has one event at most.
LEMMA BalancedIsAccounted == ASSUME TypeOK, LoaderInv, Balanced PROVE ReadIsAccounted
<1> DEFINE K == Len(Drainable) + Len(result) + dropped
           Bound == (IF reader = "ended" /\ stop THEN 1 ELSE 0) + (IF drained THEN 1 ELSE 0)
<1>1. Cardinality(Seen) \in Nat /\ Len(buffer) \in Nat /\ Len(result) \in Nat /\ dropped \in Nat
  BY SeenFinite, FS_CardinalityType DEF TypeOK
<1>2. Len(Drainable) = IF drained THEN 0 ELSE Len(buffer)
  BY DEF Drainable
<1>3. drained => Len(buffer) <= 1
  BY DEF LoaderInv, NewList
<1>4. Cardinality(Seen) - K \in 0 .. Bound
  BY <1>1, <1>2, <1>3 DEF Balanced, Kept
<1>5. QED
  BY <1>4 DEF ReadIsAccounted, Seen

\* A step that takes and keeps nothing, and does not revive a reader that has ended.
LEMMA BalancedStays ==
  ASSUME TypeOK, LoaderInv, Balanced, Done' = Done,
         printed' = printed \/ \E e \in Event : printed' = Append(printed, e),
         UNCHANGED <<buffer, result, dropped>>,
         (reader = "ended" /\ stop) => (reader' = "ended" /\ stop')
  PROVE  Balanced'
<1>1. Seen' = Seen
  BY SeenStays
<1>2. Cardinality(Seen') = Cardinality(Seen) /\ Kept' = Kept
  BY <1>1 DEF Kept
<1>3. Cardinality(Seen) \in Nat /\ Kept \in Nat
  BY SeenFinite, FS_CardinalityType DEF Kept, TypeOK
<1>4. IF reader' = "ended" /\ stop' THEN Cardinality(Seen') - Kept' \in 0 .. 1
                                   ELSE Cardinality(Seen') - Kept' = 0
  BY <1>2, <1>3 DEF Balanced
<1>5. QED
  BY <1>4 DEF Balanced

LEMMA NextBalanced ==
  TypeOK /\ LoaderInv /\ Balanced /\ [Next]_vars => Balanced'
<1> SUFFICES ASSUME TypeOK, LoaderInv, Balanced, [Next]_vars PROVE Balanced'
  OBVIOUS
<1> DEFINE Idle ==
      /\ Done' = Done
      /\ printed' = printed \/ \E e \in Event : printed' = Append(printed, e)
      /\ UNCHANGED <<buffer, result, dropped>>
      /\ (reader = "ended" /\ stop) => (reader' = "ended" /\ stop')
<1>0. Idle => Balanced'
  BY BalancedStays
<1> USE DEF mainVars, childVars, readerVars, Done, InHand
<1>1. EndTick => Idle
  BY DEF EndTick, Goto
<1>2. Loop => Idle
  BY DEF Loop, Goto
<1>3. Wait => Idle
  BY DEF Wait, Goto
<1>4. Wake => Idle
  BY DEF Wake, Goto
<1>5. Return => Idle
  BY DEF Return, Goto
<1>6. Refuse => Idle
  BY DEF Refuse, Goto
<1>7. Popen => Idle
  BY DEF Popen, Goto
<1>8. ExitedEarly => Idle
  BY DEF ExitedEarly, Goto
<1>9. Attached => Idle
  BY DEF Attached, Goto, LoaderInv, ReaderInWindow
<1>10. NotInTime => Idle
  BY DEF NotInTime, Goto
<1>11. Stop => Idle
  BY DEF Stop
<1>12. Terminate => Idle
  BY DEF Terminate, Goto
<1>13. Terminated => Idle
  BY DEF Terminated, Goto
<1>14. Timeout => Idle
  BY DEF Timeout, Goto
<1>15. TimeoutAgain => Idle
  BY DEF TimeoutAgain, Goto
<1>16. Join => Idle
  BY DEF Join, Goto
<1>17. Signal => Idle
  BY DEF Signal
<1>18. ReadLine => Idle
  BY DEF ReadLine, ReaderGoes, TypeOK
<1>19. EndOfFile => Idle
  BY DEF EndOfFile, ReaderGoes
<1>20. ASSUME Store \/ NoRoom \/ Parse \/ LookUp PROVE Idle
  BY <1>20 DEF Store, NoRoom, Parse, LookUp, ReaderGoes
<1>21. ChildFails => Idle
  BY DEF ChildFails
<1>22. ChildAttaches => Idle
  BY DEF ChildAttaches
<1>23. ChildExits => Idle
  BY DEF ChildExits
<1>24. ChildPollFails => Idle
  BY DEF ChildPollFails
<1>25. ChildKilled => Idle
  BY DEF ChildKilled
<1>26. ChildCrashes => Idle
  BY DEF ChildCrashes
<1>27. ASSUME NEW e \in Event, ChildPrints(e) PROVE Idle
  BY <1>27 DEF ChildPrints
<1>28. ASSUME NEW e \in Event, ChildUnblocks(e) PROVE Idle
  BY <1>28 DEF ChildUnblocks
<1>29. UNCHANGED vars => Idle
  BY DEF vars
<1> HIDE DEF Idle
<1> DEFINE Even(card, kept) == IF reader' = "ended" /\ stop' THEN card - kept \in 0 .. 1
                                                             ELSE card - kept = 0
<1>30. Even(Cardinality(Seen'), Kept') => Balanced'
  BY DEF Balanced
<1>31. /\ IF reader = "ended" /\ stop THEN Cardinality(Seen) - Kept \in 0 .. 1
                                       ELSE Cardinality(Seen) - Kept = 0
       /\ Cardinality(Seen) \in Nat /\ Kept \in Nat
  BY SeenFinite, FS_CardinalityType DEF Balanced, Kept, TypeOK
<1>32. ASSUME StartTick PROVE Balanced'
  <2>1. Seen' = {} /\ Kept' = 0 /\ reader' = "none"
    BY <1>32 DEF StartTick, Seen, Kept
  <2>2. Cardinality(Seen') = 0
    BY <2>1, FS_EmptySet
  <2>3. QED
    BY <2>1, <2>2, <1>30
<1>33. ASSUME Drain PROVE Balanced'
  <2>1. result = <<>>
    BY <1>33 DEF Drain, LoaderInv, DrainIsOnce
  <2>2. Kept' = Kept /\ Done' = Done /\ printed' = printed
    BY <1>33, <2>1 DEF Drain, Goto, Kept, TypeOK
  <2>3. Seen' = Seen
    BY <2>2, SeenStays
  <2>4. (reader' = "ended" /\ stop') <=> (reader = "ended" /\ stop)
    BY <1>33 DEF Drain, Goto
  <2>5. QED
    BY <2>2, <2>3, <2>4, <1>30, <1>31
<1>34. ASSUME Break PROVE Balanced'
  <2>1. Done' = Done + 1 /\ printed' = printed /\ Done + 1 = read /\ reader # "ended"
    BY <1>34 DEF Break, ReaderGoes, TypeOK, LoaderInv, HeldIsRead
  <2>2. Cardinality(Seen') = Cardinality(Seen)
                               + (IF printed[Done + 1] \in Wanted THEN 1 ELSE 0)
    BY <2>1, SeenGrows
  <2>3. Kept' = Kept /\ reader' = "ended" /\ stop'
    BY <1>34, <2>1 DEF Break, ReaderGoes, Kept, Held, TypeOK, LoaderInv, HeldIsRead
  <2>4. QED
    BY <2>1, <2>2, <2>3, <1>30, <1>31
<1>35. ASSUME Skip PROVE Balanced'
  <2>1. Done' = Done + 1 /\ printed' = printed /\ Done + 1 = read /\ reader # "ended"
    BY <1>35 DEF Skip, ReaderGoes, TypeOK, LoaderInv, HeldIsRead
  <2>2. Cardinality(Seen') = Cardinality(Seen)
                               + (IF printed[Done + 1] \in Wanted THEN 1 ELSE 0)
    BY <2>1, SeenGrows
  <2>3. Kept' = Kept /\ reader' = "reading" /\ printed[Done + 1] \notin Wanted
    BY <1>35, <2>1 DEF Skip, ReaderGoes, Kept, Held, TypeOK, LoaderInv, HeldIsRead
  <2>4. QED
    BY <2>1, <2>2, <2>3, <1>30, <1>31
<1>36. ASSUME Count PROVE Balanced'
  <2>1. Done' = Done + 1 /\ printed' = printed /\ Done + 1 = read /\ reader # "ended"
    BY <1>36 DEF Count, ReaderGoes, TypeOK, LoaderInv, HeldIsRead
  <2>2. Cardinality(Seen') = Cardinality(Seen)
                               + (IF printed[Done + 1] \in Wanted THEN 1 ELSE 0)
    BY <2>1, SeenGrows
  <2>3. Kept' = Kept + 1 /\ reader' = "reading" /\ printed[Done + 1] \in Wanted
    BY <1>36, <2>1 DEF Count, ReaderGoes, Kept, Held, TypeOK, LoaderInv, HeldIsRead
  <2>4. QED
    BY <2>1, <2>2, <2>3, <1>30, <1>31
<1>37. ASSUME AppendEvent PROVE Balanced'
  <2>1. Done' = Done + 1 /\ printed' = printed /\ Done + 1 = read /\ reader # "ended"
    BY <1>37 DEF AppendEvent, ReaderGoes, TypeOK, LoaderInv, HeldIsRead
  <2>2. Cardinality(Seen') = Cardinality(Seen)
                               + (IF printed[Done + 1] \in Wanted THEN 1 ELSE 0)
    BY <2>1, SeenGrows
  <2>3. Kept' = Kept + 1 /\ reader' = "reading" /\ printed[Done + 1] \in Wanted
    <3>1. /\ Held \in Wanted /\ Held = printed[Done + 1] /\ dropped' = dropped
          /\ reader' = "reading"
      BY <1>37, <2>1 DEF AppendEvent, ReaderGoes, Held, LoaderInv, HeldIsRead
    <3>2. CASE reader = "bound"
      <4>1. buffer' = Append(buffer, Held) /\ result' = result
        BY <1>37, <3>2 DEF AppendEvent, ReaderGoes
      <4>2. Len(buffer') = Len(buffer) + 1
        BY <3>1, <4>1 DEF TypeOK
      <4>3. QED
        BY <3>1, <4>1, <4>2 DEF Kept, TypeOK
    <3>3. CASE reader # "bound"
      <4>1. result' = Append(result, Held) /\ buffer' = buffer
        BY <1>37, <3>3 DEF AppendEvent, ReaderGoes
      <4>2. Len(result') = Len(result) + 1
        BY <3>1, <4>1 DEF TypeOK
      <4>3. QED
        BY <3>1, <4>1, <4>2 DEF Kept, TypeOK
    <3>4. QED
      BY <3>2, <3>3
  <2>4. QED
    BY <2>1, <2>2, <2>3, <1>30, <1>31
<1>38. QED
  BY <1>0, <1>1, <1>2, <1>3, <1>4, <1>5, <1>6, <1>7, <1>8, <1>9, <1>10, <1>11, <1>12,
     <1>13, <1>14, <1>15, <1>16, <1>17, <1>18, <1>19, <1>20, <1>21, <1>22, <1>23, <1>24,
     <1>25, <1>26, <1>27, <1>28, <1>29, <1>30, <1>32, <1>33, <1>34, <1>35, <1>36, <1>37
  DEF Next, MainStep, ReaderStep, ChildStep

\* Of what the reader has read, at most two events, the one in its hand at the stop and
\* one appended to the list that drain leaves, are neither buffered, drained nor
\* counted, for every bound and any number of ticks.
THEOREM NothingUnaccounted == Spec => []ReadIsAccounted
<1>1. Init => TypeOK /\ LoaderInv /\ Balanced
  <2> SUFFICES ASSUME Init PROVE TypeOK /\ LoaderInv /\ Balanced
    OBVIOUS
  <2>1. Seen = {} /\ Kept = 0
    BY DEF Init, Seen, Kept, Done, InHand
  <2>2. Cardinality(Seen) = 0
    BY <2>1, FS_EmptySet
  <2>3. Balanced
    BY <2>1, <2>2 DEF Init, Balanced
  <2>4. QED
    BY <2>3, InitType, InitLoader
<1>2. TypeOK /\ LoaderInv /\ Balanced /\ [Next]_vars => (TypeOK /\ LoaderInv /\ Balanced)'
  BY NextType, NextLoader, NextBalanced
<1>3. TypeOK /\ LoaderInv /\ Balanced => ReadIsAccounted
  BY BalancedIsAccounted
<1>4. QED
  BY <1>1, <1>2, <1>3, PTL DEF Spec

-----------------------------------------------------------------------------
(* The refinement of LossyQueue. *)

LEMMA QueueInit == Init => Queue!Init
BY DEF Init, Queue!Init, Done, InHand, Drainable

\* A step of the daemon, the reader or the child is one of the queue, or none.
LEMMA QueueNext == TypeOK /\ LoaderInv /\ [Next]_vars => [Queue!Next]_(Queue!vars)
<1> SUFFICES ASSUME TypeOK, LoaderInv, [Next]_vars PROVE [Queue!Next]_(Queue!vars)
  OBVIOUS
<1> DEFINE Idle == UNCHANGED <<printed, stop, buffer, dropped, result, drained>> /\ Done' = Done
<1>0. Idle => [Queue!Next]_(Queue!vars)
  BY DEF Queue!vars, Drainable
<1> USE DEF mainVars, childVars, readerVars, Done, InHand
<1>1. EndTick => Idle
  BY DEF EndTick, Goto
<1>2. Loop => Idle
  BY DEF Loop, Goto
<1>3. Wait => Idle
  BY DEF Wait, Goto
<1>4. Wake => Idle
  BY DEF Wake, Goto
<1>5. Return => Idle
  BY DEF Return, Goto
<1>6. Refuse => Idle
  BY DEF Refuse, Goto
<1>7. Popen => Idle
  BY DEF Popen, Goto
<1>8. ExitedEarly => Idle
  BY DEF ExitedEarly, Goto
<1>9. Attached => Idle
  BY DEF Attached, Goto, LoaderInv, ReaderInWindow
<1>10. NotInTime => Idle
  BY DEF NotInTime, Goto
<1>11. Terminate => Idle
  BY DEF Terminate, Goto
<1>12. Terminated => Idle
  BY DEF Terminated, Goto
<1>13. Timeout => Idle
  BY DEF Timeout, Goto
<1>14. TimeoutAgain => Idle
  BY DEF TimeoutAgain, Goto
<1>15. Join => Idle
  BY DEF Join, Goto
<1>16. Signal => Idle
  BY DEF Signal
<1>17. ReadLine => Idle
  BY DEF ReadLine, ReaderGoes, TypeOK
<1>18. EndOfFile => Idle
  BY DEF EndOfFile, ReaderGoes
<1>19. ASSUME Store \/ NoRoom \/ Parse \/ LookUp PROVE Idle
  BY <1>19 DEF Store, NoRoom, Parse, LookUp, ReaderGoes
<1>20. ChildFails => Idle
  BY DEF ChildFails
<1>21. ChildAttaches => Idle
  BY DEF ChildAttaches
<1>22. ChildExits => Idle
  BY DEF ChildExits
<1>23. ChildPollFails => Idle
  BY DEF ChildPollFails
<1>24. ChildKilled => Idle
  BY DEF ChildKilled
<1>25. ChildCrashes => Idle
  BY DEF ChildCrashes
<1>26. UNCHANGED vars => Idle
  BY DEF vars
<1> HIDE DEF Idle
<1>27. ASSUME NEW e \in Event, ChildPrints(e) PROVE Queue!Offer(e) \/ Idle
  BY <1>27 DEF ChildPrints, Queue!Offer, Idle, Drainable
<1>28. ASSUME NEW e \in Event, ChildUnblocks(e) PROVE Queue!Offer(e)
  BY <1>28 DEF ChildUnblocks, Queue!Offer, Drainable
<1>29. Stop => Queue!Close
  BY DEF Stop, Queue!Close, Drainable
<1>30. StartTick => Queue!Renew
  BY DEF StartTick, Queue!Renew, Drainable, LoaderInv, ReaderInWindow
<1>31. Drain => Queue!Take
  BY DEF Drain, Goto, Queue!Take, Drainable, LoaderInv, DrainIsOnce, TypeOK
<1>32. ASSUME Break PROVE Queue!Lose
  <2>1. Done < Len(printed) /\ Done' = Done + 1 /\ Done' = read /\ printed' = printed
    BY <1>32 DEF Break, ReaderGoes, TypeOK, LoaderInv, HeldIsRead
  <2>2. Queue!Look
    BY <2>1 DEF Queue!Look
  <2>3. QED
    BY <1>32, <2>1, <2>2 DEF Break, ReaderGoes, Queue!Lose, Held, Drainable
<1>33. ASSUME Skip PROVE Queue!Pass
  <2>1. Done < Len(printed) /\ Done' = Done + 1 /\ Done' = read /\ printed' = printed
    BY <1>33 DEF Skip, ReaderGoes, TypeOK, LoaderInv, HeldIsRead
  <2>2. Queue!Look
    BY <2>1 DEF Queue!Look
  <2>3. QED
    BY <1>33, <2>1, <2>2 DEF Skip, ReaderGoes, Queue!Pass, Held, Drainable
<1>34. ASSUME Count PROVE Queue!Count
  <2>1. Done < Len(printed) /\ Done' = Done + 1 /\ Done' = read /\ printed' = printed
    BY <1>34 DEF Count, ReaderGoes, TypeOK, LoaderInv, HeldIsRead
  <2>2. Queue!Look
    BY <2>1 DEF Queue!Look
  <2>3. Len(Drainable) = MaxBuffered \/ (stop /\ Len(result) >= MaxBuffered)
    <3>1. CASE drained
      BY <1>34, <3>1, SizeAssumption DEF Count, ReaderGoes, LoaderInv, RoomToStore, DrainIsOnce
    <3>2. CASE ~drained
      BY <1>34, <3>2 DEF Count, ReaderGoes, LoaderInv, RoomToStore, Drainable
    <3>3. QED
      BY <3>1, <3>2
  <2>4. QED
    BY <1>34, <2>1, <2>2, <2>3
    DEF Count, ReaderGoes, Queue!Count, Held, Drainable, LoaderInv, HeldIsRead, DrainIsOnce
<1>35. ASSUME AppendEvent PROVE Queue!Accept \/ Queue!AcceptLate \/ Queue!Lose
  <2> USE DEF AppendEvent, ReaderGoes, LoaderInv, HeldIsRead
  <2>1. Done < Len(printed) /\ Done' = Done + 1 /\ Done' = read /\ printed' = printed
    BY <1>35 DEF TypeOK
  <2>2. Queue!Look
    BY <2>1 DEF Queue!Look
  <2>3. CASE reader = "bound" /\ ~drained
    <3>1. Queue!Accept
      BY <1>35, <2>1, <2>2, <2>3 DEF Queue!Accept, Held, Drainable, RoomToStore
    <3>2. QED
      BY <3>1
  <2>4. CASE reader = "bound" /\ drained
    <3>1. Queue!Lose
      BY <1>35, <2>1, <2>2, <2>4 DEF Queue!Lose, Drainable, DrainIsOnce
    <3>2. QED
      BY <3>1
  <2>5. CASE reader = "late"
    <3>1. Queue!AcceptLate
      BY <1>35, <2>1, <2>2, <2>5 DEF Queue!AcceptLate, Held, Drainable, DrainIsOnce
    <3>2. QED
      BY <3>1
  <2>6. QED
    BY <1>35, <2>3, <2>4, <2>5
<1>36. QED
  BY <1>0, <1>1, <1>2, <1>3, <1>4, <1>5, <1>6, <1>7, <1>8, <1>9, <1>10, <1>11, <1>12,
     <1>13, <1>14, <1>15, <1>16, <1>17, <1>18, <1>19, <1>20, <1>21, <1>22, <1>23, <1>24,
     <1>25, <1>26, <1>27, <1>28, <1>29, <1>30, <1>31, <1>32, <1>33, <1>34, <1>35
  DEF Next, MainStep, ReaderStep, ChildStep, Queue!Next

\* The loader implements the lossy queue: whatever daemon, reader, child and signals do,
\* the wanted events are taken in order and once, and while the queue is open one is
\* left out only when the buffer is full, and is then counted.
THEOREM LoaderIsLossyQueue == Spec => QueueSpec
<1>1. Init => TypeOK /\ LoaderInv
  BY InitType, InitLoader
<1>2. TypeOK /\ LoaderInv /\ [Next]_vars => (TypeOK /\ LoaderInv)'
  BY NextType, NextLoader
<1>3. QED
  BY <1>1, <1>2, QueueInit, QueueNext, PTL DEF Spec, QueueSpec, Queue!Spec
=============================================================================
