-------------------------- MODULE ObuSequencer_proofs -------------------------
(* What holds of every sequencer, for any descriptors, any temporal units, any *)
(* number of them, and any failures of the derived class.                      *)
EXTENDS ObuSequencer, TLAPS

(* What the states mean: the inductive strengthening of the safety properties. *)
StartedInv ==
    state = "Initialized" =>
        /\ header = None /\ body = <<>> /\ accepted = <<>> /\ delayed = <<>>
        /\ promised = None /\ firstPts = None /\ output = "none"
HeldBackInv ==
    state = "DescriptorsPushed" =>
        /\ kind = "Delaying" /\ header = None /\ body = <<>> /\ output = "none"
        /\ cached # None /\ cached = promised /\ delayed = accepted
        /\ closing # "failed" => firstPts = None
WrittenInv ==
    state = "SerializedPushed" =>
        /\ cached # None /\ header # None /\ header = promised /\ delayed = <<>>
        /\ kind # "Streaming" => output = "open" /\ body = accepted
        /\ kind = "Delaying" => firstPts # None
EndedInv == closing = "ok" => state = "Closed" /\ output = "none"

IInv == /\ StartedInv /\ HeldBackInv /\ WrittenInv /\ EndedInv
        /\ NothingLeftBehind /\ UnitsFollowDescriptors /\ FileCompleteWhenClosed

(* The units in the output are units.                                          *)
LEMMA AfterUnitsType ==
    ASSUME NEW b \in Seq(Units), NEW us \in Seq(Units)
    PROVE  AfterUnits(b, us) \in Seq(Units)
<1>1. CASE kind # "Streaming"
  BY <1>1 DEF AfterUnits
<1>2. CASE kind = "Streaming" /\ us = <<>>
  BY <1>2 DEF AfterUnits
<1>3. CASE kind = "Streaming" /\ us # <<>>
  <2>1. Len(us) \in 1..Len(us)
    BY <1>3
  <2>2. us[Len(us)] \in Units
    BY <2>1
  <2>. QED
    BY <1>3, <2>2 DEF AfterUnits
<1>. QED
  BY <1>1, <1>2, <1>3

(* However a call aborts, the variables an abort touches keep their types.      *)
LEMMA AbortType ==
    ASSUME TypeOK, Abort
    PROVE  /\ header' \in Descriptors \union {None} /\ body' \in Seq(Units)
           /\ state' = "Closed" /\ output' = "none" /\ pts' = pts
<1>. <<>> \in Seq(Units)
  OBVIOUS
<1>1. CASE kind = "Streaming" \/ output = "open"
  BY <1>1 DEF TypeOK, Abort, AbortDerived
<1>2. CASE ~(kind = "Streaming" \/ output = "open")
  BY <1>2 DEF TypeOK, Abort, AbortDerived
<1>. QED
  BY <1>1, <1>2

(* A call that aborts keeps every type.                                        *)
LEMMA AbortedType ==
    ASSUME TypeOK, Abort, kind' = kind, delayed' = delayed,
           promised' = promised, accepted' = accepted, closing' = closing,
           cached' \in Descriptors \union {None}, firstPts' \in Int \union {None}
    PROVE  TypeOK'
BY AbortType DEF TypeOK

(* Closing the output of the derived class keeps its type.                     *)
LEMMA CloseDerivedType ==
    ASSUME TypeOK, CloseDerived(body)
    PROVE  output' = "none" /\ body' \in Seq(Units)
<1>1. CASE kind = "Streaming"
  BY <1>1 DEF TypeOK, CloseDerived
<1>2. CASE kind # "Streaming"
  BY <1>2 DEF TypeOK, CloseDerived
<1>. QED
  BY <1>1, <1>2

(* A successful Close keeps every type.                                        *)
LEMMA CloseType ==
    ASSUME TypeOK, CloseSucceeds, kind' = kind
    PROVE  TypeOK'
<1>1. output' = "none" /\ body' \in Seq(Units)
  BY CloseDerivedType DEF CloseSucceeds
<1>2. CASE state = "DescriptorsPushed"
  BY <1>1, <1>2 DEF TypeOK, CloseSucceeds
<1>3. CASE state # "DescriptorsPushed"
  BY <1>1, <1>3 DEF TypeOK, CloseSucceeds
<1>. QED
  BY <1>2, <1>3

(* Writing a temporal unit keeps the types of the output and of the history.   *)
LEMMA PushedUnitType ==
    ASSUME TypeOK, NEW u \in Units
    PROVE  /\ Append(accepted, u) \in Seq(Units) /\ Append(delayed, u) \in Seq(Units)
           /\ AfterUnits(body, <<u>>) \in Seq(Units)
           /\ AfterUnits(body, Flushed(u)) \in Seq(Units)
<1>1. <<u>> \in Seq(Units)
  OBVIOUS
<1>2. Append(accepted, u) \in Seq(Units) /\ Append(delayed, u) \in Seq(Units)
  BY DEF TypeOK
<1>3. body \in Seq(Units)
  BY DEF TypeOK
<1>4. AfterUnits(body, <<u>>) \in Seq(Units)
  BY <1>1, <1>3, AfterUnitsType
<1>5. AfterUnits(body, Flushed(u)) \in Seq(Units)
  BY <1>2, <1>3, AfterUnitsType DEF Flushed
<1>. QED
  BY <1>2, <1>4, <1>5

(* Every variable keeps its type.                                              *)
LEMMA TypeCorrect == Spec => []TypeOK
<1>1. Init => TypeOK
  BY DEF Init, TypeOK
<1>2. TypeOK /\ [Next]_vars => TypeOK'
  <2>. SUFFICES ASSUME TypeOK, [Next]_vars PROVE TypeOK'
    OBVIOUS
  <2>1. ASSUME NEW d \in Descriptors, PushDescriptorObus(d) PROVE TypeOK'
    <3>1. CASE FailedCall
      BY <2>1, <3>1, AbortedType DEF PushDescriptorObus, FailedCall, history, Called, TypeOK
    <3>2. CASE Abort /\ cached' = d /\ UNCHANGED <<firstPts, delayed, history>>
      BY <2>1, <3>2, AbortedType DEF PushDescriptorObus, history, Called, TypeOK
    <3>3. CASE /\ cached' = d /\ UNCHANGED <<firstPts, delayed, accepted, closing>>
               /\ state' = "DescriptorsPushed" /\ UNCHANGED sink /\ promised' = d
      BY <2>1, <3>3 DEF PushDescriptorObus, Called, TypeOK, sink
    <3>4. CASE /\ cached' = d /\ UNCHANGED <<firstPts, delayed, accepted, closing>>
               /\ state' = "SerializedPushed" /\ promised' = d
               /\ PushSerializedDescriptorObus(d, firstPts) /\ UNCHANGED body
      BY <2>1, <3>4 DEF PushDescriptorObus, PushSerializedDescriptorObus, Called, TypeOK
    <3>. QED
      BY <2>1, <3>1, <3>2, <3>3, <3>4 DEF PushDescriptorObus
  <2>2. ASSUME NEW d \in Descriptors, UpdateDescriptorObusAndClose(d) PROVE TypeOK'
    <3>1. kind' = kind
      BY <2>2 DEF UpdateDescriptorObusAndClose, Called
    <3>2. CASE FailedCall
      BY <3>1, <3>2, AbortedType DEF FailedCall, history, TypeOK
    <3>3. CASE /\ PushFinalizedDescriptorObus(d) /\ CloseDerived(body)
               /\ state' = "Closed" /\ promised' = d /\ closing' = "ok"
               /\ UNCHANGED <<cached, firstPts, delayed, pts, accepted>>
      BY <3>1, <3>3, CloseDerivedType DEF PushFinalizedDescriptorObus, TypeOK
    <3>4. CASE CloseSucceeds
      BY <3>1, <3>4, CloseType
    <3>5. CASE FallbackFails /\ Abort /\ UNCHANGED closing
      BY <3>1, <3>5, AbortedType DEF FallbackFails, TypeOK
    <3>. QED
      BY <2>2, <3>2, <3>3, <3>4, <3>5 DEF UpdateDescriptorObusAndClose
  <2>3. ASSUME NEW u \in Units, PushTemporalUnit(u) PROVE TypeOK'
    <3>1. kind' = kind
      BY <2>3 DEF PushTemporalUnit, Called
    <3>2. CASE FailedCall
      BY <3>1, <3>2, AbortedType DEF FailedCall, history, TypeOK
    <3>3. CASE HandleInitialTemporalUnits(u)
      <4>1. firstPts' \in Int \union {None} /\ cached' = cached
        BY <3>3, UnitsAssumption DEF HandleInitialTemporalUnits, TypeOK
      <4>2. CASE Abort /\ UNCHANGED <<delayed, history>>
        BY <3>1, <4>1, <4>2, AbortedType DEF history, TypeOK
      <4>3. CASE /\ accepted' = Append(accepted, u) /\ UNCHANGED <<promised, closing>>
                 /\ PushSerializedTemporalUnits(<<u>>)
                 /\ UNCHANGED <<state, delayed, header, pts, output>>
        BY <3>1, <4>1, <4>3, PushedUnitType DEF PushSerializedTemporalUnits, TypeOK
      <4>4. CASE /\ accepted' = Append(accepted, u) /\ UNCHANGED <<promised, closing>>
                 /\ delayed' = Append(delayed, u) /\ UNCHANGED <<state, sink>>
        BY <3>1, <4>1, <4>4, PushedUnitType DEF sink, TypeOK
      <4>5. CASE /\ accepted' = Append(accepted, u) /\ UNCHANGED <<promised, closing>>
                 /\ PushSerializedDescriptorObus(cached, firstPts')
                 /\ state' = "SerializedPushed"
                 /\ PushSerializedTemporalUnits(Flushed(u)) /\ delayed' = <<>>
        <5>. <<>> \in Seq(Units)
          OBVIOUS
        <5>1. body' \in Seq(Units) /\ accepted' \in Seq(Units) /\ delayed' \in Seq(Units)
          BY <4>5, PushedUnitType DEF PushSerializedTemporalUnits
        <5>. QED
          BY <3>1, <4>1, <4>5, <5>1 DEF PushSerializedDescriptorObus, TypeOK
      <4>. QED
        BY <3>3, <4>2, <4>3, <4>4, <4>5 DEF HandleInitialTemporalUnits
    <3>4. CASE /\ PushSerializedTemporalUnits(<<u>>)
               /\ accepted' = Append(accepted, u)
               /\ UNCHANGED <<base, header, pts, output, promised, closing>>
      BY <3>1, <3>4, PushedUnitType DEF PushSerializedTemporalUnits, base, TypeOK
    <3>. QED
      BY <2>3, <3>2, <3>3, <3>4 DEF PushTemporalUnit
  <2>4. ASSUME Close PROVE TypeOK'
    <3>1. kind' = kind
      BY <2>4 DEF Close, Called
    <3>2. CASE UNCHANGED <<base, sink, history>>
      BY <3>1, <3>2 DEF base, sink, history, TypeOK
    <3>3. CASE CloseSucceeds
      BY <3>1, <3>3, CloseType
    <3>4. CASE FallbackFails /\ closing' = "failed" /\ UNCHANGED <<state, sink>>
      BY <3>1, <3>4 DEF FallbackFails, sink, TypeOK
    <3>. QED
      BY <2>4, <3>2, <3>3, <3>4 DEF Close
  <2>5. ASSUME CallerAborts PROVE TypeOK'
    BY <2>5, AbortedType DEF CallerAborts, history, TypeOK
  <2>6. ASSUME UNCHANGED vars PROVE TypeOK'
    BY <2>6 DEF vars, base, sink, history, TypeOK
  <2>. QED
    BY <2>1, <2>2, <2>3, <2>4, <2>5, <2>6 DEF Next
<1>. QED
  BY <1>1, <1>2, PTL DEF Spec
-------------------------------------------------------------------------------
(* A call that aborts keeps the invariant: it takes back what was written of a *)
(* sequence that is not complete, and touches nothing of a complete one.       *)
LEMMA AbortedInv ==
    ASSUME TypeOK, IInv, Abort, kind' = kind, promised' = promised,
           accepted' = accepted, closing' = closing
    PROVE  IInv'
<1>. USE DEF IInv, StartedInv, HeldBackInv, WrittenInv, EndedInv, NothingLeftBehind,
             UnitsFollowDescriptors, FileCompleteWhenClosed
<1>1. state' = "Closed" /\ output' = "none"
  BY DEF Abort, AbortDerived
<1>2. CASE kind = "Streaming" \/ output = "open"
  <2>1. header' = None /\ body' = <<>>
    BY <1>2 DEF Abort, AbortDerived
  <2>2. CASE closing = "ok"
    BY <1>1, <1>2, <2>1, <2>2
  <2>3. CASE closing # "ok"
    BY <1>1, <2>1, <2>3
  <2>. QED
    BY <2>2, <2>3
<1>3. CASE ~(kind = "Streaming" \/ output = "open")
  <2>1. header' = header /\ body' = body
    BY <1>3 DEF Abort, AbortDerived
  <2>2. closing # "ok" => header = None /\ body = <<>>
    BY <1>3 DEF TypeOK
  <2>. QED
    BY <1>1, <2>1, <2>2
<1>. QED
  BY <1>2, <1>3

(* What is written when units are pushed, by a class that does not stream.     *)
LEMMA PushedUnit ==
    ASSUME TypeOK, kind # "Streaming", NEW u \in Units
    PROVE  /\ PushSerializedTemporalUnits(<<u>>) => body' = Append(body, u)
           /\ body = <<>> /\ PushSerializedTemporalUnits(Flushed(u)) =>
                   body' = Append(delayed, u)
<1>1. ASSUME PushSerializedTemporalUnits(<<u>>) PROVE body' = Append(body, u)
  <2>1. body' = body \o <<u>>
    BY <1>1 DEF PushSerializedTemporalUnits, AfterUnits
  <2>2. body \in Seq(Units)
    BY DEF TypeOK
  <2>. QED
    BY <2>1, <2>2
<1>2. ASSUME body = <<>>, PushSerializedTemporalUnits(Flushed(u))
      PROVE  body' = Append(delayed, u)
  <2>1. body' = <<>> \o Append(delayed, u)
    BY <1>2 DEF PushSerializedTemporalUnits, AfterUnits, Flushed
  <2>2. Append(delayed, u) \in Seq(Units)
    BY DEF TypeOK
  <2>. QED
    BY <2>1, <2>2
<1>. QED
  BY <1>1, <1>2

(* A step of a caller that does not go on after a failed Close.                *)
LEMMA CalledOnce == ASSUME ~Retries, Called PROVE closing # "failed" /\ kind' = kind
BY DEF Called

(* Completing the sequence: Close, and an update with the cached descriptors.  *)
LEMMA ClosedInv ==
    ASSUME TypeOK, IInv, state # "Closed", CloseSucceeds, kind' = kind
    PROVE  IInv'
<1>. USE DEF IInv, StartedInv, HeldBackInv, WrittenInv, EndedInv, NothingLeftBehind,
             UnitsFollowDescriptors, FileCompleteWhenClosed
<1>1. state' = "Closed" /\ closing' = "ok" /\ output' = "none"
  BY DEF CloseSucceeds, CloseDerived
<1>2. /\ kind # "Streaming" => body' = body
      /\ body' # <<>> => body # <<>> /\ body' = body
  BY DEF CloseSucceeds, CloseDerived
<1>3. promised' = promised /\ accepted' = accepted
  BY DEF CloseSucceeds
<1>4. CASE state = "DescriptorsPushed"
  BY <1>1, <1>2, <1>3, <1>4
<1>5. CASE state # "DescriptorsPushed"
  <2>1. header' = header
    BY <1>5 DEF CloseSucceeds
  <2>2. kind = "File" => header = promised /\ body = accepted
    BY <1>5 DEF TypeOK
  <2>. QED
    BY <1>1, <1>2, <1>3, <2>1, <2>2
<1>. QED
  BY <1>4, <1>5

(* Pushing the descriptors starts the sequence.                                *)
LEMMA PushDescriptorObusInv ==
    ASSUME TypeOK, IInv, NEW d \in Descriptors, PushDescriptorObus(d)
    PROVE  IInv'
<1>. USE DEF IInv, StartedInv, HeldBackInv, WrittenInv, EndedInv, NothingLeftBehind,
             UnitsFollowDescriptors, FileCompleteWhenClosed
<1>1. kind' = kind
  BY DEF PushDescriptorObus, Called
<1>2. CASE FailedCall
  BY <1>1, <1>2, AbortedInv DEF FailedCall, history
<1>3. CASE Abort /\ UNCHANGED history
  BY <1>1, <1>3, AbortedInv DEF history
<1>4. CASE /\ state = "Initialized" /\ cached' = d
           /\ Delay /\ state' = "DescriptorsPushed" /\ UNCHANGED sink
           /\ UNCHANGED <<firstPts, delayed, accepted, closing>> /\ promised' = d
  BY <1>1, <1>4, NoneAssumption DEF Delay, sink
<1>5. CASE /\ state = "Initialized" /\ cached' = d
           /\ ~Delay /\ state' = "SerializedPushed"
           /\ PushSerializedDescriptorObus(d, firstPts) /\ UNCHANGED body
           /\ UNCHANGED <<firstPts, delayed, accepted, closing>> /\ promised' = d
  BY <1>1, <1>5, NoneAssumption DEF Delay, PushSerializedDescriptorObus
<1>. QED
  BY <1>2, <1>3, <1>4, <1>5 DEF PushDescriptorObus

(* A temporal unit is written after its descriptors, or held back before them. *)
LEMMA PushTemporalUnitInv ==
    ASSUME ~Retries, TypeOK, IInv, NEW u \in Units, PushTemporalUnit(u)
    PROVE  IInv'
<1>. USE DEF IInv, StartedInv, HeldBackInv, WrittenInv, EndedInv, NothingLeftBehind,
             UnitsFollowDescriptors, FileCompleteWhenClosed
<1>1. kind' = kind /\ closing # "failed"
  BY CalledOnce DEF PushTemporalUnit
<1>2. CASE FailedCall
  BY <1>1, <1>2, AbortedInv DEF FailedCall, history
<1>3. CASE IsOpen /\ firstPts = None /\ HandleInitialTemporalUnits(u)
  <2>1. cached' = cached
    BY <1>3 DEF HandleInitialTemporalUnits
  <2>2. CASE Abort /\ UNCHANGED history
    BY <1>1, <2>2, AbortedInv DEF history
  <2>3. CASE /\ ~Delay /\ PushSerializedTemporalUnits(<<u>>)
             /\ accepted' = Append(accepted, u) /\ UNCHANGED <<promised, closing>>
             /\ UNCHANGED <<state, delayed, header, pts, output>>
    <3>1. state = "SerializedPushed" /\ closing # "ok"
      BY <1>3, <2>3 DEF IsOpen, Delay
    <3>. QED
      BY <1>1, <2>1, <2>3, <3>1, PushedUnit DEF Delay
  <2>4. CASE /\ Delay /\ ~FoundFirstSample(u) /\ delayed' = Append(delayed, u)
             /\ accepted' = Append(accepted, u) /\ UNCHANGED <<promised, closing>>
             /\ UNCHANGED <<state, sink>>
    <3>1. state = "DescriptorsPushed" /\ closing # "ok"
      BY <1>3, <2>4 DEF IsOpen, Delay
    <3>2. firstPts' = firstPts
      BY <1>3, <2>4 DEF HandleInitialTemporalUnits
    <3>. QED
      BY <1>1, <1>3, <2>1, <2>4, <3>1, <3>2 DEF sink
  <2>5. CASE /\ Delay /\ FoundFirstSample(u) /\ delayed' = <<>>
             /\ accepted' = Append(accepted, u) /\ UNCHANGED <<promised, closing>>
             /\ PushSerializedDescriptorObus(cached, firstPts')
             /\ state' = "SerializedPushed" /\ PushSerializedTemporalUnits(Flushed(u))
    <3>1. state = "DescriptorsPushed" /\ closing # "ok"
      BY <1>3, <2>5 DEF IsOpen, Delay
    <3>2. firstPts' # None
      BY <1>3, <2>5, UnitsAssumption, NoneAssumption DEF HandleInitialTemporalUnits
    <3>3. body' = accepted'
      BY <2>5, <3>1, PushedUnit DEF Delay
    <3>4. header' = promised' /\ header' # None /\ output' = "open"
      BY <2>5, <3>1 DEF Delay, PushSerializedDescriptorObus
    <3>. QED
      BY <1>1, <2>1, <2>5, <3>1, <3>2, <3>3, <3>4
  <2>. QED
    BY <1>3, <2>2, <2>3, <2>4, <2>5 DEF HandleInitialTemporalUnits
<1>4. CASE /\ IsOpen /\ firstPts # None /\ PushSerializedTemporalUnits(<<u>>)
           /\ accepted' = Append(accepted, u)
           /\ UNCHANGED <<base, header, pts, output, promised, closing>>
  <2>1. state = "SerializedPushed" /\ closing # "ok"
    BY <1>1, <1>4 DEF IsOpen
  <2>. QED
    BY <1>1, <1>4, <2>1, PushedUnit DEF base
<1>. QED
  BY <1>2, <1>3, <1>4 DEF PushTemporalUnit

(* Updating the descriptors completes the sequence, or discards it.            *)
LEMMA UpdateDescriptorObusAndCloseInv ==
    ASSUME TypeOK, IInv, NEW d \in Descriptors, UpdateDescriptorObusAndClose(d)
    PROVE  IInv'
<1>. USE DEF IInv, StartedInv, HeldBackInv, WrittenInv, EndedInv, NothingLeftBehind,
             UnitsFollowDescriptors, FileCompleteWhenClosed
<1>1. kind' = kind
  BY DEF UpdateDescriptorObusAndClose, Called
<1>2. CASE FailedCall
  BY <1>1, <1>2, AbortedInv DEF FailedCall, history
<1>3. CASE /\ IsOpen /\ PushFinalizedDescriptorObus(d) /\ CloseDerived(body)
           /\ state' = "Closed" /\ promised' = d /\ closing' = "ok"
           /\ UNCHANGED <<cached, firstPts, delayed, pts, accepted>>
  <2>1. header' = d /\ d # None /\ output' = "none"
    BY <1>3, NoneAssumption DEF PushFinalizedDescriptorObus, CloseDerived
  <2>2. kind = "File" => body' = accepted
    BY <1>3 DEF IsOpen, CloseDerived
  <2>. QED
    BY <1>1, <1>3, <2>1, <2>2
<1>4. CASE IsOpen /\ CloseSucceeds
  BY <1>1, <1>4, ClosedInv DEF IsOpen
<1>5. CASE FallbackFails /\ Abort /\ UNCHANGED closing
  BY <1>1, <1>5, AbortedInv DEF FallbackFails
<1>. QED
  BY <1>2, <1>3, <1>4, <1>5 DEF UpdateDescriptorObusAndClose

(* Closing completes the sequence, or fails and leaves it open.                *)
LEMMA CloseInv ==
    ASSUME TypeOK, IInv, Close
    PROVE  IInv'
<1>. USE DEF IInv, StartedInv, HeldBackInv, WrittenInv, EndedInv, NothingLeftBehind,
             UnitsFollowDescriptors, FileCompleteWhenClosed
<1>1. kind' = kind
  BY DEF Close, Called
<1>2. CASE UNCHANGED <<base, sink, history>>
  BY <1>1, <1>2 DEF base, sink, history
<1>3. CASE state # "Closed" /\ CloseSucceeds
  BY <1>1, <1>3, ClosedInv
<1>4. CASE FallbackFails /\ closing' = "failed" /\ UNCHANGED <<state, sink>>
  BY <1>1, <1>4 DEF FallbackFails, sink
<1>. QED
  BY <1>2, <1>3, <1>4 DEF Close

(* The states mean what IInv says, if nobody goes on after a failed Close.     *)
LEMMA Invariant ==
    ASSUME ~Retries
    PROVE  Spec => []IInv
<1>1. Init => IInv
  BY DEF Init, IInv, StartedInv, HeldBackInv, WrittenInv, EndedInv, NothingLeftBehind,
         UnitsFollowDescriptors, FileCompleteWhenClosed
<1>2. TypeOK /\ IInv /\ [Next]_vars => IInv'
  <2>. SUFFICES ASSUME TypeOK, IInv, [Next]_vars PROVE IInv'
    OBVIOUS
  <2>1. ASSUME NEW d \in Descriptors, PushDescriptorObus(d) PROVE IInv'
    BY <2>1, PushDescriptorObusInv
  <2>2. ASSUME NEW d \in Descriptors, UpdateDescriptorObusAndClose(d) PROVE IInv'
    BY <2>2, UpdateDescriptorObusAndCloseInv
  <2>3. ASSUME NEW u \in Units, PushTemporalUnit(u) PROVE IInv'
    BY <2>3, PushTemporalUnitInv
  <2>4. ASSUME Close PROVE IInv'
    BY <2>4, CloseInv
  <2>5. ASSUME CallerAborts PROVE IInv'
    BY <2>5, AbortedInv DEF CallerAborts, history
  <2>6. ASSUME UNCHANGED vars PROVE IInv'
    BY <2>6 DEF vars, base, sink, history, IInv, StartedInv, HeldBackInv, WrittenInv,
                EndedInv, NothingLeftBehind, UnitsFollowDescriptors,
                FileCompleteWhenClosed
  <2>. QED
    BY <2>1, <2>2, <2>3, <2>4, <2>5, <2>6 DEF Next
<1>. QED
  BY <1>1, <1>2, TypeCorrect, PTL DEF Spec

(* A sequence that did not end in success leaves nothing behind: whatever call *)
(* failed, wherever it failed, the derived class took back what it had written.*)
THEOREM NothingIsLeftBehind ==
    ASSUME ~Retries
    PROVE  Spec => []NothingLeftBehind
<1>1. IInv => NothingLeftBehind
  BY DEF IInv
<1>. QED
  BY <1>1, Invariant, PTL

(* No temporal unit is ever in the output without descriptors in front of it.  *)
THEOREM UnitsAlwaysFollowDescriptors ==
    ASSUME ~Retries
    PROVE  Spec => []UnitsFollowDescriptors
<1>1. IInv => UnitsFollowDescriptors
  BY DEF IInv
<1>. QED
  BY <1>1, Invariant, PTL

(* A file that was closed successfully holds the descriptors last accepted and *)
(* every temporal unit accepted, in order.                                     *)
THEOREM FileIsComplete ==
    ASSUME ~Retries
    PROVE  Spec => []FileCompleteWhenClosed
<1>1. IInv => FileCompleteWhenClosed
  BY DEF IInv
<1>. QED
  BY <1>1, Invariant, PTL

(* While a sequencer is open, what it accepted is written or held back, in the *)
(* order of the calls: flushing the delayed units loses and reorders none.     *)
THEOREM NothingIsLost ==
    ASSUME ~Retries
    PROVE  Spec => []NothingLost
<1>1. TypeOK /\ IInv => NothingLost
  <2>. SUFFICES ASSUME TypeOK, IInv, IsOpen, kind # "Streaming"
                PROVE  accepted = body \o delayed
    BY DEF NothingLost
  <2>1. accepted \in Seq(Units)
    BY DEF TypeOK
  <2>2. \/ body = <<>> /\ delayed = accepted
        \/ body = accepted /\ delayed = <<>>
    BY DEF IInv, HeldBackInv, WrittenInv, IsOpen
  <2>. QED
    BY <2>1, <2>2
<1>. QED
  BY <1>1, Invariant, TypeCorrect, PTL

(* Closing and aborting are final: no later call changes the state, accepts a  *)
(* unit, or changes what a file or a muxer was given.                          *)
THEOREM ClosingIsFinal ==
    ASSUME ~Retries
    PROVE  Spec => ClosedIsFinal
<1>. DEFINE Final == /\ UNCHANGED <<state, accepted, closing>>
                     /\ kind # "Streaming" => UNCHANGED <<header, body>>
<1>1. TypeOK /\ IInv /\ [Next]_vars => [state = "Closed" => Final]_vars
  <2>. SUFFICES ASSUME TypeOK, IInv, Next, state = "Closed" PROVE Final
    OBVIOUS
  <2>1. ASSUME Abort, accepted' = accepted, closing' = closing PROVE Final
    <3>1. CASE output = "open"
      <4>1. header = None /\ body = <<>>
        BY <3>1 DEF IInv, EndedInv, NothingLeftBehind
      <4>. QED
        BY <2>1, <3>1, <4>1 DEF Abort, AbortDerived
    <3>2. CASE output # "open"
      BY <2>1, <3>2 DEF Abort, AbortDerived
    <3>. QED
      BY <3>1, <3>2
  <2>2. ASSUME FailedCall PROVE Final
    BY <2>1, <2>2 DEF FailedCall, history
  <2>3. ASSUME NEW d \in Descriptors, PushDescriptorObus(d) PROVE Final
    BY <2>2, <2>3 DEF PushDescriptorObus
  <2>4. ASSUME NEW d \in Descriptors, UpdateDescriptorObusAndClose(d) PROVE Final
    BY <2>2, <2>4 DEF UpdateDescriptorObusAndClose, IsOpen
  <2>5. ASSUME NEW u \in Units, PushTemporalUnit(u) PROVE Final
    BY <2>2, <2>5 DEF PushTemporalUnit, IsOpen
  <2>6. ASSUME Close PROVE Final
    BY <2>6 DEF Close, FallbackFails, base, sink, history
  <2>7. ASSUME CallerAborts PROVE Final
    BY <2>1, <2>7 DEF CallerAborts, history
  <2>. QED
    BY <2>3, <2>4, <2>5, <2>6, <2>7 DEF Next
<1>. QED
  BY <1>1, Invariant, TypeCorrect, PTL DEF Spec, ClosedIsFinal

(* Until the descriptors are written every unit is fully trimmed, and there is *)
(* no timestamp; the first unit that is not sets it.                           *)
AllTrimmed == \A i \in 1..Len(accepted) : accepted[i].untrimmed = 0
Signalled == \E i \in 1..Len(accepted) :
                FirstUntrimmed(i) /\ pts = accepted[i].start + accepted[i].trim

TimestampInv == /\ state = "Initialized" => pts = None
                /\ state = "DescriptorsPushed" => pts = None /\ AllTrimmed
                /\ SignalledTimestamp

LEMMA TimestampKept ==
    ASSUME TimestampInv, EndedInv, pts' = pts, accepted' = accepted, state' \in {state, "Closed"},
           closing = "ok" => closing' = "ok"
    PROVE  TimestampInv'
BY DEF TimestampInv, SignalledTimestamp, FirstUntrimmed, AllTrimmed

LEMMA AbortedTimestamp ==
    ASSUME TimestampInv, EndedInv, Abort, accepted' = accepted, closing' = closing
    PROVE  TimestampInv'
<1>1. pts' = pts /\ state' = "Closed"
  BY DEF Abort, AbortDerived
<1>. QED
  BY <1>1, TimestampKept

LEMMA ClosedTimestamp ==
    ASSUME TimestampInv, EndedInv, CloseSucceeds
    PROVE  TimestampInv'
<1>1. state' = "Closed" /\ closing' = "ok" /\ accepted' = accepted
  BY DEF CloseSucceeds
<1>2. CASE state = "DescriptorsPushed"
  <2>1. pts' = 0 /\ AllTrimmed
    BY <1>2 DEF CloseSucceeds, TimestampInv
  <2>. QED
    BY <1>1, <2>1 DEF TimestampInv, SignalledTimestamp, AllTrimmed
<1>3. CASE state # "DescriptorsPushed"
  <2>1. pts' = pts
    BY <1>3 DEF CloseSucceeds
  <2>. QED
    BY <1>1, <2>1, TimestampKept
<1>. QED
  BY <1>2, <1>3

(* A unit is accepted: the units before it stay what they are.                 *)
LEMMA GrownSequence ==
    ASSUME TypeOK, NEW u \in Units, accepted' = Append(accepted, u)
    PROVE  /\ Len(accepted) \in Nat /\ Len(accepted') = Len(accepted) + 1
           /\ accepted'[Len(accepted) + 1] = u
           /\ \A i \in 1..Len(accepted) : accepted'[i] = accepted[i]
           /\ \A i \in 1..Len(accepted') : i \in 1..Len(accepted) \/ i = Len(accepted) + 1
           /\ \A i \in 1..Len(accepted) : FirstUntrimmed(i) => FirstUntrimmed(i)'
<1>1. accepted \in Seq(Units)
  BY DEF TypeOK
<1>2. /\ Len(accepted) \in Nat /\ Len(accepted') = Len(accepted) + 1
      /\ accepted'[Len(accepted) + 1] = u
      /\ \A i \in 1..Len(accepted) : accepted'[i] = accepted[i]
  BY <1>1
<1>3. \A i \in 1..Len(accepted) : 1..(i - 1) \subseteq 1..Len(accepted) /\ i \in 1..Len(accepted')
  BY <1>2
<1>. QED
  BY <1>2, <1>3 DEF FirstUntrimmed

LEMMA AcceptedTimestamp ==
    ASSUME TypeOK, TimestampInv, EndedInv, IsOpen, NEW u \in Units, accepted' = Append(accepted, u),
           pts' = pts, state' = state, closing' = closing,
           state = "DescriptorsPushed" => u.untrimmed = 0
    PROVE  TimestampInv'
<1>1. closing # "ok" /\ state # "Initialized"
  BY DEF EndedInv, IsOpen
<1>2. /\ Len(accepted) \in Nat /\ Len(accepted') = Len(accepted) + 1
      /\ accepted'[Len(accepted) + 1] = u
      /\ \A i \in 1..Len(accepted) : accepted'[i] = accepted[i] /\ i \in 1..Len(accepted')
      /\ \A i \in 1..Len(accepted') : i \in 1..Len(accepted) \/ i = Len(accepted) + 1
      /\ \A i \in 1..Len(accepted) : FirstUntrimmed(i) => FirstUntrimmed(i)'
  BY GrownSequence
<1>3. AllTrimmed /\ u.untrimmed = 0 => AllTrimmed'
  BY <1>2 DEF AllTrimmed
<1>4. pts # None => Signalled
  BY <1>1 DEF TimestampInv, SignalledTimestamp, Signalled
<1>5. pts # None => Signalled'
  BY <1>2, <1>4 DEF Signalled
<1>6. SignalledTimestamp'
  BY <1>5 DEF SignalledTimestamp, Signalled
<1>. QED
  BY <1>1, <1>3, <1>6 DEF TimestampInv

LEMMA FlushedTimestamp ==
    ASSUME TypeOK, TimestampInv, NEW u \in Units, accepted' = Append(accepted, u), AllTrimmed,
           FoundFirstSample(u), pts' = u.start + u.trim, state' = "SerializedPushed"
    PROVE  TimestampInv'
<1>1. /\ Len(accepted) \in Nat /\ Len(accepted') = Len(accepted) + 1
      /\ accepted'[Len(accepted) + 1] = u
      /\ \A i \in 1..Len(accepted) : accepted'[i] = accepted[i]
  BY GrownSequence
<1>0. PICK n \in Nat : n = Len(accepted) + 1
  BY <1>1
<1>2. n \in 1..Len(accepted') /\ \A j \in 1..(n - 1) : j \in 1..Len(accepted)
  BY <1>0, <1>1
<1>3. FirstUntrimmed(n)'
  BY <1>0, <1>1, <1>2 DEF FirstUntrimmed, FoundFirstSample, AllTrimmed
<1>4. pts' = accepted'[n].start + accepted'[n].trim
  BY <1>0, <1>1
<1>. QED
  BY <1>2, <1>3, <1>4 DEF TimestampInv, SignalledTimestamp

LEMMA PushTemporalUnitTimestamp ==
    ASSUME TypeOK, IInv, TimestampInv, ~Retries, NEW u \in Units, PushTemporalUnit(u)
    PROVE  TimestampInv'
<1>0. EndedInv /\ HeldBackInv /\ WrittenInv /\ closing # "failed"
  BY CalledOnce DEF IInv, PushTemporalUnit
<1>1. CASE FailedCall
  BY <1>0, <1>1, AbortedTimestamp DEF FailedCall, history
<1>2. CASE IsOpen /\ firstPts = None /\ HandleInitialTemporalUnits(u)
  <2>1. CASE Abort /\ UNCHANGED history
    BY <1>0, <2>1, AbortedTimestamp DEF history
  <2>2. CASE /\ ~Delay /\ accepted' = Append(accepted, u)
             /\ UNCHANGED <<state, pts, closing>>
    <3>1. state # "DescriptorsPushed"
      BY <1>0, <2>2 DEF HeldBackInv, Delay
    <3>. QED
      BY <1>0, <1>2, <2>2, <3>1, AcceptedTimestamp
  <2>3. CASE /\ ~FoundFirstSample(u) /\ accepted' = Append(accepted, u)
             /\ UNCHANGED <<state, pts, closing>>
    BY <1>0, <1>2, <2>3, AcceptedTimestamp DEF FoundFirstSample
  <2>4. CASE /\ Delay /\ FoundFirstSample(u) /\ accepted' = Append(accepted, u)
             /\ pts' = u.start + u.trim /\ state' = "SerializedPushed"
    <3>1. state = "DescriptorsPushed"
      BY <1>0, <1>2, <2>4 DEF IsOpen, WrittenInv, Delay
    <3>2. AllTrimmed
      BY <3>1 DEF TimestampInv
    <3>. QED
      BY <2>4, <3>2, FlushedTimestamp
  <2>. QED
    BY <1>2, <2>1, <2>2, <2>3, <2>4
       DEF HandleInitialTemporalUnits, PushSerializedDescriptorObus, sink
<1>3. CASE /\ IsOpen /\ firstPts # None /\ accepted' = Append(accepted, u)
           /\ UNCHANGED <<state, pts, closing>>
  <2>1. state # "DescriptorsPushed"
    BY <1>0, <1>3 DEF HeldBackInv
  <2>. QED
    BY <1>0, <1>3, <2>1, AcceptedTimestamp
<1>. QED
  BY <1>1, <1>2, <1>3 DEF PushTemporalUnit, base

(* The timestamp signalled with the descriptors is that of the first sample    *)
(* which survives trimming, or 0 when a sequence of trimmed units is closed,   *)
(* however many units are held back before.                                    *)
THEOREM TimestampIsSignalled ==
    ASSUME ~Retries
    PROVE  Spec => []SignalledTimestamp
<1>1. Init => TimestampInv
  BY DEF Init, TimestampInv, SignalledTimestamp
<1>2. TypeOK /\ IInv /\ TimestampInv /\ [Next]_vars => TimestampInv'
  <2>. SUFFICES ASSUME TypeOK, IInv, TimestampInv, [Next]_vars PROVE TimestampInv'
    OBVIOUS
  <2>0. EndedInv
    BY DEF IInv
  <2>1. ASSUME NEW d \in Descriptors, PushDescriptorObus(d) PROVE TimestampInv'
    <3>1. CASE FailedCall
      BY <2>0, <3>1, AbortedTimestamp DEF FailedCall, history
    <3>2. CASE Abort /\ UNCHANGED history
      BY <2>0, <3>2, AbortedTimestamp DEF history
    <3>3. CASE /\ state = "Initialized" /\ pts' \in {pts, firstPts} /\ accepted' = accepted
               /\ state' \in {"DescriptorsPushed", "SerializedPushed"}
      <4>1. pts' = None /\ AllTrimmed'
        BY <3>3 DEF IInv, StartedInv, TimestampInv, AllTrimmed
      <4>. QED
        BY <3>3, <4>1 DEF TimestampInv, SignalledTimestamp
    <3>. QED
      BY <2>1, <3>1, <3>2, <3>3 DEF PushDescriptorObus, PushSerializedDescriptorObus, sink
  <2>2. ASSUME NEW d \in Descriptors, UpdateDescriptorObusAndClose(d) PROVE TimestampInv'
    <3>1. CASE FailedCall
      BY <2>0, <3>1, AbortedTimestamp DEF FailedCall, history
    <3>2. CASE state' = "Closed" /\ closing' = "ok" /\ UNCHANGED <<pts, accepted>>
      BY <2>0, <3>2, TimestampKept
    <3>3. CASE CloseSucceeds
      BY <2>0, <3>3, ClosedTimestamp
    <3>4. CASE FallbackFails /\ Abort /\ UNCHANGED closing
      BY <2>0, <3>4, AbortedTimestamp DEF FallbackFails
    <3>. QED
      BY <2>2, <3>1, <3>2, <3>3, <3>4 DEF UpdateDescriptorObusAndClose
  <2>3. ASSUME NEW u \in Units, PushTemporalUnit(u) PROVE TimestampInv'
    BY <2>3, PushTemporalUnitTimestamp
  <2>4. ASSUME Close PROVE TimestampInv'
    <3>1. CASE UNCHANGED <<base, sink, history>>
      BY <2>0, <3>1, TimestampKept DEF base, sink, history
    <3>2. CASE CloseSucceeds
      BY <2>0, <3>2, ClosedTimestamp
    <3>3. CASE FallbackFails /\ UNCHANGED <<state, sink>>
      <4>1. closing # "ok"
        BY <3>3 DEF FallbackFails, IInv, EndedInv
      <4>. QED
        BY <2>0, <3>3, <4>1, TimestampKept DEF FallbackFails, sink
    <3>. QED
      BY <2>4, <3>1, <3>2, <3>3 DEF Close
  <2>5. ASSUME CallerAborts PROVE TimestampInv'
    BY <2>0, <2>5, AbortedTimestamp DEF CallerAborts, history
  <2>6. ASSUME UNCHANGED vars PROVE TimestampInv'
    BY <2>0, <2>6, TimestampKept DEF vars, base, sink, history
  <2>. QED
    BY <2>1, <2>2, <2>3, <2>4, <2>5, <2>6 DEF Next
<1>3. TimestampInv => SignalledTimestamp
  BY DEF TimestampInv
<1>. QED
  BY <1>1, <1>2, <1>3, Invariant, TypeCorrect, PTL DEF Spec
-------------------------------------------------------------------------------
(* The refinement: what each step of a file sequencer is a step of.            *)

(* A call that aborts an unfinished file discards the output; one that comes   *)
(* after the end changes nothing of it.                                        *)
LEMMA AbortDiscards ==
    ASSUME TypeOK, IInv, IInv', IsFile, Abort, kind' = kind, promised' = promised,
           accepted' = accepted, closing' = closing
    PROVE  Output!Discard \/ UNCHANGED Output!vars
<1>1. IsFile' /\ state' = "Closed"
  BY DEF IsFile, Abort
<1>2. CASE state # "Closed"
  <2>1. closing # "ok"
    BY <1>2 DEF IInv, EndedInv
  <2>2. header' = None /\ body' = <<>>
    BY <1>1, <2>1 DEF IInv, NothingLeftBehind
  <2>3. Phase \in {"none", "open"} /\ Phase' = "discarded"
    BY <1>1, <1>2, <2>1 DEF Phase
  <2>. QED
    BY <1>1, <2>2, <2>3 DEF Output!Discard
<1>3. CASE state = "Closed"
  <2>1. header' = header /\ body' = body
    <3>1. CASE output = "open"
      <4>1. header = None /\ body = <<>>
        BY <1>3, <3>1 DEF IInv, EndedInv, NothingLeftBehind
      <4>. QED
        BY <3>1, <4>1 DEF Abort, AbortDerived
    <3>2. CASE output # "open"
      BY <3>2 DEF IsFile, Abort, AbortDerived
    <3>. QED
      BY <3>1, <3>2
  <2>. QED
    BY <1>1, <1>3, <2>1 DEF Output!vars, Phase
<1>. QED
  BY <1>2, <1>3

(* A successful close completes the output.                                    *)
LEMMA CloseCompletes ==
    ASSUME TypeOK, IInv, IInv', IsFile, state # "Closed", kind' = kind,
           state' = "Closed", closing' = "ok", accepted' = accepted,
           state = "Initialized" => promised' = None,
           promised' \in Descriptors \union {None}
    PROVE  Output!Complete(promised')
<1>1. IsFile'
  BY DEF IsFile
<1>2. Phase \in {"none", "open"} /\ Phase' = "complete"
  BY <1>1 DEF Phase
<1>3. Phase = "none" => promised' = None
  BY DEF Phase
<1>4. header' = promised' /\ body' = accepted
  BY <1>1 DEF IInv, FileCompleteWhenClosed, IsFile
<1>. QED
  BY <1>1, <1>2, <1>3, <1>4 DEF Output!Complete

(* An accepted unit is accepted by the output.                                 *)
LEMMA PushAccepts ==
    ASSUME TypeOK, TypeOK', IInv, IInv', IsFile, NEW u \in Units, IsOpen, state' = state,
           kind' = kind, promised' = promised, accepted' = Append(accepted, u)
    PROVE  Output!Accept(u)
<1>1. IsFile' /\ state = "SerializedPushed"
  BY DEF IsFile, IsOpen, IInv, HeldBackInv
<1>2. body = accepted /\ body' = accepted' /\ header' = promised'
  BY <1>1 DEF IInv, WrittenInv, IsFile
<1>3. accepted \in Seq(Units) /\ accepted' \in Seq(Units)
  BY DEF TypeOK
<1>4. Output!Written(body', accepted') /\ Len(body) <= Len(body')
  BY <1>2, <1>3 DEF Output!Written
<1>5. Phase = "open" /\ Phase' = "open"
  BY <1>1 DEF Phase
<1>. QED
  BY <1>1, <1>2, <1>4, <1>5 DEF Output!Accept

(* A file sequencer keeps the promise of IaSequenceOutput: every step of it is *)
(* a step the abstract output may take, or one that output does not notice.    *)
THEOREM FileImplementsOutput ==
    ASSUME ~Retries
    PROVE  Spec => ImplementsOutput
<1>1. Init => Output!Init
  BY DEF Init, Output!Init, Phase, IsFile
<1>2. TypeOK /\ TypeOK' /\ IInv /\ IInv' /\ [Next]_vars => [Output!Next]_Output!vars
  <2>. SUFFICES ASSUME TypeOK, TypeOK', IInv, IInv', [Next]_vars
                PROVE  Output!Next \/ UNCHANGED Output!vars
    OBVIOUS
  <2>1. CASE UNCHANGED vars
    BY <2>1 DEF vars, base, sink, history, Output!vars, Phase, IsFile
  <2>2. CASE Next /\ ~IsFile
    <3>1. kind' = kind
      BY <2>2 DEF Next, PushDescriptorObus, UpdateDescriptorObusAndClose,
                  PushTemporalUnit, Close, CallerAborts, Called
    <3>. QED
      BY <2>2, <3>1 DEF Output!vars, Phase, IsFile
  <2>3. CASE Next /\ IsFile
    <3>1. ASSUME FailedCall, kind' = kind PROVE Output!Next \/ UNCHANGED Output!vars
      BY <2>3, <3>1, AbortDiscards DEF FailedCall, history, Output!Next
    <3>2. ASSUME CloseSucceeds, state # "Closed", kind' = kind PROVE Output!Next
      <4>1. promised' = promised /\ promised \in Descriptors \union {None}
        BY <3>2 DEF CloseSucceeds, TypeOK
      <4>2. state = "Initialized" => promised = None
        BY DEF IInv, StartedInv
      <4>3. Output!Complete(promised')
        BY <2>3, <3>2, <4>1, <4>2, CloseCompletes DEF CloseSucceeds
      <4>. QED
        BY <4>1, <4>3 DEF Output!Next
    <3>3. ASSUME FallbackFails PROVE FALSE
      BY <2>3, <3>3 DEF FallbackFails, IInv, HeldBackInv, IsFile
    <3>4. ASSUME NEW d \in Descriptors, PushDescriptorObus(d)
          PROVE  Output!Next \/ UNCHANGED Output!vars
      <4>1. kind' = kind
        BY <3>4 DEF PushDescriptorObus, Called
      <4>2. CASE FailedCall
        BY <3>1, <4>1, <4>2
      <4>3. CASE Abort /\ UNCHANGED history
        BY <2>3, <4>1, <4>3, AbortDiscards DEF history, Output!Next
      <4>4. CASE /\ state = "Initialized" /\ state' = "SerializedPushed"
                 /\ PushSerializedDescriptorObus(d, firstPts) /\ UNCHANGED body
                 /\ promised' = d /\ UNCHANGED <<accepted, closing>>
        <5>1. Phase = "none" /\ Phase' = "open" /\ IsFile'
          BY <2>3, <4>1, <4>4 DEF Phase, IsFile
        <5>2. Output!Start(d)
          BY <2>3, <4>4, <5>1 DEF Output!Start, PushSerializedDescriptorObus
        <5>. QED
          BY <5>2 DEF Output!Next
      <4>. QED
        BY <2>3, <3>4, <4>2, <4>3, <4>4 DEF PushDescriptorObus, Delay, IsFile
    <3>5. ASSUME NEW d \in Descriptors, UpdateDescriptorObusAndClose(d)
          PROVE  Output!Next \/ UNCHANGED Output!vars
      <4>1. kind' = kind
        BY <3>5 DEF UpdateDescriptorObusAndClose, Called
      <4>2. CASE FailedCall
        BY <3>1, <4>1, <4>2
      <4>3. CASE /\ IsOpen /\ state' = "Closed" /\ promised' = d /\ closing' = "ok"
                 /\ UNCHANGED <<cached, firstPts, delayed, pts, accepted>>
        <5>1. Output!Complete(promised')
          BY <2>3, <4>1, <4>3, CloseCompletes DEF IsOpen
        <5>. QED
          BY <4>3, <5>1 DEF Output!Next
      <4>4. CASE IsOpen /\ CloseSucceeds
        BY <3>2, <4>1, <4>4 DEF IsOpen
      <4>. QED
        BY <3>3, <3>5, <4>2, <4>3, <4>4 DEF UpdateDescriptorObusAndClose
    <3>6. ASSUME NEW u \in Units, PushTemporalUnit(u)
          PROVE  Output!Next \/ UNCHANGED Output!vars
      <4>1. kind' = kind
        BY <3>6 DEF PushTemporalUnit, Called
      <4>2. CASE FailedCall
        BY <3>1, <4>1, <4>2
      <4>3. CASE Abort /\ UNCHANGED history
        BY <2>3, <4>1, <4>3, AbortDiscards DEF history, Output!Next
      <4>4. CASE /\ IsOpen /\ state' = state /\ promised' = promised
                 /\ accepted' = Append(accepted, u)
        BY <2>3, <4>1, <4>4, PushAccepts DEF Output!Next
      <4>. QED
        BY <2>3, <3>6, <4>2, <4>3, <4>4
           DEF PushTemporalUnit, HandleInitialTemporalUnits, Delay, IsFile, base
    <3>7. ASSUME Close PROVE Output!Next \/ UNCHANGED Output!vars
      <4>1. kind' = kind
        BY <3>7 DEF Close, Called
      <4>2. CASE UNCHANGED <<base, sink, history>>
        BY <4>1, <4>2 DEF base, sink, history, Output!vars, Phase, IsFile
      <4>3. CASE state # "Closed" /\ CloseSucceeds
        BY <3>2, <4>1, <4>3
      <4>. QED
        BY <3>3, <3>7, <4>2, <4>3 DEF Close
    <3>8. ASSUME CallerAborts PROVE Output!Next \/ UNCHANGED Output!vars
      BY <2>3, <3>8, AbortDiscards DEF CallerAborts, history, Output!Next
    <3>. QED
      BY <2>3, <3>4, <3>5, <3>6, <3>7, <3>8 DEF Next
  <2>. QED
    BY <2>1, <2>2, <2>3
<1>. QED
  BY <1>1, <1>2, Invariant, TypeCorrect, PTL DEF Spec, ImplementsOutput, Output!Spec
===============================================================================
