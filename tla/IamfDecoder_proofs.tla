-------------------------- MODULE IamfDecoder_proofs --------------------------
(* What holds of the decoder API for every stream, whatever it is called with, *)
(* in which order, and however often it is reset.                              *)
EXTENDS IamfDecoder, ObuProcessor_proofs

Calls == [name : {"Create", "Decode", "Get", "Signal", "Reset"}, done : BOOLEAN,
          ok : BOOLEAN, bytes : Nat]

StateOK ==
    /\ mode \in Modes /\ described \in BOOLEAN
    /\ status \in {"AcceptingData", "EndOfStream"}
    /\ faults \in Nat /\ shorts \in BOOLEAN /\ resets \in 0..MaxResets
    /\ call \in Calls

(* A call outputs at most one unit, and none when it fails while it reads.     *)
CallInv ==
    /\ began \in 0..position /\ before \in 0..Len(units)
    /\ IF call.done THEN pc # "processing"
       ELSE Len(units) = before \/ (pc = "returned" /\ Len(units) = before + 1)

(* While a call decodes nothing is waiting, except after a buffer was short.   *)
SpansInv ==
    /\ rendered \in (1..Len(units)) \union {None}
    /\ samples \in (1..Len(units)) \union {None}
    /\ rendered # None => samples # None
    /\ ~shorts => /\ rendered # None => samples = rendered
                  /\ ~call.done => rendered = None

FlushInv ==
    /\ flushed \in 0..position
    /\ ~call.done => flushed <= began
    /\ NoFault => flushed = IF call.done THEN position ELSE began

DeliveryInv ==
    /\ delivered \in Seq(1..Len(units))
    /\ ~call.done => \A k \in 1..Len(delivered) : delivered[k] <= before

DecoderInv == /\ WorkInv /\ ControlOK /\ StateOK /\ CallInv /\ SpansInv
              /\ FlushInv /\ DeliveryInv /\ UnitsInOrder

(* The part of it that a step of the API has to keep.                          *)
ApiInv == CallInv /\ SpansInv /\ FlushInv /\ DeliveryInv /\ UnitsInOrder

LEMMA Types ==
    ASSUME WorkInv
    PROVE  /\ units \in Seq(Clocked) /\ Len(units) \in Nat /\ position \in Nat
           /\ stream.obus \in Seq(Obu) /\ position \in 0..Len(stream.obus)
<1>1. units \in Seq(Clocked) /\ position \in 0..Len(stream.obus) /\ stream.obus \in Seq(Obu)
  BY DEF WorkInv, UnitInv, ReadingOK
<1>. QED
  BY <1>1

LEMMA DoneIsBoolean == ASSUME NEW c \in Calls PROVE c.done \in BOOLEAN /\ c.ok \in BOOLEAN
BY DEF Calls

(* A call that returns at once.                                                *)
LEMMA ReturnsKeep ==
    ASSUME ApiInv, Idle, UNCHANGED work, call'.done = TRUE, call.done \in BOOLEAN,
           UNCHANGED <<began, before, pc, rendered, samples, flushed, delivered, faults, shorts>>
    PROVE  ApiInv'
<1>. USE DEF work
<1>0. call.done = TRUE /\ pc # "failed"
  BY DEF Idle
<1>1. CallInv'
  BY <1>0 DEF ApiInv, CallInv
<1>2. SpansInv'
  BY <1>0 DEF ApiInv, SpansInv
<1>3. FlushInv'
  BY <1>0 DEF ApiInv, FlushInv, NoFault
<1>4. DeliveryInv'
  BY <1>0 DEF ApiInv, DeliveryInv
<1>5. UnitsInOrder'
  BY <1>0 DEF ApiInv, UnitsInOrder, NoUnitLost, DeliveredInOrder, NoFault, Rendering
<1>. QED
  BY <1>1, <1>2, <1>3, <1>4, <1>5 DEF ApiInv

LEMMA GrowingDelivery ==
    ASSUME NEW n \in Nat, NEW seq \in Seq(1..n), NEW i \in 1..n
    PROVE  /\ Append(seq, i) \in Seq(1..n)
           /\ \A k \in 1..Len(Append(seq, i)) : Append(seq, i)[k] <= n
<1>1. Append(seq, i) \in Seq(1..n)
  OBVIOUS
<1>2. \A t \in Seq(1..n) : \A k \in 1..Len(t) : t[k] \in 1..n
  OBVIOUS
<1>. QED
  BY <1>1, <1>2

(* A call that begins to decode: nothing is waiting, or what waits is written  *)
(* to the caller's buffer, or that buffer is too small.                        *)
Writes(fits) ==
    /\ rendered # None
    /\ rendered' = IF fits THEN None ELSE rendered
    /\ delivered' = IF fits THEN Append(delivered, samples) ELSE delivered
    /\ shorts' = (shorts \/ ~fits)

LEMMA BeginsKeep ==
    ASSUME ApiInv, WorkInv, Idle, UNCHANGED work, call.done \in BOOLEAN, call'.done = FALSE,
           shorts \in BOOLEAN,
           began' = position, before' = Len(units), pc' = "processing",
           UNCHANGED <<samples, flushed, faults>>,
           \/ rendered = None /\ UNCHANGED <<rendered, delivered, shorts>>
           \/ \E fits \in BOOLEAN : Writes(fits)
    PROVE  ApiInv'
<1>. USE DEF work
<1>0. /\ call.done = TRUE /\ pc # "failed" /\ pc # "processing"
      /\ Len(units) \in Nat /\ position \in Nat
  BY Types DEF Idle, ApiInv, CallInv
<1>1. CallInv'
  BY <1>0 DEF CallInv
<1>2. SpansInv'
  BY <1>0 DEF ApiInv, SpansInv, Writes
<1>3. FlushInv'
  BY <1>0 DEF ApiInv, FlushInv, NoFault, Writes
<1>4. CASE rendered = None /\ UNCHANGED <<rendered, delivered, shorts>>
  <2>1. DeliveryInv'
    BY <1>0, <1>4 DEF ApiInv, DeliveryInv
  <2>2. UnitsInOrder'
    BY <1>0, <1>4 DEF ApiInv, UnitsInOrder, NoUnitLost, DeliveredInOrder, NoFault, Rendering
  <2>. QED
    BY <1>1, <1>2, <1>3, <2>1, <2>2 DEF ApiInv
<1>5. ASSUME NEW fits \in BOOLEAN, Writes(fits) PROVE DeliveryInv' /\ UnitsInOrder'
  <2>1. CASE ~fits
    <3>1. UNCHANGED <<rendered, delivered>> /\ shorts' = TRUE
      BY <1>5, <2>1 DEF Writes
    <3>2. DeliveryInv'
      BY <1>0, <3>1 DEF ApiInv, DeliveryInv
    <3>3. UnitsInOrder'
      BY <3>1 DEF UnitsInOrder, NoUnitLost, DeliveredInOrder, NoFault
    <3>. QED
      BY <3>2, <3>3
  <2>2. CASE fits /\ shorts
    <3>1. shorts' = TRUE /\ delivered' = Append(delivered, samples)
      BY <1>5, <2>2 DEF Writes
    <3>2. DeliveryInv'
      BY <1>0, <1>5, <2>2, <3>1, GrowingDelivery DEF ApiInv, DeliveryInv, SpansInv, Writes
    <3>3. UnitsInOrder'
      BY <3>1 DEF UnitsInOrder, NoUnitLost, DeliveredInOrder, NoFault
    <3>. QED
      BY <3>2, <3>3
  <2>3. CASE fits /\ ~shorts
    <3>1. /\ shorts' = FALSE /\ delivered' = Append(delivered, rendered) /\ rendered' = None
          /\ rendered \in 1..Len(units) /\ delivered \in Seq(1..Len(units))
      BY <1>5, <2>3 DEF Writes, ApiInv, SpansInv, DeliveryInv
    <3>2. DeliveryInv'
      BY <1>0, <3>1, GrowingDelivery DEF DeliveryInv
    <3>3. /\ Len(delivered) \in Nat /\ Len(delivered') = Len(delivered) + 1
          /\ delivered'[Len(delivered) + 1] = rendered
          /\ \A k \in 1..Len(delivered) : delivered'[k] = delivered[k] /\ delivered[k] \in Nat
          /\ \A k \in 1..Len(delivered') : k \in 1..Len(delivered) \/ k = Len(delivered) + 1
      BY <1>0, <3>1
    <3>4. /\ \A i, j \in 1..Len(delivered) : i < j => delivered[i] < delivered[j]
          /\ \A i \in 1..Len(delivered) : delivered[i] < rendered
      BY <1>5, <2>3 DEF ApiInv, UnitsInOrder, DeliveredInOrder, Writes
    <3>5. DeliveredInOrder'
      BY <3>1, <3>3, <3>4 DEF DeliveredInOrder
    <3>6. NoUnitLost'
      <4>. SUFFICES ASSUME NoFault', NEW i \in 1..Len(units), units[i].frames # <<>>
                    PROVE  \E k \in 1..Len(delivered') : delivered'[k] = i
        BY DEF NoUnitLost
      <4>1. NoFault /\ ~Rendering
        BY <1>0, <2>3 DEF NoFault, Rendering
      <4>2. (\E k \in 1..Len(delivered) : delivered[k] = i) \/ rendered = i
        BY <4>1 DEF ApiInv, UnitsInOrder, NoUnitLost
      <4>3. Len(delivered) + 1 \in 1..Len(delivered') /\ 1..Len(delivered) \subseteq 1..Len(delivered')
        BY <3>3
      <4>. QED
        BY <3>3, <4>2, <4>3
    <3>. QED
      BY <3>2, <3>5, <3>6 DEF UnitsInOrder
  <2>. QED
    BY <2>1, <2>2, <2>3
<1>. QED
  BY <1>1, <1>2, <1>3, <1>4, <1>5 DEF ApiInv

LEMMA SamplesAreCounted ==
    ASSUME WorkInv, NEW i \in 1..Len(units)
    PROVE  SamplesOf(i) \in Nat
<1>. DEFINE f == units[i].frames
<1>1. f \in Seq(Timed)
  <2>1. units[i] \in Clocked
    BY Types
  <2>. QED
    BY <2>1 DEF Clocked
<1>2. CASE f = <<>>
  BY <1>2 DEF SamplesOf
<1>3. CASE f # <<>>
  <2>1. 1 \in 1..Len(f) /\ f[1] \in Timed
    BY <1>1, <1>3
  <2>2. HasFrame(f[1])
    BY <2>1 DEF HasFrame, InFrames
  <2>3. f[1].index \in 1..position
    BY <2>1, <2>2 DEF WorkInv, HeldInv
  <2>. HIDE DEF f
  <2>4. f[1].index \in 1..Len(stream.obus) /\ stream.obus \in Seq(Obu)
    BY <2>3, Types
  <2>5. stream.obus[f[1].index] \in Obu
    BY <2>4
  <2>6. stream.obus[f[1].index].duration \in Nat
    BY <2>5, ObuFields
  <2>. QED
    BY <1>3, <2>6 DEF SamplesOf, f
<1>. QED
  BY <1>2, <1>3

(* What a step of the API leaves alone of the processor.                       *)
LEMMA StreamOK == WorkInv => Len(stream.obus) \in Nat
BY Types

LEMMA DecodeStep ==
    ASSUME DecoderInv, NEW n \in 0..Len(stream.obus), MayPush(n), Decode(n)
    PROVE  DecoderInv'
<1>. USE DEF DecoderInv
<1>1. /\ Idle /\ UNCHANGED work
      /\ UNCHANGED <<mode, status, rendered, samples, flushed, delivered, faults, shorts, resets>>
  BY DEF Decode, UnchangedUnits, work
<1>2. received' \in {received, received + n}
  BY DEF Decode
<1>3. received' \in 0..Len(stream.obus) /\ position <= received'
  BY <1>2, Types DEF MayPush, ControlOK
<1>4. described' \in BOOLEAN /\ EndOfSequence("AcceptingData") \in BOOLEAN
  <2>1. described' \in {received' > 0, TRUE} \/ described' = described
    BY DEF Decode
  <2>2. described' \in BOOLEAN
    <3>1. described \in BOOLEAN
      BY DEF StateOK
    <3>2. (received' > 0) \in BOOLEAN
      OBVIOUS
    <3>. QED
      BY <2>1, <3>1, <3>2, Zenon
  <2>3. EndOfSequence("AcceptingData") \in BOOLEAN
    BY Zenon DEF EndOfSequence
  <2>. QED
    BY <2>2, <2>3
<1>5. CASE \E ok \in BOOLEAN : Returned("Decode", ok, 0)
  <2>1. call' \in Calls /\ call'.done = TRUE /\ UNCHANGED <<began, before, eos, pc>>
    BY <1>5 DEF Returned, Calls
  <2>2. ApiInv'
    BY <1>1, <2>1, ReturnsKeep, DoneIsBoolean DEF ApiInv, StateOK
  <2>3. StateOK' /\ ControlOK'
    BY <1>1, <1>3, <1>4, <2>1 DEF StateOK, ControlOK, work
  <2>. QED
    BY <1>1, <2>2, <2>3, WorkStays DEF ApiInv
<1>6. CASE rendered = None /\ DecodeOneTemporalUnit("Decode", "AcceptingData", TRUE, 0)
  <2>1. /\ call' \in Calls /\ call'.done = FALSE /\ began' = position /\ before' = Len(units)
        /\ pc' = "processing" /\ eos' \in BOOLEAN
    BY <1>4, <1>6 DEF DecodeOneTemporalUnit, Calls
  <2>2. ApiInv'
    BY <1>1, <1>6, <2>1, BeginsKeep, DoneIsBoolean DEF ApiInv, StateOK
  <2>3. StateOK' /\ ControlOK'
    BY <1>1, <1>3, <1>4, <2>1 DEF StateOK, ControlOK, work
  <2>. QED
    BY <1>1, <2>2, <2>3, WorkStays DEF ApiInv
<1>. QED
  BY <1>5, <1>6 DEF Decode, Decodes

LEMMA GetStep ==
    ASSUME DecoderInv, NEW fits \in BOOLEAN, GetOutputTemporalUnit(fits)
    PROVE  DecoderInv'
<1>. USE DEF DecoderInv
<1>1. /\ Idle /\ UNCHANGED work /\ received' = received
      /\ UNCHANGED <<mode, described, status, samples, flushed, faults, resets>>
  BY DEF GetOutputTemporalUnit, UnchangedUnits, work
<1>2. EndOfSequence(status) \in BOOLEAN
  BY DEF EndOfSequence
<1>3. CASE rendered = None /\ Returned("Get", TRUE, 0) /\ UNCHANGED <<rendered, delivered, shorts>>
  <2>1. call' \in Calls /\ call'.done = TRUE /\ UNCHANGED <<began, before, eos, pc>>
    BY <1>3 DEF Returned, Calls
  <2>2. ApiInv'
    BY <1>1, <1>3, <2>1, ReturnsKeep, DoneIsBoolean DEF ApiInv, StateOK
  <2>3. StateOK' /\ ControlOK'
    BY <1>1, <1>3, <2>1 DEF StateOK, ControlOK, work
  <2>. QED
    BY <1>1, <2>2, <2>3, WorkStays DEF ApiInv
<1>4. CASE /\ Writes(fits)
           /\ DecodeOneTemporalUnit("Get", status, fits, IF fits THEN SamplesOf(rendered) ELSE 0)
  <2>1. SamplesOf(rendered) \in Nat
    BY <1>4, SamplesAreCounted DEF Writes, SpansInv
  <2>2. (IF fits THEN SamplesOf(rendered) ELSE 0) \in Nat
    BY <2>1
  <2>3. /\ call' \in Calls /\ call'.done = FALSE /\ began' = position /\ before' = Len(units)
        /\ pc' = "processing" /\ eos' \in BOOLEAN
    BY <1>2, <1>4, <2>2 DEF DecodeOneTemporalUnit, Calls
  <2>4. ApiInv'
    BY <1>1, <1>4, <2>3, BeginsKeep, DoneIsBoolean DEF ApiInv, StateOK
  <2>5. StateOK' /\ ControlOK'
    BY <1>1, <1>4, <2>3 DEF StateOK, ControlOK, work, Writes
  <2>. QED
    BY <1>1, <2>4, <2>5, WorkStays DEF ApiInv
<1>. QED
  BY <1>3, <1>4 DEF GetOutputTemporalUnit, RenderedAfterWrite, Writes

LEMMA SignalStep ==
    ASSUME DecoderInv, SignalEndOfDecoding
    PROVE  DecoderInv'
<1>. USE DEF DecoderInv
<1>1. /\ Idle /\ UNCHANGED work /\ received' = received /\ status' = "EndOfStream"
      /\ UNCHANGED <<mode, described, rendered, samples, flushed, delivered, faults, shorts, resets>>
  BY DEF SignalEndOfDecoding, UnchangedUnits, work
<1>2. EndOfSequence("EndOfStream") \in BOOLEAN
  BY DEF EndOfSequence
<1>3. CASE Returned("Signal", TRUE, 0)
  <2>1. call' \in Calls /\ call'.done = TRUE /\ UNCHANGED <<began, before, eos, pc>>
    BY <1>3 DEF Returned, Calls
  <2>2. ApiInv'
    BY <1>1, <2>1, ReturnsKeep, DoneIsBoolean DEF ApiInv, StateOK
  <2>3. StateOK' /\ ControlOK'
    BY <1>1, <2>1 DEF StateOK, ControlOK, work
  <2>. QED
    BY <1>1, <2>2, <2>3, WorkStays DEF ApiInv
<1>4. CASE rendered = None /\ DecodeOneTemporalUnit("Signal", "EndOfStream", TRUE, 0)
  <2>1. /\ call' \in Calls /\ call'.done = FALSE /\ began' = position /\ before' = Len(units)
        /\ pc' = "processing" /\ eos' \in BOOLEAN
    BY <1>2, <1>4 DEF DecodeOneTemporalUnit, Calls
  <2>2. ApiInv'
    BY <1>1, <1>4, <2>1, BeginsKeep, DoneIsBoolean DEF ApiInv, StateOK
  <2>3. StateOK' /\ ControlOK'
    BY <1>1, <2>1 DEF StateOK, ControlOK, work
  <2>. QED
    BY <1>1, <2>2, <2>3, WorkStays DEF ApiInv
<1>. QED
  BY <1>3, <1>4 DEF SignalEndOfDecoding, SignalDecodes

LEMMA ResetStep ==
    ASSUME DecoderInv, Reset
    PROVE  DecoderInv'
<1>1. Fresh'
  <2>1. stream \in [obus : Seq(Obu), ends : Seq(Nat), regular : BOOLEAN]
    BY DEF DecoderInv, WorkInv, ReadingOK
  <2>2. EmptyUnit' = EmptyUnit
    BY DEF EmptyUnit
  <2>. QED
    BY <2>1, <2>2 DEF Reset, Fresh
<1>2. WorkInv'
  <2>1. Fresh' => WorkInv'
    BY FreshWork, PTL
  <2>. QED
    BY <1>1, <2>1
<1>3. ControlOK'
  <2>1. Len(stream.obus) \in Nat /\ eos \in BOOLEAN
    BY Types DEF DecoderInv, ControlOK
  <2>2. /\ stream' = stream /\ eos' = eos /\ received' = 0 /\ position' = 0 /\ pc' = "returned"
    BY DEF Reset
  <2>. QED
    BY <2>1, <2>2 DEF ControlOK
<1>4. StateOK'
  <2>1. /\ call' \in Calls /\ status' = "AcceptingData" /\ faults' = 0 /\ shorts' = FALSE
        /\ resets' = resets + 1 /\ resets < MaxResets /\ UNCHANGED <<mode, described>>
    BY DEF Reset, Calls
  <2>2. resets' \in 0..MaxResets
    BY <2>1, BoundsAssumption DEF DecoderInv, StateOK
  <2>. QED
    BY <2>1, <2>2 DEF DecoderInv, StateOK
<1>5. ApiInv'
  <2>1. /\ units' = <<>> /\ delivered' = <<>> /\ samples' = None /\ rendered' = None
        /\ position' = 0 /\ flushed' = 0 /\ began' = 0 /\ before' = 0
        /\ call'.done = TRUE /\ pc' = "returned"
    BY DEF Reset, RenderedAfterReset
  <2>2. CallInv' /\ SpansInv' /\ FlushInv'
    BY <2>1 DEF CallInv, SpansInv, FlushInv
  <2>3. DeliveryInv' /\ UnitsInOrder'
    BY <2>1 DEF DeliveryInv, UnitsInOrder, NoUnitLost, DeliveredInOrder
  <2>. QED
    BY <2>2, <2>3 DEF ApiInv
<1>. QED
  BY <1>2, <1>3, <1>4, <1>5 DEF DecoderInv, ApiInv
-------------------------------------------------------------------------------
(* One step of ProcessTemporalUnit outputs at most one unit, at its end.       *)
LEMMA CollectedUnits ==
    ASSUME NEW u, NEW n, NEW s, NEW t, Collect(u, n, s, t)
    PROVE  units' = units \/ (units' = Append(units, Output(u)) /\ pc' = "returned")
BY DEF Collect

LEMMA GrowingUnits ==
    ASSUME NEW S, NEW seq \in Seq(S), NEW e, Append(seq, e) \in Seq(S)
    PROVE  /\ Len(Append(seq, e)) = Len(seq) + 1
           /\ \A i \in 1..Len(seq) : Append(seq, e)[i] = seq[i]
OBVIOUS

LEMMA ProcessedUnits ==
    ASSUME WorkInv, WorkInv', Processing
    PROVE  /\ pc = "processing" /\ stream' = stream /\ position' \in {position, position + 1}
           /\ \/ units' = units
              \/ /\ pc' = "returned" /\ Len(units') = Len(units) + 1
                 /\ \A i \in 1..Len(units) : units'[i] = units[i]
<1>1. pc = "processing" /\ stream' = stream
  BY DEF Processing, AudioFrame, ParameterBlock, TemporalDelimiter, Ignored, NextIaSequence,
         UnexpectedDescriptor, OutOfData, Read
<1>2. position' \in {position, position + 1}
  BY DEF Processing, AudioFrame, ParameterBlock, TemporalDelimiter, Ignored, NextIaSequence,
         UnexpectedDescriptor, OutOfData, Bypass, Consume
<1>3. units' = units \/ \E u, n, s, t : Collect(u, n, s, t)
  BY DEF Processing, AudioFrame, ParameterBlock, TemporalDelimiter, Ignored, NextIaSequence,
         UnexpectedDescriptor, OutOfData, Bypass
<1>4. ASSUME NEW e, units' = Append(units, e)
      PROVE  Len(units') = Len(units) + 1 /\ \A i \in 1..Len(units) : units'[i] = units[i]
  <2>1. units \in Seq(Clocked) /\ units' \in Seq(Clocked)
    BY DEF WorkInv, UnitInv
  <2>. QED
    BY <1>4, <2>1, GrowingUnits
<1>5. \/ units' = units
      \/ pc' = "returned" /\ \E e : units' = Append(units, e)
  BY <1>3, CollectedUnits
<1>. QED
  BY <1>1, <1>2, <1>4, <1>5

LEMMA ProcessStep ==
    ASSUME DecoderInv, Process
    PROVE  DecoderInv'
<1>0. /\ ~call.done /\ Processing /\ UNCHANGED <<api, call, began, before>>
      /\ WorkInv /\ ControlOK /\ ApiInv /\ call.done \in BOOLEAN
  BY DoneIsBoolean DEF Process, DecoderInv, ApiInv, StateOK
<1>1. WorkInv' /\ ControlOK'
  BY <1>0, ProcessingStep
<1>2. /\ pc = "processing" /\ stream' = stream /\ position' \in {position, position + 1}
      /\ \/ units' = units
         \/ /\ pc' = "returned" /\ Len(units') = Len(units) + 1
            /\ \A i \in 1..Len(units) : units'[i] = units[i]
  BY <1>0, <1>1, ProcessedUnits
<1>3. StateOK'
  BY <1>0 DEF DecoderInv, StateOK, api
<1>4. /\ position \in Nat /\ Len(units) \in Nat /\ Len(units) = before
      /\ Len(units) <= Len(units') /\ Len(units') \in Nat
      /\ UNCHANGED <<call, began, before, rendered, samples, flushed, delivered, faults, shorts>>
  BY <1>0, <1>2, Types DEF ApiInv, CallInv, api
<1>5. CallInv'
  BY <1>0, <1>2, <1>4 DEF ApiInv, CallInv
<1>6. SpansInv'
  BY <1>0, <1>4 DEF ApiInv, SpansInv
<1>7. FlushInv'
  BY <1>0, <1>2, <1>4 DEF ApiInv, FlushInv, NoFault
<1>8. DeliveryInv'
  <2>1. \A m \in Nat : Len(units) <= m => \A t \in Seq(1..Len(units)) : t \in Seq(1..m)
    BY <1>4
  <2>. QED
    BY <1>0, <1>4, <2>1 DEF ApiInv, DeliveryInv
<1>9. UnitsInOrder'
  <2>1. DeliveredInOrder'
    BY <1>0, <1>4 DEF ApiInv, UnitsInOrder, DeliveredInOrder
  <2>2. NoUnitLost'
    <3>. SUFFICES ASSUME NoFault', NEW i \in 1..Len(units'), units'[i].frames # <<>>
                  PROVE  \/ \E k \in 1..Len(delivered) : delivered[k] = i
                         \/ rendered = i
                         \/ Rendering' /\ i = Len(units')
      BY <1>4 DEF NoUnitLost
    <3>1. CASE i \in 1..Len(units) /\ units'[i] = units[i]
      <4>1. NoFault /\ ~Rendering
        BY <1>2, <1>4 DEF NoFault, Rendering
      <4>. QED
        BY <1>0, <3>1, <4>1 DEF ApiInv, UnitsInOrder, NoUnitLost
    <3>2. CASE pc' = "returned" /\ Len(units') = Len(units) + 1 /\ i = Len(units')
      BY <1>0, <1>4, <3>2 DEF Rendering
    <3>. QED
      BY <1>2, <1>4, <3>1, <3>2
  <2>. QED
    BY <2>1, <2>2 DEF UnitsInOrder
<1>. QED
  BY <1>1, <1>3, <1>5, <1>6, <1>7, <1>8, <1>9 DEF DecoderInv

(* The ends of a call that decoded: it is flushed what was read, or it failed. *)
LEMMA FinishedCall ==
    ASSUME NEW ok, Finishes(ok), call \in Calls, ok \in BOOLEAN
    PROVE  call' \in Calls /\ call'.done = TRUE
<1>. DEFINE c == [call EXCEPT !.done = TRUE]
<1>1. c \in Calls /\ c.done = TRUE /\ c.ok \in BOOLEAN /\ c.ok = call.ok
  BY DEF Calls
<1>2. (call.ok /\ ok) \in BOOLEAN
  BY Zenon
<1>3. call' = [c EXCEPT !.ok = (call.ok /\ ok)]
  BY DEF Finishes
<1>. HIDE DEF c
<1>. QED
  BY <1>1, <1>2, <1>3 DEF Calls

LEMMA RenderStep ==
    ASSUME DecoderInv, Render
    PROVE  DecoderInv'
<1>0. /\ WorkInv /\ ControlOK /\ ApiInv /\ call \in Calls /\ ~call.done /\ pc = "returned"
      /\ UNCHANGED <<processor, mode, described, status, delivered, shorts, resets, began, before>>
  BY DEF Render, DecoderInv, ApiInv, StateOK
<1>1. UNCHANGED work /\ ControlOK' /\ UNCHANGED pc
  BY <1>0 DEF processor, work, ControlOK
<1>2. WorkInv'
  BY <1>0, <1>1, WorkStays
<1>3. call' \in Calls /\ call'.done = TRUE
  <2>1. Finishes(TRUE) \/ Finishes(FALSE)
    BY DEF Render
  <2>. QED
    BY <1>0, <2>1, FinishedCall
<1>4. /\ position \in Nat /\ Len(units) \in Nat /\ Len(units) = before + 1 /\ before \in Nat
      /\ began \in 0..position /\ flushed \in 0..position /\ flushed <= began
  BY <1>0, Types DEF Render, ApiInv, CallInv, FlushInv
<1>5. StateOK'
  <2>1. faults' \in {faults, faults + 1}
    BY DEF Render
  <2>2. faults' \in Nat
    BY <2>1 DEF DecoderInv, StateOK
  <2>. QED
    BY <1>0, <1>3, <2>2 DEF DecoderInv, StateOK
<1>6. CallInv'
  BY <1>0, <1>1, <1>3, <1>4 DEF CallInv, work
<1>7. /\ UNCHANGED <<units, position, stream, began, before, delivered, shorts>>
      /\ \/ /\ rendered' = None /\ samples' = samples /\ faults' = faults /\ flushed' = Flushed
            /\ units[Len(units)].frames = <<>>
         \/ /\ rendered' = Len(units) /\ samples' = Len(units) /\ faults' = faults
            /\ flushed' = Flushed
         \/ /\ faults' = faults + 1 /\ samples' \in {samples, Len(units)}
            /\ UNCHANGED <<rendered, flushed>>
  BY <1>0, <1>1 DEF Render, work
<1>8. SpansInv'
  <2>1. Len(units) \in 1..Len(units) /\ Len(units) # None
    BY <1>4, NoneAssumption
  <2>2. SpansInv
    BY <1>0 DEF ApiInv
  <2>3. CASE rendered' = None /\ samples' = samples
    BY <1>3, <1>7, <2>2, <2>3 DEF SpansInv
  <2>4. CASE rendered' = Len(units) /\ samples' = Len(units)
    BY <1>3, <1>7, <2>1, <2>4 DEF SpansInv
  <2>5. CASE samples' \in {samples, Len(units)} /\ rendered' = rendered
    BY <1>0, <1>3, <1>7, <2>1, <2>2, <2>5 DEF SpansInv
  <2>. QED
    BY <1>7, <2>3, <2>4, <2>5
<1>9. Flushed \in 0..position /\ (flushed = began => Flushed = position)
  BY <1>4 DEF Flushed
<1>10. faults \in Nat
  BY DEF DecoderInv, StateOK
<1>11. FlushInv'
  BY <1>0, <1>1, <1>3, <1>4, <1>7, <1>9, <1>10 DEF ApiInv, FlushInv, NoFault
<1>12. DeliveryInv'
  BY <1>0, <1>3, <1>7 DEF ApiInv, DeliveryInv
<1>13. UnitsInOrder'
  <2>1. DeliveredInOrder'
    <3>. SUFFICES ASSUME ~shorts PROVE DeliveredInOrder'
      BY <1>7 DEF DeliveredInOrder
    <3>1. rendered = None /\ \A i, j \in 1..Len(delivered) : i < j => delivered[i] < delivered[j]
      BY <1>0 DEF ApiInv, SpansInv, UnitsInOrder, DeliveredInOrder
    <3>2. rendered' # None => rendered' = before + 1
      BY <1>4, <1>7, <3>1
    <3>3. \A i \in 1..Len(delivered) : delivered[i] \in Nat /\ delivered[i] <= before
      BY <1>0, <1>4 DEF ApiInv, DeliveryInv
    <3>4. \A i \in 1..Len(delivered) : delivered[i] < before + 1
      BY <1>4, <3>3
    <3>. QED
      BY <1>7, <3>1, <3>2, <3>4 DEF DeliveredInOrder
  <2>2. NoUnitLost'
    <3>. SUFFICES ASSUME NoFault', NEW i \in 1..Len(units), units[i].frames # <<>>
                  PROVE  (\E k \in 1..Len(delivered) : delivered[k] = i) \/ rendered' = i
      BY <1>7 DEF NoUnitLost
    <3>1. NoFault /\ ~shorts /\ faults' = faults
      BY <1>0, <1>1, <1>7, <1>10 DEF NoFault
    <3>2. rendered = None
      BY <1>0, <3>1 DEF ApiInv, SpansInv
    <3>3. \/ \E k \in 1..Len(delivered) : delivered[k] = i
          \/ i = Len(units)
      BY <1>0, <3>1, <3>2, NoneAssumption DEF ApiInv, UnitsInOrder, NoUnitLost
    <3>4. i = Len(units) => rendered' = i
      BY <1>7, <1>10, <3>1
    <3>. QED
      BY <3>3, <3>4
  <2>. QED
    BY <2>1, <2>2 DEF UnitsInOrder
<1>. QED
  BY <1>1, <1>2, <1>5, <1>6, <1>8, <1>11, <1>12, <1>13 DEF DecoderInv

LEMMA NotYetStep ==
    ASSUME DecoderInv, NotYet
    PROVE  DecoderInv'
<1>0. /\ WorkInv /\ ControlOK /\ ApiInv /\ call \in Calls /\ ~call.done /\ pc = "returned"
      /\ Len(units) = before /\ flushed' = Flushed /\ Finishes(TRUE)
      /\ UNCHANGED <<processor, mode, described, status, rendered, samples, delivered, faults,
                     shorts, resets, began, before>>
  BY DEF NotYet, DecoderInv, ApiInv, StateOK
<1>1. UNCHANGED work /\ ControlOK' /\ UNCHANGED pc
  BY <1>0 DEF processor, work, ControlOK
<1>2. WorkInv'
  BY <1>0, <1>1, WorkStays
<1>3. call' \in Calls /\ call'.done = TRUE
  BY <1>0, FinishedCall
<1>4. StateOK'
  BY <1>0, <1>3 DEF DecoderInv, StateOK
<1>5. CallInv'
  BY <1>0, <1>1, <1>3 DEF ApiInv, CallInv, work
<1>6. SpansInv'
  BY <1>0, <1>1, <1>3 DEF ApiInv, SpansInv, work
<1>7. FlushInv'
  <2>1. /\ position \in Nat /\ began \in 0..position /\ flushed \in 0..position /\ flushed <= began
        /\ NoFault => flushed = began
    BY <1>0, Types DEF ApiInv, CallInv, FlushInv
  <2>2. Flushed \in 0..position /\ (flushed = began => Flushed = position)
    BY <2>1 DEF Flushed
  <2>3. NoFault' => NoFault
    BY <1>0, <1>1 DEF NoFault
  <2>. QED
    BY <1>0, <1>1, <1>3, <2>1, <2>2, <2>3 DEF FlushInv, work
<1>8. DeliveryInv'
  BY <1>0, <1>1, <1>3 DEF ApiInv, DeliveryInv, work
<1>9. UnitsInOrder'
  <2>1. DeliveredInOrder'
    BY <1>0 DEF ApiInv, UnitsInOrder, DeliveredInOrder
  <2>2. NoUnitLost'
    <3>1. ~Rendering
      BY <1>0, Types DEF Rendering
    <3>. QED
      BY <1>0, <1>1, <3>1 DEF ApiInv, UnitsInOrder, NoUnitLost, NoFault, work
  <2>. QED
    BY <2>1, <2>2 DEF UnitsInOrder
<1>. QED
  BY <1>1, <1>2, <1>4, <1>5, <1>6, <1>7, <1>8, <1>9 DEF DecoderInv

LEMMA FailStep ==
    ASSUME DecoderInv, Fail
    PROVE  DecoderInv'
<1>0. /\ WorkInv /\ ControlOK /\ ApiInv /\ call \in Calls /\ ~call.done /\ pc = "failed"
      /\ Finishes(FALSE) /\ UNCHANGED <<processor, api, began, before>>
  BY DEF Fail, DecoderInv, ApiInv, StateOK
<1>1. UNCHANGED work /\ ControlOK' /\ UNCHANGED pc
  BY <1>0 DEF processor, work, ControlOK
<1>2. WorkInv'
  BY <1>0, <1>1, WorkStays
<1>3. call' \in Calls /\ call'.done = TRUE
  BY <1>0, FinishedCall
<1>4. StateOK' /\ CallInv' /\ ~NoFault'
  BY <1>0, <1>1, <1>3 DEF DecoderInv, StateOK, ApiInv, CallInv, NoFault, api, work
<1>5. SpansInv' /\ DeliveryInv' /\ DeliveredInOrder'
  BY <1>0, <1>1, <1>3 DEF ApiInv, SpansInv, DeliveryInv, UnitsInOrder, DeliveredInOrder, api, work
<1>6. FlushInv'
  BY <1>0, <1>1, <1>3, <1>4 DEF ApiInv, FlushInv, api, work
<1>7. UnitsInOrder'
  BY <1>4, <1>5 DEF UnitsInOrder, NoUnitLost
<1>. QED
  BY <1>1, <1>2, <1>4, <1>5, <1>6, <1>7 DEF DecoderInv
-------------------------------------------------------------------------------
LEMMA DecoderStarts == DecoderInit => DecoderInv
<1>. SUFFICES ASSUME DecoderInit PROVE DecoderInv
  OBVIOUS
<1>1. WorkInv /\ ControlOK
  BY WorkInit DEF DecoderInit
<1>2. /\ units = <<>> /\ position = 0 /\ pc = "returned"
      /\ mode \in Modes /\ status = "AcceptingData" /\ rendered = None /\ samples = None
      /\ call \in Calls /\ call.done = TRUE
      /\ began = 0 /\ before = 0 /\ flushed = 0 /\ delivered = <<>> /\ faults = 0
      /\ shorts = FALSE /\ resets = 0
  BY DEF DecoderInit, Init, Calls
<1>3. described \in BOOLEAN
  BY Zenon DEF DecoderInit
<1>4. StateOK
  <2>1. faults \in Nat /\ resets \in 0..MaxResets
    BY <1>2, BoundsAssumption
  <2>2. shorts \in BOOLEAN
    BY <1>2, Zenon
  <2>. QED
    BY <1>2, <1>3, <2>1, <2>2 DEF StateOK
<1>5. CallInv /\ SpansInv /\ FlushInv
  BY <1>2 DEF CallInv, SpansInv, FlushInv
<1>6. DeliveryInv /\ UnitsInOrder
  BY <1>2 DEF DeliveryInv, UnitsInOrder, NoUnitLost, DeliveredInOrder
<1>. QED
  BY <1>1, <1>4, <1>5, <1>6 DEF DecoderInv

LEMMA DecoderStays == DecoderInv /\ UNCHANGED allVars => DecoderInv'
<1>. SUFFICES ASSUME DecoderInv, UNCHANGED allVars PROVE DecoderInv'
  OBVIOUS
<1>1. UNCHANGED work /\ UNCHANGED <<received, eos, pc, call, began, before>> /\ UNCHANGED api
  BY DEF allVars, processor, work
<1>2. WorkInv'
  BY <1>1, WorkStays DEF DecoderInv
<1>3. ControlOK' /\ StateOK' /\ CallInv'
  BY <1>1 DEF DecoderInv, ControlOK, StateOK, CallInv, api, work
<1>4. SpansInv' /\ FlushInv' /\ DeliveryInv'
  BY <1>1 DEF DecoderInv, SpansInv, FlushInv, DeliveryInv, NoFault, api, work
<1>5. UnitsInOrder'
  BY <1>1 DEF DecoderInv, UnitsInOrder, NoUnitLost, DeliveredInOrder, NoFault, Rendering, api, work
<1>. QED
  BY <1>2, <1>3, <1>4, <1>5 DEF DecoderInv

LEMMA DecoderStep == DecoderInv /\ [DecoderNext]_allVars => DecoderInv'
<1>. SUFFICES ASSUME DecoderInv, [DecoderNext]_allVars PROVE DecoderInv'
  OBVIOUS
<1>1. ASSUME NEW fits \in {TRUE, ~ShortBuffers}, GetOutputTemporalUnit(fits) PROVE DecoderInv'
  <2>1. fits \in BOOLEAN
    BY Zenon
  <2>. QED
    BY <1>1, <2>1, GetStep
<1>2. CASE InCall
  BY <1>2, ProcessStep, RenderStep, NotYetStep, FailStep DEF InCall
<1>. QED
  BY <1>1, <1>2, DecoderStays, DecodeStep, SignalStep, ResetStep DEF DecoderNext, Pushes

THEOREM DecoderIsInvariant == DecoderSpec => []DecoderInv
BY DecoderStarts, DecoderStep, PTL DEF DecoderSpec

LEMMA WaitingShown == DecoderInv => WaitingIsIntact
<1>. SUFFICES ASSUME DecoderInv PROVE WaitingIsIntact
  OBVIOUS
<1>1. TypeOK
  BY WorkShows DEF DecoderInv, TimesAgree
<1>2. call.done \in BOOLEAN /\ call.ok \in BOOLEAN /\ call.bytes \in Nat
  BY DEF DecoderInv, StateOK, Calls
<1>3. flushed \in Nat /\ flushed <= position
  BY Types DEF DecoderInv, FlushInv
<1>4. DecoderTypeOK
  BY <1>1, <1>2, <1>3 DEF DecoderTypeOK, DecoderInv, StateOK, CallInv, SpansInv, DeliveryInv
<1>5. SpansValid /\ FlushedIsRead
  BY <1>2, <1>3 DEF SpansValid, FlushedIsRead, DecoderInv, SpansInv, FlushInv
<1>. QED
  BY <1>4, <1>5 DEF WaitingIsIntact

(* Whatever the stream, the calls and the resets: the spans that wait for the  *)
(* caller show the unit they were made for, and what is flushed was read, all  *)
(* of it as long as nothing fails.                                             *)
THEOREM WaitingStaysIntact == DecoderSpec => []WaitingIsIntact
BY DecoderIsInvariant, WaitingShown, PTL

(* Whatever the stream, the calls and the resets: as long as nothing fails     *)
(* every unit with frames that was assembled is delivered, waiting or about to *)
(* be rendered, and whatever fails none comes twice or after a later one.      *)
THEOREM UnitsComeInOrder == DecoderSpec => []UnitsInOrder
BY DecoderIsInvariant, PTL DEF DecoderInv

(* Under the API too the times agree, and no frame is lost between the units:  *)
(* with UnitsInOrder, none between the bytes pushed and the samples delivered. *)
THEOREM DecodedTimesAgree == DecoderSpec => [](TimesAgree /\ NothingLost)
BY DecoderIsInvariant, WorkShows, PTL DEF DecoderInv
-------------------------------------------------------------------------------
(* What is decoded of a regular stream.  A call that is told that the end of   *)
(* the data is the end of the sequence, and returns no unit, has used all of   *)
(* it; and only a call that found nothing leaves nothing for the caller.       *)
DrainInv ==
    /\ call.done /\ described /\ EndOfSequence(status) /\ rendered = None /\ NoFault => Drained
    /\ ~call.done /\ pc = "returned" /\ Len(units) = before /\ eos => Drained
    /\ ~call.done => described /\ (eos <=> EndOfSequence(status))
    /\ EndOfSequence(status) => Cut
    /\ rendered # None \/ mode = "descriptors" => described

DrainingInv == DecoderInv /\ RegularInv /\ (stream.regular => DrainInv)

(* A unit of a regular stream has frames.                                      *)
LEMMA UnitsHaveFrames ==
    ASSUME WorkInv, RegularInv, stream.regular, NEW i \in 1..Len(units)
    PROVE  units[i].frames # <<>>
<1>. DEFINE s == stream
<1>1. RegularFor(s, units, current, position, frameClock, blockClock) /\ Regularly(s)
  BY DEF RegularInv, RegularFor, Regularly, WorkInv, ReadingOK, Stream
<1>2. Len(units) \in Nat /\ Len(units) <= Len(s.ends) /\ Len(s.ends) \in Nat
      /\ IsUnit(s, units[i], i)
  BY <1>1, Types, UnitBegins DEF RegularFor, Encoded, BeginsFacts
<1>3. i \in 1..Len(s.ends)
  BY <1>2
<1>4. PICK id \in Substreams : TRUE
  BY <1>1 DEF Regularly, IsRegular
<1>5. OfUse(s, "AudioFrame", Substreams, UnitObus(s, i)) # {}
  BY <1>1, <1>3, <1>4, UnitHasFrames
<1>6. units[i].frames \in Seq(Timed)
  <2>1. units[i] \in Clocked
    BY Types
  <2>. QED
    BY <2>1 DEF Clocked
<1>. QED
  BY <1>2, <1>5, <1>6, ListsNothing DEF IsUnit

LEMMA DrainStarts == DecoderInit => DrainingInv
<1>. SUFFICES ASSUME DecoderInit PROVE DrainingInv
  OBVIOUS
<1>1. DecoderInv /\ RegularInv
  BY DecoderStarts, RegularInit DEF DecoderInit
<1>2. /\ received = 0 /\ position = 0 /\ current = EmptyUnit /\ status = "AcceptingData"
      /\ rendered = None /\ call.done = TRUE /\ described = (mode = "descriptors")
  BY DEF DecoderInit, Init
<1>3. Drained /\ Cut
  BY <1>2, EmptyUnitOK DEF Drained, Cut
<1>4. DrainInv
  BY <1>2, <1>3 DEF DrainInv
<1>. QED
  BY <1>1, <1>4 DEF DrainingInv

LEMMA DrainDecode ==
    ASSUME DrainingInv, stream.regular, NEW n \in 0..Len(stream.obus), MayPush(n), Decode(n)
    PROVE  DrainInv'
<1>. USE DEF DrainingInv
<1>1. /\ call.done /\ pc # "failed" /\ UNCHANGED work /\ stream' = stream
      /\ UNCHANGED <<mode, status, rendered, faults, shorts>>
      /\ status \in {"AcceptingData", "EndOfStream"} /\ DrainInv /\ received \in Nat
  BY Types DEF Decode, UnchangedUnits, work, Idle, DecoderInv, StateOK, ControlOK
<1>2. EndOfSequence(status)' <=> EndOfSequence(status)
  BY <1>1 DEF EndOfSequence
<1>3. position' = position /\ current' = current /\ units' = units /\ (IsEmpty(current)' <=> IsEmpty(current))
  BY <1>1 DEF work, IsEmpty
<1>4. CASE status = "EndOfStream"
  <2>1. UNCHANGED <<received, described>> /\ call'.done = TRUE /\ pc' = pc
    BY <1>4 DEF Decode, Returned
  <2>2. (Drained' <=> Drained) /\ (Cut' <=> Cut) /\ (NoFault' <=> NoFault)
    BY <1>1, <1>3, <2>1 DEF Drained, Cut, AtAnEnd, NoFault
  <2>. QED
    BY <1>1, <1>2, <2>1, <2>2 DEF DrainInv
<1>5. CASE status # "EndOfStream" /\ ~described
  <2>1. Returned("Decode", TRUE, 0)
    BY <1>5 DEF Decode
  <2>2. call'.done = TRUE /\ mode # "descriptors" /\ rendered = None
    BY <1>1, <1>5, <2>1 DEF Returned, DrainInv
  <2>3. ~EndOfSequence(status)
    BY <1>5, <2>2 DEF EndOfSequence
  <2>. QED
    BY <1>1, <1>2, <2>2, <2>3 DEF DrainInv
<1>6. CASE status # "EndOfStream" /\ described
  <2>1. /\ received' = received + n /\ described' = described
        /\ IF rendered = None THEN DecodeOneTemporalUnit("Decode", "AcceptingData", TRUE, 0)
                              ELSE Returned("Decode", TRUE, 0)
    BY <1>6 DEF Decode, Decodes
  <2>2. EndOfSequence(status) => Cut'
    <3>. SUFFICES ASSUME EndOfSequence(status) PROVE Cut'
      OBVIOUS
    <3>1. Cut /\ mode = "descriptors"
      BY <1>1, <1>6 DEF DrainInv, EndOfSequence
    <3>2. CASE n = 0
      <4>1. received' = received
        BY <1>1, <2>1, <3>2
      <4>. QED
        BY <1>1, <3>1, <4>1 DEF Cut, AtAnEnd
    <3>3. CASE n # 0
      <4>1. \/ received + n = Len(stream.obus)
            \/ \E i \in 1..Len(stream.ends) : received + n = stream.ends[i]
        BY <3>1, <3>3 DEF MayPush
      <4>. QED
        BY <1>1, <2>1, <4>1 DEF Cut, AtAnEnd
    <3>. QED
      BY <3>2, <3>3
  <2>3. CASE rendered = None
    <3>1. call'.done = FALSE /\ pc' = "processing" /\ eos' = EndOfSequence("AcceptingData")
      BY <2>1, <2>3 DEF DecodeOneTemporalUnit
    <3>2. status = "AcceptingData"
      BY <1>1, <1>6
    <3>. QED
      BY <1>1, <1>2, <1>6, <2>1, <2>2, <3>1, <3>2 DEF DrainInv
  <2>4. CASE rendered # None
    <3>1. call'.done = TRUE
      BY <2>1, <2>4 DEF Returned
    <3>. QED
      BY <1>1, <1>2, <1>6, <2>1, <2>2, <2>4, <3>1 DEF DrainInv
  <2>. QED
    BY <2>3, <2>4
<1>. QED
  BY <1>4, <1>5, <1>6

(* A call that returns at once, on data that stays as it is.                   *)
LEMMA DrainReturns ==
    ASSUME DrainInv, call.done, UNCHANGED work,
           UNCHANGED <<received, mode, described, rendered, faults, shorts, pc>>,
           call'.done = TRUE,
           EndOfSequence(status)' =>
               EndOfSequence(status) \/ (Cut /\ (rendered # None \/ ~described))
    PROVE  DrainInv'
<1>1. (Drained' <=> Drained) /\ (Cut' <=> Cut) /\ (NoFault' <=> NoFault)
  BY DEF Drained, Cut, AtAnEnd, NoFault, IsEmpty, work
<1>. QED
  BY <1>1 DEF DrainInv

(* A call that begins to decode.                                               *)
LEMMA DrainBegins ==
    ASSUME DrainInv, UNCHANGED work, UNCHANGED <<received, mode, described>>,
           described, call'.done = FALSE, pc' = "processing",
           eos' = EndOfSequence(status'),
           EndOfSequence(status)' => EndOfSequence(status) \/ Cut
    PROVE  DrainInv'
<1>1. Cut' <=> Cut
  BY DEF Cut, AtAnEnd, work
<1>2. EndOfSequence(status)' <=> EndOfSequence(status')
  BY DEF EndOfSequence
<1>. QED
  BY <1>1, <1>2 DEF DrainInv

LEMMA DrainGet ==
    ASSUME DrainingInv, stream.regular, NEW fits \in BOOLEAN, GetOutputTemporalUnit(fits)
    PROVE  DrainInv'
<1>1. /\ call.done /\ UNCHANGED work /\ DrainInv
      /\ UNCHANGED <<received, mode, described, status, faults>>
  BY DEF GetOutputTemporalUnit, UnchangedUnits, work, Idle, DrainingInv
<1>2. EndOfSequence(status)' <=> EndOfSequence(status)
  BY <1>1 DEF EndOfSequence
<1>3. CASE rendered = None /\ Returned("Get", TRUE, 0) /\ UNCHANGED <<rendered, delivered, shorts>>
  <2>1. call'.done = TRUE /\ pc' = pc
    BY <1>3 DEF Returned
  <2>. QED
    BY <1>1, <1>2, <1>3, <2>1, DrainReturns
<1>4. CASE /\ rendered # None
           /\ DecodeOneTemporalUnit("Get", status, fits, IF fits THEN SamplesOf(rendered) ELSE 0)
  <2>1. call'.done = FALSE /\ pc' = "processing" /\ eos' = EndOfSequence(status)
    BY <1>4 DEF DecodeOneTemporalUnit
  <2>2. described /\ EndOfSequence(status') = EndOfSequence(status)
    BY <1>1, <1>4 DEF DrainInv
  <2>. QED
    BY <1>1, <1>2, <2>1, <2>2, DrainBegins
<1>. QED
  BY <1>3, <1>4 DEF GetOutputTemporalUnit

LEMMA DrainSignal ==
    ASSUME DrainingInv, stream.regular, MaySignal, SignalEndOfDecoding
    PROVE  DrainInv'
<1>1. /\ call.done /\ UNCHANGED work /\ DrainInv /\ status' = "EndOfStream"
      /\ UNCHANGED <<received, mode, described, rendered, faults, shorts>>
      /\ mode \in {"standalone", "descriptors"}
  BY ModesAssumption DEF SignalEndOfDecoding, UnchangedUnits, work, Idle, DrainingInv,
                         DecoderInv, StateOK
<1>2. Cut
  BY DEF MaySignal, Cut
<1>3. CASE SignalDecodes /\ DecodeOneTemporalUnit("Signal", "EndOfStream", TRUE, 0)
  <2>1. call'.done = FALSE /\ pc' = "processing" /\ eos' = EndOfSequence("EndOfStream")
    BY <1>3 DEF DecodeOneTemporalUnit
  <2>2. described /\ EndOfSequence(status') = EndOfSequence("EndOfStream")
    BY <1>1, <1>3 DEF SignalDecodes
  <2>. QED
    BY <1>1, <1>2, <2>1, <2>2, DrainBegins
<1>4. CASE ~SignalDecodes /\ Returned("Signal", TRUE, 0)
  <2>1. call'.done = TRUE /\ pc' = pc
    BY <1>4 DEF Returned
  <2>2. EndOfSequence(status) \/ rendered # None \/ ~described
    BY <1>1, <1>4 DEF SignalDecodes, EndOfSequence
  <2>. QED
    BY <1>1, <1>2, <2>1, <2>2, DrainReturns
<1>. QED
  BY <1>3, <1>4 DEF SignalEndOfDecoding

LEMMA DrainReset ==
    ASSUME DrainingInv, stream.regular, Reset
    PROVE  DrainInv'
<1>1. /\ received' = 0 /\ position' = 0 /\ current' = EmptyUnit /\ call'.done = TRUE
      /\ rendered' = None /\ mode = "descriptors" /\ described
      /\ UNCHANGED <<mode, described>>
  BY DEF Reset, RenderedAfterReset, DrainingInv, DrainInv
<1>2. Drained' /\ Cut'
  BY <1>1, EmptyUnitOK DEF Drained, Cut, IsEmpty
<1>. QED
  BY <1>1, <1>2 DEF DrainInv

LEMMA DrainProcess ==
    ASSUME DrainingInv, stream.regular, Process
    PROVE  DrainInv' /\ RegularInv'
<1>0. /\ ~call.done /\ Processing /\ UNCHANGED <<api, call, began, before>>
      /\ WorkInv /\ ControlOK /\ CallInv /\ RegularInv /\ DrainInv
  BY DEF Process, DrainingInv, DecoderInv
<1>1. WorkInv'
  BY <1>0, ProcessingStep
<1>2. /\ pc = "processing" /\ stream' = stream
      /\ \/ units' = units
         \/ Len(units') = Len(units) + 1
  BY <1>0, <1>1, ProcessedUnits
<1>3. received' = received /\ eos' = eos
  BY <1>0 DEF Processing, AudioFrame, ParameterBlock, TemporalDelimiter, Ignored,
              NextIaSequence, UnexpectedDescriptor, OutOfData, Read
<1>4. before = Len(units) /\ Len(units) \in Nat
  BY <1>0, <1>2, Types DEF CallInv
<1>5. Ready
  BY <1>0 DEF Ready, DrainInv
<1>6. Result
  BY <1>0, <1>5, ProcessingRegular
<1>7. RegularInv'
  BY <1>2, <1>6 DEF RegularInv, Result
<1>8. pc' = "returned" /\ Len(units') = before' /\ eos' => Drained'
  <2>. SUFFICES ASSUME pc' = "returned", Len(units') = before', eos' PROVE Drained'
    OBVIOUS
  <2>1. units' = units
    BY <1>0, <1>2, <1>4
  <2>. QED
    BY <1>3, <1>6, <2>1 DEF Result, Drained, IsEmpty
<1>9. /\ (Cut' <=> Cut) /\ (EndOfSequence(status)' <=> EndOfSequence(status))
      /\ UNCHANGED <<call, before, described, rendered, mode>>
  BY <1>0, <1>2, <1>3 DEF Cut, AtAnEnd, EndOfSequence, api
<1>. QED
  BY <1>0, <1>3, <1>7, <1>8, <1>9 DEF DrainInv

(* The end of a call that decoded.                                             *)
LEMMA DrainEnds ==
    ASSUME DrainingInv, stream.regular, Render \/ NotYet \/ Fail
    PROVE  DrainInv'
<1>0. /\ WorkInv /\ RegularInv /\ DrainInv /\ ~call.done /\ call \in Calls /\ faults \in Nat
      /\ UNCHANGED processor /\ UNCHANGED <<mode, described, status, shorts>>
  BY DEF Render, NotYet, Fail, DrainingInv, DecoderInv, StateOK, api
<1>1. call'.done = TRUE /\ described
  <2>1. PICK ok \in BOOLEAN : Finishes(ok)
    BY DEF Render, NotYet, Fail
  <2>. QED
    BY <1>0, <2>1, FinishedCall DEF DrainInv
<1>2. /\ (Drained' <=> Drained) /\ (Cut' <=> Cut) /\ (EndOfSequence(status)' <=> EndOfSequence(status))
      /\ UNCHANGED <<pc, eos, units>>
  BY <1>0 DEF processor, Drained, Cut, AtAnEnd, EndOfSequence, IsEmpty
<1>3. rendered' = None /\ NoFault' /\ EndOfSequence(status) => Drained
  <2>. SUFFICES ASSUME rendered' = None, NoFault', EndOfSequence(status) PROVE Drained
    OBVIOUS
  <2>1. ~Fail
    BY <1>2 DEF NoFault, Fail
  <2>2. ~Render
    <3>. SUFFICES ASSUME Render PROVE FALSE
      OBVIOUS
    <3>1. Len(units) \in 1..Len(units)
      <4>1. Len(units) \in Nat /\ before \in Nat /\ Len(units) > before
        BY <1>0, Types DEF Render, DrainingInv, DecoderInv, CallInv
      <4>. QED
        BY <4>1
    <3>2. units[Len(units)].frames # <<>>
      BY <1>0, <3>1, UnitsHaveFrames
    <3>3. rendered' = Len(units) \/ faults' = faults + 1
      BY <3>2 DEF Render
    <3>. QED
      BY <1>0, <3>1, <3>3, NoneAssumption DEF NoFault
  <2>3. pc = "returned" /\ Len(units) = before
    BY <2>1, <2>2 DEF NotYet
  <2>. QED
    BY <1>0, <2>3 DEF DrainInv
<1>. QED
  BY <1>0, <1>1, <1>2, <1>3 DEF DrainInv

LEMMA DrainStep == DrainingInv /\ [DecoderNext]_allVars => DrainingInv'
<1>. SUFFICES ASSUME DrainingInv, [DecoderNext]_allVars PROVE DrainingInv'
  OBVIOUS
<1>1. DecoderInv'
  BY DecoderStep DEF DrainingInv
<1>2. stream' = stream
  <2>1. CASE UNCHANGED allVars
    BY <2>1 DEF allVars, processor
  <2>2. CASE \/ Pushes
             \/ MaySignal /\ SignalEndOfDecoding
             \/ \E fits \in {TRUE, ~ShortBuffers} : GetOutputTemporalUnit(fits)
    BY <2>2 DEF Pushes, Decode, SignalEndOfDecoding, GetOutputTemporalUnit, UnchangedUnits
  <2>3. CASE Reset
    BY <2>3 DEF Reset
  <2>4. CASE Process
    BY <2>4, ProcessedUnits, ProcessingStep DEF Process, DrainingInv, DecoderInv
  <2>5. CASE Render \/ NotYet \/ Fail
    BY <2>5 DEF Render, NotYet, Fail, processor
  <2>. QED
    BY <2>1, <2>2, <2>3, <2>4, <2>5 DEF DecoderNext, InCall
<1>3. CASE ~stream.regular
  BY <1>1, <1>2, <1>3 DEF DrainingInv, RegularInv
<1>4. CASE stream.regular
  <2>. SUFFICES RegularInv' /\ DrainInv'
    BY <1>1 DEF DrainingInv
  <2>0. RegularInv /\ DrainInv
    BY <1>4 DEF DrainingInv
  <2>1. CASE UNCHANGED allVars
    <3>1. /\ UNCHANGED work /\ UNCHANGED api
          /\ UNCHANGED <<received, eos, pc, call, began, before>>
      BY <2>1 DEF allVars, processor, work
    <3>2. /\ (Drained' <=> Drained) /\ (Cut' <=> Cut) /\ (NoFault' <=> NoFault)
          /\ (EndOfSequence(status)' <=> EndOfSequence(status))
      BY <3>1 DEF work, api, Drained, Cut, AtAnEnd, EndOfSequence, IsEmpty, NoFault
    <3>3. UNCHANGED <<units, described, rendered, mode>>
      BY <3>1 DEF work, api
    <3>4. DrainInv'
      BY <2>0, <3>1, <3>2, <3>3 DEF DrainInv
    <3>. QED
      BY <2>0, <3>1, <3>4, RegularStays
  <2>2. ASSUME NEW n \in 0..Len(stream.obus), MayPush(n), Decode(n) PROVE RegularInv' /\ DrainInv'
    <3>1. UNCHANGED work
      BY <2>2 DEF Decode, UnchangedUnits, work
    <3>. QED
      BY <1>4, <2>0, <2>2, <3>1, RegularStays, DrainDecode
  <2>3. ASSUME NEW fits \in {TRUE, ~ShortBuffers}, GetOutputTemporalUnit(fits)
        PROVE  RegularInv' /\ DrainInv'
    <3>1. UNCHANGED work
      BY <2>3 DEF GetOutputTemporalUnit, UnchangedUnits, work
    <3>2. fits \in BOOLEAN
      BY Zenon
    <3>. QED
      BY <1>4, <2>0, <2>3, <3>1, <3>2, RegularStays, DrainGet
  <2>4. CASE MaySignal /\ SignalEndOfDecoding
    <3>1. UNCHANGED work
      BY <2>4 DEF SignalEndOfDecoding, UnchangedUnits, work
    <3>. QED
      BY <1>4, <2>0, <2>4, <3>1, RegularStays, DrainSignal
  <2>5. CASE Reset
    <3>1. Fresh'
      <4>1. stream \in [obus : Seq(Obu), ends : Seq(Nat), regular : BOOLEAN]
        BY DEF DrainingInv, DecoderInv, WorkInv, ReadingOK
      <4>2. EmptyUnit' = EmptyUnit
        BY DEF EmptyUnit
      <4>. QED
        BY <2>5, <4>1, <4>2 DEF Reset, Fresh
    <3>2. (stream.regular => IsRegular(stream))'
      <4>1. IsRegular(stream)
        BY <1>4, <2>0 DEF RegularInv, RegularFor
      <4>2. IsRegular(stream)' <=> IsRegular(stream)
        BY <1>2 DEF IsRegular, UnitBegin, UnitInOrder, UnitInTime, Usable, OfUse, UnitObus,
                    EndAt, Duration
      <4>. QED
        BY <4>1, <4>2
    <3>3. RegularInv'
      <4>1. (Fresh /\ (stream.regular => IsRegular(stream)))' => RegularInv'
        BY FreshRegular, PTL
      <4>. QED
        BY <3>1, <3>2, <4>1
    <3>. QED
      BY <1>4, <2>5, <3>3, DrainReset
  <2>6. CASE Process
    BY <1>4, <2>6, DrainProcess
  <2>7. CASE Render \/ NotYet \/ Fail
    <3>1. UNCHANGED work
      BY <2>7 DEF Render, NotYet, Fail, processor, work
    <3>. QED
      BY <1>4, <2>0, <2>7, <3>1, RegularStays, DrainEnds
  <2>. QED
    BY <2>1, <2>2, <2>3, <2>4, <2>5, <2>6, <2>7 DEF DecoderNext, Pushes, InCall
<1>. QED
  BY <1>3, <1>4

THEOREM DrainingIsInvariant == DecoderSpec => []DrainingInv
BY DrainStarts, DrainStep, PTL DEF DecoderSpec

(* When all that was received is used, the units output are those received.    *)
LEMMA DrainedUnits ==
    ASSUME WorkInv, RegularInv, stream.regular, Drained, NEW i \in ReceivedUnits
    PROVE  i \in 1..Len(units)
<1>. DEFINE s == stream  n == Len(units) + 1
<1>1. /\ RegularFor(s, units, current, position, frameClock, blockClock) /\ Regularly(s)
      /\ Len(units) \in Nat
  BY Types DEF RegularInv, RegularFor, Regularly, WorkInv, ReadingOK, Stream
<1>2. /\ Holds(s, current, n, position) /\ UnitOK(current) /\ IsEmpty(current)
      /\ position = received
  BY <1>1 DEF RegularFor, WorkInv, UnitInv, Drained
<1>. HIDE DEF s
<1>3. HoldsFacts(s, current, n, position) /\ BeginsFacts(s)
  BY <1>1, <1>2, HoldsMore, UnitBegins
<1>4. /\ i \in 1..Len(s.ends) /\ Len(s.ends) \in Nat /\ s.ends[i] <= position
      /\ s.ends[i] = UnitBegin(s, i + 1)
  BY <1>2, <1>3 DEF ReceivedUnits, BeginsFacts, s
<1>. SUFFICES ASSUME n <= i PROVE FALSE
  BY <1>1, <1>4
<1>5. n \in 1..Len(s.ends)
  BY <1>1, <1>4
<1>6. PICK f \in OfUse(s, "AudioFrame", Substreams, UnitObus(s, n)) : TRUE
  <2>1. PICK id \in Substreams : TRUE
    BY <1>1 DEF Regularly, IsRegular
  <2>. QED
    BY <1>1, <1>5, UnitHasFrames
<1>7. f \in Nat /\ UnitBegin(s, n) < f /\ f <= UnitBegin(s, n + 1)
  BY <1>1, <1>5, <1>6, InUnit DEF OfUse
<1>8. UnitBegin(s, n + 1) <= UnitBegin(s, i + 1) /\ UnitBegin(s, n + 1) \in Nat
      /\ UnitBegin(s, i + 1) \in Nat
  <2>1. n + 1 \in 1..(Len(s.ends) + 1) /\ i + 1 \in 1..(Len(s.ends) + 1)
        /\ (n = i \/ n + 1 < i + 1)
    BY <1>1, <1>4, <1>5
  <2>2. UnitBegin(s, n + 1) \in Nat /\ UnitBegin(s, i + 1) \in Nat
    BY <1>3, <2>1 DEF BeginsFacts
  <2>3. n + 1 < i + 1 => UnitBegin(s, n + 1) < UnitBegin(s, i + 1)
    BY <1>3, <2>1 DEF BeginsFacts
  <2>. QED
    BY <2>1, <2>2, <2>3
<1>9. UnitBegin(s, n) \in Nat /\ position \in Nat
  BY <1>3 DEF HoldsFacts
<1>10. f \in (UnitBegin(s, n) + 1)..position
  BY <1>4, <1>7, <1>8, <1>9
<1>11. f \in FramesFrom(s, n, position)
  BY <1>6, <1>10 DEF FramesFrom, OfUse
<1>. QED
  BY <1>2, <1>3, <1>11 DEF HoldsFacts

(* What holds each of 1..n, in order, is that long.                            *)
LEMMA HoldsEach ==
    ASSUME NEW n \in Nat, NEW seq \in Seq(1..n),
           \A i, j \in 1..Len(seq) : i < j => seq[i] < seq[j],
           \A i \in 1..n : \E k \in 1..Len(seq) : seq[k] = i
    PROVE  n <= Len(seq)
<1>. DEFINE S == {i \in Nat : i \in 1..n => \E k \in 1..Len(seq) : seq[k] = i /\ i <= k}
<1>0. Len(seq) \in Nat
  OBVIOUS
<1>1. 0 \in S
  OBVIOUS
<1>2. ASSUME NEW i \in Nat, i \in S PROVE i + 1 \in S
  <2>0. i + 1 \in Nat
    OBVIOUS
  <2>. SUFFICES ASSUME i + 1 \in 1..n
                PROVE  \E k \in 1..Len(seq) : seq[k] = i + 1 /\ i + 1 <= k
    BY <2>0, Zenon
  <2>1. PICK k \in 1..Len(seq) : seq[k] = i + 1
    OBVIOUS
  <2>2. CASE i = 0
    BY <1>0, <2>1, <2>2
  <2>3. CASE i # 0
    <3>1. i \in 1..n
      BY <2>3
    <3>2. PICK l \in 1..Len(seq) : seq[l] = i /\ i <= l
      BY <1>2, <3>1
    <3>3. l < k
      <4>. SUFFICES ASSUME k = l \/ k < l PROVE FALSE
        BY <1>0
      <4>1. k < l => i + 1 < i
        BY <2>1, <3>2, Zenon
      <4>2. k = l => i + 1 = i
        BY <2>1, <3>2
      <4>. QED
        BY <4>1, <4>2
    <3>. QED
      BY <1>0, <2>1, <3>2, <3>3
  <2>. QED
    BY <2>2, <2>3
<1>. HIDE DEF S
<1>3. \A i \in Nat : i \in S
  BY <1>1, <1>2, NumberInduction
<1>4. CASE n = 0
  BY <1>0, <1>4
<1>5. CASE n # 0
  <2>1. n \in 1..n
    BY <1>5
  <2>2. PICK k \in 1..Len(seq) : n <= k
    BY <1>3, <2>1 DEF S
  <2>. QED
    BY <1>0, <2>2
<1>. QED
  BY <1>4, <1>5

LEMMA DrainShown == DrainingInv => DrainedIsComplete
<1>. SUFFICES ASSUME DrainingInv, status = "EndOfStream", call.done, described, rendered = None,
                     NoFault, stream.regular, NEW i \in ReceivedUnits
              PROVE  i \in 1..Len(delivered)
  BY DEF DrainedIsComplete, IsTemporalUnitAvailable
<1>1. /\ WorkInv /\ RegularInv /\ DrainInv /\ NoUnitLost /\ DeliveredInOrder
      /\ delivered \in Seq(1..Len(units)) /\ Len(units) \in Nat
  BY Types DEF DrainingInv, DecoderInv, DeliveryInv, UnitsInOrder
<1>2. Drained
  BY <1>1 DEF DrainInv, EndOfSequence
<1>3. i \in 1..Len(units)
  BY <1>1, <1>2, DrainedUnits
<1>4. \A j \in 1..Len(units) : \E k \in 1..Len(delivered) : delivered[k] = j
  <2>. SUFFICES ASSUME NEW j \in 1..Len(units) PROVE \E k \in 1..Len(delivered) : delivered[k] = j
    OBVIOUS
  <2>1. units[j].frames # <<>>
    BY <1>1, UnitsHaveFrames
  <2>2. j # None /\ ~Rendering
    BY NoneAssumption DEF Rendering
  <2>. QED
    BY <1>1, <2>1, <2>2 DEF NoUnitLost
<1>5. \A j, k \in 1..Len(delivered) : j < k => delivered[j] < delivered[k]
  BY <1>1 DEF DeliveredInOrder, NoFault
<1>6. Len(units) <= Len(delivered)
  BY <1>1, <1>4, <1>5, HoldsEach
<1>. QED
  BY <1>1, <1>3, <1>6

(* Whatever is called in between, and in whatever pieces a regular stream      *)
(* comes: once its end is signalled and nothing is available any more, all of  *)
(* its units that were received were delivered, unless something failed.       *)
THEOREM DrainedIsAlwaysComplete == DecoderSpec => []DrainedIsComplete
BY DrainingIsInvariant, DrainShown, PTL

(* Under the API too the units are those encoded, after a Reset as well.       *)
THEOREM DecodedUnitsAreAsEncoded == DecoderSpec => []UnitsAsEncoded
BY DrainingIsInvariant, RegularShows, PTL DEF DrainingInv
===============================================================================
