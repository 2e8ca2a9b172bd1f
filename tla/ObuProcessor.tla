----------------------------- MODULE ObuProcessor -----------------------------
(* How the decoder cuts a sequence of OBUs into temporal units and gives them  *)
(* their times: ObuProcessor::ProcessTemporalUnit (iamf/cli/obu_processor.cc)  *)
(* with the GlobalTimingModule (iamf/cli/global_timing_module.cc).             *)
(*                                                                             *)
(* An OBU is a record; one that has not arrived completely cannot be read, so  *)
(* the source is the number of complete OBUs.  One step handles one OBU, and a *)
(* call to ProcessTemporalUnit is several steps.  Neither the times nor the    *)
(* units are in the OBUs: both come from counting frames.                      *)
(*                                                                             *)
(* The ParametersManager is left out: no parameter block is ever added to it   *)
(* while decoding, so that it stays at its defaults and never fails.           *)
EXTENDS Integers, Sequences

CONSTANTS
    Substreams,   \* the substreams of the audio elements
    ParameterIds, \* the parameters with a definition
    FrameSize,    \* GetNumSamplesPerFrame() of the codec config
    Streams,      \* what may be decoded: [obus, ends, regular], see below
    None          \* an absent std::optional

(* The OBUs of the stream after its descriptors.  `duration` is that of a      *)
(* parameter block, in the ticks of the audio, and what trimming leaves of the *)
(* samples of a frame: the decoder renders it, the clocks do not depend on it. *)
Obu == [type : {"AudioFrame", "ParameterBlock", "TemporalDelimiter",
                "IaSequenceHeader", "Descriptor", "Reserved"},
        id : Nat, duration : Nat, redundant : BOOLEAN]

ASSUME SubstreamsAssumption == Substreams \subseteq Nat /\ ParameterIds \subseteq Nat
ASSUME FrameSizeAssumption == FrameSize \in Nat \ {0}

(* A regular stream is a series of temporal units, as an encoder writes them;  *)
(* `ends` tells the encoder's ends of them.  Any other stream is arbitrary.    *)
Stream == [obus : Seq(Obu), ends : Seq(Nat), regular : BOOLEAN]
UnitBegin(s, i) == IF i = 1 THEN 0 ELSE s.ends[i - 1]
UnitObus(s, i) == (UnitBegin(s, i) + 1)..s.ends[i]

(* The OBUs among K that have a type and one of some ids.                      *)
OfUse(s, type, ids, K) == {k \in K : s.obus[k].type = type /\ s.obus[k].id \in ids}
Usable(s, K) == OfUse(s, "AudioFrame", Substreams, K)
                \union OfUse(s, "ParameterBlock", ParameterIds, K)

(* The time at which the last of the OBUs K ends, 0 if there is none.          *)
Duration(o) == IF o.type = "AudioFrame" THEN FrameSize ELSE o.duration
EndAt(s, K, t) ==
    IF K = {} THEN t = 0
    ELSE \E i \in 1..Len(s.ends) : \E k \in K :
            /\ k \in UnitObus(s, i) /\ \A l \in K : l <= k
            /\ t = (i - 1) * FrameSize + Duration(s.obus[k])

(* WriteTemporalUnit: the delimiter if there is one, the parameter blocks, and *)
(* a frame of every substream.                                                 *)
UnitInOrder(s, i) ==
    LET Delimiters == {k \in UnitObus(s, i) : s.obus[k].type = "TemporalDelimiter"}
    IN /\ \A id \in Substreams : OfUse(s, "AudioFrame", {id}, UnitObus(s, i)) # {}
       /\ \A k \in OfUse(s, "ParameterBlock", ParameterIds, UnitObus(s, i)) :
             \A f \in OfUse(s, "AudioFrame", Substreams, UnitObus(s, i)) : k < f
       /\ \A d, e \in Delimiters : d = e
       /\ \A d \in Delimiters : \A k \in Usable(s, UnitObus(s, i)) : d < k

(* TemporalUnitView::Create: what is in a unit begins with the unit, where the *)
(* last frame of the substream, or the last block of the parameter, ended.     *)
UnitInTime(s, i) ==
    \A k \in Usable(s, UnitObus(s, i)) :
        EndAt(s, OfUse(s, s.obus[k].type, {s.obus[k].id}, 1..(k - 1)), (i - 1) * FrameSize)

IsRegular(s) ==
    /\ Substreams # {}
    /\ \A i, j \in 1..Len(s.ends) : i < j => s.ends[i] < s.ends[j]
    /\ Len(s.obus) = UnitBegin(s, Len(s.ends) + 1)
    /\ \A i \in 1..Len(s.ends) : UnitInOrder(s, i) /\ UnitInTime(s, i)
    /\ \A k \in 1..Len(s.obus) :
          s.obus[k].type \in {"Descriptor", "IaSequenceHeader"} => s.obus[k].redundant

ASSUME StreamsAssumption == \A s \in Streams : s \in Stream /\ (s.regular => IsRegular(s))
ASSUME NoneAssumption == None \notin Nat

VARIABLES
    stream,     \* the stream that is decoded; never changes
    received,   \* how many of its OBUs are in read_bit_buffer_
    position,   \* how many were read
    frameClock, \* audio_frame_timing_data_: the next timestamp per substream
    blockClock, \* parameter_block_timing_data_: the same per parameter
    current,    \* current_temporal_unit_
    next,       \* next_temporal_unit_
    eos,        \* eos_is_end_of_sequence of the call
    pc,         \* "returned", "processing" or "failed"
    units,      \* history: the temporal units output
    accepted    \* history: the frames that were given a time, in order

vars == <<stream, received, position, frameClock, blockClock, current, next,
          eos, pc, units, accepted>>

EmptyUnit == [frames |-> <<>>, blocks |-> <<>>, delimiter |-> FALSE,
              timestamp |-> None]
IsEmpty(u) == u.frames = <<>> /\ u.blocks = <<>>

Init == /\ stream \in Streams
        /\ received = 0 /\ position = 0
        /\ frameClock = [s \in Substreams |-> 0]
        /\ blockClock = [p \in ParameterIds |-> 0]
        /\ current = EmptyUnit /\ next = EmptyUnit
        /\ eos = FALSE /\ pc = "returned"
        /\ units = <<>> /\ accepted = <<>>
-------------------------------------------------------------------------------
(* Faulty variants, named after what they get wrong, are stated just before    *)
(* the definition they vary.                                                   *)

(* GetGlobalAudioFrameTimestamp: a time if all substreams agree on it.         *)
IsGlobal(t) == \A s \in Substreams : frameClock[s] = t

AdvancedFrameClock(id) == [frameClock EXCEPT ![id] = @ + FrameSize]

AcceptedInAnyUnit(u, d) == TRUE

(* AddDataToCorrectTemporalUnit: does d belong to unit u?                      *)
AcceptedIn(u, d) == u.timestamp \in {None, d.start}

WithFrame(u, d) == [u EXCEPT !.frames = Append(@, d), !.timestamp = d.start]
WithBlock(u, d) == [u EXCEPT !.blocks = Append(@, d), !.timestamp = d.start]

FinishedAtEndOfData(u, n, stopped, delimited) ==
    stopped \/ n.timestamp # None \/ delimited

FinishedByDelimiterOnly(u, n, stopped, delimited) ==
    (stopped /\ eos) \/ delimited

(* The conditions under which the current temporal unit is finished.           *)
Finished(u, n, stopped, delimited) ==
    (stopped /\ eos) \/ n.timestamp # None \/ delimited

Output(u) == [timestamp |-> u.timestamp, frames |-> u.frames, blocks |-> u.blocks]

FollowingNone(n) == EmptyUnit

(* The next temporal unit becomes the current one.                             *)
Following(n) == n

(* The end of an iteration of ProcessTemporalUnit, with the current unit u and *)
(* the next unit n: return a unit, return nothing, or go on.                   *)
Collect(u, n, stopped, delimited) ==
    \/ /\ Finished(u, n, stopped, delimited) /\ ~IsEmpty(u)
       /\ current' = Following(n) /\ next' = EmptyUnit
       /\ units' = Append(units, Output(u))
       /\ pc' = "returned"
    \/ /\ Finished(u, n, stopped, delimited) => IsEmpty(u)
       /\ current' = u /\ next' = n
       /\ pc' = IF stopped \/ Finished(u, n, stopped, delimited)
                THEN "returned" ELSE "processing"
       /\ UNCHANGED units

NoMore == position = received

(* The OBU the loop handles.                                                   *)
Read(type) == /\ pc = "processing" /\ ~NoMore
              /\ stream.obus[position + 1].type = type
              /\ UNCHANGED <<stream, received, eos>>
Consume == position' = position + 1

(* Handled, but nothing comes of it: the OBU is bypassed.                      *)
Bypass == /\ Consume
          /\ Collect(current, next, FALSE, FALSE)

AudioFrame ==
    /\ Read("AudioFrame")
    /\ LET o == stream.obus[position + 1] IN
       \/ /\ o.id \notin Substreams           \* no audio element has it
          /\ Bypass
          /\ UNCHANGED <<frameClock, blockClock, accepted>>
       \/ /\ o.id \in Substreams
          /\ Consume
          /\ frameClock' = AdvancedFrameClock(o.id)
          /\ LET d == [index |-> position + 1, id |-> o.id, start |-> frameClock[o.id]]
             IN /\ accepted' = Append(accepted, d)
                /\ IF AcceptedIn(current, d)
                   THEN Collect(WithFrame(current, d), next, FALSE, FALSE)
                   ELSE Collect(current, WithFrame(next, d), FALSE, FALSE)
          /\ UNCHANGED blockClock

(* GetNextParameterBlockTimestamps: the parameter's clock agrees with the      *)
(* audio's.                                                                    *)
OnTime(p) == IsGlobal(blockClock[p])

(* A block is bypassed when the substreams do not agree on the time, or when   *)
(* the parameter's own clock, which advances anyway, disagrees with them.      *)
ParameterBlock ==
    /\ Read("ParameterBlock")
    /\ Consume
    /\ LET o == stream.obus[position + 1] IN
       \/ /\ o.id \notin ParameterIds \/ ~\E t \in {frameClock[s] : s \in Substreams} : IsGlobal(t)
          /\ Bypass
          /\ UNCHANGED blockClock
       \/ /\ o.id \in ParameterIds
          /\ \E t \in {frameClock[s] : s \in Substreams} : IsGlobal(t)
          /\ blockClock' = [blockClock EXCEPT ![o.id] = @ + o.duration]
          /\ LET d == [index |-> position + 1, id |-> o.id, start |-> blockClock[o.id]]
             IN IF ~OnTime(o.id) THEN Collect(current, next, FALSE, FALSE)
                ELSE IF AcceptedIn(current, d)
                THEN Collect(WithBlock(current, d), next, FALSE, FALSE)
                ELSE Collect(current, WithBlock(next, d), FALSE, FALSE)
    /\ UNCHANGED <<frameClock, accepted>>

TemporalDelimiter ==
    /\ Read("TemporalDelimiter")
    /\ Consume
    /\ Collect([current EXCEPT !.delimiter = TRUE], next, FALSE, current.delimiter)
    /\ UNCHANGED <<frameClock, blockClock, accepted>>

(* Redundant copies of descriptors, and what is reserved for the future.       *)
Ignored ==
    /\ \/ Read("Reserved")
       \/ /\ Read("Descriptor") \/ Read("IaSequenceHeader")
          /\ stream.obus[position + 1].redundant
    /\ Bypass
    /\ UNCHANGED <<frameClock, blockClock, accepted>>

(* The first OBU of the next IA Sequence is not consumed.                      *)
NextIaSequence ==
    /\ Read("IaSequenceHeader")
    /\ ~stream.obus[position + 1].redundant
    /\ Collect(current, next, TRUE, FALSE)
    /\ UNCHANGED <<position, frameClock, blockClock, accepted>>

(* Any other descriptor is an error.  Its payload was not skipped: the next    *)
(* call would begin inside of it, and a caller gives up.                       *)
UnexpectedDescriptor ==
    /\ Read("Descriptor")
    /\ ~stream.obus[position + 1].redundant
    /\ pc' = "failed"
    /\ UNCHANGED <<position, frameClock, blockClock, current, next, units, accepted>>

(* Neither the header nor the payload of the next OBU is there completely.     *)
OutOfData ==
    /\ pc = "processing" /\ NoMore
    /\ Collect(current, next, TRUE, FALSE)
    /\ UNCHANGED <<stream, received, position, frameClock, blockClock, eos, accepted>>

Processing == \/ AudioFrame \/ ParameterBlock \/ TemporalDelimiter \/ Ignored
              \/ NextIaSequence \/ UnexpectedDescriptor \/ OutOfData

(* A call to ProcessTemporalUnit begins.                                       *)
ProcessTemporalUnit(e) ==
    /\ pc = "returned"
    /\ pc' = "processing" /\ eos' = e
    /\ UNCHANGED <<stream, received, position, frameClock, blockClock, current,
                   next, units, accepted>>

(* PushBytes(), as far as it completes n OBUs.                                 *)
Receive(n) ==
    /\ pc = "returned"
    /\ n \in 1..(Len(stream.obus) - received)
    /\ received' = received + n
    /\ UNCHANGED <<stream, position, frameClock, blockClock, current, next, eos,
                   pc, units, accepted>>
-------------------------------------------------------------------------------
(* The user of the class on its own.  It announces the end only when all was   *)
(* received, or after complete temporal units ("future calls to decode must    *)
(* pass complete temporal units", iamf_decoder_factory.h).                     *)
AtAnEnd == \/ received = Len(stream.obus)
           \/ \E i \in 1..Len(stream.ends) : received = stream.ends[i]

Next == \/ \E n \in 1..(Len(stream.obus) - received) : Receive(n)
        \/ \E e \in BOOLEAN : (e => AtAnEnd) /\ ProcessTemporalUnit(e)
        \/ Processing

(* A call runs to its end, and the user goes on feeding the processor and      *)
(* asking for the rest: the loop of the class comment of IamfDecoderInterface. *)
Fairness == /\ WF_vars(Processing)
            /\ SF_vars(\E n \in 1..(Len(stream.obus) - received) : Receive(n))
            /\ SF_vars(received = Len(stream.obus) /\ ProcessTemporalUnit(TRUE))

Spec == Init /\ [][Next]_vars /\ Fairness
-------------------------------------------------------------------------------
Timed == [index : Nat, id : Nat, start : Nat]

(* Every variable keeps its type.                                              *)
TypeOK ==
    /\ stream \in Stream
    /\ received \in 0..Len(stream.obus) /\ position \in 0..received
    /\ frameClock \in [Substreams -> Nat] /\ blockClock \in [ParameterIds -> Nat]
    /\ \A u \in {current, next} :
          u \in [frames : Seq(Timed), blocks : Seq(Timed), delimiter : BOOLEAN,
                 timestamp : Nat \union {None}]
    /\ eos \in BOOLEAN /\ pc \in {"returned", "processing", "failed"}
    /\ units \in Seq([timestamp : Nat, frames : Seq(Timed), blocks : Seq(Timed)])
    /\ accepted \in Seq(Timed)

(* The frames of the first n units output.                                     *)
FramesOutput[n \in 0..Len(units)] ==
    IF n = 0 THEN <<>> ELSE FramesOutput[n - 1] \o units[n].frames

(* Whatever the stream: no frame that was given a time is lost, repeated or    *)
(* overtaken on its way through the current and the next unit.                 *)
NothingLost ==
    accepted = FramesOutput[Len(units)] \o current.frames \o next.frames

(* Whatever the stream: what is output together belongs to one time, which     *)
(* RenderTemporalUnitAndMeasureLoudness would otherwise refuse.                *)
OneTimestamp ==
    \A i \in 1..Len(units) :
        /\ \A j \in 1..Len(units[i].frames) :
              units[i].frames[j].start = units[i].timestamp
        /\ \A j \in 1..Len(units[i].blocks) :
              units[i].blocks[j].start = units[i].timestamp

(* Whatever the stream: the frames of a substream follow each other without a  *)
(* gap and without an overlap.                                                 *)
Contiguous ==
    \A i \in 1..Len(accepted) :
        LET before == {j \in 1..(i - 1) : accepted[j].id = accepted[i].id}
        IN IF before = {} THEN accepted[i].start = 0
           ELSE LET j == CHOOSE j \in before : \A k \in before : k <= j
                IN accepted[i].start = accepted[j].start + FrameSize

(* Whatever the stream: a parameter block applies from a time at which no      *)
(* substream was ahead of another, so that it precedes the frames it is for.   *)
BlocksPrecedeFrames ==
    \A i \in 1..Len(units) : \A b \in 1..Len(units[i].blocks) :
        \A j \in 1..Len(accepted) :
            accepted[j].start >= units[i].blocks[b].start
            => accepted[j].index > units[i].blocks[b].index

(* The times of what is accepted and of what is output.                        *)
TimesAgree == TypeOK /\ OneTimestamp /\ Contiguous /\ BlocksPrecedeFrames

(* The indices of what is in seq are those in K, in the order of the stream.   *)
Lists(seq, K) ==
    /\ {seq[j].index : j \in 1..Len(seq)} = K
    /\ \A j, l \in 1..Len(seq) : j < l => seq[j].index < seq[l].index

(* u is the i-th temporal unit of s, complete and at its time.                 *)
IsUnit(s, u, i) ==
    /\ u.timestamp = (i - 1) * FrameSize
    /\ Lists(u.frames, OfUse(s, "AudioFrame", Substreams, UnitObus(s, i)))
    /\ Lists(u.blocks, OfUse(s, "ParameterBlock", ParameterIds, UnitObus(s, i)))

(* A regular stream is cut where the encoder ended its units, whichever way it *)
(* arrives and whether or not it has delimiters: the units output are those    *)
(* encoded, with all their frames and parameter blocks, and at their times.    *)
UnitsAsEncoded ==
    stream.regular => /\ Len(units) <= Len(stream.ends)
                      /\ \A i \in 1..Len(units) : IsUnit(stream, units[i], i)

(* Every temporal unit of a regular stream is output in the end.               *)
EverythingIsOutput == stream.regular => <>(Len(units) = Len(stream.ends))
===============================================================================
