------------------------------ MODULE IamfDecoder -----------------------------
(* The decoder API, iamf/api/decoder/iamf_decoder.cc, on top of the temporal   *)
(* units that ObuProcessor assembles.                                          *)
(*                                                                             *)
(* A decoder is single threaded, but a call that has to decode a temporal unit *)
(* goes through DecodeOneTemporalUnit, which runs ProcessTemporalUnit (several *)
(* steps), renders what it returned and empties the buffer of what was read.   *)
(* Rendered samples are not copied: rendered_samples are spans over buffers of *)
(* the renderer, which the next rendering overwrites.                          *)
EXTENDS ObuProcessor

CONSTANTS
    Modes,       \* "standalone" (Create) or "descriptors" (CreateFromDescriptors)
    Relevant,    \* relevant_substream_ids: those of the selected mix
    MaxFaults,   \* bound on the temporal units that cannot be rendered
    MaxResets,   \* bound on the calls to Reset
    ShortBuffers \* may the caller's output buffer be too small?

ASSUME ModesAssumption == Modes \subseteq {"standalone", "descriptors"}
ASSUME RelevantAssumption == Relevant \subseteq Substreams /\ Relevant # {}
ASSUME BoundsAssumption == MaxFaults \in Nat /\ MaxResets \in Nat
ASSUME ShortBuffersAssumption == ShortBuffers \in BOOLEAN

VARIABLES
    mode,       \* how the decoder was created; never changes
    described,  \* obu_processor != nullptr
    status,     \* status: "AcceptingData" or "EndOfStream"
    rendered,   \* rendered_samples: the unit it has the spans of, or None
    samples,    \* the unit whose samples the spans' memory holds, or None
    call,       \* the call in progress, or the last one: [name, done, ok, bytes]
    began,      \* start_position_bits, in OBUs
    before,     \* the units output before the call
    flushed,    \* the OBUs flushed from read_bit_buffer
    delivered,  \* history: the units copied to output buffers, in order
    faults,     \* history: the units that could not be rendered
    shorts,     \* history: was an output buffer ever too small?
    resets      \* history: the calls to Reset

processor == <<stream, received, position, frameClock, blockClock, current, next,
               eos, pc, units, accepted>>
api == <<mode, described, status, rendered, samples, flushed, delivered, faults,
         shorts, resets>>
allVars == <<processor, api, call, began, before>>

DecoderInit ==
    /\ Init
    /\ mode \in Modes
    /\ described = (mode = "descriptors")
    /\ status = "AcceptingData"
    /\ rendered = None /\ samples = None
    /\ call = [name |-> "Create", done |-> TRUE, ok |-> TRUE, bytes |-> 0]
    /\ began = 0 /\ before = 0 /\ flushed = 0
    /\ delivered = <<>> /\ faults = 0 /\ shorts = FALSE /\ resets = 0

(* IsTemporalUnitAvailable()                                                   *)
IsTemporalUnitAvailable == rendered # None

(* The samples of unit i that are written: none if they are all trimmed.       *)
SamplesOf(i) == LET f == units[i].frames
                IN IF f = <<>> THEN 0 ELSE stream.obus[f[1].index].duration
-------------------------------------------------------------------------------
EndOfSequenceAlways(s) == TRUE

EndOfSequenceInContainersOnly(s) == mode = "descriptors"

(* eos_is_end_of_sequence, in status s.                                        *)
EndOfSequence(s) == mode = "descriptors" \/ s = "EndOfStream"

(* DecodeOneTemporalUnit begins; ok and bytes are what the call returns if it  *)
(* succeeds.                                                                   *)
DecodeOneTemporalUnit(name, s, ok, bytes) ==
    /\ call' = [name |-> name, done |-> FALSE, ok |-> ok, bytes |-> bytes]
    /\ began' = position /\ before' = Len(units)
    /\ eos' = EndOfSequence(s)
    /\ pc' = "processing"

(* A call that returns at once.                                                *)
Returned(name, ok, bytes) ==
    /\ call' = [name |-> name, done |-> TRUE, ok |-> ok, bytes |-> bytes]
    /\ UNCHANGED <<began, before, eos, pc>>

Idle == call.done /\ pc # "failed"

UnchangedUnits == UNCHANGED <<stream, position, frameClock, blockClock, current,
                              next, units, accepted>>

DecodesAlways == TRUE

(* "We only try to actually decode a temporal unit if we have no currently     *)
(* decoded temporal units."                                                    *)
Decodes == rendered = None

(* Decode(): n more OBUs arrive completely.  In standalone mode the processor  *)
(* is created by the call after which the descriptors and the header of an OBU *)
(* behind them are there; that call returns before it decodes anything.        *)
Decode(n) ==
    /\ Idle
    /\ \/ /\ status = "EndOfStream"
          /\ Returned("Decode", FALSE, 0)
          /\ UNCHANGED <<received, described>>
       \/ /\ status # "EndOfStream" /\ ~described
          /\ received' = received + n
          /\ described' \in {received' > 0, TRUE}
          /\ Returned("Decode", TRUE, 0)
       \/ /\ status # "EndOfStream" /\ described
          /\ received' = received + n
          /\ IF Decodes THEN DecodeOneTemporalUnit("Decode", "AcceptingData", TRUE, 0)
                        ELSE Returned("Decode", TRUE, 0)
          /\ UNCHANGED described
    /\ UnchangedUnits
    /\ UNCHANGED <<mode, status, rendered, samples, flushed, delivered, faults,
                   shorts, resets>>

RenderedKept(fits) == rendered

(* rendered_samples after they were, or were not, written to the buffer.       *)
RenderedAfterWrite(fits) == IF fits THEN None ELSE rendered

(* GetOutputTemporalUnit(): the next unit is decoded even when the samples did *)
(* not fit in the buffer and are kept.                                         *)
GetOutputTemporalUnit(fits) ==
    /\ Idle
    /\ UNCHANGED received
    /\ \/ /\ rendered = None
          /\ Returned("Get", TRUE, 0)
          /\ UNCHANGED <<rendered, delivered, shorts>>
       \/ /\ rendered # None
          /\ ~fits => SamplesOf(rendered) > 0
          /\ rendered' = RenderedAfterWrite(fits)
          /\ delivered' = IF fits THEN Append(delivered, samples) ELSE delivered
          /\ shorts' = (shorts \/ ~fits)
          /\ DecodeOneTemporalUnit("Get", status, fits,
                                   IF fits THEN SamplesOf(rendered) ELSE 0)
    /\ UnchangedUnits
    /\ UNCHANGED <<mode, described, status, samples, flushed, faults, resets>>

SignalDecodesNever == FALSE

(* Without a container the last unit is not known to be complete before.       *)
SignalDecodes == mode = "standalone" /\ rendered = None /\ described

SignalEndOfDecoding ==
    /\ Idle
    /\ status' = "EndOfStream"
    /\ IF SignalDecodes
       THEN DecodeOneTemporalUnit("Signal", "EndOfStream", TRUE, 0)
       ELSE Returned("Signal", TRUE, 0)
    /\ UnchangedUnits
    /\ UNCHANGED <<received, mode, described, rendered, samples, flushed, delivered,
                   faults, shorts, resets>>

RenderedAfterReset == None

(* Reset(): everything but the descriptors is forgotten.  The caller, who      *)
(* seeks, decodes the stream from its beginning again.  A new mix for which no *)
(* processor can be created is left out.                                       *)
Reset ==
    /\ call.done /\ mode = "descriptors" /\ resets < MaxResets           \* bound
    /\ resets' = resets + 1
    /\ rendered' = RenderedAfterReset /\ status' = "AcceptingData"
    /\ received' = 0 /\ position' = 0 /\ flushed' = 0
    /\ frameClock' = [s \in Substreams |-> 0]
    /\ blockClock' = [p \in ParameterIds |-> 0]
    /\ current' = EmptyUnit /\ next' = EmptyUnit
    /\ units' = <<>> /\ accepted' = <<>> /\ delivered' = <<>> /\ samples' = None
    /\ faults' = 0 /\ shorts' = FALSE
    /\ began' = 0 /\ before' = 0
    /\ call' = [name |-> "Reset", done |-> TRUE, ok |-> TRUE, bytes |-> 0]
    /\ pc' = "returned"
    /\ UNCHANGED <<stream, mode, described, eos>>
-------------------------------------------------------------------------------
(* ProcessTemporalUnit, under the call in progress.                            *)
Process == ~call.done /\ Processing /\ UNCHANGED <<api, call, began, before>>

Finishes(ok) == call' = [call EXCEPT !.done = TRUE, !.ok = @ /\ ok]

(* Flush(): as many as were read since the call began.                         *)
Flushed == flushed + (position - began)

(* The frames of the unit that belong to the selected mix.                     *)
HasRelevantFrame(u) == \E i \in 1..Len(u.frames) : u.frames[i].id \in Relevant

(* RenderTemporalUnitAndMeasureLoudness, and the end of DecodeOneTemporalUnit. *)
Render ==
    /\ ~call.done /\ pc = "returned" /\ Len(units) > before
    /\ LET u == units[Len(units)] IN
       \/ /\ u.frames = <<>>                          \* parameter blocks only
          /\ rendered' = None
          /\ flushed' = Flushed
          /\ Finishes(TRUE)
          /\ UNCHANGED <<samples, faults>>
       \/ /\ HasRelevantFrame(u)
          /\ rendered' = Len(units) /\ samples' = Len(units)
          /\ flushed' = Flushed
          /\ Finishes(TRUE)
          /\ UNCHANGED faults
       \/ /\ u.frames # <<>> /\ (HasRelevantFrame(u) => faults < MaxFaults)
          /\ faults' = faults + 1
          /\ samples' \in {samples, Len(units)}       \* part of it was rendered
          /\ Finishes(FALSE)
          /\ UNCHANGED <<rendered, flushed>>
    /\ UNCHANGED <<processor, mode, described, status, delivered, shorts, resets,
                   began, before>>

(* No unit is complete yet.                                                    *)
NotYet ==
    /\ ~call.done /\ pc = "returned" /\ Len(units) = before
    /\ flushed' = Flushed
    /\ Finishes(TRUE)
    /\ UNCHANGED <<processor, mode, described, status, rendered, samples, delivered,
                   faults, shorts, resets, began, before>>

(* ProcessTemporalUnit returned an error.                                      *)
Fail == /\ ~call.done /\ pc = "failed"
        /\ Finishes(FALSE)
        /\ UNCHANGED <<processor, api, began, before>>

InCall == Process \/ Render \/ NotYet \/ Fail

(* What may be pushed: anything, or, after CreateFromDescriptors, complete     *)
(* temporal units only (iamf_decoder_factory.h).                               *)
MayPush(n) == /\ received + n <= Len(stream.obus)
              /\ mode = "descriptors" =>
                    \/ n = 0 \/ received + n = Len(stream.obus)
                    \/ \E i \in 1..Len(stream.ends) : received + n = stream.ends[i]

(* The end is signalled behind complete temporal units: a regular stream that  *)
(* is cut short ends with an incomplete unit, whatever the decoder does.       *)
MaySignal == received = 0 \/ AtAnEnd \/ ~stream.regular

Pushes == \E n \in 0..Len(stream.obus) : MayPush(n) /\ Decode(n)

DecoderNext == \/ Pushes
               \/ \E fits \in {TRUE, ~ShortBuffers} : GetOutputTemporalUnit(fits)
               \/ MaySignal /\ SignalEndOfDecoding
               \/ Reset
               \/ InCall

(* A call runs to its end, and the caller follows the class comment of         *)
(* IamfDecoderInterface: it gets what is available, pushes the stream and then *)
(* signals its end.                                                            *)
DecoderFairness ==
    /\ WF_allVars(InCall)
    /\ SF_allVars(IsTemporalUnitAvailable /\ GetOutputTemporalUnit(TRUE))

DecoderSpec == DecoderInit /\ [][DecoderNext]_allVars /\ DecoderFairness
-------------------------------------------------------------------------------
(* Every variable of the decoder keeps its type.                               *)
DecoderTypeOK ==
    /\ TypeOK
    /\ mode \in Modes /\ described \in BOOLEAN
    /\ status \in {"AcceptingData", "EndOfStream"}
    /\ rendered \in (1..Len(units)) \union {None}
    /\ samples \in (1..Len(units)) \union {None}
    /\ call.done \in BOOLEAN /\ call.ok \in BOOLEAN /\ call.bytes \in Nat
    /\ began \in 0..position /\ before \in 0..Len(units)
    /\ flushed \in Nat
    /\ delivered \in Seq(1..Len(units))
    /\ faults \in Nat /\ shorts \in BOOLEAN /\ resets \in 0..MaxResets

NoFault == faults = 0 /\ ~shorts /\ pc # "failed"
Rendering == ~call.done /\ pc = "returned" /\ Len(units) > before

(* The guarantee of Decode: "any temporal units received thus far have not     *)
(* been lost".  As long as nothing fails, every unit with frames that was      *)
(* assembled is delivered, or rendered and waiting, or about to be rendered.   *)
NoUnitLost ==
    NoFault =>
        \A i \in 1..Len(units) :
            units[i].frames # <<>> =>
                \/ \E k \in 1..Len(delivered) : delivered[k] = i
                \/ rendered = i
                \/ Rendering /\ i = Len(units)

(* Whatever fails, no unit is delivered twice or after a later one, nor is one *)
(* that was delivered, or that precedes it, waiting.                           *)
DeliveredInOrder ==
    shorts \/ /\ \A i, j \in 1..Len(delivered) : i < j => delivered[i] < delivered[j]
              /\ rendered # None => \A i \in 1..Len(delivered) : delivered[i] < rendered

(* Every unit comes out once and in its order.                                 *)
UnitsInOrder == NoUnitLost /\ DeliveredInOrder

(* The spans that wait for the caller still show the unit they were made for:  *)
(* nothing is rendered over them ("they will be invalidated after the next     *)
(* call to RenderTemporalUnitAndMeasureLoudness()", obu_processor.h).          *)
SpansValid == ~shorts /\ rendered # None => samples = rendered

(* Flushing drops what was read and nothing else, after every call that worked.*)
FlushedIsRead == /\ flushed <= position
                 /\ call.done /\ NoFault => flushed = position

(* What waits, in the buffer or for the caller, is neither overwritten nor      *)
(* dropped, whatever is called in between.                                     *)
WaitingIsIntact == DecoderTypeOK /\ SpansValid /\ FlushedIsRead

(* The units of a regular stream that were received completely.                *)
ReceivedUnits == {i \in 1..Len(stream.ends) : stream.ends[i] <= received}

(* Once the end is signalled and no unit is available any more, everything     *)
(* that was received was delivered (the second loop of the class comment).     *)
DrainedIsComplete ==
    /\ status = "EndOfStream" /\ call.done /\ described
    /\ ~IsTemporalUnitAvailable /\ NoFault /\ stream.regular
    => ReceivedUnits \subseteq 1..Len(delivered)

(* The same for a caller that stops when no bytes are returned (the comment of *)
(* SignalEndOfDecoding: "User should call GetOutputTemporalUnit() until it     *)
(* returns no bytes after calling this function to get any remaining output"). *)
NoBytesIsComplete ==
    /\ status = "EndOfStream"
    /\ call = [name |-> "Get", done |-> TRUE, ok |-> TRUE, bytes |-> 0]
    /\ described /\ NoFault /\ stream.regular
    => ReceivedUnits \subseteq 1..Len(delivered)

(* A caller that keeps taking what is available is not kept waiting for what   *)
(* it already sent: after the end was signalled every received unit comes out. *)
Drains ==
    (status = "EndOfStream" /\ described) ~>
        \/ ReceivedUnits \subseteq 1..Len(delivered)
        \/ ~NoFault \/ ~stream.regular
===============================================================================
