------------------------- MODULE AudioFrameGenerator -------------------------
(* How the encoder makes frames of samples, in                                 *)
(* cli/proto_conversion/proto_to_obu/audio_frame_generator.cc.  One thread     *)
(* adds samples, a channel at a time, and finalizes; another one outputs       *)
(* frames while some are being generated.  Every method holds the mutex, so it *)
(* is one action.                                                              *)
(*                                                                             *)
(* A substream has one channel.  The k-th sample of its channel is the number  *)
(* k, a sample of padding is 0.  Codecs are external: one is its delay (the    *)
(* samples it puts in front of its output) and its latency (FLAC writes a      *)
(* frame when it gets the next one, the others at once).  Down-mixing, the     *)
(* demixing parameters and the conversion of samples are left out.             *)
EXTENDS Integers, Sequences, FiniteSets, SequencesExt

CONSTANTS
    Elements,   \* the audio elements
    Substreams, \* the substreams of all of them
    ElementOf,  \* the element of a substream
    F,          \* GetNumSamplesPerFrame(), the same for all codec configs
    Setups,     \* what may be encoded, see below
    None        \* no samples were ever added for a label

(* The codecs' delays and latencies, the trimming the user asks for, and how   *)
(* many samples the calls of AddSamples pass for each channel.                 *)
Setup == [delay : [Elements -> Nat], latency : [Elements -> {0, 1}],
          trimStart : Nat, startIncludesDelay : BOOLEAN,
          trimEnd : 0..F, endIncludesPadding : BOOLEAN, chunks : Seq(Nat)]

(* GetNumberOfSamplesToDelayAtStart of the worst codec.                        *)
MaxCodecDelay(c) == Max({c.delay[e] : e \in Elements})

(* Create refuses a trim that is said to include the delay and is smaller.     *)
(* Only the last samples that are added may be less than a frame.              *)
Legal(c) == /\ c.startIncludesDelay => c.trimStart >= MaxCodecDelay(c)
            /\ \A k \in DOMAIN c.chunks :
                   c.chunks[k] >= IF k < Len(c.chunks) THEN F ELSE 1

ASSUME ElementAssumption == /\ IsFiniteSet(Elements) /\ Elements # {}
                            /\ ElementOf \in [Substreams -> Elements]
                            /\ \A e \in Elements : e \in Range(ElementOf)
ASSUME FAssumption == F \in Nat \ {0}
ASSUME NoneAssumption == None \notin Seq(Nat)
ASSUME SetupsAssumption == \A c \in Setups : c \in Setup /\ Legal(c)

VARIABLES
    setup,    \* what is encoded; never changes
    state,    \* state_
    gen,      \* the data of the generator, see Init
    fed,      \* per substream, the calls of AddSamples made for its channel
    consumer, \* what the second thread does next: "asks", "outputs", "done"
    output,   \* history: the temporal units output, a frame per substream
    leftover  \* history: Finalize was called with a frame still inside

vars == <<setup, state, gen, fed, consumer, output, leftover>>

D == MaxCodecDelay(setup)
SubstreamsOf(e) == {s \in Substreams : ElementOf[s] = e}
Zeros(n) == [i \in 1..n |-> 0]
AtMost(n) == Min({n, F})
FrontOf(q) == SubSeq(q, 1, AtMost(Len(q)))
WithoutFront(q) == SubSeq(q, F + 1, Len(q))
(* What the front frame of a SubstreamFrames lacks to be whole.                *)
Missing(q) == F - AtMost(Len(q))

(* Padding for the worst codec delay; a codec that delays less gets the rest.  *)
InitializeSubstreamData(c, s) ==
    [inObu |-> Zeros(MaxCodecDelay(c)),
     toEncode |-> Zeros(MaxCodecDelay(c) - c.delay[ElementOf[s]]),
     trimStart |-> MaxCodecDelay(c), trimEnd |-> 0]

(* A map of substreams in which those of new have other values.                *)
Updated(f, new) == [s \in DOMAIN f |-> IF s \in DOMAIN new THEN new[s] ELSE f[s]]

InitialTrimming(c) ==
    [startLeft |-> c.trimStart
                   + (IF c.startIncludesDelay THEN 0 ELSE MaxCodecDelay(c)),
     endLeft |-> c.trimEnd]

NewEncoder == [held |-> <<>>, queue |-> <<>>, finished |-> FALSE]

(* id_to_labeled_samples_, substream_id_to_substream_data_ and _encoder_ (both *)
(* partial functions: their entries are erased), _trimming_state_, the clocks  *)
(* of the GlobalTimingModule, and whether no call returned an error.           *)
Init == /\ setup \in Setups
        /\ state = "TakingSamples"
        /\ gen = [labeled |-> [s \in Substreams |-> None],
                  data |-> [s \in Substreams |-> InitializeSubstreamData(setup, s)],
                  encoder |-> [s \in Substreams |-> NewEncoder],
                  trimming |-> [s \in Substreams |-> InitialTrimming(setup)],
                  clock |-> [s \in Substreams |-> 0],
                  ok |-> TRUE]
        /\ fed = [s \in Substreams |-> 0]
        /\ consumer = "asks"
        /\ output = <<>> /\ leftover = FALSE
-------------------------------------------------------------------------------
(* Faulty variants, named after what they get wrong, are stated just before    *)
(* the definition they vary.                                                   *)

(* After an error the caller gives up, so what else a call that fails has done *)
(* is of no consequence.                                                       *)
Failed(g) == [g EXCEPT !.ok = FALSE]

SamplesReadyForAudioElement(e, g) ==
    /\ \A s \in SubstreamsOf(e) : g.labeled[s] # None
    /\ \A s, t \in SubstreamsOf(e) : Len(g.labeled[s]) = Len(g.labeled[t])

NoSampleAdded(e, g) == \A s \in SubstreamsOf(e) : g.labeled[s] = <<>>

Downmixed(d, samples) ==
    [d EXCEPT !.inObu = @ \o samples, !.toEncode = @ \o samples]

(* GetNumSamplesToPadAtEndAndValidate, which fails if n samples of padding are *)
(* more than the user wants trimmed.                                           *)
TrimLeftAfterPadding(left, n) == left + (IF setup.endIncludesPadding THEN 0 ELSE n)

(* The front frames of d padded; the one to encode only up to what the other   *)
(* one got, unless no sample was added.                                        *)
Padded(d, idle) ==
    LET pad == Missing(d.inObu)
        toEncode == d.toEncode \o Zeros(pad)
    IN  [d EXCEPT !.inObu = @ \o Zeros(pad),
                  !.toEncode = toEncode \o Zeros(IF idle THEN Missing(toEncode) ELSE 0),
                  !.trimEnd = IF pad > 0 THEN pad ELSE @]

(* GetNextFrameSubstreamData: down-mix and pad, unless nothing is left of any  *)
(* element.                                                                    *)
GetNextFrameSubstreamData(e, g) ==
    LET idle == NoSampleAdded(e, g)
        mixed == [s \in SubstreamsOf(e) |-> Downmixed(g.data[s], g.labeled[s])]
        left == [s \in SubstreamsOf(e) |->
                    TrimLeftAfterPadding(g.trimming[s].endLeft, Missing(mixed[s].inObu))]
    IN  IF idle /\ \A s \in DOMAIN g.data : g.data[s].inObu = <<>> THEN g
        ELSE IF \/ ~(SubstreamsOf(e) \subseteq DOMAIN g.data)
                \/ \E s \in SubstreamsOf(e) : left[s] < Missing(mixed[s].inObu)
        THEN Failed(g)
        ELSE [g EXCEPT
                !.data = Updated(@, [s \in SubstreamsOf(e) |-> Padded(mixed[s], idle)]),
                !.trimming = Updated(@, [s \in SubstreamsOf(e) |->
                                 [g.trimming[s] EXCEPT !.endLeft = left[s]]])]

(* The substreams of e that have samples left, and those with a whole frame.   *)
WithSamples(e, g) == {s \in SubstreamsOf(e) \intersect DOMAIN g.data :
                         g.data[s].inObu # <<>>}
WithFrame(e, g) == {s \in WithSamples(e, g) : Len(g.data[s].toEncode) >= F}

FrameOf(s, g) ==
    [start |-> g.clock[s],
     obu |-> FrontOf(g.data[s].inObu), encoded |-> FrontOf(g.data[s].toEncode),
     trimStart |-> AtMost(g.data[s].trimStart), trimEnd |-> AtMost(g.data[s].trimEnd)]

(* EncodeAudioFrame: the write callback of FLAC is called for the frame before.*)
EncodeAudioFrame(n, latency, frame) ==
    IF latency = 0 THEN [n EXCEPT !.queue = Append(@, frame)]
    ELSE [n EXCEPT !.queue = @ \o n.held, !.held = <<frame>>]

(* GetNumSamplesToTrimForFrame and PopFront.                                   *)
FrontEncoded(d) ==
    [d EXCEPT !.inObu = WithoutFront(@), !.toEncode = WithoutFront(@),
              !.trimStart = @ - AtMost(@), !.trimEnd = @ - AtMost(@)]

Encoded(e, g) ==
    LET S == WithFrame(e, g)
    IN  [g EXCEPT
           !.encoder = Updated(@, [s \in S |-> EncodeAudioFrame(
                                       g.encoder[s], setup.latency[e], FrameOf(s, g))]),
           !.data = Updated(@, [s \in S |-> FrontEncoded(g.data[s])]),
           !.clock = Updated(@, [s \in S |-> g.clock[s] + F]),
           !.labeled = Updated(@, [s \in SubstreamsOf(e) |-> <<>>])]

(* One iteration of the loop of MaybeEncodeFramesForAudioElement.              *)
Iteration(e, g) == LET n == GetNextFrameSubstreamData(e, g)
                   IN  IF n.ok THEN Encoded(e, n) ELSE n

(* The loop goes on while there are samples and none was encoded: once more at *)
(* most, since then no sample is added and the frame is padded until whole.    *)
MaybeEncodeFramesForAudioElement(e, g) ==
    LET once == Iteration(e, g)
    IN  IF ~SamplesReadyForAudioElement(e, g) THEN g
        ELSE IF once.ok /\ once.clock = g.clock /\ WithSamples(e, once) # {}
        THEN Iteration(e, once) ELSE once
-------------------------------------------------------------------------------
FinalizeEncoderDropsHeld(n) == [n EXCEPT !.held = <<>>, !.finished = TRUE]

(* EncoderBase::Finalize; that of FLAC writes the frame it held.               *)
FinalizeEncoder(n) == [n EXCEPT !.queue = @ \o n.held, !.held = <<>>, !.finished = TRUE]

(* The substreams that have no more samples.                                   *)
Ended(g) ==
    {s \in DOMAIN g.encoder \intersect DOMAIN g.data : g.data[s].inObu = <<>>}

(* Their encoders are finalized and their data erased.                         *)
FinalizedEncoders(g) ==
    [g EXCEPT !.encoder = Updated(@, [s \in Ended(g) |-> FinalizeEncoder(g.encoder[s])]),
              !.data = Restrict(@, DOMAIN @ \ Ended(g))]

Finished(n) == n.finished /\ n.queue = <<>>

CanPopSome(g) == \E s \in DOMAIN g.encoder : g.encoder[s].queue # <<>>

(* can_pop_frames                                                              *)
CanPop(g) == \A s \in DOMAIN g.encoder : g.encoder[s].queue # <<>>

(* The encoders that are popped: all of them.                                  *)
Popped(g) == {s \in DOMAIN g.encoder : g.encoder[s].queue # <<>>}

IsLastWhenFinalized(n) == n.finished

(* Finished() after the pop.                                                   *)
IsLast(n) == n.finished /\ Len(n.queue) = 1

(* ValidateAndApplyUserTrimming: what the user wants trimmed from the front    *)
(* frame of s, which includes what is trimmed from it anyway.                  *)
TrimmingIsPossible(s, g) ==
    LET frame == Head(g.encoder[s].queue)  left == g.trimming[s]
    IN  /\ frame.trimStart <= AtMost(left.startLeft)
        /\ IsLast(g.encoder[s]) => /\ frame.trimEnd <= AtMost(left.endLeft)
                                   /\ left.endLeft <= F

UserTrimmed(s, g) ==
    LET frame == Head(g.encoder[s].queue)  left == g.trimming[s]
    IN  [frame EXCEPT
           !.trimStart = AtMost(left.startLeft),
           !.trimEnd = IF IsLast(g.encoder[s]) THEN AtMost(left.endLeft) ELSE @]

TrimmingLeft(s, g) ==
    [g.trimming[s] EXCEPT
       !.startLeft = @ - AtMost(@),
       !.endLeft = IF IsLast(g.encoder[s]) THEN @ - AtMost(@) ELSE @]

PoppedFrames(g) ==
    [g EXCEPT
       !.encoder = Updated(@, [s \in Popped(g) |-> [g.encoder[s] EXCEPT !.queue = Tail(@)]]),
       !.trimming = Updated(@, [s \in Popped(g) |-> TrimmingLeft(s, g)])]

WithoutFinished(g) ==
    [g EXCEPT !.encoder = Restrict(@, {s \in DOMAIN @ : ~Finished(@[s])})]

(* The end of OutputFrames: pop a frame of each encoder if all have one.       *)
Pop(g) ==
    IF ~CanPop(g) THEN /\ gen' = WithoutFinished(g) /\ UNCHANGED output
    ELSE IF \A s \in Popped(g) : TrimmingIsPossible(s, g)
    THEN /\ gen' = WithoutFinished(PoppedFrames(g))
         /\ output' = Append(output, [s \in Popped(g) |-> UserTrimmed(s, g)])
    ELSE /\ gen' = Failed(g) /\ UNCHANGED output
-------------------------------------------------------------------------------
(* How many samples k calls add to a channel, and those of call k.             *)
Added[k \in 0..Len(setup.chunks)] ==
    IF k = 0 THEN 0 ELSE Added[k - 1] + setup.chunks[k]
Chunk(k) == [i \in 1..setup.chunks[k] |-> Added[k - 1] + i]

(* Thread 1.  The channels of an element go hand in hand, elements need not.   *)
PassChunk(s) ==
    /\ state = "TakingSamples" /\ gen.ok
    /\ fed[s] < Len(setup.chunks)
    /\ \A t \in SubstreamsOf(ElementOf[s]) : fed[s] <= fed[t]
    /\ fed' = [fed EXCEPT ![s] = @ + 1]

AddSamples(s) ==
    /\ PassChunk(s)
    /\ gen' = MaybeEncodeFramesForAudioElement(ElementOf[s],
                  [gen EXCEPT !.labeled[s] = Chunk(fed[s] + 1)])
    /\ UNCHANGED <<setup, state, consumer, output, leftover>>

Inside(s) == IF s \in DOMAIN gen.encoder
             THEN gen.encoder[s].queue \o gen.encoder[s].held ELSE <<>>
NotEncoded(s) == IF s \in DOMAIN gen.data THEN gen.data[s].inObu ELSE <<>>

Finalize ==
    /\ state = "TakingSamples" /\ gen.ok
    /\ \A s \in Substreams : fed[s] = Len(setup.chunks)
    /\ state' = "FinalizedCalled"
    /\ leftover' = \E s \in Substreams : Inside(s) # <<>> \/ NotEncoded(s) # <<>>
    /\ UNCHANGED <<setup, gen, fed, consumer, output>>

GeneratingFrames == DOMAIN gen.encoder # {}

(* Thread 2.  It asks whether frames are being generated and outputs some; the *)
(* mutex is free in between.                                                   *)
AskGeneratingFrames ==
    /\ consumer = "asks" /\ gen.ok
    /\ consumer' = IF GeneratingFrames THEN "outputs" ELSE "done"
    /\ UNCHANGED <<setup, state, gen, fed, output, leftover>>

NextStateForgotten == IF state = "FinalizedCalled" THEN "FinalizedCalled" ELSE state

NextState == IF state = "FinalizedCalled" THEN "FlushingRemaining" ELSE state

(* Whatever the order in which audio_elements_ has the elements.               *)
FlushedInOrder(order) ==
    LET flushed[i \in 0..Len(order)] ==
            IF i = 0 THEN gen
            ELSE IF flushed[i - 1].ok
                 THEN MaybeEncodeFramesForAudioElement(order[i], flushed[i - 1])
                 ELSE flushed[i - 1]
    IN  flushed[Len(order)]

CallOutputFrames == consumer = "outputs" /\ gen.ok /\ consumer' = "asks"

OutputFrames(order) ==
    /\ CallOutputFrames
    /\ state' = NextState
    /\ LET encoded == IF state = "FlushingRemaining" THEN FlushedInOrder(order) ELSE gen
       IN  \/ /\ ~encoded.ok
              /\ gen' = encoded /\ UNCHANGED output
           \/ /\ encoded.ok
              /\ Pop(IF state' = "FlushingRemaining" THEN FinalizedEncoders(encoded)
                     ELSE encoded)
    /\ UNCHANGED <<setup, fed, leftover>>

Next == \/ \E s \in Substreams : AddSamples(s)
        \/ Finalize
        \/ AskGeneratingFrames
        \/ \E order \in SetToSeqs(Elements) : OutputFrames(order)

(* Either thread makes its next call: the loops of the class comment.  A step  *)
(* of PassChunk is one of AddSamples, one of CallOutputFrames of OutputFrames. *)
Fairness == /\ WF_fed(\E s \in Substreams : PassChunk(s)) /\ WF_state(Finalize)
            /\ WF_consumer(AskGeneratingFrames) /\ WF_consumer(CallOutputFrames)
Spec == Init /\ [][Next]_vars /\ Fairness
-------------------------------------------------------------------------------
(* Type correctness, with what the partial functions owe each other: samples   *)
(* that are left have an encoder, and an encoder without data was finalized.   *)
Frame == [start : Nat, obu : Seq(Nat), encoded : Seq(Nat),
          trimStart : 0..F, trimEnd : 0..F]
TypeOK ==
    /\ setup \in Setup /\ Legal(setup)
    /\ state \in {"TakingSamples", "FinalizedCalled", "FlushingRemaining"}
    /\ \A s \in Substreams : gen.labeled[s] \in Seq(Nat) \union {None}
    /\ DOMAIN gen.data \subseteq DOMAIN gen.encoder
    /\ \A s \in DOMAIN gen.data :
           gen.data[s] \in [inObu : Seq(Nat), toEncode : Seq(Nat),
                            trimStart : Nat, trimEnd : Nat]
    /\ \A s \in DOMAIN gen.encoder :
           /\ gen.encoder[s] \in [held : Seq(Frame), queue : Seq(Frame), finished : BOOLEAN]
           /\ gen.encoder[s].finished <=> s \notin DOMAIN gen.data
    /\ gen.trimming \in [Substreams -> [startLeft : Nat, endLeft : Nat]]
    /\ gen.clock \in [Substreams -> Nat] /\ gen.ok \in BOOLEAN
    /\ fed \in [Substreams -> 0..Len(setup.chunks)]
    /\ \A k \in DOMAIN output : output[k] \in [DOMAIN output[k] -> Frame]
    /\ consumer \in {"asks", "outputs", "done"}
    /\ leftover \in BOOLEAN

(* Every frame of s made so far, in order, and the samples in them.            *)
FramesOf(s) == [k \in DOMAIN output |-> output[k][s]] \o Inside(s)
ObuSamples(s) == FlattenSeq([k \in DOMAIN FramesOf(s) |-> FramesOf(s)[k].obu])
                 \o NotEncoded(s)
EncoderInput(s) == FlattenSeq([k \in DOMAIN FramesOf(s) |-> FramesOf(s)[k].encoded])
                   \o (IF s \in DOMAIN gen.data THEN gen.data[s].toEncode ELSE <<>>)

(* Samples that wait for another channel of the element.                       *)
Waiting(s) == IF gen.labeled[s] \in {None, <<>>} THEN 0 ELSE 1

(* Whatever the threads do, what was added comes out of a substream once and   *)
(* in order, behind the padding for the codecs' delay and in front of less     *)
(* than a frame of padding (InitializeSubstreamData, GetNextFrameSubstreamData,*)
(* the erasure of data and encoders in OutputFrames).                          *)
NothingLost ==
    gen.ok => \A s \in Substreams :
        LET added == Zeros(D) \o [i \in 1..Added[fed[s] - Waiting(s)] |-> i]
        IN  \E n \in 0..(F - 1) : ObuSamples(s) = added \o Zeros(n)

(* What a codec is given runs ahead of the OBUs by its own delay, so that all  *)
(* substreams are aligned when decoded, however their delays differ            *)
(* (InitializeSubstreamData).                                                  *)
Aligned ==
    \A s \in Substreams :
        LET ahead == setup.delay[ElementOf[s]]
            input == EncoderInput(s)
            samples == ObuSamples(s)
        IN  \A i \in DOMAIN input :
                i + ahead \in DOMAIN samples => input[i] = samples[i + ahead]

(* What is output together is the next temporal unit, with a frame of every    *)
(* substream, all of the same time (comment of OutputFrames; the ABSL_CHECK_EQ *)
(* of the timestamps in IamfEncoder::OutputTemporalUnit).                      *)
OneTemporalUnit ==
    \A k \in DOMAIN output :
        /\ DOMAIN output[k] = Substreams
        /\ \A s \in Substreams : output[k][s].start = (k - 1) * F

(* Temporal units are whole, of one time, and decode aligned.                  *)
TemporalUnits == TypeOK /\ OneTemporalUnit /\ Aligned

(* What a decoder plays of a frame, and of all those that were output.         *)
Kept(frame) == SubSeq(frame.obu, frame.trimStart + 1, F - frame.trimEnd)
Played(s) == FlattenSeq([k \in DOMAIN output |-> Kept(output[k][s])])

Total == Added[Len(setup.chunks)]
PaddingAtEnd == (F - ((Total + D) % F)) % F

(* The samples the user wants trimmed, of those that were added.               *)
WantedStart == setup.trimStart - (IF setup.startIncludesDelay THEN D ELSE 0)
WantedEnd == setup.trimEnd - (IF setup.endIncludesPadding THEN PaddingAtEnd ELSE 0)
PlayedAsAsked(s) ==
    Played(s) = [i \in 1..Max({0, Total - WantedEnd - WantedStart}) |-> WantedStart + i]

(* When all is done, exactly the samples the user did not want trimmed are     *)
(* played, none of the padding (GetNumSamplesToPadAtEndAndValidate,            *)
(* ValidateAndApplyUserTrimming).  Nothing is left to trim from the end if the *)
(* last frame was output before Finalize.                                      *)
KeepsWhatWasAsked ==
    (consumer = "done" /\ (leftover \/ WantedEnd = 0))
        => \A s \in Substreams : PlayedAsAsked(s)

(* The comment of FinalizeEncode: it will "flush all remaining samples, as     *)
(* well as trim samples from the end".                                         *)
TrimsSamplesFromTheEnd ==
    consumer = "done" => \A s \in Substreams : PlayedAsAsked(s)

(* Calls in a legal order fail only if the samples to trim from the end are    *)
(* fewer than the padding or, with it, more than a frame (ApplyUserTrimForFrame*)
(* and GetNumSamplesToPadAtEndAndValidate); DownMixSamplesToSubstreams finds   *)
(* the data of every substream.                                                *)
FailsOnlyOnTrimming ==
    gen.ok \/ (IF setup.endIncludesPadding THEN setup.trimEnd < PaddingAtEnd
               ELSE setup.trimEnd + PaddingAtEnd > F)

(* The user's trimming is done exactly, or else refused for a reason.          *)
TrimsAsAsked == KeepsWhatWasAsked /\ FailsOnlyOnTrimming

(* All encoders end and are deleted, so that the second thread's loop ends     *)
(* unless a call fails (comment of OutputFrames).                              *)
Ends == <>(consumer = "done" \/ ~gen.ok)
===============================================================================
