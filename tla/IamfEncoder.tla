----------------------------- MODULE IamfEncoder -----------------------------
(* The encoder, iamf/cli/iamf_encoder.cc: samples and parameter blocks go in,  *)
(* temporal units come out of several sequencers, one call after the other.    *)
(*                                                                             *)
(* A frame is its number, which is also its time; so is the parameter block    *)
(* that covers it.  A sequencer is what IaSequenceOutput promises of it: open, *)
(* complete or discarded.  AudioFrameGenerator is abstracted to how many       *)
(* frames it encoded and output.  Recon gains, loudness and the bytes of the   *)
(* OBUs are left out.                                                          *)
EXTENDS Integers, Sequences, FiniteSets, SequencesExt

CONSTANTS
    Files,      \* how many sequencers there are beside the streaming one
    MaxFrames,  \* bound: frames of samples
    MaxFaults,  \* bound: failing writes
    Setups      \* what may be encoded, see Setup

(* latency: the frames a codec holds back; padding: the frames encoded after   *)
(* the last samples, for the delay of a codec (AAC-LC usually has 2048 samples *)
(* of it, two frames of 1024); covered: whether parameter blocks cover the     *)
(* frames; arbitrary: the ticks of the arbitrary OBUs, with whether they       *)
(* invalidate the bitstream; loud: whether the user's loudness is found wrong  *)
(* at the end; trivial: whether there are no substreams.                       *)
Setup == [latency : Nat, padding : Nat, covered : BOOLEAN,
          arbitrary : UNION {[T -> BOOLEAN] : T \in SUBSET Nat},
          loud : BOOLEAN, trivial : BOOLEAN]

ASSUME BoundAssumption == Files \in Nat /\ MaxFrames \in Nat /\ MaxFaults \in Nat
ASSUME SetupsAssumption ==
    \A c \in Setups : /\ c.latency \in Nat /\ c.padding \in Nat
                      /\ c.trivial => c.padding = 0
                      /\ {c.covered, c.loud, c.trivial} \subseteq BOOLEAN
                      /\ \A t \in DOMAIN c.arbitrary : t \in Nat

VARIABLES
    setup,  \* what is encoded; never changes
    phase,  \* "creating", "created" or "refused": the outcome of Create
    enc,    \* the members of the encoder, see Init
    seqs,   \* obu_sequencers_, and the streaming sequencer at the end
    given,  \* history: the frames passed to Encode and not dropped
    made,   \* history: the temporal units made, in order
    failed, \* history: the functions that failed
    faults, \* history: the writes that failed
    odd     \* history: whether OutputTemporalUnit was called an odd number of
            \* times, so that a call that changes nothing is a step too

vars == <<setup, phase, enc, seqs, given, made, failed, faults, odd>>

None == -1
N == Files + 1

(* finalizeCalled, cached (id_to_labeled_samples_ is not empty), metadata (of  *)
(* the block that was added), temp (temp_*_parameter_blocks_), block and next  *)
(* (of the ParametersManager), arbitrary (the ticks left in                    *)
(* timestamp_to_arbitrary_obus_), finalizer (its state_), mixFinalized and     *)
(* sequencersFinalized; of the generator its state_, the frames it encoded and *)
(* popped, the padding left, and whether it has encoders.                      *)
Init == /\ setup \in Setups
        /\ phase = "creating"
        /\ enc = [finalizeCalled |-> FALSE, cached |-> FALSE, metadata |-> None,
                  temp |-> <<>>, block |-> None, next |-> 0,
                  arbitrary |-> DOMAIN setup.arbitrary,
                  finalizer |-> "accepting", mixFinalized |-> FALSE,
                  sequencersFinalized |-> FALSE,
                  state |-> IF setup.trivial THEN "flushing" ELSE "taking",
                  encoded |-> 0, popped |-> 0, padding |-> setup.padding,
                  encoders |-> ~setup.trivial]
        /\ seqs = [i \in 1..N |-> [phase |-> "none", descriptors |-> "none", units |-> <<>>]]
        /\ given = 0 /\ made = <<>> /\ failed = {} /\ faults = 0 /\ odd = FALSE
-------------------------------------------------------------------------------
(* Sequencers.  A call goes through them in order and ends at the first that   *)
(* fails: one that is not ready for it, or the one whose write fails.          *)

(* A sequencer that fails aborts and leaves nothing behind (the theorem        *)
(* NothingIsLeftBehind of ObuSequencer_proofs); an ended one stays as it is.   *)
Aborted(s) == IF s.phase \in {"none", "open"}
              THEN [phase |-> "discarded", descriptors |-> "none", units |-> <<>>]
              ELSE s

Failing(q, ready, bad) == {i \in 1..N : q[i].phase # ready \/ i = bad}

UpToFromTheEnd(q, done, failing) ==
    [i \in 1..N |-> IF \E j \in failing : j > i THEN q[i]
                   ELSE IF i \in failing THEN Aborted(q[i]) ELSE done[i]]

(* The sequencers after a call that ends at the first of those that fail.      *)
UpTo(q, done, failing) ==
    [i \in 1..N |-> IF \E j \in failing : j < i THEN q[i]
                   ELSE IF i \in failing THEN Aborted(q[i]) ELSE done[i]]

WithDescriptors(q) ==
    [i \in 1..N |-> [q[i] EXCEPT !.phase = "open", !.descriptors = "preliminary"]]
Closed(q) == [i \in 1..N |-> [q[i] EXCEPT !.phase = "complete", !.descriptors = "final"]]
WithUnit(q, u) == [i \in 1..N |-> [q[i] EXCEPT !.units = Append(@, u)]]

(* The streaming sequencer only appends to memory.                             *)
Faulty == {None} \union (IF faults < MaxFaults THEN 1..Files ELSE {})
Faults(bads) == faults' = faults + Cardinality(bads \ {None})

(* Create: everything else that it validates is taken to be right.             *)
Create ==
    /\ phase = "creating"
    /\ \E bad \in Faulty :
          LET failing == Failing(seqs, "none", bad)
          IN  /\ seqs' = UpTo(seqs, WithDescriptors(seqs), failing)
              /\ phase' = IF failing = {} THEN "created" ELSE "refused"
              /\ Faults({bad})
    /\ UNCHANGED <<setup, enc, given, made, failed, odd>>
-------------------------------------------------------------------------------
(* Calls on a record w of the encoder, the sequencers and the unit made; its   *)
(* field failed names the function that returned an error, if one did.         *)
Fail(w, what) == [w EXCEPT !.failed = what]
Ok(w) == w.failed = "none"

GeneratingAudioOnly(e) == e.state = "taking" \/ e.encoders

GeneratingTemporalUnits(e) == e.state = "taking" \/ e.encoders \/ e.arbitrary # {}

(* FinalizeDescriptors and the two calls on the RenderingMixPresentation-      *)
(* Finalizer: a second attempt fails, since the first one left its state_.     *)
FinalizeDescriptors(w) ==
    IF w.enc.mixFinalized THEN w
    ELSE IF w.enc.finalizer # "accepting" THEN Fail(w, "finalizer")
    ELSE IF setup.loud THEN Fail([w EXCEPT !.enc.finalizer = "finalizeCalled"], "loudness")
    ELSE [w EXCEPT !.enc.finalizer = "flushed", !.enc.mixFinalized = TRUE]

FinalizeObuSequencersAnyway(w, bad) ==
    IF w.enc.sequencersFinalized THEN w
    ELSE [w EXCEPT !.seqs = UpTo(@, Closed(@), Failing(@, "open", bad)),
                   !.enc.sequencersFinalized = TRUE]

FinalizeObuSequencers(w, bad) ==
    LET failing == Failing(w.seqs, "open", bad)
        closed == [w EXCEPT !.seqs = UpTo(@, Closed(@), failing)]
    IN  IF w.enc.sequencersFinalized THEN w
        ELSE IF failing # {} THEN Fail(closed, "sequencer")
        ELSE [closed EXCEPT !.enc.sequencersFinalized = TRUE]

Finalize(w, bad) == LET described == FinalizeDescriptors(w)
                    IN  IF Ok(described) THEN FinalizeObuSequencers(described, bad)
                        ELSE described

(* TemporalUnitView::Create: a unit has a frame, or arbitrary OBUs one of      *)
(* which invalidates the bitstream; its parameter blocks have its time.        *)
ViewIsValid(u) == /\ IF u.frame THEN TRUE
                     ELSE \E t \in u.arbitrary : setup.arbitrary[t]
                  /\ \A b \in u.blocks : b = u.time

PushTemporalUnitToObuSequencers(w, u, bad) ==
    LET failing == Failing(w.seqs, "open", bad)
        pushed == [w EXCEPT !.seqs = UpTo(@, WithUnit(@, u), failing), !.made = Append(@, u)]
    IN  IF ~ViewIsValid(u) THEN Fail(w, "view")
        ELSE IF failing # {} THEN Fail(pushed, "sequencer") ELSE pushed
-------------------------------------------------------------------------------
(* GenerateDemixing, and the manager is told of every block that waits.        *)
WithBlocks(w) ==
    LET temp == w.enc.temp \o (IF w.enc.metadata = None THEN <<>> ELSE <<w.enc.metadata>>)
    IN  [w EXCEPT !.enc.temp = temp, !.enc.metadata = None,
                  !.enc.block = IF temp = <<>> THEN @ ELSE Last(temp)]

(* UpdateDemixingState: the block was used.                                    *)
Updated(e) == [e EXCEPT !.encoded = @ + 1, !.block = None,
                        !.next = IF e.block = None THEN @ ELSE e.block + 1]

(* A frame is encoded with the block the manager points to, which must be the  *)
(* next one (GetDownMixingParameters) and must not have been output and freed  *)
(* already; afterwards the times of frame and block must agree.                *)
EncodeFrame(w) ==
    IF w.enc.block # None /\ w.enc.block \notin Range(w.enc.temp) THEN Fail(w, "dangling")
    ELSE IF w.enc.block \notin {None, w.enc.next} THEN Fail(w, "parameters")
    ELSE IF w.enc.block \notin {None, w.enc.encoded} THEN Fail(w, "parameters")
    ELSE [w EXCEPT !.enc = Updated(@)]

(* AddSamples of every label; ClearSamples unless that failed.                 *)
AddSamples(w) ==
    LET added == IF w.enc.state = "taking" THEN EncodeFrame(w) ELSE w
    IN  IF ~w.enc.cached THEN w
        ELSE IF Ok(added) THEN [added EXCEPT !.enc.cached = FALSE] ELSE added

FinalizeGeneratorForgotten(w) == w

FinalizeGenerator(w) ==
    IF w.enc.finalizeCalled /\ w.enc.state = "taking"
    THEN [w EXCEPT !.enc.state = "finalizeCalled"] ELSE w

IsAvailable(e, held) == e.popped + held < e.encoded

(* OutputFrames: encode what is left for the delay, finalize the encoders when *)
(* nothing is, pop a frame if there is one, and erase the finished encoders.   *)
OutputFrames(w) ==
    LET flush == w.enc.state = "flushing" /\ w.enc.padding > 0
        encoded == IF flush THEN EncodeFrame([w EXCEPT !.enc.padding = @ - 1]) ELSE w
        state == IF w.enc.state = "taking" THEN "taking" ELSE "flushing"
        ended == state = "flushing" /\ encoded.enc.padding = 0
        held == IF ended THEN 0 ELSE setup.latency
        e == encoded.enc
        popped == IF IsAvailable(e, held) THEN e.popped + 1 ELSE e.popped
    IN  IF ~Ok(encoded) THEN encoded
        ELSE [encoded EXCEPT !.enc = [e EXCEPT !.state = state, !.popped = popped,
                                      !.encoders = @ /\ ~(ended /\ popped = e.encoded)]]

(* The blocks in front of the first one that is later than the frame, and the  *)
(* arbitrary OBUs of its time.                                                 *)
FirstLater(temp, time) ==
    Min({i \in DOMAIN temp : temp[i] > time} \union {Len(temp) + 1})
BlocksUpTo(e, time) == Range(SubSeq(e.temp, 1, FirstLater(e.temp, time) - 1))
TempAfter(e, time) == SubSeq(e.temp, FirstLater(e.temp, time), Len(e.temp))

UnitOfFrame(e) == [time |-> e.popped - 1, frame |-> TRUE,
                   blocks |-> BlocksUpTo(e, e.popped - 1),
                   arbitrary |-> e.arbitrary \intersect {e.popped - 1}]

(* The last unit takes the opportunity to finalize the sequence.               *)
AfterPush(pushed, badClose) ==
    IF ~Ok(pushed) \/ GeneratingTemporalUnits(pushed.enc) THEN pushed
    ELSE Finalize(pushed, badClose)

(* PushTemporalUnit of the finalizer fails on a block of another time.         *)
OutputFrame(w, badPush, badClose) ==
    LET u == UnitOfFrame(w.enc)
        spliced == [w EXCEPT !.enc.temp = TempAfter(w.enc, u.time),
                             !.enc.arbitrary = @ \ u.arbitrary]
        pushed == PushTemporalUnitToObuSequencers(spliced, u, badPush)
    IN  IF w.enc.finalizer # "accepting" \/ \E b \in u.blocks : b # u.time
        THEN Fail(spliced, "finalizer")
        ELSE AfterPush(pushed, badClose)

(* At the end, the arbitrary OBUs that belong to no frame, a tick at a time.   *)
OutputExtraneous(w, badPush, badClose) ==
    LET first == IF w.enc.arbitrary = {} THEN {} ELSE {Min(w.enc.arbitrary)}
        u == [time |-> IF first = {} THEN None ELSE Min(first), frame |-> FALSE,
              blocks |-> {}, arbitrary |-> first]
        spliced == [w EXCEPT !.enc.arbitrary = @ \ first]
        done == ~GeneratingTemporalUnits(spliced.enc)
        described == IF done THEN FinalizeDescriptors(spliced) ELSE spliced
        pushed == IF first = {} THEN described
                  ELSE PushTemporalUnitToObuSequencers(described, u, badPush)
    IN  IF ~Ok(described) THEN described
        ELSE IF ~Ok(pushed) \/ ~done THEN pushed
        ELSE FinalizeObuSequencers(pushed, badClose)

Output(w, badPush, badClose) ==
    LET added == AddSamples(WithBlocks(w))
        output == OutputFrames(FinalizeGenerator(added))
    IN  IF ~Ok(added) THEN added
        ELSE IF ~Ok(output) THEN output
        ELSE IF output.enc.popped > w.enc.popped THEN OutputFrame(output, badPush, badClose)
        ELSE IF w.enc.finalizeCalled THEN OutputExtraneous(output, badPush, badClose)
        ELSE output
-------------------------------------------------------------------------------
Now == [enc |-> enc, seqs |-> seqs, made |-> made, failed |-> "none"]

(* w is the state after the call.                                              *)
Returns(w) == /\ enc' = w.enc /\ seqs' = w.seqs /\ made' = w.made
              /\ failed' = failed \union ({w.failed} \ {"none"})

(* The caller passes the block of the next frame once, when it is due, and the *)
(* next frame only after the last one was output (the loop in the comment of   *)
(* IamfEncoderInterface).                                                      *)
Total == given + (IF setup.trivial THEN 0 ELSE setup.padding)
BlockDue(samples) ==
    LET blocks == {enc.block, enc.metadata} \union Range(enc.temp)
    IN  /\ setup.covered /\ enc.encoded < Total + (IF samples THEN 1 ELSE 0)
        /\ enc.encoded \notin blocks /\ enc.encoded >= enc.next

Encode(samples) ==
    /\ phase = "created" /\ GeneratingTemporalUnits(enc)
    /\ samples => ~enc.cached /\ ~setup.trivial /\ given < MaxFrames \* bound
    /\ LET dropped == enc.finalizeCalled \/ ~samples
       IN  /\ enc' = [enc EXCEPT !.metadata = IF BlockDue(~dropped) THEN enc.encoded ELSE @,
                                 !.cached = @ \/ ~dropped]
           /\ given' = IF dropped THEN given ELSE given + 1
    /\ UNCHANGED <<setup, phase, seqs, made, failed, faults, odd>>

(* Samples must have been passed, or else the encoder never ends (see          *)
(* AudioFrameGenerator).                                                       *)
FinalizeEncode ==
    /\ phase = "created" /\ ~enc.finalizeCalled
    /\ setup.trivial \/ given > 0
    /\ \E bad \in Faulty :
          LET called == [Now EXCEPT !.enc.finalizeCalled = TRUE]
          IN  /\ Returns(IF GeneratingTemporalUnits(enc) THEN called
                         ELSE Finalize(called, bad))
              /\ Faults({bad})
    /\ UNCHANGED <<setup, phase, given, odd>>

(* The caller passed what is due.  It may call when all is done, too.          *)
CallOutput == /\ phase = "created"
              /\ BlockDue(FALSE) => enc.metadata # None
              /\ odd' = ~odd

OutputTemporalUnit ==
    /\ CallOutput
    /\ \E badPush, badClose \in Faulty :
          /\ badPush = None \/ badClose = None
          /\ Returns(Output(Now, badPush, badClose))
          /\ Faults({badPush, badClose})
    /\ UNCHANGED <<setup, phase, given>>

Next == \/ Create \/ FinalizeEncode \/ OutputTemporalUnit
        \/ \E samples \in BOOLEAN : Encode(samples)

(* A caller that goes on until GeneratingTemporalUnits returns false: it       *)
(* passes samples at least once, the blocks that are due, finalizes at some    *)
(* time and keeps calling OutputTemporalUnit, whatever these calls return (the *)
(* loop of the interface's comment).                                           *)
Fairness == /\ WF_vars(Encode(FALSE))
            /\ WF_vars(Encode(TRUE) /\ given = 0)
            /\ WF_vars(FinalizeEncode)
            /\ WF_odd(CallOutput)

Spec == Init /\ [][Next]_vars /\ Fairness
-------------------------------------------------------------------------------
(* Every member of the encoder keeps its type and a sequencer is one of those  *)
(* that IaSequenceOutput describes.                                            *)
TypeOK ==
    /\ setup \in Setups /\ phase \in {"creating", "created", "refused"}
    /\ {enc.finalizeCalled, enc.cached, enc.mixFinalized, enc.sequencersFinalized,
        enc.encoders} \subseteq BOOLEAN
    /\ {enc.metadata, enc.block} \subseteq Nat \union {None}
    /\ enc.temp \in Seq(Nat) /\ enc.next \in Nat
    /\ enc.arbitrary \subseteq DOMAIN setup.arbitrary
    /\ enc.finalizer \in {"accepting", "finalizeCalled", "flushed"}
    /\ enc.state \in {"taking", "finalizeCalled", "flushing"}
    /\ enc.padding \in 0..setup.padding /\ 0 <= enc.popped /\ enc.popped <= enc.encoded
    /\ \A i \in 1..N : /\ seqs[i].phase \in {"none", "open", "complete", "discarded"}
                       /\ seqs[i].descriptors \in {"none", "preliminary", "final"}

Live == {i \in 1..N : seqs[i].phase \in {"open", "complete"}}

(* Whichever call to whichever sequencer fails, a later sequencer never has a  *)
(* temporal unit that an earlier surviving one misses, two that end complete   *)
(* have the same units, and those before the first one that was lost have all  *)
(* (the loops of PushTemporalUnitToObuSequencers and FinalizeObuSequencers).   *)
SequencersAgree ==
    /\ \A i, j \in Live : i < j => IsPrefix(seqs[j].units, seqs[i].units)
    /\ \A i, j \in Live : seqs[i].phase = "complete" /\ seqs[j].phase = "complete"
                            => seqs[i].units = seqs[j].units
    /\ phase = "created" =>
          \A i \in Live : (\A j \in 1..i : j \in Live) => seqs[i].units = made

(* sequencers_finalized_, which a caller is told as output_obus_are_finalized, *)
(* is set only when every sequencer ended complete, with the last descriptors  *)
(* and every unit made, whatever failed before; and it is set by the call that *)
(* outputs the last unit, or by FinalizeEncode when there is none, without a   *)
(* further call, unless a call failed.                                         *)
FinalizedIsComplete ==
    /\ enc.sequencersFinalized =>
          /\ enc.mixFinalized /\ ~GeneratingTemporalUnits(enc)
          /\ \A i \in 1..N : seqs[i] = [phase |-> "complete", descriptors |-> "final",
                                        units |-> made]
    /\ failed = {} /\ enc.finalizeCalled /\ ~GeneratingTemporalUnits(enc)
          => enc.sequencersFinalized

ArbitraryMade == UNION {made[i].arbitrary : i \in DOMAIN made}
FramesBefore(i) == Cardinality({j \in DOMAIN made : j < i /\ made[j].frame})

(* What comes out is what went in: the frames that were passed and the padding *)
(* of the codec, one unit each and in order, each with the block that covers   *)
(* it and no other; every arbitrary OBU is in one unit, of its own tick when   *)
(* that has a frame; all of it once OutputTemporalUnit has no more to give,    *)
(* unless a call failed.                                                       *)
UnitsComplete ==
    /\ \A i \in DOMAIN made : made[i].frame =>
          /\ made[i].time = FramesBefore(i)
          /\ made[i].blocks = IF setup.covered THEN {made[i].time} ELSE {}
    /\ \A i, j \in DOMAIN made : i # j => made[i].arbitrary \intersect made[j].arbitrary = {}
    /\ \A i \in DOMAIN made : made[i].arbitrary \subseteq {made[i].time}
    /\ (failed = {} /\ enc.finalizeCalled /\ ~GeneratingTemporalUnits(enc)) =>
          /\ FramesBefore(Len(made) + 1) = Total
          /\ DOMAIN setup.arbitrary = ArbitraryMade

(* Nothing fails without a reason outside of the encoder: a parameter block is *)
(* never used after it was output and freed, never for another frame, and no   *)
(* sequencer is called again behind its end, with any latency and padding.     *)
(* Arbitrary OBUs make a unit alone only when one invalidates the bitstream.   *)
OnlyFaultsFail ==
    failed \subseteq (IF faults > 0 THEN {"sequencer"} ELSE {})
              \union (IF setup.loud THEN {"loudness", "finalizer"} ELSE {})
              \union {"view" : t \in {t \in DOMAIN setup.arbitrary \ ArbitraryMade :
                                     ~setup.arbitrary[t]}}

(* What comes out is complete, and what does not was refused for a reason.     *)
OutputIsComplete == TypeOK /\ UnitsComplete /\ OnlyFaultsFail

(* The loop of the interface's comment ends: after FinalizeEncode no latency,  *)
(* padding, arbitrary OBU or failing call keeps the encoder generating.        *)
Ends == phase = "created" ~> ~GeneratingTemporalUnits(enc)

(* What a comment in OutputTemporalUnit says when it pops arbitrary OBUs that  *)
(* have no frame: there will be no further audio frames.                       *)
NoFrameAfterExtraneous ==
    \A i, j \in DOMAIN made : i < j /\ made[j].frame => made[i].frame
===============================================================================
