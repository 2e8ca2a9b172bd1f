----------------------------- MODULE ObuSequencer -----------------------------
(* The sequencers that turn OBUs into an output stream: the base class         *)
(* iamf/cli/obu_sequencer_base.{h,cc} and its derived classes                  *)
(* obu_sequencer_iamf.cc (kind "File"), obu_sequencer_streaming_iamf.cc        *)
(* ("Streaming") and a derived class that asks for the descriptors to be       *)
(* delayed until the first presentation timestamp is known ("Delaying": the    *)
(* base class supports it, no class under src/ uses it).                       *)
(*                                                                             *)
(* Serialisation is abstracted: a list of descriptor OBUs is a record with its *)
(* bytes (an identity), their size, and the statistics that must not change;   *)
(* a temporal unit is a record with its timing.  Every public method is one    *)
(* action: the code is single threaded and a call runs to its end.             *)
EXTENDS Integers, Sequences

CONSTANTS
    Kinds,        \* the derived classes: "File", "Streaming", "Delaying"
    Descriptors,  \* descriptor lists: [obus, size, statistics]
    Units,        \* temporal units: [id, start, trim, untrimmed, writable]
    MaxUnits,     \* bound on the temporal units accepted
    Faulty,       \* the derived classes whose writes may fail
    Retries,      \* does a caller go on after Close failed?
    Unusable,     \* statistics of descriptors that cannot be written
    None          \* an absent std::optional

ASSUME KindAssumption == Kinds \subseteq {"File", "Streaming", "Delaying"}
ASSUME UnitsAssumption ==
    \A u \in Units : /\ u.start \in Int /\ u.trim \in Nat /\ u.untrimmed \in Nat
                     /\ u.writable \in BOOLEAN
ASSUME NoneAssumption == None \notin Int /\ None \notin Descriptors
ASSUME FaultyAssumption == Faulty \subseteq {"File", "Delaying"}
ASSUME RetriesAssumption == Retries \in BOOLEAN

VARIABLES
    kind,      \* which derived class this sequencer is; never changes
    state,     \* state_
    cached,    \* descriptor_statistics_->descriptor_obus and its statistics
    firstPts,  \* descriptor_statistics_->first_untrimmed_timestamp
    delayed,   \* delayed_temporal_units_
    header,    \* the descriptors in the output of the derived class
    pts,       \* the first timestamp signalled with the descriptors
    body,      \* the temporal units in the output of the derived class
    output,    \* "open" iff output_iamf_.has_value()
    promised,  \* history: the descriptors of the last call that accepted some
    accepted,  \* history: the temporal units whose push returned OkStatus
    closing    \* history: has Close or UpdateDescriptorObusAndClose returned
               \* OkStatus ("ok"), or Close an error that left it open ("failed")?

base == <<state, cached, firstPts, delayed>>
sink == <<header, pts, body, output>>
history == <<promised, accepted, closing>>
vars == <<kind, base, sink, history>>

(* delay_descriptors_until_first_untrimmed_sample_ *)
Delay == kind = "Delaying"
CanFail == kind \in Faulty
Usable(d) == d.statistics # Unusable

Init == /\ kind \in Kinds
        /\ state = "Initialized"
        /\ cached = None /\ firstPts = None /\ delayed = <<>>
        /\ header = None /\ pts = None /\ body = <<>> /\ output = "none"
        /\ promised = None /\ accepted = <<>> /\ closing = "no"
-------------------------------------------------------------------------------
(* The virtual methods of the derived classes.                                 *)

PushSerializedDescriptorObus(d, first) ==
    /\ header' = d
    /\ pts' = first
    /\ output' = IF kind = "Streaming" THEN output ELSE "open"

(* Faulty variants, named after what they get wrong, are stated just before    *)
(* the definition they vary.                                                   *)
AfterUnitsKeepsLastOnly(b, us) == IF us = <<>> THEN b ELSE <<us[Len(us)]>>

(* A file and a muxer append; the streaming class keeps only the last unit.    *)
AfterUnits(b, us) == IF kind # "Streaming" THEN b \o us
                     ELSE IF us = <<>> THEN b ELSE <<us[Len(us)]>>

PushSerializedTemporalUnits(us) == body' = AfterUnits(body, us)

PushFinalizedDescriptorObusSkipped(d) == header' = IF d = cached THEN d ELSE header

(* The file is rewritten in place, at its start.                               *)
PushFinalizedDescriptorObus(d) == header' = d

CloseDerived(b) == /\ output' = "none"
                   /\ body' = IF kind = "Streaming" THEN <<>> ELSE b

AbortDerivedKeepsOutput == output' = "none" /\ UNCHANGED <<header, pts, body>>
AbortDerivedKeepsUnits == output' = "none" /\ header' = None /\ UNCHANGED <<pts, body>>

(* A file sequencer removes a file it has open; a streaming sequencer clears   *)
(* its buffers whatever its state; a delaying class is modelled on the file.   *)
AbortDerived ==
    /\ IF kind = "Streaming" \/ output = "open" THEN header' = None /\ body' = <<>>
                                     ELSE UNCHANGED <<header, body>>
    /\ output' = "none"
    /\ UNCHANGED pts
-------------------------------------------------------------------------------
(* The caller makes another call; Retries says whether it does after Close     *)
(* failed ("RETURN_IF_NOT_OK(sequencer->Close())" in the class comment).       *)
Called == UNCHANGED kind /\ (closing = "failed" => Retries)

(* Abort(), and what AbortOnDestruct runs on every early return.               *)
Abort == AbortDerived /\ state' = "Closed"

FailedCall == /\ Abort
              /\ UNCHANGED <<cached, firstPts, delayed, history>>

PushDescriptorObus(d) ==
    /\ Called
    /\ \/ /\ state # "Initialized" \/ ~Usable(d)
          /\ FailedCall
       \/ /\ state = "Initialized" /\ Usable(d)
          /\ cached' = d
          /\ UNCHANGED <<firstPts, delayed>>
          /\ \/ /\ ~Delay /\ CanFail         \* the derived class failed
                /\ Abort
                /\ UNCHANGED history
             \/ /\ IF Delay
                   THEN state' = "DescriptorsPushed" /\ UNCHANGED sink
                   ELSE /\ state' = "SerializedPushed"
                        /\ PushSerializedDescriptorObus(d, firstPts)
                        /\ UNCHANGED body
                /\ promised' = d
                /\ UNCHANGED <<accepted, closing>>

FoundFirstSampleInAnyUnit(u) == TRUE

(* found_first_untrimmed_sample *)
FoundFirstSample(u) == u.untrimmed # 0

FlushedForgetsDelayed(u) == <<u>>

(* What is pushed once the first untrimmed sample is found.                    *)
Flushed(u) == Append(delayed, u)

(* HandleInitialTemporalUnits: until a sample survives trimming.               *)
HandleInitialTemporalUnits(u) ==
    /\ firstPts' = IF FoundFirstSample(u) THEN u.start + u.trim ELSE firstPts
    /\ UNCHANGED cached
    /\ \/ /\ CanFail /\ (Delay => FoundFirstSample(u))   \* a write failed
          /\ Abort
          /\ UNCHANGED <<delayed, history>>
       \/ /\ accepted' = Append(accepted, u)
          /\ UNCHANGED <<promised, closing>>
          /\ \/ /\ ~Delay
                /\ PushSerializedTemporalUnits(<<u>>)
                /\ UNCHANGED <<state, delayed, header, pts, output>>
             \/ /\ Delay /\ ~FoundFirstSample(u)
                /\ delayed' = Append(delayed, u)
                /\ UNCHANGED <<state, sink>>
             \/ /\ Delay /\ FoundFirstSample(u)
                /\ PushSerializedDescriptorObus(cached, firstPts')
                /\ state' = "SerializedPushed"
                /\ PushSerializedTemporalUnits(Flushed(u))
                /\ delayed' = <<>>

IsOpenOnceStarted == state # "Initialized"

(* The states in which temporal units and updates are legal.                   *)
IsOpen == state \in {"DescriptorsPushed", "SerializedPushed"}

PushTemporalUnit(u) ==
    /\ Called
    /\ \/ /\ ~IsOpen \/ ~u.writable
          /\ FailedCall
       \/ /\ IsOpen /\ u.writable
          /\ Len(accepted) < MaxUnits                              \* bound
          /\ firstPts = None
          /\ HandleInitialTemporalUnits(u)
       \/ /\ IsOpen /\ u.writable
          /\ firstPts # None /\ u.trim > 0
          /\ FailedCall
       \/ /\ IsOpen /\ u.writable
          /\ Len(accepted) < MaxUnits                              \* bound
          /\ firstPts # None /\ u.trim = 0
          /\ \/ CanFail /\ FailedCall
             \/ /\ PushSerializedTemporalUnits(<<u>>)
                /\ accepted' = Append(accepted, u)
                /\ UNCHANGED <<base, header, pts, output, promised, closing>>

(* The descriptors differ from the cached ones, in a way that is not allowed.  *)
Incompatible(d) == d.statistics # cached.statistics \/ d.size # cached.size

(* Close(): trivial sequences get their descriptors now, with a timestamp of 0 *)
(* (kFallbackFirstPts).  Delayed units are not flushed.                        *)
CloseSucceeds ==
    /\ IF state = "DescriptorsPushed"
       THEN firstPts' = 0 /\ pts' = 0 /\ header' = cached
       ELSE UNCHANGED <<firstPts, pts, header>>
    /\ CloseDerived(body)
    /\ state' = "Closed"
    /\ closing' = "ok"
    /\ UNCHANGED <<cached, delayed, promised, accepted>>

FallbackFails == /\ state = "DescriptorsPushed" /\ CanFail
                 /\ firstPts' = 0
                 /\ UNCHANGED <<cached, delayed, promised, accepted>>

(* Close() on its own: an error is returned, and nothing is aborted.           *)
Close ==
    /\ Called
    /\ \/ state = "Closed" /\ UNCHANGED <<base, sink, history>>
       \/ state # "Closed" /\ CloseSucceeds
       \/ FallbackFails /\ closing' = "failed" /\ UNCHANGED <<state, sink>>

UpdateDescriptorObusAndClose(d) ==
    /\ Called
    /\ \/ /\ ~IsOpen \/ ~Usable(d)
          /\ FailedCall
       \/ /\ IsOpen /\ Usable(d) /\ d.obus # cached.obus /\ Incompatible(d)
          /\ FailedCall
       \/ /\ IsOpen /\ Usable(d) /\ d.obus # cached.obus /\ ~Incompatible(d)
          /\ \/ CanFail /\ FailedCall
             \/ /\ PushFinalizedDescriptorObus(d)
                /\ CloseDerived(body)
                /\ state' = "Closed"
                /\ promised' = d /\ closing' = "ok"
                /\ UNCHANGED <<cached, firstPts, delayed, pts, accepted>>
       \/ /\ IsOpen /\ d.obus = cached.obus
          /\ \/ CloseSucceeds
             \/ FallbackFails /\ Abort /\ UNCHANGED closing

CallerAborts == Abort /\ UNCHANGED <<kind, cached, firstPts, delayed, history>>

Next == \/ \E d \in Descriptors : \/ PushDescriptorObus(d)
                                  \/ UpdateDescriptorObusAndClose(d)
        \/ \E u \in Units : PushTemporalUnit(u)
        \/ Close
        \/ CallerAborts

Spec == Init /\ [][Next]_vars
-------------------------------------------------------------------------------
(* Every variable keeps its type, and a closed sequencer holds no output open. *)
TypeOK ==
    /\ kind \in Kinds
    /\ state \in {"Initialized", "DescriptorsPushed", "SerializedPushed", "Closed"}
    /\ cached \in Descriptors \union {None}
    /\ firstPts \in Int \union {None}
    /\ delayed \in Seq(Units)
    /\ header \in Descriptors \union {None}
    /\ pts \in Int \union {None}
    /\ body \in Seq(Units)
    /\ output \in {"none", "open"}
    /\ state = "Closed" => output = "none"
    /\ promised \in Descriptors \union {None}
    /\ accepted \in Seq(Units)
    /\ closing \in {"no", "ok", "failed"}

(* Every unit whose push succeeded is, while the sequencer is open, either     *)
(* already in the output or held back, and the two keep the caller's order:    *)
(* delaying and flushing (HandleInitialTemporalUnits) loses and reorders none. *)
NothingLost == IsOpen /\ kind # "Streaming" => accepted = body \o delayed

(* A close that returned OkStatus left a complete IA Sequence: the descriptors *)
(* last accepted, then every accepted unit in order.                           *)
CompleteWhenClosed ==
    closing = "ok" /\ kind # "Streaming" => header = promised /\ body = accepted

(* The same for the sequencers that write a unit as soon as it is accepted.    *)
FileCompleteWhenClosed ==
    closing = "ok" /\ kind = "File" => header = promised /\ body = accepted

(* When the sequencer ended any other way (a push failed, or the caller        *)
(* aborted), nothing of the sequence is left in the output.                    *)
NothingLeftBehind == state = "Closed" /\ closing # "ok" => header = None /\ body = <<>>

(* No temporal unit is written in front of the descriptors it needs.           *)
UnitsFollowDescriptors == body # <<>> => header # None

(* The first accepted unit with samples that survive trimming.                 *)
FirstUntrimmed(i) == /\ i \in 1..Len(accepted)
                     /\ accepted[i].untrimmed # 0
                     /\ \A j \in 1..(i - 1) : accepted[j].untrimmed = 0

(* The timestamp signalled with the descriptors is that of the first sample    *)
(* that survives trimming, however many fully trimmed units precede it, and 0  *)
(* only when a sequence without such a sample is closed.                       *)
SignalledTimestamp ==
    pts # None =>
        \/ \E i \in 1..Len(accepted) : /\ FirstUntrimmed(i)
                                       /\ pts = accepted[i].start + accepted[i].trim
        \/ /\ pts = 0 /\ closing = "ok"
           /\ \A i \in 1..Len(accepted) : accepted[i].untrimmed = 0

(* Once closed or aborted the sequencer stays closed and accepts nothing, and  *)
(* no later call, they all fail, changes what was written.  The buffers of a   *)
(* streaming sequencer are cleared by such a call: they are left out.          *)
ClosedIsFinal ==
    [][state = "Closed" =>
          /\ UNCHANGED <<state, accepted, closing>>
          /\ kind # "Streaming" => UNCHANGED <<header, body>>]_vars

(* The mapping to IaSequenceOutput: a file sequencer from what its file and    *)
(* its state say; the other two are not such an output and map to none.        *)
IsFile == kind = "File"
Phase == IF ~IsFile \/ state = "Initialized" THEN "none"
         ELSE IF state # "Closed" THEN "open"
         ELSE IF closing = "ok" THEN "complete" ELSE "discarded"

Output == INSTANCE IaSequenceOutput WITH
              phase <- Phase,
              promised <- IF IsFile THEN promised ELSE None,
              accepted <- IF IsFile THEN accepted ELSE <<>>,
              header <- IF IsFile THEN header ELSE None,
              body <- IF IsFile THEN body ELSE <<>>

(* A file sequencer keeps the promise of IaSequenceOutput.                     *)
ImplementsOutput == Output!Spec
===============================================================================
