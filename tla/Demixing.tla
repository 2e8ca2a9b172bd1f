------------------------------ MODULE Demixing ------------------------------
(***************************************************************************)
(* The channels of the audio elements through the encoder and the decoder: *)
(* mixed down to the substreams with the parameters of the frame, given to *)
(* a lossless codec, taken back and demixed (demixing_module.cc). Which     *)
(* parameters a frame has is kept by a ParametersManager                   *)
(* (parameters_manager.cc); the encoder has one and so has the decoder.    *)
(*                                                                         *)
(* The frames of the elements are mixed one after the other: first the     *)
(* encoder tells its manager the parameter blocks of a temporal unit, then  *)
(* every element asks for its parameters and moves on to the next frame.    *)
(***************************************************************************)
EXTENDS Reconstruction

CONSTANTS
  Scenarios,   \* what is encoded: [elements, blocks, frames], see below
  None         \* no parameter definition, no parameter block, a refusal

(* An element has the ids of its substreams, the layers, the mapping or the *)
(* number of pairs by its kind, and the demixing parameter it defines:     *)
(* [id, mode, w], with the default values. blocks[p][k] is the mode told by *)
(* the block of parameter p for frame k. Elements are mixed in the order   *)
(* of the sequence.                                                        *)
ASSUME ScenariosAssumption ==
  \A s \in Scenarios : /\ s.frames \in Nat
                       /\ \A p \in DOMAIN s.blocks : DOMAIN s.blocks[p] = 1..s.frames

VARIABLES
  scenario,
  frame,       \* the temporal unit that is encoded
  pc,          \* "telling", "mixing", "demixing", "encoded", "decoding" or "failed"
  todo,        \* how many elements have been handled in this temporal unit
  manager,     \* the encoder's ParametersManager: [states, blocks]
  decoder,     \* the decoder's
  frames       \* history: what became of every frame of every element

vars == <<scenario, frame, pc, todo, manager, decoder, frames>>

Elements == scenario.elements
Id(e) == Elements[e].parameter.id
HasParameter(e) == Elements[e].parameter # None
ParametersOf(elements) ==
  {elements[e].parameter.id : e \in {x \in DOMAIN elements : elements[x].parameter # None}}

-----------------------------------------------------------------------------
(* The ParametersManager.                                                  *)

Manager(elements) ==
  [states |-> [e \in {x \in DOMAIN elements : elements[x].parameter # None} |->
                 [previousW |-> 0, w |-> 0, next |-> 1, first |-> TRUE]],
   blocks |-> [p \in ParametersOf(elements) |-> None]]

(* alpha, beta, gamma and delta stand for 1, 0.707 and 0.866; w for the     *)
(* factors its index stands for, the first of which is 0.                  *)
Modes == {"1", "2", "3", "1n", "2n", "3n"}

Coefficients(mode) ==
  CASE mode \in {"1", "1n"} -> [alpha |-> 1, beta |-> 1, gamma |-> Root, delta |-> Root]
    [] mode \in {"2", "2n"} ->
         [alpha |-> Root, beta |-> Root, gamma |-> Root, delta |-> Root]
    [] mode \in {"3", "3n"} -> [alpha |-> 1, beta |-> 67, gamma |-> 67, delta |-> 67]

WOffset(mode) == IF mode \in {"1", "2", "3"} THEN -1 ELSE 1

WValue(index) == 7 * index

Clamp(n) == IF n < 0 THEN 0 ELSE IF n > 10 THEN 10 ELSE n

(* DMixPModeToDownMixingParams, with the index by the rule that applies.   *)
DownMixingParams(mode, index) ==
  LET c == Coefficients(mode)
  IN [alpha |-> c.alpha, beta |-> c.beta, gamma |-> c.gamma, delta |-> c.delta,
      index |-> index, w |-> WValue(index)]

SensibleParams == DownMixingParams("2", 0)

(* GetDownMixingParameters: [params, manager]; None for an error.          *)
Asked(m, e) ==
  IF ~HasParameter(e) THEN [params |-> SensibleParams, manager |-> m]
  ELSE LET block == m.blocks[Id(e)]
           state == m.states[e]
           default == Elements[e].parameter
       IN IF block = None
          THEN [params |-> DownMixingParams(default.mode, default.w), manager |-> m]
          ELSE IF block.start # state.next THEN None
          ELSE LET index == IF state.first THEN 0
                            ELSE Clamp(state.previousW + WOffset(block.mode))
               IN [params |-> DownMixingParams(block.mode, index),
                   manager |-> [m EXCEPT !.states[e].w = index]]

(* AddDemixingParameterBlock.                                              *)
Told(m, p, block) == [m EXCEPT !.blocks[p] = block]

(* UpdateDemixingState, after the frame that ends at `end`. The expected    *)
(* time is that end as well, so that it never differs.                     *)
UpdatedKeepsPreviousW(m, e) ==
  IF ~HasParameter(e) THEN m
  ELSE IF m.blocks[Id(e)] = None THEN m
  ELSE [m EXCEPT !.states[e].next = m.blocks[Id(e)].start + 1,
                 !.states[e].first = FALSE,
                 !.blocks[Id(e)] = None]

Updated(m, e) ==
  IF ~HasParameter(e) THEN m
  ELSE IF m.blocks[Id(e)] = None THEN m
  ELSE [m EXCEPT !.states[e] = [previousW |-> m.states[e].w, w |-> m.states[e].w,
                                next |-> m.blocks[Id(e)].start + 1, first |-> FALSE],
                 !.blocks[Id(e)] = None]

-----------------------------------------------------------------------------
(* The elements.                                                           *)

LabelsOfSubstreams(x) ==
  CASE x.kind = "channels" -> SubstreamLabels(x.ids, x.layers)
    [] x.kind = "mono" -> AmbisonicsMonoLabels(x.ids, x.mapping)
    [] x.kind = "projection" -> AmbisonicsProjectionLabels(x.ids, x.coupled)

(* The channels that are given to the encoder and taken from the decoder:  *)
(* of the highest layer.                                                   *)
LabelsOf(x) ==
  CASE x.kind = "channels" ->
         LabelsOfLayout(x.layers[Len(x.layers)].layout)
    [] x.kind = "mono" ->
         {AmbisonicsLabels[i] : i \in {j \in DOMAIN x.mapping : x.mapping[j] # Inactive}}
    [] x.kind = "projection" ->
         {AmbisonicsLabels[i] : i \in 1..Len(x.ids) + x.coupled}

(* What the decoder demixes: LookupLabelsToReconstruct.                    *)
LabelsToReconstruct(x) ==
  IF x.kind = "channels" /\ x.layers[Len(x.layers)].layout \notin ExpandedLayouts
  THEN LabelsOf(x) ELSE {}

Gains(x) == IF x.kind = "channels" THEN OutputGains(x.layers) ELSE <<>>

(* A sample for every channel, another one in every frame.                 *)
Samples(x, k) ==
  LET order == FoldSet(LAMBDA l, labels : Append(labels, l), <<>>, LabelsOf(x))
  IN [l \in LabelsOf(x) |->
        (29 * (CHOOSE i \in DOMAIN order : order[i] = l) + 11 * k) % Prime]

-----------------------------------------------------------------------------
(* The encoder.                                                            *)

Init ==
  /\ scenario \in Scenarios
  /\ frame = 1 /\ todo = 1 /\ pc = "telling"
  /\ manager = Manager(scenario.elements)
  /\ decoder = Manager(scenario.elements)
  /\ frames = [e \in DOMAIN scenario.elements |-> <<>>]

(* OutputTemporalUnit: the blocks of the unit.                             *)
TellBlocks ==
  /\ pc = "telling" /\ frame <= scenario.frames
  /\ LET told == {p \in DOMAIN manager.blocks : scenario.blocks[p][frame] # None}
     IN manager' = [manager EXCEPT !.blocks = [p \in DOMAIN @ |->
                      IF p \in told THEN [mode |-> scenario.blocks[p][frame], start |-> frame]
                      ELSE @[p]]]
  /\ pc' = "mixing" /\ todo' = 1
  /\ UNCHANGED <<scenario, frame, decoder, frames>>

(* GetNextFrameSubstreamData for the next element, and the encoder's own    *)
(* reconstruction of what it mixed: DemixOriginalAudioSamples.             *)
Mix ==
  LET e == todo
      x == Elements[e]
      asked == Asked(manager, e)
      labels == LabelsOfSubstreams(x)
      wanted == LabelsOf(x)
      carried == Carried(labels)
      mixed == IF asked = None THEN <<>>
               ELSE SubstreamSamples(labels, DownMixers(wanted, carried), asked.params,
                                     Samples(x, frame))
  IN /\ pc = "mixing" /\ todo \in DOMAIN Elements
     /\ IF mixed = <<>>
        THEN pc' = "failed" /\ UNCHANGED <<manager, todo, frames>>
        ELSE /\ manager' = Updated(asked.manager, e)
             /\ frames' = [frames EXCEPT ![e] = Append(@,
                  [params |-> asked.params,
                   carried |-> Attenuated(mixed, Gains(x)),
                   original |-> Demix(Demixers(wanted, carried), asked.params, mixed)])]
             /\ todo' = todo + 1 /\ pc' = pc
     /\ UNCHANGED <<scenario, frame, decoder>>

NextUnit ==
  /\ pc = "mixing" /\ todo \notin DOMAIN Elements
  /\ frame' = frame + 1 /\ pc' = "telling"
  /\ UNCHANGED <<scenario, todo, manager, decoder, frames>>

(* The decoder, from the first frame; the encoder may have failed after a   *)
(* few.                                                                    *)
StartDecoding ==
  /\ pc = "telling" /\ frame > scenario.frames
  /\ pc' = "decoding" /\ frame' = 1 /\ todo' = 1
  /\ UNCHANGED <<scenario, manager, decoder, frames>>

(* GenerateAudioFrameWithData asks the decoder's manager, that nobody tells *)
(* a demixing block; DemixDecodedAudioSamples.                             *)
Decode ==
  LET e == todo
      x == Elements[e]
      asked == Asked(decoder, e)
      carried == Carried(LabelsOfSubstreams(x))
      demixers == Demixers(LabelsToReconstruct(x), carried)
  IN /\ pc = "decoding" /\ frame <= scenario.frames /\ todo \in DOMAIN Elements
     /\ frames' = [frames EXCEPT ![e][frame] =
          [params |-> @.params, carried |-> @.carried, original |-> @.original,
           decodedParams |-> asked.params,
           decoded |-> Demix(demixers, asked.params, @.carried)]]
     /\ decoder' = asked.manager
     /\ todo' = todo + 1
     /\ UNCHANGED <<scenario, frame, pc, manager>>

(* UpdateParameterStatesIfNeeded, when every element has its frame.        *)
NextDecodedUnit ==
  /\ pc = "decoding" /\ frame <= scenario.frames /\ todo \notin DOMAIN Elements
  /\ decoder' = FoldLeft(Updated, decoder, [e \in DOMAIN Elements |-> e])
  /\ frame' = frame + 1 /\ todo' = 1
  /\ UNCHANGED <<scenario, pc, manager, frames>>

Next == TellBlocks \/ Mix \/ NextUnit \/ StartDecoding \/ Decode \/ NextDecodedUnit

Spec == Init /\ [][Next]_vars

-----------------------------------------------------------------------------
(* The channels of a frame are what was given to the encoder.              *)
Restored(x, k, samples) ==
  LET found == Found(samples)
  IN \A l \in LabelsOf(x) : l \in DOMAIN found /\ found[l] = Samples(x, k)[l]

HasDecoded(f) == "decoded" \in DOMAIN f

(* A renderer may ask for the channels of any of the layers.               *)
EveryLayerIsFound(x, samples) ==
  x.kind = "channels" =>
    \A i \in DOMAIN x.layers :
      LabelsOfLayout(x.layers[i].layout) \subseteq DOMAIN Found(samples)

(* What the encoder demixes from its own substreams are the channels it was *)
(* given, whatever the layers and the parameters of the frame, and so is   *)
(* what the decoder demixes if it uses the parameters the frame was mixed  *)
(* with and no gain was applied: every channel of the highest layer is     *)
(* carried by a substream or demixed from those that are, by mixers that   *)
(* undo each other and find what they need, and so are the channels of the *)
(* lower layers, that a renderer may pass through. Mixing never fails for  *)
(* anything but its parameters.                                            *)
RestoresOriginal ==
  /\ pc = "failed" => Asked(manager, todo) = None
  /\ \A e \in DOMAIN Elements : \A k \in DOMAIN frames[e] :
       LET x == Elements[e]
           f == frames[e][k]
       IN /\ Restored(x, k, f.original)
          /\ HasDecoded(f) => EveryLayerIsFound(x, f.decoded)
          /\ HasDecoded(f) /\ f.decodedParams = f.params /\ Gains(x) = <<>>
               => Restored(x, k, f.decoded)

(* The parameters of a frame by the blocks alone: the index of w starts at 0 *)
(* and moves by the modes of the blocks since.                             *)
IndexAfter(modes) ==
  FoldLeft(LAMBDA w, mode : Clamp(w + WOffset(mode)), 0, Tail(modes))

(* Every frame is mixed with what the blocks up to it say, or with the      *)
(* defaults when it has none, and encoding fails only at a block that comes *)
(* after a gap. An element that has its parameter in common with one before *)
(* it finds the block of the frame already forgotten: it is not meant here. *)
ParametersFollowBlocks ==
  \A e \in DOMAIN Elements :
    HasParameter(e) /\ (\A d \in 1..e - 1 : HasParameter(d) => Id(d) # Id(e)) =>
      LET blocks == scenario.blocks[Id(e)]
          default == Elements[e].parameter
          Expected(k) == IF blocks[k] = None THEN DownMixingParams(default.mode, default.w)
                         ELSE DownMixingParams(blocks[k], IndexAfter(SubSeq(blocks, 1, k)))
      IN /\ \A k \in DOMAIN frames[e] : frames[e][k].params = Expected(k)
         /\ pc = "failed" /\ todo = e
              => \E k \in 1..frame - 1 : blocks[k] = None /\ blocks[frame] # None

(* "Demixers are used to recreate the original audio from the substreams."  *)
DecodedIsOriginal ==
  \A e \in DOMAIN Elements : \A k \in DOMAIN frames[e] :
    HasDecoded(frames[e][k]) => Restored(Elements[e], k, frames[e][k].decoded)

(* "coupled substreams (using 2 channels) come first and are followed by   *)
(* non-coupled substreams (using 1 channel each)".                         *)
EveryChannelHasASubstream ==
  \A e \in DOMAIN Elements :
    LabelsOf(Elements[e]) \subseteq Carried(LabelsOfSubstreams(Elements[e]))
=============================================================================
