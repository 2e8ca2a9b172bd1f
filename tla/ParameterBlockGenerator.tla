----------------------- MODULE ParameterBlockGenerator -----------------------
(***************************************************************************)
(* The parameter blocks on their way from the user's metadata to the        *)
(* temporal units: the program that encodes cuts them into frames and hands *)
(* those of a unit over with its samples (encoder_main_lib.cc), the encoder *)
(* sorts them by their type and makes blocks of them when the unit is       *)
(* output, recon gains when its frames are there (iamf_encoder.cc), and the *)
(* generator keeps a clock for every parameter                             *)
(* (parameter_block_generator.cc, global_timing_module.cc).                *)
(***************************************************************************)
EXTENDS ParameterBlocks

CONSTANTS
  Scenarios,   \* what is encoded, see below
  MaxRetries,  \* how often a unit that failed is asked for again
  None         \* no gain

(* A scenario has the codecs and the metadata of the elements as in          *)
(* AudioElementGenerator, the definitions of the mix presentations,        *)
(* mixGains, the primary profile, the metadata of the blocks, whether they *)
(* are partitioned and whether computed recon gains are overridden; who    *)
(* calls the encoder: the "main" program, that hands over the block of a   *)
(* parameter again when the next unit has none, or another one ("api");    *)
(* the number of frames, by how many the codec is late, how loud the       *)
(* channels are in each, and whether what is too large for 8 bits          *)
(* saturates.                                                              *)
ASSUME ScenariosAssumption ==
  \A s \in Scenarios :
    /\ s.frames \in Nat \ {0} /\ s.lag \in {0, 1}
    /\ s.driver \in {"main", "api"}
    /\ s.first \in DOMAIN s.codecs
    /\ \A c \in DOMAIN s.codecs : s.codecs[c].frame = s.codecs[s.first].frame

VARIABLES
  scenario,
  pc,          \* "creating", "ready", "encoded", "done", or what went wrong
  frame,       \* the unit that is given to the encoder
  retries,
  definitions, \* by id
  metadata,    \* the blocks, partitioned if that is asked for
  told,        \* the blocks handed over with the unit, by id
  typed,       \* their metadata that is not used yet, by type
  temp,        \* blocks that were made and not output, by type
  clock,       \* where the next block of a parameter starts
  units        \* the blocks of the temporal units

vars == <<scenario, pc, frame, retries, definitions, metadata, told, typed, temp,
          clock, units>>

Generated == {Obu!MixGain, Obu!Demixing, Obu!ReconGain}
Types == Generated \union {Obu!Polar}
EmptyLists == [type \in Types |-> <<>>]

FrameDuration == scenario.codecs[scenario.first].frame

-----------------------------------------------------------------------------
(* The samples of an element in the encoder's own reconstruction: a level   *)
(* for every channel, before and after the codec.                          *)

ElementOf(d) == CHOOSE x \in ToSet(scenario.elements) : x.id = d.element

(* The channels that are carried or demixed.                               *)
Reconstructed(x) ==
  LET carried == Carried(SubstreamLabels(x.ids, x.layers))
      wanted == LabelsOfLayout(x.layers[Len(x.layers)].layout)
      ones == [alpha |-> 1, beta |-> 1, gamma |-> 1, delta |-> 1, w |-> 1]
  IN DOMAIN Demix(Demixers(wanted, carried), ones, [l \in carried |-> 1])

DemixedLabels ==
  <<"DemixedR2", "DemixedL3", "DemixedR3", "DemixedL5", "DemixedR5", "DemixedLs5",
    "DemixedRs5", "DemixedLtf2", "DemixedRtf2", "DemixedLtb4", "DemixedRtb4",
    "DemixedL7", "DemixedR7", "DemixedLrs7", "DemixedRrs7">>

(* The channels that are demixed are "silent", "loud", "quiet", each at a    *)
(* level of its own, or "weak": made quieter by the codec.                  *)
IndexOf(label) == CHOOSE i \in DOMAIN DemixedLabels : DemixedLabels[i] = label

OriginalLevel(sound, label) ==
  CASE label \notin ToSet(DemixedLabels) -> 100
    [] sound = "silent" -> 0
    [] sound = "loud" -> 90
    [] sound = "quiet" -> IndexOf(label)
    [] sound = "weak" -> 16 + IndexOf(label)

DecodedLevel(label) == IF label \in ToSet(DemixedLabels) THEN 16 ELSE 100

(* What may be computed for the layers of a definition; None for an error.  *)
ComputedGains(d, k) ==
  LET all == Reconstructed(ElementOf(d))
      original == [l \in all |-> OriginalLevel(scenario.sound[k], l)]
      decoded == [l \in all |-> DecodedLevel(l)]
      Possible(l) == ComputeReconGains(d.layers[l - 1].channels, d.layers[l].channels,
                                       original, decoded, scenario.saturates)
  IN OneOfEach([l \in Recon(d) |-> IF Possible(l) = {} THEN {None} ELSE Possible(l)])

ReconDefinitions == {id \in DOMAIN definitions : definitions[id].type = Obu!ReconGain}

AllComputedGains(k) ==
  OneOfEach([id \in ReconDefinitions |-> ComputedGains(definitions[id], k)])

(* The gains of the user: the "logged" ones, another gain, one gain less,    *)
(* or those of a layer less.                                               *)
UserGains(d, which, logged) ==
  LET Layer(l) == IF l \notin DOMAIN logged \/ logged[l] = None THEN <<>> ELSE logged[l]
      Spoilt(l) ==
        CASE Layer(l) = <<>> \/ which = "logged" -> Layer(l)
          [] which = "other" -> [b \in DOMAIN Layer(l) |-> (Layer(l)[b] + 1) % 256]
          [] which = "less" ->
               [b \in DOMAIN Layer(l) \ {CHOOSE x \in DOMAIN Layer(l) : TRUE} |-> Layer(l)[b]]
          [] OTHER -> Layer(l)
  IN [l \in 1..Len(d.layers) - (IF which = "fewer" THEN 1 ELSE 0) |-> Spoilt(l)]

(* The metadata of a block with its gains filled in.                        *)
WithGains(m, logged) ==
  IF definitions[m.id].type # Obu!ReconGain THEN m
  ELSE [m EXCEPT !.subblocks =
          [i \in DOMAIN @ |->
             IF @[i].data.kind # "recon_gain" THEN @[i]
             ELSE [@[i] EXCEPT !.data.gains =
                     UserGains(definitions[m.id], @, logged[m.id])]]]

-----------------------------------------------------------------------------
(* GenerateParameterBlocks: one block after the other; PopulateCommonFields *)
(* moves the clock on, also when the block does not start there. The        *)
(* blocks made before one that is refused are kept.                        *)
Block(d, m, start) ==
  [id |-> m.id, type |-> d.type, start |-> start, end |-> start + BlockDuration(d, m),
   data |-> [i \in DOMAIN m.subblocks |-> m.subblocks[i].data],
   durations |-> [i \in DOMAIN m.subblocks |-> ObuSubblockDuration(d, m, i)]]

WithBlock(s, m, computed) ==
  LET d == definitions[m.id]
      start == s.clock[m.id]
      gains == IF m.id \in DOMAIN computed THEN computed[m.id] ELSE <<>>
      ok == m.start = start /\ AcceptsSubblocks(d, m, scenario.override, gains)
  IN [ok |-> ok,
      clock |-> [s.clock EXCEPT ![m.id] = @ + BlockDuration(d, m)],
      blocks |-> IF ok THEN Append(s.blocks, Block(d, m, start)) ELSE s.blocks]

GenerateParameterBlocks(type, clocks, computed, logged) ==
  FoldLeft(LAMBDA s, m : IF s.ok THEN WithBlock(s, WithGains(m, logged), computed) ELSE s,
           [ok |-> TRUE, clock |-> clocks, blocks |-> temp[type]], typed[type])

-----------------------------------------------------------------------------
Init ==
  /\ scenario \in Scenarios
  /\ pc = "creating" /\ frame = 1 /\ retries = 0
  /\ definitions = <<>> /\ metadata = <<>> /\ told = <<>> /\ clock = <<>> /\ units = <<>>
  /\ typed = EmptyLists /\ temp = EmptyLists

(* TestMain, up to the first unit: the metadata is partitioned, the encoder  *)
(* created, which writes the descriptors.                                  *)
IsAccepted(s) ==
  /\ s.partition => CanBePartitioned(s.profile, s.metadata, s.codecs[s.first].frame)
  /\ Generates(s.elements, s.codecs)
  /\ Collects(s.elements, s.mixGains)
  /\ HasClocks(s.elements, s.codecs, Definitions(s.elements, s.mixGains))
  /\ \A i \in DOMAIN s.elements : CanBeManaged(s.elements[i])
  /\ \A d \in AllDefinitions(s.elements, s.mixGains) : CanBeWritten(d)

Create ==
  /\ pc = "creating"
  /\ IF IsAccepted(scenario)
     THEN /\ definitions' = Definitions(scenario.elements, scenario.mixGains)
          /\ metadata' = IF scenario.partition
                         THEN PartitionedMetadata(scenario.metadata, FrameDuration)
                         ELSE scenario.metadata
          /\ clock' = [id \in DOMAIN definitions' |-> 0]
          /\ pc' = "ready"
     ELSE pc' = "refused" /\ UNCHANGED <<definitions, metadata, clock>>
  /\ UNCHANGED <<scenario, frame, retries, told, typed, temp, units>>

(* The blocks that start with the unit, the last one of every parameter.     *)
NewBlocks ==
  LET starting == {i \in DOMAIN metadata : metadata[i].start = (frame - 1) * FrameDuration}
      ids == {metadata[i].id : i \in starting}
  IN [id \in ids |-> metadata[CHOOSE i \in starting :
                       /\ metadata[i].id = id
                       /\ \A j \in starting : metadata[j].id = id => j <= i]]

(* What is handed over. The program forgets the blocks of earlier units only *)
(* when the samples have ended.                                            *)
HandedOver ==
  IF scenario.driver = "main" /\ frame <= scenario.frames
  THEN [id \in DOMAIN NewBlocks \union DOMAIN told |->
          IF id \in DOMAIN NewBlocks THEN NewBlocks[id] ELSE told[id]]
  ELSE NewBlocks

(* AddMetadata for each, in the order of a hash map, up to the first one     *)
(* that is not known.                                                      *)
AddedMetadata(blocks, order) ==
  LET unknown == SelectInSeq(order, LAMBDA id : id \notin DOMAIN definitions)
      added == IF unknown = 0 THEN order ELSE SubSeq(order, 1, unknown - 1)
      Added(type) == SelectSeq(added, LAMBDA id : definitions[id].type = type)
  IN [type \in Types |->
        typed[type] \o [i \in DOMAIN Added(type) |-> blocks[Added(type)[i]]]]

Encode ==
  /\ pc = "ready" /\ frame <= scenario.frames + scenario.lag
  /\ told' = HandedOver
  /\ \E order \in SetToSeqs(DOMAIN HandedOver) : typed' = AddedMetadata(HandedOver, order)
  /\ pc' = IF DOMAIN HandedOver \subseteq DOMAIN definitions THEN "encoded"
           ELSE "unknownParameter"
  /\ UNCHANGED <<scenario, frame, retries, definitions, metadata, temp, clock, units>>

-----------------------------------------------------------------------------
(* OutputTemporalUnit. Only some other program asks again after a failure.   *)
Outputs ==
  \/ pc = "encoded"
  \/ pc = "refusedBlocks" /\ scenario.driver = "api" /\ retries < MaxRetries

DemixingBlocks == GenerateParameterBlocks(Obu!Demixing, clock, <<>>, <<>>)
MixGainBlocks == GenerateParameterBlocks(Obu!MixGain, DemixingBlocks.clock, <<>>, <<>>)

RefuseDemixing ==
  /\ Outputs /\ ~DemixingBlocks.ok
  /\ clock' = DemixingBlocks.clock
  /\ temp' = [temp EXCEPT ![Obu!Demixing] = DemixingBlocks.blocks]
  /\ pc' = "refusedBlocks"
  /\ retries' = IF pc = "refusedBlocks" THEN retries + 1 ELSE retries
  /\ UNCHANGED <<scenario, frame, definitions, metadata, told, typed, units>>

RefuseMixGain ==
  /\ Outputs /\ DemixingBlocks.ok /\ ~MixGainBlocks.ok
  /\ clock' = MixGainBlocks.clock
  /\ temp' = [temp EXCEPT ![Obu!Demixing] = DemixingBlocks.blocks,
                          ![Obu!MixGain] = MixGainBlocks.blocks]
  /\ typed' = [typed EXCEPT ![Obu!Demixing] = <<>>]
  /\ pc' = "refusedBlocks"
  /\ retries' = IF pc = "refusedBlocks" THEN retries + 1 ELSE retries
  /\ UNCHANGED <<scenario, frame, definitions, metadata, told, units>>

(* The unit whose frames come out: earlier ones than went in, if any.        *)
OutputUnit == frame - scenario.lag

AfterUnit == IF frame = scenario.frames + scenario.lag THEN "done" ELSE "ready"

WaitForFrames ==
  /\ Outputs /\ DemixingBlocks.ok /\ MixGainBlocks.ok /\ OutputUnit < 1
  /\ clock' = MixGainBlocks.clock
  /\ temp' = [temp EXCEPT ![Obu!Demixing] = DemixingBlocks.blocks,
                          ![Obu!MixGain] = MixGainBlocks.blocks]
  /\ typed' = [typed EXCEPT ![Obu!Demixing] = <<>>, ![Obu!MixGain] = <<>>]
  /\ frame' = frame + 1 /\ pc' = AfterUnit
  /\ UNCHANGED <<scenario, retries, definitions, metadata, told, units>>

(* The blocks at the front of a list that start no later than the unit.      *)
Splice(list, start) ==
  LET later == SelectInSeq(list, LAMBDA b : b.start > start)
  IN IF later = 0 THEN Len(list) ELSE later - 1

GenerateReconGain(computed, logged) ==
  GenerateParameterBlocks(Obu!ReconGain, MixGainBlocks.clock, computed, logged)

OutputBlocks ==
  /\ Outputs /\ DemixingBlocks.ok /\ MixGainBlocks.ok /\ OutputUnit >= 1
  /\ \E computed, logged \in AllComputedGains(OutputUnit) :
       LET recon == GenerateReconGain(computed, logged)
           start == (OutputUnit - 1) * FrameDuration
           all == [temp EXCEPT ![Obu!Demixing] = DemixingBlocks.blocks,
                               ![Obu!MixGain] = MixGainBlocks.blocks,
                               ![Obu!ReconGain] = recon.blocks]
           Count(type) == Splice(all[type], start)
           Due(type) == SubSeq(all[type], 1, Count(type))
       IN /\ clock' = recon.clock
          /\ IF recon.ok
             THEN /\ temp' = [type \in Types |->
                       SubSeq(all[type], Count(type) + 1, Len(all[type]))]
                  /\ units' = Append(units, Due(Obu!MixGain) \o Due(Obu!Demixing)
                                              \o Due(Obu!ReconGain))
                  /\ typed' = [type \in Types |->
                       IF type \in Generated THEN <<>> ELSE typed[type]]
                  /\ frame' = frame + 1 /\ pc' = AfterUnit
             ELSE /\ temp' = all
                  /\ typed' = [typed EXCEPT ![Obu!Demixing] = <<>>, ![Obu!MixGain] = <<>>]
                  /\ pc' = "refusedGains"
                  /\ UNCHANGED <<units, frame>>
  /\ UNCHANGED <<scenario, retries, definitions, metadata, told>>

Next == \/ Create \/ Encode \/ RefuseDemixing \/ RefuseMixGain
        \/ WaitForFrames \/ OutputBlocks

Spec == Init /\ [][Next]_vars

-----------------------------------------------------------------------------
(* Properties.                                                             *)

(* The channels a layer adds without carrying them.                        *)
CarriedUpTo(layers, l) ==
  LET groups == LayerGroups(layers)
  IN UNION {UNION {ToSet(s) : s \in ToSet(Substreams(groups[j]))} : j \in 1..l}

DemixedIn(layers, l) ==
  {GetDemixedLabel[c] :
     c \in LabelsOfLayout(layers[l].layout)
            \ (CarriedUpTo(layers, l)
               \union UNION {LabelsOfLayout(layers[j].layout) : j \in 1..l - 1})}

(* No number of surround channels is left out.                             *)
OneStepUp(layers, l) ==
  LET Surround(j) == LoudspeakerLayoutToChannels(layers[j].layout).surround
  IN ~\E n \in {2, 3, 5} : Surround(l - 1) < n /\ n < Surround(l)

(* Whoever reads the recon gains of a unit finds one for each of the         *)
(* channels that a layer demixes, and for no other, and it is the gain of  *)
(* this channel in this unit: the tables of what is demixed, of the bits   *)
(* and of the names of the bits, each written for itself, fit the channels *)
(* the substreams carry.                                                   *)
ReconGainsReachTheirChannels ==
  ~scenario.override =>
    \A k \in DOMAIN units : \A b \in {x \in ToSet(units[k]) : x.type = Obu!ReconGain} :
      LET layers == ElementOf(definitions[b.id]).layers
          all == Reconstructed(ElementOf(definitions[b.id]))
          original == [c \in all |-> OriginalLevel(scenario.sound[k], c)]
          decoded == [c \in all |-> DecodedLevel(c)]
          Named(l, bit) == DemixedChannelLabelForReconGain(layers[l].layout, bit)
      IN \A l \in {x \in Recon(definitions[b.id]) : OneStepUp(layers, x)} :
           \A i \in DOMAIN b.data :
             /\ {Named(l, bit) : bit \in DOMAIN b.data[i].gains[l]} = DemixedIn(layers, l)
             /\ \A bit \in DOMAIN b.data[i].gains[l] :
                  b.data[i].gains[l][bit]
                    = ReconGain(Named(l, bit), original, decoded, scenario.saturates)

(* The subblocks of a block, in the sequence.                              *)
Pieces(block) ==
  LET start == Starts(block)
  IN {[id |-> block.id, start |-> start[i], end |-> start[i + 1],
       data |-> block.subblocks[i].data] : i \in DOMAIN block.subblocks}

Specified == UNION {Pieces(scenario.metadata[i]) : i \in DOMAIN scenario.metadata}

PiecesOf(b) ==
  Pieces([id |-> b.id, start |-> b.start, constant |-> 0,
          subblocks |-> [i \in DOMAIN b.data |->
                           [duration |-> b.durations[i], data |-> b.data[i]]]])

During(piece, tick) == piece.start <= tick /\ tick < piece.end

(* The value at a tick as a fraction of two integers; a curve is compared as *)
(* a whole.                                                                *)
Numerator(p, tick) ==
  IF p.data.kind = "step" THEN p.data.from
  ELSE (p.end - tick) * p.data.from + (tick - p.start) * p.data.to
Denominator(p) == IF p.data.kind = "step" THEN 1 ELSE p.end - p.start

Agree(p, q, tick) ==
  IF "bezier" \in {p.data.kind, q.data.kind} THEN p = q
  ELSE LET one == Denominator(p) * Denominator(q)
           difference == Numerator(p, tick) * Denominator(q) - Numerator(q, tick) * Denominator(p)
       IN -one < difference /\ difference < one

BlocksOf(id) == SelectSeq(scenario.metadata, LAMBDA m : m.id = id)
FramesAligned(n) == n % FrameDuration = 0
IdsOf(type) == {id \in DOMAIN definitions : definitions[id].type = type}
IsMode0(id) == definitions[id].base.param_definition_mode = 0

(* The definition has the durations, when the block has none, and those in  *)
(* the metadata are the same.                                              *)
DurationsAgree(id) ==
  IsMode0(id) =>
    /\ definitions[id].base.duration = FrameDuration
    /\ definitions[id].base.constant_subblock_duration = FrameDuration
    /\ \A m \in ToSet(BlocksOf(id)) : \A i \in DOMAIN m.subblocks :
         /\ SubblockDuration(m, i) # 0 /\ FramesAligned(SubblockDuration(m, i))
         /\ ~scenario.partition => SubblockDuration(m, i) = FrameDuration

GainsFit(id) ==
  \A p \in {x \in Specified : x.id = id} :
    p.data.kind \in MixGains /\ Fits(p.data.from) /\ (p.data.kind # "step" => Fits(p.data.to))

(* The blocks of a parameter come one after the other, from the start, and  *)
(* with units; their subblocks are as long as they are.                    *)
Contiguous(id) ==
  LET blocks == BlocksOf(id)
  IN \A i \in DOMAIN blocks :
       /\ blocks[i].start = (IF i = 1 THEN 0 ELSE blocks[i - 1].start + blocks[i - 1].duration)
       /\ blocks[i].duration # 0 /\ FramesAligned(blocks[i].duration)
       /\ \A j \in DOMAIN blocks[i].subblocks : SubblockDuration(blocks[i], j) > 0
       /\ Starts(blocks[i])[Len(blocks[i].subblocks) + 1]
            = blocks[i].start + blocks[i].duration

(* The program hands the last block over again, so that there must be one   *)
(* for every unit.                                                         *)
SuitsDriver(id) ==
  LET blocks == BlocksOf(id)
      last == Last(blocks)
  IN scenario.driver = "main" /\ blocks # <<>> =>
       /\ last.start + last.duration >= scenario.frames * FrameDuration
       /\ ~scenario.partition => \A m \in ToSet(blocks) : m.duration = FrameDuration

CurvesAreWhole(id) ==
  scenario.partition =>
    \A p \in {x \in Specified : x.id = id /\ x.data.kind = "bezier"} :
      p.start \div FrameDuration = (p.end - 1) \div FrameDuration

(* The gains of the user are what the encoder says they must be, and this   *)
(* is the same every time; or they are not looked at.                      *)
GainsAreKnown(id) ==
  \A p \in {x \in Specified : x.id = id} :
    /\ p.data.kind = "recon_gain" /\ p.data.gains # "fewer"
    /\ ~scenario.override =>
         /\ p.data.gains = "logged"
         /\ \A k \in 1..scenario.frames : \A f, g \in ComputedGains(definitions[id], k) :
              f = g /\ \A l \in DOMAIN f : f[l] # None

(* Everything about the blocks is as the encoder asks for.                 *)
Consistent ==
  /\ \A p \in Specified : p.id \in DOMAIN definitions
  /\ \A id \in DOMAIN definitions :
       Contiguous(id) /\ SuitsDriver(id) /\ DurationsAgree(id)
  /\ \A id \in IdsOf(Obu!MixGain) : GainsFit(id) /\ CurvesAreWhole(id)
  /\ \A id \in IdsOf(Obu!Demixing) :
       \A p \in {x \in Specified : x.id = id} : p.data.kind = "demixing"
  /\ \A id \in IdsOf(Obu!ReconGain) : GainsAreKnown(id)

(* What the comment says of the data the program keeps from unit to unit:    *)
(* every unit fills the same slots. Not so when a unit has no block.       *)
HandedOverInTime ==
  \A id \in DOMAIN told : pc = "encoded" => told[id].start = (frame - 1) * FrameDuration

(* At every tick, a mix gain that is output is the one that was specified    *)
(* for this tick, up to less than the smallest step of it, however the     *)
(* block it is in was cut out of others, and for every specified tick of a *)
(* unit one has been output by then. What is specified consistently is     *)
(* never refused once the encoder exists.                                  *)
EncodedAsSpecified ==
  /\ pc \notin {"creating", "refused"} /\ Consistent =>
       pc \notin {"unknownParameter", "refusedBlocks", "refusedGains"}
  /\ \A id \in {x \in IdsOf(Obu!MixGain) : Contiguous(x) /\ DurationsAgree(x) /\ GainsFit(x)} :
       \A k \in DOMAIN units :
         LET specified == {p \in Specified : p.id = id}
             output == UNION {UNION {PiecesOf(b) : b \in {x \in ToSet(units[j]) : x.id = id}} :
                                j \in 1..k}
         IN /\ \A p \in output : \A tick \in p.start..p.end - 1 :
                 \E q \in specified : During(q, tick) /\ Agree(p, q, tick)
            /\ \A q \in specified :
                 \A tick \in {t \in q.start..q.end - 1 : t \div FrameDuration = k - 1} :
                   \E p \in output : During(p, tick)
=============================================================================
