--------------------------- MODULE ParameterBlocks ---------------------------
(***************************************************************************)
(* The metadata of parameter blocks cut into blocks of a frame each        *)
(* (parameter_block_partitioner.cc), what is looked at when a block is made *)
(* from its metadata (parameter_block_generator.cc), and the recon gains    *)
(* that are computed from the samples to be compared with the user's       *)
(* (recon_gain_generator.cc).                                              *)
(*                                                                         *)
(* The metadata of a block is [id, start, duration, constant, subblocks],  *)
(* every subblock [duration, data]; constant is the duration of all its    *)
(* subblocks, or 0. Data is [kind, ...]: a "step", "linear" or "bezier"    *)
(* with its gains in Q7.8, "demixing" or "recon_gain".                     *)
(***************************************************************************)
EXTENDS AudioElementGenerator

MixGains == {"step", "linear", "bezier"}

(* GetParameterSubblockDuration, with the durations in the block itself.    *)
SubblockDuration(block, i) ==
  LET n == Len(block.subblocks)
  IN CASE block.constant = 0 -> block.subblocks[i].duration
       [] block.constant # 0 /\ i = n /\ n * block.constant > block.duration ->
            block.duration - (n - 1) * block.constant
       [] OTHER -> block.constant

(* When every subblock starts, and the last one ends.                      *)
Starts(block) ==
  LET start[i \in 1..Len(block.subblocks) + 1] ==
        IF i = 1 THEN block.start ELSE start[i - 1] + SubblockDuration(block, i - 1)
  IN start

-----------------------------------------------------------------------------
(* Gains are in steps of 1/256 dB. What is interpolated is cut towards 0    *)
(* (InterpolateMixGainValue, FloatToQ7_8); between ends that can be         *)
(* represented it is always possible. The floats of the code are exact for *)
(* durations that are powers of two, and near enough off the integers.     *)
Cut(numerator, denominator) ==
  IF numerator >= 0 THEN numerator \div denominator
  ELSE -((-numerator) \div denominator)

LinearGain(data, start, end, time) ==
  Cut((end - time) * data.from + (time - start) * data.to, end - start)

(* PartitionMixGain: the gains of the metadata have 32 bits, and are cut to  *)
(* 16 without a check.                                                     *)
AsInt16(value) == ((value + 32768) % 65536) - 32768

PartitionedGain(data, start, end, from, to) ==
  CASE data.kind = "step" -> [data EXCEPT !.from = AsInt16(@)]
    [] data.kind = "linear" ->
         LET cut == [data EXCEPT !.from = AsInt16(@), !.to = AsInt16(@)]
         IN [cut EXCEPT !.from = LinearGain(cut, start, end, from),
                        !.to = LinearGain(cut, start, end, to)]
    [] data.kind = "bezier" -> data

Larger(a, b) == IF a > b THEN a ELSE b
Smaller(a, b) == IF a < b THEN a ELSE b

(* The subblocks that overlap a partition, and what is left of each.        *)
Overlapping(block, from, to) ==
  LET start == Starts(block)
  IN SelectSeq([i \in 1..Len(block.subblocks) |-> i],
               LAMBDA i : start[i + 1] > from /\ start[i] < to)

Piece(block, i, from, to) ==
  LET start == Starts(block)[i]
      end == start + SubblockDuration(block, i)
      data == block.subblocks[i].data
      first == Larger(from, start)
      last == Smaller(to, end)
  IN [duration |-> last - first,
      data |-> IF data.kind \in MixGains THEN PartitionedGain(data, start, end, first, last)
               ELSE data]

(* A curve is not cut, and neither are demixing and recon gain parameters   *)
(* put together from two subblocks. A linear gain of no duration has no    *)
(* value anywhere.                                                         *)
CanBeCut(block, i, from, to) ==
  LET start == Starts(block)[i]
      end == start + SubblockDuration(block, i)
  IN CASE block.subblocks[i].data.kind = "step" -> TRUE
       [] block.subblocks[i].data.kind = "linear" -> start < end
       [] block.subblocks[i].data.kind = "bezier" -> from <= start /\ end <= to
       [] OTHER -> i = Overlapping(block, from, to)[1]

(* FindConstantSubblockDuration: the last one may be shorter.                *)
FindConstantSubblockDurationAnyLast(durations) ==
  IF \A i \in 1..Len(durations) - 1 : durations[i] = durations[1]
  THEN durations[1] ELSE 0

FindConstantSubblockDuration(durations) ==
  IF /\ \A i \in 1..Len(durations) - 1 : durations[i] = durations[1]
     /\ durations[Len(durations)] <= durations[1]
  THEN durations[1] ELSE 0

Durations(pieces) == [i \in DOMAIN pieces |-> pieces[i].duration]

(* PartitionParameterBlock; << >> when it is refused.                      *)
Partition(block, from, to) ==
  LET overlapping == Overlapping(block, from, to)
      pieces == [i \in DOMAIN overlapping |-> Piece(block, overlapping[i], from, to)]
  IN IF /\ \A i \in DOMAIN overlapping : CanBeCut(block, overlapping[i], from, to)
        /\ Obu!Total(Durations(pieces)) = to - from
     THEN << [id |-> block.id, start |-> from, duration |-> to - from,
              constant |-> FindConstantSubblockDuration(Durations(pieces)),
              subblocks |-> pieces] >>
     ELSE <<>>

(* PartitionFrameAligned: as many as it takes to reach the end.              *)
PartitionFrameAligned(block, frame) ==
  LET count == (block.duration + frame - 1) \div frame
  IN [n \in 1..count |-> Partition(block, block.start + (n - 1) * frame,
                                   block.start + n * frame)]

(* PartitionParameterMetadata: all the blocks, whatever they are for; the    *)
(* duration of the partitions is that of a frame of the first codec config *)
(* (FindPartitionDuration).                                                *)
CanBePartitioned(profile, metadata, frame) ==
  /\ profile \in {"simple", "base", "base_enhanced"}
  /\ \A i \in DOMAIN metadata :
       \A n \in DOMAIN PartitionFrameAligned(metadata[i], frame) :
         PartitionFrameAligned(metadata[i], frame)[n] # <<>>

PartitionedMetadata(metadata, frame) ==
  FlattenSeq([i \in DOMAIN metadata |-> FlattenSeq(PartitionFrameAligned(metadata[i], frame))])

-----------------------------------------------------------------------------
(* Recon gains: the channels of a layer that have to be demixed, given the  *)
(* layer before it (FindDemixedChannels).                                  *)
FindDemixedSurroundChannels(before, c) ==
  LET Passes(n) == before.surround < n /\ n <= c.surround
  IN UNION {labels[2] : labels \in
       {l \in {<<3, {"DemixedL3", "DemixedR3"}>>, <<5, {"DemixedLs5", "DemixedRs5"}>>,
               <<7, {"DemixedL7", "DemixedR7", "DemixedLrs7", "DemixedRrs7"}>>} :
          Passes(l[1])}}
     \union (IF before.surround = 1 /\ Passes(2) THEN {"DemixedR2"} ELSE {})

FindDemixedHeightChannels(before, c) ==
  CASE before.height = 2 /\ c.height = 4 -> {"DemixedLtb4", "DemixedRtb4"}
    [] before.height = 2 /\ c.height = 2 /\ before.surround = 3 /\ c.surround > 3
         -> {"DemixedLtf2", "DemixedRtf2"}
    [] OTHER -> {}

FindDemixedChannels(before, c) ==
  FindDemixedSurroundChannels(before, c) \union FindDemixedHeightChannels(before, c)

(* Where the gain of a channel is (ConvertReconGainsAndFlags). The same bit  *)
(* is for different channels in different layers.                          *)
BitPosition ==
  [DemixedL7 |-> 0, DemixedL5 |-> 0, DemixedL3 |-> 0,
   DemixedR7 |-> 2, DemixedR5 |-> 2, DemixedR3 |-> 2, DemixedR2 |-> 2,
   DemixedLs5 |-> 3, DemixedRs5 |-> 4, DemixedLtf2 |-> 5, DemixedRtf2 |-> 6,
   DemixedLrs7 |-> 7, DemixedRrs7 |-> 8, DemixedLtb4 |-> 9, DemixedRtb4 |-> 10]

(* The channel of the layer below a demixed one is compared with.           *)
RelevantMixedLabel ==
  [DemixedL7 |-> "L5", DemixedR7 |-> "R5", DemixedLrs7 |-> "Ls5", DemixedRrs7 |-> "Rs5",
   DemixedLtb4 |-> "Ltf2", DemixedRtb4 |-> "Rtf2", DemixedL5 |-> "L3", DemixedR5 |-> "R3",
   DemixedLs5 |-> "L3", DemixedRs5 |-> "R3", DemixedLtf2 |-> "Ltf3",
   DemixedRtf2 |-> "Rtf3", DemixedL3 |-> "L2", DemixedR3 |-> "R2", DemixedR2 |-> "Mono"]

(* ComputeReconGain, from the levels of the channels before and after the   *)
(* codec: functions from labels to the square roots of the powers. 0 for   *)
(* a silent channel; full, 255, for one not 6 dB below the channel it was   *)
(* mixed into, which is less than a factor of two; else the ratio. None of  *)
(* the channels that are asked for may be missing.                         *)
CanCompute(label, original, decoded) ==
  /\ label \in DOMAIN original
  /\ original[label] # 0 =>
       /\ RelevantMixedLabel[label] \in DOMAIN Found(original)
       /\ 2 * original[label] <= Found(original)[RelevantMixedLabel[label]]
            => label \in DOMAIN decoded

(* The conversion of a gain above 255, as of a channel that the codec has   *)
(* made weaker or silent, is undefined: the build cuts it to 8 bits, or it *)
(* saturates.                                                              *)
ReconGain(label, original, decoded, saturates) ==
  CASE original[label] = 0 -> 0
    [] original[label] # 0 /\ 2 * original[label] > Found(original)[RelevantMixedLabel[label]]
         -> 255
    [] OTHER ->
         LET gain == IF decoded[label] = 0 THEN 256
                     ELSE (255 * original[label]) \div decoded[label]
         IN IF gain > 255 /\ saturates THEN 255 ELSE gain % 256

(* The functions that have a member of each of the sets.                    *)
OneOfEach(sets) ==
  FoldSet(LAMBDA x, chosen : {f @@ (x :> y) : f \in chosen, y \in sets[x]},
          {<<>>}, DOMAIN sets)

(* ComputeReconGains: what there may be under the bits, as a set. When two   *)
(* channels of a layer have the same bit, the order of a hash map decides. *)
(* Empty for an error: a channel is missing, or the layer has none although *)
(* it is flagged.                                                          *)
ComputeReconGains(before, c, original, decoded, saturates) ==
  LET labels == FindDemixedChannels(before, c)
      Gains(b) == {ReconGain(l, original, decoded, saturates) :
                     l \in {x \in labels : BitPosition[x] = b}}
  IN IF labels = {} \/ \E l \in labels : ~CanCompute(l, original, decoded) THEN {}
     ELSE OneOfEach([b \in {BitPosition[l] : l \in labels} |-> Gains(b)])

(* The channel a bit of a layer stands for when it is read                  *)
(* (GetDemixedChannelLabelForReconGain), none for other bits and layouts.   *)
FrontOf(layout) ==
  CASE layout \in {"5.1", "5.1.2", "5.1.4"} -> <<"DemixedL5", "DemixedR5">>
    [] layout \in {"7.1", "7.1.2", "7.1.4"} -> <<"DemixedL7", "DemixedR7">>
    [] layout = "3.1.2" -> <<"DemixedL3", "DemixedR3">>
    [] layout = "Stereo" -> <<"none", "DemixedR2">>
    [] OTHER -> <<"none", "none">>

DemixedChannelLabelForReconGain(layout, bit) ==
  CASE bit = 0 -> FrontOf(layout)[1]
    [] bit = 2 -> FrontOf(layout)[2]
    [] bit = 3 -> "DemixedLs5"
    [] bit = 4 -> "DemixedRs5"
    [] bit = 5 -> "DemixedLtf2"
    [] bit = 6 -> "DemixedRtf2"
    [] bit = 7 -> "DemixedLrs7"
    [] bit = 8 -> "DemixedRrs7"
    [] bit = 9 -> "DemixedLtb4"
    [] bit = 10 -> "DemixedRtb4"
    [] OTHER -> "none"

-----------------------------------------------------------------------------
(* One block from its metadata, by the definition of its parameter.         *)

(* The metadata as the fields of the OBU, as far as the number and the      *)
(* durations of its subblocks go.                                          *)
Fields(m) ==
  [duration |-> m.duration, constant_subblock_duration |-> m.constant,
   num_subblocks |-> Len(m.subblocks),
   subblocks |-> [i \in DOMAIN m.subblocks |->
                    [subblock_duration |-> <<m.subblocks[i].duration>>]]]

(* The duration the clock of the parameter moves on by.                    *)
BlockDuration(d, m) == Obu!GetDuration(d, Fields(m))

Fits(value) == -32768 <= value /\ value <= 32767

(* GenerateMixGainSubblock.                                                *)
AcceptsMixGain(data) ==
  /\ data.kind \in MixGains
  /\ Fits(data.from)
  /\ data.kind # "step" => Fits(data.to)

Recon(d) == {i \in DOMAIN d.layers : d.layers[i].recon}

(* GenerateReconGainSubblock: gains for each of the layers, when there are   *)
(* several; those of the flagged ones are the computed ones or else         *)
(* override them.                                                          *)
AcceptsReconGain(d, data, override, computed) ==
  /\ data.kind = "recon_gain"
  /\ Len(d.layers) > 1 => Len(data.gains) = Len(d.layers)
  /\ ~override => \A l \in Recon(d) : data.gains[l] = computed[l]

(* GenerateParameterBlockSubblock: the check for a single one lets a second *)
(* pass.                                                                   *)
AcceptsSubblock(d, m, i, override, computed) ==
  LET data == m.subblocks[i].data
  IN CASE d.type = Obu!MixGain -> AcceptsMixGain(data)
       [] d.type = Obu!Demixing -> i <= 2 /\ data.kind = "demixing"
       [] d.type = Obu!ReconGain -> i <= 2 /\ AcceptsReconGain(d, data, override, computed)

(* PopulateSubblocks.                                                      *)
AcceptsSubblocks(d, m, override, computed) ==
  /\ Obu!GetNumSubblocks(d, Fields(m)) = Len(m.subblocks)
  /\ \A i \in DOMAIN m.subblocks : AcceptsSubblock(d, m, i, override, computed)

(* The durations of the subblocks of the OBU.                              *)
ObuSubblockDuration(d, m, i) == Obu!GetSubblockDuration(d, Fields(m), i - 1)
=============================================================================
