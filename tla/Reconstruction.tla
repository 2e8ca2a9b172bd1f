--------------------------- MODULE Reconstruction ---------------------------
(***************************************************************************)
(* Which channel is carried by which substream of an audio element         *)
(* (obu_with_data_generator.cc, channel_label.cc), and how the channels    *)
(* that are carried by none are mixed away and back (demixing_module.cc).  *)
(*                                                                         *)
(* A sample is a member of the field of Prime elements, and so is a factor *)
(* of a mixer: dividing undoes multiplying, so that what is mixed away can *)
(* be asked back exactly, for factors that have nothing else in common     *)
(* with those of the code than which of them are equal.                    *)
(***************************************************************************)
EXTENDS ChannelLabel

Prime == 251

(* The inverse of every factor; 0 has none.                                *)
Inv == [x \in 1..Prime - 1 |-> CHOOSE y \in 1..Prime - 1 : (x * y) % Prime = 1]

Root == 101                                              \* stands for 0.707

-----------------------------------------------------------------------------
(* The channels of the layouts.                                            *)

ChannelNumbers(surround, lfe, height) ==
  [surround |-> surround, lfe |-> lfe, height |-> height]

NoChannels == ChannelNumbers(0, 0, 0)

LoudspeakerLayoutToChannels(layout) ==
  CASE layout = "Mono"  -> ChannelNumbers(1, 0, 0)
    [] layout \in {"Stereo", "Binaural"} -> ChannelNumbers(2, 0, 0)
    [] layout = "3.1.2" -> ChannelNumbers(3, 1, 2)
    [] layout = "5.1"   -> ChannelNumbers(5, 1, 0)
    [] layout = "5.1.2" -> ChannelNumbers(5, 1, 2)
    [] layout = "5.1.4" -> ChannelNumbers(5, 1, 4)
    [] layout = "7.1"   -> ChannelNumbers(7, 1, 0)
    [] layout = "7.1.2" -> ChannelNumbers(7, 1, 2)
    [] layout = "7.1.4" -> ChannelNumbers(7, 1, 4)

(* The substreams of a layout that extends another, a few at a time: pairs *)
(* of labels and single ones.                                              *)
Groups(coupled, single) == [coupled |-> coupled, single |-> single]

Pairs(labels) == [i \in 1..Len(labels) \div 2 |-> <<labels[2 * i - 1], labels[2 * i]>>]

NineOneSix == <<"FLc", "FRc", "FL", "FR", "SiL", "SiR", "BL", "BR",
                "TpFL", "TpFR", "TpSiL", "TpSiR", "TpBL", "TpBR">>

(* The substreams of the expanded layouts.                                 *)
ExpandedGroups(layout) ==
  CASE layout = "LFE"        -> Groups(<<>>, <<"LFE">>)
    [] layout = "StereoS"    -> Groups(<<"Ls5", "Rs5">>, <<>>)
    [] layout = "StereoSS"   -> Groups(<<"Lss7", "Rss7">>, <<>>)
    [] layout = "StereoRS"   -> Groups(<<"Lrs7", "Rrs7">>, <<>>)
    [] layout = "StereoTF"   -> Groups(<<"Ltf4", "Rtf4">>, <<>>)
    [] layout = "StereoTB"   -> Groups(<<"Ltb4", "Rtb4">>, <<>>)
    [] layout = "Top4Ch"     -> Groups(<<"Ltf4", "Rtf4", "Ltb4", "Rtb4">>, <<>>)
    [] layout = "3.0"        -> Groups(<<"L7", "R7">>, <<"C">>)
    [] layout = "9.1.6"      -> Groups(NineOneSix, <<"FC", "LFE">>)
    [] layout = "StereoF"    -> Groups(<<"FL", "FR">>, <<>>)
    [] layout = "StereoSi"   -> Groups(<<"SiL", "SiR">>, <<>>)
    [] layout = "StereoTpSi" -> Groups(<<"TpSiL", "TpSiR">>, <<>>)
    [] layout = "Top6Ch"     -> Groups(SubSeq(NineOneSix, 9, 14), <<>>)
    [] layout = "10.2.9.3"   ->
         Groups(NineOneSix \o <<"BtFL", "BtFR">>,
                <<"FC", "BC", "TpFC", "TpC", "TpBC", "BtFC", "LFE", "LFE2">>)
    [] layout = "LfePair"    -> Groups(<<>>, <<"LFE", "LFE2">>)
    [] layout = "Bottom3Ch"  -> Groups(<<"BtFL", "BtFR">>, <<"BtFC">>)
    [] layout = "7.1.5.4"    ->
         Groups(<<"L7", "R7", "Lss7", "Rss7", "Lrs7", "Rrs7", "Ltf4", "Rtf4",
                  "Ltb4", "Rtb4", "BtFL", "BtFR", "BtBL", "BtBR">>,
                <<"C", "TpC", "LFE">>)
    [] layout = "Bottom4Ch"  -> Groups(<<"BtFL", "BtFR", "BtBL", "BtBR">>, <<>>)
    [] layout = "Top1Ch"     -> Groups(<<>>, <<"TpC">>)
    [] layout = "Top5Ch"     -> Groups(<<"Ltf4", "Rtf4", "Ltb4", "Rtb4">>, <<"TpC">>)

-----------------------------------------------------------------------------
(* The substreams of a scalable channel layout. A config is a sequence of  *)
(* layers [layout, coupled, substreams, gain]: the counts are those written *)
(* in the OBU, gain has the channels it is for and its value.              *)

When(condition, labels) == IF condition THEN labels ELSE <<>>

(* The first layer: the channels of its layout.                            *)
BaseChannelGroup(c) ==
  LET surround == CASE c.surround = 1 -> <<>>
                    [] c.surround = 2 -> <<"L2", "R2">>
                    [] c.surround = 3 -> <<"L3", "R3">>
                    [] c.surround = 5 -> <<"L5", "R5", "Ls5", "Rs5">>
                    [] c.surround = 7 -> <<"L7", "R7", "Lss7", "Rss7", "Lrs7", "Rrs7">>
      height == CASE c.height = 0 -> <<>>
                  [] c.height = 2 /\ c.surround = 3 -> <<"Ltf3", "Rtf3">>
                  [] c.height = 2 /\ c.surround # 3 -> <<"Ltf2", "Rtf2">>
                  [] c.height = 4 -> <<"Ltf4", "Rtf4", "Ltb4", "Rtb4">>
  IN Groups(surround \o height,
            When(c.surround = 1, <<"Mono">>) \o When(c.surround >= 3, <<"C">>)
              \o When(c.lfe = 1, <<"LFE">>))

(* A further layer: what its layout has more than the one before it. R2, the *)
(* side, the rear and the back channels are demixed.                       *)
DemixedChannelGroup(before, c) ==
  LET Passes(n) == before.surround < n /\ n <= c.surround
      height ==
        CASE c.height = before.height -> <<>>
          [] before.height = 0 /\ c.height = 4 -> <<"Ltf4", "Rtf4", "Ltb4", "Rtb4">>
          [] before.height = 0 /\ c.height = 2 /\ c.surround = 3 -> <<"Ltf3", "Rtf3">>
          [] before.height = 0 /\ c.height = 2 /\ c.surround # 3 -> <<"Ltf2", "Rtf2">>
          [] before.height = 2 /\ c.height > 2 -> <<"Ltf4", "Rtf4">>
  IN Groups(When(Passes(5), <<"L5", "R5">>) \o When(Passes(7), <<"Lss7", "Rss7">>)
              \o height,
            When(Passes(3), <<"C">>) \o When(c.lfe > before.lfe, <<"LFE">>)
              \o When(Passes(2), <<"L2">>))

Shrinks(before, c) ==
  \/ c.surround < before.surround
  \/ c.lfe < before.lfe
  \/ c.height < before.height

(* The substreams every layer adds; << >> for a config that is refused.    *)
LayerGroups(config) ==
  LET Numbers(i) == IF i = 0 THEN NoChannels
                    ELSE LoudspeakerLayoutToChannels(config[i].layout)
      refused ==
        \/ \E i \in 1..Len(config) : config[i].layout \in ExpandedLayouts /\ i > 1
        \/ Len(config) > 1 /\ config[1].layout \in ExpandedLayouts
        \/ \E i \in 1..Len(config) :
             /\ config[1].layout \notin ExpandedLayouts
             /\ Shrinks(Numbers(i - 1), Numbers(i))
  IN IF refused THEN <<>>
     ELSE [i \in 1..Len(config) |->
             IF config[i].layout \in ExpandedLayouts THEN ExpandedGroups(config[i].layout)
             ELSE IF i = 1 THEN BaseChannelGroup(Numbers(1))
             ELSE DemixedChannelGroup(Numbers(i - 1), Numbers(i))]

(* The labels of one layer's substreams, pairs first.                      *)
Substreams(g) == Pairs(g.coupled) \o [i \in 1..Len(g.single) |-> <<g.single[i]>>]

CountsMatch(layer, g) ==
  /\ layer.coupled = Len(g.coupled) \div 2
  /\ layer.substreams = Len(Substreams(g))

(* The labels of every substream id; << >> when the config is refused:      *)
(* FinalizeScalableChannelLayoutConfig.                                    *)
SubstreamLabels(ids, config) ==
  LET groups == LayerGroups(config)
      labels == FlattenSeq([i \in DOMAIN groups |-> Substreams(groups[i])])
  IN IF /\ groups # <<>>
        /\ IsInjective(ids)
        /\ \A i \in DOMAIN groups : CountsMatch(config[i], groups[i])
        /\ Len(labels) = Len(ids)
     THEN [id \in ToSet(ids) |-> labels[CHOOSE i \in DOMAIN ids : ids[i] = id]]
     ELSE <<>>

OutputGainApplies(flags, label) ==
  \/ label \in {"Mono", "L2", "L3"} /\ "L" \in flags
  \/ label \in {"R2", "R3"} /\ "R" \in flags
  \/ label = "Ls5" /\ "Ls" \in flags
  \/ label = "Rs5" /\ "Rs" \in flags
  \/ label \in {"Ltf2", "Ltf3"} /\ "Ltf" \in flags
  \/ label \in {"Rtf2", "Rtf3"} /\ "Rtf" \in flags

(* The linear gain of every label that has one.                            *)
OutputGains(config) ==
  LET groups == LayerGroups(config)
      LabelsOf(i) == UNION {ToSet(s) : s \in ToSet(Substreams(groups[i]))}
      Gained(i) == {l \in LabelsOf(i) : OutputGainApplies(config[i].gain.flags, l)}
  IN [l \in UNION {Gained(i) : i \in DOMAIN groups} |->
        config[CHOOSE i \in DOMAIN groups : l \in Gained(i)].gain.value]

(* Ambisonics: the channels mapped to a substream, in their order, and the  *)
(* pairs and single channels of a projection. A number without a label is   *)
(* refused.                                                                *)
HasLabel(number) == number + 1 \in DOMAIN AmbisonicsLabels

Inactive == 255

AmbisonicsMonoLabels(ids, mapping) ==
  LET Mapped(i) == SelectSeq([n \in 1..Len(mapping) |-> n], LAMBDA n : mapping[n] = i - 1)
      Labels(i) == [j \in DOMAIN Mapped(i) |-> AmbisonicsLabels[Mapped(i)[j]]]
  IN [id \in {ids[i] : i \in {j \in DOMAIN ids : Mapped(j) # <<>>}} |->
        Labels(CHOOSE i \in DOMAIN ids : ids[i] = id)]

AmbisonicsProjectionLabels(ids, coupled) ==
  LET Numbers(i) == IF i < coupled THEN <<2 * i, 2 * i + 1>> ELSE <<2 * coupled + i>>
      Labels(i) == [j \in DOMAIN Numbers(i) |-> AmbisonicsLabels[Numbers(i)[j] + 1]]
  IN IF \A i \in 0..Len(ids) - 1 : \A n \in ToSet(Numbers(i)) : HasLabel(n)
     THEN [id \in ToSet(ids) |-> Labels((CHOOSE i \in DOMAIN ids : ids[i] = id) - 1)]
     ELSE <<>>

-----------------------------------------------------------------------------
(* Mixers: from the channels they need to new ones. Samples are a function  *)
(* from labels to values; << >> stands for an error.                       *)

Written(needed, new, given, samples) ==
  IF needed \subseteq DOMAIN given
  THEN [l \in DOMAIN new \union DOMAIN samples |->
          IF l \in DOMAIN new THEN new[l] % Prime ELSE samples[l]]
  ELSE <<>>

S7ToS5DownMixer(p, s) ==
  Written({"L7", "R7", "Lss7", "Lrs7", "Rss7", "Rrs7"},
          [L5 |-> s["L7"], R5 |-> s["R7"],
           Ls5 |-> p.alpha * s["Lss7"] + p.beta * s["Lrs7"],
           Rs5 |-> p.alpha * s["Rss7"] + p.beta * s["Rrs7"]], s, s)

S5ToS3DownMixer(p, s) ==
  Written({"L5", "Ls5", "R5", "Rs5"},
          [L3 |-> s["L5"] + p.delta * s["Ls5"], R3 |-> s["R5"] + p.delta * s["Rs5"]],
          s, s)

S3ToS2DownMixer(p, s) ==
  Written({"L3", "R3", "C"},
          [L2 |-> s["L3"] + Root * s["C"], R2 |-> s["R3"] + Root * s["C"]], s, s)

S2ToS1DownMixer(p, s) ==
  Written({"L2", "R2"}, [Mono |-> Inv[2] * (s["L2"] + s["R2"])], s, s)

T4ToT2DownMixer(p, s) ==
  Written({"Ltf4", "Ltb4", "Rtf4", "Rtb4"},
          [Ltf2 |-> s["Ltf4"] + p.gamma * s["Ltb4"],
           Rtf2 |-> s["Rtf4"] + p.gamma * s["Rtb4"]], s, s)

T2ToTf2DownMixer(p, s) ==
  Written({"Ltf2", "Ls5", "Rtf2", "Rs5"},
          [Ltf3 |-> s["Ltf2"] + ((p.w * p.delta) % Prime) * s["Ls5"],
           Rtf3 |-> s["Rtf2"] + ((p.w * p.delta) % Prime) * s["Rs5"]], s, s)

(* The name of a channel that is demixed instead of carried.               *)
GetDemixedLabel ==
  [R2 |-> "DemixedR2", L3 |-> "DemixedL3", R3 |-> "DemixedR3", L5 |-> "DemixedL5",
   R5 |-> "DemixedR5", Ls5 |-> "DemixedLs5", Rs5 |-> "DemixedRs5",
   Ltf2 |-> "DemixedLtf2", Rtf2 |-> "DemixedRtf2", Ltb4 |-> "DemixedLtb4",
   Rtb4 |-> "DemixedRtb4", L7 |-> "DemixedL7", R7 |-> "DemixedR7",
   Lrs7 |-> "DemixedLrs7", Rrs7 |-> "DemixedRrs7"]

(* The samples under every label that is there, or else demixed:           *)
(* FindSamplesOrDemixedSamples.                                            *)
Found(samples) ==
  LET demixed == {l \in DOMAIN GetDemixedLabel : GetDemixedLabel[l] \in DOMAIN samples}
  IN [l \in DOMAIN samples \union demixed |->
        IF l \in DOMAIN samples THEN samples[l] ELSE samples[GetDemixedLabel[l]]]

S5ToS7Demixer(p, s) ==
  LET f == Found(s)
  IN Written({"L5", "Ls5", "Lss7", "R5", "Rs5", "Rss7"},
             [DemixedL7 |-> f["L5"], DemixedR7 |-> f["R5"],
              DemixedLrs7 |-> ((f["Ls5"] - p.alpha * f["Lss7"]) % Prime) * Inv[p.beta],
              DemixedRrs7 |-> ((f["Rs5"] - p.alpha * f["Rss7"]) % Prime) * Inv[p.beta]],
             f, s)

S3ToS5Demixer(p, s) ==
  LET f == Found(s)
  IN Written({"L3", "L5", "R3", "R5"},
             [DemixedLs5 |-> ((f["L3"] - f["L5"]) % Prime) * Inv[p.delta],
              DemixedRs5 |-> ((f["R3"] - f["R5"]) % Prime) * Inv[p.delta]], f, s)

S2ToS3Demixer(p, s) ==
  LET f == Found(s)
  IN Written({"L2", "R2", "C"},
             [DemixedL3 |-> f["L2"] - Root * f["C"],
              DemixedR3 |-> f["R2"] - Root * f["C"]], f, s)

S1ToS2Demixer(p, s) ==
  LET f == Found(s)
  IN Written({"L2", "Mono"}, [DemixedR2 |-> 2 * f["Mono"] - f["L2"]], f, s)

T2ToT4Demixer(p, s) ==
  LET f == Found(s)
  IN Written({"Ltf2", "Ltf4", "Rtf2", "Rtf4"},
             [DemixedLtb4 |-> ((f["Ltf2"] - f["Ltf4"]) % Prime) * Inv[p.gamma],
              DemixedRtb4 |-> ((f["Rtf2"] - f["Rtf4"]) % Prime) * Inv[p.gamma]], f, s)

Tf2ToT2Demixer(p, s) ==
  LET f == Found(s)
  IN Written({"Ltf3", "L3", "L5", "Rtf3", "R3", "R5"},
             [DemixedLtf2 |-> f["Ltf3"] - p.w * ((f["L3"] - f["L5"]) % Prime),
              DemixedRtf2 |-> f["Rtf3"] - p.w * ((f["R3"] - f["R5"]) % Prime)], f, s)

-----------------------------------------------------------------------------
(* Which mixers an audio element needs: FillRequiredDemixingMetadata. The  *)
(* height of 3.1.2, whose channels have side parts mixed in, counts as 1.  *)

SurroundNumbers(labels) ==
  {n \in {1, 2, 3, 5, 7} :
     (CASE n = 1 -> "Mono" [] n = 2 -> "L2" [] n = 3 -> "L3" [] n = 5 -> "L5"
        [] n = 7 -> "L7") \in labels}

HeightNumbers(labels) ==
  {n \in {1, 2, 4} :
     (CASE n = 1 -> "Ltf3" [] n = 2 -> "Ltf2" [] n = 4 -> "Ltf4") \in labels}

(* The steps down from the largest number that is wanted to the smallest    *)
(* that is carried, the latter without one.                                *)
StepsDown(wanted, carried, numbers) ==
  SelectSeq(numbers, LAMBDA n : /\ \E top \in wanted : n <= top
                                /\ \E lower \in carried : lower < n)

SurroundSteps(wanted, carried) ==
  StepsDown(SurroundNumbers(wanted), SurroundNumbers(carried), <<7, 5, 3, 2>>)

HeightSteps(wanted, carried) ==
  StepsDown(HeightNumbers(wanted), HeightNumbers(carried), <<4, 2>>)

DownMixed(step, height, p, s) ==
  CASE ~height /\ step = 7 -> S7ToS5DownMixer(p, s)
    [] ~height /\ step = 5 -> S5ToS3DownMixer(p, s)
    [] ~height /\ step = 3 -> S3ToS2DownMixer(p, s)
    [] ~height /\ step = 2 -> S2ToS1DownMixer(p, s)
    [] height /\ step = 4 -> T4ToT2DownMixer(p, s)
    [] height /\ step = 2 -> T2ToTf2DownMixer(p, s)

Demixed(step, height, p, s) ==
  CASE ~height /\ step = 7 -> S5ToS7Demixer(p, s)
    [] ~height /\ step = 5 -> S3ToS5Demixer(p, s)
    [] ~height /\ step = 3 -> S2ToS3Demixer(p, s)
    [] ~height /\ step = 2 -> S1ToS2Demixer(p, s)
    [] height /\ step = 4 -> T2ToT4Demixer(p, s)
    [] height /\ step = 2 -> Tf2ToT2Demixer(p, s)

(* Surround first, then heights, each from the largest number down.        *)
DownMixers(wanted, carried) ==
  LET surround == SurroundSteps(wanted, carried)
      height == HeightSteps(wanted, carried)
  IN [i \in 1..Len(surround) |-> [step |-> surround[i], height |-> FALSE]]
       \o [i \in 1..Len(height) |-> [step |-> height[i], height |-> TRUE]]

(* The demixers in the exact reverse order of the down-mixers.             *)
DemixersInReverse(wanted, carried) == Reverse(DownMixers(wanted, carried))

(* Each kind from the smallest number up, surround still first, because     *)
(* the heights need the demixed surround channels.                         *)
Demixers(wanted, carried) ==
  LET all == DownMixers(wanted, carried)
  IN Reverse(SelectSeq(all, LAMBDA m : ~m.height))
       \o Reverse(SelectSeq(all, LAMBDA m : m.height))

(* The mixers one after the other; a failing one ends it.                  *)
DownMix(mixers, p, samples) ==
  FoldLeft(LAMBDA s, m : IF s = <<>> THEN s ELSE DownMixed(m.step, m.height, p, s),
           samples, mixers)

Demix(mixers, p, samples) ==
  FoldLeft(LAMBDA s, m : IF s = <<>> THEN s ELSE Demixed(m.step, m.height, p, s),
           samples, mixers)

Carried(labels) == UNION {ToSet(labels[id]) : id \in DOMAIN labels}

(* What is stored with the frames of an element (DownMixSamplesToSubstreams: *)
(* frames_in_obu), and what goes to the encoders, attenuated by the gains.  *)
SubstreamSamples(labels, mixers, p, samples) ==
  LET mixed == DownMix(mixers, p, samples)
  IN IF Carried(labels) \subseteq DOMAIN mixed
     THEN [l \in Carried(labels) |-> mixed[l]] ELSE <<>>

Attenuated(samples, gains) ==
  [l \in DOMAIN samples |-> IF l \in DOMAIN gains THEN (samples[l] * Inv[gains[l]]) % Prime
                            ELSE samples[l]]
=============================================================================
