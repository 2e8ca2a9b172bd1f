---------------------------- MODULE ChannelLabel ----------------------------
(***************************************************************************)
(* The channels of the loudspeaker layouts, in the order in which they are *)
(* rendered (channel_label.cc).                                            *)
(***************************************************************************)
EXTENDS Integers, Sequences, FiniteSets, SequencesExt

Surround7 == <<"L7", "R7", "C", "LFE", "Lss7", "Rss7", "Lrs7", "Rrs7">>
Surround5 == <<"L5", "R5", "C", "LFE", "Ls5", "Rs5">>
Top4 == <<"Ltf4", "Rtf4", "Ltb4", "Rtb4">>
Top2 == <<"Ltf2", "Rtf2">>

ChannelOrder(layout) ==
  CASE layout = "Mono" -> <<"Mono">>
    [] layout \in {"Stereo", "Binaural"} -> <<"L2", "R2">>
    [] layout = "3.1.2" -> <<"L3", "R3", "C", "LFE", "Ltf3", "Rtf3">>
    [] layout = "5.1"   -> Surround5
    [] layout = "5.1.2" -> Surround5 \o Top2
    [] layout = "5.1.4" -> Surround5 \o Top4
    [] layout = "7.1"   -> Surround7
    [] layout = "7.1.2" -> Surround7 \o Top2
    [] layout = "7.1.4" -> Surround7 \o Top4

Layouts == {"Mono", "Stereo", "3.1.2", "5.1", "5.1.2", "5.1.4", "7.1", "7.1.2",
            "7.1.4", "Binaural"}

Order9_1_6 ==
  <<"FL", "FR", "FC", "LFE", "BL", "BR", "FLc", "FRc", "SiL", "SiR",
    "TpFL", "TpFR", "TpBL", "TpBR", "TpSiL", "TpSiR">>
Order10_2_9_3 ==
  <<"FL", "FR", "FC", "LFE", "BL", "BR", "FLc", "FRc", "BC", "LFE2", "SiL", "SiR",
    "TpFL", "TpFR", "TpFC", "TpC", "TpBL", "TpBR", "TpSiL", "TpSiR", "TpBC",
    "BtFC", "BtFL", "BtFR">>
Order7_1_5_4 ==
  Surround7 \o Top4 \o <<"TpC", "BtFL", "BtFR", "BtBL", "BtBR">>

(* SetLabelsToOmittedExceptFor.                                            *)
Omitted == "omitted"
ExceptFor(kept, order) ==
  [i \in DOMAIN order |-> IF order[i] \in kept THEN order[i] ELSE Omitted]

(* An expanded layout has some of the channels of a bigger one, at the same *)
(* places.                                                                 *)
ExpandedChannelOrder(layout) ==
  CASE layout = "LFE"        -> ExceptFor({"LFE"}, Surround7 \o Top4)
    [] layout = "StereoS"    -> ExceptFor({"Ls5", "Rs5"}, Surround5 \o Top4)
    [] layout = "StereoSS"   -> ExceptFor({"Lss7", "Rss7"}, Surround7 \o Top4)
    [] layout = "StereoRS"   -> ExceptFor({"Lrs7", "Rrs7"}, Surround7 \o Top4)
    [] layout = "StereoTF"   -> ExceptFor({"Ltf4", "Rtf4"}, Surround7 \o Top4)
    [] layout = "StereoTB"   -> ExceptFor({"Ltb4", "Rtb4"}, Surround7 \o Top4)
    [] layout = "Top4Ch"     -> ExceptFor(ToSet(Top4), Surround7 \o Top4)
    [] layout = "3.0"        -> ExceptFor({"L7", "R7", "C"}, Surround7 \o Top4)
    [] layout = "9.1.6"      -> Order9_1_6
    [] layout = "StereoF"    -> ExceptFor({"FL", "FR"}, Order9_1_6)
    [] layout = "StereoSi"   -> ExceptFor({"SiL", "SiR"}, Order9_1_6)
    [] layout = "StereoTpSi" -> ExceptFor({"TpSiL", "TpSiR"}, Order9_1_6)
    [] layout = "Top6Ch"     ->
         ExceptFor({"TpFL", "TpFR", "TpSiL", "TpSiR", "TpBL", "TpBR"}, Order9_1_6)
    [] layout = "10.2.9.3"   -> Order10_2_9_3
    [] layout = "LfePair"    -> ExceptFor({"LFE", "LFE2"}, Order10_2_9_3)
    [] layout = "Bottom3Ch"  -> ExceptFor({"BtFC", "BtFL", "BtFR"}, Order10_2_9_3)
    [] layout = "7.1.5.4"    -> Order7_1_5_4
    [] layout = "Bottom4Ch"  ->
         ExceptFor({"BtFL", "BtFR", "BtBL", "BtBR"}, Order7_1_5_4)
    [] layout = "Top1Ch"     -> ExceptFor({"TpC"}, Order7_1_5_4)
    [] layout = "Top5Ch"     -> ExceptFor(ToSet(Top4) \union {"TpC"}, Order7_1_5_4)

ExpandedLayouts ==
  {"LFE", "StereoS", "StereoSS", "StereoRS", "StereoTF", "StereoTB", "Top4Ch",
   "3.0", "9.1.6", "StereoF", "StereoSi", "StereoTpSi", "Top6Ch", "10.2.9.3",
   "LfePair", "Bottom3Ch", "7.1.5.4", "Bottom4Ch", "Top1Ch", "Top5Ch"}

(* LookupEarChannelOrderFromScalableLoudspeakerLayout.                     *)
EarChannelOrder(layout) ==
  IF layout \in ExpandedLayouts THEN ExpandedChannelOrder(layout)
  ELSE ChannelOrder(layout)

LabelsOfLayout(layout) == ToSet(EarChannelOrder(layout)) \ {Omitted}

(* The channels of ambisonics.                                             *)
AmbisonicsLabels ==
  <<"A0", "A1", "A2", "A3", "A4", "A5", "A6", "A7", "A8", "A9", "A10", "A11", "A12",
    "A13", "A14", "A15", "A16", "A17", "A18", "A19", "A20", "A21", "A22", "A23", "A24">>
=============================================================================
