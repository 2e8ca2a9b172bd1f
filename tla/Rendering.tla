------------------------------ MODULE Rendering ------------------------------
(***************************************************************************)
(* The renderers of the audio elements (cli/renderer/): which one is used  *)
(* for an element and a layout, and on which channels of the layout the    *)
(* channels of the element are heard.                                      *)
(***************************************************************************)
EXTENDS PrecomputedGains, Reconstruction

CONSTANT None

(* A layout that is played back: the letter or the number of a sound system *)
(* or "Binaural". Every other type is refused alike.                       *)
OutputKeys ==
     "A" :> "0+2+0" @@ "B" :> "0+5+0" @@ "C" :> "2+5+0" @@ "D" :> "4+5+0" @@ "E" :> "4+5+1"
  @@ "F" :> "3+7+0" @@ "G" :> "4+9+0" @@ "H" :> "9+10+3" @@ "I" :> "0+7+0" @@ "J" :> "4+7+0"
  @@ "10" :> "7.1.2" @@ "11" :> "3.1.2" @@ "12" :> "0+1+0" @@ "13" :> "9.1.6"
  @@ "14" :> "7.1.5.4"

SoundSystems == DOMAIN OutputKeys

NumChannelsOfSoundSystem ==
     "A" :> 2 @@ "B" :> 6 @@ "C" :> 8 @@ "D" :> 10 @@ "E" :> 11 @@ "F" :> 12 @@ "G" :> 14
  @@ "H" :> 24 @@ "I" :> 8 @@ "J" :> 12 @@ "10" :> 10 @@ "11" :> 6 @@ "12" :> 1
  @@ "13" :> 16 @@ "14" :> 17

(* MixPresentationObu::GetNumChannelsFromLayout.                           *)
GetNumChannels(playback) ==
  CASE playback = "Binaural" -> 2
    [] playback \in SoundSystems -> NumChannelsOfSoundSystem[playback]
    [] OTHER -> None

(* LookupInputKeyFromLoudspeakerLayout; the binaural layout has none.      *)
InputKey(layout) ==
  CASE layout = "Mono"   -> "0+1+0"
    [] layout = "Stereo" -> "0+2+0"
    [] layout = "5.1"    -> "0+5+0"
    [] layout = "5.1.2"  -> "2+5+0"
    [] layout = "7.1"    -> "0+7+0"
    [] layout \in {"7.1.2", "3.1.2"} -> layout
    [] layout \in {"5.1.4", "StereoS"} -> "4+5+0"
    [] layout \in {"7.1.4", "LFE", "StereoSS", "StereoRS", "StereoTF", "StereoTB",
                   "Top4Ch", "3.0"} -> "4+7+0"
    [] layout \in {"9.1.6", "StereoF", "StereoSi", "StereoTpSi", "Top6Ch"} -> "9.1.6"
    [] layout \in {"10.2.9.3", "LfePair", "Bottom3Ch"} -> "9+10+3"
    [] layout \in {"7.1.5.4", "Bottom4Ch", "Top1Ch", "Top5Ch"} -> "7.1.5.4"
    [] OTHER -> None

(* CanChannelAudioLayerConfigPassThroughToLayout.                          *)
PassesThrough(layout, playback) ==
  CASE layout = "Mono"     -> playback = "12"
    [] layout = "Stereo"   -> playback = "A"
    [] layout = "5.1"      -> playback = "B"
    [] layout = "5.1.2"    -> playback = "C"
    [] layout \in {"5.1.4", "StereoS"} -> playback = "D"
    [] layout = "7.1"      -> playback = "I"
    [] layout = "7.1.2"    -> playback = "10"
    [] layout = "3.1.2"    -> playback = "11"
    [] layout \in {"7.1.4", "LFE", "StereoSS", "StereoRS", "StereoTF", "StereoTB",
                   "Top4Ch", "3.0"} -> playback = "J"
    [] layout \in {"9.1.6", "StereoF", "StereoSi", "StereoTpSi", "Top6Ch"} -> playback = "13"
    [] layout \in {"10.2.9.3", "LfePair", "Bottom3Ch"} -> playback = "H"
    [] layout \in {"7.1.5.4", "Bottom4Ch", "Top1Ch", "Top5Ch"} -> playback = "14"
    [] layout = "Binaural" -> playback = "Binaural"
-----------------------------------------------------------------------------
(* A renderer: the labels it asks for in their order, how the channels     *)
(* under them are projected before, if they are, how many of the results   *)
(* it mixes, on which channels each of them is heard, and how many channels *)
(* it puts out.                                                            *)
Renderer(labels, projection, mixed, heard, channels) ==
  [labels |-> labels, projection |-> projection, mixed |-> mixed, heard |-> heard,
   channels |-> channels]

PassThroughRenderer(layout) ==
  LET labels == EarChannelOrder(layout)
  IN Renderer(labels, None, Len(labels), [i \in DOMAIN labels |-> {i}], Len(labels))

(* The matrix of a renderer has as many columns as its layout has channels. *)
(* RenderSamplesUsingGains mixes as many channels as it is given, also when *)
(* they are projected to another number of channels.                       *)
GainsRendererByRows(labels, projection, input, playback) ==
  LET output == IF playback \in SoundSystems THEN OutputKeys[playback] ELSE None
      gains == LookupPrecomputedGains(input, output)
  IN IF gains = <<>> THEN None
     ELSE Renderer(labels, projection, Len(labels), gains, Len(gains))

GainsRenderer(labels, projection, input, playback) ==
  LET output == IF playback \in SoundSystems THEN OutputKeys[playback] ELSE None
      gains == LookupPrecomputedGains(input, output)
  IN IF gains = <<>> THEN None
     ELSE Renderer(labels, projection, Len(labels), gains, NumberOfChannels[output])

(* The library that renders to headphones: every channel is heard on both  *)
(* ears.                                                                   *)
BinauralRenderer(labels, projection, channels) ==
  Renderer(labels, projection, channels, [i \in 1..channels |-> {1, 2}], 2)

(* What the library knows: no expanded layout, no ambisonics of order 0.   *)
BinauralLayouts == Layouts \ {"Binaural"}
BinauralOrders == {4, 9, 16, 25}

LayoutToBinaural(layout, frameSize) ==
  IF frameSize < 9 \/ layout \notin BinauralLayouts THEN None
  ELSE BinauralRenderer(EarChannelOrder(layout), None, Len(EarChannelOrder(layout)))

(* The first layer that passes through; otherwise the highest is rendered. *)
ChannelRenderer(x, playback, useBinaural, frameSize) ==
  LET passing == {i \in DOMAIN x.layers : PassesThrough(x.layers[i], playback)}
      highest == x.layers[Len(x.layers)]
      labels == EarChannelOrder(highest)
  IN CASE passing # {} -> PassThroughRenderer(x.layers[Min(passing)])
       [] passing = {} /\ useBinaural -> LayoutToBinaural(highest, frameSize)
       [] OTHER -> GainsRenderer(labels, None, InputKey(highest), playback)

AmbisonicsKeys == 1 :> "A0" @@ 4 :> "A1" @@ 9 :> "A2" @@ 16 :> "A3" @@ 25 :> "A4"

(* GetChannelLabelsForAmbisonics: None unless every substream has the      *)
(* channels that are expected.                                             *)
MonoLabels(x) ==
  LET labels == AmbisonicsMonoLabels(x.ids, x.mapping)
      used == {x.ids[n + 1] : n \in ToSet(x.mapping) \ {Inactive}}
  IN IF \E id \in used : Len(labels[id]) # 1 THEN None
     ELSE [i \in DOMAIN x.mapping |->
             IF x.mapping[i] = Inactive THEN Omitted ELSE labels[x.ids[x.mapping[i] + 1]][1]]

ProjectionLabels(x) ==
  LET labels == AmbisonicsProjectionLabels(x.ids, x.coupled)
  IN FlattenSeq([i \in DOMAIN x.ids |-> labels[x.ids[i]]])

AmbisonicsOrdered(x) == IF x.kind = "mono" THEN MonoLabels(x) ELSE ProjectionLabels(x)
DemixingMatrix(x) == IF x.kind = "mono" THEN None ELSE x.projection

AmbisonicsToBinaural(x, frameSize) ==
  IF frameSize < 9 \/ x.channels \notin BinauralOrders THEN None
  ELSE BinauralRenderer(AmbisonicsOrdered(x), DemixingMatrix(x), x.channels)

AmbisonicsToChannel(x, playback) ==
  GainsRenderer(AmbisonicsOrdered(x), DemixingMatrix(x), AmbisonicsKeys[x.channels], playback)

AmbisonicsRenderer(x, playback, useBinaural, frameSize) ==
  CASE AmbisonicsOrdered(x) = None \/ x.channels \notin DOMAIN AmbisonicsKeys -> None
    [] useBinaural -> AmbisonicsToBinaural(x, frameSize)
    [] OTHER -> AmbisonicsToChannel(x, playback)

(* RendererFactory::CreateRendererForLayout. Without a renderer for        *)
(* headphones, binaural is rendered as stereo.                             *)
CreateRenderer(x, worldLocked, playback, frameSize) ==
  LET useBinaural == worldLocked /\ playback = "Binaural"
      played == IF playback = "Binaural" /\ ~useBinaural THEN "A" ELSE playback
  IN CASE x.kind = "channels" -> ChannelRenderer(x, played, useBinaural, frameSize)
       [] x.kind \in {"mono", "projection"} ->
            AmbisonicsRenderer(x, played, useBinaural, frameSize)
       [] x.kind = "objects" -> None
-----------------------------------------------------------------------------
DynamicGainsOfTheLeft(output, w) ==
  CASE output = "11" -> << {1}, {2}, {3}, {4}, {1}, {2}, {1}, {1}, {5}, {6}, {5}, {6} >>
    [] output = "10" -> [i \in 1..12 |-> IF i <= 10 THEN {i} ELSE {i - 2}]

(* MaybeComputeDynamicGains: with parameters in the bitstream, 7.1.4 is    *)
(* rendered to 3.1.2 and to 7.1.2 by them. The heights get a part of the   *)
(* surround unless w is 0.                                                 *)
DynamicGains(output, w) ==
  LET surround == IF w = 0 THEN << {1}, {2} >> ELSE << {1, 5}, {2, 6} >>
  IN CASE output = "11" ->
            << {1}, {2}, {3}, {4} >> \o surround \o surround \o << {5}, {6}, {5}, {6} >>
       [] output = "10" -> [i \in 1..12 |-> IF i <= 10 THEN {i} ELSE {i - 2}]

IsDynamic(x, playback, params) ==
  /\ params # None /\ x.kind = "channels"
  /\ InputKey(x.layers[Len(x.layers)]) = "4+7+0" /\ playback \in {"10", "11"}
  /\ ~\E i \in DOMAIN x.layers : PassesThrough(x.layers[i], playback)

(* ProjectSamplesToRender: the channels that a channel is projected to.    *)
Projected(r, i) == IF r.projection = None THEN {i} ELSE r.projection[i]

(* On which channels of the layout a channel of the element is heard.       *)
Heard(r, gains, i) == UNION {gains[p] : p \in Projected(r, i) \intersect 1..r.mixed}

(* The channels of an element on those of the layout, as sets of labels.   *)
RenderSamples(r, gains) ==
  [c \in 1..r.channels |->
     {r.labels[i] : i \in {j \in DOMAIN r.labels :
                             r.labels[j] # Omitted /\ c \in Heard(r, gains, j)}}]
=============================================================================
