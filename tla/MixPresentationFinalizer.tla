----------------------- MODULE MixPresentationFinalizer -----------------------
(***************************************************************************)
(* The finalizer of the mix presentations                                  *)
(* (rendering_mix_presentation_finalizer.cc): every temporal unit is       *)
(* rendered to every layout of every sub mix, its loudness measured and    *)
(* the result given to a processor; at the end the loudness is written     *)
(* into the mix presentations.                                             *)
(*                                                                         *)
(* A layout is known by its position: [mix, subMix, layout], the id of the *)
(* mix presentation and the two indices.                                   *)
(***************************************************************************)
EXTENDS Rendering

CONSTANT Scenarios   \* what is finalized, see below

(* A scenario has the elements by id (what Rendering reads of them, with   *)
(* their rate and frameSize), the mix presentations: [id, subMixes], where *)
(* a sub mix is [elements, layouts, gain] and each of its elements         *)
(* [id, worldLocked, gain]; gains are [id, rate] of the parameter. units   *)
(* are the temporal units that are pushed: [start, end, frames, blocks],   *)
(* with [size, trimStart, trimEnd, params] for every element and           *)
(* [id, start, end] for every block. processed and failing are positions:  *)
(* of the layouts with a processor, and of those where a call may fail.    *)
ASSUME ScenariosAssumption ==
  \A s \in Scenarios : /\ s.rendering \in BOOLEAN /\ s.measuring \in BOOLEAN
                       /\ \A k \in DOMAIN s.units : s.units[k].start < s.units[k].end

VARIABLES
  scenario,
  state,       \* "new", "refused" or one of the three states of the class
  order,       \* the ids of the mixes that are rendered, in the map's order
  metadata,    \* position -> LayoutRenderingMetadata
  obus,        \* the mix presentations: [id, loudness], loudness[s][l]
  units        \* history: the temporal units of the calls, [unit, ok]

vars == <<scenario, state, order, metadata, obus, units>>

Position(mix, s, l) == [mix |-> mix, subMix |-> s, layout |-> l]

-----------------------------------------------------------------------------
(* Create.                                                                 *)

FrameSizes(sub) == {scenario.elements[x.id].frameSize : x \in ToSet(sub.elements)}
Rates(sub) == {scenario.elements[x.id].rate : x \in ToSet(sub.elements)}

(* CollectAudioElementsInSubMix and the properties that must be common.    *)
CanMix(sub) ==
  /\ \A x \in ToSet(sub.elements) : x.id \in DOMAIN scenario.elements
  /\ Cardinality(FrameSizes(sub)) = 1
  /\ Cardinality(Rates(sub)) = 1

(* InitializeRenderers.                                                    *)
Renderers(sub, playback) ==
  [i \in DOMAIN sub.elements |->
     LET x == scenario.elements[sub.elements[i].id]
     IN CreateRenderer(x, sub.elements[i].worldLocked, playback, x.frameSize)]

(* GenerateRenderingMetadataForLayouts.                                    *)
LayoutMetadata(sub, position) ==
  LET playback == sub.layouts[position.layout]
      renderers == Renderers(sub, playback)
      canRender == GetNumChannels(playback) # None /\ None \notin ToSet(renderers)
  IN [canRender |-> canRender,
      subMix |-> sub,
      playback |-> playback,
      renderers |-> renderers,
      channels |-> GetNumChannels(playback),
      calculator |-> IF canRender /\ scenario.measuring THEN <<>> ELSE None,
      processor |-> IF canRender /\ position \in scenario.processed THEN <<>> ELSE None,
      rendered |-> None]

(* GenerateRenderingMetadataForSubmixes.                                   *)
SubMixMetadata(mix) ==
  LET positions == {Position(mix.id, s, l) : s \in DOMAIN mix.subMixes,
                                             l \in UNION {DOMAIN sub.layouts : sub \in ToSet(mix.subMixes)}}
  IN [p \in {q \in positions : q.layout \in DOMAIN mix.subMixes[q.subMix].layouts} |->
        LayoutMetadata(mix.subMixes[p.subMix], p)]

CanRenderAnyLayout(layouts) == \E p \in DOMAIN layouts : layouts[p].canRender

(* The metadata of a mix presentation is kept under its id, unless there is *)
(* some already.                                                           *)
FirstWithId(i) == \A j \in 1..i - 1 : scenario.mixes[j].id # scenario.mixes[i].id
                    \/ ~CanRenderAnyLayout(SubMixMetadata(scenario.mixes[j]))
RenderedMixes ==
  {i \in DOMAIN scenario.mixes :
     CanRenderAnyLayout(SubMixMetadata(scenario.mixes[i])) /\ FirstWithId(i)}

UserLoudness(mix) == [s \in DOMAIN mix.subMixes |-> [l \in DOMAIN mix.subMixes[s].layouts |-> "user"]]

Create ==
  /\ state = "new"
  /\ LET mixable == \A mix \in ToSet(scenario.mixes) :
                      \A sub \in ToSet(mix.subMixes) : CanMix(sub)
     IN IF scenario.rendering /\ ~mixable
        THEN /\ state' = "refused"
             /\ UNCHANGED <<order, metadata, obus>>
        ELSE LET rendered == IF scenario.rendering THEN RenderedMixes ELSE {}
             IN /\ state' = "kAcceptingTemporalUnits"
                /\ order' \in SetToSeqs({scenario.mixes[i].id : i \in rendered})
                /\ metadata' = FoldSet(LAMBDA i, all : SubMixMetadata(scenario.mixes[i]) @@ all,
                                       <<>>, rendered)
                /\ obus' = [i \in DOMAIN scenario.mixes |->
                              [id |-> scenario.mixes[i].id,
                               loudness |-> UserLoudness(scenario.mixes[i])]]
  /\ UNCHANGED <<scenario, units>>

-----------------------------------------------------------------------------
(* Rendering a temporal unit to a layout.                                  *)

TicksUpToTheEnd(frame) == frame.size - frame.trimStart

Ticks(frame) == frame.size - frame.trimStart - frame.trimEnd

(* RenderLabeledFrame: every channel the renderer asks for must be in the  *)
(* frame, as it is when the frame is of this element; what is left after   *)
(* trimming is rendered.                                                   *)
CanRenderFrame(x, frame) ==
  /\ frame.size <= x.frameSize
  /\ frame.trimStart + frame.trimEnd <= frame.size

(* The gain of every tick is the default one, or of the same tick of the   *)
(* block: here the time of the tick whose gain the first sample gets.      *)
MixGain(gain, unit) ==
  LET blocks == {b \in ToSet(unit.blocks) : b.id = gain.id}
  IN IF blocks = {} THEN None ELSE (CHOOSE b \in blocks : TRUE).start

ElementChannels(p, i, unit) ==
  LET r == metadata[p].renderers[i]
      id == metadata[p].subMix.elements[i].id
      params == unit.frames[id].params
      playback == metadata[p].playback
  IN RenderSamples(r, IF IsDynamic(scenario.elements[id], playback, params)
                      THEN DynamicGains(playback, params.w) ELSE r.heard)

(* MixAudioElements, after the elements have been rendered one by one. A   *)
(* block has the time of its first tick, the number of ticks, the channels, *)
(* every one with the channels <<element, label>> that are heard on it, and *)
(* the gains.                                                              *)
RenderedBlock(p, unit) ==
  LET sub == metadata[p].subMix
      channels == [i \in DOMAIN sub.elements |-> ElementChannels(p, i, unit)]
      first == unit.frames[sub.elements[1].id]
  IN [time |-> unit.start + first.trimStart,
      ticks |-> Ticks(first),
      channels |-> [c \in 1..metadata[p].channels |->
                      UNION {{<<i, label>> : label \in channels[i][c]} : i \in DOMAIN channels}],
      elementGains |-> [i \in DOMAIN sub.elements |-> MixGain(sub.elements[i].gain, unit)],
      outputGain |-> MixGain(sub.gain, unit)]

(* RenderAllFramesForLayout fails for want of a frame, ...                 *)
CanRenderUnit(p, unit) ==
  LET sub == metadata[p].subMix
      ids == [i \in DOMAIN sub.elements |-> sub.elements[i].id]
  IN /\ \A i \in DOMAIN ids :
          /\ ids[i] \in DOMAIN unit.frames
          /\ CanRenderFrame(scenario.elements[ids[i]], unit.frames[ids[i]])
          /\ metadata[p].renderers[i].channels = metadata[p].channels
          /\ Ticks(unit.frames[ids[i]]) = Ticks(unit.frames[ids[1]])
          /\ sub.elements[i].gain.rate \in Rates(sub)
     /\ sub.gain.rate \in Rates(sub)

(* RenderWriteAndCalculateLoudnessForTemporalUnit, for one layout: what is *)
(* rendered is measured, then processed.                                   *)
Measured(layout, block) ==
  [layout EXCEPT !.rendered = block,
                 !.calculator = IF @ = None THEN None ELSE Append(@, block)]

Processed(layout, block) ==
  [layout EXCEPT !.processor = IF @ = None THEN None ELSE Append(@, block)]

(* The positions in the order in which they are gone through.              *)
Positions ==
  LET all == {p \in DOMAIN metadata : metadata[p].canRender}
      subMixes == Max({p.subMix : p \in all} \union {0})
      layouts == Max({p.layout : p \in all} \union {0})
      OfSubMix(m, s) == SelectSeq([l \in 1..layouts |-> Position(m, s, l)], LAMBDA p : p \in all)
  IN FlattenSeq([m \in DOMAIN order |->
       FlattenSeq([s \in 1..subMixes |-> OfSubMix(order[m], s)])])

RenderFirstProcessing(n, unit, measured) ==
  LET done == SubSeq(Positions, 1, n)
      last == IF measured THEN {Positions[n + 1]} ELSE {}
  IN [p \in DOMAIN metadata |->
        CASE p \in ToSet(done) -> Measured(Processed(metadata[p], RenderedBlock(p, unit)),
                                           RenderedBlock(p, unit))
          [] p \in last -> Processed(metadata[p], RenderedBlock(p, unit))
          [] OTHER -> metadata[p]]

(* What a call does that renders the first n layouts, and measures the     *)
(* next one as well or fails before that.                                  *)
RenderFirst(n, unit, measured) ==
  LET done == SubSeq(Positions, 1, n)
      last == IF measured THEN {Positions[n + 1]} ELSE {}
  IN [p \in DOMAIN metadata |->
        CASE p \in ToSet(done) -> Processed(Measured(metadata[p], RenderedBlock(p, unit)),
                                            RenderedBlock(p, unit))
          [] p \in last -> Measured(metadata[p], RenderedBlock(p, unit))
          [] OTHER -> metadata[p]]

BlocksInStep(unit) ==
  \A b \in ToSet(unit.blocks) : b.start = unit.start /\ b.end = unit.end

Renderable(unit) ==
  LET failing == SelectInSeq(Positions, LAMBDA p : ~CanRenderUnit(p, unit))
  IN IF failing = 0 THEN Len(Positions) ELSE failing - 1

PushTemporalUnit ==
  /\ Len(units) < Len(scenario.units)
  /\ state \notin {"new", "refused"}
  /\ LET unit == scenario.units[Len(units) + 1]
         Pushed(ok) == units' = Append(units, [unit |-> unit, ok |-> ok])
     IN \/ /\ state # "kAcceptingTemporalUnits" \/ ~BlocksInStep(unit)
           /\ Pushed(FALSE)
           /\ UNCHANGED metadata
        \/ /\ state = "kAcceptingTemporalUnits" /\ BlocksInStep(unit)
           /\ Pushed(Renderable(unit) = Len(Positions))
           /\ metadata' = RenderFirst(Renderable(unit), unit, FALSE)
        \/ /\ state = "kAcceptingTemporalUnits" /\ BlocksInStep(unit)
           /\ \E n \in 0..Renderable(unit) - 1 :
                LET p == Positions[n + 1]
                IN /\ p \in scenario.failing
                   /\ \E measured \in BOOLEAN :
                        /\ measured => metadata[p].processor # None
                        /\ ~measured => metadata[p].calculator # None
                        /\ metadata' = RenderFirst(n, unit, measured)
           /\ Pushed(FALSE)
  /\ UNCHANGED <<scenario, state, order, obus>>

(* GetPostProcessedSamplesAsSpan, None if there is no such layout.          *)
GetPostProcessedSamplesAsSpan(p) ==
  CASE p \notin DOMAIN metadata -> None
    [] p \in DOMAIN metadata /\ metadata[p].processor # None -> Last(metadata[p].processor)
    [] OTHER -> metadata[p].rendered

(* The processors are flushed after that, also when one of them fails no   *)
(* unit is accepted any more.                                              *)
FinalizePushingTemporalUnits ==
  /\ state = "kAcceptingTemporalUnits"
  /\ state' = "kFinalizePushTemporalUnitCalled"
  /\ UNCHANGED <<scenario, order, metadata, obus, units>>

-----------------------------------------------------------------------------
(* FillLoudnessForMixPresentation, for the first n layouts of the mix: a   *)
(* calculator is asked once, then it is gone.                              *)
MeasuredLayouts(id, layouts) ==
  SelectSeq(Positions, LAMBDA p : p.mix = id /\ layouts[p].calculator # None)

FilledFirst(n, obu, layouts) ==
  LET asked == ToSet(SubSeq(MeasuredLayouts(obu.id, layouts), 1, n))
  IN [obu EXCEPT !.loudness =
        [s \in DOMAIN @ |-> [l \in DOMAIN @[s] |->
           IF Position(obu.id, s, l) \in asked
           THEN layouts[Position(obu.id, s, l)].calculator ELSE @[s][l]]]]

WithoutFirst(n, id, layouts) ==
  LET asked == ToSet(SubSeq(MeasuredLayouts(id, layouts), 1, n))
  IN [p \in DOMAIN layouts |->
        IF p \in asked THEN [layouts[p] EXCEPT !.calculator = None] ELSE layouts[p]]

(* The first presentations up to i.                                        *)
Filled(i) ==
  FoldLeft(LAMBDA done, j :
             LET n == Len(MeasuredLayouts(obus[j].id, done.layouts))
             IN [obus |-> [done.obus EXCEPT ![j] = FilledFirst(n, @, done.layouts)],
                 layouts |-> WithoutFirst(n, obus[j].id, done.layouts)],
           [obus |-> obus, layouts |-> metadata], [j \in 1..i |-> j])

(* The call fails when the loudness of a presentation is not the one that  *)
(* was given for it, all of which has been overwritten by then, or when a  *)
(* calculator fails, which is not asked again.                             *)
GetFinalizedMixPresentationObus ==
  /\ state = "kFinalizePushTemporalUnitCalled"
  /\ \/ /\ state' = "kFlushedFinalizedMixPresentationObus"
        /\ obus' = Filled(Len(obus)).obus
        /\ metadata' = Filled(Len(obus)).layouts
     \/ \E i \in DOMAIN obus :
          /\ MeasuredLayouts(obus[i].id, Filled(i - 1).layouts) # <<>>
          /\ obus' = Filled(i).obus
          /\ metadata' = Filled(i).layouts
          /\ UNCHANGED state
     \/ \E i \in DOMAIN obus :
          LET before == Filled(i - 1)
              asked == MeasuredLayouts(obus[i].id, before.layouts)
          IN \E n \in DOMAIN asked :
               /\ asked[n] \in scenario.failing
               /\ obus' = [before.obus EXCEPT ![i] = FilledFirst(n - 1, @, before.layouts)]
               /\ metadata' = WithoutFirst(n, obus[i].id, before.layouts)
               /\ UNCHANGED state
  /\ UNCHANGED <<scenario, order, units>>

(* After the presentations have been taken nothing is left to do.          *)
Done == state \in {"refused", "kFlushedFinalizedMixPresentationObus"} /\ UNCHANGED vars

Init ==
  /\ scenario \in Scenarios
  /\ state = "new"
  /\ order = <<>> /\ metadata = <<>> /\ obus = <<>> /\ units = <<>>

Next ==
  \/ Create
  \/ PushTemporalUnit
  \/ FinalizePushingTemporalUnits
  \/ GetFinalizedMixPresentationObus
  \/ Done

Spec == Init /\ [][Next]_vars

-----------------------------------------------------------------------------
(* Properties.                                                             *)

(* What must be heard of an element: the channels of its highest layer, or *)
(* of one that the layout has all the channels of.                         *)
ChannelsOf(x, playback) ==
  CASE x.kind = "channels" ->
         {LabelsOfLayout(x.layers[l]) :
            l \in {k \in DOMAIN x.layers :
                     \/ k = Len(x.layers)
                     \/ Cardinality(LabelsOfLayout(x.layers[k])) = GetNumChannels(playback)}}
    [] x.kind = "mono" ->
         {{AmbisonicsLabels[i] : i \in {j \in DOMAIN x.mapping : x.mapping[j] # Inactive}}}
    [] x.kind = "projection" ->
         {UNION {ToSet(labels) : labels \in Range(AmbisonicsProjectionLabels(x.ids, x.coupled))}}

LeftLabels ==
  {"L2", "L3", "L5", "L7", "Ls5", "Lss7", "Lrs7", "Ltf2", "Ltf3", "Ltf4", "Ltb4", "FL", "BL",
   "FLc", "SiL", "TpFL", "TpBL", "TpSiL", "BtFL", "BtBL"}
RightLabels ==
  {"R2", "R3", "R5", "R7", "Rs5", "Rss7", "Rrs7", "Rtf2", "Rtf3", "Rtf4", "Rtb4", "FR", "BR",
   "FRc", "SiR", "TpFR", "TpBR", "TpSiR", "BtFR", "BtBR"}

LeftChannels(playback) ==
  CASE playback = "12" -> {}
    [] playback = "F" -> {2, 4, 6, 8}
    [] playback = "H" -> {1, 5, 7, 11, 13, 17, 19, 23}
    [] playback = "14" -> {1, 5, 7, 9, 11, 14, 16}
    [] playback = "Binaural" -> {1}
    [] OTHER -> {1} \union {c \in 5..16 : c % 2 = 1}
RightChannels(playback) == {c + 1 : c \in LeftChannels(playback)}

(* On headphones everything is heard on both ears. The matrix from         *)
(* 10.2.9.3 to 7.1.5.4 has the two channels at the bottom crossed.         *)
WrongSide(label, playback) ==
  CASE label \in {"BtFL", "BtFR"} /\ playback = "14" -> {}
    [] label \in LeftLabels -> RightChannels(playback)
    [] label \in RightLabels -> LeftChannels(playback)
    [] OTHER -> {}

HasNoChannelFor(label, playback) ==
  label \in {"LFE", "LFE2"} /\ playback \in {"12", "A", "Binaural"}

(* Whatever is mixed for a layout, every channel of every element is heard *)
(* on some loudspeaker that is not on the other side; only low frequencies *)
(* have none in mono and stereo. Violated when a matrix, the key of a      *)
(* matrix, the order of the labels or their places do not fit (the tables  *)
(* of precomputed_gains.cc, channel_label.cc and the renderers).           *)
EveryChannelIsHeard ==
  \A p \in {q \in DOMAIN metadata : metadata[q].rendered # None} :
    LET block == metadata[p].rendered
        playback == metadata[p].playback
        elements == metadata[p].subMix.elements
    IN \A i \in DOMAIN elements :
         \E labels \in ChannelsOf(scenario.elements[elements[i].id], playback) :
           \A label \in labels :
             \/ HasNoChannelFor(label, playback)
             \/ \E c \in DOMAIN block.channels \ WrongSide(label, playback) :
                  <<i, label>> \in block.channels[c]

(* These are blocks of the temporal units, in their order: of all that were *)
(* accepted, and perhaps of those that failed half way.                    *)
AreOfTheUnits(blocks) ==
  \E failed \in SUBSET {k \in DOMAIN units : ~units[k].ok} :
    LET kept == SelectSeq([k \in DOMAIN units |-> k], LAMBDA k : units[k].ok \/ k \in failed)
    IN /\ Len(blocks) = Len(kept)
       /\ \A n \in DOMAIN kept :
            LET unit == units[kept[n]].unit
            IN /\ blocks[n].time \in unit.start..unit.end
               /\ \A e \in DOMAIN unit.frames :
                    /\ blocks[n].time = unit.start + unit.frames[e].trimStart
                    /\ blocks[n].time + blocks[n].ticks = unit.end - unit.frames[e].trimEnd
               /\ \A gain \in ToSet(blocks[n].elementGains) \union {blocks[n].outputGain} :
                    gain # None => gain = unit.start

(* Every layout has been given every unit that was accepted, once, in      *)
(* order, without what is trimmed and with the gains of this unit, whatever *)
(* order the map has; and the samples that can be read after a call are of *)
(* the unit of this call.                                                  *)
LayoutsInStep ==
  \A p \in {q \in DOMAIN metadata : metadata[q].canRender} :
    /\ metadata[p].calculator # None => AreOfTheUnits(metadata[p].calculator)
    /\ metadata[p].processor # None => AreOfTheUnits(metadata[p].processor)
    /\ units # <<>> /\ Last(units).ok /\ state = "kAcceptingTemporalUnits" =>
         GetPostProcessedSamplesAsSpan(p).time \in Last(units).unit.start..Last(units).unit.end

(* The loudness l in a mix presentation, unless it still is the user's, for *)
(* which there must be a reason.                                           *)
MayBeOfTheUser(i, p) ==
  \/ state # "kFlushedFinalizedMixPresentationObus"
  \/ ~scenario.measuring \/ p \in scenario.failing
  \/ p \notin DOMAIN metadata \/ ~metadata[p].canRender
  \/ \E j \in 1..i - 1 : obus[j].id = obus[i].id

IsOfWhatIsHeard(loudness, i, p) ==
  /\ \A j \in 1..i - 1 : obus[j].id # obus[i].id
  /\ AreOfTheUnits(loudness)
  /\ metadata[p].processor # None => ToSet(metadata[p].processor) \subseteq ToSet(loudness)

(* The layouts of all mixes stay in step, and the loudness in a mix         *)
(* presentation is of every unit that was accepted, and of all that its    *)
(* processor was given: nothing is heard that was not measured, also after *)
(* calls that failed half way through the layouts. The first presentation  *)
(* with an id gets the loudness. (PushTemporalUnit and                     *)
(* GetFinalizedMixPresentationObus.)                                       *)
HeardIsMeasured ==
  /\ LayoutsInStep
  /\ \A i \in DOMAIN obus :
       \A s \in DOMAIN obus[i].loudness : \A l \in DOMAIN obus[i].loudness[s] :
         LET loudness == obus[i].loudness[s][l]
             p == Position(obus[i].id, s, l)
         IN IF loudness = "user" THEN MayBeOfTheUser(i, p) ELSE IsOfWhatIsHeard(loudness, i, p)
=============================================================================
