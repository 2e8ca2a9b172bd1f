---------------------------- MODULE MCRendering ----------------------------
(* Small instances of MixPresentationFinalizer.                            *)
EXTENDS MixPresentationFinalizer

Element(kind, layers, mapping, substreams, coupled, channels, projection) ==
  [kind |-> kind, layers |-> layers, mapping |-> mapping,
   ids |-> [i \in 1..substreams |-> 10 * i], coupled |-> coupled, channels |-> channels,
   projection |-> projection, rate |-> 48000, frameSize |-> 10]

Layered(layers) == Element("channels", layers, <<>>, 1, 0, 0, None)

Mono(mapping) ==
  Element("mono", <<>>, mapping, Cardinality(ToSet(mapping) \ {Inactive}), 0, Len(mapping), None)

Projection(coupled, substreams, channels, projection) ==
  Element("projection", <<>>, <<>>, substreams, coupled, channels, projection)

FullMono(channels) == Mono([i \in 1..channels |-> i - 1])
Straight(channels) == [i \in 1..channels |-> {i}]

Gain(id) == [id |-> id, rate |-> 48000]
Mixed(id, worldLocked, gain) == [id |-> id, worldLocked |-> worldLocked, gain |-> gain]

Frame(size, trimStart, trimEnd, params) ==
  [size |-> size, trimStart |-> trimStart, trimEnd |-> trimEnd, params |-> params]

Unit(k, ids, frame, blocks) ==
  [start |-> 10 * (k - 1), end |-> 10 * k, frames |-> [id \in ids |-> frame],
   blocks |-> [b \in DOMAIN blocks |->
                 [id |-> blocks[b], start |-> 10 * (k - 1), end |-> 10 * k]]]

-----------------------------------------------------------------------------
(* An element alone, to all layouts.                                       *)
AllLayouts ==
  <<"A", "B", "C", "D", "E", "F", "G", "H", "I", "J", "10", "11", "12", "13", "14",
    "Binaural", "Reserved">>

Alone(x, worldLocked, params) ==
  [elements |-> 1 :> x,
   mixes |-> << [id |-> 7,
                 subMixes |-> << [elements |-> << Mixed(1, worldLocked, Gain("g")) >>,
                                  layouts |-> AllLayouts, gain |-> Gain("o")] >>] >>,
   rendering |-> TRUE, measuring |-> FALSE, processed |-> {}, failing |-> {},
   units |-> << Unit(1, {1}, Frame(10, 0, 0, params), <<>>) >>]

OneLayer == {Layered(<<l>>) : l \in Layouts \union ExpandedLayouts}
SeveralLayers ==
  {Layered(layers) : layers \in {<<"Mono", "Stereo", "3.1.2", "7.1.4">>, <<"Stereo", "5.1", "7.1">>,
                                 <<"Stereo", "5.1.4">>, <<"5.1", "7.1.2">>}}
Ambisonics ==
  {FullMono(n) : n \in {1, 4, 9, 16, 25}}
  \union {Mono(<<0, 1, 2, 3, Inactive, Inactive, 4, Inactive, 5>>), Mono(<<0, 1, 1, 2>>),
          Projection(2, 2, 4, Straight(4)), Projection(0, 4, 4, <<{1, 2}, {2}, {3, 4}, {4}>>),
          Projection(4, 5, 9, Straight(9))}

Alones ==
  {Alone(x, worldLocked, None) : x \in OneLayer \union SeveralLayers \union Ambisonics,
                                 worldLocked \in BOOLEAN}
  \union {Alone(Layered(<<"7.1.4">>), FALSE, [w |-> w]) : w \in {0, 3}}

(* Fewer channels are sent than are projected.                             *)
MixedOrder == {Alone(Projection(0, 3, 4, <<{1}, {4}, {2}>>), worldLocked, None) :
                 worldLocked \in BOOLEAN}

-----------------------------------------------------------------------------
(* Two elements in two mixes; "Reserved" cannot be rendered.               *)
TwoElements == 1 :> Layered(<<"Stereo">>) @@ 2 :> FullMono(4)

TwoSubMixes ==
  << [elements |-> << Mixed(1, FALSE, Gain("g")), Mixed(2, FALSE, Gain("h")) >>,
      layouts |-> <<"A", "Reserved", "B">>, gain |-> Gain("o")],
     [elements |-> << Mixed(2, FALSE, Gain("h")) >>, layouts |-> <<"A">>, gain |-> Gain("o")] >>

TwoMixes ==
  << [id |-> 7, subMixes |-> TwoSubMixes],
     [id |-> 8, subMixes |-> << [elements |-> << Mixed(1, FALSE, Gain("g")) >>,
                                 layouts |-> <<"12">>, gain |-> Gain("h")] >>],
     [id |-> 7, subMixes |-> SubSeq(TwoSubMixes, 1, 1)] >>

Whole == Frame(10, 0, 0, None)

Units ==
  { << Unit(1, {1, 2}, Frame(10, 4, 0, None), <<"g", "o">>),
       Unit(2, {1, 2}, Whole, <<"h">>),
       Unit(3, {1, 2}, Frame(10, 0, 10, None), <<"g">>) >>,
    (* A frame is missing, is trimmed too much, ...                        *)
    << Unit(1, {1, 2}, Whole, <<>>), Unit(2, {1}, Whole, <<"g">>),
       Unit(3, {1, 2}, Whole, <<"h">>) >>,
    << Unit(1, {1, 2}, Frame(10, 6, 5, None), <<>>), Unit(2, {1, 2}, Frame(10, 0, 3, None), <<"g">>) >>,
    (* ... or a block is not of the unit.                                  *)
    << Unit(1, {1, 2}, Whole, <<"o">>),
       [Unit(2, {1, 2}, Whole, <<"g">>) EXCEPT !.blocks[1].start = 5] >> }

Several ==
  {[elements |-> TwoElements, mixes |-> TwoMixes, rendering |-> TRUE, measuring |-> measuring,
    processed |-> processed, failing |-> failing, units |-> u] :
     u \in Units, measuring \in BOOLEAN,
     processed \in {{}, {Position(7, 1, 1), Position(7, 1, 3), Position(8, 1, 1)}},
     failing \in {{}, {Position(7, 1, 3)}, {Position(7, 1, 1), Position(8, 1, 1)}}}

(* What Create refuses or does not render.                                 *)
Odd ==
  LET usual == CHOOSE s \in Several : s.measuring /\ s.processed = {} /\ s.failing = {}
  IN {[usual EXCEPT !.rendering = FALSE],
      [usual EXCEPT !.elements = 1 :> Layered(<<"Stereo">>)],
      [usual EXCEPT !.elements[2].rate = 44100],
      [usual EXCEPT !.elements[2].frameSize = 20],
      [usual EXCEPT !.elements[2].kind = "objects"],
      [usual EXCEPT !.mixes[2].subMixes[1].gain.rate = 16000]}

SmallScenarios == Alones \union Several \union Odd
=============================================================================
