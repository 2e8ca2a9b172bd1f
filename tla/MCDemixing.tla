----------------------------- MODULE MCDemixing -----------------------------
(* Small instances of Demixing.                                            *)
EXTENDS Demixing

NoGain == [flags |-> {}, value |-> 1]

(* A config of these layers, with the counts it must have.                 *)
Config(layouts, gains) ==
  LET bare == [i \in DOMAIN layouts |-> [layout |-> layouts[i]]]
      groups == LayerGroups(bare)
  IN [i \in DOMAIN layouts |->
        [layout |-> layouts[i], gain |-> gains[i],
         coupled |-> Len(groups[i].coupled) \div 2,
         substreams |-> Len(Substreams(groups[i]))]]

Count(config) == FoldLeft(LAMBDA n, layer : n + layer.substreams, 0, config)

ChannelBased(layouts, gains, parameter) ==
  LET config == Config(layouts, gains)
  IN [kind |-> "channels", layers |-> config, mapping |-> <<>>, coupled |-> 0,
      parameter |-> parameter,
      ids |-> [i \in 1..Count(config) |-> 20 + i]]

Layered(layouts, parameter) ==
  ChannelBased(layouts, [i \in DOMAIN layouts |-> NoGain], parameter)

Parameter(id) == [id |-> id, mode |-> "3", w |-> 4]

(* Every way to layer the layouts that are not expanded.                   *)
Grows(a, b) == /\ LoudspeakerLayoutToChannels(a) # LoudspeakerLayoutToChannels(b)
               /\ ~Shrinks(LoudspeakerLayoutToChannels(a), LoudspeakerLayoutToChannels(b))

Longer(chains) ==
  {Append(c, l) : c \in chains, l \in Layouts}

Growing(chains) ==
  {c \in Longer(chains) : Grows(c[Len(c) - 1], c[Len(c)])}

Chains == LET one == {<<l>> : l \in Layouts}
              two == Growing(one)
              three == Growing(two)
          IN one \union two \union three \union Growing(three)

AllChains ==
  [elements : {<<Layered(c, Parameter("p"))>> : c \in Chains},
   blocks : {"p" :> b : b \in {<<"1n", "3n">>, <<"2", "1n">>, <<None, None>>}},
   frames : {2}]

(* Gains, and what has no layers: the expanded layouts and ambisonics.     *)
Gained == ChannelBased(<<"Stereo", "5.1.2">>,
                       <<[flags |-> {"L", "R"}, value |-> 3], NoGain>>, Parameter("p"))

Mono(mapping) ==
  [kind |-> "mono", layers |-> <<>>, mapping |-> mapping, coupled |-> 0,
   parameter |-> None, ids |-> [i \in 1..Cardinality(ToSet(mapping) \ {Inactive}) |-> 10 * i]]

Projection(substreams, coupled) ==
  [kind |-> "projection", layers |-> <<>>, mapping |-> <<>>, coupled |-> coupled,
   parameter |-> None, ids |-> [i \in 1..substreams |-> 10 * i]]

Others ==
  [elements : {<<Layered(<<l>>, None)>> : l \in ExpandedLayouts}
                \union {<<Mono(<<0, 1, 2, 3>>)>>, <<Mono(<<2, 0, Inactive, 1>>)>>,
                        <<Projection(4, 0)>>, <<Projection(2, 2)>>},
   blocks : {<<>>}, frames : {1}]

(* Two elements, with a parameter each, one in common, or none.            *)
Told3 == [1..3 -> {None, "1", "2n"}]

TwoElements(first, second) ==
  <<Layered(<<"3.1.2", "5.1.2">>, first), Layered(<<"Mono", "Stereo">>, second)>>

Parameters ==
  [elements : {TwoElements(Parameter("p"), Parameter("q"))},
   blocks : {"p" :> b @@ "q" :> c : b \in Told3,
                                    c \in {<<"1n", "1n", "2">>, <<None, "2", "2">>}},
   frames : {3}]
  \union
  [elements : {TwoElements(Parameter("p"), Parameter("p")),
               TwoElements(Parameter("p"), None), <<Gained>>},
   blocks : {"p" :> b : b \in Told3}, frames : {3}]

(* The index of w goes up to its limit and down again.                     *)
Long ==
  [elements : {<<Layered(<<"3.1.2", "7.1.4">>, Parameter("p"))>>},
   blocks : {"p" :> [k \in 1..14 |-> IF k < 13 THEN "2n" ELSE "1"]}, frames : {14}]

MCScenarios == AllChains \union Others \union Parameters \union Long

(* Blocks that say something else than the defaults.                       *)
MCBlocks ==
  [elements : {<<Layered(<<"3.1.2", "5.1.2">>, Parameter("p"))>>},
   blocks : {"p" :> <<"1n", "1n">>}, frames : {2}]

(* A projection of pairs and single channels.                              *)
MCProjection ==
  [elements : {<<Projection(3, 1)>>}, blocks : {<<>>}, frames : {1}]
=============================================================================
