------------------------ MODULE MCParameterBlockGenerator ------------------------
(* Small instances of ParameterBlockGenerator: frames of 4 ticks.          *)
EXTENDS ParameterBlockGenerator

D == 4
Lossy == [frame |-> D, lossless |-> FALSE, rate |-> 1]
Lossless == [frame |-> D, lossless |-> TRUE, rate |-> 1]
Stopped == [frame |-> D, lossless |-> TRUE, rate |-> 0]
Codecs == 1 :> Lossy @@ 2 :> Lossless @@ 3 :> Stopped

Base(id, mode, duration) ==
  [parameter_id |-> id, parameter_rate |-> 1, param_definition_mode |-> mode, reserved |-> 0,
   duration |-> duration, constant_subblock_duration |-> duration, num_subblocks |-> 0,
   subblock_durations |-> <<>>]

Param(type, id) == [type |-> type, definition |-> Base(id, 0, D)]
ReconParam == Param("recon_gain", "recon")
DemixingParam == Param("demixing", "demixing")

(* Elements: of layers, with the counts they must have, of a scene or objects. *)
Element ==
  [id |-> 1, codec |-> 1, type |-> "channels", mode |-> "none", ids |-> <<1>>, layers |-> <<>>,
   mapping |-> <<>>, outputs |-> 0, substreams |-> 0, coupled |-> 0, matrix |-> <<>>,
   objects |-> 0, params |-> <<>>]

Layer(layout, group, recon) ==
  [layout |-> layout, gain |-> [flags |-> {}, value |-> 1], recon |-> recon,
   coupled |-> Len(group.coupled) \div 2, substreams |-> Len(Substreams(group))]

Layered(layouts, codec, recon, params) ==
  LET groups == LayerGroups([i \in DOMAIN layouts |-> [layout |-> layouts[i]]])
      layers == [i \in DOMAIN layouts |-> Layer(layouts[i], groups[i], recon /\ i > 1)]
  IN [Element EXCEPT !.layers = layers, !.codec = codec, !.params = params,
        !.ids = [i \in 1..FoldLeft(LAMBDA n, l : n + l.substreams, 0, layers) |-> i]]

Stereo == Layered(<<"Stereo">>, 2, FALSE, <<>>)

Scene(mode, mapping, matrix) ==
  [Element EXCEPT !.codec = 2, !.type = "scene", !.mode = mode, !.ids = <<1, 2, 3, 4>>,
     !.mapping = mapping, !.outputs = 4, !.substreams = 4, !.matrix = matrix]

Objects(n) == [Element EXCEPT !.codec = 2, !.type = "objects", !.objects = n,
                                !.params = <<DemixingParam>>]

(* The metadata of blocks.                                                 *)
Block_(id, start, constant, subblocks) ==
  [id |-> id, start |-> start, constant |-> constant, subblocks |-> subblocks,
   duration |-> FoldLeft(LAMBDA n, s : n + s.duration, 0, subblocks)]

Sub(duration, data) == [duration |-> duration, data |-> data]
Step(gain) == [kind |-> "step", from |-> gain, to |-> gain]
Linear(from, to) == [kind |-> "linear", from |-> from, to |-> to]
Bezier(from, to) == [kind |-> "bezier", from |-> from, to |-> to]
ReconData(which) == [kind |-> "recon_gain", gains |-> which]
DemixingData == [kind |-> "demixing"]

PerFrame(id, count, data) == [n \in 1..count |-> Block_(id, (n - 1) * D, 0, <<Sub(D, data)>>)]

MixGainParam(mode, duration) == [type |-> Obu!MixGain, base |-> Base("gain", mode, duration)]

Scenario ==
  [codecs |-> Codecs, first |-> 1, elements |-> <<Stereo>>, mixGains |-> {},
   profile |-> "base", metadata |-> <<>>, partition |-> FALSE, override |-> FALSE, driver |-> "api",
   frames |-> 2, lag |-> 0, sound |-> <<"quiet", "loud">>,
   saturates |-> FALSE]

-----------------------------------------------------------------------------
(* Every way to layer the layouts, with recon gains for each frame.        *)
Grows(a, b) == /\ LoudspeakerLayoutToChannels(a) # LoudspeakerLayoutToChannels(b)
               /\ ~Shrinks(LoudspeakerLayoutToChannels(a), LoudspeakerLayoutToChannels(b))

Growing(chains) ==
  {c \in {Append(c, l) : c \in chains, l \in Layouts} : Grows(c[Len(c) - 1], c[Len(c)])}

Chains == LET two == Growing({<<l>> : l \in Layouts})
              three == Growing(two)
          IN two \union three \union Growing(three)

WithRecon(layouts, which, sound) ==
  [Scenario EXCEPT !.elements = <<Layered(layouts, 1, TRUE, <<ReconParam>>)>>,
     !.metadata = PerFrame("recon", 2, ReconData(which)), !.sound = sound, !.driver = "main"]

AllChains == {WithRecon(c, "logged", <<"quiet", "loud">>) : c \in Chains}

Deep == <<"3.1.2", "5.1.2", "7.1.4">>

ReconGainsOf ==
  {WithRecon(Deep, which, sound) : which \in {"logged", "other", "less", "fewer"},
                                   sound \in {<<"quiet", "silent">>, <<"loud", "weak">>}}
  \union
  {[WithRecon(Deep, "logged", <<"weak", "quiet">>) EXCEPT !.saturates = TRUE]}
  \union
  {[WithRecon(layouts, which, <<"quiet", "loud">>) EXCEPT !.override = TRUE] :
     layouts \in {Deep, <<"5.1", "5.1.2">>}, which \in {"logged", "other", "fewer"}}

(* Gains over two units, whole or in pieces.                               *)
Shapes ==
  {<<Sub(8, Linear(-100, 157))>>, <<Sub(8, Step(7))>>, <<Sub(8, Bezier(0, 9))>>,
   <<Sub(4, Linear(10, -3)), Sub(4, Bezier(5, 6))>>, <<Sub(2, Step(3)), Sub(6, Step(4))>>,
   <<Sub(6, Step(3)), Sub(2, Linear(300, 1))>>, <<Sub(2, Bezier(1, 2)), Sub(6, Step(0))>>,
   <<Sub(1, Step(3)), Sub(7, Linear(8, -8))>>, <<Sub(3, Linear(4, 0)), Sub(5, Step(4))>>,
   <<Sub(8, Step(40000))>>, <<Sub(4, Step(1)), Sub(4, Linear(0, 32768))>>}

Gains(blocks, definition) ==
  [Scenario EXCEPT !.metadata = blocks, !.mixGains = {definition}]

Partitioned ==
  {[Gains(<<Block_("gain", 0, 0, shape)>>, MixGainParam(mode, D))
      EXCEPT !.partition = TRUE, !.driver = driver, !.lag = lag] :
     shape \in Shapes, mode \in {0, 1}, driver \in {"main", "api"}, lag \in {0, 1}}

Constant ==
  {[Gains(<<Block_("gain", 0, 2, shape)>>, MixGainParam(1, 8)) EXCEPT !.partition = partition] :
     shape \in {<<Sub(2, Linear(0, 7)), Sub(2, Step(3)), Sub(2, Step(4)), Sub(2, Linear(1, 8))>>},
     partition \in BOOLEAN}

Whole ==
  {[Gains(<<Block_("gain", 0, 0, shape)>>, MixGainParam(mode, 8)) EXCEPT !.driver = driver] :
     shape \in Shapes, mode \in {0, 1}, driver \in {"main", "api"}}

(* A unit without a block, a block too much, one that is not in time.       *)
Gaps ==
  {[Gains(blocks, MixGainParam(1, D)) EXCEPT !.frames = 3, !.driver = driver,
      !.sound = <<"loud", "loud", "loud">>] :
     driver \in {"main", "api"},
     blocks \in {<<Block_("gain", 0, 0, <<Sub(D, Step(1))>>),
                     Block_("gain", 2 * D, 0, <<Sub(D, Step(2))>>)>>,
                   PerFrame("gain", 4, Step(5)), PerFrame("gain", 1, Step(5)),
                   <<Block_("gain", 2, 0, <<Sub(D, Step(1))>>)>>,
                   PerFrame("gain", 3, DemixingData), PerFrame("other", 3, Step(1))}}

(* Several parameters at once.                                             *)
PolarParam == [type |-> Obu!Polar, base |-> Base("polar", 0, D)]

Several ==
  {[Scenario EXCEPT
      !.elements = <<Layered(<<"3.1.2", "5.1.2">>, 1, TRUE, <<ReconParam, DemixingParam>>)>>,
      !.mixGains = {MixGainParam(1, D), PolarParam}, !.driver = driver,
      !.metadata = PerFrame("recon", 2, ReconData(which)) \o PerFrame("demixing", n, data)
                     \o PerFrame("gain", 2, gain) \o PerFrame("polar", 1, DemixingData)] :
     driver \in {"main", "api"}, which \in {"logged", "other"}, n \in {1, 2},
     data \in {DemixingData, Step(0)}, gain \in {Step(1), Linear(0, 40000)}}

(* What cannot be encoded at all.                                          *)
Bad(element) == [Scenario EXCEPT !.elements = <<element>>]
Refused ==
  {Bad(e) : e \in
     {Layered(<<"Stereo", "5.1">>, 1, FALSE, <<>>), Layered(<<"Stereo", "5.1">>, 1, TRUE, <<>>),
      Layered(<<"Stereo", "5.1">>, 2, TRUE, <<ReconParam>>),
      Layered(<<"Stereo">>, 1, FALSE, <<ReconParam>>),
      Layered(<<"Stereo">>, 3, FALSE, <<>>), Layered(<<"Stereo">>, 4, FALSE, <<>>),
      [Stereo EXCEPT !.layers[1].layout = "Reserved"], [Stereo EXCEPT !.ids = <<1, 2>>],
      [Stereo EXCEPT !.params = <<DemixingParam, DemixingParam>>],
      [Stereo EXCEPT !.params = <<[type |-> "demixing", definition |-> Base("d", 0, 8)]>>],
      [Stereo EXCEPT !.params = <<[type |-> "demixing", definition |-> Base("d", 1, D)]>>],
      [Stereo EXCEPT !.params = <<Param("mix_gain", "d")>>], [Stereo EXCEPT !.type = "reserved"],
      Scene("mono", <<0, 1, 2, 2>>, <<>>), Scene("mono", <<0, 1, 2>>, <<>>),
      [Scene("mono", <<0, 1, 2, 3>>, <<>>) EXCEPT !.params = <<ReconParam>>],
      Scene("projection", <<>>, <<1>>), Objects(3), [Objects(1) EXCEPT !.ids = <<1, 2>>]}}
  \union
  {[Bad(Stereo) EXCEPT !.elements = @ \o <<Stereo>>],
   [Bad(Stereo) EXCEPT !.elements = @ \o <<[Stereo EXCEPT !.id = 2]>>],
   [Bad(Stereo) EXCEPT !.partition = TRUE, !.profile = "advanced1"],
   [Bad([Stereo EXCEPT !.params = <<DemixingParam>>]) EXCEPT
      !.mixGains = {[type |-> Obu!MixGain, base |-> Base("demixing", 0, D)]}]}

Others ==
  {Bad(e) : e \in {Scene("mono", <<0, 1, 2, 3>>, <<>>), Objects(2),
                   Scene("projection", <<>>, [n \in 1..16 |-> 1]),
                   [Stereo EXCEPT !.params = <<Param("extension", "e")>>]}}

MCScenarios ==
  AllChains \union ReconGainsOf \union Partitioned \union Constant \union Whole
    \union Gaps \union Several \union Refused \union Others

(* A block for the first unit only.                                        *)
MCStale ==
  {[Gains(PerFrame("gain", 1, Step(5)), MixGainParam(1, D)) EXCEPT !.driver = "main"]}
=============================================================================
