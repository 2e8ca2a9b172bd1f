----------------------------- MODULE AudioElement -----------------------------
(* The audio element OBU, iamf/obu/audio_element.cc: its substreams, its       *)
(* parameter definitions, and a config by its type.  The config is a record of *)
(* the fields of its class, empty where the class holds none.                  *)
EXTENDS Parameters

ChannelBased == 0
SceneBased == 1
ObjectBased == 2

MaxNumParameters == 256
AllDifferent(s) == \A i, j \in DOMAIN s : s[i] = s[j] => i = j
-------------------------------------------------------------------------------
WriteAudioElementParam(w, d) ==
    WriteParamDefinition(Require(PutOne(w, Leb, d.type), d.type # MixGain), d)

(* Types the class does not know are kept as bytes, positions among them.      *)
ReadAudioElementParam(r) ==
    Then(TakeOne(r, "type", Leb), LAMBDA type :
         IF type.got.type \in {Demixing, ReconGain}
         THEN ReadParamDefinition(type, type.got.type)
         ELSE ReadExtendedParamDefinition(Require(type, type.got.type # MixGain),
                                          type.got.type))

ValidateUniqueParamDefinitionType(params) ==
    AllDifferent([k \in DOMAIN params |-> params[k].type])
-------------------------------------------------------------------------------
(* ScalableChannelLayoutConfig and its ChannelAudioLayerConfigs.               *)
LayoutBinaural == 9
LayoutExpanded == 15

LayerFields ==
    << <<"loudspeaker_layout", U(4)>>, <<"output_gain_is_present_flag", U(1)>>,
       <<"recon_gain_is_present_flag", U(1)>>, <<"reserved_a", U(2)>>,
       <<"substream_count", U(8)>>, <<"coupled_substream_count", U(8)>> >>
GainFields == << <<"output_gain_flag", U(6)>>, <<"reserved_b", U(2)>>,
                 <<"output_gain", S(16)>> >>
ExpandedFields == << <<"expanded_loudspeaker_layout", U(8)>> >>

OptionalLayerFields(layer) ==
    (IF layer.output_gain_is_present_flag = 1 THEN GainFields ELSE <<>>)
    \o (IF layer.loudspeaker_layout = LayoutExpanded THEN ExpandedFields ELSE <<>>)

WriteLayer(w, layer) == Put(w, LayerFields \o OptionalLayerFields(layer), layer)
ReadLayer(r) ==
    Then(Take(r, LayerFields), LAMBDA layer :
         Take(layer, OptionalLayerFields(layer.got)))

ValidScalable(layers, numSubstreams) ==
    /\ Len(layers) \in 1..6
    /\ Total([k \in DOMAIN layers |-> layers[k].substream_count]) = numSubstreams
    /\ \A k \in DOMAIN layers :
          layers[k].loudspeaker_layout = LayoutBinaural => Len(layers) = 1

WriteScalable(w, c, numSubstreams) ==
    PutEach(PutOne(PutOne(Require(w, ValidScalable(c.layers, numSubstreams)),
                          U(3), Len(c.layers)),
                   U(5), c.reserved),
            c.layers, WriteLayer)

ReadScalable(r, numSubstreams) ==
    Then(Take(r, << <<"num_layers", U(3)>>, <<"reserved", U(5)>> >>), LAMBDA head :
         Validated(TakeEach(Without(head, {"num_layers"}), "layers", head.got.num_layers,
                            ReadLayer),
                   LAMBDA c : ValidScalable(c.layers, numSubstreams)))
-------------------------------------------------------------------------------
(* AmbisonicsConfig: mono, with a mapping, or projection, with a matrix.  A    *)
(* mode that is not known has no config at all.                                *)
ModeMono == 0
ModeProjection == 1
InactiveChannel == 255

(* GetNextValidOutputChannelCount gives the count itself.                      *)
ValidateOutputChannelCount(n) == n \in {k * k : k \in 1..15}

MonoFields == << <<"output_channel_count", U(8)>>, <<"substream_count", U(8)>> >>
ProjectionFields == MonoFields \o << <<"coupled_substream_count", U(8)>> >>

ValidMono(c, numSubstreams) ==
    /\ ValidateOutputChannelCount(c.output_channel_count)
    /\ Len(c.channel_mapping) = c.output_channel_count
    /\ c.substream_count <= c.output_channel_count
    /\ numSubstreams = c.substream_count
    /\ {c.channel_mapping[k] : k \in DOMAIN c.channel_mapping} \ {InactiveChannel}
       = 0..(c.substream_count - 1)

NumDemixingMatrixElements(c) ==
    (c.substream_count + c.coupled_substream_count) * c.output_channel_count

ValidProjection(c, numSubstreams) ==
    /\ ValidateOutputChannelCount(c.output_channel_count)
    /\ c.coupled_substream_count <= c.substream_count
    /\ c.substream_count + c.coupled_substream_count <= c.output_channel_count
    /\ numSubstreams = c.substream_count
    /\ Len(c.demixing_matrix) = NumDemixingMatrixElements(c)

WriteAmbisonics(w, c, numSubstreams) ==
    Then(PutOne(w, Leb, c.ambisonics_mode), LAMBDA mode :
         CASE c.ambisonics_mode = ModeMono ->
               PutOne(Put(Require(mode, ValidMono(c, numSubstreams)), MonoFields, c),
                      Bytes(0), c.channel_mapping)
           [] c.ambisonics_mode = ModeProjection ->
               PutMany(Put(Require(mode, ValidProjection(c, numSubstreams)),
                           ProjectionFields, c),
                       S(16), c.demixing_matrix)
           [] OTHER -> mode)

ReadMono(r) ==
    Then(Take(r, MonoFields), LAMBDA counts :
         TakeOne(counts, "channel_mapping", Bytes(counts.got.output_channel_count)))
ReadProjection(r) ==
    Then(Take(r, ProjectionFields), LAMBDA counts :
         TakeMany(counts, "demixing_matrix", NumDemixingMatrixElements(counts.got), S(16)))
ReadAmbisonics(r, numSubstreams) ==
    Then(TakeOne(r, "ambisonics_mode", Leb), LAMBDA mode :
         CASE mode.got.ambisonics_mode = ModeMono ->
               Validated(ReadMono(mode), LAMBDA c : ValidMono(c, numSubstreams))
           [] mode.got.ambisonics_mode = ModeProjection ->
               Validated(ReadProjection(mode), LAMBDA c : ValidProjection(c, numSubstreams))
           [] OTHER -> mode)
-------------------------------------------------------------------------------
(* ObjectsConfig: its size counts the number of objects, validated on creation.*)
WriteObjects(w, c) ==
    PutOne(PutOne(PutOne(w, U(8), Len(c.extension_bytes) + 1), U(8), c.num_objects),
           Bytes(0), c.extension_bytes)

ReadObjects(r) ==
    Then(Validated(TakeOne(r, "size", U(8)), LAMBDA c : c.size # 0), LAMBDA size :
         Validated(TakeOne(TakeOne([size EXCEPT !.got = Empty], "num_objects", U(8)),
                           "extension_bytes",
                           Bytes(IF size.ok THEN size.got.size - 1 ELSE 0)),
                   LAMBDA c : c.num_objects \in {1, 2}))

(* An extension is read, and not kept: what was read cannot be written.        *)
ReadExtensionConfig(r) == [TakeSized(r, "config_bytes") EXCEPT !.got = Empty]

WriteConfig(w, type, c, numSubstreams) ==
    CASE type = ChannelBased -> WriteScalable(w, c, numSubstreams)
      [] type = SceneBased   -> WriteAmbisonics(w, c, numSubstreams)
      [] type = ObjectBased  -> WriteObjects(w, c)
      [] OTHER               -> IF "config_bytes" \in DOMAIN c
                                THEN WriteSized(w, c.config_bytes) ELSE Require(w, FALSE)

ReadConfig(r, type, numSubstreams) ==
    CASE type = ChannelBased -> ReadScalable(r, numSubstreams)
      [] type = SceneBased   -> ReadAmbisonics(r, numSubstreams)
      [] type = ObjectBased  -> ReadObjects(r)
      [] OTHER               -> ReadExtensionConfig(r)
-------------------------------------------------------------------------------
ElementFields == << <<"audio_element_id", Leb>>, <<"audio_element_type", U(3)>>,
                    <<"reserved", U(5)>>, <<"codec_config_id", Leb>> >>

WriteAudioElement(w, e) ==
    LET unique == Require(w, /\ ValidateUniqueParamDefinitionType(e.params)
                             /\ Len(e.params) <= MaxNumParameters)
        ids == PutMany(PutOne(Put(unique, ElementFields, e), Leb,
                              Len(e.audio_substream_ids)),
                       Leb, e.audio_substream_ids)
    IN WriteConfig(PutEach(PutOne(ids, Leb, Len(e.params)), e.params,
                           WriteAudioElementParam),
                   e.audio_element_type, e.config, Len(e.audio_substream_ids))

(* Whether parameters are unique is asked behind a return of every type.       *)
ReadAudioElement(r) ==
    Then(TakeOne(Take(r, ElementFields), "n", Leb), LAMBDA num :
    Then(TakeOne(TakeMany(num, "audio_substream_ids", num.got.n, Leb), "n", Leb),
         LAMBDA numParams :
    Then(TakeEach(Require(numParams, numParams.got.n <= MaxNumParameters), "params",
                  numParams.got.n, ReadAudioElementParam), LAMBDA params :
         Without(TakeStruct(params, "config", LAMBDA x :
                     ReadConfig(x, params.got.audio_element_type,
                                Len(params.got.audio_substream_ids))),
                 {"n"}))))
===============================================================================
