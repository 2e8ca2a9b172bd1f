----------------------------- MODULE MCObuSyntax -----------------------------
(* OBUs of every type, with each of their options at least once.               *)
EXTENDS ObuSyntax

Header(type) == [DefaultHeader EXCEPT !.obu_type = type]
Flagged(type) == [Header(type) EXCEPT !.type_specific_flag = 1]
Obu(header, payload) == [header |-> header, payload |-> payload, footer |-> <<>>]
Footed(obu, bytes) == [obu EXCEPT !.footer = bytes]
-------------------------------------------------------------------------------
Base(id, mode, duration, constant, durations) ==
    [parameter_id |-> id, parameter_rate |-> 300, param_definition_mode |-> mode,
     reserved |-> 5, duration |-> duration, constant_subblock_duration |-> constant,
     num_subblocks |-> Len(durations), subblock_durations |-> durations]
Definition(type, base, specific) ==
    [type |-> type, base |-> base, specific |-> specific]

Gain(id, gain) == Definition(MixGain, Base(id, 1, 0, 0, <<>>),
                             [default_mix_gain |-> gain])
DemixingOf(id) == Definition(Demixing, Base(id, 0, 8, 8, <<>>),
                             [dmixp_mode |-> 2, reserved |-> 9, default_w |-> 10,
                              reserved_for_future_use |-> 3])
ReconGainOf(id) == Definition(ReconGain, Base(id, 0, 8, 8, <<>>), Empty)
Extended(type, bytes) == [type |-> type, base |-> Empty, specific |-> [bytes |-> bytes]]
PolarOf(azimuth) ==
    Definition(Polar, Base(20, 0, 6, 6, <<>>),
               [default_azimuth |-> azimuth, default_elevation |-> -90,
                default_distance |-> 127])
DualPolarOf ==
    Definition(DualPolar, Base(21, 1, 0, 0, <<>>),
               [default_first_azimuth |-> -180, default_first_elevation |-> 90,
                default_first_distance |-> 1, default_second_azimuth |-> 7,
                default_second_elevation |-> -1, default_second_distance |-> 0])
Cart8Of ==
    Definition(Cart8, Base(22, 1, 0, 0, <<>>),
               [default_x |-> 127, default_y |-> -128, default_z |-> -1])
DualCart16Of ==
    Definition(DualCart16, Base(23, 1, 0, 0, <<>>),
               [default_first_x |-> 32767, default_first_y |-> -32768,
                default_first_z |-> 1, default_second_x |-> 2, default_second_y |-> -3,
                default_second_z |-> 4])

MCDefinitions ==
    << Gain(1, 0), DemixingOf(2), ReconGainOf(3) @@ [flags |-> <<0, 1, 1>>],
       [Gain(4, 0) EXCEPT !.base = Base(4, 0, 10, 4, <<>>)],
       [Gain(5, 0) EXCEPT !.base = Base(5, 0, 8, 0, <<3, 5>>)] >>
-------------------------------------------------------------------------------
Block(id, duration, constant, subblocks) ==
    Obu(Header(ParameterBlockType),
        [parameter_id |-> id, duration |-> duration,
         constant_subblock_duration |-> constant,
         num_subblocks |-> IF duration # 0 /\ constant = 0 THEN Len(subblocks) ELSE 0,
         subblocks |-> subblocks])
Subblock(duration, data) == [subblock_duration |-> duration, data |-> data]
Step(v) == [animation_type |-> 0, start_point_value |-> v]
Linear(v) == [animation_type |-> 1, start_point_value |-> v, end_point_value |-> -v]
Bezier == [animation_type |-> 2, start_point_value |-> -32768, end_point_value |-> 32767,
           control_point_value |-> -1, control_point_relative_time |-> 255]
Element(flag, gains) == [recon_gain_flag |-> flag, recon_gain |-> gains]

ParameterBlocks ==
    << Block(1, 10, 4, << Subblock(<<>>, Step(-5)), Subblock(<<>>, Linear(700)),
                          Subblock(<<>>, Bezier) >>),
       Block(1, 7, 0, << Subblock(<<2>>, Step(1)), Subblock(<<5>>, Bezier) >>),
       Block(2, 0, 0, << Subblock(<<>>, [dmixp_mode |-> 6, reserved |-> 31]) >>),
       Block(3, 0, 0, << Subblock(<<>>, [elements |->
           << <<>>, << Element(1, [j \in 1..12 |-> IF j = 1 THEN 200 ELSE 0]) >>,
              << Element(2049, [j \in 1..12 |-> IF j \in {1, 12} THEN j ELSE 0]) >> >>]) >>),
       Block(4, 0, 0, << Subblock(<<>>, Step(1)), Subblock(<<>>, Step(2)),
                         Subblock(<<>>, Step(3)) >>),
       Block(5, 0, 0, << Subblock(<<>>, Step(1)), Subblock(<<>>, Step(2)) >>) >>
-------------------------------------------------------------------------------
CodecConfigOf(codec, samples, config) ==
    Obu(Header(CodecConfigType),
        Create([codec_config_id |-> 200, codec_id |-> codec,
                num_samples_per_frame |-> samples, audio_roll_distance |-> 0,
                decoder_config |-> config]))
Info == [minimum_block_size |-> 64, maximum_block_size |-> 64, minimum_frame_size |-> 0,
         maximum_frame_size |-> 0, sample_rate |-> 48000, number_of_channels |-> 1,
         bits_per_sample |-> 15, total_samples_in_stream |-> Bits(7, 36),
         md5_signature |-> [k \in 1..16 |-> 0]]
Aac(inner, outer) ==
    [decoder_config_descriptor_tag |-> 4, object_type_indication |-> 64,
     stream_type |-> 5, upstream |-> 0, reserved |-> 1, buffer_size_db |-> 9,
     max_bitrate |-> Bits(1, 32), average_bit_rate |-> Bits(2, 32),
     decoder_specific_info_tag |-> 5, audio_object_type |-> 2,
     sample_frequency_index |-> 3, channel_configuration |-> 2, frame_length_flag |-> 0,
     depends_on_core_coder |-> 0, extension_flag |-> 0,
     decoder_specific_info_extension |-> inner, decoder_config_extension |-> outer]

CodecConfigs ==
    << CodecConfigOf(Lpcm, 8, [sample_format_flags |-> 1, sample_size |-> 24,
                               sample_rate |-> Bits(48000, 32)]),
       CodecConfigOf(Opus, 960, [version |-> 1, output_channel_count |-> 2,
                                 pre_skip |-> 312, input_sample_rate |-> Bits(0, 32),
                                 output_gain |-> 0, mapping_family |-> 0]),
       CodecConfigOf(Flac, 64, [blocks |-> << [block_type |-> 0, payload |-> Info],
                                              [block_type |-> 3, payload |-> <<9, 8>>] >>]),
       CodecConfigOf(AacLc, 1024, Aac(<<>>, <<>>)),
       CodecConfigOf(AacLc, 1024, Aac(<<1>>, <<2, 3>>)) >>
-------------------------------------------------------------------------------
AudioElementOf(type, ids, params, config) ==
    Obu(Header(AudioElementType),
        [audio_element_id |-> 300, audio_element_type |-> type, reserved |-> 17,
         codec_config_id |-> 200, audio_substream_ids |-> ids, params |-> params,
         config |-> config])
Layer(layout, flag, substreams, coupled) ==
    [loudspeaker_layout |-> layout, output_gain_is_present_flag |-> 0,
     recon_gain_is_present_flag |-> flag, reserved_a |-> 2,
     substream_count |-> substreams, coupled_substream_count |-> coupled]
WithGain(layer, gain) ==
    [layer EXCEPT !.output_gain_is_present_flag = 1]
    @@ [output_gain_flag |-> 33, reserved_b |-> 1, output_gain |-> gain]
Expanded(layer, layout) == layer @@ [expanded_loudspeaker_layout |-> layout]
Scalable(layers) == [reserved |-> 7, layers |-> layers]

AudioElements ==
    << AudioElementOf(ChannelBased, <<0, 1, 200>>, << DemixingOf(2), ReconGainOf(3) >>,
                      Scalable(<< Layer(0, 0, 1, 0),
                                  WithGain(Layer(2, 1, 2, 1), -256) >>)),
       AudioElementOf(ChannelBased, <<5>>, <<>>,
                      Scalable(<< Expanded(Layer(LayoutExpanded, 0, 1, 1), 12) >>)),
       AudioElementOf(ChannelBased, <<6>>, << Extended(300, <<1, 2>>), Extended(3, <<>>) >>,
                      Scalable(<< Layer(LayoutBinaural, 0, 1, 1) >>)),
       AudioElementOf(SceneBased, <<7, 8>>, <<>>,
                      [ambisonics_mode |-> ModeMono, output_channel_count |-> 4,
                       substream_count |-> 2, channel_mapping |-> <<0, 255, 1, 0>>]),
       AudioElementOf(SceneBased, <<9>>, <<>>,
                      [ambisonics_mode |-> ModeProjection, output_channel_count |-> 4,
                       substream_count |-> 1, coupled_substream_count |-> 1,
                       demixing_matrix |-> <<1, -1, 32767, -32768, 0, 2, 3, 4>>]),
       AudioElementOf(SceneBased, <<9>>, <<>>, [ambisonics_mode |-> 2]),
       AudioElementOf(ObjectBased, <<10>>, <<>>,
                      [num_objects |-> 2, extension_bytes |-> <<77>>]),
       AudioElementOf(5, <<11>>, <<>>, [config_bytes |-> <<1, 2>>]) >>
-------------------------------------------------------------------------------
Rendering(params, offset, bytes) ==
    [headphones_rendering_mode |-> 1, binaural_filter_profile |-> 2, reserved |-> 3,
     params |-> params, gain_offset |-> offset, extension_bytes |-> bytes]
PlainRendering == Rendering(<<>>, <<>>, <<>>)
MixElement(id, annotations, rendering) ==
    [audio_element_id |-> id, annotations |-> annotations,
     rendering_config |-> rendering, element_mix_gain |-> Gain(6, -7)]
Layout(type, fields, info) ==
    fields @@ [layout_type |-> type, info_type |-> info, integrated_loudness |-> -3000,
               digital_peak |-> 1, true_peak |-> 0, anchors |-> <<>>,
               info_type_bytes |-> <<>>]
StereoLayout(info) == Layout(SsConvention, [sound_system |-> Stereo, reserved |-> 1], info)
BinauralLayout == Layout(3, [reserved |-> 63], 0)
LoudLayout == [StereoLayout(7) EXCEPT
                  !.true_peak = 5,
                  !.anchors = << [anchor_element |-> 1, anchored_loudness |-> -2],
                                 [anchor_element |-> 2, anchored_loudness |-> 3] >>,
                  !.info_type_bytes = <<8, 9, 10>>]
SubMix(elements, layouts) ==
    [audio_elements |-> elements, output_mix_gain |-> Gain(7, 12), layouts |-> layouts]
Mix(languages, annotations, subMixes, tags, fields) ==
    [mix_presentation_id |-> 42, count_label |-> Len(languages),
     annotations_language |-> languages, annotations |-> annotations,
     sub_mixes |-> subMixes, tags |-> tags, optional_fields |-> fields]
OneElement(rendering) ==
    << SubMix(<< MixElement(300, <<>>, rendering) >>, << StereoLayout(0) >>) >>
Tag(name, value) == [tag_name |-> name, tag_value |-> value]
Offset(type, fields) == << fields @@ [type |-> type] >>

Mixes ==
    << Mix(<<>>, <<>>, OneElement(PlainRendering), <<>>, <<>>),
       Mix(<< <<101>>, <<102>> >>, << <<97>>, <<>> >>,
           << SubMix(<< MixElement(300, << <<120>>, <<121>> >>, PlainRendering),
                        MixElement(301, << <<>>, <<>> >>, PlainRendering) >>,
                     << BinauralLayout, LoudLayout >>) >>,
           <<>>, <<>>),
       Mix(<<>>, <<>>, OneElement(PlainRendering), << << Tag(<<97>>, <<98>>) >> >>, <<>>),
       Mix(<<>>, <<>>,
           OneElement(Rendering(<< PolarOf(180), DualPolarOf >>,
                                Offset(0, [element_gain_offset |-> -1]), <<>>)),
           <<>>, <<>>),
       Mix(<<>>, <<>>,
           OneElement(Rendering(<< Cart8Of, DualCart16Of >>,
                                Offset(1, [default |-> 0, min |-> -5, max |-> 5]), <<1>>)),
           <<>>, <<>>),
       Mix(<<>>, <<>>,
           OneElement(Rendering(<<>>, Offset(9, [bytes |-> <<4>>]), <<>>)), <<>>, <<>>) >>
OptionalMix ==
    Mix(<<>>, <<>>, OneElement(PlainRendering),
        << << Tag(ContentLanguage, <<101, 110, 103>>) >> >>,
        << [optional_fields_size |-> 3, preferred_loudspeaker_renderer |-> 1,
            preferred_binaural_renderer |-> 2, remaining_bytes |-> <<66>>] >>)
MixPresentations ==
    [k \in DOMAIN Mixes |-> Obu(Header(MixPresentationType), Mixes[k])]
    \o << Obu(Flagged(MixPresentationType), OptionalMix) >>
-------------------------------------------------------------------------------
Frame(header, id, bytes) ==
    Obu(header, [audio_substream_id |-> id, audio_frame |-> bytes])
Trimmed(header) == [header EXCEPT !.num_samples_to_trim_at_end = 200,
                                  !.num_samples_to_trim_at_start = 1]
LongHeader == [Trimmed(Flagged(AudioFrameType))
               EXCEPT !.extension_header_bytes = << <<5, 6>> >>]
Redundant == [Header(SequenceHeaderType) EXCEPT !.obu_redundant_copy = 1]
T35(code, extension) ==
    [metadata_type |-> MetadataItuT35, country_code |-> code,
     country_code_extension |-> extension, payload_bytes |-> <<7, 7>>]

Others ==
    << Obu(Redundant, [primary_profile |-> 1, additional_profile |-> 200]),
       Obu(Header(TemporalDelimiterType), Empty),
       Frame(Header(AudioFrameId(17)), 17, <<1, 2, 3>>),
       Frame(LongHeader, 200, <<1, 2>>),
       Frame(Trimmed(Flagged(AudioFrameId(0))), 0, <<>>),
       Obu(Header(MetadataType), T35(255, <<1>>)),
       Obu(Header(MetadataType), T35(3, <<>>)),
       Obu(Header(MetadataType), [metadata_type |-> MetadataTags,
                                  tags |-> << Tag(<<97>>, <<>>), Tag(<<97>>, <<>>) >>]),
       Footed(Obu(Header(MetadataType), [metadata_type |-> 300]), <<1, 2>>),
       Footed(ParameterBlocks[2], <<250>>) >>

AllObus == ParameterBlocks \o CodecConfigs \o AudioElements \o MixPresentations \o Others
AllIndices == DOMAIN AllObus

(* A header with an extension that is longer than a byte can count.            *)
LongExtension ==
    << Frame([Header(AudioFrameId(0))
              EXCEPT !.extension_header_bytes = << [k \in 1..256 |-> 1] >>], 0, <<7>>) >>
===============================================================================
