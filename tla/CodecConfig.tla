----------------------------- MODULE CodecConfig -----------------------------
(* The codec config OBU, iamf/obu/codec_config.cc, and the decoder configs of  *)
(* its four codecs, iamf/obu/decoder_config.                                   *)
(*                                                                             *)
(* A decoder config is a record of the fields of its class.  Numbers of 32     *)
(* bits and more are their bits, and the codec's name is its four bytes.       *)
EXTENDS ObuHeader

Lpcm == <<105, 112, 99, 109>>  \* kCodecIdLpcm
Opus == <<79, 112, 117, 115>>  \* kCodecIdOpus
Flac == <<102, 76, 97, 67>>    \* kCodecIdFlac
AacLc == <<109, 112, 52, 97>>  \* kCodecIdAacLc

Wide(numbers) == {Bits(n, 32) : n \in numbers}
MaxPracticalFrameSize == 96000

ValidateNumSamplesPerFrame(n) == n \in 1..MaxPracticalFrameSize

(* GetRequiredAudioRollDistance: for Opus, what covers 3840 samples.           *)
RequiredRoll(codec, n) ==
    CASE codec = Opus  -> -((3840 + n - 1) \div n)
      [] codec = AacLc -> -1
      [] OTHER         -> 0
-------------------------------------------------------------------------------
LpcmFields == << <<"sample_format_flags", U(8)>>, <<"sample_size", U(8)>>,
                 <<"sample_rate", Raw(32)>> >>
ValidLpcm(c) ==
    /\ c.sample_format_flags \in {0, 1}
    /\ c.sample_size \in {16, 24, 32}
    /\ c.sample_rate \in Wide({16000, 32000, 44100, 48000, 96000})
-------------------------------------------------------------------------------
OpusFields == << <<"version", U(8)>>, <<"output_channel_count", U(8)>>,
                 <<"pre_skip", U(16)>>, <<"input_sample_rate", Raw(32)>>,
                 <<"output_gain", S(16)>>, <<"mapping_family", U(8)>> >>
ValidOpus(c) ==
    /\ c.version # 0
    /\ c.version \div 16 = 0
    /\ c.output_channel_count = 2
    /\ c.output_gain = 0
    /\ c.mapping_family = 0
-------------------------------------------------------------------------------
StreamInfo == 0 \* kFlacStreamInfo
StreamInfoLength == 34
StreamInfoFields ==
    << <<"minimum_block_size", U(16)>>, <<"maximum_block_size", U(16)>>,
       <<"minimum_frame_size", U(24)>>, <<"maximum_frame_size", U(24)>>,
       <<"sample_rate", U(20)>>, <<"number_of_channels", U(3)>>,
       <<"bits_per_sample", U(5)>>, <<"total_samples_in_stream", Raw(36)>>,
       <<"md5_signature", Bytes(16)>> >>
FlacSampleRates == {88200, 176400, 192000, 8000, 16000, 22050, 24000, 32000,
                    44100, 48000, 96000}

ValidateDecodingRestrictions(c, n) ==
    /\ c.blocks # <<>> /\ c.blocks[1].block_type = StreamInfo
    /\ LET info == c.blocks[1].payload
       IN /\ info.sample_rate \in FlacSampleRates
          /\ info.bits_per_sample \in {15, 23, 31}
          /\ info.maximum_block_size = n
          /\ info.minimum_block_size = n
          /\ info.number_of_channels = 1

ValidateEncodingRestrictions(c, n) ==
    /\ ValidateDecodingRestrictions(c, n)
    /\ LET info == c.blocks[1].payload
       IN /\ info.minimum_frame_size = 0
          /\ info.maximum_frame_size = 0
          /\ info.md5_signature = [k \in 1..16 |-> 0]

WriteBlock(w, block, isLast) ==
    LET type == PutOne(PutOne(w, U(1), isLast), U(7), block.block_type)
    IN IF block.block_type = StreamInfo
       THEN Put(PutOne(type, U(24), StreamInfoLength), StreamInfoFields, block.payload)
       ELSE PutOne(PutOne(type, U(24), Len(block.payload)), Bytes(0), block.payload)

WriteBlocks(w, blocks) ==
    PutEach(w, [k \in DOMAIN blocks |-> k],
            LAMBDA x, k : WriteBlock(x, blocks[k], IF k = Len(blocks) THEN 1 ELSE 0))

(* The length of a STREAMINFO block is read, and ignored.                      *)
ReadBlock(r) ==
    Then(Take(r, << <<"is_last", U(1)>>, <<"block_type", U(7)>>, <<"length", U(24)>> >>),
         LAMBDA head :
         IF head.got.block_type = StreamInfo
         THEN TakeStruct(head, "payload", LAMBDA x : Take(x, StreamInfoFields))
         ELSE TakeOne(head, "payload", Bytes(head.got.length)))

WithBlock(blocks, r) ==
    [r EXCEPT !.got =
        [blocks |-> Append(blocks, [block_type |-> @.block_type, payload |-> @.payload]),
         is_last |-> @.is_last]]

(* Blocks are read up to the one that says it is the last: a block takes at    *)
(* least its four bytes.                                                       *)
ReadBlocks(r) ==
    LET most == Left(r) \div 32 + 1
        upTo[k \in 0..most] ==
            IF k = 0 THEN [r EXCEPT !.got = [blocks |-> <<>>, is_last |-> 0]]
            ELSE Then(upTo[k - 1], LAMBDA so :
                      IF so.got.is_last = 1 \/ ~so.ok THEN so
                      ELSE WithBlock(so.got.blocks, ReadBlock([so EXCEPT !.got = Empty])))
    IN Without(upTo[most], {"is_last"})
-------------------------------------------------------------------------------
MaxClassSize == 2 ^ 28 - 1
DescriptorFields ==
    << <<"object_type_indication", U(8)>>, <<"stream_type", U(6)>>,
       <<"upstream", U(1)>>, <<"reserved", U(1)>>, <<"buffer_size_db", U(24)>>,
       <<"max_bitrate", Raw(32)>>, <<"average_bit_rate", Raw(32)>> >>
SampleFrequencyFields == << <<"audio_object_type", U(5)>>,
                            <<"sample_frequency_index", U(4)>> >>
ChannelFields == << <<"channel_configuration", U(4)>>, <<"frame_length_flag", U(1)>>,
                    <<"depends_on_core_coder", U(1)>>, <<"extension_flag", U(1)>> >>

(* GetSampleFrequency: reserved values and the escape value are refused.       *)
HasSampleFrequency(c) == c.sample_frequency_index \in 0..12

ValidAac(c) ==
    /\ c.decoder_config_descriptor_tag = 4
    /\ c.object_type_indication = 64
    /\ c.stream_type = 5
    /\ c.upstream = 0
    /\ c.reserved = 1
    /\ c.decoder_specific_info_tag = 5
    /\ c.audio_object_type = 2
    /\ c.channel_configuration = 2
    /\ c.frame_length_flag = 0
    /\ c.depends_on_core_coder = 0
    /\ c.extension_flag = 0
    /\ HasSampleFrequency(c)

(* PrependWithIso14496_1Expanded: what was written apart, behind its size.     *)
PutPrepended(w, inner) ==
    PutOne(PutOne(Require(w, inner.ok), Iso(MaxClassSize), Len(inner.out) \div 8),
           Raw(0), inner.out)

WriteDecoderSpecificInfo(w, c) ==
    PutPrepended(PutOne(w, U(8), c.decoder_specific_info_tag),
                 PutOne(Put(NewWriter(0), SampleFrequencyFields \o ChannelFields, c),
                        Bytes(0), c.decoder_specific_info_extension))

WriteAac(w, c) ==
    PutPrepended(PutOne(w, U(8), c.decoder_config_descriptor_tag),
                 PutOne(WriteDecoderSpecificInfo(Put(NewWriter(0), DescriptorFields, c), c),
                        Bytes(0), c.decoder_config_extension))

(* The size that is read, as the position it leads to.                         *)
TakeEnd(r, name) ==
    Then(TakeOne(r, name, Iso(MaxClassSize)), LAMBDA size :
         Store(size, name, size.at + 8 * size.got[name]))

AdvanceBufferToPosition(r, end, name) == TakeRest(r, end, name)

ReadDecoderSpecificInfo(r) ==
    Then(Take(TakeEnd(TakeOne(r, "decoder_specific_info_tag", U(8)), "inner"),
              SampleFrequencyFields), LAMBDA frequency :
    Then(Take(Require(frequency, HasSampleFrequency(frequency.got)), ChannelFields),
         LAMBDA all :
         AdvanceBufferToPosition(all, all.got.inner, "decoder_specific_info_extension")))

ReadAac(r) ==
    Then(ReadDecoderSpecificInfo(
             Take(TakeEnd(TakeOne(r, "decoder_config_descriptor_tag", U(8)), "outer"),
                  DescriptorFields)), LAMBDA all :
         Without(AdvanceBufferToPosition(all, all.got.outer, "decoder_config_extension"),
                 {"outer", "inner"}))
-------------------------------------------------------------------------------
ConfigFields == << <<"codec_config_id", Leb>>, <<"codec_id", Bytes(4)>>,
                   <<"num_samples_per_frame", Leb>>, <<"audio_roll_distance", S(16)>> >>

RollMatches(c) ==
    c.audio_roll_distance = RequiredRoll(c.codec_id, c.num_samples_per_frame)

WriteDecoderConfig(w, c) ==
    LET config == c.decoder_config
    IN CASE c.codec_id = Lpcm  -> Put(Require(w, ValidLpcm(config)), LpcmFields, config)
         [] c.codec_id = Opus  -> Put(Require(w, ValidOpus(config)), OpusFields, config)
         [] c.codec_id = AacLc -> WriteAac(Require(w, ValidAac(config)), config)
         [] c.codec_id = Flac  ->
               WriteBlocks(Require(w, ValidateEncodingRestrictions(
                                          config, c.num_samples_per_frame)),
                           config.blocks)
         [] OTHER              -> Require(w, FALSE)

ReadDecoderConfig(r, c) ==
    CASE c.codec_id = Lpcm  -> Validated(Take(r, LpcmFields), ValidLpcm)
      [] c.codec_id = Opus  -> Validated(Take(r, OpusFields), ValidOpus)
      [] c.codec_id = AacLc -> Validated(ReadAac(r), ValidAac)
      [] c.codec_id = Flac  ->
            Validated(ReadBlocks(r), LAMBDA config :
                ValidateDecodingRestrictions(config, c.num_samples_per_frame))
      [] OTHER              -> Require(r, FALSE)

WriteCodecConfig(w, c) ==
    Then(Put(Require(w, ValidateNumSamplesPerFrame(c.num_samples_per_frame)),
             ConfigFields, c), LAMBDA fields :
         WriteDecoderConfig(IF fields.ok THEN Require(fields, RollMatches(c)) ELSE fields,
                            c))

ReadCodecConfig(r) ==
    Then(Take(r, ConfigFields), LAMBDA fields :
    Then(Require(fields, ValidateNumSamplesPerFrame(fields.got.num_samples_per_frame)),
         LAMBDA valid :
         TakeStruct(IF valid.ok THEN Require(valid, RollMatches(valid.got)) ELSE valid,
                    "decoder_config", LAMBDA x : ReadDecoderConfig(x, fields.got))))

(* CodecConfigObu::Create: the encoder sets the roll distance by itself.       *)
Create(c) == [c EXCEPT !.audio_roll_distance =
                 RequiredRoll(c.codec_id, c.num_samples_per_frame)]

(* What may follow: the delay of the encoder, which only Opus has a field for. *)
SetCodecDelay(c, delay) ==
    IF c.codec_id = Opus THEN [c EXCEPT !.decoder_config.pre_skip = delay] ELSE c
=============================================================================
