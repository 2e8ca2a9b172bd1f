------------------------------ MODULE ObuSyntax ------------------------------
(* OBUs on their way from a writer through a stream to a reader, and through a *)
(* writer again: ObuBase::ValidateAndWriteObu, CreateFromBuffer of the class   *)
(* the header's type stands for, as iamf/cli/obu_processor.cc calls it, and    *)
(* ValidateAndWriteObu on what was read.  On the way a bit of the stream may   *)
(* be flipped, or the stream may end within the OBU.                           *)
(*                                                                             *)
(* The payloads that are not in a module of their own are here: the sequence   *)
(* header, audio frames and metadata.  A temporal delimiter has none.          *)
EXTENDS CodecConfig, MixPresentation

CONSTANTS
    Obus,        \* what is written: a sequence of OBUs
    LebSizes,    \* the sizes of a leb128 the writer is configured with, 0 for the least
    Definitions, \* the parameter definitions the reader knows: a sequence
    Flipped      \* which of the OBUs a bit is flipped in

ASSUME SyntaxAssumption ==
    /\ LebSizes \subseteq 0..MaxLeb128Size
    /\ Flipped \subseteq DOMAIN Obus
    /\ \A k \in DOMAIN Definitions : HasData(Definitions[k])

VARIABLES
    phase,  \* how far the OBU has come
    which,  \* the OBU of Obus that is written
    leb,    \* the size of the writer's leb128s
    wire,   \* the bits of the stream
    fate,   \* what happened to the stream
    got     \* what the reader made of it

vars == <<phase, which, leb, wire, fate, got>>
-------------------------------------------------------------------------------
IaCode == <<105, 97, 109, 102>> \* "iamf"
SequenceHeaderFields == << <<"primary_profile", U(8)>>, <<"additional_profile", U(8)>> >>
ValidateProfileVersion(h) == h.primary_profile \in 0..5

WriteSequenceHeader(w, h) ==
    Put(PutOne(Require(w, ValidateProfileVersion(h)), Bytes(4), IaCode),
        SequenceHeaderFields, h)
ReadSequenceHeader(r) ==
    Validated(Take(Without(Validated(TakeOne(r, "ia_code", Bytes(4)),
                                     LAMBDA h : h.ia_code = IaCode), {"ia_code"}),
                   SequenceHeaderFields),
              ValidateProfileVersion)
-------------------------------------------------------------------------------
(* The substream of an audio frame is in its type, or in front of its data.    *)
IdIsImplied(type) == type # AudioFrameType

WriteAudioFrame(w, header, f) ==
    PutOne(IF IdIsImplied(header.obu_type) THEN w ELSE PutOne(w, Leb, f.audio_substream_id),
           Bytes(0), f.audio_frame)
ReadAudioFrame(r, header, payloadSize) ==
    TakeRest(IF IdIsImplied(header.obu_type)
             THEN Store(r, "audio_substream_id", header.obu_type - AudioFrameId(0))
             ELSE TakeOne(r, "audio_substream_id", Leb),
             r.at + 8 * payloadSize, "audio_frame")
-------------------------------------------------------------------------------
MetadataItuT35 == 1
MetadataTags == 2
HasCountryExtension(code) == code = 255

WriteItuT35(w, m) ==
    LET hasExtension == HasCountryExtension(m.country_code)
        valid == Require(w, hasExtension => m.country_code_extension # <<>>)
    IN PutOne(PutMany(PutOne(valid, U(8), m.country_code), U(8),
                      IF hasExtension THEN m.country_code_extension ELSE <<>>),
              Bytes(0), m.payload_bytes)

(* What is left of the payload; a size below zero, of which the code makes a   *)
(* size no vector can have, ends the reading.                                  *)
ReadItuT35(r, end) ==
    Then(TakeOne(r, "country_code", U(8)), LAMBDA code :
         TakeRest(TakeMany(code, "country_code_extension",
                           IF HasCountryExtension(code.got.country_code) THEN 1 ELSE 0,
                           U(8)),
                  end, "payload_bytes"))

WriteMetadata(w, m) ==
    Then(PutOne(w, Leb, m.metadata_type), LAMBDA type :
         CASE m.metadata_type = MetadataItuT35 -> WriteItuT35(type, m)
           [] m.metadata_type = MetadataTags ->
                 PutEach(PutOne(type, U(8), Len(m.tags)), m.tags, WriteTag)
           [] OTHER -> type)
ReadMetadata(r, payloadSize) ==
    Then(TakeOne(r, "metadata_type", Leb), LAMBDA type :
         CASE type.got.metadata_type = MetadataItuT35 ->
                 ReadItuT35(type, r.at + 8 * payloadSize)
           [] type.got.metadata_type = MetadataTags ->
                 TakeCounted(type, "tags", U(8), ReadTag)
           [] OTHER -> type)
-------------------------------------------------------------------------------
(* The definition a parameter block is read with; without one it is skipped.   *)
Known(id) == {k \in DOMAIN Definitions : Definitions[k].base.parameter_id = id}

WritePayload(w, obu) ==
    LET type == obu.header.obu_type
        p == obu.payload
    IN CASE type = CodecConfigType     -> WriteCodecConfig(w, p)
         [] type = AudioElementType    -> WriteAudioElement(w, p)
         [] type = MixPresentationType -> WriteMixPresentation(w, obu.header, p)
         [] type = ParameterBlockType  ->
               WriteParameterBlock(w, Definitions[CHOOSE k \in Known(p.parameter_id) :
                                                      TRUE], p)
         [] type = SequenceHeaderType  -> WriteSequenceHeader(w, p)
         [] type = MetadataType        -> WriteMetadata(w, p)
         [] IsAudioFrame(type)         -> WriteAudioFrame(w, obu.header, p)
         [] OTHER                      -> w

ReadKnownParameterBlock(r) ==
    Then(Known(PeekParameterId(r).got.parameter_id), LAMBDA known :
         IF known = {} THEN Require(r, FALSE)
         ELSE ReadParameterBlock(r, Definitions[CHOOSE k \in known : TRUE]))

(* Reserved types are skipped by the caller.                                   *)
ReadPayload(r, header, payloadSize) ==
    LET type == header.obu_type
    IN CASE type = CodecConfigType       -> ReadCodecConfig(r)
         [] type = AudioElementType      -> ReadAudioElement(r)
         [] type = MixPresentationType   -> ReadMixPresentation(r, header, payloadSize)
         [] type = ParameterBlockType    -> ReadKnownParameterBlock(r)
         [] type = SequenceHeaderType    -> ReadSequenceHeader(r)
         [] type = MetadataType          -> ReadMetadata(r, payloadSize)
         [] type = TemporalDelimiterType -> r
         [] IsAudioFrame(type)           -> ReadAudioFrame(r, header, payloadSize)
         [] OTHER                        -> Require(r, FALSE)

WriteOneObu(size, obu) == WriteObu(NewWriter(size), obu, WritePayload)
ReadOneObu(bits) ==
    Then(ReadObu(NewReader(bits), ReadPayload), LAMBDA r :
         [ok |-> r.ok, at |-> r.at, obu |-> r.got])
-------------------------------------------------------------------------------
(* Behind the OBU the stream goes on with a temporal delimiter.                *)
Next2 == BitsOf(<<TemporalDelimiterType * 8, 0>>)
Nothing == [ok |-> FALSE, at |-> 0, obu |-> Empty]

Init ==
    /\ phase = "start"
    /\ which = 1 /\ leb = 0
    /\ wire = <<>> /\ fate = "whole"
    /\ got = Nothing

Send(w, sent, refused) ==
    /\ wire' = IF w.ok THEN w.out ELSE <<>>
    /\ phase' = IF w.ok THEN sent ELSE refused

Write ==
    /\ phase = "start"
    /\ \E k \in DOMAIN Obus, size \in LebSizes :
          /\ which' = k /\ leb' = size
          /\ Send(WriteOneObu(size, Obus[k]), "written", "refused")
    /\ UNCHANGED <<fate, got>>

(* A bit of what was written is received wrong.                                *)
Flip ==
    /\ phase = "written" /\ fate = "whole"
    /\ which \in Flipped /\ leb = 0
    /\ \E k \in DOMAIN wire : wire' = [wire EXCEPT ![k] = 1 - @]
    /\ fate' = "flipped"
    /\ UNCHANGED <<phase, which, leb, got>>

(* The stream ends within the OBU.                                             *)
Cut ==
    /\ phase = "written" /\ fate = "whole"
    /\ leb = 0
    /\ \E n \in 0..(Len(wire) \div 8 - 1) : wire' = SubSeq(wire, 1, 8 * n)
    /\ fate' = "cut"
    /\ UNCHANGED <<phase, which, leb, got>>

Read ==
    /\ phase = "written"
    /\ got' = ReadOneObu(IF fate = "cut" THEN wire ELSE wire \o Next2)
    /\ phase' = "read"
    /\ UNCHANGED <<which, leb, wire, fate>>

(* The second writer replaces the stream by its own.                           *)
Rewrite ==
    /\ phase = "read" /\ got.ok
    /\ Send(WriteOneObu(leb, got.obu), "rewritten", "not rewritten")
    /\ UNCHANGED <<which, leb, fate, got>>

Next == Write \/ Flip \/ Cut \/ Read \/ Rewrite

Spec == Init /\ [][Next]_vars
-------------------------------------------------------------------------------
Original == Obus[which]
HasBeenRead == phase \in {"read", "rewritten"} /\ got.ok
TypeRead == got.obu.header.obu_type
PayloadRead == got.obu.payload

(* An extension is the one config that is not kept.                            *)
AsRead(obu) ==
    IF obu.header.obu_type = AudioElementType /\ obu.payload.audio_element_type > ObjectBased
    THEN [obu EXCEPT !.payload.config = Empty] ELSE obu

(* What is written whole is read as it was, with every member of it; and only  *)
(* a number too large for the size of the leb128s keeps an OBU from being      *)
(* written.                                                                    *)
RoundTrip ==
    /\ phase = "refused" => leb \in 1..(MaxGroups - 1)
    /\ phase = "read" /\ fate = "whole" => got.ok /\ got.obu = AsRead(Original)

(* Whoever skips an OBU by its header, without reading it, comes to the same   *)
(* place as who reads it, even if a bit of it is wrong: the descriptors are    *)
(* found by one and decoded by the other.                                      *)
NextObuFound ==
    phase = "read" /\ got.ok =>
        LET peeked == PeekObuTypeAndTotalObuSize(NewReader(wire))
        IN peeked.ok /\ got.at = 8 * peeked.total

(* An OBU the stream does not hold all of is not read as a shorter one.        *)
CutShortIsRefused == phase = "read" /\ fate = "cut" => ~got.ok

(* Readers and those that skip agree on where an OBU ends.                     *)
EndsAgree == NextObuFound /\ CutShortIsRefused

(* What was read, whatever it was, and written again, is read as the same.     *)
ReadingIsStable ==
    phase = "rewritten" =>
        Then(ReadOneObu(wire), LAMBDA second : second.ok /\ second.obu = got.obu)

(* Reading takes what writing refuses in these cases, and in no other: a       *)
(* definition that is not validated, or twice in an element, the config of an  *)
(* extension, a mix without a stereo layout or with odd tags, and the fields   *)
(* of FLAC that are only asked of an encoder.                                  *)
NotValidated(d) == ~IsExtended(d) /\ ~ValidDefinition(d.type, d.base)
PermissiveSubMix(m) ==
    \/ NotValidated(m.output_mix_gain)
    \/ ~\E k \in DOMAIN m.layouts : IsStereo(m.layouts[k])
    \/ \E k \in DOMAIN m.audio_elements :
          LET e == m.audio_elements[k]
          IN \/ NotValidated(e.element_mix_gain)
             \/ \E i \in DOMAIN e.rendering_config.params :
                   NotValidated(e.rendering_config.params[i])
ReadPermissively ==
    CASE TypeRead = AudioElementType ->
            \/ PayloadRead.audio_element_type > ObjectBased
            \/ ~ValidateUniqueParamDefinitionType(PayloadRead.params)
            \/ \E k \in DOMAIN PayloadRead.params : NotValidated(PayloadRead.params[k])
      [] TypeRead = MixPresentationType ->
            \/ \E k \in DOMAIN PayloadRead.sub_mixes :
                  PermissiveSubMix(PayloadRead.sub_mixes[k])
            \/ \E k \in DOMAIN PayloadRead.tags : ~ValidTags(PayloadRead.tags[k])
      [] TypeRead = CodecConfigType ->
            /\ PayloadRead.codec_id = Flac
            /\ ~ValidateEncodingRestrictions(PayloadRead.decoder_config,
                                              PayloadRead.num_samples_per_frame)
      [] OTHER -> FALSE
AcceptedIsWritable == phase = "not rewritten" => ReadPermissively

(* What was read can be written, and means the same.                           *)
RewritingAgrees == ReadingIsStable /\ AcceptedIsWritable

(* The subblocks of a block are as long as the block, and one of them is there *)
(* for its first and for its last time.                                        *)
SubblocksCoverBlock ==
    HasBeenRead /\ TypeRead = ParameterBlockType =>
        LET b == PayloadRead
            d == Definitions[CHOOSE k \in Known(b.parameter_id) : TRUE]
            n == GetNumSubblocks(d, b)
            duration == GetDuration(d, b)
        IN /\ Len(b.subblocks) = n
           /\ Total([i \in 1..n |-> GetSubblockDuration(d, b, i - 1)]) = duration
           /\ duration > 0 => /\ TargetSubblock(d, b, 0) # -1
                              /\ TargetSubblock(d, b, duration - 1) # -1

(* "Returns the size of the payload associated with the OBU, i.e. the number   *)
(* of bytes that contain payload data" (obu_header.cc:187-189).                *)
PayloadSizeIsExact ==
    phase = "written" /\ fate = "whole" =>
        ReadHeader(NewReader(wire)).payload
        = Len(WritePayload(NewWriter(leb), Original).out) \div 8 + Len(Original.footer)
===============================================================================
