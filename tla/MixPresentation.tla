---------------------------- MODULE MixPresentation ----------------------------
(* The mix presentation OBU, iamf/obu/mix_presentation.cc, with the rendering  *)
(* config of an element in a mix, rendering_config.cc, and the offset of its   *)
(* gain, element_gain_offset_config.cc.                                        *)
(*                                                                             *)
(* An optional member is a sequence of at most one value; a string is the      *)
(* sequence of its characters' codes.                                          *)
EXTENDS AudioElement

ContentLanguage == <<99, 111, 110, 116, 101, 110, 116, 95,
                     108, 97, 110, 103, 117, 97, 103, 101>> \* "content_language"
HasAny(optional) == optional # <<>>
-------------------------------------------------------------------------------
(* ElementGainOffsetConfig: a value, a range around a default, or bytes.       *)
ValueType == 0
RangeType == 1
ValueFields == << <<"element_gain_offset", S(16)>> >>
RangeFields == << <<"default", S(16)>>, <<"min", S(16)>>, <<"max", S(16)>> >>

(* CreateRangeType.                                                            *)
ValidRange(c) == c.min <= c.default /\ c.default <= c.max

WriteGainOffset(w, c) ==
    CASE c.type = ValueType -> Put(PutOne(w, U(8), c.type), ValueFields, c)
      [] c.type = RangeType -> Put(PutOne(w, U(8), c.type), RangeFields, c)
      [] OTHER              -> WriteSized(PutOne(w, U(8), c.type), c.bytes)

ReadGainOffset(r) ==
    Then(TakeOne(r, "type", U(8)), LAMBDA type :
         CASE type.got.type = ValueType -> Take(type, ValueFields)
           [] type.got.type = RangeType -> Validated(Take(type, RangeFields), ValidRange)
           [] OTHER                     -> TakeSized(type, "bytes"))
-------------------------------------------------------------------------------
RenderingFields == << <<"headphones_rendering_mode", U(2)>>, <<"flag", U(1)>>,
                      <<"binaural_filter_profile", U(2)>>, <<"reserved", U(3)>> >>
IsPosition(type) == type \in Polar..DualCart16

WritePosition(w, d) == WriteParamDefinition(PutOne(w, Leb, d.type), d)
ReadPosition(r) ==
    Then(Validated(TakeOne(r, "type", Leb), LAMBDA d : IsPosition(d.type)), LAMBDA known :
         IF known.ok THEN ReadParamDefinition([known EXCEPT !.got = Empty], known.got.type)
         ELSE known)

(* Older profiles had nothing in the extension, then nothing is written.       *)
NothingToExtendButBytes(c) == c.params = <<>> /\ c.gain_offset = <<>>
NothingToExtend(c) ==
    c.params = <<>> /\ c.gain_offset = <<>> /\ c.extension_bytes = <<>>

WriteRenderingExtension(w, c) ==
    LET params == PutEach(PutOne(NewWriter(w.leb), Leb, Len(c.params)), c.params,
                          WritePosition)
    IN Then(PutOne(PutEach(params, c.gain_offset, WriteGainOffset),
                   Bytes(0), c.extension_bytes), LAMBDA inner :
            PutOne(PutOne(Require(w, inner.ok), Leb, Len(inner.out) \div 8),
                   Raw(0), inner.out))

WriteRenderingConfig(w, c) ==
    Then(Put(w, RenderingFields, [m \in {"flag"} |-> Len(c.gain_offset)] @@ c),
         LAMBDA head :
         IF NothingToExtend(c) THEN PutOne(head, Leb, 0)
         ELSE WriteRenderingExtension(head, c))

(* ReadRenderingConfigExtension: what is understood of the extension.          *)
ReadRenderingExtension(r, flag) ==
    TakeEach(TakeCounted(r, "params", Leb, ReadPosition), "gain_offset", flag,
             ReadGainOffset)

Opaque(head) == [head EXCEPT !.got = [params |-> <<>>, gain_offset |-> <<>>]]
UnderstoodOr(head, known) ==
    IF head.ok /\ head.got.size # 0 /\ known.ok THEN known ELSE Opaque(head)

(* If it is not understood, all of it is kept as bytes and the flag is lost;   *)
(* an empty extension loses the flag too.                                      *)
ReadRenderingConfig(r) ==
    Then(Take(r, RenderingFields \o << <<"size", Leb>> >>), LAMBDA head :
    Then(UnderstoodOr(head, ReadRenderingExtension([head EXCEPT !.got = Empty],
                                                   head.got.flag)), LAMBDA parsed :
         Without(TakeRest([parsed EXCEPT !.got = @ @@ head.got],
                          head.at + 8 * head.got.size, "extension_bytes"),
                 {"flag", "size"})))
-------------------------------------------------------------------------------
WriteSubMixElement(w, e, countLabel) ==
    LET id == PutOne(Require(w, Len(e.annotations) = countLabel), Leb,
                     e.audio_element_id)
    IN WriteParamDefinition(
           WriteRenderingConfig(PutMany(id, Str, e.annotations), e.rendering_config),
           e.element_mix_gain)

ReadMixGain(r) == ReadParamDefinition(r, MixGain)
ReadSubMixElement(r, countLabel) ==
    LET annotations == TakeMany(TakeOne(r, "audio_element_id", Leb), "annotations",
                                countLabel, Str)
    IN TakeStruct(TakeStruct(annotations, "rendering_config", ReadRenderingConfig),
                  "element_mix_gain", ReadMixGain)
-------------------------------------------------------------------------------
(* A MixPresentationLayout: the layout, and how loud the mix is on it.         *)
SsConvention == 2 \* kLayoutTypeLoudspeakersSsConvention
Stereo == 0       \* kSoundSystemA_0_2_0
LayoutFields(type) ==
    IF type = SsConvention THEN << <<"sound_system", U(4)>>, <<"reserved", U(2)>> >>
    ELSE << <<"reserved", U(6)>> >>
IsStereo(l) == l.layout_type = SsConvention /\ l.sound_system = Stereo

TruePeak(infoType) == infoType % 2 = 1
AnchoredLoudness(infoType) == (infoType \div 2) % 2 = 1
LayoutExtension(infoType) == infoType \div 4 # 0

LoudnessFields == << <<"info_type", U(8)>>, <<"integrated_loudness", S(16)>>,
                     <<"digital_peak", S(16)>> >>
PeakFields == << <<"true_peak", S(16)>> >>
AnchorFields == << <<"anchor_element", U(8)>>, <<"anchored_loudness", S(16)>> >>
UniqueAnchors(anchors) ==
    AllDifferent([k \in DOMAIN anchors |-> anchors[k].anchor_element])

WriteAnchor(w, a) == Put(w, AnchorFields, a)
ReadAnchor(r) == Take(r, AnchorFields)

WriteLayout(w, l) ==
    Then(Put(PutOne(w, U(2), l.layout_type),
             LayoutFields(l.layout_type) \o LoudnessFields
             \o (IF TruePeak(l.info_type) THEN PeakFields ELSE <<>>), l), LAMBDA peak :
    Then(IF AnchoredLoudness(l.info_type)
         THEN PutEach(PutOne(Require(peak, UniqueAnchors(l.anchors)), U(8),
                             Len(l.anchors)), l.anchors, WriteAnchor)
         ELSE peak, LAMBDA anchors :
         IF LayoutExtension(l.info_type) THEN WriteSized(anchors, l.info_type_bytes)
         ELSE anchors))

DefaultLayout == [true_peak |-> 0, anchors |-> <<>>, info_type_bytes |-> <<>>]
ReadLayout(r) ==
    Then(TakeOne([r EXCEPT !.got = DefaultLayout], "layout_type", U(2)), LAMBDA type :
    Then(Take(type, LayoutFields(type.got.layout_type) \o LoudnessFields),
         LAMBDA loudness :
    Then(Take(loudness, IF TruePeak(loudness.got.info_type) THEN PeakFields ELSE <<>>),
         LAMBDA peak :
    Then(IF AnchoredLoudness(peak.got.info_type)
         THEN Validated(TakeCounted(peak, "anchors", U(8), ReadAnchor),
                        LAMBDA l : UniqueAnchors(l.anchors))
         ELSE peak, LAMBDA anchors :
         IF LayoutExtension(peak.got.info_type) THEN TakeSized(anchors, "info_type_bytes")
         ELSE anchors))))
-------------------------------------------------------------------------------
WriteSubMix(w, m, countLabel) ==
    LET elements == PutEach(PutOne(Require(w, m.audio_elements # <<>>), Leb,
                                   Len(m.audio_elements)),
                            m.audio_elements,
                            LAMBDA x, e : WriteSubMixElement(x, e, countLabel))
        gain == WriteParamDefinition(elements, m.output_mix_gain)
    IN Require(PutEach(PutOne(gain, Leb, Len(m.layouts)), m.layouts, WriteLayout),
               \E k \in DOMAIN m.layouts : IsStereo(m.layouts[k]))

(* That there is a stereo layout is not asked of what is read.                 *)
ReadSubMix(r, countLabel) ==
    Then(TakeOne(r, "n", Leb), LAMBDA num :
         TakeCounted(
             TakeStruct(TakeEach(Require(Without(num, {"n"}), num.got.n # 0),
                                 "audio_elements", num.got.n,
                                 LAMBDA x : ReadSubMixElement(x, countLabel)),
                        "output_mix_gain", ReadMixGain),
             "layouts", Leb, ReadLayout))
-------------------------------------------------------------------------------
TagFields == << <<"tag_name", Str>>, <<"tag_value", Str>> >>
WriteTag(w, t) == Put(w, TagFields, t)
ReadTag(r) == Take(r, TagFields)

ContentLanguages(tags) == {k \in DOMAIN tags : tags[k].tag_name = ContentLanguage}
ValidTags(tags) ==
    /\ Cardinality(ContentLanguages(tags)) <= 1
    /\ \A k \in ContentLanguages(tags) : Len(tags[k].tag_value) = 3

WriteTags(w, tags) ==
    PutEach(PutOne(Require(w, ValidTags(tags)), U(8), Len(tags)), tags, WriteTag)
(* Reading is permissive: what is not valid can be read.                       *)
TakeTags(r, name) ==
    Then(TakeCounted(r, "tags", U(8), ReadTag), LAMBDA tags :
         Store([tags EXCEPT !.got = r.got], name, << tags.got.tags >>))

PreferredFields == << <<"preferred_loudspeaker_renderer", U(8)>>,
                      <<"preferred_binaural_renderer", U(8)>> >>
WriteOptionalFields(w, o) ==
    LET sized == Require(w, Len(o.remaining_bytes) = o.optional_fields_size - 2)
    IN PutOne(Put(PutOne(sized, Leb, o.optional_fields_size), PreferredFields, o),
              Bytes(0), o.remaining_bytes)
ReadOptionalFields(r) ==
    Then(Validated(TakeOne(r, "optional_fields_size", Leb),
                   LAMBDA o : o.optional_fields_size \in 2..MaxObuBytes), LAMBDA sized :
         TakeOne(Take(sized, PreferredFields), "remaining_bytes",
                 Bytes(IF sized.ok THEN sized.got.optional_fields_size - 2 ELSE 0)))
-------------------------------------------------------------------------------
ElementIds(subMixes) ==
    LET upTo[k \in 0..Len(subMixes)] ==
            IF k = 0 THEN <<>>
            ELSE upTo[k - 1] \o [e \in DOMAIN subMixes[k].audio_elements |->
                                    subMixes[k].audio_elements[e].audio_element_id]
    IN upTo[Len(subMixes)]
MixFields == << <<"mix_presentation_id", Leb>>, <<"count_label", Leb>> >>
ValidSubMixes(subMixes) == subMixes # <<>> /\ AllDifferent(ElementIds(subMixes))

WriteMixPresentation(w, header, m) ==
    LET unique == Require(w, /\ AllDifferent(m.annotations_language)
                             /\ Len(m.annotations_language) = m.count_label
                             /\ Len(m.annotations) = m.count_label
                             /\ ValidSubMixes(m.sub_mixes))
        strings == PutMany(PutMany(Put(unique, MixFields, m), Str,
                                   m.annotations_language), Str, m.annotations)
        subMixes == PutEach(PutOne(strings, Leb, Len(m.sub_mixes)), m.sub_mixes,
                            LAMBDA x, s : WriteSubMix(x, s, m.count_label))
    IN Then(PutEach(subMixes, m.tags, WriteTags), LAMBDA tags :
            IF OptionalFieldsFlag(header)
            THEN PutEach(Require(tags, HasAny(m.tags) /\ HasAny(m.optional_fields)),
                         m.optional_fields, WriteOptionalFields)
            ELSE tags)

(* Whatever is left of the payload behind the sub-mixes is taken for tags.     *)
ReadAnnotations(ids) ==
    TakeMany(Validated(TakeMany(ids, "annotations_language", ids.got.count_label, Str),
                       LAMBDA m : AllDifferent(m.annotations_language)),
             "annotations", ids.got.count_label, Str)
ReadSubMixes(r) ==
    Then(TakeCounted(r, "sub_mixes", Leb, LAMBDA x : ReadSubMix(x, r.got.count_label)),
         LAMBDA all :
         IF all.ok THEN Require(all, ValidSubMixes(all.got.sub_mixes)) ELSE all)
ReadMixPresentation(r, header, payloadSize) ==
    Then(ReadSubMixes(ReadAnnotations(
             Take([r EXCEPT !.got = [tags |-> <<>>, optional_fields |-> <<>>]],
                  MixFields))), LAMBDA subMixes :
         IF subMixes.ok /\ subMixes.at - r.at = 8 * payloadSize
         THEN Require(subMixes, ~OptionalFieldsFlag(header))
         ELSE TakeEach(TakeTags(subMixes, "tags"), "optional_fields",
                       IF OptionalFieldsFlag(header) THEN 1 ELSE 0, ReadOptionalFields))
================================================================================
