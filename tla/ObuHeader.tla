------------------------------ MODULE ObuHeader ------------------------------
(* What all OBUs share: the header, iamf/obu/obu_header.cc, and the payload    *)
(* with its footer between the header and the next OBU, iamf/obu/obu_base.cc.  *)
(*                                                                             *)
(* A header is a record of the members of ObuHeader; extension_header_bytes is *)
(* a sequence of at most one sequence of bytes, empty for std::nullopt.        *)
EXTENDS BitStream

MaxObuBytes == 2 * 1024 * 1024 \* kEntireObuSizeMaxTwoMegabytes

CodecConfigType == 0
AudioElementType == 1
MixPresentationType == 2
ParameterBlockType == 3
TemporalDelimiterType == 4
AudioFrameType == 5
AudioFrameId(n) == 6 + n
MetadataType == 24
SequenceHeaderType == 31
ObuTypes == 0..31

IsAudioFrame(type) == type \in {AudioFrameType} \cup {AudioFrameId(n) : n \in 0..17}

IsTemporalUnitObuType(type) ==
    IsAudioFrame(type) \/ type \in {ParameterBlockType, TemporalDelimiterType}

IsRedundantCopyAllowed(type) == ~IsTemporalUnitObuType(type)

IsTypeSpecificFlagAllowed(type) ==
    IsAudioFrame(type) \/ type \in {TemporalDelimiterType, MixPresentationType}

ValidHeader(h) ==
    /\ h.obu_redundant_copy = 1 => IsRedundantCopyAllowed(h.obu_type)
    /\ h.type_specific_flag = 1 => IsTypeSpecificFlagAllowed(h.obu_type)

TrimmingStatusFlag(h) == IsAudioFrame(h.obu_type) /\ h.type_specific_flag = 1
OptionalFieldsFlag(h) == h.obu_type = MixPresentationType /\ h.type_specific_flag = 1
ExtensionHeaderFlag(h) == IF h.extension_header_bytes = <<>> THEN 0 ELSE 1
ExtensionHeaderSize(h) ==
    IF h.extension_header_bytes = <<>> THEN 0 ELSE Len(h.extension_header_bytes[1])

UnderTwoMegabytes(obuSize, sizeOfObuSize) ==
    obuSize <= MaxObuBytes - 1 - sizeOfObuSize
-------------------------------------------------------------------------------
TypeAndFlags == << <<"obu_type", U(5)>>, <<"obu_redundant_copy", U(1)>>,
                   <<"type_specific_flag", U(1)>> >>
Trimming == << <<"num_samples_to_trim_at_end", Leb>>,
               <<"num_samples_to_trim_at_start", Leb>> >>

WriteFieldsAfterObuSize(w, h) ==
    Then(IF TrimmingStatusFlag(h) THEN Put(w, Trimming, h) ELSE w, LAMBDA trimmed :
         IF ExtensionHeaderFlag(h) = 0 THEN trimmed
         ELSE PutOne(PutOne(trimmed, Leb, ExtensionHeaderSize(h)), Bytes(0),
                     h.extension_header_bytes[1]))

(* GetObuSizeAndValidate: everything behind obu_size is counted in it.         *)
ObuSize(fields, payloadSize) == Len(fields.out) \div 8 + payloadSize

HeaderWritable(h, obuSize, size) ==
    /\ size.ok
    /\ UnderTwoMegabytes(obuSize, Len(size.out) \div 8)
    /\ ValidHeader(h)

(* The fields behind obu_size are written apart first, to know their size.     *)
WriteHeader(w, h, payloadSize) ==
    Then(WriteFieldsAfterObuSize(NewWriter(w.leb), h), LAMBDA fields :
    Then(PutOne(Require(NewWriter(w.leb), fields.ok), Leb, ObuSize(fields, payloadSize)),
         LAMBDA size :
    Then(Require(w, HeaderWritable(h, ObuSize(fields, payloadSize), size)), LAMBDA valid :
         WriteFieldsAfterObuSize(
             PutOne(PutOne(Put(valid, TypeAndFlags, h), U(1), ExtensionHeaderFlag(h)),
                    Leb, ObuSize(fields, payloadSize)), h))))

(* FillHeaderMetadata: what is needed to find the next OBU; the position is    *)
(* where it was.                                                               *)
PeekObuTypeAndTotalObuSize(r) ==
    Then(Take(r, TypeAndFlags \o << <<"extension", U(1)>>, <<"obu_size", Leb>> >>),
         LAMBDA size :
         [ok |-> size.ok, type |-> size.got.obu_type,
          total |-> size.got.obu_size + (size.at - r.at) \div 8])

(* GetObuPayloadSize: the sizes of the other fields, all of them uint8_t.      *)
PayloadSizeIgnoresTrimming(obuSize, trimming, sizeOfExtensionSize, extensionSize) ==
    obuSize - (sizeOfExtensionSize + extensionSize)
PayloadSize(obuSize, trimming, sizeOfExtensionSize, extensionSize) ==
    obuSize - (trimming + sizeOfExtensionSize + (extensionSize % 256))

(* The members that are not in the stream keep their initial values.           *)
DefaultHeader == [obu_type |-> 0, obu_redundant_copy |-> 0, type_specific_flag |-> 0,
                  num_samples_to_trim_at_end |-> 0, num_samples_to_trim_at_start |-> 0,
                  extension_header_bytes |-> <<>>]

(* ObuHeader::ReadAndValidate: [header, payload], the reader behind the header *)
(* and the size of the payload.                                                *)
HeaderOf(m) ==
    [f \in DOMAIN DefaultHeader |->
        IF f = "extension_header_bytes" /\ m.extension = 1 THEN << m.bytes >> ELSE m[f]]
Parsed(r, header, payload) ==
    [reader |-> Require(r, payload >= 0 /\ ValidHeader(header)),
     header |-> header, payload |-> payload]

ReadHeader(r) ==
    Then(Take([r EXCEPT !.got = DefaultHeader],
              TypeAndFlags \o << <<"extension", U(1)>> >>), LAMBDA flags :
    Then(TakeOne(flags, "obu_size", Leb), LAMBDA size :
    Then(Take(Require(size, UnderTwoMegabytes(size.got.obu_size,
                                              (size.at - flags.at) \div 8)),
              IF TrimmingStatusFlag(size.got) THEN Trimming ELSE <<>>), LAMBDA trimmed :
    Then(IF flags.got.extension = 1 THEN TakeOne(trimmed, "extension_size", Leb)
         ELSE Store(trimmed, "extension_size", 0), LAMBDA extension :
    Then(TakeOne(extension, "bytes", Bytes(extension.got.extension_size)), LAMBDA bytes :
         Parsed([bytes EXCEPT !.got = r.got], HeaderOf(bytes.got),
                PayloadSize(size.got.obu_size, (trimmed.at - size.at) \div 8,
                            (extension.at - trimmed.at) \div 8,
                            extension.got.extension_size)))))))
-------------------------------------------------------------------------------
(* ObuBase::ValidateAndWriteObu: `Write` writes the payload of the OBU.  The   *)
(* header is written when the size of the payload is known.                    *)
WriteObu(w, obu, Write(_, _)) ==
    Then(PutOne(Write(NewWriter(w.leb), obu), Bytes(0), obu.footer), LAMBDA whole :
         PutOne(WriteHeader(Require(w, whole.ok /\ IsByteAligned(whole)), obu.header,
                            Len(whole.out) \div 8),
                Raw(0), whole.out))

(* ObuBase::ReadAndValidatePayload: the bytes nobody understood, up to the     *)
(* size the header gave, are the footer.                                       *)
FooterIsIgnored(r, end) == Store(r, "footer", <<>>)
ReadFooter(r, end) ==
    TakeOne(Require(r, r.at <= end /\ (end - r.at) % 8 = 0), "footer",
            Bytes((end - r.at) \div 8))

(* `Read` reads the payload of an OBU with the header and the payload size.    *)
ReadObu(r, Read(_, _, _)) ==
    Then(ReadHeader(r), LAMBDA h :
         Store(ReadFooter(IF h.reader.ok
                          THEN TakeStruct(h.reader, "payload",
                                          LAMBDA x : Read(x, h.header, h.payload))
                          ELSE Store(h.reader, "payload", Empty),
                          h.reader.at + 8 * h.payload),
               "header", h.header))
=============================================================================
