----------------------------- MODULE Descriptors ----------------------------
(***************************************************************************)
(* How a decoder gets from bytes to a mix to render: the descriptors are    *)
(* read as soon as all of them are there (descriptor_obu_parser.cc), kept,  *)
(* checked against each other (obu_processor.cc, cli_util.cc), and a mix    *)
(* presentation and a layout are selected (profile_filter.cc,               *)
(* obu_processor_utils.cc). iamf_decoder.cc tries again whenever it has got *)
(* more bytes, and after a reset with another request.                     *)
(*                                                                         *)
(* An OBU is a record with what matters of it. It arrives in two parts: the *)
(* first tells its type and its size.                                      *)
(***************************************************************************)
EXTENDS ProfileFilter

CONSTANTS
  Streams,    \* what is decoded: [obus, exhaustive, request]
  Requests,   \* what is asked for in a reset: [mix, layout, profiles]
  None        \* nothing asked for, nothing selected

IsSequence(s) == s \in Seq(ToSet(s))

(* What the readers of an OBU make sure of: every sub mix has elements, but *)
(* perhaps no layouts.                                                     *)
WellFormed(obu) ==
  /\ obu.type = "MixPresentation" /\ obu.readable =>
       /\ IsSequence(obu.subMixes) /\ obu.subMixes # <<>>
       /\ \A i \in DOMAIN obu.subMixes :
            /\ IsSequence(obu.subMixes[i].elements) /\ obu.subMixes[i].elements # <<>>
            /\ IsSequence(obu.subMixes[i].layouts)
  /\ obu.type = "AudioElement" /\ obu.readable =>
       obu.kind \in {"channels", "ambisonics", "objects"} /\ obu.channels \in Nat

ASSUME StreamsAssumption ==
  \A s \in Streams :
    /\ s.exhaustive \in BOOLEAN /\ s.request.profiles \subseteq ProfileVersions
    /\ IsSequence(s.obus) /\ \A i \in DOMAIN s.obus : WellFormed(s.obus[i])

VARIABLES
  buffer,     \* the OBUs that are read, from the start of the descriptors
  exhaustive, \* is_exhaustive_and_exact: the buffer has descriptors only
  request,    \* desired mix presentation, layout and profiles
  received,   \* how many parts of the OBUs there are
  position,   \* how many OBUs are read
  kept,       \* ParsedDescriptorObus, by their place in the buffer
  pc,         \* "waiting", "parsing", "parsed", "initialized", "ready" or "failed"
  selected,   \* [mix, layout, subMix, index] of what is rendered
  resets      \* how often the decoder was reset

vars == <<buffer, exhaustive, request, received, position, kept, pc, selected, resets>>

(* Where the OBUs that count are: headers and mixes in their order, codec   *)
(* configs and elements by id. An element points to a codec config, that    *)
(* inserting another one may move.                                         *)
NothingKept == [header |-> 0, codecs |-> <<>>, elements |-> <<>>, mixes |-> <<>>,
                dangling |-> {}]

Init ==
  /\ \E s \in Streams :
       /\ buffer = s.obus /\ exhaustive = s.exhaustive /\ request = s.request
       /\ received = IF s.exhaustive THEN 2 * Len(s.obus) ELSE 0
       /\ pc = IF s.exhaustive THEN "parsing" ELSE "waiting"
  /\ position = 0 /\ kept = NothingKept /\ selected = None /\ resets = 0

-----------------------------------------------------------------------------
(* Reading.                                                                *)

Obu == buffer[position + 1]
At == position + 1

CanPeek == received > 2 * position
CanRead == received >= 2 * (position + 1)

(* Decode: some more bytes, then CreateObuProcessor.                       *)
Receive ==
  /\ pc = "waiting" /\ received < 2 * Len(buffer)
  /\ \E r \in received + 1..2 * Len(buffer) : received' = r
  /\ pc' = "parsing" /\ kept' = NothingKept
  /\ UNCHANGED <<buffer, exhaustive, request, position, selected, resets>>

StaysThere == position

(* Where reading started: what came before was flushed.                    *)
Start == 0

(* InsufficientDataReset: back to the start, everything is read again. With *)
(* an exact set of descriptors it is an error.                             *)
Insufficient ==
  /\ pc = "parsing"
  /\ ~CanRead /\ (CanPeek => Obu.type \notin {"TemporalUnit", "Unpeekable"})
  /\ position' = Start
  /\ kept' = NothingKept
  /\ pc' = IF exhaustive THEN "failed" ELSE "waiting"
  /\ UNCHANGED <<buffer, exhaustive, request, received, selected, resets>>

(* A header that is not one is not bypassed: its size is no number, or it   *)
(* is too large or not valid, which shows only when it is read.             *)
RefuseHeader ==
  /\ pc = "parsing"
  /\ \/ CanPeek /\ Obu.type = "Unpeekable"
     \/ CanRead /\ Obu.type = "Invalid"
  /\ pc' = "failed"
  /\ UNCHANGED <<buffer, exhaustive, request, received, position, kept, selected, resets>>

(* A temporal unit ends the descriptors, if there was a header.            *)
ReachTemporalUnit ==
  /\ pc = "parsing" /\ CanPeek /\ Obu.type = "TemporalUnit"
  /\ pc' = IF exhaustive \/ kept.header = 0 THEN "failed" ELSE "parsed"
  /\ position' = IF exhaustive THEN Start ELSE position
  /\ UNCHANGED <<buffer, exhaustive, request, received, kept, selected, resets>>

(* So does the header of another sequence.                                 *)
ReachNextSequence ==
  /\ pc = "parsing" /\ CanRead /\ Obu.type = "SequenceHeader"
  /\ kept.header # 0 /\ ~Obu.redundant
  /\ pc' = "parsed"
  /\ UNCHANGED <<buffer, exhaustive, request, received, position, kept, selected, resets>>

Consumes(type) == pc = "parsing" /\ CanRead /\ Obu.type = type

(* The end of an iteration: the first OBU must have been a header, and an   *)
(* exact set of descriptors ends with the data.                            *)
Kept(k) ==
  /\ kept' = k
  /\ position' = position + 1
  /\ pc' = IF k.header = 0 THEN "failed"
           ELSE IF exhaustive /\ position + 1 = Len(buffer) THEN "parsed"
           ELSE "parsing"
  /\ UNCHANGED <<buffer, exhaustive, request, received, selected, resets>>

ReadSequenceHeader ==
  /\ Consumes("SequenceHeader")
  /\ kept.header = 0 \/ Obu.redundant
  /\ IF Obu.readable THEN Kept([kept EXCEPT !.header = At])
     ELSE /\ pc' = "failed"
          /\ UNCHANGED <<buffer, exhaustive, request, received, position, kept, selected,
                         resets>>

(* What a map has after an insertion: nothing is replaced.                 *)
Inserted(f, key, value) ==
  [x \in DOMAIN f \union {key} |-> IF x \in DOMAIN f THEN f[x] ELSE value]

(* GetAndStoreCodecConfigObu: the first of an id is kept. A new entry may   *)
(* move the others.                                                        *)
ReadCodecConfig ==
  /\ Consumes("CodecConfig")
  /\ IF Obu.readable /\ ~Obu.tiny /\ Obu.id \notin DOMAIN kept.codecs
     THEN \E moved \in {{}, DOMAIN kept.elements} :
            Kept([kept EXCEPT !.codecs = Inserted(kept.codecs, Obu.id, At),
                              !.dangling = @ \union moved])
     ELSE Kept(kept)

(* GetAndStoreAudioElement: one whose codec config is missing, or whose     *)
(* layers make no sense, is bypassed, and so is a second one of an id.      *)
ReadAudioElement ==
  /\ Consumes("AudioElement")
  /\ IF /\ Obu.readable /\ Obu.config # "senseless"
        /\ Obu.codec \in DOMAIN kept.codecs
     THEN Kept([kept EXCEPT !.elements = Inserted(kept.elements, Obu.id, At)])
     ELSE Kept(kept)

AnyElements(k, mix) == TRUE

(* The elements of a mix are there.                                        *)
HasElements(k, mix) == \A x \in ElementsOfMix(mix) : x.id \in DOMAIN k.elements

(* GetAndStoreMixPresentationObu: every one whose elements are there, also  *)
(* a copy.                                                                 *)
ReadMixPresentation ==
  /\ Consumes("MixPresentation")
  /\ IF Obu.readable /\ HasElements(kept, Obu)
     THEN Kept([kept EXCEPT !.mixes = Append(@, At)])
     ELSE Kept(kept)

(* Reserved OBUs and metadata.                                             *)
Bypass == Consumes("Reserved") /\ Kept(kept)

-----------------------------------------------------------------------------
(* The processor.                                                          *)

KeptElement(id) == buffer[kept.elements[id]]
KeptMix(i) == buffer[kept.mixes[i]]

(* What the filter sees of the elements: with their codec configs.         *)
FilteredElements ==
  [id \in DOMAIN kept.elements |->
     [kind |-> KeptElement(id).kind, config |-> KeptElement(id).config,
      channels |-> KeptElement(id).channels,
      codec |-> buffer[kept.codecs[KeptElement(id).codec]]]]

(* The parameters defined in elements and mixes: [id, definition].         *)
ParamDefinitions ==
  UNION ({KeptElement(id).params : id \in DOMAIN kept.elements}
           \union {KeptMix(i).params : i \in DOMAIN kept.mixes})

(* CollectAndValidateParamDefinitions, GlobalTimingModule and               *)
(* ParametersManager: no parameter is defined in two ways, every substream  *)
(* has one element, and no element is incoherent: it names a substream      *)
(* twice, has two demixing or two recon gain definitions (its reader does   *)
(* not get to look), or recon gains without layers.                         *)
Consistent ==
  /\ \A p, q \in ParamDefinitions : p.id = q.id => p = q
  /\ \A id \in DOMAIN kept.elements : KeptElement(id).coherent
  /\ \A a, b \in DOMAIN kept.elements :
       a # b => KeptElement(a).substreams \intersect KeptElement(b).substreams = {}

(* InitializeInternal.                                                     *)
Initialize ==
  /\ pc = "parsed"
  /\ pc' = IF Consistent THEN "initialized" ELSE "failed"
  /\ UNCHANGED <<buffer, exhaustive, request, received, position, kept, selected, resets>>

IsSupported(i) ==
  FilterProfilesForMixPresentation(FilteredElements, KeptMix(i), request.profiles) # {}

GetSupportedMixPresentations == {i \in DOMAIN kept.mixes : IsSupported(i)}

LayoutsOf(mix) == UNION {ToSet(mix.subMixes[j].layouts) : j \in DOMAIN mix.subMixes}

HasId(i) == request.mix # None /\ KeptMix(i).id = request.mix
HasLayout(i) == request.layout # None /\ request.layout \in LayoutsOf(KeptMix(i))

First(places) == CHOOSE i \in places : \A j \in places : i <= j

WithId(supported) == {i \in supported : HasId(i)}
WithLayout(supported) == {i \in supported : HasLayout(i)}

SelectedMixByLayoutFirst(supported) ==
  IF WithLayout(supported) # {} THEN First(WithLayout(supported))
  ELSE IF WithId(supported) # {} THEN First(WithId(supported))
  ELSE First(supported)

(* The mix asked for, one with the layout asked for, or the first.         *)
SelectedMix(supported) ==
  IF WithId(supported) # {} THEN First(WithId(supported))
  ELSE IF WithLayout(supported) # {} THEN First(WithLayout(supported))
  ELSE First(supported)

(* Without a layout to ask for, the first sub mix must have one.           *)
HasOutputLayout(supported) ==
  request.layout # None \/ KeptMix(SelectedMix(supported)).subMixes[1].layouts # <<>>

(* The first sub mix that has the layout asked for; else the first sub mix, *)
(* to which the layout is added.                                           *)
OutputOf(i, subMixes, layout) ==
  LET having == {j \in DOMAIN subMixes : layout \in ToSet(subMixes[j].layouts)}
      j == First(having)
      k == First({n \in DOMAIN subMixes[j].layouts : subMixes[j].layouts[n] = layout})
      first == subMixes[1].layouts
  IN CASE layout = None -> [mix |-> i, layout |-> first[1], subMix |-> 1, index |-> 1]
       [] layout # None /\ having # {} ->
            [mix |-> i, layout |-> layout, subMix |-> j, index |-> k]
       [] layout # None /\ having = {} ->
            [mix |-> i, layout |-> layout, subMix |-> 1, index |-> Len(first) + 1]

FindMixPresentationAndLayout(supported) ==
  LET i == SelectedMix(supported) IN OutputOf(i, KeptMix(i).subMixes, request.layout)

(* The layouts after one may have been added.                              *)
LayoutsWith(s) ==
  LET layouts == KeptMix(s.mix).subMixes[s.subMix].layouts
  IN IF s.index \in DOMAIN layouts THEN layouts ELSE Append(layouts, request.layout)

(* The elements of the sub mix that is rendered: the simplified mix has no  *)
(* other. Objects cannot be reconstructed.                                 *)
Rendered(s) == {x.id : x \in ElementsOf(KeptMix(s.mix).subMixes[s.subMix])}

CanReconstruct(s) ==
  \A id \in Rendered(s) : KeptElement(id).kind \in {"channels", "ambisonics"}

(* InitializeForRendering.                                                 *)
Select ==
  /\ pc = "initialized"
  /\ LET supported == GetSupportedMixPresentations
         s == FindMixPresentationAndLayout(supported)
     IN IF /\ kept.mixes # <<>> /\ DOMAIN kept.elements # {} /\ supported # {}
           /\ HasOutputLayout(supported) /\ CanReconstruct(s)
        THEN pc' = "ready" /\ selected' = s
        ELSE pc' = "failed" /\ UNCHANGED selected
  /\ UNCHANGED <<buffer, exhaustive, request, received, position, kept, resets>>

(* Reset and ResetWithNewMix: a decoder created from descriptors reads what *)
(* it stored of them again.                                                *)
ResetWithNewMix ==
  /\ pc = "ready" /\ exhaustive /\ resets = 0
  /\ \E r \in Requests :
       request' = [mix |-> r.mix, layout |-> r.layout, profiles |-> request.profiles]
  /\ buffer' = SubSeq(buffer, 1, position)
  /\ received' = 2 * position /\ position' = Start
  /\ kept' = NothingKept /\ selected' = None /\ pc' = "parsing" /\ resets' = 1
  /\ UNCHANGED exhaustive

Next ==
  \/ Receive \/ Insufficient \/ RefuseHeader
  \/ ReachTemporalUnit \/ ReachNextSequence
  \/ ReadSequenceHeader \/ ReadCodecConfig \/ ReadAudioElement \/ ReadMixPresentation
  \/ Bypass
  \/ Initialize \/ Select \/ ResetWithNewMix

Spec == Init /\ [][Next]_vars

-----------------------------------------------------------------------------
(* The descriptors by what they are, not by how they are read.              *)

Ends(i) ==
  \/ buffer[i].type = "TemporalUnit"
  \/ i > 1 /\ buffer[i].type = "SequenceHeader" /\ ~buffer[i].redundant

(* The OBU that ends the descriptors; the one after the last if none does.  *)
End == LET ends == {i \in DOMAIN buffer : Ends(i)}
       IN IF ends = {} THEN Len(buffer) + 1 ELSE First(ends)

Arrived == /\ End <= Len(buffer)
           /\ IF buffer[End].type = "TemporalUnit" THEN received > 2 * (End - 1)
              ELSE received >= 2 * End

ReadableOf(type) ==
  {i \in 1..End - 1 : buffer[i].type = type /\ buffer[i].readable}

FirstsOfTheirId(places) ==
  {i \in places : \A j \in places : j < i => buffer[j].id # buffer[i].id}

Codecs == FirstsOfTheirId({i \in ReadableOf("CodecConfig") : ~buffer[i].tiny})

AudioElements ==
  FirstsOfTheirId({i \in ReadableOf("AudioElement") :
                     /\ buffer[i].config # "senseless"
                     /\ \E j \in Codecs : j < i /\ buffer[j].id = buffer[i].codec})

Mixes ==
  {i \in ReadableOf("MixPresentation") :
     \A x \in ElementsOfMix(buffer[i]) :
       \E j \in AudioElements : j < i /\ buffer[j].id = x.id}

ById(places) == {<<buffer[i].id, i>> : i \in places}
Pairs(f) == {<<key, f[key]>> : key \in DOMAIN f}

(* However the bytes arrive, what is read is the same: the first codec      *)
(* config and the first usable element of every id, and the mixes all of   *)
(* whose elements came before; nothing is read twice or lost by starting    *)
(* over, and reading goes on at the OBU that ended the descriptors. It waits *)
(* only as long as that OBU is missing.                                    *)
SameInPieces ==
  /\ pc \in {"parsed", "initialized", "ready"} =>
       /\ position = End - 1
       /\ Pairs(kept.codecs) = ById(Codecs)
       /\ Pairs(kept.elements) = ById(AudioElements)
       /\ ToSet(kept.mixes) = Mixes /\ IsInjective(kept.mixes)
  /\ pc = "waiting" => position = 0 /\ ~Arrived

(* What is rendered refers to nothing that is missing, even if descriptors  *)
(* it needs were bypassed, and no substream is claimed twice. An element    *)
(* may point to a codec config that was moved only if another codec config *)
(* came after the element.                                                 *)
NothingDangling ==
  pc \in {"initialized", "ready"} =>
    /\ \A i \in DOMAIN kept.mixes : \A x \in ElementsOfMix(KeptMix(i)) :
         x.id \in DOMAIN kept.elements
    /\ \A id \in DOMAIN kept.elements : KeptElement(id).codec \in DOMAIN kept.codecs
    /\ \A id \in kept.dangling :
         \E c \in DOMAIN kept.codecs : kept.codecs[c] > kept.elements[id]
    /\ \A a, b \in DOMAIN kept.elements : \A x \in KeptElement(a).substreams :
         x \in KeptElement(b).substreams => a = b

Supports(i) == i \in DOMAIN kept.mixes /\ IsSupported(i)
Asked(Test(_)) == {i \in DOMAIN kept.mixes : Supports(i) /\ Test(i)}

(* The mix that is rendered is allowed by a profile that was asked for; it  *)
(* is the one asked for if that one is allowed, else one that has the layout *)
(* asked for if there is any. It is rendered to the layout asked for, or to *)
(* its first. If nothing can be rendered, no mix is allowed, or one that is  *)
(* has objects, or no layout while none was asked for.                     *)
SelectionHonoursRequest ==
  /\ pc = "ready" =>
       /\ Supports(selected.mix)
       /\ Asked(HasId) # {} => selected.mix \in Asked(HasId)
       /\ Asked(HasId) = {} /\ Asked(HasLayout) # {} => selected.mix \in Asked(HasLayout)
       /\ request.layout # None => selected.layout = request.layout
       /\ request.layout = None
            => selected.layout = KeptMix(selected.mix).subMixes[1].layouts[1]
       /\ LayoutsWith(selected)[selected.index] = selected.layout
  /\ pc = "failed" /\ kept.header # 0 /\ position = End - 1 /\ Consistent =>
       \/ \A i \in DOMAIN kept.mixes : ~Supports(i)
       \/ \E i \in DOMAIN kept.mixes :
            /\ Supports(i)
            /\ \/ \E x \in ElementsOfMix(KeptMix(i)) : KeptElement(x.id).kind = "objects"
               \/ request.layout = None /\ KeptMix(i).subMixes[1].layouts = <<>>

(* What a profile allows, the profiles that extend it allow as well.        *)
Extends == {<<Simple, Base>>, <<Base, BaseEnhanced>>, <<Base, BaseAdvanced>>,
            <<BaseAdvanced, Advanced1>>, <<Advanced1, Advanced2>>,
            <<BaseEnhanced, Advanced2>>}

ProfilesNest ==
  pc = "initialized" =>
    \A i \in DOMAIN kept.mixes :
      LET allowed == FilterProfilesForMixPresentation(FilteredElements, KeptMix(i),
                                                      ProfileVersions)
      IN \A p \in Extends : p[1] \in allowed => p[2] \in allowed
=============================================================================
