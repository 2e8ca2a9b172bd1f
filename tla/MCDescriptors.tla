---------------------------- MODULE MCDescriptors ---------------------------
(* Small instances of Descriptors.                                         *)
EXTENDS Descriptors

Header(redundant) ==
  [type |-> "SequenceHeader", redundant |-> redundant, readable |-> TRUE]

CodecConfig(id, lpcm, frame, tiny) ==
  [type |-> "CodecConfig", id |-> id, lpcm |-> lpcm, frame |-> frame, rate |-> 48,
   tiny |-> tiny, readable |-> TRUE]

AudioElement(id, codec, kind, config, channels, substreams, params) ==
  [type |-> "AudioElement", id |-> id, codec |-> codec, kind |-> kind,
   config |-> config, channels |-> channels, substreams |-> substreams,
   params |-> params, coherent |-> TRUE, readable |-> TRUE]

SubMix(ids, layouts) ==
  [elements |-> [i \in DOMAIN ids |-> [id |-> ids[i], headphones |-> "stereo"]],
   layouts |-> layouts]

Mix(id, subMixes, params) ==
  [type |-> "MixPresentation", id |-> id, subMixes |-> subMixes, params |-> params,
   readable |-> TRUE]

Bypassed == [type |-> "Reserved", redundant |-> FALSE]
Refused == {[type |-> t, redundant |-> FALSE] : t \in {"Unpeekable", "Invalid"}}
TemporalUnit == [type |-> "TemporalUnit", redundant |-> FALSE]

C1 == CodecConfig(1, FALSE, 8, FALSE)
C2 == CodecConfig(2, TRUE, 8, FALSE)
E1 == AudioElement(1, 1, "ambisonics", "mono", 16, {1}, {})
E2 == AudioElement(2, 2, "channels", "listed", 2, {2}, {})
M1 == Mix(1, <<SubMix(<<1>>, <<"A">>)>>, {})
M2 == Mix(2, <<SubMix(<<1>>, <<"A">>), SubMix(<<2>>, <<"B">>)>>, {})

(* OBUs put anywhere between the descriptors of a simple sequence: copies,  *)
(* others of the same id, ones that are bypassed or refused, and ones too   *)
(* many.                                                                   *)
Pool == {Header(TRUE), Header(FALSE), C2, CodecConfig(1, FALSE, 4, FALSE),
         CodecConfig(1, FALSE, 8, TRUE), E2, [E1 EXCEPT !.config = "senseless"],
         [E1 EXCEPT !.id = 2, !.substreams = {1}], M1, M2, Bypassed}
        \union Refused

Inserting(seqs) ==
  {SubSeq(s, 1, i) \o <<o>> \o SubSeq(s, i + 1, Len(s)) :
     s \in seqs, i \in 0..3, o \in Pool}

Simplest == {<<C1, E1, M1>>}

Request(mix, layout, profiles) == [mix |-> mix, layout |-> layout, profiles |-> profiles]

AnyProfile == Request(None, None, ProfileVersions)

Pieces ==
  [obus : {<<Header(FALSE)>> \o s \o <<TemporalUnit>> :
             s \in Simplest \union Inserting(Simplest) \union Inserting(Inserting(Simplest))}
          \union {<<C1>> \o <<TemporalUnit>>, <<TemporalUnit>>},
   exhaustive : {FALSE}, request : {AnyProfile}]

(* Mixes of different elements, profiles and layouts to choose from.        *)
E3 == AudioElement(3, 1, "channels", "listed", 12, {3}, {})
E4 == AudioElement(4, 1, "objects", "one", 0, {}, {})
E5 == AudioElement(5, 1, "channels", "expanded", 2, {5}, {})
E6 == AudioElement(6, 1, "channels", "later expanded", 2, {6}, {})
E7 == AudioElement(7, 1, "channels", "listed", 2, {7}, {})

Elements == <<E1, E2, E3, E4, E5, E6, E7>>

OneMix(id, ids) == Mix(id, <<SubMix(ids, <<"A">>)>>, {})

MixPool(id) ==
  {OneMix(id, <<1>>), OneMix(id, <<1, 7>>), OneMix(id, <<1, 3>>), OneMix(id, <<4>>),
   OneMix(id, <<5>>), OneMix(id, <<6>>), OneMix(id, <<1, 2>>),
   Mix(id, <<SubMix(<<7>>, <<"A", "B">>), SubMix(<<2>>, <<"B", "C">>)>>, {}),
   [OneMix(id, <<7>>) EXCEPT !.subMixes[1].elements[1].headphones = "head locked"],
   Mix(id, <<SubMix(<<1>>, <<>>)>>, {})}

Alternatives ==
  [obus : {<<Header(FALSE), C1, C2>> \o Elements \o <<a, b>> : a \in MixPool(1), b \in MixPool(2)},
   exhaustive : {TRUE},
   request : {Request(m, l, ps) : m \in {None, 2}, l \in {None, "B", "D"},
                                  ps \in {{Simple}, {Base}, {BaseEnhanced, Advanced1}}}]

(* What contradicts each other.                                            *)
Param(id, rate) == [id |-> id, rate |-> rate]

Contradictions ==
  [obus : {<<Header(FALSE), C1>> \o es \o <<m>> :
             es \in {<<[E1 EXCEPT !.params = {Param(1, 2)}], E7>>,
                     <<E1, [E7 EXCEPT !.substreams = {1, 7}]>>,
                     <<E1, [E7 EXCEPT !.coherent = FALSE]>>},
             m \in {M1, [M1 EXCEPT !.params = {Param(1, 3)}],
                    [M1 EXCEPT !.params = {Param(1, 2)}]}}
          \union {<<Header(FALSE), C1, CodecConfig(3, FALSE, 8, FALSE), C2,
                    [E1 EXCEPT !.codec = c], E7, m>> :
                     c \in {1, 2, 3},
                     m \in {OneMix(1, <<1, 7>>),
                            Mix(1, <<SubMix(<<1>>, <<"A">>), SubMix(<<7>>, <<"A">>)>>, {})}},
   exhaustive : {TRUE}, request : {AnyProfile}]

MCStreams == Pieces \union Alternatives \union Contradictions

MCRequests == {Request(1, "C", {}), Request(None, "B", {})}
=============================================================================
