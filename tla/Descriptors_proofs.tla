-------------------------- MODULE Descriptors_proofs --------------------------
(* What holds of descriptors whatever OBUs a stream has, in whatever pieces its  *)
(* bytes arrive and whichever mix and layout are asked for.                      *)
EXTENDS Descriptors, DataInduction, FiniteSetTheorems, SequenceTheorems, TLAPS
-------------------------------------------------------------------------------
(* The inductive invariant: what is kept is what the first n OBUs of b give. A   *)
(* map of what is kept has the first place of every id, among places that are    *)
(* told by what is kept already: that is why an element or a mix that came too   *)
(* early stays bypassed.                                                         *)
Firsts(b, m, places) ==
    /\ \A id \in DOMAIN m : m[id] \in places /\ b[m[id]].id = id
    /\ \A i \in places : b[i].id \in DOMAIN m /\ m[b[i].id] <= i

CodecPlaces(b, n) ==
    {i \in 1..n : b[i].type = "CodecConfig" /\ b[i].readable /\ ~b[i].tiny}

ElementPlaces(b, n, codecs) ==
    {i \in 1..n : /\ b[i].type = "AudioElement" /\ b[i].readable /\ b[i].config # "senseless"
                  /\ b[i].codec \in DOMAIN codecs /\ codecs[b[i].codec] < i}

MixPlaces(b, n, elements) ==
    {i \in 1..n : /\ b[i].type = "MixPresentation" /\ b[i].readable
                  /\ \A x \in ElementsOfMix(b[i]) :
                       x.id \in DOMAIN elements /\ elements[x.id] < i}

(* What may have moved is followed by a codec config.                            *)
MovedLater(k) ==
    \A id \in k.dangling : /\ id \in DOMAIN k.elements
                           /\ \E c \in DOMAIN k.codecs : k.codecs[c] > k.elements[id]

IsParsed(k) ==
    k = [header |-> k.header, codecs |-> k.codecs, elements |-> k.elements,
         mixes |-> k.mixes, dangling |-> k.dangling]

FromFirst(b, n, k) ==
    /\ IsParsed(k)
    /\ k.header = 0 <=> n = 0
    /\ Firsts(b, k.codecs, CodecPlaces(b, n))
    /\ Firsts(b, k.elements, ElementPlaces(b, n, k.codecs))
    /\ k.mixes \in Seq(1..n) /\ ToSet(k.mixes) = MixPlaces(b, n, k.elements)
    /\ IsInjective(k.mixes)
    /\ MovedLater(k)

(* The buffer is as it came, or cut off where reading ended before a reset.      *)
BufferTyped ==
    /\ IsSequence(buffer) /\ \A i \in DOMAIN buffer : WellFormed(buffer[i])
    /\ exhaustive \in BOOLEAN /\ request.profiles \subseteq ProfileVersions
    /\ position \in 0..Len(buffer) /\ received \in 0..2 * Len(buffer)
    /\ pc \in {"waiting", "parsing", "parsed", "initialized", "ready", "failed"}

(* Reading goes on from the start to where the descriptors end, never further.   *)
ReadingInv ==
    /\ pc # "failed" => FromFirst(buffer, position, kept) /\ \A i \in 1..position : ~Ends(i)
    /\ pc \in {"parsed", "initialized", "ready"} /\ position < Len(buffer)
         => Ends(position + 1)
    /\ pc = "waiting" => position = 0 /\ ~Arrived

(* What was checked stays true, and what was selected was selected from it.      *)
CheckedInv ==
    /\ pc \in {"initialized", "ready"} => Consistent
    /\ pc = "ready" =>
         LET supported == GetSupportedMixPresentations
         IN supported # {} /\ HasOutputLayout(supported)
              /\ selected = FindMixPresentationAndLayout(supported)

NothingToRender ==
    kept.header # 0 /\ position = End - 1 /\ Consistent =>
      \/ \A i \in DOMAIN kept.mixes : ~Supports(i)
      \/ \E i \in DOMAIN kept.mixes :
           /\ Supports(i)
           /\ \/ \E x \in ElementsOfMix(KeptMix(i)) : KeptElement(x.id).kind = "objects"
              \/ request.layout = None /\ KeptMix(i).subMixes[1].layouts = <<>>
FailedInv == pc = "failed" => NothingToRender

IInv == BufferTyped /\ ReadingInv /\ CheckedInv /\ FailedInv
-------------------------------------------------------------------------------
(* Maps of first places.                                                         *)
LEMMA NoneFirst ==
    ASSUME NEW b, NEW places, places = {}
    PROVE  Firsts(b, <<>>, places)
BY DEF Firsts

(* A later place is inserted, unless there is one of its id already.             *)
LEMMA FirstsInserted ==
    ASSUME NEW b, NEW n \in Nat, NEW places, places \subseteq 1..n,
           NEW m, Firsts(b, m, places)
    PROVE  Firsts(b, Inserted(m, b[n + 1].id, n + 1), places \union {n + 1})
<1>. DEFINE h == Inserted(m, b[n + 1].id, n + 1)
<1>1. DOMAIN h = DOMAIN m \union {b[n + 1].id} /\ \A x \in DOMAIN m : h[x] = m[x]
  BY DEF Inserted
<1>2. b[n + 1].id \notin DOMAIN m => h[b[n + 1].id] = n + 1
  BY DEF Inserted
<1>. HIDE DEF h
<1>3. ASSUME NEW id \in DOMAIN h
      PROVE  h[id] \in places \union {n + 1} /\ b[h[id]].id = id
  <2>1. CASE id \in DOMAIN m
    BY <1>1, <2>1 DEF Firsts
  <2>2. CASE id \notin DOMAIN m
    BY <1>1, <1>2, <2>2
  <2>. QED
    BY <2>1, <2>2
<1>4. ASSUME NEW i \in places \union {n + 1}
      PROVE  b[i].id \in DOMAIN h /\ h[b[i].id] <= i
  <2>1. CASE i \in places
    BY <1>1, <2>1 DEF Firsts
  <2>2. CASE i = n + 1 /\ b[i].id \in DOMAIN m
    <3>1. m[b[i].id] \in 1..n
      BY <2>2 DEF Firsts
    <3>. QED
      BY <1>1, <2>2, <3>1
  <2>3. CASE i = n + 1 /\ b[i].id \notin DOMAIN m
    BY <1>1, <1>2, <2>3
  <2>. QED
    BY <2>1, <2>2, <2>3
<1>. QED
  BY <1>3, <1>4 DEF Firsts, h

(* A second place of an id changes nothing.                                      *)
LEMMA FirstsBypassed ==
    ASSUME NEW b, NEW n \in Nat, NEW places, places \subseteq 1..n,
           NEW m, Firsts(b, m, places), b[n + 1].id \in DOMAIN m
    PROVE  Firsts(b, m, places \union {n + 1})
<1>1. m[b[n + 1].id] \in 1..n
  BY DEF Firsts
<1>. QED
  BY <1>1 DEF Firsts

(* Such a map has the first of every id, and no other place.                     *)
LEMMA FirstsAre ==
    ASSUME NEW places, places \subseteq Nat, NEW m, Firsts(buffer, m, places)
    PROVE  /\ \A id \in DOMAIN m : m[id] \in FirstsOfTheirId(places) /\ buffer[m[id]].id = id
           /\ \A i \in FirstsOfTheirId(places) : buffer[i].id \in DOMAIN m /\ m[buffer[i].id] = i
<1>1. ASSUME NEW id \in DOMAIN m
      PROVE  m[id] \in FirstsOfTheirId(places) /\ buffer[m[id]].id = id
  <2>1. m[id] \in places /\ buffer[m[id]].id = id
    BY DEF Firsts
  <2>2. ASSUME NEW j \in places, j < m[id] PROVE buffer[j].id # buffer[m[id]].id
    <3>1. m[buffer[j].id] <= j
      BY DEF Firsts
    <3>2. m[id] \in Nat /\ j \in Nat
      BY <2>1
    <3>. QED
      BY <2>1, <2>2, <3>1, <3>2
  <2>. QED
    BY <2>1, <2>2 DEF FirstsOfTheirId
<1>2. ASSUME NEW i \in FirstsOfTheirId(places)
      PROVE  buffer[i].id \in DOMAIN m /\ m[buffer[i].id] = i
  <2>1. i \in places /\ \A j \in places : j < i => buffer[j].id # buffer[i].id
    BY DEF FirstsOfTheirId
  <2>2. buffer[i].id \in DOMAIN m /\ m[buffer[i].id] <= i
    BY <2>1 DEF Firsts
  <2>3. m[buffer[i].id] \in places /\ buffer[m[buffer[i].id]].id = buffer[i].id
    BY <2>2 DEF Firsts
  <2>4. ~(m[buffer[i].id] < i)
    BY <2>1, <2>3
  <2>5. m[buffer[i].id] \in Nat /\ i \in Nat
    BY <2>1, <2>3
  <2>. QED
    BY <2>2, <2>4, <2>5
<1>. QED
  BY <1>1, <1>2

LEMMA FirstsById ==
    ASSUME NEW places, places \subseteq Nat, NEW m, Firsts(buffer, m, places)
    PROVE  Pairs(m) = ById(FirstsOfTheirId(places))
<1>1. /\ \A id \in DOMAIN m : m[id] \in FirstsOfTheirId(places) /\ buffer[m[id]].id = id
      /\ \A i \in FirstsOfTheirId(places) : buffer[i].id \in DOMAIN m /\ m[buffer[i].id] = i
  BY FirstsAre
<1>2. \A p \in Pairs(m) : p \in ById(FirstsOfTheirId(places))
  BY <1>1 DEF Pairs, ById
<1>3. \A p \in ById(FirstsOfTheirId(places)) : p \in Pairs(m)
  BY <1>1 DEF Pairs, ById
<1>. QED
  BY <1>2, <1>3
-------------------------------------------------------------------------------
(* Where the descriptors end.                                                    *)
LEMMA EndIs ==
    ASSUME IsSequence(buffer)
    PROVE  /\ End \in 1..Len(buffer) + 1
           /\ End <= Len(buffer) => Ends(End)
           /\ \A i \in 1..End - 1 : ~Ends(i)
<1>. DEFINE ends == {i \in DOMAIN buffer : Ends(i)}
<1>1. Len(buffer) \in Nat /\ DOMAIN buffer = 1..Len(buffer)
  BY DEF IsSequence
<1>2. CASE ends = {}
  BY <1>1, <1>2 DEF End
<1>3. CASE ends # {}
  <2>1. End = First(ends)
    BY <1>3 DEF End
  <2>. HIDE DEF ends
  <2>2. ends \subseteq Nat
    BY <1>1 DEF ends
  <2>3. \E i \in ends : \A j \in ends : i <= j
    BY <1>3, <2>2, LeastNumber
  <2>4. End \in ends /\ \A j \in ends : End <= j
    BY <2>1, <2>3 DEF First
  <2>. QED
    BY <1>1, <2>4 DEF ends
<1>. QED
  BY <1>2, <1>3

LEMMA EndIsNext ==
    ASSUME IsSequence(buffer), NEW n \in 0..Len(buffer), \A i \in 1..n : ~Ends(i),
           n < Len(buffer) => Ends(n + 1)
    PROVE  End = n + 1
<1>1. Len(buffer) \in Nat
  BY DEF IsSequence
<1>2. /\ End \in 1..Len(buffer) + 1
      /\ End <= Len(buffer) => Ends(End)
      /\ \A i \in 1..End - 1 : ~Ends(i)
  BY EndIs
<1>3. End > n
  BY <1>1, <1>2
<1>4. CASE n < Len(buffer)
  BY <1>1, <1>2, <1>3, <1>4
<1>5. CASE n = Len(buffer)
  BY <1>1, <1>2, <1>3, <1>5
<1>. QED
  BY <1>1, <1>4, <1>5

LEMMA EndIsLater ==
    ASSUME IsSequence(buffer), NEW n \in 0..Len(buffer), \A i \in 1..n : ~Ends(i)
    PROVE  n < End
<1>1. Len(buffer) \in Nat
  BY DEF IsSequence
<1>2. End \in 1..Len(buffer) + 1 /\ (End <= Len(buffer) => Ends(End))
  BY EndIs
<1>. QED
  BY <1>1, <1>2
-------------------------------------------------------------------------------
(* One more OBU. A map that grew at it has no other new place.                   *)
Grown(m, h, n) ==
    /\ DOMAIN m \subseteq DOMAIN h
    /\ \A x \in DOMAIN m : m[x] \in 1..n /\ h[x] = m[x]
    /\ \A x \in DOMAIN h : x \notin DOMAIN m => h[x] = n + 1

LEMMA CodecPlacesNext ==
    ASSUME NEW b, NEW n \in Nat
    PROVE  /\ CodecPlaces(b, n) \subseteq 1..n
           /\ CodecPlaces(b, n + 1) = CodecPlaces(b, n)
                \union {i \in {n + 1} : /\ b[i].type = "CodecConfig" /\ b[i].readable
                                        /\ ~b[i].tiny}
<1>1. 1..n + 1 = 1..n \union {n + 1}
  OBVIOUS
<1>. QED
  BY <1>1 DEF CodecPlaces

LEMMA CodecPlacesSame ==
    ASSUME NEW b, NEW n \in Nat, b[n + 1].type # "CodecConfig"
    PROVE  CodecPlaces(b, n + 1) = CodecPlaces(b, n)
<1>1. 1..n + 1 = 1..n \union {n + 1}
  OBVIOUS
<1>. QED
  BY <1>1 DEF CodecPlaces

NextElementPlaces(b, n, m, h) ==
    /\ ElementPlaces(b, n, m) \subseteq 1..n
    /\ ElementPlaces(b, n + 1, h) = ElementPlaces(b, n, m)
         \union {i \in {n + 1} : /\ b[i].type = "AudioElement" /\ b[i].readable
                                 /\ b[i].config # "senseless"
                                 /\ b[i].codec \in DOMAIN m}

NextMixPlaces(b, n, m, h) ==
    /\ MixPlaces(b, n, m) \subseteq 1..n
    /\ MixPlaces(b, n + 1, h) = MixPlaces(b, n, m)
         \union {i \in {n + 1} : /\ b[i].type = "MixPresentation" /\ b[i].readable
                                 /\ \A x \in ElementsOfMix(b[i]) : x.id \in DOMAIN m}

LEMMA ElementPlacesNext ==
    ASSUME NEW b, NEW n \in Nat, NEW m, NEW h, Grown(m, h, n)
    PROVE  NextElementPlaces(b, n, m, h)
<1>1. 1..n + 1 = 1..n \union {n + 1}
  OBVIOUS
<1>2. \A i \in 1..n : \A x : (x \in DOMAIN h /\ h[x] < i) <=> (x \in DOMAIN m /\ m[x] < i)
  BY DEF Grown
<1>3. \A x : (x \in DOMAIN h /\ h[x] < n + 1) <=> x \in DOMAIN m
  BY DEF Grown
<1>. QED
  BY <1>1, <1>2, <1>3 DEF ElementPlaces, NextElementPlaces

LEMMA MixPlacesNext ==
    ASSUME NEW b, NEW n \in Nat, NEW m, NEW h, Grown(m, h, n)
    PROVE  NextMixPlaces(b, n, m, h)
<1>1. 1..n + 1 = 1..n \union {n + 1}
  OBVIOUS
<1>2. \A i \in 1..n : \A x : (x \in DOMAIN h /\ h[x] < i) <=> (x \in DOMAIN m /\ m[x] < i)
  BY DEF Grown
<1>3. \A x : (x \in DOMAIN h /\ h[x] < n + 1) <=> x \in DOMAIN m
  BY DEF Grown
<1>. QED
  BY <1>1, <1>2, <1>3 DEF MixPlaces, NextMixPlaces

LEMMA FirstsGrown ==
    ASSUME NEW b, NEW n \in Nat, NEW places, places \subseteq 1..n, NEW m, Firsts(b, m, places)
    PROVE  /\ Grown(m, m, n)
           /\ Grown(m, Inserted(m, b[n + 1].id, n + 1), n)
<1>1. \A x \in DOMAIN m : m[x] \in 1..n
  BY DEF Firsts
<1>. DEFINE h == Inserted(m, b[n + 1].id, n + 1)
<1>2. /\ DOMAIN h = DOMAIN m \union {b[n + 1].id} /\ \A x \in DOMAIN m : h[x] = m[x]
      /\ b[n + 1].id \notin DOMAIN m => h[b[n + 1].id] = n + 1
  BY DEF Inserted
<1>. HIDE DEF h
<1>3. Grown(m, h, n)
  BY <1>1, <1>2 DEF Grown
<1>4. Grown(m, m, n)
  BY <1>1 DEF Grown
<1>. QED
  BY <1>3, <1>4 DEF h

LEMMA FromFirstGrown ==
    ASSUME NEW b, NEW n \in Nat, NEW k, FromFirst(b, n, k)
    PROVE  /\ Grown(k.codecs, k.codecs, n)
           /\ Grown(k.codecs, Inserted(k.codecs, b[n + 1].id, n + 1), n)
           /\ Grown(k.elements, k.elements, n)
           /\ Grown(k.elements, Inserted(k.elements, b[n + 1].id, n + 1), n)
<1>1. CodecPlaces(b, n) \subseteq 1..n /\ ElementPlaces(b, n, k.codecs) \subseteq 1..n
  BY DEF CodecPlaces, ElementPlaces
<1>2. /\ Firsts(b, k.codecs, CodecPlaces(b, n))
      /\ Firsts(b, k.elements, ElementPlaces(b, n, k.codecs))
  BY DEF FromFirst
<1>. QED
  BY <1>1, <1>2, FirstsGrown

(* An OBU that gives nothing new.                                                *)
LEMMA NothingNew ==
    ASSUME NEW b, NEW n \in Nat, NEW k, FromFirst(b, n, k), NEW header, header # 0,
           b[n + 1].type = "CodecConfig" /\ b[n + 1].readable /\ ~b[n + 1].tiny
             => b[n + 1].id \in DOMAIN k.codecs,
           ~(/\ b[n + 1].type = "AudioElement" /\ b[n + 1].readable
             /\ b[n + 1].config # "senseless" /\ b[n + 1].codec \in DOMAIN k.codecs),
           ~(/\ b[n + 1].type = "MixPresentation" /\ b[n + 1].readable
             /\ \A x \in ElementsOfMix(b[n + 1]) : x.id \in DOMAIN k.elements)
    PROVE  FromFirst(b, n + 1, [k EXCEPT !.header = header])
<1>. DEFINE g == [k EXCEPT !.header = header]
<1>1. /\ g = [header |-> header, codecs |-> k.codecs, elements |-> k.elements,
              mixes |-> k.mixes, dangling |-> k.dangling]
  BY DEF FromFirst, IsParsed
<1>2. /\ g.header = header /\ g.codecs = k.codecs /\ g.elements = k.elements
      /\ g.mixes = k.mixes /\ g.dangling = k.dangling
  BY <1>1
<1>3. IsParsed(g)
  BY <1>1, <1>2 DEF IsParsed
<1>. HIDE DEF g
<1>4. Grown(k.codecs, k.codecs, n) /\ Grown(k.elements, k.elements, n)
  BY FromFirstGrown
<1>5. Firsts(b, k.codecs, CodecPlaces(b, n + 1))
  <2>1. /\ CodecPlaces(b, n) \subseteq 1..n
        /\ CodecPlaces(b, n + 1) = CodecPlaces(b, n)
             \union {i \in {n + 1} : /\ b[i].type = "CodecConfig" /\ b[i].readable
                                     /\ ~b[i].tiny}
    BY CodecPlacesNext
  <2>2. Firsts(b, k.codecs, CodecPlaces(b, n))
    BY DEF FromFirst
  <2>3. CASE b[n + 1].type = "CodecConfig" /\ b[n + 1].readable /\ ~b[n + 1].tiny
    <3>1. CodecPlaces(b, n + 1) = CodecPlaces(b, n) \union {n + 1}
      BY <2>1, <2>3
    <3>2. Firsts(b, k.codecs, CodecPlaces(b, n) \union {n + 1})
      BY <2>1, <2>2, <2>3, FirstsBypassed
    <3>. QED
      BY <3>1, <3>2
  <2>4. CASE ~(b[n + 1].type = "CodecConfig" /\ b[n + 1].readable /\ ~b[n + 1].tiny)
    <3>1. CodecPlaces(b, n + 1) = CodecPlaces(b, n)
      BY <2>1, <2>4
    <3>. QED
      BY <2>2, <3>1
  <2>. QED
    BY <2>3, <2>4
<1>6. ElementPlaces(b, n + 1, k.codecs) = ElementPlaces(b, n, k.codecs)
  <2>1. NextElementPlaces(b, n, k.codecs, k.codecs)
    BY <1>4, ElementPlacesNext
  <2>. QED
    BY <2>1 DEF NextElementPlaces
<1>7. MixPlaces(b, n + 1, k.elements) = MixPlaces(b, n, k.elements)
  <2>1. NextMixPlaces(b, n, k.elements, k.elements)
    BY <1>4, MixPlacesNext
  <2>. QED
    BY <2>1 DEF NextMixPlaces
<1>8. k.mixes \in Seq(1..n + 1)
  <2>1. k.mixes \in Seq(1..n) /\ 1..n \subseteq 1..n + 1
    BY DEF FromFirst
  <2>. QED
    BY <2>1, SeqMonotonic
<1>9. MovedLater(g)
  BY <1>2 DEF FromFirst, MovedLater
<1>. QED
  BY <1>2, <1>3, <1>5, <1>6, <1>7, <1>8, <1>9 DEF FromFirst, g

(* The record with two of its fields replaced.                                   *)
LEMMA CodecsAndDangling ==
    ASSUME NEW k, IsParsed(k), NEW h, NEW moved
    PROVE  [k EXCEPT !.codecs = h, !.dangling = @ \union moved]
             = [header |-> k.header, codecs |-> h, elements |-> k.elements,
                mixes |-> k.mixes, dangling |-> k.dangling \union moved]
<1>1. PICK a, c, e, m, d : k = [header |-> a, codecs |-> c, elements |-> e, mixes |-> m,
                                dangling |-> d]
  BY DEF IsParsed
<1>2. k.header = a /\ k.elements = e /\ k.mixes = m /\ k.dangling = d
  BY <1>1
<1>3. PICK v : v = k.dangling \union moved
  OBVIOUS
<1>4. PICK g : g = [k EXCEPT !.codecs = h]
  OBVIOUS
<1>5. [k EXCEPT !.codecs = h, !.dangling = @ \union moved] = [k EXCEPT !.codecs = h, !.dangling = v]
  BY <1>3
<1>6. [k EXCEPT !.codecs = h, !.dangling = v] = [g EXCEPT !.dangling = v]
  BY <1>4
<1>7. g = [header |-> a, codecs |-> h, elements |-> e, mixes |-> m, dangling |-> d]
  BY <1>1, <1>4
<1>8. [g EXCEPT !.dangling = v]
        = [header |-> a, codecs |-> h, elements |-> e, mixes |-> m, dangling |-> v]
  BY <1>7
<1>. QED
  BY <1>2, <1>3, <1>5, <1>6, <1>8

(* A codec config; the elements may have to be found again.                      *)
LEMMA NewCodec ==
    ASSUME NEW b, NEW n \in Nat, NEW k, FromFirst(b, n, k), k.header # 0,
           b[n + 1].type = "CodecConfig", b[n + 1].readable, ~b[n + 1].tiny,
           b[n + 1].id \notin DOMAIN k.codecs,
           NEW moved, moved \in {{}, DOMAIN k.elements}
    PROVE  FromFirst(b, n + 1, [k EXCEPT !.codecs = Inserted(k.codecs, b[n + 1].id, n + 1),
                                         !.dangling = @ \union moved])
<1>. DEFINE h == Inserted(k.codecs, b[n + 1].id, n + 1)
            g == [k EXCEPT !.codecs = h, !.dangling = @ \union moved]
<1>1. /\ g = [header |-> k.header, codecs |-> h, elements |-> k.elements,
              mixes |-> k.mixes, dangling |-> k.dangling \union moved]
  <2>1. IsParsed(k)
    BY DEF FromFirst
  <2>. HIDE DEF h
  <2>. QED
    BY <2>1, CodecsAndDangling, Zenon
<1>2. /\ g.header = k.header /\ g.codecs = h /\ g.elements = k.elements
      /\ g.mixes = k.mixes /\ g.dangling = k.dangling \union moved
  BY <1>1
<1>3. IsParsed(g)
  BY <1>1, <1>2 DEF IsParsed
<1>4. Grown(k.codecs, h, n) /\ Grown(k.elements, k.elements, n)
  BY FromFirstGrown
<1>5. h[b[n + 1].id] = n + 1 /\ b[n + 1].id \in DOMAIN h
  BY DEF Inserted
<1>6. Firsts(b, h, CodecPlaces(b, n + 1))
  <2>1. /\ CodecPlaces(b, n) \subseteq 1..n
        /\ CodecPlaces(b, n + 1) = CodecPlaces(b, n) \union {n + 1}
    BY CodecPlacesNext
  <2>2. Firsts(b, k.codecs, CodecPlaces(b, n))
    BY DEF FromFirst
  <2>3. Firsts(b, h, CodecPlaces(b, n) \union {n + 1})
    BY <2>1, <2>2, FirstsInserted
  <2>. QED
    BY <2>1, <2>3
<1>. HIDE DEF g, h
<1>7. ElementPlaces(b, n + 1, h) = ElementPlaces(b, n, k.codecs)
  <2>1. NextElementPlaces(b, n, k.codecs, h)
    BY <1>4, ElementPlacesNext
  <2>. QED
    BY <2>1 DEF NextElementPlaces
<1>8. MixPlaces(b, n + 1, k.elements) = MixPlaces(b, n, k.elements)
  <2>1. NextMixPlaces(b, n, k.elements, k.elements)
    BY <1>4, MixPlacesNext
  <2>. QED
    BY <2>1 DEF NextMixPlaces
<1>9. k.mixes \in Seq(1..n + 1)
  <2>1. k.mixes \in Seq(1..n) /\ 1..n \subseteq 1..n + 1
    BY DEF FromFirst
  <2>. QED
    BY <2>1, SeqMonotonic
<1>10. MovedLater(g)
  <2>1. \A id \in DOMAIN k.elements : k.elements[id] \in 1..n
    BY <1>4 DEF Grown
  <2>2. ASSUME NEW id \in g.dangling
        PROVE  id \in DOMAIN g.elements /\ \E c \in DOMAIN g.codecs : g.codecs[c] > g.elements[id]
    <3>1. CASE id \in DOMAIN k.elements /\ id \in moved
      <4>1. h[b[n + 1].id] > k.elements[id]
        BY <1>5, <2>1, <3>1
      <4>. QED
        BY <1>2, <1>5, <3>1, <4>1
    <3>2. CASE id \in k.dangling
      <4>1. id \in DOMAIN k.elements
        BY <3>2 DEF FromFirst, MovedLater
      <4>2. PICK c \in DOMAIN k.codecs : k.codecs[c] > k.elements[id]
        BY <3>2 DEF FromFirst, MovedLater
      <4>3. c \in DOMAIN h /\ h[c] = k.codecs[c]
        BY <1>4 DEF Grown
      <4>. QED
        BY <1>2, <4>1, <4>2, <4>3
    <3>. QED
      BY <1>2, <2>2, <3>1, <3>2
  <2>. QED
    BY <2>2 DEF MovedLater
<1>11. FromFirst(b, n + 1, g)
  <2>1. Firsts(b, g.elements, ElementPlaces(b, n + 1, g.codecs))
    BY <1>2, <1>7 DEF FromFirst
  <2>2. ToSet(g.mixes) = MixPlaces(b, n + 1, g.elements) /\ IsInjective(g.mixes)
    BY <1>2, <1>8 DEF FromFirst
  <2>3. g.header = 0 <=> n + 1 = 0
    BY <1>2
  <2>. QED
    BY <1>2, <1>3, <1>6, <1>9, <1>10, <2>1, <2>2, <2>3 DEF FromFirst
<1>. QED
  BY <1>11 DEF g, h

(* An audio element; a second one of an id leaves the first.                     *)
LEMMA NewElement ==
    ASSUME NEW b, NEW n \in Nat, NEW k, FromFirst(b, n, k), k.header # 0,
           b[n + 1].type = "AudioElement", b[n + 1].readable,
           b[n + 1].config # "senseless", b[n + 1].codec \in DOMAIN k.codecs
    PROVE  FromFirst(b, n + 1, [k EXCEPT !.elements = Inserted(k.elements, b[n + 1].id, n + 1)])
<1>. DEFINE h == Inserted(k.elements, b[n + 1].id, n + 1)
            g == [k EXCEPT !.elements = h]
<1>1. /\ g = [header |-> k.header, codecs |-> k.codecs, elements |-> h,
              mixes |-> k.mixes, dangling |-> k.dangling]
  BY DEF FromFirst, IsParsed
<1>2. /\ g.header = k.header /\ g.codecs = k.codecs /\ g.elements = h
      /\ g.mixes = k.mixes /\ g.dangling = k.dangling
  BY <1>1
<1>3. IsParsed(g)
  BY <1>1, <1>2 DEF IsParsed
<1>4. Grown(k.codecs, k.codecs, n) /\ Grown(k.elements, h, n)
  BY FromFirstGrown
<1>5. Firsts(b, h, ElementPlaces(b, n + 1, k.codecs))
  <2>1. /\ ElementPlaces(b, n, k.codecs) \subseteq 1..n
        /\ ElementPlaces(b, n + 1, k.codecs) = ElementPlaces(b, n, k.codecs) \union {n + 1}
    <3>1. NextElementPlaces(b, n, k.codecs, k.codecs)
      BY <1>4, ElementPlacesNext
    <3>. QED
      BY <3>1 DEF NextElementPlaces
  <2>2. Firsts(b, k.elements, ElementPlaces(b, n, k.codecs))
    BY DEF FromFirst
  <2>3. Firsts(b, h, ElementPlaces(b, n, k.codecs) \union {n + 1})
    BY <2>1, <2>2, FirstsInserted
  <2>. QED
    BY <2>1, <2>3
<1>. HIDE DEF g, h
<1>6. CodecPlaces(b, n + 1) = CodecPlaces(b, n)
  BY CodecPlacesSame
<1>7. MixPlaces(b, n + 1, h) = MixPlaces(b, n, k.elements)
  <2>1. NextMixPlaces(b, n, k.elements, h)
    BY <1>4, MixPlacesNext
  <2>. QED
    BY <2>1 DEF NextMixPlaces
<1>8. k.mixes \in Seq(1..n + 1)
  <2>1. k.mixes \in Seq(1..n) /\ 1..n \subseteq 1..n + 1
    BY DEF FromFirst
  <2>. QED
    BY <2>1, SeqMonotonic
<1>9. MovedLater(g)
  BY <1>2, <1>4 DEF FromFirst, MovedLater, Grown
<1>10. FromFirst(b, n + 1, g)
  <2>1. Firsts(b, g.codecs, CodecPlaces(b, n + 1))
    BY <1>2, <1>6 DEF FromFirst
  <2>2. ToSet(g.mixes) = MixPlaces(b, n + 1, g.elements) /\ IsInjective(g.mixes)
    BY <1>2, <1>7 DEF FromFirst
  <2>3. g.header = 0 <=> n + 1 = 0
    BY <1>2
  <2>. QED
    BY <1>2, <1>3, <1>5, <1>8, <1>9, <2>1, <2>2, <2>3 DEF FromFirst
<1>. QED
  BY <1>10 DEF g, h

(* The record with one more mix.                                                 *)
LEMMA MixesAre ==
    ASSUME NEW k, IsParsed(k), NEW n
    PROVE  [k EXCEPT !.mixes = Append(@, n)]
             = [header |-> k.header, codecs |-> k.codecs, elements |-> k.elements,
                mixes |-> Append(k.mixes, n), dangling |-> k.dangling]
<1>1. PICK a, c, e, m, d : k = [header |-> a, codecs |-> c, elements |-> e, mixes |-> m,
                                dangling |-> d]
  BY DEF IsParsed
<1>2. /\ k.header = a /\ k.codecs = c /\ k.elements = e /\ k.mixes = m
      /\ k.dangling = d
  BY <1>1
<1>. QED
  BY <1>1, <1>2

(* A mix presentation, even if there is one of its id.                           *)
LEMMA NewMix ==
    ASSUME NEW b, NEW n \in Nat, NEW k, FromFirst(b, n, k), k.header # 0,
           b[n + 1].type = "MixPresentation", b[n + 1].readable,
           \A x \in ElementsOfMix(b[n + 1]) : x.id \in DOMAIN k.elements
    PROVE  FromFirst(b, n + 1, [k EXCEPT !.mixes = Append(@, n + 1)])
<1>. DEFINE h == Append(k.mixes, n + 1)
            g == [k EXCEPT !.mixes = Append(@, n + 1)]
<1>1. /\ g = [header |-> k.header, codecs |-> k.codecs, elements |-> k.elements,
              mixes |-> h, dangling |-> k.dangling]
  <2>1. IsParsed(k)
    BY DEF FromFirst
  <2>. QED
    BY <2>1, MixesAre, Zenon
<1>2. /\ g.header = k.header /\ g.codecs = k.codecs /\ g.elements = k.elements
      /\ g.mixes = h /\ g.dangling = k.dangling
  BY <1>1
<1>3. IsParsed(g)
  BY <1>1, <1>2 DEF IsParsed
<1>4. Grown(k.codecs, k.codecs, n) /\ Grown(k.elements, k.elements, n)
  BY FromFirstGrown
<1>5. k.mixes \in Seq(1..n) /\ k.mixes \in Seq(1..n + 1) /\ n + 1 \in 1..n + 1
  <2>1. k.mixes \in Seq(1..n) /\ 1..n \subseteq 1..n + 1
    BY DEF FromFirst
  <2>. QED
    BY <2>1, SeqMonotonic
<1>6. /\ h \in Seq(1..n + 1) /\ Len(h) = Len(k.mixes) + 1
      /\ \A i \in 1..Len(k.mixes) : h[i] = k.mixes[i]
      /\ h[Len(k.mixes) + 1] = n + 1
  BY <1>5, AppendProperties
<1>7. /\ DOMAIN k.mixes = 1..Len(k.mixes) /\ Len(k.mixes) \in Nat
      /\ \A i \in DOMAIN k.mixes : k.mixes[i] \in 1..n
  BY <1>5
<1>. HIDE DEF h
<1>8. DOMAIN h = DOMAIN k.mixes \union {Len(k.mixes) + 1}
  <2>1. PICK l \in Nat : l = Len(k.mixes)
    BY <1>7
  <2>2. DOMAIN h = 1..l + 1
    BY <1>6, <2>1
  <2>. QED
    BY <1>7, <2>1, <2>2
<1>. HIDE DEF g
<1>9. ToSet(h) = ToSet(k.mixes) \union {n + 1}
  BY <1>6, <1>7, <1>8 DEF ToSet
<1>10. IsInjective(h)
  <2>1. \A i, j \in DOMAIN k.mixes : k.mixes[i] = k.mixes[j] => i = j
    BY DEF FromFirst, IsInjective
  <2>2. ASSUME NEW i \in DOMAIN h, NEW j \in DOMAIN h, h[i] = h[j]
        PROVE  i = j
    <3>1. CASE i \in DOMAIN k.mixes /\ j \in DOMAIN k.mixes
      BY <1>6, <1>7, <2>1, <2>2, <3>1
    <3>2. CASE i = Len(k.mixes) + 1 /\ j \in DOMAIN k.mixes
      <4>1. h[i] = n + 1 /\ h[j] \in 1..n
        BY <1>6, <1>7, <3>2
      <4>. QED
        BY <2>2, <4>1
    <3>3. CASE j = Len(k.mixes) + 1 /\ i \in DOMAIN k.mixes
      <4>1. h[j] = n + 1 /\ h[i] \in 1..n
        BY <1>6, <1>7, <3>3
      <4>. QED
        BY <2>2, <4>1
    <3>. QED
      BY <1>8, <3>1, <3>2, <3>3
  <2>. QED
    BY <2>2 DEF IsInjective
<1>11. /\ CodecPlaces(b, n + 1) = CodecPlaces(b, n)
       /\ ElementPlaces(b, n + 1, k.codecs) = ElementPlaces(b, n, k.codecs)
       /\ MixPlaces(b, n + 1, k.elements) = MixPlaces(b, n, k.elements) \union {n + 1}
  <2>1. NextElementPlaces(b, n, k.codecs, k.codecs) /\ NextMixPlaces(b, n, k.elements, k.elements)
    BY <1>4, ElementPlacesNext, MixPlacesNext
  <2>2. CodecPlaces(b, n + 1) = CodecPlaces(b, n)
    BY CodecPlacesSame
  <2>3. ElementPlaces(b, n + 1, k.codecs) = ElementPlaces(b, n, k.codecs)
    BY <2>1 DEF NextElementPlaces
  <2>4. MixPlaces(b, n + 1, k.elements) = MixPlaces(b, n, k.elements) \union {n + 1}
    BY <2>1 DEF NextMixPlaces
  <2>. QED
    BY <2>2, <2>3, <2>4
<1>12. MovedLater(g)
  BY <1>2 DEF FromFirst, MovedLater
<1>13. FromFirst(b, n + 1, g)
  <2>1. Firsts(b, g.codecs, CodecPlaces(b, n + 1))
    BY <1>2, <1>11 DEF FromFirst
  <2>2. Firsts(b, g.elements, ElementPlaces(b, n + 1, g.codecs))
    BY <1>2, <1>11 DEF FromFirst
  <2>3. ToSet(g.mixes) = MixPlaces(b, n + 1, g.elements)
    BY <1>2, <1>9, <1>11 DEF FromFirst
  <2>4. g.header = 0 <=> n + 1 = 0
    BY <1>2
  <2>. QED
    BY <1>2, <1>3, <1>6, <1>10, <1>12, <2>1, <2>2, <2>3, <2>4 DEF FromFirst
<1>. QED
  BY <1>13 DEF g, h

(* Nothing is read, nothing is kept.                                             *)
LEMMA NothingRead ==
    ASSUME NEW b
    PROVE  FromFirst(b, 0, NothingKept)
<1>. DEFINE k == NothingKept
<1>1. /\ k.header = 0 /\ k.codecs = <<>> /\ k.elements = <<>> /\ k.mixes = <<>>
      /\ k.dangling = {} /\ IsParsed(k)
  BY DEF NothingKept, IsParsed
<1>2. CodecPlaces(b, 0) = {} /\ ElementPlaces(b, 0, <<>>) = {} /\ MixPlaces(b, 0, <<>>) = {}
  BY DEF CodecPlaces, ElementPlaces, MixPlaces
<1>. HIDE DEF k
<1>3. <<>> \in Seq(1..0) /\ ToSet(<<>>) = {} /\ IsInjective(<<>>)
  BY DEF ToSet, IsInjective
<1>4. MovedLater(k)
  BY <1>1 DEF MovedLater
<1>5. Firsts(b, <<>>, {})
  BY DEF Firsts
<1>6. FromFirst(b, 0, k)
  BY <1>1, <1>2, <1>3, <1>4, <1>5 DEF FromFirst
<1>. QED
  BY <1>6 DEF k
-------------------------------------------------------------------------------
(* The properties look at the buffer, what is kept and what was asked for.       *)
LEMMA SameBuffer ==
    ASSUME buffer' = buffer
    PROVE  End' = End /\ \A i : Ends(i)' <=> Ends(i)
<1>1. \A i : Ends(i)' <=> Ends(i)
  BY DEF Ends
<1>2. {i \in DOMAIN buffer : Ends(i)}' = {i \in DOMAIN buffer : Ends(i)}
  BY <1>1
<1>3. End' = End
  BY <1>2 DEF End
<1>. QED
  BY <1>1, <1>3

LEMMA SameKept ==
    ASSUME buffer' = buffer, kept' = kept, request' = request
    PROVE  /\ Consistent' <=> Consistent
           /\ GetSupportedMixPresentations' = GetSupportedMixPresentations
           /\ \A s : HasOutputLayout(s)' <=> HasOutputLayout(s)
           /\ \A s : FindMixPresentationAndLayout(s)' = FindMixPresentationAndLayout(s)
<1>1. \A i : KeptMix(i)' = KeptMix(i) /\ KeptElement(i)' = KeptElement(i)
  BY DEF KeptMix, KeptElement
<1>2. ParamDefinitions' = ParamDefinitions
  BY <1>1 DEF ParamDefinitions
<1>3. Consistent' <=> Consistent
  BY <1>1, <1>2 DEF Consistent
<1>4. FilteredElements' = FilteredElements
  BY <1>1 DEF FilteredElements
<1>5. GetSupportedMixPresentations' = GetSupportedMixPresentations
  BY <1>1, <1>4 DEF GetSupportedMixPresentations, IsSupported
<1>6. \A i : (HasId(i)' <=> HasId(i)) /\ (HasLayout(i)' <=> HasLayout(i))
  BY <1>1 DEF HasId, HasLayout
<1>7. \A s : WithId(s)' = WithId(s) /\ WithLayout(s)' = WithLayout(s)
  BY <1>6 DEF WithId, WithLayout
<1>8. \A s : SelectedMix(s)' = SelectedMix(s)
  BY <1>7 DEF SelectedMix
<1>9. \A s : HasOutputLayout(s)' <=> HasOutputLayout(s)
  BY <1>1, <1>8 DEF HasOutputLayout
<1>10. \A s : FindMixPresentationAndLayout(s)' = FindMixPresentationAndLayout(s)
  BY <1>1, <1>8 DEF FindMixPresentationAndLayout
<1>. QED
  BY <1>3, <1>5, <1>9, <1>10
-------------------------------------------------------------------------------
(* The invariant from the start, and over every step.                            *)
LEMMA LengthIs ==
    ASSUME BufferTyped
    PROVE  /\ IsSequence(buffer) /\ Len(buffer) \in Nat /\ DOMAIN buffer = 1..Len(buffer)
           /\ position \in Nat /\ received \in Nat
           /\ position <= Len(buffer) /\ received <= 2 * Len(buffer)
BY DEF BufferTyped, IsSequence

LEMMA StartsReading ==
    ASSUME Init
    PROVE  IInv
<1>1. PICK s \in Streams :
        /\ buffer = s.obus /\ exhaustive = s.exhaustive /\ request = s.request
        /\ received = IF s.exhaustive THEN 2 * Len(s.obus) ELSE 0
        /\ pc = IF s.exhaustive THEN "parsing" ELSE "waiting"
  BY DEF Init
<1>2. position = 0 /\ kept = NothingKept
  BY DEF Init
<1>3. BufferTyped
  <2>1. Len(buffer) \in Nat
    BY <1>1, StreamsAssumption DEF IsSequence
  <2>. QED
    BY <1>1, <1>2, <2>1, StreamsAssumption DEF BufferTyped
<1>4. ReadingInv
  <2>1. FromFirst(buffer, 0, kept)
    BY <1>2, NothingRead
  <2>2. pc = "waiting" => ~Arrived
    <3>1. End \in 1..Len(buffer) + 1 /\ Len(buffer) \in Nat
      BY <1>3, LengthIs, EndIs
    <3>2. pc = "waiting" => received = 0
      BY <1>1, StreamsAssumption
    <3>. QED
      BY <3>1, <3>2 DEF Arrived
  <2>. QED
    BY <1>1, <1>2, <2>1, <2>2 DEF ReadingInv
<1>. QED
  BY <1>1, <1>3, <1>4 DEF IInv, CheckedInv, FailedInv

LEMMA Receives ==
    ASSUME IInv, Receive
    PROVE  IInv'
<1>1. PICK r \in received + 1..2 * Len(buffer) : received' = r
  BY DEF Receive
<1>2. /\ pc = "waiting" /\ pc' = "parsing" /\ kept' = NothingKept
      /\ buffer' = buffer /\ exhaustive' = exhaustive /\ request' = request
      /\ position' = position
  BY DEF Receive
<1>3. BufferTyped'
  <2>1. r \in 0..2 * Len(buffer)
    BY LengthIs DEF IInv
  <2>. QED
    BY <1>1, <1>2, <2>1 DEF IInv, BufferTyped
<1>4. ReadingInv'
  <2>1. position' = 0
    BY <1>2 DEF IInv, ReadingInv
  <2>2. FromFirst(buffer', 0, kept')
    BY <1>2, NothingRead
  <2>. QED
    BY <1>2, <2>1, <2>2 DEF ReadingInv
<1>. QED
  BY <1>2, <1>3, <1>4 DEF IInv, CheckedInv, FailedInv

(* It waits only if the OBU that ends the descriptors is missing.                *)
LEMMA Waits ==
    ASSUME IInv, Insufficient
    PROVE  IInv'
<1>1. /\ pc = "parsing" /\ ~CanRead /\ (CanPeek => Obu.type # "TemporalUnit")
      /\ position' = 0 /\ kept' = NothingKept
      /\ pc' = IF exhaustive THEN "failed" ELSE "waiting"
      /\ buffer' = buffer /\ exhaustive' = exhaustive /\ request' = request
      /\ received' = received
  BY DEF Insufficient, Start
<1>2. BufferTyped'
  BY <1>1, LengthIs DEF IInv, BufferTyped
<1>3. ~Arrived
  <2>1. IsSequence(buffer) /\ position \in 0..Len(buffer) /\ received \in Nat
    BY LengthIs DEF IInv, BufferTyped
  <2>2. position < End /\ End \in Nat
    <3>1. \A i \in 1..position : ~Ends(i)
      BY <1>1 DEF IInv, ReadingInv
    <3>. QED
      BY <2>1, <3>1, EndIsLater, EndIs
  <2>3. CASE position + 1 = End
    <3>1. Obu = buffer[End]
      BY <2>3 DEF Obu
    <3>2. ~(received >= 2 * End)
      BY <1>1, <2>3 DEF CanRead
    <3>3. received > 2 * (End - 1) => buffer[End].type # "TemporalUnit"
      <4>1. End - 1 = position
        BY <2>1, <2>3
      <4>. QED
        BY <1>1, <3>1, <4>1 DEF CanPeek
    <3>. QED
      BY <3>2, <3>3 DEF Arrived
  <2>4. CASE position + 1 # End
    <3>1. received < 2 * (position + 1)
      BY <1>1, <2>1 DEF CanRead
    <3>2. ~(received > 2 * (End - 1)) /\ ~(received >= 2 * End)
      BY <2>1, <2>2, <2>4, <3>1
    <3>. QED
      BY <3>2 DEF Arrived
  <2>. QED
    BY <2>3, <2>4
<1>4. ReadingInv'
  <2>1. FromFirst(buffer', 0, kept')
    BY <1>1, NothingRead
  <2>2. ~Arrived'
    BY <1>1, <1>3, SameBuffer DEF Arrived
  <2>. QED
    BY <1>1, <2>1, <2>2 DEF ReadingInv
<1>5. FailedInv'
  BY <1>1 DEF FailedInv, NothingToRender, NothingKept
<1>. QED
  BY <1>1, <1>2, <1>4, <1>5 DEF IInv, CheckedInv

(* Reading ended before the OBU that ends the descriptors, or that is an error.  *)
(* A header that is refused is none that ends the descriptors.                   *)
LEMMA RefusesHeader ==
    ASSUME IInv, RefuseHeader
    PROVE  IInv'
<1>1. /\ pc = "parsing" /\ pc' = "failed" /\ Obu.type \in {"Unpeekable", "Invalid"}
      /\ CanPeek \/ CanRead
      /\ position' = position /\ buffer' = buffer /\ exhaustive' = exhaustive
      /\ request' = request /\ received' = received /\ kept' = kept
  BY DEF RefuseHeader
<1>2. BufferTyped'
  BY <1>1 DEF IInv, BufferTyped
<1>3. /\ IsSequence(buffer) /\ position \in 0..Len(buffer) /\ position \in Nat
      /\ received <= 2 * Len(buffer) /\ received \in Nat /\ Len(buffer) \in Nat
  BY LengthIs DEF IInv, BufferTyped
<1>4. position + 1 <= Len(buffer)
  BY <1>1, <1>3 DEF CanPeek, CanRead
<1>5. ~Ends(position + 1)
  BY <1>1 DEF Ends, Obu
<1>6. /\ position < End /\ End \in Nat
      /\ End <= Len(buffer) => Ends(End)
  <2>1. \A i \in 1..position : ~Ends(i)
    BY <1>1 DEF IInv, ReadingInv
  <2>. QED
    BY <1>3, <2>1, EndIsLater, EndIs
<1>7. End # position + 1
  BY <1>4, <1>5, <1>6
<1>8. FailedInv'
  <2>1. End' = End
    BY <1>1, SameBuffer
  <2>2. position # End - 1
    BY <1>3, <1>6, <1>7
  <2>. QED
    BY <1>1, <2>1, <2>2 DEF FailedInv, NothingToRender
<1>. QED
  BY <1>1, <1>2, <1>8 DEF IInv, ReadingInv, CheckedInv

LEMMA ReachesTemporalUnit ==
    ASSUME IInv, ReachTemporalUnit
    PROVE  IInv'
<1>1. /\ pc = "parsing" /\ CanPeek /\ Obu.type = "TemporalUnit"
      /\ pc' = IF exhaustive \/ kept.header = 0 THEN "failed" ELSE "parsed"
      /\ position' = IF exhaustive THEN 0 ELSE position
      /\ buffer' = buffer /\ exhaustive' = exhaustive /\ request' = request
      /\ received' = received /\ kept' = kept
  BY DEF ReachTemporalUnit, Start
<1>2. BufferTyped'
  BY <1>1, LengthIs DEF IInv, BufferTyped
<1>3. Ends(position + 1)
  BY <1>1 DEF Ends, Obu
<1>4. ReadingInv'
  <2>1. CASE pc' = "failed"
    BY <2>1 DEF ReadingInv
  <2>2. CASE pc' # "failed"
    <3>1. pc' = "parsed" /\ position' = position
      BY <1>1, <2>2
    <3>2. Ends(position + 1)' /\ \A i \in 1..position : Ends(i)' <=> Ends(i)
      BY <1>1, <1>3, <3>1, SameBuffer
    <3>. QED
      BY <1>1, <3>1, <3>2 DEF IInv, ReadingInv
  <2>. QED
    BY <2>1, <2>2
<1>5. FailedInv'
  <2>1. CASE pc' = "failed" /\ kept.header # 0
    <3>1. position' = 0
      BY <1>1, <2>1
    <3>2. position # 0 /\ \A i \in 1..position : ~Ends(i)
      BY <1>1, <2>1 DEF IInv, ReadingInv, FromFirst
    <3>3. position < End /\ End \in Nat /\ position \in Nat
      BY <3>2, EndIsLater, EndIs, LengthIs DEF IInv, BufferTyped
    <3>4. End' = End
      BY <1>1, SameBuffer
    <3>. QED
      BY <3>1, <3>2, <3>3, <3>4 DEF FailedInv, NothingToRender
  <2>2. CASE kept.header = 0
    BY <1>1, <2>2 DEF FailedInv, NothingToRender
  <2>. QED
    BY <1>1, <2>1, <2>2 DEF FailedInv
<1>. QED
  BY <1>1, <1>2, <1>4, <1>5 DEF IInv, CheckedInv

LEMMA ReachesNextSequence ==
    ASSUME IInv, ReachNextSequence
    PROVE  IInv'
<1>1. /\ pc = "parsing" /\ pc' = "parsed" /\ Obu.type = "SequenceHeader"
      /\ kept.header # 0 /\ ~Obu.redundant
      /\ position' = position /\ buffer' = buffer /\ exhaustive' = exhaustive
      /\ request' = request /\ received' = received /\ kept' = kept
  BY DEF ReachNextSequence
<1>2. BufferTyped'
  BY <1>1 DEF IInv, BufferTyped
<1>3. Ends(position + 1)
  <2>1. position # 0 /\ position \in Nat
    BY <1>1, LengthIs DEF IInv, ReadingInv, FromFirst
  <2>. QED
    BY <1>1, <2>1 DEF Ends, Obu
<1>4. ReadingInv'
  <2>1. Ends(position + 1)' /\ \A i \in 1..position : Ends(i)' <=> Ends(i)
    BY <1>1, <1>3, SameBuffer
  <2>. QED
    BY <1>1, <2>1 DEF IInv, ReadingInv
<1>. QED
  BY <1>1, <1>2, <1>4 DEF IInv, CheckedInv, FailedInv

(* An OBU that does not end the descriptors is read.                             *)
LEMMA Keeps ==
    ASSUME IInv, pc = "parsing", CanRead, ~Ends(position + 1), NEW k, Kept(k),
           k.header # 0 => FromFirst(buffer, position + 1, k)
    PROVE  IInv'
<1>1. /\ kept' = k /\ position' = position + 1
      /\ pc' = IF k.header = 0 THEN "failed"
               ELSE IF exhaustive /\ position + 1 = Len(buffer) THEN "parsed"
               ELSE "parsing"
      /\ buffer' = buffer /\ exhaustive' = exhaustive /\ request' = request
      /\ received' = received
  BY DEF Kept
<1>2. position \in Nat /\ Len(buffer) \in Nat /\ position + 1 <= Len(buffer)
  BY LengthIs DEF IInv, CanRead
<1>3. BufferTyped'
  BY <1>1, <1>2 DEF IInv, BufferTyped
<1>4. ReadingInv'
  <2>1. CASE k.header = 0
    BY <1>1, <2>1 DEF ReadingInv
  <2>2. CASE k.header # 0
    <3>1. FromFirst(buffer', position', kept')
      BY <1>1, <2>2
    <3>2. \A i \in 1..position' : ~Ends(i)'
      <4>1. \A i \in 1..position : ~Ends(i)
        BY DEF IInv, ReadingInv
      <4>2. \A i \in 1..position + 1 : ~Ends(i)
        BY <1>2, <4>1
      <4>. QED
        BY <1>1, <4>2, SameBuffer
    <3>3. pc' = "parsing" \/ (pc' = "parsed" /\ position' = Len(buffer'))
      BY <1>1, <1>2, <2>2
    <3>. QED
      BY <1>2, <3>1, <3>2, <3>3 DEF ReadingInv
  <2>. QED
    BY <2>1, <2>2
<1>5. FailedInv'
  BY <1>1 DEF FailedInv, NothingToRender
<1>6. CheckedInv'
  BY <1>1 DEF CheckedInv
<1>. QED
  BY <1>3, <1>4, <1>5, <1>6 DEF IInv

LEMMA IsRead ==
    ASSUME IInv, pc = "parsing"
    PROVE  /\ position \in Nat /\ FromFirst(buffer, position, kept)
           /\ kept.header = 0 <=> position = 0
           /\ kept = [kept EXCEPT !.header = kept.header]
           /\ Obu = buffer[position + 1] /\ At = position + 1
<1>1. position \in Nat /\ FromFirst(buffer, position, kept)
  BY LengthIs DEF IInv, ReadingInv
<1>2. kept.header = 0 <=> position = 0
  BY <1>1 DEF FromFirst
<1>3. kept = [kept EXCEPT !.header = kept.header]
  <2>1. PICK h, c, e, m, d : kept = [header |-> h, codecs |-> c, elements |-> e, mixes |-> m,
                                     dangling |-> d]
    BY <1>1 DEF FromFirst, IsParsed
  <2>. QED
    BY <2>1
<1>. QED
  BY <1>1, <1>2, <1>3 DEF Obu, At

LEMMA ReadsSequenceHeader ==
    ASSUME IInv, ReadSequenceHeader
    PROVE  IInv'
<1>1. /\ pc = "parsing" /\ CanRead /\ Obu.type = "SequenceHeader"
      /\ kept.header = 0 \/ Obu.redundant
  BY DEF ReadSequenceHeader, Consumes
<1>2. /\ position \in Nat /\ FromFirst(buffer, position, kept)
      /\ kept.header = 0 <=> position = 0
      /\ Obu = buffer[position + 1] /\ At = position + 1
  BY <1>1, IsRead
<1>3. ~Ends(position + 1)
  BY <1>1, <1>2 DEF Ends
<1>4. CASE Obu.readable
  <2>. DEFINE k == [kept EXCEPT !.header = At]
  <2>1. Kept(k)
    BY <1>4 DEF ReadSequenceHeader
  <2>2. FromFirst(buffer, position + 1, k)
    <3>1. At \in Nat \ {0}
      BY <1>2
    <3>2. /\ buffer[position + 1].type # "CodecConfig"
          /\ buffer[position + 1].type # "AudioElement"
          /\ buffer[position + 1].type # "MixPresentation"
      BY <1>1, <1>2
    <3>. QED
      BY <1>2, <3>1, <3>2, NothingNew
  <2>. HIDE DEF k
  <2>. QED
    BY <1>1, <1>3, <2>1, <2>2, Keeps
<1>5. CASE ~Obu.readable
  <2>1. /\ pc' = "failed" /\ buffer' = buffer /\ exhaustive' = exhaustive
        /\ request' = request /\ received' = received /\ position' = position
        /\ kept' = kept
    BY <1>5 DEF ReadSequenceHeader
  <2>2. position # End - 1
    <3>1. IsSequence(buffer) /\ Len(buffer) \in Nat /\ position + 1 <= Len(buffer)
      BY <1>1, <1>2, LengthIs DEF IInv, CanRead
    <3>2. End \in Nat /\ (End <= Len(buffer) => Ends(End))
      BY <3>1, EndIs
    <3>. QED
      BY <1>2, <1>3, <3>1, <3>2
  <2>3. FailedInv'
    BY <2>1, <2>2, SameBuffer DEF FailedInv, NothingToRender
  <2>4. BufferTyped' /\ ReadingInv' /\ CheckedInv'
    BY <2>1 DEF IInv, BufferTyped, ReadingInv, CheckedInv
  <2>. QED
    BY <2>3, <2>4 DEF IInv
<1>. QED
  BY <1>4, <1>5

LEMMA ReadsCodecConfig ==
    ASSUME IInv, ReadCodecConfig
    PROVE  IInv'
<1>1. pc = "parsing" /\ CanRead /\ Obu.type = "CodecConfig"
  BY DEF ReadCodecConfig, Consumes
<1>2. /\ position \in Nat /\ FromFirst(buffer, position, kept)
      /\ kept.header = 0 <=> position = 0
      /\ kept = [kept EXCEPT !.header = kept.header]
      /\ Obu = buffer[position + 1] /\ At = position + 1
  BY <1>1, IsRead
<1>3. ~Ends(position + 1)
  BY <1>1, <1>2 DEF Ends
<1>4. CASE Obu.readable /\ ~Obu.tiny /\ Obu.id \notin DOMAIN kept.codecs
  <2>1. PICK moved \in {{}, DOMAIN kept.elements} :
          Kept([kept EXCEPT !.codecs = Inserted(kept.codecs, Obu.id, At),
                            !.dangling = @ \union moved])
    BY <1>4 DEF ReadCodecConfig
  <2>. DEFINE k == [kept EXCEPT !.codecs = Inserted(kept.codecs, Obu.id, At),
                                !.dangling = @ \union moved]
  <2>2. k.header = kept.header
    <3>1. PICK h, c, e, m, d : kept = [header |-> h, codecs |-> c, elements |-> e,
                                       mixes |-> m, dangling |-> d]
      BY <1>2 DEF FromFirst, IsParsed
    <3>. QED
      BY <3>1
  <2>3. kept.header # 0 => FromFirst(buffer, position + 1, k)
    <3>. SUFFICES ASSUME kept.header # 0
                  PROVE  FromFirst(buffer, position + 1,
                             [kept EXCEPT !.codecs = Inserted(kept.codecs, Obu.id, At),
                                          !.dangling = @ \union moved])
      OBVIOUS
    <3>1. /\ buffer[position + 1].type = "CodecConfig" /\ buffer[position + 1].readable
          /\ ~buffer[position + 1].tiny /\ buffer[position + 1].id \notin DOMAIN kept.codecs
      BY <1>1, <1>2, <1>4
    <3>2. FromFirst(buffer, position + 1,
              [kept EXCEPT !.codecs = Inserted(kept.codecs, buffer[position + 1].id, position + 1),
                           !.dangling = @ \union moved])
      BY <1>2, <3>1, NewCodec, Zenon
    <3>. QED
      BY <1>2, <3>2, Zenon
  <2>. HIDE DEF k
  <2>4. Kept(k)
    BY <2>1 DEF k
  <2>. QED
    BY <1>1, <1>3, <2>2, <2>3, <2>4, Keeps
<1>5. CASE ~(Obu.readable /\ ~Obu.tiny /\ Obu.id \notin DOMAIN kept.codecs)
  <2>1. Kept(kept)
    BY <1>5 DEF ReadCodecConfig
  <2>2. kept.header # 0 => FromFirst(buffer, position + 1, kept)
    <3>1. SUFFICES ASSUME kept.header # 0 PROVE FromFirst(buffer, position + 1, kept)
      OBVIOUS
    <3>2. FromFirst(buffer, position + 1, [kept EXCEPT !.header = kept.header])
      BY <1>1, <1>2, <1>5, <3>1, NothingNew
    <3>. QED
      BY <1>2, <3>2
  <2>. QED
    BY <1>1, <1>3, <2>1, <2>2, Keeps
<1>. QED
  BY <1>4, <1>5

LEMMA ReadsAudioElement ==
    ASSUME IInv, ReadAudioElement
    PROVE  IInv'
<1>1. pc = "parsing" /\ CanRead /\ Obu.type = "AudioElement"
  BY DEF ReadAudioElement, Consumes
<1>2. /\ position \in Nat /\ FromFirst(buffer, position, kept)
      /\ kept = [kept EXCEPT !.header = kept.header]
      /\ Obu = buffer[position + 1] /\ At = position + 1
  BY <1>1, IsRead
<1>3. ~Ends(position + 1)
  BY <1>1, <1>2 DEF Ends
<1>4. CASE Obu.readable /\ Obu.config # "senseless" /\ Obu.codec \in DOMAIN kept.codecs
  <2>. DEFINE k == [kept EXCEPT !.elements = Inserted(kept.elements, Obu.id, At)]
  <2>1. Kept(k)
    BY <1>4 DEF ReadAudioElement
  <2>2. k.header = kept.header
    <3>1. PICK h, c, e, m, d : kept = [header |-> h, codecs |-> c, elements |-> e,
                                       mixes |-> m, dangling |-> d]
      BY <1>2 DEF FromFirst, IsParsed
    <3>. QED
      BY <3>1
  <2>3. kept.header # 0 => FromFirst(buffer, position + 1, k)
    BY <1>1, <1>2, <1>4, NewElement
  <2>. HIDE DEF k
  <2>. QED
    BY <1>1, <1>3, <2>1, <2>2, <2>3, Keeps
<1>5. CASE ~(Obu.readable /\ Obu.config # "senseless" /\ Obu.codec \in DOMAIN kept.codecs)
  <2>1. Kept(kept)
    BY <1>5 DEF ReadAudioElement
  <2>2. ASSUME kept.header # 0 PROVE FromFirst(buffer, position + 1, kept)
    <3>1. FromFirst(buffer, position + 1, [kept EXCEPT !.header = kept.header])
      BY <1>1, <1>2, <1>5, <2>2, NothingNew
    <3>. QED
      BY <1>2, <3>1
  <2>. QED
    BY <1>1, <1>3, <2>1, <2>2, Keeps
<1>. QED
  BY <1>4, <1>5

LEMMA ReadsMixPresentation ==
    ASSUME IInv, ReadMixPresentation
    PROVE  IInv'
<1>1. pc = "parsing" /\ CanRead /\ Obu.type = "MixPresentation"
  BY DEF ReadMixPresentation, Consumes
<1>2. /\ position \in Nat /\ FromFirst(buffer, position, kept)
      /\ kept = [kept EXCEPT !.header = kept.header]
      /\ Obu = buffer[position + 1] /\ At = position + 1
  BY <1>1, IsRead
<1>3. ~Ends(position + 1)
  BY <1>1, <1>2 DEF Ends
<1>4. CASE Obu.readable /\ HasElements(kept, Obu)
  <2>. DEFINE k == [kept EXCEPT !.mixes = Append(@, At)]
  <2>1. Kept(k)
    BY <1>4 DEF ReadMixPresentation
  <2>2. k.header = kept.header
    <3>1. PICK h, c, e, m, d : kept = [header |-> h, codecs |-> c, elements |-> e,
                                       mixes |-> m, dangling |-> d]
      BY <1>2 DEF FromFirst, IsParsed
    <3>. QED
      BY <3>1
  <2>3. kept.header # 0 => FromFirst(buffer, position + 1, k)
    BY <1>1, <1>2, <1>4, NewMix DEF HasElements
  <2>. HIDE DEF k
  <2>. QED
    BY <1>1, <1>3, <2>1, <2>2, <2>3, Keeps
<1>5. CASE ~(Obu.readable /\ HasElements(kept, Obu))
  <2>1. Kept(kept)
    BY <1>5 DEF ReadMixPresentation
  <2>2. ASSUME kept.header # 0 PROVE FromFirst(buffer, position + 1, kept)
    <3>1. FromFirst(buffer, position + 1, [kept EXCEPT !.header = kept.header])
      BY <1>1, <1>2, <1>5, <2>2, NothingNew DEF HasElements
    <3>. QED
      BY <1>2, <3>1
  <2>. QED
    BY <1>1, <1>3, <2>1, <2>2, Keeps
<1>. QED
  BY <1>4, <1>5

LEMMA Bypasses ==
    ASSUME IInv, Bypass
    PROVE  IInv'
<1>1. pc = "parsing" /\ CanRead /\ Obu.type = "Reserved" /\ Kept(kept)
  BY DEF Bypass, Consumes
<1>2. /\ position \in Nat /\ FromFirst(buffer, position, kept)
      /\ kept = [kept EXCEPT !.header = kept.header]
      /\ Obu = buffer[position + 1]
  BY <1>1, IsRead
<1>3. ~Ends(position + 1)
  BY <1>1, <1>2 DEF Ends
<1>4. ASSUME kept.header # 0 PROVE FromFirst(buffer, position + 1, kept)
  <2>1. FromFirst(buffer, position + 1, [kept EXCEPT !.header = kept.header])
    BY <1>1, <1>2, <1>4, NothingNew
  <2>. QED
    BY <1>2, <2>1
<1>. QED
  BY <1>1, <1>3, <1>4, Keeps

(* Descriptors that contradict each other are an error.                          *)
LEMMA Initializes ==
    ASSUME IInv, Initialize
    PROVE  IInv'
<1>1. /\ pc = "parsed" /\ pc' = IF Consistent THEN "initialized" ELSE "failed"
      /\ buffer' = buffer /\ exhaustive' = exhaustive /\ request' = request
      /\ received' = received /\ position' = position /\ kept' = kept
  BY DEF Initialize
<1>2. Consistent' <=> Consistent
  BY <1>1, SameKept
<1>3. BufferTyped'
  BY <1>1 DEF IInv, BufferTyped
<1>4. ReadingInv'
  BY <1>1, SameBuffer DEF IInv, ReadingInv
<1>5. CheckedInv'
  BY <1>1, <1>2 DEF CheckedInv
<1>6. FailedInv'
  BY <1>1, <1>2 DEF FailedInv, NothingToRender
<1>. QED
  BY <1>3, <1>4, <1>5, <1>6 DEF IInv

(* A reset reads what was read once more.                                        *)
LEMMA Resets ==
    ASSUME IInv, ResetWithNewMix
    PROVE  IInv'
<1>1. /\ buffer' = SubSeq(buffer, 1, position) /\ received' = 2 * position
      /\ position' = 0 /\ kept' = NothingKept /\ pc' = "parsing"
      /\ exhaustive' = exhaustive /\ request'.profiles = request.profiles
  BY DEF ResetWithNewMix, Start
<1>2. BufferTyped'
  <2>1. /\ buffer \in Seq(ToSet(buffer)) /\ position \in 0..Len(buffer)
        /\ Len(buffer) \in Nat /\ DOMAIN buffer = 1..Len(buffer)
    BY LengthIs DEF IInv, BufferTyped, IsSequence
  <2>2. /\ buffer' \in Seq(ToSet(buffer)) /\ Len(buffer') = position
        /\ \A i \in 1..position : buffer'[i] = buffer[i]
    BY <1>1, <2>1
  <2>3. PICK b : b = buffer'
    OBVIOUS
  <2>4. b \in Seq(ToSet(b))
    <3>1. b \in [1..position -> ToSet(buffer)]
      BY <2>2, <2>3
    <3>2. \A i \in 1..position : b[i] \in ToSet(b)
      BY <3>1 DEF ToSet
    <3>3. b \in [1..position -> ToSet(b)]
      BY <3>1, <3>2
    <3>. QED
      BY <2>1, <3>3
  <2>5. \A i \in DOMAIN b : WellFormed(b[i])
    <3>1. DOMAIN b = 1..position
      BY <2>2, <2>3
    <3>2. \A i \in 1..position : i \in DOMAIN buffer /\ b[i] = buffer[i]
      BY <2>1, <2>2, <2>3
    <3>. QED
      BY <3>1, <3>2 DEF IInv, BufferTyped
  <2>6. IsSequence(buffer') /\ \A i \in DOMAIN buffer' : WellFormed(buffer'[i])
    BY <2>3, <2>4, <2>5 DEF IsSequence
  <2>7. /\ exhaustive' \in BOOLEAN /\ request'.profiles \subseteq ProfileVersions
        /\ position' \in 0..Len(buffer') /\ received' \in 0..2 * Len(buffer')
        /\ pc' = "parsing"
    BY <1>1, <2>1, <2>2 DEF IInv, BufferTyped
  <2>. QED
    BY <2>6, <2>7 DEF BufferTyped
<1>3. ReadingInv'
  <2>1. FromFirst(buffer', 0, kept')
    BY <1>1, NothingRead
  <2>. QED
    BY <1>1, <2>1 DEF ReadingInv
<1>. QED
  BY <1>1, <1>2, <1>3 DEF IInv, CheckedInv, FailedInv
-------------------------------------------------------------------------------
(* What is kept refers to what is kept.                                          *)
LEMMA KeptIs ==
    ASSUME IInv, pc # "failed"
    PROVE  /\ DOMAIN kept.mixes = 1..Len(kept.mixes) /\ Len(kept.mixes) \in Nat
           /\ \A id \in DOMAIN kept.elements :
                /\ KeptElement(id).kind \in {"channels", "ambisonics", "objects"}
                /\ KeptElement(id).channels \in Nat
                /\ KeptElement(id).codec \in DOMAIN kept.codecs
           /\ \A i \in DOMAIN kept.mixes :
                /\ IsSequence(KeptMix(i).subMixes) /\ KeptMix(i).subMixes # <<>>
                /\ \A j \in DOMAIN KeptMix(i).subMixes :
                     /\ IsSequence(KeptMix(i).subMixes[j].elements)
                     /\ KeptMix(i).subMixes[j].elements # <<>>
                     /\ IsSequence(KeptMix(i).subMixes[j].layouts)
                /\ \A x \in ElementsOfMix(KeptMix(i)) : x.id \in DOMAIN kept.elements
<1>1. /\ Len(buffer) \in Nat /\ DOMAIN buffer = 1..Len(buffer)
      /\ position \in Nat /\ position <= Len(buffer)
      /\ \A i \in DOMAIN buffer : WellFormed(buffer[i])
  BY LengthIs DEF IInv, BufferTyped
<1>2. /\ Firsts(buffer, kept.elements, ElementPlaces(buffer, position, kept.codecs))
      /\ kept.mixes \in Seq(1..position)
      /\ ToSet(kept.mixes) = MixPlaces(buffer, position, kept.elements)
  BY DEF IInv, ReadingInv, FromFirst
<1>3. DOMAIN kept.mixes = 1..Len(kept.mixes) /\ Len(kept.mixes) \in Nat
  BY <1>2
<1>4. ASSUME NEW id \in DOMAIN kept.elements
      PROVE  /\ KeptElement(id).kind \in {"channels", "ambisonics", "objects"}
             /\ KeptElement(id).channels \in Nat
             /\ KeptElement(id).codec \in DOMAIN kept.codecs
  <2>1. PICK p : p = kept.elements[id] /\ p \in ElementPlaces(buffer, position, kept.codecs)
    BY <1>2 DEF Firsts
  <2>2. /\ p \in DOMAIN buffer /\ buffer[p].type = "AudioElement" /\ buffer[p].readable
        /\ buffer[p].codec \in DOMAIN kept.codecs
    BY <1>1, <2>1 DEF ElementPlaces
  <2>3. WellFormed(buffer[p])
    BY <1>1, <2>2
  <2>. QED
    BY <2>1, <2>2, <2>3 DEF WellFormed, KeptElement
<1>5. ASSUME NEW i \in DOMAIN kept.mixes
      PROVE  /\ IsSequence(KeptMix(i).subMixes) /\ KeptMix(i).subMixes # <<>>
             /\ \A j \in DOMAIN KeptMix(i).subMixes :
                  /\ IsSequence(KeptMix(i).subMixes[j].elements)
                  /\ KeptMix(i).subMixes[j].elements # <<>>
                  /\ IsSequence(KeptMix(i).subMixes[j].layouts)
             /\ \A x \in ElementsOfMix(KeptMix(i)) : x.id \in DOMAIN kept.elements
  <2>1. PICK p : p = kept.mixes[i] /\ p \in MixPlaces(buffer, position, kept.elements)
    BY <1>2 DEF ToSet
  <2>2. /\ p \in DOMAIN buffer /\ buffer[p].type = "MixPresentation" /\ buffer[p].readable
        /\ \A x \in ElementsOfMix(buffer[p]) : x.id \in DOMAIN kept.elements
    BY <1>1, <2>1 DEF MixPlaces
  <2>3. WellFormed(buffer[p])
    BY <1>1, <2>2
  <2>4. KeptMix(i) = buffer[p]
    BY <2>1 DEF KeptMix
  <2>. QED
    BY <2>2, <2>3, <2>4 DEF WellFormed
<1>. QED
  BY <1>3, <1>4, <1>5

LEMMA FirstIs ==
    ASSUME NEW places, places \subseteq Nat, places # {}
    PROVE  First(places) \in places
BY LeastNumber DEF First

(* What is asked for comes first.                                                *)
LEMMA SelectedMixIs ==
    ASSUME NEW supported, supported \subseteq Nat, supported # {}
    PROVE  /\ SelectedMix(supported) \in supported
           /\ WithId(supported) # {} => HasId(SelectedMix(supported))
           /\ WithId(supported) = {} /\ WithLayout(supported) # {}
                => HasLayout(SelectedMix(supported))
<1>1. CASE WithId(supported) # {}
  <2>1. WithId(supported) \subseteq Nat
    BY DEF WithId
  <2>2. First(WithId(supported)) \in WithId(supported)
    BY <1>1, <2>1, FirstIs
  <2>. QED
    BY <1>1, <2>2 DEF SelectedMix, WithId
<1>2. CASE WithId(supported) = {} /\ WithLayout(supported) # {}
  <2>1. WithLayout(supported) \subseteq Nat
    BY DEF WithLayout
  <2>2. First(WithLayout(supported)) \in WithLayout(supported)
    BY <1>2, <2>1, FirstIs
  <2>. QED
    BY <1>2, <2>2 DEF SelectedMix, WithLayout
<1>3. CASE WithId(supported) = {} /\ WithLayout(supported) = {}
  <2>1. First(supported) \in supported
    BY FirstIs
  <2>. QED
    BY <1>3, <2>1 DEF SelectedMix
<1>. QED
  BY <1>1, <1>2, <1>3

(* The layout is the one asked for, or the first, and it is there.               *)
LEMMA SelectedLayoutIs ==
    ASSUME IInv, pc # "failed", NEW supported, SelectedMix(supported) \in DOMAIN kept.mixes,
           HasOutputLayout(supported),
           NEW s, s = FindMixPresentationAndLayout(supported)
    PROVE  /\ s.mix = SelectedMix(supported)
           /\ s.subMix \in DOMAIN KeptMix(s.mix).subMixes
           /\ request.layout # None => s.layout = request.layout
           /\ request.layout = None => s.layout = KeptMix(s.mix).subMixes[1].layouts[1]
           /\ LayoutsWith(s)[s.index] = s.layout
<1>. DEFINE i == SelectedMix(supported)
            subMixes == KeptMix(i).subMixes
            having == {j \in DOMAIN subMixes : request.layout \in ToSet(subMixes[j].layouts)}
            j == First(having)
            layouts == subMixes[j].layouts
            places == {n \in DOMAIN layouts : layouts[n] = request.layout}
            k == First(places)
<1>1. /\ DOMAIN subMixes = 1..Len(subMixes) /\ Len(subMixes) \in Nat \ {0}
      /\ \A m \in DOMAIN subMixes : /\ subMixes[m].layouts \in Seq(ToSet(subMixes[m].layouts))
                                    /\ DOMAIN subMixes[m].layouts = 1..Len(subMixes[m].layouts)
                                    /\ Len(subMixes[m].layouts) \in Nat
  BY KeptIs DEF IsSequence
<1>2. 1 \in DOMAIN subMixes
  BY <1>1
<1>3. s = CASE request.layout = None ->
                 [mix |-> i, layout |-> subMixes[1].layouts[1], subMix |-> 1, index |-> 1]
            [] request.layout # None /\ having # {} ->
                 [mix |-> i, layout |-> request.layout, subMix |-> j, index |-> k]
            [] request.layout # None /\ having = {} ->
                 [mix |-> i, layout |-> request.layout, subMix |-> 1,
                  index |-> Len(subMixes[1].layouts) + 1]
  BY DEF FindMixPresentationAndLayout, OutputOf
<1>4. CASE request.layout = None
  <2>1. s = [mix |-> i, layout |-> subMixes[1].layouts[1], subMix |-> 1, index |-> 1]
    BY <1>3, <1>4
  <2>2. subMixes[1].layouts # <<>>
    BY <1>4 DEF HasOutputLayout
  <2>3. 1 \in DOMAIN subMixes[1].layouts
    BY <1>1, <1>2, <2>2
  <2>4. LayoutsWith(s)[1] = s.layout
    BY <2>1, <2>3 DEF LayoutsWith
  <2>. QED
    BY <1>2, <1>4, <2>1, <2>4
<1>5. CASE request.layout # None /\ having # {}
  <2>1. s = [mix |-> i, layout |-> request.layout, subMix |-> j, index |-> k]
    BY <1>3, <1>5
  <2>2. j \in having
    <3>1. having \subseteq Nat
      BY <1>1
    <3>. HIDE DEF having
    <3>. QED
      BY <1>5, <3>1, FirstIs
  <2>3. k \in places
    <3>. HIDE DEF j
    <3>1. DOMAIN layouts = 1..Len(layouts) /\ Len(layouts) \in Nat
      BY <1>1, <2>2
    <3>2. PICK n \in DOMAIN layouts : layouts[n] = request.layout
      BY <2>2 DEF ToSet
    <3>. HIDE DEF layouts
    <3>3. places \subseteq Nat /\ n \in places
      BY <3>1, <3>2
    <3>. HIDE DEF places
    <3>. QED
      BY <3>3, FirstIs
  <2>4. j \in DOMAIN subMixes
    BY <2>2
  <2>5. k \in DOMAIN layouts /\ layouts[k] = request.layout
    BY <2>3
  <2>6. layouts = KeptMix(i).subMixes[j].layouts
    OBVIOUS
  <2>7. \A m : m = KeptMix(i) => subMixes = m.subMixes
    OBVIOUS
  <2>. HIDE DEF i, subMixes, j, k, having, places, layouts
  <2>8. s.mix = i /\ s.subMix = j /\ s.index = k /\ s.layout = request.layout
    BY <2>1
  <2>9. LayoutsWith(s) = layouts
    BY <2>5, <2>6, <2>8 DEF LayoutsWith
  <2>10. subMixes = KeptMix(s.mix).subMixes
    BY <2>7, <2>8
  <2>11. i = SelectedMix(supported)
    BY DEF i
  <2>. QED
    BY <1>5, <2>4, <2>5, <2>8, <2>9, <2>10, <2>11
<1>6. CASE request.layout # None /\ having = {}
  <2>1. s = [mix |-> i, layout |-> request.layout, subMix |-> 1,
             index |-> Len(subMixes[1].layouts) + 1]
    BY <1>3, <1>6
  <2>2. PICK l : l = subMixes[1].layouts
    OBVIOUS
  <2>3. l \in Seq(ToSet(l)) /\ DOMAIN l = 1..Len(l) /\ Len(l) \in Nat
    BY <1>1, <1>2, <2>2
  <2>4. Append(l, request.layout)[Len(l) + 1] = request.layout
    <3>1. l \in Seq(ToSet(l) \union {request.layout})
      BY <2>3, SeqMonotonic
    <3>. QED
      BY <3>1, AppendProperties
  <2>5. LayoutsWith(s) = Append(l, request.layout)
    <3>1. Len(l) + 1 \notin DOMAIN l
      BY <2>3
    <3>. QED
      BY <2>1, <2>2, <3>1 DEF LayoutsWith
  <2>. QED
    BY <1>2, <1>6, <2>1, <2>2, <2>4, <2>5
<1>. QED
  BY <1>4, <1>5, <1>6

(* If nothing can be rendered, the descriptors or the request are why.           *)
LEMMA NothingIsRendered ==
    ASSUME IInv, pc = "initialized",
           ~LET supported == GetSupportedMixPresentations
            IN /\ kept.mixes # <<>> /\ DOMAIN kept.elements # {} /\ supported # {}
               /\ HasOutputLayout(supported)
               /\ CanReconstruct(FindMixPresentationAndLayout(supported))
    PROVE  NothingToRender
<1>. DEFINE supported == GetSupportedMixPresentations
            i == SelectedMix(supported)
            s == FindMixPresentationAndLayout(supported)
<1>1. supported \subseteq DOMAIN kept.mixes /\ DOMAIN kept.mixes \subseteq Nat
  BY KeptIs DEF GetSupportedMixPresentations
<1>2. CASE supported = {}
  <2>1. \A n \in DOMAIN kept.mixes : ~Supports(n)
    BY <1>2 DEF GetSupportedMixPresentations, Supports
  <2>. QED
    BY <2>1 DEF NothingToRender
<1>3. CASE supported # {}
  <2>1. i \in DOMAIN kept.mixes /\ i \in supported
    <3>. HIDE DEF supported
    <3>1. supported \subseteq Nat
      BY <1>1
    <3>2. SelectedMix(supported) \in supported
      BY <1>3, <3>1, SelectedMixIs
    <3>. QED
      BY <1>1, <3>2
  <2>2. Supports(i)
    BY <2>1 DEF GetSupportedMixPresentations, Supports
  <2>3. kept.mixes # <<>>
    BY <2>1
  <2>4. DOMAIN kept.elements # {}
    <3>1. /\ IsSequence(KeptMix(i).subMixes) /\ KeptMix(i).subMixes # <<>>
          /\ \A j \in DOMAIN KeptMix(i).subMixes :
               /\ IsSequence(KeptMix(i).subMixes[j].elements)
               /\ KeptMix(i).subMixes[j].elements # <<>>
          /\ \A x \in ElementsOfMix(KeptMix(i)) : x.id \in DOMAIN kept.elements
      <4>. HIDE DEF i
      <4>. QED
        BY <2>1, KeptIs
    <3>. HIDE DEF i
    <3>2. 1 \in DOMAIN KeptMix(i).subMixes
      BY <3>1 DEF IsSequence
    <3>3. 1 \in DOMAIN KeptMix(i).subMixes[1].elements
      BY <3>1, <3>2 DEF IsSequence
    <3>4. KeptMix(i).subMixes[1].elements[1] \in ElementsOfMix(KeptMix(i))
      BY <3>2, <3>3 DEF ElementsOfMix, ElementsOf, ToSet
    <3>. QED
      BY <3>1, <3>4
  <2>5. CASE ~HasOutputLayout(supported)
    <3>1. request.layout = None /\ KeptMix(i).subMixes[1].layouts = <<>>
      BY <2>5 DEF HasOutputLayout
    <3>. QED
      BY <2>1, <2>2, <3>1 DEF NothingToRender
  <2>6. CASE HasOutputLayout(supported) /\ ~CanReconstruct(s)
    <3>1. PICK id \in Rendered(s) : KeptElement(id).kind \notin {"channels", "ambisonics"}
      BY <2>6 DEF CanReconstruct
    <3>2. s.mix = i /\ s.subMix \in DOMAIN KeptMix(i).subMixes
      <4>. HIDE DEF supported
      <4>. QED
        BY <2>1, <2>6, SelectedLayoutIs
    <3>. HIDE DEF s
    <3>3. PICK x : x \in ElementsOf(KeptMix(i).subMixes[s.subMix]) /\ x.id = id
      BY <3>1, <3>2 DEF Rendered
    <3>4. x \in ElementsOfMix(KeptMix(i))
      BY <3>2, <3>3 DEF ElementsOfMix
    <3>. HIDE DEF i
    <3>5. x.id \in DOMAIN kept.elements
      BY <2>1, <3>4, KeptIs
    <3>6. KeptElement(x.id).kind = "objects"
      <4>1. KeptElement(x.id).kind \in {"channels", "ambisonics", "objects"}
        BY <3>5, KeptIs
      <4>. QED
        BY <3>1, <3>3, <4>1
    <3>. QED
      BY <2>1, <2>2, <3>4, <3>6 DEF NothingToRender
  <2>. QED
    BY <1>3, <2>3, <2>4, <2>5, <2>6
<1>. QED
  BY <1>2, <1>3

LEMMA SameFailure ==
    ASSUME buffer' = buffer, kept' = kept, request' = request, position' = position
    PROVE  NothingToRender' <=> NothingToRender
<1>1. (End' = End) /\ (Consistent' <=> Consistent)
  BY SameBuffer, SameKept
<1>2. \A i : KeptMix(i)' = KeptMix(i) /\ KeptElement(i)' = KeptElement(i)
  BY DEF KeptMix, KeptElement
<1>3. FilteredElements' = FilteredElements
  BY Zenon DEF FilteredElements, KeptElement
<1>4. \A i : Supports(i)' <=> Supports(i)
  BY <1>2, <1>3 DEF Supports, IsSupported
<1>. QED
  BY <1>1, <1>2, <1>4 DEF NothingToRender

LEMMA Selects ==
    ASSUME IInv, Select
    PROVE  IInv'
<1>. DEFINE supported == GetSupportedMixPresentations
            s == FindMixPresentationAndLayout(supported)
            Can == /\ kept.mixes # <<>> /\ DOMAIN kept.elements # {} /\ supported # {}
                   /\ HasOutputLayout(supported) /\ CanReconstruct(s)
<1>1. /\ pc = "initialized"
      /\ buffer' = buffer /\ exhaustive' = exhaustive /\ request' = request
      /\ received' = received /\ position' = position /\ kept' = kept
  BY DEF Select
<1>2. IF Can THEN pc' = "ready" /\ selected' = s ELSE pc' = "failed"
  BY DEF Select
<1>3. BufferTyped'
  BY <1>1, <1>2 DEF IInv, BufferTyped
<1>4. ReadingInv'
  <2>. HIDE DEF Can
  <2>. QED
    BY <1>1, <1>2, SameBuffer DEF IInv, ReadingInv
<1>5. CheckedInv'
  <2>1. CASE Can
    <3>1. /\ Consistent' <=> Consistent
          /\ GetSupportedMixPresentations' = supported
          /\ HasOutputLayout(GetSupportedMixPresentations)' <=> HasOutputLayout(supported)
          /\ FindMixPresentationAndLayout(GetSupportedMixPresentations)' = s
      BY <1>1, SameKept
    <3>2. Consistent
      BY <1>1 DEF IInv, CheckedInv
    <3>3. pc' = "ready" /\ selected' = s
      BY <1>2, <2>1
    <3>4. supported # {} /\ HasOutputLayout(supported)
      BY <2>1
    <3>. HIDE DEF s, supported
    <3>. QED
      BY <3>1, <3>2, <3>3, <3>4, Zenon DEF CheckedInv
  <2>2. CASE ~Can
    BY <1>2, <2>2 DEF CheckedInv
  <2>. QED
    BY <2>1, <2>2
<1>6. FailedInv'
  <2>1. CASE Can
    BY <1>2, <2>1 DEF FailedInv
  <2>2. CASE ~Can
    <3>1. NothingToRender
      BY <1>1, <2>2, NothingIsRendered
    <3>. QED
      BY <1>1, <3>1, SameFailure DEF FailedInv
  <2>. QED
    BY <2>1, <2>2
<1>. QED
  BY <1>3, <1>4, <1>5, <1>6 DEF IInv

LEMMA Stutters ==
    ASSUME IInv, UNCHANGED vars
    PROVE  IInv'
<1>1. /\ buffer' = buffer /\ exhaustive' = exhaustive /\ request' = request
      /\ received' = received /\ position' = position /\ kept' = kept /\ pc' = pc
      /\ selected' = selected
  BY DEF vars
<1>2. BufferTyped'
  BY <1>1 DEF IInv, BufferTyped
<1>3. ReadingInv'
  <2>1. Arrived' <=> Arrived
    BY <1>1, SameBuffer DEF Arrived
  <2>. QED
    BY <1>1, <2>1, SameBuffer DEF IInv, ReadingInv
<1>4. CheckedInv'
  BY <1>1, SameKept DEF IInv, CheckedInv
<1>5. FailedInv'
  BY <1>1, SameFailure DEF IInv, FailedInv
<1>. QED
  BY <1>2, <1>3, <1>4, <1>5 DEF IInv

(* What is kept is always what the first OBUs give; nothing is selected that was *)
(* not checked (descriptor_obu_parser.cc, obu_processor.cc, iamf_decoder.cc).    *)
THEOREM ParsingIsInvariant == Spec => []IInv
<1>1. Init => IInv
  BY StartsReading
<1>2. IInv /\ [Next]_vars => IInv'
  <2>. SUFFICES ASSUME IInv, [Next]_vars PROVE IInv'
    OBVIOUS
  <2>1. CASE Receive
    BY <2>1, Receives
  <2>2. CASE Insufficient
    BY <2>2, Waits
  <2>3. CASE ReachTemporalUnit
    BY <2>3, ReachesTemporalUnit
  <2>4. CASE ReachNextSequence
    BY <2>4, ReachesNextSequence
  <2>5. CASE ReadSequenceHeader
    BY <2>5, ReadsSequenceHeader
  <2>6. CASE ReadCodecConfig
    BY <2>6, ReadsCodecConfig
  <2>7. CASE ReadAudioElement
    BY <2>7, ReadsAudioElement
  <2>8. CASE ReadMixPresentation
    BY <2>8, ReadsMixPresentation
  <2>9. CASE Bypass
    BY <2>9, Bypasses
  <2>10. CASE Initialize
    BY <2>10, Initializes
  <2>11. CASE Select
    BY <2>11, Selects
  <2>12. CASE ResetWithNewMix
    BY <2>12, Resets
  <2>13. CASE RefuseHeader
    BY <2>13, RefusesHeader
  <2>14. CASE UNCHANGED vars
    BY <2>14, Stutters
  <2>. QED
    BY <2>1, <2>2, <2>3, <2>4, <2>5, <2>6, <2>7, <2>8, <2>9, <2>10, <2>11, <2>12, <2>13,
       <2>14 DEF Next
<1>. QED
  BY <1>1, <1>2, PTL DEF Spec
-------------------------------------------------------------------------------
(* However the bytes arrive and however often reading starts over, what was read *)
(* is the first codec config and the first usable element of every id, and the   *)
(* mixes whose elements came before (descriptor_obu_parser.cc, iamf_decoder.cc). *)
THEOREM ReadingIsTheSameInPieces == Spec => []SameInPieces
<1>1. ASSUME IInv PROVE SameInPieces
  <2>1. IsSequence(buffer) /\ position \in 0..Len(buffer)
    BY <1>1 DEF IInv, BufferTyped
  <2>2. pc = "waiting" => position = 0 /\ ~Arrived
    BY <1>1 DEF IInv, ReadingInv
  <2>3. ASSUME pc \in {"parsed", "initialized", "ready"}
        PROVE  /\ position = End - 1
               /\ Pairs(kept.codecs) = ById(Codecs)
               /\ Pairs(kept.elements) = ById(AudioElements)
               /\ ToSet(kept.mixes) = Mixes /\ IsInjective(kept.mixes)
    <3>1. /\ FromFirst(buffer, position, kept) /\ \A i \in 1..position : ~Ends(i)
          /\ position < Len(buffer) => Ends(position + 1)
      BY <1>1, <2>3 DEF IInv, ReadingInv
    <3>2. End = position + 1 /\ position \in Nat
      BY <2>1, <3>1, EndIsNext, LengthIs, <1>1 DEF IInv
    <3>3. End - 1 = position
      BY <3>2
    <3>4. /\ Firsts(buffer, kept.codecs, CodecPlaces(buffer, position))
          /\ Firsts(buffer, kept.elements, ElementPlaces(buffer, position, kept.codecs))
          /\ ToSet(kept.mixes) = MixPlaces(buffer, position, kept.elements)
          /\ IsInjective(kept.mixes)
      BY <3>1 DEF FromFirst
    <3>5. /\ CodecPlaces(buffer, position) \subseteq Nat
          /\ ElementPlaces(buffer, position, kept.codecs) \subseteq Nat
      BY DEF CodecPlaces, ElementPlaces
    <3>6. Codecs = FirstsOfTheirId(CodecPlaces(buffer, position))
      <4>1. {i \in ReadableOf("CodecConfig") : ~buffer[i].tiny} = CodecPlaces(buffer, position)
        BY <3>3 DEF ReadableOf, CodecPlaces
      <4>. QED
        BY <4>1 DEF Codecs
    <3>7. \A i \in 1..position : \A id :
            (\E j \in Codecs : j < i /\ buffer[j].id = id)
              <=> (id \in DOMAIN kept.codecs /\ kept.codecs[id] < i)
      <4>1. /\ \A id \in DOMAIN kept.codecs : /\ kept.codecs[id] \in Codecs
                                              /\ buffer[kept.codecs[id]].id = id
            /\ \A i \in Codecs : /\ buffer[i].id \in DOMAIN kept.codecs
                                 /\ kept.codecs[buffer[i].id] = i
        BY <3>4, <3>5, <3>6, FirstsAre
      <4>. QED
        BY <4>1
    <3>8. AudioElements = FirstsOfTheirId(ElementPlaces(buffer, position, kept.codecs))
      <4>1. {i \in ReadableOf("AudioElement") :
               /\ buffer[i].config # "senseless"
               /\ \E j \in Codecs : j < i /\ buffer[j].id = buffer[i].codec}
              = ElementPlaces(buffer, position, kept.codecs)
        BY <3>3, <3>7 DEF ReadableOf, ElementPlaces
      <4>. QED
        BY <4>1 DEF AudioElements
    <3>9. \A i \in 1..position : \A id :
            (\E j \in AudioElements : j < i /\ buffer[j].id = id)
              <=> (id \in DOMAIN kept.elements /\ kept.elements[id] < i)
      <4>1. /\ \A id \in DOMAIN kept.elements : /\ kept.elements[id] \in AudioElements
                                                /\ buffer[kept.elements[id]].id = id
            /\ \A i \in AudioElements : /\ buffer[i].id \in DOMAIN kept.elements
                                        /\ kept.elements[buffer[i].id] = i
        BY <3>4, <3>5, <3>8, FirstsAre
      <4>. QED
        BY <4>1
    <3>10. Mixes = MixPlaces(buffer, position, kept.elements)
      BY <3>3, <3>9 DEF Mixes, ReadableOf, MixPlaces
    <3>11. /\ Pairs(kept.codecs) = ById(Codecs)
           /\ Pairs(kept.elements) = ById(AudioElements)
      BY <3>4, <3>5, <3>6, <3>8, FirstsById
    <3>. QED
      BY <3>3, <3>4, <3>10, <3>11
  <2>. QED
    BY <2>2, <2>3 DEF SameInPieces
<1>. QED
  BY <1>1, ParsingIsInvariant, PTL

(* What is rendered refers to nothing that is missing, whatever was bypassed, and *)
(* no substream has two elements (obu_processor.cc, cli_util.cc).                *)
THEOREM NothingEverDangles == Spec => []NothingDangling
<1>1. ASSUME IInv PROVE NothingDangling
  <2>. SUFFICES ASSUME pc \in {"initialized", "ready"}
       PROVE /\ \A i \in DOMAIN kept.mixes : \A x \in ElementsOfMix(KeptMix(i)) :
                  x.id \in DOMAIN kept.elements
             /\ \A id \in DOMAIN kept.elements : KeptElement(id).codec \in DOMAIN kept.codecs
             /\ \A id \in kept.dangling :
                  \E c \in DOMAIN kept.codecs : kept.codecs[c] > kept.elements[id]
             /\ \A a, b \in DOMAIN kept.elements : \A x \in KeptElement(a).substreams :
                  x \in KeptElement(b).substreams => a = b
    BY DEF NothingDangling
  <2>1. /\ \A i \in DOMAIN kept.mixes : \A x \in ElementsOfMix(KeptMix(i)) :
             x.id \in DOMAIN kept.elements
        /\ \A id \in DOMAIN kept.elements : KeptElement(id).codec \in DOMAIN kept.codecs
    BY <1>1, KeptIs
  <2>2. \A id \in kept.dangling :
          \E c \in DOMAIN kept.codecs : kept.codecs[c] > kept.elements[id]
    BY <1>1 DEF IInv, ReadingInv, FromFirst, MovedLater
  <2>3. \A a, b \in DOMAIN kept.elements : \A x \in KeptElement(a).substreams :
          x \in KeptElement(b).substreams => a = b
    <3>1. Consistent
      BY <1>1 DEF IInv, CheckedInv
    <3>. QED
      BY <3>1 DEF Consistent
  <2>. QED
    BY <2>1, <2>2, <2>3
<1>. QED
  BY <1>1, ParsingIsInvariant, PTL

(* The mix and the layout that are rendered are the ones asked for whenever that *)
(* is allowed; nothing is rendered only if the descriptors or the request do not *)
(* allow it (obu_processor_utils.cc, obu_processor.cc).                          *)
THEOREM RequestIsHonoured == Spec => []SelectionHonoursRequest
<1>1. ASSUME IInv PROVE SelectionHonoursRequest
  <2>1. ASSUME pc = "ready"
        PROVE  /\ Supports(selected.mix)
               /\ Asked(HasId) # {} => selected.mix \in Asked(HasId)
               /\ Asked(HasId) = {} /\ Asked(HasLayout) # {} => selected.mix \in Asked(HasLayout)
               /\ request.layout # None => selected.layout = request.layout
               /\ request.layout = None
                    => selected.layout = KeptMix(selected.mix).subMixes[1].layouts[1]
               /\ LayoutsWith(selected)[selected.index] = selected.layout
    <3>. DEFINE supported == GetSupportedMixPresentations
                i == SelectedMix(supported)
    <3>1. /\ supported # {} /\ HasOutputLayout(supported)
          /\ selected = FindMixPresentationAndLayout(supported)
      BY <1>1, <2>1 DEF IInv, CheckedInv
    <3>2. supported \subseteq DOMAIN kept.mixes /\ DOMAIN kept.mixes \subseteq Nat
      BY <1>1, <2>1, KeptIs DEF GetSupportedMixPresentations
    <3>3. \A n : Supports(n) <=> n \in supported
      BY DEF GetSupportedMixPresentations, Supports
    <3>4. Asked(HasId) = WithId(supported) /\ Asked(HasLayout) = WithLayout(supported)
      BY DEF GetSupportedMixPresentations, Supports, Asked, WithId, WithLayout
    <3>. HIDE DEF supported
    <3>5. /\ i \in supported
          /\ WithId(supported) # {} => HasId(i)
          /\ WithId(supported) = {} /\ WithLayout(supported) # {} => HasLayout(i)
      <4>1. supported \subseteq Nat
        BY <3>2
      <4>. QED
        BY <3>1, <4>1, SelectedMixIs
    <3>6. /\ selected.mix = i
          /\ request.layout # None => selected.layout = request.layout
          /\ request.layout = None
               => selected.layout = KeptMix(selected.mix).subMixes[1].layouts[1]
          /\ LayoutsWith(selected)[selected.index] = selected.layout
      <4>1. SelectedMix(supported) \in DOMAIN kept.mixes
        BY <3>2, <3>5
      <4>. QED
        BY <1>1, <2>1, <3>1, <4>1, SelectedLayoutIs
    <3>. HIDE DEF i
    <3>7. /\ WithId(supported) # {} => i \in WithId(supported)
          /\ WithId(supported) = {} /\ WithLayout(supported) # {} => i \in WithLayout(supported)
      BY <3>5 DEF WithId, WithLayout
    <3>. QED
      BY <3>3, <3>4, <3>5, <3>6, <3>7
  <2>2. pc = "failed" => NothingToRender
    BY <1>1 DEF IInv, FailedInv
  <2>. QED
    BY <2>1, <2>2 DEF SelectionHonoursRequest, NothingToRender
<1>. QED
  BY <1>1, ParsingIsInvariant, PTL
-------------------------------------------------------------------------------
(* The profiles that a filter leaves have, with one, those that extend it.       *)
Upward(P) ==
    /\ P \subseteq ProfileVersions
    /\ Simple \in P => Base \in P
    /\ Base \in P => BaseEnhanced \in P /\ BaseAdvanced \in P
    /\ BaseAdvanced \in P => Advanced1 \in P
    /\ Advanced1 \in P => Advanced2 \in P
    /\ BaseEnhanced \in P => Advanced2 \in P

LEMMA UpwardNests ==
    ASSUME NEW P, Upward(P)
    PROVE  \A p \in Extends : p[1] \in P => p[2] \in P
BY DEF Upward, Extends

(* A limit that does not fall from a profile to one that extends it.             *)
Rising(limit) ==
    /\ limit \in [ProfileVersions -> Int]
    /\ limit[Simple] <= limit[Base] /\ limit[Base] <= limit[BaseEnhanced]
    /\ limit[Base] <= limit[BaseAdvanced] /\ limit[BaseAdvanced] <= limit[Advanced1]
    /\ limit[Advanced1] <= limit[Advanced2] /\ limit[BaseEnhanced] <= limit[Advanced2]

LEMMA AtMostNests ==
    ASSUME NEW P, Upward(P), NEW n \in Int, NEW limit, Rising(limit)
    PROVE  Upward(AtMost(n, limit, P))
<1>. DEFINE Q == AtMost(n, limit, P)
<1>1. \A p \in ProfileVersions : p \in Q <=> p \in P /\ n <= limit[p]
  BY DEF AtMost
<1>2. Q \subseteq P
  BY DEF AtMost
<1>3. \A p \in ProfileVersions : limit[p] \in Int
  BY DEF Rising
<1>4. {Simple, Base, BaseEnhanced, BaseAdvanced, Advanced1, Advanced2} \subseteq ProfileVersions
  BY DEF ProfileVersions
<1>. HIDE DEF Q
<1>5. ASSUME NEW p \in ProfileVersions, NEW q \in ProfileVersions, limit[p] <= limit[q],
             p \in P => q \in P, p \in Q
      PROVE  q \in Q
  <2>1. limit[p] \in Int /\ limit[q] \in Int /\ n <= limit[p] /\ q \in P
    BY <1>1, <1>3, <1>5
  <2>. QED
    BY <1>1, <1>5, <2>1
<1>6. /\ limit[Simple] <= limit[Base] /\ limit[Base] <= limit[BaseEnhanced]
      /\ limit[Base] <= limit[BaseAdvanced] /\ limit[BaseAdvanced] <= limit[Advanced1]
      /\ limit[Advanced1] <= limit[Advanced2] /\ limit[BaseEnhanced] <= limit[Advanced2]
  BY DEF Rising
<1>7. /\ P \subseteq ProfileVersions
      /\ Simple \in P => Base \in P
      /\ Base \in P => BaseEnhanced \in P
      /\ Base \in P => BaseAdvanced \in P
      /\ BaseAdvanced \in P => Advanced1 \in P
      /\ Advanced1 \in P => Advanced2 \in P
      /\ BaseEnhanced \in P => Advanced2 \in P
  BY DEF Upward
<1>8. /\ Simple \in ProfileVersions /\ Base \in ProfileVersions
      /\ BaseEnhanced \in ProfileVersions /\ BaseAdvanced \in ProfileVersions
      /\ Advanced1 \in ProfileVersions /\ Advanced2 \in ProfileVersions
  BY <1>4
<1>9. /\ Simple \in Q => Base \in Q
      /\ Base \in Q => BaseEnhanced \in Q
      /\ Base \in Q => BaseAdvanced \in Q
      /\ BaseAdvanced \in Q => Advanced1 \in Q
      /\ Advanced1 \in Q => Advanced2 \in Q
      /\ BaseEnhanced \in Q => Advanced2 \in Q
  BY <1>5, <1>6, <1>7, <1>8, Zenon
<1>. QED
  BY <1>2, <1>7, <1>9 DEF Upward, Q

LEMMA LimitsRise ==
    Rising(MaxAudioElements) /\ Rising(MaxChannels) /\ Rising(MaxCodecConfigs)
<1>1. ASSUME NEW a \in Int, NEW b \in Int, NEW c \in Int, NEW d \in Int, NEW e \in Int,
             NEW f \in Int, a <= b, b <= c, b <= d, d <= e, e <= f, c <= f
      PROVE  Rising(Limit(a, b, c, d, e, f))
  <2>. DEFINE limit == Limit(a, b, c, d, e, f)
  <2>. USE DEF Limit, ProfileVersions, Simple, Base, BaseEnhanced, BaseAdvanced, Advanced1,
               Advanced2
  <2>1. /\ limit[Simple] = a /\ limit[Base] = b /\ limit[BaseEnhanced] = c
        /\ limit[BaseAdvanced] = d /\ limit[Advanced1] = e /\ limit[Advanced2] = f
    <3>1. limit[Simple] = a
      OBVIOUS
    <3>2. limit[Base] = b
      OBVIOUS
    <3>3. limit[BaseEnhanced] = c
      OBVIOUS
    <3>4. limit[BaseAdvanced] = d
      OBVIOUS
    <3>5. limit[Advanced1] = e
      OBVIOUS
    <3>6. limit[Advanced2] = f
      OBVIOUS
    <3>. QED
      BY <3>1, <3>2, <3>3, <3>4, <3>5, <3>6
  <2>2. limit = [p \in ProfileVersions |-> limit[p]]
    BY DEF Limit
  <2>3. \A p \in ProfileVersions : limit[p] \in Int
    BY <2>1 DEF ProfileVersions
  <2>. HIDE DEF limit
  <2>4. limit \in [ProfileVersions -> Int]
    BY <2>2, <2>3
  <2>. QED
    BY <1>1, <2>1, <2>4 DEF Rising
<1>2. Rising(MaxAudioElements)
  BY <1>1 DEF MaxAudioElements
<1>3. Rising(MaxChannels)
  BY <1>1 DEF MaxChannels
<1>4. Rising(MaxCodecConfigs)
  BY DEF Rising, MaxCodecConfigs, FirstProfiles, ProfileVersions, Simple, Base, BaseEnhanced,
         BaseAdvanced, Advanced1, Advanced2
<1>. QED
  BY <1>2, <1>3, <1>4

(* Filters that look at no numbers.                                              *)
LEMMA LaterProfilesNest ==
    ASSUME NEW P, Upward(P)
    PROVE  Upward(P \ FirstProfiles) /\ Upward({})
BY DEF Upward, FirstProfiles, ProfileVersions, Simple, Base, BaseEnhanced, BaseAdvanced,
       Advanced1, Advanced2

LEMMA ElementNests ==
    ASSUME NEW P, Upward(P), NEW x
    PROVE  Upward(FilterProfilesForAudioElement(x, P))
<1>1. Upward(FilterAudioElementType(x, P))
  BY LaterProfilesNest DEF FilterAudioElementType
<1>2. ASSUME NEW Q, Upward(Q) PROVE Upward(FilterAmbisonicsConfig(x.config, Q))
  BY <1>2, LaterProfilesNest DEF FilterAmbisonicsConfig
<1>3. ASSUME NEW Q, Upward(Q) PROVE Upward(FilterChannelBasedConfig(x.config, Q))
  <2>1. Upward(Q \ {Simple, Base}) /\ Upward((Q \ {Simple, Base}) \ {BaseEnhanced}) /\ Upward({})
    BY <1>3 DEF Upward, ProfileVersions, Simple, Base, BaseEnhanced, BaseAdvanced, Advanced1,
                Advanced2
  <2>. QED
    BY <1>3, <2>1 DEF FilterChannelBasedConfig, FilterExpandedLoudspeakerLayout
<1>. QED
  BY <1>1, <1>2, <1>3 DEF FilterProfilesForAudioElement

LEMMA ElementsNest ==
    ASSUME NEW elements, NEW mix, NEW P, Upward(P)
    PROVE  Upward(FilterAudioElements(elements, mix, P))
<1>. DEFINE Of(x) == FilterProfilesForAudioElement(elements[x.id], P)
            Q == FilterAudioElements(elements, mix, P)
<1>1. \A x \in ElementsOfMix(mix) : Upward(Of(x))
  BY ElementNests
<1>2. Q = {p \in P : \A x \in ElementsOfMix(mix) : p \in Of(x)}
  BY DEF FilterAudioElements
<1>. HIDE DEF Of, Q
<1>3. Q \subseteq ProfileVersions
  BY <1>2 DEF Upward
<1>4. ASSUME NEW p, NEW q, p \in Q, p \in P => q \in P,
             \A x \in ElementsOfMix(mix) : p \in Of(x) => q \in Of(x)
      PROVE  q \in Q
  BY <1>2, <1>4
<1>5. ASSUME NEW p, NEW q, p \in P => q \in P,
             \A R : Upward(R) => (p \in R => q \in R)
      PROVE  p \in Q => q \in Q
  BY <1>1, <1>4, <1>5
<1>6. /\ \A R : Upward(R) => (Simple \in R => Base \in R)
      /\ \A R : Upward(R) => (Base \in R => BaseEnhanced \in R)
      /\ \A R : Upward(R) => (Base \in R => BaseAdvanced \in R)
      /\ \A R : Upward(R) => (BaseAdvanced \in R => Advanced1 \in R)
      /\ \A R : Upward(R) => (Advanced1 \in R => Advanced2 \in R)
      /\ \A R : Upward(R) => (BaseEnhanced \in R => Advanced2 \in R)
  BY DEF Upward
<1>7. /\ Simple \in Q => Base \in Q
      /\ Base \in Q => BaseEnhanced \in Q
      /\ Base \in Q => BaseAdvanced \in Q
      /\ BaseAdvanced \in Q => Advanced1 \in Q
      /\ Advanced1 \in Q => Advanced2 \in Q
      /\ BaseEnhanced \in Q => Advanced2 \in Q
  BY <1>5, <1>6, Zenon
<1>8. Upward(Q)
  BY <1>3, <1>7 DEF Upward
<1>. QED
  BY <1>8 DEF Q
-------------------------------------------------------------------------------
(* What the filters count.                                                       *)
LEMMA ImageIsFinite ==
    ASSUME NEW S, IsFiniteSet(S), NEW f, DOMAIN f = S
    PROVE  IsFiniteSet({f[x] : x \in S})
<1>. DEFINE T == {f[x] : x \in S}
            g == [x \in S |-> f[x]]
<1>1. g \in Surjection(S, T)
  BY DEF Surjection
<1>. HIDE DEF g
<1>. QED
  BY <1>1, FS_Surjection

HasSequences(mix) ==
    /\ IsSequence(mix.subMixes)
    /\ \A j \in DOMAIN mix.subMixes : IsSequence(mix.subMixes[j].elements)

LEMMA ElementsAreFinite ==
    ASSUME NEW mix, HasSequences(mix)
    PROVE  IsFiniteSet(ElementsOfMix(mix))
<1>1. ASSUME NEW s, IsSequence(s) PROVE IsFiniteSet(DOMAIN s)
  <2>1. DOMAIN s = 1..Len(s) /\ Len(s) \in Int /\ 1 \in Int
    BY <1>1 DEF IsSequence
  <2>2. IsFiniteSet(1..Len(s))
    BY <2>1, FS_Interval
  <2>. QED
    BY <2>1, <2>2
<1>2. ASSUME NEW j \in DOMAIN mix.subMixes PROVE IsFiniteSet(ElementsOf(mix.subMixes[j]))
  <2>. DEFINE q == mix.subMixes[j].elements
  <2>1. IsFiniteSet(DOMAIN q)
    BY <1>1 DEF HasSequences
  <2>2. ElementsOf(mix.subMixes[j]) = {q[n] : n \in DOMAIN q}
    BY DEF ElementsOf, ToSet
  <2>. HIDE DEF q
  <2>3. IsFiniteSet({q[n] : n \in DOMAIN q})
    BY <2>1, ImageIsFinite
  <2>. QED
    BY <2>2, <2>3
<1>. DEFINE D == DOMAIN mix.subMixes
            h == [j \in D |-> ElementsOf(mix.subMixes[j])]
            U == {h[j] : j \in D}
<1>3. IsFiniteSet(D)
  BY <1>1 DEF HasSequences
<1>4. DOMAIN h = D
  OBVIOUS
<1>5. \A j \in D : IsFiniteSet(h[j])
  BY <1>2
<1>6. ElementsOfMix(mix) = UNION U
  BY DEF ElementsOfMix
<1>. HIDE DEF h, D
<1>7. IsFiniteSet(U)
  BY <1>3, <1>4, ImageIsFinite
<1>8. \A T \in U : IsFiniteSet(T)
  BY <1>5
<1>. HIDE DEF U
<1>. QED
  BY <1>6, <1>7, <1>8, FS_UNION

(* How many codec configs the elements have.                                     *)
LEMMA IdsAreCounted ==
    ASSUME NEW mix, HasSequences(mix), NEW elements
    PROVE  Cardinality({c.id : c \in {elements[x.id].codec : x \in ElementsOfMix(mix)}}) \in Int
<1>. DEFINE all == ElementsOfMix(mix)
            f == [x \in all |-> elements[x.id].codec.id]
<1>1. {c.id : c \in {elements[x.id].codec : x \in all}} = {f[x] : x \in all}
  OBVIOUS
<1>2. DOMAIN f = all
  OBVIOUS
<1>3. IsFiniteSet(all)
  BY ElementsAreFinite
<1>. HIDE DEF f, all
<1>4. IsFiniteSet({f[x] : x \in all})
  BY <1>2, <1>3, ImageIsFinite
<1>5. Cardinality({f[x] : x \in all}) \in Nat
  BY <1>4, FS_CardinalityType
<1>6. Nat \subseteq Int
  OBVIOUS
<1>. QED
  BY <1>1, <1>5, <1>6, Zenon DEF all

(* The elements with repetitions.                                                *)
LEMMA AllElementsAre ==
    ASSUME NEW mix, HasSequences(mix)
    PROVE  AllElements(mix) \in Seq(ElementsOfMix(mix))
<1>. DEFINE S == ElementsOfMix(mix)
            q == [i \in DOMAIN mix.subMixes |-> mix.subMixes[i].elements]
<1>1. ASSUME NEW i \in DOMAIN mix.subMixes PROVE mix.subMixes[i].elements \in Seq(S)
  <2>. DEFINE e == mix.subMixes[i].elements
  <2>1. e \in Seq(ToSet(e))
    BY DEF HasSequences, IsSequence
  <2>2. ToSet(e) \subseteq S
    BY DEF ElementsOfMix, ElementsOf
  <2>. HIDE DEF e, S
  <2>3. e \in Seq(S)
    BY <2>1, <2>2, SeqMonotonic
  <2>. QED
    BY <2>3 DEF e
<1>2. DOMAIN mix.subMixes = 1..Len(mix.subMixes) /\ Len(mix.subMixes) \in Nat
  BY DEF HasSequences, IsSequence
<1>. HIDE DEF S
<1>3. PICK n \in Nat : DOMAIN mix.subMixes = 1..n
  BY <1>2
<1>4. q \in [1..n -> Seq(S)]
  BY <1>1, <1>3
<1>. HIDE DEF q
<1>5. q \in Seq(Seq(S))
  BY <1>3, <1>4
<1>6. FlattenSeq(q) \in Seq(S)
  BY <1>5, FlattenType
<1>. QED
  BY <1>6 DEF AllElements, q, S

(* Channels are counted.                                                         *)
LEMMA ChannelsAreCounted ==
    ASSUME NEW elements, NEW S, NEW uses \in Seq(S), \A x \in S : elements[x.id].channels \in Nat
    PROVE  NumChannels(elements, uses) \in Nat
<1>. DEFINE N == Len(uses)
            of(k) == elements[uses[k].id].channels
            step == [k \in 1..N |-> [v \in Nat |-> v + of(k)]]
            F(u) == [n \in 0..N |-> IF n = 0 THEN 0 ELSE u[n - 1] + elements[uses[n].id].channels]
<1>1. N \in Nat /\ \A k \in 1..N : of(k) \in Nat
  OBVIOUS
<1>2. \A k \in 1..N : of(k) = elements[uses[k].id].channels
  OBVIOUS
<1>. HIDE DEF N, of
<1>3. \A k \in 1..N : [v \in Nat |-> v + of(k)] \in [Nat -> Nat]
  BY <1>1
<1>4. step \in StepsTo(N, Nat)
  BY <1>3 DEF StepsTo
<1>5. \A k \in 1..N : \A v \in Nat : step[k][v] = v + of(k)
  BY DEF step
<1>. HIDE DEF step
<1>6. PICK f : IteratesTo(f, N, Nat, 0, step)
  BY <1>1, <1>4, PositionRecursion
<1>7. /\ f \in [0..N -> Nat] /\ f[0] = 0
      /\ \A k \in 1..N : f[k] = f[k - 1] + of(k)
  <2>1. \A k \in 1..N : k - 1 \in 0..N
    BY <1>1
  <2>. QED
    BY <1>5, <1>6, <2>1 DEF IteratesTo
<1>8. f = F(f)
  <2>1. \A k \in 0..N : f[k] = IF k = 0 THEN 0 ELSE f[k - 1] + elements[uses[k].id].channels
    <3>. TAKE k \in 0..N
    <3>1. CASE k = 0
      BY <1>7, <3>1
    <3>2. CASE k # 0
      <4>1. k \in 1..N
        BY <1>1, <3>2
      <4>2. f[k] = f[k - 1] + of(k) /\ of(k) = elements[uses[k].id].channels
        BY <1>2, <1>7, <4>1
      <4>. QED
        BY <3>2, <4>2
    <3>. QED
      BY <3>1, <3>2
  <2>. QED
    BY <1>7, <2>1
<1>9. PICK u : u = CHOOSE x : x = F(x)
  OBVIOUS
<1>10. u = F(u)
  <2>. HIDE DEF F
  <2>. QED
    BY <1>8, <1>9
<1>11. NumChannels(elements, uses) = u[N]
  BY <1>9 DEF NumChannels, N
<1>12. \A k \in Nat : k \in {n \in Nat : n <= N => u[n] \in Nat}
  <2>. DEFINE T == {n \in Nat : n <= N => u[n] \in Nat}
  <2>1. 0 \in T
    BY <1>1, <1>10
  <2>2. ASSUME NEW k \in Nat, k \in T PROVE k + 1 \in T
    <3>. SUFFICES ASSUME k + 1 <= N PROVE u[k + 1] \in Nat
      OBVIOUS
    <3>1. k + 1 \in 0..N /\ k + 1 # 0 /\ (k + 1) - 1 = k /\ u[k] \in Nat /\ k + 1 \in 1..N
      BY <1>1, <2>2
    <3>2. u[k + 1] = u[k] + of(k + 1)
      BY <1>2, <1>10, <3>1
    <3>. QED
      BY <1>1, <3>1, <3>2
  <2>. HIDE DEF T
  <2>3. \A n \in Nat : n \in T
    BY <2>1, <2>2, NumberInduction
  <2>. QED
    BY <2>3 DEF T
<1>. QED
  BY <1>1, <1>11, <1>12

LEMMA CountsAre ==
    ASSUME NEW mix, HasSequences(mix), NEW elements,
           \A x \in ElementsOfMix(mix) : elements[x.id].channels \in Nat
    PROVE  /\ Len(AllElements(mix)) \in Int
           /\ NumChannels(elements, AllElements(mix)) \in Int
<1>. DEFINE S == ElementsOfMix(mix)
            uses == AllElements(mix)
<1>1. uses \in Seq(S)
  BY AllElementsAre
<1>. HIDE DEF S, uses
<1>2. \A x \in S : elements[x.id].channels \in Nat
  BY DEF S
<1>3. Len(uses) \in Nat
  BY <1>1
<1>4. NumChannels(elements, uses) \in Nat
  BY <1>1, <1>2, ChannelsAreCounted
<1>5. Nat \subseteq Int
  OBVIOUS
<1>. QED
  BY <1>3, <1>4, <1>5, Zenon DEF uses

LEMMA ConfigsNest ==
    ASSUME NEW mix, HasSequences(mix), NEW elements, NEW P, Upward(P)
    PROVE  Upward(FilterProfilesForCodecConfigRules(elements, mix, P))
<1>. DEFINE n == Cardinality({c.id : c \in {elements[x.id].codec : x \in ElementsOfMix(mix)}})
            Q == FilterProfilesForCodecConfigRules(elements, mix, P)
<1>1. Q \in {AtMost(n, MaxCodecConfigs, P), {}}
  BY DEF FilterProfilesForCodecConfigRules
<1>2. n \in Int
  BY IdsAreCounted
<1>. HIDE DEF n, Q
<1>3. Upward(AtMost(n, MaxCodecConfigs, P)) /\ Upward({})
  BY <1>2, AtMostNests, LimitsRise, LaterProfilesNest
<1>4. Upward(Q)
  BY <1>1, <1>3
<1>. QED
  BY <1>4 DEF Q

(* All filters, one after the other.                                             *)
LEMMA FiltersNest ==
    ASSUME NEW mix, HasSequences(mix), NEW elements,
           \A x \in ElementsOfMix(mix) : elements[x.id].channels \in Nat
    PROVE  Upward(FilterProfilesForMixPresentation(elements, mix, ProfileVersions))
<1>. DEFINE subMixes == FilterProfileForNumSubmixes(mix, ProfileVersions)
            headphones == FilterProfileForHeadphonesRenderingMode(mix, subMixes)
            configs == FilterProfilesForCodecConfigRules(elements, mix, headphones)
            kinds == FilterAudioElements(elements, mix, configs)
            counts == FilterProfilesForNumAudioElements(mix, kinds)
            channels == FilterProfilesForNumChannels(elements, mix, counts)
<1>0. /\ Len(AllElements(mix)) \in Int
      /\ NumChannels(elements, AllElements(mix)) \in Int
  BY CountsAre
<1>1. Upward(ProfileVersions)
  BY DEF Upward, ProfileVersions
<1>2. Upward(subMixes)
  BY <1>1, LaterProfilesNest DEF FilterProfileForNumSubmixes
<1>. HIDE DEF subMixes
<1>3. Upward(headphones)
  BY <1>2, LaterProfilesNest DEF FilterProfileForHeadphonesRenderingMode
<1>. HIDE DEF headphones
<1>4. Upward(configs)
  BY <1>3, ConfigsNest
<1>. HIDE DEF configs
<1>5. Upward(kinds)
  BY <1>4, ElementsNest
<1>. HIDE DEF kinds
<1>6. Upward(counts)
  BY <1>0, <1>5, AtMostNests, LimitsRise DEF FilterProfilesForNumAudioElements
<1>. HIDE DEF counts
<1>7. Upward(channels)
  BY <1>0, <1>6, AtMostNests, LimitsRise DEF FilterProfilesForNumChannels
<1>8. Upward({})
  BY <1>1, LaterProfilesNest
<1>9. FilterProfilesForMixPresentation(elements, mix, ProfileVersions)
        = IF configs = {} THEN {} ELSE channels
  BY Zenon DEF FilterProfilesForMixPresentation, subMixes, headphones, configs, kinds, counts
<1>. HIDE DEF channels
<1>. QED
  BY <1>7, <1>8, <1>9

(* What a profile allows, the profiles that extend it allow as well, whatever    *)
(* elements a mix uses and however often (profile_filter.cc).                    *)
THEOREM ProfilesAlwaysNest == Spec => []ProfilesNest
<1>1. ASSUME IInv PROVE ProfilesNest
  <2>. SUFFICES ASSUME pc = "initialized", NEW i \in DOMAIN kept.mixes
                PROVE  \A p \in Extends :
                         p[1] \in FilterProfilesForMixPresentation(FilteredElements, KeptMix(i),
                                                                  ProfileVersions)
                           => p[2] \in FilterProfilesForMixPresentation(FilteredElements,
                                                                       KeptMix(i), ProfileVersions)
    BY DEF ProfilesNest
  <2>. DEFINE mix == KeptMix(i)
              elements == FilteredElements
  <2>1. /\ \A id \in DOMAIN kept.elements : KeptElement(id).channels \in Nat
        /\ HasSequences(mix)
        /\ \A x \in ElementsOfMix(mix) : x.id \in DOMAIN kept.elements
    BY <1>1, KeptIs DEF HasSequences
  <2>2. \A id \in DOMAIN kept.elements : elements[id].channels = KeptElement(id).channels
    BY DEF FilteredElements
  <2>. HIDE DEF mix, elements
  <2>3. \A x \in ElementsOfMix(mix) : elements[x.id].channels \in Nat
    BY <2>1, <2>2
  <2>4. Upward(FilterProfilesForMixPresentation(elements, mix, ProfileVersions))
    BY <2>1, <2>3, FiltersNest
  <2>. QED
    BY <2>4, UpwardNests DEF mix, elements
<1>. QED
  BY <1>1, ParsingIsInvariant, PTL
===============================================================================
