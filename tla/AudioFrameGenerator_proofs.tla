-------------------- MODULE AudioFrameGenerator_proofs --------------------
(* What holds of the frame generator whatever the threads do, for any elements *)
(* and substreams, any size of a frame, and any codecs, trimming and samples.  *)
EXTENDS AudioFrameGenerator, DataInduction, FiniteSetTheorems, SequenceTheorems
-------------------------------------------------------------------------------
(* The inductive invariant.  g is the data of the generator, out what was      *)
(* output and f how often samples were added.                                  *)
InsideOf(g, s) ==
    IF s \in DOMAIN g.encoder THEN g.encoder[s].queue \o g.encoder[s].held ELSE <<>>
FramesIn(g, out, s) == [k \in DOMAIN out |-> out[k][s]] \o InsideOf(g, s)
Obus(g, out, s) == LET q == FramesIn(g, out, s) IN [k \in DOMAIN q |-> q[k].obu]
Inputs(g, out, s) == LET q == FramesIn(g, out, s) IN [k \in DOMAIN q |-> q[k].encoded]
LeftObu(g, s) == IF s \in DOMAIN g.data THEN g.data[s].inObu ELSE <<>>
LeftInput(g, s) == IF s \in DOMAIN g.data THEN g.data[s].toEncode ELSE <<>>
ObuSamplesIn(g, out, s) == FlattenSeq(Obus(g, out, s)) \o LeftObu(g, s)
EncoderInputIn(g, out, s) == FlattenSeq(Inputs(g, out, s)) \o LeftInput(g, s)

Data == [inObu : Seq(Nat), toEncode : Seq(Nat), trimStart : Nat, trimEnd : Nat]
Encoder == [held : Seq(Frame), queue : Seq(Frame), finished : BOOLEAN]
Trimming == [startLeft : Nat, endLeft : Nat]
PartialMaps(V) == UNION {[X -> V] : X \in SUBSET Substreams}
Gen == [labeled : [Substreams -> Seq(Nat) \union {None}], data : PartialMaps(Data),
        encoder : PartialMaps(Encoder), trimming : [Substreams -> Trimming],
        clock : [Substreams -> Nat], ok : BOOLEAN]

(* The types, what the partial functions owe each other, and that only a codec *)
(* with latency holds a frame, until it is finalized.                          *)
GenOK(g) ==
    /\ g \in Gen /\ DOMAIN g.data \subseteq DOMAIN g.encoder
    /\ \A s \in DOMAIN g.encoder :
           /\ g.encoder[s].finished <=> s \notin DOMAIN g.data
           /\ g.encoder[s].finished \/ setup.latency[ElementOf[s]] = 0
                  => g.encoder[s].held = <<>>

(* The frames of a substream are whole and follow each other without a gap.    *)
FramesFollowFor(g, out, s) ==
    LET q == FramesIn(g, out, s)
    IN  /\ g.clock[s] = Len(q) * F
        /\ \A j \in 1..Len(q) : q[j].start = (j - 1) * F /\ Len(q[j].obu) = F
FramesFollow(g, out) == \A s \in Substreams : FramesFollowFor(g, out, s)

(* Padding, the first a samples of a channel, and padding again.               *)
Sampled(q, front, a) ==
    /\ q \in Seq(Nat) /\ front + a <= Len(q)
    /\ \A i \in 1..Len(q) :
           q[i] = IF front < i /\ i <= front + a THEN i - front ELSE 0

Rounds(g, f, s) == f[s] - (IF g.labeled[s] \in {None, <<>>} THEN 0 ELSE 1)

(* No sample is added behind the padding at the end, and what is padded is     *)
(* output at once.  r calls of AddSamples are in the samples.                  *)
SamplesOK(r, ahead, samples, input, left) ==
    /\ r \in 0..Len(setup.chunks)
    /\ Sampled(samples, D, Added[r]) /\ Len(samples) < D + Added[r] + F
    /\ Sampled(input, D - ahead, Added[r])
    /\ r < Len(setup.chunks) => /\ Len(samples) = D + Added[r]
                                /\ Len(input) = D - ahead + Added[r]
    /\ left # <<>> => Len(samples) = D + Added[r]
SamplesFollow(g, out, f) ==
    \A s \in Substreams :
        SamplesOK(Rounds(g, f, s), setup.delay[ElementOf[s]], ObuSamplesIn(g, out, s),
                  EncoderInputIn(g, out, s), LeftObu(g, s))

ChunkSize(k) == IF k \in 1..Len(setup.chunks) THEN setup.chunks[k] ELSE 0

(* How many samples are left behind n frames.                                  *)
Backlog[n \in Nat] ==
    IF n = 0 THEN D
    ELSE IF Backlog[n - 1] + ChunkSize(n) > F THEN Backlog[n - 1] + ChunkSize(n) - F ELSE 0

LeftAgreesFor(g, out, s) ==
    /\ Len(g.data[s].inObu) = Backlog[Len(FramesIn(g, out, s))]
    /\ Len(g.data[s].toEncode) <= Len(g.data[s].inObu)
LeftTogether(g, s, t) ==
    /\ t \in DOMAIN g.data /\ Len(g.data[t].inObu) = Len(g.data[s].inObu)
    /\ Len(g.data[t].toEncode) = Len(g.data[s].toEncode)
LeftAgrees(g, out) ==
    \A s \in DOMAIN g.data :
        /\ LeftAgreesFor(g, out, s)
        /\ \A t \in SubstreamsOf(ElementOf[s]) : LeftTogether(g, s, t)

(* The channels of an element wait for each other.                             *)
LabelWaits(g, f, s) ==
    /\ f[s] = 0 <=> g.labeled[s] = None
    /\ g.labeled[s] \notin {None, <<>>} => g.labeled[s] = Chunk(f[s])
LabelsWait(g, f) ==
    \A s \in Substreams :
        /\ LabelWaits(g, f, s)
        /\ \A t \in SubstreamsOf(ElementOf[s]) : Rounds(g, f, s) = Rounds(g, f, t)

(* The samples the user's trimming takes from the front, with the delay; what  *)
(* is left of x samples behind k frames; and the padding behind the samples.   *)
StartTrim == setup.trimStart + (IF setup.startIncludesDelay THEN 0 ELSE D)
Rest(x, k) == IF x > k * F THEN x - k * F ELSE 0
PaddingIn(g, out, f, s) == Len(ObuSamplesIn(g, out, s)) - (D + Added[Rounds(g, f, s)])
EndTrim(pad) == setup.trimEnd + (IF setup.endIncludesPadding THEN 0 ELSE pad)

(* What FailsOnlyOnTrimming allows a call to fail for.                         *)
TrimRefused == IF setup.endIncludesPadding THEN setup.trimEnd < PaddingAtEnd
               ELSE setup.trimEnd + PaddingAtEnd > F

(* Frames that were output are trimmed as the user wants, the others as the    *)
(* codecs and the padding need.                                                *)
StartsTrimmed(g, out, s) ==
    LET q == FramesIn(g, out, s)
    IN  /\ \A j \in 1..Len(q) :
               q[j].trimStart = AtMost(Rest(IF j <= Len(out) THEN StartTrim ELSE D, j - 1))
        /\ s \in DOMAIN g.data => /\ g.data[s].trimStart = Rest(D, Len(q))
                                  /\ g.data[s].trimEnd = 0
        /\ g.trimming[s].startLeft = Rest(StartTrim, Len(out))

HasEnded(g, s) == s \in DOMAIN g.encoder => Finished(g.encoder[s])
EndsTrimmed(g, out, f, s) ==
    LET q == FramesIn(g, out, s)
        pad == PaddingIn(g, out, f, s)
        last == leftover /\ HasEnded(g, s)
    IN  /\ \A j \in 1..Len(q) : q[j].trimEnd = IF j < Len(q) THEN 0
                                               ELSE IF last THEN EndTrim(pad) ELSE pad
        /\ setup.endIncludesPadding => pad <= setup.trimEnd
        /\ ~HasEnded(g, s) => g.trimming[s].endLeft = EndTrim(pad)
        /\ last => Len(q) # 0 /\ EndTrim(pad) <= F
TrimsFollow(g, out, f) ==
    /\ g.ok \/ TrimRefused
    /\ \A s \in Substreams : StartsTrimmed(g, out, s) /\ EndsTrimmed(g, out, f, s)

(* From Finalize on, a frame is still inside just if it was then.              *)
EndsAsAsked(g, st) ==
    /\ st = "TakingSamples" => ~leftover
    /\ st # "TakingSamples" => \A s \in DOMAIN g.data :
                                 leftover <=> LeftObu(g, s) # <<>> \/ InsideOf(g, s) # <<>>
    /\ \A s \in DOMAIN g.encoder :
           g.encoder[s].finished => leftover \/ g.encoder[s].queue = <<>>

(* As soon as all channels have samples, they are made a frame.                *)
OneIsMissing(g) ==
    \A e \in Elements : \E s \in SubstreamsOf(e) : g.labeled[s] \in {None, <<>>}

(* All substreams end together, and until then none of them has.               *)
InStep(g, out, f, st) ==
    g.ok =>
        /\ DOMAIN g.data \in {{}, Substreams} /\ DOMAIN g.encoder \in {{}, Substreams}
        /\ IF st = "FlushingRemaining"
           THEN \A s, t \in Substreams :
                    /\ Len(FramesIn(g, out, s)) = Len(FramesIn(g, out, t))
                    /\ Rounds(g, f, s) <= Len(FramesIn(g, out, s))
           ELSE /\ DOMAIN g.data = Substreams
                /\ \A s \in Substreams : Len(FramesIn(g, out, s)) = Rounds(g, f, s)
        /\ OneIsMissing(g) /\ EndsAsAsked(g, st)
        /\ st # "TakingSamples" => \A s \in Substreams : f[s] = Len(setup.chunks)

GenInv(g, out, f) == /\ GenOK(g) /\ FramesFollow(g, out) /\ SamplesFollow(g, out, f)
                     /\ LeftAgrees(g, out) /\ LabelsWait(g, f) /\ TrimsFollow(g, out, f)

SetupOK == setup \in Setup /\ Legal(setup)
ControlOK ==
    /\ state \in {"TakingSamples", "FinalizedCalled", "FlushingRemaining"}
    /\ consumer \in {"asks", "outputs", "done"} /\ leftover \in BOOLEAN
    /\ fed \in [Substreams -> 0..Len(setup.chunks)]
    /\ output \in Seq([Substreams -> Frame])
    /\ consumer = "outputs" => DOMAIN gen.encoder # {}
    /\ consumer = "done" => DOMAIN gen.encoder = {} /\ gen.ok

IInv == /\ SetupOK /\ ControlOK
        /\ GenInv(gen, output, fed) /\ InStep(gen, output, fed, state)
-------------------------------------------------------------------------------
(* Numbers and sequences of them.                                              *)
LEMMA AtMostIs ==
    ASSUME NEW n \in Nat
    PROVE  AtMost(n) = (IF n < F THEN n ELSE F) /\ AtMost(n) \in 0..F /\ n - AtMost(n) \in Nat
<1>1. F \in Nat
  BY FAssumption
<1>2. \E y \in {n, F} : \A z \in {n, F} : y <= z
  BY <1>1
<1>3. AtMost(n) = IF n < F THEN n ELSE F
  BY <1>1, <1>2 DEF AtMost, Min
<1>. QED
  BY <1>1, <1>3

LEMMA BoundedValues == \A n \in Nat : \A f \in [1..n -> Nat] : \E b \in Nat : \A i \in 1..n : f[i] <= b
<1>. DEFINE S == {n \in Nat : \A f \in [1..n -> Nat] : \E b \in Nat : \A i \in 1..n : f[i] <= b}
<1>1. 0 \in S
  OBVIOUS
<1>2. ASSUME NEW n \in Nat, n \in S PROVE n + 1 \in S
  <2>. SUFFICES \A f \in [1..(n + 1) -> Nat] : \E b \in Nat : \A i \in 1..(n + 1) : f[i] <= b
    BY n + 1 \in Nat
  <2>. TAKE f \in [1..(n + 1) -> Nat]
  <2>1. [i \in 1..n |-> f[i]] \in [1..n -> Nat]
    OBVIOUS
  <2>2. PICK b \in Nat : \A i \in 1..n : f[i] <= b
    BY <1>2, <2>1
  <2>3. PICK c \in Nat : c >= b /\ c >= f[n + 1]
    <3>1. f[n + 1] \in Nat
      OBVIOUS
    <3>2. \A k \in Nat : b + k \in Nat /\ b + k >= b /\ b + k >= k
      OBVIOUS
    <3>. QED
      BY <3>1, <3>2
  <2>4. ASSUME NEW i \in 1..(n + 1) PROVE f[i] <= c
    <3>1. CASE i = n + 1
      BY <2>3, <3>1
    <3>2. CASE i \in 1..n
      BY <2>2, <2>3, <3>2
    <3>. QED
      BY <3>1, <3>2
  <2>. QED
    BY <2>3, <2>4
<1>. HIDE DEF S
<1>3. \A n \in Nat : n \in S
  BY <1>1, <1>2, NumberInduction
<1>. QED
  BY <1>3 DEF S

(* The worst codec's delay is that of one of them.                             *)
LEMMA DelayIs ==
    ASSUME SetupOK
    PROVE  D \in Nat /\ \A e \in Elements : setup.delay[e] \in 0..D
<1>1. setup.delay \in [Elements -> Nat]
  BY DEF SetupOK, Setup
<1>. DEFINE T == {setup.delay[e] : e \in Elements}
<1>2. T \subseteq Nat /\ T # {}
  BY <1>1, ElementAssumption
<1>3. \E b \in Nat : \A e \in Elements : setup.delay[e] <= b
  <2>1. PICK n \in Nat : \E h : ExistsBijection(1..n, Elements)
    BY ElementAssumption, FS_NatBijection
  <2>2. PICK h : h \in Bijection(1..n, Elements)
    BY <2>1 DEF ExistsBijection
  <2>3. h \in [1..n -> Elements] /\ \A e \in Elements : \E i \in 1..n : h[i] = e
    BY <2>2 DEF Bijection, Surjection
  <2>4. [i \in 1..n |-> setup.delay[h[i]]] \in [1..n -> Nat]
    BY <1>1, <2>3
  <2>5. PICK b \in Nat : \A i \in 1..n : setup.delay[h[i]] <= b
    BY <2>4, BoundedValues
  <2>. QED
    BY <2>3, <2>5
<1>4. PICK b \in Nat : T \subseteq 0..b
  BY <1>1, <1>3
<1>5. \E m \in T : \A k \in T : m >= k
  <2>1. \E m \in T : \A k \in T : k <= m
    <3>. HIDE DEF T
    <3>. QED
      BY <1>2, <1>4, GreatestNumber
  <2>. QED
    BY <2>1, <1>2
<1>6. D = CHOOSE m \in T : \A k \in T : m >= k
  BY DEF D, MaxCodecDelay, Max
<1>7. D \in T /\ \A k \in T : D >= k
  <2>. HIDE DEF T
  <2>. QED
    BY <1>5, <1>6
<1>. QED
  BY <1>1, <1>2, <1>7

LEMMA ZerosAre ==
    ASSUME NEW n \in Nat
    PROVE  Zeros(n) \in Seq(Nat) /\ Len(Zeros(n)) = n /\ \A i \in 1..n : Zeros(n)[i] = 0
BY DEF Zeros

LEMMA Lengthened ==
    ASSUME NEW q \in Seq(Nat), NEW n \in Nat
    PROVE  q \o Zeros(n) \in Seq(Nat) /\ Len(q \o Zeros(n)) = Len(q) + n
<1>1. \A z \in Seq(Nat) : q \o z \in Seq(Nat) /\ Len(q \o z) = Len(q) + Len(z)
  OBVIOUS
<1>2. Zeros(n) \in Seq(Nat) /\ Len(Zeros(n)) = n
  BY ZerosAre
<1>. QED
  BY <1>1, <1>2, Zenon

LEMMA NoZeros ==
    ASSUME NEW q \in Seq(Nat)
    PROVE  q \o Zeros(0) = q /\ q \o <<>> = q /\ <<>> \o q = q
BY DEF Zeros

LEMMA MoreZeros ==
    ASSUME NEW q \in Seq(Nat), NEW m \in Nat, NEW n \in Nat
    PROVE  (q \o Zeros(m)) \o Zeros(n) = q \o Zeros(m + n)
<1>1. /\ Zeros(m) \in Seq(Nat) /\ Len(Zeros(m)) = m
      /\ Zeros(n) \in Seq(Nat) /\ Len(Zeros(n)) = n
      /\ Zeros(m + n) \in Seq(Nat) /\ Len(Zeros(m + n)) = m + n
  BY ZerosAre
<1>2. Zeros(m) \o Zeros(n) = Zeros(m + n)
  <2>1. \A i \in 1..(m + n) : (Zeros(m) \o Zeros(n))[i] = Zeros(m + n)[i]
    BY <1>1, ZerosAre DEF Zeros
  <2>2. Len(Zeros(m) \o Zeros(n)) = m + n /\ Zeros(m) \o Zeros(n) \in Seq(Nat)
    BY <1>1
  <2>. QED
    BY <1>1, <2>1, <2>2, SeqEqual
<1>3. \A a, b \in Seq(Nat) : (q \o a) \o b = q \o (a \o b)
  BY ConcatAssociative, SMTT(30)
<1>4. (q \o Zeros(m)) \o Zeros(n) = q \o (Zeros(m) \o Zeros(n))
  BY <1>1, <1>3, Zenon
<1>. QED
  BY <1>2, <1>4, Zenon

(* The front frame of a sequence and the rest.                                 *)
LEMMA FrontAndRest ==
    ASSUME NEW q \in Seq(Nat), Len(q) >= F
    PROVE  /\ FrontOf(q) \in Seq(Nat) /\ Len(FrontOf(q)) = F
           /\ WithoutFront(q) \in Seq(Nat) /\ Len(WithoutFront(q)) = Len(q) - F
           /\ FrontOf(q) \o WithoutFront(q) = q
<1>. DEFINE l == Len(q)
<1>1. l \in Nat /\ F \in Nat /\ F <= l /\ AtMost(l) = F
  BY AtMostIs, FAssumption
<1>2. FrontOf(q) = SubSeq(q, 1, F) /\ WithoutFront(q) = SubSeq(q, F + 1, l) /\ Len(q) = l
  BY <1>1 DEF FrontOf, WithoutFront
<1>. HIDE DEF l
<1>3. SubSeq(q, 1, F) \in Seq(Nat) /\ Len(SubSeq(q, 1, F)) = F
  BY <1>1, <1>2
<1>4. SubSeq(q, F + 1, l) \in Seq(Nat) /\ Len(SubSeq(q, F + 1, l)) = l - F
  BY <1>1, <1>2
<1>5. SubSeq(q, 1, F) \o SubSeq(q, F + 1, l) = SubSeq(q, 1, l)
  <2>1. 1 \in 1..(l + 1) /\ F \in 0..l /\ l \in F..l /\ 1 - 1 = 0
    BY <1>1
  <2>. QED
    BY <1>2, <2>1, ConcatAdjacentSubSeq
<1>6. SubSeq(q, 1, l) = q
  BY <1>2, SubSeqFull
<1>. QED
  BY <1>1, <1>2, <1>3, <1>4, <1>5, <1>6
-------------------------------------------------------------------------------
(* The samples of a channel and what is left of them.                          *)
AddedEquations ==
    /\ Added \in [0..Len(setup.chunks) -> Nat] /\ Added[0] = 0
    /\ \A k \in 1..Len(setup.chunks) : Added[k] = Added[k - 1] + setup.chunks[k]

LEMMA AddedIsDefined == SetupOK => AddedEquations
<1>. SUFFICES ASSUME SetupOK PROVE AddedEquations
  OBVIOUS
<1>. DEFINE N == Len(setup.chunks)
            step == [k \in 1..N |-> [v \in Nat |-> v + setup.chunks[k]]]
<1>1. N \in Nat /\ \A k \in 1..N : setup.chunks[k] \in Nat
  BY DEF SetupOK, Setup
<1>2. \A k \in 1..N : [v \in Nat |-> v + setup.chunks[k]] \in [Nat -> Nat]
  BY <1>1
<1>3. step \in StepsTo(N, Nat)
  BY <1>2 DEF StepsTo
<1>4. \A k \in 1..N : \A v \in Nat : step[k][v] = v + setup.chunks[k]
  BY DEF step
<1>. HIDE DEF step
<1>5. PICK f : IteratesTo(f, N, Nat, 0, step)
  BY <1>1, <1>3, PositionRecursion
<1>6. /\ f \in [0..N -> Nat] /\ f[0] = 0
      /\ \A k \in 1..N : f[k] = f[k - 1] + setup.chunks[k]
  <2>1. \A k \in 1..N : k - 1 \in 0..N
    BY <1>1
  <2>. QED
    BY <1>4, <1>5, <2>1 DEF IteratesTo
<1>7. f = [k \in 0..N |-> IF k = 0 THEN 0 ELSE f[k - 1] + setup.chunks[k]]
  <2>1. \A k \in 0..N : f[k] = IF k = 0 THEN 0 ELSE f[k - 1] + setup.chunks[k]
    BY <1>1, <1>6
  <2>. QED
    BY <1>6, <2>1
<1>8. Added = [k \in 0..N |-> IF k = 0 THEN 0 ELSE Added[k - 1] + setup.chunks[k]]
  BY <1>7 DEF Added
<1>9. Added[0] = 0
  BY <1>1, <1>8
<1>10. ASSUME NEW k \in 1..N PROVE Added[k] = Added[k - 1] + setup.chunks[k]
  <2>1. k \in 0..N /\ k # 0
    BY <1>1
  <2>. QED
    BY <1>8, <2>1
<1>11. \A k \in 0..N : Added[k] \in Nat
  <2>. DEFINE T == {k \in Nat : k <= N => Added[k] \in Nat}
  <2>1. 0 \in T
    BY <1>9
  <2>2. ASSUME NEW k \in Nat, k \in T PROVE k + 1 \in T
    <3>. SUFFICES ASSUME k + 1 <= N PROVE Added[k + 1] \in Nat
      OBVIOUS
    <3>1. k + 1 \in 1..N /\ (k + 1) - 1 = k /\ Added[k] \in Nat
      BY <1>1, <2>2
    <3>2. Added[k + 1] = Added[k] + setup.chunks[k + 1]
      BY <1>10, <3>1
    <3>. QED
      BY <1>1, <3>1, <3>2
  <2>. HIDE DEF T
  <2>3. \A k \in Nat : k \in T
    BY <2>1, <2>2, NumberInduction
  <2>. QED
    BY <1>1, <2>3 DEF T
<1>12. Added \in [0..N -> Nat]
  BY <1>8, <1>11
<1>. QED
  BY <1>9, <1>10, <1>12 DEF AddedEquations

NextBacklog(b, n) == IF b + ChunkSize(n) > F THEN b + ChunkSize(n) - F ELSE 0

LEMMA ChunkSizeType == SetupOK => \A n \in Nat : ChunkSize(n) \in Nat
BY DEF SetupOK, Setup, ChunkSize

BacklogEquations ==
    /\ Backlog \in [Nat -> Nat] /\ Backlog[0] = D
    /\ \A n \in Nat : Backlog[n + 1] = NextBacklog(Backlog[n], n + 1)

LEMMA BacklogIsDefined == SetupOK => BacklogEquations
<1>. SUFFICES ASSUME SetupOK PROVE BacklogEquations
  OBVIOUS
<1>0. F \in Nat /\ D \in Nat /\ \A n \in Nat : ChunkSize(n) \in Nat
  BY FAssumption, DelayIs, ChunkSizeType
<1>. DEFINE step == [n \in Nat |-> [v \in Nat |-> NextBacklog(v, n + 1)]]
<1>1. \A v, n \in Nat : NextBacklog(v, n + 1) \in Nat
  <2>. TAKE v, n \in Nat
  <2>1. ChunkSize(n + 1) \in Nat
    BY <1>0
  <2>. QED
    BY <1>0, <2>1 DEF NextBacklog
<1>2. step \in Steps(Nat)
  BY <1>1 DEF Steps
<1>3. \A n, v \in Nat : step[n][v] = NextBacklog(v, n + 1)
  BY DEF step
<1>. HIDE DEF step
<1>4. PICK f : Iterates(f, Nat, D, step)
  BY <1>0, <1>2, NumberRecursion
<1>5. f \in [Nat -> Nat] /\ f[0] = D /\ \A n \in Nat : f[n + 1] = NextBacklog(f[n], n + 1)
  BY <1>3, <1>4 DEF Iterates
<1>. DEFINE Body(b) == [n \in Nat |-> IF n = 0 THEN D ELSE NextBacklog(b[n - 1], n)]
<1>6. f = Body(f)
  <2>1. \A n \in Nat : f[n] = IF n = 0 THEN D ELSE NextBacklog(f[n - 1], n)
    <3>. TAKE n \in Nat
    <3>1. CASE n # 0
      <4>1. n - 1 \in Nat /\ (n - 1) + 1 = n
        BY <3>1
      <4>2. f[(n - 1) + 1] = NextBacklog(f[n - 1], (n - 1) + 1)
        BY <1>5, <4>1
      <4>. QED
        BY <3>1, <4>1, <4>2
    <3>. QED
      BY <1>5, <3>1
  <2>. QED
    BY <1>5, <2>1
<1>7. Backlog = Body(Backlog)
  BY <1>6 DEF Backlog, NextBacklog
<1>8. Backlog[0] = D
  BY <1>7
<1>9. ASSUME NEW n \in Nat PROVE Backlog[n + 1] = NextBacklog(Backlog[n], n + 1)
  <2>1. n + 1 \in Nat /\ n + 1 # 0 /\ (n + 1) - 1 = n
    OBVIOUS
  <2>2. Backlog[n + 1] = NextBacklog(Backlog[(n + 1) - 1], n + 1)
    BY <1>7, <2>1
  <2>. QED
    BY <2>1, <2>2
<1>10. \A n \in Nat : Backlog[n] \in Nat
  <2>. DEFINE T == {n \in Nat : Backlog[n] \in Nat}
  <2>1. 0 \in T
    BY <1>0, <1>8
  <2>2. ASSUME NEW n \in Nat, n \in T PROVE n + 1 \in T
    BY <1>1, <1>9, <2>2
  <2>. HIDE DEF T
  <2>3. \A n \in Nat : n \in T
    BY <2>1, <2>2, NumberInduction
  <2>. QED
    BY <2>3 DEF T
<1>11. Backlog \in [Nat -> Nat]
  BY <1>7, <1>10
<1>. QED
  BY <1>8, <1>9, <1>11 DEF BacklogEquations

(* A call passes the next samples of its channel.                              *)
LEMMA ChunkIs ==
    ASSUME SetupOK, NEW k \in 1..Len(setup.chunks)
    PROVE  /\ setup.chunks[k] \in Nat /\ setup.chunks[k] >= 1
           /\ k < Len(setup.chunks) => setup.chunks[k] >= F
           /\ Chunk(k) \in Seq(Nat) /\ Len(Chunk(k)) = setup.chunks[k]
           /\ \A i \in 1..Len(Chunk(k)) : Chunk(k)[i] = Added[k - 1] + i
           /\ Chunk(k) # <<>> /\ Chunk(k) # None
<1>. DEFINE N == Len(setup.chunks)
<1>1. setup.chunks \in Seq(Nat)
  BY DEF SetupOK, Setup
<1>2. setup.chunks[k] \in Nat /\ N \in Nat /\ k \in DOMAIN setup.chunks /\ k - 1 \in 0..N
  BY <1>1
<1>3. setup.chunks[k] >= IF k < N THEN F ELSE 1
  BY <1>2 DEF SetupOK, Legal
<1>4. setup.chunks[k] >= 1 /\ (k < N => setup.chunks[k] >= F)
  BY <1>2, <1>3, FAssumption
<1>5. Added[k - 1] \in Nat
  BY <1>2, AddedIsDefined DEF AddedEquations
<1>6. /\ Chunk(k) \in Seq(Nat) /\ Len(Chunk(k)) = setup.chunks[k]
      /\ \A i \in 1..Len(Chunk(k)) : Chunk(k)[i] = Added[k - 1] + i
  BY <1>2, <1>5, SMTT(30) DEF Chunk
<1>7. Chunk(k) # <<>> /\ Chunk(k) # None
  BY <1>2, <1>4, <1>6, NoneAssumption
<1>. QED
  BY <1>2, <1>4, <1>6, <1>7

SampledTo(q, front, a, l) == Sampled(q, front, a) /\ Len(q) = l

LEMMA SampledZeros ==
    ASSUME NEW q, NEW front \in Nat, NEW a \in Nat, NEW l \in Nat, SampledTo(q, front, a, l),
           NEW n \in Nat
    PROVE  SampledTo(q \o Zeros(n), front, a, l + n)
<1>. USE DEF SampledTo
<1>. DEFINE z == Zeros(n)
<1>1. q \in Seq(Nat) /\ front + a <= Len(q) /\ Len(q) \in Nat
  BY DEF Sampled
<1>2. z \in Seq(Nat) /\ Len(z) = n /\ \A i \in 1..n : z[i] = 0
  BY ZerosAre
<1>. HIDE DEF z
<1>3. q \o z \in Seq(Nat) /\ Len(q \o z) = Len(q) + n
  BY <1>1, <1>2, ConcatProperties
<1>4. ASSUME NEW i \in 1..(Len(q) + n)
      PROVE  (q \o z)[i] = IF front < i /\ i <= front + a THEN i - front ELSE 0
  <2>1. CASE i <= Len(q)
    <3>1. (q \o z)[i] = q[i] /\ i \in 1..Len(q)
      BY <1>1, <1>2, <2>1
    <3>. QED
      BY <3>1 DEF Sampled
  <2>2. CASE i > Len(q)
    <3>1. (q \o z)[i] = z[i - Len(q)] /\ i - Len(q) \in 1..n
      BY <1>1, <1>2, <2>2
    <3>2. ~(i <= front + a)
      BY <1>1, <2>2
    <3>. QED
      BY <1>2, <3>1, <3>2
  <2>3. i <= Len(q) \/ i > Len(q)
    BY <1>1
  <2>. QED
    BY <2>1, <2>2, <2>3
<1>. QED
  BY <1>1, <1>3, <1>4 DEF Sampled, z

LEMMA SampledChunk ==
    ASSUME NEW q, NEW front \in Nat, NEW a \in Nat, NEW n \in Nat,
           SampledTo(q, front, a, front + a),
           NEW c \in Seq(Nat), Len(c) = n, \A i \in 1..n : c[i] = a + i
    PROVE  SampledTo(q \o c, front, a + n, front + (a + n))
<1>. USE DEF SampledTo
<1>. DEFINE p == front + a
<1>0. Len(c) = n
  OBVIOUS
<1>1. q \in Seq(Nat) /\ n \in Nat /\ p \in Nat /\ Len(q) = p /\ p = front + a
  BY DEF Sampled
<1>. HIDE DEF p
<1>2. q \o c \in Seq(Nat) /\ Len(q \o c) = p + n
  <2>1. q \o c \in Seq(Nat) /\ Len(q \o c) = Len(q) + Len(c)
    BY <1>1, ConcatProperties, Zenon
  <2>. QED
    BY <1>0, <1>1, <2>1
<1>3. ASSUME NEW i \in 1..(p + n)
      PROVE  (q \o c)[i] = IF front < i /\ i <= front + (a + n) THEN i - front ELSE 0
  <2>1. CASE i <= p
    <3>1. (q \o c)[i] = q[i] /\ i \in 1..Len(q)
      BY <1>0, <1>1, <2>1
    <3>2. q[i] = IF front < i /\ i <= front + a THEN i - front ELSE 0
      BY <3>1 DEF Sampled
    <3>. QED
      BY <1>1, <2>1, <3>1, <3>2
  <2>2. CASE i > p
    <3>1. (q \o c)[i] = c[i - p] /\ i - p \in 1..n
      BY <1>0, <1>1, <2>2, SMTT(30)
    <3>2. c[i - p] = a + (i - p)
      BY <1>0, <3>1
    <3>. QED
      BY <1>1, <2>2, <3>1, <3>2
  <2>3. i <= p \/ i > p
    BY <1>1
  <2>. QED
    BY <2>1, <2>2, <2>3
<1>. QED
  BY <1>0, <1>1, <1>2, <1>3 DEF Sampled
-------------------------------------------------------------------------------
(* A round: every substream of an element makes a frame.                       *)
LEMMA GenParts ==
    ASSUME NEW g \in Gen
    PROVE  /\ g.labeled \in [Substreams -> Seq(Nat) \union {None}]
           /\ DOMAIN g.data \subseteq Substreams /\ DOMAIN g.encoder \subseteq Substreams
           /\ g.data \in [DOMAIN g.data -> Data] /\ g.encoder \in [DOMAIN g.encoder -> Encoder]
           /\ g.trimming \in [Substreams -> Trimming] /\ g.clock \in [Substreams -> Nat]
           /\ g.ok \in BOOLEAN
<1>1. g.data \in PartialMaps(Data) /\ g.encoder \in PartialMaps(Encoder)
  BY DEF Gen
<1>2. PICK X \in SUBSET Substreams : g.data \in [X -> Data]
  BY <1>1 DEF PartialMaps
<1>3. PICK Y \in SUBSET Substreams : g.encoder \in [Y -> Encoder]
  BY <1>1 DEF PartialMaps
<1>4. DOMAIN g.data = X /\ DOMAIN g.encoder = Y
  BY <1>2, <1>3
<1>. QED
  BY <1>2, <1>3, <1>4 DEF Gen

LEMMA IsPartialMap ==
    ASSUME NEW V, NEW X, X \subseteq Substreams, NEW f \in [X -> V]
    PROVE  f \in PartialMaps(V)
BY DEF PartialMaps

LEMMA UpdatedIs ==
    ASSUME NEW f, NEW new
    PROVE  /\ DOMAIN Updated(f, new) = DOMAIN f
           /\ \A s \in DOMAIN f : Updated(f, new)[s] = IF s \in DOMAIN new THEN new[s] ELSE f[s]
BY DEF Updated

LEMMA UpdatedType ==
    ASSUME NEW V, NEW X, NEW f \in [X -> V], NEW new,
           \A s \in DOMAIN new \intersect X : new[s] \in V
    PROVE  Updated(f, new) \in [X -> V]
<1>1. DOMAIN f = X
  OBVIOUS
<1>2. ASSUME NEW s \in X PROVE (IF s \in DOMAIN new THEN new[s] ELSE f[s]) \in V
  BY <1>2
<1>. QED
  BY <1>1, <1>2 DEF Updated

(* x is d padded by p and q, until a frame of the OBU is whole.                *)
PadsTo(d, x, p, q) ==
    /\ x \in Data /\ p \in Nat /\ q \in Nat /\ p <= q
    /\ x.inObu = d.inObu \o Zeros(p) /\ x.toEncode = d.toEncode \o Zeros(q)
    /\ Len(x.inObu) = Len(d.inObu) + p /\ Len(x.toEncode) = Len(d.toEncode) + q
    /\ F <= Len(x.inObu) /\ (p > 0 => Len(x.inObu) = F)
    /\ q > p => Len(x.toEncode) = F
    /\ x.trimStart = d.trimStart /\ x.trimEnd = (IF p > 0 THEN p ELSE d.trimEnd) /\ p <= F

LEMMA MissingIs ==
    ASSUME NEW q \in Seq(Nat)
    PROVE  /\ Missing(q) \in Nat /\ Missing(q) <= F /\ Len(q) + Missing(q) >= F
           /\ Missing(q) > 0 => Len(q) + Missing(q) = F
           /\ Len(q) >= F => Missing(q) = 0
<1>1. Len(q) \in Nat /\ F \in Nat
  BY FAssumption
<1>2. Missing(q) = F - (IF Len(q) < F THEN Len(q) ELSE F)
  BY <1>1, AtMostIs DEF Missing
<1>. QED
  BY <1>1, <1>2

LEMMA PaddedIs ==
    ASSUME NEW d \in Data, NEW idle \in BOOLEAN
    PROVE  \E p, q \in Nat :
              /\ PadsTo(d, Padded(d, idle), p, q) /\ p = Missing(d.inObu)
              /\ IF idle THEN Len(Padded(d, idle).toEncode) >= F ELSE p = q
<1>0. \A a, b \in Seq(Nat) : a \o b \in Seq(Nat) /\ Len(a \o b) = Len(a) + Len(b)
  BY ConcatProperties
<1>1. /\ d.inObu \in Seq(Nat) /\ d.toEncode \in Seq(Nat) /\ d.trimStart \in Nat
      /\ d.trimEnd \in Nat /\ Len(d.inObu) \in Nat /\ Len(d.toEncode) \in Nat
  BY DEF Data
<1>2. PICK p \in Nat : /\ p = Missing(d.inObu) /\ Len(d.inObu) + p >= F /\ p <= F
                       /\ p > 0 => Len(d.inObu) + p = F
  <2>. DEFINE m == Missing(d.inObu)
  <2>1. m \in Nat /\ Len(d.inObu) + m >= F /\ m <= F /\ (m > 0 => Len(d.inObu) + m = F)
    BY <1>1, MissingIs
  <2>. HIDE DEF m
  <2>2. \E p \in Nat : p = m /\ Len(d.inObu) + p >= F /\ p <= F /\ (p > 0 => Len(d.inObu) + p = F)
    BY <2>1
  <2>. QED
    BY <2>2 DEF m
<1>3. PICK input \in Seq(Nat) : input = d.toEncode \o Zeros(p)
                               /\ Len(input) = Len(d.toEncode) + p
  <2>1. Zeros(p) \in Seq(Nat) /\ Len(Zeros(p)) = p
    BY ZerosAre
  <2>2. d.toEncode \o Zeros(p) \in Seq(Nat) /\ Len(d.toEncode \o Zeros(p)) = Len(d.toEncode) + p
    BY <1>0, <1>1, <2>1
  <2>. QED
    BY <2>2
<1>4. PICK more \in Nat :
          /\ more = IF idle THEN Missing(input) ELSE 0
          /\ ~idle => more = 0
          /\ idle => Len(input) + more >= F /\ (more > 0 => Len(input) + more = F)
  <2>. DEFINE m == Missing(input)
  <2>1. m \in Nat /\ Len(input) + m >= F /\ (m > 0 => Len(input) + m = F)
    BY MissingIs
  <2>. HIDE DEF m
  <2>2. CASE idle
    BY <2>1, <2>2 DEF m
  <2>3. CASE ~idle
    BY <2>3
  <2>. QED
    BY <2>2, <2>3
<1>5. PICK q \in Nat : q = p + more
  OBVIOUS
<1>6. PICK o \in Seq(Nat) : o = d.inObu \o Zeros(p) /\ Len(o) = Len(d.inObu) + p
  <2>1. d.inObu \in Seq(Nat) /\ p \in Nat
    BY <1>0, <1>1
  <2>. QED
    BY <2>1, Lengthened, Zenon
<1>7. PICK t \in Seq(Nat) : t = input \o Zeros(more) /\ Len(t) = Len(input) + more
  <2>1. input \in Seq(Nat) /\ more \in Nat
    BY <1>0, <1>1
  <2>. QED
    BY <2>1, Lengthened, Zenon
<1>8. t = d.toEncode \o Zeros(q)
  <2>1. (d.toEncode \o Zeros(p)) \o Zeros(more) = d.toEncode \o Zeros(p + more)
    BY <1>1, MoreZeros, ZenonT(40)
  <2>. QED
    BY <1>3, <1>5, <1>7, <2>1, Zenon
<1>9. PICK x : x = [d EXCEPT !.inObu = o, !.toEncode = t,
                             !.trimEnd = IF p > 0 THEN p ELSE d.trimEnd]
  OBVIOUS
<1>10. Padded(d, idle) = x
  BY <1>2, <1>3, <1>4, <1>6, <1>7, <1>9 DEF Padded
<1>11. /\ x \in Data /\ x.inObu = o /\ x.toEncode = t
       /\ x.trimStart = d.trimStart /\ x.trimEnd = (IF p > 0 THEN p ELSE d.trimEnd)
  BY <1>1, <1>9 DEF Data
<1>. DEFINE l == Len(d.toEncode)  i == Len(input)  u == Len(t)
<1>l. l \in Nat /\ i = l + p /\ u = i + more /\ q = p + more /\ F \in Nat
      /\ (~idle => more = 0) /\ (idle => i + more >= F /\ (more > 0 => i + more = F))
  BY <1>1, <1>3, <1>4, <1>5, <1>7, FAssumption
<1>h. u = l + q /\ p <= q /\ IF idle THEN u >= F /\ (q > p => u = F) ELSE p = q
  <2>. HIDE DEF l, i, u
  <2>. QED
    BY <1>l
<1>12. Len(t) = Len(d.toEncode) + q /\ p <= q
  BY <1>h
<1>13. IF idle THEN Len(t) >= F /\ (q > p => Len(t) = F) ELSE p = q
  BY <1>h
<1>. HIDE DEF l, i, u
<1>14. q > p => Len(t) = F
  BY <1>12, <1>13
<1>15. PadsTo(d, x, p, q)
  BY <1>2, <1>6, <1>8, <1>11, <1>12, <1>14 DEF PadsTo
<1>. QED
  BY <1>2, <1>10, <1>11, <1>13, <1>15

(* n is g with the samples of e mixed and padded.                              *)
Mixed(g, s) == Downmixed(g.data[s], g.labeled[s])
Charged(s, g, n, p) ==
    /\ n.trimming[s] = [g.trimming[s] EXCEPT !.endLeft = TrimLeftAfterPadding(@, p)]
    /\ p <= n.trimming[s].endLeft
PadIsRefused(s, g) ==
    \E p \in Nat : /\ Len(Mixed(g, s).inObu) + p = F
                   /\ TrimLeftAfterPadding(g.trimming[s].endLeft, p) < p
Prepared(e, g, n) ==
    /\ n \in Gen /\ n.ok = g.ok /\ n.encoder = g.encoder /\ n.clock = g.clock
    /\ n.labeled = g.labeled /\ DOMAIN n.data = DOMAIN g.data
    /\ \A s \in DOMAIN g.data \ SubstreamsOf(e) : n.data[s] = g.data[s]
    /\ \A s \in SubstreamsOf(e) : \E p, q \in Nat :
           /\ PadsTo(Mixed(g, s), n.data[s], p, q) /\ Charged(s, g, n, p)
           /\ IF NoSampleAdded(e, g) THEN Len(n.data[s].toEncode) >= F ELSE p = q
    /\ \A s \in Substreams \ SubstreamsOf(e) : n.trimming[s] = g.trimming[s]

(* Before the loop of MaybeEncodeFramesForAudioElement, when it will encode.   *)
ReadyToEncode(e, g) ==
    /\ g \in Gen /\ g.ok /\ SubstreamsOf(e) \subseteq DOMAIN g.data
    /\ DOMAIN g.data \subseteq DOMAIN g.encoder
    /\ \A s \in SubstreamsOf(e) : g.labeled[s] \in Seq(Nat)
    /\ \A s, t \in SubstreamsOf(e) :
           /\ Len(g.labeled[s]) = Len(g.labeled[t])
           /\ Len(g.data[s].inObu) = Len(g.data[t].inObu)
           /\ Len(g.data[s].toEncode) = Len(g.data[t].toEncode)
    /\ NoSampleAdded(e, g) => \A s \in SubstreamsOf(e) : g.data[s].inObu # <<>>

LEMMA SubstreamsOfIs ==
    ASSUME NEW e \in Elements
    PROVE  SubstreamsOf(e) \subseteq Substreams /\ SubstreamsOf(e) # {}
<1>1. e \in Range(ElementOf)
  BY ElementAssumption
<1>2. PICK s \in DOMAIN ElementOf : ElementOf[s] = e
  BY <1>1 DEF Range
<1>3. s \in Substreams
  BY <1>2, ElementAssumption
<1>. QED
  BY <1>2, <1>3 DEF SubstreamsOf

LEMMA MixedIs ==
    ASSUME NEW e \in Elements, NEW g, ReadyToEncode(e, g), NEW s \in SubstreamsOf(e)
    PROVE  /\ g.data[s] \in Data /\ g.labeled[s] \in Seq(Nat) /\ Mixed(g, s) \in Data
           /\ Mixed(g, s).inObu = g.data[s].inObu \o g.labeled[s]
           /\ Mixed(g, s).toEncode = g.data[s].toEncode \o g.labeled[s]
           /\ Len(Mixed(g, s).inObu) = Len(g.data[s].inObu) + Len(g.labeled[s])
           /\ Len(Mixed(g, s).toEncode) = Len(g.data[s].toEncode) + Len(g.labeled[s])
           /\ Mixed(g, s).trimStart = g.data[s].trimStart
           /\ Mixed(g, s).trimEnd = g.data[s].trimEnd
<1>0. \A a, b \in Seq(Nat) : a \o b \in Seq(Nat) /\ Len(a \o b) = Len(a) + Len(b)
  BY ConcatProperties
<1>1. g.data[s] \in Data /\ g.labeled[s] \in Seq(Nat)
  BY GenParts DEF ReadyToEncode
<1>2. PICK d \in Data : d = g.data[s]
  BY <1>1
<1>3. PICK l \in Seq(Nat) : l = g.labeled[s]
  BY <1>1
<1>4. d.inObu \in Seq(Nat) /\ d.toEncode \in Seq(Nat)
  BY DEF Data
<1>5. PICK o \in Seq(Nat) : o = d.inObu \o l /\ Len(o) = Len(d.inObu) + Len(l)
  BY <1>0, <1>4
<1>6. PICK t \in Seq(Nat) : t = d.toEncode \o l /\ Len(t) = Len(d.toEncode) + Len(l)
  BY <1>0, <1>4
<1>7. Mixed(g, s) = [d EXCEPT !.inObu = o, !.toEncode = t]
  BY <1>2, <1>3, <1>5, <1>6 DEF Mixed, Downmixed
<1>8. /\ Mixed(g, s) \in Data /\ Mixed(g, s).inObu = o /\ Mixed(g, s).toEncode = t
      /\ Mixed(g, s).trimStart = d.trimStart /\ Mixed(g, s).trimEnd = d.trimEnd
  BY <1>7 DEF Data
<1>. QED
  BY <1>2, <1>3, <1>5, <1>6, <1>8

LEMMA NextFrameData ==
    ASSUME NEW e \in Elements, NEW g, ReadyToEncode(e, g)
    PROVE  \/ /\ GetNextFrameSubstreamData(e, g) = Failed(g)
              /\ \E s \in SubstreamsOf(e) : PadIsRefused(s, g) /\ Len(Mixed(g, s).inObu) < F
           \/ Prepared(e, g, GetNextFrameSubstreamData(e, g))
<1>. DEFINE idle == NoSampleAdded(e, g)
            S == SubstreamsOf(e)
            mixed == [s \in S |-> Downmixed(g.data[s], g.labeled[s])]
            left == [s \in S |-> TrimLeftAfterPadding(g.trimming[s].endLeft, Missing(mixed[s].inObu))]
            data == Updated(g.data, [s \in S |-> Padded(mixed[s], idle)])
            trimming == Updated(g.trimming, [s \in S |-> [g.trimming[s] EXCEPT !.endLeft = left[s]]])
            n == [g EXCEPT !.data = data, !.trimming = trimming]
<1>1. S \subseteq Substreams /\ S # {} /\ S \subseteq DOMAIN g.data /\ g \in Gen /\ idle \in BOOLEAN
  BY SubstreamsOfIs DEF ReadyToEncode, NoSampleAdded
<1>2. ~(idle /\ \A s \in DOMAIN g.data : g.data[s].inObu = <<>>)
  BY <1>1 DEF ReadyToEncode
<1>3. \/ /\ GetNextFrameSubstreamData(e, g) = Failed(g)
         /\ \E s \in S : left[s] < Missing(mixed[s].inObu)
      \/ /\ GetNextFrameSubstreamData(e, g) = n
         /\ ~(\E s \in S : left[s] < Missing(mixed[s].inObu))
  BY <1>1, <1>2, Zenon DEF GetNextFrameSubstreamData
<1>4. ASSUME NEW s \in S
      PROVE  /\ mixed[s] = Mixed(g, s) /\ mixed[s] \in Data
             /\ Padded(mixed[s], idle) \in Data
             /\ \E p, q \in Nat :
                   /\ PadsTo(Mixed(g, s), Padded(mixed[s], idle), p, q)
                   /\ p = Missing(mixed[s].inObu)
                   /\ IF idle THEN Len(Padded(mixed[s], idle).toEncode) >= F ELSE p = q
  <2>1. mixed[s] = Mixed(g, s) /\ mixed[s] \in Data
    BY MixedIs DEF Mixed
  <2>2. PICK p, q \in Nat :
           /\ PadsTo(Mixed(g, s), Padded(mixed[s], idle), p, q) /\ p = Missing(mixed[s].inObu)
           /\ IF idle THEN Len(Padded(mixed[s], idle).toEncode) >= F ELSE p = q
    BY <2>1, <1>1, PaddedIs
  <2>3. Padded(mixed[s], idle) \in Data
    BY <2>2 DEF PadsTo
  <2>. QED
    BY <2>1, <2>2, <2>3
<1>5. ASSUME NEW s \in S
      PROVE  /\ [g.trimming[s] EXCEPT !.endLeft = left[s]] \in Trimming
             /\ left[s] < Missing(mixed[s].inObu)
                   => PadIsRefused(s, g) /\ Len(mixed[s].inObu) < F
             /\ left[s] = TrimLeftAfterPadding(g.trimming[s].endLeft, Missing(mixed[s].inObu))
             /\ left[s] \in Nat /\ Missing(mixed[s].inObu) \in Nat
  <2>1. g.trimming[s] \in Trimming
    BY <1>1, GenParts
  <2>2. mixed[s].inObu \in Seq(Nat)
    BY <1>4 DEF Data
  <2>3. Missing(mixed[s].inObu) \in Nat
    BY <2>2, MissingIs
  <2>4. g.trimming[s].endLeft \in Nat
    BY <2>1 DEF Trimming
  <2>5. PICK m \in Nat : m = Missing(mixed[s].inObu)
    BY <2>3
  <2>6. PICK b \in Nat : b = g.trimming[s].endLeft
    BY <2>4
  <2>7. left[s] = TrimLeftAfterPadding(b, m)
    BY <2>5, <2>6
  <2>8. TrimLeftAfterPadding(b, m) \in Nat /\ (m = 0 => TrimLeftAfterPadding(b, m) >= m)
    BY DEF TrimLeftAfterPadding
  <2>9. PICK o \in Seq(Nat) : o = mixed[s].inObu
    BY <2>2
  <2>10. Len(o) \in Nat /\ (Len(o) >= F => m = 0) /\ (m > 0 => Len(o) + m = F)
    BY <2>5, <2>9, MissingIs
  <2>. HIDE DEF left, mixed
  <2>11. left[s] \in Nat /\ (left[s] < m => Len(o) < F /\ Len(o) + m = F)
    BY <2>7, <2>8, <2>10, FAssumption
  <2>12. left[s] < m => PadIsRefused(s, g)
    BY <1>4, <2>6, <2>7, <2>9, <2>11 DEF PadIsRefused
  <2>. QED
    BY <2>1, <2>5, <2>6, <2>7, <2>9, <2>11, <2>12 DEF Trimming
<1>. HIDE DEF left, mixed, idle
<1>6. data \in [DOMAIN g.data -> Data]
  <2>1. \A t \in DOMAIN [s \in S |-> Padded(mixed[s], idle)] \intersect DOMAIN g.data :
            [s \in S |-> Padded(mixed[s], idle)][t] \in Data
    BY <1>4
  <2>2. g.data \in [DOMAIN g.data -> Data]
    BY <1>1, GenParts
  <2>. QED
    BY <2>1, <2>2, UpdatedType
<1>7. trimming \in [Substreams -> Trimming]
  <2>1. \A t \in DOMAIN [s \in S |-> [g.trimming[s] EXCEPT !.endLeft = left[s]]] \intersect Substreams :
            [s \in S |-> [g.trimming[s] EXCEPT !.endLeft = left[s]]][t] \in Trimming
    BY <1>5
  <2>2. g.trimming \in [Substreams -> Trimming]
    BY <1>1, GenParts
  <2>. QED
    BY <2>1, <2>2, UpdatedType
<1>8. \A s \in DOMAIN g.data : data[s] = IF s \in S THEN Padded(mixed[s], idle) ELSE g.data[s]
  BY UpdatedIs
<1>9. DOMAIN data = DOMAIN g.data
  BY UpdatedIs
<1>a. \A s \in Substreams : trimming[s] = IF s \in S THEN [g.trimming[s] EXCEPT !.endLeft = left[s]]
                                       ELSE g.trimming[s]
  <2>1. DOMAIN g.trimming = Substreams
    BY <1>1, GenParts
  <2>2. \A s \in DOMAIN g.trimming :
            trimming[s] = IF s \in S THEN [g.trimming[s] EXCEPT !.endLeft = left[s]]
                          ELSE g.trimming[s]
    BY UpdatedIs
  <2>. QED
    BY <2>1, <2>2
<1>. HIDE DEF data, trimming
<1>10. /\ n.data = data /\ n.trimming = trimming /\ n.encoder = g.encoder /\ n.clock = g.clock
       /\ n.labeled = g.labeled /\ n.ok = g.ok
  BY <1>1 DEF Gen
<1>11. n \in Gen
  <2>1. data \in PartialMaps(Data)
    BY <1>1, <1>6, GenParts, IsPartialMap
  <2>. QED
    BY <1>1, <1>7, <2>1 DEF Gen
<1>. HIDE DEF n
<1>b. ASSUME NEW s \in S, ~(\E z \in S : left[z] < Missing(mixed[z].inObu))
      PROVE  \E p, q \in Nat :
                /\ PadsTo(Mixed(g, s), n.data[s], p, q) /\ Charged(s, g, n, p)
                /\ IF idle THEN Len(n.data[s].toEncode) >= F ELSE p = q
  <2>1. PICK p, q \in Nat :
           /\ PadsTo(Mixed(g, s), Padded(mixed[s], idle), p, q) /\ p = Missing(mixed[s].inObu)
           /\ IF idle THEN Len(Padded(mixed[s], idle).toEncode) >= F ELSE p = q
    BY <1>4, Zenon
  <2>2. n.data[s] = Padded(mixed[s], idle)
    BY <1>1, <1>8, <1>10
  <2>3. PICK t \in Trimming : t = g.trimming[s]
    BY <1>1, GenParts
  <2>4. n.trimming[s] = [g.trimming[s] EXCEPT !.endLeft = left[s]]
    BY <1>1, <1>a, <1>10
  <2>5. left[s] = TrimLeftAfterPadding(t.endLeft, p) /\ left[s] \in Nat /\ ~(left[s] < p)
    BY <1>5, <1>b, <2>1, <2>3
  <2>6. n.trimming[s] = [t EXCEPT !.endLeft = TrimLeftAfterPadding(@, p)]
    BY <2>3, <2>4, <2>5
  <2>7. n.trimming[s].endLeft = left[s]
    BY <2>3, <2>4 DEF Trimming
  <2>8. Charged(s, g, n, p)
    BY <2>3, <2>5, <2>6, <2>7 DEF Charged
  <2>. QED
    BY <2>1, <2>2, <2>8
<1>12. ASSUME ~(\E z \in S : left[z] < Missing(mixed[z].inObu)) PROVE Prepared(e, g, n)
  BY <1>1, <1>8, <1>9, <1>10, <1>11, <1>12, <1>a, <1>b DEF Prepared, idle
<1>13. (\E s \in S : left[s] < Missing(mixed[s].inObu))
         => \E s \in S : PadIsRefused(s, g) /\ Len(Mixed(g, s).inObu) < F
  BY <1>4, <1>5
<1>. QED
  BY <1>3, <1>12, <1>13

(* h is g with a frame made of each substream of e.                            *)
TrimsFront(x, frame, y) ==
    /\ frame.trimStart = AtMost(x.trimStart) /\ frame.trimEnd = AtMost(x.trimEnd)
    /\ y.trimStart = x.trimStart - frame.trimStart /\ y.trimEnd = x.trimEnd - frame.trimEnd
RoundFor(s, g, h) ==
    \E x \in Data, p, q \in Nat, frame \in Frame :
        /\ PadsTo(Mixed(g, s), x, p, q) /\ F <= Len(x.toEncode) /\ Charged(s, g, h, p)
        /\ TrimsFront(x, frame, h.data[s])
        /\ frame.start = g.clock[s]
        /\ frame.obu = FrontOf(x.inObu) /\ frame.encoded = FrontOf(x.toEncode)
        /\ h.data[s].inObu = WithoutFront(x.inObu)
        /\ h.data[s].toEncode = WithoutFront(x.toEncode)
        /\ h.encoder[s] = EncodeAudioFrame(g.encoder[s], setup.latency[ElementOf[s]], frame)
        /\ h.clock[s] = g.clock[s] + F /\ h.labeled[s] = <<>>
SameFor(s, g, h) ==
    /\ h.clock[s] = g.clock[s] /\ h.labeled[s] = g.labeled[s]
    /\ h.trimming[s] = g.trimming[s]
    /\ s \in DOMAIN g.data => h.data[s] = g.data[s]
    /\ s \in DOMAIN g.encoder => h.encoder[s] = g.encoder[s]
RoundOf(e, g, h) ==
    /\ h \in Gen /\ h.ok = g.ok
    /\ DOMAIN h.data = DOMAIN g.data /\ DOMAIN h.encoder = DOMAIN g.encoder
    /\ \A s \in Substreams \ SubstreamsOf(e) : SameFor(s, g, h)
    /\ \A s \in SubstreamsOf(e) : RoundFor(s, g, h)

LEMMA FrameOfIs ==
    ASSUME NEW g \in Gen, NEW s \in DOMAIN g.data,
           Len(g.data[s].inObu) >= F, Len(g.data[s].toEncode) >= F
    PROVE  /\ FrameOf(s, g) \in Frame /\ FrameOf(s, g).start = g.clock[s]
           /\ FrameOf(s, g).obu = FrontOf(g.data[s].inObu)
           /\ FrameOf(s, g).encoded = FrontOf(g.data[s].toEncode)
           /\ FrameOf(s, g).trimStart = AtMost(g.data[s].trimStart)
           /\ FrameOf(s, g).trimEnd = AtMost(g.data[s].trimEnd)
<1>1. g.data[s] \in Data /\ g.clock[s] \in Nat
  BY GenParts
<1>2. /\ g.data[s].inObu \in Seq(Nat) /\ g.data[s].toEncode \in Seq(Nat)
      /\ g.data[s].trimStart \in Nat /\ g.data[s].trimEnd \in Nat
  BY <1>1 DEF Data
<1>3. FrontOf(g.data[s].inObu) \in Seq(Nat) /\ FrontOf(g.data[s].toEncode) \in Seq(Nat)
  BY <1>2, FrontAndRest
<1>4. AtMost(g.data[s].trimStart) \in 0..F /\ AtMost(g.data[s].trimEnd) \in 0..F
  BY <1>2, AtMostIs
<1>. QED
  BY <1>1, <1>3, <1>4 DEF FrameOf, Frame

LEMMA FrontEncodedIs ==
    ASSUME NEW d \in Data, Len(d.inObu) >= F, Len(d.toEncode) >= F
    PROVE  /\ FrontEncoded(d) \in Data /\ FrontEncoded(d).inObu = WithoutFront(d.inObu)
           /\ FrontEncoded(d).toEncode = WithoutFront(d.toEncode)
           /\ FrontEncoded(d).trimStart = d.trimStart - AtMost(d.trimStart)
           /\ FrontEncoded(d).trimEnd = d.trimEnd - AtMost(d.trimEnd)
<1>1. /\ d.inObu \in Seq(Nat) /\ d.toEncode \in Seq(Nat)
      /\ d.trimStart \in Nat /\ d.trimEnd \in Nat
  BY DEF Data
<1>2. WithoutFront(d.inObu) \in Seq(Nat) /\ WithoutFront(d.toEncode) \in Seq(Nat)
  BY <1>1, FrontAndRest
<1>3. d.trimStart - AtMost(d.trimStart) \in Nat /\ d.trimEnd - AtMost(d.trimEnd) \in Nat
  BY <1>1, AtMostIs
<1>. QED
  BY <1>2, <1>3 DEF FrontEncoded, Data

LEMMA EncodeAudioFrameType ==
    ASSUME NEW n \in Encoder, NEW latency, NEW frame \in Frame
    PROVE  EncodeAudioFrame(n, latency, frame) \in Encoder
<1>1. n.held \in Seq(Frame) /\ n.queue \in Seq(Frame)
  BY DEF Encoder
<1>2. Append(n.queue, frame) \in Seq(Frame) /\ n.queue \o n.held \in Seq(Frame)
      /\ <<frame>> \in Seq(Frame)
  BY <1>1
<1>. QED
  BY <1>2 DEF EncodeAudioFrame, Encoder

(* h is n with a frame encoded of each substream in S.                         *)
FramesEncoded(e, n, S, h) ==
    /\ h \in Gen /\ h.ok = n.ok /\ h.trimming = n.trimming /\ S \subseteq SubstreamsOf(e)
    /\ DOMAIN h.data = DOMAIN n.data /\ DOMAIN h.encoder = DOMAIN n.encoder
    /\ \A s \in Substreams \ SubstreamsOf(e) : SameFor(s, n, h)
    /\ \A s \in SubstreamsOf(e) \ S :
          /\ h.data[s] = n.data[s] /\ h.encoder[s] = n.encoder[s]
          /\ h.clock[s] = n.clock[s] /\ h.labeled[s] = <<>>
    /\ \A s \in S :
          /\ Len(n.data[s].toEncode) >= F
          /\ FrameOf(s, n) \in Frame
          /\ h.data[s] = FrontEncoded(n.data[s])
          /\ h.encoder[s] = EncodeAudioFrame(n.encoder[s], setup.latency[e], FrameOf(s, n))
          /\ h.clock[s] = n.clock[s] + F /\ h.labeled[s] = <<>>

LEMMA EncodedIs ==
    ASSUME NEW e \in Elements, NEW n \in Gen, SubstreamsOf(e) \subseteq DOMAIN n.data,
           DOMAIN n.data \subseteq DOMAIN n.encoder,
           NEW S, S = WithFrame(e, n), NEW h, h = Encoded(e, n),
           \A s \in S : Len(n.data[s].inObu) >= F
    PROVE  FramesEncoded(e, n, S, h)
<1>. DEFINE newEncoder == [s \in S |-> EncodeAudioFrame(n.encoder[s], setup.latency[e], FrameOf(s, n))]
            newData == [s \in S |-> FrontEncoded(n.data[s])]
            newClock == [s \in S |-> n.clock[s] + F]
            newLabeled == [s \in SubstreamsOf(e) |-> <<>>]
<1>1. h = [n EXCEPT !.encoder = Updated(n.encoder, newEncoder), !.data = Updated(n.data, newData),
                    !.clock = Updated(n.clock, newClock), !.labeled = Updated(n.labeled, newLabeled)]
  BY Zenon DEF Encoded
<1>2. /\ S \subseteq SubstreamsOf(e) /\ SubstreamsOf(e) \subseteq Substreams
      /\ \A s \in S : Len(n.data[s].toEncode) >= F
  BY SubstreamsOfIs DEF WithFrame, WithSamples
<1>3. ASSUME NEW s \in S
      PROVE  /\ FrameOf(s, n) \in Frame /\ newData[s] \in Data /\ newEncoder[s] \in Encoder
             /\ newClock[s] \in Nat
  <2>1. s \in DOMAIN n.data /\ s \in DOMAIN n.encoder /\ s \in Substreams
    BY <1>2
  <2>2. n.data[s] \in Data /\ n.encoder[s] \in Encoder /\ n.clock[s] \in Nat
    BY <2>1, GenParts
  <2>3. FrameOf(s, n) \in Frame
    BY <1>2, <2>1, FrameOfIs
  <2>4. FrontEncoded(n.data[s]) \in Data
    BY <1>2, <2>2, FrontEncodedIs
  <2>5. newEncoder[s] \in Encoder
    BY <2>2, <2>3, EncodeAudioFrameType
  <2>. QED
    BY <2>2, <2>3, <2>4, <2>5, FAssumption
<1>4. /\ DOMAIN newEncoder = S /\ DOMAIN newData = S /\ DOMAIN newClock = S
      /\ DOMAIN newLabeled = SubstreamsOf(e)
      /\ \A s \in SubstreamsOf(e) : newLabeled[s] = <<>>
      /\ \A s \in S :
           /\ newEncoder[s] = EncodeAudioFrame(n.encoder[s], setup.latency[e], FrameOf(s, n))
           /\ newData[s] = FrontEncoded(n.data[s]) /\ newClock[s] = n.clock[s] + F
  OBVIOUS
<1>. HIDE DEF newEncoder, newData, newClock, newLabeled
<1>5. /\ h.encoder = Updated(n.encoder, newEncoder) /\ h.data = Updated(n.data, newData)
      /\ h.clock = Updated(n.clock, newClock) /\ h.labeled = Updated(n.labeled, newLabeled)
      /\ h.ok = n.ok /\ h.trimming = n.trimming
  BY <1>1 DEF Gen
<1>6. /\ h.encoder \in [DOMAIN n.encoder -> Encoder] /\ h.data \in [DOMAIN n.data -> Data]
      /\ h.clock \in [Substreams -> Nat]
      /\ h.labeled \in [Substreams -> Seq(Nat) \union {None}]
  <2>0. <<>> \in Seq(Nat) \union {None}
    OBVIOUS
  <2>1. Updated(n.encoder, newEncoder) \in [DOMAIN n.encoder -> Encoder]
    BY <1>3, <1>4, GenParts, UpdatedType
  <2>2. Updated(n.data, newData) \in [DOMAIN n.data -> Data]
    BY <1>3, <1>4, GenParts, UpdatedType
  <2>3. Updated(n.clock, newClock) \in [Substreams -> Nat]
    BY <1>3, <1>4, GenParts, UpdatedType
  <2>4. Updated(n.labeled, newLabeled) \in [Substreams -> Seq(Nat) \union {None}]
    <3>1. \A s \in DOMAIN newLabeled \intersect Substreams :
              newLabeled[s] \in Seq(Nat) \union {None}
      BY <1>4, <2>0
    <3>. QED
      BY <3>1, GenParts, UpdatedType
  <2>. QED
    BY <1>5, <2>1, <2>2, <2>3, <2>4
<1>7. h \in Gen
  <2>1. h.encoder \in PartialMaps(Encoder) /\ h.data \in PartialMaps(Data)
    BY <1>6, GenParts, IsPartialMap
  <2>. QED
    BY <1>1, <1>5, <1>6, <2>1, GenParts DEF Gen
<1>8. /\ \A s \in DOMAIN n.encoder : h.encoder[s] = IF s \in S THEN newEncoder[s] ELSE n.encoder[s]
      /\ \A s \in DOMAIN n.data : h.data[s] = IF s \in S THEN newData[s] ELSE n.data[s]
      /\ \A s \in Substreams : /\ h.clock[s] = IF s \in S THEN newClock[s] ELSE n.clock[s]
                               /\ h.labeled[s] = IF s \in SubstreamsOf(e) THEN <<>> ELSE n.labeled[s]
  <2>1. DOMAIN n.clock = Substreams /\ DOMAIN n.labeled = Substreams
    BY GenParts
  <2>. QED
    BY <1>4, <1>5, <2>1, UpdatedIs
<1>9. DOMAIN h.data = DOMAIN n.data /\ DOMAIN h.encoder = DOMAIN n.encoder
  BY <1>6
<1>10. \A s \in Substreams \ SubstreamsOf(e) : SameFor(s, n, h)
  BY <1>2, <1>5, <1>8 DEF SameFor
<1>11. \A s \in SubstreamsOf(e) : s \in DOMAIN n.data /\ s \in DOMAIN n.encoder /\ s \in Substreams
  BY <1>2
<1>. QED
  BY <1>2, <1>3, <1>4, <1>5, <1>7, <1>8, <1>9, <1>10, <1>11, Zenon DEF FramesEncoded

(* All substreams of e get a whole frame at the same time.                     *)
LEMMA PreparedLengths ==
    ASSUME NEW e \in Elements, NEW g, ReadyToEncode(e, g), NEW n, Prepared(e, g, n)
    PROVE  /\ \A s \in SubstreamsOf(e) : n.data[s] \in Data /\ Len(n.data[s].inObu) >= F
           /\ \A s, t \in SubstreamsOf(e) :
                 /\ Len(n.data[s].inObu) = Len(n.data[t].inObu)
                 /\ Len(n.data[s].toEncode) = Len(n.data[t].toEncode)
<1>1. ASSUME NEW s \in SubstreamsOf(e)
      PROVE  /\ n.data[s] \in Data /\ Len(n.data[s].inObu) >= F
             /\ Len(Mixed(g, s).inObu) \in Nat /\ Len(Mixed(g, s).toEncode) \in Nat
             /\ \E p, q \in Nat :
                  /\ Len(n.data[s].inObu) = Len(Mixed(g, s).inObu) + p
                  /\ Len(n.data[s].toEncode) = Len(Mixed(g, s).toEncode) + q
                  /\ p <= q /\ (p > 0 => Len(n.data[s].inObu) = F)
                  /\ (q > p => Len(n.data[s].toEncode) = F)
                  /\ IF NoSampleAdded(e, g) THEN Len(n.data[s].toEncode) >= F ELSE p = q
  <2>1. Mixed(g, s).inObu \in Seq(Nat) /\ Mixed(g, s).toEncode \in Seq(Nat)
    BY MixedIs DEF Data
  <2>2. PICK p, q \in Nat :
           /\ PadsTo(Mixed(g, s), n.data[s], p, q)
           /\ IF NoSampleAdded(e, g) THEN Len(n.data[s].toEncode) >= F ELSE p = q
    BY DEF Prepared
  <2>3. n.data[s] \in Data /\ Len(n.data[s].inObu) >= F
    <3>. DEFINE o == n.data[s].inObu
    <3>1. n.data[s] \in Data /\ F <= Len(o)
      BY <2>2 DEF PadsTo
    <3>2. o \in Seq(Nat)
      BY <3>1 DEF Data
    <3>. HIDE DEF o
    <3>3. Len(o) >= F
      BY <3>1, <3>2, FAssumption
    <3>. QED
      BY <3>1, <3>3 DEF o
  <2>. QED
    BY <2>1, <2>2, <2>3, LenProperties DEF PadsTo
<1>2. ASSUME NEW s \in SubstreamsOf(e), NEW t \in SubstreamsOf(e)
      PROVE  /\ Len(n.data[s].inObu) = Len(n.data[t].inObu)
             /\ Len(n.data[s].toEncode) = Len(n.data[t].toEncode)
  <2>. DEFINE so == Len(n.data[s].inObu)  si == Len(n.data[s].toEncode)
              to == Len(n.data[t].inObu)  ti == Len(n.data[t].toEncode)
              mo == Len(Mixed(g, s).inObu) mi == Len(Mixed(g, s).toEncode)
  <2>1. mo = Len(Mixed(g, t).inObu) /\ mi = Len(Mixed(g, t).toEncode)
    <3>1. /\ Len(g.labeled[s]) = Len(g.labeled[t])
          /\ Len(g.data[s].inObu) = Len(g.data[t].inObu)
          /\ Len(g.data[s].toEncode) = Len(g.data[t].toEncode)
      BY DEF ReadyToEncode
    <3>2. /\ Len(Mixed(g, s).inObu) = Len(g.data[s].inObu) + Len(g.labeled[s])
          /\ Len(Mixed(g, s).toEncode) = Len(g.data[s].toEncode) + Len(g.labeled[s])
      BY MixedIs
    <3>3. /\ Len(Mixed(g, t).inObu) = Len(g.data[t].inObu) + Len(g.labeled[t])
          /\ Len(Mixed(g, t).toEncode) = Len(g.data[t].toEncode) + Len(g.labeled[t])
      BY MixedIs
    <3>. QED
      BY <3>1, <3>2, <3>3
  <2>2. mo \in Nat /\ mi \in Nat /\ so >= F /\ to >= F
    BY <1>1
  <2>3. PICK p, q \in Nat :
          /\ so = mo + p /\ si = mi + q /\ p <= q /\ (p > 0 => so = F) /\ (q > p => si = F)
          /\ IF NoSampleAdded(e, g) THEN si >= F ELSE p = q
    BY <1>1, Zenon
  <2>4. PICK a, b \in Nat :
          /\ to = mo + a /\ ti = mi + b /\ a <= b /\ (a > 0 => to = F) /\ (b > a => ti = F)
          /\ IF NoSampleAdded(e, g) THEN ti >= F ELSE a = b
    BY <1>1, <2>1, ZenonT(40)
  <2>. HIDE DEF so, si, to, ti, mo, mi
  <2>5. p = a
    BY <2>2, <2>3, <2>4, FAssumption
  <2>6. q = b
    BY <2>2, <2>3, <2>4, <2>5, FAssumption
  <2>7. so = to /\ si = ti
    BY <2>3, <2>4, <2>5, <2>6
  <2>. QED
    BY <2>7 DEF so, si, to, ti
<1>. QED
  BY <1>1, <1>2

LEMMA AllOrNone ==
    ASSUME NEW e \in Elements, NEW g, ReadyToEncode(e, g), NEW n, Prepared(e, g, n)
    PROVE  /\ WithSamples(e, n) = SubstreamsOf(e)
           /\ \/ /\ WithFrame(e, n) = SubstreamsOf(e)
                 /\ \A s \in SubstreamsOf(e) : Len(n.data[s].toEncode) >= F
              \/ /\ WithFrame(e, n) = {} /\ ~NoSampleAdded(e, g)
<1>1. SubstreamsOf(e) # {} /\ SubstreamsOf(e) \subseteq DOMAIN n.data
  BY SubstreamsOfIs DEF ReadyToEncode, Prepared
<1>2. ASSUME NEW s \in SubstreamsOf(e) PROVE n.data[s].inObu # <<>>
  <2>1. Len(n.data[s].inObu) >= F
    BY PreparedLengths
  <2>2. Len(<<>>) = 0
    OBVIOUS
  <2>3. 0 >= F => FALSE
    BY FAssumption
  <2>. QED
    BY <2>1, <2>2, <2>3
<1>3. WithSamples(e, n) = SubstreamsOf(e)
  BY <1>1, <1>2 DEF WithSamples
<1>4. WithFrame(e, n) = {s \in SubstreamsOf(e) : Len(n.data[s].toEncode) >= F}
  BY <1>3 DEF WithFrame
<1>5. \A s, t \in SubstreamsOf(e) : Len(n.data[s].toEncode) = Len(n.data[t].toEncode)
  BY PreparedLengths
<1>6. CASE \E s \in SubstreamsOf(e) : Len(n.data[s].toEncode) >= F
  <2>1. \A s \in SubstreamsOf(e) : Len(n.data[s].toEncode) >= F
    BY <1>5, <1>6
  <2>2. WithFrame(e, n) = SubstreamsOf(e)
    BY <1>4, <2>1
  <2>. QED
    BY <1>3, <2>1, <2>2
<1>7. CASE ~\E s \in SubstreamsOf(e) : Len(n.data[s].toEncode) >= F
  <2>1. WithFrame(e, n) = {}
    BY <1>4, <1>7
  <2>2. ~NoSampleAdded(e, g)
    BY <1>1, <1>7 DEF Prepared
  <2>. QED
    BY <1>3, <2>1, <2>2
<1>. QED
  BY <1>6, <1>7

(* n is g with a whole frame in all substreams of e.                           *)
Filled(e, g, n) ==
    /\ n \in Gen /\ n.ok = g.ok /\ n.encoder = g.encoder /\ n.clock = g.clock
    /\ DOMAIN n.data = DOMAIN g.data
    /\ \A s \in DOMAIN g.data \ SubstreamsOf(e) : n.data[s] = g.data[s]
    /\ \A s \in Substreams \ SubstreamsOf(e) : n.labeled[s] = g.labeled[s]
    /\ \A s \in SubstreamsOf(e) :
           /\ Len(n.data[s].toEncode) >= F
           /\ \E p, q \in Nat : PadsTo(Mixed(g, s), n.data[s], p, q) /\ Charged(s, g, n, p)
    /\ \A s \in Substreams \ SubstreamsOf(e) : n.trimming[s] = g.trimming[s]

LEMMA FilledRound ==
    ASSUME NEW e \in Elements, NEW g, ReadyToEncode(e, g), NEW n, Filled(e, g, n)
    PROVE  RoundOf(e, g, Encoded(e, n))
<1>. DEFINE h == Encoded(e, n)
<1>1. /\ n \in Gen /\ SubstreamsOf(e) \subseteq DOMAIN n.data /\ DOMAIN n.data \subseteq DOMAIN n.encoder
      /\ SubstreamsOf(e) \subseteq Substreams
  BY SubstreamsOfIs DEF ReadyToEncode, Filled
<1>2. ASSUME NEW s \in SubstreamsOf(e)
      PROVE  /\ n.data[s] \in Data /\ Len(n.data[s].inObu) >= F /\ Len(n.data[s].toEncode) >= F
             /\ F <= Len(n.data[s].toEncode) /\ n.data[s].inObu # <<>>
  <2>1. PICK p, q \in Nat : PadsTo(Mixed(g, s), n.data[s], p, q)
    BY DEF Filled
  <2>2. n.data[s] \in Data /\ F <= Len(n.data[s].inObu)
    BY <2>1 DEF PadsTo
  <2>3. n.data[s].inObu \in Seq(Nat) /\ n.data[s].toEncode \in Seq(Nat)
    BY <2>2 DEF Data
  <2>4. Len(n.data[s].inObu) \in Nat /\ Len(n.data[s].toEncode) \in Nat
    BY <2>3
  <2>. DEFINE o == Len(n.data[s].inObu)  i == Len(n.data[s].toEncode)
  <2>5. i >= F
    BY DEF Filled
  <2>6. o >= F /\ F <= i /\ o # 0
    <3>. HIDE DEF i
    <3>1. F <= o /\ o \in Nat /\ i \in Nat
      BY <2>2, <2>4 DEF i
    <3>. HIDE DEF o
    <3>. QED
      BY <2>5, <3>1, FAssumption
  <2>7. n.data[s].inObu # <<>>
    <3>1. Len(<<>>) = 0
      OBVIOUS
    <3>. QED
      BY <2>6, <3>1
  <2>. QED
    BY <2>2, <2>5, <2>6, <2>7
<1>3. WithFrame(e, n) = SubstreamsOf(e)
  BY <1>1, <1>2 DEF WithFrame, WithSamples
<1>. HIDE DEF h
<1>4. /\ h \in Gen /\ h.ok = n.ok /\ h.trimming = n.trimming
      /\ DOMAIN h.data = DOMAIN n.data /\ DOMAIN h.encoder = DOMAIN n.encoder
      /\ \A s \in Substreams \ SubstreamsOf(e) : SameFor(s, n, h)
      /\ \A s \in SubstreamsOf(e) :
           /\ FrameOf(s, n) \in Frame
           /\ h.data[s] = FrontEncoded(n.data[s])
           /\ h.encoder[s] = EncodeAudioFrame(n.encoder[s], setup.latency[e], FrameOf(s, n))
           /\ h.clock[s] = n.clock[s] + F /\ h.labeled[s] = <<>>
  <2>. DEFINE S == WithFrame(e, n)
  <2>1. S = SubstreamsOf(e) /\ \A s \in S : Len(n.data[s].inObu) >= F
    BY <1>2, <1>3
  <2>2. h = Encoded(e, n)
    BY DEF h
  <2>. HIDE DEF S
  <2>. QED
    <3>1. FramesEncoded(e, n, S, h)
      BY <1>1, <2>1, <2>2, EncodedIs DEF S
    <3>. QED
      BY <2>1, <3>1 DEF FramesEncoded
<1>5. ASSUME NEW s \in SubstreamsOf(e) PROVE RoundFor(s, g, h)
  <2>1. PICK p, q \in Nat : PadsTo(Mixed(g, s), n.data[s], p, q) /\ Charged(s, g, n, p)
    BY DEF Filled
  <2>2. /\ FrameOf(s, n).start = n.clock[s] /\ FrameOf(s, n).obu = FrontOf(n.data[s].inObu)
        /\ FrameOf(s, n).encoded = FrontOf(n.data[s].toEncode)
        /\ FrameOf(s, n).trimStart = AtMost(n.data[s].trimStart)
        /\ FrameOf(s, n).trimEnd = AtMost(n.data[s].trimEnd)
    BY <1>1, <1>2, FrameOfIs
  <2>3. /\ h.data[s].inObu = WithoutFront(n.data[s].inObu)
        /\ h.data[s].toEncode = WithoutFront(n.data[s].toEncode)
        /\ h.data[s].trimStart = n.data[s].trimStart - AtMost(n.data[s].trimStart)
        /\ h.data[s].trimEnd = n.data[s].trimEnd - AtMost(n.data[s].trimEnd)
    BY <1>2, <1>4, FrontEncodedIs
  <2>4. ElementOf[s] = e
    BY DEF SubstreamsOf
  <2>5. n.clock = g.clock /\ n.encoder = g.encoder
    BY DEF Filled
  <2>6. Charged(s, g, h, p)
    BY <1>4, <2>1 DEF Charged
  <2>7. TrimsFront(n.data[s], FrameOf(s, n), h.data[s])
    BY <2>2, <2>3, Zenon DEF TrimsFront
  <2>. QED
    BY <1>2, <1>4, <2>1, <2>2, <2>3, <2>4, <2>5, <2>6, <2>7 DEF RoundFor
<1>6. \A s \in Substreams \ SubstreamsOf(e) : SameFor(s, g, h)
  BY <1>4 DEF SameFor, Filled
<1>7. RoundOf(e, g, h)
  BY <1>4, <1>5, <1>6 DEF RoundOf, Filled
<1>. QED
  BY <1>7 DEF h

(* The loop of MaybeEncodeFramesForAudioElement: the samples are padded in its *)
(* first iteration, what the codec gets perhaps once more in the second one.   *)
LEMMA SecondIteration ==
    ASSUME NEW e \in Elements, NEW g, ReadyToEncode(e, g), NEW n, Prepared(e, g, n),
           WithFrame(e, n) = {}, ~NoSampleAdded(e, g), NEW h, h = Encoded(e, n)
    PROVE  /\ ReadyToEncode(e, h) /\ NoSampleAdded(e, h) /\ h.clock = g.clock
           /\ WithSamples(e, h) # {}
           /\ \A s \in SubstreamsOf(e) : Len(Mixed(h, s).inObu) >= F
           /\ \A m : Prepared(e, h, m) => Filled(e, g, m)
<1>1. /\ n \in Gen /\ SubstreamsOf(e) \subseteq DOMAIN n.data /\ DOMAIN n.data \subseteq DOMAIN n.encoder
      /\ SubstreamsOf(e) \subseteq Substreams /\ n.ok = g.ok /\ g.ok
      /\ n.encoder = g.encoder /\ n.clock = g.clock /\ n.labeled = g.labeled
      /\ DOMAIN n.data = DOMAIN g.data
  BY SubstreamsOfIs DEF ReadyToEncode, Prepared
<1>2. /\ h \in Gen /\ h.ok = n.ok /\ h.trimming = n.trimming
      /\ DOMAIN h.data = DOMAIN n.data /\ DOMAIN h.encoder = DOMAIN n.encoder
      /\ \A s \in Substreams \ SubstreamsOf(e) : SameFor(s, n, h)
      /\ \A s \in SubstreamsOf(e) :
            /\ h.data[s] = n.data[s] /\ h.encoder[s] = n.encoder[s]
            /\ h.clock[s] = n.clock[s] /\ h.labeled[s] = <<>>
  <2>. DEFINE S == WithFrame(e, n)
  <2>1. S = {}
    OBVIOUS
  <2>2. \A s \in S : Len(n.data[s].inObu) >= F
    BY <2>1
  <2>3. FramesEncoded(e, n, S, h)
    BY <1>1, <2>2, EncodedIs
  <2>. HIDE DEF S
  <2>. QED
    BY <2>1, <2>3 DEF FramesEncoded
<1>3. h.clock = n.clock /\ h.encoder = n.encoder
  <2>1. h.clock \in [Substreams -> Nat] /\ n.clock \in [Substreams -> Nat]
    BY <1>1, <1>2, GenParts
  <2>2. \A s \in Substreams : h.clock[s] = n.clock[s]
    BY <1>2 DEF SameFor
  <2>3. /\ h.encoder \in [DOMAIN h.encoder -> Encoder] /\ DOMAIN h.encoder \subseteq Substreams
        /\ n.encoder \in [DOMAIN n.encoder -> Encoder]
    BY <1>1, <1>2, GenParts
  <2>4. \A s \in DOMAIN h.encoder : h.encoder[s] = n.encoder[s]
    BY <1>2, <2>3 DEF SameFor
  <2>. QED
    BY <1>2, <2>1, <2>2, <2>3, <2>4
<1>4. /\ \A s \in SubstreamsOf(e) : n.data[s] \in Data /\ Len(n.data[s].inObu) >= F
      /\ \A s, t \in SubstreamsOf(e) :
            /\ Len(n.data[s].inObu) = Len(n.data[t].inObu)
            /\ Len(n.data[s].toEncode) = Len(n.data[t].toEncode)
  BY PreparedLengths
<1>5. \A s \in SubstreamsOf(e) : n.data[s].inObu # <<>>
  <2>1. Len(<<>>) = 0 /\ ~(0 >= F)
    BY FAssumption
  <2>. QED
    BY <1>4, <2>1
<1>6. ReadyToEncode(e, h)
  <2>1. <<>> \in Seq(Nat)
    OBVIOUS
  <2>2. /\ h.ok /\ SubstreamsOf(e) \subseteq DOMAIN h.data
        /\ DOMAIN h.data \subseteq DOMAIN h.encoder
        /\ \A s \in SubstreamsOf(e) : h.labeled[s] = <<>> /\ h.data[s] = n.data[s]
    BY <1>1, <1>2
  <2>3. \A s, t \in SubstreamsOf(e) :
           /\ Len(h.labeled[s]) = Len(h.labeled[t])
           /\ Len(h.data[s].inObu) = Len(h.data[t].inObu)
           /\ Len(h.data[s].toEncode) = Len(h.data[t].toEncode)
    BY <1>4, <2>2
  <2>4. \A s \in SubstreamsOf(e) : h.data[s].inObu # <<>> /\ h.labeled[s] \in Seq(Nat)
    BY <1>5, <2>1, <2>2
  <2>. QED
    BY <1>2, <2>2, <2>3, <2>4, Zenon DEF ReadyToEncode
<1>7. NoSampleAdded(e, h)
  BY <1>2 DEF NoSampleAdded
<1>8. WithSamples(e, h) # {}
  <2>1. PICK s \in SubstreamsOf(e) : TRUE
    BY SubstreamsOfIs
  <2>2. s \in WithSamples(e, h)
    BY <1>1, <1>2, <1>5, <2>1 DEF WithSamples
  <2>. QED
    BY <2>2
<1>9. ASSUME NEW s \in SubstreamsOf(e)
      PROVE  /\ Mixed(h, s).inObu = n.data[s].inObu /\ Mixed(h, s).toEncode = n.data[s].toEncode
             /\ n.data[s].inObu \in Seq(Nat) /\ n.data[s].toEncode \in Seq(Nat)
  <2>1. /\ Mixed(h, s).inObu = h.data[s].inObu \o h.labeled[s]
        /\ Mixed(h, s).toEncode = h.data[s].toEncode \o h.labeled[s]
    BY <1>6, MixedIs
  <2>2. n.data[s].inObu \in Seq(Nat) /\ n.data[s].toEncode \in Seq(Nat)
    BY <1>4 DEF Data
  <2>3. \A q \in Seq(Nat) : q \o <<>> = q
    BY NoZeros
  <2>4. h.data[s] = n.data[s] /\ h.labeled[s] = <<>>
    BY <1>2
  <2>. QED
    BY <2>1, <2>2, <2>3, <2>4, Zenon
<1>10. ASSUME NEW m, Prepared(e, h, m), NEW s \in SubstreamsOf(e)
       PROVE  /\ Len(m.data[s].toEncode) >= F
              /\ \E p, q \in Nat : PadsTo(Mixed(g, s), m.data[s], p, q) /\ Charged(s, g, m, p)
  <2>1. PICK p, q \in Nat : PadsTo(Mixed(g, s), n.data[s], p, q) /\ p = q /\ Charged(s, g, n, p)
    BY DEF Prepared
  <2>2. PICK pp, qq \in Nat : PadsTo(Mixed(h, s), m.data[s], pp, qq) /\ Charged(s, h, m, pp)
    BY <1>7, <1>10 DEF Prepared
  <2>3. Len(m.data[s].toEncode) >= F
    BY <1>7, <1>10 DEF Prepared
  <2>4. PICK d \in Data : d = Mixed(g, s)
    BY MixedIs
  <2>5. d.inObu \in Seq(Nat) /\ d.toEncode \in Seq(Nat)
    BY DEF Data
  <2>6. PICK o \in Seq(Nat), t \in Seq(Nat) :
          /\ o = n.data[s].inObu /\ t = n.data[s].toEncode
          /\ o = d.inObu \o Zeros(p) /\ t = d.toEncode \o Zeros(q)
          /\ Len(o) = Len(d.inObu) + p /\ Len(t) = Len(d.toEncode) + q
          /\ F <= Len(o) /\ (p > 0 => Len(o) = F) /\ p <= F
    BY <1>9, <2>1, <2>4 DEF PadsTo
  <2>7. PICK x \in Data :
          /\ x = m.data[s] /\ pp <= qq
          /\ x.inObu = o \o Zeros(pp) /\ x.toEncode = t \o Zeros(qq)
          /\ Len(x.inObu) = Len(o) + pp /\ Len(x.toEncode) = Len(t) + qq
          /\ F <= Len(x.inObu) /\ (pp > 0 => Len(x.inObu) = F)
          /\ (qq > pp => Len(x.toEncode) = F)
    BY <1>9, <2>2, <2>6 DEF PadsTo
  <2>8. pp = 0
    <3>. DEFINE lo == Len(o)  lx == Len(x.inObu)
    <3>1. lo \in Nat /\ lx = lo + pp /\ F <= lo /\ (pp > 0 => lx = F)
      BY <2>6, <2>7
    <3>. HIDE DEF lo, lx
    <3>. QED
      BY <3>1, FAssumption
  <2>9. x.inObu = d.inObu \o Zeros(p)
    <3>1. x.inObu = o \o Zeros(0)
      BY <2>7, <2>8, Zenon
    <3>2. o \o Zeros(0) = o
      BY NoZeros
    <3>. QED
      BY <2>6, <3>1, <3>2, Zenon
  <2>10. PICK r \in Nat : r = q + qq
    OBVIOUS
  <2>11. x.toEncode = d.toEncode \o Zeros(r)
    <3>1. (d.toEncode \o Zeros(q)) \o Zeros(qq) = d.toEncode \o Zeros(q + qq)
      BY <2>5, MoreZeros
    <3>. QED
      BY <2>6, <2>7, <2>10, <3>1, Zenon
  <2>12. /\ Len(x.inObu) = Len(d.inObu) + p /\ F <= Len(x.inObu)
         /\ p > 0 => Len(x.inObu) = F
    <3>1. x.inObu = o
      BY <2>6, <2>9
    <3>. QED
      BY <2>6, <3>1
  <2>13. /\ Len(x.toEncode) = Len(d.toEncode) + r /\ p <= r
         /\ r > p => Len(x.toEncode) = F
    <3>. DEFINE ld == Len(d.toEncode)  lt == Len(t)  lx == Len(x.toEncode)
    <3>1. /\ ld \in Nat /\ lt = ld + q /\ lx = lt + qq /\ (qq > pp => lx = F)
          /\ p = q /\ r = q + qq /\ pp = 0
      BY <2>1, <2>5, <2>6, <2>7, <2>8, <2>10
    <3>2. lx = ld + r /\ p <= r /\ (r > p => lx = F)
      <4>. HIDE DEF ld, lt, lx
      <4>. QED
        BY <3>1
    <3>. QED
      BY <3>2
  <2>14. x.trimStart = d.trimStart /\ x.trimEnd = IF p > 0 THEN p ELSE d.trimEnd
    <3>1. x.trimStart = Mixed(h, s).trimStart /\ x.trimEnd = Mixed(h, s).trimEnd
      BY <2>2, <2>7, <2>8 DEF PadsTo
    <3>2. /\ Mixed(h, s).trimStart = h.data[s].trimStart
          /\ Mixed(h, s).trimEnd = h.data[s].trimEnd
      BY <1>6, MixedIs
    <3>3. /\ n.data[s].trimStart = d.trimStart
          /\ n.data[s].trimEnd = IF p > 0 THEN p ELSE d.trimEnd
      BY <2>1, <2>4, Zenon DEF PadsTo
    <3>. QED
      BY <1>2, <3>1, <3>2, <3>3, Zenon
  <2>15. PadsTo(d, x, p, r)
    BY <2>6, <2>9, <2>11, <2>12, <2>13, <2>14 DEF PadsTo
  <2>16. Charged(s, g, m, p)
    <3>1. PICK tr \in Trimming : tr = n.trimming[s]
      BY <1>1, GenParts
    <3>2. m.trimming[s] = [tr EXCEPT !.endLeft = TrimLeftAfterPadding(@, 0)]
      BY <1>2, <2>2, <2>8, <3>1 DEF Charged
    <3>3. TrimLeftAfterPadding(tr.endLeft, 0) = tr.endLeft
      BY DEF TrimLeftAfterPadding, Trimming
    <3>4. m.trimming[s] = n.trimming[s]
      BY <3>1, <3>2, <3>3 DEF Trimming
    <3>. QED
      BY <2>1, <3>4, Zenon DEF Charged
  <2>. QED
    BY <2>3, <2>4, <2>7, <2>15, <2>16
<1>11. ASSUME NEW m, Prepared(e, h, m) PROVE Filled(e, g, m)
  <2>1. /\ m \in Gen /\ m.ok = h.ok /\ m.encoder = h.encoder /\ m.clock = h.clock
        /\ m.labeled = h.labeled /\ DOMAIN m.data = DOMAIN h.data
        /\ \A s \in DOMAIN h.data \ SubstreamsOf(e) : m.data[s] = h.data[s]
    BY <1>11 DEF Prepared
  <2>2. \A s \in DOMAIN g.data \ SubstreamsOf(e) : h.data[s] = g.data[s]
    <3>1. DOMAIN g.data \subseteq Substreams
      BY GenParts DEF ReadyToEncode
    <3>. QED
      BY <1>1, <1>2, <3>1 DEF SameFor, Prepared
  <2>3. \A s \in Substreams \ SubstreamsOf(e) : h.labeled[s] = g.labeled[s]
    BY <1>1, <1>2 DEF SameFor
  <2>4. \A s \in SubstreamsOf(e) :
           /\ Len(m.data[s].toEncode) >= F
           /\ \E p, q \in Nat : PadsTo(Mixed(g, s), m.data[s], p, q) /\ Charged(s, g, m, p)
    BY <1>10, <1>11
  <2>5. \A s \in Substreams \ SubstreamsOf(e) : m.trimming[s] = g.trimming[s]
    BY <1>2, <1>11 DEF Prepared
  <2>. QED
    BY <1>1, <1>2, <1>3, <2>1, <2>2, <2>3, <2>4, <2>5 DEF Filled
<1>. QED
  BY <1>1, <1>3, <1>6, <1>7, <1>8, <1>9, <1>4, <1>11

LEMMA EncodesARound ==
    ASSUME NEW e \in Elements, NEW g, ReadyToEncode(e, g)
    PROVE  \/ /\ MaybeEncodeFramesForAudioElement(e, g) = Failed(g)
              /\ \E s \in SubstreamsOf(e) : PadIsRefused(s, g)
           \/ RoundOf(e, g, MaybeEncodeFramesForAudioElement(e, g))
<1>. DEFINE once == Iteration(e, g)  result == MaybeEncodeFramesForAudioElement(e, g)
            n == GetNextFrameSubstreamData(e, g)
<1>1. SamplesReadyForAudioElement(e, g) /\ g \in Gen /\ g.ok
  BY NoneAssumption DEF SamplesReadyForAudioElement, ReadyToEncode
<1>2. result = IF once.ok /\ once.clock = g.clock /\ WithSamples(e, once) # {}
               THEN Iteration(e, once) ELSE once
  BY <1>1 DEF MaybeEncodeFramesForAudioElement
<1>3. once = IF n.ok THEN Encoded(e, n) ELSE n
  BY DEF Iteration
<1>4. CASE n = Failed(g) /\ \E s \in SubstreamsOf(e) : PadIsRefused(s, g)
  <2>1. ~n.ok
    BY <1>1, <1>4 DEF Failed, Gen
  <2>. HIDE DEF n
  <2>2. ~once.ok /\ once = n
    BY <1>3, <2>1
  <2>. HIDE DEF once
  <2>3. result = n
    BY <1>2, <2>2
  <2>. QED
    BY <1>4, <2>3
<1>5. CASE Prepared(e, g, n)
  <2>1. Prepared(e, g, n)
    BY <1>5
  <2>. HIDE DEF n
  <2>2. n.ok
    BY <1>1, <2>1 DEF Prepared
  <2>3. once = Encoded(e, n)
    BY <1>3, <2>2
  <2>4. CASE WithFrame(e, n) = SubstreamsOf(e) /\ \A s \in SubstreamsOf(e) : Len(n.data[s].toEncode) >= F
    <3>1. Filled(e, g, n)
      BY <2>1, <2>4 DEF Prepared, Filled
    <3>2. RoundOf(e, g, once)
      BY <2>3, <3>1, FilledRound
    <3>. HIDE DEF once
    <3>3. once.clock # g.clock
      <4>1. PICK s \in SubstreamsOf(e) : TRUE
        BY SubstreamsOfIs
      <4>2. once.clock[s] = g.clock[s] + F
        BY <3>2, <4>1 DEF RoundOf, RoundFor
      <4>3. g.clock[s] \in Nat
        BY <1>1, <4>1, GenParts, SubstreamsOfIs
      <4>4. once.clock[s] # g.clock[s]
        BY <4>2, <4>3, FAssumption
      <4>. QED
        BY <4>4
    <3>4. result = once
      BY <1>2, <3>3
    <3>. QED
      BY <3>2, <3>4
  <2>5. CASE WithFrame(e, n) = {} /\ ~NoSampleAdded(e, g)
    <3>. HIDE DEF once
    <3>1. /\ ReadyToEncode(e, once) /\ NoSampleAdded(e, once) /\ once.clock = g.clock
          /\ WithSamples(e, once) # {}
          /\ \A s \in SubstreamsOf(e) : Len(Mixed(once, s).inObu) >= F
          /\ \A m : Prepared(e, once, m) => Filled(e, g, m)
      BY <2>1, <2>3, <2>5, SecondIteration
    <3>2. once.ok
      BY <3>1 DEF ReadyToEncode
    <3>3. result = Iteration(e, once)
      BY <1>2, <3>1, <3>2
    <3>. DEFINE m == GetNextFrameSubstreamData(e, once)
    <3>4. \A s \in SubstreamsOf(e) : ~(Len(Mixed(once, s).inObu) < F)
      <4>. TAKE s \in SubstreamsOf(e)
      <4>1. Mixed(once, s).inObu \in Seq(Nat)
        BY <3>1, MixedIs DEF Data
      <4>2. Len(Mixed(once, s).inObu) \in Nat /\ Len(Mixed(once, s).inObu) >= F
        BY <3>1, <4>1
      <4>. QED
        BY <4>2, FAssumption
    <3>5. Prepared(e, once, m)
      BY <3>1, <3>4, NextFrameData
    <3>. HIDE DEF m
    <3>6. m.ok
      BY <3>2, <3>5 DEF Prepared
    <3>7. Iteration(e, once) = Encoded(e, m)
      BY <3>6 DEF Iteration, m
    <3>8. Filled(e, g, m)
      BY <3>1, <3>5
    <3>. QED
      BY <3>3, <3>7, <3>8, FilledRound
  <2>. QED
    BY <2>1, <2>4, <2>5, AllOrNone
<1>. QED
  BY <1>4, <1>5, NextFrameData

(* What a round does to the frames and the samples of a substream.             *)
LEMMA FramesType ==
    ASSUME NEW g \in Gen, NEW out \in Seq([Substreams -> Frame]), NEW s \in Substreams
    PROVE  /\ FramesIn(g, out, s) \in Seq(Frame)
           /\ [k \in DOMAIN out |-> out[k][s]] \in Seq(Frame)
           /\ InsideOf(g, s) \in Seq(Frame)
           /\ Obus(g, out, s) \in Seq(Seq(Nat)) /\ Inputs(g, out, s) \in Seq(Seq(Nat))
           /\ LeftObu(g, s) \in Seq(Nat) /\ LeftInput(g, s) \in Seq(Nat)
<1>0. \A a, b \in Seq(Frame) : a \o b \in Seq(Frame)
  BY ConcatProperties
<1>1. [k \in DOMAIN out |-> out[k][s]] \in Seq(Frame)
  OBVIOUS
<1>2. InsideOf(g, s) \in Seq(Frame)
  <2>1. CASE s \in DOMAIN g.encoder
    <3>1. g.encoder[s] \in Encoder
      BY <2>1, GenParts
    <3>2. g.encoder[s].queue \in Seq(Frame) /\ g.encoder[s].held \in Seq(Frame)
      BY <3>1 DEF Encoder
    <3>. QED
      BY <1>0, <2>1, <3>2 DEF InsideOf
  <2>2. CASE s \notin DOMAIN g.encoder
    BY <2>2 DEF InsideOf
  <2>. QED
    BY <2>1, <2>2
<1>3. FramesIn(g, out, s) \in Seq(Frame)
  BY <1>0, <1>1, <1>2 DEF FramesIn
<1>4. ASSUME NEW q \in Seq(Frame)
      PROVE  /\ [k \in DOMAIN q |-> q[k].obu] \in Seq(Seq(Nat))
             /\ [k \in DOMAIN q |-> q[k].encoded] \in Seq(Seq(Nat))
  <2>0. \A k \in 1..Len(q) : q[k] \in Frame
    OBVIOUS
  <2>1. \A k \in 1..Len(q) : q[k].obu \in Seq(Nat) /\ q[k].encoded \in Seq(Nat)
    BY <2>0 DEF Frame
  <2>2. DOMAIN q = 1..Len(q) /\ Len(q) \in Nat
    OBVIOUS
  <2>. QED
    BY <2>1, <2>2
<1>5. Obus(g, out, s) \in Seq(Seq(Nat)) /\ Inputs(g, out, s) \in Seq(Seq(Nat))
  BY <1>3, <1>4 DEF Obus, Inputs
<1>6. LeftObu(g, s) \in Seq(Nat) /\ LeftInput(g, s) \in Seq(Nat)
  <2>1. CASE s \in DOMAIN g.data
    <3>1. g.data[s] \in Data
      BY <2>1, GenParts
    <3>. QED
      BY <2>1, <3>1 DEF Data, LeftObu, LeftInput
  <2>2. CASE s \notin DOMAIN g.data
    BY <2>2 DEF LeftObu, LeftInput
  <2>. QED
    BY <2>1, <2>2
<1>. QED
  BY <1>1, <1>2, <1>3, <1>5, <1>6

LEMMA ConcatNumbers ==
    /\ \A a, b \in Seq(Nat) : a \o b \in Seq(Nat) /\ Len(a \o b) = Len(a) + Len(b)
    /\ \A a, b, c \in Seq(Nat) : (a \o b) \o c = a \o (b \o c)
<1>1. \A a, b \in Seq(Nat) : a \o b \in Seq(Nat) /\ Len(a \o b) = Len(a) + Len(b)
  BY ConcatProperties
<1>2. \A a, b, c \in Seq(Nat) : (a \o b) \o c = a \o (b \o c)
  BY ConcatAssociative, SMTT(30)
<1>. QED
  BY <1>1, <1>2

(* u and v are front and rest of d, c and z.                                   *)
FrontMoves(before, d, c, z, u, v) ==
    u \o v = (d \o c) \o z => (before \o u) \o v = ((before \o d) \o c) \o z

LEMMA MoveFront ==
    ASSUME NEW before \in Seq(Nat), NEW d \in Seq(Nat), NEW c \in Seq(Nat), NEW z \in Seq(Nat),
           NEW u \in Seq(Nat), NEW v \in Seq(Nat)
    PROVE  FrontMoves(before, d, c, z, u, v)
<1>1. d \o c \in Seq(Nat)
  BY ConcatNumbers, Zenon
<1>2. \A w \in Seq(Nat) : (before \o w) \o z = before \o (w \o z)
  BY ConcatNumbers, ZenonT(40)
<1>3. (before \o d) \o c = before \o (d \o c)
  BY ConcatNumbers, ZenonT(40)
<1>4. (before \o (d \o c)) \o z = before \o ((d \o c) \o z)
  BY <1>1, <1>2, Zenon
<1>5. (before \o u) \o v = before \o (u \o v)
  BY ConcatNumbers, ZenonT(40)
<1>. QED
  BY <1>3, <1>4, <1>5, Zenon DEF FrontMoves

RoundEffect(s, g, h, out) ==
    \E x \in Data, p, q \in Nat, frame \in Frame :
        /\ PadsTo(Mixed(g, s), x, p, q) /\ F <= Len(x.toEncode)
        /\ Charged(s, g, h, p) /\ TrimsFront(x, frame, h.data[s])
        /\ frame.start = g.clock[s] /\ Len(frame.obu) = F
        /\ FramesIn(h, out, s) = Append(FramesIn(g, out, s), frame)
        /\ LeftObu(h, s) = WithoutFront(x.inObu) /\ LeftInput(h, s) = WithoutFront(x.toEncode)
        /\ ObuSamplesIn(h, out, s) = (ObuSamplesIn(g, out, s) \o g.labeled[s]) \o Zeros(p)
        /\ EncoderInputIn(h, out, s) = (EncoderInputIn(g, out, s) \o g.labeled[s]) \o Zeros(q)
        /\ h.clock[s] = g.clock[s] + F /\ h.labeled[s] = <<>>
        /\ h.encoder[s].finished = g.encoder[s].finished
        /\ setup.latency[ElementOf[s]] = 0 => h.encoder[s].held = <<>>

LEMMA RoundHasEffect ==
    ASSUME NEW g, GenOK(g), NEW out \in Seq([Substreams -> Frame]), NEW e \in Elements,
           ReadyToEncode(e, g), NEW h, RoundOf(e, g, h), NEW s \in SubstreamsOf(e)
    PROVE  RoundEffect(s, g, h, out)
<1>1. /\ s \in Substreams /\ s \in DOMAIN g.data /\ s \in DOMAIN g.encoder
      /\ s \in DOMAIN h.data /\ s \in DOMAIN h.encoder /\ g \in Gen /\ h \in Gen
  BY SubstreamsOfIs DEF ReadyToEncode, RoundOf
<1>2. PICK x \in Data, p, q \in Nat, frame \in Frame :
        /\ PadsTo(Mixed(g, s), x, p, q) /\ F <= Len(x.toEncode) /\ Charged(s, g, h, p)
        /\ TrimsFront(x, frame, h.data[s])
        /\ frame.start = g.clock[s]
        /\ frame.obu = FrontOf(x.inObu) /\ frame.encoded = FrontOf(x.toEncode)
        /\ h.data[s].inObu = WithoutFront(x.inObu)
        /\ h.data[s].toEncode = WithoutFront(x.toEncode)
        /\ h.encoder[s] = EncodeAudioFrame(g.encoder[s], setup.latency[ElementOf[s]], frame)
        /\ h.clock[s] = g.clock[s] + F /\ h.labeled[s] = <<>>
  BY DEF RoundOf, RoundFor
<1>3. PICK n \in Encoder : n = g.encoder[s]
  BY <1>1, GenParts
<1>4. n.queue \in Seq(Frame) /\ n.held \in Seq(Frame)
  BY DEF Encoder
<1>5. \A a, b, y \in Seq(Frame) : (a \o b) \o y = a \o (b \o y)
  BY ConcatAssociative
<1>6. \A a \in Seq(Frame) : a \o <<>> = a /\ a \o <<frame>> = Append(a, frame)
  OBVIOUS
<1>7. /\ h.encoder[s].finished = n.finished
      /\ setup.latency[ElementOf[s]] = 0 => h.encoder[s].held = <<>>
      /\ h.encoder[s].queue \o h.encoder[s].held = Append(n.queue \o n.held, frame)
  <2>1. CASE setup.latency[ElementOf[s]] = 0
    <3>1. n.held = <<>>
      BY <1>1, <1>3, <2>1 DEF GenOK
    <3>2. h.encoder[s] = [n EXCEPT !.queue = Append(n.queue, frame)]
      BY <1>2, <1>3, <2>1 DEF EncodeAudioFrame
    <3>3. /\ h.encoder[s].queue = Append(n.queue, frame) /\ h.encoder[s].held = <<>>
          /\ h.encoder[s].finished = n.finished
      BY <3>1, <3>2 DEF Encoder
    <3>4. Append(n.queue, frame) \in Seq(Frame)
      BY <1>4
    <3>. QED
      BY <1>4, <1>6, <3>1, <3>3, <3>4
  <2>2. CASE setup.latency[ElementOf[s]] # 0
    <3>1. h.encoder[s] = [n EXCEPT !.queue = n.queue \o n.held, !.held = <<frame>>]
      BY <1>2, <1>3, <2>2 DEF EncodeAudioFrame
    <3>2. /\ h.encoder[s].queue = n.queue \o n.held /\ h.encoder[s].held = <<frame>>
          /\ h.encoder[s].finished = n.finished
      BY <3>1 DEF Encoder
    <3>3. n.queue \o n.held \in Seq(Frame)
      BY <1>4, ConcatProperties
    <3>. QED
      BY <1>6, <2>2, <3>2, <3>3
  <2>. QED
    BY <2>1, <2>2
<1>8. FramesIn(h, out, s) = Append(FramesIn(g, out, s), frame)
  <2>1. InsideOf(h, s) = InsideOf(g, s) \o <<frame>>
    <3>1. n.queue \o n.held \in Seq(Frame)
      BY <1>4, ConcatProperties
    <3>. QED
      BY <1>1, <1>3, <1>6, <1>7, <3>1 DEF InsideOf
  <2>. DEFINE old == [k \in DOMAIN out |-> out[k][s]]
  <2>2. old \in Seq(Frame) /\ InsideOf(g, s) \in Seq(Frame) /\ FramesIn(g, out, s) \in Seq(Frame)
    BY <1>1, FramesType
  <2>3. FramesIn(h, out, s) = old \o InsideOf(h, s) /\ FramesIn(g, out, s) = old \o InsideOf(g, s)
    BY DEF FramesIn
  <2>. HIDE DEF old
  <2>4. <<frame>> \in Seq(Frame)
    OBVIOUS
  <2>5. old \o (InsideOf(g, s) \o <<frame>>) = (old \o InsideOf(g, s)) \o <<frame>>
    BY <1>5, <2>2, <2>4, Zenon
  <2>. QED
    BY <1>6, <2>1, <2>2, <2>3, <2>5
<1>9. LeftObu(h, s) = WithoutFront(x.inObu) /\ LeftInput(h, s) = WithoutFront(x.toEncode)
  BY <1>1, <1>2 DEF LeftObu, LeftInput
<1>10. PICK c \in Seq(Nat) : c = g.labeled[s]
  BY DEF ReadyToEncode
<1>11. PICK do \in Seq(Nat), di \in Seq(Nat) :
          /\ do = g.data[s].inObu /\ di = g.data[s].toEncode
          /\ do = LeftObu(g, s) /\ di = LeftInput(g, s)
          /\ x.inObu = (do \o c) \o Zeros(p) /\ x.toEncode = (di \o c) \o Zeros(q)
  <2>1. g.data[s].inObu \in Seq(Nat) /\ g.data[s].toEncode \in Seq(Nat)
    BY MixedIs DEF Data
  <2>2. /\ Mixed(g, s).inObu = g.data[s].inObu \o g.labeled[s]
        /\ Mixed(g, s).toEncode = g.data[s].toEncode \o g.labeled[s]
    BY MixedIs
  <2>. QED
    BY <1>1, <1>2, <1>10, <2>1, <2>2 DEF PadsTo, LeftObu, LeftInput
<1>12. x.inObu \in Seq(Nat) /\ x.toEncode \in Seq(Nat) /\ Len(x.inObu) >= F /\ Len(x.toEncode) >= F
  <2>1. x.inObu \in Seq(Nat) /\ x.toEncode \in Seq(Nat)
    BY DEF Data
  <2>2. F <= Len(x.inObu) /\ F <= Len(x.toEncode)
    BY <1>2 DEF PadsTo
  <2>3. Len(x.inObu) \in Nat /\ Len(x.toEncode) \in Nat
    BY <2>1
  <2>. QED
    BY <2>1, <2>2, <2>3, FAssumption
<1>13. /\ FrontOf(x.inObu) \in Seq(Nat) /\ FrontOf(x.toEncode) \in Seq(Nat)
       /\ Len(FrontOf(x.inObu)) = F
  BY <1>12, FrontAndRest
<1>14. /\ Obus(h, out, s) = Append(Obus(g, out, s), FrontOf(x.inObu))
       /\ Inputs(h, out, s) = Append(Inputs(g, out, s), FrontOf(x.toEncode))
  <2>. DEFINE k == FramesIn(g, out, s)
  <2>1. k \in Seq(Frame) /\ FramesIn(h, out, s) = Append(k, frame)
    BY <1>1, <1>8, FramesType
  <2>2. /\ Obus(h, out, s) = [j \in DOMAIN Append(k, frame) |-> Append(k, frame)[j].obu]
        /\ Inputs(h, out, s) = [j \in DOMAIN Append(k, frame) |-> Append(k, frame)[j].encoded]
        /\ Obus(g, out, s) = [j \in DOMAIN k |-> k[j].obu]
        /\ Inputs(g, out, s) = [j \in DOMAIN k |-> k[j].encoded]
    BY <2>1 DEF Obus, Inputs
  <2>. HIDE DEF k
  <2>3. [j \in DOMAIN Append(k, frame) |-> Append(k, frame)[j].obu]
           = Append([j \in DOMAIN k |-> k[j].obu], frame.obu)
    BY <2>1
  <2>4. [j \in DOMAIN Append(k, frame) |-> Append(k, frame)[j].encoded]
           = Append([j \in DOMAIN k |-> k[j].encoded], frame.encoded)
    BY <2>1
  <2>. QED
    BY <1>2, <2>2, <2>3, <2>4
<1>15. PICK fo \in Seq(Nat), fi \in Seq(Nat) :
          fo = FlattenSeq(Obus(g, out, s)) /\ fi = FlattenSeq(Inputs(g, out, s))
  BY <1>1, FramesType, FlattenType
<1>16. /\ FlattenSeq(Obus(h, out, s)) = fo \o FrontOf(x.inObu)
       /\ FlattenSeq(Inputs(h, out, s)) = fi \o FrontOf(x.toEncode)
  <2>1. Obus(g, out, s) \in Seq(Seq(Nat)) /\ Inputs(g, out, s) \in Seq(Seq(Nat))
    BY <1>1, FramesType
  <2>. QED
    BY <1>13, <1>14, <1>15, <2>1, FlattenAppend
<1>17. Zeros(p) \in Seq(Nat) /\ Zeros(q) \in Seq(Nat)
  BY ZerosAre
<1>18. ObuSamplesIn(h, out, s) = (ObuSamplesIn(g, out, s) \o g.labeled[s]) \o Zeros(p)
  <2>0. PICK z, u, v \in Seq(Nat) :
           /\ z = Zeros(p) /\ u = FrontOf(x.inObu) /\ v = WithoutFront(x.inObu)
           /\ u \o v = x.inObu
    BY <1>12, <1>17, FrontAndRest
  <2>1. u \o v = (do \o c) \o z
    BY <1>11, <2>0
  <2>2. FrontMoves(fo, do, c, z, u, v)
    BY MoveFront
  <2>. QED
    BY <1>9, <1>10, <1>11, <1>15, <1>16, <2>0, <2>1, <2>2, Zenon DEF FrontMoves, ObuSamplesIn
<1>19. EncoderInputIn(h, out, s) = (EncoderInputIn(g, out, s) \o g.labeled[s]) \o Zeros(q)
  <2>0. PICK z, u, v \in Seq(Nat) :
           /\ z = Zeros(q) /\ u = FrontOf(x.toEncode) /\ v = WithoutFront(x.toEncode)
           /\ u \o v = x.toEncode
    BY <1>12, <1>17, FrontAndRest
  <2>1. u \o v = (di \o c) \o z
    BY <1>11, <2>0
  <2>2. FrontMoves(fi, di, c, z, u, v)
    BY MoveFront
  <2>. QED
    BY <1>9, <1>10, <1>11, <1>15, <1>16, <2>0, <2>1, <2>2, Zenon DEF FrontMoves, EncoderInputIn
<1>. QED
  BY <1>2, <1>3, <1>7, <1>8, <1>9, <1>13, <1>18, <1>19, Zenon DEF RoundEffect

(* A round keeps the invariant.                                                *)
RoundNumbers(lo, li, lc, lx, ly, p, q) ==
    /\ lo \in Nat /\ li \in Nat /\ lc \in Nat
    /\ lx = lo + lc + p /\ ly = li + lc + q
    /\ F <= lx /\ (p > 0 => lx = F) /\ p <= q /\ (q > p => ly = F)

LEMMA RoundLengths ==
    ASSUME NEW e \in Elements, NEW g, ReadyToEncode(e, g), NEW s \in SubstreamsOf(e),
           NEW x, NEW p \in Nat, NEW q \in Nat, PadsTo(Mixed(g, s), x, p, q)
    PROVE  RoundNumbers(Len(g.data[s].inObu), Len(g.data[s].toEncode), Len(g.labeled[s]),
                        Len(x.inObu), Len(x.toEncode), p, q)
<1>1. s \in DOMAIN g.data /\ g.labeled[s] \in Seq(Nat) /\ g \in Gen
  BY DEF ReadyToEncode
<1>2. PICK d \in Data : d = g.data[s]
  BY <1>1, GenParts
<1>3. PICK lo, li, lc \in Nat :
         lo = Len(d.inObu) /\ li = Len(d.toEncode) /\ lc = Len(g.labeled[s])
  BY <1>1 DEF Data
<1>4. PICK mo, mi : mo = Len(Mixed(g, s).inObu) /\ mi = Len(Mixed(g, s).toEncode)
  OBVIOUS
<1>5. PICK lx, ly : lx = Len(x.inObu) /\ ly = Len(x.toEncode)
  OBVIOUS
<1>6. mo = lo + lc /\ mi = li + lc
  BY <1>2, <1>3, <1>4, MixedIs
<1>7. lx = mo + p /\ ly = mi + q /\ F <= lx /\ (p > 0 => lx = F) /\ p <= q /\ (q > p => ly = F)
  BY <1>4, <1>5 DEF PadsTo
<1>8. RoundNumbers(lo, li, lc, lx, ly, p, q)
  BY <1>6, <1>7 DEF RoundNumbers
<1>. QED
  BY <1>2, <1>3, <1>5, <1>8, Zenon

LEMMA RoundKeepsSamples ==
    ASSUME SetupOK, NEW e \in Elements, NEW g, ReadyToEncode(e, g), NEW s \in SubstreamsOf(e),
           NEW out \in Seq([Substreams -> Frame]), NEW h, RoundEffect(s, g, h, out), NEW r, NEW k,
           SamplesOK(r, setup.delay[ElementOf[s]], ObuSamplesIn(g, out, s),
                     EncoderInputIn(g, out, s), LeftObu(g, s)),
           \/ g.labeled[s] = Chunk(k) /\ k = r + 1 /\ k \in 1..Len(setup.chunks)
           \/ /\ g.labeled[s] = <<>> /\ k = r /\ k = Len(setup.chunks)
              /\ LeftObu(g, s) # <<>>
    PROVE  SamplesOK(k, setup.delay[ElementOf[s]], ObuSamplesIn(h, out, s),
                     EncoderInputIn(h, out, s), LeftObu(h, s))
<1>1. PICK x \in Data, p, q \in Nat :
        /\ PadsTo(Mixed(g, s), x, p, q) /\ LeftObu(h, s) = WithoutFront(x.inObu)
        /\ ObuSamplesIn(h, out, s) = (ObuSamplesIn(g, out, s) \o g.labeled[s]) \o Zeros(p)
        /\ EncoderInputIn(h, out, s) = (EncoderInputIn(g, out, s) \o g.labeled[s]) \o Zeros(q)
  BY DEF RoundEffect
<1>2. PICK N \in Nat : N = Len(setup.chunks)
  BY DEF SetupOK, Setup
<1>3. ElementOf[s] = e
  BY DEF SubstreamsOf
<1>4. D \in Nat /\ setup.delay[ElementOf[s]] \in 0..D
  BY <1>3, DelayIs
<1>5. PICK front \in Nat : front = D - setup.delay[ElementOf[s]]
  BY <1>4
<1>6. /\ Added \in [0..N -> Nat]
      /\ \A i \in 1..N : Added[i] = Added[i - 1] + setup.chunks[i]
  BY <1>2, AddedIsDefined DEF AddedEquations
<1>7. /\ r \in 0..N /\ Sampled(ObuSamplesIn(g, out, s), D, Added[r])
      /\ Sampled(EncoderInputIn(g, out, s), front, Added[r])
      /\ r < N => /\ Len(ObuSamplesIn(g, out, s)) = D + Added[r]
                  /\ Len(EncoderInputIn(g, out, s)) = front + Added[r]
      /\ LeftObu(g, s) # <<>> => Len(ObuSamplesIn(g, out, s)) = D + Added[r]
  BY <1>2, <1>5 DEF SamplesOK
<1>8. k \in 0..N
  BY <1>2, <1>7
<1>9. PICK a, b \in Nat : a = Added[r] /\ b = Added[k]
  BY <1>6, <1>7, <1>8
<1>10. PICK o, i \in Seq(Nat) : o = ObuSamplesIn(g, out, s) /\ i = EncoderInputIn(g, out, s)
  BY <1>7 DEF Sampled
<1>11. PICK l \in Nat :
          /\ Sampled(o, D, a) /\ SampledTo(i, front, a, l)
          /\ r < N => Len(o) = D + a /\ l = front + a
          /\ LeftObu(g, s) # <<>> => Len(o) = D + a
  BY <1>7, <1>9, <1>10 DEF SampledTo
<1>12. PICK c \in Seq(Nat) : c = g.labeled[s]
  BY DEF ReadyToEncode
<1>13. PICK lo, li, lc, lx, ly \in Nat :
          /\ lc = Len(c) /\ lo = Len(g.data[s].inObu) /\ lx = Len(x.inObu)
          /\ RoundNumbers(lo, li, lc, lx, ly, p, q)
  <2>1. RoundNumbers(Len(g.data[s].inObu), Len(g.data[s].toEncode), Len(g.labeled[s]),
                     Len(x.inObu), Len(x.toEncode), p, q)
    BY <1>1, RoundLengths
  <2>2. Len(g.data[s].inObu) \in Nat /\ Len(g.data[s].toEncode) \in Nat /\ Len(g.labeled[s]) \in Nat
    BY <2>1 DEF RoundNumbers
  <2>3. x.inObu \in Seq(Nat) /\ x.toEncode \in Seq(Nat)
    BY DEF Data
  <2>4. Len(x.inObu) \in Nat /\ Len(x.toEncode) \in Nat
    BY <2>3
  <2>. QED
    BY <1>12, <2>1, <2>2, <2>4, Zenon
<1>14. PICK m \in Nat :
          /\ b = a + lc /\ Sampled(o, D, a) /\ Len(o) = D + a /\ lo + lc >= 1
          /\ \A j \in 1..lc : c[j] = a + j
          /\ k < N => lc >= F /\ m = front + b
          /\ SampledTo(i \o c, front, b, m) /\ m = l + lc
  <2>1. CASE g.labeled[s] = Chunk(k) /\ k = r + 1 /\ k \in 1..N
    <3>1. /\ setup.chunks[k] \in Nat /\ setup.chunks[k] >= 1
          /\ k < N => setup.chunks[k] >= F
          /\ Len(Chunk(k)) = setup.chunks[k]
          /\ \A j \in 1..Len(Chunk(k)) : Chunk(k)[j] = Added[k - 1] + j
      BY <1>2, <2>1, ChunkIs
    <3>2. lc = setup.chunks[k] /\ r = k - 1 /\ r < N
      BY <1>7, <1>12, <1>13, <2>1, <3>1
    <3>3. b = a + lc
      BY <1>6, <1>9, <2>1, <3>2
    <3>4. \A j \in 1..lc : c[j] = a + j
      BY <1>9, <1>12, <2>1, <3>1, <3>2
    <3>5. Len(o) = D + a /\ l = front + a
      BY <1>11, <3>2
    <3>6. SampledTo(i, front, a, front + a) /\ Len(c) = lc
      BY <1>11, <1>13, <3>5, Zenon
    <3>7. SampledTo(i \o c, front, a + lc, front + (a + lc))
      BY <3>4, <3>6, SampledChunk
    <3>8. PICK m \in Nat : m = front + (a + lc) /\ m = l + lc
      BY <3>5
    <3>9. SampledTo(i \o c, front, b, m) /\ m = front + b
      BY <3>3, <3>7, <3>8, Zenon
    <3>10. lo + lc >= 1 /\ (k < N => lc >= F)
      BY <3>1, <3>2
    <3>. QED
      BY <1>11, <3>3, <3>4, <3>5, <3>8, <3>9, <3>10, Zenon
  <2>2. CASE g.labeled[s] = <<>> /\ k = r /\ k = N /\ LeftObu(g, s) # <<>>
    <3>1. c = <<>> /\ lc = 0
      BY <1>12, <1>13, <2>2
    <3>2. i \o c = i
      BY <3>1
    <3>3. lo # 0
      <4>1. s \in DOMAIN g.data /\ g.data[s] \in Data
        BY MixedIs DEF ReadyToEncode
      <4>2. g.data[s].inObu \in Seq(Nat) /\ g.data[s].inObu # <<>>
        BY <2>2, <4>1 DEF LeftObu, Data
      <4>3. Len(g.data[s].inObu) # 0
        BY <4>2
      <4>. QED
        BY <1>13, <4>3
    <3>4. a = b /\ b = a + lc /\ lo + lc >= 1 /\ ~(k < N) /\ l = l + lc
      BY <1>9, <1>2, <2>2, <3>1, <3>3
    <3>5. \A j \in 1..lc : c[j] = a + j
      BY <3>1
    <3>6. SampledTo(i \o c, front, b, l)
      BY <1>11, <3>2, <3>4, Zenon
    <3>7. Len(o) = D + a
      BY <1>11, <2>2
    <3>. QED
      BY <1>11, <3>4, <3>5, <3>6, <3>7, Zenon
  <2>. QED
    BY <1>2, <2>1, <2>2, Zenon
<1>15. SampledTo(o \o c, D, b, D + b)
  <2>1. SampledTo(o, D, a, D + a) /\ Len(c) = lc
    BY <1>13, <1>14, Zenon DEF SampledTo
  <2>2. SampledTo(o \o c, D, a + lc, D + (a + lc))
    BY <1>4, <1>14, <2>1, SampledChunk
  <2>. QED
    BY <1>14, <2>2, Zenon
<1>16. PICK oc, ic \in Seq(Nat) : oc = o \o c /\ ic = i \o c
  <2>1. o \o c \in Seq(Nat) /\ i \o c \in Seq(Nat)
    BY ConcatNumbers, Zenon
  <2>. QED
    BY <2>1
<1>17. D + b \in Nat /\ SampledTo(oc, D, b, D + b) /\ SampledTo(ic, front, b, m)
  <2>1. D + b \in Nat
    BY <1>4
  <2>2. SampledTo(i \o c, front, b, m)
    BY <1>14, Zenon
  <2>. QED
    BY <1>15, <1>16, <2>1, <2>2, Zenon
<1>18. /\ SampledTo(oc \o Zeros(p), D, b, D + b + p)
       /\ SampledTo(ic \o Zeros(q), front, b, m + q)
  BY <1>4, <1>17, SampledZeros
<1>19. /\ ObuSamplesIn(h, out, s) = oc \o Zeros(p)
       /\ EncoderInputIn(h, out, s) = ic \o Zeros(q)
  BY <1>1, <1>10, <1>12, <1>16, Zenon
<1>20. /\ Sampled(ObuSamplesIn(h, out, s), D, b) /\ Sampled(EncoderInputIn(h, out, s), front, b)
       /\ Len(ObuSamplesIn(h, out, s)) = D + b + p /\ Len(EncoderInputIn(h, out, s)) = m + q
  BY <1>18, <1>19, Zenon DEF SampledTo
<1>21. p < F /\ (k < N => p = 0 /\ q = 0)
  <2>1. /\ lx = lo + lc + p /\ F <= lx /\ (p > 0 => lx = F) /\ p <= q
        /\ ly = li + lc + q /\ (q > p => ly = F)
    BY <1>13 DEF RoundNumbers
  <2>2. lo + lc >= 1 /\ (k < N => lc >= F)
    BY <1>14, Zenon
  <2>3. p < F
    BY <2>1, <2>2, FAssumption
  <2>4. lc >= F => p = 0 /\ q = 0
    BY <2>1, FAssumption
  <2>. QED
    BY <2>2, <2>3, <2>4
<1>22. LeftObu(h, s) # <<>> => p = 0
  <2>1. x.inObu \in Seq(Nat) /\ Len(x.inObu) >= F
    <3>1. x.inObu \in Seq(Nat)
      BY DEF Data
    <3>2. lx >= F
      BY <1>13, FAssumption DEF RoundNumbers
    <3>. QED
      BY <1>13, <3>1, <3>2, Zenon
  <2>2. LeftObu(h, s) \in Seq(Nat) /\ Len(LeftObu(h, s)) = lx - F
    BY <1>1, <1>13, <2>1, FrontAndRest
  <2>3. p # 0 => lx - F = 0
    BY <1>13, FAssumption DEF RoundNumbers
  <2>. QED
    BY <2>2, <2>3
<1>23. PICK lO, lI : lO = Len(ObuSamplesIn(h, out, s)) /\ lI = Len(EncoderInputIn(h, out, s))
  OBVIOUS
<1>24. /\ lO < D + b + F /\ (k < N => lO = D + b /\ lI = front + b)
       /\ LeftObu(h, s) # <<>> => lO = D + b
  <2>1. lO = D + b + p /\ lI = m + q
    BY <1>20, <1>23, Zenon
  <2>2. k < N => m = front + b
    BY <1>14, Zenon
  <2>3. lO < D + b + F
    BY <1>4, <1>21, <2>1, FAssumption
  <2>4. k < N => lO = D + b /\ lI = front + b
    BY <1>4, <1>21, <2>1, <2>2
  <2>5. LeftObu(h, s) # <<>> => lO = D + b
    BY <1>4, <1>22, <2>1
  <2>. QED
    BY <2>3, <2>4, <2>5, Zenon
<1>. QED
  BY <1>2, <1>5, <1>8, <1>9, <1>20, <1>23, <1>24, Zenon DEF SamplesOK

(* What is left of a substream after a round.                                  *)
RoundLeaves(s, g, h) ==
    \E p, q, lo, li, lc \in Nat, lx, ly \in Int :
        /\ lo = Len(g.data[s].inObu) /\ li = Len(g.data[s].toEncode) /\ lc = Len(g.labeled[s])
        /\ RoundNumbers(lo, li, lc, lx, ly, p, q) /\ F <= ly
        /\ Len(h.data[s].inObu) = lx - F /\ Len(h.data[s].toEncode) = ly - F

LEMMA RoundLeft ==
    ASSUME SetupOK, NEW e \in Elements, NEW g, ReadyToEncode(e, g), NEW s \in SubstreamsOf(e),
           NEW out \in Seq([Substreams -> Frame]), NEW h, RoundOf(e, g, h),
           RoundEffect(s, g, h, out), LeftAgreesFor(g, out, s),
           Len(g.labeled[s]) = ChunkSize(Len(FramesIn(g, out, s)) + 1)
    PROVE  LeftAgreesFor(h, out, s) /\ RoundLeaves(s, g, h)
<1>1. PICK x \in Data, p, q \in Nat, frame \in Frame :
        /\ PadsTo(Mixed(g, s), x, p, q) /\ F <= Len(x.toEncode)
        /\ FramesIn(h, out, s) = Append(FramesIn(g, out, s), frame)
        /\ LeftObu(h, s) = WithoutFront(x.inObu) /\ LeftInput(h, s) = WithoutFront(x.toEncode)
  BY DEF RoundEffect
<1>2. s \in DOMAIN h.data /\ s \in Substreams /\ g \in Gen
  BY SubstreamsOfIs DEF ReadyToEncode, RoundOf
<1>3. LeftObu(h, s) = h.data[s].inObu /\ LeftInput(h, s) = h.data[s].toEncode
  BY <1>2 DEF LeftObu, LeftInput
<1>4. PICK n \in Nat : n = Len(FramesIn(g, out, s)) /\ Len(FramesIn(h, out, s)) = n + 1
  <2>1. FramesIn(g, out, s) \in Seq(Frame)
    BY <1>2, FramesType
  <2>. QED
    BY <1>1, <2>1
<1>5. PICK lo, li, lc, lx, ly \in Nat :
          /\ lo = Len(g.data[s].inObu) /\ li = Len(g.data[s].toEncode) /\ lc = Len(g.labeled[s])
          /\ lx = Len(x.inObu) /\ ly = Len(x.toEncode)
          /\ RoundNumbers(lo, li, lc, lx, ly, p, q) /\ F <= ly
  <2>1. RoundNumbers(Len(g.data[s].inObu), Len(g.data[s].toEncode), Len(g.labeled[s]),
                     Len(x.inObu), Len(x.toEncode), p, q)
    BY <1>1, RoundLengths
  <2>2. Len(g.data[s].inObu) \in Nat /\ Len(g.data[s].toEncode) \in Nat /\ Len(g.labeled[s]) \in Nat
    BY <2>1 DEF RoundNumbers
  <2>3. x.inObu \in Seq(Nat) /\ x.toEncode \in Seq(Nat)
    BY DEF Data
  <2>4. Len(x.inObu) \in Nat /\ Len(x.toEncode) \in Nat
    BY <2>3
  <2>. QED
    BY <1>1, <2>1, <2>2, <2>4, Zenon
<1>6. /\ lx = lo + lc + p /\ ly = li + lc + q /\ F <= lx /\ (p > 0 => lx = F)
      /\ p <= q /\ (q > p => ly = F)
  BY <1>5 DEF RoundNumbers
<1>7. Len(h.data[s].inObu) = lx - F /\ Len(h.data[s].toEncode) = ly - F
  <2>1. x.inObu \in Seq(Nat) /\ x.toEncode \in Seq(Nat)
    BY DEF Data
  <2>2. lx >= F /\ ly >= F
    BY <1>5, <1>6, FAssumption
  <2>3. Len(WithoutFront(x.inObu)) = lx - F /\ Len(WithoutFront(x.toEncode)) = ly - F
    BY <1>5, <2>1, <2>2, FrontAndRest
  <2>. QED
    BY <1>1, <1>3, <2>3, Zenon
<1>8. lo = Backlog[n] /\ li <= lo /\ lc = ChunkSize(n + 1)
  BY <1>4, <1>5 DEF LeftAgreesFor
<1>9. Backlog[n + 1] = lx - F
  <2>1. Backlog[n + 1] = NextBacklog(lo, n + 1)
    BY <1>8, BacklogIsDefined DEF BacklogEquations
  <2>2. NextBacklog(lo, n + 1) = IF lo + lc > F THEN lo + lc - F ELSE 0
    BY <1>8 DEF NextBacklog
  <2>3. lx - F = IF lo + lc > F THEN lo + lc - F ELSE 0
    BY <1>6, FAssumption
  <2>. QED
    BY <2>1, <2>2, <2>3, Zenon
<1>10. ly - F <= lx - F
  <2>1. li <= lo
    BY <1>8
  <2>2. ly <= lx
    BY <1>6, <2>1, FAssumption
  <2>. QED
    BY <2>2, FAssumption
<1>11. LeftAgreesFor(h, out, s)
  BY <1>4, <1>7, <1>9, <1>10, Zenon DEF LeftAgreesFor
<1>12. lx \in Int /\ ly \in Int
  OBVIOUS
<1>. QED
  BY <1>5, <1>7, <1>11, <1>12, Zenon DEF RoundLeaves

LEMMA RoundLeftTogether ==
    ASSUME SetupOK, NEW e \in Elements, NEW g, ReadyToEncode(e, g),
           NEW s \in SubstreamsOf(e), NEW t \in SubstreamsOf(e),
           NEW out \in Seq([Substreams -> Frame]), NEW h, RoundOf(e, g, h),
           \A z \in {s, t} : /\ RoundEffect(z, g, h, out) /\ LeftAgreesFor(g, out, z)
                             /\ Len(g.labeled[z]) = ChunkSize(Len(FramesIn(g, out, z)) + 1)
    PROVE  LeftTogether(h, s, t)
<1>1. RoundLeaves(s, g, h) /\ RoundLeaves(t, g, h)
  BY RoundLeft
<1>2. PICK p, q, lo, li, lc \in Nat, lx, ly \in Int :
         /\ lo = Len(g.data[s].inObu) /\ li = Len(g.data[s].toEncode) /\ lc = Len(g.labeled[s])
         /\ RoundNumbers(lo, li, lc, lx, ly, p, q) /\ F <= ly
         /\ Len(h.data[s].inObu) = lx - F /\ Len(h.data[s].toEncode) = ly - F
  BY <1>1 DEF RoundLeaves
<1>3. RoundLeaves(t, g, h)
  BY <1>1
<1>4. PICK p2, q2, lo2, li2, lc2 \in Nat, lx2, ly2 \in Int :
         /\ lo2 = Len(g.data[t].inObu) /\ li2 = Len(g.data[t].toEncode) /\ lc2 = Len(g.labeled[t])
         /\ RoundNumbers(lo2, li2, lc2, lx2, ly2, p2, q2) /\ F <= ly2
         /\ Len(h.data[t].inObu) = lx2 - F /\ Len(h.data[t].toEncode) = ly2 - F
  BY <1>3 DEF RoundLeaves
<1>5. li2 = li /\ lo2 = lo /\ lc2 = lc
  BY <1>2, <1>4, Zenon DEF ReadyToEncode
<1>6. /\ lx = lo + lc + p /\ ly = li + lc + q /\ F <= lx /\ (p > 0 => lx = F)
      /\ p <= q /\ (q > p => ly = F) /\ F <= ly
  BY <1>2 DEF RoundNumbers
<1>7. /\ lx2 = lo + lc + p2 /\ ly2 = li + lc + q2 /\ F <= lx2 /\ (p2 > 0 => lx2 = F)
      /\ p2 <= q2 /\ (q2 > p2 => ly2 = F) /\ F <= ly2
  BY <1>4, <1>5 DEF RoundNumbers
<1>8. p = p2
  BY <1>6, <1>7, FAssumption
<1>9. q = q2
  BY <1>6, <1>7, <1>8, FAssumption
<1>10. lx - F = lx2 - F /\ ly - F = ly2 - F
  BY <1>6, <1>7, <1>8, <1>9
<1>11. t \in DOMAIN h.data
  BY DEF ReadyToEncode, RoundOf
<1>. QED
  BY <1>2, <1>4, <1>10, <1>11, Zenon DEF LeftTogether

(* h and o2 show the same of s as g and out, but for the trimming.             *)
LooksSame(s, g, out, h, o2) ==
    /\ h.labeled[s] = g.labeled[s] /\ h.clock[s] = g.clock[s]
    /\ LeftObu(h, s) = LeftObu(g, s) /\ LeftInput(h, s) = LeftInput(g, s)
    /\ LET q == FramesIn(g, out, s)
           r == FramesIn(h, o2, s)
       IN  /\ Len(r) = Len(q)
           /\ \A j \in 1..Len(q) : /\ r[j].start = q[j].start /\ r[j].obu = q[j].obu
                                   /\ r[j].encoded = q[j].encoded

LEMMA LooksSameIs ==
    ASSUME NEW g \in Gen, NEW h \in Gen, NEW out \in Seq([Substreams -> Frame]),
           NEW o2 \in Seq([Substreams -> Frame]), NEW s \in Substreams,
           LooksSame(s, g, out, h, o2)
    PROVE  /\ ObuSamplesIn(h, o2, s) = ObuSamplesIn(g, out, s)
           /\ EncoderInputIn(h, o2, s) = EncoderInputIn(g, out, s)
           /\ FramesFollowFor(g, out, s) => FramesFollowFor(h, o2, s)
<1>1. PICK q, r \in Seq(Frame) : q = FramesIn(g, out, s) /\ r = FramesIn(h, o2, s)
  BY FramesType
<1>2. /\ Len(r) = Len(q) /\ DOMAIN r = 1..Len(q) /\ DOMAIN q = 1..Len(q)
      /\ \A j \in 1..Len(q) : /\ r[j].start = q[j].start /\ r[j].obu = q[j].obu
                              /\ r[j].encoded = q[j].encoded
  BY <1>1 DEF LooksSame
<1>3. [k \in DOMAIN r |-> r[k].obu] = [k \in DOMAIN q |-> q[k].obu]
  BY <1>2
<1>4. [k \in DOMAIN r |-> r[k].encoded] = [k \in DOMAIN q |-> q[k].encoded]
  BY <1>2
<1>5. Obus(h, o2, s) = Obus(g, out, s) /\ Inputs(h, o2, s) = Inputs(g, out, s)
  BY <1>1, <1>3, <1>4, Zenon DEF Obus, Inputs
<1>6. LeftObu(h, s) = LeftObu(g, s) /\ LeftInput(h, s) = LeftInput(g, s) /\ h.clock[s] = g.clock[s]
  BY DEF LooksSame
<1>7. FramesFollowFor(g, out, s) => FramesFollowFor(h, o2, s)
  BY <1>1, <1>2, <1>6 DEF FramesFollowFor
<1>. QED
  BY <1>5, <1>6, <1>7, Zenon DEF ObuSamplesIn, EncoderInputIn

SamplesFollowFor(g, out, f, s) ==
    SamplesOK(Rounds(g, f, s), setup.delay[ElementOf[s]], ObuSamplesIn(g, out, s),
              EncoderInputIn(g, out, s), LeftObu(g, s))

LEMMA LooksSameKeeps ==
    ASSUME NEW g \in Gen, NEW h \in Gen, NEW out \in Seq([Substreams -> Frame]),
           NEW o2 \in Seq([Substreams -> Frame]), NEW s \in Substreams, NEW f,
           LooksSame(s, g, out, h, o2)
    PROVE  /\ Rounds(h, f, s) = Rounds(g, f, s)
           /\ SamplesFollowFor(g, out, f, s) => SamplesFollowFor(h, o2, f, s)
           /\ LabelWaits(g, f, s) => LabelWaits(h, f, s)
<1>1. /\ h.labeled[s] = g.labeled[s] /\ LeftObu(h, s) = LeftObu(g, s)
  BY DEF LooksSame
<1>2. /\ ObuSamplesIn(h, o2, s) = ObuSamplesIn(g, out, s)
      /\ EncoderInputIn(h, o2, s) = EncoderInputIn(g, out, s)
  BY LooksSameIs
<1>3. Rounds(h, f, s) = Rounds(g, f, s)
  BY <1>1 DEF Rounds
<1>4. SamplesFollowFor(g, out, f, s) => SamplesFollowFor(h, o2, f, s)
  BY <1>1, <1>2, <1>3, Zenon DEF SamplesFollowFor
<1>5. LabelWaits(g, f, s) => LabelWaits(h, f, s)
  BY <1>1, Zenon DEF LabelWaits
<1>. QED
  BY <1>3, <1>4, <1>5

SamePadding(s, g, out, f, h, o2, f2) == PaddingIn(h, o2, f2, s) = PaddingIn(g, out, f, s)

LEMMA PaddingLooksSame ==
    ASSUME NEW g \in Gen, NEW h \in Gen, NEW out \in Seq([Substreams -> Frame]),
           NEW o2 \in Seq([Substreams -> Frame]), NEW s \in Substreams, NEW f,
           LooksSame(s, g, out, h, o2)
    PROVE  SamePadding(s, g, out, f, h, o2, f)
<1>1. ObuSamplesIn(h, o2, s) = ObuSamplesIn(g, out, s)
  BY LooksSameIs
<1>2. Rounds(h, f, s) = Rounds(g, f, s)
  <2>1. h.labeled[s] = g.labeled[s]
    BY DEF LooksSame
  <2>. QED
    BY <2>1 DEF Rounds
<1>. QED
  BY <1>1, <1>2, Zenon DEF PaddingIn, SamePadding

(* So do the trims of s.                                                       *)
TrimsFollowFor(g, out, f, s) == StartsTrimmed(g, out, s) /\ EndsTrimmed(g, out, f, s)
TrimsLookSame(s, g, h, out, o2) ==
    /\ FramesIn(h, o2, s) = FramesIn(g, out, s) /\ Len(o2) = Len(out)
    /\ h.trimming[s] = g.trimming[s]
    /\ s \in DOMAIN h.data => s \in DOMAIN g.data /\ h.data[s] = g.data[s]
    /\ (HasEnded(h, s) <=> HasEnded(g, s)) \/ (~leftover /\ ~HasEnded(g, s))

LEMMA TrimsLookSameIs ==
    ASSUME NEW g, NEW h, NEW out, NEW o2, NEW s, NEW f, NEW f2, TrimsLookSame(s, g, h, out, o2),
           SamePadding(s, g, out, f, h, o2, f2), TrimsFollowFor(g, out, f, s)
    PROVE  TrimsFollowFor(h, o2, f2, s)
<1>1. StartsTrimmed(h, o2, s)
  BY Zenon DEF TrimsFollowFor, TrimsLookSame, StartsTrimmed
<1>2. EndsTrimmed(h, o2, f2, s)
  <2>1. CASE HasEnded(h, s) <=> HasEnded(g, s)
    BY <2>1, Zenon DEF TrimsFollowFor, TrimsLookSame, EndsTrimmed, SamePadding
  <2>2. CASE ~leftover /\ ~HasEnded(g, s)
    BY <2>2, Zenon DEF TrimsFollowFor, TrimsLookSame, EndsTrimmed, SamePadding
  <2>. QED
    BY <2>1, <2>2, Zenon DEF TrimsLookSame
<1>. QED
  BY <1>1, <1>2 DEF TrimsFollowFor

(* Samples of the next call for all channels of e, or none are left to come.   *)
Supplied(e, g, out, f) ==
    /\ \A s, t \in SubstreamsOf(e) : f[s] = f[t]
    /\ \/ \A s \in SubstreamsOf(e) :
              /\ g.labeled[s] = Chunk(f[s]) /\ f[s] \in 1..Len(setup.chunks)
              /\ Len(FramesIn(g, out, s)) + 1 = f[s]
       \/ \A s \in SubstreamsOf(e) :
              /\ g.labeled[s] = <<>> /\ f[s] = Len(setup.chunks)
              /\ Len(setup.chunks) <= Len(FramesIn(g, out, s)) /\ g.data[s].inObu # <<>>

SuppliedFor(g, out, f, s) ==
    /\ Len(g.labeled[s]) = ChunkSize(Len(FramesIn(g, out, s)) + 1)
    /\ \/ /\ g.labeled[s] = Chunk(f[s]) /\ f[s] = Rounds(g, f, s) + 1
          /\ f[s] \in 1..Len(setup.chunks)
       \/ /\ g.labeled[s] = <<>> /\ f[s] = Rounds(g, f, s) /\ f[s] = Len(setup.chunks)
          /\ g.data[s].inObu # <<>>

LEMMA SuppliedIs ==
    ASSUME SetupOK, NEW out \in Seq([Substreams -> Frame]),
           NEW f, NEW g \in Gen, NEW e \in Elements, Supplied(e, g, out, f),
           NEW s \in SubstreamsOf(e)
    PROVE  SuppliedFor(g, out, f, s)
<1>1. PICK n \in Nat : n = Len(FramesIn(g, out, s))
  <2>1. FramesIn(g, out, s) \in Seq(Frame)
    BY FramesType, SubstreamsOfIs
  <2>. QED
    BY <2>1
<1>2. PICK N \in Nat : N = Len(setup.chunks)
  BY DEF SetupOK, Setup
<1>3. CASE g.labeled[s] = Chunk(f[s]) /\ f[s] \in 1..N /\ n + 1 = f[s]
  <2>1. /\ Chunk(f[s]) # <<>> /\ Chunk(f[s]) # None /\ Len(Chunk(f[s])) = setup.chunks[f[s]]
    BY <1>2, <1>3, ChunkIs
  <2>2. ChunkSize(n + 1) = setup.chunks[f[s]]
    BY <1>2, <1>3 DEF ChunkSize
  <2>3. Rounds(g, f, s) = f[s] - 1
    BY <1>3, <2>1 DEF Rounds
  <2>4. f[s] = Rounds(g, f, s) + 1
    BY <1>3, <2>3
  <2>. QED
    BY <1>1, <1>2, <1>3, <2>1, <2>2, <2>4 DEF SuppliedFor
<1>4. CASE g.labeled[s] = <<>> /\ f[s] = N /\ N <= n /\ g.data[s].inObu # <<>>
  <2>1. ChunkSize(n + 1) = 0
    BY <1>2, <1>4 DEF ChunkSize
  <2>2. Rounds(g, f, s) = f[s]
    BY <1>4 DEF Rounds
  <2>3. Len(g.labeled[s]) = 0
    BY <1>4
  <2>. QED
    BY <1>1, <1>2, <1>4, <2>1, <2>2, <2>3 DEF SuppliedFor
<1>. QED
  BY <1>1, <1>2, <1>3, <1>4 DEF Supplied, SuppliedFor

(* What is left to trim behind each frame.                                     *)
RestIs(x, k) == /\ Rest(x, k) \in Nat /\ AtMost(Rest(x, k)) \in 0..F
                /\ Rest(x, k) - AtMost(Rest(x, k)) = Rest(x, k + 1)
LEMMA RestNext ==
    ASSUME NEW x \in Nat, NEW k \in Nat
    PROVE  RestIs(x, k)
<1>1. PICK m \in Nat : m = k * F
  BY FAssumption
<1>2. (k + 1) * F = m + F
  BY <1>1, FAssumption
<1>3. PICK r \in Nat : r = Rest(x, k)
  BY <1>1 DEF Rest
<1>4. AtMost(r) = (IF r < F THEN r ELSE F) /\ AtMost(r) \in 0..F
  BY AtMostIs
<1>5. r = (IF x > m THEN x - m ELSE 0)
      /\ Rest(x, k + 1) = IF x > m + F THEN x - (m + F) ELSE 0
  BY <1>1, <1>2, <1>3, Zenon DEF Rest
<1>6. r - AtMost(r) = Rest(x, k + 1)
  BY <1>4, <1>5, FAssumption
<1>. QED
  BY <1>3, <1>4, <1>6 DEF RestIs

(* Before a round there is no padding behind the samples, and few are mixed    *)
(* only if they are the last.                                                  *)
SuppliedSamples(g, out, f, s) ==
    /\ PaddingIn(g, out, f, s) = 0 /\ f[s] \in 0..Len(setup.chunks) /\ Added[f[s]] \in Nat
    /\ Len(ObuSamplesIn(g, out, s)) + Len(g.labeled[s]) = D + Added[f[s]]
    /\ Len(g.labeled[s]) >= 1 \/ Len(g.data[s].inObu) >= 1
    /\ f[s] < Len(setup.chunks) => Len(g.labeled[s]) >= F

LEMMA SuppliedSamplesAre ==
    ASSUME SetupOK, NEW e \in Elements, NEW g, ReadyToEncode(e, g), NEW s \in SubstreamsOf(e),
           NEW out, NEW f, SamplesFollowFor(g, out, f, s), SuppliedFor(g, out, f, s)
    PROVE  SuppliedSamples(g, out, f, s)
<1>1. PICK N \in Nat : N = Len(setup.chunks)
  BY DEF SetupOK, Setup
<1>2. PICK r : r = Rounds(g, f, s)
  OBVIOUS
<1>3. /\ r \in 0..N /\ ObuSamplesIn(g, out, s) \in Seq(Nat)
      /\ r < N => Len(ObuSamplesIn(g, out, s)) = D + Added[r]
      /\ LeftObu(g, s) # <<>> => Len(ObuSamplesIn(g, out, s)) = D + Added[r]
  BY <1>1, <1>2 DEF SamplesFollowFor, SamplesOK, Sampled
<1>4. PICK c \in Seq(Nat) : c = g.labeled[s]
  BY DEF ReadyToEncode
<1>5. /\ Added \in [0..N -> Nat]
      /\ \A i \in 1..N : Added[i] = Added[i - 1] + setup.chunks[i]
  BY <1>1, AddedIsDefined DEF AddedEquations
<1>6. PICK a, b \in Nat : /\ a = Added[r] /\ b = Added[f[s]] /\ b = a + Len(c)
                          /\ Len(ObuSamplesIn(g, out, s)) = D + a /\ f[s] \in 0..N
                          /\ Len(c) >= 1 \/ Len(g.data[s].inObu) >= 1
                          /\ f[s] < N => Len(c) >= F
  <2>1. CASE g.labeled[s] = Chunk(f[s]) /\ f[s] = r + 1 /\ f[s] \in 1..N
    <3>1. /\ Len(c) = setup.chunks[f[s]] /\ setup.chunks[f[s]] >= 1
          /\ f[s] < N => setup.chunks[f[s]] >= F
      BY <1>1, <1>4, <2>1, ChunkIs
    <3>2. r < N /\ f[s] - 1 = r /\ f[s] \in 0..N
      BY <1>3, <2>1
    <3>. QED
      BY <1>3, <1>5, <2>1, <3>1, <3>2
  <2>2. CASE g.labeled[s] = <<>> /\ f[s] = r /\ f[s] = N /\ g.data[s].inObu # <<>>
    <3>1. s \in DOMAIN g.data /\ g \in Gen
      BY DEF ReadyToEncode
    <3>2. Len(c) = 0 /\ ~(f[s] < N)
      BY <1>1, <1>4, <2>2
    <3>3. Len(ObuSamplesIn(g, out, s)) = D + Added[r]
      BY <1>3, <2>2, <3>1 DEF LeftObu
    <3>4. Len(g.data[s].inObu) >= 1
      <4>1. PICK q \in Seq(Nat) : q = g.data[s].inObu
        BY <3>1, GenParts DEF Data
      <4>. QED
        BY <2>2, <4>1, EmptySeq
    <3>5. PICK a \in Nat : a = Added[r] /\ a = Added[f[s]] /\ a = a + Len(c)
      BY <1>3, <1>5, <2>2, <3>2
    <3>6. f[s] \in 0..N
      BY <2>2
    <3>. QED
      BY <3>2, <3>3, <3>4, <3>5, <3>6
  <2>. QED
    BY <1>1, <1>2, <2>1, <2>2 DEF SuppliedFor
<1>7. D \in Nat
  BY DelayIs
<1>8. PICK l \in Nat : l = Len(c)
  OBVIOUS
<1>9. /\ PaddingIn(g, out, f, s) = (D + a) - (D + a)
      /\ Len(ObuSamplesIn(g, out, s)) + Len(g.labeled[s]) = (D + a) + l
  BY <1>2, <1>4, <1>6, <1>8, Zenon DEF PaddingIn
<1>10. (D + a) - (D + a) = 0 /\ (D + a) + l = D + b
  BY <1>6, <1>7, <1>8
<1>. QED
  BY <1>1, <1>4, <1>6, <1>9, <1>10, Zenon DEF SuppliedSamples

(* The padding of a round is the first behind the samples.                     *)
LEMMA RoundPads ==
    ASSUME SetupOK, NEW e \in Elements, NEW g, ReadyToEncode(e, g), NEW s \in SubstreamsOf(e),
           NEW out, NEW h, NEW f, NEW p \in Nat,
           ObuSamplesIn(h, out, s) = (ObuSamplesIn(g, out, s) \o g.labeled[s]) \o Zeros(p),
           SamplesFollowFor(g, out, f, s), SuppliedFor(g, out, f, s), h.labeled[s] = <<>>
    PROVE  PaddingIn(g, out, f, s) = 0 /\ PaddingIn(h, out, f, s) = p
<1>1. SuppliedSamples(g, out, f, s)
  BY SuppliedSamplesAre
<1>2. Rounds(h, f, s) = f[s]
  <2>1. f[s] \in Int
    BY <1>1 DEF SuppliedSamples
  <2>. QED
    BY <2>1 DEF Rounds
<1>3. PICK c \in Seq(Nat) : c = g.labeled[s]
  BY DEF ReadyToEncode
<1>4. PICK o \in Seq(Nat) : o = ObuSamplesIn(g, out, s)
  BY DEF SamplesFollowFor, SamplesOK, Sampled
<1>5. Len(ObuSamplesIn(h, out, s)) = Len(o) + Len(c) + p
  <2>1. o \o c \in Seq(Nat) /\ Len(o \o c) = Len(o) + Len(c)
    BY ConcatNumbers, Zenon
  <2>2. Len((o \o c) \o Zeros(p)) = Len(o \o c) + p
    BY <2>1, Lengthened
  <2>. QED
    BY <1>3, <1>4, <2>1, <2>2, Zenon
<1>6. PICK b \in Nat : b = Added[f[s]] /\ Len(o) + Len(c) = D + b
  BY <1>1, <1>3, <1>4 DEF SuppliedSamples
<1>7. PaddingIn(h, out, f, s) = (D + b + p) - (D + b)
  BY <1>2, <1>5, <1>6, Zenon DEF PaddingIn
<1>. QED
  BY <1>1, <1>7, DelayIs DEF SuppliedSamples

LEMMA Whole ==
    ASSUME NEW n \in Nat, NEW r \in 0..(F - 1)
    PROVE  (F * n + r) % F = r
BY FAssumption

LEMMA PaddingAtEndIs ==
    ASSUME SetupOK, NEW n \in Nat, NEW p \in 0..(F - 1), Total + D + p = n * F
    PROVE  PaddingAtEnd = p
<1>1. PICK x \in Nat : x = Total + D
  <2>0. PICK N \in Nat : N = Len(setup.chunks)
    BY DEF SetupOK, Setup
  <2>1. Added[Len(setup.chunks)] \in Nat /\ D \in Nat
    BY <2>0, AddedIsDefined, DelayIs DEF AddedEquations
  <2>. QED
    BY <2>1 DEF Total
<1>2. PaddingAtEnd = (F - (x % F)) % F /\ F \in Nat /\ F > 0
  BY <1>1, FAssumption DEF PaddingAtEnd
<1>3. CASE p = 0
  <2>1. x = F * n + 0
    BY <1>1, <1>2, <1>3
  <2>2. x % F = 0
    BY <1>2, <2>1, Whole
  <2>3. F = F * 1 + 0
    BY <1>2
  <2>4. F % F = 0
    BY <1>2, <2>3, Whole
  <2>. QED
    BY <1>2, <1>3, <2>2, <2>4
<1>4. CASE p # 0
  <2>1. n # 0
    BY <1>1, <1>2, <1>4
  <2>2. PICK m \in Nat : n = m + 1
    <3>1. n - 1 \in Nat /\ n = (n - 1) + 1
      BY <2>1
    <3>. QED
      BY <3>1
  <2>3. PICK k \in Nat : k = F * m
    BY <1>2
  <2>4. n * F = k + F
    BY <1>2, <2>2, <2>3
  <2>5. x = F * m + (F - p) /\ F - p \in 0..(F - 1)
    BY <1>1, <1>2, <1>4, <2>3, <2>4
  <2>6. x % F = F - p
    BY <2>5, Whole
  <2>7. F - (x % F) = p /\ p = F * 0 + p
    BY <1>2, <2>6
  <2>8. (F * 0 + p) % F = p
    BY Whole
  <2>. QED
    BY <1>2, <2>7, <2>8
<1>. QED
  BY <1>3, <1>4

LEMMA ObuLength ==
    ASSUME NEW g \in Gen, NEW out \in Seq([Substreams -> Frame]), NEW s \in Substreams,
           FramesFollowFor(g, out, s)
    PROVE  Len(ObuSamplesIn(g, out, s)) = Len(FramesIn(g, out, s)) * F + Len(LeftObu(g, s))
<1>1. PICK q \in Seq(Frame) : q = FramesIn(g, out, s)
  BY FramesType
<1>2. PICK u \in Seq(Seq(Nat)) : u = Obus(g, out, s)
  BY FramesType
<1>3. Len(u) = Len(q) /\ \A j \in 1..Len(u) : Len(u[j]) = F
  <2>1. u = [k \in DOMAIN q |-> q[k].obu]
    BY <1>1, <1>2, Zenon DEF Obus
  <2>2. \A j \in 1..Len(q) : Len(q[j].obu) = F
    BY <1>1, Zenon DEF FramesFollowFor
  <2>. QED
    BY <2>1, <2>2
<1>4. Len(FlattenSeq(u)) = Len(u) * F
  BY <1>3, FAssumption, FlattenLength
<1>5. PICK a, b \in Seq(Nat) : a = FlattenSeq(u) /\ b = LeftObu(g, s)
  BY FramesType, FlattenType
<1>6. Len(a \o b) = Len(a) + Len(b)
  BY ConcatNumbers, Zenon
<1>. QED
  BY <1>1, <1>2, <1>3, <1>4, <1>5, <1>6, Zenon DEF ObuSamplesIn

LEMMA NotEnded ==
    ASSUME NEW g, GenOK(g), NEW s \in DOMAIN g.data
    PROVE  ~HasEnded(g, s)
BY DEF GenOK, HasEnded, Finished

(* A round fails just if the user wants less trimmed than all the padding.     *)
LEMMA RefusedRound ==
    ASSUME SetupOK, NEW out \in Seq([Substreams -> Frame]), NEW f, NEW g, GenInv(g, out, f),
           NEW e \in Elements, ReadyToEncode(e, g), Supplied(e, g, out, f),
           NEW s \in SubstreamsOf(e), PadIsRefused(s, g)
    PROVE  TrimRefused
<1>2. /\ g \in Gen /\ GenOK(g) /\ s \in Substreams /\ s \in DOMAIN g.data
      /\ FramesFollowFor(g, out, s) /\ SamplesFollowFor(g, out, f, s) /\ EndsTrimmed(g, out, f, s)
  BY SubstreamsOfIs DEF ReadyToEncode, GenInv, GenOK, FramesFollow, SamplesFollow, SamplesFollowFor,
                        TrimsFollow
<1>3. PICK m, p \in Nat : /\ m = Len(Mixed(g, s).inObu) /\ m + p = F
                          /\ TrimLeftAfterPadding(g.trimming[s].endLeft, p) < p
  <2>1. Mixed(g, s).inObu \in Seq(Nat)
    BY MixedIs DEF Data
  <2>. QED
    BY <2>1 DEF PadIsRefused
<1>4. SuppliedSamples(g, out, f, s)
  BY <1>2, SuppliedIs, SuppliedSamplesAre
<1>5. g.trimming[s].endLeft = EndTrim(0)
  BY <1>2, <1>4, NotEnded, Zenon DEF EndsTrimmed, SuppliedSamples
<1>6. setup.trimEnd \in Nat
  BY FAssumption DEF SetupOK, Setup
<1>7. setup.endIncludesPadding /\ setup.trimEnd < p
  BY <1>3, <1>5, <1>6 DEF TrimLeftAfterPadding, EndTrim
<1>8. PICK N \in Nat : N = Len(setup.chunks)
  BY DEF SetupOK, Setup
<1>9. PICK lo, lc \in Nat : /\ lo = Len(g.data[s].inObu) /\ lc = Len(g.labeled[s]) /\ m = lo + lc
  <2>1. /\ g.data[s] \in Data /\ g.labeled[s] \in Seq(Nat)
        /\ Len(Mixed(g, s).inObu) = Len(g.data[s].inObu) + Len(g.labeled[s])
    BY MixedIs
  <2>2. PICK a, b \in Seq(Nat) : a = g.data[s].inObu /\ b = g.labeled[s]
    BY <2>1 DEF Data
  <2>3. Len(a) \in Nat /\ Len(b) \in Nat
    OBVIOUS
  <2>. QED
    BY <1>3, <2>1, <2>2, <2>3
<1>10. m >= 1 /\ f[s] = N
  <2>1. /\ lc >= 1 \/ lo >= 1
        /\ f[s] < N => lc >= F
        /\ f[s] \in 0..N
    BY <1>4, <1>8, <1>9, Zenon DEF SuppliedSamples
  <2>2. p > 0 /\ m < F /\ lc < F
    <3>1. PICK t \in Nat : t = setup.trimEnd
      BY <1>6
    <3>2. t < p /\ m + p = F /\ m = lo + lc
      BY <1>3, <1>7, <1>9, <3>1
    <3>. QED
      BY <3>2
  <2>3. PICK v \in 0..N : v = f[s] /\ (v < N => lc >= F)
    BY <2>1
  <2>4. (lc >= 1 \/ lo >= 1) /\ m = lo + lc
    BY <1>9, <2>1
  <2>5. v = N
    BY <2>2, <2>3, FAssumption
  <2>6. m >= 1
    BY <2>4
  <2>. QED
    BY <2>3, <2>5, <2>6
<1>11. PICK n \in Nat : n = Len(FramesIn(g, out, s))
  BY <1>2, FramesType
<1>12. PICK k \in Nat : k = n * F
  BY FAssumption
<1>13. k + lo + lc = D + Total
  <2>1. Len(ObuSamplesIn(g, out, s)) = k + lo
    <3>1. LeftObu(g, s) = g.data[s].inObu
      BY <1>2 DEF LeftObu
    <3>. QED
      BY <1>2, <1>9, <1>11, <1>12, <3>1, ObuLength
  <2>2. Len(ObuSamplesIn(g, out, s)) + lc = D + Added[f[s]]
    BY <1>4, <1>9, Zenon DEF SuppliedSamples
  <2>. QED
    BY <1>8, <1>10, <2>1, <2>2 DEF Total
<1>14. Total \in Nat /\ D \in Nat
  <2>1. Added[f[s]] \in Nat
    BY <1>4 DEF SuppliedSamples
  <2>. QED
    BY <1>8, <1>10, <2>1, DelayIs DEF Total
<1>15. Total + D + p = (n + 1) * F /\ p \in 0..(F - 1)
  <2>1. (n + 1) * F = k + F
    BY <1>12, FAssumption
  <2>2. PICK a, d \in Nat : a = Total /\ d = D
    BY <1>14
  <2>3. a + d + p = k + F
    <3>1. k + lo + lc = d + a /\ m = lo + lc /\ m + p = F
      BY <1>3, <1>9, <1>13, <2>2
    <3>. QED
      BY <3>1
  <2>4. p \in 0..(F - 1)
    BY <1>3, <1>10, FAssumption
  <2>. QED
    BY <2>1, <2>2, <2>3, <2>4
<1>16. PaddingAtEnd = p
  BY <1>15, PaddingAtEndIs
<1>. QED
  BY <1>7, <1>16 DEF TrimRefused

LEMMA RoundKeepsTrims ==
    ASSUME SetupOK, NEW e \in Elements, NEW g, GenOK(g), ReadyToEncode(e, g),
           NEW s \in SubstreamsOf(e), NEW out \in Seq([Substreams -> Frame]),
           NEW h, RoundOf(e, g, h), GenOK(h), RoundEffect(s, g, h, out), NEW f,
           SamplesFollowFor(g, out, f, s), SuppliedFor(g, out, f, s), h.labeled[s] = <<>>,
           TrimsFollowFor(g, out, f, s)
    PROVE  TrimsFollowFor(h, out, f, s)
<1>1. /\ s \in Substreams /\ s \in DOMAIN g.data /\ s \in DOMAIN h.data
      /\ g \in Gen /\ h \in Gen
  BY SubstreamsOfIs DEF ReadyToEncode, RoundOf
<1>2. PICK x \in Data, p, q \in Nat, frame \in Frame :
        /\ PadsTo(Mixed(g, s), x, p, q) /\ Charged(s, g, h, p) /\ TrimsFront(x, frame, h.data[s])
        /\ FramesIn(h, out, s) = Append(FramesIn(g, out, s), frame)
        /\ ObuSamplesIn(h, out, s) = (ObuSamplesIn(g, out, s) \o g.labeled[s]) \o Zeros(p)
  BY DEF RoundEffect
<1>3. PaddingIn(g, out, f, s) = 0 /\ PaddingIn(h, out, f, s) = p
  BY <1>2, RoundPads
<1>4. ~HasEnded(g, s) /\ ~HasEnded(h, s)
  BY <1>1, NotEnded
<1>5. PICK k \in Seq(Frame) : k = FramesIn(g, out, s)
  BY <1>1, FramesType
<1>6. PICK n \in Nat : n = Len(k)
  OBVIOUS
<1>7. PICK r \in Seq(Frame) : /\ r = FramesIn(h, out, s) /\ Len(r) = n + 1 /\ r[n + 1] = frame
                              /\ \A j \in 1..n : r[j] = k[j]
  <2>0. Append(k, frame) \in Seq(Frame)
    BY AppendProperties
  <2>1. PICK r \in Seq(Frame) : r = Append(k, frame)
    BY <2>0, Zenon
  <2>2. Len(r) = n + 1 /\ r[n + 1] = frame /\ \A j \in 1..n : r[j] = k[j]
    BY <1>6, <2>1
  <2>. QED
    BY <1>2, <1>5, <2>1, <2>2, Zenon
<1>8. D \in Nat /\ setup.trimEnd \in Nat /\ Len(out) \in Nat /\ Len(out) <= n
  <2>1. D \in Nat /\ setup.trimEnd \in Nat
    BY DelayIs, FAssumption DEF SetupOK, Setup
  <2>2. PICK a \in Seq(Frame), b \in Seq(Frame) : k = a \o b /\ Len(a) = Len(out)
    <3>1. /\ [i \in DOMAIN out |-> out[i][s]] \in Seq(Frame) /\ InsideOf(g, s) \in Seq(Frame)
      BY <1>1, FramesType
    <3>2. Len([i \in DOMAIN out |-> out[i][s]]) = Len(out)
      OBVIOUS
    <3>. QED
      BY <1>5, <3>1, <3>2, Zenon DEF FramesIn
  <2>3. n = Len(a) + Len(b) /\ Len(a) \in Nat /\ Len(b) \in Nat
    <3>1. Len(a \o b) = Len(a) + Len(b)
      BY ConcatProperties, Zenon
    <3>. QED
      BY <1>6, <2>2, <3>1
  <2>. QED
    BY <2>1, <2>2, <2>3
<1>9. /\ x.trimStart = g.data[s].trimStart /\ p <= F
      /\ x.trimEnd = IF p > 0 THEN p ELSE g.data[s].trimEnd
  BY <1>2, MixedIs, Zenon DEF PadsTo
<1>10. /\ \A j \in 1..n : k[j].trimStart = AtMost(Rest(IF j <= Len(out) THEN StartTrim ELSE D, j - 1))
       /\ g.data[s].trimStart = Rest(D, n) /\ g.data[s].trimEnd = 0
       /\ g.trimming[s].startLeft = Rest(StartTrim, Len(out))
  BY <1>1, <1>5, <1>6, Zenon DEF TrimsFollowFor, StartsTrimmed
<1>11. /\ \A j \in 1..n : k[j].trimEnd = 0
       /\ g.trimming[s].endLeft = EndTrim(0)
  <2>1. \A j \in 1..Len(k) : k[j].trimEnd = IF j < Len(k) THEN 0 ELSE 0
    BY <1>3, <1>4, <1>5, Zenon DEF TrimsFollowFor, EndsTrimmed
  <2>2. g.trimming[s].endLeft = EndTrim(0)
    BY <1>3, <1>4, Zenon DEF TrimsFollowFor, EndsTrimmed
  <2>. QED
    BY <1>6, <2>1, <2>2
<1>12. x.trimEnd = p /\ AtMost(p) = p
  <2>1. x.trimEnd = p
    BY <1>9, <1>10
  <2>2. AtMost(p) = p
    BY <1>9, AtMostIs, FAssumption
  <2>. QED
    BY <2>1, <2>2
<1>13. /\ frame.trimStart = AtMost(Rest(D, n)) /\ frame.trimEnd = p
       /\ h.data[s].trimStart = Rest(D, n + 1) /\ h.data[s].trimEnd = 0
  <2>1. RestIs(D, n)
    BY <1>8, RestNext
  <2>2. frame.trimStart = AtMost(Rest(D, n)) /\ frame.trimEnd = p
    BY <1>2, <1>9, <1>10, <1>12, Zenon DEF TrimsFront
  <2>3. h.data[s].trimStart = Rest(D, n) - AtMost(Rest(D, n)) /\ h.data[s].trimEnd = p - p
    BY <1>2, <1>9, <1>10, <1>12, <2>2, Zenon DEF TrimsFront
  <2>. QED
    BY <2>1, <2>2, <2>3 DEF RestIs
<1>14. /\ h.trimming[s].startLeft = g.trimming[s].startLeft
       /\ h.trimming[s].endLeft = TrimLeftAfterPadding(EndTrim(0), p)
       /\ p <= h.trimming[s].endLeft
  <2>1. PICK t \in Trimming : t = g.trimming[s]
    BY <1>1, GenParts
  <2>2. h.trimming[s] = [t EXCEPT !.endLeft = TrimLeftAfterPadding(EndTrim(0), p)]
    BY <1>2, <1>11, <2>1 DEF Charged
  <2>3. p <= h.trimming[s].endLeft
    BY <1>2 DEF Charged
  <2>. QED
    BY <2>1, <2>2, <2>3 DEF Trimming
<1>15. h.trimming[s].endLeft = EndTrim(p) /\ (setup.endIncludesPadding => p <= setup.trimEnd)
  BY <1>8, <1>14 DEF TrimLeftAfterPadding, EndTrim
<1>16. StartsTrimmed(h, out, s)
  <2>1. \A j \in 1..(n + 1) :
           r[j].trimStart = AtMost(Rest(IF j <= Len(out) THEN StartTrim ELSE D, j - 1))
    <3>. TAKE j \in 1..(n + 1)
    <3>1. CASE j \in 1..n
      BY <1>7, <1>10, <3>1
    <3>2. CASE j = n + 1
      <4>1. ~(j <= Len(out)) /\ j - 1 = n /\ r[j] = frame
        BY <1>7, <1>8, <3>2
      <4>. QED
        BY <1>13, <4>1
    <3>. QED
      BY <3>1, <3>2
  <2>. QED
    BY <1>7, <1>10, <1>13, <1>14, <2>1, Zenon DEF StartsTrimmed
<1>17. EndsTrimmed(h, out, f, s)
  <2>1. \A j \in 1..(n + 1) : r[j].trimEnd = IF j < n + 1 THEN 0 ELSE p
    <3>. TAKE j \in 1..(n + 1)
    <3>1. CASE j \in 1..n
      BY <1>7, <1>11, <3>1
    <3>2. CASE j = n + 1
      BY <1>7, <1>13, <3>2
    <3>. QED
      BY <3>1, <3>2
  <2>. QED
    BY <1>3, <1>4, <1>7, <1>15, <2>1, Zenon DEF EndsTrimmed
<1>. QED
  BY <1>16, <1>17 DEF TrimsFollowFor

RoundKept(e, g, out, f, h) ==
    /\ GenInv(h, out, f)
    /\ \A s \in SubstreamsOf(e) : /\ Len(FramesIn(h, out, s)) = Len(FramesIn(g, out, s)) + 1
                                  /\ h.labeled[s] = <<>>
    /\ \A s \in Substreams \ SubstreamsOf(e) :
          /\ FramesIn(h, out, s) = FramesIn(g, out, s) /\ h.labeled[s] = g.labeled[s]

LEMMA RoundKeeps ==
    ASSUME SetupOK, NEW out \in Seq([Substreams -> Frame]),
           NEW f \in [Substreams -> 0..Len(setup.chunks)],
           NEW g, GenInv(g, out, f), NEW e \in Elements, ReadyToEncode(e, g),
           Supplied(e, g, out, f), NEW h, RoundOf(e, g, h)
    PROVE  RoundKept(e, g, out, f, h)
<1>. DEFINE S == SubstreamsOf(e)
<1>1. /\ g \in Gen /\ h \in Gen /\ h.ok = g.ok /\ S \subseteq Substreams /\ S \subseteq DOMAIN g.data
      /\ DOMAIN g.data \subseteq DOMAIN g.encoder
      /\ DOMAIN h.data = DOMAIN g.data /\ DOMAIN h.encoder = DOMAIN g.encoder
      /\ \A s \in Substreams \ S : SameFor(s, g, h)
  BY SubstreamsOfIs DEF ReadyToEncode, RoundOf
<1>2. GenOK(g)
  BY DEF GenInv
<1>3. \A s \in S : RoundEffect(s, g, h, out)
  BY <1>2, RoundHasEffect
<1>4. ASSUME NEW s \in Substreams \ S
      PROVE  /\ LooksSame(s, g, out, h, out) /\ FramesIn(h, out, s) = FramesIn(g, out, s)
             /\ h.labeled[s] = g.labeled[s] /\ LeftObu(h, s) = LeftObu(g, s)
             /\ TrimsLookSame(s, g, h, out, out)
  <2>1. SameFor(s, g, h)
    BY <1>1
  <2>2. InsideOf(h, s) = InsideOf(g, s)
    BY <1>1, <2>1 DEF SameFor, InsideOf
  <2>3. FramesIn(h, out, s) = FramesIn(g, out, s)
    BY <2>2, Zenon DEF FramesIn
  <2>4. LeftObu(h, s) = LeftObu(g, s) /\ LeftInput(h, s) = LeftInput(g, s)
    BY <1>1, <2>1 DEF SameFor, LeftObu, LeftInput
  <2>5. LooksSame(s, g, out, h, out)
    BY <2>1, <2>3, <2>4, Zenon DEF LooksSame, SameFor
  <2>6. HasEnded(h, s) <=> HasEnded(g, s)
    BY <1>1, <2>1 DEF SameFor, HasEnded
  <2>7. TrimsLookSame(s, g, h, out, out)
    BY <1>1, <2>1, <2>3, <2>6, Zenon DEF TrimsLookSame, SameFor
  <2>. QED
    BY <2>3, <2>4, <2>5, <2>7, <2>1 DEF SameFor
<1>5. \A s \in S : SuppliedFor(g, out, f, s)
  BY <1>1, SuppliedIs
<1>6. ASSUME NEW s \in S
      PROVE  /\ Len(FramesIn(h, out, s)) = Len(FramesIn(g, out, s)) + 1 /\ h.labeled[s] = <<>>
             /\ FramesFollowFor(h, out, s)
  <2>1. PICK frame \in Frame :
          /\ frame.start = g.clock[s] /\ Len(frame.obu) = F
          /\ FramesIn(h, out, s) = Append(FramesIn(g, out, s), frame)
          /\ h.clock[s] = g.clock[s] + F /\ h.labeled[s] = <<>>
    BY <1>3 DEF RoundEffect
  <2>2. PICK q \in Seq(Frame) : q = FramesIn(g, out, s)
    BY <1>1, FramesType
  <2>3. PICK n \in Nat : n = Len(q)
    OBVIOUS
  <2>4. g.clock[s] = n * F /\ \A j \in 1..n : q[j].start = (j - 1) * F /\ Len(q[j].obu) = F
    BY <1>1, <2>2, <2>3 DEF GenInv, FramesFollow, FramesFollowFor
  <2>5. h.clock[s] = (n + 1) * F
    BY <2>1, <2>4, FAssumption
  <2>6. /\ Len(Append(q, frame)) = n + 1 /\ Append(q, frame)[n + 1] = frame
        /\ \A j \in 1..n : Append(q, frame)[j] = q[j]
    BY <2>3
  <2>7. \A j \in 1..(n + 1) : /\ Append(q, frame)[j].start = (j - 1) * F
                            /\ Len(Append(q, frame)[j].obu) = F
    <3>. TAKE j \in 1..(n + 1)
    <3>1. CASE j \in 1..n
      BY <2>4, <2>6, <3>1
    <3>2. CASE j = n + 1
      <4>1. j - 1 = n
        BY <3>2
      <4>2. (j - 1) * F = n * F
        BY <4>1
      <4>3. Append(q, frame)[j] = frame
        BY <2>6, <3>2
      <4>4. frame.start = n * F
        BY <2>1, <2>4, Zenon
      <4>. QED
        BY <2>1, <4>2, <4>3, <4>4, Zenon
    <3>3. j \in 1..n \/ j = n + 1
      OBVIOUS
    <3>. QED
      BY <3>1, <3>2, <3>3, Zenon
  <2>8. FramesFollowFor(h, out, s)
    BY <2>1, <2>2, <2>5, <2>6, <2>7, Zenon DEF FramesFollowFor
  <2>. QED
    BY <2>1, <2>2, <2>3, <2>6, <2>8
<1>7. GenOK(h)
  <2>1. ASSUME NEW s \in DOMAIN h.encoder
        PROVE  /\ h.encoder[s].finished <=> s \notin DOMAIN h.data
               /\ h.encoder[s].finished \/ setup.latency[ElementOf[s]] = 0
                      => h.encoder[s].held = <<>>
    <3>1. /\ s \in DOMAIN g.encoder /\ s \in Substreams
          /\ g.encoder[s].finished <=> s \notin DOMAIN g.data
          /\ g.encoder[s].finished \/ setup.latency[ElementOf[s]] = 0
                 => g.encoder[s].held = <<>>
      BY <1>1, <1>2, GenParts DEF GenOK
    <3>2. CASE s \in S
      <4>1. /\ h.encoder[s].finished = g.encoder[s].finished
            /\ setup.latency[ElementOf[s]] = 0 => h.encoder[s].held = <<>>
        BY <1>3, <3>2 DEF RoundEffect
      <4>. QED
        BY <1>1, <3>1, <3>2, <4>1
    <3>3. CASE s \notin S
      <4>1. h.encoder[s] = g.encoder[s]
        BY <1>1, <3>1, <3>3 DEF SameFor
      <4>. QED
        BY <1>1, <3>1, <4>1
    <3>. QED
      BY <3>2, <3>3
  <2>. QED
    BY <1>1, <2>1 DEF GenOK
<1>8. FramesFollow(h, out)
  <2>1. \A s \in Substreams : FramesFollowFor(g, out, s)
    BY DEF GenInv, FramesFollow
  <2>. QED
    BY <1>1, <1>4, <1>6, <2>1, LooksSameIs DEF FramesFollow
<1>9. ASSUME NEW s \in Substreams
      PROVE  SamplesFollowFor(h, out, f, s) /\ LabelWaits(h, f, s)
  <2>1. SamplesFollowFor(g, out, f, s) /\ LabelWaits(g, f, s)
    BY DEF GenInv, SamplesFollow, SamplesFollowFor, LabelsWait
  <2>2. CASE s \notin S
    BY <1>1, <1>4, <2>1, <2>2, LooksSameKeeps
  <2>3. CASE s \in S
    <3>1. Rounds(h, f, s) = f[s]
      BY <1>6, <2>3 DEF Rounds
    <3>2. \/ /\ g.labeled[s] = Chunk(f[s]) /\ f[s] = Rounds(g, f, s) + 1
             /\ f[s] \in 1..Len(setup.chunks)
          \/ /\ g.labeled[s] = <<>> /\ f[s] = Rounds(g, f, s) /\ f[s] = Len(setup.chunks)
             /\ LeftObu(g, s) # <<>>
      BY <1>1, <1>5, <2>3 DEF SuppliedFor, LeftObu
    <3>3. SamplesOK(f[s], setup.delay[ElementOf[s]], ObuSamplesIn(h, out, s),
                    EncoderInputIn(h, out, s), LeftObu(h, s))
      BY <1>3, <2>1, <2>3, <3>2, RoundKeepsSamples DEF SamplesFollowFor
    <3>0. <<>> # None
      <4>1. <<>> \in Seq(Nat)
        OBVIOUS
      <4>. QED
        BY <4>1, NoneAssumption, Zenon
    <3>4. f[s] # 0
      <4>1. CASE f[s] \in 1..Len(setup.chunks)
        BY <4>1
      <4>2. CASE g.labeled[s] = <<>>
        BY <2>1, <3>0, <4>2, Zenon DEF LabelWaits
      <4>. QED
        BY <3>2, <4>1, <4>2
    <3>5. LabelWaits(h, f, s)
      BY <1>6, <2>3, <3>0, <3>4, Zenon DEF LabelWaits
    <3>. QED
      BY <3>1, <3>3, <3>5, Zenon DEF SamplesFollowFor
  <2>. QED
    BY <2>2, <2>3
<1>10. \A s \in Substreams : \A t \in SubstreamsOf(ElementOf[s]) :
           t \in Substreams /\ (s \in S <=> t \in S) /\ (s \in S => t \in SubstreamsOf(e))
  BY DEF SubstreamsOf
<1>11. ASSUME NEW s \in Substreams, NEW t \in SubstreamsOf(ElementOf[s])
       PROVE  Rounds(h, f, s) = Rounds(h, f, t)
  <2>1. CASE s \in S
    <3>1. Rounds(h, f, s) = f[s] /\ Rounds(h, f, t) = f[t]
      BY <1>6, <1>10, <2>1 DEF Rounds
    <3>2. f[s] = f[t]
      BY <1>10, <2>1 DEF Supplied
    <3>. QED
      BY <3>1, <3>2
  <2>2. CASE s \notin S
    <3>1. Rounds(g, f, s) = Rounds(g, f, t)
      BY DEF GenInv, LabelsWait
    <3>2. Rounds(h, f, s) = Rounds(g, f, s) /\ Rounds(h, f, t) = Rounds(g, f, t)
      BY <1>4, <1>10, <2>2 DEF Rounds
    <3>. QED
      BY <3>1, <3>2
  <2>. QED
    BY <2>1, <2>2
<1>12. ASSUME NEW s \in DOMAIN h.data
       PROVE  LeftAgreesFor(h, out, s) /\ \A t \in SubstreamsOf(ElementOf[s]) : LeftTogether(h, s, t)
  <2>1. s \in Substreams /\ s \in DOMAIN g.data
    BY <1>1, GenParts
  <2>2. \A z \in DOMAIN g.data :
           /\ LeftAgreesFor(g, out, z)
           /\ \A t \in SubstreamsOf(ElementOf[z]) : LeftTogether(g, z, t)
    BY DEF GenInv, LeftAgrees
  <2>3. CASE s \in S
    <3>1. \A z \in S : /\ RoundEffect(z, g, h, out) /\ LeftAgreesFor(g, out, z)
                       /\ Len(g.labeled[z]) = ChunkSize(Len(FramesIn(g, out, z)) + 1)
      BY <1>1, <1>3, <1>5, <2>2 DEF SuppliedFor
    <3>2. LeftAgreesFor(h, out, s)
      BY <2>3, <3>1, RoundLeft
    <3>3. \A t \in S : LeftTogether(h, s, t)
      BY <2>3, <3>1, RoundLeftTogether
    <3>. QED
      BY <1>10, <2>1, <2>3, <3>2, <3>3
  <2>4. CASE s \notin S
    <3>1. h.data[s] = g.data[s]
      BY <1>1, <2>1, <2>4 DEF SameFor
    <3>2. LeftAgreesFor(h, out, s)
      BY <1>4, <2>1, <2>2, <2>4, <3>1 DEF LeftAgreesFor
    <3>3. ASSUME NEW t \in SubstreamsOf(ElementOf[s]) PROVE LeftTogether(h, s, t)
      <4>1. LeftTogether(g, s, t)
        BY <2>1, <2>2
      <4>2. t \in DOMAIN g.data /\ t \in Substreams \ S
        BY <1>10, <2>1, <2>4, <4>1 DEF LeftTogether
      <4>3. h.data[t] = g.data[t]
        BY <1>1, <4>2 DEF SameFor
      <4>. QED
        BY <1>1, <3>1, <4>1, <4>2, <4>3 DEF LeftTogether
    <3>. QED
      BY <3>2, <3>3
  <2>. QED
    BY <2>3, <2>4
<1>13. SamplesFollow(h, out, f)
  BY <1>9 DEF SamplesFollow, SamplesFollowFor
<1>14. LabelsWait(h, f)
  BY <1>9, <1>11 DEF LabelsWait
<1>15. LeftAgrees(h, out)
  BY <1>12 DEF LeftAgrees
<1>a. TrimsFollow(h, out, f)
  <2>1. /\ g.ok \/ TrimRefused
        /\ \A s \in Substreams : TrimsFollowFor(g, out, f, s)
    BY DEF GenInv, TrimsFollow, TrimsFollowFor
  <2>2. ASSUME NEW s \in Substreams PROVE TrimsFollowFor(h, out, f, s)
    <3>1. CASE s \notin S
      <4>0. LooksSame(s, g, out, h, out) /\ g \in Gen /\ h \in Gen
        BY <1>1, <1>4, <3>1
      <4>1. SamePadding(s, g, out, f, h, out, f)
        BY <4>0, PaddingLooksSame, Zenon
      <4>. QED
        BY <1>4, <2>1, <3>1, <4>1, TrimsLookSameIs
    <3>2. CASE s \in S
      <4>1. SamplesFollowFor(g, out, f, s)
        BY DEF GenInv, SamplesFollow, SamplesFollowFor
      <4>. QED
        BY <1>2, <1>3, <1>5, <1>6, <1>7, <2>1, <3>2, <4>1, RoundKeepsTrims
    <3>. QED
      BY <3>1, <3>2
  <2>. QED
    BY <1>1, <2>1, <2>2 DEF TrimsFollow, TrimsFollowFor
<1>16. GenInv(h, out, f)
  BY <1>7, <1>8, <1>13, <1>14, <1>15, <1>a DEF GenInv
<1>. QED
  BY <1>4, <1>6, <1>16 DEF RoundKept

(* What is kept by calls that move frames without making any.                  *)
FramesKept(g, out, f, h, o2) ==
    /\ GenInv(h, o2, f)
    /\ \A s \in Substreams : /\ Rounds(h, f, s) = Rounds(g, f, s)
                             /\ h.labeled[s] = g.labeled[s]
                             /\ Len(FramesIn(h, o2, s)) = Len(FramesIn(g, out, s))

LEMMA KeptIfLooksSame ==
    ASSUME SetupOK, NEW out \in Seq([Substreams -> Frame]), NEW o2 \in Seq([Substreams -> Frame]),
           NEW f, NEW g, GenInv(g, out, f), NEW h, GenOK(h),
           \A s \in Substreams : LooksSame(s, g, out, h, o2),
           DOMAIN h.data \in {{}, DOMAIN g.data},
           \A s \in DOMAIN h.data : h.data[s] = g.data[s], TrimsFollow(h, o2, f)
    PROVE  FramesKept(g, out, f, h, o2)
<1>1. /\ g \in Gen /\ h \in Gen /\ FramesFollow(g, out) /\ SamplesFollow(g, out, f)
      /\ LeftAgrees(g, out) /\ LabelsWait(g, f)
  BY DEF GenInv, GenOK
<1>2. \A s \in Substreams : /\ Rounds(h, f, s) = Rounds(g, f, s)
                            /\ SamplesFollowFor(g, out, f, s) => SamplesFollowFor(h, o2, f, s)
                            /\ LabelWaits(g, f, s) => LabelWaits(h, f, s)
  BY <1>1, LooksSameKeeps
<1>3. \A s \in Substreams : FramesFollowFor(g, out, s) => FramesFollowFor(h, o2, s)
  BY <1>1, LooksSameIs
<1>4. FramesFollow(h, o2)
  BY <1>1, <1>3 DEF FramesFollow
<1>5. SamplesFollow(h, o2, f)
  BY <1>1, <1>2 DEF SamplesFollow, SamplesFollowFor
<1>6. LabelsWait(h, f)
  <2>1. ASSUME NEW s \in Substreams, NEW t \in SubstreamsOf(ElementOf[s])
        PROVE  Rounds(h, f, s) = Rounds(h, f, t)
    <3>1. t \in Substreams
      BY DEF SubstreamsOf
    <3>2. Rounds(g, f, s) = Rounds(g, f, t)
      BY <1>1 DEF LabelsWait
    <3>. QED
      BY <1>2, <3>1, <3>2
  <2>. QED
    BY <1>1, <1>2, <2>1 DEF LabelsWait
<1>7. \A s \in Substreams : /\ h.labeled[s] = g.labeled[s]
                            /\ Len(FramesIn(h, o2, s)) = Len(FramesIn(g, out, s))
  BY DEF LooksSame
<1>8. LeftAgrees(h, o2)
  <2>1. CASE DOMAIN h.data = {}
    BY <2>1 DEF LeftAgrees
  <2>2. CASE DOMAIN h.data = DOMAIN g.data
    <3>1. \A s \in DOMAIN g.data : s \in Substreams
      BY <1>1, GenParts
    <3>2. ASSUME NEW s \in DOMAIN h.data PROVE LeftAgreesFor(h, o2, s)
      <4>1. LeftAgreesFor(g, out, s) /\ h.data[s] = g.data[s] /\ s \in Substreams
        BY <1>1, <2>2, <3>1 DEF LeftAgrees
      <4>. QED
        BY <1>7, <4>1 DEF LeftAgreesFor
    <3>3. ASSUME NEW s \in DOMAIN h.data, NEW t \in SubstreamsOf(ElementOf[s])
          PROVE  LeftTogether(h, s, t)
      <4>1. LeftTogether(g, s, t)
        BY <1>1, <2>2 DEF LeftAgrees
      <4>2. t \in DOMAIN h.data /\ h.data[t] = g.data[t] /\ h.data[s] = g.data[s]
        BY <2>2, <4>1 DEF LeftTogether
      <4>. QED
        BY <4>1, <4>2 DEF LeftTogether
    <3>. QED
      BY <3>2, <3>3 DEF LeftAgrees
  <2>. QED
    BY <2>1, <2>2
<1>. QED
  BY <1>2, <1>4, <1>5, <1>6, <1>7, <1>8 DEF GenInv, FramesKept

FailedIs(g, h, out, f) ==
    GenInv(h, out, f) /\ ~h.ok /\ DOMAIN h.encoder = DOMAIN g.encoder

LEMMA FailedKeeps ==
    ASSUME SetupOK, NEW out \in Seq([Substreams -> Frame]), NEW f, NEW g, GenInv(g, out, f),
           TrimRefused
    PROVE  FailedIs(g, Failed(g), out, f)
<1>1. g \in Gen /\ GenOK(g)
  BY DEF GenInv, GenOK
<1>2. PICK h : h = Failed(g)
  OBVIOUS
<1>3. /\ h \in Gen /\ h.labeled = g.labeled /\ h.data = g.data /\ h.encoder = g.encoder
      /\ h.trimming = g.trimming /\ h.clock = g.clock /\ ~h.ok
  BY <1>1, <1>2 DEF Failed, Gen
<1>4. GenOK(h)
  BY <1>1, <1>3 DEF GenOK
<1>5. \A s \in Substreams : LooksSame(s, g, out, h, out) /\ TrimsLookSame(s, g, h, out, out)
  <2>. TAKE s \in Substreams
  <2>1. InsideOf(h, s) = InsideOf(g, s) /\ LeftObu(h, s) = LeftObu(g, s)
        /\ LeftInput(h, s) = LeftInput(g, s)
    BY <1>3 DEF InsideOf, LeftObu, LeftInput
  <2>2. FramesIn(h, out, s) = FramesIn(g, out, s)
    BY <2>1, Zenon DEF FramesIn
  <2>. QED
    BY <1>3, <2>1, <2>2, Zenon DEF LooksSame, TrimsLookSame, HasEnded
<1>a. TrimsFollow(h, out, f)
  <2>1. \A s \in Substreams : TrimsFollowFor(g, out, f, s)
    BY DEF GenInv, TrimsFollow, TrimsFollowFor
  <2>2. \A s \in Substreams : SamePadding(s, g, out, f, h, out, f)
    BY <1>1, <1>3, <1>5, PaddingLooksSame, Zenon
  <2>3. \A s \in Substreams : TrimsFollowFor(h, out, f, s)
    BY <1>5, <2>1, <2>2, TrimsLookSameIs
  <2>. QED
    BY <2>3 DEF TrimsFollow, TrimsFollowFor
<1>6. GenInv(h, out, f)
  BY <1>3, <1>4, <1>5, <1>a, KeptIfLooksSame DEF FramesKept
<1>. QED
  BY <1>2, <1>3, <1>6 DEF FailedIs

(* What InStep says before the last OutputFrames: all that was added is a      *)
(* frame, or waits for nothing.                                                *)
IsFrames(g, f, s) ==
    /\ g.labeled[s] = (IF Len(setup.chunks) = 0 THEN None ELSE <<>>)
    /\ f[s] = Len(setup.chunks) /\ Rounds(g, f, s) = Len(setup.chunks)

LEMMA AllWereAdded ==
    ASSUME SetupOK, NEW out \in Seq([Substreams -> Frame]),
           NEW f \in [Substreams -> 0..Len(setup.chunks)], NEW g, GenInv(g, out, f),
           OneIsMissing(g), \A t \in Substreams : f[t] = Len(setup.chunks), NEW s \in Substreams
    PROVE  IsFrames(g, f, s)
<1>1. PICK N \in Nat : N = Len(setup.chunks)
  BY DEF SetupOK, Setup
<1>2. PICK e \in Elements : e = ElementOf[s]
  BY ElementAssumption
<1>3. PICK t \in SubstreamsOf(e) : g.labeled[t] \in {None, <<>>}
  BY DEF OneIsMissing
<1>4. t \in Substreams /\ f[s] = N /\ f[t] = N
  BY <1>1, SubstreamsOfIs
<1>5. Rounds(g, f, s) = Rounds(g, f, t) /\ LabelWaits(g, f, s)
  BY <1>2 DEF GenInv, LabelsWait
<1>6. Rounds(g, f, t) = N
  BY <1>1, <1>3, <1>4 DEF Rounds
<1>7. g.labeled[s] \in {None, <<>>}
  <2>. SUFFICES ASSUME g.labeled[s] \notin {None, <<>>} PROVE FALSE
    OBVIOUS
  <2>1. Rounds(g, f, s) = f[s] - 1
    BY Zenon DEF Rounds
  <2>2. Rounds(g, f, s) = N
    BY <1>5, <1>6
  <2>. QED
    BY <1>4, <2>1, <2>2
<1>8. <<>> # None
  <2>1. <<>> \in Seq(Nat)
    OBVIOUS
  <2>. QED
    BY <2>1, NoneAssumption, Zenon
<1>9. N = 0 <=> g.labeled[s] = None
  BY <1>4, <1>5 DEF LabelWaits
<1>. QED
  BY <1>1, <1>4, <1>5, <1>6, <1>7, <1>8, <1>9 DEF IsFrames

LEMMA AllAreFrames ==
    ASSUME SetupOK, NEW out \in Seq([Substreams -> Frame]),
           NEW f \in [Substreams -> 0..Len(setup.chunks)], NEW g, GenInv(g, out, f),
           NEW st, st # "TakingSamples", InStep(g, out, f, st), g.ok, NEW s \in Substreams
    PROVE  IsFrames(g, f, s)
BY AllWereAdded DEF InStep

-------------------------------------------------------------------------------
(* AddSamples: the samples wait for those of the other channels; with the last *)
(* of them, a frame is made.                                                   *)
WithLabel(g, s, f) == [g EXCEPT !.labeled[s] = Chunk(f[s] + 1)]
OneMore(f, s) == [f EXCEPT ![s] = @ + 1]
MayAdd(g, out, f, s) ==
    /\ GenInv(g, out, f) /\ InStep(g, out, f, "TakingSamples") /\ g.ok
    /\ f[s] < Len(setup.chunks) /\ \A t \in SubstreamsOf(ElementOf[s]) : f[s] <= f[t]

(* h is g with a label and f2 is f with a call more.                           *)
Labeled(g, s, f, h, f2) ==
    /\ f2 \in [Substreams -> 0..Len(setup.chunks)] /\ f2[s] = f[s] + 1
    /\ f[s] + 1 \in 1..Len(setup.chunks) /\ \A t \in Substreams \ {s} : f2[t] = f[t]
    /\ h \in Gen /\ h.labeled[s] = Chunk(f[s] + 1)
    /\ \A t \in Substreams \ {s} : h.labeled[t] = g.labeled[t]
    /\ h.data = g.data /\ h.encoder = g.encoder /\ h.clock = g.clock /\ h.ok = g.ok
    /\ h.trimming = g.trimming

LEMMA AddIsTyped ==
    ASSUME SetupOK, NEW f \in [Substreams -> 0..Len(setup.chunks)], NEW s \in Substreams,
           f[s] < Len(setup.chunks), NEW g \in Gen
    PROVE  Labeled(g, s, f, WithLabel(g, s, f), OneMore(f, s))
<1>1. PICK N \in Nat : N = Len(setup.chunks)
  BY DEF SetupOK, Setup
<1>2. f[s] \in 0..N /\ f[s] < N /\ f[s] + 1 \in 1..N /\ f[s] + 1 \in 0..N
  BY <1>1
<1>3. OneMore(f, s) \in [Substreams -> 0..N]
  BY <1>1, <1>2 DEF OneMore
<1>4. OneMore(f, s)[s] = f[s] + 1 /\ \A t \in Substreams \ {s} : OneMore(f, s)[t] = f[t]
  BY <1>1, <1>2 DEF OneMore
<1>5. PICK c \in Seq(Nat) : c = Chunk(f[s] + 1)
  BY <1>1, <1>2, ChunkIs
<1>6. PICK h : h = WithLabel(g, s, f)
  OBVIOUS
<1>7. h = [g EXCEPT !.labeled[s] = c]
  BY <1>5, <1>6, Zenon DEF WithLabel
<1>8. /\ h \in Gen /\ h.labeled = [g.labeled EXCEPT ![s] = c] /\ h.data = g.data
      /\ h.encoder = g.encoder /\ h.clock = g.clock /\ h.ok = g.ok /\ h.trimming = g.trimming
  BY <1>7 DEF Gen
<1>9. h.labeled[s] = c /\ \A t \in Substreams \ {s} : h.labeled[t] = g.labeled[t]
  <2>1. g.labeled \in [Substreams -> Seq(Nat) \union {None}]
    BY GenParts
  <2>. QED
    BY <1>8, <2>1
<1>. QED
  BY <1>1, <1>2, <1>3, <1>4, <1>5, <1>6, <1>8, <1>9 DEF Labeled

(* The new samples are not in the frames yet.                                  *)
SamplesWait(g, out, f, s, h, f2) ==
    /\ GenInv(h, out, f2) /\ h.labeled[s] \notin {None, <<>>}
    /\ \A t \in Substreams : /\ Rounds(h, f2, t) = Rounds(g, f, t)
                             /\ FramesIn(h, out, t) = FramesIn(g, out, t)

LEMMA SamplesThatWait ==
    ASSUME SetupOK, NEW out \in Seq([Substreams -> Frame]),
           NEW f \in [Substreams -> 0..Len(setup.chunks)], NEW s \in Substreams,
           NEW g, MayAdd(g, out, f, s), NEW h, h = WithLabel(g, s, f), NEW f2, f2 = OneMore(f, s)
    PROVE  SamplesWait(g, out, f, s, h, f2)
<1>0. <<>> # None
  <2>1. <<>> \in Seq(Nat)
    OBVIOUS
  <2>. QED
    BY <2>1, NoneAssumption, Zenon
<1>1. PICK N \in Nat : N = Len(setup.chunks)
  BY DEF SetupOK, Setup
<1>2. /\ g \in Gen /\ GenOK(g) /\ FramesFollow(g, out) /\ SamplesFollow(g, out, f)
      /\ LeftAgrees(g, out) /\ LabelsWait(g, f) /\ f[s] < N
      /\ \A t \in SubstreamsOf(ElementOf[s]) : f[s] <= f[t]
  BY <1>1 DEF MayAdd, GenInv, GenOK
<1>3. /\ f2 \in [Substreams -> 0..N] /\ f2[s] = f[s] + 1 /\ f[s] + 1 \in 1..N
      /\ \A t \in Substreams \ {s} : f2[t] = f[t] /\ h.labeled[t] = g.labeled[t]
      /\ h \in Gen /\ h.labeled[s] = Chunk(f[s] + 1)
      /\ h.data = g.data /\ h.encoder = g.encoder /\ h.clock = g.clock /\ h.ok = g.ok
      /\ h.trimming = g.trimming
  <2>1. Labeled(g, s, f, h, f2)
    BY <1>1, <1>2, AddIsTyped
  <2>. QED
    BY <1>1, <2>1 DEF Labeled
<1>4. h.labeled[s] \notin {None, <<>>}
  BY <1>1, <1>3, ChunkIs
<1>5. g.labeled[s] \in {None, <<>>}
  <2>1. PICK e \in Elements : e = ElementOf[s]
    BY ElementAssumption
  <2>2. PICK t \in SubstreamsOf(e) : g.labeled[t] \in {None, <<>>}
    BY DEF MayAdd, InStep, OneIsMissing
  <2>3. Rounds(g, f, s) = Rounds(g, f, t) /\ f[s] <= f[t] /\ t \in Substreams
    BY <1>2, <2>1, SubstreamsOfIs DEF LabelsWait
  <2>4. Rounds(g, f, t) = f[t] - 0
    BY <2>2, Zenon DEF Rounds
  <2>. SUFFICES ASSUME g.labeled[s] \notin {None, <<>>} PROVE FALSE
    OBVIOUS
  <2>5. Rounds(g, f, s) = f[s] - 1
    BY Zenon DEF Rounds
  <2>6. f[s] \in Nat /\ f[t] \in Nat
    BY <1>1, <2>3
  <2>. QED
    BY <2>3, <2>4, <2>5, <2>6
<1>6. \A t \in Substreams : Rounds(h, f2, t) = Rounds(g, f, t)
  <2>. TAKE t \in Substreams
  <2>1. CASE t = s
    <3>1. Rounds(h, f2, s) = f2[s] - 1
      BY <1>4, Zenon DEF Rounds
    <3>2. Rounds(g, f, s) = f[s] - 0
      BY <1>5, Zenon DEF Rounds
    <3>3. f[s] \in Nat
      BY <1>1
    <3>. QED
      BY <1>3, <2>1, <3>1, <3>2, <3>3
  <2>2. CASE t # s
    BY <1>3, <2>2 DEF Rounds
  <2>. QED
    BY <2>1, <2>2
<1>7. \A t \in Substreams : /\ FramesIn(h, out, t) = FramesIn(g, out, t)
                            /\ Obus(h, out, t) = Obus(g, out, t)
                            /\ Inputs(h, out, t) = Inputs(g, out, t)
                            /\ LeftObu(h, t) = LeftObu(g, t) /\ LeftInput(h, t) = LeftInput(g, t)
  <2>. TAKE t \in Substreams
  <2>1. InsideOf(h, t) = InsideOf(g, t)
    BY <1>3, Zenon DEF InsideOf
  <2>2. FramesIn(h, out, t) = FramesIn(g, out, t)
    BY <2>1, Zenon DEF FramesIn
  <2>3. Obus(h, out, t) = Obus(g, out, t) /\ Inputs(h, out, t) = Inputs(g, out, t)
    BY <2>2, Zenon DEF Obus, Inputs
  <2>4. LeftObu(h, t) = LeftObu(g, t) /\ LeftInput(h, t) = LeftInput(g, t)
    BY <1>3, Zenon DEF LeftObu, LeftInput
  <2>. QED
    BY <2>2, <2>3, <2>4
<1>8. GenOK(h)
  BY <1>2, <1>3 DEF GenOK
<1>9. FramesFollow(h, out)
  <2>1. ASSUME NEW t \in Substreams PROVE FramesFollowFor(h, out, t)
    <3>1. FramesFollowFor(g, out, t) /\ h.clock[t] = g.clock[t] /\ FramesIn(h, out, t) = FramesIn(g, out, t)
      BY <1>2, <1>3, <1>7 DEF FramesFollow
    <3>. QED
      BY <3>1, Zenon DEF FramesFollowFor
  <2>. QED
    BY <2>1 DEF FramesFollow
<1>10. SamplesFollow(h, out, f2)
  <2>1. ASSUME NEW t \in Substreams
        PROVE  SamplesOK(Rounds(h, f2, t), setup.delay[ElementOf[t]], ObuSamplesIn(h, out, t),
                         EncoderInputIn(h, out, t), LeftObu(h, t))
    <3>1. SamplesOK(Rounds(g, f, t), setup.delay[ElementOf[t]], ObuSamplesIn(g, out, t),
                    EncoderInputIn(g, out, t), LeftObu(g, t))
      BY <1>2 DEF SamplesFollow
    <3>2. ObuSamplesIn(h, out, t) = ObuSamplesIn(g, out, t)
          /\ EncoderInputIn(h, out, t) = EncoderInputIn(g, out, t)
      BY <1>7, Zenon DEF ObuSamplesIn, EncoderInputIn
    <3>3. Rounds(h, f2, t) = Rounds(g, f, t) /\ LeftObu(h, t) = LeftObu(g, t)
      BY <1>6, <1>7
    <3>. QED
      BY <3>1, <3>2, <3>3, Zenon
  <2>. QED
    BY <2>1 DEF SamplesFollow
<1>11. LeftAgrees(h, out)
  <2>1. \A t \in DOMAIN h.data : t \in Substreams
    BY <1>3, GenParts
  <2>2. ASSUME NEW t \in DOMAIN h.data
        PROVE  /\ LeftAgreesFor(h, out, t)
               /\ \A z \in SubstreamsOf(ElementOf[t]) : LeftTogether(h, t, z)
    <3>1. /\ LeftAgreesFor(g, out, t)
          /\ \A z \in SubstreamsOf(ElementOf[t]) : LeftTogether(g, t, z)
      BY <1>2, <1>3 DEF LeftAgrees
    <3>. QED
      BY <1>3, <1>7, <2>1, <3>1, Zenon DEF LeftAgreesFor, LeftTogether
  <2>. QED
    BY <2>2 DEF LeftAgrees
<1>12. LabelsWait(h, f2)
  <2>1. ASSUME NEW t \in Substreams PROVE LabelWaits(h, f2, t)
    <3>1. CASE t = s
      <4>1. f2[s] # 0 /\ f2[s] = f[s] + 1
        BY <1>3
      <4>. QED
        BY <1>3, <1>4, <3>1, <4>1, Zenon DEF LabelWaits
    <3>2. CASE t # s
      <4>1. LabelWaits(g, f, t) /\ f2[t] = f[t] /\ h.labeled[t] = g.labeled[t]
        BY <1>2, <1>3, <3>2 DEF LabelsWait
      <4>. QED
        BY <4>1, Zenon DEF LabelWaits
    <3>. QED
      BY <3>1, <3>2
  <2>2. ASSUME NEW t \in Substreams, NEW z \in SubstreamsOf(ElementOf[t])
        PROVE  Rounds(h, f2, t) = Rounds(h, f2, z)
    <3>1. z \in Substreams /\ Rounds(g, f, t) = Rounds(g, f, z)
      BY <1>2 DEF LabelsWait, SubstreamsOf
    <3>. QED
      BY <1>6, <3>1
  <2>. QED
    BY <2>1, <2>2 DEF LabelsWait
<1>a. TrimsFollow(h, out, f2)
  <2>1. ASSUME NEW t \in Substreams PROVE TrimsFollowFor(h, out, f2, t)
    <3>1. TrimsFollowFor(g, out, f, t)
      BY DEF MayAdd, GenInv, TrimsFollow, TrimsFollowFor
    <3>2. ObuSamplesIn(h, out, t) = ObuSamplesIn(g, out, t)
      BY <1>7, Zenon DEF ObuSamplesIn
    <3>3. SamePadding(t, g, out, f, h, out, f2)
      BY <1>6, <3>2, Zenon DEF PaddingIn, SamePadding
    <3>4. TrimsLookSame(t, g, h, out, out)
      BY <1>3, <1>7, Zenon DEF TrimsLookSame, HasEnded
    <3>. QED
      BY <3>1, <3>3, <3>4, TrimsLookSameIs
  <2>. QED
    BY <1>3, <2>1 DEF MayAdd, TrimsFollow, TrimsFollowFor
<1>13. GenInv(h, out, f2)
  BY <1>8, <1>9, <1>10, <1>11, <1>12, <1>a DEF GenInv
<1>. QED
  BY <1>4, <1>6, <1>7, <1>13 DEF SamplesWait

LEMMA NothingFinished ==
    ASSUME NEW z, GenOK(z), DOMAIN z.data = Substreams, ~leftover
    PROVE  EndsAsAsked(z, "TakingSamples")
<1>1. \A s \in DOMAIN z.encoder : ~z.encoder[s].finished
  BY GenParts DEF GenOK
<1>. QED
  BY <1>1 DEF EndsAsAsked

SameEncoders(g, h) == DOMAIN h.encoder = DOMAIN g.encoder

LEMMA AddSamplesKeeps ==
    ASSUME SetupOK, NEW out \in Seq([Substreams -> Frame]),
           NEW f \in [Substreams -> 0..Len(setup.chunks)], NEW s \in Substreams,
           NEW g, MayAdd(g, out, f, s), NEW g1, g1 = WithLabel(g, s, f), NEW f2, f2 = OneMore(f, s),
           NEW h, h = MaybeEncodeFramesForAudioElement(ElementOf[s], g1)
    PROVE  /\ GenInv(h, out, f2) /\ InStep(h, out, f2, "TakingSamples")
           /\ SameEncoders(g, h)
<1>1. PICK e \in Elements : e = ElementOf[s]
  BY ElementAssumption
<1>2. /\ GenInv(g1, out, f2) /\ g1 \in Gen /\ g1.labeled[s] \notin {None, <<>>}
      /\ \A t \in Substreams : /\ Rounds(g1, f2, t) = Rounds(g, f, t)
                               /\ FramesIn(g1, out, t) = FramesIn(g, out, t)
  <2>1. /\ GenInv(g1, out, f2) /\ g1.labeled[s] \notin {None, <<>>}
        /\ \A t \in Substreams : /\ Rounds(g1, f2, t) = Rounds(g, f, t)
                                 /\ FramesIn(g1, out, t) = FramesIn(g, out, t)
    <3>1. SamplesWait(g, out, f, s, g1, f2)
      BY SamplesThatWait
    <3>. QED
      BY <3>1 DEF SamplesWait
  <2>. QED
    BY <2>1 DEF GenInv, GenOK
<1>3. /\ g \in Gen /\ g.ok /\ f[s] < Len(setup.chunks)
      /\ DOMAIN g.data = Substreams /\ DOMAIN g.encoder \in {{}, Substreams}
      /\ OneIsMissing(g) /\ \A t \in Substreams : Len(FramesIn(g, out, t)) = Rounds(g, f, t)
      /\ DOMAIN g.data \subseteq DOMAIN g.encoder
  BY DEF MayAdd, InStep, GenInv, GenOK
<1>4. /\ f2 \in [Substreams -> 0..Len(setup.chunks)]
      /\ g1.data = g.data /\ g1.encoder = g.encoder /\ g1.ok
      /\ \A t \in Substreams \ {s} : g1.labeled[t] = g.labeled[t]
  <2>1. Labeled(g, s, f, g1, f2)
    BY <1>3, AddIsTyped
  <2>. QED
    BY <1>3, <2>1 DEF Labeled
<1>5. /\ e = ElementOf[s] /\ s \in SubstreamsOf(e) /\ SubstreamsOf(e) \subseteq Substreams
      /\ \A d \in Elements \ {e} : \A t \in SubstreamsOf(d) : t \in Substreams \ SubstreamsOf(e)
  BY <1>1 DEF SubstreamsOf
<1>6. ASSUME NEW z, GenOK(z), z.ok, DOMAIN z.data = Substreams, DOMAIN z.encoder = DOMAIN g.encoder,
             \A t \in Substreams : Len(FramesIn(z, out, t)) = Rounds(z, f2, t),
             \A t \in Substreams \ SubstreamsOf(e) : z.labeled[t] = g.labeled[t],
             \E t \in SubstreamsOf(e) : z.labeled[t] \in {None, <<>>}
      PROVE  InStep(z, out, f2, "TakingSamples")
  <2>1. OneIsMissing(z)
    <3>1. ASSUME NEW d \in Elements, d # e
          PROVE  \E t \in SubstreamsOf(d) : z.labeled[t] \in {None, <<>>}
      <4>1. PICK t \in SubstreamsOf(d) : g.labeled[t] \in {None, <<>>}
        BY <1>3 DEF OneIsMissing
      <4>2. z.labeled[t] = g.labeled[t]
        BY <1>5, <1>6, <3>1
      <4>. QED
        BY <4>1, <4>2
    <3>. QED
      BY <1>6, <3>1 DEF OneIsMissing
  <2>2. EndsAsAsked(z, "TakingSamples")
    <3>1. ~leftover
      BY DEF MayAdd, InStep, EndsAsAsked
    <3>. QED
      BY <1>6, <3>1, NothingFinished
  <2>. QED
    BY <1>3, <1>6, <2>1, <2>2 DEF InStep
<1>7. CASE \E t \in SubstreamsOf(e) : g1.labeled[t] \in {None, <<>>}
  <2>1. PICK t \in SubstreamsOf(e) : g1.labeled[t] \in {None, <<>>}
    BY <1>7
  <2>2. ~SamplesReadyForAudioElement(e, g1)
    <3>. SUFFICES ASSUME SamplesReadyForAudioElement(e, g1) PROVE FALSE
      OBVIOUS
    <3>1. g1.labeled[t] = <<>> /\ Len(g1.labeled[t]) = Len(g1.labeled[s])
      BY <1>5, <2>1 DEF SamplesReadyForAudioElement
    <3>2. PICK q \in Seq(Nat) : q = g1.labeled[s]
      BY <1>2, GenParts
    <3>3. Len(q) = 0
      BY <3>1, <3>2
    <3>4. q = <<>>
      BY <3>3, EmptySeq
    <3>. QED
      BY <1>2, <3>2, <3>4
  <2>3. h = g1
    BY <1>1, <2>2, Zenon DEF MaybeEncodeFramesForAudioElement
  <2>4. InStep(g1, out, f2, "TakingSamples")
    <3>1. \A r \in Substreams \ SubstreamsOf(e) : g1.labeled[r] = g.labeled[r]
      BY <1>4, <1>5
    <3>2. \A r \in Substreams : Len(FramesIn(g1, out, r)) = Rounds(g1, f2, r)
      BY <1>2, <1>3
    <3>. QED
      BY <1>2, <1>3, <1>4, <1>6, <1>7, <3>1, <3>2 DEF GenInv
  <2>. QED
    BY <1>2, <1>4, <2>3, <2>4 DEF SameEncoders
<1>8. CASE \A t \in SubstreamsOf(e) : g1.labeled[t] \notin {None, <<>>}
  <2>1. \A t \in SubstreamsOf(e) : /\ g1.labeled[t] = Chunk(f2[t]) /\ f2[t] \in 1..Len(setup.chunks)
                                   /\ Rounds(g1, f2, t) = f2[t] - 1 /\ f2[t] = f2[s]
    <3>. TAKE t \in SubstreamsOf(e)
    <3>1. LabelWaits(g1, f2, t) /\ Rounds(g1, f2, s) = Rounds(g1, f2, t)
      BY <1>1, <1>2, <1>5 DEF GenInv, LabelsWait
    <3>2. g1.labeled[t] = Chunk(f2[t]) /\ f2[t] # 0
      BY <1>8, <3>1, Zenon DEF LabelWaits
    <3>3. Rounds(g1, f2, t) = f2[t] - 1 /\ Rounds(g1, f2, s) = f2[s] - 1
      BY <1>5, <1>8, Zenon DEF Rounds
    <3>4. PICK N \in Nat : N = Len(setup.chunks)
      BY DEF SetupOK, Setup
    <3>5. f2[t] \in 0..N /\ f2[s] \in 0..N
      BY <1>4, <1>5, <3>4
    <3>6. f2[t] \in 1..N /\ f2[t] = f2[s]
      BY <3>1, <3>2, <3>3, <3>5
    <3>. QED
      BY <3>2, <3>3, <3>4, <3>6
  <2>2. ReadyToEncode(e, g1)
    <3>1. \A t \in SubstreamsOf(e) : g1.labeled[t] \in Seq(Nat) /\ g1.labeled[t] # <<>>
      BY <2>1, <1>8, ChunkIs, SMTT(30)
    <3>2. \A t, z \in SubstreamsOf(e) : /\ Len(g1.data[t].inObu) = Len(g1.data[z].inObu)
                                        /\ Len(g1.data[t].toEncode) = Len(g1.data[z].toEncode)
      <4>. TAKE t, z \in SubstreamsOf(e)
      <4>1. t \in DOMAIN g1.data /\ z \in SubstreamsOf(ElementOf[t])
        BY <1>3, <1>4, <1>5 DEF SubstreamsOf
      <4>2. LeftTogether(g1, t, z)
        BY <1>2, <4>1 DEF GenInv, LeftAgrees
      <4>. QED
        BY <4>2 DEF LeftTogether
    <3>3. \A t, z \in SubstreamsOf(e) : Len(g1.labeled[t]) = Len(g1.labeled[z])
      BY <2>1
    <3>4. ~NoSampleAdded(e, g1)
      BY <1>5, <3>1 DEF NoSampleAdded
    <3>. QED
      BY <1>2, <1>3, <1>4, <1>5, <3>1, <3>2, <3>3, <3>4 DEF ReadyToEncode
  <2>3. Supplied(e, g1, out, f2)
    <3>1. \A t \in SubstreamsOf(e) : Len(FramesIn(g1, out, t)) + 1 = f2[t]
      <4>. TAKE t \in SubstreamsOf(e)
      <4>1. Len(FramesIn(g1, out, t)) = f2[t] - 1 /\ f2[t] \in Int
        BY <1>2, <1>3, <1>5, <2>1
      <4>. QED
        BY <4>1
    <3>. QED
      BY <2>1, <3>1 DEF Supplied
  <2>4. \/ h = Failed(g1) /\ \E t \in SubstreamsOf(e) : PadIsRefused(t, g1)
        \/ RoundOf(e, g1, h)
    BY <1>1, <2>2, EncodesARound
  <2>5. CASE h = Failed(g1) /\ \E t \in SubstreamsOf(e) : PadIsRefused(t, g1)
    <3>0. TrimRefused
      <4>1. PICK t \in SubstreamsOf(e) : PadIsRefused(t, g1)
        BY <2>5
      <4>. QED
        BY <1>2, <2>2, <2>3, <4>1, RefusedRound, Zenon
    <3>1. FailedIs(g1, h, out, f2)
      BY <1>2, <2>5, <3>0, FailedKeeps, Zenon
    <3>. QED
      BY <1>4, <3>1 DEF FailedIs, InStep, SameEncoders
  <2>6. CASE RoundOf(e, g1, h)
    <3>1. /\ GenInv(h, out, f2)
          /\ \A t \in SubstreamsOf(e) : /\ Len(FramesIn(h, out, t)) = Len(FramesIn(g1, out, t)) + 1
                                        /\ h.labeled[t] = <<>>
          /\ \A t \in Substreams \ SubstreamsOf(e) :
                /\ FramesIn(h, out, t) = FramesIn(g1, out, t) /\ h.labeled[t] = g1.labeled[t]
      <4>1. RoundKept(e, g1, out, f2, h)
        BY <1>2, <1>4, <2>2, <2>3, <2>6, RoundKeeps
      <4>. QED
        BY <4>1 DEF RoundKept
    <3>2. h.ok /\ DOMAIN h.data = Substreams /\ DOMAIN h.encoder = DOMAIN g.encoder
      BY <1>3, <1>4, <2>6 DEF RoundOf
    <3>3. \A t \in Substreams : Len(FramesIn(h, out, t)) = Rounds(h, f2, t)
      <4>. TAKE t \in Substreams
      <4>1. CASE t \in SubstreamsOf(e)
        <5>1. Len(FramesIn(h, out, t)) = Rounds(g1, f2, t) + 1
          BY <1>2, <1>3, <3>1, <4>1
        <5>2. Rounds(h, f2, t) = f2[t] - 0
          BY <3>1, <4>1, Zenon DEF Rounds
        <5>3. Rounds(g1, f2, t) = f2[t] - 1 /\ f2[t] \in Int
          BY <2>1, <4>1
        <5>. QED
          BY <5>1, <5>2, <5>3
      <4>2. CASE t \notin SubstreamsOf(e)
        <5>1. Rounds(h, f2, t) = Rounds(g1, f2, t)
          BY <3>1, <4>2 DEF Rounds
        <5>. QED
          BY <1>2, <1>3, <3>1, <4>2, <5>1
      <4>. QED
        BY <4>1, <4>2
    <3>4. \A t \in Substreams \ SubstreamsOf(e) : h.labeled[t] = g.labeled[t]
      BY <1>4, <1>5, <3>1
    <3>5. InStep(h, out, f2, "TakingSamples")
      <4>1. \E t \in SubstreamsOf(e) : h.labeled[t] \in {None, <<>>}
        BY <1>5, <3>1
      <4>. QED
        BY <1>6, <3>1, <3>2, <3>3, <3>4, <4>1 DEF GenInv
    <3>. QED
      BY <3>1, <3>2, <3>5 DEF SameEncoders
  <2>. QED
    BY <2>4, <2>5, <2>6
<1>. QED
  BY <1>7, <1>8

-------------------------------------------------------------------------------
(* Frames that were output and those that are inside.                          *)
FramesAreFor(g, out, s) ==
    /\ InsideOf(g, s) \in Seq(Frame) /\ Len(InsideOf(g, s)) \in Nat /\ Len(out) \in Nat
    /\ Len(FramesIn(g, out, s)) = Len(out) + Len(InsideOf(g, s))
    /\ InsideOf(g, s) = <<>> <=> Len(InsideOf(g, s)) = 0

LEMMA FramesAre ==
    ASSUME NEW g \in Gen, NEW out \in Seq([Substreams -> Frame]), NEW s \in Substreams
    PROVE  FramesAreFor(g, out, s)
<1>1. PICK a, b \in Seq(Frame) : a = [k \in DOMAIN out |-> out[k][s]] /\ b = InsideOf(g, s)
  BY FramesType
<1>2. Len(a \o b) = Len(a) + Len(b)
  BY ConcatProperties
<1>3. Len(a) = Len(out) /\ Len(out) \in Nat /\ Len(b) \in Nat
  BY <1>1
<1>4. b = <<>> <=> Len(b) = 0
  BY EmptySeq
<1>5. FramesIn(g, out, s) = a \o b
  BY <1>1, Zenon DEF FramesIn
<1>. QED
  BY <1>1, <1>2, <1>3, <1>4, <1>5, Zenon DEF FramesAreFor

(* The last OutputFrames: a frame more is made of what is left of each element.*)
CanFlush(g, out, f) ==
    /\ GenInv(g, out, f) /\ InStep(g, out, f, "FlushingRemaining") /\ g.ok
    /\ Len(setup.chunks) # 0 /\ DOMAIN g.data = Substreams
    /\ \A s \in Substreams : g.data[s].inObu # <<>>
FlushedTo(g, out, f, done, h) ==
    /\ GenInv(h, out, f) /\ DOMAIN h.encoder = DOMAIN g.encoder
    /\ h.ok => /\ DOMAIN h.data = Substreams
               /\ \A s \in Substreams :
                     /\ h.labeled[s] = <<>>
                     /\ Len(FramesIn(h, out, s))
                            = Len(FramesIn(g, out, s)) + (IF ElementOf[s] \in done THEN 1 ELSE 0)

LEMMA FlushAnother ==
    ASSUME SetupOK, NEW out \in Seq([Substreams -> Frame]),
           NEW f \in [Substreams -> 0..Len(setup.chunks)], NEW g, CanFlush(g, out, f),
           NEW done, NEW h, FlushedTo(g, out, f, done, h), h.ok, NEW e \in Elements \ done
    PROVE  FlushedTo(g, out, f, done \union {e}, MaybeEncodeFramesForAudioElement(e, h))
<1>. DEFINE S == SubstreamsOf(e)
<1>1. /\ GenInv(h, out, f) /\ h \in Gen /\ g \in Gen /\ DOMAIN h.encoder = DOMAIN g.encoder
      /\ DOMAIN h.data = Substreams /\ DOMAIN g.data = Substreams
      /\ DOMAIN h.data \subseteq DOMAIN h.encoder
      /\ \A s \in Substreams : h.labeled[s] = <<>> /\ g.data[s].inObu # <<>>
  BY DEF FlushedTo, CanFlush, GenInv, GenOK
<1>2. S \subseteq Substreams /\ S # {} /\ \A s \in S : ElementOf[s] = e
  BY SubstreamsOfIs DEF SubstreamsOf
<1>3. \A s \in S : Len(FramesIn(h, out, s)) = Len(FramesIn(g, out, s))
  <2>. TAKE s \in S
  <2>1. Len(FramesIn(h, out, s)) = Len(FramesIn(g, out, s)) + 0
    BY <1>2, Zenon DEF FlushedTo
  <2>2. FramesIn(g, out, s) \in Seq(Frame)
    BY <1>1, <1>2, FramesType
  <2>. QED
    BY <2>1, <2>2
<1>4. \A s \in S : h.data[s].inObu # <<>>
  <2>. TAKE s \in S
  <2>1. LeftAgreesFor(h, out, s) /\ LeftAgreesFor(g, out, s)
    BY <1>1, <1>2 DEF CanFlush, GenInv, LeftAgrees
  <2>2. Len(h.data[s].inObu) = Len(g.data[s].inObu)
    BY <1>3, <2>1 DEF LeftAgreesFor
  <2>3. PICK q \in Seq(Nat) : q = g.data[s].inObu
    BY <1>1, <1>2, GenParts DEF Data
  <2>4. Len(q) # 0
    BY <1>1, <1>2, <2>3, EmptySeq
  <2>. QED
    BY <2>2, <2>3, <2>4
<1>5. ReadyToEncode(e, h)
  <2>1. \A s, t \in S : /\ Len(h.data[s].inObu) = Len(h.data[t].inObu)
                        /\ Len(h.data[s].toEncode) = Len(h.data[t].toEncode)
    <3>. TAKE s, t \in S
    <3>1. LeftTogether(h, s, t)
      BY <1>1, <1>2 DEF GenInv, LeftAgrees
    <3>. QED
      BY <3>1 DEF LeftTogether
  <2>2. \A s \in S : h.labeled[s] \in Seq(Nat)
    <3>1. <<>> \in Seq(Nat) /\ \A s \in S : h.labeled[s] = <<>>
      BY <1>1, <1>2
    <3>. QED
      BY <3>1, Zenon
  <2>. QED
    BY <1>1, <1>2, <1>4, <2>1, <2>2 DEF ReadyToEncode
<1>6. Supplied(e, h, out, f)
  <2>1. \A s \in S : f[s] = Len(setup.chunks) /\ Len(setup.chunks) <= Len(FramesIn(h, out, s))
    <3>. TAKE s \in S
    <3>1. f[s] = Len(setup.chunks) /\ Rounds(g, f, s) = Len(setup.chunks)
      BY <1>2, AllAreFrames DEF IsFrames, CanFlush
    <3>2. Rounds(g, f, s) <= Len(FramesIn(g, out, s))
      BY <1>2 DEF CanFlush, InStep
    <3>. QED
      BY <1>3, <3>1, <3>2
  <2>. QED
    BY <1>1, <1>2, <1>4, <2>1 DEF Supplied
<1>7. PICK k : k = MaybeEncodeFramesForAudioElement(e, h)
  OBVIOUS
<1>8. \/ k = Failed(h) /\ \E s \in S : PadIsRefused(s, h)
      \/ RoundOf(e, h, k)
  BY <1>5, <1>7, EncodesARound
<1>9. CASE k = Failed(h) /\ \E s \in S : PadIsRefused(s, h)
  <2>0. TrimRefused
    <3>1. PICK s \in SubstreamsOf(e) : PadIsRefused(s, h)
      BY <1>9
    <3>. QED
      BY <1>1, <1>5, <1>6, <3>1, RefusedRound, Zenon
  <2>1. FailedIs(h, k, out, f)
    BY <1>1, <1>9, <2>0, FailedKeeps, Zenon
  <2>. QED
    BY <1>1, <1>7, <2>1 DEF FailedIs, FlushedTo
<1>10. CASE RoundOf(e, h, k)
  <2>1. RoundKept(e, h, out, f, k)
    BY <1>1, <1>5, <1>6, <1>10, RoundKeeps
  <2>2. DOMAIN k.data = Substreams /\ DOMAIN k.encoder = DOMAIN g.encoder
    BY <1>1, <1>10 DEF RoundOf
  <2>3. ASSUME NEW s \in Substreams
        PROVE  /\ k.labeled[s] = <<>>
               /\ Len(FramesIn(k, out, s)) = Len(FramesIn(g, out, s))
                         + (IF ElementOf[s] \in done \union {e} THEN 1 ELSE 0)
    <3>1. CASE ElementOf[s] = e
      <4>1. s \in S
        BY <3>1 DEF SubstreamsOf
      <4>. QED
        BY <1>3, <2>1, <3>1, <4>1 DEF RoundKept
    <3>2. CASE ElementOf[s] # e
      <4>1. s \in Substreams \ S
        BY <3>2 DEF SubstreamsOf
      <4>2. FramesIn(k, out, s) = FramesIn(h, out, s) /\ k.labeled[s] = <<>>
        BY <1>1, <2>1, <4>1 DEF RoundKept
      <4>3. Len(FramesIn(h, out, s)) = Len(FramesIn(g, out, s))
                + (IF ElementOf[s] \in done THEN 1 ELSE 0)
        BY DEF FlushedTo
      <4>. QED
        BY <3>2, <4>2, <4>3
    <3>. QED
      BY <3>1, <3>2
  <2>4. GenInv(k, out, f)
    BY <2>1 DEF RoundKept
  <2>5. FlushedTo(g, out, f, done \union {e}, k)
    BY <2>2, <2>3, <2>4, Zenon DEF FlushedTo
  <2>. QED
    BY <1>7, <2>5
<1>. QED
  BY <1>8, <1>9, <1>10

(* All substreams end together.                                                *)
LEMMA EndTogether ==
    ASSUME NEW out, NEW f, NEW g, GenInv(g, out, f), InStep(g, out, f, "FlushingRemaining"), g.ok,
           NEW s \in DOMAIN g.data, g.data[s].inObu = <<>>, NEW t \in DOMAIN g.data
    PROVE  g.data[t].inObu = <<>>
<1>1. LeftAgreesFor(g, out, t) /\ LeftAgreesFor(g, out, s)
  BY DEF GenInv, LeftAgrees
<1>2. g \in Gen /\ s \in Substreams /\ t \in Substreams
  BY DEF GenInv, GenOK, InStep
<1>3. Len(FramesIn(g, out, t)) = Len(FramesIn(g, out, s))
  BY <1>2 DEF InStep
<1>4. Len(g.data[t].inObu) = Len(g.data[s].inObu)
  BY <1>1, <1>3 DEF LeftAgreesFor
<1>5. PICK q \in Seq(Nat) : q = g.data[t].inObu
  BY <1>2, GenParts DEF Data
<1>6. Len(q) = 0
  BY <1>4, <1>5
<1>. QED
  BY <1>5, <1>6, EmptySeq

(* new has nothing else for a member of the domain of m.                       *)
SaysNoMore(m, new) ==
    /\ \E V, X : m \in [X -> V]
    /\ \A z \in DOMAIN new \intersect DOMAIN m : new[z] = m[z]

LEMMA UpdatedIsSame ==
    ASSUME NEW m, NEW new, SaysNoMore(m, new)
    PROVE  Updated(m, new) = m
<1>1. PICK V, X : m \in [X -> V]
  BY DEF SaysNoMore
<1>2. Updated(m, new) = [z \in X |-> IF z \in DOMAIN new THEN new[z] ELSE m[z]]
  BY <1>1 DEF Updated
<1>3. \A z \in X : (IF z \in DOMAIN new THEN new[z] ELSE m[z]) = m[z]
  BY <1>1 DEF SaysNoMore
<1>. QED
  BY <1>1, <1>2, <1>3

(* Nothing is made of an element without samples, or to which none were added. *)
LEMMA NothingToFlush ==
    ASSUME SetupOK, NEW out \in Seq([Substreams -> Frame]),
           NEW f \in [Substreams -> 0..Len(setup.chunks)], NEW g, GenInv(g, out, f),
           InStep(g, out, f, "FlushingRemaining"), g.ok, ~CanFlush(g, out, f),
           NEW e \in Elements
    PROVE  MaybeEncodeFramesForAudioElement(e, g) = g
<1>1. PICK s \in SubstreamsOf(e) : s \in Substreams
  BY SubstreamsOfIs
<1>2. /\ g \in Gen /\ DOMAIN g.data \subseteq Substreams
      /\ SubstreamsOf(e) \subseteq Substreams
      /\ \A t \in Substreams : g.labeled[t] = (IF Len(setup.chunks) = 0 THEN None ELSE <<>>)
  <2>1. \A t \in Substreams : g.labeled[t] = (IF Len(setup.chunks) = 0 THEN None ELSE <<>>)
    BY AllAreFrames DEF IsFrames
  <2>. QED
    BY <2>1, GenParts, SubstreamsOfIs DEF GenInv, GenOK
<1>3. CASE Len(setup.chunks) = 0
  <2>1. ~SamplesReadyForAudioElement(e, g)
    BY <1>1, <1>2, <1>3 DEF SamplesReadyForAudioElement
  <2>. QED
    BY <2>1, Zenon DEF MaybeEncodeFramesForAudioElement
<1>4. CASE Len(setup.chunks) # 0
  <2>1. \A t \in DOMAIN g.data : g.data[t].inObu = <<>>
    <3>1. DOMAIN g.data \in {{}, Substreams}
      BY DEF InStep
    <3>2. CASE DOMAIN g.data = {}
      BY <3>2
    <3>3. CASE DOMAIN g.data = Substreams
      <4>1. PICK z \in Substreams : g.data[z].inObu = <<>>
        BY <1>4, <3>3 DEF CanFlush
      <4>. QED
        BY <3>3, <4>1, EndTogether
    <3>. QED
      BY <3>1, <3>2, <3>3
  <2>2. \A t \in SubstreamsOf(e) : g.labeled[t] = <<>>
    BY <1>2, <1>4
  <2>3. GetNextFrameSubstreamData(e, g) = g
    BY <2>1, <2>2, Zenon DEF GetNextFrameSubstreamData, NoSampleAdded
  <2>4. WithSamples(e, g) = {} /\ WithFrame(e, g) = {}
    BY <2>1 DEF WithSamples, WithFrame
  <2>5. Encoded(e, g) = g
    <3>. DEFINE newEncoder == [z \in {} |-> EncodeAudioFrame(g.encoder[z], setup.latency[e], FrameOf(z, g))]
                newData == [z \in {} |-> FrontEncoded(g.data[z])]
                newClock == [z \in {} |-> g.clock[z] + F]
                newLabeled == [z \in SubstreamsOf(e) |-> <<>>]
    <3>1. Encoded(e, g) = [g EXCEPT !.encoder = Updated(g.encoder, newEncoder),
                                    !.data = Updated(g.data, newData),
                                    !.clock = Updated(g.clock, newClock),
                                    !.labeled = Updated(g.labeled, newLabeled)]
      BY <2>4, Zenon DEF Encoded
    <3>2. /\ g.labeled \in [Substreams -> Seq(Nat) \union {None}] /\ g.data \in [DOMAIN g.data -> Data]
          /\ g.encoder \in [DOMAIN g.encoder -> Encoder] /\ g.clock \in [Substreams -> Nat]
      BY <1>2, GenParts
    <3>3. /\ SaysNoMore(g.encoder, newEncoder) /\ SaysNoMore(g.data, newData)
          /\ SaysNoMore(g.clock, newClock)
      BY <3>2 DEF SaysNoMore
    <3>4. SaysNoMore(g.labeled, newLabeled)
      BY <2>2, <3>2 DEF SaysNoMore
    <3>. HIDE DEF newEncoder, newData, newClock, newLabeled
    <3>5. /\ Updated(g.encoder, newEncoder) = g.encoder /\ Updated(g.data, newData) = g.data
          /\ Updated(g.clock, newClock) = g.clock /\ Updated(g.labeled, newLabeled) = g.labeled
      BY <3>3, <3>4, UpdatedIsSame, Zenon
    <3>8. Encoded(e, g) = [g EXCEPT !.encoder = g.encoder, !.data = g.data, !.clock = g.clock,
                                    !.labeled = g.labeled]
      BY <3>1, <3>5, Zenon
    <3>. QED
      BY <1>2, <3>8 DEF Gen
  <2>6. Iteration(e, g) = g
    BY <2>3, <2>5, Zenon DEF Iteration
  <2>. QED
    BY <2>4, <2>6, Zenon DEF MaybeEncodeFramesForAudioElement
<1>. QED
  BY <1>3, <1>4

Flushing == /\ SetupOK /\ output \in Seq([Substreams -> Frame])
            /\ fed \in [Substreams -> 0..Len(setup.chunks)] /\ GenInv(gen, output, fed)
            /\ InStep(gen, output, fed, "FlushingRemaining") /\ gen.ok

(* h may be reached when i elements are flushed.                               *)
FlushReached(order, i, h) ==
    IF CanFlush(gen, output, fed)
    THEN FlushedTo(gen, output, fed, {order[j] : j \in 1..i}, h) ELSE h = gen
FlushNext(order, i, h) ==
    IF h.ok THEN MaybeEncodeFramesForAudioElement(order[i], h) ELSE h

OrderOK(order) ==
    /\ Len(order) \in Nat
    /\ \A i \in 1..Len(order) : order[i] \in Elements
    /\ \A i, j \in 1..Len(order) : i # j => order[i] # order[j]
    /\ \A e \in Elements : \E i \in 1..Len(order) : order[i] = e

LEMMA OrderIs ==
    ASSUME NEW order \in SetToSeqs(Elements)
    PROVE  OrderOK(order)
<1>1. PICK n \in Nat : n = Cardinality(Elements)
  BY ElementAssumption, FS_CardinalityType
<1>2. order \in [1..n -> Elements] /\ \A i, j \in 1..n : i # j => order[i] # order[j]
  BY <1>1 DEF SetToSeqs
<1>3. Len(order) = n
  BY <1>2
<1>4. order \in Injection(1..n, Elements)
  BY <1>2 DEF Injection, IsInjective
<1>5. IsFiniteSet(1..n) /\ Cardinality(1..n) = n
  BY FS_Interval
<1>6. order \in Surjection(1..n, Elements)
  BY <1>1, <1>4, <1>5, ElementAssumption, FS_Injection
<1>7. \A e \in Elements : \E i \in 1..n : order[i] = e
  BY <1>6 DEF Surjection
<1>. QED
  BY <1>2, <1>3, <1>7 DEF OrderOK

LEMMA FlushNextIsReached ==
    ASSUME Flushing, NEW order, OrderOK(order), NEW i \in 1..Len(order), NEW h,
           FlushReached(order, i - 1, h)
    PROVE  FlushReached(order, i, FlushNext(order, i, h))
<1>1. /\ SetupOK /\ output \in Seq([Substreams -> Frame])
      /\ fed \in [Substreams -> 0..Len(setup.chunks)] /\ GenInv(gen, output, fed)
      /\ InStep(gen, output, fed, "FlushingRemaining") /\ gen.ok
  BY DEF Flushing
<1>2. PICK n \in Nat : /\ n = Len(order) /\ i \in 1..n /\ order[i] \in Elements
                       /\ \A j, k \in 1..n : j # k => order[j] # order[k]
  BY DEF OrderOK
<1>. DEFINE before == {order[j] : j \in 1..(i - 1)}
<1>3. CASE ~CanFlush(gen, output, fed)
  <2>1. h = gen
    BY <1>3 DEF FlushReached
  <2>2. MaybeEncodeFramesForAudioElement(order[i], gen) = gen
    BY <1>1, <1>2, <1>3, NothingToFlush
  <2>. QED
    BY <1>3, <2>1, <2>2, Zenon DEF FlushReached, FlushNext
<1>4. CASE CanFlush(gen, output, fed)
  <2>1. FlushedTo(gen, output, fed, before, h)
    BY <1>4 DEF FlushReached
  <2>2. {order[j] : j \in 1..i} = before \union {order[i]}
    <3>1. \A j \in 1..i : j \in 1..(i - 1) \/ j = i
      BY <1>2
    <3>2. \A j \in 1..(i - 1) : j \in 1..i
      BY <1>2
    <3>3. i \in 1..i
      BY <1>2
    <3>. QED
      BY <3>1, <3>2, <3>3
  <2>3. CASE h.ok
    <3>1. order[i] \notin before
      <4>1. \A j \in 1..(i - 1) : j \in 1..n /\ j # i
        BY <1>2
      <4>. QED
        BY <1>2, <4>1
    <3>. HIDE DEF before
    <3>2. FlushedTo(gen, output, fed, before \union {order[i]},
                    MaybeEncodeFramesForAudioElement(order[i], h))
      BY <1>1, <1>2, <1>4, <2>1, <2>3, <3>1, FlushAnother
    <3>. QED
      BY <1>4, <2>2, <2>3, <3>2, Zenon DEF FlushReached, FlushNext
  <2>4. CASE ~h.ok
    <3>1. FlushedTo(gen, output, fed, {order[j] : j \in 1..i}, h)
      BY <2>1, <2>4, Zenon DEF FlushedTo
    <3>. QED
      BY <1>4, <2>4, <3>1, Zenon DEF FlushReached, FlushNext
  <2>. QED
    BY <2>3, <2>4
<1>. QED
  BY <1>3, <1>4

(* f goes from one element to the next, as long as what it is at is reached.   *)
GoesOn(order, f) ==
    /\ f[0] = gen
    /\ \A i \in 1..Len(order) :
           FlushReached(order, i - 1, f[i - 1]) => f[i] = FlushNext(order, i, f[i - 1])

LEMMA AllAreReached ==
    ASSUME Flushing, NEW order, OrderOK(order), NEW f, GoesOn(order, f),
           NEW i \in 0..Len(order)
    PROVE  FlushReached(order, i, f[i])
<1>1. PICK n \in Nat : n = Len(order)
  BY DEF OrderOK
<1>. DEFINE T == {k \in Nat : k <= n => FlushReached(order, k, f[k])}
<1>2. FlushReached(order, 0, f[0])
  <2>1. f[0] = gen
    BY DEF GoesOn
  <2>2. CASE ~CanFlush(gen, output, fed)
    BY <2>1, <2>2 DEF FlushReached
  <2>3. CASE CanFlush(gen, output, fed)
    <3>1. \A s \in Substreams : gen.labeled[s] = <<>>
      <4>. TAKE s \in Substreams
      <4>1. /\ SetupOK /\ output \in Seq([Substreams -> Frame]) /\ GenInv(gen, output, fed)
            /\ fed \in [Substreams -> 0..Len(setup.chunks)] /\ gen.ok
            /\ InStep(gen, output, fed, "FlushingRemaining") /\ Len(setup.chunks) # 0
        BY <2>3 DEF Flushing, CanFlush
      <4>2. gen.labeled[s] = (IF Len(setup.chunks) = 0 THEN None ELSE <<>>)
        BY <4>1, AllAreFrames DEF IsFrames
      <4>. QED
        BY <4>1, <4>2
    <3>2. \A s \in Substreams : Len(FramesIn(gen, output, s)) = Len(FramesIn(gen, output, s)) + 0
      <4>. TAKE s \in Substreams
      <4>1. FramesIn(gen, output, s) \in Seq(Frame)
        BY FramesType DEF Flushing, GenInv, GenOK
      <4>. QED
        BY <4>1
    <3>3. {order[j] : j \in 1..0} = {}
      OBVIOUS
    <3>4. FlushedTo(gen, output, fed, {}, gen)
      BY <2>3, <3>1, <3>2 DEF FlushedTo, CanFlush
    <3>. QED
      BY <2>1, <2>3, <3>3, <3>4 DEF FlushReached
  <2>. QED
    BY <2>2, <2>3
<1>3. ASSUME NEW k \in Nat, k \in T PROVE k + 1 \in T
  <2>. SUFFICES ASSUME k + 1 <= n PROVE FlushReached(order, k + 1, f[k + 1])
    OBVIOUS
  <2>1. k + 1 \in 1..Len(order) /\ (k + 1) - 1 = k /\ FlushReached(order, k, f[k])
    BY <1>1, <1>3
  <2>2. f[k + 1] = FlushNext(order, k + 1, f[k])
    BY <2>1, Zenon DEF GoesOn
  <2>3. FlushReached(order, k + 1, FlushNext(order, k + 1, f[k]))
    BY <2>1, FlushNextIsReached
  <2>. QED
    BY <2>2, <2>3
<1>4. 0 \in T
  BY <1>2
<1>. HIDE DEF T
<1>5. \A k \in Nat : k \in T
  BY <1>3, <1>4, NumberInduction
<1>6. i \in Nat /\ i <= n /\ i \in T
  BY <1>1, <1>5
<1>. QED
  BY <1>6 DEF T

LEMMA FlushedIsReached ==
    ASSUME Flushing, NEW order, OrderOK(order)
    PROVE  FlushReached(order, Len(order), FlushedInOrder(order))
<1>1. PICK n \in Nat : n = Len(order)
  BY DEF OrderOK
<1>. DEFINE step == [i \in 1..n |-> [h \in Gen |->
                        IF FlushNext(order, i, h) \in Gen THEN FlushNext(order, i, h) ELSE h]]
            Eq(x) == [i \in 0..Len(order) |->
                        IF i = 0 THEN gen
                        ELSE IF x[i - 1].ok
                             THEN MaybeEncodeFramesForAudioElement(order[i], x[i - 1])
                             ELSE x[i - 1]]
<1>2. step \in StepsTo(n, Gen) /\ gen \in Gen
  BY DEF StepsTo, Flushing, GenInv, GenOK
<1>3. \A i \in 1..n : \A h \in Gen :
          step[i][h] = IF FlushNext(order, i, h) \in Gen THEN FlushNext(order, i, h) ELSE h
  BY DEF step
<1>4. PICK f : IteratesTo(f, n, Gen, gen, step)
  <2>. HIDE DEF step
  <2>. QED
    BY <1>1, <1>2, PositionRecursion
<1>5. \A i, h : FlushReached(order, i, h) => h \in Gen
  BY <1>2 DEF FlushReached, FlushedTo, GenInv, GenOK
<1>6. /\ f \in [0..n -> Gen] /\ f[0] = gen
      /\ \A i \in 1..n : f[i] = step[i][f[i - 1]] /\ i - 1 \in 0..n /\ f[i - 1] \in Gen
  <2>. HIDE DEF step
  <2>1. \A i \in 1..n : i - 1 \in 0..n
    BY <1>1
  <2>. QED
    BY <1>4, <2>1 DEF IteratesTo
<1>7. GoesOn(order, f)
  <2>. SUFFICES ASSUME NEW i \in 1..n, FlushReached(order, i - 1, f[i - 1])
                PROVE  f[i] = FlushNext(order, i, f[i - 1])
    BY <1>1, <1>6, Zenon DEF GoesOn
  <2>1. FlushReached(order, i, FlushNext(order, i, f[i - 1]))
    BY <1>1, FlushNextIsReached
  <2>2. FlushNext(order, i, f[i - 1]) \in Gen
    BY <1>5, <2>1
  <2>. HIDE DEF step
  <2>. QED
    BY <1>3, <1>6, <2>2
<1>8. \A i \in 1..n : f[i] = FlushNext(order, i, f[i - 1])
  <2>. TAKE i \in 1..n
  <2>1. i - 1 \in 0..Len(order) /\ i \in 1..Len(order)
    BY <1>1
  <2>2. FlushReached(order, i - 1, f[i - 1])
    BY <1>7, <2>1, AllAreReached
  <2>. QED
    BY <1>7, <2>1, <2>2 DEF GoesOn
<1>9. f = Eq(f)
  <2>1. ASSUME NEW i \in 0..n PROVE f[i] = Eq(f)[i]
    <3>1. CASE i = 0
      BY <1>1, <1>6, <3>1
    <3>2. CASE i # 0
      <4>1. i \in 1..n
        BY <3>2
      <4>2. f[i] = FlushNext(order, i, f[i - 1])
        BY <1>8, <4>1
      <4>. QED
        BY <1>1, <3>2, <4>2, Zenon DEF FlushNext
    <3>. QED
      BY <3>1, <3>2
  <2>2. f = [i \in 0..n |-> f[i]]
    BY <1>6
  <2>3. Eq(f) = [i \in 0..n |-> Eq(f)[i]]
    BY <1>1
  <2>. HIDE DEF Eq
  <2>. QED
    BY <2>1, <2>2, <2>3
<1>10. PICK x : x = CHOOSE y : y = Eq(y)
  OBVIOUS
<1>11. x = Eq(x)
  <2>. HIDE DEF Eq
  <2>. QED
    BY <1>9, <1>10
<1>12. FlushedInOrder(order) = x[n]
  BY <1>1, <1>10, Zenon DEF FlushedInOrder
<1>13. GoesOn(order, x)
  <2>1. x[0] = gen
    BY <1>1, <1>11
  <2>2. ASSUME NEW i \in 1..n PROVE x[i] = FlushNext(order, i, x[i - 1])
    <3>1. i \in 0..n /\ i # 0
      BY <1>1
    <3>. QED
      BY <1>1, <1>11, <3>1 DEF FlushNext
  <2>. QED
    BY <1>1, <2>1, <2>2 DEF GoesOn
<1>14. FlushReached(order, n, x[n])
  <2>1. n \in 0..Len(order)
    BY <1>1
  <2>. QED
    BY <1>13, <2>1, AllAreReached
<1>. QED
  BY <1>1, <1>12, <1>14

LEMMA FlushKeeps ==
    ASSUME Flushing, NEW order, OrderOK(order), NEW h, h = FlushedInOrder(order)
    PROVE  /\ GenInv(h, output, fed) /\ InStep(h, output, fed, "FlushingRemaining")
           /\ DOMAIN h.encoder = DOMAIN gen.encoder
<1>1. /\ SetupOK /\ output \in Seq([Substreams -> Frame])
      /\ fed \in [Substreams -> 0..Len(setup.chunks)] /\ GenInv(gen, output, fed)
      /\ InStep(gen, output, fed, "FlushingRemaining") /\ gen.ok
  BY DEF Flushing
<1>2. FlushReached(order, Len(order), h)
  BY FlushedIsReached
<1>3. CASE ~CanFlush(gen, output, fed)
  BY <1>1, <1>2, <1>3 DEF FlushReached
<1>4. CASE CanFlush(gen, output, fed)
  <2>. DEFINE done == {order[j] : j \in 1..Len(order)}
  <2>1. FlushedTo(gen, output, fed, done, h)
    BY <1>2, <1>4 DEF FlushReached
  <2>2. \A s \in Substreams : ElementOf[s] \in done
    BY ElementAssumption DEF OrderOK
  <2>. HIDE DEF done
  <2>3. GenInv(h, output, fed) /\ DOMAIN h.encoder = DOMAIN gen.encoder
    BY <2>1 DEF FlushedTo
  <2>4. ASSUME h.ok PROVE InStep(h, output, fed, "FlushingRemaining")
    <3>1. /\ DOMAIN h.data = Substreams
          /\ \A s \in Substreams :
                /\ h.labeled[s] = <<>>
                /\ Len(FramesIn(h, output, s)) = Len(FramesIn(gen, output, s)) + 1
      BY <2>1, <2>2, <2>4 DEF FlushedTo
    <3>2. \A s \in Substreams :
             /\ fed[s] = Len(setup.chunks)
             /\ Rounds(gen, fed, s) = Len(setup.chunks) /\ Rounds(h, fed, s) = fed[s] - 0
      <4>. TAKE s \in Substreams
      <4>0. IsFrames(gen, fed, s)
        BY <1>1, AllAreFrames
      <4>1. fed[s] = Len(setup.chunks) /\ Rounds(gen, fed, s) = Len(setup.chunks)
        BY <4>0, Zenon DEF IsFrames
      <4>2. Rounds(h, fed, s) = fed[s] - 0
        BY <3>1, Zenon DEF Rounds
      <4>. QED
        BY <4>1, <4>2
    <3>3. \A s, t \in Substreams :
             /\ Len(FramesIn(gen, output, s)) = Len(FramesIn(gen, output, t))
             /\ Rounds(gen, fed, s) <= Len(FramesIn(gen, output, s))
      BY <1>1 DEF InStep
    <3>4. \A s, t \in Substreams :
             /\ Len(FramesIn(h, output, s)) = Len(FramesIn(h, output, t))
             /\ Rounds(h, fed, s) <= Len(FramesIn(h, output, s))
      <4>. TAKE s, t \in Substreams
      <4>1. PICK n, m \in Nat : n = Len(setup.chunks) /\ m = Len(FramesIn(gen, output, s))
        <5>1. FramesIn(gen, output, s) \in Seq(Frame)
          BY <1>1, FramesType DEF GenInv, GenOK
        <5>2. Len(FramesIn(gen, output, s)) \in Nat
          BY <5>1
        <5>3. Len(setup.chunks) \in Nat
          BY <1>1 DEF SetupOK, Setup
        <5>. QED
          BY <5>2, <5>3
      <4>2. Rounds(h, fed, s) = n /\ n <= m
        BY <3>2, <3>3, <4>1
      <4>. QED
        BY <3>1, <3>3, <4>1, <4>2
    <3>5. OneIsMissing(h)
      <4>1. \A e \in Elements : \E s \in SubstreamsOf(e) : s \in Substreams
        BY SubstreamsOfIs
      <4>. QED
        BY <3>1, <4>1, Zenon DEF OneIsMissing
    <3>6. DOMAIN h.encoder \in {{}, Substreams}
      BY <1>1, <2>3 DEF InStep
    <3>7. EndsAsAsked(h, "FlushingRemaining")
      <4>1. gen \in Gen /\ h \in Gen /\ GenOK(h)
        BY <1>1, <2>3 DEF GenInv, GenOK
      <4>2. ASSUME NEW s \in Substreams PROVE leftover /\ InsideOf(h, s) # <<>>
        <5>1. s \in DOMAIN gen.data /\ LeftObu(gen, s) # <<>>
          BY <1>4 DEF CanFlush, LeftObu
        <5>2. leftover
          BY <1>1, <5>1 DEF InStep, EndsAsAsked
        <5>3. FramesAreFor(h, output, s) /\ FramesAreFor(gen, output, s)
          BY <1>1, <4>1, FramesAre
        <5>4. Len(FramesIn(h, output, s)) = Len(FramesIn(gen, output, s)) + 1
          BY <3>1
        <5>5. Len(InsideOf(h, s)) # 0
          BY <5>3, <5>4 DEF FramesAreFor
        <5>. QED
          BY <5>2, <5>3, <5>5 DEF FramesAreFor
      <4>3. \A s \in DOMAIN h.encoder : ~h.encoder[s].finished
        BY <3>1, <4>1, GenParts DEF GenOK
      <4>. QED
        BY <3>1, <4>2, <4>3 DEF EndsAsAsked
    <3>. QED
      BY <2>3, <3>1, <3>2, <3>4, <3>5, <3>6, <3>7 DEF InStep
  <2>5. ASSUME ~h.ok PROVE InStep(h, output, fed, "FlushingRemaining")
    BY <2>5 DEF InStep
  <2>. QED
    BY <2>3, <2>4, <2>5
<1>. QED
  BY <1>3, <1>4

(* When all samples were added, what is made of them has as many frames.       *)
LEMMA FlushingMayStart ==
    ASSUME SetupOK, NEW out \in Seq([Substreams -> Frame]),
           NEW f \in [Substreams -> 0..Len(setup.chunks)], NEW g, GenInv(g, out, f),
           NEW st, st # "TakingSamples", InStep(g, out, f, st), g.ok
    PROVE  InStep(g, out, f, "FlushingRemaining")
<1>1. CASE st = "FlushingRemaining"
  BY <1>1
<1>2. CASE st # "FlushingRemaining"
  <2>1. \A s \in Substreams : /\ Rounds(g, f, s) = Len(setup.chunks)
                              /\ f[s] = Len(setup.chunks)
    <3>. TAKE s \in Substreams
    <3>1. IsFrames(g, f, s)
      BY AllAreFrames
    <3>. QED
      BY <3>1 DEF IsFrames
  <2>2. \A s \in Substreams : Len(FramesIn(g, out, s)) = Rounds(g, f, s)
    BY <1>2 DEF InStep
  <2>3. Len(setup.chunks) \in Nat
    BY DEF SetupOK, Setup
  <2>4. \A s, t \in Substreams : /\ Len(FramesIn(g, out, s)) = Len(FramesIn(g, out, t))
                                 /\ Rounds(g, f, s) <= Len(FramesIn(g, out, s))
    BY <2>1, <2>2, <2>3
  <2>5. EndsAsAsked(g, "FlushingRemaining")
    BY DEF InStep, EndsAsAsked
  <2>. QED
    BY <2>1, <2>4, <2>5 DEF InStep
<1>. QED
  BY <1>1, <1>2

-------------------------------------------------------------------------------
(* Encoders are finalized, frames popped and encoders deleted; h and o2 are    *)
(* what becomes of g and out.                                                  *)
Moved(g, out, f, st, h, o2) ==
    /\ GenInv(h, o2, f) /\ InStep(h, o2, f, st) /\ h.ok
    /\ \A s \in Substreams : LooksSame(s, g, out, h, o2)

LEMMA StaysInStep ==
    ASSUME SetupOK, NEW out \in Seq([Substreams -> Frame]), NEW o2 \in Seq([Substreams -> Frame]),
           NEW f, NEW g, GenInv(g, out, f), NEW st, InStep(g, out, f, st), g.ok,
           NEW h, GenOK(h), h.ok, \A s \in Substreams : LooksSame(s, g, out, h, o2),
           DOMAIN h.data = DOMAIN g.data \/ (st = "FlushingRemaining" /\ DOMAIN h.data = {}),
           DOMAIN h.encoder \in {{}, Substreams},
           \A s \in DOMAIN h.data : h.data[s] = g.data[s],
           TrimsFollow(h, o2, f), EndsAsAsked(h, st)
    PROVE  Moved(g, out, f, st, h, o2)
<1>1. /\ GenInv(h, o2, f)
      /\ \A s \in Substreams : /\ Rounds(h, f, s) = Rounds(g, f, s)
                               /\ h.labeled[s] = g.labeled[s]
                               /\ Len(FramesIn(h, o2, s)) = Len(FramesIn(g, out, s))
  <2>1. DOMAIN h.data \in {{}, DOMAIN g.data}
    OBVIOUS
  <2>2. FramesKept(g, out, f, h, o2)
    BY <2>1, KeptIfLooksSame
  <2>. QED
    BY <2>2 DEF FramesKept
<1>2. OneIsMissing(h)
  <2>1. \A e \in Elements : SubstreamsOf(e) \subseteq Substreams
    BY SubstreamsOfIs
  <2>2. OneIsMissing(g)
    BY DEF InStep
  <2>. QED
    BY <1>1, <2>1, <2>2 DEF OneIsMissing
<1>3. InStep(h, o2, f, st)
  <2>1. CASE st = "FlushingRemaining"
    BY <1>1, <1>2, <2>1, ZenonT(40) DEF InStep
  <2>2. CASE st # "FlushingRemaining"
    BY <1>1, <1>2, <2>2 DEF InStep
  <2>. QED
    BY <2>1, <2>2
<1>. QED
  BY <1>1, <1>3 DEF Moved

LEMMA EncoderParts ==
    ASSUME NEW n \in Encoder
    PROVE  /\ n.held \in Seq(Frame) /\ n.queue \in Seq(Frame) /\ n.finished \in BOOLEAN
           /\ n.queue \o n.held \in Seq(Frame) /\ (n.queue \o n.held) \o <<>> = n.queue \o n.held
<1>1. n.held \in Seq(Frame) /\ n.queue \in Seq(Frame) /\ n.finished \in BOOLEAN
  BY DEF Encoder
<1>2. PICK q \in Seq(Frame) : q = n.queue \o n.held
  <2>1. n.queue \o n.held \in Seq(Frame)
    BY <1>1, ConcatProperties
  <2>. QED
    BY <2>1
<1>3. q \o <<>> = q
  BY ConcatEmptySeq
<1>. QED
  BY <1>1, <1>2, <1>3

LEMMA FinalizingKeeps ==
    ASSUME SetupOK, NEW out \in Seq([Substreams -> Frame]), NEW f, NEW g, GenInv(g, out, f),
           InStep(g, out, f, "FlushingRemaining"), g.ok, NEW h, h = FinalizedEncoders(g)
    PROVE  /\ Moved(g, out, f, "FlushingRemaining", h, out)
           /\ DOMAIN h.encoder = DOMAIN g.encoder
           /\ \A s \in DOMAIN h.data : LeftObu(h, s) # <<>>
<1>. DEFINE S == Ended(g)
            new == [s \in S |-> FinalizeEncoder(g.encoder[s])]
<1>1. /\ g \in Gen /\ DOMAIN g.data \subseteq DOMAIN g.encoder /\ GenOK(g)
      /\ DOMAIN g.data \in {{}, Substreams} /\ DOMAIN g.encoder \in {{}, Substreams}
      /\ g.data \in [DOMAIN g.data -> Data] /\ g.encoder \in [DOMAIN g.encoder -> Encoder]
  BY GenParts DEF GenInv, GenOK, InStep
<1>2. /\ S \subseteq DOMAIN g.data /\ S \in {{}, DOMAIN g.data}
      /\ \A s \in S : g.data[s].inObu = <<>>
  <2>1. S = {s \in DOMAIN g.data : g.data[s].inObu = <<>>}
    BY <1>1 DEF Ended
  <2>2. \A s \in S : \A t \in DOMAIN g.data : t \in S
    BY <2>1, EndTogether
  <2>. QED
    BY <2>1, <2>2
<1>3. h = [g EXCEPT !.encoder = Updated(g.encoder, new),
                    !.data = Restrict(g.data, DOMAIN g.data \ S)]
  BY Zenon DEF FinalizedEncoders
<1>4. PICK data, encoder : data = Restrict(g.data, DOMAIN g.data \ S)
                           /\ encoder = Updated(g.encoder, new)
  OBVIOUS
<1>5. /\ DOMAIN data = DOMAIN g.data \ S /\ \A s \in DOMAIN data : data[s] = g.data[s]
      /\ data \in [DOMAIN g.data \ S -> Data]
  BY <1>1, <1>4 DEF Restrict
<1>6. \A s \in S : /\ FinalizeEncoder(g.encoder[s]) \in Encoder
                   /\ FinalizeEncoder(g.encoder[s]).queue = g.encoder[s].queue \o g.encoder[s].held
                   /\ FinalizeEncoder(g.encoder[s]).held = <<>>
                   /\ FinalizeEncoder(g.encoder[s]).finished
  <2>. TAKE s \in S
  <2>1. PICK n \in Encoder : n = g.encoder[s]
    BY <1>1, <1>2
  <2>2. n.queue \o n.held \in Seq(Frame) /\ <<>> \in Seq(Frame)
    BY <2>1, EncoderParts
  <2>3. /\ FinalizeEncoder(n) \in Encoder /\ FinalizeEncoder(n).queue = n.queue \o n.held
        /\ FinalizeEncoder(n).held = <<>> /\ FinalizeEncoder(n).finished
    BY <2>2 DEF FinalizeEncoder, Encoder
  <2>. QED
    BY <2>1, <2>3
<1>7. /\ encoder \in [DOMAIN g.encoder -> Encoder] /\ DOMAIN encoder = DOMAIN g.encoder
      /\ \A s \in DOMAIN g.encoder : encoder[s] = IF s \in S THEN FinalizeEncoder(g.encoder[s])
                                                   ELSE g.encoder[s]
  <2>1. DOMAIN new = S /\ \A s \in S : new[s] = FinalizeEncoder(g.encoder[s])
    OBVIOUS
  <2>. HIDE DEF S, new
  <2>2. Updated(g.encoder, new) \in [DOMAIN g.encoder -> Encoder]
    <3>1. \A s \in DOMAIN new \intersect DOMAIN g.encoder : new[s] \in Encoder
      BY <1>6, <2>1
    <3>. QED
      BY <1>1, <3>1, UpdatedType
  <2>. QED
    BY <1>4, <2>1, <2>2, UpdatedIs
<1>. HIDE DEF S, new
<1>8. /\ h \in Gen /\ h.data = data /\ h.encoder = encoder /\ h.labeled = g.labeled
      /\ h.clock = g.clock /\ h.ok = g.ok /\ h.trimming = g.trimming
  <2>1. data \in PartialMaps(Data) /\ encoder \in PartialMaps(Encoder)
    BY <1>1, <1>5, <1>7, GenParts, IsPartialMap
  <2>. QED
    BY <1>1, <1>3, <1>4, <2>1 DEF Gen
<1>9. GenOK(h)
  <2>1. ASSUME NEW s \in DOMAIN g.encoder
        PROVE  /\ encoder[s].finished <=> s \notin DOMAIN data
               /\ encoder[s].finished \/ setup.latency[ElementOf[s]] = 0 => encoder[s].held = <<>>
    <3>1. /\ g.encoder[s].finished <=> s \notin DOMAIN g.data
          /\ g.encoder[s].finished \/ setup.latency[ElementOf[s]] = 0 => g.encoder[s].held = <<>>
      BY <1>1 DEF GenOK
    <3>2. CASE s \in S
      BY <1>5, <1>6, <1>7, <3>2
    <3>3. CASE s \notin S
      BY <1>5, <1>7, <3>1, <3>3
    <3>. QED
      BY <3>2, <3>3
  <2>. QED
    BY <1>1, <1>5, <1>7, <1>8, <2>1 DEF GenOK
<1>10. ASSUME NEW s \in Substreams
       PROVE  /\ LooksSame(s, g, out, h, out) /\ InsideOf(h, s) = InsideOf(g, s)
              /\ FramesIn(h, out, s) = FramesIn(g, out, s) /\ LeftObu(h, s) = LeftObu(g, s)
  <2>1. InsideOf(h, s) = InsideOf(g, s)
    <3>1. CASE s \in S
      <4>1. s \in DOMAIN g.encoder
        BY <1>1, <1>2, <3>1
      <4>2. PICK n \in Encoder : n = g.encoder[s]
        BY <1>1, <4>1
      <4>3. encoder[s].queue = n.queue \o n.held /\ encoder[s].held = <<>>
        BY <1>6, <1>7, <3>1, <4>1, <4>2
      <4>4. (n.queue \o n.held) \o <<>> = n.queue \o n.held
        BY EncoderParts
      <4>. QED
        BY <1>7, <1>8, <4>1, <4>2, <4>3, <4>4, Zenon DEF InsideOf
    <3>2. CASE s \notin S
      BY <1>7, <1>8, <3>2, Zenon DEF InsideOf
    <3>. QED
      BY <3>1, <3>2
  <2>2. FramesIn(h, out, s) = FramesIn(g, out, s)
    BY <2>1, Zenon DEF FramesIn
  <2>3. LeftObu(h, s) = LeftObu(g, s) /\ LeftInput(h, s) = LeftInput(g, s)
    <3>1. CASE s \in S
      <4>1. g.data[s].inObu = <<>> /\ s \in DOMAIN g.data /\ s \notin DOMAIN data
        BY <1>2, <1>5, <3>1
      <4>2. PICK q \in Seq(Nat) : q = g.data[s].toEncode
        BY <1>1, <4>1 DEF Data
      <4>3. Len(q) <= Len(g.data[s].inObu)
        BY <4>1, <4>2 DEF GenInv, LeftAgrees, LeftAgreesFor
      <4>4. Len(q) = 0
        BY <4>1, <4>3
      <4>5. q = <<>>
        BY <4>4, EmptySeq
      <4>. QED
        BY <1>8, <4>1, <4>2, <4>5 DEF LeftObu, LeftInput
    <3>2. CASE s \notin S
      BY <1>5, <1>8, <3>2 DEF LeftObu, LeftInput
    <3>. QED
      BY <3>1, <3>2
  <2>. QED
    BY <1>8, <2>1, <2>2, <2>3, Zenon DEF LooksSame
<1>11. DOMAIN h.data \in {{}, DOMAIN g.data} /\ \A s \in DOMAIN h.data : h.data[s] = g.data[s]
  BY <1>2, <1>5, <1>8
<1>12. h.ok /\ DOMAIN h.encoder = DOMAIN g.encoder /\ DOMAIN h.encoder \in {{}, Substreams}
  BY <1>1, <1>7, <1>8
<1>13. \A s \in DOMAIN g.data :
           leftover <=> LeftObu(g, s) # <<>> \/ InsideOf(g, s) # <<>>
  BY DEF InStep, EndsAsAsked
(* An encoder that is finalized has a frame left just if one is trimmed.       *)
<1>14. ASSUME NEW s \in S
       PROVE  /\ s \in DOMAIN h.encoder /\ h.encoder[s].finished /\ ~HasEnded(g, s)
              /\ leftover <=> h.encoder[s].queue # <<>>
  <2>1. s \in DOMAIN g.data /\ s \in DOMAIN g.encoder /\ LeftObu(g, s) = <<>>
    BY <1>1, <1>2 DEF LeftObu
  <2>2. h.encoder[s].queue = InsideOf(g, s) /\ h.encoder[s].finished /\ s \in DOMAIN h.encoder
    BY <1>6, <1>7, <1>8, <2>1 DEF InsideOf
  <2>3. ~HasEnded(g, s)
    BY <1>1, <2>1, NotEnded
  <2>. QED
    BY <1>13, <2>1, <2>2, <2>3
<1>15. TrimsFollow(h, out, f)
  <2>1. ASSUME NEW s \in Substreams PROVE TrimsFollowFor(h, out, f, s)
    <3>1. (HasEnded(h, s) <=> HasEnded(g, s)) \/ (~leftover /\ ~HasEnded(g, s))
      <4>1. CASE s \in S
        BY <1>14, <4>1 DEF HasEnded, Finished
      <4>2. CASE s \notin S
        BY <1>7, <1>8, <4>2 DEF HasEnded
      <4>. QED
        BY <4>1, <4>2
    <3>2. s \in DOMAIN h.data => s \in DOMAIN g.data /\ h.data[s] = g.data[s]
      BY <1>11
    <3>3. TrimsLookSame(s, g, h, out, out)
      BY <1>8, <1>10, <3>1, <3>2, Zenon DEF TrimsLookSame
    <3>4. SamePadding(s, g, out, f, h, out, f)
      BY <1>1, <1>8, <1>10, PaddingLooksSame, Zenon
    <3>5. TrimsFollowFor(g, out, f, s)
      BY DEF GenInv, TrimsFollow, TrimsFollowFor
    <3>. QED
      BY <3>3, <3>4, <3>5, TrimsLookSameIs
  <2>. QED
    BY <1>12, <2>1 DEF TrimsFollow, TrimsFollowFor
<1>16. EndsAsAsked(h, "FlushingRemaining")
  <2>1. ASSUME NEW s \in DOMAIN h.data
        PROVE  leftover <=> LeftObu(h, s) # <<>> \/ InsideOf(h, s) # <<>>
    <3>1. s \in DOMAIN g.data /\ s \in Substreams
      BY <1>1, <1>11
    <3>. QED
      BY <1>10, <1>13, <3>1
  <2>2. ASSUME NEW s \in DOMAIN h.encoder, h.encoder[s].finished
        PROVE  leftover \/ h.encoder[s].queue = <<>>
    <3>1. CASE s \in S
      BY <1>14, <3>1
    <3>2. CASE s \notin S
      <4>1. s \in DOMAIN g.encoder /\ h.encoder[s] = g.encoder[s]
        BY <1>7, <1>8, <3>2
      <4>. QED
        BY <2>2, <4>1 DEF InStep, EndsAsAsked
    <3>. QED
      BY <3>1, <3>2
  <2>. QED
    BY <2>1, <2>2 DEF EndsAsAsked
<1>17. Moved(g, out, f, "FlushingRemaining", h, out)
  BY <1>9, <1>10, <1>11, <1>12, <1>15, <1>16, StaysInStep
<1>18. \A s \in DOMAIN h.data : LeftObu(h, s) # <<>>
  <2>. TAKE s \in DOMAIN h.data
  <2>1. s \in DOMAIN g.data /\ s \notin S /\ s \in DOMAIN g.encoder
    BY <1>1, <1>5, <1>8
  <2>2. g.data[s].inObu # <<>>
    BY <2>1 DEF S, Ended
  <2>. QED
    BY <1>11, <2>2 DEF LeftObu
<1>. QED
  BY <1>12, <1>17, <1>18

LEMMA DeletingKeeps ==
    ASSUME SetupOK, NEW out \in Seq([Substreams -> Frame]), NEW f, NEW g, GenInv(g, out, f),
           NEW st, InStep(g, out, f, st), g.ok, NEW h, h = WithoutFinished(g)
    PROVE  Moved(g, out, f, st, h, out)
<1>. DEFINE K == {s \in DOMAIN g.encoder : ~Finished(g.encoder[s])}
<1>1. /\ g \in Gen /\ DOMAIN g.data \subseteq DOMAIN g.encoder /\ GenOK(g)
      /\ DOMAIN g.data \in {{}, Substreams} /\ DOMAIN g.encoder \in {{}, Substreams}
      /\ g.encoder \in [DOMAIN g.encoder -> Encoder] /\ DOMAIN g.encoder \subseteq Substreams
  BY GenParts DEF GenInv, GenOK, InStep
<1>2. \A s \in DOMAIN g.encoder :
          /\ g.encoder[s] \in Encoder /\ g.encoder[s].finished <=> s \notin DOMAIN g.data
          /\ g.encoder[s].finished \/ setup.latency[ElementOf[s]] = 0 => g.encoder[s].held = <<>>
  BY <1>1 DEF GenOK
<1>3. PICK encoder : encoder = Restrict(g.encoder, K)
  OBVIOUS
<1>4. DOMAIN encoder = K /\ \A s \in K : encoder[s] = g.encoder[s]
  BY <1>3 DEF Restrict
<1>5. encoder \in [K -> Encoder]
  <2>1. encoder = [s \in K |-> g.encoder[s]]
    BY <1>3 DEF Restrict
  <2>2. \A s \in DOMAIN g.encoder : g.encoder[s] \in Encoder
    BY <1>1
  <2>3. \A s \in K : g.encoder[s] \in Encoder
    BY <2>2
  <2>. HIDE DEF K
  <2>. QED
    BY <2>1, <2>3
<1>6. h = [g EXCEPT !.encoder = encoder]
  BY <1>3, Zenon DEF WithoutFinished
<1>7. /\ h \in Gen /\ h.data = g.data /\ h.encoder = encoder /\ h.labeled = g.labeled
      /\ h.clock = g.clock /\ h.ok = g.ok /\ h.trimming = g.trimming
  <2>1. encoder \in PartialMaps(Encoder)
    BY <1>1, <1>5, IsPartialMap
  <2>. QED
    BY <1>1, <1>6, <2>1 DEF Gen
<1>8. \A s \in DOMAIN g.data : s \in K
  BY <1>1, <1>2 DEF Finished
<1>9. K \in {{}, Substreams}
  <2>1. CASE DOMAIN g.encoder = {} \/ DOMAIN g.data = Substreams
    BY <1>1, <1>8, <2>1
  <2>2. CASE DOMAIN g.encoder = Substreams /\ DOMAIN g.data = {}
    <3>1. CASE K = Substreams
      BY <3>1
    <3>2. CASE K # Substreams
      <4>1. PICK s \in Substreams : Finished(g.encoder[s])
        BY <1>1, <2>2, <3>2
      <4>2. ASSUME NEW t \in Substreams PROVE t \notin K
        <5>1. Len(FramesIn(g, out, t)) = Len(FramesIn(g, out, s))
          <6>1. st = "FlushingRemaining"
            BY <2>2, <4>1 DEF InStep
          <6>. QED
            BY <4>1, <6>1 DEF InStep
        <5>2. PICK before, after, q, r \in Seq(Frame) :
                 /\ before = [k \in DOMAIN out |-> out[k][s]] /\ after = [k \in DOMAIN out |-> out[k][t]]
                 /\ q = g.encoder[s].queue /\ r = g.encoder[t].queue
          <6>1. g.encoder[s].queue \in Seq(Frame) /\ g.encoder[t].queue \in Seq(Frame)
            BY <1>2, <2>2, EncoderParts
          <6>2. [k \in DOMAIN out |-> out[k][s]] \in Seq(Frame) /\ [k \in DOMAIN out |-> out[k][t]] \in Seq(Frame)
            BY <1>1, FramesType
          <6>. QED
            BY <6>1, <6>2
        <5>3. InsideOf(g, s) = q \o <<>> /\ InsideOf(g, t) = r \o <<>> /\ g.encoder[t].finished
          BY <1>2, <2>2, <5>2 DEF InsideOf
        <5>4. q \o <<>> = q /\ r \o <<>> = r
          BY ConcatEmptySeq
        <5>5. FramesIn(g, out, s) = before \o q /\ FramesIn(g, out, t) = after \o r
          BY <5>2, <5>3, <5>4, Zenon DEF FramesIn
        <5>6. Len(before) = Len(out) /\ Len(after) = Len(out) /\ Len(out) \in Nat
          BY <5>2
        <5>7. Len(before \o q) = Len(before) + Len(q) /\ Len(after \o r) = Len(after) + Len(r)
          BY ConcatProperties
        <5>8. Len(q) = 0
          BY <4>1, <5>2, EmptySeq DEF Finished
        <5>9. Len(r) = 0
          BY <5>1, <5>5, <5>6, <5>7, <5>8
        <5>10. r = <<>>
          BY <5>9, EmptySeq
        <5>. QED
          BY <5>2, <5>3, <5>10 DEF Finished
      <4>. QED
        BY <1>1, <4>2
    <3>. QED
      BY <3>1, <3>2
  <2>. QED
    BY <1>1, <2>1, <2>2
<1>10. GenOK(h)
  <2>1. \A s \in K : s \in DOMAIN g.encoder
    OBVIOUS
  <2>. HIDE DEF K
  <2>. QED
    BY <1>1, <1>2, <1>4, <1>7, <1>8, <2>1 DEF GenOK
<1>11. ASSUME NEW s \in Substreams
       PROVE  /\ LooksSame(s, g, out, h, out) /\ InsideOf(h, s) = InsideOf(g, s)
              /\ FramesIn(h, out, s) = FramesIn(g, out, s) /\ LeftObu(h, s) = LeftObu(g, s)
  <2>1. InsideOf(h, s) = InsideOf(g, s)
    <3>1. CASE s \in K
      BY <1>4, <1>7, <3>1, Zenon DEF InsideOf
    <3>2. CASE s \in DOMAIN g.encoder /\ s \notin K
      <4>1. g.encoder[s].queue = <<>> /\ g.encoder[s].held = <<>>
        BY <1>2, <3>2 DEF Finished
      <4>2. <<>> \o <<>> = <<>>
        OBVIOUS
      <4>3. InsideOf(g, s) = <<>>
        BY <3>2, <4>1, <4>2, Zenon DEF InsideOf
      <4>4. InsideOf(h, s) = <<>>
        BY <1>4, <1>7, <3>2, Zenon DEF InsideOf
      <4>. QED
        BY <4>3, <4>4
    <3>3. CASE s \notin DOMAIN g.encoder
      BY <1>4, <1>7, <3>3, Zenon DEF InsideOf
    <3>. QED
      BY <3>1, <3>2, <3>3
  <2>2. FramesIn(h, out, s) = FramesIn(g, out, s)
    BY <2>1, Zenon DEF FramesIn
  <2>3. LeftObu(h, s) = LeftObu(g, s) /\ LeftInput(h, s) = LeftInput(g, s)
    BY <1>7, Zenon DEF LeftObu, LeftInput
  <2>. QED
    BY <1>7, <2>1, <2>2, <2>3, Zenon DEF LooksSame
<1>12. /\ h.ok /\ DOMAIN h.encoder \in {{}, Substreams} /\ DOMAIN h.data = DOMAIN g.data
       /\ \A s \in DOMAIN h.data : h.data[s] = g.data[s]
  BY <1>4, <1>7, <1>9
<1>13. TrimsFollow(h, out, f)
  <2>1. ASSUME NEW s \in Substreams PROVE TrimsFollowFor(h, out, f, s)
    <3>1. HasEnded(h, s) <=> HasEnded(g, s)
      BY <1>4, <1>7 DEF HasEnded
    <3>2. s \in DOMAIN h.data => s \in DOMAIN g.data /\ h.data[s] = g.data[s]
      BY <1>12
    <3>3. TrimsLookSame(s, g, h, out, out)
      BY <1>7, <1>11, <3>1, <3>2, Zenon DEF TrimsLookSame
    <3>4. SamePadding(s, g, out, f, h, out, f)
      BY <1>1, <1>7, <1>11, PaddingLooksSame, Zenon
    <3>5. TrimsFollowFor(g, out, f, s)
      BY DEF GenInv, TrimsFollow, TrimsFollowFor
    <3>. QED
      BY <3>3, <3>4, <3>5, TrimsLookSameIs
  <2>. QED
    BY <1>12, <2>1 DEF TrimsFollow, TrimsFollowFor
<1>14. EndsAsAsked(h, st)
  <2>1. \A s \in DOMAIN h.data :
            /\ s \in DOMAIN g.data
            /\ LeftObu(h, s) = LeftObu(g, s) /\ InsideOf(h, s) = InsideOf(g, s)
    BY <1>1, <1>11, <1>12
  <2>2. \A s \in DOMAIN h.encoder : s \in DOMAIN g.encoder /\ h.encoder[s] = g.encoder[s]
    BY <1>4, <1>7
  <2>3. EndsAsAsked(g, st)
    BY DEF InStep
  <2>. QED
    BY <2>1, <2>2, <2>3 DEF EndsAsAsked
<1>. QED
  BY <1>10, <1>11, <1>12, <1>13, <1>14, StaysInStep

(* r is a and b behind each other.                                             *)
Joined(r, a, b) ==
    /\ Len(r) = Len(a) + Len(b) /\ \A j \in 1..Len(a) : r[j] = a[j]
    /\ \A j \in 1..Len(b) : r[Len(a) + j] = b[j]

LEMMA JoinedIs ==
    ASSUME NEW S, NEW a \in Seq(S), NEW b \in Seq(S)
    PROVE  a \o b \in Seq(S) /\ Joined(a \o b, a, b)
<1>1. PICK n, m \in Nat : n = Len(a) /\ m = Len(b)
  <2>1. Len(a) \in Nat /\ Len(b) \in Nat
    OBVIOUS
  <2>. QED
    BY <2>1
<1>2. PICK r \in Seq(S) : r = a \o b
  BY ConcatProperties
<1>3. /\ Len(r) = n + m /\ \A j \in 1..n : r[j] = a[j]
      /\ \A j \in 1..m : r[n + j] = b[j]
  BY <1>1, <1>2
<1>. QED
  BY <1>1, <1>2, <1>3 DEF Joined

(* Popping replaces the first frame behind those that were output.             *)
HeadMoves(r, p, n, x) ==
    /\ Len(r) = Len(p) /\ n + 1 \in 1..Len(p)
    /\ \A j \in 1..Len(p) : j # n + 1 => r[j] = p[j]
    /\ r[n + 1] = x

PoppedHead(a, q, l, x) ==
    /\ HeadMoves(Append(a, x) \o (Tail(q) \o l), a \o (q \o l), Len(a), x)
    /\ (a \o (q \o l))[Len(a) + 1] = Head(q)

LEMMA PoppedHeadMoves ==
    ASSUME NEW S, NEW a \in Seq(S), NEW q \in Seq(S), q # <<>>, NEW l \in Seq(S), NEW x \in S
    PROVE  PoppedHead(a, q, l, x)
<1>1. PICK n, m, k \in Nat : n = Len(a) /\ m = Len(q) /\ k = Len(l)
  <2>1. Len(a) \in Nat /\ Len(q) \in Nat /\ Len(l) \in Nat
    OBVIOUS
  <2>. QED
    BY <2>1
<1>2. m # 0
  BY <1>1, EmptySeq
<1>3. PICK b \in Seq(S) : b = Append(a, x)
  BY AppendProperties
<1>4. /\ Len(b) = n + 1 /\ b[n + 1] = x /\ \A j \in 1..n : b[j] = a[j]
  BY <1>1, <1>3
<1>5. PICK t \in Seq(S) : t = Tail(q)
  BY HeadTailProperties
<1>6. Len(t) = m - 1 /\ \A j \in 1..(m - 1) : t[j] = q[j + 1]
  BY <1>1, <1>5, HeadTailProperties
<1>7. Head(q) = q[1]
  BY HeadTailProperties
<1>8. PICK u \in Seq(S) : u = q \o l /\ Joined(u, q, l)
  BY JoinedIs
<1>9. PICK v \in Seq(S) : v = t \o l /\ Joined(v, t, l)
  BY JoinedIs
<1>10. PICK p \in Seq(S) : p = a \o u /\ Joined(p, a, u)
  BY JoinedIs
<1>11. PICK r \in Seq(S) : r = b \o v /\ Joined(r, b, v)
  BY JoinedIs
<1>12. Len(u) = m + k /\ Len(v) = (m - 1) + k /\ Len(p) = n + (m + k) /\ Len(r) = n + (m + k)
  BY <1>1, <1>2, <1>4, <1>6, <1>8, <1>9, <1>10, <1>11 DEF Joined
<1>13. \A i \in 1..((m - 1) + k) : v[i] = u[i + 1]
  <2>. TAKE i \in 1..((m - 1) + k)
  <2>1. CASE i <= m - 1
    <3>1. i \in 1..Len(t) /\ i + 1 \in 1..Len(q) /\ i \in 1..(m - 1)
      BY <1>1, <1>6, <2>1
    <3>2. v[i] = t[i] /\ u[i + 1] = q[i + 1]
      BY <1>8, <1>9, <3>1 DEF Joined
    <3>. QED
      BY <1>6, <3>1, <3>2
  <2>2. CASE i > m - 1
    <3>1. PICK d \in 1..k : d = i - (m - 1)
      BY <1>2, <2>2
    <3>2. i = (m - 1) + d /\ i + 1 = m + d
      BY <3>1
    <3>3. v[(m - 1) + d] = l[d] /\ u[m + d] = l[d]
      BY <1>1, <1>6, <1>8, <1>9, <3>1 DEF Joined
    <3>. QED
      BY <3>2, <3>3
  <2>. QED
    BY <2>1, <2>2
<1>14. n + 1 \in 1..Len(p) /\ Len(r) = Len(p)
  BY <1>2, <1>12
<1>15. r[n + 1] = x
  <2>1. n + 1 \in 1..Len(b)
    BY <1>4
  <2>. QED
    BY <1>4, <1>11, <2>1 DEF Joined
<1>16. p[n + 1] = Head(q)
  <2>1. 1 \in 1..Len(u) /\ 1 \in 1..Len(q)
    BY <1>1, <1>2, <1>12
  <2>2. p[n + 1] = u[1] /\ u[1] = q[1]
    BY <1>1, <1>8, <1>10, <2>1 DEF Joined
  <2>. QED
    BY <1>7, <2>2
<1>17. ASSUME NEW j \in 1..Len(p), j # n + 1 PROVE r[j] = p[j]
  <2>1. CASE j <= n
    <3>1. j \in 1..Len(a) /\ j \in 1..Len(b) /\ j \in 1..n
      BY <1>1, <1>4, <2>1
    <3>2. r[j] = b[j] /\ p[j] = a[j]
      BY <1>10, <1>11, <3>1 DEF Joined
    <3>. QED
      BY <1>4, <3>1, <3>2
  <2>2. CASE j > n
    <3>1. PICK i \in 1..((m - 1) + k) : i = j - (n + 1)
      BY <1>12, <1>17, <2>2
    <3>2. j = (n + 1) + i /\ j = n + (i + 1) /\ i + 1 \in 1..(m + k)
      BY <3>1
    <3>3. r[(n + 1) + i] = v[i]
      BY <1>4, <1>11, <1>12, <3>1 DEF Joined
    <3>4. p[n + (i + 1)] = u[i + 1]
      BY <1>1, <1>10, <1>12, <3>2 DEF Joined
    <3>. QED
      BY <1>13, <3>2, <3>3, <3>4
  <2>. QED
    BY <2>1, <2>2
<1>18. HeadMoves(r, p, n, x)
  BY <1>14, <1>15, <1>17 DEF HeadMoves
<1>. QED
  BY <1>1, <1>3, <1>5, <1>8, <1>9, <1>10, <1>11, <1>16, <1>18 DEF PoppedHead

(* x is the front frame of s as the user wants it trimmed, y what is left to   *)
(* trim behind it.                                                             *)
FrontTrimmed(g, s, x, y) ==
    LET left == g.trimming[s]
    IN  /\ x.trimStart = AtMost(left.startLeft)
        /\ x.trimEnd = IF IsLast(g.encoder[s]) THEN AtMost(left.endLeft)
                       ELSE Head(g.encoder[s].queue).trimEnd
        /\ y.startLeft = left.startLeft - AtMost(left.startLeft)
        /\ ~IsLast(g.encoder[s]) => y.endLeft = left.endLeft

LEMMA UserTrimmedIs ==
    ASSUME NEW g \in Gen, NEW s \in DOMAIN g.encoder, g.encoder[s].queue # <<>>
    PROVE  /\ FrontTrimmed(g, s, UserTrimmed(s, g), TrimmingLeft(s, g))
           /\ UserTrimmed(s, g) \in Frame
           /\ UserTrimmed(s, g).start = Head(g.encoder[s].queue).start
           /\ UserTrimmed(s, g).obu = Head(g.encoder[s].queue).obu
           /\ UserTrimmed(s, g).encoded = Head(g.encoder[s].queue).encoded
           /\ TrimmingLeft(s, g) \in Trimming
<1>1. s \in Substreams /\ g.encoder[s] \in Encoder /\ g.trimming[s] \in Trimming
  BY GenParts
<1>2. PICK q \in Seq(Frame) : q = g.encoder[s].queue
  BY <1>1, EncoderParts
<1>3. PICK frame \in Frame : frame = Head(g.encoder[s].queue)
  <2>1. Head(q) \in Frame
    BY <1>2, HeadTailProperties
  <2>. QED
    BY <1>2, <2>1
<1>4. PICK left \in Trimming : left = g.trimming[s]
  BY <1>1
<1>5. left.startLeft \in Nat /\ left.endLeft \in Nat
  BY DEF Trimming
<1>6. /\ AtMost(left.startLeft) \in 0..F /\ AtMost(left.endLeft) \in 0..F
      /\ left.startLeft - AtMost(left.startLeft) \in Nat
      /\ left.endLeft - AtMost(left.endLeft) \in Nat
  BY <1>5, AtMostIs
<1>7. PICK a, b : /\ UserTrimmed(s, g) = [frame EXCEPT !.trimStart = a, !.trimEnd = b]
                  /\ a \in 0..F /\ b \in 0..F /\ a = AtMost(left.startLeft)
                  /\ b = IF IsLast(g.encoder[s]) THEN AtMost(left.endLeft) ELSE frame.trimEnd
  <2>1. PICK b : b = IF IsLast(g.encoder[s]) THEN AtMost(left.endLeft) ELSE frame.trimEnd
    OBVIOUS
  <2>2. b \in 0..F
    BY <1>6, <2>1 DEF Frame
  <2>3. UserTrimmed(s, g) = [frame EXCEPT !.trimStart = AtMost(left.startLeft), !.trimEnd = b]
    BY <1>3, <1>4, <2>1 DEF UserTrimmed
  <2>. QED
    BY <1>6, <2>1, <2>2, <2>3
<1>8. PICK c \in Nat, d \in Nat :
          /\ TrimmingLeft(s, g) = [left EXCEPT !.startLeft = c, !.endLeft = d]
          /\ c = left.startLeft - AtMost(left.startLeft)
          /\ ~IsLast(g.encoder[s]) => d = left.endLeft
  <2>1. PICK d : d = IF IsLast(g.encoder[s]) THEN left.endLeft - AtMost(left.endLeft) ELSE left.endLeft
    OBVIOUS
  <2>2. d \in Nat
    BY <1>5, <1>6, <2>1
  <2>3. TrimmingLeft(s, g) = [left EXCEPT !.startLeft = left.startLeft - AtMost(left.startLeft),
                                          !.endLeft = d]
    BY <1>4, <2>1 DEF TrimmingLeft
  <2>. QED
    BY <1>6, <2>1, <2>2, <2>3
<1>9. /\ TrimmingLeft(s, g) \in Trimming /\ TrimmingLeft(s, g).startLeft = c
      /\ TrimmingLeft(s, g).endLeft = d
  BY <1>8 DEF Trimming
<1>10. /\ UserTrimmed(s, g) \in Frame /\ UserTrimmed(s, g).start = frame.start
       /\ UserTrimmed(s, g).obu = frame.obu /\ UserTrimmed(s, g).encoded = frame.encoded
       /\ UserTrimmed(s, g).trimStart = a /\ UserTrimmed(s, g).trimEnd = b
  BY <1>7 DEF Frame
<1>11. FrontTrimmed(g, s, UserTrimmed(s, g), TrimmingLeft(s, g))
  BY <1>3, <1>4, <1>7, <1>8, <1>9, <1>10, Zenon DEF FrontTrimmed
<1>. QED
  BY <1>3, <1>9, <1>10, <1>11

(* What popping the front frame of s does to its trims.                        *)
FrontPops(g, out, s, h, o2, x) ==
    /\ Len(o2) = Len(out) + 1 /\ h.data = g.data
    /\ HeadMoves(FramesIn(h, o2, s), FramesIn(g, out, s), Len(out), x)
    /\ FramesIn(g, out, s)[Len(out) + 1] = Head(g.encoder[s].queue)
    /\ FrontTrimmed(g, s, x, h.trimming[s])
    /\ s \in DOMAIN h.encoder /\ h.encoder[s].finished = g.encoder[s].finished
    /\ h.encoder[s].queue = Tail(g.encoder[s].queue)

LEMMA LastFrame ==
    ASSUME NEW g \in Gen, GenOK(g), NEW out \in Seq([Substreams -> Frame]),
           NEW s \in DOMAIN g.encoder, IsLast(g.encoder[s])
    PROVE  Len(FramesIn(g, out, s)) = Len(out) + 1
<1>1. s \in Substreams /\ g.encoder[s] \in Encoder /\ g.encoder[s].held = <<>>
  BY GenParts DEF GenOK, IsLast
<1>2. PICK q \in Seq(Frame) : q = g.encoder[s].queue /\ Len(q) = 1
  BY <1>1, EncoderParts DEF IsLast
<1>3. InsideOf(g, s) = q
  <2>1. q \o <<>> = q
    BY ConcatEmptySeq
  <2>. QED
    BY <1>1, <1>2, <2>1, Zenon DEF InsideOf
<1>. QED
  BY <1>1, <1>2, <1>3, FramesAre DEF FramesAreFor

LEMMA PoppingTrims ==
    ASSUME SetupOK, NEW g \in Gen, GenOK(g), NEW out \in Seq([Substreams -> Frame]), NEW f,
           NEW s \in DOMAIN g.encoder, g.encoder[s].queue # <<>>, TrimmingIsPossible(s, g),
           g.encoder[s].finished => leftover, TrimsFollowFor(g, out, f, s),
           NEW h \in Gen, NEW o2, NEW x, FrontPops(g, out, s, h, o2, x),
           SamePadding(s, g, out, f, h, o2, f)
    PROVE  TrimsFollowFor(h, o2, f, s)
<1>1. s \in Substreams /\ g.trimming[s] \in Trimming /\ g.encoder[s] \in Encoder
  BY GenParts
<1>2. PICK n \in Nat : n = Len(out) /\ Len(o2) = n + 1
  BY DEF FrontPops
<1>3. PICK p \in Seq(Frame) : p = FramesIn(g, out, s)
  BY <1>1, FramesType
<1>4. PICK l \in Nat : l = Len(p) /\ n + 1 <= l
  <2>1. n + 1 \in 1..Len(p)
    BY <1>2, <1>3 DEF FrontPops, HeadMoves
  <2>. QED
    BY <2>1
<1>5. PICK r : /\ r = FramesIn(h, o2, s) /\ Len(r) = l /\ r[n + 1] = x
               /\ \A j \in 1..l : j # n + 1 => r[j] = p[j]
  BY <1>2, <1>3, <1>4, Zenon DEF FrontPops, HeadMoves
<1>6. PICK left \in Trimming : left = g.trimming[s] /\ left.startLeft \in Nat /\ left.endLeft \in Nat
  BY <1>1 DEF Trimming
<1>7. StartTrim \in Nat /\ D \in Nat
  BY DelayIs DEF StartTrim, SetupOK, Setup
<1>8. /\ \A j \in 1..l : p[j].trimStart = AtMost(Rest(IF j <= n THEN StartTrim ELSE D, j - 1))
      /\ s \in DOMAIN g.data => /\ g.data[s].trimStart = Rest(D, l)
                                /\ g.data[s].trimEnd = 0
      /\ left.startLeft = Rest(StartTrim, n)
  BY <1>2, <1>3, <1>4, <1>6, Zenon DEF TrimsFollowFor, StartsTrimmed
<1>9. /\ x.trimStart = AtMost(left.startLeft)
      /\ x.trimEnd = IF IsLast(g.encoder[s]) THEN AtMost(left.endLeft) ELSE p[n + 1].trimEnd
      /\ h.trimming[s].startLeft = left.startLeft - AtMost(left.startLeft)
      /\ ~IsLast(g.encoder[s]) => h.trimming[s].endLeft = left.endLeft
  BY <1>2, <1>3, <1>6, Zenon DEF FrontPops, FrontTrimmed
<1>10. StartsTrimmed(h, o2, s)
  <2>1. \A j \in 1..l : r[j].trimStart = AtMost(Rest(IF j <= n + 1 THEN StartTrim ELSE D, j - 1))
    <3>. TAKE j \in 1..l
    <3>1. CASE j = n + 1
      <4>1. j <= n + 1 /\ j - 1 = n
        BY <3>1
      <4>. QED
        BY <1>5, <1>8, <1>9, <3>1, <4>1
    <3>2. CASE j # n + 1
      <4>1. j <= n <=> j <= n + 1
        BY <3>2
      <4>. QED
        BY <1>5, <1>8, <3>2, <4>1
    <3>. QED
      BY <3>1, <3>2
  <2>2. h.trimming[s].startLeft = Rest(StartTrim, n + 1)
    BY <1>7, <1>8, <1>9, RestNext DEF RestIs
  <2>3. s \in DOMAIN h.data => /\ h.data[s].trimStart = Rest(D, l)
                              /\ h.data[s].trimEnd = 0
    BY <1>8 DEF FrontPops
  <2>. QED
    BY <1>2, <1>5, <2>1, <2>2, <2>3, Zenon DEF StartsTrimmed
<1>11. PICK pad : pad = PaddingIn(g, out, f, s) /\ PaddingIn(h, o2, f, s) = pad
  BY Zenon DEF SamePadding
<1>12. ~HasEnded(g, s)
  BY DEF HasEnded, Finished
<1>13. /\ \A j \in 1..l : p[j].trimEnd = IF j < l THEN 0 ELSE pad
       /\ setup.endIncludesPadding => pad <= setup.trimEnd
       /\ left.endLeft = EndTrim(pad)
  <2>1. /\ \A j \in 1..Len(p) : p[j].trimEnd = IF j < Len(p) THEN 0
                                                ELSE IF leftover /\ HasEnded(g, s) THEN EndTrim(pad)
                                                ELSE pad
        /\ setup.endIncludesPadding => pad <= setup.trimEnd
        /\ g.trimming[s].endLeft = EndTrim(pad)
    BY <1>3, <1>11, <1>12, Zenon DEF TrimsFollowFor, EndsTrimmed
  <2>. QED
    BY <1>4, <1>6, <1>12, <2>1, Zenon
<1>14. PICK q \in Seq(Frame) : q = g.encoder[s].queue /\ Len(q) \in Nat /\ Len(q) # 0
  <2>1. PICK q \in Seq(Frame) : q = g.encoder[s].queue
    BY <1>1, EncoderParts
  <2>2. Len(q) \in Nat \ {0}
    BY <2>1, EmptySeq
  <2>. QED
    BY <2>1, <2>2
<1>15. HasEnded(h, s) <=> IsLast(g.encoder[s])
  <2>1. PICK t \in Seq(Frame) : t = Tail(q) /\ Len(t) = Len(q) - 1
    BY <1>14, HeadTailProperties
  <2>2. t = <<>> <=> Len(t) = 0
    BY EmptySeq
  <2>3. t = <<>> <=> Len(q) = 1
    BY <1>14, <2>1, <2>2
  <2>. QED
    BY <1>14, <2>1, <2>3, Zenon DEF FrontPops, HasEnded, Finished, IsLast
<1>16. CASE IsLast(g.encoder[s])
  <2>1. l = n + 1
    BY <1>2, <1>3, <1>4, <1>16, LastFrame
  <2>2. left.endLeft <= F /\ leftover
    BY <1>6, <1>16, Zenon DEF TrimmingIsPossible, IsLast
  <2>3. AtMost(left.endLeft) = left.endLeft
    <3>1. PICK b \in Nat : b = left.endLeft
      BY <1>6
    <3>2. AtMost(b) = IF b < F THEN b ELSE F
      BY AtMostIs
    <3>. QED
      BY <2>2, <3>1, <3>2, FAssumption
  <2>4. \A j \in 1..l : r[j].trimEnd = IF j < l THEN 0 ELSE EndTrim(pad)
    <3>. TAKE j \in 1..l
    <3>1. CASE j = n + 1
      BY <1>5, <1>9, <1>13, <1>16, <2>1, <2>3, <3>1
    <3>2. CASE j # n + 1
      BY <1>5, <1>13, <2>1, <3>2
    <3>. QED
      BY <3>1, <3>2
  <2>5. l # 0 /\ EndTrim(pad) <= F
    BY <1>13, <2>1, <2>2
  <2>6. EndsTrimmed(h, o2, f, s)
    BY <1>5, <1>11, <1>13, <1>15, <1>16, <2>2, <2>4, <2>5, Zenon DEF EndsTrimmed
  <2>. QED
    BY <1>10, <2>6 DEF TrimsFollowFor
<1>17. CASE ~IsLast(g.encoder[s])
  <2>1. \A j \in 1..l : r[j].trimEnd = IF j < l THEN 0 ELSE pad
    <3>. TAKE j \in 1..l
    <3>1. CASE j = n + 1
      BY <1>5, <1>9, <1>13, <1>17, <3>1
    <3>2. CASE j # n + 1
      BY <1>5, <1>13, <3>2
    <3>. QED
      BY <3>1, <3>2
  <2>2. EndsTrimmed(h, o2, f, s)
    BY <1>5, <1>9, <1>11, <1>13, <1>15, <1>17, <2>1, Zenon DEF EndsTrimmed
  <2>. QED
    BY <1>10, <2>2 DEF TrimsFollowFor
<1>. QED
  BY <1>16, <1>17

TrimmedUnit(g) == [s \in Substreams |-> UserTrimmed(s, g)]

LEMMA PoppingKeeps ==
    ASSUME SetupOK, NEW out \in Seq([Substreams -> Frame]), NEW f, NEW g, GenInv(g, out, f),
           NEW st, InStep(g, out, f, st), g.ok, CanPop(g), DOMAIN g.encoder # {},
           \A s \in Popped(g) : TrimmingIsPossible(s, g),
           st # "TakingSamples" => \A s \in DOMAIN g.data : LeftObu(g, s) # <<>>,
           NEW h, h = PoppedFrames(g)
    PROVE  /\ Popped(g) = Substreams /\ TrimmedUnit(g) \in [Substreams -> Frame]
           /\ Moved(g, out, f, st, h, Append(out, TrimmedUnit(g)))
<1>1. /\ g \in Gen /\ GenOK(g) /\ DOMAIN g.encoder = Substreams
      /\ DOMAIN g.data \in {{}, Substreams}
      /\ g.encoder \in [Substreams -> Encoder] /\ g.trimming \in [Substreams -> Trimming]
      /\ \A s \in Substreams : g.encoder[s].queue # <<>>
  BY GenParts DEF GenInv, GenOK, InStep, CanPop
<1>2. Popped(g) = Substreams
  BY <1>1 DEF Popped
<1>3. /\ TrimmedUnit(g) \in [Substreams -> Frame]
      /\ \A s \in Substreams : /\ TrimmedUnit(g)[s] = UserTrimmed(s, g)
                               /\ TrimmingLeft(s, g) \in Trimming
  BY <1>1, UserTrimmedIs DEF TrimmedUnit
<1>4. PICK unit \in [Substreams -> Frame] : unit = TrimmedUnit(g)
  BY <1>3
<1>5. PICK o2 \in Seq([Substreams -> Frame]) : o2 = Append(out, unit)
  BY AppendProperties
<1>. DEFINE newEncoder == [s \in Substreams |-> [g.encoder[s] EXCEPT !.queue = Tail(@)]]
            newTrimming == [s \in Substreams |-> TrimmingLeft(s, g)]
<1>6. h = [g EXCEPT !.encoder = Updated(g.encoder, newEncoder),
                    !.trimming = Updated(g.trimming, newTrimming)]
  BY <1>2, Zenon DEF PoppedFrames
<1>7. \A s \in Substreams : /\ newEncoder[s] \in Encoder
                            /\ newEncoder[s].queue = Tail(g.encoder[s].queue)
                            /\ newEncoder[s].held = g.encoder[s].held
                            /\ newEncoder[s].finished = g.encoder[s].finished
  <2>. TAKE s \in Substreams
  <2>1. PICK n \in Encoder : n = g.encoder[s] /\ n.queue # <<>>
    BY <1>1
  <2>2. PICK t \in Seq(Frame) : t = Tail(n.queue)
    BY <2>1, EncoderParts, HeadTailProperties
  <2>3. newEncoder[s] = [n EXCEPT !.queue = t]
    BY <2>1, <2>2
  <2>4. PICK k : k = [n EXCEPT !.queue = t]
    OBVIOUS
  <2>5. k \in Encoder /\ k.queue = t /\ k.held = n.held /\ k.finished = n.finished
    BY <2>4 DEF Encoder
  <2>. QED
    BY <2>1, <2>2, <2>3, <2>4, <2>5
<1>8. DOMAIN newEncoder = Substreams /\ DOMAIN newTrimming = Substreams
  OBVIOUS
<1>9. \A s \in Substreams : newTrimming[s] \in Trimming
  BY <1>3
<1>. HIDE DEF newEncoder, newTrimming
<1>10. /\ Updated(g.encoder, newEncoder) \in [Substreams -> Encoder]
       /\ \A s \in Substreams : Updated(g.encoder, newEncoder)[s] = newEncoder[s]
  <2>1. \A s \in DOMAIN newEncoder \intersect Substreams : newEncoder[s] \in Encoder
    BY <1>7
  <2>2. Updated(g.encoder, newEncoder) \in [Substreams -> Encoder]
    BY <1>1, <2>1, UpdatedType
  <2>. QED
    BY <1>1, <1>8, <2>2, UpdatedIs
<1>11. /\ Updated(g.trimming, newTrimming) \in [Substreams -> Trimming]
       /\ \A s \in Substreams : Updated(g.trimming, newTrimming)[s] = TrimmingLeft(s, g)
  <2>1. \A s \in DOMAIN newTrimming \intersect Substreams : newTrimming[s] \in Trimming
    BY <1>9
  <2>2. Updated(g.trimming, newTrimming) \in [Substreams -> Trimming]
    BY <1>1, <2>1, UpdatedType
  <2>3. \A s \in Substreams : Updated(g.trimming, newTrimming)[s] = newTrimming[s]
    BY <1>1, <1>8, UpdatedIs
  <2>. QED
    BY <2>2, <2>3 DEF newTrimming
<1>12. /\ h \in Gen /\ h.data = g.data /\ h.encoder = Updated(g.encoder, newEncoder)
       /\ h.labeled = g.labeled /\ h.clock = g.clock /\ h.ok = g.ok
       /\ h.trimming = Updated(g.trimming, newTrimming)
  <2>1. Updated(g.encoder, newEncoder) \in PartialMaps(Encoder)
    BY <1>10, IsPartialMap
  <2>. QED
    BY <1>1, <1>6, <1>11, <2>1 DEF Gen
<1>13. /\ DOMAIN h.encoder = Substreams
       /\ \A s \in Substreams : /\ h.encoder[s].queue = Tail(g.encoder[s].queue)
                                /\ h.encoder[s].held = g.encoder[s].held
                                /\ h.encoder[s].finished = g.encoder[s].finished
  BY <1>7, <1>10, <1>12
<1>14. GenOK(h)
  BY <1>1, <1>12, <1>13 DEF GenOK
<1>15. ASSUME NEW s \in Substreams
       PROVE  LooksSame(s, g, out, h, o2) /\ FrontPops(g, out, s, h, o2, UserTrimmed(s, g))
  <2>1. PICK q, l \in Seq(Frame) : q = g.encoder[s].queue /\ l = g.encoder[s].held /\ q # <<>>
    BY <1>1, EncoderParts
  <2>2. PICK a \in Seq(Frame) : a = [k \in DOMAIN out |-> out[k][s]]
    BY <1>1, FramesType
  <2>3. PICK x \in Frame : /\ x = unit[s] /\ x.start = Head(q).start /\ x.obu = Head(q).obu
                           /\ x.encoded = Head(q).encoded
    BY <1>1, <1>3, <1>4, <2>1, UserTrimmedIs
  <2>4. [k \in DOMAIN o2 |-> o2[k][s]] = Append(a, x)
    BY <1>5, <2>2, <2>3
  <2>5. FramesIn(g, out, s) = a \o (q \o l)
    BY <1>1, <2>1, <2>2, Zenon DEF FramesIn, InsideOf
  <2>6. FramesIn(h, o2, s) = Append(a, x) \o (Tail(q) \o l)
    BY <1>13, <2>1, <2>4, Zenon DEF FramesIn, InsideOf
  <2>7. PICK p, r : p = FramesIn(g, out, s) /\ r = FramesIn(h, o2, s)
    OBVIOUS
  <2>8. HeadMoves(r, p, Len(a), x) /\ p[Len(a) + 1] = Head(q)
    <3>1. PoppedHead(a, q, l, x)
      BY <2>1, PoppedHeadMoves
    <3>. QED
      BY <2>5, <2>6, <2>7, <3>1, Zenon DEF PoppedHead
  <2>9. /\ Len(r) = Len(p)
        /\ \A j \in 1..Len(p) : /\ r[j].start = p[j].start /\ r[j].obu = p[j].obu
                                /\ r[j].encoded = p[j].encoded
    BY <2>3, <2>8 DEF HeadMoves
  <2>10. LeftObu(h, s) = LeftObu(g, s) /\ LeftInput(h, s) = LeftInput(g, s)
    BY <1>12, Zenon DEF LeftObu, LeftInput
  <2>11. LooksSame(s, g, out, h, o2)
    BY <1>12, <2>7, <2>9, <2>10, Zenon DEF LooksSame
  <2>12. Len(a) = Len(out) /\ Len(o2) = Len(out) + 1
    BY <1>5, <2>2
  <2>13. FrontTrimmed(g, s, x, h.trimming[s])
    <3>1. x = UserTrimmed(s, g) /\ h.trimming[s] = TrimmingLeft(s, g)
      BY <1>3, <1>4, <1>11, <1>12, <2>3
    <3>2. FrontTrimmed(g, s, UserTrimmed(s, g), TrimmingLeft(s, g))
      BY <1>1, UserTrimmedIs
    <3>. QED
      BY <3>1, <3>2, Zenon
  <2>14. FrontPops(g, out, s, h, o2, x)
    BY <1>12, <1>13, <2>1, <2>7, <2>8, <2>12, <2>13, Zenon DEF FrontPops
  <2>. QED
    BY <1>3, <1>4, <2>3, <2>11, <2>14
<1>16. EndsAsAsked(g, st)
  BY DEF InStep
<1>17. TrimsFollow(h, o2, f)
  <2>1. ASSUME NEW s \in Substreams PROVE TrimsFollowFor(h, o2, f, s)
    <3>1. s \in DOMAIN g.encoder /\ g.encoder[s].queue # <<>> /\ TrimmingIsPossible(s, g)
      BY <1>1, <1>2
    <3>2. g.encoder[s].finished => leftover
      BY <1>16, <3>1 DEF EndsAsAsked
    <3>3. TrimsFollowFor(g, out, f, s)
      BY DEF GenInv, TrimsFollow, TrimsFollowFor
    <3>4. SamePadding(s, g, out, f, h, o2, f)
      <4>1. LooksSame(s, g, out, h, o2) /\ g \in Gen /\ h \in Gen
        BY <1>1, <1>12, <1>15
      <4>2. o2 \in Seq([Substreams -> Frame])
        BY <1>5
      <4>. QED
        BY <4>1, <4>2, PaddingLooksSame, Zenon
    <3>. QED
      BY <1>1, <1>12, <1>15, <3>1, <3>2, <3>3, <3>4, PoppingTrims
  <2>. QED
    BY <1>12, <2>1 DEF TrimsFollow, TrimsFollowFor
<1>18. EndsAsAsked(h, st)
  <2>1. ASSUME st # "TakingSamples", NEW s \in DOMAIN h.data
        PROVE  leftover <=> LeftObu(h, s) # <<>> \/ InsideOf(h, s) # <<>>
    <3>1. s \in DOMAIN g.data /\ LeftObu(g, s) # <<>> /\ LeftObu(h, s) = LeftObu(g, s)
      BY <1>12, <2>1 DEF LeftObu
    <3>2. leftover
      BY <1>16, <2>1, <3>1 DEF EndsAsAsked
    <3>. QED
      BY <3>1, <3>2
  <2>2. ASSUME NEW s \in DOMAIN h.encoder, h.encoder[s].finished PROVE leftover
    <3>1. s \in Substreams /\ s \in DOMAIN g.encoder /\ g.encoder[s].finished
      BY <1>1, <1>13, <2>2
    <3>. QED
      BY <1>1, <1>16, <3>1 DEF EndsAsAsked
  <2>3. st = "TakingSamples" => ~leftover
    BY <1>16 DEF EndsAsAsked
  <2>. QED
    BY <2>1, <2>2, <2>3 DEF EndsAsAsked
<1>19. Moved(g, out, f, st, h, o2)
  <2>1. \A s \in Substreams : LooksSame(s, g, out, h, o2)
    BY <1>15
  <2>2. DOMAIN h.data = DOMAIN g.data /\ \A s \in DOMAIN h.data : h.data[s] = g.data[s]
    BY <1>12
  <2>3. h.ok /\ DOMAIN h.encoder \in {{}, Substreams}
    BY <1>12, <1>13
  <2>. QED
    BY <1>14, <1>17, <1>18, <2>1, <2>2, <2>3, StaysInStep
<1>. QED
  BY <1>2, <1>3, <1>4, <1>5, <1>19

(* The frames of a substream that has ended hold all that was added, and the   *)
(* padding behind it.                                                          *)
AllIsIn(g, out, f, s) ==
    /\ Rounds(g, f, s) = Len(setup.chunks) /\ Total \in Nat
    /\ PaddingAtEnd \in 0..(F - 1) /\ PaddingIn(g, out, f, s) = PaddingAtEnd
    /\ Len(FramesIn(g, out, s)) * F = D + Total + PaddingAtEnd
    /\ Len(ObuSamplesIn(g, out, s)) = D + Total + PaddingAtEnd

LEMMA AllIsInside ==
    ASSUME SetupOK, NEW out \in Seq([Substreams -> Frame]),
           NEW f \in [Substreams -> 0..Len(setup.chunks)], NEW g, GenInv(g, out, f),
           NEW st, InStep(g, out, f, st), g.ok, NEW s \in Substreams, s \notin DOMAIN g.data
    PROVE  AllIsIn(g, out, f, s)
<1>1. st = "FlushingRemaining"
  BY DEF InStep
<1>2. g \in Gen /\ FramesFollowFor(g, out, s) /\ SamplesFollowFor(g, out, f, s)
  BY DEF GenInv, GenOK, FramesFollow, SamplesFollow, SamplesFollowFor
<1>3. PICK N \in Nat : N = Len(setup.chunks)
  BY DEF SetupOK, Setup
<1>4. Rounds(g, f, s) = N
  <2>1. IsFrames(g, f, s)
    BY <1>1, AllAreFrames
  <2>. QED
    BY <1>3, <2>1 DEF IsFrames
<1>5. PICK a \in Nat : a = Total /\ a = Added[N]
  <2>1. N \in 0..Len(setup.chunks) /\ AddedEquations
    BY <1>3, AddedIsDefined
  <2>2. Added[N] \in Nat
    BY <2>1 DEF AddedEquations
  <2>. QED
    BY <1>3, <2>2 DEF Total
<1>6. PICK d \in Nat : d = D
  BY DelayIs
<1>7. PICK n \in Nat : n = Len(FramesIn(g, out, s))
  <2>1. PICK q \in Seq(Frame) : q = FramesIn(g, out, s)
    BY <1>2, FramesType
  <2>2. Len(q) \in Nat
    OBVIOUS
  <2>. QED
    BY <2>1, <2>2, Zenon
<1>8. PICK m \in Nat : m = n * F
  <2>1. n * F \in Nat
    BY FAssumption
  <2>. QED
    BY <2>1, Zenon
<1>9. Len(ObuSamplesIn(g, out, s)) = m
  <2>1. Len(LeftObu(g, s)) = 0
    BY DEF LeftObu
  <2>2. Len(ObuSamplesIn(g, out, s)) = Len(FramesIn(g, out, s)) * F + Len(LeftObu(g, s))
    BY <1>2, ObuLength
  <2>3. Len(ObuSamplesIn(g, out, s)) = m + 0
    BY <1>7, <1>8, <2>1, <2>2, Zenon
  <2>. QED
    BY <2>3
<1>10. d + a <= m /\ m < d + a + F
  BY <1>2, <1>4, <1>5, <1>6, <1>9 DEF SamplesFollowFor, SamplesOK, Sampled
<1>11. PICK p \in 0..(F - 1) : m = a + d + p
  <2>1. m - (a + d) \in 0..(F - 1) /\ m = a + d + (m - (a + d))
    BY <1>10, FAssumption
  <2>. QED
    BY <2>1
<1>12. PaddingAtEnd = p
  BY <1>5, <1>6, <1>8, <1>11, PaddingAtEndIs
<1>13. PaddingIn(g, out, f, s) = m - (d + a)
  BY <1>4, <1>5, <1>6, <1>9, Zenon DEF PaddingIn
<1>14. m - (d + a) = p /\ m = d + a + p
  BY <1>11, FAssumption
<1>. QED
  BY <1>3, <1>4, <1>5, <1>6, <1>7, <1>8, <1>9, <1>11, <1>12, <1>13, <1>14 DEF AllIsIn

LEMMA HeadIsNext ==
    ASSUME NEW g \in Gen, NEW out \in Seq([Substreams -> Frame]), NEW s \in DOMAIN g.encoder,
           g.encoder[s].queue # <<>>
    PROVE  /\ Len(out) + 1 \in 1..Len(FramesIn(g, out, s))
           /\ FramesIn(g, out, s)[Len(out) + 1] = Head(g.encoder[s].queue)
<1>1. s \in Substreams /\ g.encoder[s] \in Encoder
  BY GenParts
<1>2. PICK q, l \in Seq(Frame) : q = g.encoder[s].queue /\ l = g.encoder[s].held /\ q # <<>>
  BY <1>1, EncoderParts
<1>3. PICK a \in Seq(Frame) : a = [k \in DOMAIN out |-> out[k][s]] /\ Len(a) = Len(out)
  <2>1. [k \in DOMAIN out |-> out[k][s]] \in Seq(Frame)
    BY <1>1, FramesType
  <2>. QED
    BY <2>1
<1>4. Head(q) \in Frame
  BY <1>2, HeadTailProperties
<1>5. FramesIn(g, out, s) = a \o (q \o l)
  BY <1>2, <1>3, Zenon DEF FramesIn, InsideOf
<1>6. PoppedHead(a, q, l, Head(q))
  BY <1>2, <1>4, PoppedHeadMoves
<1>. QED
  BY <1>2, <1>3, <1>5, <1>6, Zenon DEF PoppedHead, HeadMoves

(* What the codecs need trimmed from the front is trimmed anyway.              *)
LEMMA StartIsPossible ==
    ASSUME SetupOK, NEW n \in Nat
    PROVE  AtMost(Rest(D, n)) <= AtMost(Rest(StartTrim, n))
<1>1. PICK d, t \in Nat : d = D /\ t = StartTrim /\ d <= t
  <2>1. D \in Nat /\ setup.trimStart \in Nat
    BY DelayIs DEF SetupOK, Setup
  <2>2. setup.startIncludesDelay => setup.trimStart >= D
    BY DEF SetupOK, Legal, D
  <2>. QED
    BY <2>1, <2>2 DEF StartTrim
<1>2. PICK m \in Nat : m = n * F
  BY FAssumption
<1>3. Rest(d, n) \in Nat /\ Rest(t, n) \in Nat /\ Rest(d, n) <= Rest(t, n)
  BY <1>1, <1>2 DEF Rest
<1>4. PICK rd, rt \in Nat : rd = Rest(d, n) /\ rt = Rest(t, n) /\ rd <= rt
  BY <1>3
<1>5. /\ AtMost(rd) = IF rd < F THEN rd ELSE F
      /\ AtMost(rt) = IF rt < F THEN rt ELSE F
  BY AtMostIs
<1>6. AtMost(rd) <= AtMost(rt)
  BY <1>4, <1>5, FAssumption
<1>. QED
  BY <1>1, <1>4, <1>6

(* Popping fails just if the user wants more trimmed than the last frame.      *)
LEMMA RefusedPop ==
    ASSUME SetupOK, NEW out \in Seq([Substreams -> Frame]),
           NEW f \in [Substreams -> 0..Len(setup.chunks)], NEW g, GenInv(g, out, f),
           NEW st, InStep(g, out, f, st), g.ok, NEW s \in DOMAIN g.encoder,
           g.encoder[s].queue # <<>>, ~TrimmingIsPossible(s, g)
    PROVE  TrimRefused
<1>1. /\ g \in Gen /\ GenOK(g) /\ s \in Substreams /\ g.trimming[s] \in Trimming
      /\ StartsTrimmed(g, out, s) /\ EndsTrimmed(g, out, f, s)
  BY GenParts DEF GenInv, GenOK, TrimsFollow
<1>2. PICK n, l \in Nat : n = Len(out) /\ l = Len(FramesIn(g, out, s)) /\ n + 1 \in 1..l
  <2>1. FramesIn(g, out, s) \in Seq(Frame)
    BY <1>1, FramesType
  <2>. QED
    BY <1>1, <2>1, HeadIsNext
<1>3. PICK p \in Seq(Frame) : p = FramesIn(g, out, s)
  BY <1>1, FramesType
<1>4. PICK frame \in Frame : frame = p[n + 1] /\ frame = Head(g.encoder[s].queue)
  BY <1>1, <1>2, <1>3, HeadIsNext
<1>5. frame.trimEnd \in 0..F /\ frame.trimStart \in 0..F /\ setup.trimEnd \in 0..F
  BY DEF Frame, SetupOK, Setup
<1>6. PICK left \in Trimming : left = g.trimming[s] /\ left.startLeft \in Nat /\ left.endLeft \in Nat
  BY <1>1 DEF Trimming
<1>7. frame.trimStart <= AtMost(left.startLeft)
  <2>2. /\ p[n + 1].trimStart = AtMost(Rest(IF n + 1 <= n THEN StartTrim ELSE D, (n + 1) - 1))
        /\ left.startLeft = Rest(StartTrim, n)
    BY <1>1, <1>2, <1>3, <1>6, Zenon DEF StartsTrimmed
  <2>3. ~(n + 1 <= n) /\ (n + 1) - 1 = n
    OBVIOUS
  <2>4. frame.trimStart = AtMost(Rest(D, n))
    BY <1>4, <2>2, <2>3
  <2>. QED
    BY <2>2, <2>4, StartIsPossible
<1>8. /\ IsLast(g.encoder[s])
      /\ ~(frame.trimEnd <= AtMost(left.endLeft)) \/ ~(left.endLeft <= F)
  BY <1>4, <1>6, <1>7, Zenon DEF TrimmingIsPossible
<1>9. s \notin DOMAIN g.data /\ l = n + 1
  BY <1>1, <1>2, <1>8, LastFrame DEF GenOK, IsLast
<1>10. PaddingIn(g, out, f, s) = PaddingAtEnd /\ PaddingAtEnd \in 0..(F - 1)
  BY <1>1, <1>9, AllIsInside DEF AllIsIn
<1>11. PICK pad \in 0..(F - 1) : pad = PaddingAtEnd /\ pad = PaddingIn(g, out, f, s)
  BY <1>10
<1>12. ~HasEnded(g, s)
  BY DEF HasEnded, Finished
<1>13. /\ frame.trimEnd = pad /\ left.endLeft = EndTrim(pad)
       /\ setup.endIncludesPadding => pad <= setup.trimEnd
  <2>1. /\ p[n + 1].trimEnd = IF n + 1 < l THEN 0 ELSE pad
        /\ left.endLeft = EndTrim(pad)
        /\ setup.endIncludesPadding => pad <= setup.trimEnd
    BY <1>1, <1>2, <1>3, <1>6, <1>11, <1>12, Zenon DEF EndsTrimmed
  <2>. QED
    BY <1>4, <1>9, <2>1
<1>14. AtMost(left.endLeft) = IF left.endLeft < F THEN left.endLeft ELSE F
  BY <1>6, AtMostIs
<1>15. ~setup.endIncludesPadding /\ setup.trimEnd + pad > F
  BY <1>5, <1>6, <1>8, <1>13, <1>14, FAssumption DEF EndTrim
<1>. QED
  BY <1>11, <1>15 DEF TrimRefused

-------------------------------------------------------------------------------
(* What is encoded never changes, so that what holds of the next values holds  *)
(* in the next state.                                                          *)
LEMMA SetupStays ==
    ASSUME setup' = setup
    PROVE  Added' = Added /\ D' = D /\ Backlog' = Backlog
<1>1. D' = D
  BY DEF D
<1>2. Added' = Added
  BY DEF Added
<1>3. Backlog' = Backlog
  BY <1>1 DEF Backlog, ChunkSize
<1>. QED
  BY <1>1, <1>2, <1>3

SamplesInv(g, out, f) == /\ GenOK(g) /\ FramesFollow(g, out) /\ SamplesFollow(g, out, f)
                         /\ LeftAgrees(g, out) /\ LabelsWait(g, f)

LEMMA SamplesStay ==
    ASSUME setup' = setup, NEW h, NEW o2, NEW f2, gen' = h, output' = o2, fed' = f2,
           SamplesInv(h, o2, f2)
    PROVE  SamplesInv(gen, output, fed)'
<1>1. Added' = Added /\ D' = D /\ Backlog' = Backlog
  BY SetupStays
<1>2. GenOK(gen)'
  BY DEF SamplesInv, GenOK
<1>3. FramesFollow(gen, output)'
  BY DEF SamplesInv, FramesFollow, FramesFollowFor
<1>4. \A r, ahead, samples, input, left :
          SamplesOK(r, ahead, samples, input, left)' <=> SamplesOK(r, ahead, samples, input, left)
  BY <1>1 DEF SamplesOK
<1>5. SamplesFollow(gen, output, fed)'
  BY <1>4 DEF SamplesInv, SamplesFollow
<1>6. LeftAgrees(gen, output)'
  BY <1>1 DEF SamplesInv, LeftAgrees, LeftAgreesFor
<1>7. \A k : Chunk(k)' = Chunk(k)
  BY <1>1 DEF Chunk
<1>8. LabelsWait(gen, fed)'
  BY <1>7 DEF SamplesInv, LabelsWait, LabelWaits
<1>. QED
  BY <1>2, <1>3, <1>5, <1>6, <1>8 DEF SamplesInv

(* While no substream has ended, it does not matter how their frames will end. *)
LEMMA TrimsStay ==
    ASSUME setup' = setup, NEW h, NEW o2, NEW f2, gen' = h, output' = o2, fed' = f2,
           TrimsFollow(h, o2, f2),
           leftover' = leftover \/ \A s \in Substreams : ~HasEnded(h, s)
    PROVE  TrimsFollow(gen, output, fed)'
<1>1. Added' = Added /\ D' = D
  BY SetupStays
<1>2. TrimRefused' <=> TrimRefused
  BY <1>1 DEF TrimRefused, PaddingAtEnd, Total
<1>3. /\ StartTrim' = StartTrim /\ \A pad : EndTrim(pad)' = EndTrim(pad)
      /\ \A s : PaddingIn(h, o2, f2, s)' = PaddingIn(h, o2, f2, s)
  BY <1>1 DEF StartTrim, EndTrim, PaddingIn
<1>4. ASSUME NEW s \in Substreams, StartsTrimmed(h, o2, s) PROVE StartsTrimmed(h, o2, s)'
  BY <1>1, <1>3, <1>4 DEF StartsTrimmed
<1>5. ASSUME NEW s \in Substreams, EndsTrimmed(h, o2, f2, s) PROVE EndsTrimmed(h, o2, f2, s)'
  <2>1. CASE leftover' = leftover
    BY <1>3, <1>5, <2>1 DEF EndsTrimmed
  <2>2. CASE ~HasEnded(h, s)
    BY <1>3, <1>5, <2>2 DEF EndsTrimmed
  <2>. QED
    BY <2>1, <2>2
<1>. QED
  BY <1>2, <1>4, <1>5 DEF TrimsFollow

LEMMA InvariantStays ==
    ASSUME setup' = setup, NEW h, NEW o2, NEW f2, NEW st, gen' = h, output' = o2, fed' = f2,
           state' = st, leftover' = leftover, GenInv(h, o2, f2), InStep(h, o2, f2, st)
    PROVE  GenInv(gen, output, fed)' /\ InStep(gen, output, fed, state)'
<1>1. SamplesInv(gen, output, fed)'
  BY SamplesStay DEF GenInv, SamplesInv
<1>2. TrimsFollow(gen, output, fed)'
  BY TrimsStay DEF GenInv
<1>3. InStep(gen, output, fed, state)'
  BY DEF InStep, EndsAsAsked
<1>. QED
  BY <1>1, <1>2, <1>3 DEF GenInv, SamplesInv

LEMMA StartsOut == Init => IInv
<1>. SUFFICES ASSUME Init PROVE IInv
  OBVIOUS
<1>1. SetupOK
  BY SetupsAssumption DEF Init, SetupOK
<1>2. PICK N \in Nat : N = Len(setup.chunks)
  BY <1>1 DEF SetupOK, Setup
<1>3. PICK d \in Nat : d = D /\ \A e \in Elements : setup.delay[e] \in 0..d
  BY <1>1, DelayIs
<1>4. AddedEquations /\ BacklogEquations
  BY <1>1, AddedIsDefined, BacklogIsDefined
<1>5. \A s \in Substreams : ElementOf[s] \in Elements /\ setup.delay[ElementOf[s]] \in 0..d
  BY <1>3, ElementAssumption
<1>. DEFINE data == [s \in Substreams |-> InitializeSubstreamData(setup, s)]
            encoder == [s \in Substreams |-> NewEncoder]
            trimming == [s \in Substreams |-> InitialTrimming(setup)]
<1>6. /\ gen = [labeled |-> [s \in Substreams |-> None], data |-> data, encoder |-> encoder,
                trimming |-> trimming, clock |-> [s \in Substreams |-> 0], ok |-> TRUE]
      /\ fed = [s \in Substreams |-> 0] /\ output = <<>> /\ state = "TakingSamples"
      /\ consumer = "asks" /\ leftover = FALSE
  BY DEF Init
<1>7. \A s \in Substreams :
         /\ data[s] \in Data /\ data[s].inObu = Zeros(d)
         /\ data[s].toEncode = Zeros(d - setup.delay[ElementOf[s]])
         /\ data[s].trimStart = d /\ data[s].trimEnd = 0
  <2>. TAKE s \in Substreams
  <2>1. PICK k \in Nat : k = d - setup.delay[ElementOf[s]]
    BY <1>5
  <2>2. Zeros(d) \in Seq(Nat) /\ Zeros(k) \in Seq(Nat)
    BY ZerosAre
  <2>3. data[s] = [inObu |-> Zeros(d), toEncode |-> Zeros(k), trimStart |-> d, trimEnd |-> 0]
    BY <1>3, <2>1 DEF InitializeSubstreamData, D
  <2>. QED
    BY <2>1, <2>2, <2>3 DEF Data
<1>8. \A s \in Substreams : encoder[s] \in Encoder /\ encoder[s].queue = <<>> /\ encoder[s].held = <<>>
                            /\ ~encoder[s].finished
  BY DEF NewEncoder, Encoder
<1>9. \A s \in Substreams : /\ trimming[s] \in Trimming /\ trimming[s].startLeft = StartTrim
                            /\ trimming[s].endLeft = setup.trimEnd /\ StartTrim \in Nat
                            /\ setup.trimEnd \in Nat
  BY <1>1, <1>3, FAssumption DEF InitialTrimming, Trimming, SetupOK, Setup, D, StartTrim
<1>10. DOMAIN data = Substreams /\ DOMAIN encoder = Substreams
  OBVIOUS
<1>11. data \in [Substreams -> Data] /\ encoder \in [Substreams -> Encoder]
       /\ trimming \in [Substreams -> Trimming]
  <2>1. /\ data = [s \in Substreams |-> data[s]] /\ encoder = [s \in Substreams |-> encoder[s]]
        /\ trimming = [s \in Substreams |-> trimming[s]]
    OBVIOUS
  <2>. HIDE DEF data, encoder, trimming
  <2>. QED
    BY <1>7, <1>8, <1>9, <2>1
<1>. HIDE DEF data, encoder, trimming
<1>12. /\ gen \in Gen /\ gen.data = data /\ gen.encoder = encoder /\ gen.ok
       /\ gen.trimming = trimming
       /\ \A s \in Substreams : gen.labeled[s] = None /\ gen.clock[s] = 0
  <2>1. data \in PartialMaps(Data) /\ encoder \in PartialMaps(Encoder)
    BY <1>11, IsPartialMap
  <2>. QED
    BY <1>6, <1>11, <2>1 DEF Gen
<1>13. GenOK(gen)
  BY <1>8, <1>10, <1>12 DEF GenOK
<1>14. \A s \in Substreams : FramesIn(gen, output, s) = <<>>
  <2>. TAKE s \in Substreams
  <2>1. InsideOf(gen, s) = <<>>
    <3>1. <<>> \o <<>> = <<>>
      OBVIOUS
    <3>. QED
      BY <1>8, <1>10, <1>12, <3>1, Zenon DEF InsideOf
  <2>2. [k \in DOMAIN output |-> output[k][s]] = <<>>
    <3>1. output \in Seq([Substreams -> Frame])
      BY <1>6
    <3>2. PICK q \in Seq(Frame) : q = [k \in DOMAIN output |-> output[k][s]]
      BY <1>12, <3>1, FramesType
    <3>3. DOMAIN q = {}
      BY <1>6, <3>2
    <3>4. q = <<>>
      BY <3>3, EmptySeq
    <3>. QED
      BY <3>2, <3>4
  <2>3. <<>> \o <<>> = <<>>
    OBVIOUS
  <2>. QED
    BY <2>1, <2>2, <2>3, Zenon DEF FramesIn
<1>15. \A s \in Substreams : Obus(gen, output, s) = <<>> /\ Inputs(gen, output, s) = <<>>
  <2>. TAKE s \in Substreams
  <2>1. Obus(gen, output, s) = [k \in DOMAIN <<>> |-> <<>>[k].obu]
    BY <1>14, Zenon DEF Obus
  <2>2. Inputs(gen, output, s) = [k \in DOMAIN <<>> |-> <<>>[k].encoded]
    BY <1>14, Zenon DEF Inputs
  <2>3. output \in Seq([Substreams -> Frame])
    BY <1>6
  <2>4. PICK p, q \in Seq(Seq(Nat)) : p = Obus(gen, output, s) /\ q = Inputs(gen, output, s)
    BY <1>12, <2>3, FramesType
  <2>5. DOMAIN p = {} /\ DOMAIN q = {}
    BY <2>1, <2>2, <2>4
  <2>. QED
    BY <2>4, <2>5, EmptySeq
<1>16. \A s \in Substreams : /\ ObuSamplesIn(gen, output, s) = Zeros(d)
                             /\ EncoderInputIn(gen, output, s) = Zeros(d - setup.delay[ElementOf[s]])
                             /\ LeftObu(gen, s) = Zeros(d)
  <2>. TAKE s \in Substreams
  <2>1. /\ LeftObu(gen, s) = Zeros(d) /\ LeftInput(gen, s) = Zeros(d - setup.delay[ElementOf[s]])
    BY <1>7, <1>10, <1>12 DEF LeftObu, LeftInput
  <2>2. PICK k \in Nat : k = d - setup.delay[ElementOf[s]]
    BY <1>5
  <2>3. <<>> \o Zeros(d) = Zeros(d) /\ <<>> \o Zeros(k) = Zeros(k)
    BY ZerosAre, NoZeros
  <2>4. FlattenSeq(<<>>) = <<>>
    BY DEF FlattenSeq
  <2>. QED
    BY <1>15, <2>1, <2>2, <2>3, <2>4, Zenon DEF ObuSamplesIn, EncoderInputIn
<1>17. \A s \in Substreams : Rounds(gen, fed, s) = 0
  BY <1>6, <1>12 DEF Rounds
<1>18. \A s \in Substreams : FramesFollowFor(gen, output, s)
  BY <1>12, <1>14, FAssumption DEF FramesFollowFor
<1>19. ASSUME NEW s \in Substreams
       PROVE  SamplesOK(0, setup.delay[ElementOf[s]], ObuSamplesIn(gen, output, s),
                        EncoderInputIn(gen, output, s), LeftObu(gen, s))
  <2>1. PICK k \in Nat : k = d - setup.delay[ElementOf[s]]
    BY <1>5
  <2>2. Added[0] = 0
    BY <1>4 DEF AddedEquations
  <2>3. \A n \in Nat : Sampled(Zeros(n), n, 0)
    <3>. TAKE n \in Nat
    <3>1. PICK z \in Seq(Nat) : z = Zeros(n) /\ Len(z) = n /\ \A i \in 1..n : z[i] = 0
      BY ZerosAre
    <3>2. n + 0 <= Len(z) /\ \A i \in 1..Len(z) : ~(n < i /\ i <= n + 0)
      BY <3>1
    <3>3. Sampled(z, n, 0)
      BY <3>1, <3>2 DEF Sampled
    <3>. QED
      BY <3>1, <3>3
  <2>4. Len(Zeros(d)) = d /\ Len(Zeros(k)) = k
    BY ZerosAre
  <2>5. d < d + 0 + F /\ d = d + 0 /\ k = k + 0 /\ 0 \in 0..N
    BY FAssumption
  <2>6. SamplesOK(0, setup.delay[ElementOf[s]], Zeros(d), Zeros(k), Zeros(d))
    BY <1>2, <1>3, <2>1, <2>2, <2>3, <2>4, <2>5 DEF SamplesOK
  <2>. QED
    BY <1>16, <2>1, <2>6
<1>20. \A s \in Substreams : LeftAgreesFor(gen, output, s)
  <2>. TAKE s \in Substreams
  <2>1. PICK k \in Nat : k = d - setup.delay[ElementOf[s]] /\ k <= d
    BY <1>5
  <2>2. Backlog[0] = d /\ Len(FramesIn(gen, output, s)) = 0
    BY <1>3, <1>4, <1>14 DEF BacklogEquations
  <2>3. Len(Zeros(d)) = d /\ Len(Zeros(k)) = k
    BY ZerosAre
  <2>. QED
    BY <1>7, <1>12, <2>1, <2>2, <2>3 DEF LeftAgreesFor
<1>21. \A s \in Substreams : \A t \in SubstreamsOf(ElementOf[s]) :
           t \in Substreams /\ ElementOf[t] = ElementOf[s]
  BY DEF SubstreamsOf
<1>22. LeftAgrees(gen, output)
  <2>1. ASSUME NEW s \in Substreams, NEW t \in SubstreamsOf(ElementOf[s])
        PROVE  LeftTogether(gen, s, t)
    <3>1. data[t].inObu = data[s].inObu /\ data[t].toEncode = data[s].toEncode /\ t \in Substreams
      BY <1>7, <1>21
    <3>. QED
      BY <1>10, <1>12, <3>1 DEF LeftTogether
  <2>. QED
    BY <1>10, <1>12, <1>20, <2>1 DEF LeftAgrees
<1>23. LabelsWait(gen, fed)
  <2>1. \A s \in Substreams : LabelWaits(gen, fed, s)
    BY <1>6, <1>12 DEF LabelWaits
  <2>. QED
    BY <1>17, <1>21, <2>1 DEF LabelsWait
<1>28. \A n \in Nat : Rest(n, 0) = n
  <2>1. 0 * F = 0
    BY FAssumption
  <2>. QED
    BY <2>1 DEF Rest
<1>29. ASSUME NEW s \in Substreams PROVE StartsTrimmed(gen, output, s)
  <2>1. Len(FramesIn(gen, output, s)) = 0 /\ Len(output) = 0
    <3>1. FramesIn(gen, output, s) = <<>> /\ output = <<>>
      BY <1>6, <1>14
    <3>2. Len(<<>>) = 0
      OBVIOUS
    <3>. QED
      BY <3>1, <3>2, Zenon
  <2>2. gen.data[s].trimStart = d /\ gen.data[s].trimEnd = 0 /\ gen.trimming[s].startLeft = StartTrim
    BY <1>7, <1>9, <1>12
  <2>3. Rest(StartTrim, 0) = StartTrim /\ Rest(D, 0) = d
    BY <1>3, <1>9, <1>28
  <2>. QED
    BY <2>1, <2>2, <2>3 DEF StartsTrimmed
<1>30. ASSUME NEW s \in Substreams PROVE EndsTrimmed(gen, output, fed, s)
  <2>1. Len(FramesIn(gen, output, s)) = 0
    BY <1>14
  <2>2. PaddingIn(gen, output, fed, s) = 0
    <3>1. Len(Zeros(d)) = d /\ Added[0] = 0
      BY <1>4, ZerosAre DEF AddedEquations
    <3>2. PaddingIn(gen, output, fed, s) = d - (d + 0)
      BY <1>3, <1>16, <1>17, <3>1, Zenon DEF PaddingIn
    <3>. QED
      BY <3>2
  <2>3. gen.trimming[s].endLeft = EndTrim(0) /\ 0 <= setup.trimEnd
    BY <1>9, <1>12 DEF EndTrim
  <2>. QED
    BY <1>6, <2>1, <2>2, <2>3 DEF EndsTrimmed
<1>24. GenInv(gen, output, fed)
  BY <1>12, <1>13, <1>17, <1>18, <1>19, <1>22, <1>23, <1>29, <1>30
     DEF GenInv, FramesFollow, SamplesFollow, TrimsFollow
<1>25. OneIsMissing(gen)
  <2>1. \A e \in Elements : \E s \in SubstreamsOf(e) : s \in Substreams
    BY SubstreamsOfIs
  <2>. QED
    BY <1>12, <2>1, Zenon DEF OneIsMissing
<1>26. InStep(gen, output, fed, state)
  <2>1. \A s \in Substreams : Len(FramesIn(gen, output, s)) = Rounds(gen, fed, s)
    BY <1>14, <1>17
  <2>2. EndsAsAsked(gen, "TakingSamples")
    BY <1>6, <1>10, <1>12, <1>13, NothingFinished
  <2>. QED
    BY <1>6, <1>10, <1>12, <1>25, <2>1, <2>2 DEF InStep
<1>27. ControlOK
  <2>1. fed \in [Substreams -> 0..Len(setup.chunks)] /\ output \in Seq([Substreams -> Frame])
    BY <1>2, <1>6
  <2>2. leftover \in BOOLEAN
    BY <1>6, Zenon
  <2>. QED
    BY <1>6, <2>1, <2>2 DEF ControlOK
<1>. QED
  BY <1>1, <1>24, <1>26, <1>27 DEF IInv

-------------------------------------------------------------------------------
(* What a call of a method does: h, o2, f2 and st are what becomes of the      *)
(* generator, the output, the calls of AddSamples and the state.               *)
Becomes(h, o2, f2, st) ==
    /\ o2 \in Seq([Substreams -> Frame]) /\ f2 \in [Substreams -> 0..Len(setup.chunks)]
    /\ st \in {"TakingSamples", "FinalizedCalled", "FlushingRemaining"}
    /\ GenInv(h, o2, f2) /\ InStep(h, o2, f2, st)

LEMMA PopKeeps ==
    ASSUME SetupOK, output \in Seq([Substreams -> Frame]),
           fed \in [Substreams -> 0..Len(setup.chunks)], NEW g, GenInv(g, output, fed),
           NEW st \in {"TakingSamples", "FinalizedCalled", "FlushingRemaining"},
           InStep(g, output, fed, st), g.ok, DOMAIN g.encoder # {}, Pop(g),
           st # "TakingSamples" => \A s \in DOMAIN g.data : LeftObu(g, s) # <<>>
    PROVE  Becomes(gen', output', fed, st)
<1>1. CASE ~CanPop(g)
  <2>1. gen' = WithoutFinished(g) /\ output' = output
    BY <1>1 DEF Pop
  <2>2. Moved(g, output, fed, st, gen', output)
    BY <2>1, DeletingKeeps
  <2>. QED
    BY <2>1, <2>2 DEF Moved, Becomes
<1>2. CASE CanPop(g) /\ \A s \in Popped(g) : TrimmingIsPossible(s, g)
  <2>1. PICK h : h = PoppedFrames(g)
    OBVIOUS
  <2>2. /\ Popped(g) = Substreams /\ TrimmedUnit(g) \in [Substreams -> Frame]
        /\ Moved(g, output, fed, st, h, Append(output, TrimmedUnit(g)))
    BY <1>2, <2>1, PoppingKeeps
  <2>3. PICK o2 \in Seq([Substreams -> Frame]) : o2 = Append(output, TrimmedUnit(g))
    BY <2>2, AppendProperties
  <2>4. gen' = WithoutFinished(h) /\ output' = o2
    BY <1>2, <2>1, <2>2, <2>3, Zenon DEF Pop, TrimmedUnit
  <2>5. GenInv(h, o2, fed) /\ InStep(h, o2, fed, st) /\ h.ok
    BY <2>2, <2>3 DEF Moved
  <2>6. Moved(h, o2, fed, st, gen', o2)
    BY <2>4, <2>5, DeletingKeeps
  <2>. QED
    BY <2>4, <2>6 DEF Moved, Becomes
<1>3. CASE CanPop(g) /\ ~(\A s \in Popped(g) : TrimmingIsPossible(s, g))
  <2>1. gen' = Failed(g) /\ output' = output
    BY <1>3 DEF Pop
  <2>0. TrimRefused
    <3>1. PICK s \in Popped(g) : ~TrimmingIsPossible(s, g)
      BY <1>3
    <3>2. s \in DOMAIN g.encoder /\ g.encoder[s].queue # <<>>
      BY <3>1 DEF Popped
    <3>. QED
      BY <3>1, <3>2, RefusedPop
  <2>2. GenInv(gen', output, fed) /\ ~gen'.ok
    <3>1. FailedIs(g, gen', output, fed)
      BY <2>0, <2>1, FailedKeeps, Zenon
    <3>. QED
      BY <3>1 DEF FailedIs
  <2>3. InStep(gen', output, fed, st)
    BY <2>2 DEF InStep
  <2>. QED
    BY <2>1, <2>2, <2>3 DEF Becomes
<1>. QED
  BY <1>1, <1>2, <1>3

LEMMA AddingKeeps ==
    ASSUME IInv, NEW s \in Substreams, AddSamples(s)
    PROVE  Becomes(gen', output', fed', state') /\ DOMAIN gen'.encoder = DOMAIN gen.encoder
<1>1. /\ SetupOK /\ output \in Seq([Substreams -> Frame])
      /\ fed \in [Substreams -> 0..Len(setup.chunks)] /\ MayAdd(gen, output, fed, s)
      /\ state = "TakingSamples" /\ state' = state /\ output' = output
  BY DEF IInv, ControlOK, AddSamples, PassChunk, MayAdd
<1>2. PICK g1, f2 : g1 = WithLabel(gen, s, fed) /\ f2 = OneMore(fed, s)
  OBVIOUS
<1>3. gen' = MaybeEncodeFramesForAudioElement(ElementOf[s], g1) /\ fed' = f2
  BY <1>2 DEF AddSamples, PassChunk, WithLabel, OneMore
<1>4. PICK h : h = gen'
  OBVIOUS
<1>5. /\ GenInv(h, output, f2) /\ InStep(h, output, f2, "TakingSamples")
      /\ DOMAIN h.encoder = DOMAIN gen.encoder
  <2>1. h = MaybeEncodeFramesForAudioElement(ElementOf[s], g1)
    BY <1>3, <1>4
  <2>2. SetupOK /\ output \in Seq([Substreams -> Frame])
        /\ fed \in [Substreams -> 0..Len(setup.chunks)] /\ MayAdd(gen, output, fed, s)
    BY <1>1
  <2>3. GenInv(h, output, f2)
    BY <1>2, <2>1, <2>2, AddSamplesKeeps, Zenon
  <2>4. InStep(h, output, f2, "TakingSamples")
    BY <1>2, <2>1, <2>2, AddSamplesKeeps, Zenon
  <2>5. SameEncoders(gen, h)
    BY <1>2, <2>1, <2>2, AddSamplesKeeps, Zenon
  <2>. QED
    BY <2>3, <2>4, <2>5 DEF SameEncoders
<1>6. f2 \in [Substreams -> 0..Len(setup.chunks)]
  <2>1. gen \in Gen /\ fed[s] < Len(setup.chunks)
    BY <1>1 DEF MayAdd, GenInv, GenOK
  <2>2. Labeled(gen, s, fed, WithLabel(gen, s, fed), OneMore(fed, s))
    BY <1>1, <2>1, AddIsTyped
  <2>3. Labeled(gen, s, fed, g1, f2)
    BY <1>2, <2>2, Zenon
  <2>. QED
    BY <2>3 DEF Labeled
<1>. QED
  BY <1>1, <1>3, <1>4, <1>5, <1>6 DEF Becomes

(* Finalize notes whether frames are left; if they are, of each substream.     *)
LEMMA FinalizeKeeps == IInv /\ Finalize => IInv'
<1>. SUFFICES ASSUME IInv, Finalize PROVE IInv'
  OBVIOUS
<1>1. PICK h, o2, f2 : /\ h = gen /\ o2 = output /\ f2 = fed
  OBVIOUS
<1>2. /\ gen' = h /\ output' = o2 /\ fed' = f2 /\ setup' = setup /\ consumer' = consumer
      /\ state = "TakingSamples" /\ state' = "FinalizedCalled" /\ h.ok
      /\ \A s \in Substreams : f2[s] = Len(setup.chunks)
  BY <1>1 DEF Finalize
<1>3. /\ SetupOK /\ o2 \in Seq([Substreams -> Frame]) /\ f2 \in [Substreams -> 0..Len(setup.chunks)]
      /\ GenInv(h, o2, f2) /\ h \in Gen /\ GenOK(h) /\ LeftAgrees(h, o2)
  BY <1>1 DEF IInv, ControlOK, GenInv, GenOK
<1>4. /\ DOMAIN h.data = Substreams /\ DOMAIN h.encoder \in {{}, Substreams} /\ OneIsMissing(h)
      /\ \A s \in Substreams : Len(FramesIn(h, o2, s)) = Rounds(h, f2, s)
  BY <1>1, <1>2 DEF IInv, InStep
<1>5. \A s \in Substreams : ~HasEnded(h, s)
  BY <1>3, <1>4, NotEnded
<1>6. SamplesInv(gen, output, fed)'
  BY <1>2, <1>3, SamplesStay DEF GenInv, SamplesInv
<1>7. TrimsFollow(gen, output, fed)'
  BY <1>2, <1>3, <1>5, TrimsStay DEF GenInv
<1>8. PICK N \in Nat : N = Len(setup.chunks)
  BY <1>3 DEF SetupOK, Setup
<1>9. ASSUME NEW s \in Substreams
      PROVE  /\ FramesAreFor(h, o2, s) /\ Len(FramesIn(h, o2, s)) = N
             /\ LeftObu(h, s) \in Seq(Nat) /\ Len(LeftObu(h, s)) = Backlog[N]
  <2>1. IsFrames(h, f2, s)
    BY <1>2, <1>3, <1>4, AllWereAdded
  <2>2. Len(FramesIn(h, o2, s)) = N
    BY <1>4, <1>8, <2>1 DEF IsFrames
  <2>3. Len(h.data[s].inObu) = Backlog[N]
    BY <1>3, <1>4, <2>2 DEF LeftAgrees, LeftAgreesFor
  <2>4. FramesAreFor(h, o2, s) /\ LeftObu(h, s) \in Seq(Nat)
    BY <1>3, FramesAre, FramesType
  <2>. QED
    BY <1>4, <2>2, <2>3, <2>4 DEF LeftObu
<1>10. ASSUME NEW s \in Substreams, NEW t \in Substreams
       PROVE  /\ InsideOf(h, s) = <<>> <=> InsideOf(h, t) = <<>>
              /\ LeftObu(h, s) = <<>> <=> LeftObu(h, t) = <<>>
  <2>1. Len(InsideOf(h, s)) = Len(InsideOf(h, t))
    BY <1>9 DEF FramesAreFor
  <2>2. \A q \in Seq(Nat) : q = <<>> <=> Len(q) = 0
    BY EmptySeq
  <2>. QED
    BY <1>9, <2>1, <2>2 DEF FramesAreFor
<1>11. leftover' = \E s \in Substreams : InsideOf(h, s) # <<>> \/ LeftObu(h, s) # <<>>
  BY <1>1, Zenon DEF Finalize, Inside, InsideOf, NotEncoded, LeftObu
<1>12. \A s \in Substreams : leftover' <=> LeftObu(h, s) # <<>> \/ InsideOf(h, s) # <<>>
  BY <1>10, <1>11
<1>13. \A s \in DOMAIN h.encoder : ~h.encoder[s].finished
  BY <1>3, <1>4, GenParts DEF GenOK
<1>14. EndsAsAsked(gen, state)'
  BY <1>2, <1>4, <1>12, <1>13 DEF EndsAsAsked
<1>15. InStep(gen, output, fed, state)'
  <2>1. OneIsMissing(gen)'
    BY <1>2, <1>4 DEF OneIsMissing
  <2>. QED
    BY <1>2, <1>4, <1>14, <2>1 DEF InStep
<1>16. SetupOK'
  BY <1>2, <1>3 DEF SetupOK, Legal
<1>17. ControlOK'
  <2>1. leftover' \in BOOLEAN
    BY <1>11
  <2>2. /\ consumer \in {"asks", "outputs", "done"}
        /\ consumer = "outputs" => DOMAIN h.encoder # {}
        /\ consumer = "done" => DOMAIN h.encoder = {} /\ h.ok
    BY <1>1 DEF IInv, ControlOK
  <2>. QED
    BY <1>2, <1>3, <2>1, <2>2 DEF ControlOK
<1>. QED
  BY <1>6, <1>7, <1>15, <1>16, <1>17 DEF IInv, GenInv, SamplesInv

LEMMA OutputKeeps ==
    ASSUME IInv, NEW order \in SetToSeqs(Elements), OutputFrames(order)
    PROVE  Becomes(gen', output', fed', state')
<1>1. /\ SetupOK /\ output \in Seq([Substreams -> Frame])
      /\ fed \in [Substreams -> 0..Len(setup.chunks)] /\ GenInv(gen, output, fed)
      /\ InStep(gen, output, fed, state) /\ gen.ok /\ DOMAIN gen.encoder # {}
      /\ fed' = fed /\ state' = NextState
      /\ state \in {"TakingSamples", "FinalizedCalled", "FlushingRemaining"}
  BY DEF IInv, ControlOK, OutputFrames, CallOutputFrames
<1>2. /\ state' \in {"TakingSamples", "FinalizedCalled", "FlushingRemaining"}
      /\ state' = "FlushingRemaining" <=> state # "TakingSamples"
      /\ state' # "FlushingRemaining" => state' = state
  BY <1>1 DEF NextState
<1>3. PICK g : g = IF state = "FlushingRemaining" THEN FlushedInOrder(order) ELSE gen
  OBVIOUS
<1>4. \/ ~g.ok /\ gen' = g /\ output' = output
      \/ g.ok /\ Pop(IF state' = "FlushingRemaining" THEN FinalizedEncoders(g) ELSE g)
  BY <1>3 DEF OutputFrames
<1>5. /\ GenInv(g, output, fed) /\ InStep(g, output, fed, state)
      /\ DOMAIN g.encoder = DOMAIN gen.encoder
  <2>1. CASE state = "FlushingRemaining"
    <3>1. Flushing /\ OrderOK(order)
      BY <1>1, <2>1, OrderIs DEF Flushing
    <3>. QED
      BY <1>3, <2>1, <3>1, FlushKeeps
  <2>2. CASE state # "FlushingRemaining"
    BY <1>1, <1>3, <2>2
  <2>. QED
    BY <2>1, <2>2
<1>6. CASE ~g.ok
  <2>1. InStep(g, output, fed, state')
    BY <1>6 DEF InStep
  <2>. QED
    BY <1>1, <1>2, <1>4, <1>5, <1>6, <2>1 DEF Becomes
<1>7. CASE g.ok /\ state' = "FlushingRemaining"
  <2>1. state # "TakingSamples"
    BY <1>2, <1>7
  <2>2. InStep(g, output, fed, "FlushingRemaining")
    BY <1>1, <1>5, <1>7, <2>1, FlushingMayStart
  <2>3. PICK h : h = FinalizedEncoders(g)
    OBVIOUS
  <2>4. /\ Moved(g, output, fed, "FlushingRemaining", h, output)
        /\ DOMAIN h.encoder = DOMAIN g.encoder
        /\ \A s \in DOMAIN h.data : LeftObu(h, s) # <<>>
    <3>1. GenInv(g, output, fed) /\ g.ok
      BY <1>5, <1>7
    <3>2. SetupOK /\ output \in Seq([Substreams -> Frame])
      BY <1>1
    <3>. QED
      BY <2>2, <2>3, <3>1, <3>2, FinalizingKeeps, Zenon
  <2>5. GenInv(h, output, fed) /\ InStep(h, output, fed, "FlushingRemaining") /\ h.ok
        /\ DOMAIN h.encoder # {}
    BY <1>1, <1>5, <2>4 DEF Moved
  <2>6. Pop(h)
    BY <1>4, <1>7, <2>3
  <2>7. Becomes(gen', output', fed, "FlushingRemaining")
    BY <1>1, <2>4, <2>5, <2>6, PopKeeps
  <2>. QED
    BY <1>1, <1>7, <2>7
<1>8. CASE g.ok /\ state' # "FlushingRemaining"
  <2>1. Pop(g) /\ state' = state
    BY <1>2, <1>4, <1>8
  <2>2. Becomes(gen', output', fed, state)
    BY <1>1, <1>2, <1>5, <1>8, <2>1, PopKeeps
  <2>. QED
    BY <1>1, <2>1, <2>2
<1>. QED
  BY <1>6, <1>7, <1>8

(* What a method makes of the generator is in the next state.                  *)
LEMMA BecomesNext ==
    ASSUME SetupOK, setup' = setup, Becomes(gen', output', fed', state'),
           consumer' \in {"asks", "outputs", "done"}, leftover \in BOOLEAN, leftover' = leftover,
           consumer' = "outputs" => DOMAIN gen'.encoder # {},
           consumer' = "done" => DOMAIN gen'.encoder = {} /\ gen'.ok
    PROVE  IInv'
<1>1. PICK h, o2, f2, st : h = gen' /\ o2 = output' /\ f2 = fed' /\ st = state'
  OBVIOUS
<1>2. /\ GenInv(h, o2, f2) /\ InStep(h, o2, f2, st) /\ Becomes(h, o2, f2, st)
  BY <1>1 DEF Becomes
<1>3. GenInv(gen, output, fed)' /\ InStep(gen, output, fed, state)'
  BY <1>1, <1>2, InvariantStays
<1>4. SetupOK'
  BY DEF SetupOK, Legal
<1>5. ControlOK'
  <2>1. /\ o2 \in Seq([Substreams -> Frame]) /\ f2 \in [Substreams -> 0..Len(setup.chunks)]
        /\ st \in {"TakingSamples", "FinalizedCalled", "FlushingRemaining"}
    BY <1>2 DEF Becomes
  <2>. QED
    BY <1>1, <2>1 DEF ControlOK
<1>. QED
  BY <1>3, <1>4, <1>5 DEF IInv

LEMMA StepKeeps == IInv /\ [Next]_vars => IInv'
<1>. SUFFICES ASSUME IInv, [Next]_vars PROVE IInv'
  OBVIOUS
<1>1. /\ SetupOK /\ consumer \in {"asks", "outputs", "done"} /\ leftover \in BOOLEAN
      /\ consumer = "outputs" => DOMAIN gen.encoder # {}
      /\ consumer = "done" => DOMAIN gen.encoder = {} /\ gen.ok
      /\ Becomes(gen, output, fed, state)
  BY DEF IInv, ControlOK, Becomes
<1>2. ASSUME NEW s \in Substreams, AddSamples(s) PROVE IInv'
  <2>1. setup' = setup /\ consumer' = consumer /\ leftover' = leftover
    BY <1>2 DEF AddSamples
  <2>2. Becomes(gen', output', fed', state') /\ DOMAIN gen'.encoder = DOMAIN gen.encoder
    BY <1>2, AddingKeeps
  <2>3. s \in DOMAIN gen.encoder
    <3>1. state = "TakingSamples" /\ gen.ok
      BY <1>2 DEF AddSamples, PassChunk
    <3>2. DOMAIN gen.data = Substreams /\ DOMAIN gen.data \subseteq DOMAIN gen.encoder
      BY <3>1 DEF IInv, InStep, GenInv, GenOK
    <3>. QED
      BY <3>2
  <2>. QED
    BY <1>1, <2>1, <2>2, <2>3, BecomesNext
<1>3. CASE Finalize
  BY <1>3, FinalizeKeeps
<1>4. CASE AskGeneratingFrames
  <2>1. /\ setup' = setup /\ leftover' = leftover /\ gen' = gen /\ output' = output
        /\ fed' = fed /\ state' = state /\ consumer' \in {"outputs", "done"}
        /\ consumer' = "outputs" => DOMAIN gen'.encoder # {}
        /\ consumer' = "done" => DOMAIN gen'.encoder = {} /\ gen'.ok
    BY <1>4 DEF AskGeneratingFrames, GeneratingFrames
  <2>. QED
    BY <1>1, <2>1, BecomesNext
<1>5. ASSUME NEW order \in SetToSeqs(Elements), OutputFrames(order) PROVE IInv'
  <2>1. setup' = setup /\ leftover' = leftover /\ consumer' = "asks"
    BY <1>5 DEF OutputFrames, CallOutputFrames
  <2>2. Becomes(gen', output', fed', state')
    BY <1>5, OutputKeeps
  <2>. QED
    BY <1>1, <2>1, <2>2, BecomesNext
<1>6. CASE UNCHANGED vars
  <2>1. /\ setup' = setup /\ leftover' = leftover /\ gen' = gen /\ output' = output
        /\ fed' = fed /\ state' = state /\ consumer' = consumer
    BY <1>6 DEF vars
  <2>. QED
    BY <1>1, <2>1, BecomesNext
<1>. QED
  BY <1>2, <1>3, <1>4, <1>5, <1>6 DEF Next

(* GeneratorIsInvariant: whatever the two threads do and in whatever order,    *)
(* the generator keeps its bookkeeping: the channels of an element wait for    *)
(* each other, frames follow each other, and all substreams end together       *)
(* (AddSamples, OutputFrames and MaybeEncodeFramesForAudioElement).            *)
THEOREM GeneratorIsInvariant == Spec => []IInv
<1>1. Init => IInv
  BY StartsOut
<1>2. IInv /\ [Next]_vars => IInv'
  BY StepKeeps
<1>. QED
  BY <1>1, <1>2, PTL DEF Spec

-------------------------------------------------------------------------------
(* What the invariant says of what comes out.                                  *)
LEMMA SampledIs ==
    ASSUME NEW front \in Nat, NEW a \in Nat, NEW n \in Nat, NEW q, Sampled(q, front, a),
           Len(q) = front + a + n
    PROVE  q = (Zeros(front) \o [i \in 1..a |-> i]) \o Zeros(n)
<1>1. q \in Seq(Nat) /\ \A i \in 1..Len(q) :
          q[i] = IF front < i /\ i <= front + a THEN i - front ELSE 0
  BY DEF Sampled
<1>2. PICK z \in Seq(Nat) : z = Zeros(front) /\ Len(z) = front /\ \A i \in 1..front : z[i] = 0
  BY ZerosAre
<1>3. PICK w \in Seq(Nat) : w = Zeros(n) /\ Len(w) = n /\ \A i \in 1..n : w[i] = 0
  BY ZerosAre
<1>4. PICK c \in Seq(Nat) : c = [i \in 1..a |-> i] /\ Len(c) = a /\ \A i \in 1..a : c[i] = i
  <2>1. [i \in 1..a |-> i] \in Seq(Nat) /\ Len([i \in 1..a |-> i]) = a
    OBVIOUS
  <2>. QED
    BY <2>1
<1>5. PICK u \in Seq(Nat) : u = z \o c /\ Joined(u, z, c)
  BY JoinedIs
<1>6. PICK v \in Seq(Nat) : v = u \o w /\ Joined(v, u, w)
  BY JoinedIs
<1>7. Len(u) = front + a /\ Len(v) = (front + a) + n
  BY <1>2, <1>3, <1>4, <1>5, <1>6 DEF Joined
<1>8. ASSUME NEW i \in 1..Len(q) PROVE q[i] = v[i]
  <2>1. CASE i <= front
    <3>1. i \in 1..front /\ i \in 1..(front + a)
      BY <2>1
    <3>2. v[i] = u[i] /\ u[i] = z[i] /\ z[i] = 0
      BY <1>2, <1>5, <1>6, <1>7, <3>1 DEF Joined
    <3>. QED
      BY <1>1, <2>1, <3>2
  <2>2. CASE front < i /\ i <= front + a
    <3>1. PICK j \in 1..a : j = i - front
      BY <2>2
    <3>2. i = front + j /\ i \in 1..(front + a)
      BY <2>2, <3>1
    <3>3. u[front + j] = c[j] /\ c[j] = j
      BY <1>2, <1>4, <1>5, <3>1 DEF Joined
    <3>4. v[i] = u[i]
      BY <1>6, <1>7, <3>2 DEF Joined
    <3>. QED
      BY <1>1, <2>2, <3>1, <3>2, <3>3, <3>4
  <2>3. CASE front + a < i
    <3>1. PICK j \in 1..n : j = i - (front + a)
      BY <2>3
    <3>2. i = (front + a) + j
      BY <3>1
    <3>3. v[(front + a) + j] = w[j] /\ w[j] = 0
      BY <1>3, <1>6, <1>7, <3>1 DEF Joined
    <3>. QED
      BY <1>1, <2>3, <3>2, <3>3
  <2>. QED
    BY <2>1, <2>2, <2>3
<1>9. q = v
  BY <1>1, <1>7, <1>8, SeqEqual
<1>. QED
  BY <1>2, <1>3, <1>4, <1>5, <1>6, <1>9

LEMMA ShownSamples ==
    ASSUME NEW s \in Substreams
    PROVE  /\ FramesOf(s) = FramesIn(gen, output, s)
           /\ ObuSamples(s) = ObuSamplesIn(gen, output, s)
           /\ EncoderInput(s) = EncoderInputIn(gen, output, s)
           /\ fed[s] - Waiting(s) = Rounds(gen, fed, s)
<1>1. Inside(s) = InsideOf(gen, s)
  BY DEF Inside, InsideOf
<1>2. FramesOf(s) = FramesIn(gen, output, s)
  BY <1>1, Zenon DEF FramesOf, FramesIn
<1>3. NotEncoded(s) = LeftObu(gen, s)
  BY DEF NotEncoded, LeftObu
<1>4. ObuSamples(s) = ObuSamplesIn(gen, output, s)
  BY <1>2, <1>3, Zenon DEF ObuSamples, ObuSamplesIn, Obus
<1>5. EncoderInput(s) = EncoderInputIn(gen, output, s)
  BY <1>2, Zenon DEF EncoderInput, EncoderInputIn, Inputs, LeftInput
<1>6. fed[s] - Waiting(s) = Rounds(gen, fed, s)
  BY Zenon DEF Waiting, Rounds
<1>. QED
  BY <1>2, <1>4, <1>5, <1>6

(* The samples of s that were added and came out.                              *)
Came(s, ahead, a) ==
    /\ a = Added[fed[s] - Waiting(s)] /\ ahead = setup.delay[ElementOf[s]]
    /\ Sampled(ObuSamples(s), D, a) /\ Len(ObuSamples(s)) < D + a + F
    /\ Sampled(EncoderInput(s), D - ahead, a)

LEMMA SamplesCome ==
    ASSUME IInv, NEW s \in Substreams
    PROVE  \E a \in Nat : \E ahead \in 0..D : Came(s, ahead, a)
<1>1. SetupOK /\ GenInv(gen, output, fed)
  BY DEF IInv
<1>2. SamplesOK(Rounds(gen, fed, s), setup.delay[ElementOf[s]], ObuSamplesIn(gen, output, s),
                EncoderInputIn(gen, output, s), LeftObu(gen, s))
  BY <1>1 DEF GenInv, SamplesFollow
<1>3. PICK r : r = Rounds(gen, fed, s) /\ r \in 0..Len(setup.chunks)
  BY <1>2 DEF SamplesOK
<1>4. Added[r] \in Nat
  BY <1>1, <1>3, AddedIsDefined DEF AddedEquations
<1>5. setup.delay[ElementOf[s]] \in 0..D
  BY <1>1, DelayIs, ElementAssumption
<1>6. Came(s, setup.delay[ElementOf[s]], Added[r])
  BY <1>2, <1>3, ShownSamples DEF SamplesOK, Came
<1>. QED
  BY <1>4, <1>5, <1>6

LEMMA NothingIsLost == IInv => NothingLost
<1>. SUFFICES ASSUME IInv, NEW s \in Substreams
              PROVE  \E n \in 0..(F - 1) :
                  ObuSamples(s) = (Zeros(D) \o [i \in 1..Added[fed[s] - Waiting(s)] |-> i]) \o Zeros(n)
  BY DEF NothingLost
<1>1. PICK a \in Nat, ahead \in 0..D : Came(s, ahead, a)
  BY SamplesCome
<1>2. PICK d \in Nat : d = D
  BY DelayIs DEF IInv
<1>3. PICK l \in Nat : l = Len(ObuSamples(s)) /\ d + a <= l /\ l < d + a + F
  BY <1>1, <1>2 DEF Came, Sampled
<1>4. PICK n \in 0..(F - 1) : l = d + a + n
  <2>1. l - (d + a) \in 0..(F - 1) /\ l = d + a + (l - (d + a))
    BY <1>3, FAssumption
  <2>. QED
    BY <2>1
<1>5. ObuSamples(s) = (Zeros(d) \o [i \in 1..a |-> i]) \o Zeros(n)
  <2>1. n \in Nat /\ Sampled(ObuSamples(s), d, a) /\ Len(ObuSamples(s)) = d + a + n
    BY <1>1, <1>2, <1>3, <1>4 DEF Came
  <2>. QED
    BY <2>1, SampledIs
<1>. QED
  BY <1>1, <1>2, <1>5 DEF Came

LEMMA InputIsAligned == IInv => Aligned
<1>. SUFFICES ASSUME IInv, NEW s \in Substreams, NEW i \in DOMAIN EncoderInput(s),
                     i + setup.delay[ElementOf[s]] \in DOMAIN ObuSamples(s)
              PROVE  EncoderInput(s)[i] = ObuSamples(s)[i + setup.delay[ElementOf[s]]]
  BY DEF Aligned
<1>1. PICK a \in Nat, ahead \in 0..D : Came(s, ahead, a)
  BY SamplesCome
<1>2. PICK d \in Nat : d = D
  BY DelayIs DEF IInv
<1>3. PICK c \in Nat : c = d - ahead /\ d = c + ahead /\ ahead \in Nat
  BY <1>2
<1>4. PICK q, p : /\ q = EncoderInput(s) /\ p = ObuSamples(s)
                  /\ Sampled(q, c, a) /\ Sampled(p, d, a)
  BY <1>1, <1>2, <1>3 DEF Came
<1>5. /\ q \in Seq(Nat) /\ p \in Seq(Nat)
      /\ \A j \in 1..Len(q) : q[j] = IF c < j /\ j <= c + a THEN j - c ELSE 0
      /\ \A j \in 1..Len(p) : p[j] = IF d < j /\ j <= d + a THEN j - d ELSE 0
  BY <1>4 DEF Sampled
<1>6. PICK n, m \in Nat : n = Len(q) /\ m = Len(p)
  <2>1. Len(q) \in Nat /\ Len(p) \in Nat
    BY <1>5
  <2>. QED
    BY <2>1
<1>7. DOMAIN q = 1..n /\ DOMAIN p = 1..m
  BY <1>5, <1>6
<1>8. i \in 1..n /\ i + ahead \in 1..m
  BY <1>1, <1>4, <1>7 DEF Came
<1>9. PICK k \in 1..m : k = i + ahead
  BY <1>8
<1>10. /\ q[i] = (IF c < i /\ i <= c + a THEN i - c ELSE 0)
       /\ p[k] = (IF d < k /\ k <= d + a THEN k - d ELSE 0)
  BY <1>5, <1>6, <1>8, <1>9
<1>11. /\ (c < i /\ i <= c + a) <=> (d < k /\ k <= d + a)
       /\ i - c = k - d
  BY <1>3, <1>8, <1>9
<1>12. q[i] = p[k]
  BY <1>10, <1>11
<1>. QED
  BY <1>1, <1>4, <1>9, <1>12 DEF Came

LEMMA UnitsFollow == IInv => OneTemporalUnit
<1>. SUFFICES ASSUME IInv, NEW k \in DOMAIN output
              PROVE  /\ DOMAIN output[k] = Substreams
                     /\ \A s \in Substreams : output[k][s].start = (k - 1) * F
  BY DEF OneTemporalUnit
<1>1. output \in Seq([Substreams -> Frame]) /\ gen \in Gen /\ FramesFollow(gen, output)
  BY DEF IInv, ControlOK, GenInv, GenOK
<1>2. DOMAIN output[k] = Substreams
  BY <1>1
<1>3. ASSUME NEW s \in Substreams PROVE output[k][s].start = (k - 1) * F
  <2>1. PICK before \in Seq(Frame) : before = [j \in DOMAIN output |-> output[j][s]]
    BY <1>1, FramesType
  <2>2. PICK inside \in Seq(Frame) : inside = InsideOf(gen, s)
    BY <1>1, FramesType
  <2>3. PICK q \in Seq(Frame) : q = before \o inside /\ Joined(q, before, inside)
    BY JoinedIs
  <2>4. q = FramesIn(gen, output, s)
    BY <2>1, <2>2, <2>3, Zenon DEF FramesIn
  <2>5. k \in 1..Len(before) /\ before[k] = output[k][s]
    BY <1>1, <2>1
  <2>6. k \in 1..Len(q) /\ q[k] = before[k]
    BY <2>3, <2>5 DEF Joined
  <2>7. q[k].start = (k - 1) * F
    BY <1>1, <2>4, <2>6 DEF FramesFollow, FramesFollowFor
  <2>. QED
    BY <2>5, <2>6, <2>7
<1>. QED
  BY <1>2, <1>3

LEMMA TypesAre == IInv => TypeOK
<1>. SUFFICES ASSUME IInv PROVE TypeOK
  OBVIOUS
<1>1. /\ setup \in Setup /\ Legal(setup) /\ gen \in Gen /\ GenOK(gen)
      /\ output \in Seq([Substreams -> Frame])
  BY DEF IInv, SetupOK, ControlOK, GenInv, GenOK
<1>2. /\ state \in {"TakingSamples", "FinalizedCalled", "FlushingRemaining"}
      /\ consumer \in {"asks", "outputs", "done"} /\ leftover \in BOOLEAN
      /\ fed \in [Substreams -> 0..Len(setup.chunks)]
  BY DEF IInv, ControlOK
<1>3. /\ gen.labeled \in [Substreams -> Seq(Nat) \union {None}]
      /\ gen.data \in [DOMAIN gen.data -> Data] /\ gen.encoder \in [DOMAIN gen.encoder -> Encoder]
      /\ gen.trimming \in [Substreams -> Trimming] /\ gen.clock \in [Substreams -> Nat]
      /\ gen.ok \in BOOLEAN
  BY <1>1, GenParts
<1>4. /\ DOMAIN gen.data \subseteq DOMAIN gen.encoder
      /\ \A s \in DOMAIN gen.encoder : gen.encoder[s].finished <=> s \notin DOMAIN gen.data
  BY <1>1 DEF GenOK
<1>5. \A s \in Substreams : gen.labeled[s] \in Seq(Nat) \union {None}
  BY <1>3
<1>6. \A s \in DOMAIN gen.data :
          gen.data[s] \in [inObu : Seq(Nat), toEncode : Seq(Nat), trimStart : Nat, trimEnd : Nat]
  BY <1>3 DEF Data
<1>7. \A s \in DOMAIN gen.encoder :
          gen.encoder[s] \in [held : Seq(Frame), queue : Seq(Frame), finished : BOOLEAN]
  BY <1>3 DEF Encoder
<1>8. \A k \in DOMAIN output : output[k] \in [DOMAIN output[k] -> Frame]
  BY <1>1
<1>9. gen.trimming \in [Substreams -> [startLeft : Nat, endLeft : Nat]]
  BY <1>3 DEF Trimming
<1>. QED
  BY <1>1, <1>2, <1>3, <1>4, <1>5, <1>6, <1>7, <1>8, <1>9, Zenon DEF TypeOK

(* SamplesAreNeverLost: whatever the threads do, as long as no call fails, the *)
(* samples added to a substream come out once and in order, behind the padding *)
(* for the codecs' delay and in front of less than a frame of padding          *)
(* (InitializeSubstreamData, GetNextFrameSubstreamData, OutputFrames).         *)
THEOREM SamplesAreNeverLost == Spec => []NothingLost
BY GeneratorIsInvariant, NothingIsLost, PTL

(* UnitsAreWhole: every temporal unit that is output is the next one, with a   *)
(* frame of every substream, all of one time, and what each codec is given     *)
(* runs ahead of the OBUs by its own delay (comment of OutputFrames).          *)
THEOREM UnitsAreWhole == Spec => []TemporalUnits
<1>1. IInv => TemporalUnits
  BY TypesAre, InputIsAligned, UnitsFollow DEF TemporalUnits
<1>. QED
  BY <1>1, GeneratorIsInvariant, PTL

-------------------------------------------------------------------------------
(* What is played when all is done.  In blocks of n, each is where its number  *)
(* says.                                                                       *)
IsBlocks(q, n, k, v) ==
    /\ Len(v) = k * n
    /\ \A j \in 1..k : \A i \in 1..n : v[(j - 1) * n + i] = q[j][i]

LEMMA FlattenBlocks ==
    ASSUME NEW n \in Nat, NEW q \in Seq(Seq(Nat)), \A j \in 1..Len(q) : Len(q[j]) = n
    PROVE  IsBlocks(q, n, Len(q), FlattenSeq(q))
<1>. DEFINE T == {t \in Nat \X Seq(Nat) : IsBlocks(q, n, t[1], t[2])}
<1>1. \A i : \A v : <<i, v>> \in T <=> i \in Nat /\ v \in Seq(Nat) /\ IsBlocks(q, n, i, v)
  OBVIOUS
<1>. HIDE DEF T
<1>2. <<0, <<>>>> \in T
  <2>1. <<>> \in Seq(Nat) /\ Len(<<>>) = 0 * n
    OBVIOUS
  <2>2. IsBlocks(q, n, 0, <<>>)
    BY <2>1 DEF IsBlocks
  <2>. QED
    BY <1>1, <2>1, <2>2
<1>3. ASSUME NEW k \in 0..(Len(q) - 1), NEW v \in Seq(Nat), <<k, v>> \in T
      PROVE  <<k + 1, v \o q[k + 1]>> \in T
  <2>1. k + 1 \in 1..Len(q) /\ k \in Nat
    OBVIOUS
  <2>2. PICK m \in Nat : m = k * n
    BY <2>1
  <2>3. PICK x \in Seq(Nat) : x = q[k + 1] /\ Len(x) = n
    BY <2>1
  <2>4. IsBlocks(q, n, k, v)
    BY <1>1, <1>3
  <2>5. Len(v) = m
    BY <2>2, <2>4 DEF IsBlocks
  <2>6. PICK w \in Seq(Nat) : w = v \o x /\ Joined(w, v, x)
    BY JoinedIs
  <2>7. (k + 1) * n = m + n
    BY <2>1, <2>2
  <2>8. Len(w) = (k + 1) * n
    BY <2>3, <2>5, <2>6, <2>7 DEF Joined
  <2>9. ASSUME NEW j \in 1..(k + 1), NEW i \in 1..n PROVE w[(j - 1) * n + i] = q[j][i]
    <3>1. CASE j = k + 1
      <4>1. (j - 1) * n = m
        BY <2>1, <2>2, <3>1
      <4>2. w[m + i] = x[i]
        BY <2>3, <2>5, <2>6 DEF Joined
      <4>. QED
        BY <2>3, <3>1, <4>1, <4>2
    <3>2. CASE j # k + 1
      <4>1. j \in 1..k
        BY <2>1, <3>2
      <4>2. PICK a, b \in Nat : a = j - 1 /\ b = k - j /\ k = (a + b) + 1
        <5>1. j - 1 \in Nat /\ k - j \in Nat /\ k = ((j - 1) + (k - j)) + 1
          BY <2>1, <4>1
        <5>. QED
          BY <5>1
      <4>3. PICK an, bn \in Nat : an = a * n /\ bn = b * n
        OBVIOUS
      <4>4. m = an + bn + n
        BY <2>2, <4>2, <4>3
      <4>5. an + i \in 1..m
        BY <4>4
      <4>6. w[an + i] = v[an + i]
        BY <2>5, <2>6, <4>5 DEF Joined
      <4>7. (j - 1) * n = an
        BY <4>2, <4>3
      <4>8. v[(j - 1) * n + i] = q[j][i]
        BY <2>4, <4>1 DEF IsBlocks
      <4>. QED
        BY <4>6, <4>7, <4>8
    <3>. QED
      BY <3>1, <3>2
  <2>10. IsBlocks(q, n, k + 1, w)
    BY <2>8, <2>9 DEF IsBlocks
  <2>11. k + 1 \in Nat
    BY <2>1
  <2>12. <<k + 1, w>> \in T
    BY <1>1, <2>6, <2>10, <2>11, Zenon
  <2>. QED
    BY <2>3, <2>6, <2>12, Zenon
<1>4. <<Len(q), FlattenSeq(q)>> \in T
  BY <1>2, <1>3, FlattenInduction
<1>. QED
  BY <1>1, <1>4

(* How many samples behind the first t are in k frames, of those up to a.      *)
HeardBy(k, a, t) ==
    LET m == IF k * F < a THEN k * F ELSE a IN IF m > t THEN m - t ELSE 0

(* x samples of a channel, behind the first w.                                 *)
Counts(v, w, x) == v \in Seq(Nat) /\ Len(v) = x /\ \A i \in 1..x : v[i] = w + i

LEMMA CountsOn ==
    ASSUME NEW w \in Nat, NEW x \in Nat, NEW y \in Nat, NEW v, NEW u,
           Counts(v, w, x), Counts(u, w + x, y)
    PROVE  Counts(v \o u, w, x + y)
<1>1. PICK a, b \in Seq(Nat) : a = v /\ b = u /\ Len(a) = x /\ Len(b) = y
  BY DEF Counts
<1>2. PICK r \in Seq(Nat) : r = a \o b /\ Joined(r, a, b)
  BY JoinedIs
<1>3. Len(r) = x + y
  BY <1>1, <1>2 DEF Joined
<1>4. ASSUME NEW i \in 1..(x + y) PROVE r[i] = w + i
  <2>1. CASE i \in 1..x
    BY <1>1, <1>2, <2>1 DEF Joined, Counts
  <2>2. CASE i \notin 1..x
    <3>1. PICK j \in 1..y : i = x + j
      <4>1. i - x \in 1..y /\ i = x + (i - x)
        BY <2>2
      <4>. QED
        BY <4>1
    <3>2. r[x + j] = b[j]
      BY <1>1, <1>2 DEF Joined
    <3>3. b[j] = (w + x) + j
      BY <1>1 DEF Counts
    <3>. QED
      BY <3>1, <3>2, <3>3
  <2>. QED
    BY <2>1, <2>2
<1>. QED
  BY <1>1, <1>2, <1>3, <1>4 DEF Counts

LEMMA KeptArithmetic ==
    ASSUME NEW n \in Nat, n > 0, NEW b \in Nat, NEW t \in Nat, NEW a \in Nat, b <= a,
           NEW r \in Nat, r = (IF t > b THEN t - b ELSE 0),
           NEW ts \in Nat, ts = (IF r < n THEN r ELSE n),
           NEW te \in Nat, te = (IF a < b + n THEN (b + n) - a ELSE 0),
           NEW h \in Nat, h = (IF b > t THEN b - t ELSE 0),
           NEW m \in Nat, m = (IF b + n < a THEN b + n ELSE a),
           NEW h2 \in Nat, h2 = (IF m > t THEN m - t ELSE 0)
    PROVE  /\ h <= h2 /\ te <= n /\ ts <= n
           /\ h2 - h = IF n - te >= ts THEN (n - te) - ts ELSE 0
           /\ h2 - h > 0 => b + ts = h + t
OBVIOUS

(* Frame k + 1, when t samples are trimmed from the front and all those behind *)
(* a from the end.                                                             *)
TrimmedTo(frame, k, d, c, t, a) ==
    /\ frame.obu \in Seq(Nat) /\ Len(frame.obu) = F
    /\ frame.trimStart = AtMost(Rest(t, k))
    /\ frame.trimEnd = IF a < (k + 1) * F THEN (k + 1) * F - a ELSE 0
    /\ \A i \in 1..F : d < k * F + i /\ k * F + i <= d + c => frame.obu[i] = k * F + i - d

KeptCount(frame, k, w, a, t) ==
    /\ HeardBy(k, a, t) \in Nat /\ HeardBy(k + 1, a, t) \in Nat
    /\ HeardBy(k, a, t) <= HeardBy(k + 1, a, t)
    /\ Counts(Kept(frame), w + HeardBy(k, a, t), HeardBy(k + 1, a, t) - HeardBy(k, a, t))

LEMMA KeptCounts ==
    ASSUME NEW k \in Nat, NEW d \in Nat, NEW c \in Nat, NEW w \in Nat, NEW a \in Nat,
           a <= d + c, k * F <= a, NEW frame, TrimmedTo(frame, k, d, c, d + w, a)
    PROVE  KeptCount(frame, k, w, a, d + w)
<1>1. PICK n \in Nat : n = F /\ n > 0
  BY FAssumption
<1>2. PICK b \in Nat : b = k * F
  BY FAssumption
<1>3. (k + 1) * F = b + n
  BY <1>1, <1>2, FAssumption
<1>4. PICK t \in Nat : t = d + w
  OBVIOUS
<1>5. PICK o \in Seq(Nat) : o = frame.obu /\ Len(o) = n
  BY <1>1 DEF TrimmedTo
<1>6. PICK r \in Nat : r = IF t > b THEN t - b ELSE 0
  <2>1. (IF t > b THEN t - b ELSE 0) \in Nat
    OBVIOUS
  <2>. QED
    BY <2>1, Zenon
<1>7. PICK ts \in Nat : ts = IF r < n THEN r ELSE n
  OBVIOUS
<1>8. PICK te \in Nat : te = IF a < b + n THEN (b + n) - a ELSE 0
  <2>1. (IF a < b + n THEN (b + n) - a ELSE 0) \in Nat
    OBVIOUS
  <2>. QED
    BY <2>1, Zenon
<1>9. \A i \in 1..n : d < b + i /\ b + i <= d + c => o[i] = b + i - d
  BY <1>1, <1>2, <1>5 DEF TrimmedTo
<1>10. b <= a
  BY <1>2
<1>11. PICK h \in Nat : h = IF b > t THEN b - t ELSE 0
  <2>1. (IF b > t THEN b - t ELSE 0) \in Nat
    OBVIOUS
  <2>. QED
    BY <2>1, Zenon
<1>12. PICK m \in Nat : m = IF b + n < a THEN b + n ELSE a
  OBVIOUS
<1>13. PICK h2 \in Nat : h2 = IF m > t THEN m - t ELSE 0
  <2>1. (IF m > t THEN m - t ELSE 0) \in Nat
    OBVIOUS
  <2>. QED
    BY <2>1, Zenon
<1>14. /\ h <= h2 /\ te <= n /\ ts <= n
       /\ h2 - h = IF n - te >= ts THEN (n - te) - ts ELSE 0
       /\ h2 - h > 0 => b + ts = h + t
  BY <1>1, <1>6, <1>7, <1>8, <1>10, <1>11, <1>12, <1>13, KeptArithmetic
<1>15. PICK x \in Nat : x = h2 - h
  BY <1>14
<1>16. frame.trimStart = ts /\ frame.trimEnd = te
  <2>1. r = Rest(t, k)
    BY <1>2, <1>6, Zenon DEF Rest
  <2>2. AtMost(r) = IF r < n THEN r ELSE n
    BY <1>1, AtMostIs
  <2>. QED
    BY <1>3, <1>4, <1>7, <1>8, <2>1, <2>2, Zenon DEF TrimmedTo
<1>17. PICK v : v = SubSeq(o, ts + 1, n - te)
  OBVIOUS
<1>18. v \in Seq(Nat) /\ Len(v) = x /\ \A i \in 1..x : v[i] = o[ts + i]
  <2>1. PICK z \in 0..n : z = n - te
    BY <1>14
  <2>2. v = SubSeq(o, ts + 1, z) /\ x = IF z >= ts THEN z - ts ELSE 0
    BY <1>14, <1>15, <1>17, <2>1
  <2>3. z \in 0..Len(o) /\ ts + 1 \in 1..(Len(o) + 1)
    <3>1. ts <= n
      BY <1>14
    <3>2. ts + 1 \in 1..(n + 1)
      BY <3>1
    <3>. QED
      BY <1>5, <3>2
  <2>4. v \in Seq(Nat)
    <3>1. \A i \in (ts + 1)..z : i \in 1..Len(o) /\ o[i] \in Nat
      BY <2>3
    <3>. QED
      BY <2>2, <3>1
  <2>5. Len(v) = x
    BY <2>2, <2>3
  <2>6. \A i \in 1..x : v[i] = o[ts + i]
    BY <2>2, <2>3
  <2>. QED
    BY <2>4, <2>5, <2>6
<1>19. ASSUME NEW i \in 1..x PROVE v[i] = (w + h) + i
  <2>1. x > 0 /\ b + ts = h + t /\ x = (n - te) - ts
    BY <1>14, <1>15
  <2>2. ts + i \in 1..n /\ ts + i <= n - te
    BY <1>14, <2>1
  <2>3. b + (ts + i) = h + d + w + i
    BY <1>4, <2>1
  <2>4. b + (ts + i) <= a
    <3>1. te <= n /\ (a < b + n => te = (b + n) - a)
      BY <1>8, <1>14
    <3>. QED
      BY <2>2, <3>1
  <2>5. d < b + (ts + i) /\ b + (ts + i) <= d + c
    BY <2>3, <2>4
  <2>6. o[ts + i] = b + (ts + i) - d
    BY <1>9, <2>2, <2>5
  <2>7. v[i] = o[ts + i]
    BY <1>18
  <2>8. b + (ts + i) - d = (w + h) + i
    BY <2>3
  <2>. QED
    BY <2>6, <2>7, <2>8, Zenon
<1>20. Counts(v, w + h, x)
  BY <1>18, <1>19 DEF Counts
<1>21. Kept(frame) = v
  BY <1>1, <1>5, <1>16, <1>17, Zenon DEF Kept
<1>22. HeardBy(k, a, t) = h /\ HeardBy(k + 1, a, t) = h2
  <2>1. HeardBy(k, a, t) = LET z == IF b < a THEN b ELSE a IN IF z > t THEN z - t ELSE 0
    BY <1>2, Zenon DEF HeardBy
  <2>2. HeardBy(k, a, t) = h
    BY <1>10, <1>11, <2>1
  <2>3. HeardBy(k + 1, a, t) = h2
    BY <1>3, <1>12, <1>13, Zenon DEF HeardBy
  <2>. QED
    BY <2>2, <2>3
<1>. QED
  BY <1>4, <1>14, <1>15, <1>20, <1>21, <1>22 DEF KeptCount

(* What is played of the first l frames.                                       *)
LEMMA FramesCount ==
    ASSUME NEW l \in Nat, NEW d \in Nat, NEW c \in Nat, NEW w \in Nat, NEW a \in Nat, a <= d + c,
           NEW q, \A k \in 0..(l - 1) : k * F <= a /\ TrimmedTo(q[k + 1], k, d, c, d + w, a),
           NEW kept \in Seq(Seq(Nat)), Len(kept) = l, \A j \in 1..l : kept[j] = Kept(q[j])
    PROVE  Counts(FlattenSeq(kept), w, HeardBy(l, a, d + w))
<1>. DEFINE t == d + w
            T == {x \in Nat \X Seq(Nat) : Counts(x[2], w, HeardBy(x[1], a, t))}
<1>1. \A i : \A v : <<i, v>> \in T <=> i \in Nat /\ v \in Seq(Nat) /\ Counts(v, w, HeardBy(i, a, t))
  OBVIOUS
<1>. HIDE DEF T
<1>2. <<0, <<>>>> \in T
  <2>1. HeardBy(0, a, t) = 0
    <3>1. 0 * F = 0
      BY FAssumption
    <3>. QED
      BY <3>1 DEF HeardBy
  <2>2. <<>> \in Seq(Nat) /\ Len(<<>>) = 0
    OBVIOUS
  <2>3. Counts(<<>>, w, 0)
    BY <2>2 DEF Counts
  <2>. QED
    BY <1>1, <2>1, <2>2, <2>3
<1>. HIDE DEF t
<1>3. ASSUME NEW k \in 0..(Len(kept) - 1), NEW v \in Seq(Nat), <<k, v>> \in T
      PROVE  <<k + 1, v \o kept[k + 1]>> \in T
  <2>1. k \in Nat /\ k + 1 \in Nat /\ k + 1 \in 1..l /\ k \in 0..(l - 1)
    OBVIOUS
  <2>2. PICK x, y \in Nat : /\ x = HeardBy(k, a, t) /\ x + y = HeardBy(k + 1, a, t)
                            /\ Counts(Kept(q[k + 1]), w + x, y)
    <3>1. KeptCount(q[k + 1], k, w, a, t)
      <4>1. k * F <= a /\ TrimmedTo(q[k + 1], k, d, c, d + w, a)
        BY <2>1, Zenon
      <4>. QED
        BY <2>1, <4>1, KeptCounts, Zenon DEF t
    <3>2. PICK x, z \in Nat : /\ x = HeardBy(k, a, t) /\ z = HeardBy(k + 1, a, t) /\ x <= z
                              /\ Counts(Kept(q[k + 1]), w + x, z - x)
      BY <3>1, Zenon DEF KeptCount
    <3>3. PICK y \in Nat : y = z - x /\ x + y = z
      <4>0. x <= z
        BY <3>2
      <4>1. z - x \in Nat /\ x + (z - x) = z
        BY <4>0
      <4>. QED
        BY <4>1, Zenon
    <3>4. Counts(Kept(q[k + 1]), w + x, y)
      BY <3>2, <3>3, Zenon
    <3>. QED
      BY <3>2, <3>3, <3>4, Zenon
  <2>3. Counts(v, w, x)
    BY <1>1, <1>3, <2>2, Zenon
  <2>4. Counts(v \o kept[k + 1], w, x + y)
    BY <2>1, <2>2, <2>3, CountsOn
  <2>5. v \o kept[k + 1] \in Seq(Nat)
    BY <2>4 DEF Counts
  <2>. QED
    BY <1>1, <2>1, <2>2, <2>4, <2>5, Zenon
<1>4. <<Len(kept), FlattenSeq(kept)>> \in T
  BY <1>2, <1>3, FlattenInduction
<1>. QED
  BY <1>1, <1>4 DEF t

(* What the user wants trimmed, and how that fits in l frames.                 *)
Wanted(l, d, c, p, w, e, a) ==
    /\ d = D /\ c = Total /\ p = PaddingAtEnd /\ w = WantedStart /\ StartTrim = d + w
    /\ WantedEnd \in Nat /\ e = WantedEnd + p /\ EndTrim(p) = e
    /\ l * F = d + c + p /\ a + e = l * F

(* The frames of s, when all is done.                                          *)
AllIsOut(s, q, l, d, c, p, w, e, a) ==
    /\ q = [k \in DOMAIN output |-> output[k][s]] /\ Len(output) = l /\ Len(q) = l
    /\ Wanted(l, d, c, p, w, e, a)
    /\ \A k \in 0..(l - 1) : k * F <= a /\ TrimmedTo(q[k + 1], k, d, c, d + w, a)

LEMMA OutIsAsked ==
    ASSUME NEW s, NEW q \in Seq(Frame), NEW l \in Nat, NEW d \in Nat, NEW c \in Nat, NEW p \in Nat,
           NEW w \in Nat, NEW e \in Nat, NEW a \in Nat, AllIsOut(s, q, l, d, c, p, w, e, a)
    PROVE  PlayedAsAsked(s)
<1>. DEFINE kept == [k \in DOMAIN q |-> Kept(q[k])]
<1>1. Wanted(l, d, c, p, w, e, a) /\ Len(q) = l /\ DOMAIN q = 1..l
  BY DEF AllIsOut
<1>2. PICK z \in Nat : z = WantedEnd /\ e = z + p /\ a + z = d + c
  <2>1. PICK z \in Nat : z = WantedEnd /\ e = z + p
    BY <1>1 DEF Wanted
  <2>2. PICK y \in Nat : y = l * F
    BY FAssumption
  <2>3. y = d + c + p /\ a + e = y
    BY <1>1, <2>2 DEF Wanted
  <2>. QED
    BY <2>1, <2>3
<1>3. \A k \in 1..l : Kept(q[k]) \in Seq(Nat)
  <2>. TAKE k \in 1..l
  <2>1. PICK j \in 0..(l - 1) : k = j + 1
    <3>1. k - 1 \in 0..(l - 1) /\ k = (k - 1) + 1
      OBVIOUS
    <3>. QED
      BY <3>1
  <2>2. j * F <= a /\ TrimmedTo(q[j + 1], j, d, c, d + w, a)
    BY DEF AllIsOut
  <2>3. a <= d + c
    BY <1>2
  <2>4. j \in Nat
    BY <2>1
  <2>5. KeptCount(q[j + 1], j, w, a, d + w)
    BY <2>2, <2>3, <2>4, KeptCounts, Zenon
  <2>. QED
    BY <2>1, <2>5 DEF KeptCount, Counts
<1>4. kept \in Seq(Seq(Nat)) /\ Len(kept) = l /\ \A j \in 1..l : kept[j] = Kept(q[j])
  BY <1>1, <1>3
<1>5. Played(s) = FlattenSeq(kept)
  <2>1. [k \in DOMAIN output |-> Kept(output[k][s])] = kept
    <3>1. DOMAIN output = DOMAIN q /\ \A k \in DOMAIN q : q[k] = output[k][s]
      BY DEF AllIsOut
    <3>. QED
      BY <3>1, Zenon
  <2>. QED
    BY <2>1, Zenon DEF Played
<1>. HIDE DEF kept
<1>6. PICK t \in Nat : t = d + w
  OBVIOUS
<1>7. Counts(FlattenSeq(kept), w, HeardBy(l, a, t))
  <2>1. a <= d + c
    BY <1>2
  <2>2. \A k \in 0..(l - 1) : k * F <= a /\ TrimmedTo(q[k + 1], k, d, c, d + w, a)
    BY DEF AllIsOut
  <2>. QED
    BY <1>4, <1>6, <2>1, <2>2, FramesCount
<1>8. PICK h \in Nat : h = HeardBy(l, a, t) /\ h = IF a > t THEN a - t ELSE 0
  <2>1. PICK y \in Nat : y = l * F
    BY FAssumption
  <2>2. a <= y
    BY <1>1, <2>1 DEF Wanted
  <2>3. HeardBy(l, a, t) = LET m == IF y < a THEN y ELSE a IN IF m > t THEN m - t ELSE 0
    BY <2>1, Zenon DEF HeardBy
  <2>4. HeardBy(l, a, t) = IF a > t THEN a - t ELSE 0
    BY <2>2, <2>3
  <2>5. (IF a > t THEN a - t ELSE 0) \in Nat
    OBVIOUS
  <2>. QED
    BY <2>4, <2>5, Zenon
<1>9. Max({0, Total - WantedEnd - WantedStart}) = h
  <2>1. Total - WantedEnd - WantedStart = c - z - w
    BY <1>1, <1>2, Zenon DEF Wanted
  <2>2. PICK x \in Int : x = c - z - w
    OBVIOUS
  <2>3. h = IF x > 0 THEN x ELSE 0
    BY <1>2, <1>6, <1>8, <2>2
  <2>4. Max({0, x}) = IF x > 0 THEN x ELSE 0
    BY DEF Max
  <2>. QED
    BY <2>1, <2>2, <2>3, <2>4
<1>10. Played(s) = [i \in 1..h |-> w + i]
  <2>1. Counts(Played(s), w, h)
    BY <1>5, <1>7, <1>8
  <2>2. PICK v \in Seq(Nat) : v = Played(s) /\ Len(v) = h /\ \A i \in 1..h : v[i] = w + i
    BY <2>1 DEF Counts
  <2>. QED
    BY <2>2
<1>. QED
  BY <1>1, <1>9, <1>10, Zenon DEF PlayedAsAsked, Wanted

(* When all is done, s has ended.                                              *)
Over(s) ==
    /\ gen \in Gen /\ output \in Seq([Substreams -> Frame])
    /\ s \notin DOMAIN gen.encoder /\ s \notin DOMAIN gen.data
    /\ StartsTrimmed(gen, output, s) /\ EndsTrimmed(gen, output, fed, s)
    /\ FramesFollowFor(gen, output, s) /\ SamplesFollowFor(gen, output, fed, s)
    /\ AllIsIn(gen, output, fed, s)

LEMMA AllIsOver ==
    ASSUME IInv, consumer = "done", NEW s \in Substreams
    PROVE  Over(s)
<1>1. /\ SetupOK /\ output \in Seq([Substreams -> Frame])
      /\ fed \in [Substreams -> 0..Len(setup.chunks)]
      /\ GenInv(gen, output, fed) /\ InStep(gen, output, fed, state)
      /\ DOMAIN gen.encoder = {} /\ gen.ok
  BY DEF IInv, ControlOK
<1>2. gen \in Gen /\ DOMAIN gen.data \subseteq DOMAIN gen.encoder
  BY <1>1 DEF GenInv, GenOK
<1>3. s \notin DOMAIN gen.encoder /\ s \notin DOMAIN gen.data
  BY <1>1, <1>2
<1>4. /\ StartsTrimmed(gen, output, s) /\ EndsTrimmed(gen, output, fed, s)
      /\ FramesFollowFor(gen, output, s) /\ SamplesFollowFor(gen, output, fed, s)
  BY <1>1 DEF GenInv, TrimsFollow, FramesFollow, SamplesFollow, SamplesFollowFor
<1>5. AllIsIn(gen, output, fed, s)
  BY <1>1, <1>3, AllIsInside
<1>. QED
  BY <1>1, <1>2, <1>3, <1>4, <1>5 DEF Over

LEMMA TrimmingIsWanted ==
    ASSUME SetupOK, NEW d \in Nat, d = D, NEW p \in Nat, p = PaddingAtEnd,
           setup.endIncludesPadding => p <= setup.trimEnd
    PROVE  /\ WantedStart \in Nat /\ StartTrim = d + WantedStart
           /\ WantedEnd \in Nat /\ EndTrim(p) = WantedEnd + p
<1>1. PICK x, y \in Nat : x = setup.trimStart /\ y = setup.trimEnd
  BY FAssumption DEF SetupOK, Setup
<1>2. setup.startIncludesDelay => d <= x
  BY <1>1 DEF SetupOK, Legal, D
<1>3. WantedStart \in Nat /\ StartTrim = d + WantedStart
  BY <1>1, <1>2 DEF WantedStart, StartTrim
<1>4. WantedEnd \in Nat /\ EndTrim(p) = WantedEnd + p
  BY <1>1 DEF WantedEnd, EndTrim
<1>. QED
  BY <1>3, <1>4

LEMMA DoneIsAsked ==
    ASSUME IInv, consumer = "done", leftover \/ WantedEnd = 0, NEW s \in Substreams
    PROVE  PlayedAsAsked(s)
<1>1. SetupOK /\ Over(s) /\ leftover \in BOOLEAN
  BY AllIsOver DEF IInv, ControlOK
<1>2. InsideOf(gen, s) = <<>> /\ HasEnded(gen, s) /\ LeftObu(gen, s) = <<>>
  BY <1>1 DEF Over, InsideOf, HasEnded, LeftObu
<1>3. PICK q \in Seq(Frame) : q = FramesIn(gen, output, s)
                             /\ q = [k \in DOMAIN output |-> output[k][s]]
  <2>1. PICK q \in Seq(Frame) : q = [k \in DOMAIN output |-> output[k][s]]
    BY <1>1, FramesType DEF Over
  <2>2. q \o <<>> = q
    BY ConcatEmptySeq
  <2>. QED
    BY <1>2, <2>1, <2>2, Zenon DEF FramesIn
<1>4. PICK l \in Nat : l = Len(q) /\ l = Len(output) /\ DOMAIN q = 1..l
  BY <1>1, <1>3 DEF Over
<1>5. PICK d, c, p \in Nat : d = D /\ c = Total /\ p = PaddingAtEnd
  BY <1>1, DelayIs DEF Over, AllIsIn
<1>6. /\ Rounds(gen, fed, s) = Len(setup.chunks) /\ p < F /\ PaddingIn(gen, output, fed, s) = p
      /\ l * F = d + c + p /\ Len(ObuSamplesIn(gen, output, s)) = d + c + p
  BY <1>1, <1>3, <1>4, <1>5, FAssumption DEF Over, AllIsIn
<1>7. /\ \A j \in 1..l : q[j].trimEnd = IF j < l THEN 0 ELSE IF leftover THEN EndTrim(p) ELSE p
      /\ setup.endIncludesPadding => p <= setup.trimEnd
      /\ leftover => l # 0 /\ EndTrim(p) <= F
  BY <1>1, <1>2, <1>3, <1>4, <1>6, Zenon DEF Over, EndsTrimmed
<1>8. PICK w, z \in Nat : /\ w = WantedStart /\ z = WantedEnd /\ StartTrim = d + w
                          /\ EndTrim(p) = z + p
  BY <1>1, <1>5, <1>7, TrimmingIsWanted
<1>9. PICK e \in Nat : e = z + p /\ e = EndTrim(p)
  BY <1>8
<1>10. PICK n \in Nat : n = F /\ n > 0
  BY FAssumption
<1>11. PICK y \in Nat : y = l * n
  OBVIOUS
<1>12. /\ e <= n /\ \A j \in 1..l : q[j].trimEnd = IF j < l THEN 0 ELSE e
       /\ l = 0 => e = 0
  <2>1. CASE leftover
    BY <1>7, <1>9, <1>10, <2>1
  <2>2. CASE ~leftover
    <3>1. e = p /\ p < n
      BY <1>6, <1>8, <1>9, <1>10, <2>2
    <3>2. l = 0 => p = 0
      BY <1>6, <1>10, <1>11
    <3>. QED
      BY <1>7, <2>2, <3>1, <3>2
  <2>. QED
    BY <1>1, <2>1, <2>2
<1>13. ASSUME NEW k \in 0..(l - 1)
       PROVE  \E b, f \in Nat : /\ b = k * n /\ b + n = (k + 1) * n /\ f = (l - (k + 1)) * n
                               /\ y = b + n + f /\ (f = 0 <=> k + 1 = l) /\ (f # 0 => f >= n)
  <2>1. PICK x \in Nat : x = l - (k + 1) /\ l = (k + 1) + x
    <3>1. l - (k + 1) \in Nat /\ l = (k + 1) + (l - (k + 1))
      OBVIOUS
    <3>. QED
      BY <3>1
  <2>2. PICK b, f \in Nat : b = k * n /\ f = x * n
    OBVIOUS
  <2>3. (k + 1) * n = b + n
    BY <2>2
  <2>4. y = b + n + f
    BY <1>11, <2>1, <2>2, <2>3
  <2>5. x = 0 => f = 0
    BY <2>2
  <2>6. x # 0 => f >= n
    <3>1. ASSUME x # 0 PROVE f >= n
      <4>1. PICK x1 \in Nat : x = x1 + 1
        <5>1. x - 1 \in Nat /\ x = (x - 1) + 1
          BY <3>1
        <5>. QED
          BY <5>1
      <4>2. PICK m \in Nat : m = x1 * n
        OBVIOUS
      <4>3. f = m + n
        BY <2>2, <4>1, <4>2
      <4>. QED
        BY <4>3
    <3>. QED
      BY <3>1
  <2>. QED
    BY <1>10, <2>1, <2>2, <2>3, <2>4, <2>5, <2>6
<1>14. e <= y
  <2>1. CASE l = 0
    BY <1>12, <2>1
  <2>2. CASE l # 0
    <3>1. l - 1 \in 0..(l - 1)
      BY <2>2
    <3>2. PICK b, f \in Nat : y = b + n + f
      BY <1>13, <3>1
    <3>. QED
      BY <1>12, <3>2
  <2>. QED
    BY <2>1, <2>2
<1>15. PICK a \in Nat : a + e = y
  <2>1. y - e \in Nat /\ (y - e) + e = y
    BY <1>14
  <2>. QED
    BY <2>1
<1>16. Wanted(l, d, c, p, w, e, a)
  BY <1>5, <1>6, <1>8, <1>9, <1>10, <1>11, <1>15 DEF Wanted
<1>17. PICK u \in Seq(Nat) : /\ u = ObuSamplesIn(gen, output, s) /\ Sampled(u, d, c) /\ Len(u) = y
                             /\ \A k \in 1..l : \A i \in 1..n : u[(k - 1) * n + i] = q[k].obu[i]
  <2>1. PICK o \in Seq(Seq(Nat)) : o = Obus(gen, output, s)
    BY <1>1, FramesType DEF Over
  <2>2. o = [k \in DOMAIN q |-> q[k].obu]
    BY <1>3, <2>1, Zenon DEF Obus
  <2>3. \A j \in 1..l : Len(q[j].obu) = n
    BY <1>1, <1>3, <1>4, <1>10, Zenon DEF Over, FramesFollowFor
  <2>4. Len(o) = l /\ \A j \in 1..l : o[j] = q[j].obu /\ Len(o[j]) = n
    BY <1>4, <2>2, <2>3
  <2>5. IsBlocks(o, n, l, FlattenSeq(o))
    BY <2>4, FlattenBlocks
  <2>6. PICK u \in Seq(Nat) : u = FlattenSeq(o)
    BY FlattenType
  <2>7. u = ObuSamplesIn(gen, output, s)
    <3>1. u \o <<>> = u
      BY ConcatEmptySeq
    <3>. QED
      BY <1>2, <2>1, <2>6, <3>1, Zenon DEF ObuSamplesIn
  <2>8. Sampled(u, d, c)
    BY <1>1, <1>5, <1>6, <2>7, Zenon DEF Over, SamplesFollowFor, SamplesOK, Total
  <2>9. Len(u) = y
    BY <1>6, <1>10, <1>11, <2>7
  <2>10. \A k \in 1..l : \A i \in 1..n : u[(k - 1) * n + i] = q[k].obu[i]
    <3>. TAKE k \in 1..l
    <3>. TAKE i \in 1..n
    <3>1. u[(k - 1) * n + i] = o[k][i]
      BY <2>5, <2>6, Zenon DEF IsBlocks
    <3>2. o[k] = q[k].obu
      BY <2>4
    <3>. QED
      BY <3>1, <3>2, Zenon
  <2>. QED
    BY <2>7, <2>8, <2>9, <2>10
<1>18. ASSUME NEW k \in 0..(l - 1)
       PROVE  k * F <= a /\ TrimmedTo(q[k + 1], k, d, c, d + w, a)
  <2>1. PICK b, f \in Nat : /\ b = k * n /\ b + n = (k + 1) * n
                            /\ y = b + n + f /\ (f = 0 <=> k + 1 = l) /\ (f # 0 => f >= n)
    BY <1>13
  <2>2. k + 1 \in 1..l /\ (k + 1) - 1 = k
    OBVIOUS
  <2>3. q[k + 1].obu \in Seq(Nat) /\ Len(q[k + 1].obu) = n
    <3>1. q[k + 1] \in Frame
      BY <1>4, <2>2
    <3>2. Len(q[k + 1].obu) = n
      BY <1>1, <1>3, <1>4, <1>10, <2>2, Zenon DEF Over, FramesFollowFor
    <3>. QED
      BY <3>1, <3>2 DEF Frame
  <2>4. q[k + 1].trimStart = AtMost(Rest(d + w, k))
    <3>1. q[k + 1].trimStart = AtMost(Rest(IF k + 1 <= l THEN StartTrim ELSE D, (k + 1) - 1))
      BY <1>1, <1>3, <1>4, <2>2, Zenon DEF Over, StartsTrimmed
    <3>2. k + 1 <= l
      BY <2>2
    <3>. QED
      BY <1>8, <2>2, <3>1, <3>2, Zenon
  <2>5. q[k + 1].trimEnd = IF a < b + n THEN (b + n) - a ELSE 0
    <3>1. CASE k + 1 < l
      <4>1. q[k + 1].trimEnd = 0
        BY <1>12, <2>2, <3>1
      <4>2. ~(a < b + n)
        BY <1>12, <1>15, <2>1, <3>1
      <4>. QED
        BY <4>1, <4>2
    <3>2. CASE k + 1 = l
      <4>1. q[k + 1].trimEnd = e
        BY <1>12, <2>2, <3>2
      <4>2. a + e = b + n
        BY <1>15, <2>1, <3>2
      <4>. QED
        BY <4>1, <4>2
    <3>. QED
      BY <2>2, <3>1, <3>2
  <2>6. ASSUME NEW i \in 1..n, d < b + i, b + i <= d + c PROVE q[k + 1].obu[i] = b + i - d
    <3>1. u[b + i] = q[k + 1].obu[i]
      BY <1>17, <2>1, <2>2, Zenon
    <3>2. PICK x \in 1..y : x = b + i
      BY <2>1
    <3>3. u[x] = x - d
      BY <1>17, <2>6, <3>2 DEF Sampled
    <3>. QED
      BY <3>1, <3>2, <3>3
  <2>7. b <= a
    BY <1>12, <1>15, <2>1
  <2>. QED
    BY <1>10, <2>1, <2>3, <2>4, <2>5, <2>6, <2>7 DEF TrimmedTo
<1>19. AllIsOut(s, q, l, d, c, p, w, e, a)
  BY <1>3, <1>4, <1>16, <1>18, Zenon DEF AllIsOut
<1>. QED
  BY <1>19, OutIsAsked

LEMMA TrimsAre == IInv => TrimsAsAsked
<1>1. IInv => KeepsWhatWasAsked
  BY DoneIsAsked DEF KeepsWhatWasAsked
<1>2. IInv => FailsOnlyOnTrimming
  BY DEF IInv, GenInv, TrimsFollow, TrimRefused, FailsOnlyOnTrimming
<1>. QED
  BY <1>1, <1>2 DEF TrimsAsAsked

(* TrimmingIsAsAsked: for any codecs, chunks of samples and trimming, and      *)
(* however the two threads interleave, when all is done exactly the samples    *)
(* the user did not want trimmed are played, and a call fails only if the      *)
(* samples to trim from the end are fewer than the padding or, with it, more   *)
(* than a frame (GetNumSamplesToPadAtEndAndValidate, PopFront,                 *)
(* ValidateAndApplyUserTrimming and ApplyUserTrimForFrame).                    *)
THEOREM TrimmingIsAsAsked == Spec => []TrimsAsAsked
BY GeneratorIsInvariant, TrimsAre, PTL
===============================================================================
