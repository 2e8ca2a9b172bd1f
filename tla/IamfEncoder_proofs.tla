-------------------------- MODULE IamfEncoder_proofs --------------------------
(* What holds of an encoder with any number of sequencers, whatever it         *)
(* encodes, however often its functions are called and whichever writes fail.  *)
EXTENDS IamfEncoder, DataInduction, FiniteSetTheorems, TLAPS

Sequencer(m) == [phase : {"none", "open", "complete", "discarded"},
                 descriptors : {"none", "preliminary", "final"},
                 units : Seq(Range(m))]
IsLive(s) == s.phase \in {"open", "complete"}

(* The units of a sequencer are the first ones that were made.                 *)
Begins(s, m) == Len(s) <= Len(m) /\ \A k \in 1..Len(s) : s[k] = m[k]

(* The sequencers q after the units m were made: the inductive strengthening   *)
(* of SequencersAgree.                                                         *)
Agree(q, m) ==
    /\ m \in Seq(Range(m))
    /\ q \in [1..N -> Sequencer(m)]
    /\ \A i \in 1..N : Begins(q[i].units, m)
    /\ \A i, j \in 1..N : i < j /\ IsLive(q[i]) /\ IsLive(q[j])
                            => Len(q[j].units) <= Len(q[i].units)
    /\ \A i \in 1..N : (\A j \in 1..i : IsLive(q[j])) => q[i].units = m
    /\ \A i \in 1..N : q[i].phase = "complete"
                         => q[i].descriptors = "final" /\ q[i].units = m

NoneComplete(q) == \A i \in 1..N : q[i].phase # "complete"
-------------------------------------------------------------------------------
LEMMA NIsNat == N \in Nat \ {0}
BY BoundAssumption DEF N

(* A unit that is appended leaves those before it as they are.                 *)
LEMMA Appending ==
    ASSUME NEW m, m \in Seq(Range(m)), NEW u
    PROVE  /\ Append(m, u) \in Seq(Range(Append(m, u)))
           /\ Len(Append(m, u)) = Len(m) + 1
           /\ \A k \in 1..Len(m) : Append(m, u)[k] = m[k]
           /\ Range(m) \subseteq Range(Append(m, u))
<1> DEFINE X == Range(m) \union {u}
           a == Append(m, u)
<1>1. m \in Seq(X)
    OBVIOUS
<1>2. /\ a \in Seq(X) /\ Len(a) = Len(m) + 1 /\ a[Len(m) + 1] = u
      /\ \A k \in 1..Len(m) : a[k] = m[k]
    BY <1>1
<1>3. DOMAIN a = 1..Len(m) + 1 /\ DOMAIN m = 1..Len(m) /\ Len(m) \in Nat
    BY <1>1, <1>2
<1>4. a \in Seq(Range(a))
    BY <1>2, <1>3 DEF Range
<1>5. Range(m) \subseteq Range(a)
    BY <1>2, <1>3 DEF Range
<1> QED BY <1>2, <1>4, <1>5

LEMMA SequencerMonotone ==
    ASSUME NEW m, NEW n, Range(m) \subseteq Range(n)
    PROVE  Sequencer(m) \subseteq Sequencer(n)
BY DEF Sequencer

LEMMA BeginsFacts ==
    ASSUME NEW m, m \in Seq(Range(m)), NEW s \in Seq(Range(m)), NEW t \in Seq(Range(m)),
           Begins(s, m), Begins(t, m), Len(s) <= Len(t)
    PROVE  IsPrefix(s, t)
<1>1. \A k \in 1..Len(s) : s[k] = t[k]
    BY DEF Begins
<1>2. SubSeq(s, 1, Len(s)) = SubSeq(t, 1, Len(s))
    BY <1>1
<1> QED BY <1>2 DEF IsPrefix
-------------------------------------------------------------------------------
(* The loops over the sequencers.                                              *)

(* What a loop does to a sequencer: all of it, if none fails up to it; nothing *)
(* behind the first that fails, which aborts unless it had ended.              *)
Looped(q, done, f, r) ==
    \A i \in 1..N :
       /\ (\A j \in f : ~(j <= i)) => r[i] = done[i]
       /\ (\E j \in f : j <= i) => r[i] \in {q[i], Aborted(q[i])}
       /\ (i \in f /\ \A j \in f : ~(j < i)) => r[i] = Aborted(q[i])

LEMMA UpToFacts ==
    ASSUME NEW q, NEW done, NEW f \in SUBSET (1..N)
    PROVE  Looped(q, done, f, UpTo(q, done, f))
<1> DEFINE r == UpTo(q, done, f)
<1> SUFFICES ASSUME NEW i \in 1..N
             PROVE  /\ (\A j \in f : ~(j <= i)) => r[i] = done[i]
                    /\ (\E j \in f : j <= i) => r[i] \in {q[i], Aborted(q[i])}
                    /\ (i \in f /\ \A j \in f : ~(j < i)) => r[i] = Aborted(q[i])
    BY DEF Looped
<1>1. r[i] = IF \E j \in f : j < i THEN q[i] ELSE IF i \in f THEN Aborted(q[i]) ELSE done[i]
    BY DEF UpTo
<1>2. \A j \in f : j <= i <=> j < i \/ j = i
    BY NIsNat
<1> HIDE DEF r
<1> QED BY <1>1, <1>2

LEMMA AbortedFacts ==
    ASSUME NEW m, NEW s \in Sequencer(m)
    PROVE  /\ Aborted(s) \in Sequencer(m)
           /\ IsLive(Aborted(s)) => s.phase = "complete"
           /\ (Aborted(s) = s \/ (Aborted(s).phase = "discarded" /\ Aborted(s).units = <<>>))
           /\ s.phase \notin {"none", "open"} => Aborted(s) = s
<1>1. CASE s.phase \in {"none", "open"}
    <2>1. Aborted(s) = [phase |-> "discarded", descriptors |-> "none", units |-> <<>>]
        BY <1>1 DEF Aborted
    <2>2. <<>> \in Seq(Range(m))
        OBVIOUS
    <2> QED BY <1>1, <2>1, <2>2 DEF Sequencer, IsLive
<1>2. CASE s.phase \notin {"none", "open"}
    <2>1. Aborted(s) = s
        BY <1>2 DEF Aborted
    <2> QED BY <1>2, <2>1 DEF Sequencer, IsLive
<1> QED BY <1>1, <1>2

(* A call that reaches the sequencers in order does not leave a live one       *)
(* behind one that is not, unless it was already there.                        *)
EndsAtFirst(f, r) == \A i \in 1..N : (\E k \in f : k <= i) => \E j \in 1..i : ~IsLive(r[j])

LEMMA FirstFailureEnds ==
    ASSUME NEW q, NEW m, q \in [1..N -> Sequencer(m)], NEW done, NEW bad, NEW ready,
           NEW f, f = Failing(q, ready, bad), NEW r, r = UpTo(q, done, f),
           ready \in {"none", "open"},
           \A i \in 1..N : q[i].phase # ready => ~IsLive(q[i])
    PROVE  EndsAtFirst(f, r)
<1> SUFFICES ASSUME NEW i \in 1..N, NEW k \in f, k <= i
             PROVE  \E j \in 1..i : ~IsLive(r[j])
    BY DEF EndsAtFirst
<1>1. f \in SUBSET (1..N) /\ \A j \in f : q[j].phase # ready \/ j = bad
    BY DEF Failing
<1>0. Looped(q, done, f, r)
    BY <1>1, UpToFacts
<1>2. \A j \in f : r[j] \in {q[j], Aborted(q[j])}
    <2> SUFFICES ASSUME NEW j \in f
                 PROVE  r[j] \in {q[j], Aborted(q[j])}
        OBVIOUS
    <2>1. j \in 1..N /\ j <= j
        BY <1>1, NIsNat
    <2> QED BY <1>0, <2>1 DEF Looped
<1>3. \A j \in 1..N : ~IsLive(Aborted(q[j])) \/ q[j].phase = "complete"
    BY AbortedFacts
<1>4. \A j \in f : j \in 1..i => ~(q[j].phase # ready /\ IsLive(r[j]))
    BY <1>1, <1>2, <1>3 DEF IsLive
<1>5. k \in 1..i /\ k \in 1..N /\ k \in f
    BY <1>1, NIsNat
<1>6. CASE q[k].phase # ready
    BY <1>4, <1>5, <1>6
<1>7. CASE q[k].phase = ready
    <2>1. k = bad
        BY <1>1, <1>7
    <2>2. CASE \A j \in f : ~(j < k)
        <3>1. r[k] = Aborted(q[k])
            BY <1>0, <1>5, <2>2 DEF Looped
        <3>2. ~IsLive(r[k])
            BY <1>3, <1>5, <1>7, <3>1
        <3> QED BY <1>5, <3>2
    <2>3. CASE \E j \in f : j < k
        <3>1. PICK j \in f : j < k
            BY <2>3
        <3>2. j # bad /\ j \in 1..i
            BY <1>1, <1>5, <2>1, <3>1, NIsNat
        <3>3. q[j].phase # ready
            BY <1>1, <3>2
        <3> QED BY <1>4, <3>2, <3>3
    <2> QED BY <2>2, <2>3
<1> QED BY <1>6, <1>7

(* PushTemporalUnitToObuSequencers, while no sequencer has ended.              *)
LEMMA PushAgrees ==
    ASSUME NEW q, NEW m, Agree(q, m), NoneComplete(q), NEW u, NEW bad,
           NEW f, f = Failing(q, "open", bad),
           NEW done, done = WithUnit(q, u), NEW r, r = UpTo(q, done, f)
    PROVE  Agree(r, Append(m, u)) /\ NoneComplete(r)
<1> DEFINE n == Append(m, u)
           Reached(i) == \A j \in f : ~(j <= i)
<1>1. /\ m \in Seq(Range(m)) /\ q \in [1..N -> Sequencer(m)]
      /\ f \in SUBSET (1..N) /\ \A i \in (1..N) \ f : q[i].phase = "open"
    BY DEF Agree, Failing
<1>2. /\ n \in Seq(Range(n)) /\ Len(n) = Len(m) + 1 /\ Len(m) \in Nat
      /\ \A k \in 1..Len(m) : n[k] = m[k]
      /\ Range(m) \subseteq Range(n)
    BY <1>1, Appending
<1> HIDE DEF n
<1>3. Looped(q, done, f, r)
    BY <1>1, UpToFacts
<1>4. ASSUME NEW i \in 1..N, Reached(i)
      PROVE  /\ q[i].phase = "open" /\ q[i].units = m
             /\ r[i].phase = "open" /\ r[i].units = n /\ r[i] \in Sequencer(n)
    <2>1. \A j \in 1..i : j \in 1..N /\ j \notin f
        BY <1>1, <1>4, NIsNat
    <2>2. q[i].phase = "open" /\ q[i].units = m
        <3>1. \A j \in 1..i : IsLive(q[j])
            BY <1>1, <2>1 DEF IsLive
        <3>2. i \in 1..i
            BY NIsNat
        <3> QED BY <1>1, <2>1, <3>1, <3>2 DEF Agree
    <2>3. r[i] = [q[i] EXCEPT !.units = n]
        BY <1>3, <1>4, <2>2 DEF WithUnit, Looped, n
    <2>4. q[i] \in Sequencer(m)
        BY <1>1
    <2> QED BY <1>2, <2>2, <2>3, <2>4 DEF Sequencer
<1>5. ASSUME NEW i \in 1..N, ~Reached(i)
      PROVE  /\ r[i] \in Sequencer(m)
             /\ IsLive(r[i]) => r[i] = q[i]
             /\ r[i].phase # "complete"
             /\ Begins(r[i].units, n)
             /\ \E j \in 1..i : ~IsLive(r[j])
    <2>1. r[i] \in {q[i], Aborted(q[i])}
        BY <1>3, <1>5 DEF Looped
    <2>2. q[i] \in Sequencer(m) /\ q[i].phase # "complete"
        BY <1>1 DEF NoneComplete
    <2>3. Begins(q[i].units, m)
        BY DEF Agree
    <2>4. r[i] = q[i] \/ (r[i].phase = "discarded" /\ r[i].units = <<>>)
        BY <2>1, <2>2, AbortedFacts
    <2>5. r[i] \in Sequencer(m)
        BY <2>1, <2>2, AbortedFacts
    <2>6. Begins(r[i].units, n)
        <3>1. CASE r[i] = q[i]
            BY <1>2, <2>2, <2>3, <3>1 DEF Begins, Sequencer
        <3>2. CASE r[i].units = <<>>
            BY <1>2, <3>2 DEF Begins
        <3> QED BY <2>4, <3>1, <3>2
    <2>7. \E j \in 1..i : ~IsLive(r[j])
        <3>1. \A j \in 1..N : q[j].phase # "open" => ~IsLive(q[j])
            BY DEF NoneComplete, IsLive
        <3>2. EndsAtFirst(f, r)
            BY <1>1, <3>1, FirstFailureEnds
        <3> QED BY <1>5, <3>2 DEF EndsAtFirst
    <2> QED BY <2>2, <2>4, <2>5, <2>6, <2>7 DEF IsLive
<1>6. r \in [1..N -> Sequencer(n)]
    <2>1. \A i \in 1..N : r[i] \in Sequencer(n)
        BY <1>2, <1>4, <1>5, SequencerMonotone
    <2>2. r = [i \in 1..N |-> r[i]]
        BY DEF UpTo
    <2> QED BY <2>1, <2>2
<1>7. \A i \in 1..N : Begins(r[i].units, n)
    <2>1. Begins(n, n)
        BY <1>2 DEF Begins
    <2> QED BY <1>4, <1>5, <2>1
<1>8. ASSUME NEW i \in 1..N, NEW j \in 1..N, i < j, IsLive(r[i]), IsLive(r[j])
      PROVE  Len(r[j].units) <= Len(r[i].units)
    <2>1. CASE Reached(j)
        <3>1. Reached(i)
            BY <1>1, <1>8, <2>1, NIsNat
        <3> QED BY <1>2, <1>4, <2>1, <3>1
    <2>2. CASE ~Reached(j) /\ Reached(i)
        <3>1. Len(r[j].units) <= Len(n)
            BY <1>7 DEF Begins
        <3> QED BY <1>4, <2>2, <3>1
    <2>3. CASE ~Reached(j) /\ ~Reached(i)
        <3>1. r[i] = q[i] /\ r[j] = q[j]
            BY <1>5, <1>8, <2>3
        <3> QED BY <1>8, <3>1 DEF Agree
    <2> QED BY <2>1, <2>2, <2>3
<1>9. \A i \in 1..N : (\A j \in 1..i : IsLive(r[j])) => r[i].units = n
    BY <1>4, <1>5
<1>10. NoneComplete(r)
    BY <1>4, <1>5 DEF NoneComplete
<1>11. Agree(r, n)
    BY <1>2, <1>4, <1>5, <1>6, <1>7, <1>8, <1>9 DEF Agree
<1> QED BY <1>10, <1>11 DEF n

(* FinalizeObuSequencers: what ends complete has every unit.                   *)
LEMMA CloseAgrees ==
    ASSUME NEW q, NEW m, Agree(q, m), NEW bad, NEW f, f = Failing(q, "open", bad),
           NEW done, done = Closed(q), NEW r, r = UpTo(q, done, f)
    PROVE  /\ Agree(r, m)
           /\ f = {} => \A i \in 1..N : r[i] = [phase |-> "complete", descriptors |-> "final",
                                                units |-> m]
<1> DEFINE Reached(i) == \A j \in f : ~(j <= i)
<1>1. /\ m \in Seq(Range(m)) /\ q \in [1..N -> Sequencer(m)]
      /\ f \in SUBSET (1..N) /\ \A i \in (1..N) \ f : q[i].phase = "open"
    BY DEF Agree, Failing
<1>2. Looped(q, done, f, r)
    BY <1>1, UpToFacts
<1>3. ASSUME NEW i \in 1..N, Reached(i)
      PROVE  /\ q[i].phase = "open" /\ q[i].units = m
             /\ r[i] = [phase |-> "complete", descriptors |-> "final", units |-> m]
    <2>1. \A j \in 1..i : j \in 1..N /\ j \notin f
        BY <1>1, <1>3, NIsNat
    <2>2. \A j \in 1..i : IsLive(q[j])
        BY <1>1, <2>1 DEF IsLive
    <2>3. i \in 1..i
        BY NIsNat
    <2>4. q[i].phase = "open" /\ q[i].units = m
        BY <1>1, <2>1, <2>2, <2>3 DEF Agree
    <2>5. r[i] = [q[i] EXCEPT !.phase = "complete", !.descriptors = "final"]
        BY <1>2, <1>3 DEF Closed, Looped
    <2>6. q[i] \in Sequencer(m)
        BY <1>1
    <2> QED BY <2>4, <2>5, <2>6 DEF Sequencer
<1>4. ASSUME NEW i \in 1..N, ~Reached(i)
      PROVE  /\ r[i] \in Sequencer(m)
             /\ IsLive(r[i]) => r[i] = q[i]
             /\ r[i] = q[i] \/ (r[i].phase = "discarded" /\ r[i].units = <<>>)
    <2>1. r[i] \in {q[i], Aborted(q[i])}
        BY <1>2, <1>4 DEF Looped
    <2>2. q[i] \in Sequencer(m)
        BY <1>1
    <2> QED BY <2>1, <2>2, AbortedFacts DEF IsLive
<1>5. r \in [1..N -> Sequencer(m)]
    <2>1. \A i \in 1..N : r[i] \in Sequencer(m)
        BY <1>1, <1>3, <1>4 DEF Sequencer
    <2>2. r = [i \in 1..N |-> r[i]]
        BY DEF UpTo
    <2> QED BY <2>1, <2>2
<1>6. \A i \in 1..N : Begins(r[i].units, m)
    <2>1. Begins(m, m) /\ Begins(<<>>, m)
        BY <1>1 DEF Begins
    <2> QED BY <1>3, <1>4, <2>1 DEF Agree
<1>7. \A i \in 1..N : IsLive(r[i]) => IsLive(q[i]) /\ r[i].units = q[i].units
    BY <1>3, <1>4 DEF IsLive
<1>8. \A i \in 1..N : r[i].phase = "complete" => r[i].descriptors = "final" /\ r[i].units = m
    <2> SUFFICES ASSUME NEW i \in 1..N, r[i].phase = "complete"
                 PROVE  r[i].descriptors = "final" /\ r[i].units = m
        OBVIOUS
    <2>1. CASE Reached(i)
        BY <1>3, <2>1
    <2>2. CASE ~Reached(i)
        BY <1>4, <2>2 DEF Agree
    <2> QED BY <2>1, <2>2
<1>9. \A i \in 1..N : (\A j \in 1..i : IsLive(r[j])) => r[i].units = m
    <2> SUFFICES ASSUME NEW i \in 1..N, \A j \in 1..i : IsLive(r[j])
                 PROVE  r[i].units = m
        OBVIOUS
    <2>1. i \in 1..i /\ \A j \in 1..i : j \in 1..N
        BY NIsNat
    <2> QED BY <1>7, <2>1 DEF Agree
<1>10. \A i, j \in 1..N : i < j /\ IsLive(r[i]) /\ IsLive(r[j])
                            => Len(r[j].units) <= Len(r[i].units)
    BY <1>7 DEF Agree
<1> QED BY <1>1, <1>3, <1>5, <1>6, <1>8, <1>9, <1>10 DEF Agree

(* Before any unit was made, sequencers that are not complete agree.           *)
LEMMA EmptyAgree ==
    ASSUME NEW q, q \in [1..N -> Sequencer(<<>>)], NoneComplete(q),
           \A i \in 1..N : q[i].units = <<>>
    PROVE  Agree(q, <<>>)
<1>1. <<>> \in Seq(Range(<<>>)) /\ Len(<<>>) = 0 /\ Begins(<<>>, <<>>)
    BY DEF Begins
<1> QED BY <1>1 DEF Agree, NoneComplete

(* Create.                                                                     *)
LEMMA CreateAgrees ==
    ASSUME NEW q, q \in [1..N -> Sequencer(<<>>)],
           \A i \in 1..N : q[i].phase = "none" /\ q[i].units = <<>>,
           NEW f \in SUBSET (1..N),
           NEW done, done = WithDescriptors(q), NEW r, r = UpTo(q, done, f)
    PROVE  Agree(r, <<>>) /\ NoneComplete(r)
<1>1. Looped(q, done, f, r)
    BY UpToFacts
<1>2. ASSUME NEW i \in 1..N
      PROVE  r[i] \in Sequencer(<<>>) /\ r[i].units = <<>> /\ r[i].phase # "complete"
    <2>1. q[i] \in Sequencer(<<>>) /\ q[i].phase = "none" /\ q[i].units = <<>>
        OBVIOUS
    <2>2. r[i] \in {q[i], Aborted(q[i]), done[i]}
        BY <1>1 DEF Looped
    <2>3. done[i] = [q[i] EXCEPT !.phase = "open", !.descriptors = "preliminary"]
        BY DEF WithDescriptors
    <2>4. /\ done[i] \in Sequencer(<<>>)
          /\ done[i].units = <<>> /\ done[i].phase # "complete"
        BY <2>1, <2>3 DEF Sequencer
    <2>5. /\ Aborted(q[i]) \in Sequencer(<<>>)
          /\ Aborted(q[i]).units = <<>> /\ Aborted(q[i]).phase # "complete"
        BY <2>1, AbortedFacts
    <2> QED BY <2>1, <2>2, <2>4, <2>5
<1>3. r = [i \in 1..N |-> r[i]]
    BY DEF UpTo
<1> QED BY <1>2, <1>3, EmptyAgree DEF NoneComplete
-------------------------------------------------------------------------------
(* The encoder and the generator of its frames.                                *)

EncFields == {"finalizeCalled", "cached", "metadata", "temp", "block", "next", "arbitrary",
              "finalizer", "mixFinalized", "sequencersFinalized", "state", "encoded",
              "popped", "padding", "encoders"}

(* A generator without encoders has nothing more to output.                    *)
IsEnc(e) ==
    /\ DOMAIN e = EncFields
    /\ {e.finalizeCalled, e.mixFinalized, e.sequencersFinalized, e.encoders} \subseteq BOOLEAN
    /\ e.encoded \in Int /\ e.popped \in Int /\ e.padding \in Nat /\ e.popped <= e.encoded
    /\ e.encoders \/ (e.state = "flushing" /\ e.padding = 0 /\ e.popped = e.encoded)

IsCall(w) == DOMAIN w = {"enc", "seqs", "made", "failed"} /\ IsEnc(w.enc)

(* What making a frame leaves alone: all that has been output and said to be   *)
(* final, and a generator that ended.                                          *)
Advances(w, v) ==
    /\ IsCall(v) /\ v.seqs = w.seqs /\ v.made = w.made
    /\ v.enc.finalizeCalled = w.enc.finalizeCalled /\ v.enc.arbitrary = w.enc.arbitrary
    /\ v.enc.mixFinalized = w.enc.mixFinalized
    /\ v.enc.sequencersFinalized = w.enc.sequencersFinalized
    /\ v.enc.encoders => w.enc.encoders
    /\ v.enc.state = "taking" => w.enc.state = "taking"
    /\ v.enc.popped > w.enc.popped => w.enc.encoders

(* What IsEnc reads, when all of it but the flags of an end is left alone.      *)
LEMMA FlagsKeepEnc ==
    ASSUME NEW e, IsEnc(e), NEW f, DOMAIN f = DOMAIN e,
           \A x \in DOMAIN e \ {"finalizer", "mixFinalized", "sequencersFinalized"} : f[x] = e[x],
           f.mixFinalized \in BOOLEAN, f.sequencersFinalized \in BOOLEAN
    PROVE  /\ IsEnc(f) /\ f.finalizeCalled = e.finalizeCalled
           /\ GeneratingTemporalUnits(f) = GeneratingTemporalUnits(e)
<1>1. DOMAIN e = EncFields
    BY DEF IsEnc
<1>2. /\ f.finalizeCalled = e.finalizeCalled /\ f.encoders = e.encoders
      /\ f.encoded = e.encoded /\ f.popped = e.popped /\ f.padding = e.padding
      /\ f.state = e.state /\ f.arbitrary = e.arbitrary
    BY <1>1 DEF EncFields
<1>3. {f.finalizeCalled, f.mixFinalized, f.sequencersFinalized, f.encoders} \subseteq BOOLEAN
    BY <1>2 DEF IsEnc
<1>4. IsEnc(f)
    BY <1>1, <1>2, <1>3 DEF IsEnc
<1>5. GeneratingTemporalUnits(f) = GeneratingTemporalUnits(e)
    BY <1>2 DEF GeneratingTemporalUnits
<1> QED BY <1>2, <1>4, <1>5

LEMMA AdvancesTransitively ==
    ASSUME NEW w, NEW v, NEW x, IsCall(w), Advances(w, v), Advances(v, x)
    PROVE  Advances(w, x)
BY DEF Advances, IsCall, IsEnc

LEMMA WithBlocksAdvances ==
    ASSUME NEW w, IsCall(w)
    PROVE  Advances(w, WithBlocks(w)) /\ WithBlocks(w).failed = w.failed
<1> DEFINE temp == w.enc.temp \o (IF w.enc.metadata = None THEN <<>> ELSE <<w.enc.metadata>>)
           block == IF temp = <<>> THEN w.enc.block ELSE Last(temp)
<1>1. WithBlocks(w) = [w EXCEPT !.enc.temp = temp, !.enc.metadata = None, !.enc.block = block]
    BY DEF WithBlocks
<1> HIDE DEF temp, block
<1> DEFINE v == WithBlocks(w)
<1>2. /\ DOMAIN v = DOMAIN w
      /\ \A x \in DOMAIN w \ {"enc"} : v[x] = w[x]
      /\ DOMAIN v.enc = DOMAIN w.enc
      /\ \A x \in DOMAIN w.enc \ {"temp", "metadata", "block"} : v.enc[x] = w.enc[x]
    <2>1. /\ DOMAIN v = DOMAIN w
          /\ \A x \in DOMAIN w \ {"enc"} : v[x] = w[x]
        BY <1>1
    <2>2. v.enc = [w.enc EXCEPT !.temp = temp, !.metadata = None, !.block = block]
        BY <1>1 DEF IsCall
    <2> QED BY <2>1, <2>2
<1>3. v.seqs = w.seqs /\ v.made = w.made /\ v.failed = w.failed
    BY <1>2 DEF IsCall
<1>4. \A x \in EncFields \ {"temp", "metadata", "block"} : v.enc[x] = w.enc[x]
    BY <1>2 DEF IsCall, IsEnc
<1> HIDE DEF v
<1>5. IsEnc(v.enc)
    BY <1>2, <1>4 DEF IsCall, IsEnc, EncFields, v
<1>6. Advances(w, v)
    BY <1>2, <1>3, <1>4, <1>5 DEF Advances, IsCall, IsEnc, EncFields, v
<1> QED BY <1>3, <1>6 DEF v

LEMMA EncodeFrameAdvances ==
    ASSUME NEW w, IsCall(w), w.enc.encoders
    PROVE  Advances(w, EncodeFrame(w)) /\ EncodeFrame(w).enc.encoders = w.enc.encoders
<1> DEFINE number == w.enc.encoded + 1
           next == IF w.enc.block = None THEN w.enc.next ELSE w.enc.block + 1
           made1 == [w EXCEPT !.enc = [w.enc EXCEPT !.encoded = number, !.block = None,
                                                    !.next = next]]
<1>1. EncodeFrame(w) \in {Fail(w, "dangling"), Fail(w, "parameters"), made1}
    BY DEF EncodeFrame, Updated
<1>2. number \in Int /\ w.enc.popped <= number
    BY DEF IsCall, IsEnc
<1> HIDE DEF number, next
<1>3. CASE EncodeFrame(w) = made1
    <2> DEFINE v == EncodeFrame(w)
    <2>1. /\ DOMAIN v = DOMAIN w
          /\ \A x \in DOMAIN w \ {"enc"} : v[x] = w[x]
          /\ v.enc = [w.enc EXCEPT !.encoded = number, !.block = None, !.next = next]
        BY <1>3 DEF IsCall
    <2>2. /\ DOMAIN v.enc = DOMAIN w.enc
          /\ \A x \in DOMAIN w.enc \ {"encoded", "block", "next"} : v.enc[x] = w.enc[x]
        BY <2>1
    <2>3. v.enc.encoded = number
        BY <2>1 DEF IsCall, IsEnc, EncFields
    <2> HIDE DEF v
    <2>4. IsEnc(v.enc)
        BY <1>2, <2>2, <2>3 DEF IsCall, IsEnc, EncFields
    <2>5. Advances(w, v) /\ v.enc.encoders = w.enc.encoders
        BY <2>1, <2>2, <2>4 DEF Advances, IsCall, IsEnc, EncFields
    <2> QED BY <2>5 DEF v
<1>4. ASSUME NEW what, EncodeFrame(w) = Fail(w, what)
      PROVE  Advances(w, EncodeFrame(w)) /\ EncodeFrame(w).enc.encoders = w.enc.encoders
    BY <1>4 DEF Fail, Advances, IsCall, IsEnc
<1> QED BY <1>1, <1>3, <1>4

LEMMA AddSamplesAdvances ==
    ASSUME NEW w, IsCall(w)
    PROVE  Advances(w, AddSamples(w))
<1> DEFINE added == IF w.enc.state = "taking" THEN EncodeFrame(w) ELSE w
           cleared == [added EXCEPT !.enc.cached = FALSE]
<1>1. Advances(w, w)
    BY DEF Advances, IsCall, IsEnc, EncFields
<1>2. Advances(w, added)
    <2>1. w.enc.state = "taking" => w.enc.encoders
        BY DEF IsCall, IsEnc
    <2> QED BY <1>1, <2>1, EncodeFrameAdvances
<1>3. AddSamples(w) \in {w, added, cleared}
    BY DEF AddSamples
<1> HIDE DEF added
<1>4. Advances(added, cleared)
    BY <1>2 DEF Advances, IsCall, IsEnc, EncFields
<1> HIDE DEF cleared
<1>5. Advances(w, cleared)
    BY <1>2, <1>4, AdvancesTransitively
<1> QED BY <1>1, <1>2, <1>3, <1>5

LEMMA FinalizeGeneratorAdvances ==
    ASSUME NEW w, IsCall(w)
    PROVE  Advances(w, FinalizeGenerator(w)) /\ FinalizeGenerator(w).failed = w.failed
BY DEF FinalizeGenerator, Advances, IsCall, IsEnc, EncFields

(* It ends only when the last frame has been popped.                           *)
LEMMA OutputFramesAdvances ==
    ASSUME NEW w, IsCall(w), setup \in Setups
    PROVE  Advances(w, OutputFrames(w))
<1> DEFINE flush == w.enc.state = "flushing" /\ w.enc.padding > 0
           padding == w.enc.padding - 1
           padded == [w EXCEPT !.enc.padding = padding]
           encoded == IF flush THEN EncodeFrame(padded) ELSE w
           state == IF w.enc.state = "taking" THEN "taking" ELSE "flushing"
           e == encoded.enc
           ended == state = "flushing" /\ e.padding = 0
           held == IF ended THEN 0 ELSE setup.latency
           popped == IF IsAvailable(e, held) THEN e.popped + 1 ELSE e.popped
           encoders == e.encoders /\ ~(ended /\ popped = e.encoded)
           done == [encoded EXCEPT !.enc = [e EXCEPT !.state = state, !.popped = popped,
                                            !.encoders = encoders]]
<1>1. Advances(w, encoded) /\ encoded.enc.encoders = w.enc.encoders
    <2>1. CASE flush
        <3>1. w.enc.encoders /\ padding \in Nat
            BY <2>1 DEF IsCall, IsEnc
        <3> HIDE DEF padding
        <3>2. Advances(w, padded) /\ padded.enc.encoders
            BY <3>1 DEF Advances, IsCall, IsEnc, EncFields
        <3> HIDE DEF padded
        <3>3. /\ Advances(padded, EncodeFrame(padded))
              /\ EncodeFrame(padded).enc.encoders = padded.enc.encoders
            BY <3>2, EncodeFrameAdvances DEF Advances
        <3>4. Advances(w, EncodeFrame(padded))
            BY <3>2, <3>3, AdvancesTransitively
        <3> QED BY <2>1, <3>1, <3>2, <3>3, <3>4
    <2>2. CASE ~flush
        BY <2>2 DEF Advances, IsCall, IsEnc
    <2> QED BY <2>1, <2>2
<1>2. OutputFrames(w) = IF ~Ok(encoded) THEN encoded ELSE done
    BY DEF OutputFrames
<1> HIDE DEF encoded
<1>3. setup.latency \in Int /\ setup.latency >= 0
    BY SetupsAssumption
<1>4. IsEnc(e)
    BY <1>1 DEF Advances, IsCall
<1>5. /\ state = "taking" => w.enc.state = "taking"
      /\ ~e.encoders => state = "flushing"
    BY <1>1 DEF IsCall, IsEnc
<1> HIDE DEF state
<1>6. /\ popped \in Int /\ e.popped <= popped /\ popped <= e.encoded
      /\ ~e.encoders => popped = e.popped
    BY <1>3, <1>4 DEF IsAvailable, IsEnc
<1> HIDE DEF popped
<1>7. /\ encoders \in BOOLEAN
      /\ ~encoders => ~e.encoders \/ (state = "flushing" /\ e.padding = 0 /\ popped = e.encoded)
      /\ encoders => e.encoders
    OBVIOUS
<1> HIDE DEF encoders
<1>8. IsCall(done)
    BY <1>1, <1>4, <1>5, <1>6, <1>7 DEF Advances, IsCall, IsEnc, EncFields
<1>9. Advances(w, done)
    BY <1>1, <1>4, <1>5, <1>6, <1>7, <1>8 DEF Advances, IsCall, IsEnc, EncFields
<1> QED BY <1>1, <1>2, <1>9
-------------------------------------------------------------------------------
(* The encoder with its sequencers: the inductive invariant.                   *)

AllComplete(q, m) ==
    \A i \in 1..N : q[i] = [phase |-> "complete", descriptors |-> "final", units |-> m]

(* A sequencer ends complete only when nothing more is generated.              *)
Sound(w) ==
    /\ IsCall(w) /\ Agree(w.seqs, w.made)
    /\ GeneratingTemporalUnits(w.enc) => NoneComplete(w.seqs)
    /\ w.enc.sequencersFinalized => /\ w.enc.mixFinalized /\ ~GeneratingTemporalUnits(w.enc)
                                    /\ AllComplete(w.seqs, w.made)

(* What a call may do to the flags a caller is told.                           *)
SameFlags(w, v) == /\ v.enc.finalizeCalled = w.enc.finalizeCalled
                   /\ w.enc.sequencersFinalized => v.enc.sequencersFinalized

LEMMA AdvancesIsSound ==
    ASSUME NEW w, NEW v, Sound(w), Advances(w, v)
    PROVE  Sound(v) /\ SameFlags(w, v)
BY DEF Sound, Advances, GeneratingTemporalUnits, SameFlags

LEMMA FinalizeDescriptorsSound ==
    ASSUME NEW w, Sound(w), NEW v, v = FinalizeDescriptors(w)
    PROVE  /\ Sound(v) /\ SameFlags(w, v)
           /\ v.seqs = w.seqs /\ v.made = w.made
           /\ v.enc.sequencersFinalized = w.enc.sequencersFinalized
           /\ GeneratingTemporalUnits(v.enc) = GeneratingTemporalUnits(w.enc)
           /\ Ok(v) => v.enc.mixFinalized
<1> DEFINE loud == [w EXCEPT !.enc.finalizer = "finalizeCalled"]
           flushed == [w EXCEPT !.enc.finalizer = "flushed", !.enc.mixFinalized = TRUE]
<1>1. v \in {w, Fail(w, "finalizer"), Fail(loud, "loudness"), flushed}
    BY DEF FinalizeDescriptors
<1>2. /\ DOMAIN v = DOMAIN w /\ v.seqs = w.seqs /\ v.made = w.made
      /\ DOMAIN v.enc = DOMAIN w.enc
      /\ \A x \in DOMAIN w.enc \ {"finalizer", "mixFinalized"} : v.enc[x] = w.enc[x]
      /\ v.enc.mixFinalized \in {w.enc.mixFinalized, TRUE}
    <2>1. CASE v \in {w, Fail(w, "finalizer")}
        BY <2>1 DEF Fail, Sound, IsCall
    <2>2. CASE v = Fail(loud, "loudness")
        <3>1. /\ DOMAIN v = DOMAIN w /\ v.seqs = w.seqs /\ v.made = w.made
              /\ v.enc = [w.enc EXCEPT !.finalizer = "finalizeCalled"]
            BY <2>2 DEF Fail, Sound, IsCall
        <3> QED BY <3>1
    <2>3. CASE v = flushed
        <3>1. /\ DOMAIN v = DOMAIN w /\ v.seqs = w.seqs /\ v.made = w.made
              /\ v.enc = [w.enc EXCEPT !.finalizer = "flushed", !.mixFinalized = TRUE]
            BY <2>3 DEF Sound, IsCall
        <3>2. /\ DOMAIN v.enc = DOMAIN w.enc
              /\ \A x \in DOMAIN w.enc \ {"finalizer", "mixFinalized"} : v.enc[x] = w.enc[x]
            BY <3>1
        <3>3. v.enc.mixFinalized = TRUE
            BY <3>1 DEF Sound, IsCall, IsEnc, EncFields
        <3> QED BY <3>1, <3>2, <3>3
    <2> QED BY <1>1, <2>1, <2>2, <2>3
<1>3. /\ IsCall(v) /\ SameFlags(w, v)
      /\ GeneratingTemporalUnits(v.enc) = GeneratingTemporalUnits(w.enc)
      /\ v.enc.sequencersFinalized = w.enc.sequencersFinalized
    <2>1. IsEnc(w.enc)
        BY DEF Sound, IsCall
    <2>2. v.enc.sequencersFinalized = w.enc.sequencersFinalized
        BY <1>2, <2>1 DEF IsEnc, EncFields
    <2>3. v.enc.mixFinalized \in BOOLEAN /\ v.enc.sequencersFinalized \in BOOLEAN
        BY <1>2, <2>1, <2>2 DEF IsEnc
    <2>4. /\ IsEnc(v.enc) /\ v.enc.finalizeCalled = w.enc.finalizeCalled
          /\ GeneratingTemporalUnits(v.enc) = GeneratingTemporalUnits(w.enc)
        BY <1>2, <2>1, <2>3, FlagsKeepEnc
    <2> QED BY <1>2, <2>2, <2>4 DEF Sound, IsCall, SameFlags
<1>4. w.enc.mixFinalized => v.enc.mixFinalized
    BY <1>2 DEF Sound, IsCall, IsEnc
<1>5. Ok(v) => v.enc.mixFinalized
    BY DEF FinalizeDescriptors, Ok, Fail, Sound, IsCall, IsEnc, EncFields
<1> QED BY <1>2, <1>3, <1>4, <1>5 DEF Sound

LEMMA FinalizeObuSequencersSound ==
    ASSUME NEW w, Sound(w), w.enc.mixFinalized, ~GeneratingTemporalUnits(w.enc), NEW bad,
           NEW v, v = FinalizeObuSequencers(w, bad)
    PROVE  /\ Sound(v) /\ SameFlags(w, v)
           /\ GeneratingTemporalUnits(v.enc) = GeneratingTemporalUnits(w.enc)
           /\ Ok(v) => v.enc.sequencersFinalized
<1> DEFINE f == Failing(w.seqs, "open", bad)
           r == UpTo(w.seqs, Closed(w.seqs), f)
           closed == [w EXCEPT !.seqs = r]
<1>1. /\ Agree(r, w.made)
      /\ f = {} => AllComplete(r, w.made)
    BY CloseAgrees DEF Sound, AllComplete
<1>2. v = IF w.enc.sequencersFinalized THEN w
          ELSE IF f # {} THEN Fail(closed, "sequencer")
          ELSE [closed EXCEPT !.enc.sequencersFinalized = TRUE]
    BY DEF FinalizeObuSequencers
<1> HIDE DEF f, r
<1>3. CASE w.enc.sequencersFinalized
    BY <1>2, <1>3 DEF SameFlags
<1>4. CASE ~w.enc.sequencersFinalized /\ f # {}
    <2>1. v = [closed EXCEPT !.failed = "sequencer"]
        BY <1>2, <1>4 DEF Fail
    <2>2. /\ DOMAIN v = DOMAIN w /\ v.enc = w.enc /\ v.seqs = r /\ v.made = w.made
          /\ v.failed = "sequencer"
        BY <2>1 DEF Sound, IsCall
    <2>3. IsCall(v) /\ SameFlags(w, v)
        BY <2>2 DEF Sound, IsCall, SameFlags
    <2> QED BY <1>1, <1>4, <2>2, <2>3 DEF Sound, Ok
<1>5. CASE ~w.enc.sequencersFinalized /\ f = {}
    <2>1. v = [closed EXCEPT !.enc.sequencersFinalized = TRUE]
        BY <1>2, <1>5
    <2>2. /\ DOMAIN v = DOMAIN w /\ v.seqs = r /\ v.made = w.made
          /\ DOMAIN v.enc = DOMAIN w.enc /\ v.enc.sequencersFinalized = TRUE
          /\ \A x \in DOMAIN w.enc \ {"sequencersFinalized"} : v.enc[x] = w.enc[x]
        BY <2>1 DEF Sound, IsCall, IsEnc, EncFields
    <2>3. IsEnc(w.enc)
        BY DEF Sound, IsCall
    <2>4. v.enc.mixFinalized = w.enc.mixFinalized /\ v.enc.mixFinalized \in BOOLEAN
        BY <2>2, <2>3 DEF IsEnc, EncFields
    <2>5. /\ IsEnc(v.enc) /\ v.enc.finalizeCalled = w.enc.finalizeCalled
          /\ GeneratingTemporalUnits(v.enc) = GeneratingTemporalUnits(w.enc)
        BY <2>2, <2>3, <2>4, FlagsKeepEnc
    <2>6. IsCall(v) /\ SameFlags(w, v) /\ v.enc.mixFinalized
        BY <2>2, <2>4, <2>5 DEF Sound, IsCall, SameFlags
    <2> QED BY <1>1, <1>5, <2>2, <2>5, <2>6 DEF Sound
<1> QED BY <1>3, <1>4, <1>5

LEMMA FinalizeSound ==
    ASSUME NEW w, Sound(w), ~GeneratingTemporalUnits(w.enc), NEW bad,
           NEW v, v = Finalize(w, bad)
    PROVE  Sound(v) /\ SameFlags(w, v) /\ (Ok(v) => v.enc.sequencersFinalized)
<1> DEFINE described == FinalizeDescriptors(w)
<1>1. /\ Sound(described) /\ SameFlags(w, described)
      /\ ~GeneratingTemporalUnits(described.enc)
      /\ Ok(described) => described.enc.mixFinalized
    BY FinalizeDescriptorsSound
<1>2. v = IF Ok(described) THEN FinalizeObuSequencers(described, bad) ELSE described
    BY DEF Finalize
<1> HIDE DEF described
<1>3. CASE Ok(described)
    <2>1. /\ Sound(v) /\ SameFlags(described, v)
          /\ Ok(v) => v.enc.sequencersFinalized
        BY <1>1, <1>2, <1>3, FinalizeObuSequencersSound
    <2> QED BY <1>1, <2>1 DEF SameFlags
<1>4. CASE ~Ok(described)
    BY <1>1, <1>2, <1>4
<1> QED BY <1>3, <1>4

LEMMA PushSound ==
    ASSUME NEW w, Sound(w), NoneComplete(w.seqs), ~w.enc.sequencersFinalized,
           NEW u, NEW bad, NEW v, v = PushTemporalUnitToObuSequencers(w, u, bad)
    PROVE  Sound(v) /\ v.enc = w.enc
<1> DEFINE f == Failing(w.seqs, "open", bad)
           r == UpTo(w.seqs, WithUnit(w.seqs, u), f)
           pushed == [w EXCEPT !.seqs = r, !.made = Append(@, u)]
<1>1. Agree(r, Append(w.made, u)) /\ NoneComplete(r)
    <2>1. Agree(w.seqs, w.made)
        BY DEF Sound
    <2> QED BY <2>1, PushAgrees
<1>2. v \in {Fail(w, "view"), Fail(pushed, "sequencer"), pushed}
    BY DEF PushTemporalUnitToObuSequencers
<1> HIDE DEF r
<1>3. /\ DOMAIN v = DOMAIN w /\ v.enc = w.enc
      /\ \/ v.seqs = w.seqs /\ v.made = w.made
         \/ v.seqs = r /\ v.made = Append(w.made, u)
    BY <1>2 DEF Fail, Sound, IsCall
<1> QED BY <1>1, <1>3 DEF Sound, IsCall
-------------------------------------------------------------------------------
(* OutputTemporalUnit.                                                         *)

(* What a call that outputs leaves behind: unless it fails, it does not end    *)
(* the encoder without its sequencers.                                         *)
EndsFinalized(v) ==
    Ok(v) /\ ~GeneratingTemporalUnits(v.enc) => v.enc.sequencersFinalized

LEMMA FailSound ==
    ASSUME NEW w, Sound(w), NEW what \in {"view", "finalizer", "sequencer"}
    PROVE  Sound(Fail(w, what)) /\ SameFlags(w, Fail(w, what)) /\ ~Ok(Fail(w, what))
<1>1. /\ DOMAIN Fail(w, what) = DOMAIN w /\ Fail(w, what).enc = w.enc
      /\ Fail(w, what).seqs = w.seqs /\ Fail(w, what).made = w.made
      /\ Fail(w, what).failed = what
    BY DEF Fail, Sound, IsCall
<1> HIDE DEF Fail
<1> QED BY <1>1 DEF Sound, IsCall, SameFlags, Ok

(* Blocks and arbitrary OBUs are taken out to be pushed.                       *)
Spliced(w, v) ==
    /\ DOMAIN v = DOMAIN w /\ v.seqs = w.seqs /\ v.made = w.made
    /\ DOMAIN v.enc = DOMAIN w.enc /\ v.enc.arbitrary \subseteq w.enc.arbitrary
    /\ \A x \in DOMAIN w.enc \ {"temp", "arbitrary"} : v.enc[x] = w.enc[x]

LEMMA SplicedSound ==
    ASSUME NEW w, Sound(w), NEW v, Spliced(w, v),
           v.enc.arbitrary = w.enc.arbitrary
              \/ (NoneComplete(w.seqs) /\ ~w.enc.sequencersFinalized)
    PROVE  /\ Sound(v) /\ SameFlags(w, v)
           /\ v.enc.sequencersFinalized = w.enc.sequencersFinalized
<1>1. IsCall(v) /\ SameFlags(w, v)
    BY DEF Spliced, Sound, IsCall, IsEnc, EncFields, SameFlags
<1>2. GeneratingTemporalUnits(v.enc) => GeneratingTemporalUnits(w.enc)
    BY DEF Spliced, Sound, IsCall, IsEnc, EncFields, GeneratingTemporalUnits
<1>3. v.enc.sequencersFinalized = w.enc.sequencersFinalized
      /\ v.enc.mixFinalized = w.enc.mixFinalized
    BY DEF Spliced, Sound, IsCall, IsEnc, EncFields
<1> QED BY <1>1, <1>2, <1>3 DEF Sound, Spliced

LEMMA OutputFrameSound ==
    ASSUME NEW w, Sound(w), NoneComplete(w.seqs), ~w.enc.sequencersFinalized,
           NEW badPush, NEW badClose, NEW v, v = OutputFrame(w, badPush, badClose)
    PROVE  Sound(v) /\ SameFlags(w, v) /\ EndsFinalized(v)
<1> DEFINE u == UnitOfFrame(w.enc)
           temp == TempAfter(w.enc, u.time)
           arbitrary == w.enc.arbitrary \ u.arbitrary
           spliced == [w EXCEPT !.enc.temp = temp, !.enc.arbitrary = arbitrary]
           pushed == PushTemporalUnitToObuSequencers(spliced, u, badPush)
           finalized == Finalize(pushed, badClose)
<1>1. v \in {Fail(spliced, "finalizer"), AfterPush(pushed, badClose)}
    BY DEF OutputFrame
<1> HIDE DEF u, temp
<1>2. Spliced(w, spliced)
    <2>1. arbitrary \subseteq w.enc.arbitrary
        OBVIOUS
    <2> HIDE DEF arbitrary
    <2>2. /\ DOMAIN spliced = DOMAIN w /\ spliced.seqs = w.seqs /\ spliced.made = w.made
          /\ spliced.enc = [w.enc EXCEPT !.temp = temp, !.arbitrary = arbitrary]
        BY DEF Sound, IsCall
    <2> HIDE DEF spliced
    <2>3. /\ DOMAIN spliced.enc = DOMAIN w.enc
          /\ \A x \in DOMAIN w.enc \ {"temp", "arbitrary"} : spliced.enc[x] = w.enc[x]
          /\ "arbitrary" \in DOMAIN w.enc => spliced.enc.arbitrary = arbitrary
        BY <2>2
    <2>4. spliced.enc.arbitrary \subseteq w.enc.arbitrary
        BY <2>1, <2>3 DEF Sound, IsCall, IsEnc, EncFields
    <2> QED BY <2>2, <2>3, <2>4 DEF Spliced
<1> HIDE DEF arbitrary
<1>3. /\ Sound(spliced) /\ SameFlags(w, spliced) /\ spliced.seqs = w.seqs
      /\ ~spliced.enc.sequencersFinalized
    BY <1>2, SplicedSound DEF Spliced
<1> HIDE DEF spliced
<1>4. Sound(pushed) /\ pushed.enc = spliced.enc
    BY <1>3, PushSound
<1> HIDE DEF pushed
<1>5. CASE v = Fail(spliced, "finalizer")
    BY <1>3, <1>5, FailSound DEF SameFlags, EndsFinalized
<1>6. CASE v = AfterPush(pushed, badClose)
    <2>1. CASE ~Ok(pushed) \/ GeneratingTemporalUnits(pushed.enc)
        BY <1>3, <1>4, <1>6, <2>1 DEF AfterPush, SameFlags, EndsFinalized
    <2>2. CASE Ok(pushed) /\ ~GeneratingTemporalUnits(pushed.enc)
        <3>1. v = finalized
            BY <1>6, <2>2 DEF AfterPush
        <3>2. Sound(v) /\ SameFlags(pushed, v) /\ EndsFinalized(v)
            BY <1>4, <2>2, <3>1, FinalizeSound DEF EndsFinalized
        <3> QED BY <1>3, <1>4, <3>2 DEF SameFlags
    <2> QED BY <2>1, <2>2
<1> QED BY <1>1, <1>5, <1>6

LEMMA OutputExtraneousSound ==
    ASSUME NEW w, Sound(w), NEW badPush, NEW badClose,
           NEW v, v = OutputExtraneous(w, badPush, badClose)
    PROVE  Sound(v) /\ SameFlags(w, v) /\ EndsFinalized(v)
<1> DEFINE first == IF w.enc.arbitrary = {} THEN {} ELSE {Min(w.enc.arbitrary)}
           u == [time |-> IF first = {} THEN None ELSE Min(first), frame |-> FALSE,
                 blocks |-> {}, arbitrary |-> first]
           arbitrary == w.enc.arbitrary \ first
           spliced == [w EXCEPT !.enc.arbitrary = arbitrary]
           done == ~GeneratingTemporalUnits(spliced.enc)
           described == IF done THEN FinalizeDescriptors(spliced) ELSE spliced
           pushed == IF first = {} THEN described
                     ELSE PushTemporalUnitToObuSequencers(described, u, badPush)
           closed == FinalizeObuSequencers(pushed, badClose)
<1>1. v = IF ~Ok(described) THEN described
          ELSE IF ~Ok(pushed) \/ ~done THEN pushed ELSE closed
    BY DEF OutputExtraneous
<1>2. /\ arbitrary \subseteq w.enc.arbitrary
      /\ IF first = {} THEN arbitrary = w.enc.arbitrary ELSE w.enc.arbitrary # {}
    OBVIOUS
<1>3. first # {} => NoneComplete(w.seqs) /\ ~w.enc.sequencersFinalized
    BY <1>2 DEF Sound, GeneratingTemporalUnits
<1> HIDE DEF first, u, arbitrary
<1>4. Spliced(w, spliced) /\ spliced.enc.arbitrary = arbitrary
    BY <1>2 DEF Spliced, Sound, IsCall, IsEnc, EncFields
<1> HIDE DEF spliced
<1>5. /\ Sound(spliced) /\ SameFlags(w, spliced) /\ spliced.seqs = w.seqs
      /\ spliced.enc.sequencersFinalized = w.enc.sequencersFinalized
    BY <1>2, <1>3, <1>4, SplicedSound DEF Spliced
<1>6. /\ Sound(described) /\ SameFlags(w, described) /\ described.seqs = w.seqs
      /\ described.enc.sequencersFinalized = w.enc.sequencersFinalized
      /\ GeneratingTemporalUnits(described.enc) = GeneratingTemporalUnits(spliced.enc)
      /\ done /\ Ok(described) => described.enc.mixFinalized
    <2>1. CASE done
        BY <1>5, <2>1, FinalizeDescriptorsSound DEF SameFlags
    <2>2. CASE ~done
        BY <1>5, <2>2
    <2> QED BY <2>1, <2>2
<1> HIDE DEF described, done
<1>7. Sound(pushed) /\ pushed.enc = described.enc
    <2>1. CASE first = {}
        BY <1>6, <2>1
    <2>2. CASE first # {}
        BY <1>3, <1>6, <2>2, PushSound
    <2> QED BY <2>1, <2>2
<1> HIDE DEF pushed
<1>8. SameFlags(w, pushed) /\ (GeneratingTemporalUnits(pushed.enc) <=> ~done)
    BY <1>6, <1>7 DEF SameFlags, done
<1>9. CASE ~Ok(described)
    BY <1>1, <1>6, <1>9 DEF EndsFinalized
<1>10. CASE Ok(described) /\ (~Ok(pushed) \/ ~done)
    BY <1>1, <1>7, <1>8, <1>10 DEF EndsFinalized
<1>11. CASE Ok(described) /\ Ok(pushed) /\ done
    <2>1. pushed.enc.mixFinalized /\ ~GeneratingTemporalUnits(pushed.enc)
        BY <1>6, <1>7, <1>8, <1>11
    <2>2. Sound(closed) /\ SameFlags(pushed, closed) /\ EndsFinalized(closed)
        BY <1>7, <2>1, FinalizeObuSequencersSound DEF EndsFinalized
    <2> QED BY <1>1, <1>8, <1>11, <2>2 DEF SameFlags
<1> QED BY <1>9, <1>10, <1>11

LEMMA OutputSound ==
    ASSUME NEW w, Sound(w), setup \in Setups, NEW badPush, NEW badClose,
           NEW v, v = Output(w, badPush, badClose)
    PROVE  Sound(v) /\ SameFlags(w, v) /\ (w.enc.finalizeCalled => EndsFinalized(v))
<1> DEFINE blocks == WithBlocks(w)
           added == AddSamples(blocks)
           finalizing == FinalizeGenerator(added)
           output == OutputFrames(finalizing)
<1>1. v = IF ~Ok(added) THEN added
          ELSE IF ~Ok(output) THEN output
          ELSE IF output.enc.popped > w.enc.popped THEN OutputFrame(output, badPush, badClose)
          ELSE IF w.enc.finalizeCalled THEN OutputExtraneous(output, badPush, badClose)
          ELSE output
    BY DEF Output
<1>2. Advances(w, added) /\ Advances(w, output)
    <2>1. Advances(w, blocks)
        BY WithBlocksAdvances DEF Sound
    <2>2. Advances(blocks, added)
        BY <2>1, AddSamplesAdvances DEF Advances
    <2>3. Advances(added, finalizing)
        BY <2>2, FinalizeGeneratorAdvances DEF Advances
    <2>4. Advances(finalizing, output)
        BY <2>3, OutputFramesAdvances DEF Advances
    <2> HIDE DEF blocks, added, finalizing, output
    <2> QED BY <2>1, <2>2, <2>3, <2>4, AdvancesTransitively DEF Sound, Advances
<1> HIDE DEF added, output
<1>3. /\ Sound(added) /\ SameFlags(w, added)
      /\ Sound(output) /\ SameFlags(w, output)
    BY <1>2, AdvancesIsSound
<1>4. CASE ~Ok(added)
    BY <1>1, <1>3, <1>4 DEF EndsFinalized
<1>5. CASE Ok(added) /\ ~Ok(output)
    BY <1>1, <1>3, <1>5 DEF EndsFinalized
<1>6. CASE Ok(added) /\ Ok(output) /\ output.enc.popped > w.enc.popped
    <2>1. NoneComplete(output.seqs) /\ ~output.enc.sequencersFinalized
        BY <1>2, <1>6 DEF Advances, Sound, GeneratingTemporalUnits
    <2>2. v = OutputFrame(output, badPush, badClose)
        BY <1>1, <1>6
    <2>3. Sound(v) /\ SameFlags(output, v) /\ EndsFinalized(v)
        BY <1>3, <2>1, <2>2, OutputFrameSound
    <2> QED BY <1>3, <2>3 DEF SameFlags
<1>7. CASE /\ Ok(added) /\ Ok(output) /\ ~(output.enc.popped > w.enc.popped)
           /\ w.enc.finalizeCalled
    <2>1. v = OutputExtraneous(output, badPush, badClose)
        BY <1>1, <1>7
    <2>2. Sound(v) /\ SameFlags(output, v) /\ EndsFinalized(v)
        BY <1>3, <2>1, OutputExtraneousSound
    <2> QED BY <1>3, <2>2 DEF SameFlags
<1>8. CASE /\ Ok(added) /\ Ok(output) /\ ~(output.enc.popped > w.enc.popped)
           /\ ~w.enc.finalizeCalled
    BY <1>1, <1>3, <1>8
<1> QED BY <1>4, <1>5, <1>6, <1>7, <1>8
-------------------------------------------------------------------------------
(* The specification.                                                          *)

NothingYet == phase = "creating" =>
    made = <<>> /\ \A i \in 1..N : seqs[i].phase = "none" /\ seqs[i].units = <<>>
EndedFinalized ==
    failed = {} /\ enc.finalizeCalled /\ ~GeneratingTemporalUnits(enc)
        => enc.sequencersFinalized

IInv == setup \in Setups /\ Sound(Now) /\ NothingYet /\ EndedFinalized

LEMMA NowFields ==
    /\ DOMAIN Now = {"enc", "seqs", "made", "failed"} /\ Ok(Now)
    /\ Now.enc = enc /\ Now.seqs = seqs /\ Now.made = made
BY DEF Now, Ok

LEMMA InitEstablishes == Init => IInv
<1> SUFFICES ASSUME Init
             PROVE  IInv
    OBVIOUS
<1>1. setup \in Setups /\ setup.padding \in Nat /\ setup.trivial \in BOOLEAN
      /\ (setup.trivial => setup.padding = 0)
    BY SetupsAssumption DEF Init
<1>2. IsEnc(enc)
    <2>1. DOMAIN enc = EncFields
        BY DEF Init, EncFields
    <2>2. /\ enc.finalizeCalled = FALSE /\ enc.mixFinalized = FALSE
          /\ enc.sequencersFinalized = FALSE
        BY DEF Init
    <2>3. enc.encoded = 0 /\ enc.popped = 0 /\ enc.padding = setup.padding
        BY DEF Init
    <2>4. enc.encoded \in Int /\ enc.popped \in Int /\ enc.popped <= enc.encoded
          /\ enc.popped = enc.encoded /\ enc.padding \in Nat
        BY <1>1, <2>3
    <2>5. /\ enc.encoders = ~setup.trivial
          /\ enc.state = IF setup.trivial THEN "flushing" ELSE "taking"
        BY DEF Init
    <2>6. enc.encoders \in BOOLEAN
        BY <1>1, <2>5, Zenon
    <2>7. {enc.finalizeCalled, enc.mixFinalized, enc.sequencersFinalized, enc.encoders}
              \subseteq BOOLEAN
        BY <2>2, <2>6
    <2>8. enc.encoders \/ (enc.state = "flushing" /\ enc.padding = 0)
        <3>1. CASE setup.trivial
            BY <1>1, <2>3, <2>5, <3>1, Zenon
        <3>2. CASE ~setup.trivial
            BY <2>5, <3>2, Zenon
        <3> QED BY <3>1, <3>2
    <2> QED BY <2>1, <2>4, <2>7, <2>8, Zenon DEF IsEnc
<1>3. /\ seqs \in [1..N -> Sequencer(<<>>)] /\ NoneComplete(seqs) /\ made = <<>>
      /\ \A i \in 1..N : seqs[i].units = <<>> /\ seqs[i].phase = "none"
    <2>1. <<>> \in Seq(Range(<<>>))
        OBVIOUS
    <2> QED BY <2>1 DEF Init, Sequencer, NoneComplete
<1>4. Agree(seqs, made)
    BY <1>3, EmptyAgree
<1>5. ~enc.sequencersFinalized /\ ~enc.finalizeCalled
    BY DEF Init
<1> QED BY <1>1, <1>2, <1>3, <1>4, <1>5, NowFields
        DEF IInv, Sound, IsCall, NothingYet, EndedFinalized

LEMMA CreateKeeps ==
    ASSUME IInv, Create
    PROVE  IInv'
<1>1. PICK bad \in Faulty :
        /\ seqs' = UpTo(seqs, WithDescriptors(seqs), Failing(seqs, "none", bad))
        /\ phase' \in {"created", "refused"}
    BY DEF Create
<1>2. /\ UNCHANGED <<setup, enc, made, failed>> /\ made = <<>>
      /\ seqs \in [1..N -> Sequencer(<<>>)]
      /\ \A i \in 1..N : seqs[i].phase = "none" /\ seqs[i].units = <<>>
    BY NowFields DEF Create, IInv, NothingYet, Sound, Agree
<1>3. Failing(seqs, "none", bad) \in SUBSET (1..N)
    BY DEF Failing
<1>4. Agree(seqs', <<>>) /\ NoneComplete(seqs')
    BY <1>1, <1>2, <1>3, CreateAgrees
<1>5. ~enc.sequencersFinalized
    BY <1>2, NIsNat, NowFields DEF IInv, Sound, AllComplete
<1>6. Now' = [enc |-> enc', seqs |-> seqs', made |-> made', failed |-> "none"]
    BY DEF Now
<1>7. Sound(Now')
    BY <1>2, <1>4, <1>5, <1>6, NowFields DEF IInv, Sound, IsCall
<1> QED BY <1>1, <1>2, <1>7 DEF IInv, NothingYet, EndedFinalized

(* What a call returns is what the next one starts from.                       *)
LEMMA ReturnsKeeps ==
    ASSUME IInv, NEW w, Returns(w), Sound(w), UNCHANGED setup, phase' = "created",
           failed' = {} /\ enc'.finalizeCalled => EndsFinalized(w) \/ EndedFinalized'
    PROVE  IInv'
<1>1. /\ enc' = w.enc /\ seqs' = w.seqs /\ made' = w.made
      /\ failed' = failed \union ({w.failed} \ {"none"})
    BY DEF Returns
<1>2. Now' = [enc |-> enc', seqs |-> seqs', made |-> made', failed |-> "none"]
    BY DEF Now
<1>3. Sound(Now')
    BY <1>1, <1>2 DEF Sound, IsCall
<1>4. failed' = {} => Ok(w)
    BY <1>1 DEF Ok
<1>5. EndedFinalized'
    BY <1>1, <1>4 DEF EndedFinalized, EndsFinalized
<1> QED BY <1>3, <1>5 DEF IInv, NothingYet

LEMMA EncodeKeeps ==
    ASSUME IInv, NEW samples \in BOOLEAN, Encode(samples)
    PROVE  IInv'
<1>1. PICK metadata, cached : enc' = [enc EXCEPT !.metadata = metadata, !.cached = cached]
    BY DEF Encode
<1>2. UNCHANGED <<setup, phase, seqs, made, failed>>
    BY DEF Encode
<1>3. IsEnc(enc) /\ Sound(Now)
    BY NowFields DEF IInv, Sound, IsCall
<1>4. /\ DOMAIN enc' = DOMAIN enc
      /\ \A x \in DOMAIN enc \ {"metadata", "cached"} : enc'[x] = enc[x]
    BY <1>1
<1>5. /\ IsEnc(enc') /\ enc'.finalizeCalled = enc.finalizeCalled
      /\ enc'.mixFinalized = enc.mixFinalized
      /\ enc'.sequencersFinalized = enc.sequencersFinalized
    BY <1>3, <1>4 DEF IsEnc, EncFields
<1>6. GeneratingTemporalUnits(enc') <=> GeneratingTemporalUnits(enc)
    BY <1>3, <1>4 DEF IsEnc, EncFields, GeneratingTemporalUnits
<1>7. Now' = [enc |-> enc', seqs |-> seqs', made |-> made', failed |-> "none"]
    BY DEF Now
<1>8. Sound(Now')
    BY <1>2, <1>3, <1>5, <1>6, <1>7, NowFields DEF Sound, IsCall
<1> QED BY <1>2, <1>5, <1>6, <1>8 DEF IInv, NothingYet, EndedFinalized

LEMMA FinalizeEncodeKeeps ==
    ASSUME IInv, FinalizeEncode
    PROVE  IInv'
<1> DEFINE called == [Now EXCEPT !.enc.finalizeCalled = TRUE]
<1>1. PICK bad \in Faulty :
        Returns(IF GeneratingTemporalUnits(enc) THEN called ELSE Finalize(called, bad))
    BY DEF FinalizeEncode
<1>2. UNCHANGED setup /\ phase' = "created"
    BY DEF FinalizeEncode
<1>3. /\ DOMAIN called = DOMAIN Now /\ called.seqs = seqs /\ called.made = made
      /\ called.failed = "none" /\ called.enc = [enc EXCEPT !.finalizeCalled = TRUE]
    BY DEF Now
<1> HIDE DEF called
<1>4. IsEnc(enc) /\ Sound(Now)
    BY NowFields DEF IInv, Sound, IsCall
<1>5. GeneratingTemporalUnits(called.enc) <=> GeneratingTemporalUnits(enc)
    BY <1>3, <1>4 DEF IsEnc, EncFields, GeneratingTemporalUnits
<1>6. Sound(called)
    <2>1. /\ IsEnc(called.enc) /\ called.enc.mixFinalized = enc.mixFinalized
          /\ called.enc.sequencersFinalized = enc.sequencersFinalized
        BY <1>3, <1>4 DEF IsEnc, EncFields
    <2> QED BY <1>3, <1>4, <1>5, <2>1, NowFields DEF Sound, IsCall
<1>7. CASE GeneratingTemporalUnits(enc)
    <2>1. Returns(called) /\ EndsFinalized(called)
        BY <1>1, <1>5, <1>7 DEF EndsFinalized
    <2> QED BY <1>2, <1>6, <2>1, ReturnsKeeps
<1>8. CASE ~GeneratingTemporalUnits(enc)
    <2> DEFINE v == Finalize(called, bad)
    <2>1. Sound(v) /\ EndsFinalized(v)
        BY <1>5, <1>6, <1>8, FinalizeSound DEF EndsFinalized
    <2>2. Returns(v)
        BY <1>1, <1>8
    <2> QED BY <1>2, <2>1, <2>2, ReturnsKeeps
<1> QED BY <1>7, <1>8

LEMMA OutputTemporalUnitKeeps ==
    ASSUME IInv, OutputTemporalUnit
    PROVE  IInv'
<1>1. PICK badPush \in Faulty, badClose \in Faulty : Returns(Output(Now, badPush, badClose))
    BY DEF OutputTemporalUnit
<1>2. UNCHANGED setup /\ phase' = "created"
    BY DEF OutputTemporalUnit, CallOutput
<1> DEFINE v == Output(Now, badPush, badClose)
<1>3. /\ Sound(v) /\ SameFlags(Now, v)
      /\ Now.enc.finalizeCalled => EndsFinalized(v)
    BY OutputSound DEF IInv
<1>4. enc'.finalizeCalled => EndsFinalized(v)
    BY <1>1, <1>3 DEF Returns, SameFlags
<1> QED BY <1>1, <1>2, <1>3, <1>4, ReturnsKeeps

LEMMA NextKeeps == IInv /\ [Next]_vars => IInv'
<1> SUFFICES ASSUME IInv, [Next]_vars
             PROVE  IInv'
    OBVIOUS
<1>1. CASE UNCHANGED vars
    BY <1>1 DEF vars, IInv, NothingYet, EndedFinalized, Now
<1> QED BY <1>1, CreateKeeps, EncodeKeeps, FinalizeEncodeKeeps, OutputTemporalUnitKeeps
        DEF Next

LEMMA InvariantHolds == Spec => []IInv
BY InitEstablishes, NextKeeps, PTL DEF Spec

(* Whichever writes fail, sequencers that survive have the first units that    *)
(* were made, never more than one that is called before them; what ends        *)
(* complete has the same; those before the first that was lost have all.       *)
THEOREM SurvivorsAgree == Spec => []SequencersAgree
<1>1. IInv => SequencersAgree
    <2> SUFFICES ASSUME IInv
                 PROVE  SequencersAgree
        OBVIOUS
    <2>1. Agree(seqs, made)
        BY NowFields DEF IInv, Sound
    <2>2. Live = {i \in 1..N : IsLive(seqs[i])}
        BY DEF Live, IsLive
    <2>3. \A i, j \in Live : i < j => IsPrefix(seqs[j].units, seqs[i].units)
        <3> SUFFICES ASSUME NEW i \in Live, NEW j \in Live, i < j
                     PROVE  IsPrefix(seqs[j].units, seqs[i].units)
            OBVIOUS
        <3>1. /\ made \in Seq(Range(made))
              /\ seqs[i].units \in Seq(Range(made)) /\ seqs[j].units \in Seq(Range(made))
              /\ Begins(seqs[i].units, made) /\ Begins(seqs[j].units, made)
              /\ Len(seqs[j].units) <= Len(seqs[i].units)
            BY <2>1, <2>2 DEF Agree, Sequencer
        <3> QED BY <3>1, BeginsFacts
    <2>4. \A i, j \in Live : seqs[i].phase = "complete" /\ seqs[j].phase = "complete"
                               => seqs[i].units = seqs[j].units
        BY <2>1, <2>2 DEF Agree
    <2>5. \A i \in Live : (\A j \in 1..i : j \in Live) => seqs[i].units = made
        BY <2>1, <2>2 DEF Agree
    <2> QED BY <2>3, <2>4, <2>5 DEF SequencersAgree
<1> QED BY <1>1, InvariantHolds, PTL

(* An encoder says that its output is final only when every sequencer ended    *)
(* complete with all the units; and it does so without being asked again,      *)
(* unless a call failed.                                                       *)
THEOREM FinalizedMeansComplete == Spec => []FinalizedIsComplete
<1>1. IInv => FinalizedIsComplete
    BY NowFields DEF IInv, Sound, AllComplete, EndedFinalized, FinalizedIsComplete
<1> QED BY <1>1, InvariantHolds, PTL

-------------------------------------------------------------------------------
(* What an encoder makes of the samples, the parameter blocks and the          *)
(* arbitrary OBUs it is given: all of it comes out, once, and nothing fails    *)
(* without a reason outside of the encoder.                                    *)
-------------------------------------------------------------------------------
(* The inductive invariant.  e is the encoder, q its sequencers, m the units   *)
(* that were made and f the functions that failed.                             *)

(* A frame that was given is cached or encoded; so is the padding, or it is    *)
(* still to come.                                                              *)
FramesAccounted(e, g) ==
    /\ e.encoded \in Nat /\ e.popped \in Nat /\ e.popped <= e.encoded
    /\ e.padding \in 0..setup.padding /\ e.cached \in BOOLEAN /\ g \in Nat
    /\ e.encoded + e.padding + (IF e.cached THEN 1 ELSE 0) = g + setup.padding
    /\ e.state \in {"taking", "finalizeCalled", "flushing"}
    /\ e.cached => e.state = "taking"
    /\ e.state = "taking" \/ e.finalizeCalled \/ setup.trivial

(* The blocks that wait are those of the frames from p on that were encoded,   *)
(* and perhaps of the one that is encoded next; the manager expects the block  *)
(* of that one.                                                                *)
BlocksFollow(e, p) ==
    /\ e.metadata \in Nat \union {None} /\ e.block \in Nat \union {None}
    /\ e.next \in Nat /\ e.temp \in Seq(Nat)
    /\ IF setup.covered
       THEN /\ e.next = e.encoded
            /\ \A i \in 1..Len(e.temp) : e.temp[i] = p + i - 1
            /\ p + Len(e.temp) \in {e.encoded, e.encoded + 1}
            /\ e.metadata # None => e.metadata = e.encoded /\ p + Len(e.temp) = e.encoded
            /\ e.block # None => /\ e.block <= e.encoded
                                 /\ e.block = e.encoded => p + Len(e.temp) = e.encoded + 1
       ELSE e.metadata = None /\ e.block = None /\ e.next = 0 /\ e.temp = <<>>

(* The loudness is finalized when nothing more is generated, and once.         *)
FinalizedLast(e) ==
    /\ e.finalizer \in {"accepting", "finalizeCalled", "flushed"}
    /\ e.finalizer = "flushed" <=> e.mixFinalized
    /\ e.finalizer # "accepting" => ~GeneratingTemporalUnits(e)
    /\ e.finalizer = "finalizeCalled" => setup.loud

FramePlaces(m) == {i \in DOMAIN m : m[i].frame}
EarlierFrames(m, i) == {j \in DOMAIN m : j < i /\ m[j].frame}
MadeOf(m) == UNION {m[i].arbitrary : i \in DOMAIN m}

(* n frames were output and left is what is left of the arbitrary OBUs.        *)
UnitsFollow(m, n, left) ==
    /\ m \in Seq(Range(m)) /\ IsFiniteSet(FramePlaces(m)) /\ Cardinality(FramePlaces(m)) = n
    /\ \A i \in DOMAIN m :
          /\ m[i].frame => /\ m[i].time = Cardinality(EarlierFrames(m, i))
                           /\ m[i].blocks = IF setup.covered THEN {m[i].time} ELSE {}
          /\ m[i].arbitrary \subseteq {m[i].time}
          /\ m[i].arbitrary \intersect left = {}
    /\ \A i, j \in DOMAIN m : i # j => m[i].arbitrary \intersect m[j].arbitrary = {}
    /\ left \subseteq DOMAIN setup.arbitrary /\ MadeOf(m) \subseteq DOMAIN setup.arbitrary

Gone(m, left) == DOMAIN setup.arbitrary \ (left \union MadeOf(m))

(* Why anything failed; clean is whether no write did.                         *)
FailuresExplained(f, m, left, clean) ==
    /\ f \subseteq {"sequencer", "loudness", "finalizer", "view"}
    /\ clean => "sequencer" \notin f
    /\ setup.loud \/ f \intersect {"loudness", "finalizer"} = {}
    /\ "view" \in f => \E t \in Gone(m, left) : ~setup.arbitrary[t]
    /\ f = {} => Gone(m, left) = {}

AllOpen(q) == \A i \in 1..N : q[i].phase = "open"

NoneLost(w, clean) == clean => AllOpen(w.seqs) \/ w.enc.sequencersFinalized

FailedBy(w, f) == f \union ({w.failed} \ {"none"})

(* A call w, after the functions in f had failed.                              *)
Whole(w, g, f, clean) ==
    /\ FramesAccounted(w.enc, g) /\ BlocksFollow(w.enc, w.enc.popped)
    /\ FinalizedLast(w.enc)
    /\ UnitsFollow(w.made, w.enc.popped, w.enc.arbitrary)
    /\ FailuresExplained(FailedBy(w, f), w.made, w.enc.arbitrary, clean)
    /\ NoneLost(w, clean)

OutputInv ==
    /\ IInv /\ phase \in {"creating", "created", "refused"} /\ faults \in Nat
    /\ phase # "created" => failed = {}
    /\ Whole(Now, given, failed, faults = 0 /\ phase = "created")
-------------------------------------------------------------------------------
(* Numbers and sequences of them.                                              *)

(* The n numbers from p on, if they end at c or in front of it.                *)
EndsAt(p, n, c) ==
    /\ p + n - 1 = c <=> p + n = c + 1
    /\ p + n - 1 <= c
    /\ \A i \in 1..n : c = p + i - 1 => p + n = c + 1
    /\ \A k \in Nat : k >= n /\ p + n = c + 1 /\ p + k \in {c, c + 1} => p + k = c + 1

LEMMA EndsThere ==
    ASSUME NEW p \in Nat, NEW n \in Nat, NEW c \in Nat, p + n \in {c, c + 1}
    PROVE  EndsAt(p, n, c)
BY DEF EndsAt

LEMMA LeastOf ==
    ASSUME NEW S, S \subseteq Nat, NEW m \in S, \A k \in S : m <= k
    PROVE  Min(S) = m
<1>1. PICK l : l = Min(S) /\ l \in S /\ \A k \in S : l <= k
    BY DEF Min
<1>2. l \in Nat /\ m \in Nat /\ l <= m /\ m <= l
    BY <1>1
<1>3. l = m
    BY <1>2
<1> QED BY <1>1, <1>3, Zenon

LEMMA LeastIn ==
    ASSUME NEW S, S \subseteq Nat, S # {}
    PROVE  Min(S) \in S
<1>1. PICK m \in S : \A k \in S : m <= k
    BY LeastNumber
<1> QED BY <1>1, LeastOf

Consecutive(temp, p) == /\ temp \in Seq(Nat) /\ Len(temp) \in Nat
                        /\ \A i \in 1..Len(temp) : temp[i] = p + i - 1

(* Consecutive blocks are cut behind the first, if that is the frame's.        *)
LEMMA CutBehindFirst ==
    ASSUME NEW temp, NEW p \in Nat, Len(temp) > 0, Consecutive(temp, p),
           NEW rest, rest = SubSeq(temp, FirstLater(temp, p), Len(temp))
    PROVE  /\ Range(SubSeq(temp, 1, FirstLater(temp, p) - 1)) = {p}
           /\ Consecutive(rest, p + 1) /\ Len(rest) = Len(temp) - 1
<1> DEFINE S == {i \in DOMAIN temp : temp[i] > p} \union {Len(temp) + 1}
           front == SubSeq(temp, 1, 1)
<1>0. temp \in Seq(Nat) /\ \A i \in 1..Len(temp) : temp[i] = p + i - 1
    BY DEF Consecutive
<1>1. Len(temp) \in Nat \ {0} /\ DOMAIN temp = 1..Len(temp) /\ temp[1] = p
    BY <1>0
<1>2. S \subseteq Nat /\ 2 \in S /\ \A k \in S : 2 <= k
    <2>1. CASE Len(temp) = 1
        BY <1>1, <2>1
    <2>2. CASE Len(temp) > 1
        <3>1. 2 \in 1..Len(temp) /\ temp[2] = p + 2 - 1
            BY <1>0, <1>1, <2>2
        <3>2. temp[2] > p /\ 2 \in S
            BY <1>1, <3>1
        <3>3. \A k \in S : k # 1 /\ k \in Nat \ {0}
            BY <1>1
        <3> QED BY <3>2, <3>3
    <2> QED BY <1>1, <2>1, <2>2
<1>3. FirstLater(temp, p) = 2
    <2> HIDE DEF S
    <2>1. Min(S) = 2
        BY <1>2, LeastOf
    <2> QED BY <2>1 DEF FirstLater, S
<1>4. front = <<p>> /\ Range(front) = {p}
    <2>1. front \in Seq(Nat) /\ Len(front) = 1 /\ front[1] = p
        BY <1>0, <1>1
    <2>2. DOMAIN front = {1}
        BY <2>1
    <2> HIDE DEF front
    <2> QED BY <2>1, <2>2 DEF Range
<1>5. 2 - 1 = 1
    OBVIOUS
<1>6. Range(SubSeq(temp, 1, FirstLater(temp, p) - 1)) = {p}
    BY <1>3, <1>4, <1>5
<1>7. rest = SubSeq(temp, 2, Len(temp))
    BY <1>3
<1>8. rest \in Seq(Nat) /\ Len(rest) = Len(temp) - 1 /\ Len(rest) \in Nat
    BY <1>0, <1>1, <1>7
<1>9. \A i \in 1..Len(rest) : rest[i] = temp[i + 1] /\ i + 1 \in 1..Len(temp)
    BY <1>0, <1>1, <1>7, <1>8
<1>10. ASSUME NEW i \in 1..Len(rest) PROVE rest[i] = p + 1 + i - 1
    <2>1. rest[i] = temp[i + 1] /\ i + 1 \in 1..Len(temp) /\ i \in Int
        BY <1>8, <1>9
    <2>2. temp[i + 1] = p + (i + 1) - 1
        BY <1>0, <2>1
    <2> QED BY <2>1, <2>2
<1> QED BY <1>6, <1>8, <1>10, Zenon DEF Consecutive

LEMMA CutNothing ==
    ASSUME NEW p \in Nat
    PROVE  /\ Range(SubSeq(<<>>, 1, FirstLater(<<>>, p) - 1)) = {}
           /\ SubSeq(<<>>, FirstLater(<<>>, p), Len(<<>>)) = <<>>
<1> DEFINE S == {i \in DOMAIN <<>> : <<>>[i] > p} \union {Len(<<>>) + 1}
<1>1. S = {1}
    OBVIOUS
<1>2. Min(S) = 1
    BY <1>1, LeastOf
<1>3. FirstLater(<<>>, p) = 1
    BY <1>2 DEF FirstLater
<1>4. SubSeq(<<>>, 1, 0) = <<>>
    OBVIOUS
<1> QED BY <1>3, <1>4 DEF Range
-------------------------------------------------------------------------------
(* The units made.                                                             *)

Grown(m, u, n) ==
    /\ DOMAIN m = 1..Len(m) /\ Len(m) \in Nat /\ DOMAIN n = 1..(Len(m) + 1)
    /\ n[Len(m) + 1] = u /\ \A i \in DOMAIN m : n[i] = m[i]
    /\ FramePlaces(n) = FramePlaces(m) \union (IF u.frame THEN {Len(m) + 1} ELSE {})
    /\ \A i \in DOMAIN m : EarlierFrames(n, i) = EarlierFrames(m, i)
    /\ EarlierFrames(n, Len(m) + 1) = FramePlaces(m)
    /\ MadeOf(n) = MadeOf(m) \union u.arbitrary

LEMMA FramesCounted ==
    ASSUME NEW m, m \in Seq(Range(m)), NEW u, NEW n, n = Append(m, u)
    PROVE  Grown(m, u, n)
<1> DEFINE last == Len(m) + 1
<1>1. DOMAIN m = 1..Len(m) /\ Len(m) \in Nat
    OBVIOUS
<1>2. DOMAIN n = 1..last /\ n[last] = u /\ \A i \in DOMAIN m : n[i] = m[i]
    <2> DEFINE X == Range(m) \union {u}
    <2>1. m \in Seq(X)
        OBVIOUS
    <2> QED BY <2>1
<1>3. DOMAIN n = DOMAIN m \union {last} /\ last \notin DOMAIN m
    BY <1>1, <1>2
<1>4. \A i \in DOMAIN m : i < last /\ ~(last < i)
    BY <1>1
<1>5. ~(last < last)
    BY <1>1
<1> HIDE DEF last
<1>6. FramePlaces(n) = FramePlaces(m) \union (IF u.frame THEN {last} ELSE {})
    <2>1. CASE u.frame
        BY <1>2, <1>3, <2>1, Zenon DEF FramePlaces
    <2>2. CASE ~u.frame
        BY <1>2, <1>3, <2>2, Zenon DEF FramePlaces
    <2> QED BY <2>1, <2>2
<1>7. \A i \in DOMAIN m : EarlierFrames(n, i) = EarlierFrames(m, i)
    BY <1>2, <1>3, <1>4, Zenon DEF EarlierFrames
<1>8. EarlierFrames(n, last) = FramePlaces(m)
    BY <1>2, <1>3, <1>4, <1>5, Zenon DEF EarlierFrames, FramePlaces
<1>9. MadeOf(n) = MadeOf(m) \union u.arbitrary
    <2>1. \A x : x \in MadeOf(n) <=> \E i \in DOMAIN n : x \in n[i].arbitrary
        BY DEF MadeOf
    <2>2. \A x : x \in MadeOf(m) <=> \E i \in DOMAIN m : x \in m[i].arbitrary
        BY DEF MadeOf
    <2>3. \A x : x \in MadeOf(n) <=> x \in MadeOf(m) \union u.arbitrary
        <3> SUFFICES ASSUME NEW x PROVE x \in MadeOf(n) <=> x \in MadeOf(m) \/ x \in u.arbitrary
            OBVIOUS
        <3>1. ASSUME x \in MadeOf(n) PROVE x \in MadeOf(m) \/ x \in u.arbitrary
            BY <1>2, <1>3, <2>1, <2>2, <3>1, Zenon
        <3>2. ASSUME x \in MadeOf(m) PROVE x \in MadeOf(n)
            BY <1>2, <1>3, <2>1, <2>2, <3>2, Zenon
        <3>3. ASSUME x \in u.arbitrary PROVE x \in MadeOf(n)
            BY <1>2, <1>3, <2>1, <3>3, Zenon
        <3> QED BY <3>1, <3>2, <3>3
    <2> QED BY <2>3, Zenon
<1> QED BY <1>1, <1>2, <1>6, <1>7, <1>8, <1>9, Zenon DEF last, Grown

(* A unit takes the next place, with arbitrary OBUs that were left.            *)
Fits(u, n, left) ==
    /\ u.frame => u.time = n /\ u.blocks = IF setup.covered THEN {n} ELSE {}
    /\ u.arbitrary \subseteq {u.time} /\ u.arbitrary \subseteq left

LEMMA UnitsGrow ==
    ASSUME NEW m, NEW n \in Nat, NEW left, UnitsFollow(m, n, left), NEW u, Fits(u, n, left)
    PROVE  /\ UnitsFollow(Append(m, u), n + (IF u.frame THEN 1 ELSE 0), left \ u.arbitrary)
           /\ Gone(Append(m, u), left \ u.arbitrary) = Gone(m, left)
<1> DEFINE l == Append(m, u)
           last == Len(m) + 1
           rest == left \ u.arbitrary
           count == n + (IF u.frame THEN 1 ELSE 0)
<1>0. m \in Seq(Range(m))
    BY DEF UnitsFollow
<1>u. /\ u.frame => u.time = n /\ u.blocks = IF setup.covered THEN {n} ELSE {}
      /\ u.arbitrary \subseteq {u.time} /\ u.arbitrary \subseteq left
    BY DEF Fits
<1>1. l \in Seq(Range(l))
    BY <1>0, Appending
<1>2. /\ DOMAIN m = 1..Len(m) /\ Len(m) \in Nat /\ DOMAIN l = 1..last
      /\ l[last] = u /\ \A i \in DOMAIN m : l[i] = m[i]
      /\ FramePlaces(l) = FramePlaces(m) \union (IF u.frame THEN {last} ELSE {})
      /\ \A i \in DOMAIN m : EarlierFrames(l, i) = EarlierFrames(m, i)
      /\ EarlierFrames(l, last) = FramePlaces(m)
      /\ MadeOf(l) = MadeOf(m) \union u.arbitrary
    <2>1. Grown(m, u, l)
        BY <1>0, FramesCounted
    <2> QED BY <2>1, Zenon DEF Grown
<1>3. DOMAIN l = DOMAIN m \union {last} /\ last \notin DOMAIN m
    BY <1>2
<1> HIDE DEF l, last
<1>4. IsFiniteSet(FramePlaces(l)) /\ Cardinality(FramePlaces(l)) = count
    <2>1. IsFiniteSet(FramePlaces(m)) /\ Cardinality(FramePlaces(m)) = n
        BY DEF UnitsFollow
    <2>2. CASE ~u.frame
        BY <1>2, <2>1, <2>2
    <2>3. CASE u.frame
        <3>1. last \notin FramePlaces(m)
            BY <1>3 DEF FramePlaces
        <3>2. FramePlaces(l) = FramePlaces(m) \union {last}
            BY <1>2, <2>3
        <3> QED BY <2>1, <2>3, <3>1, <3>2, FS_AddElement
    <2> QED BY <2>2, <2>3
<1>5. ASSUME NEW i \in DOMAIN l
      PROVE  /\ l[i].frame => /\ l[i].time = Cardinality(EarlierFrames(l, i))
                              /\ l[i].blocks = IF setup.covered THEN {l[i].time} ELSE {}
             /\ l[i].arbitrary \subseteq {l[i].time}
             /\ l[i].arbitrary \intersect rest = {}
    <2>1. CASE i \in DOMAIN m
        BY <1>2, <2>1 DEF UnitsFollow
    <2>2. CASE i = last
        <3>1. Cardinality(FramePlaces(m)) = n
            BY DEF UnitsFollow
        <3> QED BY <1>2, <1>u, <2>2, <3>1
    <2> QED BY <1>3, <2>1, <2>2
<1>6. ASSUME NEW i \in DOMAIN m PROVE m[i].arbitrary \intersect u.arbitrary = {}
    BY <1>6, <1>u DEF UnitsFollow
<1>7. ASSUME NEW i \in DOMAIN l, NEW j \in DOMAIN l, i # j
      PROVE  l[i].arbitrary \intersect l[j].arbitrary = {}
    <2>1. CASE i \in DOMAIN m /\ j \in DOMAIN m
        BY <1>2, <1>7, <2>1 DEF UnitsFollow
    <2>2. CASE i \in DOMAIN m /\ j = last
        BY <1>2, <1>6, <2>2
    <2>3. CASE i = last /\ j \in DOMAIN m
        BY <1>2, <1>6, <2>3
    <2> QED BY <1>3, <1>7, <2>1, <2>2, <2>3
<1>8. /\ left \subseteq DOMAIN setup.arbitrary /\ MadeOf(m) \subseteq DOMAIN setup.arbitrary
      /\ rest \subseteq DOMAIN setup.arbitrary /\ MadeOf(l) \subseteq DOMAIN setup.arbitrary
    BY <1>2, <1>u DEF UnitsFollow
<1>9. Gone(l, rest) = Gone(m, left)
    BY <1>2, <1>u DEF Gone
<1>10. UnitsFollow(l, count, rest)
    BY <1>1, <1>4, <1>5, <1>7, <1>8, Zenon DEF UnitsFollow
<1> QED BY <1>9, <1>10 DEF l
-------------------------------------------------------------------------------
(* Making frames.                                                              *)

LEMMA SetupFacts ==
    ASSUME setup \in Setups
    PROVE  /\ setup.latency \in Nat /\ setup.padding \in Nat
           /\ setup.trivial => setup.padding = 0
           /\ DOMAIN setup.arbitrary \subseteq Nat
<1>1. /\ setup.latency \in Nat /\ setup.padding \in Nat
      /\ setup.trivial => setup.padding = 0
      /\ \A t \in DOMAIN setup.arbitrary : t \in Nat
    BY SetupsAssumption
<1> QED BY <1>1

(* A frame that is still to be encoded finds its block with the manager.       *)
Supplied(e, g) == setup.covered /\ e.encoded < g + setup.padding => e.block = e.encoded

(* The caller passed it.                                                       *)
Passed(e, g) == setup.covered /\ e.encoded < g + setup.padding =>
    e.metadata # None \/ e.block = e.encoded \/ e.encoded \in Range(e.temp)

(* The call w while it makes a frame, p frames having been output.             *)
Making(w, g, p) ==
    /\ IsCall(w) /\ Ok(w) /\ p \in Nat /\ p <= w.enc.encoded
    /\ FramesAccounted(w.enc, g) /\ BlocksFollow(w.enc, p)

LEMMA WithBlocksMakes ==
    ASSUME setup \in Setups, NEW w, NEW g, NEW p, Making(w, g, p), Passed(w.enc, g),
           NEW v, v = WithBlocks(w)
    PROVE  /\ Making(v, g, p) /\ Supplied(v.enc, g)
           /\ v.enc.finalizer = w.enc.finalizer /\ v.enc.popped = w.enc.popped
<1> DEFINE e == w.enc
           temp == e.temp \o (IF e.metadata = None THEN <<>> ELSE <<e.metadata>>)
           block == IF temp = <<>> THEN e.block ELSE Last(temp)
<1>0. IsCall(w) /\ IsEnc(e) /\ DOMAIN e = EncFields
    BY DEF Making, IsCall, IsEnc
<1>1. v = [w EXCEPT !.enc.temp = temp, !.enc.metadata = None, !.enc.block = block]
    BY DEF WithBlocks
<1>2. IsCall(v) /\ Ok(v)
    BY <1>0, WithBlocksAdvances DEF Advances, Making, Ok
<1> HIDE DEF temp, block
<1>3. v.enc = [e EXCEPT !.temp = temp, !.metadata = None, !.block = block]
    BY <1>1 DEF Making, IsCall
<1>4. /\ v.enc.temp = temp /\ v.enc.metadata = None /\ v.enc.block = block
      /\ v.enc.next = e.next /\ v.enc.encoded = e.encoded /\ v.enc.popped = e.popped
      /\ v.enc.padding = e.padding /\ v.enc.cached = e.cached /\ v.enc.state = e.state
      /\ v.enc.finalizeCalled = e.finalizeCalled /\ v.enc.finalizer = e.finalizer
    BY <1>0, <1>3 DEF EncFields
<1>5. FramesAccounted(v.enc, g)
    <2>1. FramesAccounted(e, g)
        BY DEF Making
    <2>2. /\ v.enc.encoded = e.encoded /\ v.enc.popped = e.popped
          /\ v.enc.padding = e.padding /\ v.enc.cached = e.cached
          /\ v.enc.state = e.state /\ v.enc.finalizeCalled = e.finalizeCalled
        BY <1>4, Zenon
    <2> HIDE DEF e
    <2> QED BY <2>1, <2>2 DEF FramesAccounted
<1>6. /\ e.temp \in Seq(Nat) /\ Len(e.temp) \in Nat /\ e.encoded \in Nat /\ p \in Nat /\ p <= e.encoded
      /\ g \in Nat /\ setup.padding \in Nat /\ e.next \in Nat /\ e.block \in Nat \union {None}
      /\ None \notin Nat
    <2>1. e.temp \in Seq(Nat) /\ e.next \in Nat /\ e.block \in Nat \union {None}
        BY DEF Making, BlocksFollow
    <2>2. e.encoded \in Nat /\ p \in Nat /\ p <= e.encoded /\ g \in Nat
        BY DEF Making, FramesAccounted
    <2>3. setup.padding \in Nat /\ None \notin Nat
        BY SetupFacts DEF None
    <2> QED BY <2>1, <2>2, <2>3
<1>7. CASE ~setup.covered
    <2>1. /\ e.metadata = None /\ e.block = None /\ e.next = 0 /\ e.temp = <<>>
        BY <1>7 DEF Making, BlocksFollow
    <2>2. temp = <<>> /\ block = None
        BY <2>1 DEF temp, block
    <2>3. BlocksFollow(v.enc, p)
        BY <1>4, <1>6, <1>7, <2>1, <2>2 DEF BlocksFollow
    <2> QED BY <1>2, <1>4, <1>5, <1>6, <1>7, <2>3 DEF Making, Supplied
<1>8. CASE setup.covered
    <2>1. /\ e.next = e.encoded
          /\ \A i \in 1..Len(e.temp) : e.temp[i] = p + i - 1
          /\ p + Len(e.temp) \in {e.encoded, e.encoded + 1}
          /\ e.metadata # None => e.metadata = e.encoded /\ p + Len(e.temp) = e.encoded
          /\ e.block # None => /\ e.block <= e.encoded
                               /\ e.block = e.encoded => p + Len(e.temp) = e.encoded + 1
        BY <1>8 DEF Making, BlocksFollow
    <2>2. /\ temp \in Seq(Nat) /\ Len(temp) \in Nat
          /\ \A i \in 1..Len(temp) : temp[i] = p + i - 1
          /\ p + Len(temp) \in {e.encoded, e.encoded + 1}
          /\ e.metadata # None => p + Len(temp) = e.encoded + 1
          /\ Len(temp) >= Len(e.temp)
        <3>1. CASE e.metadata = None
            <4>1. temp = e.temp
                BY <1>6, <3>1 DEF temp
            <4> QED BY <1>6, <2>1, <3>1, <4>1
        <3>2. CASE e.metadata # None
            <4>1. temp = e.temp \o <<e.encoded>>
                BY <2>1, <3>2 DEF temp
            <4>2. /\ temp \in Seq(Nat) /\ Len(temp) = Len(e.temp) + 1
                  /\ \A i \in 1..Len(e.temp) : temp[i] = e.temp[i]
                  /\ temp[Len(e.temp) + 1] = e.encoded
                BY <1>6, <4>1
            <4>3. p + Len(e.temp) = e.encoded
                BY <2>1, <3>2
            <4>4. ASSUME NEW i \in 1..Len(temp) PROVE temp[i] = p + i - 1
                <5>1. CASE i \in 1..Len(e.temp)
                    BY <2>1, <4>2, <5>1
                <5>2. CASE i = Len(e.temp) + 1
                    BY <1>6, <4>2, <4>3, <5>2
                <5>3. i \in 1..(Len(e.temp) + 1)
                    BY <4>2
                <5>4. i \in 1..Len(e.temp) \/ i = Len(e.temp) + 1
                    BY <1>6, <5>3
                <5> QED BY <5>1, <5>2, <5>4, Zenon
            <4>5. p + Len(temp) = e.encoded + 1 /\ Len(temp) \in Nat /\ Len(temp) >= Len(e.temp)
                <5> DEFINE l == Len(e.temp)
                <5> HIDE DEF l
                <5>1. l \in Nat /\ p \in Nat /\ Len(temp) = l + 1 /\ e.encoded = p + l
                    BY <1>6, <4>2, <4>3 DEF l
                <5>2. p + (l + 1) = (p + l) + 1 /\ l + 1 \in Nat /\ l + 1 >= l
                    BY <5>1
                <5> QED BY <5>1, <5>2, Zenon DEF l
            <4> QED BY <4>2, <4>4, <4>5
        <3> QED BY <3>1, <3>2
    <2>3. /\ block \in Nat \union {None}
          /\ block # None => block <= e.encoded
          /\ block # None /\ block = e.encoded => p + Len(temp) = e.encoded + 1
          /\ p + Len(temp) = e.encoded + 1 => block = e.encoded
        <3>1. CASE temp = <<>>
            <4>1. Len(temp) = 0 /\ Len(e.temp) = 0 /\ p = e.encoded
                BY <1>6, <2>2, <3>1
            <4>2. block = e.block
                BY <3>1 DEF block
            <4> QED BY <1>6, <2>1, <4>1, <4>2
        <3>2. CASE temp # <<>>
            <4>1. Len(temp) \in 1..Len(temp)
                BY <2>2, <3>2
            <4>2. block = p + Len(temp) - 1
                BY <2>2, <3>2, <4>1 DEF block, Last
            <4>3. block \in Nat /\ block # None
                BY <1>6, <2>2, <4>1, <4>2
            <4>4. EndsAt(p, Len(temp), e.encoded)
                BY <1>6, <2>2, EndsThere
            <4>5. (block = e.encoded <=> p + Len(temp) = e.encoded + 1) /\ block <= e.encoded
                BY <4>2, <4>4, Zenon DEF EndsAt
            <4> QED BY <4>3, <4>5
        <3> QED BY <3>1, <3>2
    <2>4. BlocksFollow(v.enc, p)
        BY <1>4, <1>6, <1>8, <2>1, <2>2, <2>3 DEF BlocksFollow
    <2>5. ASSUME e.encoded < g + setup.padding
          PROVE  block = e.encoded
        <3>1. CASE e.metadata # None
            BY <2>2, <2>3, <3>1
        <3>2. CASE e.block = e.encoded
            <4>1. p + Len(e.temp) = e.encoded + 1
                BY <1>6, <2>1, <3>2
            <4> QED BY <1>6, <2>2, <2>3, <4>1
        <3>3. CASE e.encoded \in Range(e.temp)
            <4>1. PICK i \in DOMAIN e.temp : e.temp[i] = e.encoded
                BY <3>3 DEF Range
            <4> DOMAIN e.temp = 1..Len(e.temp)
                BY <1>6
            <4>2. i \in 1..Len(e.temp) /\ e.encoded = p + i - 1
                BY <2>1, <4>1, Zenon
            <4>3. EndsAt(p, Len(e.temp), e.encoded)
                BY <1>6, <2>1, EndsThere
            <4>4. p + Len(e.temp) = e.encoded + 1
                BY <4>2, <4>3, Zenon DEF EndsAt
            <4>5. p + Len(temp) = e.encoded + 1
                BY <2>2, <4>3, <4>4 DEF EndsAt
            <4> QED BY <2>3, <4>5
        <3> QED BY <1>8, <2>5, <3>1, <3>2, <3>3 DEF Passed
    <2>6. Supplied(v.enc, g)
        BY <1>4, <2>5 DEF Supplied
    <2> QED BY <1>2, <1>4, <1>5, <1>6, <2>4, <2>6 DEF Making
<1> QED BY <1>7, <1>8

(* Encoding a frame, which has its block and is not refused.                   *)
LEMMA EncodeFrameMakes ==
    ASSUME setup \in Setups, NEW w, NEW g, NEW p, IsCall(w), Ok(w), w.enc.encoded \in Nat,
           p \in Nat, p <= w.enc.encoded, BlocksFollow(w.enc, p), Supplied(w.enc, g),
           w.enc.encoded < g + setup.padding,
           NEW v, v = EncodeFrame(w)
    PROVE  /\ Ok(v) /\ BlocksFollow(v.enc, p)
           /\ v.enc = [w.enc EXCEPT !.encoded = w.enc.encoded + 1, !.block = None,
                                    !.next = v.enc.next]
<1> DEFINE e == w.enc
           next == IF e.block = None THEN e.next ELSE e.block + 1
           encoded == e.encoded + 1
           fed == [w EXCEPT !.enc = [e EXCEPT !.encoded = encoded, !.block = None,
                                              !.next = next]]
<1>0. DOMAIN w = {"enc", "seqs", "made", "failed"} /\ DOMAIN e = EncFields
    BY DEF IsCall, IsEnc
<1>1. e.block \in Nat \union {None} /\ e.next \in Nat /\ e.temp \in Seq(Nat) /\ None \notin Nat
    BY DEF BlocksFollow, None
<1>2. setup.covered => /\ e.block = e.encoded /\ e.block # None /\ e.next = e.encoded
                       /\ p + Len(e.temp) = e.encoded + 1
    BY <1>1 DEF Supplied, BlocksFollow
<1>3. ~setup.covered => e.block = None /\ e.next = 0 /\ e.temp = <<>> /\ e.metadata = None
    BY DEF BlocksFollow
<1>4. setup.covered => e.block \in Range(e.temp)
    <2> SUFFICES ASSUME setup.covered PROVE e.encoded \in Range(e.temp)
        BY <1>2
    <2>1. Len(e.temp) \in Nat /\ DOMAIN e.temp = 1..Len(e.temp)
        BY <1>1
    <2>2. Len(e.temp) \in DOMAIN e.temp
        BY <1>2, <2>1
    <2>3. e.temp[Len(e.temp)] = p + Len(e.temp) - 1
        BY <2>1, <2>2 DEF BlocksFollow
    <2>4. e.temp[Len(e.temp)] = e.encoded
        BY <1>2, <2>1, <2>3
    <2> QED BY <2>2, <2>4 DEF Range
<1>5. EncodeFrame(w) = fed
    <2>1. ~(e.block # None /\ e.block \notin Range(e.temp))
        BY <1>3, <1>4
    <2>2. e.block \in {None, e.next} /\ e.block \in {None, e.encoded}
        BY <1>2, <1>3
    <2>3. EncodeFrame(w) = [w EXCEPT !.enc = Updated(@)]
        BY <2>1, <2>2 DEF EncodeFrame
    <2> QED BY <2>3 DEF Updated
<1> HIDE DEF next, encoded
<1>6. v.enc = [e EXCEPT !.encoded = encoded, !.block = None, !.next = next] /\ v.failed = w.failed
    BY <1>0, <1>5
<1>7. /\ v.enc.encoded = encoded /\ v.enc.block = None /\ v.enc.next = next
      /\ v.enc.temp = e.temp /\ v.enc.metadata = e.metadata
    BY <1>0, <1>6 DEF EncFields
<1>8. encoded \in Nat /\ next \in Nat /\ (setup.covered => next = encoded)
      /\ (~setup.covered => next = 0)
    BY <1>1, <1>2, <1>3 DEF next, encoded
<1>9. BlocksFollow(v.enc, p)
    <2>1. CASE setup.covered
        <3>1. e.metadata = None
            BY <1>2, <2>1 DEF BlocksFollow
        <3>2. /\ p + Len(e.temp) = encoded
              /\ \A i \in 1..Len(e.temp) : e.temp[i] = p + i - 1
            BY <1>2, <2>1 DEF BlocksFollow, encoded
        <3> QED BY <1>1, <1>7, <1>8, <2>1, <3>1, <3>2 DEF BlocksFollow
    <2>2. CASE ~setup.covered
        BY <1>3, <1>7, <1>8, <2>2 DEF BlocksFollow
    <2> QED BY <2>1, <2>2
<1> QED BY <1>6, <1>7, <1>9 DEF Ok, encoded

(* AddSamples encodes what is cached.                                          *)
LEMMA AddSamplesMakes ==
    ASSUME setup \in Setups, NEW w, NEW g, NEW p, Making(w, g, p), Supplied(w.enc, g),
           NEW v, v = AddSamples(w)
    PROVE  /\ Making(v, g, p) /\ ~v.enc.cached
           /\ v.enc.state = "flushing" => Supplied(v.enc, g)
           /\ v.enc.finalizer = w.enc.finalizer /\ v.enc.popped = w.enc.popped
<1> DEFINE e == w.enc
<1>0. /\ DOMAIN w = {"enc", "seqs", "made", "failed"} /\ DOMAIN e = EncFields
      /\ e.encoded \in Nat /\ e.padding \in 0..setup.padding /\ e.cached \in BOOLEAN
      /\ g \in Nat /\ setup.padding \in Nat /\ e.popped \in Nat /\ e.popped <= e.encoded
    BY SetupFacts DEF Making, IsCall, IsEnc, FramesAccounted
<1>1. CASE ~e.cached
    <2>1. v = w
        BY <1>1 DEF AddSamples
    <2> QED BY <1>1, <2>1
<1>2. CASE e.cached
    <2>1. PICK added : added = EncodeFrame(w)
        OBVIOUS
    <2>2. e.state = "taking" /\ IsCall(w) /\ Ok(w)
        BY <1>2 DEF Making, FramesAccounted
    <2>3. e.encoded + e.padding + 1 = g + setup.padding /\ e.encoded < g + setup.padding
        BY <1>0, <1>2 DEF Making, FramesAccounted
    <2>4. /\ Ok(added) /\ BlocksFollow(added.enc, p)
          /\ added.enc = [e EXCEPT !.encoded = e.encoded + 1, !.block = None,
                                  !.next = added.enc.next]
        <3>1. p \in Nat /\ p <= e.encoded /\ BlocksFollow(e, p)
            BY DEF Making
        <3> QED BY <1>0, <2>1, <2>2, <2>3, <3>1, EncodeFrameMakes
    <2>5. IsCall(added)
        <3>1. e.encoders
            BY <2>2 DEF IsCall, IsEnc
        <3> QED BY <2>1, <2>2, <3>1, EncodeFrameAdvances DEF Advances
    <2>6. v = [added EXCEPT !.enc.cached = FALSE]
        BY <1>2, <2>1, <2>2, <2>4 DEF AddSamples
    <2>7. PICK next : added.enc = [e EXCEPT !.encoded = e.encoded + 1, !.block = None,
                                           !.next = next]
        BY <2>4
    <2>8. v.enc = [added.enc EXCEPT !.cached = FALSE] /\ v.failed = added.failed
        BY <2>5, <2>6 DEF IsCall
    <2>9. /\ v.enc.encoded = e.encoded + 1 /\ v.enc.padding = e.padding
          /\ v.enc.cached = FALSE /\ v.enc.popped = e.popped /\ v.enc.state = e.state
          /\ v.enc.finalizer = e.finalizer /\ v.enc.finalizeCalled = e.finalizeCalled
        BY <1>0, <2>7, <2>8 DEF EncFields
    <2>10. /\ v.enc.block = added.enc.block /\ v.enc.next = added.enc.next
           /\ v.enc.temp = added.enc.temp /\ v.enc.metadata = added.enc.metadata
           /\ v.enc.encoded = added.enc.encoded
        BY <2>5, <2>8 DEF IsCall, IsEnc, EncFields
    <2>11. BlocksFollow(v.enc, p)
        BY <2>4, <2>10, ZenonT(40) DEF BlocksFollow
    <2>12. IsCall(v)
        BY AddSamplesAdvances, <2>2 DEF Advances
    <2>13. FramesAccounted(v.enc, g)
        <3>1. /\ e.encoded + 1 \in Nat /\ e.popped <= e.encoded + 1
              /\ (e.encoded + 1) + e.padding + 0 = g + setup.padding
            BY <1>0, <2>3
        <3>2. v.enc.state = "taking"
            BY <2>2, <2>9
        <3> QED BY <1>0, <2>9, <3>1, <3>2 DEF FramesAccounted
    <2>14. Ok(v) /\ p \in Nat /\ p <= v.enc.encoded
        BY <1>0, <2>4, <2>8, <2>9 DEF Making, Ok
    <2>15. v.enc.state # "flushing"
        BY <2>2, <2>9
    <2> QED BY <2>9, <2>11, <2>12, <2>13, <2>14, <2>15 DEF Making
<1> QED BY <1>0, <1>1, <1>2

LEMMA FinalizeGeneratorMakes ==
    ASSUME NEW w, NEW g, NEW p, Making(w, g, p), ~w.enc.cached,
           w.enc.state = "flushing" => Supplied(w.enc, g),
           NEW v, v = FinalizeGenerator(w)
    PROVE  /\ Making(v, g, p) /\ ~v.enc.cached
           /\ v.enc.state = "flushing" => Supplied(v.enc, g)
           /\ v.enc.finalizer = w.enc.finalizer /\ v.enc.popped = w.enc.popped
<1> DEFINE e == w.enc
<1>0. DOMAIN w = {"enc", "seqs", "made", "failed"} /\ DOMAIN e = EncFields
    BY DEF Making, IsCall, IsEnc
<1>1. CASE ~(e.finalizeCalled /\ e.state = "taking")
    <2>1. v = w
        BY <1>1 DEF FinalizeGenerator
    <2> QED BY <2>1
<1>2. CASE e.finalizeCalled /\ e.state = "taking"
    <2>1. v = [w EXCEPT !.enc.state = "finalizeCalled"]
        BY <1>2 DEF FinalizeGenerator
    <2>2. /\ v.enc = [e EXCEPT !.state = "finalizeCalled"] /\ v.failed = w.failed
        BY <1>0, <2>1
    <2>3. /\ v.enc.state = "finalizeCalled"
          /\ \A x \in EncFields \ {"state"} : v.enc[x] = e[x]
        BY <1>0, <2>2 DEF EncFields
    <2>4. /\ v.enc.encoded = e.encoded /\ v.enc.padding = e.padding
          /\ v.enc.block = e.block /\ v.enc.next = e.next
          /\ v.enc.temp = e.temp /\ v.enc.metadata = e.metadata
          /\ v.enc.popped = e.popped /\ v.enc.cached = e.cached
          /\ v.enc.finalizer = e.finalizer /\ v.enc.finalizeCalled = e.finalizeCalled
        BY <2>3 DEF EncFields
    <2>5. IsCall(v)
        BY FinalizeGeneratorAdvances DEF Making, Advances
    <2>6. FramesAccounted(v.enc, g)
        <3>1. FramesAccounted(e, g)
            BY DEF Making
        <3>2. v.enc.state \in {"taking", "finalizeCalled", "flushing"}
            BY <2>3
        <3>3. ~v.enc.cached /\ v.enc.finalizeCalled
            BY <1>2, <2>4
        <3>4. /\ v.enc.encoded + v.enc.padding + (IF v.enc.cached THEN 1 ELSE 0)
                    = g + setup.padding
            BY <2>4, <3>1, Zenon DEF FramesAccounted
        <3> QED BY <2>4, <3>1, <3>2, <3>3, <3>4, Zenon DEF FramesAccounted
    <2>7. BlocksFollow(v.enc, p)
        BY <2>4, Zenon DEF Making, BlocksFollow
    <2>8. Ok(v) /\ p \in Nat /\ p <= v.enc.encoded
        BY <2>2, <2>4 DEF Making, Ok
    <2> QED BY <2>3, <2>4, <2>5, <2>6, <2>7, <2>8 DEF Making
<1> QED BY <1>1, <1>2

(* OutputFrames encodes padding, if any is left, and pops a frame.             *)
LEMMA OutputFramesMakes ==
    ASSUME setup \in Setups, NEW w, NEW g, NEW p, Making(w, g, p), ~w.enc.cached,
           w.enc.state = "flushing" => Supplied(w.enc, g), w.enc.popped = p,
           NEW v, v = OutputFrames(w)
    PROVE  /\ IsCall(v) /\ Ok(v) /\ FramesAccounted(v.enc, g) /\ BlocksFollow(v.enc, p)
           /\ v.enc.popped \in {p, p + 1} /\ v.enc.finalizer = w.enc.finalizer
<1> DEFINE flush == w.enc.state = "flushing" /\ w.enc.padding > 0
           padding == w.enc.padding - 1
           padded == [w EXCEPT !.enc.padding = padding]
           encoded == IF flush THEN EncodeFrame(padded) ELSE w
           state == IF w.enc.state = "taking" THEN "taking" ELSE "flushing"
           e == encoded.enc
           ended == state = "flushing" /\ e.padding = 0
           held == IF ended THEN 0 ELSE setup.latency
           popped == IF IsAvailable(e, held) THEN e.popped + 1 ELSE e.popped
           encoders == e.encoders /\ ~(ended /\ popped = e.encoded)
           done == [encoded EXCEPT !.enc = [e EXCEPT !.state = state, !.popped = popped,
                                            !.encoders = encoders]]
<1>0. /\ DOMAIN w = {"enc", "seqs", "made", "failed"} /\ DOMAIN w.enc = EncFields
      /\ w.enc.encoded \in Nat /\ w.enc.padding \in 0..setup.padding /\ g \in Nat
      /\ setup.padding \in Nat /\ setup.latency \in Nat
      /\ w.enc.popped \in Nat /\ w.enc.popped <= w.enc.encoded /\ p \in Nat
      /\ w.enc.state \in {"taking", "finalizeCalled", "flushing"}
      /\ w.enc.state = "taking" \/ w.enc.finalizeCalled \/ setup.trivial
    BY SetupFacts DEF Making, IsCall, IsEnc, FramesAccounted
<1>1. w.enc.encoded + w.enc.padding + 0 = g + setup.padding
    BY DEF Making, FramesAccounted
<1>2. /\ IsCall(encoded) /\ Ok(encoded) /\ BlocksFollow(e, p)
      /\ e.encoded \in Nat /\ e.popped = p /\ p <= e.encoded /\ e.padding \in 0..setup.padding
      /\ e.encoded + e.padding = g + setup.padding /\ ~e.cached /\ e.cached \in BOOLEAN
      /\ e.finalizer = w.enc.finalizer /\ e.finalizeCalled = w.enc.finalizeCalled
    <2>1. CASE flush
        <3>1. /\ padding \in 0..setup.padding /\ padding + 1 = w.enc.padding
              /\ w.enc.encoded < g + setup.padding
            BY <1>0, <1>1, <2>1
        <3> HIDE DEF padding
        <3>2. /\ padded.enc = [w.enc EXCEPT !.padding = padding] /\ padded.failed = w.failed
              /\ DOMAIN padded = DOMAIN w
            BY <1>0, <3>1
        <3> HIDE DEF padded
        <3>3. /\ DOMAIN padded.enc = EncFields /\ padded.enc.padding = padding
              /\ \A x \in EncFields \ {"padding"} : padded.enc[x] = w.enc[x]
            BY <1>0, <3>2
        <3>4. /\ padded.enc.encoded = w.enc.encoded /\ padded.enc.cached = w.enc.cached
              /\ padded.enc.block = w.enc.block /\ padded.enc.next = w.enc.next
              /\ padded.enc.temp = w.enc.temp /\ padded.enc.metadata = w.enc.metadata
              /\ padded.enc.popped = w.enc.popped /\ padded.enc.state = w.enc.state
              /\ padded.enc.finalizer = w.enc.finalizer
              /\ padded.enc.finalizeCalled = w.enc.finalizeCalled
              /\ padded.enc.mixFinalized = w.enc.mixFinalized
              /\ padded.enc.encoders = w.enc.encoders
              /\ padded.enc.sequencersFinalized = w.enc.sequencersFinalized
            BY <3>3 DEF EncFields
        <3>5. w.enc.encoders /\ padded.enc.encoders
            BY <2>1, <3>4 DEF Making, IsCall, IsEnc
        <3>6. IsCall(padded) /\ Ok(padded)
            <4>1. {padded.enc.finalizeCalled, padded.enc.mixFinalized,
                   padded.enc.sequencersFinalized, padded.enc.encoders} \subseteq BOOLEAN
                BY <3>4, Zenon DEF Making, IsCall, IsEnc
            <4>2. /\ padded.enc.encoded \in Int /\ padded.enc.popped \in Int
                  /\ padded.enc.padding \in Nat
                  /\ padded.enc.popped <= padded.enc.encoded
                BY <1>0, <3>1, <3>3, <3>4
            <4>3. IsEnc(padded.enc)
                BY <3>3, <3>5, <4>1, <4>2, Zenon DEF IsEnc
            <4> QED BY <1>0, <3>2, <4>3 DEF Making, IsCall, Ok
        <3>7. BlocksFollow(padded.enc, p) /\ Supplied(padded.enc, g)
            BY <2>1, <3>4 DEF Making, BlocksFollow, Supplied
        <3>8. encoded = EncodeFrame(padded)
            BY <2>1
        <3>9. /\ Ok(encoded) /\ BlocksFollow(e, p)
              /\ e = [padded.enc EXCEPT !.encoded = padded.enc.encoded + 1, !.block = None,
                                        !.next = e.next]
            <4>1. /\ padded.enc.encoded \in Nat /\ p <= padded.enc.encoded
                  /\ padded.enc.encoded < g + setup.padding
                BY <1>0, <3>1, <3>4 DEF Making
            <4>2. w.enc.popped = p /\ p \in Nat
                BY <1>0
            <4> HIDE DEF encoded, padded
            <4> QED BY <3>6, <3>7, <3>8, <4>1, <4>2, EncodeFrameMakes, Zenon
        <3>10. IsCall(encoded)
            BY <3>5, <3>6, <3>8, EncodeFrameAdvances DEF Advances
        <3>11. PICK next : e = [padded.enc EXCEPT !.encoded = padded.enc.encoded + 1,
                                                  !.block = None, !.next = next]
            BY <3>9
        <3> HIDE DEF encoded
        <3>12. /\ e.encoded = w.enc.encoded + 1 /\ e.padding = padding /\ e.cached = w.enc.cached
               /\ e.popped = w.enc.popped /\ e.finalizer = w.enc.finalizer
               /\ e.finalizeCalled = w.enc.finalizeCalled
            BY <3>3, <3>4, <3>11 DEF EncFields
        <3>13. w.enc.cached \in BOOLEAN
            BY DEF Making, FramesAccounted
        <3>14. e.encoded \in Nat /\ p <= e.encoded /\ e.encoded + e.padding = g + setup.padding
            BY <1>0, <1>1, <3>1, <3>12
        <3> QED BY <1>0, <3>1, <3>9, <3>10, <3>12, <3>13, <3>14
    <2>2. CASE ~flush
        <3>1. encoded = w
            BY <2>2
        <3>2. /\ w.enc.encoded + w.enc.padding = g + setup.padding
              /\ w.enc.cached \in BOOLEAN
            BY <1>0, <1>1 DEF Making, FramesAccounted
        <3> QED BY <1>0, <3>1, <3>2 DEF Making
    <2> QED BY <2>1, <2>2
<1>3. v = done
    BY <1>2 DEF OutputFrames
<1>4. IsCall(v)
    BY OutputFramesAdvances DEF Making, Advances
<1> HIDE DEF encoded
<1>5. popped \in {p, p + 1} /\ popped \in Nat /\ popped <= e.encoded
    BY <1>0, <1>2 DEF IsAvailable
<1>6. state \in {"taking", "flushing"} /\ (state = "taking" <=> w.enc.state = "taking")
    OBVIOUS
<1> HIDE DEF popped, state, encoders
<1>7. v.enc = [e EXCEPT !.state = state, !.popped = popped, !.encoders = encoders]
      /\ v.failed = encoded.failed
    BY <1>2, <1>3 DEF IsCall
<1>8. /\ v.enc.encoded = e.encoded /\ v.enc.padding = e.padding /\ v.enc.cached = e.cached
      /\ v.enc.popped = popped /\ v.enc.state = state /\ v.enc.finalizer = e.finalizer
      /\ v.enc.finalizeCalled = e.finalizeCalled
      /\ v.enc.block = e.block /\ v.enc.next = e.next
      /\ v.enc.temp = e.temp /\ v.enc.metadata = e.metadata
    BY <1>2, <1>7 DEF IsCall, IsEnc, EncFields
<1>9. FramesAccounted(v.enc, g)
    <2>1. v.enc.encoded + v.enc.padding + (IF v.enc.cached THEN 1 ELSE 0) = g + setup.padding
        BY <1>0, <1>2, <1>8
    <2>2. v.enc.state = "taking" \/ v.enc.finalizeCalled \/ setup.trivial
        BY <1>0, <1>2, <1>6, <1>8
    <2> QED BY <1>0, <1>2, <1>5, <1>6, <1>8, <2>1, <2>2 DEF FramesAccounted
<1>10. BlocksFollow(v.enc, p)
    BY <1>2, <1>8, Zenon DEF BlocksFollow
<1> QED BY <1>2, <1>4, <1>5, <1>7, <1>8, <1>9, <1>10 DEF Ok
-------------------------------------------------------------------------------
(* Failures, and what the end of a sequence leaves alone.                      *)

LEMMA MoreFailed ==
    ASSUME NEW f, NEW m, NEW left, NEW clean, FailuresExplained(f, m, left, clean), NEW what,
           \/ what = "sequencer" /\ ~clean
           \/ what \in {"loudness", "finalizer"} /\ setup.loud
    PROVE  FailuresExplained(f \union {what}, m, left, clean)
BY DEF FailuresExplained

(* An arbitrary OBU that is gone explains that a unit was refused.             *)
LEMMA ViewFailed ==
    ASSUME NEW f, NEW m, NEW left, NEW clean, FailuresExplained(f, m, left, clean),
           NEW rest \in SUBSET left, NEW t \in Gone(m, rest), ~setup.arbitrary[t]
    PROVE  FailuresExplained(f \union {"view"}, m, rest, clean)
<1>1. Gone(m, left) \subseteq Gone(m, rest)
    BY DEF Gone
<1> QED BY <1>1 DEF FailuresExplained

(* OBUs that are lost with a call that failed.                                 *)
LEMMA LostWithFailure ==
    ASSUME NEW f, NEW m, NEW left, NEW clean, FailuresExplained(f, m, left, clean),
           NEW rest \in SUBSET left, f # {}
    PROVE  FailuresExplained(f, m, rest, clean)
<1>1. Gone(m, left) \subseteq Gone(m, rest)
    BY DEF Gone
<1> QED BY <1>1 DEF FailuresExplained

SameWork(e, d) ==
    \A x \in EncFields \ {"finalizer", "mixFinalized", "sequencersFinalized"} : d[x] = e[x]

LEMMA SameWorkKeeps ==
    ASSUME NEW e, NEW d, SameWork(e, d)
    PROVE  /\ d.popped = e.popped /\ d.arbitrary = e.arbitrary
           /\ GeneratingTemporalUnits(e) <=> GeneratingTemporalUnits(d)
           /\ \A g : FramesAccounted(e, g) => FramesAccounted(d, g)
           /\ \A p : BlocksFollow(e, p) => BlocksFollow(d, p)
<1>1. /\ d.encoded = e.encoded /\ d.padding = e.padding /\ d.cached = e.cached
      /\ d.block = e.block /\ d.next = e.next /\ d.temp = e.temp /\ d.metadata = e.metadata
      /\ d.popped = e.popped /\ d.state = e.state /\ d.arbitrary = e.arbitrary
      /\ d.finalizeCalled = e.finalizeCalled /\ d.encoders = e.encoders
    BY DEF SameWork, EncFields
<1>2. GeneratingTemporalUnits(e) <=> GeneratingTemporalUnits(d)
    BY <1>1, Zenon DEF GeneratingTemporalUnits
<1>3. ASSUME NEW g, FramesAccounted(e, g) PROVE FramesAccounted(d, g)
    BY <1>1, <1>3, Zenon DEF FramesAccounted
<1>4. ASSUME NEW p, BlocksFollow(e, p) PROVE BlocksFollow(d, p)
    BY <1>1, <1>4, Zenon DEF BlocksFollow
<1> QED BY <1>1, <1>2, <1>3, <1>4

(* What the functions that end a sequence do.                                  *)
Closes(w, v, clean) ==
    /\ SameWork(w.enc, v.enc) /\ FinalizedLast(v.enc) /\ v.made = w.made
    /\ NoneLost(v, clean)
    /\ \/ v.failed = "none"
       \/ v.failed = "sequencer" /\ ~clean
       \/ v.failed \in {"loudness", "finalizer"} /\ setup.loud

LEMMA ClosesTransitively ==
    ASSUME NEW w, NEW v, NEW x, NEW clean, Closes(w, v, clean), Closes(v, x, clean)
    PROVE  Closes(w, x, clean)
BY DEF Closes, SameWork

LEMMA FinalizeDescriptorsCloses ==
    ASSUME NEW w, Sound(w), Ok(w), FinalizedLast(w.enc), ~GeneratingTemporalUnits(w.enc),
           NEW clean, NoneLost(w, clean), NEW v, v = FinalizeDescriptors(w)
    PROVE  Closes(w, v, clean) /\ v.seqs = w.seqs
<1> DEFINE loud == [w EXCEPT !.enc.finalizer = "finalizeCalled"]
           flushed == [w EXCEPT !.enc.finalizer = "flushed", !.enc.mixFinalized = TRUE]
<1>0. /\ DOMAIN w = {"enc", "seqs", "made", "failed"} /\ DOMAIN w.enc = EncFields
      /\ w.enc.mixFinalized \in BOOLEAN /\ w.failed = "none"
    BY DEF Sound, IsCall, IsEnc, Ok
<1>1. v.seqs = w.seqs /\ v.enc.sequencersFinalized = w.enc.sequencersFinalized
    BY FinalizeDescriptorsSound
<1>2. NoneLost(v, clean)
    BY <1>1, Zenon DEF NoneLost
<1>3. CASE w.enc.mixFinalized
    <2>1. v = w
        BY <1>3 DEF FinalizeDescriptors
    <2> QED BY <1>0, <2>1 DEF Closes, SameWork
<1>4. CASE ~w.enc.mixFinalized /\ w.enc.finalizer # "accepting"
    <2>1. v = [w EXCEPT !.failed = "finalizer"]
        BY <1>4 DEF FinalizeDescriptors, Fail
    <2>2. v.enc = w.enc /\ v.made = w.made /\ v.failed = "finalizer"
        BY <1>0, <2>1
    <2>3. setup.loud
        BY <1>4 DEF FinalizedLast
    <2> QED BY <1>1, <1>2, <2>2, <2>3 DEF Closes, SameWork
<1>5. CASE ~w.enc.mixFinalized /\ w.enc.finalizer = "accepting" /\ setup.loud
    <2>1. v = Fail(loud, "loudness")
        BY <1>5 DEF FinalizeDescriptors
    <2>2. /\ v.enc = [w.enc EXCEPT !.finalizer = "finalizeCalled"]
          /\ v.made = w.made /\ v.failed = "loudness"
        BY <1>0, <2>1 DEF Fail
    <2>3. /\ v.enc.finalizer = "finalizeCalled" /\ v.enc.mixFinalized = w.enc.mixFinalized
          /\ SameWork(w.enc, v.enc)
        BY <1>0, <2>2 DEF SameWork, EncFields
    <2>4. FinalizedLast(v.enc)
        BY <1>5, <2>3, SameWorkKeeps DEF FinalizedLast
    <2> QED BY <1>1, <1>2, <1>5, <2>2, <2>3, <2>4 DEF Closes
<1>6. CASE ~w.enc.mixFinalized /\ w.enc.finalizer = "accepting" /\ ~setup.loud
    <2>1. v = flushed
        BY <1>6 DEF FinalizeDescriptors
    <2>2. /\ v.enc = [w.enc EXCEPT !.finalizer = "flushed", !.mixFinalized = TRUE]
          /\ v.made = w.made /\ v.failed = "none"
        BY <1>0, <2>1
    <2>3. /\ v.enc.finalizer = "flushed" /\ v.enc.mixFinalized = TRUE
          /\ SameWork(w.enc, v.enc)
        BY <1>0, <2>2 DEF SameWork, EncFields
    <2>4. FinalizedLast(v.enc)
        BY <2>3, SameWorkKeeps DEF FinalizedLast
    <2> QED BY <1>1, <1>2, <2>2, <2>3, <2>4 DEF Closes
<1> QED BY <1>3, <1>4, <1>5, <1>6

LEMMA NoneFails ==
    ASSUME NEW q, AllOpen(q), NEW bad, bad = None
    PROVE  Failing(q, "open", bad) = {}
<1>1. \A i \in 1..N : i # bad
    BY NIsNat DEF None
<1> QED BY <1>1 DEF Failing, AllOpen

LEMMA FinalizeObuSequencersCloses ==
    ASSUME NEW w, Sound(w), Ok(w), FinalizedLast(w.enc), ~GeneratingTemporalUnits(w.enc),
           NEW clean, NoneLost(w, clean), NEW bad, clean => bad = None,
           NEW v, v = FinalizeObuSequencers(w, bad)
    PROVE  Closes(w, v, clean)
<1> DEFINE f == Failing(w.seqs, "open", bad)
           r == UpTo(w.seqs, Closed(w.seqs), f)
           closed == [w EXCEPT !.seqs = r]
<1>0. /\ DOMAIN w = {"enc", "seqs", "made", "failed"} /\ DOMAIN w.enc = EncFields
      /\ w.failed = "none"
    BY DEF Sound, IsCall, IsEnc, Ok
<1>1. v = IF w.enc.sequencersFinalized THEN w
          ELSE IF f # {} THEN Fail(closed, "sequencer")
          ELSE [closed EXCEPT !.enc.sequencersFinalized = TRUE]
    BY DEF FinalizeObuSequencers
<1>2. clean => w.enc.sequencersFinalized \/ f = {}
    BY NoneFails DEF NoneLost
<1> HIDE DEF f, r
<1>3. CASE w.enc.sequencersFinalized
    <2>1. v = w
        BY <1>1, <1>3
    <2> QED BY <1>0, <2>1 DEF Closes, SameWork
<1>4. CASE ~w.enc.sequencersFinalized /\ f # {}
    <2>1. v = [closed EXCEPT !.failed = "sequencer"] /\ ~clean
        BY <1>1, <1>2, <1>4 DEF Fail
    <2>2. v.enc = w.enc /\ v.made = w.made /\ v.failed = "sequencer"
        BY <1>0, <2>1
    <2> QED BY <2>1, <2>2 DEF Closes, SameWork, NoneLost
<1>5. CASE ~w.enc.sequencersFinalized /\ f = {}
    <2>1. v = [closed EXCEPT !.enc.sequencersFinalized = TRUE]
        BY <1>1, <1>5
    <2>2. /\ v.enc = [w.enc EXCEPT !.sequencersFinalized = TRUE]
          /\ v.made = w.made /\ v.failed = "none"
        BY <1>0, <2>1
    <2>3. /\ v.enc.sequencersFinalized = TRUE /\ SameWork(w.enc, v.enc)
          /\ v.enc.finalizer = w.enc.finalizer /\ v.enc.mixFinalized = w.enc.mixFinalized
        BY <1>0, <2>2 DEF SameWork, EncFields
    <2>4. FinalizedLast(v.enc)
        BY <2>3, SameWorkKeeps, Zenon DEF FinalizedLast
    <2> QED BY <2>2, <2>3, <2>4 DEF Closes, NoneLost
<1> QED BY <1>3, <1>4, <1>5

LEMMA FinalizeCloses ==
    ASSUME NEW w, Sound(w), Ok(w), FinalizedLast(w.enc), ~GeneratingTemporalUnits(w.enc),
           NEW clean, NoneLost(w, clean), NEW bad, clean => bad = None,
           NEW v, v = Finalize(w, bad)
    PROVE  Closes(w, v, clean)
<1> DEFINE described == FinalizeDescriptors(w)
<1>1. Closes(w, described, clean)
    BY FinalizeDescriptorsCloses
<1>2. Sound(described) /\ ~GeneratingTemporalUnits(described.enc)
    BY FinalizeDescriptorsSound
<1>3. v = IF Ok(described) THEN FinalizeObuSequencers(described, bad) ELSE described
    BY DEF Finalize
<1> HIDE DEF described
<1>4. CASE Ok(described)
    <2>1. Closes(described, v, clean)
        BY <1>1, <1>2, <1>3, <1>4, FinalizeObuSequencersCloses DEF Closes
    <2> QED BY <1>1, <2>1, ClosesTransitively
<1>5. CASE ~Ok(described)
    BY <1>1, <1>3, <1>5
<1> QED BY <1>4, <1>5

LEMMA ClosingKeepsWhole ==
    ASSUME NEW w, Ok(w), NEW g, NEW f, NEW clean, Whole(w, g, f, clean),
           NEW v, Closes(w, v, clean)
    PROVE  Whole(v, g, f, clean)
<1>1. FailedBy(w, f) = f
    BY DEF FailedBy, Ok
<1>2. FailuresExplained(f, w.made, w.enc.arbitrary, clean)
    BY <1>1 DEF Whole
<1>3. v.enc.popped = w.enc.popped /\ v.enc.arbitrary = w.enc.arbitrary /\ v.made = w.made
    BY SameWorkKeeps DEF Closes
<1>4. FailuresExplained(FailedBy(v, f), v.made, v.enc.arbitrary, clean)
    <2>1. CASE v.failed = "none"
        <3>1. FailedBy(v, f) = f
            BY <2>1 DEF FailedBy
        <3> QED BY <1>2, <1>3, <3>1
    <2>2. CASE v.failed # "none"
        <3>1. FailedBy(v, f) = f \union {v.failed}
            BY <2>2 DEF FailedBy
        <3>2. \/ v.failed = "sequencer" /\ ~clean
              \/ v.failed \in {"loudness", "finalizer"} /\ setup.loud
            BY <2>2 DEF Closes
        <3> QED BY <1>2, <1>3, <3>1, <3>2, MoreFailed
    <2> QED BY <2>1, <2>2
<1> QED BY <1>3, <1>4, SameWorkKeeps DEF Whole, Closes
-------------------------------------------------------------------------------
(* Pushing a unit.                                                             *)

(* u is about to be pushed: what it takes is still counted in left, n frames   *)
(* are in front of it.                                                         *)
Takes(w, u, n, left) ==
    /\ n \in Nat /\ UnitsFollow(w.made, n, left) /\ w.enc.arbitrary = left \ u.arbitrary
    /\ u.arbitrary \subseteq {u.time} /\ u.arbitrary \subseteq left
    /\ u.frame => u.time = n /\ u.blocks = IF setup.covered THEN {n} ELSE {}
    /\ ~u.frame => u.arbitrary # {} /\ u.blocks = {}

LEMMA ShrinkingLeft ==
    ASSUME NEW m, NEW n, NEW left, UnitsFollow(m, n, left), NEW rest \in SUBSET left
    PROVE  UnitsFollow(m, n, rest)
<1>1. ASSUME NEW i \in DOMAIN m PROVE m[i].arbitrary \intersect rest = {}
    BY <1>1 DEF UnitsFollow
<1>2. rest \subseteq DOMAIN setup.arbitrary
    BY DEF UnitsFollow
<1> QED BY <1>1, <1>2, Zenon DEF UnitsFollow

LEMMA PushKeeps ==
    ASSUME NEW w, Sound(w), Ok(w), NoneComplete(w.seqs), ~w.enc.sequencersFinalized,
           NEW u, NEW n, NEW left, Takes(w, u, n, left),
           NEW clean, NoneLost(w, clean), NEW bad, clean => bad = None,
           NEW f, FailuresExplained(f, w.made, left, clean),
           NEW v, v = PushTemporalUnitToObuSequencers(w, u, bad)
    PROVE  /\ v.enc = w.enc /\ NoneLost(v, clean)
           /\ UnitsFollow(v.made, n + (IF u.frame THEN 1 ELSE 0), v.enc.arbitrary)
           /\ FailuresExplained(FailedBy(v, f), v.made, v.enc.arbitrary, clean)
<1> DEFINE failing == Failing(w.seqs, "open", bad)
           r == UpTo(w.seqs, WithUnit(w.seqs, u), failing)
           pushed == [w EXCEPT !.seqs = r, !.made = Append(@, u)]
           after == n + (IF u.frame THEN 1 ELSE 0)
           rest == left \ u.arbitrary
<1>0. DOMAIN w = {"enc", "seqs", "made", "failed"} /\ w.failed = "none"
    BY DEF Sound, IsCall, Ok
<1>1. v = IF ~ViewIsValid(u) THEN Fail(w, "view")
          ELSE IF failing # {} THEN Fail(pushed, "sequencer") ELSE pushed
    BY DEF PushTemporalUnitToObuSequencers
<1>2. w.enc.arbitrary = rest /\ rest \in SUBSET left
    BY DEF Takes
<1>3. clean => AllOpen(w.seqs) /\ failing = {}
    BY NoneFails DEF NoneLost
<1>4. CASE ~ViewIsValid(u)
    <2>1. v.enc = w.enc /\ v.seqs = w.seqs /\ v.made = w.made /\ v.failed = "view"
        BY <1>0, <1>1, <1>4 DEF Fail
    <2>2. ~u.frame
        <3>1. \A b \in u.blocks : b = u.time
            BY DEF Takes
        <3> QED BY <1>4, <3>1, Zenon DEF ViewIsValid
    <2>3. PICK t \in u.arbitrary : ~setup.arbitrary[t]
        <3>1. u.blocks = {} /\ u.arbitrary # {}
            BY <2>2 DEF Takes
        <3> QED BY <1>4, <2>2, <3>1 DEF ViewIsValid
    <2>4. t \in Gone(w.made, rest)
        <3>1. t \in left /\ t \notin rest
            BY DEF Takes
        <3>2. UnitsFollow(w.made, n, left)
            BY DEF Takes
        <3>3. t \in DOMAIN setup.arbitrary
            BY <3>1, <3>2 DEF UnitsFollow
        <3>4. ASSUME NEW i \in DOMAIN w.made PROVE t \notin w.made[i].arbitrary
            <4>1. w.made[i].arbitrary \intersect left = {}
                BY <3>2, <3>4, Zenon DEF UnitsFollow
            <4> QED BY <3>1, <4>1
        <3>5. t \notin MadeOf(w.made)
            BY <3>4, Zenon DEF MadeOf
        <3> QED BY <3>1, <3>3, <3>5 DEF Gone
    <2>5. FailedBy(v, f) = f \union {"view"}
        BY <2>1 DEF FailedBy
    <2>6. FailuresExplained(FailedBy(v, f), v.made, v.enc.arbitrary, clean)
        <3> HIDE DEF rest
        <3>1. FailuresExplained(f \union {"view"}, w.made, rest, clean)
            BY <1>2, <2>3, <2>4, ViewFailed
        <3> QED BY <1>2, <2>1, <2>5, <3>1
    <2>7. after = n
        BY <2>2 DEF Takes
    <2>8. UnitsFollow(v.made, after, v.enc.arbitrary)
        BY <1>2, <2>1, <2>7, ShrinkingLeft DEF Takes
    <2> QED BY <2>1, <2>6, <2>8 DEF NoneLost
<1>5. CASE ViewIsValid(u)
    <2>1. /\ v.enc = w.enc /\ v.seqs = r /\ v.made = Append(w.made, u)
          /\ v.failed = IF failing # {} THEN "sequencer" ELSE "none"
        BY <1>0, <1>1, <1>5 DEF Fail
    <2>2. /\ UnitsFollow(Append(w.made, u), after, rest)
          /\ Gone(Append(w.made, u), rest) = Gone(w.made, left)
        <3>1. n \in Nat /\ UnitsFollow(w.made, n, left) /\ Fits(u, n, left)
            BY DEF Takes, Fits
        <3> QED BY <3>1, UnitsGrow
    <2>3. UnitsFollow(v.made, after, v.enc.arbitrary)
        BY <1>2, <2>1, <2>2
    <2>4. FailuresExplained(f, v.made, v.enc.arbitrary, clean)
        BY <1>2, <2>1, <2>2, Zenon DEF FailuresExplained
    <2>5. FailuresExplained(FailedBy(v, f), v.made, v.enc.arbitrary, clean)
        <3>1. CASE failing = {}
            <4>1. FailedBy(v, f) = f
                BY <2>1, <3>1 DEF FailedBy
            <4> QED BY <2>4, <4>1
        <3>2. CASE failing # {}
            <4>1. FailedBy(v, f) = f \union {"sequencer"} /\ ~clean
                BY <1>3, <2>1, <3>2 DEF FailedBy
            <4> QED BY <2>4, <4>1, MoreFailed
        <3> QED BY <3>1, <3>2
    <2>6. NoneLost(v, clean)
        <3> SUFFICES ASSUME clean PROVE AllOpen(r)
            BY <2>1 DEF NoneLost
        <3>1. AllOpen(w.seqs) /\ failing = {} /\ failing \in SUBSET (1..N)
            BY <1>3
        <3> HIDE DEF failing
        <3>2. Looped(w.seqs, WithUnit(w.seqs, u), failing, r)
            BY <3>1, UpToFacts
        <3>3. ASSUME NEW i \in 1..N PROVE r[i].phase = "open"
            <4>1. r[i] = WithUnit(w.seqs, u)[i]
                BY <3>1, <3>2 DEF Looped
            <4>2. r[i] = [w.seqs[i] EXCEPT !.units = Append(@, u)]
                BY <4>1 DEF WithUnit
            <4>3. w.seqs[i].phase = "open" /\ w.seqs[i] \in Sequencer(w.made)
                BY <3>1 DEF AllOpen, Sound, Agree
            <4> QED BY <4>2, <4>3 DEF Sequencer
        <3> QED BY <3>3 DEF AllOpen
    <2> QED BY <2>1, <2>3, <2>5, <2>6
<1> QED BY <1>4, <1>5
-------------------------------------------------------------------------------
(* OutputTemporalUnit.                                                         *)

(* A frame was popped and goes out with its block and its arbitrary OBUs.      *)
LEMMA OutputFrameKeeps ==
    ASSUME NEW w, Sound(w), Ok(w), NoneComplete(w.seqs), ~w.enc.sequencersFinalized,
           NEW g, NEW p \in Nat, w.enc.popped = p + 1,
           FramesAccounted(w.enc, g), BlocksFollow(w.enc, p), FinalizedLast(w.enc),
           w.enc.finalizer = "accepting", UnitsFollow(w.made, p, w.enc.arbitrary),
           NEW clean, NoneLost(w, clean), NEW f, FailuresExplained(f, w.made, w.enc.arbitrary, clean),
           NEW badPush, clean => badPush = None, NEW badClose, clean => badClose = None,
           NEW v, v = OutputFrame(w, badPush, badClose)
    PROVE  Whole(v, g, f, clean)
<1> DEFINE e == w.enc
           u == UnitOfFrame(e)
           temp == TempAfter(e, u.time)
           arbitrary == e.arbitrary \ u.arbitrary
           spliced == [w EXCEPT !.enc.temp = temp, !.enc.arbitrary = arbitrary]
           pushed == PushTemporalUnitToObuSequencers(spliced, u, badPush)
<1>0. /\ DOMAIN w = {"enc", "seqs", "made", "failed"} /\ DOMAIN e = EncFields
      /\ w.failed = "none"
    BY DEF Sound, IsCall, IsEnc, Ok
<1>1. e.popped - 1 = p /\ e.popped \in Nat /\ e.encoded \in Nat /\ e.popped <= e.encoded
    BY DEF FramesAccounted
<1>2. /\ u.time = p /\ u.frame = TRUE /\ u.blocks = BlocksUpTo(e, p)
      /\ u.arbitrary = e.arbitrary \intersect {p}
    BY <1>1 DEF UnitOfFrame
<1>3. temp = SubSeq(e.temp, FirstLater(e.temp, p), Len(e.temp))
      /\ BlocksUpTo(e, p) = Range(SubSeq(e.temp, 1, FirstLater(e.temp, p) - 1))
    BY <1>2 DEF TempAfter, BlocksUpTo
<1> HIDE DEF u, temp
<1>4. /\ u.blocks = IF setup.covered THEN {p} ELSE {}
      /\ setup.covered => Consecutive(temp, p + 1) /\ Len(temp) = Len(e.temp) - 1
      /\ ~setup.covered => temp = <<>>
    <2>1. CASE setup.covered
        <3>1. Consecutive(e.temp, p) /\ p + Len(e.temp) \in {e.encoded, e.encoded + 1}
            BY <2>1 DEF BlocksFollow, Consecutive
        <3>2. Len(e.temp) > 0
            BY <1>1, <3>1 DEF Consecutive
        <3> HIDE DEF e
        <3>3. /\ Range(SubSeq(e.temp, 1, FirstLater(e.temp, p) - 1)) = {p}
              /\ Consecutive(temp, p + 1) /\ Len(temp) = Len(e.temp) - 1
            BY <1>3, <3>1, <3>2, CutBehindFirst
        <3> QED BY <1>2, <1>3, <2>1, <3>3
    <2>2. CASE ~setup.covered
        <3>1. e.temp = <<>>
            BY <2>2 DEF BlocksFollow
        <3>2. u.blocks = {} /\ temp = <<>>
            BY <1>2, <1>3, <3>1, CutNothing
        <3> QED BY <2>2, <3>2
    <2> QED BY <2>1, <2>2
<1> HIDE DEF arbitrary
<1>5. /\ spliced.enc = [e EXCEPT !.temp = temp, !.arbitrary = arbitrary]
      /\ DOMAIN spliced = DOMAIN w
      /\ spliced.seqs = w.seqs /\ spliced.made = w.made /\ spliced.failed = "none"
    BY <1>0
<1> HIDE DEF spliced
<1>6. /\ DOMAIN spliced.enc = EncFields
      /\ spliced.enc.temp = temp /\ spliced.enc.arbitrary = arbitrary
      /\ \A x \in EncFields \ {"temp", "arbitrary"} : spliced.enc[x] = e[x]
    BY <1>0, <1>5 DEF EncFields
<1>7. /\ spliced.enc.encoded = e.encoded /\ spliced.enc.cached = e.cached
      /\ spliced.enc.block = e.block /\ spliced.enc.next = e.next
      /\ spliced.enc.metadata = e.metadata /\ spliced.enc.padding = e.padding
      /\ spliced.enc.popped = e.popped /\ spliced.enc.state = e.state
      /\ spliced.enc.finalizer = e.finalizer
      /\ spliced.enc.finalizeCalled = e.finalizeCalled
      /\ spliced.enc.mixFinalized = e.mixFinalized
      /\ spliced.enc.sequencersFinalized = e.sequencersFinalized
    BY <1>6 DEF EncFields
<1>8. Sound(spliced) /\ ~spliced.enc.sequencersFinalized
    <2>1. arbitrary \subseteq e.arbitrary
        BY DEF arbitrary
    <2>2. Spliced(w, spliced)
        BY <1>0, <1>5, <1>6, <2>1 DEF Spliced
    <2> QED BY <1>7, <2>2, SplicedSound
<1>9. FramesAccounted(spliced.enc, g)
    BY <1>7, Zenon DEF FramesAccounted
<1>10. BlocksFollow(spliced.enc, p + 1)
    <2>1. CASE setup.covered
        <3>1. /\ e.next = e.encoded /\ e.next \in Nat
              /\ e.metadata \in Nat \union {None} /\ e.block \in Nat \union {None}
              /\ p + Len(e.temp) \in {e.encoded, e.encoded + 1}
              /\ e.metadata # None => e.metadata = e.encoded /\ p + Len(e.temp) = e.encoded
              /\ e.block # None => /\ e.block <= e.encoded
                                   /\ e.block = e.encoded => p + Len(e.temp) = e.encoded + 1
            BY <2>1 DEF BlocksFollow
        <3>2. Consecutive(temp, p + 1) /\ Len(temp) = Len(e.temp) - 1
            BY <1>4, <2>1, Zenon
        <3>3. Len(e.temp) \in Nat /\ p + 1 + Len(temp) = p + Len(e.temp)
            <4>1. e.temp \in Seq(Nat)
                BY DEF BlocksFollow
            <4>2. Len(e.temp) \in Nat
                BY <4>1
            <4>3. Len(temp) = Len(e.temp) - 1
                BY <3>2
            <4> HIDE DEF e
            <4> DEFINE l == Len(e.temp)
            <4>4. p + 1 + (l - 1) = p + l
                <5> HIDE DEF l
                <5>1. l \in Nat
                    BY <4>2 DEF l
                <5> QED BY <5>1
            <4> QED BY <4>2, <4>3, <4>4, Zenon
        <3> QED BY <1>6, <1>7, <2>1, <3>1, <3>2, <3>3 DEF BlocksFollow, Consecutive
    <2>2. CASE ~setup.covered
        <3>1. e.metadata = None /\ e.block = None /\ e.next = 0
            BY <2>2 DEF BlocksFollow
        <3> QED BY <1>4, <1>6, <1>7, <2>2, <3>1 DEF BlocksFollow
    <2> QED BY <2>1, <2>2
<1>11. FinalizedLast(spliced.enc)
    BY <1>7, Zenon DEF FinalizedLast
<1>12. Takes(spliced, u, p, e.arbitrary)
    <2>1. u.arbitrary \subseteq {u.time} /\ u.arbitrary \subseteq e.arbitrary
        BY <1>2
    <2> QED BY <1>2, <1>4, <1>5, <1>6, <2>1 DEF Takes, arbitrary
<1>13. NoneLost(spliced, clean)
    BY <1>5, <1>7, Zenon DEF NoneLost
<1>14. /\ pushed.enc = spliced.enc /\ NoneLost(pushed, clean)
       /\ UnitsFollow(pushed.made, p + (IF u.frame THEN 1 ELSE 0), pushed.enc.arbitrary)
       /\ FailuresExplained(FailedBy(pushed, f), pushed.made, pushed.enc.arbitrary, clean)
    <2>1. Ok(spliced) /\ NoneComplete(spliced.seqs)
        BY <1>5 DEF Ok
    <2>2. FailuresExplained(f, spliced.made, e.arbitrary, clean)
        BY <1>5
    <2> QED BY <1>8, <1>12, <1>13, <2>1, <2>2, PushKeeps
<1>15. Sound(pushed)
    BY <1>5, <1>8, PushSound
<1>16. Whole(pushed, g, f, clean)
    <2>1. p + (IF u.frame THEN 1 ELSE 0) = p + 1
        BY <1>2, Zenon
    <2>2. pushed.enc.popped = p + 1
        BY <1>7, <1>14
    <2>3. UnitsFollow(pushed.made, p + 1, pushed.enc.arbitrary)
        BY <1>14, <2>1
    <2> HIDE DEF pushed
    <2> QED BY <1>9, <1>10, <1>11, <1>14, <2>2, <2>3 DEF Whole
<1>17. v = AfterPush(pushed, badClose)
    <2>1. ~(e.finalizer # "accepting" \/ \E b \in u.blocks : b # u.time)
        BY <1>2, <1>4
    <2> QED BY <2>1 DEF OutputFrame, u, temp, spliced, arbitrary
<1> HIDE DEF pushed
<1>18. CASE ~Ok(pushed) \/ GeneratingTemporalUnits(pushed.enc)
    BY <1>16, <1>17, <1>18 DEF AfterPush
<1>19. CASE Ok(pushed) /\ ~GeneratingTemporalUnits(pushed.enc)
    <2>1. v = Finalize(pushed, badClose)
        BY <1>17, <1>19 DEF AfterPush
    <2>2. FinalizedLast(pushed.enc) /\ NoneLost(pushed, clean)
        BY <1>16 DEF Whole
    <2>3. Closes(pushed, v, clean)
        BY <1>15, <1>19, <2>1, <2>2, FinalizeCloses
    <2> QED BY <1>16, <1>19, <2>3, ClosingKeepsWhole
<1> QED BY <1>18, <1>19

(* The spliced call s has what w has, but for arbitrary OBUs.                  *)
LeftWith(w, s, rest, g) ==
    /\ s.enc.arbitrary = rest /\ s.enc.popped = w.enc.popped
    /\ s.made = w.made /\ s.failed = w.failed /\ s.seqs = w.seqs
    /\ s.enc.sequencersFinalized = w.enc.sequencersFinalized
    /\ FramesAccounted(s.enc, g) /\ BlocksFollow(s.enc, s.enc.popped)
    /\ FinalizedLast(s.enc) /\ Spliced(w, s)

LEMMA WithoutOBUsKeeps ==
    ASSUME NEW w, IsCall(w), NEW g, FramesAccounted(w.enc, g), BlocksFollow(w.enc, w.enc.popped),
           FinalizedLast(w.enc), NEW rest \in SUBSET w.enc.arbitrary,
           NEW s, s = [w EXCEPT !.enc.arbitrary = rest]
    PROVE  LeftWith(w, s, rest, g)
<1>0. DOMAIN w = {"enc", "seqs", "made", "failed"} /\ DOMAIN w.enc = EncFields
    BY DEF IsCall, IsEnc
<1>1. /\ s.enc = [w.enc EXCEPT !.arbitrary = rest] /\ DOMAIN s = DOMAIN w
      /\ s.made = w.made /\ s.failed = w.failed /\ s.seqs = w.seqs
    BY <1>0
<1>2. /\ s.enc.arbitrary = rest /\ DOMAIN s.enc = DOMAIN w.enc
      /\ \A x \in EncFields \ {"arbitrary"} : s.enc[x] = w.enc[x]
    BY <1>0, <1>1 DEF EncFields
<1>3. /\ s.enc.encoded = w.enc.encoded /\ s.enc.cached = w.enc.cached
      /\ s.enc.block = w.enc.block /\ s.enc.next = w.enc.next /\ s.enc.temp = w.enc.temp
      /\ s.enc.metadata = w.enc.metadata /\ s.enc.padding = w.enc.padding
      /\ s.enc.popped = w.enc.popped /\ s.enc.state = w.enc.state
      /\ s.enc.finalizer = w.enc.finalizer /\ s.enc.encoders = w.enc.encoders
      /\ s.enc.finalizeCalled = w.enc.finalizeCalled
      /\ s.enc.mixFinalized = w.enc.mixFinalized
      /\ s.enc.sequencersFinalized = w.enc.sequencersFinalized
    BY <1>2 DEF EncFields
<1>4. GeneratingTemporalUnits(s.enc) => GeneratingTemporalUnits(w.enc)
    BY <1>2, <1>3 DEF GeneratingTemporalUnits
<1>5. FinalizedLast(s.enc)
    BY <1>3, <1>4, Zenon DEF FinalizedLast
<1>6. FramesAccounted(s.enc, g)
    BY <1>3, Zenon DEF FramesAccounted
<1>7. BlocksFollow(s.enc, s.enc.popped)
    <2>1. /\ s.enc.encoded = w.enc.encoded /\ s.enc.block = w.enc.block
          /\ s.enc.next = w.enc.next /\ s.enc.temp = w.enc.temp
          /\ s.enc.metadata = w.enc.metadata
        BY <1>3, Zenon
    <2>2. BlocksFollow(s.enc, w.enc.popped)
        BY <2>1, Zenon DEF BlocksFollow
    <2> QED BY <1>3, <2>2, Zenon
<1>8. Spliced(w, s)
    <2>1. s.enc.arbitrary \subseteq w.enc.arbitrary
        BY <1>2
    <2> QED BY <1>0, <1>1, <1>2, <2>1 DEF Spliced
<1> QED BY <1>1, <1>2, <1>3, <1>5, <1>6, <1>7, <1>8, Zenon DEF LeftWith

(* No frame was popped: arbitrary OBUs go out alone.                           *)
LEMMA OutputExtraneousKeeps ==
    ASSUME setup \in Setups, NEW w, Sound(w), Ok(w),
           NEW g, NEW clean, NEW f, Whole(w, g, f, clean),
           NEW badPush, clean => badPush = None, NEW badClose, clean => badClose = None,
           NEW v, v = OutputExtraneous(w, badPush, badClose)
    PROVE  Whole(v, g, f, clean)
<1> DEFINE left == w.enc.arbitrary
           n == w.enc.popped
           first == IF left = {} THEN {} ELSE {Min(left)}
           u == [time |-> IF first = {} THEN None ELSE Min(first), frame |-> FALSE,
                 blocks |-> {}, arbitrary |-> first]
           rest == left \ first
           spliced == [w EXCEPT !.enc.arbitrary = rest]
           done == ~GeneratingTemporalUnits(spliced.enc)
           described == IF done THEN FinalizeDescriptors(spliced) ELSE spliced
           pushed == IF first = {} THEN described
                     ELSE PushTemporalUnitToObuSequencers(described, u, badPush)
           closed == FinalizeObuSequencers(pushed, badClose)
<1>1. v = IF ~Ok(described) THEN described
          ELSE IF ~Ok(pushed) \/ ~done THEN pushed ELSE closed
    BY DEF OutputExtraneous
<1>2. /\ IsCall(w) /\ FramesAccounted(w.enc, g) /\ BlocksFollow(w.enc, n)
      /\ FinalizedLast(w.enc) /\ UnitsFollow(w.made, n, left) /\ NoneLost(w, clean)
      /\ FailuresExplained(f, w.made, left, clean) /\ n \in Nat
    <2>1. FailedBy(w, f) = f
        BY DEF FailedBy, Ok
    <2> QED BY <2>1 DEF Whole, Sound, FramesAccounted
<1>3. /\ first \subseteq left /\ rest \in SUBSET left
      /\ first = {} => left = {} /\ rest = left
      /\ first # {} => left # {} /\ first = {u.time}
    <2>1. CASE left = {}
        BY <2>1
    <2>2. CASE left # {}
        <3>1. left \subseteq Nat
            BY <1>2, SetupFacts DEF UnitsFollow
        <3>2. PICK m \in left : m = Min(left)
            BY <2>2, <3>1, LeastIn
        <3>3. first = {m} /\ m \in Nat
            BY <2>2, <3>1, <3>2
        <3>4. Min({m}) = m
            <4>1. {m} \subseteq Nat /\ \A k \in {m} : m <= k
                BY <3>3
            <4> QED BY <4>1, LeastOf
        <3> HIDE DEF first, left
        <3> QED BY <2>2, <3>2, <3>3, <3>4 DEF u
    <2> QED BY <2>1, <2>2
<1>4. u.frame = FALSE /\ u.blocks = {} /\ u.arbitrary = first
    OBVIOUS
<1> HIDE DEF first, u, rest
<1>5. /\ spliced.enc.arbitrary = rest /\ spliced.enc.popped = n
      /\ spliced.made = w.made /\ spliced.failed = w.failed /\ spliced.seqs = w.seqs
      /\ spliced.enc.sequencersFinalized = w.enc.sequencersFinalized
      /\ FramesAccounted(spliced.enc, g) /\ BlocksFollow(spliced.enc, n)
      /\ FinalizedLast(spliced.enc) /\ Spliced(w, spliced)
    <2>1. rest \in SUBSET left
        BY <1>3
    <2>2. LeftWith(w, spliced, rest, g)
        BY <1>2, <2>1, WithoutOBUsKeeps
    <2> HIDE DEF spliced
    <2> QED BY <2>2, Zenon DEF LeftWith
<1> HIDE DEF spliced
<1>6. first # {} => NoneComplete(w.seqs) /\ ~w.enc.sequencersFinalized
    BY <1>3 DEF Sound, GeneratingTemporalUnits
<1>7. Sound(spliced) /\ Ok(spliced) /\ NoneLost(spliced, clean)
    <2>1. rest = left \/ (NoneComplete(w.seqs) /\ ~w.enc.sequencersFinalized)
        BY <1>3, <1>6
    <2>2. Sound(spliced)
        BY <1>5, <2>1, SplicedSound
    <2>3. NoneLost(spliced, clean)
        BY <1>2, <1>5, Zenon DEF NoneLost
    <2> QED BY <1>5, <2>2, <2>3 DEF Ok
<1>8. /\ Sound(described) /\ described.seqs = w.seqs
      /\ described.enc.sequencersFinalized = w.enc.sequencersFinalized
      /\ Closes(spliced, described, clean)
    <2>1. CASE done
        BY <1>5, <1>7, <2>1, FinalizeDescriptorsCloses, FinalizeDescriptorsSound
    <2>2. CASE ~done
        <3>1. described = spliced
            BY <2>2
        <3> QED BY <1>5, <1>7, <3>1 DEF Closes, SameWork, Ok
    <2> QED BY <2>1, <2>2
<1> HIDE DEF described
<1>9. /\ described.enc.popped = n /\ described.enc.arbitrary = rest
      /\ described.made = w.made /\ FinalizedLast(described.enc)
      /\ FramesAccounted(described.enc, g) /\ BlocksFollow(described.enc, n)
      /\ NoneLost(described, clean)
      /\ GeneratingTemporalUnits(described.enc) <=> ~done
    BY <1>5, <1>8, SameWorkKeeps DEF Closes, done
<1> HIDE DEF done
<1>10. CASE ~Ok(described)
    <2>1. FailedBy(described, f) = f \union {described.failed}
        BY <1>10 DEF FailedBy, Ok
    <2>2. \/ described.failed = "sequencer" /\ ~clean
          \/ described.failed \in {"loudness", "finalizer"} /\ setup.loud
        BY <1>8, <1>10 DEF Closes, Ok
    <2>3. FailuresExplained(f \union {described.failed}, w.made, left, clean)
        BY <1>2, <2>2, MoreFailed
    <2>4. FailuresExplained(f \union {described.failed}, w.made, rest, clean)
        BY <1>3, <2>3, LostWithFailure
    <2>5. UnitsFollow(w.made, n, rest)
        BY <1>2, <1>3, ShrinkingLeft
    <2>6. v = described
        BY <1>1, <1>10
    <2> HIDE DEF n
    <2> QED BY <1>9, <2>1, <2>4, <2>5, <2>6 DEF Whole
<1>11. CASE Ok(described)
    <2>1. Sound(pushed) /\ pushed.enc = described.enc /\ Whole(pushed, g, f, clean)
        <3>1. CASE first = {}
            <4>1. pushed = described /\ rest = left
                BY <1>3, <3>1
            <4>2. FailedBy(pushed, f) = f
                BY <1>11, <4>1 DEF FailedBy, Ok
            <4> HIDE DEF n, left, pushed
            <4> QED BY <1>2, <1>8, <1>9, <4>1, <4>2 DEF Whole
        <3>2. CASE first # {}
            <4>1. pushed = PushTemporalUnitToObuSequencers(described, u, badPush)
                BY <3>2
            <4>2. NoneComplete(described.seqs) /\ ~described.enc.sequencersFinalized
                BY <1>6, <1>8, <3>2
            <4> HIDE DEF pushed
            <4>3. Takes(described, u, n, left)
                BY <1>2, <1>3, <1>4, <1>9, <3>2 DEF Takes, rest
            <4>4. /\ pushed.enc = described.enc /\ NoneLost(pushed, clean)
                  /\ UnitsFollow(pushed.made, n + (IF u.frame THEN 1 ELSE 0), pushed.enc.arbitrary)
                  /\ FailuresExplained(FailedBy(pushed, f), pushed.made, pushed.enc.arbitrary, clean)
                <5>1. FailuresExplained(f, described.made, left, clean)
                    BY <1>2, <1>9
                <5> QED BY <1>8, <1>9, <1>11, <4>1, <4>2, <4>3, <5>1, PushKeeps
            <4>5. n + (IF u.frame THEN 1 ELSE 0) = n
                BY <1>2, <1>4
            <4>6. Sound(pushed)
                BY <1>8, <4>1, <4>2, PushSound
            <4>7. UnitsFollow(pushed.made, n, pushed.enc.arbitrary)
                BY <4>4, <4>5
            <4> HIDE DEF n
            <4> QED BY <1>9, <4>4, <4>6, <4>7 DEF Whole
        <3> QED BY <3>1, <3>2
    <2> HIDE DEF pushed
    <2>2. CASE ~Ok(pushed) \/ ~done
        BY <1>1, <1>11, <2>1, <2>2
    <2>3. CASE Ok(pushed) /\ done
        <3>1. v = closed
            BY <1>1, <1>11, <2>3
        <3>2. FinalizedLast(pushed.enc) /\ NoneLost(pushed, clean)
            BY <2>1 DEF Whole
        <3>3. ~GeneratingTemporalUnits(pushed.enc)
            BY <1>9, <2>1, <2>3
        <3>4. Closes(pushed, v, clean)
            BY <2>1, <2>3, <3>1, <3>2, <3>3, FinalizeObuSequencersCloses
        <3> QED BY <2>1, <2>3, <3>4, ClosingKeepsWhole
    <2> QED BY <2>2, <2>3
<1> QED BY <1>10, <1>11

LEMMA OutputKeeps ==
    ASSUME setup \in Setups, NEW w, Sound(w), Ok(w),
           NEW g, NEW clean, NEW f, Whole(w, g, f, clean), Passed(w.enc, g),
           NEW badPush, clean => badPush = None, NEW badClose, clean => badClose = None,
           NEW v, v = Output(w, badPush, badClose)
    PROVE  Whole(v, g, f, clean)
<1> DEFINE p == w.enc.popped
           blocks == WithBlocks(w)
           added == AddSamples(blocks)
           finalizing == FinalizeGenerator(added)
           output == OutputFrames(finalizing)
<1>1. v = IF ~Ok(added) THEN added
          ELSE IF ~Ok(output) THEN output
          ELSE IF output.enc.popped > p THEN OutputFrame(output, badPush, badClose)
          ELSE IF w.enc.finalizeCalled THEN OutputExtraneous(output, badPush, badClose)
          ELSE output
    BY DEF Output
<1>2. Advances(w, output)
    <2>1. Advances(w, blocks)
        BY WithBlocksAdvances DEF Sound
    <2>2. Advances(blocks, added)
        BY <2>1, AddSamplesAdvances DEF Advances
    <2>3. Advances(added, finalizing)
        BY <2>2, FinalizeGeneratorAdvances DEF Advances
    <2>4. Advances(finalizing, output)
        BY <2>3, OutputFramesAdvances DEF Advances
    <2> HIDE DEF blocks, added, finalizing, output
    <2> QED BY <2>1, <2>2, <2>3, <2>4, AdvancesTransitively DEF Sound, Advances
<1>3. /\ Making(w, g, p) /\ FinalizedLast(w.enc) /\ UnitsFollow(w.made, p, w.enc.arbitrary)
      /\ FailuresExplained(f, w.made, w.enc.arbitrary, clean) /\ NoneLost(w, clean)
    <2>1. FailedBy(w, f) = f
        BY DEF FailedBy, Ok
    <2> QED BY <2>1 DEF Whole, Sound, Making, FramesAccounted
<1>4. /\ Making(blocks, g, p) /\ Supplied(blocks.enc, g)
      /\ blocks.enc.finalizer = w.enc.finalizer /\ blocks.enc.popped = p
    BY <1>3, WithBlocksMakes
<1> HIDE DEF blocks
<1>5. /\ Making(added, g, p) /\ ~added.enc.cached
      /\ added.enc.state = "flushing" => Supplied(added.enc, g)
      /\ added.enc.finalizer = w.enc.finalizer /\ added.enc.popped = p
    BY <1>4, AddSamplesMakes
<1> HIDE DEF added
<1>6. /\ Making(finalizing, g, p) /\ ~finalizing.enc.cached
      /\ finalizing.enc.state = "flushing" => Supplied(finalizing.enc, g)
      /\ finalizing.enc.finalizer = w.enc.finalizer /\ finalizing.enc.popped = p
    BY <1>5, FinalizeGeneratorMakes
<1> HIDE DEF finalizing
<1>7. /\ Ok(output) /\ FramesAccounted(output.enc, g) /\ BlocksFollow(output.enc, p)
      /\ output.enc.popped \in {p, p + 1} /\ output.enc.finalizer = w.enc.finalizer
    BY <1>6, OutputFramesMakes
<1> HIDE DEF output
<1>8. /\ output.seqs = w.seqs /\ output.made = w.made
      /\ output.enc.arbitrary = w.enc.arbitrary
      /\ output.enc.mixFinalized = w.enc.mixFinalized
      /\ output.enc.sequencersFinalized = w.enc.sequencersFinalized
      /\ Sound(output)
    BY <1>2, AdvancesIsSound DEF Advances
<1>9. GeneratingTemporalUnits(output.enc) => GeneratingTemporalUnits(w.enc)
    BY <1>2, Zenon DEF Advances, GeneratingTemporalUnits
<1>10. FinalizedLast(output.enc)
    BY <1>3, <1>7, <1>8, <1>9, Zenon DEF FinalizedLast
<1>11. NoneLost(output, clean)
    BY <1>3, <1>8, Zenon DEF NoneLost
<1>12. /\ UnitsFollow(output.made, p, output.enc.arbitrary)
       /\ FailuresExplained(f, output.made, output.enc.arbitrary, clean)
    BY <1>3, <1>8
<1>13. p \in Nat /\ Ok(added)
    BY <1>3, <1>5 DEF Making
<1>14. CASE output.enc.popped = p + 1
    <2>1. output.enc.popped > p
        BY <1>13, <1>14
    <2>2. v = OutputFrame(output, badPush, badClose)
        BY <1>1, <1>7, <1>13, <2>1
    <2>3. GeneratingTemporalUnits(w.enc)
        BY <1>2, <2>1 DEF Advances, GeneratingTemporalUnits
    <2>4. output.enc.finalizer = "accepting"
        BY <1>3, <1>7, <2>3, Zenon DEF FinalizedLast
    <2>5. NoneComplete(output.seqs) /\ ~output.enc.sequencersFinalized
        BY <1>8, <2>3 DEF Sound
    <2> HIDE DEF p
    <2> QED BY <1>7, <1>8, <1>10, <1>11, <1>12, <1>13, <1>14, <2>2, <2>4, <2>5, OutputFrameKeeps
<1>15. CASE output.enc.popped = p
    <2>1. ~(output.enc.popped > p)
        BY <1>13, <1>15
    <2>2. Whole(output, g, f, clean)
        <3>1. FailedBy(output, f) = f
            BY <1>7 DEF FailedBy, Ok
        <3> HIDE DEF p
        <3> QED BY <1>7, <1>10, <1>11, <1>12, <1>15, <3>1 DEF Whole
    <2>3. CASE w.enc.finalizeCalled
        <3>1. v = OutputExtraneous(output, badPush, badClose)
            BY <1>1, <1>7, <1>13, <2>1, <2>3
        <3> QED BY <1>7, <1>8, <2>2, <3>1, OutputExtraneousKeeps
    <2>4. CASE ~w.enc.finalizeCalled
        BY <1>1, <1>7, <1>13, <2>1, <2>2, <2>4
    <2> QED BY <2>3, <2>4
<1> QED BY <1>7, <1>14, <1>15
-------------------------------------------------------------------------------
(* The specification.                                                          *)

(* What a call returns is what the next one starts from.                       *)
LEMMA ReturnedWhole ==
    ASSUME UNCHANGED setup, NEW w, NEW g, NEW f, NEW clean, Whole(w, g, f, clean),
           enc' = w.enc, seqs' = w.seqs, made' = w.made, given' = g,
           failed' = FailedBy(w, f), (faults = 0 /\ phase = "created")' => clean
    PROVE  Whole(Now, given, failed, faults = 0 /\ phase = "created")'
<1>1. /\ Now.enc' = w.enc /\ Now.seqs' = w.seqs /\ Now.made' = w.made
      /\ Now.failed' = "none"
    BY DEF Now
<1>2. FramesAccounted(Now.enc, given)'
    BY <1>1 DEF Whole, FramesAccounted
<1>3. BlocksFollow(Now.enc, Now.enc.popped)'
    BY <1>1 DEF Whole, BlocksFollow
<1>4. FinalizedLast(Now.enc)'
    BY <1>1 DEF Whole, FinalizedLast
<1>5. UnitsFollow(Now.made, Now.enc.popped, Now.enc.arbitrary)'
    BY <1>1 DEF Whole, UnitsFollow
<1>6. FailedBy(Now, failed)' = FailedBy(w, f)
    BY <1>1 DEF FailedBy
<1>7. FailuresExplained(FailedBy(Now, failed), Now.made, Now.enc.arbitrary,
                        faults = 0 /\ phase = "created")'
    BY <1>1, <1>6 DEF Whole, FailuresExplained, Gone
<1>8. NoneLost(Now, faults = 0 /\ phase = "created")'
    BY <1>1 DEF Whole, NoneLost
<1> QED BY <1>2, <1>3, <1>4, <1>5, <1>7, <1>8 DEF Whole

LEMMA InitIsWhole == Init => OutputInv
<1> SUFFICES ASSUME Init
             PROVE  OutputInv
    OBVIOUS
<1>1. IInv
    BY InitEstablishes
<1>2. /\ phase = "creating" /\ made = <<>> /\ failed = {} /\ given = 0 /\ faults = 0
      /\ enc.finalizeCalled = FALSE /\ enc.cached = FALSE /\ enc.metadata = None
      /\ enc.temp = <<>> /\ enc.block = None /\ enc.next = 0 /\ enc.encoded = 0
      /\ enc.popped = 0 /\ enc.padding = setup.padding /\ enc.finalizer = "accepting"
      /\ enc.arbitrary = DOMAIN setup.arbitrary /\ enc.mixFinalized = FALSE
      /\ enc.state = IF setup.trivial THEN "flushing" ELSE "taking"
    BY DEF Init
<1>3. setup.padding \in Nat /\ (setup.trivial => setup.padding = 0)
    BY SetupFacts DEF Init
<1>4. FramesAccounted(enc, given)
    <2>1. enc.encoded + enc.padding + (IF enc.cached THEN 1 ELSE 0) = given + setup.padding
        BY <1>2, <1>3
    <2>2. enc.state \in {"taking", "finalizeCalled", "flushing"}
          /\ (enc.state = "taking" \/ setup.trivial)
        BY <1>2
    <2>3. /\ enc.encoded \in Nat /\ enc.popped \in Nat /\ enc.popped <= enc.encoded
          /\ enc.padding \in 0..setup.padding /\ given \in Nat
        BY <1>2, <1>3
    <2>4. ~enc.cached /\ enc.cached \in BOOLEAN
        BY <1>2
    <2> QED BY <2>1, <2>2, <2>3, <2>4, Zenon DEF FramesAccounted
<1>5. BlocksFollow(enc, enc.popped)
    <2>1. <<>> \in Seq(Nat) /\ Len(<<>>) = 0
        OBVIOUS
    <2> QED BY <1>2, <2>1 DEF BlocksFollow
<1>6. FinalizedLast(enc)
    BY <1>2 DEF FinalizedLast
<1>7. FramePlaces(<<>>) = {} /\ MadeOf(<<>>) = {} /\ <<>> \in Seq(Range(<<>>))
    BY DEF FramePlaces, MadeOf
<1>8. UnitsFollow(made, enc.popped, enc.arbitrary)
    <2>1. DOMAIN made = {} /\ FramePlaces(made) = {} /\ MadeOf(made) = {}
          /\ made \in Seq(Range(made))
        BY <1>2, <1>7
    <2>2. IsFiniteSet({}) /\ Cardinality({}) = 0
        BY FS_EmptySet
    <2>3. enc.arbitrary \subseteq DOMAIN setup.arbitrary
        BY <1>2
    <2> QED BY <1>2, <2>1, <2>2, <2>3, Zenon DEF UnitsFollow
<1>9. FailuresExplained({}, made, enc.arbitrary, FALSE)
    BY <1>2, <1>7 DEF FailuresExplained, Gone
<1>10. FailedBy(Now, failed) = {}
    BY <1>2 DEF FailedBy, Now
<1>11. ~(faults = 0 /\ phase = "created")
    BY <1>2
<1>12. Whole(Now, given, failed, faults = 0 /\ phase = "created")
    BY <1>4, <1>5, <1>6, <1>8, <1>9, <1>10, <1>11, NowFields DEF Whole, NoneLost
<1> QED BY <1>1, <1>2, <1>12 DEF OutputInv

(* The writes of a call that fail are counted.                                 *)
LEMMA FaultsCounted ==
    ASSUME faults \in Nat, NEW bads, IsFiniteSet(bads), Faults(bads)
    PROVE  faults' \in Nat /\ (faults' = 0 => faults = 0 /\ bads \subseteq {None})
<1> DEFINE bad == bads \ {None}
<1>1. IsFiniteSet(bad) /\ Cardinality(bad) \in Nat
    <2>1. IsFiniteSet(bad)
        BY FS_Difference
    <2> QED BY <2>1, FS_CardinalityType
<1>2. faults' = faults + Cardinality(bad)
    BY DEF Faults
<1>3. faults' \in Nat /\ (faults' = 0 => faults = 0 /\ Cardinality(bad) = 0)
    <2> HIDE DEF bad
    <2> QED BY <1>1, <1>2
<1>4. Cardinality(bad) = 0 => bad = {}
    BY <1>1, FS_EmptySet
<1> QED BY <1>3, <1>4

LEMMA WholeAfterFault ==
    ASSUME NEW w, NEW g, NEW f, NEW clean, Whole(w, g, f, clean), NEW still, still => clean
    PROVE  Whole(w, g, f, still)
BY DEF Whole, FailuresExplained, NoneLost

LEMMA NowIsWhole ==
    ASSUME OutputInv
    PROVE  /\ setup \in Setups /\ Sound(Now) /\ Ok(Now) /\ faults \in Nat
           /\ Whole(Now, given, failed, faults = 0 /\ phase = "created")
BY NowFields DEF OutputInv, IInv

LEMMA CreateKeepsWhole ==
    ASSUME OutputInv, Create
    PROVE  OutputInv'
<1>1. PICK bad \in Faulty :
        /\ seqs' = UpTo(seqs, WithDescriptors(seqs), Failing(seqs, "none", bad))
        /\ phase' = IF Failing(seqs, "none", bad) = {} THEN "created" ELSE "refused"
        /\ Faults({bad})
    BY DEF Create
<1>2. UNCHANGED <<setup, enc, given, made, failed>>
    BY DEF Create
<1>3. IInv'
    BY CreateKeeps DEF OutputInv
<1>4. faults' \in Nat
    BY <1>1, FaultsCounted, FS_Singleton DEF OutputInv
<1> DEFINE created == (faults = 0 /\ phase = "created")'
           w == [Now EXCEPT !.seqs = seqs']
<1>5. w.enc = enc /\ w.seqs = seqs' /\ w.made = made /\ w.failed = "none"
    BY DEF Now
<1> HIDE DEF w
<1>6. created => AllOpen(seqs')
    <2> SUFFICES ASSUME created
                 PROVE  AllOpen(seqs')
        OBVIOUS
    <2>1. Failing(seqs, "none", bad) = {}
        BY <1>1
    <2>2. \A i \in 1..N : seqs'[i] = [seqs[i] EXCEPT !.phase = "open",
                                                    !.descriptors = "preliminary"]
        BY <1>1, <2>1 DEF UpTo, WithDescriptors
    <2>3. \A i \in 1..N : "phase" \in DOMAIN seqs[i]
        BY NowFields DEF OutputInv, IInv, Sound, Agree, Sequencer
    <2> QED BY <2>2, <2>3 DEF AllOpen
<1>7. Whole(w, given, failed, created)
    <2> DEFINE before == faults = 0 /\ phase = "created"
    <2>1. Whole(Now, given, failed, before)
        BY NowIsWhole
    <2>2. ~before
        BY DEF Create
    <2>3. FailedBy(w, failed) = failed /\ FailedBy(Now, failed) = failed
        BY <1>5 DEF FailedBy, Now
    <2> HIDE DEF before
    <2>4. /\ FramesAccounted(w.enc, given) /\ BlocksFollow(w.enc, w.enc.popped)
          /\ FinalizedLast(w.enc) /\ UnitsFollow(w.made, w.enc.popped, w.enc.arbitrary)
          /\ FailuresExplained(failed, w.made, w.enc.arbitrary, before)
        BY <1>5, <2>1, <2>3, NowFields DEF Whole
    <2>5. FailuresExplained(failed, w.made, w.enc.arbitrary, created)
        <3>1. failed = {}
            BY DEF OutputInv, Create
        <3> QED BY <2>4, <3>1 DEF FailuresExplained
    <2>6. NoneLost(w, created)
        BY <1>5, <1>6 DEF NoneLost
    <2> HIDE DEF created
    <2> QED BY <1>5, <2>3, <2>4, <2>5, <2>6, NowFields DEF Whole
<1>8. FailedBy(w, failed) = failed
    BY <1>5 DEF FailedBy
<1>9. phase' \in {"created", "refused"}
    BY <1>1
<1>10. Whole(Now, given, failed, faults = 0 /\ phase = "created")'
    BY <1>2, <1>5, <1>7, <1>8, ReturnedWhole
<1>11. failed' = {}
    BY <1>2 DEF OutputInv, Create
<1> QED BY <1>3, <1>4, <1>9, <1>10, <1>11 DEF OutputInv

LEMMA EncodeKeepsWhole ==
    ASSUME OutputInv, NEW samples \in BOOLEAN, Encode(samples)
    PROVE  OutputInv'
<1> DEFINE dropped == enc.finalizeCalled \/ ~samples
           due == BlockDue(~dropped)
           metadata == IF due THEN enc.encoded ELSE enc.metadata
           cached == enc.cached \/ ~dropped
           clean == faults = 0 /\ phase = "created"
           w == [Now EXCEPT !.enc = enc']
<1>1. /\ enc' = [enc EXCEPT !.metadata = metadata, !.cached = cached]
      /\ given' = IF dropped THEN given ELSE given + 1
      /\ samples => ~enc.cached /\ ~setup.trivial
      /\ phase = "created"
      /\ UNCHANGED <<setup, phase, seqs, made, failed, faults>>
    BY DEF Encode
<1>2. IInv'
    BY EncodeKeeps DEF OutputInv
<1>3. /\ setup \in Setups /\ IsEnc(enc) /\ Whole(Now, given, failed, clean)
      /\ FailedBy(Now, failed) = failed
    BY NowIsWhole, NowFields DEF Sound, IsCall, FailedBy, Ok
<1>4. /\ FramesAccounted(enc, given) /\ BlocksFollow(enc, enc.popped)
      /\ FinalizedLast(enc) /\ UnitsFollow(made, enc.popped, enc.arbitrary)
      /\ FailuresExplained(failed, made, enc.arbitrary, clean)
      /\ clean => AllOpen(seqs) \/ enc.sequencersFinalized
    BY <1>3, NowFields DEF Whole, NoneLost
<1> HIDE DEF metadata, cached
<1>5. /\ enc'.metadata = metadata /\ enc'.cached = cached
      /\ \A x \in EncFields \ {"metadata", "cached"} : enc'[x] = enc[x]
    BY <1>1, <1>3 DEF IsEnc, EncFields
<1>6. /\ enc'.encoded = enc.encoded /\ enc'.block = enc.block /\ enc'.next = enc.next
      /\ enc'.temp = enc.temp /\ enc'.padding = enc.padding /\ enc'.popped = enc.popped
      /\ enc'.state = enc.state /\ enc'.finalizer = enc.finalizer
      /\ enc'.encoders = enc.encoders /\ enc'.arbitrary = enc.arbitrary
      /\ enc'.finalizeCalled = enc.finalizeCalled
      /\ enc'.mixFinalized = enc.mixFinalized
      /\ enc'.sequencersFinalized = enc.sequencersFinalized
    BY <1>5 DEF EncFields
<1>7. FramesAccounted(enc', given')
    <2>1. CASE dropped
        <3>1. enc'.cached = enc.cached /\ given' = given
            BY <1>1, <1>4, <1>5, <2>1 DEF cached, FramesAccounted
        <3> QED BY <1>4, <1>6, <3>1, Zenon DEF FramesAccounted
    <2>2. CASE ~dropped
        <3>1. enc'.cached = TRUE /\ given' = given + 1 /\ ~enc.cached /\ enc.state = "taking"
            BY <1>1, <1>4, <1>5, <2>2 DEF cached, FramesAccounted
        <3>2. /\ given \in Nat /\ setup.padding \in Nat /\ enc.encoded \in Nat
              /\ enc.padding \in 0..setup.padding
            BY <1>3, <1>4, SetupFacts DEF FramesAccounted
        <3>3. enc.encoded + enc.padding + 0 = given + setup.padding
            BY <1>4, <3>1 DEF FramesAccounted
        <3>4. /\ enc.encoded + enc.padding + 1 = given + 1 + setup.padding
              /\ given + 1 \in Nat
            BY <3>2, <3>3
        <3>5. enc'.encoded + enc'.padding + (IF enc'.cached THEN 1 ELSE 0)
                  = given' + setup.padding
            BY <1>6, <3>1, <3>4
        <3>6. /\ enc'.encoded \in Nat /\ enc'.popped \in Nat
              /\ enc'.popped <= enc'.encoded /\ enc'.padding \in 0..setup.padding
              /\ enc'.state \in {"taking", "finalizeCalled", "flushing"}
            BY <1>4, <1>6, Zenon DEF FramesAccounted
        <3>7. enc'.cached \in BOOLEAN /\ enc'.state = "taking" /\ given' \in Nat
            BY <1>6, <3>1, <3>4
        <3> QED BY <3>5, <3>6, <3>7, Zenon DEF FramesAccounted
    <2> QED BY <2>1, <2>2
<1>8. BlocksFollow(enc', enc'.popped)
    <2>1. CASE due
        <3>1. /\ setup.covered /\ metadata = enc.encoded
              /\ enc.encoded \notin {enc.block, enc.metadata} \union Range(enc.temp)
            BY <2>1 DEF BlockDue, metadata
        <3>2. /\ enc.temp \in Seq(Nat) /\ enc.popped \in Nat /\ enc.encoded \in Nat
              /\ \A i \in 1..Len(enc.temp) : enc.temp[i] = enc.popped + i - 1
              /\ enc.popped + Len(enc.temp) \in {enc.encoded, enc.encoded + 1}
              /\ enc.popped <= enc.encoded
            BY <1>4, <3>1 DEF BlocksFollow, FramesAccounted
        <3>3. enc.popped + Len(enc.temp) = enc.encoded
            <4>1. SUFFICES ASSUME enc.popped + Len(enc.temp) = enc.encoded + 1
                           PROVE  FALSE
                BY <3>2
            <4>2. Len(enc.temp) \in 1..Len(enc.temp)
                BY <3>2, <4>1
            <4>3. enc.temp[Len(enc.temp)] = enc.encoded
                <5>1. enc.temp[Len(enc.temp)] = enc.popped + Len(enc.temp) - 1
                    BY <3>2, <4>2
                <5>2. Len(enc.temp) \in Nat
                    BY <3>2
                <5> DEFINE l == Len(enc.temp)
                <5> HIDE DEF l
                <5>3. l \in Nat /\ enc.popped + l = enc.encoded + 1
                    BY <4>1, <5>2 DEF l
                <5>4. enc.popped \in Nat /\ enc.encoded \in Nat
                    BY <3>2
                <5>5. enc.popped + l - 1 = enc.encoded
                    BY <5>3, <5>4
                <5> QED BY <5>1, <5>5, Zenon DEF l
            <4>4. enc.temp[Len(enc.temp)] \in Range(enc.temp)
                BY <3>2, <4>2 DEF Range
            <4> QED BY <3>1, <4>3, <4>4
        <3>4. enc.block # None => enc.block # enc.encoded
            BY <3>1
        <3> QED BY <1>4, <1>5, <1>6, <3>1, <3>2, <3>3, <3>4 DEF BlocksFollow
    <2>2. CASE ~due
        <3>1. enc'.metadata = enc.metadata
            BY <1>5, <2>2 DEF metadata
        <3> QED BY <1>4, <1>6, <3>1, Zenon DEF BlocksFollow
    <2> QED BY <2>1, <2>2
<1>9. FinalizedLast(enc')
    <2>1. GeneratingTemporalUnits(enc') <=> GeneratingTemporalUnits(enc)
        BY <1>6, Zenon DEF GeneratingTemporalUnits
    <2> QED BY <1>4, <1>6, <2>1, Zenon DEF FinalizedLast
<1>10. /\ w.enc = enc' /\ w.seqs = seqs /\ w.made = made /\ w.failed = "none"
    BY DEF Now
<1> HIDE DEF w, clean
<1>11. FailedBy(w, failed) = failed
    BY <1>10 DEF FailedBy
<1>12. Whole(w, given', failed, clean)
    BY <1>4, <1>6, <1>7, <1>8, <1>9, <1>10, <1>11 DEF Whole, NoneLost
<1>13. (faults = 0 /\ phase = "created")' => clean
    BY <1>1 DEF clean
<1>14. Whole(Now, given, failed, faults = 0 /\ phase = "created")'
    BY <1>1, <1>10, <1>11, <1>12, <1>13, ReturnedWhole
<1> QED BY <1>1, <1>2, <1>14 DEF OutputInv

(* A call that returns w, by which no write failed if none is counted.         *)
LEMMA ReturnsKeepsWhole ==
    ASSUME OutputInv, phase = "created", UNCHANGED <<setup, phase, given>>, IInv', faults' \in Nat,
           NEW w, Returns(w), Whole(w, given, failed, faults' = 0)
    PROVE  OutputInv'
<1>1. /\ enc' = w.enc /\ seqs' = w.seqs /\ made' = w.made /\ failed' = FailedBy(w, failed)
    BY DEF Returns, FailedBy
<1>2. (faults = 0 /\ phase = "created")' => faults' = 0
    OBVIOUS
<1>3. Whole(Now, given, failed, faults = 0 /\ phase = "created")'
    BY <1>1, <1>2, ReturnedWhole
<1> QED BY <1>3 DEF OutputInv

LEMMA FinalizeEncodeKeepsWhole ==
    ASSUME OutputInv, FinalizeEncode
    PROVE  OutputInv'
<1> DEFINE called == [Now EXCEPT !.enc.finalizeCalled = TRUE]
           clean == faults' = 0
<1>1. PICK bad \in Faulty :
        /\ Returns(IF GeneratingTemporalUnits(enc) THEN called ELSE Finalize(called, bad))
        /\ Faults({bad})
    BY DEF FinalizeEncode
<1>2. phase = "created" /\ UNCHANGED <<setup, phase, given>>
    BY DEF FinalizeEncode
<1>3. IInv'
    BY FinalizeEncodeKeeps DEF OutputInv
<1>4. faults' \in Nat /\ (clean => faults = 0 /\ bad = None)
    BY <1>1, FaultsCounted, FS_Singleton DEF OutputInv
<1>5. /\ DOMAIN called = DOMAIN Now /\ called.seqs = seqs /\ called.made = made
      /\ called.failed = "none" /\ called.enc = [enc EXCEPT !.finalizeCalled = TRUE]
    BY DEF Now
<1> HIDE DEF called, clean
<1>6. IsEnc(enc) /\ Sound(Now) /\ Whole(Now, given, failed, clean)
    <2>1. clean => faults = 0 /\ phase = "created"
        BY <1>2, <1>4
    <2> QED BY <2>1, NowIsWhole, WholeAfterFault, NowFields DEF Sound, IsCall
<1>7. /\ called.enc.finalizeCalled = TRUE
      /\ \A x \in EncFields \ {"finalizeCalled"} : called.enc[x] = enc[x]
      /\ DOMAIN called.enc = DOMAIN enc
    BY <1>5, <1>6 DEF IsEnc, EncFields
<1>8. /\ called.enc.encoded = enc.encoded /\ called.enc.cached = enc.cached
      /\ called.enc.block = enc.block /\ called.enc.next = enc.next
      /\ called.enc.temp = enc.temp /\ called.enc.metadata = enc.metadata
      /\ called.enc.padding = enc.padding /\ called.enc.popped = enc.popped
      /\ called.enc.state = enc.state /\ called.enc.finalizer = enc.finalizer
      /\ called.enc.encoders = enc.encoders /\ called.enc.arbitrary = enc.arbitrary
      /\ called.enc.mixFinalized = enc.mixFinalized
      /\ called.enc.sequencersFinalized = enc.sequencersFinalized
    BY <1>7 DEF EncFields
<1>9. GeneratingTemporalUnits(called.enc) <=> GeneratingTemporalUnits(enc)
    BY <1>8, Zenon DEF GeneratingTemporalUnits
<1>10. Sound(called)
    <2>1. IsEnc(called.enc)
        BY <1>6, <1>7, <1>8 DEF IsEnc
    <2> QED BY <1>5, <1>6, <1>8, <1>9, <2>1, NowFields DEF Sound, IsCall
<1>11. Whole(called, given, failed, clean)
    <2>1. /\ FramesAccounted(enc, given) /\ BlocksFollow(enc, enc.popped)
          /\ FinalizedLast(enc) /\ UnitsFollow(made, enc.popped, enc.arbitrary)
          /\ FailuresExplained(failed, made, enc.arbitrary, clean) /\ NoneLost(Now, clean)
        <3>1. FailedBy(Now, failed) = failed
            BY NowFields DEF FailedBy, Ok
        <3> QED BY <1>6, <3>1, NowFields DEF Whole
    <2>2. FramesAccounted(called.enc, given)
        BY <1>7, <1>8, <2>1, Zenon DEF FramesAccounted
    <2>3. BlocksFollow(called.enc, called.enc.popped)
        BY <1>8, <2>1, Zenon DEF BlocksFollow
    <2>4. FinalizedLast(called.enc)
        BY <1>8, <1>9, <2>1, Zenon DEF FinalizedLast
    <2>5. NoneLost(called, clean)
        BY <1>5, <1>8, <2>1, NowFields, Zenon DEF NoneLost
    <2>6. FailedBy(called, failed) = failed
        BY <1>5 DEF FailedBy
    <2> QED BY <1>5, <1>8, <2>1, <2>2, <2>3, <2>4, <2>5, <2>6 DEF Whole
<1>12. CASE GeneratingTemporalUnits(enc)
    <2>1. Returns(called)
        BY <1>1, <1>12
    <2> QED BY <1>2, <1>3, <1>4, <1>11, <2>1, ReturnsKeepsWhole DEF clean
<1>13. CASE ~GeneratingTemporalUnits(enc)
    <2> DEFINE v == Finalize(called, bad)
    <2>1. Returns(v)
        BY <1>1, <1>13
    <2>2. Ok(called) /\ FinalizedLast(called.enc) /\ NoneLost(called, clean)
        BY <1>5, <1>11 DEF Whole, Ok
    <2>3. Closes(called, v, clean)
        BY <1>4, <1>9, <1>10, <1>13, <2>2, FinalizeCloses
    <2>4. Whole(v, given, failed, clean)
        BY <1>11, <2>2, <2>3, ClosingKeepsWhole
    <2> HIDE DEF v
    <2> QED BY <1>2, <1>3, <1>4, <2>1, <2>4, ReturnsKeepsWhole DEF clean
<1> QED BY <1>12, <1>13

(* The block that is due was passed, or is with the encoder already.           *)
LEMMA BlockWasPassed ==
    ASSUME OutputInv, CallOutput
    PROVE  Passed(enc, given)
<1>1. BlocksFollow(enc, enc.popped) /\ FramesAccounted(enc, given)
    BY NowIsWhole, NowFields DEF Whole
<1>2. Total = given + setup.padding
    BY NowIsWhole, SetupFacts DEF Total
<1> SUFFICES ASSUME setup.covered, enc.encoded < given + setup.padding
             PROVE  enc.metadata # None \/ enc.block = enc.encoded
                        \/ enc.encoded \in Range(enc.temp)
    BY DEF Passed
<1>3. /\ enc.next = enc.encoded /\ enc.encoded \in Nat
      /\ enc.metadata \in Nat \union {None} /\ None \notin Nat
    BY <1>1 DEF BlocksFollow, FramesAccounted, None
<1>4. CASE enc.encoded \in {enc.block, enc.metadata} \union Range(enc.temp)
    BY <1>3, <1>4
<1>5. CASE enc.encoded \notin {enc.block, enc.metadata} \union Range(enc.temp)
    <2>1. enc.encoded >= enc.next
        BY <1>3
    <2>2. enc.encoded < Total + 0
        <3>1. given \in Nat /\ setup.padding \in Nat
            BY <1>1, NowIsWhole, SetupFacts DEF FramesAccounted
        <3> QED BY <1>2, <3>1
    <2>3. BlockDue(FALSE)
        BY <1>5, <2>1, <2>2, Zenon DEF BlockDue
    <2> QED BY <2>3 DEF CallOutput
<1> QED BY <1>4, <1>5

LEMMA OutputTemporalUnitKeepsWhole ==
    ASSUME OutputInv, OutputTemporalUnit
    PROVE  OutputInv'
<1> DEFINE clean == faults' = 0
<1>1. PICK badPush \in Faulty, badClose \in Faulty :
        Returns(Output(Now, badPush, badClose)) /\ Faults({badPush, badClose})
    BY DEF OutputTemporalUnit
<1>2. phase = "created" /\ UNCHANGED <<setup, phase, given>> /\ CallOutput
    BY DEF OutputTemporalUnit, CallOutput
<1>3. IInv'
    BY OutputTemporalUnitKeeps DEF OutputInv
<1>4. faults' \in Nat /\ (clean => faults = 0 /\ badPush = None /\ badClose = None)
    <2>1. IsFiniteSet({badPush, badClose})
        <3>1. IsFiniteSet({badPush}) /\ {badPush, badClose} = {badPush} \union {badClose}
            BY FS_Singleton
        <3> QED BY <3>1, FS_AddElement
    <2> QED BY <1>1, <2>1, FaultsCounted DEF OutputInv
<1> HIDE DEF clean
<1>5. /\ setup \in Setups /\ Sound(Now) /\ Ok(Now) /\ Whole(Now, given, failed, clean)
    <2>1. clean => faults = 0 /\ phase = "created"
        BY <1>2, <1>4
    <2> QED BY <2>1, NowIsWhole, WholeAfterFault
<1>6. Passed(Now.enc, given)
    BY <1>2, BlockWasPassed, NowFields
<1> DEFINE v == Output(Now, badPush, badClose)
<1>7. Whole(v, given, failed, clean)
    BY <1>4, <1>5, <1>6, OutputKeeps
<1>8. Returns(v)
    BY <1>1
<1> HIDE DEF v
<1> QED BY <1>2, <1>3, <1>4, <1>7, <1>8, ReturnsKeepsWhole DEF clean

LEMMA OutputInvHolds == Spec => []OutputInv
<1>1. OutputInv /\ [Next]_vars => OutputInv'
    <2> SUFFICES ASSUME OutputInv, [Next]_vars
                 PROVE  OutputInv'
        OBVIOUS
    <2>1. CASE UNCHANGED vars
        <3>1. IInv'
            BY NextKeeps DEF OutputInv
        <3>2. UNCHANGED <<setup, phase, enc, seqs, given, made, failed, faults>>
            BY <2>1 DEF vars
        <3>3. FailedBy(Now, failed) = failed
            BY NowFields DEF FailedBy, Ok
        <3>4. (faults = 0 /\ phase = "created")' => faults = 0 /\ phase = "created"
            BY <3>2
        <3>5. Whole(Now, given, failed, faults = 0 /\ phase = "created")'
            BY <3>2, <3>3, <3>4, NowIsWhole, NowFields, ReturnedWhole
        <3> QED BY <3>1, <3>2, <3>5 DEF OutputInv
    <2> QED BY <2>1, CreateKeepsWhole, EncodeKeepsWhole, FinalizeEncodeKeepsWhole,
               OutputTemporalUnitKeepsWhole DEF Next
<1> QED BY <1>1, InitIsWhole, PTL DEF Spec

(* What is given comes out, once and in order, with the blocks and arbitrary   *)
(* OBUs that belong to it, whatever latency and padding the codecs have; and   *)
(* what does not come out was refused by a call that failed, for a reason      *)
(* outside of the encoder.                                                     *)
THEOREM OutputAlwaysComplete == Spec => []OutputIsComplete
<1>1. OutputInv => OutputIsComplete
    <2> SUFFICES ASSUME OutputInv
                 PROVE  OutputIsComplete
        OBVIOUS
    <2> DEFINE clean == faults = 0 /\ phase = "created"
    <2>1. /\ setup \in Setups /\ IsEnc(enc) /\ Agree(seqs, made)
          /\ FramesAccounted(enc, given) /\ BlocksFollow(enc, enc.popped)
          /\ FinalizedLast(enc) /\ UnitsFollow(made, enc.popped, enc.arbitrary)
          /\ FailuresExplained(failed, made, enc.arbitrary, clean)
        <3>1. FailedBy(Now, failed) = failed
            BY NowFields DEF FailedBy, Ok
        <3> QED BY <3>1, NowIsWhole, NowFields DEF Whole, Sound, IsCall
    <2>2. TypeOK
        <3>1. {enc.finalizeCalled, enc.cached, enc.mixFinalized, enc.sequencersFinalized,
               enc.encoders} \subseteq BOOLEAN
            BY <2>1 DEF IsEnc, FramesAccounted
        <3>2. /\ {enc.metadata, enc.block} \subseteq Nat \union {None}
              /\ enc.temp \in Seq(Nat) /\ enc.next \in Nat
            BY <2>1 DEF BlocksFollow
        <3>3. /\ enc.padding \in 0..setup.padding /\ 0 <= enc.popped /\ enc.popped <= enc.encoded
              /\ enc.state \in {"taking", "finalizeCalled", "flushing"}
            BY <2>1 DEF FramesAccounted
        <3>4. enc.arbitrary \subseteq DOMAIN setup.arbitrary
            BY <2>1 DEF UnitsFollow
        <3>5. enc.finalizer \in {"accepting", "finalizeCalled", "flushed"}
            BY <2>1 DEF FinalizedLast
        <3>6. \A i \in 1..N : /\ seqs[i].phase \in {"none", "open", "complete", "discarded"}
                              /\ seqs[i].descriptors \in {"none", "preliminary", "final"}
            BY <2>1 DEF Agree, Sequencer
        <3> QED BY <2>1, <3>1, <3>2, <3>3, <3>4, <3>5, <3>6 DEF TypeOK, OutputInv
    <2>3. UnitsComplete
        <3>1. ASSUME NEW i \in DOMAIN made, made[i].frame
              PROVE  /\ made[i].time = FramesBefore(i)
                     /\ made[i].blocks = IF setup.covered THEN {made[i].time} ELSE {}
            <4>1. EarlierFrames(made, i) = {j \in DOMAIN made : j < i /\ made[j].frame}
                BY DEF EarlierFrames
            <4> QED BY <2>1, <3>1, <4>1, Zenon DEF UnitsFollow, FramesBefore
        <3>2. /\ \A i, j \in DOMAIN made :
                    i # j => made[i].arbitrary \intersect made[j].arbitrary = {}
              /\ \A i \in DOMAIN made : made[i].arbitrary \subseteq {made[i].time}
            BY <2>1, Zenon DEF UnitsFollow
        <3>3. ASSUME failed = {}, enc.finalizeCalled, ~GeneratingTemporalUnits(enc)
              PROVE  /\ FramesBefore(Len(made) + 1) = Total
                     /\ DOMAIN setup.arbitrary = ArbitraryMade
            <4>1. enc.state # "taking" /\ ~enc.encoders /\ enc.arbitrary = {}
                BY <3>3 DEF GeneratingTemporalUnits
            <4>2. enc.padding = 0 /\ enc.popped = enc.encoded /\ ~enc.cached
                BY <2>1, <4>1 DEF IsEnc, FramesAccounted
            <4>3. enc.popped = given + setup.padding
                <5>1. enc.encoded \in Nat
                    BY <2>1 DEF FramesAccounted
                <5>2. enc.encoded + 0 + 0 = given + setup.padding
                    BY <2>1, <4>2 DEF FramesAccounted
                <5> QED BY <4>2, <5>1, <5>2
            <4>4. Total = given + setup.padding
                BY <2>1, SetupFacts DEF Total
            <4>5. {j \in DOMAIN made : j < Len(made) + 1 /\ made[j].frame} = FramePlaces(made)
                <5>1. made \in Seq(Range(made))
                    BY <2>1 DEF UnitsFollow
                <5>2. \A j \in DOMAIN made : j < Len(made) + 1
                    BY <5>1
                <5> QED BY <5>2 DEF FramePlaces
            <4>6. Cardinality(FramePlaces(made)) = enc.popped
                BY <2>1 DEF UnitsFollow
            <4>7. FramesBefore(Len(made) + 1) = Total
                BY <4>3, <4>4, <4>5, <4>6 DEF FramesBefore
            <4>8. Gone(made, enc.arbitrary) = {}
                BY <2>1, <3>3 DEF FailuresExplained
            <4>9. MadeOf(made) \subseteq DOMAIN setup.arbitrary /\ MadeOf(made) = ArbitraryMade
                BY <2>1 DEF UnitsFollow, MadeOf, ArbitraryMade
            <4> QED BY <4>1, <4>7, <4>8, <4>9 DEF Gone
        <3> QED BY <3>1, <3>2, <3>3 DEF UnitsComplete
    <2>4. OnlyFaultsFail
        <3> DEFINE lost == {t \in DOMAIN setup.arbitrary \ ArbitraryMade : ~setup.arbitrary[t]}
        <3>1. "sequencer" \in failed => faults > 0
            BY <2>1 DEF FailuresExplained, OutputInv
        <3>2. "loudness" \in failed \/ "finalizer" \in failed => setup.loud
            BY <2>1 DEF FailuresExplained
        <3>3. "view" \in failed => "view" \in {"view" : t \in lost}
            <4> SUFFICES ASSUME "view" \in failed
                         PROVE  \E t \in lost : TRUE
                OBVIOUS
            <4>1. PICK t \in Gone(made, enc.arbitrary) : ~setup.arbitrary[t]
                BY <2>1 DEF FailuresExplained
            <4>2. t \in DOMAIN setup.arbitrary \ ArbitraryMade
                BY <4>1 DEF Gone, MadeOf, ArbitraryMade
            <4> QED BY <4>1, <4>2
        <3>4. failed \subseteq {"sequencer", "loudness", "finalizer", "view"}
            BY <2>1 DEF FailuresExplained
        <3> QED BY <3>1, <3>2, <3>3, <3>4 DEF OnlyFaultsFail
    <2> QED BY <2>2, <2>3, <2>4 DEF OutputIsComplete
<1> QED BY <1>1, OutputInvHolds, PTL
=============================================================================
