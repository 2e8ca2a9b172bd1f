-------------------------- MODULE ObuProcessor_proofs -------------------------
(* What holds of the temporal units whatever the stream: any OBUs in any order *)
(* and number, any substreams and parameters, and any way of receiving them;   *)
(* and, in the second half, what holds of regular streams.                     *)
EXTENDS ObuProcessor, DataInduction, SequenceTheorems

Clocked == [timestamp : Nat, frames : Seq(Timed), blocks : Seq(Timed)]
Assembled == [frames : Seq(Timed), blocks : Seq(Timed), delimiter : BOOLEAN,
              timestamp : Nat \union {None}]

(* A unit has a time if and only if there is something in it, and all that is  *)
(* in it has that time.                                                        *)
UnitOK(u) ==
    /\ u \in Assembled
    /\ u.timestamp = None <=> IsEmpty(u)
    /\ \A j \in 1..Len(u.frames) : u.frames[j].start = u.timestamp
    /\ \A j \in 1..Len(u.blocks) : u.blocks[j].start = u.timestamp

(* At the end of an iteration nothing is in the next unit: what was put there  *)
(* finished the current one.                                                   *)
UnitInv == /\ UnitOK(current) /\ next = EmptyUnit
           /\ units \in Seq(Clocked) /\ OneTimestamp

InFrames(u, d) == \E j \in 1..Len(u.frames) : u.frames[j] = d
InBlocks(u, d) == \E j \in 1..Len(u.blocks) : u.blocks[j] = d
HasFrame(d) == InFrames(current, d) \/ \E i \in 1..Len(units) : InFrames(units[i], d)
HasBlock(d) == InBlocks(current, d) \/ \E i \in 1..Len(units) : InBlocks(units[i], d)

(* The clock of a substream is at the end of its last frame.                   *)
ClockInv ==
    \A s \in Substreams :
        \/ /\ frameClock[s] = 0
           /\ \A j \in 1..Len(accepted) : accepted[j].id # s
        \/ \E j \in 1..Len(accepted) :
              /\ accepted[j].id = s
              /\ \A k \in 1..Len(accepted) : accepted[k].id = s => k <= j
              /\ frameClock[s] = accepted[j].start + FrameSize
AcceptedInv ==
    \A j \in 1..Len(accepted) :
        /\ accepted[j].id \in Substreams /\ accepted[j].index \in 1..position
        /\ accepted[j].start + FrameSize <= frameClock[accepted[j].id]

(* What is in the units was read, and a block before the frames it is for.     *)
HeldInv ==
    \A d \in Timed :
        /\ HasFrame(d) => d.index \in 1..position
        /\ HasBlock(d) =>
              /\ d.index \in 1..position
              /\ \A j \in 1..Len(accepted) :
                    accepted[j].start >= d.start => accepted[j].index > d.index

ReadingOK ==
    /\ stream \in [obus : Seq(Obu), ends : Seq(Nat), regular : BOOLEAN]
    /\ position \in 0..Len(stream.obus)
    /\ frameClock \in [Substreams -> Nat] /\ blockClock \in [ParameterIds -> Nat]
    /\ accepted \in Seq(Timed)

(* The inductive invariant, about the work of the processor only: neither what *)
(* was received nor how it is called matters.                                  *)
WorkInv == /\ ReadingOK /\ UnitInv /\ ClockInv /\ AcceptedInv /\ HeldInv
           /\ Contiguous /\ NothingLost

work == <<stream, position, frameClock, blockClock, current, next, units, accepted>>

ControlOK == /\ received \in 0..Len(stream.obus) /\ position <= received
             /\ eos \in BOOLEAN /\ pc \in {"returned", "processing", "failed"}
-------------------------------------------------------------------------------
(* How an iteration ends: the unit u is kept, or it is output and n follows.   *)
Moves(u, n) ==
    \/ /\ n = EmptyUnit /\ current' = u /\ next' = EmptyUnit /\ units' = units
       /\ pc' \in {"returned", "processing"}
    \/ /\ ~IsEmpty(u) /\ current' = n /\ next' = EmptyUnit
       /\ units' = Append(units, Output(u))
       /\ pc' = "returned"

LEMMA EmptyUnitOK == UnitOK(EmptyUnit) /\ IsEmpty(EmptyUnit)
BY DEF UnitOK, EmptyUnit, IsEmpty, Assembled

LEMMA AppendedAt ==
    ASSUME NEW S, NEW seq \in Seq(S), NEW e \in S, NEW i \in 1..Len(Append(seq, e))
    PROVE  \/ (i = Len(seq) + 1 /\ Append(seq, e)[i] = e)
           \/ (i \in 1..Len(seq) /\ Append(seq, e)[i] = seq[i])
OBVIOUS

LEMMA OutputType ==
    ASSUME NEW u, UnitOK(u), ~IsEmpty(u)
    PROVE  Output(u) \in Clocked
BY DEF UnitOK, Output, Assembled, Clocked

LEMMA Collected ==
    ASSUME NEW u, UnitOK(u), NEW n, UnitOK(n), NEW s, NEW t, Collect(u, n, s, t),
           n = EmptyUnit \/ (~IsEmpty(u) /\ ~IsEmpty(n))
    PROVE  Moves(u, n)
<1>1. CASE n = EmptyUnit
  <2>1. CASE Finished(u, n, s, t) /\ ~IsEmpty(u)
    BY <1>1, <2>1 DEF Collect, Moves, Following
  <2>2. CASE ~(Finished(u, n, s, t) /\ ~IsEmpty(u))
    BY <1>1, <2>2 DEF Collect, Moves
  <2>. QED
    BY <2>1, <2>2
<1>2. CASE ~IsEmpty(u) /\ ~IsEmpty(n)
  <2>1. Finished(u, n, s, t)
    BY <1>2 DEF UnitOK, Finished
  <2>. QED
    BY <1>2, <2>1 DEF Collect, Moves, Following
<1>. QED
  BY <1>1, <1>2

(* The units stay what they are.                                               *)
LEMMA MovedUnits ==
    ASSUME UnitInv, NEW u, UnitOK(u), NEW n, UnitOK(n), Moves(u, n)
    PROVE  UnitInv'
<1>1. CASE units' = units /\ current' = u
  BY <1>1 DEF Moves, UnitInv, UnitOK, IsEmpty, OneTimestamp, EmptyUnit
<1>2. CASE ~IsEmpty(u) /\ current' = n /\ units' = Append(units, Output(u))
  <2>1. next' = EmptyUnit'
    BY DEF Moves, EmptyUnit
  <2>2. UnitOK(current)'
    BY <1>2 DEF UnitOK, IsEmpty
  <2>3. Output(u) \in Clocked
    BY <1>2, OutputType
  <2>4. units' \in Seq(Clocked)
    BY <1>2, <2>3 DEF UnitInv
  <2>5. ASSUME NEW i \in 1..Len(units')
        PROVE  /\ \A j \in 1..Len(units'[i].frames) : units'[i].frames[j].start = units'[i].timestamp
               /\ \A j \in 1..Len(units'[i].blocks) : units'[i].blocks[j].start = units'[i].timestamp
    <3>1. CASE i = Len(units) + 1
      <4>1. units'[i] = Output(u)
        BY <1>2, <3>1 DEF UnitInv
      <4>. QED
        BY <4>1 DEF Output, UnitOK
    <3>2. CASE i # Len(units) + 1
      <4>1. i \in 1..Len(units) /\ units'[i] = units[i]
        BY <1>2, <2>3, <3>2 DEF UnitInv
      <4>. QED
        BY <4>1 DEF UnitInv, OneTimestamp
    <3>. QED
      BY <3>1, <3>2
  <2>. QED
    BY <2>1, <2>2, <2>4, <2>5 DEF UnitInv, OneTimestamp
<1>. QED
  BY <1>1, <1>2 DEF Moves

(* Nothing comes into the units but what is put into u or n.                   *)
LEMMA MovedContents ==
    ASSUME UnitInv, NEW u, UnitOK(u), NEW n, UnitOK(n), Moves(u, n), NEW d
    PROVE  /\ HasFrame(d)' => HasFrame(d) \/ InFrames(u, d) \/ InFrames(n, d)
           /\ HasBlock(d)' => HasBlock(d) \/ InBlocks(u, d) \/ InBlocks(n, d)
<1>1. CASE units' = units /\ current' = u
  BY <1>1 DEF HasFrame, HasBlock, InFrames, InBlocks
<1>2. CASE ~IsEmpty(u) /\ current' = n /\ units' = Append(units, Output(u))
  <2>1. ASSUME NEW i \in 1..Len(units')
        PROVE  units'[i] = Output(u) \/ (i \in 1..Len(units) /\ units'[i] = units[i])
    <3>1. Output(u) \in Clocked
      BY <1>2, OutputType
    <3>2. units \in Seq(Clocked)
      BY DEF UnitInv
    <3>. QED
      BY <1>2, <3>1, <3>2, AppendedAt
  <2>2. Output(u).frames = u.frames /\ Output(u).blocks = u.blocks
    BY DEF Output
  <2>. QED
    BY <1>2, <2>1, <2>2 DEF HasFrame, HasBlock, InFrames, InBlocks
<1>. QED
  BY <1>1, <1>2 DEF Moves
-------------------------------------------------------------------------------
(* FramesOutput is defined by recursion; these are the equations it satisfies. *)
FramesEquations ==
    /\ FramesOutput \in [0..Len(units) -> Seq(Timed)]
    /\ FramesOutput[0] = <<>>
    /\ \A k \in 1..Len(units) : FramesOutput[k] = FramesOutput[k - 1] \o units[k].frames

LEMMA FramesOutputIsDefined == units \in Seq(Clocked) => FramesEquations
<1>. SUFFICES ASSUME units \in Seq(Clocked) PROVE FramesEquations
  OBVIOUS
<1>. DEFINE N == Len(units)
            V == Seq(Timed)
            step == [k \in 1..N |-> [v \in V |-> v \o units[k].frames]]
<1>1. \A k \in 1..N : units[k].frames \in V
  <2>1. \A k \in 1..N : units[k] \in Clocked
    OBVIOUS
  <2>. QED
    BY <2>1 DEF Clocked
<1>2. \A k \in 1..N : [v \in V |-> v \o units[k].frames] \in [V -> V]
  BY <1>1
<1>3. step \in StepsTo(N, V) /\ N \in Nat /\ <<>> \in V
  BY <1>2 DEF StepsTo
<1>4. \A k \in 1..N : \A v \in V : step[k][v] = v \o units[k].frames
  BY DEF step
<1>. HIDE DEF step, V
<1>5. PICK f : IteratesTo(f, N, V, <<>>, step)
  BY <1>3, PositionRecursion
<1>6. /\ f \in [0..N -> V] /\ f[0] = <<>>
      /\ \A k \in 1..N : f[k] = f[k - 1] \o units[k].frames
  <2>1. \A k \in 1..N : k - 1 \in 0..N
    BY <1>3
  <2>. QED
    BY <1>4, <1>5, <2>1 DEF IteratesTo
<1>7. f = [k \in 0..N |-> IF k = 0 THEN <<>> ELSE f[k - 1] \o units[k].frames]
  <2>1. \A k \in 0..N : f[k] = IF k = 0 THEN <<>> ELSE f[k - 1] \o units[k].frames
    BY <1>3, <1>6
  <2>. QED
    BY <1>6, <2>1
<1>8. FramesOutput = [k \in 0..N |-> IF k = 0 THEN <<>> ELSE FramesOutput[k - 1] \o units[k].frames]
  BY <1>7 DEF FramesOutput
<1>9. FramesOutput \in [0..N -> V]
  <2>. DEFINE S == {k \in Nat : k <= N => FramesOutput[k] \in V}
  <2>1. 0 \in S
    BY <1>3, <1>8
  <2>2. ASSUME NEW k \in Nat, k \in S PROVE k + 1 \in S
    <3>. SUFFICES ASSUME k + 1 <= N PROVE FramesOutput[k + 1] \in V
      OBVIOUS
    <3>1. FramesOutput[k] \in V /\ units[k + 1].frames \in V
      BY <1>1, <1>3, <2>2
    <3>2. k + 1 \in 0..N /\ k + 1 # 0 /\ (k + 1) - 1 = k
      BY <1>3
    <3>3. FramesOutput[k + 1] = FramesOutput[k] \o units[k + 1].frames
      BY <1>8, <3>2
    <3>. QED
      BY <3>1, <3>3 DEF V
  <2>. HIDE DEF S
  <2>3. \A k \in Nat : k \in S
    BY <2>1, <2>2, NumberInduction
  <2>4. \A k \in 0..N : FramesOutput[k] \in V
    BY <1>3, <2>3 DEF S
  <2>. QED
    BY <1>8, <2>4
<1>10. FramesOutput[0] = <<>>
  BY <1>3, <1>8
<1>11. \A k \in 1..N : FramesOutput[k] = FramesOutput[k - 1] \o units[k].frames
  <2>1. \A k \in 1..N : k \in 0..N /\ k # 0
    BY <1>3
  <2>. QED
    BY <1>8, <2>1
<1>. QED
  BY <1>9, <1>10, <1>11 DEF FramesEquations, V

(* What is held and what was output, one after the other.                      *)
FramesHeld == FramesOutput[Len(units)] \o current.frames \o next.frames

LEMMA MovedFrames ==
    ASSUME UnitInv, NEW u, UnitOK(u), NEW n, UnitOK(n), Moves(u, n), UnitInv'
    PROVE  FramesHeld' = FramesOutput[Len(units)] \o u.frames \o n.frames
<1>0. FramesEquations /\ FramesEquations'
  <2>1. units \in Seq(Clocked) /\ (units \in Seq(Clocked))'
    BY DEF UnitInv
  <2>2. (units \in Seq(Clocked))' => FramesEquations'
    BY FramesOutputIsDefined, PTL
  <2>. QED
    BY <2>1, <2>2, FramesOutputIsDefined
<1>. DEFINE N == Len(units)
<1>t. N \in Nat /\ u.frames \in Seq(Timed) /\ n.frames \in Seq(Timed)
  BY DEF UnitInv, UnitOK, Assembled
<1>1. CASE units' = units /\ current' = u /\ n = EmptyUnit /\ next' = EmptyUnit
  <2>1. FramesOutput' = FramesOutput
    BY <1>1 DEF FramesOutput
  <2>. QED
    BY <1>1, <2>1 DEF FramesHeld
<1>2. CASE units' = Append(units, Output(u)) /\ ~IsEmpty(u) /\ current' = n /\ next' = EmptyUnit
  <2>1. Output(u) \in Clocked
    BY <1>2, OutputType
  <2>2. units \in Seq(Clocked)
    BY DEF UnitInv
  <2>3. Len(units') = N + 1 /\ units'[N + 1] = Output(u)
    BY <1>2, <2>1, <2>2
  <2>4. \A k \in 1..N : units'[k] = units[k]
    BY <1>2, <2>1, <2>2
  <2>5. \A k \in 0..N : FramesOutput'[k] = FramesOutput[k]
    <3>. DEFINE S == {k \in Nat : k <= N => FramesOutput'[k] = FramesOutput[k]}
    <3>1. 0 \in S
      BY <1>0 DEF FramesEquations
    <3>2. ASSUME NEW k \in Nat, k \in S PROVE k + 1 \in S
      <4>. SUFFICES ASSUME k + 1 <= N PROVE FramesOutput'[k + 1] = FramesOutput[k + 1]
        OBVIOUS
      <4>1. k + 1 \in 1..N /\ k + 1 \in 1..Len(units') /\ (k + 1) - 1 = k
        BY <1>t, <2>3
      <4>2. FramesOutput[k + 1] = FramesOutput[k] \o units[k + 1].frames
        BY <1>0, <4>1 DEF FramesEquations
      <4>3. FramesOutput'[k + 1] = FramesOutput'[k] \o units'[k + 1].frames
        BY <1>0, <4>1 DEF FramesEquations
      <4>4. FramesOutput'[k] = FramesOutput[k]
        BY <1>t, <3>2
      <4>. QED
        BY <2>4, <4>1, <4>2, <4>3, <4>4
    <3>. HIDE DEF S
    <3>3. \A k \in Nat : k \in S
      BY <3>1, <3>2, NumberInduction
    <3>. QED
      BY <3>3, <1>t DEF S
  <2>6. FramesOutput'[N + 1] = FramesOutput[N] \o u.frames
    <3>1. N + 1 \in 1..Len(units') /\ (N + 1) - 1 = N /\ N \in 0..N
      BY <1>t, <2>3
    <3>2. FramesOutput'[N + 1] = FramesOutput'[N] \o units'[N + 1].frames
      BY <1>0, <3>1 DEF FramesEquations
    <3>3. units'[N + 1].frames = u.frames
      BY <2>3 DEF Output
    <3>. QED
      BY <2>5, <3>1, <3>2, <3>3
  <2>7. FramesOutput[N] \in Seq(Timed)
    <3>1. N \in 0..N
      BY <1>t
    <3>. QED
      BY <1>0, <3>1 DEF FramesEquations
  <2>8. FramesHeld' = (FramesOutput[N] \o u.frames) \o n.frames \o <<>>
    BY <1>2, <2>3, <2>6 DEF FramesHeld, EmptyUnit
  <2>9. \A s \in Seq(Timed) : s \o <<>> = s
    OBVIOUS
  <2>10. (FramesOutput[N] \o u.frames) \o n.frames \in Seq(Timed)
    BY <1>t, <2>7
  <2>. QED
    BY <2>8, <2>9, <2>10
<1>. QED
  BY <1>1, <1>2 DEF Moves
-------------------------------------------------------------------------------
(* A frame is given a time.                                                    *)
Accepts(d) ==
    /\ d \in Timed /\ d.id \in Substreams
    /\ d.start = frameClock[d.id] /\ d.index = position + 1
    /\ position' = position + 1
    /\ frameClock' = AdvancedFrameClock(d.id) /\ accepted' = Append(accepted, d)

LEMMA AcceptsFacts ==
    ASSUME ReadingOK, NEW d, Accepts(d)
    PROVE  /\ accepted' \in Seq(Timed) /\ Len(accepted) \in Nat
           /\ Len(accepted') = Len(accepted) + 1 /\ accepted'[Len(accepted) + 1] = d
           /\ \A j \in 1..Len(accepted) : accepted'[j] = accepted[j] /\ accepted[j] \in Timed
           /\ frameClock' \in [Substreams -> Nat]
           /\ frameClock'[d.id] = d.start + FrameSize
           /\ \A s \in Substreams \ {d.id} : frameClock'[s] = frameClock[s]
<1>1. d \in Timed /\ accepted \in Seq(Timed) /\ accepted' = Append(accepted, d)
  BY DEF Accepts, ReadingOK
<1>2. /\ frameClock \in [Substreams -> Nat] /\ d.id \in Substreams /\ d.start = frameClock[d.id]
      /\ frameClock' = [frameClock EXCEPT ![d.id] = @ + FrameSize]
  BY DEF Accepts, ReadingOK, AdvancedFrameClock
<1>3. frameClock' \in [Substreams -> Nat]
  BY <1>2, FrameSizeAssumption
<1>. QED
  BY <1>1, <1>2, <1>3

LEMMA AcceptsClocks ==
    ASSUME ReadingOK, ClockInv, AcceptedInv, NEW d, Accepts(d)
    PROVE  ClockInv' /\ AcceptedInv'
<1>. DEFINE N == Len(accepted)
<1>1. /\ N \in Nat /\ Len(accepted') = N + 1 /\ accepted'[N + 1] = d
      /\ \A j \in 1..N : accepted'[j] = accepted[j] /\ accepted[j] \in Timed
      /\ frameClock'[d.id] = d.start + FrameSize
      /\ \A s \in Substreams \ {d.id} : frameClock'[s] = frameClock[s]
  BY AcceptsFacts
<1>2. /\ position \in Nat /\ position' = position + 1 /\ d.index = position + 1
      /\ d.id \in Substreams /\ d.start \in Nat /\ d.start = frameClock[d.id]
      /\ \A s \in Substreams : frameClock[s] \in Nat
  BY DEF Accepts, ReadingOK, Timed
<1>3. \A j \in 1..(N + 1) : j \in 1..N \/ j = N + 1
  BY <1>1
<1>. HIDE DEF N
<1>4. ASSUME NEW s \in Substreams
      PROVE  \/ /\ frameClock'[s] = 0
                /\ \A j \in 1..Len(accepted') : accepted'[j].id # s
             \/ \E j \in 1..Len(accepted') :
                   /\ accepted'[j].id = s
                   /\ \A k \in 1..Len(accepted') : accepted'[k].id = s => k <= j
                   /\ frameClock'[s] = accepted'[j].start + FrameSize
  <2>1. CASE s = d.id
    <3>1. N + 1 \in 1..(N + 1) /\ \A k \in 1..(N + 1) : k <= N + 1
      BY <1>1
    <3>. QED
      BY <1>1, <2>1, <3>1
  <2>2. CASE s # d.id
    <3>1. CASE frameClock[s] = 0 /\ \A j \in 1..N : accepted[j].id # s
      BY <1>1, <1>3, <2>2, <3>1
    <3>2. CASE \E j \in 1..N : /\ accepted[j].id = s
                              /\ \A k \in 1..N : accepted[k].id = s => k <= j
                              /\ frameClock[s] = accepted[j].start + FrameSize
      <4>1. PICK j \in 1..N : /\ accepted[j].id = s
                              /\ \A k \in 1..N : accepted[k].id = s => k <= j
                              /\ frameClock[s] = accepted[j].start + FrameSize
        BY <3>2
      <4>2. j \in 1..(N + 1)
        BY <1>1
      <4>. QED
        BY <1>1, <1>3, <2>2, <4>1, <4>2
    <3>. QED
      BY <3>1, <3>2 DEF ClockInv, N
  <2>. QED
    BY <2>1, <2>2
<1>5. ASSUME NEW j \in 1..Len(accepted')
      PROVE  /\ accepted'[j].id \in Substreams /\ accepted'[j].index \in 1..position'
             /\ accepted'[j].start + FrameSize <= frameClock'[accepted'[j].id]
  <2>1. CASE j = N + 1
    BY <1>1, <1>2, <2>1, FrameSizeAssumption
  <2>2. CASE j \in 1..N
    <3>. DEFINE e == accepted[j]
    <3>1. accepted'[j] = e /\ e \in Timed
      BY <1>1, <2>2
    <3>2. /\ e.id \in Substreams /\ e.index \in 1..position /\ e.start \in Nat
          /\ e.start + FrameSize <= frameClock[e.id]
      BY <2>2, <3>1 DEF AcceptedInv, N, Timed
    <3>. HIDE DEF e
    <3>3. frameClock[e.id] <= frameClock'[e.id]
      BY <1>1, <1>2, <3>2, FrameSizeAssumption
    <3>4. frameClock'[e.id] \in Nat
      BY <1>1, <1>2, <3>2, FrameSizeAssumption
    <3>5. e.start + FrameSize <= frameClock'[e.id]
      <4>1. e.start + FrameSize \in Nat /\ frameClock[e.id] \in Nat
        BY <1>2, <3>2, FrameSizeAssumption
      <4>. QED
        BY <3>2, <3>3, <3>4, <4>1
    <3>6. e.index \in 1..position'
      BY <1>2, <3>2
    <3>. QED
      BY <3>1, <3>2, <3>5, <3>6
  <2>. QED
    BY <1>1, <1>3, <2>1, <2>2
<1>. QED
  BY <1>4, <1>5 DEF ClockInv, AcceptedInv

(* The new frame begins where the last one of its substream ended.             *)
LEMMA AcceptsContiguous ==
    ASSUME ReadingOK, ClockInv, Contiguous, NEW d, Accepts(d)
    PROVE  Contiguous'
<1>. DEFINE N == Len(accepted)
            Before(i) == {j \in 1..(i - 1) : accepted[j].id = accepted[i].id}
            BeforeNow(i) == {j \in 1..(i - 1) : accepted'[j].id = accepted'[i].id}
<1>1. /\ N \in Nat /\ Len(accepted') = N + 1 /\ accepted'[N + 1] = d
      /\ \A j \in 1..N : accepted'[j] = accepted[j] /\ accepted[j] \in Timed
  BY AcceptsFacts
<1>. SUFFICES ASSUME NEW i \in 1..Len(accepted')
              PROVE  IF BeforeNow(i) = {} THEN accepted'[i].start = 0
                     ELSE LET j == CHOOSE j \in BeforeNow(i) : \A k \in BeforeNow(i) : k <= j
                          IN accepted'[i].start = accepted'[j].start + FrameSize
  BY DEF Contiguous
<1>2. CASE i \in 1..N
  <2>1. \A j \in 1..(i - 1) : j \in 1..N
    BY <1>1, <1>2
  <2>2. BeforeNow(i) = Before(i) /\ accepted'[i] = accepted[i]
    BY <1>1, <1>2, <2>1
  <2>3. IF Before(i) = {} THEN accepted[i].start = 0
        ELSE LET j == CHOOSE j \in Before(i) : \A k \in Before(i) : k <= j
             IN accepted[i].start = accepted[j].start + FrameSize
    BY <1>2 DEF Contiguous
  <2>4. ASSUME Before(i) # {}
        PROVE  LET j == CHOOSE j \in Before(i) : \A k \in Before(i) : k <= j
               IN j \in Before(i)
    <3>. DEFINE j == CHOOSE j \in Before(i) : \A k \in Before(i) : k <= j
    <3>1. \E m \in Before(i) : \A k \in Before(i) : k <= m
      <4>1. Before(i) \subseteq 0..(i - 1) /\ i - 1 \in Nat
        BY <1>1, <1>2
      <4>. QED
        BY <2>4, <4>1, GreatestNumber
    <3>. QED
      BY <3>1
  <2>. QED
    <3>. HIDE DEF Before, BeforeNow
    <3>1. CASE Before(i) = {}
      BY <2>2, <2>3, <3>1
    <3>2. CASE Before(i) # {}
      <4>. DEFINE j == CHOOSE j \in Before(i) : \A k \in Before(i) : k <= j
      <4>1. accepted[i].start = accepted[j].start + FrameSize
        BY <2>3, <3>2
      <4>2. j \in Before(i)
        BY <2>4, <3>2
      <4>3. accepted'[j] = accepted[j]
        BY <1>1, <2>1, <4>2 DEF Before
      <4>. HIDE DEF j
      <4>4. accepted'[i].start = accepted'[j].start + FrameSize
        BY <2>2, <4>1, <4>3
      <4>. QED
        BY <2>2, <3>2, <4>4 DEF j
    <3>. QED
      BY <3>1, <3>2
<1>3. CASE i = N + 1
  <2>1. i - 1 = N /\ accepted'[i] = d
    BY <1>1, <1>3
  <2>2. BeforeNow(i) = {j \in 1..N : accepted[j].id = d.id}
    BY <1>1, <2>1
  <2>3. d.id \in Substreams /\ d.start = frameClock[d.id]
    BY DEF Accepts
  <2>. HIDE DEF BeforeNow
  <2>4. CASE frameClock[d.id] = 0 /\ \A j \in 1..N : accepted[j].id # d.id
    BY <2>1, <2>2, <2>3, <2>4
  <2>5. CASE \E j \in 1..N : /\ accepted[j].id = d.id
                            /\ \A k \in 1..N : accepted[k].id = d.id => k <= j
                            /\ frameClock[d.id] = accepted[j].start + FrameSize
    <3>1. PICK last \in 1..N : /\ accepted[last].id = d.id
                               /\ \A k \in 1..N : accepted[k].id = d.id => k <= last
                               /\ frameClock[d.id] = accepted[last].start + FrameSize
      BY <2>5
    <3>. DEFINE j == CHOOSE j \in BeforeNow(i) : \A k \in BeforeNow(i) : k <= j
    <3>2. last \in BeforeNow(i) /\ \A k \in BeforeNow(i) : k \in 1..N /\ k <= last
      BY <2>2, <3>1
    <3>3. j \in BeforeNow(i) /\ \A k \in BeforeNow(i) : k <= j
      BY <3>2
    <3>. HIDE DEF j
    <3>4. j = last
      BY <1>1, <3>2, <3>3
    <3>. QED
      BY <1>1, <2>1, <2>3, <3>1, <3>2, <3>4 DEF j
  <2>. QED
    BY <2>3, <2>4, <2>5 DEF ClockInv
<1>. QED
  BY <1>1, <1>2, <1>3

(* What is in the units after a step, and what it says of the frames accepted. *)
Precedes(d) == \A j \in 1..Len(accepted) :
                  accepted[j].start >= d.start => accepted[j].index > d.index

LEMMA HeldAfter ==
    ASSUME ReadingOK, UnitInv, HeldInv, position' \in Nat, position <= position',
           NEW u, UnitOK(u), NEW n, UnitOK(n), Moves(u, n),
           accepted' = accepted \/ \E e : Accepts(e),
           \A d \in Timed : InFrames(u, d) \/ InFrames(n, d)
                            => HasFrame(d) \/ d.index \in 1..position',
           \A d \in Timed : InBlocks(u, d) \/ InBlocks(n, d)
                            => HasBlock(d) \/ (d.index \in 1..position' /\ Precedes(d)')
    PROVE  HeldInv'
<1>. SUFFICES ASSUME NEW d \in Timed
              PROVE  /\ HasFrame(d)' => d.index \in 1..position'
                     /\ HasBlock(d)' => d.index \in 1..position' /\ Precedes(d)'
  BY DEF HeldInv, Precedes
<1>1. position \in Nat /\ d.index \in Nat
  BY DEF ReadingOK, Timed
<1>2. ASSUME HasFrame(d) PROVE d.index \in 1..position'
  BY <1>1, <1>2 DEF HeldInv
<1>3. ASSUME HasBlock(d) PROVE d.index \in 1..position' /\ Precedes(d)'
  <2>1. d.index \in 1..position /\ Precedes(d)
    BY <1>3 DEF HeldInv, Precedes
  <2>2. CASE accepted' = accepted
    BY <1>1, <2>1, <2>2 DEF Precedes
  <2>3. ASSUME NEW e, Accepts(e) PROVE Precedes(d)'
    <3>1. /\ Len(accepted) \in Nat /\ Len(accepted') = Len(accepted) + 1
          /\ accepted'[Len(accepted) + 1] = e
          /\ \A j \in 1..Len(accepted) : accepted'[j] = accepted[j]
      BY <2>3, AcceptsFacts
    <3>2. e.index > d.index
      BY <1>1, <2>1, <2>3 DEF Accepts
    <3>3. \A j \in 1..Len(accepted') : j \in 1..Len(accepted) \/ j = Len(accepted) + 1
      BY <3>1
    <3>. QED
      BY <2>1, <3>1, <3>2, <3>3 DEF Precedes
  <2>. QED
    BY <1>1, <2>1, <2>2, <2>3
<1>. QED
  BY <1>2, <1>3, MovedContents

LEMMA BlocksComeFirst ==
    ASSUME UnitInv, HeldInv
    PROVE  BlocksPrecedeFrames
<1>. SUFFICES ASSUME NEW i \in 1..Len(units), NEW b \in 1..Len(units[i].blocks),
                     NEW j \in 1..Len(accepted),
                     accepted[j].start >= units[i].blocks[b].start
              PROVE  accepted[j].index > units[i].blocks[b].index
  BY DEF BlocksPrecedeFrames
<1>1. units[i] \in Clocked
  BY DEF UnitInv
<1>2. units[i].blocks[b] \in Timed
  BY <1>1 DEF Clocked
<1>3. HasBlock(units[i].blocks[b])
  BY DEF HasBlock, InBlocks
<1>. QED
  BY <1>2, <1>3 DEF HeldInv

ContiguousIn(a) ==
    \A i \in 1..Len(a) :
        LET before == {j \in 1..(i - 1) : a[j].id = a[i].id}
        IN IF before = {} THEN a[i].start = 0
           ELSE LET j == CHOOSE j \in before : \A k \in before : k <= j
                IN a[i].start = a[j].start + FrameSize

LEMMA ContiguousStays == Contiguous /\ accepted' = accepted => Contiguous'
<1>1. Contiguous => ContiguousIn(accepted)
  BY DEF Contiguous, ContiguousIn
<1>2. ContiguousIn(accepted) /\ accepted' = accepted => ContiguousIn(accepted')
  OBVIOUS
<1>3. ContiguousIn(accepted') => Contiguous'
  BY DEF Contiguous, ContiguousIn
<1>. QED
  BY <1>1, <1>2, <1>3

(* Nothing is put into a unit.                                                 *)
LEMMA NothingAdded ==
    ASSUME WorkInv, NEW u, UnitOK(u), u.frames = current.frames, u.blocks = current.blocks,
           NEW s, NEW t, Collect(u, next, s, t),
           stream' = stream, frameClock' = frameClock, accepted' = accepted,
           blockClock' \in [ParameterIds -> Nat], position' \in position..Len(stream.obus)
    PROVE  WorkInv' /\ pc' \in {"returned", "processing"}
<1>. USE DEF WorkInv
<1>1. next = EmptyUnit /\ UnitOK(next)
  BY EmptyUnitOK DEF UnitInv
<1>2. Moves(u, next)
  BY <1>1, Collected
<1>3. UnitInv'
  BY <1>1, <1>2, MovedUnits
<1>4. ReadingOK' /\ position \in Nat /\ position' \in Nat /\ position <= position'
  BY DEF ReadingOK
<1>5. ClockInv' /\ Contiguous'
  <2>1. ClockInv'
    BY DEF ClockInv
  <2>2. Contiguous'
    BY ContiguousStays
  <2>. QED
    BY <2>1, <2>2
<1>6. AcceptedInv'
  <2>1. \A k \in 1..position : k \in 1..position'
    BY <1>4
  <2>. QED
    BY <2>1 DEF AcceptedInv
<1>7. HeldInv'
  <2>1. \A d \in Timed : /\ InFrames(u, d) \/ InFrames(next, d) => HasFrame(d)
                         /\ InBlocks(u, d) \/ InBlocks(next, d) => HasBlock(d)
    BY <1>1 DEF InFrames, InBlocks, HasFrame, HasBlock, EmptyUnit
  <2>. QED
    BY <1>1, <1>2, <1>4, <2>1, HeldAfter
<1>8. NothingLost'
  <2>1. FramesHeld' = FramesOutput[Len(units)] \o u.frames \o next.frames
    BY <1>1, <1>2, <1>3, MovedFrames
  <2>. QED
    BY <2>1 DEF NothingLost, FramesHeld
<1>9. pc' \in {"returned", "processing"}
  BY <1>2 DEF Moves
<1>. QED
  BY <1>3, <1>4, <1>5, <1>6, <1>7, <1>8, <1>9

LEMMA WithFrameOK ==
    ASSUME NEW u, UnitOK(u), NEW d \in Timed, AcceptedIn(u, d)
    PROVE  /\ UnitOK(WithFrame(u, d)) /\ ~IsEmpty(WithFrame(u, d))
           /\ WithFrame(u, d).blocks = u.blocks
           /\ WithFrame(u, d).frames = Append(u.frames, d)
           /\ WithFrame(u, d).timestamp = d.start
<1>. DEFINE w == WithFrame(u, d)
<1>1. u \in Assembled /\ d.start \in Nat
  BY DEF UnitOK, Timed
<1>3. u.frames \in Seq(Timed) /\ u.blocks \in Seq(Timed)
  BY <1>1 DEF Assembled
<1>2. /\ w \in Assembled /\ w.blocks = u.blocks /\ w.frames = Append(u.frames, d)
      /\ w.timestamp = d.start
  <2>. DEFINE v == [u EXCEPT !.frames = Append(u.frames, d)]
  <2>1. Append(u.frames, d) \in Seq(Timed)
    BY <1>3
  <2>2. v \in Assembled /\ v.blocks = u.blocks /\ v.frames = Append(u.frames, d)
    BY <1>1, <2>1 DEF Assembled
  <2>3. w = [v EXCEPT !.timestamp = d.start]
    BY DEF WithFrame
  <2>. HIDE DEF v, w
  <2>. QED
    BY <1>1, <2>2, <2>3 DEF Assembled
<1>4. \A j \in 1..Len(u.frames) : u.frames[j].start = d.start
  BY <1>1, <1>3 DEF UnitOK, AcceptedIn, IsEmpty
<1>5. \A j \in 1..Len(u.blocks) : u.blocks[j].start = d.start
  BY <1>1, <1>3 DEF UnitOK, AcceptedIn, IsEmpty
<1>. HIDE DEF w
<1>6. \A j \in 1..Len(w.frames) : w.frames[j].start = w.timestamp
  BY <1>2, <1>3, <1>4, AppendedAt
<1>7. ~IsEmpty(w)
  <2>1. Append(u.frames, d) # <<>>
    BY <1>3
  <2>. QED
    BY <1>2, <2>1 DEF IsEmpty
<1>8. w.timestamp # None
  BY <1>1, <1>2, NoneAssumption
<1>9. UnitOK(w)
  BY <1>2, <1>5, <1>6, <1>7, <1>8 DEF UnitOK
<1>. QED
  BY <1>2, <1>7, <1>9 DEF w

LEMMA WithFrameOfEmpty ==
    ASSUME NEW d \in Timed
    PROVE  /\ UnitOK(WithFrame(EmptyUnit, d)) /\ ~IsEmpty(WithFrame(EmptyUnit, d))
           /\ WithFrame(EmptyUnit, d).blocks = <<>>
           /\ WithFrame(EmptyUnit, d).frames = <<d>>
<1>1. AcceptedIn(EmptyUnit, d) /\ EmptyUnit.blocks = <<>> /\ EmptyUnit.frames = <<>>
  BY DEF AcceptedIn, EmptyUnit
<1>2. Append(<<>>, d) = <<d>>
  OBVIOUS
<1>. QED
  BY <1>1, <1>2, EmptyUnitOK, WithFrameOK

LEMMA AppendedOne ==
    ASSUME NEW seq \in Seq(Timed), NEW d \in Timed
    PROVE  /\ \A j \in 1..Len(Append(seq, d)) :
                Append(seq, d)[j] = d \/ \E k \in 1..Len(seq) : Append(seq, d)[j] = seq[k]
           /\ \A j \in 1..Len(<<d>>) : <<d>>[j] = d
BY AppendedAt

LEMMA JoinedAppend ==
    ASSUME NEW F \in Seq(Timed), NEW c \in Seq(Timed), NEW d \in Timed
    PROVE  /\ F \o Append(c, d) \o <<>> = Append(F \o c \o <<>>, d)
           /\ F \o c \o <<d>> = Append(F \o c \o <<>>, d)
<1>1. F \o c \o <<>> = F \o c /\ F \o c \in Seq(Timed)
  OBVIOUS
<1>2. F \o Append(c, d) \o <<>> = F \o Append(c, d)
  OBVIOUS
<1>3. F \o Append(c, d) = Append(F \o c, d)
  OBVIOUS
<1>4. (F \o c) \o <<d>> = Append(F \o c, d)
  BY <1>1
<1>. QED
  BY <1>1, <1>2, <1>3, <1>4

(* A frame goes into the current unit or it finishes it and begins the next.   *)
LEMMA FrameAdded ==
    ASSUME WorkInv, NEW d, Accepts(d), stream' = stream, blockClock' = blockClock,
           position' \in 0..Len(stream.obus),
           IF AcceptedIn(current, d)
           THEN Collect(WithFrame(current, d), next, FALSE, FALSE)
           ELSE Collect(current, WithFrame(next, d), FALSE, FALSE)
    PROVE  WorkInv' /\ pc' \in {"returned", "processing"}
<1>. USE DEF WorkInv
<1>1. next = EmptyUnit /\ UnitOK(next) /\ UnitOK(current) /\ d \in Timed
  BY EmptyUnitOK DEF UnitInv, Accepts
<1>2. \E u, n : /\ UnitOK(u) /\ UnitOK(n) /\ Moves(u, n)
                /\ u.blocks = current.blocks /\ n.blocks = <<>>
                /\ \/ u.frames = Append(current.frames, d) /\ n.frames = <<>>
                   \/ u.frames = current.frames /\ n.frames = <<d>>
  <2>1. CASE AcceptedIn(current, d)
    <3>. DEFINE u == WithFrame(current, d)
    <3>1. UnitOK(u) /\ u.blocks = current.blocks /\ u.frames = Append(current.frames, d)
      BY <1>1, <2>1, WithFrameOK
    <3>2. Moves(u, next)
      BY <1>1, <2>1, <3>1, Collected
    <3>. QED
      BY <1>1, <3>1, <3>2 DEF EmptyUnit
  <2>2. CASE ~AcceptedIn(current, d)
    <3>. DEFINE n == WithFrame(next, d)
    <3>1. UnitOK(n) /\ n.blocks = <<>> /\ n.frames = <<d>> /\ ~IsEmpty(n)
      BY <1>1, WithFrameOfEmpty
    <3>2. ~IsEmpty(current)
      BY <1>1, <2>2 DEF AcceptedIn, UnitOK
    <3>3. Moves(current, n)
      BY <1>1, <2>2, <3>1, <3>2, Collected
    <3>. QED
      BY <1>1, <3>1, <3>3
  <2>. QED
    BY <2>1, <2>2
<1>3. PICK u, n : /\ UnitOK(u) /\ UnitOK(n) /\ Moves(u, n)
                  /\ u.blocks = current.blocks /\ n.blocks = <<>>
                  /\ \/ u.frames = Append(current.frames, d) /\ n.frames = <<>>
                     \/ u.frames = current.frames /\ n.frames = <<d>>
  BY <1>2
<1>4. current.frames \in Seq(Timed) /\ accepted \in Seq(Timed)
  BY <1>1 DEF UnitOK, Assembled, ReadingOK
<1>5. UnitInv'
  BY <1>3, MovedUnits
<1>6. ReadingOK'
  BY AcceptsFacts DEF ReadingOK
<1>7. ClockInv' /\ AcceptedInv' /\ Contiguous'
  BY AcceptsClocks, AcceptsContiguous
<1>8. HeldInv'
  <2>1. position \in Nat /\ position' \in Nat /\ position <= position' /\ d.index \in 1..position'
    BY DEF Accepts, ReadingOK
  <2>2. \A e : InFrames(u, e) \/ InFrames(n, e) => HasFrame(e) \/ e = d
    <3>1. \A c \in Seq(Timed) : \A j \in 1..Len(Append(c, d)) :
             Append(c, d)[j] = d \/ \E k \in 1..Len(c) : Append(c, d)[j] = c[k]
      BY <1>1, AppendedOne
    <3>2. \A j \in 1..Len(<<d>>) : <<d>>[j] = d
      BY <1>1, AppendedOne
    <3>3. CASE u.frames = Append(current.frames, d) /\ n.frames = <<>>
      BY <1>4, <3>1, <3>3 DEF InFrames, HasFrame
    <3>4. CASE u.frames = current.frames /\ n.frames = <<d>>
      BY <3>2, <3>4 DEF InFrames, HasFrame
    <3>. QED
      BY <1>3, <3>3, <3>4
  <2>3. \A e : InBlocks(u, e) \/ InBlocks(n, e) => HasBlock(e)
    BY <1>3 DEF InBlocks, HasBlock
  <2>. QED
    BY <1>3, <2>1, <2>2, <2>3, HeldAfter
<1>9. NothingLost'
  <2>. DEFINE F == FramesOutput[Len(units)]
  <2>1. FramesHeld' = F \o u.frames \o n.frames
    BY <1>3, <1>5, MovedFrames
  <2>2. accepted' = Append(F \o current.frames \o <<>>, d)
    BY <1>1 DEF NothingLost, Accepts, EmptyUnit
  <2>3. F \in Seq(Timed)
    BY FramesOutputIsDefined DEF UnitInv, FramesEquations
  <2>. HIDE DEF F
  <2>4. Append(F \o current.frames \o <<>>, d) = F \o u.frames \o n.frames
    <3>. DEFINE c == current.frames
    <3>1. d \in Timed /\ c \in Seq(Timed)
      BY <1>1, <1>4
    <3>. HIDE DEF c
    <3>2. F \o Append(c, d) \o <<>> = Append(F \o c \o <<>>, d)
      BY <2>3, <3>1, JoinedAppend
    <3>3. F \o c \o <<d>> = Append(F \o c \o <<>>, d)
      BY <2>3, <3>1, JoinedAppend
    <3>. QED
      BY <1>3, <3>2, <3>3 DEF c
  <2>. QED
    BY <2>1, <2>2, <2>4 DEF NothingLost, FramesHeld
<1>10. pc' \in {"returned", "processing"}
  BY <1>3 DEF Moves
<1>. QED
  BY <1>5, <1>6, <1>7, <1>8, <1>9, <1>10

LEMMA WithBlockOK ==
    ASSUME NEW u, UnitOK(u), NEW d \in Timed, AcceptedIn(u, d)
    PROVE  /\ UnitOK(WithBlock(u, d)) /\ ~IsEmpty(WithBlock(u, d))
           /\ WithBlock(u, d).frames = u.frames
           /\ WithBlock(u, d).blocks = Append(u.blocks, d)
           /\ WithBlock(u, d).timestamp = d.start
<1>. DEFINE w == WithBlock(u, d)
<1>1. u \in Assembled /\ d.start \in Nat
  BY DEF UnitOK, Timed
<1>3. u.frames \in Seq(Timed) /\ u.blocks \in Seq(Timed)
  BY <1>1 DEF Assembled
<1>2. /\ w \in Assembled /\ w.frames = u.frames /\ w.blocks = Append(u.blocks, d)
      /\ w.timestamp = d.start
  <2>. DEFINE v == [u EXCEPT !.blocks = Append(u.blocks, d)]
  <2>1. Append(u.blocks, d) \in Seq(Timed)
    BY <1>3
  <2>2. v \in Assembled /\ v.frames = u.frames /\ v.blocks = Append(u.blocks, d)
    BY <1>1, <2>1 DEF Assembled
  <2>3. w = [v EXCEPT !.timestamp = d.start]
    BY DEF WithBlock
  <2>. HIDE DEF v, w
  <2>. QED
    BY <1>1, <2>2, <2>3 DEF Assembled
<1>4. \A j \in 1..Len(u.frames) : u.frames[j].start = d.start
  BY <1>1, <1>3 DEF UnitOK, AcceptedIn, IsEmpty
<1>5. \A j \in 1..Len(u.blocks) : u.blocks[j].start = d.start
  BY <1>1, <1>3 DEF UnitOK, AcceptedIn, IsEmpty
<1>. HIDE DEF w
<1>6. \A j \in 1..Len(w.blocks) : w.blocks[j].start = w.timestamp
  BY <1>2, <1>3, <1>5, AppendedAt
<1>7. ~IsEmpty(w)
  <2>1. Append(u.blocks, d) # <<>>
    BY <1>3
  <2>. QED
    BY <1>2, <2>1 DEF IsEmpty
<1>8. w.timestamp # None
  BY <1>1, <1>2, NoneAssumption
<1>9. UnitOK(w)
  BY <1>2, <1>4, <1>6, <1>7, <1>8 DEF UnitOK
<1>. QED
  BY <1>2, <1>7, <1>9 DEF w

LEMMA WithBlockOfEmpty ==
    ASSUME NEW d \in Timed
    PROVE  /\ UnitOK(WithBlock(EmptyUnit, d)) /\ ~IsEmpty(WithBlock(EmptyUnit, d))
           /\ WithBlock(EmptyUnit, d).frames = <<>>
           /\ WithBlock(EmptyUnit, d).blocks = <<d>>
<1>1. AcceptedIn(EmptyUnit, d) /\ EmptyUnit.blocks = <<>> /\ EmptyUnit.frames = <<>>
  BY DEF AcceptedIn, EmptyUnit
<1>2. Append(<<>>, d) = <<d>>
  OBVIOUS
<1>. QED
  BY <1>1, <1>2, EmptyUnitOK, WithBlockOK

(* A block goes into the current unit or it finishes it and begins the next.   *)
LEMMA BlockAdded ==
    ASSUME WorkInv, NEW d \in Timed, d.index = position + 1, position' = position + 1,
           \A s \in Substreams : d.start = frameClock[s],
           stream' = stream, frameClock' = frameClock, accepted' = accepted,
           blockClock' \in [ParameterIds -> Nat], position' \in 0..Len(stream.obus),
           IF AcceptedIn(current, d)
           THEN Collect(WithBlock(current, d), next, FALSE, FALSE)
           ELSE Collect(current, WithBlock(next, d), FALSE, FALSE)
    PROVE  WorkInv' /\ pc' \in {"returned", "processing"}
<1>. USE DEF WorkInv
<1>1. next = EmptyUnit /\ UnitOK(next) /\ UnitOK(current)
  BY EmptyUnitOK DEF UnitInv
<1>2. \E u, n : /\ UnitOK(u) /\ UnitOK(n) /\ Moves(u, n)
                /\ u.frames = current.frames /\ n.frames = <<>>
                /\ \/ u.blocks = Append(current.blocks, d) /\ n.blocks = <<>>
                   \/ u.blocks = current.blocks /\ n.blocks = <<d>>
  <2>1. CASE AcceptedIn(current, d)
    <3>. DEFINE u == WithBlock(current, d)
    <3>1. UnitOK(u) /\ u.frames = current.frames /\ u.blocks = Append(current.blocks, d)
      BY <1>1, <2>1, WithBlockOK
    <3>2. Moves(u, next)
      BY <1>1, <2>1, <3>1, Collected
    <3>. QED
      BY <1>1, <3>1, <3>2 DEF EmptyUnit
  <2>2. CASE ~AcceptedIn(current, d)
    <3>. DEFINE n == WithBlock(next, d)
    <3>1. UnitOK(n) /\ n.frames = <<>> /\ n.blocks = <<d>> /\ ~IsEmpty(n)
      BY <1>1, WithBlockOfEmpty
    <3>2. ~IsEmpty(current)
      BY <1>1, <2>2 DEF AcceptedIn, UnitOK
    <3>3. Moves(current, n)
      BY <1>1, <2>2, <3>1, <3>2, Collected
    <3>. QED
      BY <1>1, <3>1, <3>3
  <2>. QED
    BY <2>1, <2>2
<1>3. PICK u, n : /\ UnitOK(u) /\ UnitOK(n) /\ Moves(u, n)
                  /\ u.frames = current.frames /\ n.frames = <<>>
                  /\ \/ u.blocks = Append(current.blocks, d) /\ n.blocks = <<>>
                     \/ u.blocks = current.blocks /\ n.blocks = <<d>>
  BY <1>2
<1>4. /\ current.blocks \in Seq(Timed) /\ accepted \in Seq(Timed)
      /\ position \in Nat /\ position' \in Nat /\ position <= position'
  BY <1>1 DEF UnitOK, Assembled, ReadingOK
<1>5. UnitInv'
  BY <1>3, MovedUnits
<1>6. ReadingOK'
  BY DEF ReadingOK
<1>7. ClockInv' /\ Contiguous'
  <2>1. ClockInv'
    BY DEF ClockInv
  <2>2. Contiguous'
    BY ContiguousStays
  <2>. QED
    BY <2>1, <2>2
<1>8. AcceptedInv'
  <2>1. \A k \in 1..position : k \in 1..position'
    BY <1>4
  <2>. QED
    BY <2>1 DEF AcceptedInv
<1>9. HeldInv'
  <2>1. d.index \in 1..position'
    BY <1>4
  <2>2. Precedes(d)'
    <3>. SUFFICES ASSUME NEW j \in 1..Len(accepted), accepted[j].start >= d.start PROVE FALSE
      BY DEF Precedes
    <3>. DEFINE e == accepted[j]
    <3>1. e \in Timed /\ e.id \in Substreams /\ e.start + FrameSize <= frameClock[e.id]
      BY <1>4 DEF AcceptedInv
    <3>2. e.start \in Nat /\ d.start \in Nat /\ e.start >= d.start /\ frameClock[e.id] = d.start
      BY <3>1 DEF Timed
    <3>. HIDE DEF e
    <3>. QED
      BY <3>1, <3>2, FrameSizeAssumption
  <2>3. \A e : InBlocks(u, e) \/ InBlocks(n, e) => HasBlock(e) \/ e = d
    <3>1. \A c \in Seq(Timed) : \A j \in 1..Len(Append(c, d)) :
             Append(c, d)[j] = d \/ \E k \in 1..Len(c) : Append(c, d)[j] = c[k]
      BY AppendedOne
    <3>2. \A j \in 1..Len(<<d>>) : <<d>>[j] = d
      BY AppendedOne
    <3>3. CASE u.blocks = Append(current.blocks, d) /\ n.blocks = <<>>
      BY <1>4, <3>1, <3>3 DEF InBlocks, HasBlock
    <3>4. CASE u.blocks = current.blocks /\ n.blocks = <<d>>
      BY <3>2, <3>4 DEF InBlocks, HasBlock
    <3>. QED
      BY <1>3, <3>3, <3>4
  <2>4. \A e : InFrames(u, e) \/ InFrames(n, e) => HasFrame(e)
    BY <1>3 DEF InFrames, HasFrame
  <2>. QED
    BY <1>3, <1>4, <2>1, <2>2, <2>3, <2>4, HeldAfter
<1>10. NothingLost'
  <2>1. FramesHeld' = FramesOutput[Len(units)] \o u.frames \o n.frames
    BY <1>3, <1>5, MovedFrames
  <2>. QED
    BY <1>1, <1>3, <2>1 DEF NothingLost, FramesHeld, EmptyUnit
<1>11. pc' \in {"returned", "processing"}
  BY <1>3 DEF Moves
<1>. QED
  BY <1>5, <1>6, <1>7, <1>8, <1>9, <1>10, <1>11
-------------------------------------------------------------------------------
(* The steps.                                                                  *)
LEMMA DelimitedOK == ASSUME UnitOK(current)
                     PROVE  UnitOK([current EXCEPT !.delimiter = TRUE])
<1>. DEFINE u == [current EXCEPT !.delimiter = TRUE]
<1>1. u \in Assembled /\ u.frames = current.frames /\ u.blocks = current.blocks
      /\ u.timestamp = current.timestamp
  BY DEF UnitOK, Assembled
<1>. HIDE DEF u
<1>2. UnitOK(u)
  BY <1>1 DEF UnitOK, IsEmpty
<1>. QED
  BY <1>2 DEF u

LEMMA ReadType ==
    ASSUME ReadingOK, ControlOK, NEW type, Read(type)
    PROVE  /\ position \in Nat /\ position + 1 \in 0..Len(stream.obus)
           /\ position + 1 \in position..Len(stream.obus)
           /\ stream.obus[position + 1] \in Obu
           /\ stream' = stream /\ received' = received /\ eos' = eos
           /\ position + 1 <= received
<1>1. /\ stream.obus \in Seq(Obu) /\ position \in Nat /\ received \in 0..Len(stream.obus)
      /\ position <= received /\ position # received
  BY DEF ReadingOK, ControlOK, Read, NoMore
<1>. QED
  BY <1>1 DEF Read

LEMMA ObuFields ==
    ASSUME NEW o \in Obu
    PROVE  o.id \in Nat /\ o.duration \in Nat
BY DEF Obu

LEMMA NothingDone ==
    ASSUME WorkInv, ControlOK, NEW type, Read(type), Consume,
           NEW s, Collect(current, next, FALSE, s),
           frameClock' = frameClock, accepted' = accepted,
           blockClock' \in [ParameterIds -> Nat]
    PROVE  WorkInv' /\ pc' \in {"returned", "processing"}
<1>1. UnitOK(current) /\ ReadingOK
  BY DEF WorkInv, UnitInv
<1>2. position' \in position..Len(stream.obus) /\ stream' = stream
  BY <1>1, ReadType DEF Consume
<1>. QED
  BY <1>1, <1>2, NothingAdded

LEMMA AudioFrameStep ==
    WorkInv /\ ControlOK /\ AudioFrame => WorkInv' /\ pc' \in {"returned", "processing"}
<1>. SUFFICES ASSUME WorkInv, ControlOK, AudioFrame
              PROVE  WorkInv' /\ pc' \in {"returned", "processing"}
  OBVIOUS
<1>. DEFINE o == stream.obus[position + 1]
            d == [index |-> position + 1, id |-> o.id, start |-> frameClock[o.id]]
<1>1. ReadingOK /\ Read("AudioFrame") /\ blockClock \in [ParameterIds -> Nat]
  BY DEF WorkInv, AudioFrame, ReadingOK
<1>2. CASE o.id \notin Substreams
  <2>1. Bypass /\ UNCHANGED <<frameClock, blockClock, accepted>>
    BY <1>2 DEF AudioFrame
  <2>. QED
    BY <1>1, <2>1, NothingDone DEF Bypass
<1>3. CASE o.id \in Substreams
  <2>1. /\ Consume /\ frameClock' = AdvancedFrameClock(o.id) /\ accepted' = Append(accepted, d)
        /\ blockClock' = blockClock
        /\ IF AcceptedIn(current, d)
           THEN Collect(WithFrame(current, d), next, FALSE, FALSE)
           ELSE Collect(current, WithFrame(next, d), FALSE, FALSE)
    BY <1>3 DEF AudioFrame
  <2>2. /\ position \in Nat /\ o \in Obu /\ stream' = stream
        /\ position + 1 \in 0..Len(stream.obus)
    BY <1>1, ReadType
  <2>3. frameClock[o.id] \in Nat /\ o.id \in Nat
    BY <1>1, <1>3, SubstreamsAssumption DEF ReadingOK
  <2>. HIDE DEF o
  <2>4. d \in Timed
    BY <2>2, <2>3 DEF Timed
  <2>5. d.id = o.id /\ d.start = frameClock[o.id] /\ d.index = position + 1
    OBVIOUS
  <2>. HIDE DEF d
  <2>6. Accepts(d)
    BY <1>3, <2>1, <2>4, <2>5 DEF Accepts, Consume
  <2>7. position' \in 0..Len(stream.obus)
    BY <2>1, <2>2 DEF Consume
  <2>. QED
    BY <2>1, <2>2, <2>6, <2>7, FrameAdded
<1>. QED
  BY <1>2, <1>3

LEMMA ParameterBlockStep ==
    WorkInv /\ ControlOK /\ ParameterBlock => WorkInv' /\ pc' \in {"returned", "processing"}
<1>. SUFFICES ASSUME WorkInv, ControlOK, ParameterBlock
              PROVE  WorkInv' /\ pc' \in {"returned", "processing"}
  OBVIOUS
<1>. DEFINE o == stream.obus[position + 1]
            d == [index |-> position + 1, id |-> o.id, start |-> blockClock[o.id]]
<1>1. /\ ReadingOK /\ Read("ParameterBlock") /\ Consume
      /\ frameClock' = frameClock /\ accepted' = accepted /\ blockClock \in [ParameterIds -> Nat]
  BY DEF WorkInv, ParameterBlock, ReadingOK
<1>2. CASE Bypass /\ UNCHANGED blockClock
  BY <1>1, <1>2, NothingDone DEF Bypass
<1>3. CASE /\ o.id \in ParameterIds
           /\ blockClock' = [blockClock EXCEPT ![o.id] = @ + o.duration]
           /\ IF ~OnTime(o.id) THEN Collect(current, next, FALSE, FALSE)
              ELSE IF AcceptedIn(current, d)
              THEN Collect(WithBlock(current, d), next, FALSE, FALSE)
              ELSE Collect(current, WithBlock(next, d), FALSE, FALSE)
  <2>1. /\ position \in Nat /\ o \in Obu /\ stream' = stream
        /\ position + 1 \in 0..Len(stream.obus)
    BY <1>1, ReadType
  <2>2. o.duration \in Nat /\ o.id \in Nat /\ blockClock[o.id] \in Nat
    <3>1. o.duration \in Nat /\ o.id \in Nat
      BY <2>1, ObuFields
    <3>. QED
      BY <1>1, <1>3, <3>1
  <2>3. blockClock' \in [ParameterIds -> Nat]
    <3>. HIDE DEF o
    <3>. QED
      BY <1>1, <1>3, <2>2
  <2>4. CASE ~OnTime(o.id)
    BY <1>1, <1>3, <2>3, <2>4, NothingDone
  <2>5. CASE OnTime(o.id)
    <3>. HIDE DEF o
    <3>1. d \in Timed
      BY <2>1, <2>2 DEF Timed
    <3>2. d.index = position + 1 /\ d.start = blockClock[o.id]
      OBVIOUS
    <3>3. \A s \in Substreams : d.start = frameClock[s]
      BY <2>5, <3>2 DEF OnTime, IsGlobal
    <3>4. position' = position + 1 /\ position' \in 0..Len(stream.obus)
      BY <1>1, <2>1 DEF Consume
    <3>5. IF AcceptedIn(current, d)
          THEN Collect(WithBlock(current, d), next, FALSE, FALSE)
          ELSE Collect(current, WithBlock(next, d), FALSE, FALSE)
      BY <1>3, <2>5
    <3>. HIDE DEF d
    <3>. QED
      BY <1>1, <2>1, <2>3, <3>1, <3>2, <3>3, <3>4, <3>5, BlockAdded
  <2>. QED
    BY <2>4, <2>5
<1>. QED
  BY <1>2, <1>3 DEF ParameterBlock

(* The steps that put nothing into a unit.                                     *)
LEMMA OtherStep ==
    WorkInv /\ ControlOK /\ (TemporalDelimiter \/ Ignored \/ NextIaSequence \/ OutOfData)
        => WorkInv' /\ pc' \in {"returned", "processing"}
<1>. SUFFICES ASSUME WorkInv, ControlOK,
                     TemporalDelimiter \/ Ignored \/ NextIaSequence \/ OutOfData
              PROVE  WorkInv' /\ pc' \in {"returned", "processing"}
  OBVIOUS
<1>1. /\ UnitOK(current) /\ ReadingOK /\ blockClock \in [ParameterIds -> Nat]
      /\ position \in position..Len(stream.obus)
  BY DEF WorkInv, UnitInv, ReadingOK
<1>2. CASE TemporalDelimiter
  <2>. DEFINE u == [current EXCEPT !.delimiter = TRUE]
  <2>1. /\ Read("TemporalDelimiter") /\ Consume /\ Collect(u, next, FALSE, current.delimiter)
        /\ UNCHANGED <<frameClock, blockClock, accepted>>
    BY <1>2 DEF TemporalDelimiter
  <2>2. position' \in position..Len(stream.obus) /\ stream' = stream
    BY <1>1, <2>1, ReadType DEF Consume
  <2>3. UnitOK(u) /\ u.frames = current.frames /\ u.blocks = current.blocks
    BY <1>1, DelimitedOK DEF UnitOK, Assembled
  <2>. HIDE DEF u
  <2>. QED
    BY <1>1, <2>1, <2>2, <2>3, NothingAdded
<1>3. CASE Ignored
  <2>1. PICK type : Read(type)
    BY <1>3 DEF Ignored
  <2>2. /\ Consume /\ Collect(current, next, FALSE, FALSE)
        /\ UNCHANGED <<frameClock, blockClock, accepted>>
    BY <1>3 DEF Ignored, Bypass
  <2>. QED
    BY <1>1, <2>1, <2>2, NothingDone
<1>4. CASE NextIaSequence
  <2>1. /\ Read("IaSequenceHeader") /\ Collect(current, next, TRUE, FALSE)
        /\ UNCHANGED <<position, frameClock, blockClock, accepted>>
    BY <1>4 DEF NextIaSequence
  <2>2. stream' = stream
    BY <2>1 DEF Read
  <2>. QED
    BY <1>1, <2>1, <2>2, NothingAdded
<1>5. CASE OutOfData
  <2>1. /\ Collect(current, next, TRUE, FALSE)
        /\ UNCHANGED <<stream, position, frameClock, blockClock, accepted>>
    BY <1>5 DEF OutOfData
  <2>. QED
    BY <1>1, <2>1, NothingAdded
<1>. QED
  BY <1>2, <1>3, <1>4, <1>5

LEMMA WorkStays == WorkInv /\ UNCHANGED work => WorkInv'
<1>. SUFFICES ASSUME WorkInv, UNCHANGED work PROVE WorkInv'
  OBVIOUS
<1>. USE DEF work
<1>1. ReadingOK' /\ ClockInv' /\ AcceptedInv'
  BY DEF WorkInv, ReadingOK, ClockInv, AcceptedInv
<1>2. UnitInv'
  BY DEF WorkInv, UnitInv, UnitOK, IsEmpty, OneTimestamp, EmptyUnit
<1>3. HeldInv'
  BY DEF WorkInv, HeldInv, HasFrame, HasBlock, InFrames, InBlocks
<1>4. Contiguous'
  BY ContiguousStays DEF WorkInv
<1>5. NothingLost'
  <2>1. FramesOutput' = FramesOutput
    BY DEF FramesOutput
  <2>. QED
    BY <2>1 DEF WorkInv, NothingLost
<1>. QED
  BY <1>1, <1>2, <1>3, <1>4, <1>5 DEF WorkInv

LEMMA ProcessingStep ==
    WorkInv /\ ControlOK /\ Processing => WorkInv' /\ ControlOK'
<1>. SUFFICES ASSUME WorkInv, ControlOK, Processing
              PROVE  WorkInv' /\ ControlOK'
  OBVIOUS
<1>1. ReadingOK
  BY DEF WorkInv
<1>2. CASE UnexpectedDescriptor
  <2>1. UNCHANGED work /\ UNCHANGED <<received, eos>> /\ pc' = "failed"
    BY <1>2 DEF UnexpectedDescriptor, Read, work
  <2>2. ControlOK'
    BY <2>1 DEF ControlOK, work
  <2>. QED
    BY <2>1, <2>2, WorkStays
<1>3. CASE Processing /\ ~UnexpectedDescriptor
  <2>1. WorkInv' /\ pc' \in {"returned", "processing"}
    BY <1>3, AudioFrameStep, ParameterBlockStep, OtherStep DEF Processing
  <2>2. stream' = stream /\ received' = received /\ eos' = eos
    BY <1>3 DEF Processing, AudioFrame, ParameterBlock, TemporalDelimiter, Ignored,
                NextIaSequence, OutOfData, Read
  <2>3. position' = position \/ (Consume /\ \E type : Read(type))
    BY <1>3 DEF Processing, AudioFrame, ParameterBlock, TemporalDelimiter, Ignored,
                NextIaSequence, OutOfData, Bypass
  <2>4. position' <= received
    <3>1. ASSUME NEW type, Read(type), Consume PROVE position' <= received
      BY <1>1, <3>1, ReadType DEF Consume
    <3>. QED
      BY <2>3, <3>1 DEF ControlOK
  <2>. QED
    BY <2>1, <2>2, <2>4 DEF ControlOK
<1>. QED
  BY <1>2, <1>3

(* A processor that was just created.                                          *)
Fresh == /\ stream \in [obus : Seq(Obu), ends : Seq(Nat), regular : BOOLEAN]
         /\ position = 0
         /\ frameClock = [s \in Substreams |-> 0]
         /\ blockClock = [p \in ParameterIds |-> 0]
         /\ current = EmptyUnit /\ next = EmptyUnit
         /\ units = <<>> /\ accepted = <<>>

LEMMA FreshWork == Fresh => WorkInv
<1>. SUFFICES ASSUME Fresh PROVE WorkInv
  OBVIOUS
<1>. USE DEF Fresh
<1>1. ReadingOK
  <2>1. stream.obus \in Seq(Obu) /\ 0 \in 0..Len(stream.obus)
    OBVIOUS
  <2>2. [s \in Substreams |-> 0] \in [Substreams -> Nat]
    OBVIOUS
  <2>3. [p \in ParameterIds |-> 0] \in [ParameterIds -> Nat]
    OBVIOUS
  <2>4. <<>> \in Seq(Timed)
    OBVIOUS
  <2>. QED
    BY <2>1, <2>2, <2>3, <2>4 DEF ReadingOK
<1>2. UnitInv
  BY EmptyUnitOK DEF UnitInv, OneTimestamp
<1>3. ClockInv /\ AcceptedInv /\ Contiguous
  BY DEF ClockInv, AcceptedInv, Contiguous
<1>4. HeldInv
  BY DEF HeldInv, HasFrame, HasBlock, InFrames, InBlocks, EmptyUnit
<1>5. NothingLost
  <2>1. FramesOutput[0] = <<>>
    BY FramesOutputIsDefined DEF FramesEquations
  <2>. QED
    BY <2>1 DEF NothingLost, EmptyUnit
<1>. QED
  BY <1>1, <1>2, <1>3, <1>4, <1>5 DEF WorkInv

LEMMA WorkInit == Init => WorkInv /\ ControlOK
<1>. SUFFICES ASSUME Init PROVE WorkInv /\ ControlOK
  OBVIOUS
<1>1. Fresh
  BY StreamsAssumption DEF Init, Fresh, Stream
<1>2. ControlOK
  <2>1. received = 0 /\ position = 0 /\ pc = "returned"
    BY DEF Init
  <2>2. eos \in BOOLEAN
    BY Zenon DEF Init
  <2>3. stream.obus \in Seq(Obu)
    BY <1>1 DEF Fresh
  <2>. QED
    BY <2>1, <2>2, <2>3 DEF ControlOK
<1>. QED
  BY <1>1, <1>2, FreshWork

LEMMA WorkShows == WorkInv /\ ControlOK => TimesAgree /\ NothingLost
<1>. SUFFICES ASSUME WorkInv, ControlOK PROVE TimesAgree
  BY DEF WorkInv
<1>1. \A u : UnitOK(u) => u \in Assembled
  BY DEF UnitOK
<1>2. TypeOK
  BY <1>1, EmptyUnitOK DEF WorkInv, ControlOK, UnitInv, ReadingOK, TypeOK, Assembled, Clocked, Stream
<1>. QED
  BY <1>2, BlocksComeFirst DEF TimesAgree, WorkInv, UnitInv

(* The processor on its own keeps the invariant.                               *)
LEMMA StepKeepsWork == WorkInv /\ ControlOK /\ [Next]_vars => WorkInv' /\ ControlOK'
<1>. SUFFICES ASSUME WorkInv, ControlOK, [Next]_vars PROVE WorkInv' /\ ControlOK'
  OBVIOUS
<1>1. CASE UNCHANGED vars
  BY <1>1, WorkStays DEF vars, work, ControlOK
<1>2. ASSUME NEW n \in 1..(Len(stream.obus) - received), Receive(n) PROVE WorkInv' /\ ControlOK'
  <2>1. UNCHANGED work
    BY <1>2 DEF Receive, work
  <2>2. stream.obus \in Seq(Obu) /\ position \in Nat
    BY DEF WorkInv, ReadingOK
  <2>3. ControlOK'
    BY <1>2, <2>2 DEF Receive, ControlOK
  <2>. QED
    BY <2>1, <2>3, WorkStays
<1>3. ASSUME NEW e \in BOOLEAN, ProcessTemporalUnit(e) PROVE WorkInv' /\ ControlOK'
  BY <1>3, WorkStays DEF ProcessTemporalUnit, ControlOK, work
<1>4. CASE Processing
  BY <1>4, ProcessingStep
<1>. QED
  BY <1>1, <1>2, <1>3, <1>4 DEF Next

THEOREM WorkIsInvariant == Spec => [](WorkInv /\ ControlOK)
BY WorkInit, StepKeepsWork, PTL DEF Spec

(* Whatever is decoded and however it arrives, everything keeps its type, what *)
(* is output together has one time, the frames of a substream follow each      *)
(* other without gap or overlap, and a parameter block comes before the frames *)
(* that it is for: the counting in GlobalTimingModule never goes wrong.        *)
THEOREM TimesAlwaysAgree == Spec => []TimesAgree
BY WorkIsInvariant, WorkShows, PTL

(* Whatever is decoded and however it arrives, the frames that were given a    *)
(* time are, in their order, those of the units output and of the two units in *)
(* progress: AddDataToCorrectTemporalUnit and the swap of the units lose none. *)
THEOREM NothingIsEverLost == Spec => []NothingLost
BY WorkIsInvariant, WorkShows, PTL
-------------------------------------------------------------------------------
(* Regular streams.  The ends of the units, and what lies between them.        *)
Regularly(s) == s \in Stream /\ IsRegular(s)

BeginsFacts(s) ==
    /\ Len(s.ends) \in Nat /\ Len(s.obus) \in Nat
    /\ UnitBegin(s, 1) = 0 /\ UnitBegin(s, Len(s.ends) + 1) = Len(s.obus)
    /\ \A i \in 1..Len(s.ends) : s.ends[i] \in Nat /\ UnitBegin(s, i + 1) = s.ends[i]
    /\ \A i \in 1..(Len(s.ends) + 1) : UnitBegin(s, i) \in 0..Len(s.obus)
    /\ \A i, j \in 1..(Len(s.ends) + 1) : i < j => UnitBegin(s, i) < UnitBegin(s, j)

LEMMA UnitBegins ==
    ASSUME NEW s, Regularly(s)
    PROVE  BeginsFacts(s)
<1>. DEFINE N == Len(s.ends)  M == Len(s.obus)
<1>1. /\ s.ends \in Seq(Nat) /\ N \in Nat /\ M \in Nat
      /\ \A i \in 1..N : s.ends[i] \in Nat
  BY DEF Regularly, Stream
<1>2. /\ \A i, j \in 1..N : i < j => s.ends[i] < s.ends[j]
      /\ M = UnitBegin(s, N + 1)
      /\ \A i \in 1..N : UnitInOrder(s, i)
      /\ Substreams # {}
  BY DEF Regularly, IsRegular
<1>3. UnitBegin(s, 1) = 0 /\ \A i \in 1..N : UnitBegin(s, i + 1) = s.ends[i]
  <2>1. \A i \in 1..N : i + 1 # 1 /\ (i + 1) - 1 = i
    BY <1>1
  <2>. QED
    BY <2>1 DEF UnitBegin
<1>4. ASSUME NEW i \in 1..N PROVE 0 < s.ends[i]
  <2>1. PICK id \in Substreams : TRUE
    BY <1>2
  <2>2. 1 \in 1..N
    BY <1>1
  <2>3. OfUse(s, "AudioFrame", {id}, UnitObus(s, 1)) # {}
    BY <1>2, <2>2 DEF UnitInOrder
  <2>4. PICK k \in 1..s.ends[1] : TRUE
    BY <1>3, <2>3 DEF OfUse, UnitObus
  <2>5. 0 < s.ends[1]
    BY <1>1, <2>2, <2>4
  <2>6. i = 1 \/ s.ends[1] < s.ends[i]
    BY <1>1, <1>2, <2>2
  <2>. QED
    BY <1>1, <2>2, <2>5, <2>6
<1>5. \A i \in 2..(N + 1) : i - 1 \in 1..N /\ UnitBegin(s, i) = s.ends[i - 1]
  BY <1>1 DEF UnitBegin
<1>6. ASSUME NEW i \in 1..(N + 1), NEW j \in 1..(N + 1), i < j
      PROVE  UnitBegin(s, i) < UnitBegin(s, j)
  <2>1. j \in 2..(N + 1)
    BY <1>1, <1>6
  <2>2. CASE i = 1
    BY <1>3, <1>4, <1>5, <2>1, <2>2
  <2>3. CASE i # 1
    <3>1. i \in 2..(N + 1) /\ i - 1 < j - 1
      BY <1>1, <1>6, <2>3
    <3>. QED
      BY <1>2, <1>5, <2>1, <3>1
  <2>. QED
    BY <2>2, <2>3
<1>7. \A i \in 1..(N + 1) : UnitBegin(s, i) \in Nat
  <2>1. \A i \in 1..(N + 1) : i = 1 \/ i \in 2..(N + 1)
    BY <1>1
  <2>. QED
    BY <1>1, <1>3, <1>5, <2>1
<1>8. \A i \in 1..(N + 1) : UnitBegin(s, i) \in 0..M
  <2>. SUFFICES ASSUME NEW i \in 1..(N + 1) PROVE UnitBegin(s, i) \in 0..M
    OBVIOUS
  <2>1. N + 1 \in 1..(N + 1) /\ (i = N + 1 \/ i < N + 1)
    BY <1>1
  <2>2. i < N + 1 => UnitBegin(s, i) < UnitBegin(s, N + 1)
    BY <1>6, <2>1
  <2>3. UnitBegin(s, i) \in Nat /\ UnitBegin(s, i) <= M
    <3>1. CASE i = N + 1
      BY <1>1, <1>2, <3>1
    <3>2. CASE i < N + 1
      BY <1>1, <1>2, <1>7, <2>2, <3>2
    <3>. QED
      BY <2>1, <3>1, <3>2
  <2>. QED
    BY <1>1, <2>3
<1>. QED
  BY <1>1, <1>2, <1>3, <1>6, <1>8 DEF BeginsFacts

LEMMA InUnit ==
    ASSUME NEW s, Regularly(s), NEW i \in 1..Len(s.ends), NEW k
    PROVE  k \in UnitObus(s, i) <=>
               k \in Nat /\ UnitBegin(s, i) < k /\ k <= UnitBegin(s, i + 1)
<1>1. BeginsFacts(s)
  BY UnitBegins
<1>2. UnitBegin(s, i) \in Nat /\ s.ends[i] \in Nat /\ UnitBegin(s, i + 1) = s.ends[i]
  BY <1>1 DEF BeginsFacts
<1>. QED
  BY <1>2 DEF UnitObus

(* Every OBU is in one unit.                                                   *)
LEMMA UnitExists ==
    ASSUME NEW s, Regularly(s), NEW k \in 1..Len(s.obus)
    PROVE  \E i \in 1..Len(s.ends) : k \in UnitObus(s, i)
<1>. DEFINE N == Len(s.ends)
            T == {j \in 1..N : k <= UnitBegin(s, j + 1)}
<1>1. BeginsFacts(s) /\ N \in Nat /\ Len(s.obus) \in Nat
  BY UnitBegins DEF BeginsFacts
<1>2. T # {} /\ T \subseteq Nat
  <2>1. N # 0
    BY <1>1 DEF BeginsFacts
  <2>2. N \in 1..N /\ k <= UnitBegin(s, N + 1)
    BY <1>1, <2>1 DEF BeginsFacts
  <2>. QED
    BY <2>2
<1>3. PICK i \in T : \A m \in T : i <= m
  BY <1>2, LeastNumber
<1>4. i \in 1..N /\ k <= UnitBegin(s, i + 1)
  OBVIOUS
<1>5. UnitBegin(s, i) < k
  <2>1. CASE i = 1
    BY <1>1, <2>1 DEF BeginsFacts
  <2>2. CASE i # 1
    <3>1. i - 1 \in 1..N /\ (i - 1) + 1 = i /\ ~(i <= i - 1)
      BY <1>1, <1>4, <2>2
    <3>2. i - 1 \notin T
      BY <1>3, <3>1
    <3>3. ~(k <= UnitBegin(s, i))
      BY <3>1, <3>2
    <3>4. UnitBegin(s, i) \in Nat
      BY <1>1, <1>4 DEF BeginsFacts
    <3>. QED
      BY <1>1, <3>3, <3>4
  <2>. QED
    BY <2>1, <2>2
<1>. QED
  BY <1>4, <1>5, InUnit

LEMMA UnitUnique ==
    ASSUME NEW s, Regularly(s), NEW i \in 1..Len(s.ends), NEW j \in 1..Len(s.ends), NEW k,
           k \in UnitObus(s, i), k \in UnitObus(s, j)
    PROVE  i = j
<1>1. BeginsFacts(s)
  BY UnitBegins
<1>2. /\ k \in Nat /\ UnitBegin(s, i) < k /\ k <= UnitBegin(s, i + 1)
      /\ UnitBegin(s, j) < k /\ k <= UnitBegin(s, j + 1)
  BY InUnit
<1>3. ASSUME NEW a \in 1..Len(s.ends), NEW b \in 1..Len(s.ends), a < b,
             k <= UnitBegin(s, a + 1), UnitBegin(s, b) < k
      PROVE  FALSE
  <2>1. /\ a + 1 \in 1..(Len(s.ends) + 1) /\ b \in 1..(Len(s.ends) + 1)
        /\ a + 1 = b \/ a + 1 < b
    BY <1>1, <1>3 DEF BeginsFacts
  <2>2. UnitBegin(s, a + 1) \in Nat /\ UnitBegin(s, b) \in Nat
    BY <1>1, <2>1 DEF BeginsFacts
  <2>3. UnitBegin(s, a + 1) <= UnitBegin(s, b)
    BY <1>1, <2>1, <2>2 DEF BeginsFacts
  <2>. QED
    BY <1>2, <1>3, <2>2, <2>3
<1>4. i < j \/ j < i \/ i = j
  BY <1>1 DEF BeginsFacts
<1>. QED
  BY <1>2, <1>3, <1>4

(* Every unit has a frame of every substream.                                  *)
LEMMA UnitHasFrames ==
    ASSUME NEW s, Regularly(s), NEW i \in 1..Len(s.ends), NEW id \in Substreams
    PROVE  \E f \in OfUse(s, "AudioFrame", {id}, UnitObus(s, i)) :
              f \in OfUse(s, "AudioFrame", Substreams, UnitObus(s, i))
<1>1. OfUse(s, "AudioFrame", {id}, UnitObus(s, i)) # {}
  BY DEF Regularly, IsRegular, UnitInOrder
<1>. QED
  BY <1>1 DEF OfUse
-------------------------------------------------------------------------------
(* The time at which something ends is unique.                                 *)
LEMMA EndAtUnique ==
    ASSUME NEW s, Regularly(s), NEW K, K \subseteq Nat, NEW t, NEW u,
           EndAt(s, K, t), EndAt(s, K, u)
    PROVE  t = u
<1>1. CASE K = {}
  BY <1>1 DEF EndAt
<1>2. CASE K # {}
  <2>1. PICK i \in 1..Len(s.ends), k \in K :
           /\ k \in UnitObus(s, i) /\ \A l \in K : l <= k
           /\ t = (i - 1) * FrameSize + Duration(s.obus[k])
    BY <1>2 DEF EndAt
  <2>2. PICK j \in 1..Len(s.ends), m \in K :
           /\ m \in UnitObus(s, j) /\ \A l \in K : l <= m
           /\ u = (j - 1) * FrameSize + Duration(s.obus[m])
    BY <1>2 DEF EndAt
  <2>3. k = m
    <3>1. k <= m /\ m <= k /\ k \in Nat /\ m \in Nat
      BY <2>1, <2>2
    <3>. QED
      BY <3>1
  <2>4. i = j
    BY <2>1, <2>2, <2>3, UnitUnique
  <2>. QED
    BY <2>1, <2>2, <2>3, <2>4
<1>. QED
  BY <1>1, <1>2

LEMMA EndAtNext ==
    ASSUME NEW s, Regularly(s), NEW p \in Nat, NEW K, K \subseteq 1..p,
           NEW i \in 1..Len(s.ends), p + 1 \in UnitObus(s, i)
    PROVE  EndAt(s, K \union {p + 1}, (i - 1) * FrameSize + Duration(s.obus[p + 1]))
<1>1. \A l \in K \union {p + 1} : l <= p + 1
  OBVIOUS
<1>. QED
  BY <1>1 DEF EndAt

(* What was read of a substream or a parameter, with the next OBU.             *)
ReadOf(s, type, id, p) == OfUse(s, type, {id}, 1..p)

LEMMA ReadNext ==
    ASSUME NEW s, NEW type, NEW id, NEW p \in Nat
    PROVE  /\ s.obus[p + 1].type = type /\ s.obus[p + 1].id = id =>
                 ReadOf(s, type, id, p + 1) = ReadOf(s, type, id, p) \union {p + 1}
           /\ ~(s.obus[p + 1].type = type /\ s.obus[p + 1].id = id) =>
                 ReadOf(s, type, id, p + 1) = ReadOf(s, type, id, p)
           /\ ReadOf(s, type, id, p) \subseteq 1..p
<1>1. 1..(p + 1) = (1..p) \union {p + 1}
  OBVIOUS
<1>. QED
  BY <1>1 DEF ReadOf, OfUse

(* A frame or block that comes next begins with its unit.                      *)
LEMMA BeginsInTime ==
    ASSUME NEW s, Regularly(s), NEW p \in Nat, NEW i \in 1..Len(s.ends),
           p + 1 \in Usable(s, UnitObus(s, i)), NEW t,
           EndAt(s, OfUse(s, s.obus[p + 1].type, {s.obus[p + 1].id}, 1..p), t)
    PROVE  t = (i - 1) * FrameSize
<1>1. (p + 1) - 1 = p
  OBVIOUS
<1>2. EndAt(s, OfUse(s, s.obus[p + 1].type, {s.obus[p + 1].id}, 1..p), (i - 1) * FrameSize)
  BY <1>1 DEF Regularly, IsRegular, UnitInTime
<1>3. OfUse(s, s.obus[p + 1].type, {s.obus[p + 1].id}, 1..p) \subseteq Nat
  BY DEF OfUse
<1>. QED
  BY <1>2, <1>3, EndAtUnique

(* While no frame of unit i was read, the clocks are at its beginning.         *)
LEMMA ClocksBeforeUnit ==
    ASSUME NEW s, Regularly(s), NEW i \in 1..Len(s.ends), NEW p \in Nat,
           UnitBegin(s, i) <= p, NEW id \in Substreams, NEW t,
           EndAt(s, OfUse(s, "AudioFrame", {id}, 1..p), t),
           \A f \in OfUse(s, "AudioFrame", Substreams, UnitObus(s, i)) : p < f
    PROVE  t = (i - 1) * FrameSize
<1>. DEFINE Of(q) == OfUse(s, "AudioFrame", {id}, 1..q)
<1>0. /\ BeginsFacts(s) /\ UnitBegin(s, i) \in Nat /\ i \in Nat
      /\ FrameSize \in Nat /\ FrameSize > 0
  BY UnitBegins, FrameSizeAssumption DEF BeginsFacts
<1>1. PICK f \in OfUse(s, "AudioFrame", {id}, UnitObus(s, i)) :
          f \in OfUse(s, "AudioFrame", Substreams, UnitObus(s, i))
  BY UnitHasFrames
<1>2. f \in UnitObus(s, i) /\ s.obus[f].type = "AudioFrame" /\ s.obus[f].id = id
  BY <1>1 DEF OfUse
<1>3. f \in Nat /\ p < f /\ UnitBegin(s, i) < f
  BY <1>1, <1>2, InUnit
<1>4. EndAt(s, Of(f - 1), (i - 1) * FrameSize)
  <2>1. f \in Usable(s, UnitObus(s, i))
    BY <1>1 DEF Usable
  <2>. QED
    BY <1>2, <2>1 DEF Regularly, IsRegular, UnitInTime
<1>5. \A l \in Of(f - 1) : l <= UnitBegin(s, i)
  <2>. SUFFICES ASSUME Of(f - 1) # {} PROVE \A l \in Of(f - 1) : l <= UnitBegin(s, i)
    OBVIOUS
  <2>1. PICK j \in 1..Len(s.ends), k \in Of(f - 1) :
           /\ k \in UnitObus(s, j) /\ \A l \in Of(f - 1) : l <= k
           /\ (i - 1) * FrameSize = (j - 1) * FrameSize + Duration(s.obus[k])
    BY <1>4 DEF EndAt
  <2>2. Duration(s.obus[k]) = FrameSize
    BY <2>1 DEF OfUse, Duration
  <2>3. j + 1 = i
    <3>1. (i - 1) * FrameSize = j * FrameSize
      BY <1>0, <2>1, <2>2
    <3>2. j \in Nat /\ i - 1 \in Nat
      BY <1>0
    <3>. QED
      BY <1>0, <3>1, <3>2
  <2>4. k \in Nat /\ k <= UnitBegin(s, i)
    BY <2>1, <2>3, InUnit
  <2>. QED
    BY <1>0, <2>1, <2>4 DEF OfUse
<1>6. Of(f - 1) = Of(p)
  <2>1. ASSUME NEW l \in Of(f - 1) PROVE l \in Of(p)
    <3>1. l \in 1..(f - 1) /\ l <= UnitBegin(s, i)
      BY <1>5 DEF OfUse
    <3>2. l \in 1..p
      BY <1>0, <3>1
    <3>. QED
      BY <3>2 DEF OfUse
  <2>2. ASSUME NEW l \in Of(p) PROVE l \in Of(f - 1)
    <3>1. l \in 1..p
      BY DEF OfUse
    <3>2. l \in 1..(f - 1)
      BY <1>3, <3>1
    <3>. QED
      BY <3>2 DEF OfUse
  <2>. QED
    BY <2>1, <2>2
<1>7. Of(p) \subseteq Nat
  BY DEF OfUse
<1>. QED
  BY <1>4, <1>6, <1>7, EndAtUnique
-------------------------------------------------------------------------------
(* What is listed.                                                             *)
LEMMA ListsNothing ==
    ASSUME NEW seq \in Seq(Timed), NEW K, Lists(seq, K)
    PROVE  seq = <<>> <=> K = {}
<1>1. seq = <<>> <=> 1..Len(seq) = {}
  <2>1. CASE seq = <<>>
    BY <2>1
  <2>2. CASE seq # <<>>
    <3>1. Len(seq) \in Nat \ {0}
      BY <2>2, EmptySeq
    <3>2. 1 \in 1..Len(seq)
      BY <3>1
    <3>. QED
      BY <2>2, <3>2
  <2>. QED
    BY <2>1, <2>2
<1>. QED
  BY <1>1 DEF Lists

LEMMA ListsAppended ==
    ASSUME NEW seq \in Seq(Timed), NEW K, Lists(seq, K), K \subseteq Nat, NEW d \in Timed,
           \A k \in K : k < d.index
    PROVE  Lists(Append(seq, d), K \union {d.index})
<1>. DEFINE N == Len(seq)  q == Append(seq, d)
<1>1. /\ N \in Nat /\ Len(q) = N + 1 /\ q[N + 1] = d
      /\ \A j \in 1..N : q[j] = seq[j]
      /\ \A j \in 1..(N + 1) : j \in 1..N \/ j = N + 1
      /\ 1..N \subseteq 1..(N + 1) /\ N + 1 \in 1..(N + 1)
  OBVIOUS
<1>2. /\ {seq[j].index : j \in 1..N} = K
      /\ \A j, l \in 1..N : j < l => seq[j].index < seq[l].index
  BY DEF Lists
<1>. HIDE DEF N, q
<1>3. {q[j].index : j \in 1..Len(q)} = K \union {d.index}
  BY <1>1, <1>2
<1>4. ASSUME NEW j \in 1..Len(q), NEW l \in 1..Len(q), j < l
      PROVE  q[j].index < q[l].index
  <2>1. j \in 1..N
    BY <1>1, <1>4
  <2>2. CASE l \in 1..N
    BY <1>1, <1>2, <1>4, <2>1, <2>2
  <2>3. CASE l = N + 1
    <3>1. seq[j].index \in K
      BY <1>2, <2>1
    <3>. QED
      BY <1>1, <2>1, <2>3, <3>1
  <2>. QED
    BY <1>1, <2>2, <2>3
<1>. QED
  BY <1>3, <1>4 DEF Lists, q

LEMMA ListsOne ==
    ASSUME NEW d \in Timed
    PROVE  Lists(<<d>>, {d.index}) /\ Lists(<<>>, {})
<1>1. Lists(<<>>, {})
  BY DEF Lists
<1>2. <<>> \in Seq(Timed) /\ Append(<<>>, d) = <<d>> /\ {} \union {d.index} = {d.index}
  OBVIOUS
<1>3. Lists(Append(<<>>, d), {} \union {d.index})
  BY <1>1, <1>2, ListsAppended
<1>. QED
  BY <1>1, <1>2, <1>3
-------------------------------------------------------------------------------
(* Unit u is what was read of unit i of s when p OBUs were read, and nothing   *)
(* of a later unit was.                                                        *)
FramesFrom(s, i, p) == OfUse(s, "AudioFrame", Substreams, (UnitBegin(s, i) + 1)..p)
BlocksFrom(s, i, p) == OfUse(s, "ParameterBlock", ParameterIds, (UnitBegin(s, i) + 1)..p)

Holds(s, u, i, p) ==
    /\ i \in 1..(Len(s.ends) + 1) /\ p \in UnitBegin(s, i)..Len(s.obus)
    /\ Lists(u.frames, FramesFrom(s, i, p)) /\ Lists(u.blocks, BlocksFrom(s, i, p))
    /\ \A k \in FramesFrom(s, i, p) \union BlocksFrom(s, i, p) : k \in UnitObus(s, i)
    /\ ~IsEmpty(u) => u.timestamp = (i - 1) * FrameSize
    /\ u.delimiter /\ IsEmpty(u) =>
          \E d \in (UnitBegin(s, i) + 1)..p : s.obus[d].type = "TemporalDelimiter"

HoldsFacts(s, u, i, p) ==
    /\ i \in Nat /\ p \in Nat /\ UnitBegin(s, i) \in Nat /\ UnitBegin(s, i) <= p
    /\ p <= Len(s.obus)
    /\ i \in 1..Len(s.ends) \/ UnitBegin(s, i) = Len(s.obus)
    /\ IsEmpty(u) <=> FramesFrom(s, i, p) = {} /\ BlocksFrom(s, i, p) = {}
    /\ ~IsEmpty(u) => i \in 1..Len(s.ends)
    /\ p < Len(s.obus) => i \in 1..Len(s.ends)

LEMMA HoldsMore ==
    ASSUME NEW s, Regularly(s), NEW u, UnitOK(u), NEW i, NEW p, Holds(s, u, i, p)
    PROVE  HoldsFacts(s, u, i, p)
<1>1. BeginsFacts(s) /\ i \in 1..(Len(s.ends) + 1) /\ p \in UnitBegin(s, i)..Len(s.obus)
  BY UnitBegins DEF Holds
<1>2. /\ i \in Nat /\ UnitBegin(s, i) \in Nat
      /\ i \in 1..Len(s.ends) \/ UnitBegin(s, i) = Len(s.obus)
  BY <1>1 DEF BeginsFacts
<1>3. p \in Nat /\ UnitBegin(s, i) <= p /\ p <= Len(s.obus) /\ Len(s.obus) \in Nat
  BY <1>1, <1>2 DEF BeginsFacts
<1>4. IsEmpty(u) <=> FramesFrom(s, i, p) = {} /\ BlocksFrom(s, i, p) = {}
  <2>1. u.frames \in Seq(Timed) /\ u.blocks \in Seq(Timed)
    BY DEF UnitOK, Assembled
  <2>2. Lists(u.frames, FramesFrom(s, i, p)) /\ Lists(u.blocks, BlocksFrom(s, i, p))
    BY DEF Holds
  <2>3. /\ u.frames = <<>> <=> FramesFrom(s, i, p) = {}
        /\ u.blocks = <<>> <=> BlocksFrom(s, i, p) = {}
    BY <2>1, <2>2, ListsNothing
  <2>. QED
    BY <2>3 DEF IsEmpty
<1>5. p < Len(s.obus) => i \in 1..Len(s.ends)
  BY <1>2, <1>3
<1>6. ~IsEmpty(u) => i \in 1..Len(s.ends)
  <2>. SUFFICES ASSUME ~IsEmpty(u) PROVE UnitBegin(s, i) < Len(s.obus)
    BY <1>2, <1>3
  <2>1. PICK k : k \in FramesFrom(s, i, p) \/ k \in BlocksFrom(s, i, p)
    BY <1>4
  <2>2. k \in (UnitBegin(s, i) + 1)..p
    BY <2>1 DEF FramesFrom, BlocksFrom, OfUse
  <2>. QED
    BY <1>2, <1>3, <2>2
<1>. QED
  BY <1>2, <1>3, <1>4, <1>5, <1>6 DEF HoldsFacts

(* Which unit the next OBU is in: the one in progress or, when that was read   *)
(* completely, the one behind it.                                              *)
LEMMA NextIsNear ==
    ASSUME NEW s, Regularly(s), NEW u, UnitOK(u), NEW i, NEW p, Holds(s, u, i, p),
           NEW j \in 1..Len(s.ends), p + 1 \in UnitObus(s, j)
    PROVE  /\ i \in 1..Len(s.ends) /\ i <= j
           /\ j # i => j = i + 1 /\ ~IsEmpty(u) /\ UnitBegin(s, i + 1) <= p
<1>1. BeginsFacts(s) /\ HoldsFacts(s, u, i, p)
  BY UnitBegins, HoldsMore
<1>2. UnitBegin(s, j) < p + 1 /\ p + 1 <= UnitBegin(s, j + 1) /\ UnitBegin(s, j) \in Nat
      /\ UnitBegin(s, j + 1) \in Nat /\ UnitBegin(s, j + 1) <= Len(s.obus)
  <2>1. j \in 1..(Len(s.ends) + 1) /\ j + 1 \in 1..(Len(s.ends) + 1)
    BY <1>1 DEF BeginsFacts
  <2>. QED
    BY <1>1, <2>1, InUnit DEF BeginsFacts
<1>3. i \in 1..Len(s.ends)
  <2>1. p < Len(s.obus)
    BY <1>1, <1>2 DEF HoldsFacts, BeginsFacts
  <2>. QED
    BY <1>1, <2>1 DEF HoldsFacts
<1>4. i <= j
  <2>. SUFFICES ASSUME j < i PROVE FALSE
    BY <1>1 DEF HoldsFacts
  <2>1. j + 1 = i \/ j + 1 < i
    BY <1>1 DEF HoldsFacts
  <2>2. UnitBegin(s, j + 1) <= UnitBegin(s, i)
    <3>1. j + 1 \in 1..(Len(s.ends) + 1) /\ i \in 1..(Len(s.ends) + 1)
      BY <1>1, <1>3 DEF BeginsFacts
    <3>. QED
      BY <1>1, <1>2, <2>1, <3>1 DEF BeginsFacts
  <2>. QED
    BY <1>1, <1>2, <2>2 DEF HoldsFacts
(* A unit that was read completely is in u, and its frames are of its own.     *)
<1>5. ASSUME NEW a \in 1..Len(s.ends), i <= a, a < j
      PROVE  \E f \in FramesFrom(s, i, p) : f \in UnitObus(s, a)
  <2>1. PICK id \in Substreams : TRUE
    BY DEF Regularly, IsRegular
  <2>2. PICK f \in OfUse(s, "AudioFrame", Substreams, UnitObus(s, a)) : TRUE
    BY UnitHasFrames
  <2>3. f \in UnitObus(s, a)
    BY DEF OfUse
  <2>4. f \in Nat /\ UnitBegin(s, a) < f /\ f <= UnitBegin(s, a + 1)
    BY <2>3, InUnit
  <2>5. /\ a \in 1..(Len(s.ends) + 1) /\ a + 1 \in 1..(Len(s.ends) + 1)
        /\ i \in 1..(Len(s.ends) + 1) /\ j \in 1..(Len(s.ends) + 1)
        /\ a + 1 = j \/ a + 1 < j
    BY <1>1, <1>3, <1>5 DEF BeginsFacts
  <2>6. UnitBegin(s, a) \in Nat /\ UnitBegin(s, a + 1) \in Nat
    BY <1>1, <2>5 DEF BeginsFacts
  <2>7. UnitBegin(s, i) <= UnitBegin(s, a) /\ UnitBegin(s, a + 1) <= UnitBegin(s, j)
    <3>1. i = a \/ i < a
      BY <1>3, <1>5
    <3>2. i < a => UnitBegin(s, i) < UnitBegin(s, a)
      BY <1>1, <2>5 DEF BeginsFacts
    <3>3. a + 1 < j => UnitBegin(s, a + 1) < UnitBegin(s, j)
      BY <1>1, <2>5 DEF BeginsFacts
    <3>4. UnitBegin(s, i) \in Nat
      BY <1>1 DEF HoldsFacts
    <3>. QED
      BY <1>2, <2>5, <2>6, <3>1, <3>2, <3>3, <3>4
  <2>8. UnitBegin(s, i) \in Nat /\ p \in Nat
    BY <1>1 DEF HoldsFacts
  <2>9. f \in (UnitBegin(s, i) + 1)..p
    BY <1>2, <2>4, <2>6, <2>7, <2>8
  <2>. QED
    BY <2>3, <2>9 DEF FramesFrom, OfUse
<1>6. ASSUME j # i PROVE j = i + 1 /\ ~IsEmpty(u) /\ UnitBegin(s, i + 1) <= p
  <2>1. i < j /\ i + 1 \in 1..Len(s.ends)
    BY <1>1, <1>3, <1>4, <1>6 DEF BeginsFacts
  <2>2. ~IsEmpty(u)
    BY <1>1, <1>3, <1>5, <2>1 DEF HoldsFacts
  <2>3. j = i + 1
    <3>0. i \in Nat /\ j \in Nat /\ i <= i + 1
      BY <1>3, <2>1
    <3>. SUFFICES ASSUME i + 1 < j PROVE FALSE
      BY <2>1, <3>0
    <3>1. PICK f \in FramesFrom(s, i, p) : f \in UnitObus(s, i + 1)
      BY <1>5, <2>1, <3>0
    <3>2. f \in UnitObus(s, i)
      BY DEF Holds
    <3>3. i = i + 1
      BY <1>3, <2>1, <3>1, <3>2, UnitUnique
    <3>. QED
      BY <1>3, <3>3
  <2>4. UnitBegin(s, i + 1) < p + 1
    BY <1>2, <2>3
  <2>5. UnitBegin(s, i + 1) \in Nat /\ p \in Nat
    BY <1>1, <1>2, <2>3 DEF HoldsFacts
  <2>. QED
    BY <2>2, <2>3, <2>4, <2>5
<1>. QED
  BY <1>3, <1>4, <1>6
-------------------------------------------------------------------------------
(* What was read of a unit, with the next OBU.                                 *)
IsFrame(s, k) == s.obus[k].type = "AudioFrame" /\ s.obus[k].id \in Substreams
IsBlock(s, k) == s.obus[k].type = "ParameterBlock" /\ s.obus[k].id \in ParameterIds

LEMMA FromNext ==
    ASSUME NEW s, NEW i, UnitBegin(s, i) \in Nat, NEW p \in Nat, UnitBegin(s, i) <= p
    PROVE  /\ IsFrame(s, p + 1) => FramesFrom(s, i, p + 1) = FramesFrom(s, i, p) \union {p + 1}
           /\ ~IsFrame(s, p + 1) => FramesFrom(s, i, p + 1) = FramesFrom(s, i, p)
           /\ IsBlock(s, p + 1) => BlocksFrom(s, i, p + 1) = BlocksFrom(s, i, p) \union {p + 1}
           /\ ~IsBlock(s, p + 1) => BlocksFrom(s, i, p + 1) = BlocksFrom(s, i, p)
<1>. DEFINE K == (UnitBegin(s, i) + 1)..p
<1>1. (UnitBegin(s, i) + 1)..(p + 1) = K \union {p + 1}
  OBVIOUS
<1>. HIDE DEF K
<1>2. /\ FramesFrom(s, i, p + 1) = {k \in K \union {p + 1} : IsFrame(s, k)}
      /\ BlocksFrom(s, i, p + 1) = {k \in K \union {p + 1} : IsBlock(s, k)}
      /\ FramesFrom(s, i, p) = {k \in K : IsFrame(s, k)}
      /\ BlocksFrom(s, i, p) = {k \in K : IsBlock(s, k)}
  BY <1>1 DEF FramesFrom, BlocksFrom, OfUse, IsFrame, IsBlock, K
<1>. QED
  BY <1>2

LEMMA UsableNext ==
    ASSUME NEW s, NEW k
    PROVE  k \in Usable(s, {k}) <=> IsFrame(s, k) \/ IsBlock(s, k)
BY DEF Usable, OfUse, IsFrame, IsBlock

(* The next OBU is of no use.                                                  *)
LEMMA HoldsWithout ==
    ASSUME NEW s, Regularly(s), NEW u, UnitOK(u), NEW i, NEW p, Holds(s, u, i, p),
           p < Len(s.obus), p + 1 \notin Usable(s, {p + 1}), NEW v,
           v.frames = u.frames, v.blocks = u.blocks, v.timestamp = u.timestamp,
           v.delimiter => u.delimiter \/ s.obus[p + 1].type = "TemporalDelimiter"
    PROVE  Holds(s, v, i, p + 1)
<1>1. HoldsFacts(s, u, i, p) /\ Len(s.obus) \in Nat
  BY UnitBegins, HoldsMore DEF BeginsFacts
<1>2. p \in Nat /\ UnitBegin(s, i) \in Nat /\ UnitBegin(s, i) <= p
  BY <1>1 DEF HoldsFacts
<1>3. FramesFrom(s, i, p + 1) = FramesFrom(s, i, p)
  BY <1>2, FromNext, UsableNext
<1>4. BlocksFrom(s, i, p + 1) = BlocksFrom(s, i, p)
  BY <1>2, FromNext, UsableNext
<1>5. p + 1 \in UnitBegin(s, i)..Len(s.obus)
  BY <1>1, <1>2
<1>6. IsEmpty(v) <=> IsEmpty(u)
  BY DEF IsEmpty
<1>7. v.delimiter /\ IsEmpty(v) =>
          \E d \in (UnitBegin(s, i) + 1)..(p + 1) : s.obus[d].type = "TemporalDelimiter"
  <2>1. /\ \A d \in (UnitBegin(s, i) + 1)..p : d \in (UnitBegin(s, i) + 1)..(p + 1)
        /\ p + 1 \in (UnitBegin(s, i) + 1)..(p + 1)
    BY <1>2
  <2>. QED
    BY <1>6, <2>1 DEF Holds
<1>. QED
  BY <1>3, <1>4, <1>5, <1>6, <1>7 DEF Holds

(* The next OBU is of use and belongs to the unit.                             *)
LEMMA HoldsFrame ==
    ASSUME NEW s, Regularly(s), NEW u, UnitOK(u), NEW i, NEW p, Holds(s, u, i, p),
           i \in 1..Len(s.ends), p + 1 \in UnitObus(s, i),
           s.obus[p + 1].type = "AudioFrame", s.obus[p + 1].id \in Substreams,
           NEW d \in Timed, d.index = p + 1, NEW v,
           v.frames = Append(u.frames, d), v.blocks = u.blocks,
           v.timestamp = (i - 1) * FrameSize
    PROVE  Holds(s, v, i, p + 1)
<1>1. HoldsFacts(s, u, i, p) /\ BeginsFacts(s)
  BY UnitBegins, HoldsMore
<1>2. p \in Nat /\ UnitBegin(s, i) \in Nat /\ UnitBegin(s, i) <= p
  BY <1>1 DEF HoldsFacts
<1>3. FramesFrom(s, i, p + 1) = FramesFrom(s, i, p) \union {p + 1}
  BY <1>2, FromNext DEF IsFrame, IsBlock
<1>4. BlocksFrom(s, i, p + 1) = BlocksFrom(s, i, p)
  BY <1>2, FromNext DEF IsFrame, IsBlock
<1>5. Lists(v.frames, FramesFrom(s, i, p + 1))
  <2>1. u.frames \in Seq(Timed) /\ Lists(u.frames, FramesFrom(s, i, p))
    BY DEF UnitOK, Assembled, Holds
  <2>2. \A k \in FramesFrom(s, i, p) : k \in Nat /\ k < p + 1
    BY <1>2 DEF FramesFrom, OfUse
  <2>. QED
    BY <1>3, <2>1, <2>2, ListsAppended
<1>6. p + 1 \in UnitBegin(s, i)..Len(s.obus)
  <2>1. p + 1 <= UnitBegin(s, i + 1) /\ i + 1 \in 1..(Len(s.ends) + 1)
    BY <1>1, InUnit DEF BeginsFacts
  <2>. QED
    BY <1>1, <1>2, <2>1 DEF BeginsFacts
<1>7. v.frames # <<>> /\ ~IsEmpty(v)
  <2>1. Append(u.frames, d) # <<>>
    BY DEF UnitOK, Assembled
  <2>. QED
    BY <2>1 DEF IsEmpty
<1>. QED
  BY <1>3, <1>4, <1>5, <1>6, <1>7 DEF Holds

LEMMA HoldsBlock ==
    ASSUME NEW s, Regularly(s), NEW u, UnitOK(u), NEW i, NEW p, Holds(s, u, i, p),
           i \in 1..Len(s.ends), p + 1 \in UnitObus(s, i),
           s.obus[p + 1].type = "ParameterBlock", s.obus[p + 1].id \in ParameterIds,
           NEW d \in Timed, d.index = p + 1, NEW v,
           v.blocks = Append(u.blocks, d), v.frames = u.frames,
           v.timestamp = (i - 1) * FrameSize
    PROVE  Holds(s, v, i, p + 1)
<1>1. HoldsFacts(s, u, i, p) /\ BeginsFacts(s)
  BY UnitBegins, HoldsMore
<1>2. p \in Nat /\ UnitBegin(s, i) \in Nat /\ UnitBegin(s, i) <= p
  BY <1>1 DEF HoldsFacts
<1>3. BlocksFrom(s, i, p + 1) = BlocksFrom(s, i, p) \union {p + 1}
  BY <1>2, FromNext DEF IsFrame, IsBlock
<1>4. FramesFrom(s, i, p + 1) = FramesFrom(s, i, p)
  BY <1>2, FromNext DEF IsFrame, IsBlock
<1>5. Lists(v.blocks, BlocksFrom(s, i, p + 1))
  <2>1. u.blocks \in Seq(Timed) /\ Lists(u.blocks, BlocksFrom(s, i, p))
    BY DEF UnitOK, Assembled, Holds
  <2>2. \A k \in BlocksFrom(s, i, p) : k \in Nat /\ k < p + 1
    BY <1>2 DEF BlocksFrom, OfUse
  <2>. QED
    BY <1>3, <2>1, <2>2, ListsAppended
<1>6. p + 1 \in UnitBegin(s, i)..Len(s.obus)
  <2>1. p + 1 <= UnitBegin(s, i + 1) /\ i + 1 \in 1..(Len(s.ends) + 1)
    BY <1>1, InUnit DEF BeginsFacts
  <2>. QED
    BY <1>1, <1>2, <2>1 DEF BeginsFacts
<1>7. v.blocks # <<>> /\ ~IsEmpty(v)
  <2>1. Append(u.blocks, d) # <<>>
    BY DEF UnitOK, Assembled
  <2>. QED
    BY <2>1 DEF IsEmpty
<1>. QED
  BY <1>3, <1>4, <1>5, <1>6, <1>7 DEF Holds

(* When everything of the unit was read, it is the unit encoded, and nothing   *)
(* of the next one is there yet.                                               *)
LEMMA HoldsAll ==
    ASSUME NEW s, Regularly(s), NEW u, UnitOK(u), NEW i, NEW p, Holds(s, u, i, p),
           ~IsEmpty(u), UnitBegin(s, i + 1) <= p
    PROVE  /\ i \in 1..Len(s.ends) /\ IsUnit(s, Output(u), i)
           /\ Holds(s, EmptyUnit, i + 1, p)
<1>1. HoldsFacts(s, u, i, p) /\ BeginsFacts(s)
  BY UnitBegins, HoldsMore
<1>2. /\ i \in 1..Len(s.ends) /\ i \in Nat /\ p \in Nat
      /\ UnitBegin(s, i) \in Nat /\ UnitBegin(s, i) <= p
  BY <1>1 DEF HoldsFacts
<1>3. /\ i + 1 \in 1..(Len(s.ends) + 1) /\ UnitBegin(s, i + 1) \in Nat
      /\ s.ends[i] = UnitBegin(s, i + 1) /\ UnitBegin(s, i) < UnitBegin(s, i + 1)
  <2>1. i + 1 \in 1..(Len(s.ends) + 1) /\ i \in 1..(Len(s.ends) + 1) /\ i < i + 1
    BY <1>1, <1>2 DEF BeginsFacts
  <2>. QED
    BY <1>1, <1>2, <2>1 DEF BeginsFacts
<1>4. \A k \in UnitObus(s, i) : k \in (UnitBegin(s, i) + 1)..p
  BY <1>2, <1>3 DEF UnitObus
<1>5. \A k \in (UnitBegin(s, i + 1) + 1)..p : k \in (UnitBegin(s, i) + 1)..p /\ k \notin UnitObus(s, i)
  BY <1>2, <1>3 DEF UnitObus
<1>6. \A k \in FramesFrom(s, i, p) \union BlocksFrom(s, i, p) : k \in UnitObus(s, i)
  BY DEF Holds
<1>7. FramesFrom(s, i, p) = OfUse(s, "AudioFrame", Substreams, UnitObus(s, i))
  BY <1>4, <1>6 DEF FramesFrom, OfUse
<1>8. BlocksFrom(s, i, p) = OfUse(s, "ParameterBlock", ParameterIds, UnitObus(s, i))
  BY <1>4, <1>6 DEF BlocksFrom, OfUse
<1>9. FramesFrom(s, i + 1, p) = {} /\ BlocksFrom(s, i + 1, p) = {}
  BY <1>5, <1>6 DEF FramesFrom, BlocksFrom, OfUse
<1>10. IsUnit(s, Output(u), i)
  BY <1>7, <1>8 DEF Holds, IsUnit, Output
<1>11. p \in UnitBegin(s, i + 1)..Len(s.obus)
  BY <1>1, <1>2, <1>3 DEF HoldsFacts
<1>12. /\ EmptyUnit.frames = <<>> /\ EmptyUnit.blocks = <<>> /\ EmptyUnit.delimiter = FALSE
       /\ IsEmpty(EmptyUnit)
  BY DEF EmptyUnit, IsEmpty
<1>13. Lists(<<>>, {})
  BY DEF Lists
<1>14. Holds(s, EmptyUnit, i + 1, p)
  BY <1>3, <1>9, <1>11, <1>12, <1>13 DEF Holds
<1>. QED
  BY <1>2, <1>10, <1>14

(* The unit of a delimiter: it comes before all that is of use.                *)
LEMMA DelimiterFirst ==
    ASSUME NEW s, Regularly(s), NEW u, UnitOK(u), NEW i, NEW p, Holds(s, u, i, p),
           p < Len(s.obus), s.obus[p + 1].type = "TemporalDelimiter"
    PROVE  /\ ~IsEmpty(u) => UnitBegin(s, i + 1) <= p
           /\ IsEmpty(u) => ~u.delimiter
<1>1. HoldsFacts(s, u, i, p) /\ BeginsFacts(s)
  BY UnitBegins, HoldsMore
<1>2. p \in Nat /\ UnitBegin(s, i) \in Nat /\ UnitBegin(s, i) <= p
  BY <1>1 DEF HoldsFacts
<1>3. PICK j \in 1..Len(s.ends) : p + 1 \in UnitObus(s, j)
  <2>1. p + 1 \in 1..Len(s.obus)
    BY <1>1, <1>2 DEF BeginsFacts
  <2>. QED
    BY <2>1, UnitExists
<1>4. /\ i \in 1..Len(s.ends) /\ i <= j
      /\ j # i => j = i + 1 /\ ~IsEmpty(u) /\ UnitBegin(s, i + 1) <= p
  BY <1>3, NextIsNear
<1>5. UnitInOrder(s, i)
  BY <1>4 DEF Regularly, IsRegular
<1>6. CASE j # i
  BY <1>4, <1>6
<1>7. CASE j = i
  <2>1. IsEmpty(u)
    <3>. SUFFICES ASSUME ~IsEmpty(u) PROVE FALSE
      OBVIOUS
    <3>1. PICK k : k \in FramesFrom(s, i, p) \union BlocksFrom(s, i, p)
      BY <1>1 DEF HoldsFacts
    <3>2. k \in Usable(s, UnitObus(s, i))
      BY <3>1 DEF Holds, Usable, FramesFrom, BlocksFrom, OfUse
    <3>3. k \in (UnitBegin(s, i) + 1)..p
      BY <3>1 DEF FramesFrom, BlocksFrom, OfUse
    <3>4. p + 1 < k
      BY <1>3, <1>5, <1>7, <3>2 DEF UnitInOrder
    <3>. QED
      BY <1>2, <3>3, <3>4
  <2>2. ~u.delimiter
    <3>. SUFFICES ASSUME u.delimiter PROVE FALSE
      OBVIOUS
    <3>1. PICK d \in (UnitBegin(s, i) + 1)..p : s.obus[d].type = "TemporalDelimiter"
      BY <2>1 DEF Holds
    <3>2. d \in UnitObus(s, i)
      <4>1. p + 1 <= UnitBegin(s, i + 1) /\ UnitBegin(s, i + 1) \in Nat
        BY <1>1, <1>3, <1>4, <1>7, InUnit DEF BeginsFacts
      <4>. QED
        BY <1>2, <1>4, <3>1, <4>1, InUnit
    <3>3. d = p + 1
      BY <1>3, <1>5, <1>7, <3>1, <3>2 DEF UnitInOrder
    <3>. QED
      BY <1>2, <3>1, <3>3
  <2>. QED
    BY <2>1, <2>2
<1>. QED
  BY <1>6, <1>7
-------------------------------------------------------------------------------
(* The clocks are where the last frame, or block, that was read ends.          *)
FrameClocks(s, p, c) == \A id \in Substreams : EndAt(s, ReadOf(s, "AudioFrame", id, p), c[id])
BlockClocks(s, p, c) == \A id \in ParameterIds : EndAt(s, ReadOf(s, "ParameterBlock", id, p), c[id])

LEMMA ClocksWithout ==
    ASSUME NEW s, NEW p \in Nat, NEW f, NEW b, FrameClocks(s, p, f), BlockClocks(s, p, b)
    PROVE  /\ ~IsFrame(s, p + 1) => FrameClocks(s, p + 1, f)
           /\ ~IsBlock(s, p + 1) => BlockClocks(s, p + 1, b)
<1>1. ASSUME ~IsFrame(s, p + 1), NEW id \in Substreams
      PROVE  ReadOf(s, "AudioFrame", id, p + 1) = ReadOf(s, "AudioFrame", id, p)
  BY <1>1, ReadNext DEF IsFrame
<1>2. ASSUME ~IsBlock(s, p + 1), NEW id \in ParameterIds
      PROVE  ReadOf(s, "ParameterBlock", id, p + 1) = ReadOf(s, "ParameterBlock", id, p)
  BY <1>2, ReadNext DEF IsBlock
<1>. QED
  BY <1>1, <1>2 DEF FrameClocks, BlockClocks

LEMMA FrameInTime ==
    ASSUME NEW s, Regularly(s), NEW p \in Nat, NEW i \in 1..Len(s.ends),
           p + 1 \in UnitObus(s, i), IsFrame(s, p + 1),
           NEW f \in [Substreams -> Nat], FrameClocks(s, p, f)
    PROVE  /\ f[s.obus[p + 1].id] = (i - 1) * FrameSize
           /\ FrameClocks(s, p + 1, [f EXCEPT ![s.obus[p + 1].id] = @ + FrameSize])
<1>. DEFINE o == s.obus[p + 1]  g == [f EXCEPT ![o.id] = @ + FrameSize]
<1>1. o.type = "AudioFrame" /\ o.id \in Substreams
  BY DEF IsFrame
<1>2. p + 1 \in Usable(s, UnitObus(s, i))
  BY DEF IsFrame, Usable, OfUse
<1>3. f[o.id] = (i - 1) * FrameSize
  <2>1. EndAt(s, OfUse(s, s.obus[p + 1].type, {s.obus[p + 1].id}, 1..p), f[o.id])
    BY <1>1 DEF FrameClocks, ReadOf
  <2>. QED
    BY <1>2, <2>1, BeginsInTime
<1>4. ASSUME NEW id \in Substreams
      PROVE  EndAt(s, ReadOf(s, "AudioFrame", id, p + 1), g[id])
  <2>1. CASE id = o.id
    <3>1. ReadOf(s, "AudioFrame", id, p + 1) = ReadOf(s, "AudioFrame", id, p) \union {p + 1}
      BY <1>1, <2>1, ReadNext
    <3>2. g[id] = (i - 1) * FrameSize + Duration(s.obus[p + 1])
      BY <1>1, <1>3, <2>1 DEF Duration
    <3>3. ReadOf(s, "AudioFrame", id, p) \subseteq 1..p
      BY ReadNext
    <3>. QED
      BY <3>1, <3>2, <3>3, EndAtNext
  <2>2. CASE id # o.id
    <3>1. ReadOf(s, "AudioFrame", id, p + 1) = ReadOf(s, "AudioFrame", id, p)
      BY <2>2, ReadNext
    <3>2. g[id] = f[id]
      BY <2>2
    <3>. QED
      BY <3>1, <3>2 DEF FrameClocks
  <2>. QED
    BY <2>1, <2>2
<1>. QED
  BY <1>3, <1>4 DEF FrameClocks

BlockReadInTime(s, p, i, f, b) ==
    /\ b[s.obus[p + 1].id] = (i - 1) * FrameSize
    /\ \A id \in Substreams : f[id] = (i - 1) * FrameSize
    /\ BlockClocks(s, p + 1, [b EXCEPT ![s.obus[p + 1].id] = @ + s.obus[p + 1].duration])

LEMMA BlockInTime ==
    ASSUME NEW s, Regularly(s), NEW p \in Nat, NEW i \in 1..Len(s.ends),
           p + 1 \in UnitObus(s, i), IsBlock(s, p + 1),
           NEW f \in [Substreams -> Nat], FrameClocks(s, p, f),
           NEW b \in [ParameterIds -> Nat], BlockClocks(s, p, b)
    PROVE  BlockReadInTime(s, p, i, f, b)
<1>. DEFINE o == s.obus[p + 1]  g == [b EXCEPT ![o.id] = @ + o.duration]
<1>1. o.type = "ParameterBlock" /\ o.id \in ParameterIds
  BY DEF IsBlock
<1>2. p + 1 \in Usable(s, UnitObus(s, i))
  BY DEF IsBlock, Usable, OfUse
<1>3. b[o.id] = (i - 1) * FrameSize
  <2>1. EndAt(s, OfUse(s, s.obus[p + 1].type, {s.obus[p + 1].id}, 1..p), b[o.id])
    BY <1>1 DEF BlockClocks, ReadOf
  <2>. QED
    BY <1>2, <2>1, BeginsInTime
<1>4. ASSUME NEW id \in Substreams PROVE f[id] = (i - 1) * FrameSize
  <2>1. \A k \in OfUse(s, "AudioFrame", Substreams, UnitObus(s, i)) : p < k
    <3>1. UnitInOrder(s, i)
      BY DEF Regularly, IsRegular
    <3>2. p + 1 \in OfUse(s, "ParameterBlock", ParameterIds, UnitObus(s, i))
      BY <1>1 DEF OfUse
    <3>3. \A k \in OfUse(s, "AudioFrame", Substreams, UnitObus(s, i)) : p + 1 < k /\ k \in Nat
      BY <3>1, <3>2, InUnit DEF UnitInOrder, OfUse
    <3>4. \A k \in Nat : p + 1 < k => p < k
      OBVIOUS
    <3>. QED
      BY <3>3, <3>4
  <2>2. UnitBegin(s, i) <= p
    <3>1. UnitBegin(s, i) < p + 1
      BY InUnit
    <3>2. UnitBegin(s, i) \in Nat
      BY UnitBegins DEF BeginsFacts
    <3>. QED
      BY <3>1, <3>2
  <2>3. EndAt(s, OfUse(s, "AudioFrame", {id}, 1..p), f[id])
    BY DEF FrameClocks, ReadOf
  <2>. QED
    BY <2>1, <2>2, <2>3, ClocksBeforeUnit
<1>5. ASSUME NEW id \in ParameterIds
      PROVE  EndAt(s, ReadOf(s, "ParameterBlock", id, p + 1), g[id])
  <2>1. CASE id = o.id
    <3>1. ReadOf(s, "ParameterBlock", id, p + 1) = ReadOf(s, "ParameterBlock", id, p) \union {p + 1}
      BY <1>1, <2>1, ReadNext
    <3>2. g[id] = (i - 1) * FrameSize + Duration(s.obus[p + 1])
      BY <1>1, <1>3, <2>1 DEF Duration
    <3>3. ReadOf(s, "ParameterBlock", id, p) \subseteq 1..p
      BY ReadNext
    <3>. QED
      BY <3>1, <3>2, <3>3, EndAtNext
  <2>2. CASE id # o.id
    <3>1. ReadOf(s, "ParameterBlock", id, p + 1) = ReadOf(s, "ParameterBlock", id, p)
      BY <2>2, ReadNext
    <3>2. g[id] = b[id]
      BY <2>2
    <3>. QED
      BY <3>1, <3>2 DEF BlockClocks
  <2>. QED
    BY <2>1, <2>2
<1>. QED
  BY <1>3, <1>4, <1>5 DEF BlockClocks, BlockReadInTime
-------------------------------------------------------------------------------
(* The units output are the first ones encoded.                                *)
Encoded(s, us) == /\ Len(us) <= Len(s.ends)
                  /\ \A i \in 1..Len(us) : IsUnit(s, us[i], i)

LEMMA EncodedNext ==
    ASSUME NEW s, Regularly(s), NEW us \in Seq(Clocked), Encoded(s, us), NEW u, UnitOK(u),
           NEW p, Holds(s, u, Len(us) + 1, p), ~IsEmpty(u), UnitBegin(s, Len(us) + 2) <= p
    PROVE  /\ Encoded(s, Append(us, Output(u)))
           /\ Len(Append(us, Output(u))) = Len(us) + 1
           /\ Holds(s, EmptyUnit, Len(us) + 2, p)
<1>. DEFINE n == Len(us)  vs == Append(us, Output(u))
<1>1. /\ n \in Nat /\ Len(vs) = n + 1 /\ vs[n + 1] = Output(u)
      /\ \A i \in 1..n : vs[i] = us[i]
      /\ \A i \in 1..(n + 1) : i \in 1..n \/ i = n + 1
  <2>1. Output(u) \in Clocked
    BY OutputType
  <2>. QED
    BY <2>1
<1>2. (n + 1) + 1 = n + 2
  BY <1>1
<1>3. n + 1 \in 1..Len(s.ends) /\ IsUnit(s, Output(u), n + 1) /\ Holds(s, EmptyUnit, n + 2, p)
  BY <1>2, HoldsAll
<1>4. n + 1 <= Len(s.ends)
  BY <1>3
<1>. HIDE DEF n, vs
<1>5. \A i \in 1..(n + 1) : IsUnit(s, vs[i], i)
  BY <1>1, <1>3 DEF Encoded, n
<1>. QED
  BY <1>1, <1>3, <1>4, <1>5 DEF Encoded, n, vs

LEMMA FrameTaken ==
    ASSUME NEW s, Regularly(s), NEW us \in Seq(Clocked), Encoded(s, us), NEW u, UnitOK(u),
           NEW p, Holds(s, u, Len(us) + 1, p), NEW j \in 1..Len(s.ends),
           p + 1 \in UnitObus(s, j), IsFrame(s, p + 1),
           NEW d \in Timed, d.index = p + 1, d.start = (j - 1) * FrameSize
    PROVE  /\ AcceptedIn(u, d) => Holds(s, WithFrame(u, d), Len(us) + 1, p + 1)
           /\ ~AcceptedIn(u, d) =>
                 /\ ~IsEmpty(u) /\ Encoded(s, Append(us, Output(u)))
                 /\ Holds(s, WithFrame(EmptyUnit, d), Len(Append(us, Output(u))) + 1, p + 1)
<1>. DEFINE i == Len(us) + 1
<1>1. /\ i \in 1..Len(s.ends) /\ i <= j
      /\ j # i => j = i + 1 /\ ~IsEmpty(u) /\ UnitBegin(s, i + 1) <= p
  BY NextIsNear
<1>2. FrameSize \in Nat /\ FrameSize > 0 /\ s.obus[p + 1].type = "AudioFrame"
      /\ s.obus[p + 1].id \in Substreams /\ d.start \in Nat /\ Len(us) \in Nat /\ i \in Nat
  BY FrameSizeAssumption DEF IsFrame, Timed
<1>3. CASE j = i
  <2>1. AcceptedIn(u, d)
    BY <1>3 DEF AcceptedIn, UnitOK, Holds
  <2>2. /\ WithFrame(u, d).frames = Append(u.frames, d) /\ WithFrame(u, d).blocks = u.blocks
        /\ WithFrame(u, d).timestamp = d.start
    BY <2>1, WithFrameOK
  <2>3. Holds(s, WithFrame(u, d), i, p + 1)
    BY <1>1, <1>2, <1>3, <2>2, HoldsFrame
  <2>. QED
    BY <2>1, <2>3
<1>4. CASE j # i
  <2>1. ~IsEmpty(u) /\ j = i + 1 /\ UnitBegin(s, i + 1) <= p /\ i + 1 = Len(us) + 2
    BY <1>1, <1>2, <1>4
  <2>2. ~AcceptedIn(u, d)
    <3>1. u.timestamp = (i - 1) * FrameSize /\ u.timestamp # None
      BY <2>1 DEF Holds, UnitOK
    <3>2. d.start = i * FrameSize
      BY <1>2, <2>1
    <3>3. (i - 1) * FrameSize # i * FrameSize
      BY <1>2
    <3>. QED
      BY <3>1, <3>2, <3>3 DEF AcceptedIn
  <2>3. /\ Encoded(s, Append(us, Output(u))) /\ Len(Append(us, Output(u))) = i
        /\ Holds(s, EmptyUnit, i + 1, p)
    BY <2>1, EncodedNext
  <2>4. /\ UnitOK(EmptyUnit) /\ AcceptedIn(EmptyUnit, d)
        /\ EmptyUnit.frames = <<>> /\ EmptyUnit.blocks = <<>>
    BY EmptyUnitOK DEF AcceptedIn, EmptyUnit
  <2>5. /\ WithFrame(EmptyUnit, d).frames = Append(EmptyUnit.frames, d)
        /\ WithFrame(EmptyUnit, d).blocks = EmptyUnit.blocks
        /\ WithFrame(EmptyUnit, d).timestamp = d.start
    BY <2>4, WithFrameOK
  <2>6. Holds(s, WithFrame(EmptyUnit, d), i + 1, p + 1)
    BY <1>2, <2>1, <2>3, <2>4, <2>5, HoldsFrame
  <2>. QED
    BY <2>1, <2>2, <2>3, <2>6
<1>. QED
  BY <1>3, <1>4

LEMMA BlockTaken ==
    ASSUME NEW s, Regularly(s), NEW us \in Seq(Clocked), Encoded(s, us), NEW u, UnitOK(u),
           NEW p, Holds(s, u, Len(us) + 1, p), NEW j \in 1..Len(s.ends),
           p + 1 \in UnitObus(s, j), IsBlock(s, p + 1),
           NEW d \in Timed, d.index = p + 1, d.start = (j - 1) * FrameSize
    PROVE  /\ AcceptedIn(u, d) => Holds(s, WithBlock(u, d), Len(us) + 1, p + 1)
           /\ ~AcceptedIn(u, d) =>
                 /\ ~IsEmpty(u) /\ Encoded(s, Append(us, Output(u)))
                 /\ Holds(s, WithBlock(EmptyUnit, d), Len(Append(us, Output(u))) + 1, p + 1)
<1>. DEFINE i == Len(us) + 1
<1>1. /\ i \in 1..Len(s.ends) /\ i <= j
      /\ j # i => j = i + 1 /\ ~IsEmpty(u) /\ UnitBegin(s, i + 1) <= p
  BY NextIsNear
<1>2. FrameSize \in Nat /\ FrameSize > 0 /\ s.obus[p + 1].type = "ParameterBlock"
      /\ s.obus[p + 1].id \in ParameterIds /\ d.start \in Nat /\ Len(us) \in Nat /\ i \in Nat
  BY FrameSizeAssumption DEF IsBlock, Timed
<1>3. CASE j = i
  <2>1. AcceptedIn(u, d)
    BY <1>3 DEF AcceptedIn, UnitOK, Holds
  <2>2. /\ WithBlock(u, d).blocks = Append(u.blocks, d) /\ WithBlock(u, d).frames = u.frames
        /\ WithBlock(u, d).timestamp = d.start
    BY <2>1, WithBlockOK
  <2>3. Holds(s, WithBlock(u, d), i, p + 1)
    BY <1>1, <1>2, <1>3, <2>2, HoldsBlock
  <2>. QED
    BY <2>1, <2>3
<1>4. CASE j # i
  <2>1. ~IsEmpty(u) /\ j = i + 1 /\ UnitBegin(s, i + 1) <= p /\ i + 1 = Len(us) + 2
    BY <1>1, <1>2, <1>4
  <2>2. ~AcceptedIn(u, d)
    <3>1. u.timestamp = (i - 1) * FrameSize /\ u.timestamp # None
      BY <2>1 DEF Holds, UnitOK
    <3>2. d.start = i * FrameSize
      BY <1>2, <2>1
    <3>3. (i - 1) * FrameSize # i * FrameSize
      BY <1>2
    <3>. QED
      BY <3>1, <3>2, <3>3 DEF AcceptedIn
  <2>3. /\ Encoded(s, Append(us, Output(u))) /\ Len(Append(us, Output(u))) = i
        /\ Holds(s, EmptyUnit, i + 1, p)
    BY <2>1, EncodedNext
  <2>4. /\ UnitOK(EmptyUnit) /\ AcceptedIn(EmptyUnit, d)
        /\ EmptyUnit.frames = <<>> /\ EmptyUnit.blocks = <<>>
    BY EmptyUnitOK DEF AcceptedIn, EmptyUnit
  <2>5. /\ WithBlock(EmptyUnit, d).blocks = Append(EmptyUnit.blocks, d)
        /\ WithBlock(EmptyUnit, d).frames = EmptyUnit.frames
        /\ WithBlock(EmptyUnit, d).timestamp = d.start
    BY <2>4, WithBlockOK
  <2>6. Holds(s, WithBlock(EmptyUnit, d), i + 1, p + 1)
    BY <1>2, <2>1, <2>3, <2>4, <2>5, HoldsBlock
  <2>. QED
    BY <2>1, <2>2, <2>3, <2>6
<1>. QED
  BY <1>3, <1>4
-------------------------------------------------------------------------------
(* The invariant for regular streams.                                          *)
RegularFor(s, us, u, p, f, b) ==
    /\ IsRegular(s) /\ Encoded(s, us) /\ Holds(s, u, Len(us) + 1, p)
    /\ FrameClocks(s, p, f) /\ BlockClocks(s, p, b)
RegularInv ==
    stream.regular => RegularFor(stream, units, current, position, frameClock, blockClock)

(* The end of the data is the end of a unit.                                   *)
Cut == received = 0 \/ AtAnEnd
CutInv == stream.regular /\ pc = "processing" /\ eos => Cut

(* Everything received is output.                                              *)
Drained == position = received /\ IsEmpty(current)

LEMMA CutEndsUnit ==
    ASSUME NEW s, Regularly(s), NEW u, UnitOK(u), NEW i, NEW p, Holds(s, u, i, p), ~IsEmpty(u),
           p = 0 \/ p = Len(s.obus) \/ \E m \in 1..Len(s.ends) : p = s.ends[m]
    PROVE  UnitBegin(s, i + 1) <= p
<1>1. HoldsFacts(s, u, i, p) /\ BeginsFacts(s)
  BY UnitBegins, HoldsMore
<1>2. /\ p \in Nat /\ UnitBegin(s, i) \in Nat /\ i \in 1..Len(s.ends) /\ i \in Nat
      /\ Len(s.ends) \in Nat
  BY <1>1 DEF HoldsFacts, BeginsFacts
<1>3. UnitBegin(s, i) < p
  <2>1. PICK k : k \in FramesFrom(s, i, p) \union BlocksFrom(s, i, p)
    BY <1>1 DEF HoldsFacts
  <2>2. k \in (UnitBegin(s, i) + 1)..p
    BY <2>1 DEF FramesFrom, BlocksFrom, OfUse
  <2>. QED
    BY <1>2, <2>2
<1>4. PICK m \in 1..Len(s.ends) : p = UnitBegin(s, m + 1)
  <2>1. CASE \E m \in 1..Len(s.ends) : p = s.ends[m]
    BY <1>1, <2>1 DEF BeginsFacts
  <2>2. CASE p = Len(s.obus)
    <3>1. Len(s.ends) \in 1..Len(s.ends)
      BY <1>2
    <3>. QED
      BY <1>1, <2>2, <3>1 DEF BeginsFacts
  <2>. QED
    BY <1>2, <1>3, <2>1, <2>2
<1>5. m + 1 \in 1..(Len(s.ends) + 1) /\ i \in 1..(Len(s.ends) + 1) /\ i + 1 \in 1..(Len(s.ends) + 1)
  BY <1>2
<1>6. i < m + 1
  <2>. SUFFICES ASSUME ~(i < m + 1) PROVE FALSE
    OBVIOUS
  <2>1. m + 1 = i \/ m + 1 < i
    BY <1>2
  <2>2. m + 1 < i => UnitBegin(s, m + 1) < UnitBegin(s, i)
    BY <1>1, <1>5 DEF BeginsFacts
  <2>. QED
    BY <1>2, <1>3, <1>4, <2>1, <2>2
<1>7. i + 1 = m + 1 \/ i + 1 < m + 1
  BY <1>2, <1>6
<1>8. i + 1 < m + 1 => UnitBegin(s, i + 1) < UnitBegin(s, m + 1)
  BY <1>1, <1>5 DEF BeginsFacts
<1>9. UnitBegin(s, i + 1) \in Nat
  BY <1>1, <1>5 DEF BeginsFacts
<1>. QED
  BY <1>2, <1>4, <1>7, <1>8, <1>9

(* How an iteration ends: nothing was put into the next unit.                  *)
LEMMA CollectedOne ==
    ASSUME next = EmptyUnit, NEW u, NEW stopped, NEW delimited,
           Collect(u, next, stopped, delimited)
    PROVE  /\ (stopped /\ eos) \/ delimited =>
                IF IsEmpty(u) THEN current' = u /\ units' = units
                ELSE current' = EmptyUnit /\ units' = Append(units, Output(u))
           /\ ~((stopped /\ eos) \/ delimited) =>
                /\ current' = u /\ units' = units
                /\ ~stopped => pc' = "processing"
<1>1. next.timestamp = None
  BY DEF EmptyUnit
<1>2. Finished(u, next, stopped, delimited) <=> (stopped /\ eos) \/ delimited
  BY <1>1 DEF Finished
<1>. QED
  BY <1>2 DEF Collect, Following

LEMMA CollectedTwo ==
    ASSUME NEW u, ~IsEmpty(u), NEW n, n.timestamp # None, Collect(u, n, FALSE, FALSE)
    PROVE  current' = n /\ units' = Append(units, Output(u))
<1>1. Finished(u, n, FALSE, FALSE)
  BY DEF Finished
<1>. QED
  BY <1>1 DEF Collect, Following

LEMMA UnitsGrow ==
    ASSUME NEW us \in Seq(Clocked), NEW u, UnitOK(u), ~IsEmpty(u)
    PROVE  Append(us, Output(u)) # us
<1>1. Output(u) \in Clocked
  BY OutputType
<1>2. Len(Append(us, Output(u))) = Len(us) + 1 /\ Len(us) \in Nat
  BY <1>1
<1>. QED
  BY <1>2

(* What a step of a regular stream leads to.                                   *)
Ready == WorkInv /\ ControlOK /\ stream.regular /\ RegularInv /\ (eos => Cut)
Result == /\ RegularFor(stream, units', current', position', frameClock', blockClock')
          /\ pc' = "returned" /\ units' = units /\ eos => position' = received /\ IsEmpty(current')

LEMMA ReadyFacts ==
    ASSUME Ready
    PROVE  /\ Regularly(stream) /\ units \in Seq(Clocked) /\ Len(units) \in Nat
           /\ UnitOK(current) /\ next = EmptyUnit
           /\ Encoded(stream, units) /\ Holds(stream, current, Len(units) + 1, position)
           /\ FrameClocks(stream, position, frameClock) /\ BlockClocks(stream, position, blockClock)
           /\ frameClock \in [Substreams -> Nat] /\ blockClock \in [ParameterIds -> Nat]
           /\ position \in Nat /\ received \in 0..Len(stream.obus)
<1>1. WorkInv /\ ControlOK /\ RegularFor(stream, units, current, position, frameClock, blockClock)
  BY DEF Ready, RegularInv
<1>2. /\ stream \in Stream /\ position \in Nat /\ received \in 0..Len(stream.obus)
      /\ frameClock \in [Substreams -> Nat] /\ blockClock \in [ParameterIds -> Nat]
  BY <1>1 DEF WorkInv, ReadingOK, Stream, ControlOK
<1>3. units \in Seq(Clocked) /\ UnitOK(current) /\ next = EmptyUnit
  BY <1>1 DEF WorkInv, UnitInv
<1>4. Regularly(stream)
  BY <1>1, <1>2 DEF RegularFor, Regularly
<1>5. Len(units) \in Nat
  BY <1>3
<1>. QED
  BY <1>1, <1>2, <1>3, <1>4, <1>5 DEF RegularFor

LEMMA ReadFacts ==
    ASSUME Ready, NEW type, Read(type)
    PROVE  /\ position \in Nat /\ position < Len(stream.obus)
           /\ stream.obus[position + 1] \in Obu /\ stream.obus[position + 1].type = type
           /\ \E j \in 1..Len(stream.ends) : position + 1 \in UnitObus(stream, j)
<1>1. ReadingOK /\ ControlOK /\ Regularly(stream)
  BY ReadyFacts DEF Ready, WorkInv
<1>2. position \in Nat /\ position + 1 \in 0..Len(stream.obus) /\ stream.obus[position + 1] \in Obu
  BY <1>1, ReadType
<1>3. position + 1 \in 1..Len(stream.obus)
  BY <1>2
<1>. QED
  BY <1>1, <1>2, <1>3, UnitExists DEF Read

LEMMA NothingTaken ==
    ASSUME Ready, NEW type, Read(type), ~IsFrame(stream, position + 1),
           ~IsBlock(stream, position + 1), NEW u, u.frames = current.frames,
           u.blocks = current.blocks, u.timestamp = current.timestamp,
           u.delimiter => current.delimiter \/ type = "TemporalDelimiter",
           NEW us, NEW v, us = units /\ v = u
    PROVE  RegularFor(stream, us, v, position + 1, frameClock, blockClock)
<1>1. /\ position \in Nat /\ position < Len(stream.obus)
      /\ stream.obus[position + 1].type = type
  BY ReadFacts
<1>2. position + 1 \notin Usable(stream, {position + 1})
  BY UsableNext
<1>3. Holds(stream, u, Len(units) + 1, position + 1)
  BY <1>1, <1>2, ReadyFacts, HoldsWithout
<1>4. /\ FrameClocks(stream, position + 1, frameClock)
      /\ BlockClocks(stream, position + 1, blockClock)
  BY <1>1, ReadyFacts, ClocksWithout
<1>. QED
  BY <1>3, <1>4, ReadyFacts DEF RegularFor, Regularly

LEMMA BypassRegular ==
    ASSUME Ready, NEW type, Read(type), ~IsFrame(stream, position + 1),
           ~IsBlock(stream, position + 1), Bypass,
           UNCHANGED <<frameClock, blockClock>>
    PROVE  Result
<1>1. current' = current /\ units' = units /\ pc' = "processing" /\ position' = position + 1
  BY ReadyFacts, CollectedOne DEF Bypass, Consume
<1>2. RegularFor(stream, units', current', position + 1, frameClock, blockClock)
  BY <1>1, NothingTaken
<1>. QED
  BY <1>1, <1>2 DEF Result

LEMMA AudioFrameRegular ==
    ASSUME Ready, AudioFrame
    PROVE  Result
<1>. DEFINE o == stream.obus[position + 1]
            d == [index |-> position + 1, id |-> o.id, start |-> frameClock[o.id]]
<1>1. /\ Read("AudioFrame") /\ position \in Nat /\ o \in Obu /\ o.type = "AudioFrame"
      /\ ~IsBlock(stream, position + 1)
  BY ReadFacts DEF AudioFrame, IsBlock
<1>2. CASE o.id \notin Substreams
  <2>1. Bypass /\ UNCHANGED <<frameClock, blockClock, accepted>>
    BY <1>2 DEF AudioFrame
  <2>2. ~IsFrame(stream, position + 1)
    BY <1>2 DEF IsFrame
  <2>. QED
    BY <1>1, <2>1, <2>2, BypassRegular
<1>3. CASE o.id \in Substreams
  <2>1. /\ position' = position + 1 /\ frameClock' = [frameClock EXCEPT ![o.id] = @ + FrameSize]
        /\ blockClock' = blockClock
        /\ IF AcceptedIn(current, d)
           THEN Collect(WithFrame(current, d), next, FALSE, FALSE)
           ELSE Collect(current, WithFrame(next, d), FALSE, FALSE)
    BY <1>3 DEF AudioFrame, Consume, AdvancedFrameClock
  <2>2. IsFrame(stream, position + 1)
    BY <1>1, <1>3 DEF IsFrame
  <2>3. PICK j \in 1..Len(stream.ends) : position + 1 \in UnitObus(stream, j)
    BY <1>1, ReadFacts
  <2>4. /\ frameClock[o.id] = (j - 1) * FrameSize
        /\ FrameClocks(stream, position + 1, [frameClock EXCEPT ![o.id] = @ + FrameSize])
    BY <2>2, <2>3, ReadyFacts, FrameInTime
  <2>5. BlockClocks(stream, position + 1, blockClock)
    BY <1>1, ReadyFacts, ClocksWithout
  <2>6. frameClock[o.id] \in Nat /\ o.id \in Nat
    BY <1>3, SubstreamsAssumption, ReadyFacts
  <2>. HIDE DEF o
  <2>7. d \in Timed
    BY <1>1, <2>6 DEF Timed
  <2>8. d.index = position + 1 /\ d.start = frameClock[o.id]
    OBVIOUS
  <2>. HIDE DEF d
  <2>9. /\ AcceptedIn(current, d) =>
              Holds(stream, WithFrame(current, d), Len(units) + 1, position + 1)
        /\ ~AcceptedIn(current, d) =>
              /\ ~IsEmpty(current) /\ Encoded(stream, Append(units, Output(current)))
              /\ Holds(stream, WithFrame(EmptyUnit, d), Len(Append(units, Output(current))) + 1,
                       position + 1)
    BY <2>2, <2>3, <2>4, <2>7, <2>8, ReadyFacts, FrameTaken
  <2>10. CASE AcceptedIn(current, d)
    <3>1. current' = WithFrame(current, d) /\ units' = units /\ pc' = "processing"
      BY <2>1, <2>10, ReadyFacts, CollectedOne
    <3>2. RegularFor(stream, units', current', position', frameClock', blockClock')
      BY <2>1, <2>4, <2>5, <2>9, <2>10, <3>1, ReadyFacts DEF RegularFor, Regularly
    <3>. QED
      BY <3>1, <3>2 DEF Result
  <2>11. CASE ~AcceptedIn(current, d)
    <3>1. WithFrame(EmptyUnit, d).timestamp # None
      <4>1. UnitOK(EmptyUnit) /\ AcceptedIn(EmptyUnit, d)
        BY EmptyUnitOK DEF AcceptedIn, EmptyUnit
      <4>2. WithFrame(EmptyUnit, d).timestamp = d.start
        BY <2>7, <4>1, WithFrameOK
      <4>. QED
        BY <2>6, <2>8, <4>2, NoneAssumption
    <3>2. current' = WithFrame(EmptyUnit, d) /\ units' = Append(units, Output(current))
      BY <2>1, <2>9, <2>11, <3>1, ReadyFacts, CollectedTwo
    <3>3. RegularFor(stream, units', current', position', frameClock', blockClock')
      BY <2>1, <2>4, <2>5, <2>9, <2>11, <3>2, ReadyFacts DEF RegularFor, Regularly
    <3>4. units' # units
      BY <2>9, <2>11, <3>2, ReadyFacts, UnitsGrow
    <3>. QED
      BY <3>3, <3>4 DEF Result
  <2>. QED
    BY <2>10, <2>11
<1>. QED
  BY <1>2, <1>3

LEMMA ParameterBlockRegular ==
    ASSUME Ready, ParameterBlock
    PROVE  Result
<1>. DEFINE o == stream.obus[position + 1]
            d == [index |-> position + 1, id |-> o.id, start |-> blockClock[o.id]]
<1>1. /\ Read("ParameterBlock") /\ position \in Nat /\ o \in Obu /\ o.type = "ParameterBlock"
      /\ ~IsFrame(stream, position + 1) /\ position' = position + 1 /\ frameClock' = frameClock
  BY ReadFacts DEF ParameterBlock, IsFrame, Consume
<1>2. PICK j \in 1..Len(stream.ends) : position + 1 \in UnitObus(stream, j)
  BY <1>1, ReadFacts
<1>3. ASSUME o.id \in ParameterIds
      PROVE  /\ IsBlock(stream, position + 1)
             /\ blockClock[o.id] = (j - 1) * FrameSize
             /\ \A id \in Substreams : frameClock[id] = (j - 1) * FrameSize
             /\ BlockClocks(stream, position + 1, [blockClock EXCEPT ![o.id] = @ + o.duration])
  <2>1. IsBlock(stream, position + 1)
    BY <1>1, <1>3 DEF IsBlock
  <2>2. /\ Regularly(stream) /\ frameClock \in [Substreams -> Nat]
        /\ blockClock \in [ParameterIds -> Nat] /\ position \in Nat
        /\ FrameClocks(stream, position, frameClock) /\ BlockClocks(stream, position, blockClock)
    BY ReadyFacts
  <2>3. BlockReadInTime(stream, position, j, frameClock, blockClock)
    BY <1>2, <2>1, <2>2, BlockInTime, Zenon
  <2>. QED
    BY <2>1, <2>3 DEF BlockReadInTime
<1>4. CASE o.id \notin ParameterIds
  <2>1. Bypass /\ UNCHANGED blockClock
    BY <1>4 DEF ParameterBlock
  <2>2. ~IsBlock(stream, position + 1)
    BY <1>4 DEF IsBlock
  <2>. QED
    BY <1>1, <2>1, <2>2, BypassRegular
<1>5. CASE o.id \in ParameterIds
  <2>1. OnTime(o.id) /\ \E t \in {frameClock[s] : s \in Substreams} : IsGlobal(t)
    <3>1. PICK s \in Substreams : TRUE
      BY ReadyFacts DEF Regularly, IsRegular
    <3>. QED
      BY <1>3, <1>5, <3>1 DEF OnTime, IsGlobal
  <2>2. /\ blockClock' = [blockClock EXCEPT ![o.id] = @ + o.duration]
        /\ IF AcceptedIn(current, d)
           THEN Collect(WithBlock(current, d), next, FALSE, FALSE)
           ELSE Collect(current, WithBlock(next, d), FALSE, FALSE)
    BY <1>5, <2>1 DEF ParameterBlock
  <2>3. IsBlock(stream, position + 1) /\ blockClock[o.id] = (j - 1) * FrameSize
        /\ BlockClocks(stream, position + 1, [blockClock EXCEPT ![o.id] = @ + o.duration])
    BY <1>3, <1>5
  <2>4. FrameClocks(stream, position + 1, frameClock)
    BY <1>1, ReadyFacts, ClocksWithout
  <2>5. blockClock[o.id] \in Nat /\ o.id \in Nat
    BY <1>5, SubstreamsAssumption, ReadyFacts
  <2>. HIDE DEF o
  <2>6. d \in Timed
    BY <1>1, <2>5 DEF Timed
  <2>7. d.index = position + 1 /\ d.start = blockClock[o.id]
    OBVIOUS
  <2>. HIDE DEF d
  <2>8. /\ AcceptedIn(current, d) =>
              Holds(stream, WithBlock(current, d), Len(units) + 1, position + 1)
        /\ ~AcceptedIn(current, d) =>
              /\ ~IsEmpty(current) /\ Encoded(stream, Append(units, Output(current)))
              /\ Holds(stream, WithBlock(EmptyUnit, d), Len(Append(units, Output(current))) + 1,
                       position + 1)
    BY <1>2, <2>3, <2>6, <2>7, ReadyFacts, BlockTaken
  <2>9. CASE AcceptedIn(current, d)
    <3>1. current' = WithBlock(current, d) /\ units' = units /\ pc' = "processing"
      BY <2>2, <2>9, ReadyFacts, CollectedOne
    <3>2. RegularFor(stream, units', current', position', frameClock', blockClock')
      BY <1>1, <2>2, <2>3, <2>4, <2>8, <2>9, <3>1, ReadyFacts DEF RegularFor, Regularly
    <3>. QED
      BY <3>1, <3>2 DEF Result
  <2>10. CASE ~AcceptedIn(current, d)
    <3>1. WithBlock(EmptyUnit, d).timestamp # None
      <4>1. UnitOK(EmptyUnit) /\ AcceptedIn(EmptyUnit, d)
        BY EmptyUnitOK DEF AcceptedIn, EmptyUnit
      <4>2. WithBlock(EmptyUnit, d).timestamp = d.start
        BY <2>6, <4>1, WithBlockOK
      <4>. QED
        BY <2>5, <2>7, <4>2, NoneAssumption
    <3>2. current' = WithBlock(EmptyUnit, d) /\ units' = Append(units, Output(current))
      BY <2>2, <2>8, <2>10, <3>1, ReadyFacts, CollectedTwo
    <3>3. RegularFor(stream, units', current', position', frameClock', blockClock')
      BY <1>1, <2>2, <2>3, <2>4, <2>8, <2>10, <3>2, ReadyFacts DEF RegularFor, Regularly
    <3>4. units' # units
      BY <2>8, <2>10, <3>2, ReadyFacts, UnitsGrow
    <3>. QED
      BY <3>3, <3>4 DEF Result
  <2>. QED
    BY <2>9, <2>10
<1>. QED
  BY <1>4, <1>5

LEMMA TemporalDelimiterRegular ==
    ASSUME Ready, TemporalDelimiter
    PROVE  Result
<1>. DEFINE u == [current EXCEPT !.delimiter = TRUE]
<1>1. /\ Read("TemporalDelimiter") /\ position \in Nat /\ position < Len(stream.obus)
      /\ stream.obus[position + 1].type = "TemporalDelimiter"
      /\ ~IsFrame(stream, position + 1) /\ ~IsBlock(stream, position + 1)
      /\ position' = position + 1 /\ UNCHANGED <<frameClock, blockClock>>
      /\ Collect(u, next, FALSE, current.delimiter)
  <2>1. /\ Read("TemporalDelimiter") /\ position' = position + 1
        /\ UNCHANGED <<frameClock, blockClock>> /\ Collect(u, next, FALSE, current.delimiter)
    BY DEF TemporalDelimiter, Consume
  <2>2. /\ position \in Nat /\ position < Len(stream.obus)
        /\ stream.obus[position + 1].type = "TemporalDelimiter"
    BY <2>1, ReadFacts
  <2>. QED
    BY <2>1, <2>2 DEF IsFrame, IsBlock
<1>2. /\ u.frames = current.frames /\ u.blocks = current.blocks
      /\ u.timestamp = current.timestamp /\ (IsEmpty(u) <=> IsEmpty(current))
      /\ Output(u) = Output(current)
  BY ReadyFacts DEF UnitOK, Assembled, IsEmpty, Output
<1>. HIDE DEF u
<1>3. /\ ~IsEmpty(current) => UnitBegin(stream, (Len(units) + 1) + 1) <= position
      /\ IsEmpty(current) => ~current.delimiter
  BY <1>1, ReadyFacts, DelimiterFirst
<1>4. CASE current.delimiter
  <2>1. /\ ~IsEmpty(current) /\ current' = EmptyUnit /\ units' = Append(units, Output(current))
    BY <1>1, <1>2, <1>3, <1>4, ReadyFacts, CollectedOne
  <2>2. (Len(units) + 1) + 1 = Len(units) + 2
    BY ReadyFacts
  <2>3. /\ Encoded(stream, units') /\ Len(units') = Len(units) + 1
        /\ Holds(stream, EmptyUnit, Len(units) + 2, position)
    BY <1>3, <2>1, <2>2, ReadyFacts, EncodedNext
  <2>4. position + 1 \notin Usable(stream, {position + 1})
    BY <1>1, UsableNext
  <2>5. Holds(stream, EmptyUnit, Len(units) + 2, position + 1)
    BY <1>1, <2>3, <2>4, EmptyUnitOK, ReadyFacts, HoldsWithout
  <2>6. /\ FrameClocks(stream, position + 1, frameClock)
        /\ BlockClocks(stream, position + 1, blockClock)
    BY <1>1, ReadyFacts, ClocksWithout
  <2>7. Len(units') + 1 = Len(units) + 2
    BY <2>3, ReadyFacts
  <2>8. RegularFor(stream, units', current', position', frameClock', blockClock')
    BY <1>1, <2>1, <2>3, <2>5, <2>6, <2>7, ReadyFacts DEF RegularFor, Regularly
  <2>9. units' # units
    BY <2>1, ReadyFacts, UnitsGrow
  <2>. QED
    BY <2>8, <2>9 DEF Result
<1>5. CASE ~current.delimiter
  <2>0. current.delimiter = FALSE /\ next = EmptyUnit
    BY <1>5, ReadyFacts DEF UnitOK, Assembled
  <2>1. current' = u /\ units' = units /\ pc' = "processing"
    BY <1>1, <2>0, CollectedOne
  <2>2. RegularFor(stream, units', current', position + 1, frameClock, blockClock)
    BY <1>1, <1>2, <2>1, NothingTaken
  <2>. QED
    BY <1>1, <2>1, <2>2 DEF Result
<1>. QED
  BY <1>4, <1>5

LEMMA RedundantCopies ==
    ASSUME Ready, NEW type, Read(type), type \in {"Descriptor", "IaSequenceHeader"}
    PROVE  stream.obus[position + 1].redundant
<1>1. /\ position \in Nat /\ position < Len(stream.obus)
      /\ stream.obus[position + 1].type = type
  BY ReadFacts
<1>2. Len(stream.obus) \in Nat
  BY UnitBegins, ReadyFacts DEF BeginsFacts
<1>3. position + 1 \in 1..Len(stream.obus)
  BY <1>1, <1>2
<1>. QED
  BY <1>1, <1>3, ReadyFacts DEF Regularly, IsRegular

LEMMA IgnoredRegular ==
    ASSUME Ready, Ignored
    PROVE  Result
<1>1. PICK type \in {"Reserved", "Descriptor", "IaSequenceHeader"} : Read(type)
  BY DEF Ignored
<1>2. stream.obus[position + 1].type = type
  BY <1>1, ReadFacts
<1>3. ~IsFrame(stream, position + 1) /\ ~IsBlock(stream, position + 1)
  BY <1>2 DEF IsFrame, IsBlock
<1>. QED
  BY <1>1, <1>3, BypassRegular DEF Ignored

LEMMA OutOfDataRegular ==
    ASSUME Ready, OutOfData
    PROVE  Result
<1>1. /\ Collect(current, next, TRUE, FALSE) /\ position = received
      /\ position' = position /\ frameClock' = frameClock /\ blockClock' = blockClock
  BY DEF OutOfData, NoMore
<1>2. CASE eos /\ ~IsEmpty(current)
  <2>1. current' = EmptyUnit /\ units' = Append(units, Output(current))
    BY <1>1, <1>2, ReadyFacts, CollectedOne
  <2>2. position = 0 \/ position = Len(stream.obus)
        \/ \E m \in 1..Len(stream.ends) : position = stream.ends[m]
    BY <1>1, <1>2 DEF Ready, Cut, AtAnEnd
  <2>3. UnitBegin(stream, (Len(units) + 1) + 1) <= position
    BY <1>2, <2>2, ReadyFacts, CutEndsUnit
  <2>4. (Len(units) + 1) + 1 = Len(units) + 2
    BY ReadyFacts
  <2>5. /\ Encoded(stream, units') /\ Len(units') = Len(units) + 1
        /\ Holds(stream, EmptyUnit, Len(units) + 2, position)
    BY <1>2, <2>1, <2>3, <2>4, ReadyFacts, EncodedNext
  <2>6. Len(units') + 1 = Len(units) + 2
    BY <2>5, ReadyFacts
  <2>7. RegularFor(stream, units', current', position', frameClock', blockClock')
    BY <1>1, <2>1, <2>5, <2>6, ReadyFacts DEF RegularFor, Regularly
  <2>8. units' # units
    BY <1>2, <2>1, ReadyFacts, UnitsGrow
  <2>. QED
    BY <2>7, <2>8 DEF Result
<1>3. CASE ~(eos /\ ~IsEmpty(current))
  <2>1. current' = current /\ units' = units
    BY <1>1, <1>3, ReadyFacts, CollectedOne
  <2>2. RegularFor(stream, units', current', position', frameClock', blockClock')
    BY <1>1, <2>1, ReadyFacts DEF RegularFor, Regularly
  <2>3. eos => position' = received /\ IsEmpty(current')
    BY <1>1, <1>3, <2>1
  <2>. QED
    BY <2>2, <2>3 DEF Result
<1>. QED
  BY <1>2, <1>3

LEMMA ProcessingRegular ==
    ASSUME Ready, Processing
    PROVE  Result
<1>1. ~NextIaSequence
  BY RedundantCopies DEF NextIaSequence
<1>2. ~UnexpectedDescriptor
  BY RedundantCopies DEF UnexpectedDescriptor
<1>. QED
  BY <1>1, <1>2, AudioFrameRegular, ParameterBlockRegular, TemporalDelimiterRegular,
     IgnoredRegular, OutOfDataRegular DEF Processing

LEMMA RegularStays ==
    ASSUME RegularInv, UNCHANGED work
    PROVE  RegularInv'
BY DEF RegularInv, work

LEMMA FreshRegular == Fresh /\ (stream.regular => IsRegular(stream)) => RegularInv
<1>. SUFFICES ASSUME Fresh, stream.regular => IsRegular(stream), stream.regular
              PROVE  RegularFor(stream, units, current, position, frameClock, blockClock)
  BY DEF RegularInv
<1>. DEFINE s == stream
<1>1. Regularly(s)
  BY DEF Fresh, Regularly, Stream
<1>2. BeginsFacts(s)
  BY <1>1, UnitBegins
<1>3. /\ units = <<>> /\ current = EmptyUnit /\ position = 0
      /\ frameClock = [id \in Substreams |-> 0] /\ blockClock = [id \in ParameterIds |-> 0]
  BY DEF Fresh
<1>. HIDE DEF s
<1>4. Encoded(s, <<>>)
  BY <1>2 DEF Encoded, BeginsFacts
<1>5. 1 \in 1..(Len(s.ends) + 1) /\ 0 \in UnitBegin(s, 1)..Len(s.obus) /\ (UnitBegin(s, 1) + 1)..0 = {}
  BY <1>2 DEF BeginsFacts
<1>6. FramesFrom(s, 1, 0) = {} /\ BlocksFrom(s, 1, 0) = {}
  BY <1>5 DEF FramesFrom, BlocksFrom, OfUse
<1>7. /\ EmptyUnit.frames = <<>> /\ EmptyUnit.blocks = <<>> /\ EmptyUnit.delimiter = FALSE
      /\ IsEmpty(EmptyUnit) /\ Lists(<<>>, {})
  BY DEF EmptyUnit, IsEmpty, Lists
<1>8. Holds(s, EmptyUnit, 1, 0)
  BY <1>5, <1>6, <1>7 DEF Holds
<1>9. FrameClocks(s, 0, frameClock) /\ BlockClocks(s, 0, blockClock)
  <2>1. \A type, id : ReadOf(s, type, id, 0) = {}
    BY DEF ReadOf, OfUse
  <2>. QED
    BY <1>3, <2>1 DEF FrameClocks, BlockClocks, EndAt
<1>10. Len(<<>>) + 1 = 1
  OBVIOUS
<1>. QED
  BY <1>1, <1>3, <1>4, <1>8, <1>9, <1>10 DEF RegularFor, Regularly, s
-------------------------------------------------------------------------------
(* The processor on its own.                                                   *)
LEMMA RegularInit == Init => RegularInv /\ CutInv
<1>. SUFFICES ASSUME Init PROVE RegularInv /\ CutInv
  OBVIOUS
<1>1. Fresh /\ (stream.regular => IsRegular(stream))
  BY StreamsAssumption DEF Init, Fresh, Stream
<1>2. CutInv
  BY DEF Init, CutInv
<1>. QED
  BY <1>1, <1>2, FreshRegular

LEMMA StepKeepsRegular ==
    WorkInv /\ ControlOK /\ RegularInv /\ CutInv /\ [Next]_vars => RegularInv' /\ CutInv'
<1>. SUFFICES ASSUME WorkInv, ControlOK, RegularInv, CutInv, [Next]_vars
              PROVE  RegularInv' /\ CutInv'
  OBVIOUS
<1>1. CASE UNCHANGED vars
  <2>1. UNCHANGED work /\ UNCHANGED <<stream, received, eos, pc>>
    BY <1>1 DEF vars, work
  <2>. QED
    BY <2>1, RegularStays DEF CutInv, Cut, AtAnEnd
<1>2. ASSUME NEW n \in 1..(Len(stream.obus) - received), Receive(n) PROVE RegularInv' /\ CutInv'
  <2>1. UNCHANGED work /\ pc' = "returned"
    BY <1>2 DEF Receive, work
  <2>. QED
    BY <2>1, RegularStays DEF CutInv
<1>3. ASSUME NEW e \in BOOLEAN, e => AtAnEnd, ProcessTemporalUnit(e) PROVE RegularInv' /\ CutInv'
  <2>1. UNCHANGED work /\ eos' = e /\ stream' = stream /\ received' = received
    BY <1>3 DEF ProcessTemporalUnit, work
  <2>2. Cut' <=> Cut
    BY <2>1 DEF Cut, AtAnEnd
  <2>. QED
    BY <1>3, <2>1, <2>2, RegularStays DEF CutInv, Cut
<1>4. CASE Processing
  <2>1. stream' = stream /\ received' = received /\ eos' = eos /\ pc = "processing"
    BY <1>4 DEF Processing, AudioFrame, ParameterBlock, TemporalDelimiter, Ignored,
                NextIaSequence, UnexpectedDescriptor, OutOfData, Read
  <2>2. CutInv'
    BY <2>1 DEF CutInv, Cut, AtAnEnd
  <2>3. ASSUME stream.regular
        PROVE  RegularFor(stream, units', current', position', frameClock', blockClock')
    <3>1. Ready
      BY <2>1, <2>3 DEF Ready, CutInv
    <3>. QED
      BY <1>4, <3>1, ProcessingRegular DEF Result
  <2>. QED
    BY <2>1, <2>2, <2>3 DEF RegularInv
<1>. QED
  BY <1>1, <1>2, <1>3, <1>4 DEF Next

LEMMA RegularShows == RegularInv => UnitsAsEncoded
BY DEF RegularInv, RegularFor, Encoded, UnitsAsEncoded

THEOREM RegularIsInvariant == Spec => [](WorkInv /\ ControlOK /\ RegularInv /\ CutInv)
<1>1. Init => WorkInv /\ ControlOK /\ RegularInv /\ CutInv
  BY WorkInit, RegularInit
<1>2. WorkInv /\ ControlOK /\ RegularInv /\ CutInv /\ [Next]_vars
          => (WorkInv /\ ControlOK /\ RegularInv /\ CutInv)'
  BY StepKeepsWork, StepKeepsRegular
<1>. QED
  BY <1>1, <1>2, PTL DEF Spec

(* A regular stream, with any number of units, OBUs, substreams and parameters *)
(* and in whatever pieces it arrives, is cut into the units that were encoded: *)
(* each is complete and has its time, though neither is in the OBUs.           *)
THEOREM UnitsAreAsEncoded == Spec => []UnitsAsEncoded
BY RegularIsInvariant, RegularShows, PTL
===============================================================================
