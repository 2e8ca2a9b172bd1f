---------------------------- MODULE DataInduction -----------------------------
(* Induction and recursion over the numbers, stated with sets and functions:   *)
(* what a theorem about every length of a sequence needs.                      *)
EXTENDS Integers, SequencesExt, SequenceTheorems, WellFoundedInduction, TLAPS

(* Every set of numbers has a least element.                                   *)
LEMMA LeastNumber ==
    ASSUME NEW T, T \subseteq Nat, T # {}
    PROVE  \E n \in T : \A m \in T : n <= m
<1>. DEFINE R == {ss \in Nat \X Nat : ss[1] < ss[2]}
<1>1. IsWellFoundedOn(R, Nat)
  BY ONLY NatLessThanWellFounded, Zenon DEF OpToRel
<1>. HIDE DEF R
<1>2. \E x \in T : \A y \in T : ~(<<y, x>> \in R)
  BY <1>1, WFMin, Zenon
<1>3. \A x, y \in Nat : <<y, x>> \notin R => x <= y
  BY DEF R
<1>. QED
  BY <1>2, <1>3

(* A set with zero and with the successors of its members has every number.    *)
LEMMA NumberInduction ==
    ASSUME NEW S, 0 \in S, \A n \in Nat : n \in S => n + 1 \in S
    PROVE  \A n \in Nat : n \in S
<1>. SUFFICES ASSUME Nat \ S # {} PROVE FALSE
  OBVIOUS
<1>1. PICK n \in Nat \ S : \A m \in Nat \ S : n <= m
  <2>1. Nat \ S \subseteq Nat
    OBVIOUS
  <2>. QED
    BY <2>1, LeastNumber
<1>2. n # 0 /\ n - 1 \in Nat /\ n - 1 \in S
  BY <1>1
<1>3. (n - 1) + 1 \in S
  BY <1>2
<1>. QED
  BY <1>1, <1>3

(* A set of numbers that is bounded has a greatest element.                    *)
LEMMA GreatestNumber ==
    ASSUME NEW n \in Nat, NEW T, T \subseteq 0..n, T # {}
    PROVE  \E m \in T : \A k \in T : k <= m
<1>. DEFINE Gaps == {g \in Nat : n - g \in T}
<1>1. PICK k \in T : TRUE
  OBVIOUS
<1>2. n - k \in Gaps
  BY <1>1
<1>3. PICK g \in Gaps : \A h \in Gaps : g <= h
  <2>1. Gaps \subseteq Nat /\ Gaps # {}
    BY <1>2
  <2>. QED
    BY <2>1, LeastNumber
<1>4. n - g \in T
  BY <1>3
<1>5. ASSUME NEW m \in T PROVE m <= n - g
  <2>1. m \in 0..n /\ g \in Nat
    BY <1>3
  <2>2. n - m \in Nat /\ n - (n - m) = m
    BY <2>1
  <2>3. n - m \in Gaps
    BY <2>2
  <2>4. g <= n - m
    BY <1>3, <2>3
  <2>. QED
    BY <2>1, <2>2, <2>4
<1>. QED
  BY <1>4, <1>5

(* What a recursive definition of a function over the numbers says of it.      *)
Steps(V) == [Nat -> [V -> V]]
Iterates(f, V, c, step) ==
    f \in [Nat -> V] /\ f[0] = c /\ \A n \in Nat : f[n + 1] = step[n][f[n]]

(* A first value and a step for every number define a function.                *)
LEMMA NumberRecursion ==
    ASSUME NEW V, NEW c \in V, NEW step \in Steps(V)
    PROVE  \E f : Iterates(f, V, c, step)
<1>. USE DEF Steps
<1>. DEFINE Part(n) == {g \in [0..n -> V] : /\ g[0] = c
                                           /\ \A k \in 0..(n - 1) : g[k + 1] = step[k][g[k]]}
<1>1. \A n \in Nat : Part(n) # {}
  <2>. DEFINE S == {n \in Nat : Part(n) # {}}
  <2>1. 0 \in S
    <3>1. [k \in 0..0 |-> c] \in Part(0)
      OBVIOUS
    <3>. QED
      BY <3>1
  <2>2. ASSUME NEW n \in Nat, n \in S PROVE n + 1 \in S
    <3>1. PICK g \in Part(n) : TRUE
      BY <2>2
    <3>. DEFINE h == [k \in 0..(n + 1) |-> IF k = n + 1 THEN step[n][g[n]] ELSE g[k]]
    <3>2. g \in [0..n -> V] /\ g[0] = c /\ step[n][g[n]] \in V
      BY <3>1
    <3>3. h \in [0..(n + 1) -> V] /\ h[0] = c
      BY <3>2
    <3>4. ASSUME NEW k \in 0..((n + 1) - 1) PROVE h[k + 1] = step[k][h[k]]
      <4>1. CASE k = n
        BY <4>1
      <4>2. CASE k # n
        BY <3>1, <4>2
      <4>. QED
        BY <4>1, <4>2
    <3>5. h \in Part(n + 1)
      BY <3>3, <3>4
    <3>. QED
      BY <3>5
  <2>. HIDE DEF S
  <2>3. \A n \in Nat : n \in S
    BY <2>1, <2>2, NumberInduction
  <2>. QED
    BY <2>3 DEF S
<1>2. ASSUME NEW m \in Nat, NEW n \in Nat, m <= n, NEW g \in Part(m), NEW h \in Part(n)
      PROVE  \A k \in 0..m : g[k] = h[k]
  <2>. DEFINE S == {k \in Nat : k <= m => g[k] = h[k]}
  <2>1. 0 \in S
    OBVIOUS
  <2>2. ASSUME NEW k \in Nat, k \in S PROVE k + 1 \in S
    BY <1>2, <2>2
  <2>. HIDE DEF S
  <2>3. \A k \in Nat : k \in S
    BY <2>1, <2>2, NumberInduction
  <2>. QED
    BY <2>3 DEF S
<1>. DEFINE part == [n \in Nat |-> CHOOSE g : g \in Part(n)]
<1>3. \A n \in Nat : part[n] \in Part(n)
  BY <1>1
<1>. HIDE DEF part
<1>. DEFINE f == [n \in Nat |-> part[n][n]]
<1>4. f \in [Nat -> V] /\ f[0] = c
  BY <1>3
<1>5. ASSUME NEW n \in Nat PROVE f[n + 1] = step[n][f[n]]
  <2>1. part[n] \in Part(n) /\ part[n + 1] \in Part(n + 1)
    BY <1>3
  <2>2. part[n + 1][n + 1] = step[n][part[n + 1][n]]
    BY <2>1
  <2>3. part[n + 1][n] = part[n][n]
    <3>1. \A k \in 0..n : part[n][k] = part[n + 1][k]
      <4>. HIDE DEF Part
      <4>. QED
        BY <1>2, <2>1
    <3>. QED
      BY <3>1
  <2>. QED
    BY <2>2, <2>3
<1>6. Iterates(f, V, c, step)
  BY <1>4, <1>5 DEF Iterates
<1>. QED
  BY <1>6

(* The same up to a number: what a recursive function over the positions of a  *)
(* sequence needs.                                                             *)
StepsTo(N, V) == [1..N -> [V -> V]]
IteratesTo(f, N, V, c, step) ==
    f \in [0..N -> V] /\ f[0] = c /\ \A n \in 1..N : f[n] = step[n][f[n - 1]]

LEMMA PositionRecursion ==
    ASSUME NEW N \in Nat, NEW V, NEW c \in V, NEW step \in StepsTo(N, V)
    PROVE  \E f : IteratesTo(f, N, V, c, step)
<1>. USE DEF StepsTo
<1>1. PICK after \in [Nat -> [V -> V]] : \A n \in 1..N : after[n - 1] = step[n]
  <2>. DEFINE a == [n \in Nat |-> IF n + 1 \in 1..N THEN step[n + 1] ELSE [v \in V |-> v]]
  <2>1. [v \in V |-> v] \in [V -> V]
    OBVIOUS
  <2>2. \A m \in 1..N : step[m] \in [V -> V]
    OBVIOUS
  <2>3. a \in [Nat -> [V -> V]]
    BY <2>1, <2>2
  <2>4. ASSUME NEW n \in 1..N PROVE a[n - 1] = step[n]
    <3>1. n - 1 \in Nat /\ (n - 1) + 1 = n
      OBVIOUS
    <3>. QED
      BY <3>1
  <2>. QED
    BY <2>3, <2>4
<1>2. after \in Steps(V)
  BY DEF Steps
<1>3. PICK g : Iterates(g, V, c, after)
  BY <1>2, NumberRecursion
<1>. DEFINE f == [n \in 0..N |-> g[n]]
<1>4. f \in [0..N -> V] /\ f[0] = c
  BY <1>3 DEF Iterates
<1>5. ASSUME NEW n \in 1..N PROVE f[n] = step[n][f[n - 1]]
  <2>1. n - 1 \in Nat /\ (n - 1) + 1 = n
    OBVIOUS
  <2>2. g[(n - 1) + 1] = after[n - 1][g[n - 1]]
    BY <1>3, <2>1 DEF Iterates
  <2>. QED
    BY <1>1, <2>1, <2>2
<1>6. IteratesTo(f, N, V, c, step)
  BY <1>4, <1>5 DEF IteratesTo
<1>. QED
  BY <1>6
-------------------------------------------------------------------------------
(* What FlattenSeq returns.                                                    *)
LEMMA Flattening ==
    ASSUME NEW S, NEW q \in Seq(Seq(S)), q # <<>>
    PROVE  \E f \in [1..Len(q) -> Seq(S)] :
              /\ FlattenSeq(q) = f[Len(q)] /\ f[1] = q[1]
              /\ \A i \in 1..(Len(q) - 1) : f[i + 1] = f[i] \o q[i + 1]
<1>. DEFINE N == Len(q)  V == Seq(S)
            step == [k \in 1..N |-> [v \in V |-> v \o q[k]]]
            F1(f) == [i \in 1..N |-> IF i = 1 THEN q[i] ELSE f[i - 1] \o q[i]]
<1>1. N \in Nat \ {0} /\ \A k \in 1..N : q[k] \in V
  BY EmptySeq
<1>2. \A k \in 1..N : [v \in V |-> v \o q[k]] \in [V -> V]
  BY <1>1
<1>3. step \in StepsTo(N, V) /\ N \in Nat /\ <<>> \in V
  BY <1>1, <1>2 DEF StepsTo
<1>4. \A k \in 1..N : \A v \in V : step[k][v] = v \o q[k]
  BY DEF step
<1>5. PICK g : IteratesTo(g, N, V, <<>>, step)
  <2>. HIDE DEF step, V, N
  <2>. QED
    BY <1>3, PositionRecursion
<1>6. /\ g \in [0..N -> V] /\ g[0] = <<>>
      /\ \A k \in 1..N : g[k] = g[k - 1] \o q[k]
  <2>. HIDE DEF step, V
  <2>1. \A k \in 1..N : k - 1 \in 0..N
    BY <1>1
  <2>. QED
    BY <1>4, <1>5, <2>1 DEF IteratesTo
<1>. DEFINE h == [i \in 1..N |-> g[i]]
<1>7. h \in [1..N -> V] /\ h[1] = q[1]
  <2>1. g[1] = <<>> \o q[1] /\ q[1] \in Seq(S)
    <3>1. 1 \in 1..N /\ 1 - 1 = 0
      BY <1>1
    <3>. QED
      BY <1>1, <1>6, <3>1
  <2>2. g[1] = q[1]
    BY <2>1
  <2>. QED
    BY <1>1, <1>6, <2>2
<1>8. h = F1(h)
  <2>1. \A i \in 1..N : h[i] = IF i = 1 THEN q[i] ELSE h[i - 1] \o q[i]
    <3>. TAKE i \in 1..N
    <3>1. CASE i = 1
      BY <1>7, <3>1
    <3>2. CASE i # 1
      <4>1. i - 1 \in 1..N
        BY <1>1, <3>2
      <4>. QED
        BY <1>6, <3>2, <4>1
    <3>. QED
      BY <3>1, <3>2
  <2>. QED
    BY <2>1
<1>9. PICK f : f = CHOOSE x : x = F1(x)
  OBVIOUS
<1>10. f = F1(f)
  <2>. HIDE DEF F1, h
  <2>. QED
    BY <1>8, <1>9
<1>11. FlattenSeq(q) = f[N]
  <2>1. N # 0
    BY <1>1
  <2>. QED
    BY <1>9, <2>1 DEF FlattenSeq
<1>12. \A i \in 1..N : f[i] \in V
  <2>. DEFINE T == {i \in Nat : i + 1 \in 1..N => f[i + 1] \in V}
  <2>1. 0 \in T
    BY <1>1, <1>10
  <2>2. ASSUME NEW i \in Nat, i \in T PROVE i + 1 \in T
    <3>. SUFFICES ASSUME (i + 1) + 1 \in 1..N PROVE f[(i + 1) + 1] \in V
      OBVIOUS
    <3>1. i + 1 \in 1..N /\ f[i + 1] \in V /\ (i + 1) + 1 # 1 /\ ((i + 1) + 1) - 1 = i + 1
      BY <2>2, <1>1
    <3>2. f[(i + 1) + 1] = f[i + 1] \o q[(i + 1) + 1]
      BY <1>10, <3>1
    <3>. QED
      BY <1>1, <3>1, <3>2
  <2>. HIDE DEF T
  <2>3. \A i \in Nat : i \in T
    BY <2>1, <2>2, NumberInduction
  <2>4. ASSUME NEW i \in 1..N PROVE f[i] \in V
    <3>1. i - 1 \in Nat /\ (i - 1) + 1 = i
      BY <1>1
    <3>. QED
      BY <2>3, <3>1 DEF T
  <2>. QED
    BY <2>4
<1>13. f \in [1..N -> V]
  BY <1>10, <1>12
<1>14. f[1] = q[1]
  BY <1>1, <1>10
<1>15. \A i \in 1..(N - 1) : f[i + 1] = f[i] \o q[i + 1]
  <2>. TAKE i \in 1..(N - 1)
  <2>1. i + 1 \in 1..N /\ i + 1 # 1 /\ (i + 1) - 1 = i
    BY <1>1
  <2>. QED
    BY <1>10, <2>1
<1>. QED
  BY <1>11, <1>13, <1>14, <1>15

LEMMA FlattenType ==
    ASSUME NEW S, NEW q \in Seq(Seq(S))
    PROVE  FlattenSeq(q) \in Seq(S)
<1>1. CASE q = <<>>
  BY <1>1 DEF FlattenSeq
<1>2. CASE q # <<>>
  <2>1. PICK f \in [1..Len(q) -> Seq(S)] : FlattenSeq(q) = f[Len(q)]
    BY <1>2, Flattening
  <2>2. Len(q) \in 1..Len(q)
    BY <1>2, EmptySeq
  <2>. QED
    BY <2>1, <2>2
<1>. QED
  BY <1>1, <1>2

LEMMA FlattenAppend ==
    ASSUME NEW S, NEW q \in Seq(Seq(S)), NEW x \in Seq(S)
    PROVE  FlattenSeq(Append(q, x)) = FlattenSeq(q) \o x
<1>. DEFINE V == Seq(S)  p == Append(q, x)  N == Len(q)
<1>0. q \in Seq(V) /\ x \in V
  OBVIOUS
<1>1. /\ p \in Seq(V) /\ p # <<>> /\ Len(p) = N + 1 /\ N \in Nat
      /\ p[N + 1] = x /\ \A i \in 1..N : p[i] = q[i]
  <2>. HIDE DEF V
  <2>. QED
    BY <1>0
<1>2. PICK f \in [1..(N + 1) -> V] :
          /\ FlattenSeq(p) = f[N + 1] /\ f[1] = p[1]
          /\ \A i \in 1..N : f[i + 1] = f[i] \o p[i + 1]
  <2>. HIDE DEF p, N
  <2>1. (N + 1) - 1 = N
    BY <1>1
  <2>2. \E f \in [1..Len(p) -> V] :
              /\ FlattenSeq(p) = f[Len(p)] /\ f[1] = p[1]
              /\ \A i \in 1..(Len(p) - 1) : f[i + 1] = f[i] \o p[i + 1]
    BY <1>1, Flattening, Zenon
  <2>. QED
    BY <1>1, <2>1, <2>2
<1>3. CASE q = <<>>
  <2>1. N = 0 /\ FlattenSeq(q) = <<>> /\ FlattenSeq(p) = x
    BY <1>1, <1>2, <1>3 DEF FlattenSeq
  <2>. QED
    BY <2>1
<1>4. CASE q # <<>>
  <2>1. PICK g \in [1..N -> Seq(S)] :
            /\ FlattenSeq(q) = g[N] /\ g[1] = q[1]
            /\ \A i \in 1..(N - 1) : g[i + 1] = g[i] \o q[i + 1]
    BY <1>4, Flattening
  <2>2. N >= 1
    BY <1>1, <1>4, EmptySeq
  <2>. DEFINE T == {i \in Nat : i + 1 \in 1..N => f[i + 1] = g[i + 1]}
  <2>. HIDE DEF p, N
  <2>3. 0 \in T
    BY <1>1, <1>2, <2>1, <2>2
  <2>4. ASSUME NEW i \in Nat, i \in T PROVE i + 1 \in T
    <3>. SUFFICES ASSUME (i + 1) + 1 \in 1..N PROVE f[(i + 1) + 1] = g[(i + 1) + 1]
      OBVIOUS
    <3>1. i + 1 \in 1..N /\ i + 1 \in 1..(N - 1)
      BY <1>1
    <3>2. f[(i + 1) + 1] = f[i + 1] \o p[(i + 1) + 1]
      BY <1>2, <3>1
    <3>3. g[(i + 1) + 1] = g[i + 1] \o q[(i + 1) + 1]
      BY <2>1, <3>1
    <3>. QED
      BY <1>1, <2>4, <3>1, <3>2, <3>3
  <2>. HIDE DEF T
  <2>5. \A i \in Nat : i \in T
    BY <2>3, <2>4, NumberInduction
  <2>6. f[N] = g[N]
    <3>1. N - 1 \in Nat /\ (N - 1) + 1 = N /\ N \in 1..N
      BY <1>1, <2>2
    <3>. QED
      BY <2>5, <3>1 DEF T
  <2>7. f[N + 1] = f[N] \o p[N + 1]
    <3>1. N \in 1..N
      BY <1>1, <2>2
    <3>. QED
      BY <1>2, <3>1
  <2>8. FlattenSeq(p) = FlattenSeq(q) \o x
    BY <1>1, <1>2, <2>1, <2>6, <2>7, Zenon
  <2>. QED
    BY <2>8 DEF p
<1>. QED
  BY <1>3, <1>4

(* What holds of nothing, and goes on to hold with each next part.             *)
LEMMA FlattenInduction ==
    ASSUME NEW S, NEW q \in Seq(Seq(S)), NEW T, <<0, <<>>>> \in T,
           \A i \in 0..(Len(q) - 1) : \A v \in Seq(S) :
               <<i, v>> \in T => <<i + 1, v \o q[i + 1]>> \in T
    PROVE  <<Len(q), FlattenSeq(q)>> \in T
<1>. DEFINE N == Len(q)
<1>1. CASE q = <<>>
  <2>1. FlattenSeq(q) = <<>> /\ Len(q) = 0
    BY <1>1 DEF FlattenSeq
  <2>. QED
    BY <2>1
<1>2. CASE q # <<>>
  <2>1. PICK f \in [1..N -> Seq(S)] :
            /\ FlattenSeq(q) = f[N] /\ f[1] = q[1]
            /\ \A i \in 1..(N - 1) : f[i + 1] = f[i] \o q[i + 1]
    BY <1>2, Flattening
  <2>2. N \in Nat /\ N >= 1 /\ \A i \in 1..N : q[i] \in Seq(S)
    BY <1>2, EmptySeq
  <2>. HIDE DEF N
  <2>. DEFINE U == {i \in Nat : i + 1 \in 1..N => <<i + 1, f[i + 1]>> \in T}
  <2>3. 0 \in U
    <3>1. <<>> \in Seq(S) /\ 1 \in 1..N /\ 0 \in 0..(N - 1) /\ 0 + 1 = 1
      BY <2>2
    <3>2. <<1, <<>> \o q[1]>> \in T
      BY <3>1 DEF N
    <3>3. <<>> \o q[1] = q[1]
      BY <2>2, <3>1
    <3>. QED
      BY <2>1, <3>1, <3>2, <3>3
  <2>4. ASSUME NEW i \in Nat, i \in U PROVE i + 1 \in U
    <3>. SUFFICES ASSUME (i + 1) + 1 \in 1..N PROVE <<(i + 1) + 1, f[(i + 1) + 1]>> \in T
      OBVIOUS
    <3>1. i + 1 \in 1..N /\ i + 1 \in 1..(N - 1) /\ i + 1 \in 0..(N - 1)
      BY <2>2
    <3>2. f[(i + 1) + 1] = f[i + 1] \o q[(i + 1) + 1] /\ f[i + 1] \in Seq(S)
      BY <2>1, <3>1
    <3>3. <<i + 1, f[i + 1]>> \in T
      BY <2>4, <3>1
    <3>4. <<(i + 1) + 1, f[i + 1] \o q[(i + 1) + 1]>> \in T
      BY <3>1, <3>2, <3>3 DEF N
    <3>. QED
      BY <3>2, <3>4
  <2>. HIDE DEF U
  <2>5. \A i \in Nat : i \in U
    BY <2>3, <2>4, NumberInduction
  <2>6. N - 1 \in Nat /\ (N - 1) + 1 = N /\ N \in 1..N
    BY <2>2
  <2>7. <<N, f[N]>> \in T
    BY <2>5, <2>6 DEF U
  <2>. QED
    BY <2>1, <2>7 DEF N
<1>. QED
  BY <1>1, <1>2

LEMMA FlattenLength ==
    ASSUME NEW S, NEW n \in Nat, NEW q \in Seq(Seq(S)), \A j \in 1..Len(q) : Len(q[j]) = n
    PROVE  Len(FlattenSeq(q)) = Len(q) * n
<1>. DEFINE T == {t \in Nat \X Seq(S) : Len(t[2]) = t[1] * n}
<1>0. \A i : \A v : <<i, v>> \in T <=> i \in Nat /\ v \in Seq(S) /\ Len(v) = i * n
  OBVIOUS
<1>. HIDE DEF T
<1>1. <<0, <<>>>> \in T
  <2>1. <<>> \in Seq(S) /\ Len(<<>>) = 0 * n
    OBVIOUS
  <2>. QED
    BY <1>0, <2>1
<1>2. ASSUME NEW i \in 0..(Len(q) - 1), NEW v \in Seq(S), <<i, v>> \in T
      PROVE  <<i + 1, v \o q[i + 1]>> \in T
  <2>2. i + 1 \in 1..Len(q) /\ i \in Nat
    OBVIOUS
  <2>1. PICK m \in Nat : m = i * n
    BY <2>2
  <2>3. PICK x \in Seq(S) : x = q[i + 1] /\ Len(x) = n
    BY <2>2
  <2>4. Len(v) = m
    BY <1>0, <1>2, <2>1, Zenon
  <2>5. v \o x \in Seq(S) /\ Len(v \o x) = m + n
    <3>1. \A a, b \in Seq(S) : a \o b \in Seq(S) /\ Len(a \o b) = Len(a) + Len(b)
      OBVIOUS
    <3>. QED
      BY <2>3, <2>4, <3>1, Zenon
  <2>6. (i + 1) * n = m + n
    BY <2>1, <2>2
  <2>7. i + 1 \in Nat /\ v \o q[i + 1] \in Seq(S) /\ Len(v \o q[i + 1]) = (i + 1) * n
    BY <2>2, <2>3, <2>5, <2>6
  <2>. QED
    BY <1>0, <2>7, Zenon
<1>3. <<Len(q), FlattenSeq(q)>> \in T
  BY <1>1, <1>2, FlattenInduction
<1>. QED
  BY <1>0, <1>3
===============================================================================
