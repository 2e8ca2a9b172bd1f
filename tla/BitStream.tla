------------------------------ MODULE BitStream ------------------------------
(* What every OBU is written with and read with: the typed writes of           *)
(* iamf/common/write_bit_buffer.cc and leb_generator.cc, and the typed reads   *)
(* of iamf/common/read_bit_buffer.cc, on sequences of bits.  The window and    *)
(* the source of a read buffer are ReadBitBuffer's subject.                    *)
(*                                                                             *)
(* A structure is a record; its fields are written and read in the order of a  *)
(* list of <<name, kind>>.  After a failure, a writer adds nothing more and a  *)
(* reader leaves the members as they were initialised.                         *)
(*                                                                             *)
(* Bound: a variable-length integer is below 2^28; one that is larger is       *)
(* refused, where the code has all 32 bits.                                    *)
EXTENDS Integers, Sequences, TLC

(* The kinds: unsigned and signed literals of n bits, literals too wide for    *)
(* TLC's integers, as their bits, leb128, the expandable sizes of ISO 14496-1  *)
(* up to a maximum, strings, and n bytes.                                      *)
U(n) == <<"unsigned", n>>
S(n) == <<"signed", n>>
Raw(n) == <<"raw", n>>
Leb == <<"leb128", 0>>
Iso(max) == <<"iso14496", max>>
Str == <<"string", 0>>
Bytes(n) == <<"bytes", n>>

MaxLeb128Size == 8
MaxGroups == 4 \* bound: groups of 7 bits with a value
MaxStringSize == 128

Bit(v, i) == IF i >= 31 THEN 0 ELSE (v \div 2 ^ i) % 2
Bits(v, n) == [k \in 1..n |-> Bit(v, n - k)]
BitsOf(bytes) ==
    [k \in 1..(8 * Len(bytes)) |-> Bit(bytes[(k - 1) \div 8 + 1], 7 - ((k - 1) % 8))]
Number(bits) ==
    LET upTo[k \in 0..Len(bits)] == IF k = 0 THEN 0 ELSE 2 * upTo[k - 1] + bits[k]
    IN upTo[Len(bits)]
-------------------------------------------------------------------------------
(* Writing.  Unwritable stands for an error; other results are bits.           *)
Unwritable == <<-1>>

(* No bit of the value may be lost.                                            *)
WriteUnsignedLiteral(v, n) ==
    IF n < 31 /\ v >= 2 ^ n THEN Unwritable ELSE Bits(v, n)

WriteSigned(v, n) ==
    IF -(2 ^ (n - 1)) <= v /\ v < 2 ^ (n - 1)
    THEN Bits(IF v < 0 THEN v + 2 ^ n ELSE v, n) ELSE Unwritable

WriteString(s) ==
    IF Len(s) > MaxStringSize - 1 \/ \E k \in DOMAIN s : s[k] = 0
    THEN Unwritable ELSE BitsOf(Append(s, 0))

(* The groups of 7 bits of a value, from the lowest, and how many it takes.    *)
Group(v, i) == IF i >= MaxGroups THEN 0 ELSE (v \div 128 ^ i) % 128
Groups(v) == CHOOSE n \in 1..MaxGroups :
                /\ n = MaxGroups \/ v < 128 ^ n
                /\ n = 1 \/ v >= 128 ^ (n - 1)
More(n, i) == IF i < n THEN 128 ELSE 0

(* As few bytes as possible when `leb` is 0, exactly `leb` bytes otherwise.    *)
GroupsUp(v, n) == BitsOf([i \in 1..n |-> More(n, i) + Group(v, i - 1)])
GroupsDown(v, n) == BitsOf([i \in 1..n |-> More(n, i) + Group(v, n - i)])
Uleb128ToUint8Vector(leb, v) ==
    IF leb = 0 THEN GroupsUp(v, Groups(v))
    ELSE IF Groups(v) > leb THEN Unwritable ELSE GroupsUp(v, leb)

WriteIso14496Expanded(v) == GroupsDown(v, Groups(v))

Written(leb, kind, v) ==
    CASE kind[1] = "unsigned" -> WriteUnsignedLiteral(v, kind[2])
      [] kind[1] = "signed"   -> WriteSigned(v, kind[2])
      [] kind[1] = "raw"      -> v
      [] kind[1] = "leb128"   -> Uleb128ToUint8Vector(leb, v)
      [] kind[1] = "iso14496" -> WriteIso14496Expanded(v)
      [] kind[1] = "string"   -> WriteString(v)
      [] kind[1] = "bytes"    -> BitsOf(v)

(* What follows a step, with what the step came to.                            *)
Then(x, Do(_)) == Do(x)

(* A WriteBitBuffer, with the size its LebGenerator was created for.           *)
NewWriter(leb) == [out |-> <<>>, ok |-> TRUE, leb |-> leb]

Added(w, bits) ==
    IF bits = Unwritable THEN [w EXCEPT !.ok = FALSE] ELSE [w EXCEPT !.out = @ \o bits]
PutOne(w, kind, v) == IF w.ok THEN Added(w, Written(w.leb, kind, v)) ELSE w

(* The fields of a structure; each element of a sequence, whole or of a kind.  *)
Put(w, fields, v) ==
    LET upTo[k \in 0..Len(fields)] ==
            IF k = 0 THEN w
            ELSE PutOne(upTo[k - 1], fields[k][2], v[fields[k][1]])
    IN IF w.ok THEN upTo[Len(fields)] ELSE w
PutEach(w, s, Write(_, _)) ==
    LET upTo[k \in 0..Len(s)] ==
            IF k = 0 THEN w
            ELSE Then(upTo[k - 1], LAMBDA x : IF x.ok THEN Write(x, s[k]) ELSE x)
    IN upTo[Len(s)]
PutMany(w, kind, s) == PutEach(w, s, LAMBDA x, v : PutOne(x, kind, v))

(* An early return, of a writer or of a reader, unless the condition holds.    *)
Require(x, condition) == [x EXCEPT !.ok = @ /\ condition]

IsByteAligned(w) == Len(w.out) % 8 = 0
-------------------------------------------------------------------------------
(* Reading.  A read gives its value and how many bits it took, or -1.          *)
Unread == [value |-> 0, size |-> -1]

Left(r) == Len(r.in) - r.at
Ahead(r, n) == SubSeq(r.in, r.at + 1, r.at + n)
Byte(r, i) == Number(SubSeq(r.in, r.at + 8 * i + 1, r.at + 8 * i + 8))
BytesAhead(r, n) == [i \in 1..n |-> Byte(r, i - 1)]

ReadLiteral(r, n, ValueOf(_)) ==
    IF Left(r) < n THEN Unread ELSE [value |-> ValueOf(Ahead(r, n)), size |-> n]

(* Two's complement; nine bits are extended to the width of the member.        *)
SignExtended(v, n) == IF v >= 2 ^ (n - 1) THEN v - 2 ^ n ELSE v
ReadUnsignedLiteral(r, n) == ReadLiteral(r, n, Number)
ReadSigned(r, n) == ReadLiteral(r, n, LAMBDA bits : SignExtended(Number(bits), n))
ReadRaw(r, n) == ReadLiteral(r, n, LAMBDA bits : bits)

(* The bytes up to the first one that ends a value, of at most n; none if no   *)
(* byte does.                                                                  *)
FirstOf(s) == IF s = {} THEN 0 ELSE CHOOSE i \in s : \A j \in s : i <= j
BytesUpTo(r, n, isLast(_)) ==
    BytesAhead(r, FirstOf({i \in 1..n : 8 * i <= Left(r) /\ isLast(Byte(r, i - 1))}))

StringOf(bytes) ==
    IF bytes = <<>> THEN Unread
    ELSE [value |-> SubSeq(bytes, 1, Len(bytes) - 1), size |-> 8 * Len(bytes)]
ReadString(r) == StringOf(BytesUpTo(r, MaxStringSize, LAMBDA b : b = 0))

(* The value of bytes of 7 bits each; byte i counts 128 to the power place[i], *)
(* and one that is not 0 may not count for more than there are groups.         *)
AccumulateUleb128(bytes, place, max) ==
    LET upTo[i \in 0..Len(bytes)] ==
            IF i = 0 THEN 0
            ELSE IF bytes[i] % 128 = 0 THEN upTo[i - 1]
            ELSE upTo[i - 1] + (bytes[i] % 128) * 128 ^ place[i]
        fits == /\ bytes # <<>>
                /\ \A i \in DOMAIN bytes : bytes[i] % 128 # 0 => place[i] < MaxGroups
    IN IF fits /\ upTo[Len(bytes)] <= max
       THEN [value |-> upTo[Len(bytes)], size |-> 8 * Len(bytes)] ELSE Unread

(* The lowest group comes first in a leb128, and last in ISO 14496-1.          *)
LowestFirst(bytes) == [i \in DOMAIN bytes |-> i - 1]
HighestFirst(bytes) == [i \in DOMAIN bytes |-> Len(bytes) - i]
MaxULeb128 == 2 ^ 28 - 1
Weighed(bytes, kind) ==
    AccumulateUleb128(bytes,
                      IF kind[1] = "leb128" THEN LowestFirst(bytes)
                      ELSE HighestFirst(bytes),
                      IF kind[1] = "leb128" THEN MaxULeb128 ELSE kind[2])
ReadGroups(r, kind) == Weighed(BytesUpTo(r, MaxLeb128Size, LAMBDA b : b < 128), kind)

ReadUint8Span(r, n) ==
    IF Left(r) \div 8 < n THEN Unread
    ELSE [value |-> BytesAhead(r, n), size |-> 8 * n]

ReadOf(r, kind) ==
    CASE kind[1] = "unsigned" -> ReadUnsignedLiteral(r, kind[2])
      [] kind[1] = "signed"   -> ReadSigned(r, kind[2])
      [] kind[1] = "raw"      -> ReadRaw(r, kind[2])
      [] kind[1] = "string"   -> ReadString(r)
      [] kind[1] = "bytes"    -> ReadUint8Span(r, kind[2])
      [] kind[1] \in {"leb128", "iso14496"} -> ReadGroups(r, kind)

Initial(kind) == IF kind[1] \in {"raw", "string", "bytes"} THEN <<>> ELSE 0
Empty == <<>>

(* A ReadBitBuffer at a position, and the members of the structure so far.     *)
NewReader(bits) == [in |-> bits, at |-> 0, ok |-> TRUE, got |-> Empty]

Store(r, name, v) == [r EXCEPT !.got = (name :> v) @@ @]

Kept(r, name, kind, a) ==
    IF a.size < 0
    THEN Store([r EXCEPT !.ok = FALSE], name, Initial(kind))
    ELSE Store([r EXCEPT !.at = @ + a.size], name, a.value)
TakeOne(r, name, kind) == Kept(r, name, kind, IF r.ok THEN ReadOf(r, kind) ELSE Unread)

InitialMembers(fields) ==
    [name \in {fields[k][1] : k \in DOMAIN fields} |->
        Initial(fields[CHOOSE k \in DOMAIN fields : fields[k][1] = name][2])]
Take(r, fields) ==
    LET upTo[k \in 0..Len(fields)] ==
            IF k = 0 THEN r
            ELSE TakeOne(upTo[k - 1], fields[k][1], fields[k][2])
    IN IF r.ok THEN upTo[Len(fields)]
       ELSE [r EXCEPT !.got = InitialMembers(fields) @@ @]

(* The bytes that are left up to a position that may have been passed.         *)
TakeRest(r, end, name) ==
    TakeOne(Require(r, r.at <= end), name,
            Bytes(IF r.at <= end THEN (end - r.at) \div 8 ELSE 0))

(* What was read is used only if it is valid.                                  *)
Validated(r, Valid(_)) == Require(r, Valid(r.got))

(* The members so far, without those that are not of the structure.            *)
Without(r, names) == [r EXCEPT !.got = [m \in DOMAIN @ \ names |-> @[m]]]

(* A member that is a structure.                                               *)
Outside(r, name, s) == Store([s EXCEPT !.got = r.got], name, s.got)
TakeStruct(r, name, Read(_)) == Outside(r, name, Read([r EXCEPT !.got = Empty]))

(* A member that is n structures, or n of one kind.  A loop that is longer     *)
(* than there are bytes left has failed by then: what is read more than once   *)
(* takes a byte at least.                                                      *)
Most(r, n) ==
    IF ~r.ok THEN 0 ELSE IF n > Left(r) \div 8 THEN Left(r) \div 8 + 1 ELSE n
Appended(before, s) == [s EXCEPT !.got = Append(before.got, s.got)]
ReadNext(so, Read(_)) ==
    IF so.ok THEN Appended(so, Read([so EXCEPT !.got = Empty])) ELSE so
ReadRun(so, n, Read(_)) ==
    LET upTo[k \in 0..n] ==
            IF k = 0 THEN so ELSE Then(upTo[k - 1], LAMBDA x : ReadNext(x, Read))
    IN upTo[n]

(* In runs of 6 that each start where the one before has ended: TLC nests its  *)
(* evaluation as deep as there are runs, not as deep as there are elements.    *)
RunLength == 6
RunOf(b, most) == IF RunLength * b <= most THEN RunLength ELSE most % RunLength
ReadEach(r, most, Read(_)) ==
    LET runs == (most + RunLength - 1) \div RunLength
        upTo[b \in 0..runs] ==
            IF b = 0 THEN [r EXCEPT !.got = <<>>]
            ELSE Then(upTo[b - 1], LAMBDA so :
                      IF so.ok THEN ReadRun(so, RunOf(b, most), Read) ELSE so)
    IN upTo[runs]
TakeEach(r, name, n, Read(_)) == Outside(r, name, ReadEach(r, Most(r, n), Read))
Values(s) == [k \in DOMAIN s |-> s[k].value]
TakeMany(r, name, n, kind) ==
    Then(TakeEach(r, name, n, LAMBDA x : TakeOne(x, "value", kind)), LAMBDA each :
         Store(each, name, Values(each.got[name])))

(* How many there are comes first.                                             *)
TakeCounted(r, name, count, Read(_)) ==
    Then(TakeOne(r, "n", count), LAMBDA num :
         TakeEach(Without(num, {"n"}), name, num.got.n, Read))
=============================================================================
