-------------------------- MODULE ReadBitBuffer_proofs ------------------------
(* What holds of every read buffer, for a source and a window of any size, any *)
(* reads of up to 64 bits, any seeks, and any pushes and flushes.              *)
EXTENDS ReadBitBuffer, TLAPS

(* The window is a piece of the source, up to source_bit_offset_.              *)
WindowOK(w) ==
    /\ w = [bytes |-> w.bytes, size |-> w.size,
            offset |-> w.offset, sourceOffset |-> w.sourceOffset]
    /\ w.size \in Nat /\ w.size % 8 = 0 /\ w.size <= 8 * capacity
    /\ w.bytes \in [0..((w.size \div 8) - 1) -> Nat]
    /\ w.offset \in Nat /\ w.offset <= w.size
    /\ w.sourceOffset \in Nat /\ w.sourceOffset % 8 = 0
    /\ w.sourceOffset <= sourceSize
    /\ 0 <= Position(w)
    /\ \A i \in 0..((w.size \div 8) - 1) :
          w.bytes[i] = flushed + ((w.sourceOffset - w.size) \div 8) + i

(* A memory buffer shows its whole source or the end of it.                    *)
MemoryOK(w) == kind = "Memory" => w.size = 0 \/ w.sourceOffset = sourceSize

(* The rest of Coherent: everything but the window.                            *)
SourceOK ==
    /\ kind \in Kinds /\ capacity \in Nat \ {0}
    /\ sourceSize \in Nat /\ sourceSize % 8 = 0
    /\ source \in [0..((sourceSize \div 8) - 1) -> Nat]
    /\ flushed \in Nat
    /\ \A i \in 0..((sourceSize \div 8) - 1) : source[i] = flushed + i
CallOK ==
    /\ valid \in BOOLEAN
    /\ status \in {"Ok", "ResourceExhausted", "InvalidArgument", "FailedPrecondition"}
    /\ pc \in {"idle", "bytes"}
    /\ asked \in Nat /\ remaining \in Nat

-------------------------------------------------------------------------------
(* Division by the bits of a byte.                                             *)
LEMMA Eights ==
    \A x \in Int : /\ x \div 8 \in Int /\ x % 8 \in 0..7
                   /\ x = 8 * (x \div 8) + (x % 8)
                   /\ x >= 0 => x \div 8 >= 0
                   /\ x % 8 = 0 => x = 8 * (x \div 8)
                   /\ (8 * x) \div 8 = x /\ (8 * x) % 8 = 0
  OBVIOUS

LEMMA DifferenceOfEights ==
    ASSUME NEW x \in Int, NEW y \in Int, x % 8 = 0, y % 8 = 0
    PROVE  (x - y) % 8 = 0
  OBVIOUS

LEMMA EightsAway ==
    ASSUME NEW x \in Int, NEW n \in Int
    PROVE  (x - 8 * n) \div 8 = (x \div 8) - n /\ (x - 8 * n) % 8 = x % 8
  OBVIOUS

(* The bytes behind the window and those left in it are the bytes left.        *)
LEMMA BytesLeft ==
    ASSUME NEW s \in Int, NEW b \in Int, NEW z \in Int, NEW o \in Int,
           s % 8 = 0, b % 8 = 0, z % 8 = 0
    PROVE  ((s - b) \div 8) + ((z - o) \div 8) = (s - (b - z + o)) \div 8
  OBVIOUS

(* Coherent in the parts the proofs work with.                                 *)
LEMMA CoherentParts == Coherent <=> SourceOK /\ WindowOK(window) /\ CallOK
<1>1. Coherent => SourceOK /\ WindowOK(window) /\ CallOK
  BY DEF Coherent, TypeOK, PositionInSource, SourceOK, WindowOK, CallOK, Position
<1>2. ASSUME SourceOK, WindowOK(window), CallOK PROVE Coherent
  <2>1. TypeOK
    BY <1>2 DEF TypeOK, SourceOK, WindowOK, CallOK
  <2>2. NumBytesAvailable = (sourceSize - Position(window)) \div 8
    <3>1. /\ window.offset \in Int /\ sourceSize \in Int /\ sourceSize % 8 = 0
          /\ window.sourceOffset \in Int /\ window.sourceOffset % 8 = 0
          /\ window.size \in Int /\ window.size % 8 = 0
      BY <1>2 DEF WindowOK, SourceOK
    <3>. QED
      BY <3>1, BytesLeft DEF NumBytesAvailable, Position
  <2>3. PositionInSource
    BY <1>2, <2>2 DEF PositionInSource, WindowOK, SourceOK
  <2>. QED
    BY <1>2, <2>1, <2>3 DEF Coherent, SourceOK, WindowOK
<1>. QED
  BY <1>1, <1>2

(* The numbers of a window, without its bytes.                                 *)
LEMMA WindowNumbers ==
    ASSUME NEW w, WindowOK(w)
    PROVE  /\ w.size \in Nat /\ w.size % 8 = 0 /\ w.offset \in Nat /\ w.offset <= w.size
           /\ w.sourceOffset \in Nat /\ w.sourceOffset % 8 = 0
           /\ w.sourceOffset <= sourceSize /\ 0 <= Position(w)
BY DEF WindowOK

LEMMA WindowRecord ==
    ASSUME NEW w, WindowOK(w)
    PROVE  w = [bytes |-> w.bytes, size |-> w.size,
                offset |-> w.offset, sourceOffset |-> w.sourceOffset]
BY DEF WindowOK

(* Loading the window at a position of the source.                             *)
LEMMA LoadedWindow ==
    ASSUME SourceOK, NEW p \in Nat, p <= sourceSize
    PROVE  /\ WindowOK(Loaded(p)) /\ Position(Loaded(p)) = p
           /\ p < sourceSize => Loaded(p).offset < Loaded(p).size
           /\ (kind = "Memory" => 8 * capacity = sourceSize) => MemoryOK(Loaded(p))
<1>. DEFINE start == p \div 8
            n == Fitting(start)
            w == Loaded(p)
<1>1. PICK a \in Nat : sourceSize = 8 * a /\ sourceSize \div 8 = a
  BY Eights DEF SourceOK
<1>2. start \in Nat /\ p % 8 \in 0..7 /\ p = 8 * start + (p % 8) /\ start <= a
  BY <1>1, Eights
<1>3. /\ n \in Nat /\ n <= capacity /\ start + n <= a
      /\ start < a => n >= 1
      /\ capacity = a => start + n = a
      /\ start = a => p % 8 = 0
  BY <1>1, <1>2 DEF Fitting, Lesser, SourceOK
<1>4. /\ w = [bytes |-> [i \in 0..(n - 1) |-> source[start + i]],
              size |-> 8 * n, offset |-> p % 8, sourceOffset |-> 8 * (start + n)]
      /\ w.bytes = [i \in 0..(n - 1) |-> source[start + i]]
      /\ w.size = 8 * n /\ w.offset = p % 8 /\ w.sourceOffset = 8 * (start + n)
  BY DEF Loaded
<1>. HIDE DEF w, n, start
<1>5. /\ w.size \div 8 = n /\ w.size % 8 = 0 /\ w.sourceOffset % 8 = 0
      /\ (w.sourceOffset - w.size) \div 8 = start
  BY <1>2, <1>3, <1>4
<1>6. \A i \in 0..(n - 1) : source[start + i] \in Nat /\ source[start + i] = flushed + start + i
  <2>1. \A i \in 0..(n - 1) : start + i \in 0..(a - 1)
    BY <1>1, <1>2, <1>3
  <2>. QED
    BY <1>1, <1>2, <1>3, <2>1 DEF SourceOK
<1>7. w.bytes \in [0..(n - 1) -> Nat]
  BY <1>4, <1>6
<1>8. Position(w) = p
  BY <1>2, <1>3, <1>4 DEF Position
<1>9. w.offset <= w.size /\ (p < sourceSize => w.offset < w.size)
  BY <1>1, <1>2, <1>3, <1>4
<1>10. WindowOK(w)
  <2>1. w = [bytes |-> w.bytes, size |-> w.size,
             offset |-> w.offset, sourceOffset |-> w.sourceOffset]
    BY <1>4
  <2>2. /\ w.size \in Nat /\ w.size <= 8 * capacity /\ w.offset \in Nat
        /\ w.sourceOffset \in Nat /\ w.sourceOffset <= sourceSize
    BY <1>1, <1>2, <1>3, <1>4 DEF SourceOK
  <2>3. \A i \in 0..((w.size \div 8) - 1) :
            w.bytes[i] = flushed + ((w.sourceOffset - w.size) \div 8) + i
    BY <1>2, <1>3, <1>4, <1>5, <1>6 DEF SourceOK
  <2>. QED
    BY <2>1, <2>2, <2>3, <1>5, <1>7, <1>8, <1>9 DEF WindowOK
<1>11. (kind = "Memory" => 8 * capacity = sourceSize) => MemoryOK(w)
  BY <1>1, <1>2, <1>3, <1>4 DEF MemoryOK, SourceOK
<1>. QED
  BY <1>8, <1>9, <1>10, <1>11 DEF w

(* Locating a position of the source in the window, or loading it there.       *)
LEMMA LocatedWindow ==
    ASSUME SourceOK, WindowOK(window), NEW p \in Nat, p <= sourceSize
    PROVE  LET w == Located(window, p) IN
           /\ WindowOK(w) /\ Position(w) = p
           /\ p < sourceSize => w.offset < w.size
           /\ (kind = "Memory" => 8 * capacity = sourceSize) /\ MemoryOK(window)
                 => MemoryOK(w)
<1>1. CASE Holds(window, p)
  <2>. DEFINE w == [window EXCEPT !.offset = p - (window.sourceOffset - window.size)]
  <2>1. /\ w = [bytes |-> window.bytes, size |-> window.size, offset |-> w.offset,
                sourceOffset |-> window.sourceOffset]
        /\ w.offset = p - (window.sourceOffset - window.size)
        /\ w.bytes = window.bytes /\ w.size = window.size
        /\ w.sourceOffset = window.sourceOffset
    BY WindowRecord
  <2>2. Located(window, p) = w
    BY <1>1 DEF Located
  <2>. HIDE DEF w
  <2>3. Position(w) = p
    BY <2>1 DEF Position, WindowOK
  <2>4. w.offset \in Nat /\ w.offset < w.size
    BY <1>1, <2>1 DEF Holds, WindowOK
  <2>5. WindowOK(w)
    BY <2>1, <2>3, <2>4 DEF WindowOK
  <2>6. MemoryOK(window) => MemoryOK(w)
    BY <2>1 DEF MemoryOK
  <2>. QED
    BY <2>2, <2>3, <2>4, <2>5, <2>6
<1>2. CASE ~Holds(window, p)
  BY <1>2, LoadedWindow DEF Located
<1>. QED
  BY <1>1, <1>2

(* Reading at most k bits moves the position by those that can be read.        *)
LEMMA AdvancedWindow ==
    ASSUME NEW w, WindowOK(w), NEW k \in Nat
    PROVE  /\ Readable(w, k) \in 0..k
           /\ k <= w.size - w.offset => Readable(w, k) = k
           /\ WindowOK(Advanced(w, k)) /\ (MemoryOK(w) => MemoryOK(Advanced(w, k)))
           /\ Position(Advanced(w, k)) = Position(w) + Readable(w, k)
           /\ Advanced(w, k).sourceOffset = w.sourceOffset
<1>. DEFINE r == Readable(w, k)
            v == Advanced(w, k)
<1>1. /\ r \in 0..k /\ (k <= w.size - w.offset => r = k)
      /\ w.offset + r <= w.size
  BY WindowNumbers DEF Readable, Lesser
<1>2. /\ v = [bytes |-> w.bytes, size |-> w.size, offset |-> w.offset + r,
              sourceOffset |-> w.sourceOffset]
      /\ v.bytes = w.bytes /\ v.size = w.size /\ v.offset = w.offset + r
      /\ v.sourceOffset = w.sourceOffset
  BY DEF Advanced, WindowOK
<1>. HIDE DEF r, v
<1>3. Position(v) = Position(w) + r
  BY <1>1, <1>2 DEF Position, WindowOK
<1>4. WindowOK(v)
  <2>1. v.offset \in Nat /\ v.offset <= v.size
    BY <1>1, <1>2 DEF WindowOK
  <2>2. 0 <= Position(v)
    BY <1>1, <1>3 DEF WindowOK, Position
  <2>. QED
    BY <1>2, <2>1, <2>2 DEF WindowOK
<1>5. MemoryOK(w) => MemoryOK(v)
  BY <1>2 DEF MemoryOK
<1>. QED
  BY <1>1, <1>2, <1>3, <1>4, <1>5 DEF r, v

(* The bits that are read are those behind the position, in order.             *)
LEMMA BitsExact ==
    ASSUME flushed \in Nat, NEW w, WindowOK(w), NEW k \in Nat
    PROVE  Bits(w, k) = [i \in 1..Readable(w, k) |-> 8 * flushed + Position(w) + i - 1]
<1>1. ASSUME NEW o \in Nat, o < w.size
      PROVE  BitAt(w, o) = 8 * flushed + w.sourceOffset - w.size + o
  <2>1. o \div 8 \in 0..((w.size \div 8) - 1)
    BY <1>1 DEF WindowOK
  <2>2. w.bytes[o \div 8] = flushed + ((w.sourceOffset - w.size) \div 8) + (o \div 8)
    BY <2>1 DEF WindowOK
  <2>3. w.sourceOffset - w.size \in Int /\ (w.sourceOffset - w.size) % 8 = 0
    <3>1. /\ w.sourceOffset \in Int /\ w.sourceOffset % 8 = 0
          /\ w.size \in Int /\ w.size % 8 = 0
      BY WindowNumbers
    <3>. QED
      BY <3>1, DifferenceOfEights
  <2>4. 8 * ((w.sourceOffset - w.size) \div 8) = w.sourceOffset - w.size
    BY <2>3, Eights
  <2>5. 8 * (o \div 8) + (o % 8) = o /\ o \div 8 \in Int /\ o % 8 \in Int
    BY <1>1, Eights
  <2>. DEFINE x == (w.sourceOffset - w.size) \div 8
              y == o \div 8
              z == o % 8
  <2>6. x \in Int /\ y \in Int /\ z \in Int
    BY <2>3, <2>5, Eights
  <2>7. BitAt(w, o) = 8 * (flushed + x + y) + z
    BY <2>2 DEF BitAt
  <2>8. 8 * x = w.sourceOffset - w.size /\ 8 * y + z = o
    BY <2>4, <2>5
  <2>9. w.sourceOffset \in Int /\ w.size \in Int
    BY WindowNumbers
  <2>. HIDE DEF x, y, z
  <2>. QED
    BY <1>1, <2>6, <2>7, <2>8, <2>9
<1>2. Readable(w, k) \in Nat /\ w.offset + Readable(w, k) <= w.size
  BY WindowNumbers DEF Readable, Lesser
<1>3. ASSUME NEW i \in 1..Readable(w, k)
      PROVE  BitAt(w, w.offset + i - 1) = 8 * flushed + Position(w) + i - 1
  <2>1. w.offset + i - 1 \in Nat /\ w.offset + i - 1 < w.size
    BY <1>2, <1>3, WindowNumbers
  <2>2. BitAt(w, w.offset + i - 1)
           = 8 * flushed + w.sourceOffset - w.size + (w.offset + i - 1)
    BY <1>1, <2>1
  <2>3. w.sourceOffset \in Int /\ w.size \in Int /\ w.offset \in Int /\ i \in Int
    BY <1>3, WindowNumbers
  <2>. QED
    BY <2>2, <2>3 DEF Position
<1>. QED
  BY <1>3 DEF Bits
-------------------------------------------------------------------------------
(* A call that leaves the source alone only has to keep the window one of its. *)
LEMMA UnmovedSource ==
    ASSUME SourceOK, UNCHANGED <<kind, capacity, stream>>, WindowOK(window')
    PROVE  SourceOK' /\ WindowOK(window)'
<1>1. SourceOK'
  BY DEF SourceOK, stream
<1>2. WindowOK(window)'
  BY DEF WindowOK, Position, stream
<1>. QED
  BY <1>1, <1>2

(* The position is one of the source.                                          *)
LEMMA PositionType ==
    ASSUME SourceOK, WindowOK(window)
    PROVE  Position(window) \in Nat /\ Position(window) <= sourceSize
<1>. sourceSize \in Nat
  BY DEF SourceOK
<1>. QED
  BY WindowNumbers DEF Position

(* Wherever a Seek goes, the window stays one of the source; when it succeeds, *)
(* the position is the one asked for.                                          *)
LEMMA SoughtWindow ==
    ASSUME SourceOK, WindowOK(window), NEW p \in Int
    PROVE  /\ WindowOK(Sought(p))
           /\ SeekStatus(p) = "Ok" => Position(Sought(p)) = p
           /\ (kind = "Memory" => 8 * capacity = sourceSize) /\ MemoryOK(window)
                 => MemoryOK(Sought(p))
<1>1. CASE SeekStatus(p) = "Ok"
  <2>1. p \in Nat /\ p <= sourceSize
    BY <1>1 DEF SeekStatus, SourceOK
  <2>. QED
    BY <1>1, <2>1, LocatedWindow DEF Sought
<1>2. CASE SeekStatus(p) # "Ok"
  BY <1>2 DEF Sought
<1>. QED
  BY <1>1, <1>2

(* More bytes at the end of the source.                                        *)
LEMMA PushedBytes ==
    ASSUME SourceOK, WindowOK(window), NEW k \in Nat, PushBytes(k)
    PROVE  SourceOK' /\ WindowOK(window)'
<1>1. CASE UNCHANGED stream
  BY <1>1, UnmovedSource DEF PushBytes, Called
<1>2. CASE ~UNCHANGED stream
  <2>1. PICK a \in Nat : sourceSize = 8 * a /\ sourceSize \div 8 = a
    BY Eights DEF SourceOK
  <2>2. /\ source' = [i \in 0..(a + k - 1) |-> IF i < a THEN source[i] ELSE flushed + i]
        /\ sourceSize' = 8 * (a + k) /\ flushed' = flushed
        /\ kind' = kind /\ capacity' = capacity /\ window' = window
    BY <1>2, <2>1 DEF PushBytes, Called
  <2>3. sourceSize' \div 8 = a + k /\ sourceSize' % 8 = 0 /\ sourceSize <= sourceSize'
    BY <2>1, <2>2, Eights
  <2>4. \A i \in 0..(a + k - 1) : source'[i] \in Nat /\ source'[i] = flushed + i
    BY <2>1, <2>2 DEF SourceOK
  <2>5. source' \in [0..(a + k - 1) -> Nat]
    BY <2>2, <2>4
  <2>6. SourceOK'
    BY <2>1, <2>2, <2>3, <2>4, <2>5 DEF SourceOK
  <2>7. WindowOK(window)'
    <3>1. window.sourceOffset <= sourceSize'
      BY <2>1, <2>2, <2>3, WindowNumbers
    <3>. QED
      BY <2>2, <3>1 DEF WindowOK, Position
  <2>. QED
    BY <2>6, <2>7
<1>. QED
  BY <1>1, <1>2

(* Fewer bytes at its front: those in the window keep their places behind the  *)
(* flushed ones.                                                               *)
LEMMA FlushedBytes ==
    ASSUME SourceOK, WindowOK(window), NEW n \in Nat, Flush(n)
    PROVE  SourceOK' /\ WindowOK(window)'
<1>1. CASE 8 * n > sourceSize /\ UNCHANGED <<stream, window, valid>>
  BY <1>1, UnmovedSource DEF Flush, Called
<1>2. CASE /\ 8 * n <= Position(window)
           /\ source' = SourceAfterFlush(n)
           /\ sourceSize' = sourceSize - 8 * n
           /\ flushed' = flushed + n
           /\ window' = WindowAfterFlush(n)
  <2>1. PICK a \in Nat : sourceSize = 8 * a /\ sourceSize \div 8 = a
    BY Eights DEF SourceOK
  <2>2. /\ window' = [bytes |-> window.bytes, size |-> window.size,
                      offset |-> window.offset,
                      sourceOffset |-> window.sourceOffset - 8 * n]
        /\ window'.bytes = window.bytes /\ window'.size = window.size
        /\ window'.offset = window.offset
        /\ window'.sourceOffset = window.sourceOffset - 8 * n
    BY <1>2 DEF WindowAfterFlush, WindowOK
  <2>3. /\ window.sourceOffset \in Nat /\ window.size \in Nat /\ window.offset \in Nat
        /\ window.offset <= window.size /\ window.sourceOffset <= sourceSize
        /\ window.sourceOffset % 8 = 0
    BY DEF WindowOK
  <2>4. 8 * n <= window.sourceOffset /\ 8 * n <= sourceSize /\ n <= a
    BY <1>2, <2>1, <2>3 DEF Position
  <2>5. sourceSize' = 8 * (a - n) /\ sourceSize' \div 8 = a - n /\ sourceSize' % 8 = 0
    BY <1>2, <2>1, Eights
  <2>6. source' = [i \in 0..(a - n - 1) |-> source[i + n]]
    BY <1>2, <2>1 DEF SourceAfterFlush
  <2>7. \A i \in 0..(a - n - 1) : /\ source'[i] \in Nat
                                  /\ source'[i] = flushed + n + i
    BY <2>1, <2>4, <2>6 DEF SourceOK
  <2>8. source' \in [0..(a - n - 1) -> Nat]
    BY <2>6, <2>7
  <2>9. SourceOK'
    BY <1>2, <2>1, <2>4, <2>5, <2>7, <2>8 DEF SourceOK, Flush, Called
  <2>10. /\ window'.sourceOffset \in Nat /\ window'.sourceOffset <= sourceSize'
         /\ window'.sourceOffset % 8 = 0
    BY <1>2, <2>1, <2>2, <2>3, <2>4, EightsAway
  <2>11. 0 <= Position(window')
    BY <1>2, <2>2, <2>3 DEF Position
  <2>12. /\ (window'.sourceOffset - window'.size) \div 8
                = ((window.sourceOffset - window.size) \div 8) - n
         /\ (window.sourceOffset - window.size) \div 8 \in Int
    <3>1. window.sourceOffset - window.size \in Int
      BY <2>3
    <3>2. window'.sourceOffset - window'.size = (window.sourceOffset - window.size) - 8 * n
      BY <2>2, <2>3
    <3>. QED
      BY <3>1, <3>2, EightsAway, Eights
  <2>13. \A i \in 0..((window'.size \div 8) - 1) :
            window'.bytes[i]
               = flushed' + ((window'.sourceOffset - window'.size) \div 8) + i
    BY <1>2, <2>2, <2>12 DEF WindowOK, SourceOK
  <2>14. WindowOK(window)'
    BY <1>2, <2>2, <2>10, <2>11, <2>13 DEF WindowOK, Position, Flush, Called
  <2>. QED
    BY <2>9, <2>14
<1>. QED
  BY <1>1, <1>2 DEF Flush

(* A position and the offset of the window are at the same bit of a byte: a    *)
(* read stays inside the byte, which the window holds, or reaches its end.     *)
LEMMA Aligning ==
    ASSUME NEW p \in Nat, NEW n \in Nat \ {0}, NEW o \in Nat, NEW z \in Nat,
           o < z, z % 8 = 0, o % 8 = p % 8
    PROVE  LET t == (8 - (o % 8)) % 8 IN
           /\ (p + n) \div 8 = p \div 8 => n <= z - o
           /\ (p + n) \div 8 # p \div 8 => t \in 0..n /\ t <= z - o /\ (p + t) % 8 = 0
<1>1. PICK a \in Nat, b \in Nat, c \in Nat, r \in 0..7 :
         p = 8 * a + r /\ o = 8 * b + r /\ z = 8 * c
  <2>1. p = 8 * (p \div 8) + (p % 8) /\ p \div 8 \in Nat /\ p % 8 \in 0..7
    BY Eights
  <2>2. o = 8 * (o \div 8) + (o % 8) /\ o \div 8 \in Nat
    BY Eights
  <2>3. z = 8 * (z \div 8) /\ z \div 8 \in Nat
    BY Eights
  <2>. QED
    BY <2>1, <2>2, <2>3
<1>2. p \div 8 = a /\ o % 8 = r /\ c >= b + 1
  BY <1>1
<1>3. (8 - r) % 8 = IF r = 0 THEN 0 ELSE 8 - r
  BY <1>1
<1>4. (p + n) \div 8 = a <=> r + n < 8
  BY <1>1
<1>5. CASE r = 0
  BY <1>1, <1>2, <1>3, <1>4, <1>5
<1>6. CASE r # 0
  BY <1>1, <1>2, <1>3, <1>4, <1>6
<1>. QED
  BY <1>5, <1>6

(* The first bits of a read: all of them, or those up to the end of a byte.    *)
LEMMA FirstBits ==
    ASSUME SourceOK, WindowOK(window), NEW n \in Nat \ {0}, ~NotEnoughBits(n),
           NEW p, p = Position(window), NEW w, w = Located(window, p),
           NEW toAlign, toAlign = (8 - (w.offset % 8)) % 8,
           NEW first, first = IF (p + n) \div 8 = p \div 8 THEN n ELSE toAlign
    PROVE  /\ WindowOK(w) /\ Position(w) = p /\ w.offset < w.size
           /\ first \in 0..n /\ Readable(w, first) = first
           /\ (p + n) \div 8 # p \div 8 => (p + first) % 8 = 0
           /\ (kind = "Memory" => 8 * capacity = sourceSize) /\ MemoryOK(window)
                 => MemoryOK(w)
<1>1. p \in Nat /\ p < sourceSize /\ p <= sourceSize
  BY PositionType DEF NotEnoughBits, SourceOK
<1>2. /\ WindowOK(w) /\ Position(w) = p /\ w.offset < w.size
      /\ (kind = "Memory" => 8 * capacity = sourceSize) /\ MemoryOK(window)
            => MemoryOK(w)
  BY <1>1, LocatedWindow
<1>3. /\ w.offset \in Nat /\ w.size \in Nat /\ w.size % 8 = 0
      /\ w.sourceOffset \in Nat /\ w.sourceOffset % 8 = 0
      /\ p = w.sourceOffset - w.size + w.offset
  BY <1>2 DEF WindowOK, Position
<1>4. w.offset % 8 = p % 8
  <2>1. \A a, b, o \in Int : a % 8 = 0 /\ b % 8 = 0 => (a - b + o) % 8 = o % 8
    OBVIOUS
  <2>2. /\ w.sourceOffset \in Int /\ w.size \in Int /\ w.offset \in Int
        /\ w.sourceOffset % 8 = 0 /\ w.size % 8 = 0
    BY <1>3
  <2>3. (w.sourceOffset - w.size + w.offset) % 8 = w.offset % 8
    BY <2>1, <2>2
  <2>. QED
    BY <1>3, <2>3
<1>5. /\ (p + n) \div 8 = p \div 8 => n <= w.size - w.offset
      /\ (p + n) \div 8 # p \div 8 =>
            toAlign \in 0..n /\ toAlign <= w.size - w.offset /\ (p + toAlign) % 8 = 0
  <2>1. /\ p \in Nat /\ w.offset \in Nat /\ w.size \in Nat /\ w.offset < w.size
        /\ w.size % 8 = 0 /\ w.offset % 8 = p % 8
    BY <1>1, <1>2, <1>3, <1>4
  <2>2. PICK o, z : o = w.offset /\ z = w.size
    OBVIOUS
  <2>3. o \in Nat /\ z \in Nat /\ o < z /\ z % 8 = 0 /\ o % 8 = p % 8
    BY <2>1, <2>2
  <2>4. LET t == (8 - (o % 8)) % 8 IN
        /\ (p + n) \div 8 = p \div 8 => n <= z - o
        /\ (p + n) \div 8 # p \div 8 => t \in 0..n /\ t <= z - o /\ (p + t) % 8 = 0
    BY <1>1, <2>3, Aligning
  <2>. QED
    BY <2>2, <2>4
<1>6. first \in 0..n /\ first \in Nat /\ first <= w.size - w.offset
  BY <1>5
<1>7. Readable(w, first) = first
  BY <1>2, <1>6, AdvancedWindow
<1>. QED
  BY <1>2, <1>5, <1>6, <1>7

(* A read begins.                                                              *)
LEMMA BegunRead ==
    ASSUME SourceOK, WindowOK(window), NEW n \in ReadSizes, ReadBegin(n)
    PROVE  SourceOK' /\ WindowOK(window)' /\ CallOK'
<1>1. n \in Nat
  BY InputAssumption
<1>2. CASE UNCHANGED window /\ remaining' \in {0, n} /\ pc' = "idle"
           /\ status' \in {"Ok", "ResourceExhausted"}
  BY <1>1, <1>2, UnmovedSource DEF ReadBegin, Called, CallOK
<1>3. CASE ~NotEnoughBits(n) /\ n > 0
  <2>. DEFINE p == Position(window)
              w == Located(window, p)
              toAlign == (8 - (w.offset % 8)) % 8
              first == IF (p + n) \div 8 = p \div 8 THEN n ELSE toAlign
  <2>1. WindowOK(w) /\ first \in 0..n
    BY <1>1, <1>3, FirstBits
  <2>2. /\ window' = Advanced(w, first) /\ remaining' = n - first /\ status' = "Ok"
        /\ pc' = IF (p + n) \div 8 = p \div 8 THEN "idle" ELSE "bytes"
    BY <1>3 DEF ReadBegin
  <2>. HIDE DEF p, w, first
  <2>3. WindowOK(window')
    BY <2>1, <2>2, AdvancedWindow
  <2>4. CallOK'
    BY <1>1, <2>1, <2>2 DEF ReadBegin, CallOK
  <2>. QED
    BY <2>3, <2>4, UnmovedSource DEF ReadBegin, Called
<1>. QED
  BY <1>2, <1>3 DEF ReadBegin

(* And goes on.                                                                *)
LEMMA ContinuedRead ==
    ASSUME SourceOK, WindowOK(window), CallOK, ReadBytes \/ ReadFinish
    PROVE  SourceOK' /\ WindowOK(window)' /\ CallOK'
<1>1. CASE ReadBytes
  <2>. DEFINE w == Located(window, Position(window))
              n == Lesser(w.size - w.offset, 8 * (remaining \div 8))
  <2>1. WindowOK(w)
    BY PositionType, LocatedWindow
  <2>2. n \in Nat /\ n <= remaining
    <3>1. w.size - w.offset \in Nat
      BY <2>1, WindowNumbers
    <3>2. remaining \in Nat /\ 8 * (remaining \div 8) \in Nat /\ 8 * (remaining \div 8) <= remaining
      BY Eights DEF CallOK
    <3>. HIDE DEF w
    <3>. QED
      BY <3>1, <3>2 DEF Lesser
  <2>3. window' = Advanced(w, n) /\ remaining' = remaining - n
    BY <1>1 DEF ReadBytes
  <2>. HIDE DEF w, n
  <2>4. WindowOK(window')
    BY <2>1, <2>2, <2>3, AdvancedWindow
  <2>5. CallOK'
    BY <1>1, <2>2, <2>3 DEF ReadBytes, CallOK
  <2>. QED
    BY <1>1, <2>4, <2>5, UnmovedSource DEF ReadBytes
<1>2. CASE ReadFinish
  <2>1. WindowOK(window')
    BY <1>2, AdvancedWindow DEF ReadFinish, CallOK
  <2>2. CallOK'
    BY <1>2 DEF ReadFinish, CallOK
  <2>. QED
    BY <1>2, <2>1, <2>2, UnmovedSource DEF ReadFinish
<1>. QED
  BY <1>1, <1>2

(* Every step keeps the window, the source and the types together.             *)
LEMMA PartsStep ==
    ASSUME SourceOK, WindowOK(window), CallOK, [Next]_vars
    PROVE  SourceOK' /\ WindowOK(window)' /\ CallOK'
<1>1. ASSUME NEW k \in 1..MaxPushed, PushBytes(k) PROVE SourceOK' /\ WindowOK(window)' /\ CallOK'
  <2>1. CallOK'
    BY <1>1 DEF PushBytes, NoRead, CallOK
  <2>. QED
    BY <1>1, <2>1, PushedBytes
<1>2. ASSUME NEW k \in 1..MaxPushed, Flush(k) PROVE SourceOK' /\ WindowOK(window)' /\ CallOK'
  <2>1. CallOK'
    BY <1>2 DEF Flush, NoRead, CallOK
  <2>. QED
    BY <1>2, <2>1, FlushedBytes
<1>3. ASSUME NEW k \in 1..MaxPushed, IgnoreBytes(k)
      PROVE  SourceOK' /\ WindowOK(window)' /\ CallOK'
  <2>1. Position(window) + 8 * k \in Int
    BY PositionType
  <2>2. WindowOK(window')
    BY <1>3, <2>1, SoughtWindow DEF IgnoreBytes
  <2>3. CallOK'
    BY <1>3 DEF IgnoreBytes, NoRead, CallOK, SeekStatus
  <2>. QED
    BY <1>3, <2>2, <2>3, UnmovedSource DEF IgnoreBytes, Called
<1>4. CASE Tell
  BY <1>4, UnmovedSource DEF Tell, Called, NoRead, CallOK
<1>5. ASSUME NEW p \in SeekTargets, Seek(p) PROVE SourceOK' /\ WindowOK(window)' /\ CallOK'
  <2>1. WindowOK(window')
    BY <1>5, SoughtWindow, InputAssumption DEF Seek
  <2>2. CallOK'
    BY <1>5 DEF Seek, NoRead, CallOK, SeekStatus
  <2>. QED
    BY <1>5, <2>1, <2>2, UnmovedSource DEF Seek, Called
<1>6. ASSUME NEW n \in ReadSizes, ReadBegin(n) PROVE SourceOK' /\ WindowOK(window)' /\ CallOK'
  BY <1>6, BegunRead
<1>7. CASE ReadBytes \/ ReadFinish
  BY <1>7, ContinuedRead
<1>8. CASE UNCHANGED vars
  BY <1>8, UnmovedSource DEF vars, read, CallOK
<1>. QED
  BY <1>1, <1>2, <1>3, <1>4, <1>5, <1>6, <1>7, <1>8 DEF Next

(* The initial window is empty and in front of the source.                     *)
LEMMA InitialParts ==
    ASSUME Init
    PROVE  SourceOK /\ WindowOK(window) /\ CallOK
<1>1. PICK a \in Nat : sourceSize = 8 * a /\ sourceSize \div 8 = a /\ sourceSize % 8 = 0
  BY SourceAssumption, Eights DEF Init
<1>2. SourceOK
  <2>1. source = [i \in 0..(a - 1) |-> i] /\ flushed = 0
    BY <1>1 DEF Init
  <2>2. kind \in Kinds /\ capacity \in Nat \ {0}
    BY CapacityAssumption, SourceAssumption DEF Init
  <2>. QED
    BY <1>1, <2>1, <2>2 DEF SourceOK
<1>3. WindowOK(window)
  BY <1>1, <1>2 DEF Init, WindowOK, Position, SourceOK
<1>4. CallOK
  BY DEF Init, CallOK
<1>. QED
  BY <1>2, <1>3, <1>4

(* In every reachable state the four offsets, the window and the source agree: *)
(* the position is one of the source, the source holds the bytes behind the    *)
(* flushed ones, and the window those in front of source_bit_offset_.          *)
THEOREM WindowIsCoherent == Spec => []Coherent
<1>1. Init => Coherent
  BY InitialParts, CoherentParts
<1>2. Coherent /\ [Next]_vars => Coherent'
  <2>1. SourceOK /\ WindowOK(window) /\ CallOK /\ [Next]_vars
           => SourceOK' /\ WindowOK(window)' /\ CallOK'
    BY PartsStep
  <2>. QED
    BY <2>1, CoherentParts, PTL
<1>. QED
  BY <1>1, <1>2, PTL DEF Spec
-------------------------------------------------------------------------------
(* What Tell designated, in bits of everything that was ever pushed.           *)
ToldInv ==
    told.position \in Int /\ told.bit = 8 * told.flushed + told.position

(* In the loop of a read: what it gathered so far, which bit is the next, and  *)
(* that the source has the rest.  It began in one byte and ends in another.    *)
LoopInv ==
    pc = "bytes" =>
        /\ status = "Ok" /\ asked > 0 /\ remaining <= asked
        /\ output = [i \in 1..(asked - remaining) |-> from + i - 1]
        /\ Cursor = from + asked - remaining /\ Cursor % 8 = 0
        /\ Position(window) + remaining <= sourceSize
        /\ from \div 8 # (from + asked) \div 8
        /\ kind = "Memory" => window.sourceOffset = sourceSize

MemoryInv == (kind = "Memory" => 8 * capacity = sourceSize) /\ MemoryOK(window)

IInv == /\ SourceOK /\ WindowOK(window) /\ CallOK
        /\ ToldInv /\ MemoryInv /\ from \in Nat /\ LoopInv /\ ReadExactUnlessSplit

(* The bit that is read next.                                                  *)
LEMMA CursorType ==
    ASSUME SourceOK, WindowOK(window)
    PROVE  Cursor \in Nat
BY PositionType DEF Cursor, SourceOK

LEMMA ToldStep ==
    ASSUME SourceOK, WindowOK(window), ToldInv, [Next]_vars
    PROVE  ToldInv'
<1>1. CASE UNCHANGED told
  BY <1>1 DEF ToldInv
<1>2. CASE Tell
  BY <1>2, PositionType DEF Tell, ToldInv, Cursor, SourceOK
<1>. QED
  BY <1>1, <1>2 DEF Next, vars, PushBytes, Flush, IgnoreBytes, Seek, ReadBegin,
                    ReadBytes, ReadFinish

(* Between reads nothing is asked for, so that the last read is forgotten.     *)
LEMMA ForgottenRead ==
    ASSUME NoRead
    PROVE  from' \in Nat /\ LoopInv' /\ ReadExactUnlessSplit'
BY DEF NoRead, LoopInv, ReadExactUnlessSplit, ReadDone

(* A memory buffer is neither pushed to nor flushed.                           *)
LEMMA MemoryStep ==
    ASSUME SourceOK, WindowOK(window), CallOK, MemoryInv, [Next]_vars
    PROVE  MemoryInv'
<1>1. ASSUME NEW w, MemoryOK(w), window' = w, UNCHANGED <<kind, capacity, stream>>
      PROVE  MemoryInv'
  BY <1>1 DEF MemoryInv, MemoryOK, stream
<1>2. ASSUME NEW k \in 1..MaxPushed, PushBytes(k) \/ Flush(k) PROVE MemoryInv'
  BY <1>2 DEF PushBytes, Flush, Called, MemoryInv, MemoryOK
<1>3. ASSUME NEW k \in 1..MaxPushed, IgnoreBytes(k) PROVE MemoryInv'
  <2>1. Position(window) + 8 * k \in Int
    BY PositionType
  <2>. QED
    BY <1>1, <1>3, <2>1, SoughtWindow DEF IgnoreBytes, Called, MemoryInv
<1>4. CASE Tell
  BY <1>1, <1>4 DEF Tell, Called, MemoryInv
<1>5. ASSUME NEW p \in SeekTargets, Seek(p) PROVE MemoryInv'
  <2>1. CASE valid
    BY <1>1, <1>5, <2>1, SoughtWindow, InputAssumption DEF Seek, Called, MemoryInv
  <2>2. CASE ~valid
    BY <1>1, <1>5, <2>2 DEF Seek, Called, MemoryInv
  <2>. QED
    BY <2>1, <2>2
<1>6. ASSUME NEW n \in ReadSizes, ReadBegin(n) PROVE MemoryInv'
  <2>1. CASE UNCHANGED window
    BY <1>1, <1>6, <2>1 DEF ReadBegin, Called, MemoryInv
  <2>2. CASE ~NotEnoughBits(n) /\ n > 0
    <3>. DEFINE p == Position(window)
                w == Located(window, p)
                toAlign == (8 - (w.offset % 8)) % 8
                first == IF (p + n) \div 8 = p \div 8 THEN n ELSE toAlign
    <3>1. n \in Nat \ {0}
      BY <2>2, InputAssumption
    <3>2. WindowOK(w) /\ MemoryOK(w) /\ first \in Nat
      BY <2>2, <3>1, FirstBits DEF MemoryInv
    <3>3. window' = Advanced(w, first)
      BY <2>2, <1>6 DEF ReadBegin
    <3>. HIDE DEF p, w, first
    <3>. QED
      BY <1>1, <1>6, <3>2, <3>3, AdvancedWindow DEF ReadBegin, Called
  <2>. QED
    BY <1>6, <2>1, <2>2 DEF ReadBegin
<1>7. CASE ReadBytes
  <2>. DEFINE w == Located(window, Position(window))
              n == Lesser(w.size - w.offset, 8 * (remaining \div 8))
  <2>1. WindowOK(w) /\ MemoryOK(w)
    BY PositionType, LocatedWindow DEF MemoryInv
  <2>2. n \in Nat
    <3>1. w.size - w.offset \in Nat
      BY <2>1, WindowNumbers
    <3>2. 8 * (remaining \div 8) \in Nat
      BY Eights DEF CallOK
    <3>. HIDE DEF w
    <3>. QED
      BY <3>1, <3>2 DEF Lesser
  <2>3. window' = Advanced(w, n)
    BY <1>7 DEF ReadBytes
  <2>. HIDE DEF w, n
  <2>. QED
    BY <1>1, <1>7, <2>1, <2>2, <2>3, AdvancedWindow DEF ReadBytes
<1>8. CASE ReadFinish
  BY <1>1, <1>8, AdvancedWindow DEF ReadFinish, CallOK, MemoryInv
<1>9. CASE UNCHANGED vars
  BY <1>1, <1>9 DEF vars, MemoryInv
<1>. QED
  BY <1>2, <1>3, <1>4, <1>5, <1>6, <1>7, <1>8, <1>9 DEF Next

(* A read begins: it fails without moving, or has its first bits, and all of   *)
(* them if it stays inside a byte.                                             *)
LEMMA BegunReadInv ==
    ASSUME IInv, NEW n \in ReadSizes, ReadBegin(n)
    PROVE  from' \in Nat /\ LoopInv' /\ ReadExactUnlessSplit'
<1>1. n \in Nat /\ Position(window) \in Nat /\ Cursor \in Nat /\ flushed \in Nat
      /\ sourceSize \in Nat /\ Position(window) <= sourceSize
      /\ Cursor = 8 * flushed + Position(window)
  BY InputAssumption, PositionType, CursorType DEF IInv, SourceOK, Cursor
<1>2. from' = Cursor /\ asked' = n /\ flushed' = flushed /\ sourceSize' = sourceSize
      /\ kind' = kind
  BY DEF ReadBegin, Called, stream
<1>3. CASE NotEnoughBits(n)
  <2>1. /\ status' = "ResourceExhausted" /\ pc' = "idle" /\ output' = <<>>
        /\ window' = window
    BY <1>3 DEF ReadBegin
  <2>2. Cursor' = Cursor /\ Position(window)' + n > sourceSize'
    BY <1>2, <1>3, <2>1 DEF Cursor, NotEnoughBits
  <2>. QED
    BY <1>1, <1>2, <2>1, <2>2 DEF LoopInv, ReadExactUnlessSplit, ReadDone
<1>4. CASE n = 0
  BY <1>1, <1>2, <1>4 DEF ReadBegin, NotEnoughBits, LoopInv, ReadExactUnlessSplit, ReadDone
<1>5. CASE ~NotEnoughBits(n) /\ n > 0
  <2>. DEFINE p == Position(window)
              w == Located(window, p)
              toAlign == (8 - (w.offset % 8)) % 8
              first == IF (p + n) \div 8 = p \div 8 THEN n ELSE toAlign
  <2>1. /\ WindowOK(w) /\ Position(w) = p /\ w.offset < w.size
        /\ first \in 0..n /\ Readable(w, first) = first
        /\ (p + n) \div 8 # p \div 8 => (p + first) % 8 = 0
        /\ MemoryOK(w)
    BY <1>1, <1>5, FirstBits DEF IInv, MemoryInv
  <2>2. /\ output' = Bits(w, first) /\ window' = Advanced(w, first)
        /\ remaining' = n - first /\ status' = "Ok"
        /\ pc' = IF (p + n) \div 8 = p \div 8 THEN "idle" ELSE "bytes"
    BY <1>5 DEF ReadBegin
  <2>3. (p + n) \div 8 = p \div 8 => first = n
    OBVIOUS
  <2>4. p \in Nat /\ p + n <= sourceSize
    BY <1>1, <1>5 DEF NotEnoughBits
  <2>. HIDE DEF p, w, first
  <2>5. first \in Nat /\ first <= n
    BY <2>1, <1>1
  <2>6. output' = [i \in 1..first |-> 8 * flushed + p + i - 1]
    BY <1>1, <2>1, <2>2, <2>5, BitsExact
  <2>7. Position(window') = p + first /\ window'.sourceOffset = w.sourceOffset
    BY <2>1, <2>2, <2>5, AdvancedWindow
  <2>8. from' = 8 * flushed + p
    BY <1>1, <1>2 DEF p
  <2>9. Position(window)' = p + first /\ Cursor' = 8 * flushed + p + first
    BY <1>1, <1>2, <2>4, <2>5, <2>7 DEF Cursor, Position
  <2>10. (from' \div 8 = (from' + asked') \div 8) <=> (p \div 8 = (p + n) \div 8)
    <3>1. \A f \in Nat : (8 * f + p) \div 8 = f + (p \div 8)
                        /\ (8 * f + p + n) \div 8 = f + ((p + n) \div 8)
      BY <1>1, <2>4
    <3>. QED
      BY <1>1, <1>2, <2>4, <2>8, <3>1
  <2>11. CASE (p + n) \div 8 = p \div 8
    <3>1. pc' = "idle" /\ first = n
      BY <2>2, <2>3, <2>11
    <3>2. output' = [i \in 1..asked' |-> from' + i - 1]
      BY <1>2, <2>6, <2>8, <3>1
    <3>3. Cursor' = from' + asked' /\ from' \in Nat
      BY <1>1, <1>2, <2>4, <2>8, <2>9, <3>1
    <3>. QED
      BY <2>2, <3>1, <3>2, <3>3 DEF LoopInv, ReadExactUnlessSplit, ReadDone, Returned
  <2>12. CASE (p + n) \div 8 # p \div 8
    <3>1. pc' = "bytes" /\ asked' - remaining' = first
      BY <1>1, <1>2, <2>2, <2>5, <2>12
    <3>2. Cursor' % 8 = 0
      <4>1. (p + first) % 8 = 0 /\ p + first \in Int
        BY <2>1, <2>4, <2>5, <2>12
      <4>2. \A f \in Nat, x \in Int : x % 8 = 0 => (8 * f + x) % 8 = 0
        OBVIOUS
      <4>. QED
        BY <1>1, <2>4, <2>5, <2>9, <4>1, <4>2
    <3>3. kind' = "Memory" => window'.sourceOffset = sourceSize'
      <4>1. w.size # 0
        BY <2>1 DEF WindowOK
      <4>. QED
        BY <1>2, <2>1, <2>7, <4>1 DEF MemoryOK
    <3>4. from' \in Nat /\ LoopInv'
      <4>1. output' = [i \in 1..(asked' - remaining') |-> from' + i - 1]
        BY <2>6, <2>8, <3>1
      <4>2. Cursor' = from' + asked' - remaining' /\ from' \in Nat
        BY <1>1, <1>2, <2>2, <2>4, <2>5, <2>8, <2>9
      <4>3. Position(window)' + remaining' <= sourceSize' /\ remaining' <= asked'
        BY <1>1, <1>2, <2>2, <2>4, <2>5, <2>9
      <4>4. from' \div 8 # (from' + asked') \div 8
        BY <2>10, <2>12
      <4>. QED
        BY <1>2, <1>5, <2>2, <3>2, <3>3, <4>1, <4>2, <4>3, <4>4 DEF LoopInv
    <3>. QED
      BY <2>2, <3>1, <3>4 DEF ReadExactUnlessSplit, ReadDone
  <2>. QED
    BY <2>11, <2>12
<1>. QED
  BY <1>1, <1>3, <1>4, <1>5

(* What is gathered, and as many bits that follow it.                          *)
LEMMA GatheredBits ==
    ASSUME NEW f \in Nat, NEW a \in Nat, NEW k \in Nat
    PROVE  [i \in 1..a |-> f + i - 1] \o [i \in 1..k |-> f + a + i - 1]
              = [i \in 1..(a + k) |-> f + i - 1]
OBVIOUS

(* The position inside of the loop.                                            *)
LEMMA LoopPosition ==
    ASSUME IInv, pc = "bytes"
    PROVE  LET a == asked - remaining IN
           /\ a \in Nat /\ asked \in Nat /\ remaining \in Nat /\ from \in Nat
           /\ Position(window) \in Nat
           /\ 8 * flushed + Position(window) = from + a
           /\ flushed \in Nat /\ sourceSize \in Nat
BY PositionType DEF IInv, LoopInv, CallOK, SourceOK, Cursor

(* Whole bytes: as many as the window has, and no more than are asked for.     *)
LEMMA BytesReadInv ==
    ASSUME IInv, ReadBytes
    PROVE  from' \in Nat /\ LoopInv' /\ ReadExactUnlessSplit'
<1>. DEFINE p == Position(window)
            w == Located(window, p)
            n == Lesser(w.size - w.offset, 8 * (remaining \div 8))
            a == asked - remaining
<1>1. pc = "bytes" /\ remaining >= 8
  BY DEF ReadBytes
<1>2. /\ a \in Nat /\ asked \in Nat /\ remaining \in Nat /\ from \in Nat
      /\ p \in Nat /\ 8 * flushed + p = from + a /\ flushed \in Nat /\ sourceSize \in Nat
  BY <1>1, LoopPosition
<1>3. /\ output = [i \in 1..a |-> from + i - 1] /\ (from + a) % 8 = 0
      /\ p + remaining <= sourceSize /\ status = "Ok" /\ asked > 0
      /\ from \div 8 # (from + asked) \div 8
  BY <1>1, <1>2 DEF IInv, LoopInv
<1>4. /\ output' = output \o Bits(w, n) /\ window' = Advanced(w, n)
      /\ remaining' = remaining - n
      /\ UNCHANGED <<kind, capacity, sourceSize, flushed, status, pc, asked, from>>
  BY DEF ReadBytes, stream
<1>5. WindowOK(w) /\ MemoryOK(w) /\ Position(w) = p /\ w.offset < w.size
  BY <1>1, <1>2, <1>3, LocatedWindow DEF IInv, MemoryInv
<1>. HIDE DEF p, w
<1>6. /\ w.offset \in Nat /\ w.size \in Nat /\ w.size % 8 = 0 /\ w.sourceOffset \in Nat
      /\ w.sourceOffset % 8 = 0 /\ p = w.sourceOffset - w.size + w.offset
  BY <1>5 DEF WindowOK, Position
<1>7. w.offset % 8 = 0
  <2>1. PICK x \in Int, y \in Int, z \in Int :
           w.sourceOffset = 8 * x /\ w.size = 8 * y /\ from + a = 8 * z
    <3>1. w.sourceOffset \in Int /\ w.size \in Int /\ from + a \in Int
      BY <1>2, <1>6
    <3>2. /\ w.sourceOffset = 8 * (w.sourceOffset \div 8) /\ w.sourceOffset \div 8 \in Int
          /\ w.size = 8 * (w.size \div 8) /\ w.size \div 8 \in Int
          /\ from + a = 8 * ((from + a) \div 8) /\ (from + a) \div 8 \in Int
      BY <1>3, <1>6, <3>1, Eights
    <3>. HIDE DEF a
    <3>. QED
      BY <3>2
  <2>2. w.offset = 8 * (z - flushed - x + y)
    BY <1>2, <1>6, <2>1
  <2>3. z - flushed - x + y \in Int
    BY <1>2
  <2>. QED
    BY <2>2, <2>3, Eights
<1>8. n \in Nat /\ n <= remaining /\ n <= w.size - w.offset /\ n % 8 = 0
  <2>1. \A x, y \in Int : x % 8 = 0 /\ y % 8 = 0 => (x - y) % 8 = 0
    OBVIOUS
  <2>2. w.size - w.offset \in Nat /\ (w.size - w.offset) % 8 = 0
    BY <1>5, <1>6, <1>7, <2>1
  <2>3. /\ 8 * (remaining \div 8) \in Nat /\ 8 * (remaining \div 8) <= remaining
        /\ (8 * (remaining \div 8)) % 8 = 0
    BY <1>2, Eights
  <2>. QED
    BY <1>2, <2>2, <2>3 DEF Lesser
<1>. HIDE DEF n
<1>9. Readable(w, n) = n /\ Position(window') = p + n /\ window'.sourceOffset = w.sourceOffset
  BY <1>4, <1>5, <1>8, AdvancedWindow
<1>10. Bits(w, n) = [i \in 1..n |-> from + a + i - 1]
  <2>1. Bits(w, n) = [i \in 1..n |-> 8 * flushed + Position(w) + i - 1]
    <3>1. flushed \in Nat /\ n \in Nat /\ WindowOK(w) /\ Readable(w, n) = n
      BY <1>2, <1>5, <1>8, <1>9
    <3>. QED
      BY <3>1, BitsExact
  <2>2. 8 * flushed + Position(w) = from + a
    BY <1>2, <1>5
  <2>. QED
    BY <2>1, <2>2
<1>11. output' = [i \in 1..(a + n) |-> from + i - 1] /\ a + n = asked' - remaining'
  BY <1>2, <1>3, <1>4, <1>8, <1>10, GatheredBits
<1>12. Cursor' = from + a + n /\ Position(window)' = p + n
  BY <1>2, <1>4, <1>8, <1>9 DEF Cursor, Position
<1>13. Cursor' % 8 = 0
  <2>1. PICK x \in Int, y \in Int : from + a = 8 * x /\ n = 8 * y
    <3>1. from + a \in Int /\ n \in Int
      BY <1>2, <1>8
    <3>. QED
      BY <1>3, <1>8, <3>1, Eights
  <2>2. Cursor' = 8 * (x + y) /\ x + y \in Int
    BY <1>2, <1>8, <1>12, <2>1
  <2>. QED
    BY <2>2, Eights
<1>14. kind' = "Memory" => window'.sourceOffset = sourceSize'
  <2>1. w.size # 0
    <3>1. w.offset < w.size /\ w.offset \in Nat
      BY <1>5, <1>6
    <3>. QED
      BY <3>1
  <2>. QED
    BY <1>4, <1>5, <1>9, <2>1 DEF MemoryOK
<1>15. LoopInv'
  <2>1. Cursor' = from' + asked' - remaining'
    BY <1>2, <1>4, <1>8, <1>12
  <2>2. Position(window)' + remaining' <= sourceSize' /\ remaining' <= asked'
    BY <1>2, <1>3, <1>4, <1>8, <1>12
  <2>3. output' = [i \in 1..(asked' - remaining') |-> from' + i - 1]
    BY <1>4, <1>11
  <2>. QED
    BY <1>3, <1>4, <1>13, <1>14, <2>1, <2>2, <2>3 DEF LoopInv
<1>. QED
  BY <1>1, <1>2, <1>3, <1>4, <1>15 DEF ReadExactUnlessSplit, ReadDone

(* The last bits: there are none when the read ends on a byte boundary; else   *)
(* all of them are in the window, or it ends in front of their byte.           *)
LEMMA FinishedReadInv ==
    ASSUME IInv, ReadFinish
    PROVE  from' \in Nat /\ LoopInv' /\ ReadExactUnlessSplit'
<1>. DEFINE a == asked - remaining
            p == Position(window)
<1>1. pc = "bytes" /\ remaining < 8
  BY DEF ReadFinish
<1>2. /\ a \in Nat /\ asked \in Nat /\ remaining \in Nat /\ from \in Nat
      /\ p \in Nat /\ 8 * flushed + p = from + a /\ flushed \in Nat /\ sourceSize \in Nat
  BY <1>1, LoopPosition
<1>3. /\ output = [i \in 1..a |-> from + i - 1] /\ (from + a) % 8 = 0
      /\ p + remaining <= sourceSize /\ status = "Ok" /\ asked > 0
      /\ from \div 8 # (from + asked) \div 8
      /\ kind = "Memory" => window.sourceOffset = sourceSize
  BY <1>1, <1>2 DEF IInv, LoopInv
<1>4. /\ output' = output \o Bits(window, remaining)
      /\ window' = Advanced(window, remaining) /\ remaining' = 0 /\ pc' = "idle"
      /\ UNCHANGED <<kind, capacity, sourceSize, flushed, status, asked, from>>
  BY DEF ReadFinish, stream
<1>5. WindowOK(window)
  BY DEF IInv
<1>6. remaining = (from + asked) % 8
  <2>1. \A x \in Int, r \in 0..7 : x % 8 = 0 => (x + r) % 8 = r
    OBVIOUS
  <2>2. from + asked = (from + a) + remaining /\ remaining \in 0..7 /\ from + a \in Int
    BY <1>1, <1>2
  <2>. QED
    BY <1>3, <2>1, <2>2
<1>7. /\ window.size \in Nat /\ window.offset \in Nat /\ window.offset <= window.size
      /\ window.sourceOffset \in Nat /\ p = window.sourceOffset - window.size + window.offset
      /\ window.size % 8 = 0 /\ window.sourceOffset % 8 = 0
  BY <1>5, WindowNumbers DEF Position
<1>8. CASE remaining <= window.size - window.offset
  <2>1. Readable(window, remaining) = remaining /\ Position(window') = p + remaining
    BY <1>2, <1>4, <1>5, <1>8, AdvancedWindow
  <2>2. Bits(window, remaining) = [i \in 1..remaining |-> from + a + i - 1]
    <3>1. Bits(window, remaining) = [i \in 1..remaining |-> 8 * flushed + p + i - 1]
      BY <1>2, <1>5, <2>1, BitsExact
    <3>. QED
      BY <1>2, <3>1
  <2>3. output' = [i \in 1..asked' |-> from' + i - 1]
    BY <1>2, <1>3, <1>4, <2>2, GatheredBits
  <2>4. Cursor' = from' + asked'
    <3>1. Position(window)' = p + remaining
      BY <2>1 DEF Position
    <3>2. Cursor' = 8 * flushed + p + remaining
      BY <1>2, <1>4, <3>1 DEF Cursor
    <3>. HIDE DEF p
    <3>. QED
      BY <1>2, <1>4, <3>2
  <2>. QED
    BY <1>2, <1>3, <1>4, <2>3, <2>4 DEF LoopInv, ReadExactUnlessSplit, Returned
<1>9. CASE ~(remaining <= window.size - window.offset)
  (* Both ends of the window lie on the edge of a byte, and so does the        *)
  (* position: less than a byte is left, which is nothing.                     *)
  <2>1. window.offset = window.size
    <3>2. PICK x \in Int, y \in Int, z \in Int :
             window.sourceOffset = 8 * x /\ window.size = 8 * y /\ from + a = 8 * z
      <4>1. window.sourceOffset \in Int /\ window.size \in Int /\ from + a \in Int
        BY <1>2, <1>7
      <4>2. /\ window.sourceOffset = 8 * (window.sourceOffset \div 8)
            /\ window.sourceOffset \div 8 \in Int
            /\ window.size = 8 * (window.size \div 8) /\ window.size \div 8 \in Int
            /\ from + a = 8 * ((from + a) \div 8) /\ (from + a) \div 8 \in Int
        BY <1>3, <1>7, <4>1, Eights
      <4>. HIDE DEF a
      <4>. QED
        BY <4>2
    <3>3. window.size - window.offset = 8 * (x - z + flushed)
      <4>. HIDE DEF a, p
      <4>1. window.size - window.offset = window.sourceOffset - p
        BY <1>2, <1>7
      <4>2. p = 8 * z - 8 * flushed
        BY <1>2, <3>2
      <4>. QED
        BY <1>2, <3>2, <4>1, <4>2
    <3>4. 0 <= window.size - window.offset /\ window.size - window.offset < 8
      BY <1>1, <1>2, <1>7, <1>9
    <3>. HIDE DEF a, p
    <3>. QED
      BY <1>2, <1>7, <3>2, <3>3, <3>4
  <2>2. Readable(window, remaining) = 0
    BY <1>2, <1>7, <2>1 DEF Readable, Lesser
  <2>3. output' = output
    <3>1. Bits(window, remaining) = << >>
      BY <2>2 DEF Bits
    <3>. QED
      BY <1>2, <1>3, <1>4, <3>1
  <2>4. window' = window
    <3>1. window' = [window EXCEPT !.offset = @ + 0]
      BY <1>4, <2>2 DEF Advanced
    <3>. QED
      BY <1>5, <1>7, <3>1, WindowRecord
  <2>5. a = asked' - ((from' + asked') % 8)
    BY <1>2, <1>4, <1>6
  <2>6. Returned(asked - ((from + asked) % 8))'
    <3>1. Cursor' = from' + a
      BY <1>2, <1>4, <2>4 DEF Cursor, Position
    <3>2. output' = [i \in 1..a |-> from' + i - 1]
      BY <1>3, <1>4, <2>3
    <3>. QED
      BY <2>5, <3>1, <3>2 DEF Returned
  <2>7. LastByteSplit'
    <3>1. kind # "Memory"
      <4>1. ASSUME kind = "Memory" PROVE FALSE
        <5>1. window.sourceOffset = sourceSize /\ p + remaining <= sourceSize
          BY <1>3, <4>1
        <5>2. p = window.sourceOffset /\ remaining > 0
          BY <1>2, <1>7, <1>9, <2>1
        <5>. HIDE DEF p
        <5>. QED
          BY <1>2, <5>1, <5>2
      <4>. QED
        BY <4>1
    <3>2. from + asked - ((from + asked) % 8) = 8 * flushed + window.sourceOffset
      <4>1. from + a = 8 * flushed + window.sourceOffset
        BY <1>2, <1>7, <2>1
      <4>2. from + asked - ((from + asked) % 8) = from + a
        BY <1>2, <1>6
      <4>. QED
        BY <4>1, <4>2
    <3>. QED
      BY <1>3, <1>4, <2>4, <3>1, <3>2 DEF LastByteSplit
  <2>. QED
    BY <1>2, <1>3, <1>4, <2>6, <2>7 DEF LoopInv, ReadExactUnlessSplit
<1>. QED
  BY <1>8, <1>9

(* A call that is not a read forgets the last one, and the loop keeps what it  *)
(* has.                                                                        *)
LEMMA ReadInvStep ==
    ASSUME IInv, [Next]_vars
    PROVE  from' \in Nat /\ LoopInv' /\ ReadExactUnlessSplit'
<1>1. CASE NoRead
  BY <1>1, ForgottenRead
<1>2. ASSUME NEW n \in ReadSizes, ReadBegin(n)
      PROVE  from' \in Nat /\ LoopInv' /\ ReadExactUnlessSplit'
  BY <1>2, BegunReadInv
<1>3. CASE ReadBytes
  BY <1>3, BytesReadInv
<1>4. CASE ReadFinish
  BY <1>4, FinishedReadInv
<1>5. CASE UNCHANGED vars
  BY <1>5 DEF IInv, vars, read, stream, LoopInv, ReadExactUnlessSplit, ReadDone, Returned,
                   LastByteSplit, Cursor, Position
<1>. QED
  BY <1>1, <1>2, <1>3, <1>4, <1>5 DEF Next, PushBytes, Flush, IgnoreBytes, Tell, Seek

(* The invariant, for every kind of buffer.                                    *)
LEMMA Invariance == Spec => []IInv
<1>1. Init => IInv
  <2>. SUFFICES ASSUME Init PROVE IInv
    OBVIOUS
  <2>1. ToldInv /\ from \in Nat /\ LoopInv /\ ReadExactUnlessSplit
    BY DEF Init, ToldInv, LoopInv, ReadExactUnlessSplit, ReadDone
  <2>2. MemoryInv
    BY DEF Init, MemoryInv, MemoryOK
  <2>. QED
    BY <2>1, <2>2, InitialParts DEF IInv
<1>2. IInv /\ [Next]_vars => IInv'
  BY PartsStep, ToldStep, MemoryStep, ReadInvStep DEF IInv
<1>. QED
  BY <1>1, <1>2, PTL DEF Spec

(* A read that succeeds returns the bits behind the position, all of them and  *)
(* in order, except that it may stop in front of its last byte, if it ends     *)
(* inside of that and that is the first one behind the window of a file or a   *)
(* stream.  One that finds too few bits moves nothing.                         *)
THEOREM ReadsAreExact == Spec => []ReadExactUnlessSplit
BY Invariance, PTL DEF IInv

(* Moving the source around never changes the bit that is read next, and Seek  *)
(* returns to where Tell was, as long as nothing was flushed in between.       *)
THEOREM RewindingIsExact == Spec => SeekReturnsToTold
<1>1. IInv /\ [Next]_vars =>
         [/\ sourceSize' # sourceSize \/ flushed' # flushed => Cursor' = Cursor
          /\ \A p \in SeekTargets :
                Seek(p) /\ status' = "Ok" /\ p = told.position /\ flushed = told.flushed
                   => Cursor' = told.bit]_vars
  <2>. SUFFICES ASSUME IInv, [Next]_vars
                PROVE  /\ sourceSize' # sourceSize \/ flushed' # flushed => Cursor' = Cursor
                       /\ \A p \in SeekTargets :
                             Seek(p) /\ status' = "Ok" /\ p = told.position
                                     /\ flushed = told.flushed => Cursor' = told.bit
    OBVIOUS
  <2>1. /\ sourceSize \in Nat /\ flushed \in Nat /\ Position(window) \in Nat
        /\ window.sourceOffset \in Nat /\ window.size \in Nat /\ window.offset \in Nat
    BY PositionType DEF IInv, SourceOK, WindowOK
  <2>2. ASSUME NEW k \in 1..MaxPushed, PushBytes(k) PROVE Cursor' = Cursor
    BY <2>2 DEF PushBytes, stream, Cursor, Position
  <2>3. ASSUME NEW k \in 1..MaxPushed, Flush(k) PROVE Cursor' = Cursor
    <3>1. CASE UNCHANGED <<stream, window, valid>>
      BY <3>1 DEF stream, Cursor, Position
    <3>2. CASE flushed' = flushed + k /\ window' = WindowAfterFlush(k)
      <4>1. /\ window'.size = window.size /\ window'.offset = window.offset
            /\ window'.sourceOffset = window.sourceOffset - 8 * k
        BY <3>2 DEF WindowAfterFlush, IInv, WindowOK
      <4>. QED
        BY <2>1, <3>2, <4>1 DEF Cursor, Position
    <3>. QED
      BY <2>3, <3>1, <3>2 DEF Flush
  <2>4. sourceSize' # sourceSize \/ flushed' # flushed => Cursor' = Cursor
    BY <2>2, <2>3 DEF Next, vars, stream, Tell, IgnoreBytes, Seek, ReadBegin, ReadBytes,
                      ReadFinish
  <2>5. ASSUME NEW p \in SeekTargets, Seek(p), status' = "Ok", p = told.position,
               flushed = told.flushed
        PROVE  Cursor' = told.bit
    <3>1. valid /\ SeekStatus(p) = "Ok" /\ window' = Sought(p) /\ flushed' = flushed
      BY <2>5 DEF Seek, stream
    <3>2. Position(Sought(p)) = p
      BY <3>1, SoughtWindow, InputAssumption DEF IInv
    <3>3. Position(window)' = p
      BY <3>1, <3>2 DEF Position
    <3>. QED
      BY <2>1, <2>5, <3>1, <3>3 DEF Cursor, IInv, ToldInv
  <2>. QED
    BY <2>4, <2>5
<1>. QED
  BY <1>1, Invariance, PTL DEF Spec, SeekReturnsToTold
===============================================================================
