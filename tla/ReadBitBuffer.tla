----------------------------- MODULE ReadBitBuffer ----------------------------
(* The read buffer every OBU is parsed from: iamf/common/read_bit_buffer.cc.   *)
(* A window of at most Capacity bytes is copied from a source which, for the   *)
(* stream-based class, grows by PushBytes and loses its front by Flush.        *)
(*                                                                             *)
(* Bytes are their own identity: byte k is the k-th byte ever pushed, and bit  *)
(* j of byte k is the number 8 * k + j.  What a read returns is the sequence   *)
(* of the bits it gathered, so that a wrong, missing or repeated bit shows.    *)
(* A read of several bytes goes through the loop of                            *)
(* ReadUnsignedLiteralInternal one iteration per step.                         *)
EXTENDS Integers, Sequences

CONSTANTS
    Kinds,          \* the derived classes: "Memory", "File", "Stream"
    Capacities,     \* the sizes of the window, in bytes
    InitialBytes,   \* bytes in a memory or file source
    MaxSourceBytes, \* max_source_size_bits_ / 8 of the stream-based class
    MaxPushed,      \* bound on the bytes ever pushed
    ReadSizes,      \* bound on the sizes of reads, in bits
    SeekTargets     \* bound on the positions passed to Seek, in bits

ASSUME KindsAssumption == Kinds \subseteq {"Memory", "File", "Stream"}
ASSUME CapacityAssumption == Capacities \subseteq Nat \ {0}
ASSUME SourceAssumption == InitialBytes \in Nat \ {0} /\ MaxSourceBytes \in Nat
ASSUME InputAssumption == ReadSizes \subseteq 0..64 /\ SeekTargets \subseteq Int

VARIABLES
    kind,       \* which derived class this is
    capacity,   \* bit_buffer_.capacity(): the whole source for a memory buffer
    source,     \* source_vector_, from index 0
    sourceSize, \* source_size_bits_
    window,     \* bit_buffer_, buffer_size_bits_, buffer_bit_offset_ and
                \* source_bit_offset_: [bytes, size, offset, sourceOffset]
    valid,      \* is_position_valid_
    status,     \* the status of the last call
    pc,         \* "idle", or "bytes" in the loop of a read
    asked,      \* num_bits of the read
    remaining,  \* remaining_bits_to_read
    output,     \* the bits gathered by the read
    flushed,    \* history: bytes flushed since the creation
    from,       \* history: the bit the last read started at
    told        \* history: what the last Tell designated: [position, bit, flushed]

stream == <<source, sourceSize, flushed>>
read == <<pc, asked, remaining, output, from>>
vars == <<kind, capacity, stream, window, valid, status, read, told>>

Lesser(a, b) == IF a <= b THEN a ELSE b
-------------------------------------------------------------------------------
(* Tell(): the position, in bits from the front of the source.                 *)
Position(w) == w.sourceOffset - w.size + w.offset
(* The bit at that position, whatever was flushed before.                      *)
Cursor == 8 * flushed + Position(window)

(* Does the window hold the position?                                          *)
Holds(w, p) == w.sourceOffset - w.size <= p /\ p < w.sourceOffset

(* The bytes of the source that fit in a window from byte `start` on.          *)
Fitting(start) == Lesser(capacity, (sourceSize \div 8) - start)

(* Faulty variants, named after what they get wrong, are stated just before    *)
(* the definition they vary.                                                   *)
LoadedAtByte(p) ==
    LET start == p \div 8
        n == Fitting(start)
    IN [bytes |-> [i \in 0..(n - 1) |-> source[start + i]],
        size |-> 8 * n, offset |-> 0, sourceOffset |-> 8 * (start + n)]
LoadedFromFront(p) ==
    LET start == p \div 8
        n == Fitting(start)
    IN [bytes |-> [i \in 0..(n - 1) |-> source[i]],
        size |-> 8 * n, offset |-> p % 8, sourceOffset |-> 8 * (start + n)]

(* A window loaded from the byte the position is in.                           *)
Loaded(p) ==
    LET start == p \div 8
        n == Fitting(start)
    IN [bytes |-> [i \in 0..(n - 1) |-> source[start + i]],
        size |-> 8 * n, offset |-> p % 8, sourceOffset |-> 8 * (start + n)]

(* The window after a Seek to a legal position.                                *)
Located(w, p) == IF Holds(w, p)
                 THEN [w EXCEPT !.offset = p - (w.sourceOffset - w.size)]
                 ELSE Loaded(p)

(* The outcome of Seek(position) in a valid state.                             *)
SeekStatus(p) == IF p < 0 THEN "InvalidArgument"
                 ELSE IF p > sourceSize THEN "ResourceExhausted" ELSE "Ok"

Sought(p) == IF SeekStatus(p) = "Ok" THEN Located(window, p) ELSE window

(* ReadUnsignedLiteralBits and ReadUnsignedLiteralBytes: at most k bits, and   *)
(* not beyond the end of the window.                                           *)
Readable(w, k) == Lesser(k, w.size - w.offset)
BitAt(w, o) == 8 * w.bytes[o \div 8] + (o % 8)
Bits(w, k) == [i \in 1..Readable(w, k) |-> BitAt(w, w.offset + i - 1)]

Advanced(w, k) == [w EXCEPT !.offset = @ + Readable(w, k)]

(* NumBytesAvailable(); its two ABSL_CHECKs are in PositionInSource.          *)
NumBytesAvailable == ((sourceSize - window.sourceOffset) \div 8)
                     + ((window.size - window.offset) \div 8)
-------------------------------------------------------------------------------
(* A public method that is not a read is called.                               *)
Called == pc = "idle" /\ UNCHANGED <<kind, capacity>>

NoRead == /\ asked' = 0 /\ remaining' = 0 /\ output' = <<>>
          /\ from' = 0 /\ pc' = "idle"

Init == /\ kind \in Kinds
        /\ capacity \in IF kind = "Memory" THEN {InitialBytes} ELSE Capacities
        /\ sourceSize = IF kind = "Stream" THEN 0 ELSE 8 * InitialBytes
        /\ source = [i \in 0..((sourceSize \div 8) - 1) |-> i]
        /\ window = [bytes |-> [i \in 0..-1 |-> i], size |-> 0, offset |-> 0,
                     sourceOffset |-> 0]
        /\ valid \in BOOLEAN                     \* the constructor leaves it out
        /\ status = "Ok"
        /\ pc = "idle" /\ asked = 0 /\ remaining = 0 /\ output = <<>> /\ from = 0
        /\ flushed = 0
        /\ told = [position |-> -1, bit |-> -1, flushed |-> 0]

(* PushBytes: k more bytes, unless they do not fit.                            *)
PushBytes(k) ==
    /\ Called /\ kind = "Stream"
    /\ flushed + (sourceSize \div 8) + k <= MaxPushed                   \* bound
    /\ IF k > MaxSourceBytes - (sourceSize \div 8)
       THEN status' = "InvalidArgument" /\ UNCHANGED stream
       ELSE LET n == sourceSize \div 8 IN
            /\ source' = [i \in 0..(n + k - 1) |->
                             IF i < n THEN source[i] ELSE flushed + i]
            /\ sourceSize' = sourceSize + 8 * k
            /\ status' = "Ok"
            /\ UNCHANGED flushed
    /\ NoRead
    /\ UNCHANGED <<window, valid, told>>

(* source_bit_offset_ -= num_bytes * 8; the bytes in the window stay.          *)
WindowAfterFlush(n) == [window EXCEPT !.sourceOffset = @ - 8 * n]

SourceWithoutBack(n) == [i \in 0..((sourceSize \div 8) - n - 1) |-> source[i]]

(* source_vector_.erase(begin, begin + num_bytes)                              *)
SourceAfterFlush(n) == [i \in 0..((sourceSize \div 8) - n - 1) |-> source[i + n]]

(* Flush: callers drop what they have read (IamfDecoder flushes Tell() / 8).   *)
Flush(n) ==
    /\ Called /\ kind = "Stream"
    /\ \/ /\ 8 * n > sourceSize
          /\ status' = "InvalidArgument"
          /\ UNCHANGED <<stream, window, valid>>
       \/ /\ 8 * n <= Position(window)
          /\ source' = SourceAfterFlush(n)
          /\ sourceSize' = sourceSize - 8 * n
          /\ flushed' = flushed + n
          /\ window' = WindowAfterFlush(n)
          /\ valid' = FALSE
          /\ status' = "Ok"
    /\ NoRead
    /\ UNCHANGED told

Tell ==
    /\ Called
    /\ valid' = TRUE
    /\ told' = [position |-> Position(window), bit |-> Cursor,
                flushed |-> flushed]
    /\ NoRead
    /\ UNCHANGED <<stream, window, status>>

Seek(p) ==
    /\ Called
    /\ IF valid
       THEN status' = SeekStatus(p) /\ window' = Sought(p)
       ELSE status' = "FailedPrecondition" /\ UNCHANGED window
    /\ NoRead
    /\ UNCHANGED <<stream, valid, told>>

(* IgnoreBytes: Seek(Tell() + 8 * k), so that the position is valid again.     *)
IgnoreBytes(k) ==
    /\ Called
    /\ valid' = TRUE
    /\ status' = SeekStatus(Position(window) + 8 * k)
    /\ window' = Sought(Position(window) + 8 * k)
    /\ NoRead
    /\ UNCHANGED <<stream, told>>

NotEnoughBits(n) == Position(window) + n > sourceSize

(* ReadUnsignedLiteral, up to its loop.  A negative size or one above the      *)
(* width of the result fails before anything happens and is left out.          *)
ReadBegin(n) ==
    /\ Called
    /\ valid' = TRUE
    /\ asked' = n
    /\ from' = Cursor
    /\ UNCHANGED <<stream, told>>
    /\ \/ /\ NotEnoughBits(n)
          /\ status' = "ResourceExhausted"
          /\ pc' = "idle" /\ output' = <<>> /\ remaining' = n
          /\ UNCHANGED window
       \/ /\ ~NotEnoughBits(n) /\ n = 0
          /\ status' = "Ok"
          /\ pc' = "idle" /\ output' = <<>> /\ remaining' = 0
          /\ UNCHANGED window
       \/ /\ ~NotEnoughBits(n) /\ n > 0
          /\ status' = "Ok"
          /\ LET p == Position(window)
                 w == Located(window, p)
                 toAlign == (8 - (w.offset % 8)) % 8
                 first == IF (p + n) \div 8 = p \div 8 THEN n ELSE toAlign
             IN /\ output' = Bits(w, first)
                /\ window' = Advanced(w, first)
                /\ remaining' = n - first
                /\ pc' = IF (p + n) \div 8 = p \div 8 THEN "idle" ELSE "bytes"

(* One iteration of "Read consecutive complete bytes".                         *)
ReadBytes ==
    /\ pc = "bytes" /\ remaining >= 8
    /\ LET w == Located(window, Position(window))
           n == Lesser(w.size - w.offset, 8 * (remaining \div 8))
       IN /\ output' = output \o Bits(w, n)
          /\ window' = Advanced(w, n)
          /\ remaining' = remaining - n
    /\ UNCHANGED <<kind, capacity, stream, valid, status, pc, asked, from, told>>

(* "Read the final several bits in the last byte": the count of remaining bits *)
(* is settled before the bits are read, and the window is not reloaded.        *)
ReadFinish ==
    /\ pc = "bytes" /\ remaining < 8
    /\ output' = output \o Bits(window, remaining)
    /\ window' = Advanced(window, remaining)
    /\ remaining' = 0
    /\ pc' = "idle"
    /\ UNCHANGED <<kind, capacity, stream, valid, status, asked, from, told>>

Next == \/ \E k \in 1..MaxPushed : PushBytes(k) \/ Flush(k) \/ IgnoreBytes(k)
        \/ Tell
        \/ \E p \in SeekTargets : Seek(p)
        \/ \E n \in ReadSizes : ReadBegin(n)
        \/ ReadBytes
        \/ ReadFinish

Spec == Init /\ [][Next]_vars
-------------------------------------------------------------------------------
(* Every variable keeps its type, and the four offsets the relation between    *)
(* them that the arithmetic of Tell and Seek takes for granted.                *)
TypeOK ==
    /\ kind \in Kinds /\ capacity \in Nat \ {0}
    /\ sourceSize \in Nat /\ sourceSize % 8 = 0
    /\ source \in [0..((sourceSize \div 8) - 1) -> Nat]
    /\ window.size \in Nat /\ window.size % 8 = 0 /\ window.size <= 8 * capacity
    /\ window.bytes \in [0..((window.size \div 8) - 1) -> Nat]
    /\ window = [bytes |-> window.bytes, size |-> window.size,
                 offset |-> window.offset, sourceOffset |-> window.sourceOffset]
    /\ window.offset \in Nat
    /\ window.sourceOffset \in Nat /\ window.sourceOffset % 8 = 0
    /\ valid \in BOOLEAN
    /\ status \in {"Ok", "ResourceExhausted", "InvalidArgument", "FailedPrecondition"}
    /\ pc \in {"idle", "bytes"}
    /\ asked \in Nat /\ remaining \in Nat
    /\ flushed \in Nat

(* The two ABSL_CHECKs of NumBytesAvailable hold in every reachable state, and *)
(* what it returns is the number of bytes behind the reading position, however *)
(* they are split between the window and the source.                           *)
PositionInSource ==
    /\ 0 <= window.sourceOffset /\ window.sourceOffset <= sourceSize
    /\ 0 <= window.offset /\ window.offset <= window.size
    /\ 0 <= Position(window)
    /\ NumBytesAvailable = (sourceSize - Position(window)) \div 8

(* Coherence: the position is one of the source, and after any pushes and      *)
(* flushes the source holds the bytes behind the flushed ones, and the window  *)
(* those in front of source_bit_offset_ (some may be flushed already).         *)
Coherent ==
    /\ TypeOK /\ PositionInSource
    /\ \A i \in 0..((sourceSize \div 8) - 1) : source[i] = flushed + i
    /\ \A i \in 0..((window.size \div 8) - 1) :
          window.bytes[i] = flushed + ((window.sourceOffset - window.size) \div 8) + i

ReadDone == pc = "idle" /\ asked > 0 /\ status = "Ok"

(* The bits behind the position, up to n of them, and no other were returned.  *)
Returned(n) == /\ output = [i \in 1..n |-> from + i - 1]
               /\ Cursor = from + n

(* A read that succeeds returns the bits that follow the position, all of them *)
(* and in order, and leaves the position behind the last one                   *)
(* (read_bit_buffer.h: "Reads upper `num_bits` from buffer").                  *)
ReadExact == ReadDone => Returned(asked)

(* The read ends inside a byte which is not the one it began in, but the first *)
(* one behind the window.                                                      *)
LastByteSplit ==
    /\ kind # "Memory" /\ from \div 8 # (from + asked) \div 8
    /\ from + asked - ((from + asked) % 8) = 8 * flushed + window.sourceOffset

(* The same, but for a read that is split like this: it may lose the bits of   *)
(* its last byte, and then its position is in front of that byte; nothing else *)
(* is lost, repeated or wrong.  A read that ends early, because the source has *)
(* not enough bits, moves nothing: it can be repeated when more bytes were     *)
(* pushed.                                                                     *)
ReadExactUnlessSplit ==
    /\ ReadDone => \/ Returned(asked)
                   \/ LastByteSplit /\ Returned(asked - ((from + asked) % 8))
    /\ status = "ResourceExhausted" /\ asked > 0 =>
          /\ Cursor = from /\ output = <<>>
          /\ Position(window) + asked > sourceSize

(* A position that Tell returned is reached again by Seek, for as long as      *)
(* nothing was flushed since: the rewinding that the OBU parsers rely on.  And *)
(* none is lost or gained by moving the source around: pushing bytes and       *)
(* flushing them never change the bit that is read next.                       *)
SeekReturnsToTold ==
    [][/\ sourceSize' # sourceSize \/ flushed' # flushed => Cursor' = Cursor
       /\ \A p \in SeekTargets :
          Seek(p) /\ status' = "Ok" /\ p = told.position /\ flushed = told.flushed
              => Cursor' = told.bit]_vars
===============================================================================
