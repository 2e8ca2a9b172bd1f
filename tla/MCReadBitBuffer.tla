---------------------------- MODULE MCReadBitBuffer ---------------------------
(* Small instances of ReadBitBuffer: reads inside a byte, of whole bytes and   *)
(* of more than a byte that end inside one, and positions before, inside, on   *)
(* the edges of and behind a source of a few bytes.                            *)
EXTENDS ReadBitBuffer

MCReadSizes == {0, 3, 8, 12, 16}
MCSeekTargets == {-1, 0, 8, 13, 24, 40}
===============================================================================
