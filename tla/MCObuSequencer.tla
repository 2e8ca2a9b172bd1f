---------------------------- MODULE MCObuSequencer ----------------------------
(* Small instances of ObuSequencer.                                            *)
EXTENDS ObuSequencer

(* Frames of 4 samples: fully trimmed, half trimmed and untrimmed at the       *)
(* start, and one whose serialisation fails.                                   *)
Unit(id, trim, writable) ==
    [id |-> id, start |-> 4 * id, trim |-> trim, untrimmed |-> 4 - trim,
     writable |-> writable]

MCUnits == {Unit(1, 4, TRUE), Unit(2, 2, TRUE), Unit(3, 0, TRUE), Unit(4, 0, FALSE)}

Block(obus, size, statistics) ==
    [obus |-> obus, size |-> size, statistics |-> statistics]

(* The original descriptors, the same with new loudness, a larger version, a   *)
(* version with another sample rate, and one that does not serialise.          *)
MCDescriptors == {Block("original", 10, 48000), Block("finalized", 10, 48000),
                  Block("larger", 12, 48000), Block("resampled", 10, 44100),
                  Block("broken", 10, Unusable)}
===============================================================================
