---------------------------- MODULE MCIamfDecoder -----------------------------
(* Small instances of IamfDecoder: two substreams, one of which is in the mix  *)
(* that is rendered, and one parameter.                                        *)
EXTENDS IamfDecoder

O(type, id, duration) ==
    [type |-> type, id |-> id, duration |-> duration, redundant |-> FALSE]
Frame(s, left) == O("AudioFrame", s, left)
Block == O("ParameterBlock", 7, FrameSize)
Delimiter == O("TemporalDelimiter", 0, 0)

(* Three units; the first of them may be trimmed completely (codec delay).     *)
Unit(start, left) == start \o <<Frame(1, left), Frame(2, left)>>
Starts == {<<>>, <<Delimiter>>, <<Block>>, <<Delimiter, Block>>}
Regular(start, left) ==
    [obus |-> Unit(start, left) \o Unit(start, FrameSize) \o Unit(start, FrameSize),
     ends |-> [i \in 1..3 |-> i * (Len(start) + 2)],
     regular |-> TRUE]

(* A descriptor in the middle; a unit without a frame of the mix; a block and  *)
(* no frame at the end; a second IA Sequence.                                  *)
Irregular(obus) == [obus |-> obus, ends |-> <<>>, regular |-> FALSE]
IrregularStreams ==
    {Irregular(Unit(<<>>, FrameSize) \o <<O("Descriptor", 0, 0)>> \o Unit(<<>>, FrameSize)),
     Irregular(<<Delimiter, Frame(2, FrameSize), Delimiter, Delimiter, Frame(1, FrameSize)>>),
     Irregular(Unit(<<Block>>, FrameSize) \o <<Block>>),
     Irregular(Unit(<<>>, FrameSize) \o <<O("IaSequenceHeader", 0, 0)>>)}

MCStreams == {Regular(start, left) : start \in Starts, left \in {0, FrameSize}}
             \union IrregularStreams
===============================================================================
