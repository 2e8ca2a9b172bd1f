---------------------------- MODULE MCObuProcessor ----------------------------
(* Small instances of ObuProcessor: two substreams, one parameter.             *)
EXTENDS ObuProcessor, FiniteSets

O(type, id, redundant) ==
    [type |-> type, id |-> id, redundant |-> redundant,
     duration |-> IF type = "ParameterBlock" THEN FrameSize ELSE 0]
Frame(s) == O("AudioFrame", s, FALSE)
Block(p) == O("ParameterBlock", p, FALSE)
Delimiter == O("TemporalDelimiter", 0, FALSE)
Stray == O("AudioFrame", 9, FALSE)
Reserved == O("Reserved", 0, FALSE)

(* Temporal units: a delimiter or none, a parameter block or none, the frames  *)
(* of the substreams in any order, and an OBU of no use among them.            *)
Prefixes == {<<>>, <<Delimiter>>} 
Frames == {<<Frame(1), Frame(2)>>, <<Frame(2), Frame(1)>>,
           <<Reserved, Frame(1), Stray, Frame(2)>>}
Blocks == {<<>>, <<Block(7)>>}

Regular(us) ==
    [obus |-> us[1] \o us[2] \o us[3],
     ends |-> <<Len(us[1]), Len(us[1]) + Len(us[2]),
                Len(us[1]) + Len(us[2]) + Len(us[3])>>,
     regular |-> TRUE]
RegularStreams ==
    {Regular([i \in 1..3 |-> d \o b \o f[i]]) :
        d \in Prefixes, b \in Blocks, f \in [1..3 -> Frames]}

(* Arbitrary streams: delimiters, blocks and frames in any order, missing and  *)
(* repeated, and what else may follow them.                                    *)
Anything == {Frame(1), Frame(2), Block(7), Delimiter}
Others == {Frame(1), Frame(2), O("Descriptor", 0, TRUE), O("Descriptor", 0, FALSE),
           O("IaSequenceHeader", 0, FALSE)}
ArbitraryStreams ==
    {[obus |-> a \o b, ends |-> <<>>, regular |-> FALSE] :
        a \in [1..3 -> Anything], b \in [1..2 -> Others]}

MCStreams == RegularStreams \union ArbitraryStreams
===============================================================================
