------------------------ MODULE MCAudioFrameGenerator ------------------------
(* Small instances of AudioFrameGenerator: a frame of two samples, a stereo    *)
(* element of two substreams and one of a single substream.                    *)
EXTENDS AudioFrameGenerator

MCElementOf == (1 :> "A") @@ (2 :> "A") @@ (3 :> "B")

(* The codecs: LPCM, FLAC, and one that delays by some samples.                *)
Lpcm == [delay |-> 0, latency |-> 0]
Flac == [delay |-> 0, latency |-> 1]
Delaying(d) == [delay |-> d, latency |-> 0]
With(a, b, start, end, chunks) ==
    [delay |-> ("A" :> a.delay) @@ ("B" :> b.delay),
     latency |-> ("A" :> a.latency) @@ ("B" :> b.latency),
     trimStart |-> start[1], startIncludesDelay |-> start[2],
     trimEnd |-> end[1], endIncludesPadding |-> end[2], chunks |-> chunks]

(* Single frames, short last ones, and calls with more than a frame.           *)
Chunks == {<<2, 2>>, <<2, 1>>, <<3, 2>>, <<2, 4, 1>>}
MCSetups ==
    {c \in {With(a, b, start, end, chunks) :
            a \in {Lpcm, Delaying(1), Delaying(2)},
            b \in {Lpcm, Flac, Delaying(3)},
            start \in {<<0, FALSE>>, <<1, FALSE>>, <<3, TRUE>>},
            end \in (0..2) \X BOOLEAN, chunks \in Chunks} : Legal(c)}

(* Nothing is ever added, with codecs that delay.                              *)
MCSetupsWithoutSamples ==
    {With(Delaying(1), b, <<0, FALSE>>, <<0, FALSE>>, <<>>) :
        b \in {Lpcm, Flac, Delaying(2)}}
===============================================================================
