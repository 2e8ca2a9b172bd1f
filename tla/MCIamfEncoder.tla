---------------------------- MODULE MCIamfEncoder ----------------------------
(* The encoder with two files beside the streaming sequencer.  Ticks of the    *)
(* arbitrary OBUs: the first frame, the second, and behind any frame.          *)
EXTENDS IamfEncoder, TLC

Arbitraries == {<<>>, 0 :> FALSE, 1 :> TRUE, 7 :> TRUE, 7 :> FALSE,
                0 :> FALSE @@ 7 :> TRUE, 7 :> FALSE @@ 8 :> TRUE}

MCSetups ==
    [latency : {0, 1}, padding : {0, 1, 2}, covered : BOOLEAN, arbitrary : Arbitraries,
     loud : {FALSE}, trivial : {FALSE}]
    \union [latency : {1}, padding : {1}, covered : {TRUE}, arbitrary : Arbitraries,
            loud : {TRUE}, trivial : {FALSE}]
    \union [latency : {0}, padding : {0}, covered : {FALSE}, arbitrary : Arbitraries,
            loud : BOOLEAN, trivial : {TRUE}]

(* A codec with a delay, such as Opus, and an arbitrary OBU in the last frame. *)
DelayedSetups == [latency : {0}, padding : {1}, covered : {FALSE}, arbitrary : {1 :> TRUE},
                  loud : {FALSE}, trivial : {FALSE}]
===============================================================================
