--------------------------- MODULE IaSequenceOutput ---------------------------
(* What a sequencer of an IA Sequence promises its caller: a stream of one     *)
(* descriptor block followed by the temporal units it accepted, in the order   *)
(* it accepted them.  While it is open any prefix of the accepted units may    *)
(* already be written; when it is completed everything accepted is there under *)
(* the last descriptors accepted; when it is discarded nothing is left behind. *)
(* This is the class comment of iamf/cli/obu_sequencer_base.h (lines 36-66)    *)
(* as a state machine; ObuSequencer implements it.                             *)
EXTENDS Naturals, Sequences

CONSTANTS Descriptors,  \* the descriptor blocks a caller may provide
          Units,        \* the temporal units a caller may provide
          None          \* no descriptor block

VARIABLES phase,        \* "none", "open", "complete" or "discarded"
          promised,     \* the last descriptor block accepted
          accepted,     \* the temporal units accepted, in order
          header,       \* the descriptor block in the output
          body          \* the temporal units in the output

vars == <<phase, promised, accepted, header, body>>

Init == /\ phase = "none"
        /\ promised = None
        /\ accepted = <<>>
        /\ header = None
        /\ body = <<>>

(* `body` is a prefix of `accepted`.                                           *)
Written(b, a) == Len(b) <= Len(a) /\ b = SubSeq(a, 1, Len(b))

Start(d) == /\ phase = "none"
            /\ phase' = "open"
            /\ promised' = d
            /\ header' \in {None, d}
            /\ UNCHANGED <<accepted, body>>

Accept(u) == /\ phase = "open"
             /\ accepted' = Append(accepted, u)
             /\ header' = promised
             /\ Written(body', accepted') /\ Len(body) <= Len(body')
             /\ UNCHANGED <<phase, promised>>

(* A unit that cannot be written yet is held back, and so is the header.       *)
Hold(u) == /\ phase = "open"
           /\ accepted' = Append(accepted, u)
           /\ UNCHANGED <<phase, promised, header, body>>

Complete(d) == /\ phase \in {"none", "open"}
               /\ phase = "none" => d = None
               /\ phase' = "complete"
               /\ promised' = d
               /\ header' = d
               /\ body' = accepted
               /\ UNCHANGED accepted

Discard == /\ phase \in {"none", "open"}
           /\ phase' = "discarded"
           /\ header' = None
           /\ body' = <<>>
           /\ UNCHANGED <<promised, accepted>>

Next == \/ \E d \in Descriptors : Start(d)
        \/ \E u \in Units : Accept(u) \/ Hold(u)
        \/ \E d \in Descriptors \union {None} : Complete(d)
        \/ Discard

Spec == Init /\ [][Next]_vars
===============================================================================
