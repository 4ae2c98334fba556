----------------------------- MODULE MessageStream -----------------------------
(***************************************************************************)
(* What a reader of FIX messages promises on top of a byte stream: the     *)
(* messages written come out whole, once each and in order, until the      *)
(* stream ends; none comes out afterwards.                                 *)
(***************************************************************************)
EXTENDS Integers, Sequences

CONSTANT Texts

VARIABLES
    sent,           \* messages written, in order
    delivered,      \* messages that came out
    finished        \* the reader has been told that the stream is over

Init == sent = <<>> /\ delivered = <<>> /\ finished = FALSE

Write ==
    /\ \E text \in Texts : sent' = Append(sent, text)
    /\ UNCHANGED <<delivered, finished>>

Deliver ==
    /\ ~finished
    /\ Len(delivered) < Len(sent)
    /\ delivered' = Append(delivered, sent[Len(delivered) + 1])
    /\ UNCHANGED <<sent, finished>>

Finish ==
    /\ finished' = TRUE
    /\ UNCHANGED <<sent, delivered>>

Next == Write \/ Deliver \/ Finish

Spec == Init /\ [][Next]_<<sent, delivered, finished>>

===============================================================================
