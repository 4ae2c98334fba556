-------------------------------- MODULE FeedView --------------------------------
(***************************************************************************)
(* What a consumer of a sequenced feed may claim to know, per symbol: the  *)
(* number of the last message its view includes, and whether it vouches    *)
(* for it.  A view it vouches for follows the feed one message at a time;  *)
(* once it has lost its place only a full message ("W"), later than all    *)
(* the view includes, brings it back.                                      *)
(***************************************************************************)
EXTENDS Integers, Sequences

CONSTANT Symbols

VARIABLES
    feed,       \* the types of the messages published, per symbol
    view

Init ==
    /\ feed = [s \in Symbols |-> <<>>]
    /\ view = [s \in Symbols |-> [seq |-> 0, fresh |-> FALSE]]

Publish(s) ==
    /\ \E type \in {"W", "X"} : feed' = [feed EXCEPT ![s] = Append(@, type)]
    /\ UNCHANGED view

Follow(s) ==
    /\ view[s].fresh
    /\ view[s].seq + 1 \in DOMAIN feed[s]
    /\ feed[s][view[s].seq + 1] = "X"
    /\ view' = [view EXCEPT ![s] = [seq |-> view[s].seq + 1, fresh |-> TRUE]]
    /\ UNCHANGED feed

Lose(s) ==
    /\ view' = [view EXCEPT ![s] = [seq |-> view[s].seq, fresh |-> FALSE]]
    /\ UNCHANGED feed

Resync(s) ==
    /\ \E seq \in DOMAIN feed[s] :
        /\ feed[s][seq] = "W"
        /\ seq > view[s].seq
        /\ view' = [view EXCEPT ![s] = [seq |-> seq, fresh |-> TRUE]]
    /\ UNCHANGED feed

Next == \E s \in Symbols : Publish(s) \/ Follow(s) \/ Lose(s) \/ Resync(s)

Spec == Init /\ [][Next]_<<feed, view>>

===============================================================================
