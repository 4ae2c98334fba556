------------------------------- MODULE MCGateway -------------------------------
(***************************************************************************)
(* Small instances of Gateway: which messages the clients' users send.     *)
(***************************************************************************)
EXTENDS Gateway

NewOrder(id) ==
    [type |-> "D", cl |-> id, order |-> id, quantity |-> 4, valid |-> TRUE]

CancelOf(id, cl) ==
    [type |-> "F", cl |-> cl, order |-> id, quantity |-> 0, valid |-> TRUE]

OneOrder == {NewOrder("A"), CancelOf("A", "CA")}

TwoOrders == {NewOrder("A"), NewOrder("B")}

TwoOrdersAndCancels ==
    TwoOrders \cup {CancelOf("A", "CA"), CancelOf("B", "CB")}

(* A client sends the messages of the order it is named after.             *)
EachItsOwn == [c \in Clients |-> {r \in Requests : r.order = c}]

NoPlans == {}
===============================================================================
