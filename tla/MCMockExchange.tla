---------------------------- MODULE MCMockExchange ----------------------------
(***************************************************************************)
(* Small instances of MockExchange: which messages clients may send.       *)
(***************************************************************************)
EXTENDS MockExchange

NewOrder(id) ==
    [type |-> "D", cl |-> id, order |-> id, quantity |-> 4, valid |-> TRUE]

(* It is well formed, but the book refuses it.                             *)
OrderOfNothing(id) == [NewOrder(id) EXCEPT !.quantity = 0]

CancelOf(id, cl) ==
    [type |-> "F", cl |-> cl, order |-> id, quantity |-> 0, valid |-> TRUE]

Malformed(r) == [r EXCEPT !.valid = FALSE]

(* One order, its retry, its cancel and the cancel's retry.                *)
OneOrder == {NewOrder("A"), CancelOf("A", "CA")}

JustOrder == {NewOrder("A")}

TwoOrders == {NewOrder("A"), NewOrder("B")}

TwoOrdersAndCancel == TwoOrders \cup {CancelOf("A", "CA")}

(* Also requests the validator or the book turns down.                     *)
OneOrderAndMalformed ==
    OneOrder \cup {Malformed(NewOrder("B")), OrderOfNothing("B"), Malformed(CancelOf("A", "XA"))}

(* An order and its cancel, and a malformed order.                         *)
OneOrderAndRejected == OneOrder \cup {Malformed(NewOrder("B"))}

NoPlans == {}

(* What a callable strategy may plan for an order of 4: all of it in two   *)
(* parts, too much at the end, and one fill too many.                      *)
OddPlans == {<<2, 2>>, <<1, 4>>, <<4, 1>>}
===============================================================================
