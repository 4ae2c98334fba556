-------------------------------- MODULE Orders --------------------------------
(***************************************************************************)
(* One order of fixgateway/exchange/order_book.py: the record the book     *)
(* keeps for it and what a fill or a cancel does to that record.           *)
(*                                                                         *)
(* Quantities are whole units.  Symbol, side and price take no part in any *)
(* of these operations and are left out.                                   *)
(***************************************************************************)
EXTENDS OrderLifecycle

(* accept_order applies ACK before the order enters the book.              *)
AcknowledgedOrder(quantity) ==
    ApplyEvent([quantity |-> quantity, cumulative_quantity |-> 0,
                state |-> "NEW", history |-> <<>>], "ACK")

Leaves(order) == order.quantity - order.cumulative_quantity

(* Mutant: compares with the whole order instead of what is left of it.    *)
FillEventOfWholeOrder(order, quantity) ==
    IF quantity = order.quantity THEN "FULL_FILL" ELSE "PARTIAL_FILL"

FillEvent(order, quantity) ==
    IF quantity = Leaves(order) THEN "FULL_FILL" ELSE "PARTIAL_FILL"

(* Mutant: allows as much as was ordered, however much is left.            *)
FillOutcomeIgnoringFills(order, quantity, require_partial) ==
    IF \/ quantity <= 0
       \/ quantity > order.quantity
       \/ require_partial /\ quantity = Leaves(order)
    THEN "ValueError"
    ELSE IF Permits(order.state, FillEvent(order, quantity))
         THEN "ok"
         ELSE "InvalidTransitionError"

(* How fill_order ends for an order that is in the book.                   *)
FillOutcome(order, quantity, require_partial) ==
    IF \/ quantity <= 0
       \/ quantity > Leaves(order)
       \/ require_partial /\ quantity = Leaves(order)
    THEN "ValueError"
    ELSE IF Permits(order.state, FillEvent(order, quantity))
         THEN "ok"
         ELSE "InvalidTransitionError"

FilledOrder(order, quantity) ==
    [ApplyEvent(order, FillEvent(order, quantity)) EXCEPT
        !.cumulative_quantity = @ + quantity]

(* cancel_order applies the request and then its confirmation.             *)
CancelRequested(order) == ApplyEvent(order, "CANCEL_REQUEST")

CanceledOrder(order) == ApplyEvent(CancelRequested(order), "CANCEL_CONFIRMED")

(* How cancel_order ends for an order that is in the book.                 *)
CancelOutcome(order) ==
    IF /\ Permits(order.state, "CANCEL_REQUEST")
       /\ Permits(CancelRequested(order).state, "CANCEL_CONFIRMED")
    THEN "ok"
    ELSE "InvalidTransitionError"

(* Mutant: the confirmation is forgotten.                                  *)
CancelUnconfirmed(order) == CancelRequested(order)

(* What the cancel leaves behind, whether or not it raised.                *)
AfterCancel(order) ==
    IF Permits(order.state, "CANCEL_REQUEST") THEN CanceledOrder(order) ELSE order

-------------------------------------------------------------------------------
(* What has to be true of every order a book ever holds.                   *)

Order == [quantity : Nat \ {0}, cumulative_quantity : Nat,
          state : OrderState, history : Seq(TRANSITIONS)]

(* The executed quantity is the one the state announces.                   *)
FillsMatchState(order) ==
    /\ order.state = "NEW" => order.cumulative_quantity = 0
    /\ order.state = "PARTIALLY_FILLED" =>
            order.cumulative_quantity \in 1 .. order.quantity - 1
    /\ order.state = "FILLED" => order.cumulative_quantity = order.quantity
    /\ order.state = "CANCELED" =>
            order.cumulative_quantity \in 0 .. order.quantity - 1
    /\ order.state # "REJECTED"

(* The history is one walk through the table, from the acknowledgement of  *)
(* a new order to the present state; no cancel was left half done, and     *)
(* none confirmed that was not asked for.                                  *)
HistoryExplains(order) ==
    LET h == order.history IN
    /\ Len(h) > 0
    /\ h[1] = Arc("NEW", "ACK", "NEW")
    /\ \A i \in 1 .. Len(h) - 1 : h[i].to = h[i + 1].from
    /\ h[Len(h)].to = order.state
    /\ \A i \in 2 .. Len(h) : h[i].event # "ACK"
    /\ \A i \in 1 .. Len(h) : h[i].event = "CANCEL_REQUEST" =>
            i < Len(h) /\ h[i + 1].event = "CANCEL_CONFIRMED"
    /\ \A i \in 1 .. Len(h) : h[i].event = "CANCEL_CONFIRMED" =>
            i > 1 /\ h[i - 1].event = "CANCEL_REQUEST"

(* One order before and after: its quantity is fixed, its executed quantity *)
(* and its history only grow, and a terminal state is final.               *)
Advanced(before, after) ==
    /\ after.quantity = before.quantity
    /\ after.cumulative_quantity >= before.cumulative_quantity
    /\ Len(after.history) >= Len(before.history)
    /\ \A i \in 1 .. Len(before.history) : after.history[i] = before.history[i]
    /\ before.state \in TERMINAL_STATES => after = before

(* What OrderLedger sees of an order.                                      *)
LedgerEntry(order) ==
    [quantity |-> order.quantity,
     executed |-> order.cumulative_quantity,
     open     |-> order.state \notin TERMINAL_STATES]

===============================================================================
