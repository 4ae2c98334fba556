------------------------------- MODULE OrderBook -------------------------------
(***************************************************************************)
(* The in-memory order book of fixgateway/exchange/order_book.py, called   *)
(* directly: every public operation, in any order, with any arguments, and *)
(* every way each one can raise.                                           *)
(*                                                                         *)
(* A quantity is a whole number of units; 0 stands for every argument that *)
(* is refused before an order exists or is touched: text that is no        *)
(* number, zero, a negative or infinite number, an empty symbol, an        *)
(* unknown side, a negative price.                                         *)
(***************************************************************************)
EXTENDS Orders

CONSTANTS
    OrderIds,
    Amounts,        \* the quantities callers pass
    NoQuantity      \* partial_fill_quantity=None

ASSUME AmountsAssumption == Amounts \subseteq Nat

ASSUME NoQuantityAssumption == NoQuantity \notin Nat

VARIABLES
    orders,         \* OrderBook._orders
    outcome         \* how the last call ended: "ok" or the class it raised

vars == <<orders, outcome>>

FillMode == {"resting", "partial", "full"}

Errors == {"DuplicateOrderError", "OrderNotFoundError", "ValueError",
           "InvalidTransitionError"}

(* The book maps known IDs to well formed orders; a call ends as the code  *)
(* says it may.                                                            *)
TypeOK ==
    /\ DOMAIN orders \subseteq OrderIds
    /\ orders \in [DOMAIN orders -> Order]
    /\ outcome \in Errors \cup {"none", "ok"}

Init ==
    /\ orders = [id \in {} |-> AcknowledgedOrder(0)]
    /\ outcome = "none"

-------------------------------------------------------------------------------
Stored(id, order) ==
    [i \in DOMAIN orders \cup {id} |-> IF i = id THEN order ELSE orders[i]]

Raises(error) ==
    /\ outcome' = error
    /\ UNCHANGED orders

Stores(id, order, result) ==
    /\ orders' = Stored(id, order)
    /\ outcome' = result

(* The part of accept_order after the arguments were found valid: the      *)
(* acknowledged order is in the book while its automatic fill is tried.    *)
AutomaticFill(id, order, fill_mode, partial) ==
    \/ /\ fill_mode = "full"
       /\ Stores(id, FilledOrder(order, order.quantity), "ok")
    \/ /\ fill_mode = "partial"
       /\ partial = NoQuantity
       /\ Stores(id, order, "ValueError")          \* the order stays behind
    \/ /\ fill_mode = "partial"
       /\ partial # NoQuantity
       /\ IF FillOutcome(order, partial, TRUE) = "ok"
          THEN Stores(id, FilledOrder(order, partial), "ok")
          ELSE Raises(FillOutcome(order, partial, TRUE))
    \/ /\ fill_mode = "resting"
       /\ partial = NoQuantity
       /\ Stores(id, order, "ok")
    \/ /\ fill_mode = "resting"
       /\ partial # NoQuantity
       /\ Raises("ValueError")

(* Mutant: a quantity of zero is taken.                                    *)
AcceptOrderOfNothing(id, quantity, fill_mode, partial) ==
    \/ /\ id \in DOMAIN orders
       /\ Raises("DuplicateOrderError")
    \/ /\ id \notin DOMAIN orders
       /\ AutomaticFill(id, AcknowledgedOrder(quantity), fill_mode, partial)

(* Mutant: an order ID that is taken is taken again.                       *)
AcceptOrderAgain(id, quantity, fill_mode, partial) ==
    \/ /\ quantity = 0
       /\ Raises("ValueError")
    \/ /\ quantity > 0
       /\ AutomaticFill(id, AcknowledgedOrder(quantity), fill_mode, partial)

AcceptOrder(id, quantity, fill_mode, partial) ==
    \/ /\ id \in DOMAIN orders
       /\ Raises("DuplicateOrderError")
    \/ /\ id \notin DOMAIN orders
       /\ quantity = 0
       /\ Raises("ValueError")
    \/ /\ id \notin DOMAIN orders
       /\ quantity > 0
       /\ AutomaticFill(id, AcknowledgedOrder(quantity), fill_mode, partial)

(* Mutant: the quantity is added before the transition is tried.           *)
FillOrderCountingFirst(id, quantity, require_partial) ==
    \/ /\ id \notin DOMAIN orders
       /\ Raises("OrderNotFoundError")
    \/ /\ id \in DOMAIN orders
       /\ LET result == FillOutcome(orders[id], quantity, require_partial) IN
          CASE result = "ok" -> Stores(id, FilledOrder(orders[id], quantity), result)
            [] result = "ValueError" -> Raises(result)
            [] result = "InvalidTransitionError" ->
                  Stores(id, [orders[id] EXCEPT !.cumulative_quantity = @ + quantity],
                         result)

FillOrder(id, quantity, require_partial) ==
    \/ /\ id \notin DOMAIN orders
       /\ Raises("OrderNotFoundError")
    \/ /\ id \in DOMAIN orders
       /\ IF FillOutcome(orders[id], quantity, require_partial) = "ok"
          THEN Stores(id, FilledOrder(orders[id], quantity), "ok")
          ELSE Raises(FillOutcome(orders[id], quantity, require_partial))

AutoFill(id) ==
    FillOrder(id, IF id \in DOMAIN orders THEN Leaves(orders[id]) ELSE 0, FALSE)

CancelOrder(id) ==
    \/ /\ id \notin DOMAIN orders
       /\ Raises("OrderNotFoundError")
    \/ /\ id \in DOMAIN orders
       /\ Stores(id, AfterCancel(orders[id]), CancelOutcome(orders[id]))

Next ==
    \E id \in OrderIds :
        \/ \E quantity \in Amounts, fill_mode \in FillMode,
              partial \in Amounts \cup {NoQuantity} :
                AcceptOrder(id, quantity, fill_mode, partial)
        \/ \E quantity \in Amounts, require_partial \in BOOLEAN :
                FillOrder(id, quantity, require_partial)
        \/ AutoFill(id)
        \/ CancelOrder(id)

Spec == Init /\ [][Next]_vars

-------------------------------------------------------------------------------
(* For every order in the book, however it got there and whatever calls    *)
(* failed on it, the executed quantity agrees with the state: nothing      *)
(* executed while NEW, part of it while PARTIALLY_FILLED, all of it        *)
(* exactly when FILLED.  The event a fill applies and the quantity it adds *)
(* are computed apart (order_book.py:170-176).                             *)
FillAccounting == \A id \in DOMAIN orders : FillsMatchState(orders[id])

(* The history of every order in the book is a single walk through the     *)
(* lifecycle table from its acknowledgement to its present state, and no   *)
(* call that raised left a half-applied cancel or a stray transition in it *)
(* (state_machine.py:104-106, order_book.py:186-188).                      *)
HistoryExplainsState == \A id \in DOMAIN orders : HistoryExplains(orders[id])

(* No sequence of calls takes anything back: an order in the book stays    *)
(* there (the two "del" of accept_order can only hit the order the call    *)
(* itself created), its history only gets longer, its executed quantity    *)
(* never shrinks, and an order in a terminal state does not change at all. *)
NothingTakenBack ==
    \A id \in DOMAIN orders :
        id \in DOMAIN orders' /\ Advanced(orders[id], orders'[id])

OrdersOnlyAdvance == [][NothingTakenBack]_vars

(* A call that raised left every order that was there before it exactly as *)
(* it was, although apply() and the "+=" of a fill, and the two apply() of *)
(* a cancel, are separate assignments.                                     *)
FailureLeavesOrdersAlone ==
    outcome' \in Errors =>
        \A id \in DOMAIN orders :
            id \in DOMAIN orders' /\ orders'[id] = orders[id]

FailuresAreHarmless == [][FailureLeavesOrdersAlone]_vars

(* What order_book.py:134 says of accept_order, "Acceptance is atomic when *)
(* its requested automatic fill is invalid": a call that raised left no    *)
(* new order behind.                                                       *)
FailureAddsNothing == outcome' \in Errors => DOMAIN orders' = DOMAIN orders

AcceptanceIsAtomic == [][FailureAddsNothing]_vars

(* The book keeps the promise of OrderLedger: fixed quantities, executions *)
(* that only add up, and closed orders that stay closed.                   *)
ledger == [id \in DOMAIN orders |-> LedgerEntry(orders[id])]

Ledger == INSTANCE OrderLedger WITH Quantities <- Amounts \ {0}

ImplementsLedger == Ledger!Spec
===============================================================================
