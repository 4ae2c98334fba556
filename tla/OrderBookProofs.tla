---------------------------- MODULE OrderBookProofs ----------------------------
(***************************************************************************)
(* The invariants, the action properties and the refinement of OrderBook,  *)
(* for any set of order identifiers and any set of amounts.                *)
(*                                                                         *)
(* Every argument goes through one invariant, GoodBook, which says of each *)
(* order separately what OrderProofs shows every operation preserves.      *)
(***************************************************************************)
EXTENDS OrderBook, OrderProofs

GoodBook ==
    /\ TypeOK
    /\ \A id \in DOMAIN orders : GoodOrder(orders[id])

(* Putting a good order under an identifier keeps the book good, and       *)
(* disturbs no other identifier.                                           *)
LEMMA StoredIsGood ==
    ASSUME GoodBook, NEW id \in OrderIds, NEW order, GoodOrder(order)
    PROVE  /\ DOMAIN Stored(id, order) = DOMAIN orders \cup {id}
           /\ Stored(id, order)[id] = order
           /\ \A i \in DOMAIN orders : i # id => Stored(id, order)[i] = orders[i]
           /\ DOMAIN Stored(id, order) \subseteq OrderIds
           /\ Stored(id, order) \in [DOMAIN Stored(id, order) -> Order]
           /\ \A i \in DOMAIN Stored(id, order) : GoodOrder(Stored(id, order)[i])
  BY DEF GoodBook, TypeOK, Stored, GoodOrder

(* What the abstract ledger sees of one order.                             *)
Live(order) == order.state \notin TERMINAL_STATES

(* The ways in which a call can change the book.                           *)
Opened(id) ==
    /\ id \notin DOMAIN orders
    /\ \E order : /\ GoodOrder(order)
                  /\ order.quantity \in Amounts \ {0}
                  /\ order.state \in {"NEW", "PARTIALLY_FILLED", "FILLED"}
                  /\ orders' = Stored(id, order)

Changed(id) ==
    /\ id \in DOMAIN orders
    /\ Live(orders[id])
    /\ outcome' = "ok"
    /\ \E order : /\ GoodOrder(order)
                  /\ Advanced(orders[id], order)
                  /\ \/ order.cumulative_quantity > orders[id].cumulative_quantity
                        /\ order.state \in {"PARTIALLY_FILLED", "FILLED"}
                     \/ order.cumulative_quantity = orders[id].cumulative_quantity
                        /\ order.state = "CANCELED"
                  /\ orders' = Stored(id, order)

Result == Errors \cup {"none", "ok"}

(* An order that did not change has advanced, trivially.                   *)
LEMMA UnchangedAdvances ==
    ASSUME NEW order \in Order
    PROVE  Advanced(order, order)
  <1>1. order.cumulative_quantity \in Nat /\ order.history \in Seq(TRANSITIONS)
    BY DEF Order
  <1>2. Len(order.history) \in Nat
    BY <1>1
  <1> QED
    BY <1>1, <1>2 DEF Advanced

(* A fill that does not raise advances a live order.                       *)
LEMMA FillAdvances ==
    ASSUME NEW order, GoodOrder(order),
           NEW quantity \in Nat, NEW require_partial \in BOOLEAN,
           FillOutcome(order, quantity, require_partial) = "ok"
    PROVE  LET filled == FilledOrder(order, quantity)
           IN  /\ GoodOrder(filled)
               /\ Live(order)
               /\ Advanced(order, filled)
               /\ filled.cumulative_quantity > order.cumulative_quantity
               /\ filled.state \in {"PARTIALLY_FILLED", "FILLED"}
  <1> DEFINE filled == FilledOrder(order, quantity)
             t == TransitionFor(order.state, FillEvent(order, quantity))
  <1>1. /\ order \in Order
        /\ quantity > 0
        /\ Permits(order.state, FillEvent(order, quantity))
        /\ order.state \notin TERMINAL_STATES
    BY PermittedEvents DEF FillOutcome, GoodOrder
  <1>2. /\ GoodOrder(filled)
        /\ filled.quantity = order.quantity
        /\ filled.cumulative_quantity = order.cumulative_quantity + quantity
        /\ filled.state \in {"PARTIALLY_FILLED", "FILLED"}
        /\ filled.history = Append(order.history, t)
    BY FilledIsGood
  <1>3. order.history \in Seq(TRANSITIONS) /\ order.cumulative_quantity \in Nat
    BY <1>1 DEF Order
  <1>4. t \in TRANSITIONS
    BY <1>1, TransitionForIsArc
  <1>5. /\ Len(filled.history) = Len(order.history) + 1
        /\ \A i \in 1 .. Len(order.history) :
                filled.history[i] = order.history[i]
    <2> HIDE DEF filled, t
    <2> QED BY <1>2, <1>3, <1>4
  <1>6. Len(order.history) \in Nat
    BY <1>3
  <1>7. Advanced(order, filled)
    <2> HIDE DEF filled, t
    <2> QED BY <1>1, <1>2, <1>3, <1>5, <1>6 DEF Advanced
  <1> QED
    BY <1>1, <1>2, <1>3, <1>7 DEF Live

(* A cancel advances a live order to CANCELED.                             *)
LEMMA CancelAdvances ==
    ASSUME NEW order, GoodOrder(order), Live(order)
    PROVE  /\ GoodOrder(AfterCancel(order))
           /\ Advanced(order, AfterCancel(order))
           /\ AfterCancel(order).cumulative_quantity = order.cumulative_quantity
           /\ AfterCancel(order).state = "CANCELED"
           /\ CancelOutcome(order) = "ok"
  <1>1. /\ order.history \in Seq(TRANSITIONS)
        /\ order.cumulative_quantity \in Nat
    BY DEF GoodOrder, Order
  <1> QED
    BY <1>1, CanceledIsGood DEF Live, Advanced

(* An order that enters the book is acknowledged, perhaps filled, good.    *)
LEMMA AcceptShape ==
    ASSUME GoodBook, NEW id \in OrderIds, NEW quantity \in Amounts,
           NEW fill_mode \in FillMode, NEW partial \in Amounts \cup {NoQuantity},
           AcceptOrder(id, quantity, fill_mode, partial)
    PROVE  /\ orders' = orders \/ Opened(id)
           /\ outcome' \in Result
  <1>1. CASE id \in DOMAIN orders \/ quantity = 0
    BY <1>1, AmountsAssumption DEF AcceptOrder, Raises, Result, Errors
  <1>2. CASE id \notin DOMAIN orders /\ quantity # 0
    <2> DEFINE order == AcknowledgedOrder(quantity)
    <2>1. /\ quantity \in Nat \ {0}
          /\ quantity \in Amounts \ {0}
          /\ id \notin DOMAIN orders
      BY <1>2, AmountsAssumption
    <2>2. /\ GoodOrder(order)
          /\ order.quantity = quantity
          /\ order.cumulative_quantity = 0
          /\ order.state = "NEW"
      BY <2>1, AcknowledgedIsGood
    <2>3. AutomaticFill(id, order, fill_mode, partial)
      BY <1>2 DEF AcceptOrder
    <2> HIDE DEF order
    <2>4. CASE fill_mode = "full"
      <3>1. orders' = Stored(id, FilledOrder(order, order.quantity)) /\ outcome' = "ok"
        BY <2>3, <2>4 DEF AutomaticFill, Stores
      <3>2. FillOutcome(order, order.quantity, FALSE) = "ok"
        BY <2>1, <2>2, PermittedEvents DEF FillOutcome, FillEvent, Leaves
      <3>3. /\ GoodOrder(FilledOrder(order, order.quantity))
            /\ FilledOrder(order, order.quantity).quantity = quantity
            /\ FilledOrder(order, order.quantity).state
                    \in {"PARTIALLY_FILLED", "FILLED"}
        BY <2>1, <2>2, <3>2, FillAdvances DEF Advanced
      <3> QED BY <2>1, <3>1, <3>3 DEF Opened, Result
    <2>5. CASE /\ fill_mode = "partial"
               /\ partial # NoQuantity
               /\ FillOutcome(order, partial, TRUE) = "ok"
      <3>1. orders' = Stored(id, FilledOrder(order, partial)) /\ outcome' = "ok"
        BY <2>3, <2>5 DEF AutomaticFill, Stores
      <3>2. /\ GoodOrder(FilledOrder(order, partial))
            /\ FilledOrder(order, partial).quantity = quantity
            /\ FilledOrder(order, partial).state \in {"PARTIALLY_FILLED", "FILLED"}
        BY <2>2, <2>5, AmountsAssumption, FillAdvances DEF Advanced
      <3> QED BY <2>1, <3>1, <3>2 DEF Opened, Result
    <2>6. CASE /\ fill_mode = "partial"
               /\ partial # NoQuantity
               /\ FillOutcome(order, partial, TRUE) # "ok"
      BY <2>3, <2>6 DEF AutomaticFill, Raises, FillOutcome, Result, Errors
    <2>7. CASE \/ fill_mode = "partial" /\ partial = NoQuantity
               \/ fill_mode = "resting" /\ partial = NoQuantity
      <3>1. orders' = Stored(id, order) /\ outcome' \in Result
        BY <2>3, <2>7 DEF AutomaticFill, Stores, Result, Errors
      <3> QED BY <2>1, <2>2, <3>1 DEF Opened
    <2>8. CASE fill_mode = "resting" /\ partial # NoQuantity
      BY <2>3, <2>8 DEF AutomaticFill, Raises, Result, Errors
    <2> QED
      BY <2>4, <2>5, <2>6, <2>7, <2>8 DEF FillMode
  <1> QED
    BY <1>1, <1>2

(* A fill of a known order either raises or advances a live order.         *)
LEMMA FillShape ==
    ASSUME GoodBook, NEW id \in OrderIds, NEW quantity \in Nat,
           NEW require_partial \in BOOLEAN,
           FillOrder(id, quantity, require_partial)
    PROVE  /\ orders' = orders \/ Changed(id)
           /\ outcome' \in Result
  <1>1. CASE id \notin DOMAIN orders
    BY <1>1 DEF FillOrder, Raises, Result, Errors
  <1>2. CASE /\ id \in DOMAIN orders
             /\ FillOutcome(orders[id], quantity, require_partial) # "ok"
    BY <1>2 DEF FillOrder, Raises, FillOutcome, Result, Errors
  <1>3. CASE /\ id \in DOMAIN orders
             /\ FillOutcome(orders[id], quantity, require_partial) = "ok"
    <2>1. GoodOrder(orders[id])
      BY <1>3 DEF GoodBook
    <2>2. /\ orders' = Stored(id, FilledOrder(orders[id], quantity))
          /\ outcome' = "ok"
      BY <1>3 DEF FillOrder, Stores
    <2> QED
      BY <1>3, <2>1, <2>2, FillAdvances DEF Changed, Result
  <1> QED
    BY <1>1, <1>2, <1>3

(* A cancel either raises or closes a live order.                          *)
LEMMA CancelShape ==
    ASSUME GoodBook, NEW id \in OrderIds, CancelOrder(id)
    PROVE  /\ orders' = orders \/ Changed(id)
           /\ outcome' \in Result
  <1>1. CASE id \notin DOMAIN orders
    BY <1>1 DEF CancelOrder, Raises, Result, Errors
  <1>2. CASE id \in DOMAIN orders
    <2>1. GoodOrder(orders[id])
      BY <1>2 DEF GoodBook
    <2>2. /\ orders' = Stored(id, AfterCancel(orders[id]))
          /\ outcome' = CancelOutcome(orders[id])
      BY <1>2 DEF CancelOrder, Stores
    <2>3. CASE Live(orders[id])
      BY <1>2, <2>1, <2>2, <2>3, CancelAdvances DEF Changed, Result
    <2>4. CASE ~Live(orders[id])
      <3>1. AfterCancel(orders[id]) = orders[id] /\ outcome' \in Result
        BY <2>2, <2>4, RefusedCancel DEF Live, Result, Errors
      <3>2. Stored(id, orders[id]) = orders
        BY <1>2 DEF Stored, GoodBook, TypeOK
      <3> QED BY <2>2, <3>1, <3>2
    <2> QED BY <2>3, <2>4
  <1> QED
    BY <1>1, <1>2

(* Every step leaves the book alone, opens one order or changes one.       *)
LEMMA StepShape ==
    ASSUME GoodBook, [Next]_vars
    PROVE  /\ orders' = orders \/ \E id \in OrderIds : Opened(id) \/ Changed(id)
           /\ outcome' \in Result
  <1>1. ASSUME NEW id \in OrderIds, NEW quantity \in Amounts,
               NEW fill_mode \in FillMode,
               NEW partial \in Amounts \cup {NoQuantity},
               AcceptOrder(id, quantity, fill_mode, partial)
        PROVE  (orders' = orders \/ Opened(id)) /\ outcome' \in Result
    BY <1>1, AcceptShape
  <1>2. ASSUME NEW id \in OrderIds, NEW quantity \in Amounts,
               NEW require_partial \in BOOLEAN,
               FillOrder(id, quantity, require_partial)
        PROVE  (orders' = orders \/ Changed(id)) /\ outcome' \in Result
    BY <1>2, FillShape, AmountsAssumption
  <1>3. ASSUME NEW id \in OrderIds, AutoFill(id)
        PROVE  (orders' = orders \/ Changed(id)) /\ outcome' \in Result
    <2> DEFINE all == IF id \in DOMAIN orders THEN Leaves(orders[id]) ELSE 0
    <2>1. all \in Nat
      BY DEF GoodBook, GoodOrder, FillsMatchState, Order, OrderState, Leaves
    <2>2. FillOrder(id, all, FALSE)
      BY <1>3 DEF AutoFill
    <2> HIDE DEF all
    <2> QED BY <2>1, <2>2, FillShape
  <1>4. ASSUME NEW id \in OrderIds, CancelOrder(id)
        PROVE  (orders' = orders \/ Changed(id)) /\ outcome' \in Result
    BY <1>4, CancelShape
  <1>5. CASE UNCHANGED vars
    BY <1>5 DEF vars, GoodBook, TypeOK, Result
  <1> QED
    BY <1>1, <1>2, <1>3, <1>4, <1>5 DEF Next

-------------------------------------------------------------------------------
(* GoodBook is inductive.                                                  *)
LEMMA GoodBookStep ==
    ASSUME GoodBook, [Next]_vars
    PROVE  GoodBook'
  <1>1. outcome' \in Result
    BY StepShape
  <1>2. CASE orders' = orders
    BY <1>1, <1>2 DEF GoodBook, TypeOK, Result
  <1>3. ASSUME NEW id \in OrderIds, NEW order, GoodOrder(order),
               orders' = Stored(id, order)
        PROVE  GoodBook'
    BY <1>1, <1>3, StoredIsGood DEF GoodBook, TypeOK, Result
  <1> QED
    BY <1>2, <1>3, StepShape DEF Opened, Changed

(* The book is good in every reachable state.                              *)
THEOREM AlwaysGood == Spec => []GoodBook
  <1>1. Init => GoodBook
    BY DEF Init, GoodBook, TypeOK
  <1>2. GoodBook /\ [Next]_vars => GoodBook'
    BY GoodBookStep
  <1> QED
    BY <1>1, <1>2, PTL DEF Spec

(* The book only ever maps known identifiers to well formed orders, and a  *)
(* call ends in one of the ways the code names.                            *)
THEOREM TypeCorrect == Spec => []TypeOK
  <1>1. GoodBook => TypeOK
    BY DEF GoodBook
  <1> QED
    BY <1>1, AlwaysGood, PTL

(* FillAccounting, for any identifiers and amounts: no sequence of accepts, *)
(* fills and cancels lets the executed quantity and the state disagree.    *)
THEOREM FillsAlwaysAccounted == Spec => []FillAccounting
  <1>1. GoodBook => FillAccounting
    BY DEF GoodBook, GoodOrder, FillAccounting
  <1> QED
    BY <1>1, AlwaysGood, PTL

(* HistoryExplainsState, for any identifiers and amounts.                  *)
THEOREM HistoriesAlwaysExplain == Spec => []HistoryExplainsState
  <1>1. GoodBook => HistoryExplainsState
    BY DEF GoodBook, GoodOrder, HistoryExplainsState
  <1> QED
    BY <1>1, AlwaysGood, PTL

(* OrdersOnlyAdvance: no call removes an order, shortens its history or    *)
(* touches one that has reached a terminal state.                          *)
THEOREM OrdersAlwaysAdvance == Spec => OrdersOnlyAdvance
  <1>1. ASSUME GoodBook, [Next]_vars
        PROVE  [NothingTakenBack]_vars
    <2>1. \A id \in DOMAIN orders : Advanced(orders[id], orders[id])
      BY <1>1, UnchangedAdvances DEF GoodBook, GoodOrder
    <2>2. CASE orders' = orders
      BY <2>1, <2>2 DEF NothingTakenBack
    <2>3. ASSUME NEW id \in OrderIds, Opened(id)
          PROVE  NothingTakenBack
      <3>1. PICK order : GoodOrder(order) /\ orders' = Stored(id, order)
        BY <2>3 DEF Opened
      <3>2. \A i \in DOMAIN orders : i \in DOMAIN orders' /\ orders'[i] = orders[i]
        BY <2>3, <3>1 DEF Opened, Stored
      <3> QED BY <2>1, <3>2 DEF NothingTakenBack
    <2>4. ASSUME NEW id \in OrderIds, Changed(id)
          PROVE  NothingTakenBack
      <3>1. PICK order : /\ GoodOrder(order)
                         /\ Advanced(orders[id], order)
                         /\ orders' = Stored(id, order)
        BY <2>4 DEF Changed
      <3>2. \A i \in DOMAIN orders :
               /\ i \in DOMAIN orders'
               /\ orders'[i] = IF i = id THEN order ELSE orders[i]
        BY <3>1 DEF Stored
      <3> QED BY <2>1, <3>1, <3>2 DEF NothingTakenBack
    <2> QED
      BY <1>1, <2>2, <2>3, <2>4, StepShape
  <1> QED
    BY <1>1, AlwaysGood, PTL DEF Spec, OrdersOnlyAdvance

(* FailuresAreHarmless: a call that raises leaves every order that was in  *)
(* the book as it was.                                                     *)
THEOREM FailuresAlwaysHarmless == Spec => FailuresAreHarmless
  <1>1. ASSUME GoodBook, [Next]_vars
        PROVE  [FailureLeavesOrdersAlone]_vars
    <2>1. CASE orders' = orders
      BY <2>1 DEF FailureLeavesOrdersAlone
    <2>2. ASSUME NEW id \in OrderIds, Opened(id)
          PROVE  FailureLeavesOrdersAlone
      BY <2>2 DEF FailureLeavesOrdersAlone, Opened, Stored
    <2>3. ASSUME NEW id \in OrderIds, Changed(id)
          PROVE  FailureLeavesOrdersAlone
      BY <2>3 DEF FailureLeavesOrdersAlone, Changed, Errors
    <2> QED
      BY <1>1, <2>1, <2>2, <2>3, StepShape
  <1> QED
    BY <1>1, AlwaysGood, PTL DEF Spec, FailuresAreHarmless

-------------------------------------------------------------------------------
(* What the ledger sees of a good order that was not canceled: it is open  *)
(* exactly while part of it is unexecuted.                                 *)
LEMMA LedgerView ==
    ASSUME NEW order, GoodOrder(order)
    PROVE  /\ order.quantity \in Nat \ {0}
           /\ order.cumulative_quantity \in 0 .. order.quantity
           /\ order.state # "CANCELED" =>
                (Live(order) <=> order.cumulative_quantity < order.quantity)
  BY DEF GoodOrder, FillsMatchState, Order, OrderState, Live, TERMINAL_STATES

(* A new order of the book is a new entry of the ledger.                   *)
LEMMA OpenedMapsToOpen ==
    ASSUME GoodBook, NEW id \in OrderIds, Opened(id)
    PROVE  Ledger!Open(id)
  <1>1. PICK order : /\ GoodOrder(order)
                     /\ order.quantity \in Amounts \ {0}
                     /\ order.state \in {"NEW", "PARTIALLY_FILLED", "FILLED"}
                     /\ orders' = Stored(id, order)
    BY DEF Opened
  <1>2. /\ order.cumulative_quantity \in 0 .. order.quantity
        /\ Live(order) <=> order.cumulative_quantity < order.quantity
    BY <1>1, LedgerView
  <1> DEFINE entry == Ledger!Entry(order.quantity, order.cumulative_quantity,
                                   order.cumulative_quantity < order.quantity)
  <1>3. LedgerEntry(order) = entry
    BY <1>2 DEF LedgerEntry, Live, Ledger!Entry
  <1>4. id \notin DOMAIN ledger /\ DOMAIN ledger = DOMAIN orders
    BY DEF Opened, ledger
  <1>5. ledger' = [i \in DOMAIN ledger \cup {id} |->
                      IF i = id THEN entry ELSE ledger[i]]
    <2> HIDE DEF entry
    <2> QED BY <1>1, <1>3 DEF ledger, Stored
  <1> QED
    BY <1>1, <1>2, <1>4, <1>5 DEF Ledger!Open

(* A fill executes an entry of the ledger, a cancel closes one.            *)
LEMMA ChangedMapsToExecuteOrClose ==
    ASSUME GoodBook, NEW id \in OrderIds, Changed(id)
    PROVE  Ledger!Execute(id) \/ Ledger!Close(id)
  <1> DEFINE before == orders[id]
  <1>1. PICK order :
          /\ GoodOrder(order)
          /\ Advanced(before, order)
          /\ \/ /\ order.cumulative_quantity > before.cumulative_quantity
                /\ order.state \in {"PARTIALLY_FILLED", "FILLED"}
             \/ /\ order.cumulative_quantity = before.cumulative_quantity
                /\ order.state = "CANCELED"
          /\ orders' = Stored(id, order)
    BY DEF Changed
  <1>2. /\ id \in DOMAIN orders
        /\ Live(before)
        /\ GoodOrder(before)
        /\ order.quantity = before.quantity
    BY <1>1 DEF Changed, GoodBook, Advanced
  <1>3. /\ DOMAIN ledger = DOMAIN orders
        /\ ledger[id] = LedgerEntry(before)
        /\ ledger[id].open
        /\ ledger[id].quantity = before.quantity
        /\ ledger[id].executed = before.cumulative_quantity
    BY <1>2 DEF ledger, LedgerEntry, Live
  <1>4. ledger' = [ledger EXCEPT ![id] = LedgerEntry(order)]
    BY <1>1, <1>2 DEF ledger, Stored
  <1>5. CASE order.state # "CANCELED"
    <2>1. /\ order.cumulative_quantity \in
                before.cumulative_quantity + 1 .. before.quantity
          /\ Live(order) <=> order.cumulative_quantity < before.quantity
      BY <1>1, <1>2, <1>5, LedgerView
    <2>2. LedgerEntry(order) =
            Ledger!Entry(ledger[id].quantity, order.cumulative_quantity,
                         order.cumulative_quantity < ledger[id].quantity)
      BY <1>2, <1>3, <2>1 DEF LedgerEntry, Live, Ledger!Entry
    <2> QED
      BY <1>2, <1>3, <1>4, <2>1, <2>2 DEF Ledger!Execute
  <1>6. CASE order.state = "CANCELED"
    <2>1. LedgerEntry(order) =
            Ledger!Entry(ledger[id].quantity, ledger[id].executed, FALSE)
      BY <1>1, <1>2, <1>3, <1>6 DEF LedgerEntry, TERMINAL_STATES, Ledger!Entry
    <2> QED
      BY <1>2, <1>3, <1>4, <2>1 DEF Ledger!Close
  <1> QED
    BY <1>5, <1>6

(* The book implements the ledger: every call opens, executes or closes    *)
(* one entry, or changes nothing the ledger shows.                         *)
THEOREM BookImplementsLedger == Spec => ImplementsLedger
  <1>1. Init => Ledger!Init
    BY DEF Init, Ledger!Init, ledger
  <1>2. ASSUME GoodBook, [Next]_vars
        PROVE  [Ledger!Next]_ledger
    <2>1. CASE orders' = orders
      BY <2>1 DEF ledger
    <2>2. ASSUME NEW id \in OrderIds, Opened(id)
          PROVE  Ledger!Next
      BY <1>2, <2>2, OpenedMapsToOpen DEF Ledger!Next
    <2>3. ASSUME NEW id \in OrderIds, Changed(id)
          PROVE  Ledger!Next
      BY <1>2, <2>3, ChangedMapsToExecuteOrClose DEF Ledger!Next
    <2> QED
      BY <1>2, <2>1, <2>2, <2>3, StepShape
  <1> QED
    BY <1>1, <1>2, AlwaysGood, PTL DEF Spec, ImplementsLedger, Ledger!Spec

===============================================================================
