------------------------------ MODULE OrderProofs ------------------------------
(***************************************************************************)
(* What the operators of OrderLifecycle and Orders preserve, for every     *)
(* order and every quantity.  OrderBookProofs builds on these lemmas.      *)
(***************************************************************************)
EXTENDS Orders, TLAPS

(* The shape of the arcs of the lifecycle table: where each event leads,   *)
(* that only a live order takes one, and that a request stays in place.    *)
LEMMA ArcShape ==
    ASSUME NEW t \in TRANSITIONS
    PROVE  /\ t.from \in {"NEW", "PARTIALLY_FILLED"}
           /\ t.to \in OrderState
           /\ t.event \in OrderEvent
           /\ t.event = "ACK" => t.from = "NEW" /\ t.to = "NEW"
           /\ t.event = "PARTIAL_FILL" => t.to = "PARTIALLY_FILLED"
           /\ t.event = "FULL_FILL" => t.to = "FILLED"
           /\ t.event = "CANCEL_REQUEST" => t.to = t.from
           /\ t.event = "CANCEL_CONFIRMED" => t.to = "CANCELED"
           /\ t.event = "REJECT" => t.to = "REJECTED"
           /\ t.to = "NEW" => t.from = "NEW"
           /\ t.to = "PARTIALLY_FILLED" =>
                 t.event = "PARTIAL_FILL" \/ t.from = "PARTIALLY_FILLED"
           /\ t = Arc(t.from, t.event, t.to)
  BY DEF TRANSITIONS, Arc, OrderState, OrderEvent

(* The lookup of apply() finds an arc of the table for what was asked.     *)
LEMMA TransitionForIsArc ==
    ASSUME NEW state, NEW event, Permits(state, event)
    PROVE  /\ TransitionFor(state, event) \in TRANSITIONS
           /\ TransitionFor(state, event).from = state
           /\ TransitionFor(state, event).event = event
  BY DEF Permits, TransitionFor

(* Which events the two live states take, and that terminal ones take none. *)
LEMMA PermittedEvents ==
    /\ Permits("NEW", "ACK")
    /\ \A s \in {"NEW", "PARTIALLY_FILLED"} :
          /\ Permits(s, "PARTIAL_FILL")
          /\ Permits(s, "FULL_FILL")
          /\ Permits(s, "CANCEL_REQUEST")
          /\ Permits(s, "CANCEL_CONFIRMED")
    /\ \A s \in TERMINAL_STATES : \A e : ~Permits(s, e)
  <1>1. Permits("NEW", "ACK")
    BY DEF Permits, TRANSITIONS, Arc
  <1>2. ASSUME NEW s \in {"NEW", "PARTIALLY_FILLED"}
        PROVE  /\ Permits(s, "PARTIAL_FILL")
               /\ Permits(s, "FULL_FILL")
               /\ Permits(s, "CANCEL_REQUEST")
               /\ Permits(s, "CANCEL_CONFIRMED")
    BY DEF Permits, TRANSITIONS, Arc
  <1>3. ASSUME NEW s \in TERMINAL_STATES, NEW e
        PROVE  ~Permits(s, e)
    BY ArcShape DEF Permits, TERMINAL_STATES
  <1> QED
    BY <1>1, <1>2, <1>3

(* An order the book may hold: typed, with the executed quantity its state *)
(* announces and a history that leads to that state.                       *)
GoodOrder(order) ==
    /\ order \in Order
    /\ FillsMatchState(order)
    /\ HistoryExplains(order)

(* One permitted event appends one arc, moves along it, and leaves the     *)
(* quantities alone.                                                       *)
LEMMA AppliedEvent ==
    ASSUME NEW order \in Order, NEW event, Permits(order.state, event)
    PROVE  LET t == TransitionFor(order.state, event)
               applied == ApplyEvent(order, event)
           IN  /\ applied \in Order
               /\ applied.quantity = order.quantity
               /\ applied.cumulative_quantity = order.cumulative_quantity
               /\ applied.state = t.to
               /\ applied.history = Append(order.history, t)
  <1> DEFINE t == TransitionFor(order.state, event)
             moved == [order EXCEPT !.state = t.to]
             applied == [moved EXCEPT !.history = Append(order.history, t)]
  <1>1. t \in TRANSITIONS /\ t.to \in OrderState
    BY TransitionForIsArc, ArcShape
  <1>2. /\ moved \in Order
        /\ moved.quantity = order.quantity
        /\ moved.cumulative_quantity = order.cumulative_quantity
        /\ moved.state = t.to
        /\ moved.history = order.history
    <2> HIDE DEF t
    <2> QED BY <1>1 DEF Order
  <1>3. /\ applied \in Order
        /\ applied.quantity = order.quantity
        /\ applied.cumulative_quantity = order.cumulative_quantity
        /\ applied.state = t.to
        /\ applied.history = Append(order.history, t)
    <2>1. PICK longer : longer = Append(order.history, t)
      OBVIOUS
    <2>2. longer \in Seq(TRANSITIONS)
      <3>1. order.history \in Seq(TRANSITIONS)
        BY DEF Order
      <3> HIDE DEF t
      <3> QED BY <1>1, <2>1, <3>1
    <2> PICK H : H = Seq(TRANSITIONS)
      OBVIOUS
    <2>3. Order = [quantity : Nat \ {0}, cumulative_quantity : Nat,
                   state : OrderState, history : H]
      BY DEF Order
    <2>4. applied = [moved EXCEPT !.history = longer]
      BY <2>1
    <2>5. PICK a : a = applied
      OBVIOUS
    <2> HIDE DEF t, moved, applied
    <2>6. /\ a \in Order /\ a.quantity = moved.quantity
          /\ a.cumulative_quantity = moved.cumulative_quantity
          /\ a.state = moved.state /\ a.history = longer
      BY <1>2, <2>2, <2>3, <2>4, <2>5
    <2> QED BY <1>2, <2>1, <2>5, <2>6
  <1>4. ApplyEvent(order, event) = applied
    BY DEF ApplyEvent
  <1> QED
    BY <1>3, <1>4

(* Appending an arc that starts where the history ends, and that is no     *)
(* second acknowledgement and no part of a cancel, keeps the history an    *)
(* explanation.                                                            *)
LEMMA HistoryGrows ==
    ASSUME NEW order \in Order, HistoryExplains(order),
           NEW t \in TRANSITIONS, t.from = order.state,
           t.event \notin {"ACK", "CANCEL_REQUEST", "CANCEL_CONFIRMED"},
           NEW grown \in Order,
           grown.history = Append(order.history, t),
           grown.state = t.to
    PROVE  HistoryExplains(grown)
  <1> DEFINE h == order.history
             g == grown.history
  <1>1. h \in Seq(TRANSITIONS) /\ g = Append(h, t)
    BY DEF Order
  <1>2. /\ Len(g) = Len(h) + 1
        /\ \A i \in 1 .. Len(h) : g[i] = h[i]
        /\ g[Len(h) + 1] = t
    BY <1>1
  <1> QED
    BY <1>1, <1>2 DEF HistoryExplains

(* The order accept_order puts into the book.                              *)
LEMMA AcknowledgedIsGood ==
    ASSUME NEW quantity \in Nat \ {0}
    PROVE  LET order == AcknowledgedOrder(quantity)
           IN  /\ GoodOrder(order)
               /\ order.quantity = quantity
               /\ order.cumulative_quantity = 0
               /\ order.state = "NEW"
               /\ order.history = <<Arc("NEW", "ACK", "NEW")>>
  <1> DEFINE fresh == [quantity |-> quantity, cumulative_quantity |-> 0,
                       state |-> "NEW", history |-> <<>>]
             t == TransitionFor("NEW", "ACK")
             order == AcknowledgedOrder(quantity)
  <1>1. fresh \in Order /\ Permits("NEW", "ACK") /\ fresh.state = "NEW"
    BY PermittedEvents DEF Order, OrderState
  <1>2. t = Arc("NEW", "ACK", "NEW")
    BY PermittedEvents, TransitionForIsArc, ArcShape
  <1>3. order = ApplyEvent(fresh, "ACK")
    BY DEF AcknowledgedOrder
  <1>4. /\ order \in Order
        /\ order.quantity = quantity
        /\ order.cumulative_quantity = 0
        /\ order.state = t.to
        /\ order.history = Append(<<>>, t)
    <2> HIDE DEF t, order
    <2> QED BY <1>1, <1>3, AppliedEvent DEF t
  <1>5. order.state = "NEW" /\ order.history = <<Arc("NEW", "ACK", "NEW")>>
    BY <1>2, <1>4 DEF Arc
  <1>6. FillsMatchState(order)
    BY <1>4, <1>5 DEF FillsMatchState
  <1>7. HistoryExplains(order)
    <2> HIDE DEF order
    <2> QED BY <1>5 DEF HistoryExplains, Arc
  <1> QED
    BY <1>4, <1>5, <1>6, <1>7 DEF GoodOrder

(* A fill that fill_order does not refuse moves a live order to the state  *)
(* its new executed quantity calls for.                                    *)
LEMMA FilledIsGood ==
    ASSUME NEW order, GoodOrder(order),
           NEW quantity \in Nat, NEW require_partial \in BOOLEAN,
           FillOutcome(order, quantity, require_partial) = "ok"
    PROVE  LET filled == FilledOrder(order, quantity)
           IN  /\ GoodOrder(filled)
               /\ filled.quantity = order.quantity
               /\ filled.cumulative_quantity = order.cumulative_quantity + quantity
               /\ filled.state = IF quantity = Leaves(order)
                                 THEN "FILLED" ELSE "PARTIALLY_FILLED"
               /\ filled.history =
                    Append(order.history,
                           TransitionFor(order.state, FillEvent(order, quantity)))
  <1> DEFINE event == FillEvent(order, quantity)
             t == TransitionFor(order.state, event)
             applied == ApplyEvent(order, event)
             filled == FilledOrder(order, quantity)
  <1>1. /\ order \in Order
        /\ quantity > 0
        /\ quantity <= Leaves(order)
        /\ Permits(order.state, event)
    BY DEF GoodOrder, FillOutcome, Order, Leaves
  <1>2. /\ t \in TRANSITIONS
        /\ t.from = order.state
        /\ t.event = event
        /\ t.event \notin {"ACK", "CANCEL_REQUEST", "CANCEL_CONFIRMED"}
        /\ t.to = IF quantity = Leaves(order)
                  THEN "FILLED" ELSE "PARTIALLY_FILLED"
        /\ t.from \in {"NEW", "PARTIALLY_FILLED"}
    BY <1>1, TransitionForIsArc, ArcShape DEF FillEvent
  <1>3. /\ applied \in Order
        /\ applied.quantity = order.quantity
        /\ applied.cumulative_quantity = order.cumulative_quantity
        /\ applied.state = t.to
        /\ applied.history = Append(order.history, t)
    BY <1>1, AppliedEvent
  <1>4. filled = [applied EXCEPT !.cumulative_quantity =
                                    applied.cumulative_quantity + quantity]
    BY DEF FilledOrder
  <1>5. /\ filled \in Order
        /\ filled.quantity = order.quantity
        /\ filled.cumulative_quantity = order.cumulative_quantity + quantity
        /\ filled.state = t.to
        /\ filled.history = Append(order.history, t)
    <2> HIDE DEF applied, t, filled
    <2> QED BY <1>3, <1>4 DEF Order
  <1>6. FillsMatchState(filled)
    <2> HIDE DEF filled, t
    <2> QED BY <1>1, <1>2, <1>5 DEF FillsMatchState, GoodOrder, Leaves, Order
  <1>7. HistoryExplains(filled)
    <2> HIDE DEF filled, t
    <2> QED BY <1>1, <1>2, <1>5, HistoryGrows DEF GoodOrder
  <1> QED
    BY <1>2, <1>5, <1>6, <1>7 DEF GoodOrder

(* A cancel of a live order appends the request and its confirmation and   *)
(* closes the order with what it had executed.                             *)
LEMMA CanceledIsGood ==
    ASSUME NEW order, GoodOrder(order), order.state \notin TERMINAL_STATES
    PROVE  LET canceled == AfterCancel(order)
           IN  /\ GoodOrder(canceled)
               /\ CancelOutcome(order) = "ok"
               /\ canceled.quantity = order.quantity
               /\ canceled.cumulative_quantity = order.cumulative_quantity
               /\ canceled.state = "CANCELED"
               /\ Len(canceled.history) = Len(order.history) + 2
               /\ \A i \in 1 .. Len(order.history) :
                        canceled.history[i] = order.history[i]
               /\ canceled.history[Len(order.history) + 1].event = "CANCEL_REQUEST"
               /\ canceled.history[Len(order.history) + 2].event = "CANCEL_CONFIRMED"
  <1> DEFINE request == TransitionFor(order.state, "CANCEL_REQUEST")
             requested == CancelRequested(order)
             confirm == TransitionFor(requested.state, "CANCEL_CONFIRMED")
             canceled == CanceledOrder(order)
  <1>1. /\ order \in Order
        /\ order.state \in {"NEW", "PARTIALLY_FILLED"}
        /\ Permits(order.state, "CANCEL_REQUEST")
    BY PermittedEvents DEF GoodOrder, Order, OrderState, TERMINAL_STATES
  <1>2. /\ request \in TRANSITIONS
        /\ request.from = order.state
        /\ request.event = "CANCEL_REQUEST"
        /\ request.to = order.state
    BY <1>1, TransitionForIsArc, ArcShape
  <1>3. /\ requested \in Order
        /\ requested.quantity = order.quantity
        /\ requested.cumulative_quantity = order.cumulative_quantity
        /\ requested.state = order.state
        /\ requested.history = Append(order.history, request)
    <2>1. requested = ApplyEvent(order, "CANCEL_REQUEST")
      BY DEF CancelRequested
    <2> HIDE DEF requested
    <2> QED BY <1>1, <1>2, <2>1, AppliedEvent
  <1>4. Permits(requested.state, "CANCEL_CONFIRMED")
    BY <1>1, <1>3, PermittedEvents
  <1>5. /\ confirm \in TRANSITIONS
        /\ confirm.from = order.state
        /\ confirm.event = "CANCEL_CONFIRMED"
        /\ confirm.to = "CANCELED"
    BY <1>3, <1>4, TransitionForIsArc, ArcShape
  <1>6. /\ canceled \in Order
        /\ canceled.quantity = order.quantity
        /\ canceled.cumulative_quantity = order.cumulative_quantity
        /\ canceled.state = "CANCELED"
        /\ canceled.history = Append(Append(order.history, request), confirm)
    <2>1. canceled = ApplyEvent(requested, "CANCEL_CONFIRMED")
      BY DEF CanceledOrder
    <2> HIDE DEF requested, canceled, confirm, request
    <2>2. /\ canceled \in Order
          /\ canceled.quantity = requested.quantity
          /\ canceled.cumulative_quantity = requested.cumulative_quantity
          /\ canceled.state = confirm.to
          /\ canceled.history = Append(requested.history, confirm)
      BY <1>3, <1>4, <2>1, AppliedEvent DEF confirm
    <2> QED BY <1>3, <1>5, <2>2
  <1>7. FillsMatchState(canceled)
    <2> HIDE DEF canceled
    <2> QED BY <1>1, <1>6 DEF FillsMatchState, GoodOrder, Order
  <1>8. HistoryExplains(canceled)
    <2> HIDE DEF canceled, request, confirm
    <2> DEFINE h == order.history
               g == canceled.history
    <2>1. h \in Seq(TRANSITIONS)
      BY <1>1 DEF Order
    <2>2. /\ Len(g) = Len(h) + 2
          /\ \A i \in 1 .. Len(h) : g[i] = h[i]
          /\ g[Len(h) + 1] = request
          /\ g[Len(h) + 2] = confirm
      BY <1>2, <1>5, <1>6, <2>1
    <2>3. /\ Len(h) \in Nat /\ Len(h) > 0
          /\ h[1] = Arc("NEW", "ACK", "NEW")
          /\ \A i \in 1 .. Len(h) - 1 : h[i].to = h[i + 1].from
          /\ h[Len(h)].to = order.state
          /\ \A i \in 2 .. Len(h) : h[i].event # "ACK"
          /\ \A i \in 1 .. Len(h) : h[i].event = "CANCEL_REQUEST" =>
                  i < Len(h) /\ h[i + 1].event = "CANCEL_CONFIRMED"
          /\ \A i \in 1 .. Len(h) : h[i].event = "CANCEL_CONFIRMED" =>
                  i > 1 /\ h[i - 1].event = "CANCEL_REQUEST"
      BY <2>1 DEF GoodOrder, HistoryExplains
    <2> HIDE DEF h, g
    <2>4. Len(g) > 0 /\ g[1] = Arc("NEW", "ACK", "NEW")
      BY <2>2, <2>3
    <2>5. ASSUME NEW i \in 1 .. Len(g) - 1
          PROVE  g[i].to = g[i + 1].from
      <3>1. CASE i < Len(h)
        BY <2>2, <2>3, <3>1
      <3>2. CASE i = Len(h)
        BY <1>2, <2>2, <2>3, <3>2
      <3>3. CASE i = Len(h) + 1
        BY <1>2, <1>5, <2>2, <2>3, <3>3
      <3> QED BY <2>2, <2>3, <3>1, <3>2, <3>3
    <2>6. g[Len(g)].to = canceled.state
      BY <1>5, <1>6, <2>2, <2>3
    <2>7. ASSUME NEW i \in 2 .. Len(g)
          PROVE  g[i].event # "ACK"
      <3>1. CASE i <= Len(h)
        BY <2>2, <2>3, <3>1
      <3>2. CASE i > Len(h)
        BY <1>2, <1>5, <2>2, <2>3, <3>2
      <3> QED BY <2>2, <2>3, <3>1, <3>2
    <2>8. ASSUME NEW i \in 1 .. Len(g), g[i].event = "CANCEL_REQUEST"
          PROVE  i < Len(g) /\ g[i + 1].event = "CANCEL_CONFIRMED"
      <3>1. CASE i <= Len(h)
        BY <2>2, <2>3, <2>8, <3>1
      <3>2. CASE i > Len(h)
        BY <1>2, <1>5, <2>2, <2>3, <2>8, <3>2
      <3> QED BY <2>2, <2>3, <3>1, <3>2
    <2>9. ASSUME NEW i \in 1 .. Len(g), g[i].event = "CANCEL_CONFIRMED"
          PROVE  i > 1 /\ g[i - 1].event = "CANCEL_REQUEST"
      <3>1. CASE i <= Len(h)
        <4>1. i \in 1 .. Len(h) /\ h[i].event = "CANCEL_CONFIRMED"
          BY <2>2, <2>3, <2>9, <3>1
        <4>2. i > 1 /\ h[i - 1].event = "CANCEL_REQUEST" /\ i - 1 \in 1 .. Len(h)
          BY <2>3, <4>1
        <4> QED BY <2>2, <4>2
      <3>2. CASE i = Len(h) + 1
        BY <1>2, <2>2, <2>9, <3>2
      <3>3. CASE i = Len(h) + 2
        BY <1>2, <2>2, <2>3, <3>3
      <3> QED BY <2>2, <2>3, <3>1, <3>2, <3>3
    <2> QED
      BY <2>4, <2>5, <2>6, <2>7, <2>8, <2>9 DEF HistoryExplains, g
  <1>9. /\ Len(canceled.history) = Len(order.history) + 2
        /\ \A i \in 1 .. Len(order.history) :
                 canceled.history[i] = order.history[i]
        /\ canceled.history[Len(order.history) + 1].event = "CANCEL_REQUEST"
        /\ canceled.history[Len(order.history) + 2].event = "CANCEL_CONFIRMED"
    <2> HIDE DEF canceled, request, confirm
    <2>1. order.history \in Seq(TRANSITIONS)
      BY <1>1 DEF Order
    <2> QED BY <1>2, <1>5, <1>6, <2>1
  <1>10. AfterCancel(order) = canceled /\ CancelOutcome(order) = "ok"
    BY <1>1, <1>4 DEF AfterCancel, CancelOutcome
  <1> QED
    BY <1>6, <1>7, <1>8, <1>9, <1>10 DEF GoodOrder

(* A cancel of an order in a terminal state raises and changes nothing.    *)
LEMMA RefusedCancel ==
    ASSUME NEW order, order.state \in TERMINAL_STATES
    PROVE  /\ AfterCancel(order) = order
           /\ CancelOutcome(order) = "InvalidTransitionError"
  BY PermittedEvents DEF AfterCancel, CancelOutcome

===============================================================================
