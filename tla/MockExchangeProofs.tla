--------------------------- MODULE MockExchangeProofs ---------------------------
(***************************************************************************)
(* Invariants and the refinement of MockExchange, for any sessions, timers,*)
(* requests, fill plans, chaos and faults.                                 *)
(*                                                                         *)
(* Few steps touch the book: one accepts an order and fills it by its plan,*)
(* one cancels an order.  What they do to one order is the business of     *)
(* OrderProofs; here it is carried along a plan of any length and past     *)
(* everything else the threads do.                                         *)
(***************************************************************************)
EXTENDS MockExchange, OrderProofs, WellFoundedInduction, SequenceTheorems

-------------------------------------------------------------------------------
(* Numbers                                                                 *)

LEMMA LeastNatural ==
    ASSUME NEW S \in SUBSET Nat, S # {}
    PROVE  \E m \in S : \A n \in S : m <= n
  <1>1. PICK m \in S : \A n \in S : ~(<<n, m>> \in OpToRel(<, Nat))
    BY NatLessThanWellFounded, WFMin
  <1>2. \A n \in S : ~(n < m)
    BY <1>1 DEF OpToRel
  <1> QED BY <1>2

LEMMA GreatestNatural ==
    ASSUME NEW n \in Nat, NEW S \in SUBSET (0 .. n), S # {}
    PROVE  Max(S) \in S
  <1> DEFINE Below == {d \in 0 .. n : n - d \in S}
  <1>1. Below # {} /\ Below \in SUBSET Nat
    <2>1. PICK k \in S : TRUE
      OBVIOUS
    <2>2. n - k \in 0 .. n /\ n - (n - k) = k
      OBVIOUS
    <2>3. n - k \in Below
      BY <2>2
    <2>4. Below \subseteq 0 .. n /\ 0 .. n \subseteq Nat
      OBVIOUS
    <2> HIDE DEF Below
    <2> QED BY <2>3, <2>4
  <1>2. PICK d \in Below : \A e \in Below : d <= e
    BY <1>1, LeastNatural
  <1>3. ASSUME NEW k \in S PROVE n - d >= k
    <2>1. n - k \in Below
      <3>1. n - k \in 0 .. n /\ n - (n - k) = k
        OBVIOUS
      <3> QED BY <3>1
    <2>2. d <= n - k /\ d \in 0 .. n
      BY <1>2, <2>1
    <2> QED BY <2>2
  <1>4. n - d \in S
    BY <1>2
  <1> QED BY <1>3, <1>4 DEF Max

-------------------------------------------------------------------------------
(* The fills of a plan                                                     *)

(* The recursive function of AfterFills, on a beginning of the plan.       *)
Unrolled(f, quantity, plan, n) ==
    f = [k \in 0 .. n |-> IF k = 0 THEN AcknowledgedOrder(quantity)
                          ELSE FilledOrder(f[k - 1], plan[k])]

LEMMA FillsExist ==
    ASSUME NEW quantity, NEW plan, NEW n \in Nat
    PROVE  \E f : Unrolled(f, quantity, plan, n)
  <1> DEFINE Missing == {m \in Nat : ~ \E f : Unrolled(f, quantity, plan, m)}
  <1>1. SUFFICES ASSUME Missing # {} PROVE FALSE
    OBVIOUS
  <1>2. PICK m \in Missing : \A k \in Missing : m <= k
    BY <1>1, LeastNatural
  <1>3. CASE m = 0
    <2> DEFINE f == [k \in 0 .. 0 |-> AcknowledgedOrder(quantity)]
    <2>1. Unrolled(f, quantity, plan, 0)
      BY DEF Unrolled
    <2> QED BY <1>2, <1>3, <2>1
  <1>4. CASE m # 0
    <2>1. m - 1 \in Nat /\ m - 1 \notin Missing
      BY <1>2, <1>4
    <2>2. PICK g : Unrolled(g, quantity, plan, m - 1)
      BY <2>1
    <2> DEFINE f == [k \in 0 .. m |-> IF k = m THEN FilledOrder(g[m - 1], plan[m]) ELSE g[k]]
    <2>3. /\ \A k \in 0 .. m - 1 : f[k] = g[k]
          /\ f[m] = FilledOrder(g[m - 1], plan[m])
      BY <2>1
    <2>4. \A k \in 0 .. m - 1 : g[k] = IF k = 0 THEN AcknowledgedOrder(quantity)
                                       ELSE FilledOrder(g[k - 1], plan[k])
      BY <2>1, <2>2 DEF Unrolled
    <2>5. ASSUME NEW k \in 0 .. m
          PROVE  f[k] = IF k = 0 THEN AcknowledgedOrder(quantity)
                        ELSE FilledOrder(f[k - 1], plan[k])
      <3>1. CASE k = m
        <4>1. f[m - 1] = g[m - 1]
          BY <1>4, <2>1, <2>3
        <4> HIDE DEF f
        <4> QED BY <1>4, <2>3, <3>1, <4>1
      <3>2. CASE k # m
        <4>1. k \in 0 .. m - 1 /\ (k # 0 => k - 1 \in 0 .. m - 1)
          BY <2>1, <3>2
        <4> HIDE DEF f
        <4> QED BY <2>3, <2>4, <4>1
      <3> QED BY <3>1, <3>2
    <2>6. f = [k \in 0 .. m |-> f[k]]
      OBVIOUS
    <2>7. Unrolled(f, quantity, plan, m)
      <3> HIDE DEF f
      <3> QED BY <2>5, <2>6 DEF Unrolled
    <2> QED BY <1>2, <2>7
  <1> QED BY <1>3, <1>4

LEMMA FillsUnroll ==
    ASSUME NEW quantity, NEW plan \in Seq(Nat), NEW filled, filled = AfterFills(quantity, plan)
    PROVE  /\ filled[0] = AcknowledgedOrder(quantity)
           /\ \A k \in 1 .. Len(plan) : filled[k] = FilledOrder(filled[k - 1], plan[k])
  <1>1. Len(plan) \in Nat
    OBVIOUS
  <1>2. filled = CHOOSE f : Unrolled(f, quantity, plan, Len(plan))
    BY DEF AfterFills, Unrolled
  <1>3. Unrolled(filled, quantity, plan, Len(plan))
    BY <1>1, <1>2, FillsExist
  <1> QED BY <1>1, <1>3 DEF Unrolled

(* As many fills are taken as fill_order does not refuse.                  *)
LEMMA FillsAreTaken ==
    ASSUME NEW filled, NEW plan \in Seq(Nat), NEW taken, taken = FillsTaken(filled, plan)
    PROVE  /\ taken \in 0 .. Len(plan)
           /\ \A i \in 1 .. taken : FillOutcome(filled[i - 1], plan[i], FALSE) = "ok"
  <1> DEFINE Possible == {k \in 0 .. Len(plan) : \A i \in 1 .. k :
                             FillOutcome(filled[i - 1], plan[i], FALSE) = "ok"}
  <1>1. Len(plan) \in Nat /\ 0 \in 0 .. Len(plan) /\ 1 .. 0 = {}
    OBVIOUS
  <1>2. 0 \in Possible
    BY <1>1
  <1>3. taken = Max(Possible) /\ Possible \in SUBSET (0 .. Len(plan))
    BY DEF FillsTaken
  <1>4. taken \in Possible
    <2> HIDE DEF Possible
    <2> QED BY <1>1, <1>2, <1>3, GreatestNatural
  <1> QED BY <1>4

(* The arcs of an order nobody has asked to cancel.                        *)
OpeningEvents == {"ACK", "PARTIAL_FILL", "FULL_FILL"}

(* The order after k fills: good, not canceled, with one arc for each fill *)
(* and one for the acknowledgement.                                        *)
FilledTimes(order, quantity, k) ==
    /\ GoodOrder(order)
    /\ order.quantity = quantity
    /\ order.state \in {"NEW", "PARTIALLY_FILLED", "FILLED"}
    /\ Len(order.history) = k + 1
    /\ \A i \in 1 .. k + 1 : order.history[i].event \in OpeningEvents

LEMMA FillsAreGood ==
    ASSUME NEW quantity \in Nat \ {0}, NEW plan \in Seq(Nat),
           NEW filled, filled = AfterFills(quantity, plan),
           NEW taken, taken = FillsTaken(filled, plan)
    PROVE  /\ taken \in 0 .. Len(plan)
           /\ \A k \in 0 .. taken : FilledTimes(filled[k], quantity, k)
  <1>0. /\ taken \in 0 .. Len(plan)
        /\ \A i \in 1 .. taken : FillOutcome(filled[i - 1], plan[i], FALSE) = "ok"
    BY FillsAreTaken
  <1>1. taken \in 0 .. Len(plan) /\ taken \in Nat /\ Len(plan) \in Nat
    <2>1. Len(plan) \in Nat
      OBVIOUS
    <2>2. taken \in 0 .. Len(plan)
      BY <1>0
    <2> QED BY <2>1, <2>2
  <1>2. /\ filled[0] = AcknowledgedOrder(quantity)
        /\ \A k \in 1 .. Len(plan) : filled[k] = FilledOrder(filled[k - 1], plan[k])
    BY FillsUnroll
  <1> DEFINE Bad == {k \in 0 .. taken : ~FilledTimes(filled[k], quantity, k)}
  <1>3. SUFFICES ASSUME Bad # {} PROVE FALSE
    BY <1>1
  <1> Bad \in SUBSET Nat
    BY <1>1
  <1>4. PICK k \in Bad : \A j \in Bad : k <= j
    BY <1>1, <1>3, LeastNatural
  <1>5. CASE k = 0
    <2> PICK order : order = AcknowledgedOrder(quantity)
      OBVIOUS
    <2>0. /\ GoodOrder(order) /\ order.quantity = quantity /\ order.state = "NEW"
          /\ order.history = <<Arc("NEW", "ACK", "NEW")>>
      BY AcknowledgedIsGood
    <2>1. FilledTimes(order, quantity, 0)
      BY <2>0 DEF FilledTimes, OpeningEvents, Arc
    <2> QED BY <1>2, <1>4, <1>5, <2>1
  <1>6. CASE k # 0
    <2> PICK order : order = filled[k - 1]
      OBVIOUS
    <2>0. k \in 0 .. taken /\ k - 1 < k
      BY <1>1, <1>4
    <2>1. k \in 1 .. taken /\ k \in 1 .. Len(plan) /\ k - 1 \in 0 .. taken
      <3> HIDE DEF Bad
      <3> QED BY <1>1, <1>6, <2>0
    <2>2. FilledTimes(order, quantity, k - 1)
      <3>1. k - 1 \notin Bad
        <4> HIDE DEF Bad
        <4> QED BY <1>1, <1>4, <2>0, <2>1
      <3> QED BY <2>1, <3>1
    <2>3. plan[k] \in Nat /\ FillOutcome(order, plan[k], FALSE) = "ok"
      <3>1. plan[k] \in Nat
        BY <2>1
      <3> QED BY <1>0, <2>1, <3>1
    <2>4. filled[k] = FilledOrder(order, plan[k])
      BY <1>2, <2>1
    <2> DEFINE t == TransitionFor(order.state, FillEvent(order, plan[k]))
    <2>5. /\ GoodOrder(filled[k])
          /\ filled[k].quantity = order.quantity
          /\ filled[k].state \in {"PARTIALLY_FILLED", "FILLED"}
          /\ filled[k].history = Append(order.history, t)
      <3> PICK amount : amount = plan[k]
        OBVIOUS
      <3>1. /\ amount \in Nat /\ FALSE \in BOOLEAN /\ GoodOrder(order)
            /\ FillOutcome(order, amount, FALSE) = "ok"
        BY <2>2, <2>3 DEF FilledTimes
      <3> PICK later : later = FilledOrder(order, amount)
        OBVIOUS
      <3>2. /\ GoodOrder(later)
            /\ later.quantity = order.quantity
            /\ later.state = IF amount = Leaves(order) THEN "FILLED" ELSE "PARTIALLY_FILLED"
            /\ later.history = Append(order.history,
                                     TransitionFor(order.state, FillEvent(order, amount)))
        BY <3>1, FilledIsGood
      <3> QED BY <2>4, <3>2
    <2>6. order.history \in Seq(TRANSITIONS)
      BY <2>2 DEF FilledTimes, GoodOrder, Order
    <2>7. Len(filled[k].history) = Len(order.history) + 1
      <3> HIDE DEF t
      <3> QED BY <2>5, <2>6
    <2>8. Len(filled[k].history) = k + 1
      BY <2>1, <2>2, <2>7 DEF FilledTimes
    <2>9. t.event \in OpeningEvents
      <3>1. Permits(order.state, FillEvent(order, plan[k]))
        BY <2>3 DEF FillOutcome
      <3>2. t.event = FillEvent(order, plan[k])
        BY <3>1, TransitionForIsArc
      <3> QED BY <3>2 DEF FillEvent, OpeningEvents
    <2>10. ASSUME NEW i \in 1 .. k + 1
           PROVE  filled[k].history[i].event \in OpeningEvents
      <3> HIDE DEF t
      <3>1. /\ k \in Nat /\ Len(order.history) = k
            /\ filled[k].history = Append(order.history, t)
        BY <2>1, <2>2, <2>5 DEF FilledTimes
      <3>2. i = k + 1 \/ i \in 1 .. k
        BY <3>1
      <3>3. CASE i = k + 1
        BY <2>6, <2>9, <3>1, <3>3
      <3>4. CASE i \in 1 .. k
        <4>1. filled[k].history[i] = order.history[i]
          BY <2>6, <3>1, <3>4
        <4>2. order.history[i].event \in OpeningEvents
          BY <2>1, <2>2, <3>4 DEF FilledTimes
        <4> QED BY <4>1, <4>2
      <3> QED BY <3>2, <3>3, <3>4
    <2> HIDE DEF t
    <2> QED BY <1>4, <2>2, <2>5, <2>8, <2>10 DEF FilledTimes
  <1> QED BY <1>5, <1>6

(* Every plan is a sequence of quantities.                                 *)
LEMMA PlansAreSequences ==
    ASSUME NEW quantity \in Nat, strategy \in FillStrategies, NEW plan \in FillPlans(quantity)
    PROVE  plan \in Seq(Nat)
  <1>1. /\ quantity \div 2 \in Nat /\ quantity - quantity \div 2 \in Nat
        /\ quantity \div 4 \in Nat /\ quantity - 2 * (quantity \div 4) \in Nat
    OBVIOUS
  <1>2. strategy \in {"resting", "full", "partial_then_full", "two_partial_then_full", "callable"}
    BY StrategiesAssumption
  <1>3. CASE strategy = "resting"
    BY <1>3 DEF FillPlans, PlansOf
  <1>4. CASE strategy = "full"
    BY <1>4 DEF FillPlans, PlansOf
  <1>5. CASE strategy = "partial_then_full"
    <2>1. plan = <<quantity \div 2, quantity - quantity \div 2>>
      BY <1>5 DEF FillPlans, PlansOf
    <2>2. \A a, b \in Nat : <<a, b>> \in Seq(Nat)
      OBVIOUS
    <2> QED BY <1>1, <2>1, <2>2
  <1>6. CASE strategy = "two_partial_then_full"
    <2>1. plan = <<quantity \div 4, quantity \div 4, quantity - 2 * (quantity \div 4)>>
      BY <1>6 DEF FillPlans, PlansOf
    <2>2. \A a, b, c \in Nat : <<a, b, c>> \in Seq(Nat)
      OBVIOUS
    <2> QED BY <1>1, <2>1, <2>2
  <1>7. CASE strategy = "callable"
    BY <1>7, PlansAssumption DEF FillPlans, PlansOf
  <1> QED BY <1>2, <1>3, <1>4, <1>5, <1>6, <1>7

-------------------------------------------------------------------------------
(* The invariant, by the parts of the state that steps change together.    *)

LogEntries ==
    [direction : {"RECEIVED", "SENT", "DUPLICATE_SENT", "DROPPED", "DELIVERY_FAILED"},
     session : Sessions, message : Messages]

(* What is cached was accepted, and every order in the book is good.       *)
BooksInv ==
    /\ orders \in [DOMAIN orders -> Order]
    /\ \A id \in DOMAIN orders : GoodOrder(orders[id])
    /\ responses \in [DOMAIN responses -> Seq(Messages)]
    /\ DOMAIN responses \subseteq DOMAIN orders
    /\ nextExec \in Nat
    /\ strategy \in FillStrategies
    /\ chaos \in ChaosModes

(* A thread that is handling a message has one.                            *)
ThreadsInv ==
    /\ at \in [Sessions -> {"none", "accepted", "logon", "turn", "receive",
                            "lookup", "accept", "cancel", "done"}]
    /\ request \in [Sessions -> Requests \cup {Nothing}]
    /\ \A s \in Sessions : at[s] \in {"lookup", "accept", "cancel"} => request[s] \in Requests

SendingInv ==
    /\ out \in [Sessions -> Seq(Messages)]
    /\ hand \in [Threads -> Seq(AllDeliveries)]
    /\ pending \in AllDeliveries \cup {Nothing}
    /\ log \in Seq(LogEntries)

ServiceInv ==
    /\ socket \in [Sessions -> {"none", "open", "hungup", "closed"}]
    /\ acceptor \in Sessions \cup {"waiting", "exited"}
    /\ phase \in {"running", "stopping", "flushed", "closed", "stopped"}

ExchangeInv == BooksInv /\ ThreadsInv /\ SendingInv /\ ServiceInv

LEMMA InvariantIsTyped == ExchangeInv => TypeOK
  BY DEF ExchangeInv, BooksInv, ThreadsInv, SendingInv, ServiceInv, LogEntries, TypeOK

LEMMA BooksKept == ASSUME BooksInv, UNCHANGED books PROVE BooksInv'
  BY DEF BooksInv, books, config

LEMMA ThreadsKept == ASSUME ThreadsInv, UNCHANGED <<at, request>> PROVE ThreadsInv'
  BY DEF ThreadsInv

LEMMA SendingKept == ASSUME SendingInv, UNCHANGED <<out, hand, pending, log>> PROVE SendingInv'
  BY DEF SendingInv

LEMMA ServiceKept == ASSUME ServiceInv, UNCHANGED <<socket, service>> PROVE ServiceInv'
  BY DEF ServiceInv, service

-------------------------------------------------------------------------------
(* What the exchange goes through, whoever its peers are and however many  *)
(* messages they send.  The steps of MockExchange are such steps, and so   *)
(* are those of any module that puts clients in front of it.               *)
PeerLeaves(s) ==
    /\ socket' = [socket EXCEPT ![s] = "hungup"]
    /\ UNCHANGED <<books, at, request, out, hand, pending, service, log>>

Serves ==
    \/ Exchange
    \/ \E s \in Sessions : PeerLeaves(s)
    \/ \E s \in Sessions, r \in Requests : Receive(s, r)

LEMMA NextServes == [Next]_vars => [Serves]_vars
  BY DEF Next, Serves, HangUp, PeerLeaves

-------------------------------------------------------------------------------
(* Connections, start() and stop()                                         *)

LEMMA ConnectionsKeep ==
    ASSUME ExchangeInv, NEW s \in Sessions,
           \/ AcceptConnection(s) \/ Register(s) \/ Logon(s) \/ Listen(s) \/ SessionEnds(s)
           \/ PeerLeaves(s) \/ AcceptorExits
    PROVE  ExchangeInv' /\ UNCHANGED books
  <1>1. UNCHANGED books /\ UNCHANGED <<out, hand, pending, log>> /\ UNCHANGED request
    BY DEF AcceptConnection, Register, Logon, Listen, SessionEnds, PeerLeaves, AcceptorExits, service
  <1>2. BooksInv' /\ SendingInv'
    BY <1>1, BooksKept, SendingKept DEF ExchangeInv
  <1>3. \/ at' = at
        \/ \E place \in {"accepted", "logon", "turn", "receive", "done"} :
              at' = [at EXCEPT ![s] = place]
    BY DEF AcceptConnection, Register, Logon, Listen, SessionEnds, PeerLeaves, AcceptorExits
  <1>4. ThreadsInv'
    BY <1>1, <1>3 DEF ExchangeInv, ThreadsInv
  <1>5. /\ \/ socket' = socket
           \/ \E state \in {"open", "hungup", "closed"} : socket' = [socket EXCEPT ![s] = state]
        /\ acceptor' \in {acceptor, s, "waiting", "exited"}
        /\ phase' = phase
    BY DEF AcceptConnection, Register, Logon, Listen, SessionEnds, PeerLeaves, AcceptorExits, service
  <1>6. ServiceInv'
    BY <1>5 DEF ExchangeInv, ServiceInv
  <1> QED BY <1>1, <1>2, <1>4, <1>6 DEF ExchangeInv

LEMMA StoppingKeeps ==
    ASSUME ExchangeInv, Stop \/ StopClose \/ StopJoin \/ Start
    PROVE  ExchangeInv' /\ UNCHANGED books
  <1>1. /\ UNCHANGED books /\ UNCHANGED <<out, hand, pending, log>> /\ UNCHANGED <<at, request>>
    BY DEF Stop, StopClose, StopJoin, Start
  <1>2. BooksInv' /\ SendingInv' /\ ThreadsInv'
    BY <1>1, BooksKept, SendingKept, ThreadsKept DEF ExchangeInv
  <1>3. ServiceInv'
    BY DEF Stop, StopClose, StopJoin, Start, ExchangeInv, ServiceInv
  <1> QED BY <1>1, <1>2, <1>3 DEF ExchangeInv

-------------------------------------------------------------------------------
(* Sending                                                                 *)

LEMMA HeadAndTail ==
    ASSUME NEW S, NEW q \in Seq(S), q # <<>>
    PROVE  Head(q) \in S /\ Tail(q) \in Seq(S)
  OBVIOUS

LEMMA DeliveriesTyped ==
    ASSUME SendingInv, NEW s \in Sessions, Sending(s), NEW delivery \in Deliveries(s)
    PROVE  delivery \in AllDeliveries
  <1>1. Head(out[s]) \in Messages
    BY HeadAndTail DEF SendingInv, Sending
  <1>2. PICK duplicate \in BOOLEAN : delivery = Delivery(s, Head(out[s]), duplicate)
    BY DEF Deliveries
  <1> QED BY <1>1, <1>2 DEF Delivery, AllDeliveries

LEMMA SendKeeps ==
    ASSUME ExchangeInv, NEW s \in Sessions, Send(s)
    PROVE  ExchangeInv' /\ UNCHANGED books
  <1>1. /\ Sending(s)
        /\ out' = [out EXCEPT ![s] = Tail(@)]
        /\ UNCHANGED books /\ UNCHANGED <<at, request>> /\ UNCHANGED <<socket, service>>
    BY DEF Send, DropReport, SendDirectly, HoldBack, SendWithHeld
  <1>2. BooksInv' /\ ThreadsInv' /\ ServiceInv'
    BY <1>1, BooksKept, ThreadsKept, ServiceKept DEF ExchangeInv
  <1>3. SendingInv /\ s \in Threads
    BY DEF ExchangeInv, Threads
  <1>4. Head(out[s]) \in Messages /\ out' \in [Sessions -> Seq(Messages)]
    <2>1. out[s] \in Seq(Messages) /\ out[s] # <<>>
      BY <1>1, <1>3 DEF SendingInv, Sending
    <2>2. Head(out[s]) \in Messages /\ Tail(out[s]) \in Seq(Messages)
      BY <2>1, HeadAndTail
    <2> QED BY <1>1, <1>3, <2>2 DEF SendingInv
  <1>5. \A a, b \in AllDeliveries :
            <<a>> \in Seq(AllDeliveries) /\ <<a, b>> \in Seq(AllDeliveries)
    OBVIOUS
  <1>6. CASE DropReport(s)
    <2>1. /\ hand' = hand /\ pending' = pending
          /\ log' = Append(log, LogEntry("DROPPED", s, Head(out[s])))
      BY <1>6 DEF DropReport, Record
    <2>2. LogEntry("DROPPED", s, Head(out[s])) \in LogEntries
      BY <1>4 DEF LogEntry, LogEntries
    <2>3. log' \in Seq(LogEntries)
      BY <1>3, <2>1, <2>2 DEF SendingInv
    <2> QED BY <1>2, <1>3, <1>1, <1>4, <2>1, <2>3 DEF SendingInv, ExchangeInv
  <1>7. CASE SendDirectly(s)
    <2>1. PICK delivery \in Deliveries(s) : hand' = [hand EXCEPT ![s] = <<delivery>>]
      BY <1>7 DEF SendDirectly
    <2>2. delivery \in AllDeliveries
      BY <1>1, <1>3, <2>1, DeliveriesTyped
    <2>3. pending' = pending /\ log' = log
      BY <1>7 DEF SendDirectly
    <2>4. hand' \in [Threads -> Seq(AllDeliveries)]
      BY <1>3, <1>5, <2>1, <2>2 DEF SendingInv
    <2> QED BY <1>1, <1>2, <1>3, <1>4, <2>3, <2>4 DEF SendingInv, ExchangeInv
  <1>8. CASE HoldBack(s)
    <2>1. PICK delivery \in Deliveries(s) : pending' = delivery
      BY <1>8 DEF HoldBack
    <2>2. delivery \in AllDeliveries
      BY <1>1, <1>3, <2>1, DeliveriesTyped
    <2>3. hand' = hand /\ log' = log
      BY <1>8 DEF HoldBack
    <2> QED BY <1>1, <1>2, <1>3, <1>4, <2>1, <2>2, <2>3 DEF SendingInv, ExchangeInv
  <1>9. CASE SendWithHeld(s)
    <2>1. PICK delivery \in Deliveries(s) : hand' = [hand EXCEPT ![s] = InOrder(pending, delivery)]
      BY <1>9 DEF SendWithHeld
    <2>2. delivery \in AllDeliveries
      BY <1>1, <1>3, <2>1, DeliveriesTyped
    <2>3. pending' = Nothing /\ log' = log /\ pending \in AllDeliveries
      BY <1>3, <1>9 DEF SendWithHeld, SendingInv
    <2>4. InOrder(pending, delivery) \in Seq(AllDeliveries)
      BY <1>5, <2>2, <2>3 DEF InOrder
    <2>5. hand' \in [Threads -> Seq(AllDeliveries)]
      BY <1>3, <2>1, <2>4 DEF SendingInv
    <2> QED BY <1>1, <1>2, <1>3, <1>4, <2>3, <2>5 DEF SendingInv, ExchangeInv
  <1> QED BY <1>1, <1>6, <1>7, <1>8, <1>9 DEF Send

(* A timer that fires, and the flush of stop().                            *)
LEMMA FlushKeeps ==
    ASSUME ExchangeInv, StopFlush \/ \E t \in Timers : HoldExpires(t)
    PROVE  ExchangeInv' /\ UNCHANGED books
  <1>1. PICK t \in Threads : TakePending(t)
    BY DEF StopFlush, HoldExpires, Threads
  <1>2. /\ UNCHANGED books /\ UNCHANGED <<at, request>> /\ UNCHANGED <<out, log>>
        /\ UNCHANGED <<socket, acceptor>> /\ phase' \in {phase, "flushed"}
    BY DEF StopFlush, HoldExpires, service
  <1>3. BooksInv' /\ ThreadsInv'
    BY <1>2, BooksKept, ThreadsKept DEF ExchangeInv
  <1>4. ServiceInv'
    BY <1>2 DEF ExchangeInv, ServiceInv
  <1>5. SendingInv'
    <2>1. SendingInv
      BY DEF ExchangeInv
    <2> PICK taken : taken = IF pending = Nothing THEN <<>> ELSE <<pending>>
      OBVIOUS
    <2>2. hand' = [hand EXCEPT ![t] = taken] /\ pending' = Nothing
      BY <1>1 DEF TakePending
    <2>3. taken \in Seq(AllDeliveries)
      <3>1. \A a \in AllDeliveries : <<a>> \in Seq(AllDeliveries)
        OBVIOUS
      <3> QED BY <2>1, <3>1 DEF SendingInv
    <2> QED BY <1>2, <2>1, <2>2, <2>3 DEF SendingInv
  <1> QED BY <1>2, <1>3, <1>4, <1>5 DEF ExchangeInv

LEMMA DeliverKeeps ==
    ASSUME ExchangeInv, NEW t \in Threads, Deliver(t)
    PROVE  ExchangeInv' /\ UNCHANGED books
  <1>1. /\ UNCHANGED books /\ UNCHANGED <<at, request>> /\ UNCHANGED <<socket, service>>
        /\ UNCHANGED <<out, pending>>
        /\ hand' = [hand EXCEPT ![t] = Tail(@)] /\ hand[t] # <<>>
    BY DEF Deliver
  <1>2. BooksInv' /\ ThreadsInv' /\ ServiceInv' /\ SendingInv
    BY <1>1, BooksKept, ThreadsKept, ServiceKept DEF ExchangeInv
  <1> PICK delivery : delivery = Head(hand[t])
    OBVIOUS
  <1>3. delivery \in AllDeliveries /\ hand' \in [Threads -> Seq(AllDeliveries)]
    <2>1. hand[t] \in Seq(AllDeliveries)
      BY <1>2 DEF SendingInv
    <2>2. Head(hand[t]) \in AllDeliveries /\ Tail(hand[t]) \in Seq(AllDeliveries)
      BY <1>1, <2>1, HeadAndTail
    <2> QED BY <1>1, <1>2, <2>2 DEF SendingInv
  <1> DEFINE Entry(direction) == LogEntry(direction, delivery.session, delivery.message)
  <1>4. \A direction \in {"SENT", "DUPLICATE_SENT", "DELIVERY_FAILED"} :
            Entry(direction) \in LogEntries
    BY <1>3 DEF AllDeliveries, LogEntry, LogEntries
  <1>5. \/ log' = Append(log, Entry("SENT"))
        \/ log' = log \o <<Entry("SENT"), Entry("DUPLICATE_SENT")>>
        \/ log' = Append(log, Entry("DELIVERY_FAILED"))
        \/ log' = log \o <<Entry("SENT"), Entry("DELIVERY_FAILED")>>
    BY DEF Deliver
  <1>6. log' \in Seq(LogEntries)
    <2> HIDE DEF Entry
    <2>1. /\ \A a \in LogEntries : Append(log, a) \in Seq(LogEntries)
          /\ \A a, b \in LogEntries : log \o <<a, b>> \in Seq(LogEntries)
      BY <1>2 DEF SendingInv
    <2> QED BY <1>4, <1>5, <2>1
  <1> QED BY <1>1, <1>2, <1>3, <1>6 DEF SendingInv, ExchangeInv

-------------------------------------------------------------------------------
(* Requests and their answers                                              *)

LEMMA MessagesTyped ==
    ASSUME NEW r \in Requests
    PROVE  /\ \A event \in Events, n \in Nat, cum \in Nat :
                 ExecutionReport(r.cl, r.order, event, n, cum) \in Messages
           /\ \A n \in Nat : RejectedExecutionReport(r, n) \in Messages
           /\ CancelReject(r) \in Messages
           /\ Message(r.type, r.cl, r.order, "none", 0, 0) \in Messages
  <1>1. \A type \in {"D", "F", "8", "9"}, event \in Events, n \in Nat, cum \in Nat :
            Message(type, r.cl, r.order, event, n, cum) \in Messages
    BY DEF Message, Messages
  <1>2. {"none", "CANCEL_REJECT", "REJECT"} \subseteq Events
    BY DEF Events, OrderEvent
  <1>3. r.type \in {"D", "F"}
    BY RequestsAssumption
  <1> QED BY <1>1, <1>2, <1>3 DEF ExecutionReport, RejectedExecutionReport, CancelReject

(* A thread that answers is between two messages again.                    *)
LEMMA AnswersKeep ==
    ASSUME ThreadsInv, SendingInv, NEW s \in Sessions, NEW messages \in Seq(Messages),
           Answers(s, messages), UNCHANGED <<hand, pending, log>>
    PROVE  ThreadsInv' /\ SendingInv'
  <1>1. ThreadsInv'
    BY DEF Answers, ThreadsInv
  <1>2. SendingInv'
    BY DEF Answers, SendingInv
  <1> QED BY <1>1, <1>2

LEMMA ReceiveKeeps ==
    ASSUME ExchangeInv, NEW s \in Sessions, NEW r \in Requests, Receive(s, r)
    PROVE  ExchangeInv' /\ UNCHANGED <<orders, responses>>
  <1>1. /\ UNCHANGED <<orders, responses, config>> /\ UNCHANGED <<hand, pending>>
        /\ UNCHANGED <<socket, service>>
        /\ log' = Append(log, LogEntry("RECEIVED", s, Message(r.type, r.cl, r.order, "none", 0, 0)))
        /\ nextExec' \in {nextExec, nextExec + 1}
    BY DEF Receive, Record
  <1>2. BooksInv' /\ ServiceInv' /\ SendingInv /\ ThreadsInv
    BY <1>1, ServiceKept DEF ExchangeInv, BooksInv, config
  <1>3. log' \in Seq(LogEntries)
    <2>1. LogEntry("RECEIVED", s, Message(r.type, r.cl, r.order, "none", 0, 0)) \in LogEntries
      BY MessagesTyped DEF LogEntry, LogEntries
    <2> QED BY <1>1, <1>2, <2>1 DEF SendingInv
  <1>4. out' \in [Sessions -> Seq(Messages)]
    <2>1. \/ out' = out
          \/ out' = [out EXCEPT ![s] = <<RejectedExecutionReport(r, nextExec)>>]
          \/ out' = [out EXCEPT ![s] = <<CancelReject(r)>>]
      BY DEF Receive
    <2>2. RejectedExecutionReport(r, nextExec) \in Messages /\ CancelReject(r) \in Messages
      BY MessagesTyped DEF ExchangeInv, BooksInv
    <2>3. \A m \in Messages : <<m>> \in Seq(Messages)
      OBVIOUS
    <2> QED BY <1>2, <2>1, <2>2, <2>3 DEF SendingInv
  <1>5. ThreadsInv'
    <2>1. \/ /\ \E place \in {"lookup", "cancel"} : at' = [at EXCEPT ![s] = place]
             /\ request' = [request EXCEPT ![s] = r]
          \/ at' = [at EXCEPT ![s] = "turn"] /\ request' = request
      BY DEF Receive
    <2> QED BY <1>2, <2>1 DEF ThreadsInv
  <1> QED BY <1>1, <1>2, <1>3, <1>4, <1>5 DEF SendingInv, ExchangeInv

LEMMA LookUpKeeps ==
    ASSUME ExchangeInv, NEW s \in Sessions, LookUp(s)
    PROVE  ExchangeInv' /\ UNCHANGED books
  <1>1. /\ at[s] = "lookup" /\ UNCHANGED books /\ UNCHANGED <<hand, pending, log>>
        /\ UNCHANGED <<socket, service>>
    BY DEF LookUp
  <1>2. BooksInv' /\ ServiceInv' /\ BooksInv /\ ThreadsInv /\ SendingInv
    BY <1>1, BooksKept, ServiceKept DEF ExchangeInv
  <1>3. CASE request[s].order \in DOMAIN responses
    <2>1. responses[request[s].order] \in Seq(Messages)
      BY <1>2, <1>3 DEF BooksInv
    <2>2. Answers(s, responses[request[s].order])
      BY <1>3 DEF LookUp
    <2> QED BY <1>1, <1>2, <2>1, <2>2, AnswersKeep DEF ExchangeInv
  <1>4. CASE request[s].order \notin DOMAIN responses
    <2>1. at' = [at EXCEPT ![s] = "accept"] /\ UNCHANGED <<out, request>>
      BY <1>4 DEF LookUp
    <2>2. ThreadsInv'
      BY <1>1, <1>2, <2>1 DEF ThreadsInv
    <2>3. SendingInv'
      BY <1>1, <1>2, <2>1, SendingKept
    <2> QED BY <1>1, <1>2, <2>2, <2>3 DEF ExchangeInv
  <1> QED BY <1>3, <1>4

-------------------------------------------------------------------------------
(* The two steps that touch the book                                       *)

(* Order id enters the book, good and not canceled; nothing else in it     *)
(* changes, nor does anything cached.                                      *)
Opened(id) ==
    /\ id \in {r.order : r \in Requests}
    /\ id \notin DOMAIN orders
    /\ \E order :
          /\ GoodOrder(order)
          /\ order.quantity \in {r.quantity : r \in Requests} \ {0}
          /\ order.state \in {"NEW", "PARTIALLY_FILLED", "FILLED"}
          /\ orders' = [i \in DOMAIN orders \cup {id} |-> IF i = id THEN order ELSE orders[i]]
    /\ \/ responses' = responses
       \/ \E reports \in Seq(Messages) :
             responses' = [i \in DOMAIN responses \cup {id} |->
                              IF i = id THEN reports ELSE responses[i]]

(* A live order is canceled.                                               *)
Canceled(id) ==
    /\ id \in {r.order : r \in Requests}
    /\ id \in DOMAIN orders
    /\ orders[id].state \notin TERMINAL_STATES
    /\ orders' = [orders EXCEPT ![id] = AfterCancel(@)]
    /\ responses' = responses

LEMMA OpenedKeeps ==
    ASSUME BooksInv, NEW id, Opened(id), nextExec' \in Nat, UNCHANGED config
    PROVE  BooksInv'
  <1>1. PICK order : /\ GoodOrder(order)
                     /\ orders' = [i \in DOMAIN orders \cup {id} |->
                                      IF i = id THEN order ELSE orders[i]]
    BY DEF Opened
  <1>2. /\ orders' \in [DOMAIN orders' -> Order]
        /\ \A i \in DOMAIN orders' : GoodOrder(orders'[i])
        /\ id \in DOMAIN orders' /\ DOMAIN orders \subseteq DOMAIN orders'
    BY <1>1 DEF BooksInv, GoodOrder
  <1>3. /\ responses' \in [DOMAIN responses' -> Seq(Messages)]
        /\ DOMAIN responses' \subseteq DOMAIN responses \cup {id}
    BY DEF Opened, BooksInv
  <1> QED BY <1>2, <1>3 DEF BooksInv, config

LEMMA CanceledKeeps ==
    ASSUME BooksInv, NEW id, Canceled(id), nextExec' \in Nat, UNCHANGED config
    PROVE  BooksInv'
  <1> PICK order : order = AfterCancel(orders[id])
    OBVIOUS
  <1>1. GoodOrder(order) /\ order \in Order
    BY CanceledIsGood DEF BooksInv, Canceled, GoodOrder
  <1>2. orders' = [orders EXCEPT ![id] = order] /\ responses' = responses
    BY DEF Canceled
  <1> QED BY <1>1, <1>2 DEF BooksInv, config

LEMMA CancelKeeps ==
    ASSUME ExchangeInv, NEW s \in Sessions, Cancel(s)
    PROVE  /\ ExchangeInv'
           /\ \/ UNCHANGED <<orders, responses>>
              \/ \E id : Canceled(id)
  <1> PICK r : r = request[s]
    OBVIOUS
  <1>1. /\ r \in Requests /\ UNCHANGED <<hand, pending, log>>
        /\ UNCHANGED <<socket, service>> /\ UNCHANGED <<responses, config>>
        /\ BooksInv /\ ThreadsInv /\ SendingInv /\ ServiceInv'
    BY ServiceKept DEF Cancel, ExchangeInv, ThreadsInv
  <1>2. \A m \in Messages : <<m>> \in Seq(Messages)
    OBVIOUS
  <1>3. CASE /\ r.order \in DOMAIN orders
             /\ CancelOutcome(orders[r.order]) = "ok"
             /\ orders' = [orders EXCEPT ![r.order] = AfterCancel(@)]
             /\ Answers(s, <<ExecutionReport(r.cl, r.order, "CANCEL_CONFIRMED", nextExec,
                                             orders[r.order].cumulative_quantity)>>)
             /\ nextExec' = nextExec + 1
    <2>1. orders[r.order].state \notin TERMINAL_STATES
      BY <1>3, RefusedCancel
    <2>2. Canceled(r.order)
      BY <1>1, <1>3, <2>1 DEF Canceled
    <2>3. orders[r.order].cumulative_quantity \in Nat /\ nextExec \in Nat
      BY <1>1, <1>3 DEF BooksInv, Order
    <2>4. "CANCEL_CONFIRMED" \in Events
      BY DEF Events, OrderEvent
    <2>5. ExecutionReport(r.cl, r.order, "CANCEL_CONFIRMED", nextExec,
                          orders[r.order].cumulative_quantity) \in Messages
      BY <1>1, <2>3, <2>4, MessagesTyped
    <2>6. ThreadsInv' /\ SendingInv'
      BY <1>1, <1>2, <1>3, <2>5, AnswersKeep
    <2>7. BooksInv'
      BY <1>1, <1>3, <2>2, <2>3, CanceledKeeps
    <2> QED BY <1>1, <2>2, <2>6, <2>7 DEF ExchangeInv
  <1>4. CASE /\ r.order \in DOMAIN orders => CancelOutcome(orders[r.order]) # "ok"
             /\ orders' = IF r.order \in DOMAIN orders
                          THEN [orders EXCEPT ![r.order] = AfterCancel(@)] ELSE orders
             /\ Answers(s, <<CancelReject(r)>>)
             /\ UNCHANGED nextExec
    <2>1. orders' = orders
      <3>1. CASE r.order \in DOMAIN orders
        <4>1. orders[r.order].state \in TERMINAL_STATES
          BY <1>1, <1>4, <3>1, CanceledIsGood DEF BooksInv
        <4>2. AfterCancel(orders[r.order]) = orders[r.order]
          BY <4>1, RefusedCancel
        <4> QED BY <1>1, <1>4, <3>1, <4>2 DEF BooksInv
      <3> QED BY <1>4, <3>1
    <2>2. BooksInv'
      BY <1>1, <1>4, <2>1, BooksKept DEF books
    <2>3. ThreadsInv' /\ SendingInv'
      BY <1>1, <1>2, <1>4, MessagesTyped, AnswersKeep
    <2> QED BY <1>1, <2>1, <2>2, <2>3 DEF ExchangeInv
  <1> QED BY <1>3, <1>4 DEF Cancel

(* The reports of an order that was filled so many times.                  *)
ReportsOfFills(r, n, filled, taken) ==
    [i \in 1 .. taken + 1 |->
        ExecutionReport(r.cl, r.order, filled[taken].history[i].event,
                        n + i - 1, filled[i - 1].cumulative_quantity)]

(* Every order on the way to the last fill taken is good.                  *)
WellFilled(filled, quantity, taken) ==
    \A k \in 0 .. taken : FilledTimes(filled[k], quantity, k)

LEMMA ReportsTyped ==
    ASSUME NEW r \in Requests, NEW n \in Nat, NEW taken \in Nat, NEW filled,
           NEW quantity, WellFilled(filled, quantity, taken)
    PROVE  LET reports == ReportsOfFills(r, n, filled, taken)
           IN  reports \in Seq(Messages) /\ Len(reports) = taken + 1
  <1> DEFINE reports == ReportsOfFills(r, n, filled, taken)
  <1> HIDE DEF reports
  <1>0. \A k \in 0 .. taken : FilledTimes(filled[k], quantity, k)
    BY DEF WellFilled
  <1>1. ASSUME NEW i \in 1 .. taken + 1
        PROVE  reports[i] \in Messages
    <2>1. i - 1 \in 0 .. taken /\ taken \in 0 .. taken /\ n + i - 1 \in Nat
      OBVIOUS
    <2>2. filled[i - 1].cumulative_quantity \in Nat
      <3>1. filled[i - 1] \in Order
        BY <1>0, <2>1 DEF FilledTimes, GoodOrder
      <3> QED BY <3>1 DEF Order
    <2>3. filled[taken].history[i].event \in Events
      <3>1. filled[taken].history \in Seq(TRANSITIONS) /\ Len(filled[taken].history) = taken + 1
        BY <1>0, <2>1 DEF FilledTimes, GoodOrder, Order
      <3>2. filled[taken].history[i] \in TRANSITIONS
        BY <3>1
      <3>3. filled[taken].history[i].event \in OrderEvent
        BY <3>2, ArcShape
      <3> QED BY <3>3 DEF Events
    <2>4. ExecutionReport(r.cl, r.order, filled[taken].history[i].event,
                          n + i - 1, filled[i - 1].cumulative_quantity) \in Messages
      BY <2>1, <2>2, <2>3, MessagesTyped
    <2> QED BY <2>4 DEF reports, ReportsOfFills
  <1>2. reports = [i \in 1 .. taken + 1 |-> reports[i]]
    BY DEF reports, ReportsOfFills
  <1>3. reports \in [1 .. taken + 1 -> Messages] /\ taken + 1 \in Nat
    BY <1>1, <1>2
  <1>4. reports \in Seq(Messages) /\ Len(reports) = taken + 1
    BY <1>3
  <1> QED BY <1>4 DEF reports

(* A new order for request r and the reports of its history.               *)
OpensWith(r, order, reports) ==
    /\ GoodOrder(order)
    /\ order.quantity = r.quantity
    /\ order.state \in {"NEW", "PARTIALLY_FILLED", "FILLED"}
    /\ Len(reports) = Len(order.history)
    /\ \A i \in 1 .. Len(reports) :
          /\ order.history[i].event \in OpeningEvents
          /\ IsReport(reports[i])
          /\ reports[i].order = r.order
          /\ reports[i].event = order.history[i].event
          /\ reports[i].exec_id = nextExec + i - 1

(* It enters the book, and the session answers with the reports, or, when  *)
(* the plan failed, with a reject alone.                                   *)
Accepts(s, r, order, reports) ==
    /\ orders' = [id \in DOMAIN orders \cup {r.order} |->
                     IF id = r.order THEN order ELSE orders[id]]
    /\ \/ /\ Answers(s, reports)
          /\ responses' = [id \in DOMAIN responses \cup {r.order} |->
                              IF id = r.order THEN reports ELSE responses[id]]
          /\ nextExec' = nextExec + Len(reports)
       \/ /\ Answers(s, <<RejectedExecutionReport(r, nextExec + Len(reports))>>)
          /\ responses' = responses
          /\ nextExec' = nextExec + Len(reports) + 1

Refuses(s, r) ==
    /\ Answers(s, <<RejectedExecutionReport(r, nextExec)>>)
    /\ nextExec' = nextExec + 1
    /\ UNCHANGED <<orders, responses>>

LEMMA ReportsDescribeFills ==
    ASSUME NEW r \in Requests, nextExec \in Nat, NEW taken \in Nat, NEW filled,
           WellFilled(filled, r.quantity, taken),
           NEW reports, reports = ReportsOfFills(r, nextExec, filled, taken)
    PROVE  /\ reports \in Seq(Messages)
           /\ OpensWith(r, filled[taken], reports)
  <1>1. reports \in Seq(Messages) /\ Len(reports) = taken + 1
    <2>1. /\ ReportsOfFills(r, nextExec, filled, taken) \in Seq(Messages)
          /\ Len(ReportsOfFills(r, nextExec, filled, taken)) = taken + 1
      BY ReportsTyped
    <2> QED BY <2>1
  <1> PICK order : order = filled[taken]
    OBVIOUS
  <1>2. FilledTimes(order, r.quantity, taken)
    BY DEF WellFilled
  <1>3. ASSUME NEW i \in 1 .. taken + 1
        PROVE  /\ IsReport(reports[i])
               /\ reports[i].order = r.order
               /\ reports[i].event = order.history[i].event
               /\ reports[i].exec_id = nextExec + i - 1
    <2>1. reports[i] = ExecutionReport(r.cl, r.order, order.history[i].event,
                                       nextExec + i - 1, filled[i - 1].cumulative_quantity)
      BY DEF ReportsOfFills
    <2> QED BY <2>1 DEF ExecutionReport, Message, IsReport
  <1> QED BY <1>1, <1>2, <1>3 DEF OpensWith, FilledTimes

LEMMA AcceptShape ==
    ASSUME ExchangeInv, NEW s \in Sessions, AcceptNewOrder(s), NEW r, r = request[s]
    PROVE  \/ Refuses(s, r)
           \/ /\ r.order \notin DOMAIN orders
              /\ \E order : \E reports \in Seq(Messages) :
                    OpensWith(r, order, reports) /\ Accepts(s, r, order, reports)
  <1>1. /\ r \in Requests /\ r.quantity \in Nat
        /\ nextExec \in Nat /\ strategy \in FillStrategies
    <2>1. r \in Requests
      BY DEF AcceptNewOrder, ExchangeInv, ThreadsInv
    <2> QED BY <2>1, RequestsAssumption DEF ExchangeInv, BooksInv
  <1>2. CASE Holds(r.order) \/ Unacceptable(r)
    BY <1>2 DEF AcceptNewOrder, Refuses
  <1>3. CASE ~Holds(r.order) /\ ~Unacceptable(r)
    <2>1. PICK plan \in FillPlans(r.quantity) :
             LET filled == AfterFills(r.quantity, plan)
                 taken == FillsTaken(filled, plan)
                 reports == ReportsOfFills(r, nextExec, filled, taken)
             IN  /\ orders' = [id \in DOMAIN orders \cup {r.order} |->
                                  IF id = r.order THEN filled[taken] ELSE orders[id]]
                 /\ Answers(s, AnswersTo(r, reports, plan))
                 /\ IF taken = Len(plan)
                    THEN /\ responses' = [id \in DOMAIN responses \cup {r.order} |->
                                IF id = r.order THEN reports ELSE responses[id]]
                         /\ nextExec' = nextExec + Len(reports)
                    ELSE /\ nextExec' = nextExec + Len(reports) + 1
                         /\ UNCHANGED responses
      BY <1>3, Zenon DEF AcceptNewOrder, ReportsOfFills
    <2> DEFINE filled == AfterFills(r.quantity, plan)
               taken == FillsTaken(filled, plan)
               reports == ReportsOfFills(r, nextExec, filled, taken)
               order == filled[taken]
    <2>2. r.quantity \in Nat \ {0} /\ plan \in Seq(Nat)
      BY <1>1, <1>3, PlansAreSequences DEF Unacceptable
    <2>3. /\ taken \in 0 .. Len(plan)
          /\ \A k \in 0 .. taken : FilledTimes(filled[k], r.quantity, k)
      BY <2>2, FillsAreGood
    <2> HIDE DEF filled, taken, reports
    <2>4. Len(plan) \in Nat /\ taken \in Nat
      <3>1. Len(plan) \in Nat
        BY <2>2
      <3> QED BY <2>3, <3>1
    <2>5. WellFilled(filled, r.quantity, taken)
      BY <2>3 DEF WellFilled
    <2>6. reports = ReportsOfFills(r, nextExec, filled, taken)
      BY DEF reports
    <2>7. reports \in Seq(Messages) /\ OpensWith(r, order, reports)
      BY <1>1, <2>4, <2>5, <2>6, ReportsDescribeFills
    <2>8. Len(reports) = taken + 1
      BY <2>3, <2>4, <2>7 DEF OpensWith, FilledTimes
    <2>9. /\ orders' = [id \in DOMAIN orders \cup {r.order} |->
                           IF id = r.order THEN order ELSE orders[id]]
          /\ Answers(s, AnswersTo(r, reports, plan))
          /\ IF taken = Len(plan)
             THEN /\ responses' = [id \in DOMAIN responses \cup {r.order} |->
                         IF id = r.order THEN reports ELSE responses[id]]
                  /\ nextExec' = nextExec + Len(reports)
             ELSE /\ nextExec' = nextExec + Len(reports) + 1
                  /\ UNCHANGED responses
      BY <2>1 DEF filled, taken, reports
    <2>10. Len(reports) = Len(plan) + 1 <=> taken = Len(plan)
      BY <2>4, <2>8
    <2>11. Accepts(s, r, order, reports)
      BY <2>9, <2>10 DEF Accepts, AnswersTo
    <2> QED BY <1>3, <2>7, <2>11 DEF Holds
  <1> QED BY <1>2, <1>3

LEMMA AcceptKeeps ==
    ASSUME ExchangeInv, NEW s \in Sessions, AcceptNewOrder(s)
    PROVE  /\ ExchangeInv'
           /\ \/ UNCHANGED <<orders, responses>>
              \/ \E id : Opened(id)
  <1> PICK r : r = request[s]
    OBVIOUS
  <1>1. /\ r \in Requests /\ UNCHANGED <<hand, pending, log>>
        /\ UNCHANGED <<socket, service>> /\ UNCHANGED config
        /\ BooksInv /\ ThreadsInv /\ SendingInv /\ ServiceInv'
    BY ServiceKept DEF AcceptNewOrder, ExchangeInv, ThreadsInv
  <1>2. \A m \in Messages : <<m>> \in Seq(Messages)
    OBVIOUS
  <1>3. nextExec \in Nat /\ \A n \in Nat : RejectedExecutionReport(r, n) \in Messages
    BY <1>1, MessagesTyped DEF BooksInv
  <1>4. CASE Refuses(s, r)
    <2>1. ThreadsInv' /\ SendingInv'
      BY <1>1, <1>2, <1>3, <1>4, AnswersKeep DEF Refuses
    <2>2. BooksInv' /\ UNCHANGED <<orders, responses>>
      BY <1>1, <1>4 DEF BooksInv, config, Refuses
    <2> QED BY <1>1, <2>1, <2>2 DEF ExchangeInv
  <1>5. ASSUME NEW order, NEW reports \in Seq(Messages), r.order \notin DOMAIN orders,
               OpensWith(r, order, reports), Accepts(s, r, order, reports)
        PROVE  ExchangeInv' /\ Opened(r.order)
    <2>1. Len(reports) \in Nat
      BY <1>5
    <2>2. ThreadsInv' /\ SendingInv'
      <3>1. nextExec + Len(reports) \in Nat
        BY <1>3, <2>1
      <3>2. PICK answers \in Seq(Messages) : Answers(s, answers)
        BY <1>2, <1>3, <1>5, <3>1 DEF Accepts
      <3> QED BY <1>1, <3>2, AnswersKeep
    <2>3. nextExec' \in Nat
      <3>1. nextExec' = nextExec + Len(reports) \/ nextExec' = nextExec + Len(reports) + 1
        BY <1>5 DEF Accepts
      <3> QED BY <1>3, <2>1, <3>1
    <2>4. Opened(r.order)
      <3>1. /\ GoodOrder(order) /\ order.quantity = r.quantity
            /\ order.state \in {"NEW", "PARTIALLY_FILLED", "FILLED"}
        BY <1>5 DEF OpensWith
      <3>2. order.quantity \in {any.quantity : any \in Requests} \ {0}
        BY <1>1, <3>1 DEF GoodOrder, Order
      <3>3. r.order \in {any.order : any \in Requests}
        BY <1>1
      <3> QED BY <1>5, <3>1, <3>2, <3>3 DEF Opened, Accepts
    <2>5. BooksInv'
      BY <1>1, <2>3, <2>4, OpenedKeeps
    <2> QED BY <1>1, <2>2, <2>4, <2>5 DEF ExchangeInv
  <1> QED BY <1>4, <1>5, AcceptShape DEF Refuses

-------------------------------------------------------------------------------
(* Every step keeps the invariant, and leaves book and cache alone or opens *)
(* one order or cancels one.                                               *)
LEMMA StepShape ==
    ASSUME ExchangeInv, [Serves]_vars
    PROVE  /\ ExchangeInv'
           /\ \/ UNCHANGED <<orders, responses>>
              \/ \E id : Opened(id) \/ Canceled(id)
  <1>1. UNCHANGED books => UNCHANGED <<orders, responses>>
    BY DEF books
  <1>2. ASSUME NEW s \in Sessions, NEW r \in Requests, Receive(s, r)
        PROVE  ExchangeInv' /\ UNCHANGED <<orders, responses>>
    BY <1>2, ReceiveKeeps
  <1>3. ASSUME NEW s \in Sessions,
               \/ AcceptConnection(s) \/ Register(s) \/ Logon(s) \/ Listen(s)
               \/ SessionEnds(s) \/ PeerLeaves(s)
        PROVE  ExchangeInv' /\ UNCHANGED <<orders, responses>>
    BY <1>1, <1>3, ConnectionsKeep
  <1>4. CASE AcceptorExits
    <2>1. UNCHANGED books /\ UNCHANGED <<out, hand, pending, log>>
          /\ UNCHANGED <<at, request>>
          /\ acceptor' = "exited" /\ UNCHANGED <<socket, phase>>
      BY <1>4 DEF AcceptorExits
    <2>2. BooksInv' /\ SendingInv' /\ ThreadsInv'
      BY <2>1, BooksKept, SendingKept, ThreadsKept DEF ExchangeInv
    <2>3. ServiceInv'
      BY <2>1 DEF ExchangeInv, ServiceInv
    <2> QED BY <1>1, <2>1, <2>2, <2>3 DEF ExchangeInv
  <1>5. ASSUME NEW s \in Sessions, LookUp(s)
        PROVE  ExchangeInv' /\ UNCHANGED <<orders, responses>>
    BY <1>1, <1>5, LookUpKeeps
  <1>6. ASSUME NEW s \in Sessions, AcceptNewOrder(s)
        PROVE  /\ ExchangeInv'
               /\ UNCHANGED <<orders, responses>> \/ \E id : Opened(id)
    BY <1>6, AcceptKeeps
  <1>7. ASSUME NEW s \in Sessions, Cancel(s)
        PROVE  /\ ExchangeInv'
               /\ UNCHANGED <<orders, responses>> \/ \E id : Canceled(id)
    BY <1>7, CancelKeeps
  <1>8. ASSUME NEW s \in Sessions, Send(s)
        PROVE  ExchangeInv' /\ UNCHANGED <<orders, responses>>
    BY <1>1, <1>8, SendKeeps
  <1>9. CASE StopFlush \/ \E t \in Timers : HoldExpires(t)
    BY <1>1, <1>9, FlushKeeps
  <1>10. ASSUME NEW t \in Threads, Deliver(t)
         PROVE  ExchangeInv' /\ UNCHANGED <<orders, responses>>
    BY <1>1, <1>10, DeliverKeeps
  <1>11. CASE Stop \/ StopClose \/ StopJoin \/ Start
    BY <1>1, <1>11, StoppingKeeps
  <1>12. CASE UNCHANGED vars
    <2>1. /\ UNCHANGED books /\ UNCHANGED <<out, hand, pending, log>>
          /\ UNCHANGED <<at, request>> /\ UNCHANGED <<socket, service>>
      BY <1>12 DEF vars, books, config, service
    <2> QED BY <1>1, <2>1, BooksKept, SendingKept, ThreadsKept, ServiceKept DEF ExchangeInv
  <1> QED
    BY <1>2, <1>3, <1>4, <1>5, <1>6, <1>7, <1>8, <1>9, <1>10, <1>11, <1>12
    DEF Serves, Exchange, Work, Connect, StopStep

LEMMA InvariantHoldsFirst == Init => ExchangeInv
  <1> SUFFICES ASSUME Init PROVE ExchangeInv
    OBVIOUS
  <1>1. BooksInv
    BY DEF Init, BooksInv
  <1>2. ThreadsInv
    BY DEF Init, ThreadsInv
  <1>3. SendingInv
    BY DEF Init, SendingInv
  <1>4. ServiceInv
    BY DEF Init, ServiceInv
  <1> QED BY <1>1, <1>2, <1>3, <1>4 DEF ExchangeInv

(* The invariant holds, whatever the threads, clients and faults do.       *)
THEOREM ExchangeInvHolds == Spec => []ExchangeInv
  <1>1. ExchangeInv /\ [Next]_vars => ExchangeInv'
    BY StepShape, NextServes
  <1> QED BY <1>1, InvariantHoldsFirst, PTL DEF Spec

(* The state of the exchange stays well formed, whatever clients send, and *)
(* whatever the threads do with it.                                        *)
THEOREM TypeCorrect == Spec => []TypeOK
  BY InvariantIsTyped, ExchangeInvHolds, PTL

(* RetryChangesNothing: a known ClOrdID is never executed further, whatever *)
(* is sent under it and whichever thread handles it, and the responses it  *)
(* was answered with never change.                                         *)
THEOREM RetriesChangeNothing == Spec => RetryChangesNothing
  <1> DEFINE Unchanged ==
        /\ \A id \in DOMAIN orders :
              /\ id \in DOMAIN orders'
              /\ orders'[id].cumulative_quantity = orders[id].cumulative_quantity
              /\ orders'[id] # orders[id] => orders'[id].state = "CANCELED"
        /\ \A id \in DOMAIN responses :
              id \in DOMAIN responses' /\ responses'[id] = responses[id]
  <1>1. ASSUME ExchangeInv, [Next]_vars
        PROVE  [Unchanged]_vars
    <2>1. CASE UNCHANGED <<orders, responses>>
      BY <2>1
    <2>2. ASSUME NEW id, Opened(id)
          PROVE  Unchanged
      <3>1. \A i \in DOMAIN orders : i \in DOMAIN orders' /\ orders'[i] = orders[i]
        BY <2>2 DEF Opened
      <3>2. id \notin DOMAIN responses
        BY <1>1, <2>2 DEF ExchangeInv, BooksInv, Opened
      <3>3. \A i \in DOMAIN responses : i \in DOMAIN responses' /\ responses'[i] = responses[i]
        BY <2>2, <3>2 DEF Opened
      <3> QED BY <3>1, <3>3
    <2>3. ASSUME NEW id, Canceled(id)
          PROVE  Unchanged
      <3> PICK order : order = AfterCancel(orders[id])
        OBVIOUS
      <3>1. /\ order.cumulative_quantity = orders[id].cumulative_quantity
            /\ order.state = "CANCELED"
        BY <1>1, <2>3, CanceledIsGood DEF ExchangeInv, BooksInv, Canceled
      <3>2. orders' = [orders EXCEPT ![id] = order] /\ responses' = responses
        BY <2>3 DEF Canceled
      <3> QED BY <1>1, <3>1, <3>2 DEF ExchangeInv, BooksInv
    <2> HIDE DEF Unchanged
    <2>4. CASE \E id : Opened(id) \/ Canceled(id)
      BY <2>2, <2>3, <2>4
    <2> QED BY <1>1, <2>1, <2>4, StepShape, NextServes
  <1> QED BY <1>1, ExchangeInvHolds, PTL DEF Spec, RetryChangesNothing

-------------------------------------------------------------------------------
(* What the ledger sees of a good order that was not canceled: it is open  *)
(* exactly while part of it is unexecuted.                                 *)
LEMMA LedgerView ==
    ASSUME NEW order, GoodOrder(order)
    PROVE  /\ order.quantity \in Nat \ {0}
           /\ order.cumulative_quantity \in 0 .. order.quantity
           /\ order.state # "CANCELED" =>
                (order.state \notin TERMINAL_STATES
                    <=> order.cumulative_quantity < order.quantity)
  BY DEF GoodOrder, FillsMatchState, Order, OrderState, TERMINAL_STATES

LEMMA OpenedMapsToOpen ==
    ASSUME BooksInv, NEW id, Opened(id)
    PROVE  Ledger!Open(id)
  <1>1. PICK order : /\ GoodOrder(order)
                     /\ order.quantity \in {r.quantity : r \in Requests} \ {0}
                     /\ order.state \in {"NEW", "PARTIALLY_FILLED", "FILLED"}
                     /\ orders' = [i \in DOMAIN orders \cup {id} |->
                                      IF i = id THEN order ELSE orders[i]]
    BY DEF Opened
  <1>2. /\ order.cumulative_quantity \in 0 .. order.quantity
        /\ order.state \notin TERMINAL_STATES
              <=> order.cumulative_quantity < order.quantity
    BY <1>1, LedgerView
  <1> DEFINE entry == Ledger!Entry(order.quantity, order.cumulative_quantity,
                                   order.cumulative_quantity < order.quantity)
  <1>3. LedgerEntry(order) = entry
    BY <1>2 DEF LedgerEntry, Ledger!Entry
  <1>4. id \notin DOMAIN ledger /\ DOMAIN ledger = DOMAIN orders
    BY DEF Opened, ledger
  <1>5. ledger' = [i \in DOMAIN ledger \cup {id} |->
                      IF i = id THEN entry ELSE ledger[i]]
    <2> HIDE DEF entry
    <2> QED BY <1>1, <1>3 DEF ledger
  <1> QED BY <1>1, <1>2, <1>4, <1>5 DEF Ledger!Open

LEMMA CanceledMapsToClose ==
    ASSUME BooksInv, NEW id, Canceled(id)
    PROVE  Ledger!Close(id)
  <1> PICK before, after : before = orders[id] /\ after = AfterCancel(before)
    OBVIOUS
  <1>1. /\ id \in DOMAIN orders
        /\ before.state \notin TERMINAL_STATES
        /\ after.quantity = before.quantity
        /\ after.cumulative_quantity = before.cumulative_quantity
        /\ after.state = "CANCELED"
        /\ orders' = [orders EXCEPT ![id] = after]
    BY CanceledIsGood DEF BooksInv, Canceled
  <1>2. /\ DOMAIN ledger = DOMAIN orders
        /\ ledger[id].open
        /\ ledger[id].quantity = before.quantity
        /\ ledger[id].executed = before.cumulative_quantity
    BY <1>1 DEF ledger, LedgerEntry
  <1>3. ledger' = [ledger EXCEPT ![id] = LedgerEntry(after)]
    BY <1>1 DEF ledger
  <1>4. LedgerEntry(after) = Ledger!Entry(ledger[id].quantity, ledger[id].executed, FALSE)
    BY <1>1, <1>2 DEF LedgerEntry, TERMINAL_STATES, Ledger!Entry
  <1> QED BY <1>1, <1>2, <1>3, <1>4 DEF Ledger!Close

(* The exchange implements the ledger: whatever the clients send and the   *)
(* threads do, an order is opened once, executed when it is opened or not  *)
(* at all, and closed at most once.                                        *)
THEOREM ExchangeImplementsLedger == Spec => ImplementsLedger
  <1>1. Init => Ledger!Init
    BY DEF Init, Ledger!Init, ledger
  <1>2. ASSUME ExchangeInv, [Next]_vars
        PROVE  [Ledger!Next]_ledger
    <2>1. CASE UNCHANGED <<orders, responses>>
      BY <2>1 DEF ledger
    <2>2. ASSUME NEW id, Opened(id)
          PROVE  Ledger!Next
      <3>1. id \in {r.order : r \in Requests}
        BY <2>2 DEF Opened
      <3>2. Ledger!Open(id)
        BY <1>2, <2>2, OpenedMapsToOpen DEF ExchangeInv
      <3> QED BY <3>1, <3>2 DEF Ledger!Next
    <2>3. ASSUME NEW id, Canceled(id)
          PROVE  Ledger!Next
      <3>1. id \in {r.order : r \in Requests}
        BY <2>3 DEF Canceled
      <3>2. Ledger!Close(id)
        BY <1>2, <2>3, CanceledMapsToClose DEF ExchangeInv
      <3> QED BY <3>1, <3>2 DEF Ledger!Next
    <2> QED BY <1>2, <2>1, <2>2, <2>3, StepShape, NextServes
  <1> QED BY <1>1, <1>2, ExchangeInvHolds, PTL DEF Spec, ImplementsLedger, Ledger!Spec

-------------------------------------------------------------------------------
(* Where the reports are                                                   *)

LEMMA SetsOfSequences ==
    ASSUME NEW S
    PROVE  /\ ToSet(<<>>) = {}
           /\ \A a : ToSet(<<a>>) = {a}
           /\ \A a, b : ToSet(<<a, b>>) = {a, b}
           /\ \A q \in Seq(S), a \in S : ToSet(Append(q, a)) = ToSet(q) \cup {a}
           /\ \A q \in Seq(S), a, b \in S : ToSet(q \o <<a, b>>) = ToSet(q) \cup {a, b}
           /\ \A q \in Seq(S) : q # <<>> => ToSet(q) = {Head(q)} \cup ToSet(Tail(q))
  <1>1. ToSet(<<>>) = {} /\ \A a, b : ToSet(<<a>>) = {a} /\ ToSet(<<a, b>>) = {a, b}
    BY DEF ToSet
  <1>2. ASSUME NEW q \in Seq(S), NEW a \in S
        PROVE  ToSet(Append(q, a)) = ToSet(q) \cup {a}
    <2>1. /\ DOMAIN Append(q, a) = 1 .. Len(q) + 1 /\ DOMAIN q = 1 .. Len(q) /\ Len(q) \in Nat
          /\ \A i \in 1 .. Len(q) : Append(q, a)[i] = q[i]
          /\ Append(q, a)[Len(q) + 1] = a
      OBVIOUS
    <2> QED BY <2>1 DEF ToSet
  <1>3. ASSUME NEW q \in Seq(S), NEW a \in S, NEW b \in S
        PROVE  ToSet(q \o <<a, b>>) = ToSet(q) \cup {a, b}
    <2> PICK longer : longer = q \o <<a, b>>
      OBVIOUS
    <2>1. /\ DOMAIN longer = 1 .. Len(q) + 2 /\ DOMAIN q = 1 .. Len(q) /\ Len(q) \in Nat
          /\ \A i \in 1 .. Len(q) : longer[i] = q[i]
          /\ longer[Len(q) + 1] = a /\ longer[Len(q) + 2] = b
      OBVIOUS
    <2>2. ASSUME NEW n \in Nat
          PROVE  /\ \A i \in 1 .. n + 2 : i \in 1 .. n \/ i = n + 1 \/ i = n + 2
                 /\ 1 .. n \subseteq 1 .. n + 2 /\ n + 1 \in 1 .. n + 2 /\ n + 2 \in 1 .. n + 2
      OBVIOUS
    <2>3. ToSet(longer) = ToSet(q) \cup {a, b}
      <3>1. ASSUME NEW x \in ToSet(longer)
            PROVE  x \in ToSet(q) \cup {a, b}
        BY <2>1, <2>2 DEF ToSet
      <3>2. ASSUME NEW x \in ToSet(q) \cup {a, b}
            PROVE  x \in ToSet(longer)
        BY <2>1, <2>2 DEF ToSet
      <3> QED BY <3>1, <3>2
    <2> QED BY <2>3
  <1>4. ASSUME NEW q \in Seq(S), q # <<>>
        PROVE  ToSet(q) = {Head(q)} \cup ToSet(Tail(q))
    <2>1. /\ DOMAIN q = 1 .. Len(q) /\ Len(q) \in Nat /\ Len(q) > 0
          /\ DOMAIN Tail(q) = 1 .. Len(q) - 1
          /\ \A i \in 1 .. Len(q) - 1 : Tail(q)[i] = q[i + 1]
          /\ Head(q) = q[1]
      BY <1>4
    <2>2. ASSUME NEW x \in ToSet(q)
          PROVE  x \in {Head(q)} \cup ToSet(Tail(q))
      <3>1. PICK i \in 1 .. Len(q) : x = q[i]
        BY <2>1 DEF ToSet
      <3>2. i = 1 \/ (i - 1 \in 1 .. Len(q) - 1 /\ Tail(q)[i - 1] = q[i])
        BY <2>1
      <3> QED BY <2>1, <3>1, <3>2 DEF ToSet
    <2>3. ASSUME NEW x \in {Head(q)} \cup ToSet(Tail(q))
          PROVE  x \in ToSet(q)
      <3>1. CASE x = Head(q)
        BY <2>1, <3>1 DEF ToSet
      <3>2. CASE x \in ToSet(Tail(q))
        <4>1. PICK i \in 1 .. Len(q) - 1 : x = Tail(q)[i]
          BY <2>1, <3>2 DEF ToSet
        <4>2. i + 1 \in 1 .. Len(q) /\ x = q[i + 1]
          BY <2>1, <4>1
        <4> QED BY <2>1, <4>2 DEF ToSet
      <3> QED BY <3>1, <3>2
    <2> QED BY <2>2, <2>3
  <1> QED BY <1>1, <1>2, <1>3, <1>4

OutOf(s) == ToSet(out[s])

HandOf(t) == {d.message : d \in ToSet(hand[t])}

LEMMA PlacesOfReports ==
    ASSUME NEW m
    PROVE  m \in Reports <=> \/ \E s \in Sessions : m \in OutOf(s)
                             \/ \E t \in Threads : m \in HandOf(t)
                             \/ m \in HeldBack
                             \/ m \in Logged
  <1>1. m \in ToSend <=> \E s \in Sessions : m \in OutOf(s)
    BY DEF ToSend, OutOf
  <1>2. m \in InHand <=> \E t \in Threads : m \in HandOf(t)
    BY DEF InHand, HandOf
  <1>3. m \in Reports <=> m \in ToSend \/ m \in InHand \/ m \in HeldBack \/ m \in Logged
    BY DEF Reports
  <1> QED BY <1>1, <1>2, <1>3

LEMMA PlacesOfReportsNext ==
    ASSUME NEW m
    PROVE  m \in Reports' <=> \/ \E s \in Sessions : m \in OutOf(s)'
                              \/ \E t \in Threads : m \in HandOf(t)'
                              \/ m \in HeldBack'
                              \/ m \in Logged'
  <1>1. m \in ToSend' <=> \E s \in Sessions : m \in OutOf(s)'
    BY DEF ToSend, OutOf
  <1>2. m \in InHand' <=> \E t \in Threads : m \in HandOf(t)'
    BY DEF InHand, HandOf
  <1>3. m \in Reports' <=> m \in ToSend' \/ m \in InHand' \/ m \in HeldBack' \/ m \in Logged'
    BY DEF Reports
  <1> QED BY <1>1, <1>2, <1>3

(* Nothing is lost between threads: a session thread has sent all when it  *)
(* takes up a message, and stop() has delivered what it flushed when it    *)
(* closes the connections.                                                 *)
HandoverInv ==
    /\ \A s \in Sessions : at[s] \in {"receive", "lookup", "accept", "cancel"} => out[s] = <<>>
    /\ phase # "flushed" => hand[Stopper] = <<>>

LEMMA ReportsRest ==
    ASSUME UNCHANGED <<out, hand, pending, log>>
    PROVE  Reports' = Reports
  BY DEF Reports, ToSend, InHand, HeldBack, Logged

LEMMA AnswersAdd ==
    ASSUME ExchangeInv, NEW s \in Sessions, NEW messages, Answers(s, messages),
           out[s] = <<>>, UNCHANGED <<hand, pending, log>>
    PROVE  Reports' = Reports \cup ToSet(messages)
  <1>1. OutOf(s) = {} /\ OutOf(s)' = ToSet(messages)
    <2>1. out'[s] = messages
      BY DEF Answers, ExchangeInv, SendingInv
    <2> QED BY <2>1, SetsOfSequences DEF OutOf
  <1>2. \A x \in Sessions : x # s => OutOf(x)' = OutOf(x)
    BY DEF OutOf, Answers, ExchangeInv, SendingInv
  <1>3. HeldBack' = HeldBack /\ Logged' = Logged /\ \A t \in Threads : HandOf(t)' = HandOf(t)
    BY DEF HeldBack, Logged, HandOf
  <1> QED BY <1>1, <1>2, <1>3, PlacesOfReports, PlacesOfReportsNext

LEMMA SendMoves ==
    ASSUME ExchangeInv, NEW s \in Sessions, Send(s)
    PROVE  Reports' = Reports
  <1> PICK m : m = Head(out[s])
    OBVIOUS
  <1>1. /\ Sending(s) /\ s \in Threads
        /\ out' = [out EXCEPT ![s] = Tail(@)]
        /\ out \in [Sessions -> Seq(Messages)]
        /\ hand \in [Threads -> Seq(AllDeliveries)]
        /\ log \in Seq(LogEntries)
        /\ pending \in AllDeliveries \cup {Nothing}
    BY DEF Send, DropReport, SendDirectly, HoldBack, SendWithHeld, ExchangeInv, SendingInv, Threads
  <1>2. /\ OutOf(s) = {m} \cup OutOf(s)'
        /\ \A x \in Sessions : x # s => OutOf(x)' = OutOf(x)
    <2>1. out'[s] = Tail(out[s]) /\ out[s] # <<>> /\ out[s] \in Seq(Messages)
      BY <1>1 DEF Sending
    <2>2. OutOf(s) = {m} \cup OutOf(s)'
      BY <2>1, SetsOfSequences DEF OutOf
    <2> QED BY <1>1, <2>2 DEF OutOf
  <1>3. HandOf(s) = {}
    BY <1>1, SetsOfSequences DEF Sending, HandOf
  <1>4. \A delivery \in Deliveries(s) : delivery.message = m /\ delivery # Nothing
    <2>1. \A delivery \in Deliveries(s) : delivery \in AllDeliveries
      BY <1>1, DeliveriesTyped DEF ExchangeInv
    <2>2. ASSUME NEW delivery \in Deliveries(s)
          PROVE  delivery.message = m
      <3>1. PICK duplicate \in BOOLEAN : delivery = Delivery(s, m, duplicate)
        BY DEF Deliveries
      <3> QED BY <3>1 DEF Delivery
    <2> QED BY <2>1, <2>2, NothingAssumption
  <1>5. CASE DropReport(s)
    <2>1. /\ \A t \in Threads : HandOf(t)' = HandOf(t)
          /\ HeldBack' = HeldBack
          /\ log' = Append(log, LogEntry("DROPPED", s, m))
      BY <1>5 DEF DropReport, Record, HandOf, HeldBack
    <2>2. LogEntry("DROPPED", s, m) \in LogEntries /\ LogEntry("DROPPED", s, m).message = m
      <3>1. m \in Messages
        BY <1>1, HeadAndTail DEF Sending
      <3> QED BY <3>1 DEF LogEntry, LogEntries
    <2>3. Logged' = Logged \cup {m}
      <3>1. ToSet(log') = ToSet(log) \cup {LogEntry("DROPPED", s, m)}
        BY <1>1, <2>1, <2>2, SetsOfSequences
      <3> QED BY <2>2, <3>1 DEF Logged
    <2> QED BY <1>2, <2>1, <2>3, PlacesOfReports, PlacesOfReportsNext
  <1>6. ASSUME NEW delivery \in Deliveries(s), hand' = [hand EXCEPT ![s] = <<delivery>>],
               pending' = pending, log' = log
        PROVE  Reports' = Reports
    <2>1. /\ \A t \in Threads : t # s => HandOf(t)' = HandOf(t)
          /\ HeldBack' = HeldBack /\ Logged' = Logged
      BY <1>1, <1>6 DEF HandOf, HeldBack, Logged
    <2>2. HandOf(s)' = {m}
      <3>1. ToSet(hand'[s]) = {delivery}
        BY <1>1, <1>6, SetsOfSequences
      <3> QED BY <1>4, <3>1 DEF HandOf
    <2>3. \A x : (\E t \in Threads : x \in HandOf(t)') <=>
                   (\E t \in Threads : x \in HandOf(t)) \/ x = m
      BY <1>1, <1>3, <2>1, <2>2
    <2>4. \A x : (\E z \in Sessions : x \in OutOf(z)') \/ x = m <=>
                   (\E z \in Sessions : x \in OutOf(z))
      BY <1>2
    <2> QED BY <2>1, <2>3, <2>4, PlacesOfReports, PlacesOfReportsNext
  <1>7. ASSUME NEW delivery \in Deliveries(s), pending = Nothing, pending' = delivery,
               UNCHANGED <<hand, log>>
        PROVE  Reports' = Reports
    <2>1. /\ \A t \in Threads : HandOf(t)' = HandOf(t)
          /\ HeldBack' = {m} /\ HeldBack = {} /\ Logged' = Logged
      BY <1>4, <1>7 DEF HandOf, HeldBack, Logged
    <2> QED BY <1>2, <2>1, PlacesOfReports, PlacesOfReportsNext
  <1>8. ASSUME NEW delivery \in Deliveries(s), pending # Nothing, pending' = Nothing,
               hand' = [hand EXCEPT ![s] = InOrder(pending, delivery)], log' = log
        PROVE  Reports' = Reports
    <2>1. /\ \A t \in Threads : t # s => HandOf(t)' = HandOf(t)
          /\ HeldBack' = {} /\ HeldBack = {pending.message} /\ Logged' = Logged
      BY <1>1, <1>8 DEF HandOf, HeldBack, Logged
    <2>2. HandOf(s)' = {m, pending.message}
      <3>1. ToSet(hand'[s]) = {delivery, pending}
        BY <1>1, <1>8, SetsOfSequences DEF InOrder
      <3> QED BY <1>4, <3>1 DEF HandOf
    <2>3. \A x : (\E t \in Threads : x \in HandOf(t)') <=>
                   (\E t \in Threads : x \in HandOf(t)) \/ x \in {m, pending.message}
      BY <1>1, <1>3, <2>1, <2>2
    <2>4. \A x : (\E z \in Sessions : x \in OutOf(z)') \/ x = m <=>
                   (\E z \in Sessions : x \in OutOf(z))
      BY <1>2
    <2> QED BY <2>1, <2>3, <2>4, PlacesOfReports, PlacesOfReportsNext
  <1> QED BY <1>5, <1>6, <1>7, <1>8 DEF Send, SendDirectly, HoldBack, SendWithHeld

LEMMA FlushMoves ==
    ASSUME ExchangeInv, HandoverInv, StopFlush \/ \E t \in Timers : HoldExpires(t)
    PROVE  Reports' = Reports
  <1>1. PICK t \in Threads : hand[t] = <<>> /\ TakePending(t)
    BY DEF StopFlush, HoldExpires, Threads, HandoverInv
  <1>2. /\ hand' = [hand EXCEPT ![t] = IF pending = Nothing THEN <<>> ELSE <<pending>>]
        /\ pending' = Nothing /\ UNCHANGED <<out, log>>
        /\ hand \in [Threads -> Seq(AllDeliveries)]
    BY <1>1 DEF TakePending, StopFlush, HoldExpires, ExchangeInv, SendingInv
  <1>3. /\ \A x \in Threads : x # t => HandOf(x)' = HandOf(x)
        /\ \A s \in Sessions : OutOf(s)' = OutOf(s)
        /\ HeldBack' = {} /\ Logged' = Logged
    BY <1>2 DEF HandOf, OutOf, HeldBack, Logged
  <1>4. HandOf(t) = {} /\ HandOf(t)' = HeldBack
    <2>1. ToSet(hand'[t]) = IF pending = Nothing THEN {} ELSE {pending}
      BY <1>2, SetsOfSequences
    <2> QED BY <1>1, <2>1, SetsOfSequences DEF HandOf, HeldBack
  <1> QED BY <1>3, <1>4, PlacesOfReports, PlacesOfReportsNext

LEMMA DeliverMoves ==
    ASSUME ExchangeInv, NEW t \in Threads, Deliver(t)
    PROVE  Reports' = Reports
  <1> PICK delivery : delivery = Head(hand[t])
    OBVIOUS
  <1>1. /\ hand' = [hand EXCEPT ![t] = Tail(@)] /\ hand[t] # <<>> /\ UNCHANGED <<out, pending>>
        /\ hand \in [Threads -> Seq(AllDeliveries)] /\ log \in Seq(LogEntries)
    BY DEF Deliver, ExchangeInv, SendingInv
  <1>2. delivery \in AllDeliveries /\ ToSet(hand[t]) = {delivery} \cup ToSet(hand'[t])
    <2>1. hand[t] \in Seq(AllDeliveries) /\ hand'[t] = Tail(hand[t])
      BY <1>1
    <2> QED BY <1>1, <2>1, HeadAndTail, SetsOfSequences
  <1> DEFINE Entry(direction) == LogEntry(direction, delivery.session, delivery.message)
  <1>3. \A direction \in {"SENT", "DUPLICATE_SENT", "DELIVERY_FAILED"} :
            Entry(direction) \in LogEntries /\ Entry(direction).message = delivery.message
    BY <1>2 DEF AllDeliveries, LogEntry, LogEntries
  <1>4. \/ log' = Append(log, Entry("SENT"))
        \/ log' = log \o <<Entry("SENT"), Entry("DUPLICATE_SENT")>>
        \/ log' = Append(log, Entry("DELIVERY_FAILED"))
        \/ log' = log \o <<Entry("SENT"), Entry("DELIVERY_FAILED")>>
    BY DEF Deliver
  <1> HIDE DEF Entry
  <1>6. Logged' = Logged \cup {delivery.message}
    <2>1. /\ \A a \in LogEntries : ToSet(Append(log, a)) = ToSet(log) \cup {a}
          /\ \A a, b \in LogEntries : ToSet(log \o <<a, b>>) = ToSet(log) \cup {a, b}
      BY <1>1, SetsOfSequences
    <2>2. PICK a, b \in {Entry("SENT"), Entry("DUPLICATE_SENT"), Entry("DELIVERY_FAILED")} :
             log' = Append(log, a) \/ log' = log \o <<a, b>>
      BY <1>4
    <2>3. /\ a \in LogEntries /\ a.message = delivery.message
          /\ b \in LogEntries /\ b.message = delivery.message
      BY <1>3
    <2>4. CASE log' = Append(log, a)
      <3>1. ToSet(log') = ToSet(log) \cup {a}
        BY <2>1, <2>3, <2>4
      <3> QED BY <2>3, <3>1 DEF Logged
    <2>5. CASE log' = log \o <<a, b>>
      <3>1. ToSet(log') = ToSet(log) \cup {a, b}
        BY <2>1, <2>3, <2>5
      <3> QED BY <2>3, <3>1 DEF Logged
    <2> QED BY <2>2, <2>4, <2>5
  <1>7. /\ HandOf(t) = {delivery.message} \cup HandOf(t)'
        /\ \A x \in Threads : x # t => HandOf(x)' = HandOf(x)
    BY <1>1, <1>2 DEF HandOf
  <1>8. HeldBack' = HeldBack /\ \A s \in Sessions : OutOf(s)' = OutOf(s)
    BY <1>1 DEF HeldBack, OutOf
  <1> QED BY <1>6, <1>7, <1>8, PlacesOfReports, PlacesOfReportsNext

LEMMA HandoverKept ==
    ASSUME ExchangeInv, HandoverInv, [Serves]_vars
    PROVE  HandoverInv'
  <1> USE DEF HandoverInv
  <1>1. /\ at \in [Sessions -> {"none", "accepted", "logon", "turn", "receive",
                               "lookup", "accept", "cancel", "done"}]
        /\ out \in [Sessions -> Seq(Messages)]
        /\ hand \in [Threads -> Seq(AllDeliveries)]
        /\ Stopper \in Threads
    BY DEF ExchangeInv, ThreadsInv, SendingInv, Threads
  <1>2. ASSUME NEW s \in Sessions, NEW r \in Requests, Receive(s, r)
        PROVE  HandoverInv'
    <2>1. /\ at[s] = "receive" /\ UNCHANGED <<hand, phase>>
          /\ \E place \in {"lookup", "cancel", "turn"} : at' = [at EXCEPT ![s] = place]
          /\ \/ out' = out
             \/ at' = [at EXCEPT ![s] = "turn"] /\ \E any : out' = [out EXCEPT ![s] = any]
      BY <1>2 DEF Receive, service
    <2> QED BY <1>1, <2>1
  <1>3. ASSUME NEW s \in Sessions, Listen(s)
        PROVE  HandoverInv'
    BY <1>1, <1>3 DEF Listen, HasSent, service
  <1>4. ASSUME NEW s \in Sessions,
               AcceptConnection(s) \/ Register(s) \/ Logon(s) \/ SessionEnds(s) \/ PeerLeaves(s)
        PROVE  HandoverInv'
    <2>1. /\ UNCHANGED <<out, hand, phase>>
          /\ \/ at' = at
             \/ \E place \in {"accepted", "logon", "turn", "done"} : at' = [at EXCEPT ![s] = place]
      BY <1>4 DEF AcceptConnection, Register, Logon, SessionEnds, PeerLeaves, service
    <2> QED BY <1>1, <2>1
  <1>5. CASE AcceptorExits
    BY <1>1, <1>5 DEF AcceptorExits
  <1>6. ASSUME NEW s \in Sessions, LookUp(s) \/ AcceptNewOrder(s) \/ Cancel(s)
        PROVE  HandoverInv'
    <2>1. /\ at[s] \in {"lookup", "accept", "cancel"} /\ UNCHANGED <<hand, phase>>
          /\ \/ \E messages : Answers(s, messages)
             \/ at' = [at EXCEPT ![s] = "accept"] /\ out' = out
      BY <1>6 DEF LookUp, AcceptNewOrder, Cancel, service
    <2>2. \/ at' = [at EXCEPT ![s] = "turn"] /\ \E any : out' = [out EXCEPT ![s] = any]
          \/ at' = [at EXCEPT ![s] = "accept"] /\ out' = out
      BY <2>1 DEF Answers
    <2> QED BY <1>1, <2>1, <2>2
  <1>7. ASSUME NEW s \in Sessions, Send(s)
        PROVE  HandoverInv'
    <2>1. /\ Sending(s) /\ UNCHANGED <<at, phase>>
          /\ out' = [out EXCEPT ![s] = Tail(@)]
          /\ hand' = hand \/ \E any : hand' = [hand EXCEPT ![s] = any]
      BY <1>7 DEF Send, DropReport, SendDirectly, HoldBack, SendWithHeld, service
    <2> QED BY <1>1, <2>1, ThreadsAssumption DEF Sending
  <1>8. ASSUME NEW t \in Timers, HoldExpires(t)
        PROVE  HandoverInv'
    <2>1. UNCHANGED <<at, out, phase>> /\ \E any : hand' = [hand EXCEPT ![t] = any]
      BY <1>8 DEF HoldExpires, TakePending, service
    <2> QED BY <1>1, <2>1, ThreadsAssumption
  <1>9. CASE StopFlush
    BY <1>9 DEF StopFlush
  <1>10. ASSUME NEW t \in Threads, Deliver(t)
         PROVE  HandoverInv'
    <2>1. /\ UNCHANGED <<at, out, phase>> /\ hand[t] # <<>>
          /\ hand' = [hand EXCEPT ![t] = Tail(@)]
      BY <1>10 DEF Deliver, service
    <2> QED BY <1>1, <2>1
  <1>11. CASE Stop \/ StopClose \/ StopJoin \/ Start
    BY <1>11 DEF Stop, StopClose, StopJoin, Start
  <1>12. CASE UNCHANGED vars
    BY <1>12 DEF vars
  <1> HIDE DEF HandoverInv
  <1> QED
    BY <1>2, <1>3, <1>4, <1>5, <1>6, <1>7, <1>8, <1>9, <1>10, <1>11, <1>12
    DEF Serves, Exchange, Work, Connect, StopStep

-------------------------------------------------------------------------------
(* What is reported of the orders                                          *)

(* A report of something that happened to an order.                        *)
Announces(m) == IsReport(m) /\ m.event # "REJECT"

(* One report after the other announces the arcs of a history, and no      *)
(* other report does.                                                      *)
Explains(report, arcs, reports, history) ==
    /\ report \in [arcs -> reports]
    /\ reports = {report[i] : i \in arcs}
    /\ \A i \in arcs : report[i].event = history[i].event
    /\ \A i, j \in arcs : i < j => report[i].exec_id < report[j].exec_id

(* Every announcement is of an order in the book and carries an ExecID     *)
(* already spent, what is cached has been sent, and the announcements of   *)
(* every order are those of its history.                                   *)
AnnouncedInv ==
    \A m \in Reports : Announces(m) => m.order \in DOMAIN orders /\ m.exec_id < nextExec

CachedInv == \A id \in DOMAIN responses : ToSet(responses[id]) \subseteq ReportsOf(id)

ReportedInv == AnnouncedInv /\ CachedInv /\ EveryEventIsReported

LEMMA EventsExplained ==
    /\ EveryEventIsReported <=>
          \A id \in DOMAIN orders :
             \E report : Explains(report, AnnouncedArcs(id), ReportsOf(id), orders[id].history)
    /\ EveryEventIsReported' <=>
          \A id \in DOMAIN orders' :
             \E report : Explains(report, AnnouncedArcs(id)', ReportsOf(id)', orders'[id].history)
  <1>1. EveryEventIsReported <=>
          \A id \in DOMAIN orders :
             \E report : Explains(report, AnnouncedArcs(id), ReportsOf(id), orders[id].history)
    BY DEF EveryEventIsReported, Explains
  <1>2. EveryEventIsReported' <=>
          \A id \in DOMAIN orders' :
             \E report : Explains(report, AnnouncedArcs(id)', ReportsOf(id)', orders'[id].history)
    BY DEF EveryEventIsReported, Explains
  <1> QED BY <1>1, <1>2

LEMMA ReportsOfAnnounce ==
    ASSUME NEW id, NEW m
    PROVE  /\ m \in ReportsOf(id) <=> m \in Reports /\ Announces(m) /\ m.order = id
           /\ m \in ReportsOf(id)' <=> m \in Reports' /\ Announces(m) /\ m.order = id
  BY DEF ReportsOf, Announces

LEMMA ReportsTypedWhereverTheyAre ==
    ASSUME ExchangeInv
    PROVE  Reports \subseteq Messages
  <1> SUFFICES ASSUME NEW m \in Reports PROVE m \in Messages
    OBVIOUS
  <1>1. /\ out \in [Sessions -> Seq(Messages)]
        /\ hand \in [Threads -> Seq(AllDeliveries)]
        /\ pending \in AllDeliveries \cup {Nothing}
        /\ log \in Seq(LogEntries)
    BY DEF ExchangeInv, SendingInv
  <1>2. ASSUME NEW S, NEW q \in Seq(S)
        PROVE  ToSet(q) \subseteq S
    BY DEF ToSet
  <1>3. \A s \in Sessions : OutOf(s) \subseteq Messages
    BY <1>1, <1>2 DEF OutOf
  <1>4. ASSUME NEW t \in Threads, m \in HandOf(t)
        PROVE  m \in Messages
    <2>1. PICK d \in ToSet(hand[t]) : m = d.message
      BY <1>4 DEF HandOf
    <2>2. d \in AllDeliveries
      BY <1>1, <1>2
    <2> QED BY <2>1, <2>2 DEF AllDeliveries
  <1>5. HeldBack \subseteq Messages
    BY <1>1 DEF HeldBack, AllDeliveries
  <1>6. ASSUME m \in Logged
        PROVE  m \in Messages
    <2>1. PICK entry \in ToSet(log) : m = entry.message
      BY <1>6 DEF Logged
    <2>2. entry \in LogEntries
      BY <1>1, <1>2
    <2> QED BY <2>1, <2>2 DEF LogEntries
  <1> QED BY <1>3, <1>4, <1>5, <1>6, PlacesOfReports

(* The book and the cache rest, and nothing new is announced.              *)
LEMMA NothingAnnounced ==
    ASSUME ReportedInv, UNCHANGED <<orders, responses>>,
           nextExec \in Nat, nextExec' \in {nextExec, nextExec + 1},
           \A m : Announces(m) => (m \in Reports' <=> m \in Reports), ExchangeInv
    PROVE  ReportedInv'
  <1>1. AnnouncedInv'
    <2>1. \A m \in Reports : m.exec_id \in Nat
      BY ReportsTypedWhereverTheyAre DEF Messages
    <2> QED BY <2>1 DEF ReportedInv, AnnouncedInv
  <1>2. \A id : ReportsOf(id)' = ReportsOf(id) /\ AnnouncedArcs(id)' = AnnouncedArcs(id)
    <2>1. ASSUME NEW id
          PROVE  ReportsOf(id)' = ReportsOf(id)
      <3>1. \A m : m \in ReportsOf(id)' <=> m \in ReportsOf(id)
        BY ReportsOfAnnounce
      <3> QED BY <3>1
    <2>2. \A id : AnnouncedArcs(id)' = AnnouncedArcs(id)
      BY DEF AnnouncedArcs
    <2> QED BY <2>1, <2>2
  <1>3. CachedInv'
    BY <1>2 DEF ReportedInv, CachedInv
  <1>4. EveryEventIsReported'
    BY <1>2, EventsExplained DEF ReportedInv
  <1> QED BY <1>1, <1>3, <1>4 DEF ReportedInv

(* What the steps that send move is what they announce: nothing new.       *)
LEMMA MovesAnnounceNothing ==
    ASSUME ExchangeInv, ReportedInv, UNCHANGED books,
           \A m : Announces(m) => (m \in Reports' <=> m \in Reports)
    PROVE  ReportedInv'
  <1>1. /\ UNCHANGED <<orders, responses>> /\ nextExec' = nextExec /\ nextExec \in Nat
    BY DEF books, ExchangeInv, BooksInv
  <1> QED BY <1>1, NothingAnnounced

LEMMA RejectsAnnounceNothing ==
    ASSUME NEW r
    PROVE  /\ \A n : ~Announces(RejectedExecutionReport(r, n))
           /\ ~Announces(CancelReject(r))
           /\ r \in Requests => ~Announces(Message(r.type, r.cl, r.order, "none", 0, 0))
  <1>1. /\ \A n : RejectedExecutionReport(r, n).event = "REJECT"
        /\ CancelReject(r).type = "9"
        /\ Message(r.type, r.cl, r.order, "none", 0, 0).type = r.type
    BY DEF RejectedExecutionReport, ExecutionReport, CancelReject, Message
  <1> QED BY <1>1, RequestsAssumption DEF Announces, IsReport

(* A request is logged, and may be refused at once.                        *)
LEMMA ReceiveAdds ==
    ASSUME ExchangeInv, HandoverInv, NEW s \in Sessions, NEW r \in Requests, Receive(s, r)
    PROVE  LET received == Message(r.type, r.cl, r.order, "none", 0, 0) IN
           \/ /\ Reports' = Reports \cup {received}
              /\ nextExec' = nextExec
           \/ /\ Reports' = Reports \cup {received, RejectedExecutionReport(r, nextExec)}
              /\ nextExec' = nextExec + 1
           \/ /\ Reports' = Reports \cup {received, CancelReject(r)}
              /\ nextExec' = nextExec
  <1> PICK received : received = Message(r.type, r.cl, r.order, "none", 0, 0)
    OBVIOUS
  <1>1. /\ UNCHANGED <<hand, pending>>
        /\ log' = Append(log, LogEntry("RECEIVED", s, received))
        /\ out[s] = <<>>
        /\ out \in [Sessions -> Seq(Messages)] /\ log \in Seq(LogEntries)
    BY DEF Receive, Record, HandoverInv, ExchangeInv, SendingInv
  <1>2. Logged' = Logged \cup {received}
    <2>1. LogEntry("RECEIVED", s, received) \in LogEntries
          /\ LogEntry("RECEIVED", s, received).message = received
      BY MessagesTyped DEF LogEntry, LogEntries
    <2>2. ToSet(log') = ToSet(log) \cup {LogEntry("RECEIVED", s, received)}
      BY <1>1, <2>1, SetsOfSequences
    <2> QED BY <2>1, <2>2 DEF Logged
  <1>3. HeldBack' = HeldBack /\ \A t \in Threads : HandOf(t)' = HandOf(t)
    BY <1>1 DEF HeldBack, HandOf
  <1>4. ASSUME NEW answers, out' = [out EXCEPT ![s] = answers]
        PROVE  Reports' = Reports \cup {received} \cup ToSet(answers)
    <2>1. /\ OutOf(s) = {} /\ OutOf(s)' = ToSet(answers)
          /\ \A x \in Sessions : x # s => OutOf(x)' = OutOf(x)
      <3>1. out'[s] = answers
        BY <1>1, <1>4
      <3> QED BY <1>1, <1>4, <3>1, SetsOfSequences DEF OutOf
    <2> QED BY <1>2, <1>3, <2>1, PlacesOfReports, PlacesOfReportsNext
  <1>5. CASE UNCHANGED <<out, nextExec>>
    <2>1. out' = [out EXCEPT ![s] = <<>>]
      BY <1>1, <1>5
    <2>2. Reports' = Reports \cup {received} \cup ToSet(<<>>)
      BY <1>4, <2>1
    <2> QED BY <1>5, <2>2, SetsOfSequences
  <1>6. CASE /\ out' = [out EXCEPT ![s] = <<RejectedExecutionReport(r, nextExec)>>]
             /\ nextExec' = nextExec + 1
    <2>1. Reports' = Reports \cup {received} \cup ToSet(<<RejectedExecutionReport(r, nextExec)>>)
      BY <1>4, <1>6
    <2>2. ToSet(<<RejectedExecutionReport(r, nextExec)>>) = {RejectedExecutionReport(r, nextExec)}
      BY SetsOfSequences
    <2>3. Reports' = Reports \cup {received, RejectedExecutionReport(r, nextExec)}
      BY <2>1, <2>2
    <2> QED BY <1>6, <2>3
  <1>7. CASE out' = [out EXCEPT ![s] = <<CancelReject(r)>>] /\ nextExec' = nextExec
    <2>1. Reports' = Reports \cup {received} \cup ToSet(<<CancelReject(r)>>)
      BY <1>4, <1>7
    <2>2. ToSet(<<CancelReject(r)>>) = {CancelReject(r)}
      BY SetsOfSequences
    <2>3. Reports' = Reports \cup {received, CancelReject(r)}
      BY <2>1, <2>2
    <2> QED BY <1>7, <2>3
  <1> QED BY <1>5, <1>6, <1>7 DEF Receive

LEMMA ReceiveAnnouncesNothing ==
    ASSUME ExchangeInv, HandoverInv, ReportedInv, NEW s \in Sessions, NEW r \in Requests, Receive(s, r)
    PROVE  ReportedInv'
  <1> PICK received : received = Message(r.type, r.cl, r.order, "none", 0, 0)
    OBVIOUS
  <1>1. /\ UNCHANGED <<orders, responses>> /\ nextExec \in Nat
        /\ nextExec' \in {nextExec, nextExec + 1}
    BY DEF Receive, ExchangeInv, BooksInv
  <1>2. PICK answers \in {{}, {RejectedExecutionReport(r, nextExec)}, {CancelReject(r)}} :
           Reports' = Reports \cup {received} \cup answers
    BY ReceiveAdds
  <1>3. ~Announces(received) /\ \A m \in answers : ~Announces(m)
    BY <1>2, RejectsAnnounceNothing
  <1>4. \A m : Announces(m) => (m \in Reports' <=> m \in Reports)
    BY <1>2, <1>3
  <1> QED BY <1>1, <1>4, NothingAnnounced

LEMMA LookUpAnnouncesNothing ==
    ASSUME ExchangeInv, HandoverInv, ReportedInv, NEW s \in Sessions, LookUp(s)
    PROVE  ReportedInv'
  <1>1. /\ UNCHANGED books /\ UNCHANGED <<hand, pending, log>>
        /\ out[s] = <<>>
    BY DEF LookUp, HandoverInv
  <1>2. CASE request[s].order \in DOMAIN responses
    <2> PICK messages : messages = responses[request[s].order]
      OBVIOUS
    <2>1. Reports' = Reports \cup ToSet(messages)
      <3>1. Answers(s, messages)
        BY <1>2 DEF LookUp
      <3> QED BY <1>1, <3>1, AnswersAdd
    <2>2. ToSet(messages) \subseteq Reports
      BY <1>2 DEF ReportedInv, CachedInv, ReportsOf
    <2> QED BY <1>1, <2>1, <2>2, MovesAnnounceNothing
  <1>3. CASE request[s].order \notin DOMAIN responses
    <2>1. out' = out
      BY <1>3 DEF LookUp
    <2> QED BY <1>1, <2>1, ReportsRest, MovesAnnounceNothing
  <1> QED BY <1>2, <1>3

(* The first occurrence of an order: nothing was announced of it before,   *)
(* and the reports of its history, or nothing, are announced now.          *)
LEMMA AcceptAnnounces ==
    ASSUME ExchangeInv, HandoverInv, ReportedInv, NEW s \in Sessions, AcceptNewOrder(s)
    PROVE  ReportedInv'
  <1> PICK r : r = request[s]
    OBVIOUS
  <1>1. /\ UNCHANGED <<hand, pending, log>> /\ out[s] = <<>> /\ nextExec \in Nat
        /\ DOMAIN responses \subseteq DOMAIN orders
    BY DEF AcceptNewOrder, HandoverInv, ExchangeInv, BooksInv
  <1>2. \A n : ToSet(<<RejectedExecutionReport(r, n)>>) = {RejectedExecutionReport(r, n)}
    BY SetsOfSequences
  <1>3. \A n : ~Announces(RejectedExecutionReport(r, n))
    BY RejectsAnnounceNothing
  <1>4. \A m \in Reports : m.exec_id \in Nat
    BY ReportsTypedWhereverTheyAre DEF Messages
  <1>5. CASE Refuses(s, r)
    <2>1. Reports' = Reports \cup {RejectedExecutionReport(r, nextExec)}
      BY <1>1, <1>2, <1>5, AnswersAdd DEF Refuses
    <2>2. \A m : Announces(m) => (m \in Reports' <=> m \in Reports)
      BY <1>3, <2>1
    <2> QED BY <1>1, <1>5, <2>2, NothingAnnounced DEF Refuses
  <1>6. ASSUME NEW order, NEW reports \in Seq(Messages), r.order \notin DOMAIN orders,
               OpensWith(r, order, reports), Accepts(s, r, order, reports)
        PROVE  ReportedInv'
    <2> PICK id : id = r.order
      OBVIOUS
    <2> PICK n : n = Len(reports)
      OBVIOUS
    <2>1. /\ n \in Nat /\ DOMAIN reports = 1 .. n /\ DOMAIN order.history = 1 .. n
          /\ \A i \in 1 .. n :
                /\ order.history[i].event \in OpeningEvents
                /\ Announces(reports[i]) /\ reports[i].order = id
                /\ reports[i].event = order.history[i].event
                /\ reports[i].exec_id = nextExec + i - 1
      <3>1. n \in Nat /\ DOMAIN reports = 1 .. n
        BY <1>6
      <3>2. DOMAIN order.history = 1 .. n
        BY <1>6 DEF OpensWith, GoodOrder, Order
      <3> QED BY <1>6, <3>1, <3>2 DEF OpensWith, Announces, OpeningEvents
    <2>2. /\ DOMAIN orders' = DOMAIN orders \cup {id} /\ orders'[id] = order
          /\ \A x \in DOMAIN orders : x # id /\ orders'[x] = orders[x]
      BY <1>6 DEF Accepts
    <2>3. ReportsOf(id) = {}
      BY <1>6, ReportsOfAnnounce DEF ReportedInv, AnnouncedInv
    <2>4. \/ /\ responses' = [x \in DOMAIN responses \cup {id} |->
                                IF x = id THEN reports ELSE responses[x]]
             /\ nextExec' = nextExec + n
             /\ Reports' = Reports \cup ToSet(reports)
          \/ /\ responses' = responses
             /\ nextExec' = nextExec + n + 1
             /\ \A m : Announces(m) => (m \in Reports' <=> m \in Reports)
      <3>1. CASE /\ Answers(s, reports)
                 /\ responses' = [x \in DOMAIN responses \cup {id} |->
                                    IF x = id THEN reports ELSE responses[x]]
                 /\ nextExec' = nextExec + n
        <4>1. Reports' = Reports \cup ToSet(reports)
          BY <1>1, <3>1, AnswersAdd
        <4> QED BY <3>1, <4>1
      <3>2. CASE /\ Answers(s, <<RejectedExecutionReport(r, nextExec + n)>>)
                 /\ responses' = responses
                 /\ nextExec' = nextExec + n + 1
        <4>1. Reports' = Reports \cup {RejectedExecutionReport(r, nextExec + n)}
          BY <1>1, <1>2, <3>2, AnswersAdd
        <4>2. \A m : Announces(m) => (m \in Reports' <=> m \in Reports)
          BY <1>3, <4>1
        <4> QED BY <3>2, <4>2
      <3> QED BY <1>6, <3>1, <3>2 DEF Accepts
    <2>5. /\ \A x \in DOMAIN orders : x \in DOMAIN responses' <=> x \in DOMAIN responses
          /\ \A x \in DOMAIN responses : responses'[x] = responses[x] /\ x # id
          /\ \A m \in ToSet(reports) : Announces(m) /\ m.order = id
                                       /\ m.exec_id \in Nat /\ m.exec_id < nextExec + n
      <3>1. \A x \in DOMAIN responses : x # id
        BY <1>1, <2>2
      <3>2. \A x \in DOMAIN orders : x # id
        BY <2>2
      <3>3. ASSUME NEW m \in ToSet(reports)
            PROVE  /\ Announces(m) /\ m.order = id
                   /\ m.exec_id \in Nat /\ m.exec_id < nextExec + n
        <4>1. PICK i \in 1 .. n : m = reports[i]
          BY <2>1 DEF ToSet
        <4> QED BY <1>1, <2>1, <4>1
      <3> QED BY <2>4, <3>1, <3>2, <3>3
    <2>6. ASSUME NEW x \in DOMAIN orders
          PROVE  /\ ReportsOf(x)' = ReportsOf(x)
                 /\ AnnouncedArcs(x)' = AnnouncedArcs(x)
                 /\ orders'[x] = orders[x]
      <3>1. \A m : m \in ReportsOf(x)' <=> m \in ReportsOf(x)
        <4>1. \A m : Announces(m) /\ m.order = x => (m \in Reports' <=> m \in Reports)
          BY <2>2, <2>4, <2>5
        <4> QED BY <4>1, ReportsOfAnnounce
      <3>2. ReportsOf(x)' = ReportsOf(x)
        BY <3>1
      <3>3. AnnouncedArcs(x)' = AnnouncedArcs(x)
        BY <2>2, <2>5 DEF AnnouncedArcs
      <3> QED BY <2>2, <3>2, <3>3
    <2>7. \A x \in DOMAIN orders :
             \E report : Explains(report, AnnouncedArcs(x)', ReportsOf(x)', orders'[x].history)
      BY <2>6, EventsExplained DEF ReportedInv
    <2>8. \A x \in DOMAIN responses : ToSet(responses'[x]) \subseteq ReportsOf(x)'
      BY <1>1, <2>5, <2>6 DEF ReportedInv, CachedInv
    <2>9. \A m \in Reports : Announces(m) => m.order \in DOMAIN orders' /\ m.exec_id < nextExec'
      <3>1. nextExec' \in Nat /\ nextExec <= nextExec'
        BY <1>1, <2>1, <2>4
      <3> QED BY <1>1, <1>4, <2>2, <3>1 DEF ReportedInv, AnnouncedInv
    <2>10. CASE /\ responses' = [x \in DOMAIN responses \cup {id} |->
                                   IF x = id THEN reports ELSE responses[x]]
                /\ nextExec' = nextExec + n
                /\ Reports' = Reports \cup ToSet(reports)
      <3>1. AnnouncedInv'
        BY <2>2, <2>5, <2>9, <2>10 DEF AnnouncedInv
      <3>2. ReportsOf(id)' = ToSet(reports)
        <4>1. \A m : m \in ReportsOf(id)' <=> m \in ToSet(reports)
          BY <2>3, <2>5, <2>10, ReportsOfAnnounce
        <4> QED BY <4>1
      <3>3. CachedInv'
        BY <2>8, <2>10, <3>2 DEF CachedInv
      <3>4. AnnouncedArcs(id)' = 1 .. n
        BY <2>1, <2>2, <2>10 DEF AnnouncedArcs, OpeningEvents
      <3>5. Explains(reports, 1 .. n, ToSet(reports), order.history)
        <4>1. reports \in [1 .. n -> ToSet(reports)] /\ ToSet(reports) = {reports[i] : i \in 1 .. n}
          BY <2>1 DEF ToSet
        <4>2. \A i, j \in 1 .. n : i < j => reports[i].exec_id < reports[j].exec_id
          BY <1>1, <2>1
        <4> QED BY <2>1, <4>1, <4>2 DEF Explains
      <3>6. EveryEventIsReported'
        BY <2>2, <2>7, <3>2, <3>4, <3>5, EventsExplained
      <3> QED BY <3>1, <3>3, <3>6 DEF ReportedInv
    <2>11. CASE /\ responses' = responses
                /\ nextExec' = nextExec + n + 1
                /\ \A m : Announces(m) => (m \in Reports' <=> m \in Reports)
      <3>1. AnnouncedInv'
        BY <2>9, <2>11 DEF AnnouncedInv
      <3>2. CachedInv'
        BY <2>8, <2>11 DEF CachedInv
      <3>3. ReportsOf(id)' = {}
        BY <2>3, <2>11, ReportsOfAnnounce
      <3>4. AnnouncedArcs(id)' = {}
        <4>1. id \notin DOMAIN responses'
          BY <2>5, <2>11
        <4> QED BY <2>1, <2>2, <4>1 DEF AnnouncedArcs, OpeningEvents
      <3>5. Explains([i \in {} |-> 0], {}, {}, order.history)
        BY DEF Explains
      <3>6. EveryEventIsReported'
        BY <2>2, <2>7, <3>3, <3>4, <3>5, EventsExplained
      <3> QED BY <3>1, <3>2, <3>6 DEF ReportedInv
    <2> QED BY <2>4, <2>10, <2>11
  <1> QED BY <1>5, <1>6, AcceptShape

(* A cancel adds two arcs to the history of the order, and the last report *)
(* of it, under an ExecID later than all before.                           *)
LEMMA CancelAnnounces ==
    ASSUME ExchangeInv, HandoverInv, ReportedInv, NEW s \in Sessions, Cancel(s)
    PROVE  ReportedInv'
  <1> PICK r : r = request[s]
    OBVIOUS
  <1>1. /\ UNCHANGED <<hand, pending, log>> /\ out[s] = <<>> /\ nextExec \in Nat
        /\ responses' = responses
    BY DEF Cancel, HandoverInv, ExchangeInv, BooksInv
  <1>2. \A m : ToSet(<<m>>) = {m}
    BY SetsOfSequences
  <1>3. \A m \in Reports : m.exec_id \in Nat
    BY ReportsTypedWhereverTheyAre DEF Messages
  <1>4. CASE UNCHANGED <<orders, nextExec>> /\ Answers(s, <<CancelReject(r)>>)
    <2>1. Reports' = Reports \cup {CancelReject(r)}
      BY <1>1, <1>2, <1>4, AnswersAdd
    <2>2. \A m : Announces(m) => (m \in Reports' <=> m \in Reports)
      BY <2>1, RejectsAnnounceNothing
    <2> QED BY <1>1, <1>4, <2>2, NothingAnnounced
  <1>5. ASSUME NEW id \in DOMAIN orders, NEW last,
               last = ExecutionReport(r.cl, id, "CANCEL_CONFIRMED", nextExec,
                                      orders[id].cumulative_quantity),
               orders[id].state \notin TERMINAL_STATES,
               orders' = [orders EXCEPT ![id] = AfterCancel(@)],
               Answers(s, <<last>>), nextExec' = nextExec + 1
        PROVE  ReportedInv'
    <2> PICK before, after : before = orders[id].history /\ after = AfterCancel(orders[id]).history
      OBVIOUS
    <2> PICK n : n = Len(before)
      OBVIOUS
    <2>1. /\ n \in Nat /\ DOMAIN before = 1 .. n /\ DOMAIN after = 1 .. n + 2
          /\ \A i \in 1 .. n : after[i] = before[i]
          /\ after[n + 1].event = "CANCEL_REQUEST"
          /\ after[n + 2].event = "CANCEL_CONFIRMED"
      <3>1. GoodOrder(orders[id])
        BY DEF ExchangeInv, BooksInv
      <3> PICK canceled : canceled = AfterCancel(orders[id])
        OBVIOUS
      <3>2. /\ GoodOrder(canceled)
            /\ Len(canceled.history) = n + 2
            /\ \A i \in 1 .. n : canceled.history[i] = before[i]
            /\ canceled.history[n + 1].event = "CANCEL_REQUEST"
            /\ canceled.history[n + 2].event = "CANCEL_CONFIRMED"
        BY <1>5, <3>1, CanceledIsGood
      <3>3. before \in Seq(TRANSITIONS) /\ canceled.history \in Seq(TRANSITIONS)
        BY <3>1, <3>2 DEF GoodOrder, Order
      <3>4. after = canceled.history
        OBVIOUS
      <3> QED BY <3>2, <3>3, <3>4
    <2>2. /\ DOMAIN orders' = DOMAIN orders /\ orders'[id].history = after
          /\ \A x \in DOMAIN orders : x # id => orders'[x] = orders[x]
      BY <1>5 DEF ExchangeInv, BooksInv
    <2>3. /\ Announces(last) /\ last.order = id /\ last.exec_id = nextExec
          /\ last.event = "CANCEL_CONFIRMED"
      BY <1>5 DEF ExecutionReport, Message, Announces, IsReport
    <2>4. Reports' = Reports \cup {last}
      BY <1>1, <1>2, <1>5, AnswersAdd
    <2>5. AnnouncedInv'
      <3>1. \A m \in Reports : Announces(m) => m.order \in DOMAIN orders /\ m.exec_id < nextExec + 1
        BY <1>1, <1>3 DEF ReportedInv, AnnouncedInv
      <3> QED BY <1>1, <1>5, <2>2, <2>3, <2>4, <3>1 DEF AnnouncedInv
    <2>6. /\ ReportsOf(id)' = ReportsOf(id) \cup {last}
          /\ \A x : x # id => ReportsOf(x)' = ReportsOf(x)
      <3>1. \A m : m \in ReportsOf(id)' <=> m \in ReportsOf(id) \cup {last}
        BY <2>3, <2>4, ReportsOfAnnounce
      <3>3. ReportsOf(id)' = ReportsOf(id) \cup {last}
        BY <3>1
      <3>4. ASSUME NEW x, x # id
            PROVE  ReportsOf(x)' = ReportsOf(x)
        <4>1. \A m : m \in ReportsOf(x)' <=> m \in ReportsOf(x)
          BY <2>3, <2>4, <3>4, ReportsOfAnnounce
        <4> QED BY <4>1
      <3> QED BY <3>3, <3>4
    <2>7. CachedInv'
      BY <1>1, <2>6 DEF ReportedInv, CachedInv
    <2>8. AnnouncedArcs(id)' = AnnouncedArcs(id) \cup {n + 2} /\ AnnouncedArcs(id) \subseteq 1 .. n
      <3>1. AnnouncedArcs(id) = {i \in 1 .. n : IF id \in DOMAIN responses
                                                THEN before[i].event # "CANCEL_REQUEST"
                                                ELSE before[i].event = "CANCEL_CONFIRMED"}
        BY <2>1 DEF AnnouncedArcs
      <3>2. AnnouncedArcs(id)' = {i \in 1 .. n + 2 : IF id \in DOMAIN responses
                                                     THEN after[i].event # "CANCEL_REQUEST"
                                                     ELSE after[i].event = "CANCEL_CONFIRMED"}
        BY <1>1, <2>1, <2>2 DEF AnnouncedArcs
      <3>3. \A i \in 1 .. n + 2 : i \in 1 .. n \/ i = n + 1 \/ i = n + 2
        BY <2>1
      <3>4. 1 .. n \subseteq 1 .. n + 2 /\ n + 2 \in 1 .. n + 2 /\ n + 2 \notin 1 .. n
        BY <2>1
      <3> QED BY <2>1, <3>1, <3>2, <3>3, <3>4
    <2>9. PICK report : Explains(report, AnnouncedArcs(id), ReportsOf(id), before)
      BY EventsExplained DEF ReportedInv
    <2> DEFINE longer == [i \in AnnouncedArcs(id)' |-> IF i = n + 2 THEN last ELSE report[i]]
    <2>10. Explains(longer, AnnouncedArcs(id)', ReportsOf(id)', after)
      <3>1. /\ report \in [AnnouncedArcs(id) -> ReportsOf(id)]
            /\ ReportsOf(id) = {report[i] : i \in AnnouncedArcs(id)}
            /\ \A i \in AnnouncedArcs(id) : report[i].event = before[i].event
            /\ \A i, j \in AnnouncedArcs(id) : i < j => report[i].exec_id < report[j].exec_id
        BY <2>9 DEF Explains
      <3>2. /\ longer[n + 2] = last
            /\ \A i \in AnnouncedArcs(id) : i # n + 2 /\ i < n + 2 /\ longer[i] = report[i]
        BY <2>1, <2>8
      <3>3. longer \in [AnnouncedArcs(id)' -> ReportsOf(id)']
        BY <2>6, <2>8, <3>1
      <3>4. ReportsOf(id)' = {longer[i] : i \in AnnouncedArcs(id)'}
        <4> HIDE DEF longer
        <4> QED BY <2>6, <2>8, <3>1, <3>2
      <3>5. ASSUME NEW i \in AnnouncedArcs(id)'
            PROVE  longer[i].event = after[i].event
        <4> HIDE DEF longer
        <4>1. CASE i = n + 2
          BY <2>1, <2>3, <3>2, <4>1
        <4>2. CASE i \in AnnouncedArcs(id)
          <5>1. i \in 1 .. n
            BY <2>8, <4>2
          <5> QED BY <2>1, <3>1, <3>2, <4>2, <5>1
        <4> QED BY <2>8, <4>1, <4>2
      <3>6. ASSUME NEW i \in AnnouncedArcs(id)', NEW j \in AnnouncedArcs(id)', i < j
            PROVE  longer[i].exec_id < longer[j].exec_id
        <4> HIDE DEF longer
        <4>1. i \in AnnouncedArcs(id)
          BY <2>1, <2>8, <3>6
        <4>2. CASE j = n + 2
          <5>1. report[i] \in ReportsOf(id)
            BY <3>1, <4>1
          <5>2. report[i].exec_id < nextExec
            BY <5>1, ReportsOfAnnounce DEF ReportedInv, AnnouncedInv
          <5> QED BY <2>3, <3>2, <4>1, <4>2, <5>2
        <4>3. CASE j # n + 2
          BY <2>8, <3>1, <3>2, <3>6, <4>1, <4>3
        <4> QED BY <4>2, <4>3
      <3> HIDE DEF longer
      <3> QED BY <3>3, <3>4, <3>5, <3>6 DEF Explains
    <2>11. ASSUME NEW x \in DOMAIN orders'
           PROVE  \E any : Explains(any, AnnouncedArcs(x)', ReportsOf(x)', orders'[x].history)
      <3>1. CASE x = id
        <4> HIDE DEF longer
        <4> QED BY <2>2, <2>10, <3>1
      <3>2. CASE x # id
        <4>1. AnnouncedArcs(x)' = AnnouncedArcs(x) /\ ReportsOf(x)' = ReportsOf(x)
          BY <1>1, <2>2, <2>6, <3>2 DEF AnnouncedArcs
        <4> QED BY <2>2, <3>2, <4>1, EventsExplained DEF ReportedInv
      <3> QED BY <3>1, <3>2
    <2>12. EveryEventIsReported'
      BY <2>11, EventsExplained
    <2> QED BY <2>5, <2>7, <2>12 DEF ReportedInv
  <1>6. CASE r.order \in DOMAIN orders /\ CancelOutcome(orders[r.order]) = "ok"
    <2>1. orders[r.order].state \notin TERMINAL_STATES
      BY <1>6, RefusedCancel
    <2> QED BY <1>5, <1>6, <2>1 DEF Cancel
  <1>7. CASE r.order \in DOMAIN orders => CancelOutcome(orders[r.order]) # "ok"
    <2>1. r.order \in DOMAIN orders => AfterCancel(orders[r.order]) = orders[r.order]
      <3> SUFFICES ASSUME r.order \in DOMAIN orders
                   PROVE  AfterCancel(orders[r.order]) = orders[r.order]
        OBVIOUS
      <3>1. orders[r.order].state \in TERMINAL_STATES
        BY <1>7, CanceledIsGood DEF ExchangeInv, BooksInv
      <3> QED BY <3>1, RefusedCancel
    <2>2. /\ orders' = IF r.order \in DOMAIN orders
                       THEN [orders EXCEPT ![r.order] = AfterCancel(@)] ELSE orders
          /\ Answers(s, <<CancelReject(r)>>) /\ UNCHANGED nextExec
      BY <1>7 DEF Cancel
    <2>3. orders' = orders
      BY <2>1, <2>2 DEF ExchangeInv, BooksInv
    <2> QED BY <1>4, <2>2, <2>3
  <1> QED BY <1>6, <1>7

(* What the exchange has reported stays the history of its orders.         *)
LEMMA ReportedKept ==
    ASSUME ExchangeInv, HandoverInv, ReportedInv, [Serves]_vars
    PROVE  ReportedInv'
  <1>1. ASSUME UNCHANGED books, Reports' = Reports
        PROVE  ReportedInv'
    BY <1>1, MovesAnnounceNothing
  <1>2. ASSUME UNCHANGED books, UNCHANGED <<out, hand, pending, log>>
        PROVE  ReportedInv'
    BY <1>1, <1>2, ReportsRest
  <1>3. ASSUME NEW s \in Sessions, NEW r \in Requests, Receive(s, r)
        PROVE  ReportedInv'
    BY <1>3, ReceiveAnnouncesNothing
  <1>4. ASSUME NEW s \in Sessions,
               \/ AcceptConnection(s) \/ Register(s) \/ Logon(s) \/ Listen(s)
               \/ SessionEnds(s) \/ PeerLeaves(s)
        PROVE  ReportedInv'
    BY <1>2, <1>4 DEF AcceptConnection, Register, Logon, Listen, SessionEnds, PeerLeaves
  <1>5. CASE AcceptorExits \/ Stop \/ StopClose \/ StopJoin \/ Start
    BY <1>2, <1>5 DEF AcceptorExits, Stop, StopClose, StopJoin, Start
  <1>6. ASSUME NEW s \in Sessions, LookUp(s) \/ AcceptNewOrder(s) \/ Cancel(s)
        PROVE  ReportedInv'
    BY <1>6, LookUpAnnouncesNothing, AcceptAnnounces, CancelAnnounces
  <1>7. ASSUME NEW s \in Sessions, Send(s)
        PROVE  ReportedInv'
    BY <1>1, <1>7, SendKeeps, SendMoves
  <1>8. CASE StopFlush \/ \E t \in Timers : HoldExpires(t)
    BY <1>1, <1>8, FlushKeeps, FlushMoves
  <1>9. ASSUME NEW t \in Threads, Deliver(t)
        PROVE  ReportedInv'
    BY <1>1, <1>9, DeliverKeeps, DeliverMoves
  <1>10. CASE UNCHANGED vars
    BY <1>2, <1>10 DEF vars, books, config
  <1> QED
    BY <1>3, <1>4, <1>5, <1>6, <1>7, <1>8, <1>9, <1>10
    DEF Serves, Exchange, Work, Connect, StopStep

LEMMA ReportedFirst == Init => HandoverInv /\ ReportedInv
  <1> SUFFICES ASSUME Init PROVE HandoverInv /\ ReportedInv
    OBVIOUS
  <1>1. HandoverInv
    BY DEF Init, HandoverInv, Threads
  <1>2. DOMAIN orders = {} /\ DOMAIN responses = {}
    BY DEF Init
  <1>3. Reports = {}
    <2>1. /\ \A s \in Sessions : OutOf(s) = {}
          /\ \A t \in Threads : HandOf(t) = {}
          /\ HeldBack = {} /\ Logged = {}
      BY SetsOfSequences DEF Init, OutOf, HandOf, HeldBack, Logged
    <2> QED BY <2>1, PlacesOfReports
  <1>4. ReportedInv
    BY <1>2, <1>3 DEF ReportedInv, AnnouncedInv, CachedInv, EveryEventIsReported
  <1> QED BY <1>1, <1>4

(* EveryEventIsReported: however many sessions and timers interleave, and  *)
(* whatever is dropped, held back, swapped or repeated, the reports of an  *)
(* order announce the arcs of its history, each one once and in order.     *)
THEOREM EventsAreReportedOnce == Spec => []EveryEventIsReported
  <1>1. /\ Init => HandoverInv /\ ReportedInv
        /\ ExchangeInv /\ HandoverInv /\ ReportedInv /\ [Next]_vars => (HandoverInv /\ ReportedInv)'
    BY ReportedFirst, HandoverKept, ReportedKept, NextServes
  <1>2. ReportedInv => EveryEventIsReported
    BY DEF ReportedInv
  <1> QED BY <1>1, <1>2, ExchangeInvHolds, PTL DEF Spec

-------------------------------------------------------------------------------
(* The log                                                                 *)

(* The log only grows, by an entry or two at a time.                       *)
LogExtends ==
    \/ log' = log
    \/ \E a \in LogEntries : log' = Append(log, a)
    \/ \E a, b \in LogEntries : log' = log \o <<a, b>>

LEMMA LogGrows ==
    ASSUME ExchangeInv, LogExtends
    PROVE  /\ Len(log) \in Nat /\ Len(log') \in Nat /\ Len(log) <= Len(log')
           /\ \A i \in 1 .. Len(log) : i \in 1 .. Len(log') /\ log'[i] = log[i]
  <1>1. log \in Seq(LogEntries)
    BY DEF ExchangeInv, SendingInv
  <1>2. \A q \in Seq(LogEntries) :
           /\ Len(q) \in Nat
           /\ \A a \in LogEntries : /\ Len(Append(q, a)) = Len(q) + 1
                                    /\ \A i \in 1 .. Len(q) : Append(q, a)[i] = q[i]
           /\ \A a, b \in LogEntries : /\ Len(q \o <<a, b>>) = Len(q) + 2
                                       /\ \A i \in 1 .. Len(q) : (q \o <<a, b>>)[i] = q[i]
    OBVIOUS
  <1>3. CASE log' = log
    BY <1>1, <1>2, <1>3
  <1>4. ASSUME NEW a \in LogEntries, log' = Append(log, a)
        PROVE  /\ Len(log') = Len(log) + 1
               /\ \A i \in 1 .. Len(log) : log'[i] = log[i]
    BY <1>1, <1>2, <1>4
  <1>5. ASSUME NEW a \in LogEntries, NEW b \in LogEntries, log' = log \o <<a, b>>
        PROVE  /\ Len(log') = Len(log) + 2
               /\ \A i \in 1 .. Len(log) : log'[i] = log[i]
    BY <1>1, <1>2, <1>5
  <1>6. Len(log) \in Nat
    BY <1>1, <1>2
  <1>7. \/ log' = log
        \/ /\ Len(log') \in {Len(log) + 1, Len(log) + 2}
           /\ \A i \in 1 .. Len(log) : log'[i] = log[i]
    BY <1>4, <1>5 DEF LogExtends
  <1> QED BY <1>3, <1>6, <1>7

LEMMA DeliverExtends ==
    ASSUME ExchangeInv, NEW t \in Threads, Deliver(t),
           NEW delivery, delivery = Head(hand[t])
    PROVE  /\ delivery \in AllDeliveries
           /\ delivery \in ToSet(hand[t])
           /\ hand' = [hand EXCEPT ![t] = Tail(@)]
           /\ ToSet(hand'[t]) \subseteq ToSet(hand[t])
           /\ LogExtends
           /\ \A entry \in ToSet(log') :
                 \/ entry \in ToSet(log)
                 \/ entry.session = delivery.session /\ entry.message = delivery.message
  <1>1. /\ hand' = [hand EXCEPT ![t] = Tail(@)] /\ hand[t] # <<>>
        /\ hand \in [Threads -> Seq(AllDeliveries)] /\ log \in Seq(LogEntries)
    BY DEF Deliver, ExchangeInv, SendingInv
  <1>2. delivery \in AllDeliveries /\ ToSet(hand[t]) = {delivery} \cup ToSet(hand'[t])
    <2>1. hand[t] \in Seq(AllDeliveries) /\ hand'[t] = Tail(hand[t])
      BY <1>1
    <2> QED BY <1>1, <2>1, HeadAndTail, SetsOfSequences
  <1> DEFINE Entry(direction) == LogEntry(direction, delivery.session, delivery.message)
  <1>3. \A direction \in {"SENT", "DUPLICATE_SENT", "DELIVERY_FAILED"} :
            /\ Entry(direction) \in LogEntries
            /\ Entry(direction).message = delivery.message
            /\ Entry(direction).session = delivery.session
    BY <1>2 DEF AllDeliveries, LogEntry, LogEntries
  <1>4. \/ log' = Append(log, Entry("SENT"))
        \/ log' = log \o <<Entry("SENT"), Entry("DUPLICATE_SENT")>>
        \/ log' = Append(log, Entry("DELIVERY_FAILED"))
        \/ log' = log \o <<Entry("SENT"), Entry("DELIVERY_FAILED")>>
    BY DEF Deliver
  <1> HIDE DEF Entry
  <1>5. PICK a, b \in {Entry("SENT"), Entry("DUPLICATE_SENT"), Entry("DELIVERY_FAILED")} :
           log' = Append(log, a) \/ log' = log \o <<a, b>>
    BY <1>4
  <1>6. /\ a \in LogEntries /\ a.message = delivery.message /\ a.session = delivery.session
        /\ b \in LogEntries /\ b.message = delivery.message /\ b.session = delivery.session
    BY <1>3
  <1>7. ToSet(log') \subseteq ToSet(log) \cup {a, b}
    <2>1. /\ ToSet(Append(log, a)) = ToSet(log) \cup {a}
          /\ ToSet(log \o <<a, b>>) = ToSet(log) \cup {a, b}
      BY <1>1, <1>6, SetsOfSequences
    <2> QED BY <1>5, <2>1
  <1>8. LogExtends
    BY <1>5, <1>6 DEF LogExtends
  <1> QED BY <1>1, <1>2, <1>6, <1>7, <1>8

LEMMA StepsExtendLog ==
    ASSUME ExchangeInv, [Serves]_vars
    PROVE  LogExtends
  <1>1. ASSUME log' = log PROVE LogExtends
    BY <1>1 DEF LogExtends
  <1>2. ASSUME NEW s \in Sessions, NEW r \in Requests, Receive(s, r)
        PROVE  LogExtends
    <2>1. LogEntry("RECEIVED", s, Message(r.type, r.cl, r.order, "none", 0, 0)) \in LogEntries
      BY MessagesTyped DEF LogEntry, LogEntries
    <2> QED BY <1>2, <2>1 DEF Receive, Record, LogExtends
  <1>3. ASSUME NEW s \in Sessions,
               \/ AcceptConnection(s) \/ Register(s) \/ Logon(s) \/ Listen(s)
               \/ SessionEnds(s) \/ PeerLeaves(s)
        PROVE  LogExtends
    BY <1>1, <1>3 DEF AcceptConnection, Register, Logon, Listen, SessionEnds, PeerLeaves
  <1>4. ASSUME AcceptorExits \/ Stop \/ StopClose \/ StopJoin \/ Start \/ StopFlush
               \/ \E t \in Timers : HoldExpires(t)
        PROVE  LogExtends
    BY <1>1, <1>4 DEF AcceptorExits, Stop, StopClose, StopJoin, Start, StopFlush, HoldExpires
  <1>5. ASSUME NEW s \in Sessions, LookUp(s) \/ AcceptNewOrder(s) \/ Cancel(s)
        PROVE  LogExtends
    <2>1. log' = log
      BY <1>5, Zenon DEF LookUp, AcceptNewOrder, Cancel
    <2> QED BY <1>1, <2>1
  <1>6. ASSUME NEW s \in Sessions, SendDirectly(s) \/ HoldBack(s) \/ SendWithHeld(s)
        PROVE  LogExtends
    BY <1>1, <1>6 DEF SendDirectly, HoldBack, SendWithHeld
  <1>7. ASSUME NEW s \in Sessions, DropReport(s)
        PROVE  LogExtends
    <2>1. Head(out[s]) \in Messages
      <3>1. out[s] \in Seq(Messages) /\ out[s] # <<>>
        BY <1>7 DEF DropReport, Sending, ExchangeInv, SendingInv
      <3> QED BY <3>1, HeadAndTail
    <2>2. LogEntry("DROPPED", s, Head(out[s])) \in LogEntries
      BY <2>1 DEF LogEntry, LogEntries
    <2> QED BY <1>7, <2>2 DEF DropReport, Record, LogExtends
  <1>8. ASSUME NEW t \in Threads, Deliver(t)
        PROVE  LogExtends
    BY <1>8, DeliverExtends
  <1>9. ASSUME UNCHANGED vars PROVE LogExtends
    BY <1>1, <1>9 DEF vars
  <1> QED
    BY <1>2, <1>3, <1>4, <1>5, <1>6, <1>7, <1>8, <1>9
    DEF Serves, Exchange, Work, Send, Connect, StopStep

-------------------------------------------------------------------------------
(* One connection, for the proofs about the audit trail: there nobody but  *)
(* the session thread sends what was held back, or nothing is held back.   *)

NobodyElseSends == Timers = {} /\ "stop" \notin Faults

NothingIsHeldBack == \A modes \in ChaosModes : "reorder" \notin modes

OneLine(s) == Sessions = {s} /\ (NobodyElseSends \/ NothingIsHeldBack)

(* No other thread has anything to send, and the session thread nothing to *)
(* announce while a report is held back.                                   *)
LineInv(s) ==
    /\ \A t \in Threads : t # s => hand[t] = <<>>
    /\ pending # Nothing => NobodyElseSends /\ \A m \in HandOf(s) : ~Announces(m)
    /\ NobodyElseSends => phase = "running"

LEMMA LineKept ==
    ASSUME NEW s, OneLine(s), ExchangeInv, LineInv(s), [Serves]_vars
    PROVE  LineInv(s)'
  <1>1. /\ s \in Sessions /\ s \in Threads /\ Stopper \in Threads /\ Stopper # s
        /\ hand \in [Threads -> Seq(AllDeliveries)] /\ chaos \in ChaosModes
    BY ThreadsAssumption DEF OneLine, Threads, ExchangeInv, SendingInv, BooksInv
  <1>2. ASSUME UNCHANGED <<hand, pending>>, phase' = phase \/ ~NobodyElseSends
        PROVE  LineInv(s)'
    BY <1>2 DEF LineInv, HandOf, NobodyElseSends
  <1>3. ASSUME \E x \in Sessions : \/ \E r \in Requests : Receive(x, r)
                                   \/ AcceptConnection(x) \/ Register(x) \/ Logon(x) \/ Listen(x)
                                   \/ SessionEnds(x) \/ PeerLeaves(x)
        PROVE  LineInv(s)'
    <2>1. UNCHANGED <<hand, pending, phase>>
      BY <1>3 DEF Receive, AcceptConnection, Register, Logon, Listen, SessionEnds, PeerLeaves, service
    <2> QED BY <1>2, <2>1
  <1>4. ASSUME \E x \in Sessions : LookUp(x) \/ AcceptNewOrder(x) \/ Cancel(x) \/ DropReport(x)
        PROVE  LineInv(s)'
    <2>1. UNCHANGED <<hand, pending, phase>>
      BY Zenon, <1>4 DEF LookUp, AcceptNewOrder, Cancel, DropReport, service
    <2> QED BY <1>2, <2>1
  <1>5. ASSUME AcceptorExits \/ Stop \/ StopClose \/ StopJoin \/ Start \/ UNCHANGED vars
        PROVE  LineInv(s)'
    <2>1. UNCHANGED <<hand, pending>>
      BY <1>5 DEF AcceptorExits, Stop, StopClose, StopJoin, Start, vars
    <2>2. phase' = phase \/ ~NobodyElseSends
      BY <1>5 DEF AcceptorExits, Stop, StopClose, StopJoin, Start, vars, LineInv, NobodyElseSends
    <2> QED BY <1>2, <2>1, <2>2
  <1>6. ASSUME StopFlush \/ \E t \in Timers : HoldExpires(t)
        PROVE  LineInv(s)'
    <2>1. pending = Nothing /\ StopFlush
      BY <1>6 DEF StopFlush, HoldExpires, LineInv, NobodyElseSends
    <2>2. /\ hand' = [hand EXCEPT ![Stopper] = <<>>] /\ pending' = Nothing /\ ~NobodyElseSends
      BY <2>1 DEF StopFlush, TakePending, LineInv
    <2> QED BY <1>1, <2>2 DEF LineInv, NobodyElseSends
  <1>7. ASSUME NEW x \in Sessions, SendDirectly(x)
        PROVE  LineInv(s)'
    <2>1. PICK delivery \in Deliveries(s) : hand' = [hand EXCEPT ![s] = <<delivery>>]
      BY <1>7 DEF SendDirectly, OneLine
    <2>2. /\ pending' = pending /\ phase' = phase
          /\ pending = Nothing \/ ~IsReport(Head(out[s]))
      BY <1>7 DEF SendDirectly, OneLine, service
    <2>3. delivery.message = Head(out[s])
      <3>1. \E duplicate : delivery = Delivery(s, Head(out[s]), duplicate)
        BY DEF Deliveries
      <3> QED BY <3>1 DEF Delivery
    <2>4. HandOf(s)' = {Head(out[s])}
      <3>1. hand'[s] = <<delivery>>
        BY <1>1, <2>1
      <3> QED BY <2>3, <3>1, SetsOfSequences DEF HandOf
    <2> QED BY <1>1, <2>1, <2>2, <2>4 DEF LineInv, NobodyElseSends, Announces
  <1>8. ASSUME NEW x \in Sessions, HoldBack(x)
        PROVE  LineInv(s)'
    <2>1. "reorder" \in chaos /\ hand[s] = <<>> /\ hand' = hand /\ phase' = phase
      BY <1>8 DEF HoldBack, Sending, OneLine, service
    <2>2. NobodyElseSends
      BY <1>1, <2>1 DEF OneLine, NothingIsHeldBack
    <2>3. HandOf(s)' = {}
      BY <2>1, SetsOfSequences DEF HandOf
    <2> QED BY <2>1, <2>2, <2>3 DEF LineInv, NobodyElseSends
  <1>9. ASSUME NEW x \in Sessions, SendWithHeld(x)
        PROVE  LineInv(s)'
    <2>1. PICK q : hand' = [hand EXCEPT ![s] = q] /\ pending' = Nothing /\ phase' = phase
      BY <1>9 DEF SendWithHeld, OneLine, service
    <2> QED BY <1>1, <2>1 DEF LineInv, NobodyElseSends
  <1>10. ASSUME NEW t \in Threads, Deliver(t)
         PROVE  LineInv(s)'
    <2>1. /\ t = s /\ hand' = [hand EXCEPT ![s] = Tail(@)] /\ pending' = pending /\ phase' = phase
      BY <1>10 DEF Deliver, LineInv, service
    <2>2. ToSet(hand'[s]) \subseteq ToSet(hand[s])
      BY <1>10, <2>1, DeliverExtends
    <2>3. HandOf(s)' \subseteq HandOf(s)
      BY <2>2 DEF HandOf
    <2> QED BY <1>1, <2>1, <2>3 DEF LineInv, NobodyElseSends
  <1> QED
    BY <1>3, <1>4, <1>5, <1>6, <1>7, <1>8, <1>9, <1>10
    DEF Serves, Exchange, Work, Send, Connect, StopStep

(* The messages of a queue of deliveries.                                  *)
MessagesOf(deliveries) == {d.message : d \in ToSet(deliveries)}

LEMMA OneLineFirst ==
    ASSUME NEW s, OneLine(s), Init
    PROVE  LineInv(s)
  <1>1. /\ hand = [t \in Threads |-> <<>>]
        /\ pending = Nothing /\ phase = "running"
    BY DEF OneLine, Init, Threads
  <1> QED BY <1>1 DEF LineInv

===============================================================================
