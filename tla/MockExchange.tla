----------------------------- MODULE MockExchange -----------------------------
(***************************************************************************)
(* fixgateway/exchange/mock_exchange.py: the threads of the exchange and   *)
(* what they share.  One thread accepts connections, one serves each       *)
(* session, a timer thread releases each report the chaos mode held back,  *)
(* and stop() runs in the caller's thread.  They share the order book, the *)
(* responses cached per ClOrdID, the one report held back, and the log.    *)
(*                                                                         *)
(* A step is what a thread does between two points where another thread    *)
(* can intervene: a block under self._lock or self._delivery_lock, or one  *)
(* delivery under self._socket_send_lock.  No code path takes one of these *)
(* locks in the opposite order of another, so each block is atomic.        *)
(***************************************************************************)
EXTENDS Orders, SequencesExt

CONSTANTS
    Sessions,       \* connections a client may open, one thread each
    Timers,         \* timer threads that may be delivering at a time (bound)
    Stopper,        \* the thread that calls stop()
    Requests,       \* the order messages clients may send
    MaxRequests,    \* how many of them in all (bound)
    CustomPlans,    \* what a callable fill_strategy may answer
    FillStrategies, \* the fill_strategy the exchange is constructed with
    ChaosModes,     \* the kinds of chaos it is constructed to make
    Faults,         \* what may happen to it: which of AllFaults
    Nothing         \* None

AllChaos == {"drop", "duplicate", "reorder"}

AllFaults == {"hangup", "stop"}

ASSUME ChaosAssumption == ChaosModes \subseteq SUBSET AllChaos

ASSUME FaultsAssumption == Faults \subseteq AllFaults

ASSUME ThreadsAssumption == Stopper \notin Sessions \cup Timers

(* The accept thread waits, has exited, or is with a connection.           *)
ASSUME SessionsAssumption == Sessions \cap {"waiting", "exited"} = {}

ASSUME MaxRequestsAssumption == MaxRequests \in Nat

ASSUME RequestsAssumption ==
    \A r \in Requests : r.type \in {"D", "F"} /\ r.quantity \in Nat /\ r.valid \in BOOLEAN

ASSUME StrategiesAssumption ==
    FillStrategies \subseteq
        {"resting", "full", "partial_then_full", "two_partial_then_full", "callable"}

ASSUME PlansAssumption == CustomPlans \subseteq Seq(Nat)

VARIABLES
    orders,         \* OrderBook._orders
    responses,      \* _order_responses: the reports a ClOrdID was answered with
    nextExec,       \* the next ExecID
    strategy,       \* fill_strategy
    chaos,          \* which chaos rates are not zero
    at,             \* where each session thread is
    request,        \* the message it is handling
    out,            \* the reports it has still to send
    hand,           \* the deliveries a thread has taken but not made
    pending,        \* _pending_delivery
    socket,         \* each connection, as the exchange finds it
    acceptor,       \* the accept thread
    phase,          \* how far start() and stop() have come
    log             \* message_log, order messages only

config == <<strategy, chaos>>
books == <<orders, responses, nextExec, config>>
service == <<acceptor, phase>>
vars == <<orders, responses, nextExec, strategy, chaos, at, request, out, hand,
          pending, socket, acceptor, phase, log>>

Threads == Sessions \cup Timers \cup {Stopper}

(* A message carries the order it is about (OrigClOrdID, or else ClOrdID), *)
(* its own ClOrdID, and, when it is a report, what happened and its ExecID. *)
Message(type, cl, order, event, exec_id, cum) ==
    [type |-> type, cl |-> cl, order |-> order, event |-> event,
     exec_id |-> exec_id, cum |-> cum]

ExecutionReport(cl, order, event, exec_id, cum) ==
    Message("8", cl, order, event, exec_id, cum)

CancelReject(r) == Message("9", r.cl, r.order, "CANCEL_REJECT", 0, 0)

(* Mutant: carries the name of the state in place of that of the event.    *)
RejectedStateReport(r, exec_id) ==
    ExecutionReport(r.cl, r.order, "REJECTED", exec_id, 0)

RejectedExecutionReport(r, exec_id) ==
    ExecutionReport(r.cl, r.order, "REJECT", exec_id, 0)

Delivery(s, message, duplicate) ==
    [session |-> s, message |-> message, duplicate |-> duplicate]

LogEntry(direction, s, message) ==
    [direction |-> direction, session |-> s, message |-> message]

Record(direction, s, message) == log' = Append(log, LogEntry(direction, s, message))

RequestsServed == Cardinality({i \in 1 .. Len(log) : log[i].direction = "RECEIVED"})

Stopping == phase # "running"

(* A session thread takes up its next message once it has sent all it had  *)
(* to send for the last one.                                               *)
HasSent(s) == out[s] = <<>> /\ hand[s] = <<>>

-------------------------------------------------------------------------------
Init ==
    /\ orders = [id \in {} |-> AcknowledgedOrder(0)]
    /\ responses = [id \in {} |-> <<>>]
    /\ nextExec = 1
    /\ strategy \in FillStrategies
    /\ chaos \in ChaosModes
    /\ at = [s \in Sessions |-> "none"]
    /\ request = [s \in Sessions |-> Nothing]
    /\ out = [s \in Sessions |-> <<>>]
    /\ hand = [t \in Threads |-> <<>>]
    /\ pending = Nothing
    /\ socket = [s \in Sessions |-> "none"]
    /\ acceptor = "waiting"
    /\ phase = "running"
    /\ log = <<>>

-------------------------------------------------------------------------------
(* Connections.                                                            *)

(* listener.accept() returns; after stop() the loop makes no further turn, *)
(* but a connection it was already waiting for still arrives.              *)
AcceptConnection(s) ==
    /\ acceptor = "waiting"
    /\ phase \in {"running", "stopping", "flushed"}
    /\ at[s] = "none"
    /\ acceptor' = s
    /\ at' = [at EXCEPT ![s] = "accepted"]
    /\ socket' = [socket EXCEPT ![s] = "open"]
    /\ UNCHANGED <<books, request, out, hand, pending, phase, log>>

Register(s) ==
    /\ acceptor = s
    /\ acceptor' = IF Stopping THEN "exited" ELSE "waiting"
    /\ at' = [at EXCEPT ![s] = "logon"]
    /\ UNCHANGED <<books, request, out, hand, pending, socket, phase, log>>

AcceptorExits ==
    /\ acceptor = "waiting"
    /\ Stopping
    /\ acceptor' = "exited"
    /\ UNCHANGED <<books, at, request, out, hand, pending, socket, phase, log>>

Logon(s) ==
    /\ at[s] = "logon"
    /\ socket[s] = "open"
    /\ at' = [at EXCEPT ![s] = "turn"]
    /\ UNCHANGED <<books, request, out, hand, pending, socket, service, log>>

(* "while not self._stop_event.is_set()": the thread waits for a message,  *)
(* and takes the one that comes even if stop() is called meanwhile.        *)
Listen(s) ==
    /\ at[s] = "turn"
    /\ HasSent(s)
    /\ ~Stopping
    /\ at' = [at EXCEPT ![s] = "receive"]
    /\ UNCHANGED <<books, request, out, hand, pending, socket, service, log>>

(* Mutant: the loop ends only when the connection does.                    *)
SessionEndsWithPeer(s) ==
    /\ at[s] \in {"logon", "turn", "receive"}
    /\ HasSent(s)
    /\ socket[s] # "open"
    /\ at' = [at EXCEPT ![s] = "done"]
    /\ socket' = [socket EXCEPT ![s] = "closed"]
    /\ UNCHANGED <<books, request, out, hand, pending, service, log>>

(* The thread leaves its loop, deregisters and closes the connection:      *)
(* stop() was called, the peer is gone, the first message was no Logon or  *)
(* did not come in time, or the stream could not be decoded.               *)
SessionEnds(s) ==
    /\ at[s] \in {"logon", "turn", "receive"}
    /\ HasSent(s)
    /\ \/ Stopping
       \/ socket[s] # "open"
       \/ "hangup" \in Faults
    /\ at' = [at EXCEPT ![s] = "done"]
    /\ socket' = [socket EXCEPT ![s] = "closed"]
    /\ UNCHANGED <<books, request, out, hand, pending, service, log>>

HangUp(s) ==
    /\ "hangup" \in Faults
    /\ socket[s] = "open"
    /\ socket' = [socket EXCEPT ![s] = "hungup"]
    /\ UNCHANGED <<books, at, request, out, hand, pending, service, log>>

-------------------------------------------------------------------------------
(* Order messages.                                                         *)

(* _receive and the validation at the head of the two handlers.            *)
Receive(s, r) ==
    /\ at[s] = "receive"
    /\ socket[s] \in {"open", "hungup"}
    /\ Record("RECEIVED", s, Message(r.type, r.cl, r.order, "none", 0, 0))
    /\ \/ /\ r.valid
          /\ at' = [at EXCEPT ![s] = IF r.type = "D" THEN "lookup" ELSE "cancel"]
          /\ request' = [request EXCEPT ![s] = r]
          /\ UNCHANGED <<out, nextExec>>
       \/ /\ ~r.valid
          /\ r.type = "D"
          /\ out' = [out EXCEPT ![s] = <<RejectedExecutionReport(r, nextExec)>>]
          /\ nextExec' = nextExec + 1
          /\ at' = [at EXCEPT ![s] = "turn"]
          /\ UNCHANGED request
       \/ /\ ~r.valid
          /\ r.type = "F"
          /\ out' = [out EXCEPT ![s] = <<CancelReject(r)>>]
          /\ at' = [at EXCEPT ![s] = "turn"]
          /\ UNCHANGED <<request, nextExec>>
    /\ UNCHANGED <<orders, responses, config, hand, pending, socket, service>>

(* The thread has its answers and goes on to send them.                    *)
Answers(s, messages) ==
    /\ out' = [out EXCEPT ![s] = messages]
    /\ at' = [at EXCEPT ![s] = "turn"]
    /\ request' = [request EXCEPT ![s] = Nothing]

(* The first locked block of _handle_new_order: a ClOrdID answered before  *)
(* is answered with the same reports.                                      *)
LookUp(s) ==
    /\ at[s] = "lookup"
    /\ LET id == request[s].order IN
       IF id \in DOMAIN responses
       THEN Answers(s, responses[id])
       ELSE /\ at' = [at EXCEPT ![s] = "accept"]
            /\ UNCHANGED <<out, request>>
    /\ UNCHANGED <<books, hand, pending, socket, service, log>>

(* _fill_quantities, in whole units.                                       *)
PlansOf(chosen, quantity) ==
    CASE chosen = "resting" -> {<<>>}
      [] chosen = "full" -> {<<quantity>>}
      [] chosen = "partial_then_full" -> {<<quantity \div 2, quantity - quantity \div 2>>}
      [] chosen = "two_partial_then_full" ->
            {<<quantity \div 4, quantity \div 4, quantity - 2 * (quantity \div 4)>>}
      [] chosen = "callable" -> CustomPlans

FillPlans(quantity) == PlansOf(strategy, quantity)

(* The acknowledged order after each fill of the plan.                     *)
AfterFills(quantity, plan) ==
    LET filled[k \in 0 .. Len(plan)] ==
            IF k = 0 THEN AcknowledgedOrder(quantity)
                     ELSE FilledOrder(filled[k - 1], plan[k])
    IN  filled

(* How many fills of the plan fill_order takes before it raises, if it does. *)
FillsTaken(filled, plan) ==
    Max({k \in 0 .. Len(plan) : \A i \in 1 .. k :
            FillOutcome(filled[i - 1], plan[i], FALSE) = "ok"})

(* Mutant: the book is taken to hold what the cache holds.                 *)
HoldsByCache(id) == id \in DOMAIN responses

(* Mutant: the duplicate check is dropped.                                 *)
HoldsNothing(id) == id \in {}

(* Whether accept_order finds the ID in the book.                          *)
Holds(id) == id \in DOMAIN orders

(* What accept_order raises for, other than a duplicate: validate lets an  *)
(* order pass whose quantity is a number, but not a positive one.  (A      *)
(* negative price ends in the same way.)                                   *)
Unacceptable(r) == r.quantity = 0

(* Mutant: the reports made before the plan failed are sent after all.     *)
AnswersSoFar(r, reports, plan) == reports

(* What a new order is answered with: a report of the acknowledgement and  *)
(* of each fill, or, if a fill of the plan failed, one reject.             *)
AnswersTo(r, reports, plan) ==
    IF Len(reports) = Len(plan) + 1
    THEN reports
    ELSE <<RejectedExecutionReport(r, nextExec + Len(reports))>>

(* The second locked block of _handle_new_order: accept, fill, cache.  A   *)
(* ValueError on the way answers with a reject, but what the book already  *)
(* took stays, and the reports built so far are forgotten.                 *)
AcceptNewOrder(s) ==
    /\ at[s] = "accept"
    /\ LET r == request[s] IN
       \/ /\ Holds(r.order) \/ Unacceptable(r)
          /\ Answers(s, <<RejectedExecutionReport(r, nextExec)>>)
          /\ nextExec' = nextExec + 1
          /\ UNCHANGED <<orders, responses>>
       \/ /\ ~Holds(r.order) /\ ~Unacceptable(r)
          /\ \E plan \in FillPlans(r.quantity) :
             LET filled == AfterFills(r.quantity, plan)
                 taken == FillsTaken(filled, plan)
                 order == filled[taken]
                 reports == [i \in 1 .. taken + 1 |->
                                ExecutionReport(r.cl, r.order, order.history[i].event,
                                                nextExec + i - 1,
                                                filled[i - 1].cumulative_quantity)]
             IN  /\ orders' = [id \in DOMAIN orders \cup {r.order} |->
                                  IF id = r.order THEN order ELSE orders[id]]
                 /\ Answers(s, AnswersTo(r, reports, plan))
                 /\ IF taken = Len(plan)
                    THEN /\ responses' = [id \in DOMAIN responses \cup {r.order} |->
                                IF id = r.order THEN reports ELSE responses[id]]
                         /\ nextExec' = nextExec + Len(reports)
                    ELSE /\ nextExec' = nextExec + Len(reports) + 1
                         /\ UNCHANGED responses
    /\ UNCHANGED <<config, hand, pending, socket, service, log>>

(* _handle_cancel: cancel under the lock, or a cancel reject.              *)
Cancel(s) ==
    /\ at[s] = "cancel"
    /\ LET r == request[s]
           known == r.order \in DOMAIN orders
       IN
       \/ /\ known
          /\ CancelOutcome(orders[r.order]) = "ok"
          /\ orders' = [orders EXCEPT ![r.order] = AfterCancel(@)]
          /\ Answers(s, <<ExecutionReport(r.cl, r.order, "CANCEL_CONFIRMED",
                                nextExec, orders[r.order].cumulative_quantity)>>)
          /\ nextExec' = nextExec + 1
       \/ /\ known => CancelOutcome(orders[r.order]) # "ok"
          /\ orders' = IF known THEN [orders EXCEPT ![r.order] = AfterCancel(@)]
                                ELSE orders
          /\ Answers(s, <<CancelReject(r)>>)
          /\ UNCHANGED nextExec
    /\ UNCHANGED <<responses, config, hand, pending, socket, service, log>>

-------------------------------------------------------------------------------
(* Sending.  Chaos touches execution reports only.                         *)

Sending(s) == out[s] # <<>> /\ hand[s] = <<>>

IsReport(message) == message.type = "8"

DropReport(s) ==
    /\ "drop" \in chaos
    /\ Sending(s)
    /\ IsReport(Head(out[s]))
    /\ Record("DROPPED", s, Head(out[s]))
    /\ out' = [out EXCEPT ![s] = Tail(@)]
    /\ UNCHANGED <<books, at, request, hand, pending, socket, service>>

Deliveries(s) ==
    {Delivery(s, Head(out[s]), duplicate) : duplicate \in
        IF IsReport(Head(out[s])) /\ "duplicate" \in chaos THEN BOOLEAN ELSE {FALSE}}

(* _send of anything that is not held back while nothing else is.          *)
SendDirectly(s) ==
    /\ Sending(s)
    /\ pending = Nothing \/ ~IsReport(Head(out[s]))
    /\ \E delivery \in Deliveries(s) :
          hand' = [hand EXCEPT ![s] = <<delivery>>]
    /\ out' = [out EXCEPT ![s] = Tail(@)]
    /\ UNCHANGED <<books, at, request, pending, socket, service, log>>

(* Mutant: holds a report back although another one already is.            *)
HoldBackAnyway(s) ==
    /\ "reorder" \in chaos
    /\ Sending(s)
    /\ IsReport(Head(out[s]))
    /\ \E delivery \in Deliveries(s) : pending' = delivery
    /\ out' = [out EXCEPT ![s] = Tail(@)]
    /\ UNCHANGED <<books, at, request, hand, socket, service, log>>

HoldBack(s) ==
    /\ "reorder" \in chaos
    /\ Sending(s)
    /\ IsReport(Head(out[s]))
    /\ pending = Nothing
    /\ \E delivery \in Deliveries(s) : pending' = delivery
    /\ out' = [out EXCEPT ![s] = Tail(@)]
    /\ UNCHANGED <<books, at, request, hand, socket, service, log>>

(* Mutant: the held report goes to the connection that released it.        *)
InOrderHere(held, delivery) ==
    IF held.message.order # delivery.message.order
    THEN <<delivery, [held EXCEPT !.session = delivery.session]>>
    ELSE <<held, delivery>>

(* A report that finds another held back takes it along: behind itself     *)
(* when it is of another order, before itself when of the same one.        *)
InOrder(held, delivery) ==
    IF held.message.order # delivery.message.order
    THEN <<delivery, held>>
    ELSE <<held, delivery>>

SendWithHeld(s) ==
    /\ Sending(s)
    /\ IsReport(Head(out[s]))
    /\ pending # Nothing
    /\ \E delivery \in Deliveries(s) :
          hand' = [hand EXCEPT ![s] = InOrder(pending, delivery)]
    /\ pending' = Nothing
    /\ out' = [out EXCEPT ![s] = Tail(@)]
    /\ UNCHANGED <<books, at, request, socket, service, log>>

(* _flush_pending_delivery, up to the release of the delivery lock.        *)
TakePending(t) ==
    /\ hand' = [hand EXCEPT ![t] = IF pending = Nothing THEN <<>> ELSE <<pending>>]
    /\ pending' = Nothing

(* Mutant: stop() cancels the timers and does not flush again.             *)
HoldExpiresWhileRunning(t) ==
    /\ ~Stopping
    /\ pending # Nothing
    /\ hand[t] = <<>>
    /\ TakePending(t)
    /\ UNCHANGED <<books, at, request, out, socket, service, log>>

HoldExpires(t) ==
    /\ pending # Nothing
    /\ hand[t] = <<>>
    /\ TakePending(t)
    /\ UNCHANGED <<books, at, request, out, socket, service, log>>

(* _deliver: to a connection the peer has left, sendall may still succeed, *)
(* and may do so once; to one the exchange has closed it fails.            *)
Deliver(t) ==
    /\ hand[t] # <<>>
    /\ LET delivery == Head(hand[t])
           s == delivery.session
           Entry(direction) == LogEntry(direction, s, delivery.message)
       IN  \/ /\ socket[s] \in {"open", "hungup"}
              /\ log' = IF delivery.duplicate
                        THEN log \o <<Entry("SENT"), Entry("DUPLICATE_SENT")>>
                        ELSE Append(log, Entry("SENT"))
           \/ /\ socket[s] \in {"hungup", "closed"}
              /\ log' = Append(log, Entry("DELIVERY_FAILED"))
           \/ /\ socket[s] \in {"hungup", "closed"}
              /\ delivery.duplicate
              /\ log' = log \o <<Entry("SENT"), Entry("DELIVERY_FAILED")>>
    /\ hand' = [hand EXCEPT ![t] = Tail(@)]
    /\ UNCHANGED <<books, at, request, out, pending, socket, service>>

-------------------------------------------------------------------------------
(* stop() and start().                                                     *)

Stop ==
    /\ "stop" \in Faults
    /\ phase = "running"
    /\ phase' = "stopping"
    /\ UNCHANGED <<books, at, request, out, hand, pending, socket, acceptor, log>>

StopFlush ==
    /\ phase = "stopping"
    /\ TakePending(Stopper)
    /\ phase' = "flushed"
    /\ UNCHANGED <<books, at, request, out, socket, acceptor, log>>

(* The listener and the connections registered at this moment are closed.  *)
StopClose ==
    /\ phase = "flushed"
    /\ hand[Stopper] = <<>>
    /\ phase' = "closed"
    /\ socket' = [s \in Sessions |->
            IF at[s] \in {"none", "accepted"} THEN socket[s] ELSE "closed"]
    /\ UNCHANGED <<books, at, request, out, hand, pending, acceptor, log>>

(* The accept thread is joined; the session threads may take longer than   *)
(* stop() waits for them.                                                  *)
StopJoin ==
    /\ phase = "closed"
    /\ acceptor = "exited"
    /\ phase' = "stopped"
    /\ UNCHANGED <<books, at, request, out, hand, pending, socket, acceptor, log>>

Start ==
    /\ phase = "stopped"
    /\ phase' = "running"
    /\ acceptor' = "waiting"
    /\ UNCHANGED <<books, at, request, out, hand, pending, socket, log>>

-------------------------------------------------------------------------------
Work(s) == Listen(s) \/ LookUp(s) \/ AcceptNewOrder(s) \/ Cancel(s)

Send(s) == DropReport(s) \/ SendDirectly(s) \/ HoldBack(s) \/ SendWithHeld(s)

StopStep == StopFlush \/ StopClose \/ StopJoin

Connect == AcceptorExits \/ \E s \in Sessions : AcceptConnection(s) \/ Register(s)

(* What goes on inside the exchange, whatever clients do.                  *)
Exchange ==
    \/ \E s \in Sessions : Logon(s) \/ SessionEnds(s) \/ Work(s) \/ Send(s)
    \/ \E t \in Timers : HoldExpires(t)
    \/ \E t \in Threads : Deliver(t)
    \/ Connect
    \/ Stop \/ StopStep \/ Start

Next ==
    \/ Exchange
    \/ \E s \in Sessions : HangUp(s)
    \/ \E s \in Sessions, r \in Requests :
            RequestsServed < MaxRequests /\ Receive(s, r)

Spec == Init /\ [][Next]_vars

(* Threads are scheduled, timers fire, stop() runs to its end, and a thread *)
(* whose connection or exchange is gone leaves.                            *)
Fairness ==
    /\ \A s \in Sessions :
          /\ WF_vars(Work(s))
          /\ WF_vars(Send(s))
          /\ WF_vars(Register(s))
          /\ WF_vars((Stopping \/ socket[s] # "open") /\ SessionEnds(s))
    /\ \A t \in Timers : WF_vars(HoldExpires(t))
    /\ \A t \in Threads : WF_vars(Deliver(t))
    /\ WF_vars(AcceptorExits)
    /\ WF_vars(StopStep)

FairSpec == Spec /\ Fairness

-------------------------------------------------------------------------------
Events == OrderEvent \cup {"none", "CANCEL_REJECT"}

Messages ==
    [type : {"D", "F", "8", "9"},
     cl : {r.cl : r \in Requests}, order : {r.order : r \in Requests},
     event : Events, exec_id : Nat, cum : Nat]

AllDeliveries == [session : Sessions, message : Messages, duplicate : BOOLEAN]

ASSUME NothingAssumption == Nothing \notin AllDeliveries

(* What the threads share, and where each of them is, is well formed.      *)
TypeOK ==
    /\ orders \in [DOMAIN orders -> Order]
    /\ responses \in [DOMAIN responses -> Seq(Messages)]
    /\ nextExec \in Nat
    /\ strategy \in FillStrategies
    /\ chaos \in ChaosModes
    /\ at \in [Sessions -> {"none", "accepted", "logon", "turn", "receive",
                            "lookup", "accept", "cancel", "done"}]
    /\ request \in [Sessions -> Requests \cup {Nothing}]
    /\ out \in [Sessions -> Seq(Messages)]
    /\ hand \in [Threads -> Seq(AllDeliveries)]
    /\ pending \in AllDeliveries \cup {Nothing}
    /\ socket \in [Sessions -> {"none", "open", "hungup", "closed"}]
    /\ acceptor \in Sessions \cup {"waiting", "exited"}
    /\ phase \in {"running", "stopping", "flushed", "closed", "stopped"}
    /\ log \in Seq([direction : {"RECEIVED", "SENT", "DUPLICATE_SENT", "DROPPED",
                                 "DELIVERY_FAILED"},
                    session : Sessions, message : Messages])

(* Every report the exchange has made and not forgotten: still to be sent, *)
(* taken for delivery, held back, or in the log with what became of it.    *)
ToSend == UNION {ToSet(out[s]) : s \in Sessions}

InHand == UNION {{d.message : d \in ToSet(hand[t])} : t \in Threads}

HeldBack == IF pending = Nothing THEN {} ELSE {pending.message}

Logged == {entry.message : entry \in ToSet(log)}

Reports == ToSend \cup InHand \cup HeldBack \cup Logged

ReportsOf(id) ==
    {m \in Reports : IsReport(m) /\ m.order = id /\ m.event # "REJECT"}

(* The arcs of an order's history that a report announces: all but the     *)
(* request of a cancel.  An order whose fill plan failed is not reported,  *)
(* except for the cancel that may follow.                                  *)
AnnouncedArcs(id) ==
    {i \in DOMAIN orders[id].history :
        IF id \in DOMAIN responses
        THEN orders[id].history[i].event # "CANCEL_REQUEST"
        ELSE orders[id].history[i].event = "CANCEL_CONFIRMED"}

(* However reports are dropped, duplicated, held back, swapped, replayed   *)
(* for a retry or left to a dead connection, and whichever thread holds    *)
(* them: the distinct reports of an order on their way or in the log, in   *)
(* the order of their ExecIDs, announce the arcs of its history one by one. *)
(* None is lost from the books of the exchange, none is made twice with a  *)
(* new ExecID, none announces what did not happen.  Of an order left       *)
(* without a cached answer by a failing fill plan only its cancel is ever  *)
(* announced, and that once, however often clients ask again               *)
(* (mock_exchange.py:511-524).                                             *)
EveryEventIsReported ==
    \A id \in DOMAIN orders :
        \E report \in [AnnouncedArcs(id) -> ReportsOf(id)] :
            /\ ReportsOf(id) = {report[i] : i \in AnnouncedArcs(id)}
            /\ \A i \in AnnouncedArcs(id) : report[i].event = orders[id].history[i].event
            /\ \A i, j \in AnnouncedArcs(id) :
                    i < j => report[i].exec_id < report[j].exec_id

(* A retried ClOrdID is recognised for as long as its order exists: nothing *)
(* a client sends makes the exchange execute more of an order it already   *)
(* has, and the responses it would repeat never change.                    *)
RetryChangesNothing ==
    [][/\ \A id \in DOMAIN orders :
            /\ id \in DOMAIN orders'
            /\ orders'[id].cumulative_quantity = orders[id].cumulative_quantity
            /\ orders'[id] # orders[id] => orders'[id].state = "CANCELED"
       /\ \A id \in DOMAIN responses :
            id \in DOMAIN responses' /\ responses'[id] = responses[id]]_vars

(* README.md: "the exchange recognizes a retried ClOrdID without creating  *)
(* or filling an order twice".  Of an order it has answered for, and whose *)
(* requests were well formed, no report says that it was rejected.         *)
AcceptedNeverRejected ==
    \A m \in Reports : m.event = "REJECT" => m.order \notin DOMAIN responses

Settled ==
    /\ pending = Nothing
    /\ \A s \in Sessions : out[s] = <<>> /\ at[s] \notin {"lookup", "accept", "cancel"}
    /\ \A t \in Threads : hand[t] = <<>>

(* Once clients fall silent nothing is left behind: every request taken up *)
(* is answered, whatever the other threads and stop() do meanwhile, and    *)
(* every report held back or taken by some thread reaches the log, also    *)
(* when stop() flushed before a session thread held back its last report.  *)
EverythingSettles == <>[]Settled

(* stop() returns, and no session outlives it, not even the connection     *)
(* that was accepted while stop() ran and registered after it took the     *)
(* list to close; only a start() that comes too early lets one go on.      *)
StopCompletes ==
    /\ phase = "stopping" ~> phase = "stopped"
    /\ phase = "closed" ~>
          \/ phase = "running"
          \/ \A s \in Sessions : at[s] \in {"none", "done"}

(* The exchange keeps the same promise about its orders as the book does.  *)
ledger == [id \in DOMAIN orders |-> LedgerEntry(orders[id])]

Ledger == INSTANCE OrderLedger WITH
    OrderIds <- {r.order : r \in Requests},
    Quantities <- {r.quantity : r \in Requests} \ {0}

ImplementsLedger == Ledger!Spec

===============================================================================
