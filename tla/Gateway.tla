-------------------------------- MODULE Gateway --------------------------------
(***************************************************************************)
(* fixgateway/client/fix_client.py in front of the exchange: clients that  *)
(* send an order message and wait for its answer, retry after a timeout,   *)
(* drop reports they have processed before, keep answers to other messages *)
(* for later, and follow each order with a lifecycle machine of their own. *)
(*                                                                         *)
(* A client is single threaded.  What it has been sent on a connection is  *)
(* what the exchange's log says was sent there, in that order.             *)
(***************************************************************************)
EXTENDS MockExchange

CONSTANTS
    Clients,
    Portfolio,      \* the messages the user of each client sends
    MaxCalls,       \* calls the users of the clients make in all (bound)
    MaxRetries      \* max_retries

ASSUME PortfolioAssumption == Portfolio \in [Clients -> SUBSET Requests]

ASSUME MaxCallsAssumption == MaxCalls \in Nat

ASSUME MaxRetriesAssumption == MaxRetries \in Nat

VARIABLES
    session,        \* the connection a client has open
    inbox,          \* bytes on their way to the exchange, per connection
    call,           \* the message whose answer a client is waiting for
    attempt,        \* how often it has sent it again
    read,           \* the place in the log of the last message it has read
    buffer,         \* _pending_messages
    processed,      \* _processed_exec_ids
    states,         \* _order_states
    answer,         \* what the last call returned, Nothing if it raised
    calls           \* calls made so far

clientVars == <<session, inbox, call, attempt, read, buffer, processed, states,
                answer, calls>>

allVars == <<vars, clientVars>>

GatewayInit ==
    /\ Init
    /\ session = [c \in Clients |-> Nothing]
    /\ inbox = [s \in Sessions |-> <<>>]
    /\ call = [c \in Clients |-> Nothing]
    /\ attempt = [c \in Clients |-> 0]
    /\ read = [c \in Clients |-> 0]
    /\ buffer = [c \in Clients |-> <<>>]
    /\ processed = [c \in Clients |-> {}]
    /\ states = [c \in Clients |-> [id \in {} |-> Nothing]]
    /\ answer = [c \in Clients |-> Nothing]
    /\ calls = 0

Connected(c) == session[c] # Nothing

Idle(c) == Connected(c) /\ call[c] = Nothing

(* Whether the exchange put this message of its log on the connection.     *)
OnWire(i, s) ==
    /\ log[i].session = s
    /\ log[i].direction \in {"SENT", "DUPLICATE_SENT"}

(* The places in the log of what a client has been sent and has not read.  *)
Unread(c) == {i \in read[c] + 1 .. Len(log) : OnWire(i, session[c])}

-------------------------------------------------------------------------------
(* connect() returns once the exchange has taken the Logon.                *)
ClientConnect(c, s) ==
    /\ ~Connected(c)
    /\ at[s] \in {"turn", "receive"}
    /\ socket[s] = "open"
    /\ \A other \in Clients : session[other] # s
    /\ session' = [session EXCEPT ![c] = s]
    /\ read' = [read EXCEPT ![c] = 0]
    /\ UNCHANGED <<vars, inbox, call, attempt, buffer, processed, states, answer, calls>>

Close(c) ==
    /\ Idle(c)
    /\ socket' = [socket EXCEPT ![session[c]] = IF @ = "open" THEN "hungup" ELSE @]
    /\ session' = [session EXCEPT ![c] = Nothing]
    /\ buffer' = [buffer EXCEPT ![c] = <<>>]
    /\ UNCHANGED <<books, at, request, out, hand, pending, service, log, inbox, call,
                   attempt, read, processed, states, answer, calls>>

(* sendall, then _receive_matching as far as the messages kept from before. *)
Attempt(c, r, n) ==
    LET kept == SelectInSeq(buffer[c], LAMBDA m : m.cl = r.cl) IN
    /\ inbox' = [inbox EXCEPT ![session[c]] = Append(@, r)]
    /\ attempt' = [attempt EXCEPT ![c] = n]
    /\ \/ /\ kept > 0
          /\ answer' = [answer EXCEPT ![c] = buffer[c][kept]]
          /\ buffer' = [buffer EXCEPT ![c] = RemoveAt(@, kept)]
          /\ call' = [call EXCEPT ![c] = Nothing]
       \/ /\ kept = 0
          /\ call' = [call EXCEPT ![c] = r]
          /\ UNCHANGED <<answer, buffer>>

Call(c, r) ==
    /\ Idle(c)
    /\ calls < MaxCalls
    /\ calls' = calls + 1
    /\ Attempt(c, r, 0)
    /\ UNCHANGED <<vars, session, read, processed, states>>

(* send_new_order_nowait                                                   *)
SendNoWait(c, r) ==
    /\ Idle(c)
    /\ r.type = "D"
    /\ calls < MaxCalls
    /\ calls' = calls + 1
    /\ inbox' = [inbox EXCEPT ![session[c]] = Append(@, r)]
    /\ UNCHANGED <<vars, session, call, attempt, read, buffer, processed, states, answer>>

(* The client's own machine of an order, after a report.                   *)
Followed(machine, event) ==
    IF event = "CANCEL_CONFIRMED"
    THEN IF Permits(machine.state, "CANCEL_REQUEST")
         THEN ApplyEvent(ApplyEvent(machine, "CANCEL_REQUEST"), event)
         ELSE machine
    ELSE ApplyEvent(machine, event)

(* Mutant: the ExecID is not remembered.                                   *)
ProcessUnmarked(c, m) ==
    LET known == IF m.order \in DOMAIN states[c] THEN states[c][m.order]
                 ELSE [state |-> "NEW", history |-> <<>>]
    IN  /\ UNCHANGED processed
        /\ states' = [states EXCEPT ![c] =
                [id \in DOMAIN @ \cup {m.order} |->
                    IF id = m.order THEN Followed(known, m.event) ELSE @[id]]]

(* _process_execution_report for a report not seen before.                 *)
Process(c, m) ==
    LET known == IF m.order \in DOMAIN states[c] THEN states[c][m.order]
                 ELSE [state |-> "NEW", history |-> <<>>]
    IN  /\ processed' = [processed EXCEPT ![c] = @ \cup {m.exec_id}]
        /\ states' = [states EXCEPT ![c] =
                [id \in DOMAIN @ \cup {m.order} |->
                    IF id = m.order THEN Followed(known, m.event) ELSE @[id]]]

(* The next message off the wire: dropped if it is a report processed      *)
(* before, else the answer waited for, or kept for later.  Outside a call  *)
(* receive_message() returns it.                                           *)
Read(c) ==
    /\ Connected(c)
    /\ Unread(c) # {}
    /\ call[c] = Nothing => buffer[c] = <<>>
    /\ LET next == Min(Unread(c))
           m == log[next].message
           duplicate == IsReport(m) /\ m.exec_id \in processed[c]
           matches == call[c] # Nothing /\ m.cl = call[c].cl
       IN  /\ read' = [read EXCEPT ![c] = next]
           /\ IF IsReport(m) /\ ~duplicate
              THEN Process(c, m)
              ELSE UNCHANGED <<processed, states>>
           /\ \/ /\ ~duplicate
                 /\ matches
                 /\ answer' = [answer EXCEPT ![c] = m]
                 /\ call' = [call EXCEPT ![c] = Nothing]
                 /\ UNCHANGED buffer
              \/ /\ ~duplicate
                 /\ call[c] # Nothing
                 /\ ~matches
                 /\ buffer' = [buffer EXCEPT ![c] = Append(@, m)]
                 /\ UNCHANGED <<answer, call>>
              \/ /\ duplicate \/ call[c] = Nothing
                 /\ UNCHANGED <<answer, call, buffer>>
    /\ UNCHANGED <<vars, session, inbox, attempt, calls>>

(* receive_message() with messages kept from before.                       *)
TakeKept(c) ==
    /\ Idle(c)
    /\ buffer[c] # <<>>
    /\ buffer' = [buffer EXCEPT ![c] = Tail(@)]
    /\ UNCHANGED <<vars, session, inbox, call, attempt, read, processed, states,
                   answer, calls>>

(* Mutant: waits without end for the answer to its last attempt.           *)
TimeoutExceptLast(c) ==
    /\ call[c] # Nothing
    /\ Unread(c) = {}
    /\ socket[session[c]] # "closed"
    /\ attempt[c] < MaxRetries
    /\ Attempt(c, call[c], attempt[c] + 1)
    /\ UNCHANGED <<vars, session, read, processed, states, calls>>

(* Nothing came for as long as the client waits: it sends the message      *)
(* again, or gives up.                                                     *)
Timeout(c) ==
    /\ call[c] # Nothing
    /\ Unread(c) = {}
    /\ socket[session[c]] # "closed"
    /\ \/ /\ attempt[c] < MaxRetries
          /\ Attempt(c, call[c], attempt[c] + 1)
       \/ /\ attempt[c] = MaxRetries
          /\ call' = [call EXCEPT ![c] = Nothing]
          /\ answer' = [answer EXCEPT ![c] = Nothing]
          /\ UNCHANGED <<inbox, attempt, buffer>>
    /\ UNCHANGED <<vars, session, read, processed, states, calls>>

(* The exchange closed the connection and everything it sent has been read. *)
ConnectionLost(c) ==
    /\ call[c] # Nothing
    /\ Unread(c) = {}
    /\ socket[session[c]] = "closed"
    /\ call' = [call EXCEPT ![c] = Nothing]
    /\ answer' = [answer EXCEPT ![c] = Nothing]
    /\ UNCHANGED <<vars, session, inbox, attempt, read, buffer, processed, states, calls>>

(* The exchange takes the next message a client has sent.                  *)
Arrive(s) ==
    /\ inbox[s] # <<>>
    /\ Receive(s, Head(inbox[s]))
    /\ inbox' = [inbox EXCEPT ![s] = Tail(@)]
    /\ UNCHANGED <<session, call, attempt, read, buffer, processed, states, answer, calls>>

ClientStep(c) == Read(c) \/ Timeout(c) \/ ConnectionLost(c)

GatewayNext ==
    \/ Exchange /\ UNCHANGED clientVars
    \/ \E s \in Sessions : Arrive(s)
    \/ \E c \in Clients :
          \/ \E s \in Sessions : ClientConnect(c, s)
          \/ \E r \in Portfolio[c] : Call(c, r) \/ SendNoWait(c, r)
          \/ ClientStep(c) \/ TakeKept(c) \/ Close(c)

GatewaySpec == GatewayInit /\ [][GatewayNext]_allVars

(* The exchange as before, the network, and the waiting client, which      *)
(* either reads or times out.                                              *)
GatewayFairness ==
    /\ \A s \in Sessions :
          /\ WF_allVars(Work(s) /\ UNCHANGED clientVars)
          /\ WF_allVars(Send(s) /\ UNCHANGED clientVars)
          /\ WF_allVars(Arrive(s))
    /\ \A t \in Timers : WF_allVars(HoldExpires(t) /\ UNCHANGED clientVars)
    /\ \A t \in Threads : WF_allVars(Deliver(t) /\ UNCHANGED clientVars)
    /\ \A c \in Clients : WF_allVars(ClientStep(c))

FairGatewaySpec == GatewaySpec /\ GatewayFairness

-------------------------------------------------------------------------------
Count(history, event) ==
    Cardinality({i \in 1 .. Len(history) : history[i].event = event})

(* The exchange told someone that it rejected the order.                   *)
Rejected(id) == \E m \in Reports : m.order = id /\ m.event = "REJECT"

(* Whatever is dropped, duplicated, held back, swapped or repeated for a   *)
(* retry, over one connection or several, a client never believes more of  *)
(* an order than what happened to it, unless the exchange told someone     *)
(* that it was rejected: the order is in the book, no execution and no     *)
(* cancel of it is counted twice, and the state the client has it in is    *)
(* one the order has been in.                                              *)
ClientNeverAhead ==
    \A c \in Clients : \A id \in DOMAIN states[c] :
        \/ /\ id \in DOMAIN orders
           /\ \A event \in OrderEvent :
                 Count(states[c][id].history, event) <= Count(orders[id].history, event)
           /\ \E i \in 1 .. Len(orders[id].history) :
                 orders[id].history[i].to = states[c][id].state
        \/ Rejected(id)

(* The connections over which the exchange was sent messages of an order.  *)
AskedOver(id) ==
    {log[i].session : i \in {j \in 1 .. Len(log) :
        log[j].direction = "RECEIVED" /\ log[j].message.order = id}}

(* Every report made of an order was put on some connection, if not at the *)
(* first attempt then when it was repeated.                                *)
AllSent(id) ==
    \A m \in ReportsOf(id) :
        \E i \in 1 .. Len(log) :
            log[i].message = m /\ OnWire(i, log[i].session)

(* A client that has read everything has every order it alone asked for,   *)
(* over this connection, in the state the book has it in, once all its     *)
(* reports were sent: in whatever order they came, however often, and      *)
(* whoever released those that were held back.                             *)
ClientAgrees ==
    \A c \in Clients : Connected(c) /\ Unread(c) = {} =>
        \A id \in DOMAIN states[c] :
            AskedOver(id) = {session[c]} /\ AllSent(id) =>
                states[c][id].state = orders[id].state \/ Rejected(id)

(* Every call comes to an end, with an answer or with an exception.        *)
CallsEnd == \A c \in Clients : call[c] # Nothing ~> call[c] = Nothing

(* README.md: the client "performs bounded idempotent retries".  A cancel  *)
(* whose call canceled the order is not answered with a cancel reject.     *)
CancelRetryIsIdempotent ==
    \A c \in Clients :
        answer[c] # Nothing /\ answer[c].type = "9" =>
            ~ \E m \in Reports : /\ m.cl = answer[c].cl
                                 /\ m.event = "CANCEL_CONFIRMED"

===============================================================================
