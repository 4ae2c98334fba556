------------------------------- MODULE AuditTrail -------------------------------
(***************************************************************************)
(* fixgateway/audit/audit_checker.py: the lifecycle of one order, rebuilt  *)
(* from the log alone.  Log entries are those of MockExchange; whether a   *)
(* report was sent, dropped or failed makes no difference here.            *)
(*                                                                         *)
(* Records are taken in the order of the log; MessageLog has their times   *)
(* and the sort by time that comes before.                                 *)
(***************************************************************************)
EXTENDS OrderLifecycle

Inbound(entry) == entry.direction = "RECEIVED"

(* The state of the loop of _reconstruct.  A refused transition ends it,   *)
(* which valid = FALSE stands for.                                         *)
Unread == [state |-> "NEW", history |-> <<>>, pending_cancel_requests |-> 0,
           seen_exec_ids |-> {}, valid |-> TRUE]

(* machine.apply inside the loop.                                          *)
Applied(rebuilt, event) ==
    IF Permits(rebuilt.state, event)
    THEN ApplyEvent(rebuilt, event)
    ELSE [rebuilt EXCEPT !.valid = FALSE]

(* Mutant: the request that was received is left out of the history.       *)
ConfirmedOutright(rebuilt) == Applied(rebuilt, "CANCEL_CONFIRMED")

(* A confirmed cancel stands for its request too, if one was received.     *)
Confirmed(rebuilt) ==
    IF rebuilt.pending_cancel_requests > 0
    THEN LET requested == Applied(rebuilt, "CANCEL_REQUEST")
         IN  IF requested.valid
             THEN Applied([requested EXCEPT !.pending_cancel_requests = @ - 1],
                          "CANCEL_CONFIRMED")
             ELSE requested
    ELSE Applied(rebuilt, "CANCEL_CONFIRMED")

AlreadySeen(rebuilt, message) == message.exec_id \in rebuilt.seen_exec_ids

(* One turn of the loop.                                                   *)
ReadRecord(rebuilt, entry) ==
    LET message == entry.message IN
    CASE ~rebuilt.valid -> rebuilt
      [] rebuilt.valid /\ Inbound(entry) ->
            IF message.type = "F"
            THEN [rebuilt EXCEPT !.pending_cancel_requests = @ + 1]
            ELSE rebuilt
      [] rebuilt.valid /\ ~Inbound(entry) /\ message.type = "9" ->
            [rebuilt EXCEPT !.pending_cancel_requests = IF @ > 0 THEN @ - 1 ELSE 0]
      [] rebuilt.valid /\ ~Inbound(entry) /\ message.type = "8" ->
            LET noted == [rebuilt EXCEPT !.seen_exec_ids = @ \cup {message.exec_id}]
            IN  IF AlreadySeen(rebuilt, message)
                THEN rebuilt
                ELSE IF message.event = "CANCEL_CONFIRMED"
                     THEN Confirmed(noted)
                     ELSE Applied(noted, message.event)

(* The entries of other orders are passed over.                            *)
ReadFor(order_id, rebuilt, entry) ==
    IF entry.message.order = order_id THEN ReadRecord(rebuilt, entry) ELSE rebuilt

(* _reconstruct for one order.                                             *)
Reconstruct(entries, order_id) ==
    LET rebuilt[n \in 0 .. Len(entries)] ==
            IF n = 0 THEN Unread ELSE ReadFor(order_id, rebuilt[n - 1], entries[n])
    IN  rebuilt[Len(entries)]

(* cross_check_against_state_machine: a log that does not make up a        *)
(* lifecycle, or another one, is a mismatch.                               *)
CrossCheck(entries, order_id, machine) ==
    LET rebuilt == Reconstruct(entries, order_id)
    IN  /\ rebuilt.valid
        /\ rebuilt.state = machine.state
        /\ rebuilt.history = machine.history

(* check_completeness, its verdict only, for records in order of time: the *)
(* history expected of each order is the one rebuilt, and each order that  *)
(* was asked for has a history, which is over or expected to be open.      *)
StartedOrders(entries) ==
    {entries[i].message.order : i \in
        {j \in DOMAIN entries : Inbound(entries[j]) /\ entries[j].message.type = "D"}}

ExplicitlyOpen(rebuilt, order_id, expected) ==
    /\ order_id \in DOMAIN expected
    /\ expected[order_id].state \notin TERMINAL_STATES
    /\ expected[order_id].state = rebuilt.state

CheckCompleteness(entries, expected) ==
    /\ \A id \in DOMAIN expected : CrossCheck(entries, id, expected[id])
    /\ \A id \in StartedOrders(entries) :
          LET rebuilt == Reconstruct(entries, id) IN
          /\ rebuilt.valid
          /\ rebuilt.history # <<>>
          /\ rebuilt.state \in TERMINAL_STATES \/ ExplicitlyOpen(rebuilt, id, expected)

===============================================================================
