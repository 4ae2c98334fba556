---------------------------- MODULE OrderLifecycle ----------------------------
(***************************************************************************)
(* The lifecycle table of fixgateway/exchange/state_machine.py.  The same  *)
(* table drives the exchange's order book, the client's local orders and   *)
(* the reconstruction of an order from the audit log.                      *)
(*                                                                         *)
(* A machine is any record with the fields state and history; the fields   *)
(* an order adds to it are left alone by an event.                         *)
(***************************************************************************)
EXTENDS Integers, Sequences

OrderState == {"NEW", "PARTIALLY_FILLED", "FILLED", "CANCELED", "REJECTED"}

OrderEvent == {"ACK", "PARTIAL_FILL", "FULL_FILL", "CANCEL_REQUEST",
               "CANCEL_CONFIRMED", "REJECT"}

Arc(from, event, to) == [from |-> from, event |-> event, to |-> to]

TRANSITIONS ==
    {Arc("NEW", "ACK", "NEW"),
     Arc("NEW", "PARTIAL_FILL", "PARTIALLY_FILLED"),
     Arc("NEW", "FULL_FILL", "FILLED"),
     Arc("NEW", "CANCEL_REQUEST", "NEW"),
     Arc("NEW", "CANCEL_CONFIRMED", "CANCELED"),
     Arc("NEW", "REJECT", "REJECTED"),
     Arc("PARTIALLY_FILLED", "PARTIAL_FILL", "PARTIALLY_FILLED"),
     Arc("PARTIALLY_FILLED", "FULL_FILL", "FILLED"),
     Arc("PARTIALLY_FILLED", "CANCEL_REQUEST", "PARTIALLY_FILLED"),
     Arc("PARTIALLY_FILLED", "CANCEL_CONFIRMED", "CANCELED")}

TERMINAL_STATES == {"FILLED", "CANCELED", "REJECTED"}

(* apply() raises InvalidTransitionError exactly when no arc leaves the    *)
(* state on the event.                                                     *)
Permits(state, event) ==
    \E t \in TRANSITIONS : t.from = state /\ t.event = event

TransitionFor(state, event) ==
    CHOOSE t \in TRANSITIONS : t.from = state /\ t.event = event

(* OrderStateMachine.apply: the state moves along the arc and the arc joins *)
(* the history; a refused event leaves both as they were.                  *)
ApplyEvent(machine, event) ==
    IF Permits(machine.state, event)
    THEN [machine EXCEPT
            !.state = TransitionFor(machine.state, event).to,
            !.history = Append(@, TransitionFor(machine.state, event))]
    ELSE machine

===============================================================================
