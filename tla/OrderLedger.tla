------------------------------ MODULE OrderLedger ------------------------------
(***************************************************************************)
(* What any keeper of orders promises, whatever its calls are.  An order   *)
(* is opened once, with a quantity that never changes.  While it is open   *)
(* its executed quantity only grows; executing all of it, or canceling     *)
(* what is left, closes it, and a closed order never changes again.        *)
(*                                                                         *)
(* Nothing of the lifecycle table, of the histories or of the errors is    *)
(* visible here.  One step may move one order through several executions.  *)
(***************************************************************************)
EXTENDS Integers

CONSTANTS OrderIds, Quantities

VARIABLE ledger

Entry(quantity, executed, open) ==
    [quantity |-> quantity, executed |-> executed, open |-> open]

Init == ledger = [id \in {} |-> Entry(0, 0, FALSE)]

(* A new order appears, perhaps already executed in part or in full.       *)
Open(id) ==
    /\ id \notin DOMAIN ledger
    /\ \E quantity \in Quantities : \E executed \in 0 .. quantity :
          ledger' = [i \in DOMAIN ledger \cup {id} |->
                        IF i = id
                        THEN Entry(quantity, executed, executed < quantity)
                        ELSE ledger[i]]

Execute(id) ==
    /\ id \in DOMAIN ledger
    /\ ledger[id].open
    /\ \E executed \in ledger[id].executed + 1 .. ledger[id].quantity :
          ledger' = [ledger EXCEPT
                        ![id] = Entry(@.quantity, executed, executed < @.quantity)]

(* What is left of the order is given up.                                  *)
Close(id) ==
    /\ id \in DOMAIN ledger
    /\ ledger[id].open
    /\ ledger' = [ledger EXCEPT ![id] = Entry(@.quantity, @.executed, FALSE)]

Next == \E id \in OrderIds : Open(id) \/ Execute(id) \/ Close(id)

Spec == Init /\ [][Next]_ledger
===============================================================================
