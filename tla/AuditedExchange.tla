---------------------------- MODULE AuditedExchange ----------------------------
(***************************************************************************)
(* The exchange and the audit of its log: does the log alone, at any time, *)
(* tell the lifecycle each order really went through?                      *)
(***************************************************************************)
EXTENDS MCMockExchange, AuditTrail

(* README.md: "A normalized audit trail can reconstruct each lifecycle     *)
(* using only logged messages".  When no thread has anything more to do,   *)
(* the history rebuilt from the log is that of the book, order by order.   *)
AuditMatchesBook ==
    Settled => \A id \in DOMAIN orders : CrossCheck(log, id, orders[id])

(* A malformed order is answered as new each time it comes, by a REJECT    *)
(* with an ExecID of its own; the second makes its lifecycle impossible.   *)
RejectedTwice(id) ==
    \E i, j \in DOMAIN log :
        /\ \A k \in {i, j} : log[k].message.order = id /\ log[k].message.event = "REJECT"
        /\ log[i].message.exec_id # log[j].message.exec_id

(* When no thread has more to do, check_completeness (audit_checker.py:    *)
(* 267-366) finds an order asked for neither missing nor without an end,   *)
(* accepted or not, unless it was rejected twice.                          *)
AuditIsComplete ==
    Settled /\ (\A id \in StartedOrders(log) : ~RejectedTwice(id)) =>
        CheckCompleteness(log, orders)

===============================================================================
