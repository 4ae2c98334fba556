---------------------------- MODULE ConcurrentOrders ----------------------------
(***************************************************************************)
(* FixClient.send_orders_concurrently: one task per order, of which a      *)
(* semaphore lets a few run; each runs a client of its own, in a thread,   *)
(* through connect, send_new_order and close; gather collects the answers. *)
(*                                                                         *)
(* The worker of an order is a client of FixSession with that one order to *)
(* send.  `with` closes a worker's connection unless connect() raises: the *)
(* socket of a worker whose Logon is not answered stays open.              *)
(***************************************************************************)
EXTENDS FixSession, FiniteSetsExt

CONSTANTS
    Workers,        \* the clients of the tasks
    MaxConcurrencies  \* what callers pass as max_concurrency

ASSUME WorkersAssumption == Workers \subseteq FixClients

ASSUME MaxConcurrencyAssumption == MaxConcurrencies \subseteq Nat \ {0}

VARIABLES
    task,           \* of each worker
    results,        \* the answers of the tasks that are done
    batch,          \* the call: "none", "running", "returned" or "raised"
    limit           \* its max_concurrency

taskVars == <<task, results, batch, limit>>

concurrentVars == <<sessionVars, taskVars>>

Running == {c \in Workers : task[c] \in {"entering", "sending"}}

ConcurrentInit ==
    /\ SessionInit
    /\ task = [c \in Workers |-> "waiting"]
    /\ results = [c \in Workers |-> NoReply]
    /\ batch = "none"
    /\ limit = 0

StartBatch ==
    /\ batch = "none"
    /\ batch' = "running"
    /\ limit' \in MaxConcurrencies
    /\ UNCHANGED <<sessionVars, task, results>>

Becomes(c, state) == task' = [task EXCEPT ![c] = state]

(* A worker passes the semaphore and starts to connect.                    *)
Enter(c) ==
    /\ task[c] = "waiting"
    /\ Cardinality(Running) < limit
    /\ Connect(c)
    /\ Becomes(c, "entering")
    /\ UNCHANGED <<results, batch, limit>>

(* It passes the semaphore, and create_connection raises.                  *)
EnterRefused(c) ==
    /\ task[c] = "waiting"
    /\ Cardinality(Running) < limit
    /\ Becomes(c, "failed")
    /\ UNCHANGED <<sessionVars, results, batch, limit>>

(* connect() has raised: the task fails, and nobody closes the socket.     *)
EnterFails(c) ==
    /\ task[c] = "entering"
    /\ At(c, "idle")
    /\ ended[c].how = "raised"
    /\ Becomes(c, "failed")
    /\ UNCHANGED <<sessionVars, results, batch, limit>>

SendOrder(c) ==
    /\ task[c] = "entering"
    /\ ended[c].how = "connected"
    /\ \E r \in Asks[c] : SendRequest(c, r)
    /\ Becomes(c, "sending")
    /\ UNCHANGED <<results, batch, limit>>

(* Mutant: a worker leaves its connection open.                            *)
LeaveOpen(c) ==
    /\ task[c] = "sending"
    /\ At(c, "idle")
    /\ results' = [results EXCEPT ![c] = ended[c].got]
    /\ Becomes(c, IF ended[c].how = "returned" THEN "done" ELSE "failed")
    /\ UNCHANGED <<sessionVars, batch, limit>>

(* send_new_order has returned or raised: __exit__, and the task is over.  *)
Leave(c) ==
    /\ task[c] = "sending"
    /\ At(c, "idle")
    /\ results' = [results EXCEPT ![c] = ended[c].got]
    /\ Becomes(c, IF ended[c].how = "returned" THEN "done" ELSE "failed")
    /\ CloseConnection(c)
    /\ UNCHANGED <<batch, limit>>

(* Mutant: gather waits for every task, whatever happens to one.           *)
GatherAll ==
    /\ batch = "running"
    /\ \A c \in Workers : task[c] = "done"
    /\ batch' = "returned"
    /\ UNCHANGED <<sessionVars, task, results, limit>>

(* gather raises with the first task that fails, and returns when all are  *)
(* done.                                                                   *)
Gather ==
    /\ batch = "running"
    /\ \/ /\ \E c \in Workers : task[c] = "failed"
          /\ batch' = "raised"
       \/ /\ \A c \in Workers : task[c] = "done"
          /\ batch' = "returned"
    /\ UNCHANGED <<sessionVars, task, results, limit>>

(* The caller may let the event loop end after that: a task that waits for *)
(* the semaphore is canceled, a thread that runs goes on.                  *)
Abandon ==
    /\ batch = "raised"
    /\ \E c \in Workers : task[c] = "waiting"
    /\ task' = [c \in Workers |-> IF task[c] = "waiting" THEN "canceled" ELSE task[c]]
    /\ UNCHANGED <<sessionVars, results, batch, limit>>

WorkerStep(c) ==
    \/ Enter(c) \/ EnterRefused(c) \/ EnterFails(c) \/ SendOrder(c) \/ Leave(c)
    \/ c \in Running /\ Waits(c) /\ UNCHANGED taskVars

ConcurrentNext ==
    \/ StartBatch
    \/ \E c \in Workers : WorkerStep(c)
    \/ Gather
    \/ Abandon
    \/ PeerStep /\ UNCHANGED taskVars

ConcurrentSpec == ConcurrentInit /\ [][ConcurrentNext]_concurrentVars

(* The threads of the workers and the event loop run on; a worker that     *)
(* waits reads or times out.  Nothing is assumed of the exchange.          *)
ConcurrentFairness ==
    /\ \A c \in Workers : WF_concurrentVars(WorkerStep(c))
    /\ WF_concurrentVars(Gather)

-------------------------------------------------------------------------------
(* A batch returns only what it promises: each order was served by the     *)
(* exchange, and in its place is the answer to it, which came over a       *)
(* connection no other order used.                                         *)
BatchIsAnswered ==
    batch = "returned" =>
        /\ \A c \in Workers :
              results[c].about \in Asks[c] \cap served
        /\ \A c, d \in Workers : results[c].over = results[d].over => c = d

(* Sockets stay within max_concurrency but for those of workers whose      *)
(* connect() raised, and a batch that returns leaves none open.            *)
SocketsAccounted ==
    /\ Cardinality({c \in Workers : Open(c) /\ task[c] # "failed"}) <= limit
    /\ \A c \in Workers :
          Open(c) /\ task[c] \notin {"entering", "sending"} =>
              task[c] = "failed" /\ sends[c] = 0
    /\ batch = "returned" => \A c \in Workers : ~Open(c)

(* What a batch has done is accounted for: its results by the exchange,    *)
(* its sockets by the limit and by the workers that failed.                *)
BatchAccounted == BatchIsAnswered /\ SocketsAccounted

(* send_orders_concurrently ends, whatever the exchange does: it returns,  *)
(* or raises if one of the orders failed.                                  *)
BatchEnds == batch = "running" ~> batch # "running"

===============================================================================
