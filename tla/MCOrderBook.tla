------------------------------- MODULE MCOrderBook -------------------------------
(***************************************************************************)
(* Small instances of the order book and of the parts an order passes on   *)
(* its way there.  They do not interact in the model: a behaviour is one   *)
(* of one part, chosen at the start, while the others stay as they are.    *)
(***************************************************************************)
EXTENDS OrderBook, FixFraming, ConcurrentOrders

VARIABLE part

bookVars == vars

partsVars == <<bookVars, framingVars, concurrentVars, part>>

(* A message, and one with a field whose value ends like a BeginString.    *)
TwoTexts ==
    {<<"8", "=", "a", "|", "1", "0", "=", "c", "|">>,
     <<"8", "=", "b", "|", "8", "=", "|", "1", "0", "=", "c", "|">>}

(* Noise that ends like the start of a message.                            *)
SomeNoise == {<<"x">>, <<"|", "8">>}

(* D1 is accepted and filled at once; D2 is refused each time.             *)
SomeReports == "D1" :> 2 @@ "D2" :> 0

(* The free user sends anything, the worker of an order that order.        *)
WhoAsks == [c \in FixClients |-> IF c \in Users THEN ClientRequests ELSE {c}]

(* The user sends a request again by another call.                         *)
WhoRetries == [c \in FixClients |-> IF c \in Users THEN 0 ELSE 1]

Book(action) ==
    part = "book" /\ action /\ UNCHANGED <<framingVars, concurrentVars, part>>

Framing(action) ==
    part = "framing" /\ action /\ UNCHANGED <<bookVars, concurrentVars, part>>

Session(action) ==
    part = "session" /\ action /\ UNCHANGED <<bookVars, framingVars, taskVars, part>>

Batch(action) ==
    part = "batch" /\ action /\ UNCHANGED <<bookVars, framingVars, part>>

PartsInit ==
    /\ Init /\ FramingInit /\ ConcurrentInit
    /\ part \in {"book", "framing", "session", "batch"}

PartsNext ==
    \/ Book(Next)
    \/ Framing(FramingNext)
    \/ Session(SessionNext)
    \/ Batch(ConcurrentNext)

(* FramingFairness and ConcurrentFairness, of the part a behaviour is of.  *)
PartsFairness ==
    /\ WF_partsVars(Framing(CallReceive))
    /\ WF_partsVars(Framing(CutMessage))
    /\ SF_partsVars(Framing(TakeChunk))
    /\ \A c \in Workers : WF_partsVars(Batch(WorkerStep(c)))
    /\ WF_partsVars(Batch(Gather))

PartsSpec == PartsInit /\ [][PartsNext]_partsVars /\ PartsFairness
===============================================================================
