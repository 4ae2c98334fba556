-------------------------------- MODULE MCAudit --------------------------------
(***************************************************************************)
(* Small instances of the audited exchange and of the parts that work on   *)
(* messages, prices, records and measurements by themselves.  They do not  *)
(* interact in the model: a behaviour is one of one part, chosen at the    *)
(* start, while the others stay as they are.                               *)
(***************************************************************************)
EXTENDS AuditedExchange, MessageLog, WireFormat, Precision, CancelRatio, RapidCancels,
        LatencyBaseline, SoakRun

VARIABLE part

exchangeVars == vars

toolVars == <<wireVars, precisionVars, ratioVars, spoofVars, latencyVars, soakVars>>

auditVars == <<exchangeVars, logVars, toolVars, part>>

ReceivedRecord(type, id) ==
    [direction |-> "RECEIVED",
     message |-> [type |-> type, order |-> id, event |-> "none", exec_id |-> 0]]

SentRecord(event, id, exec_id) ==
    [direction |-> "SENT",
     message |-> [type |-> "8", order |-> id, event |-> event, exec_id |-> exec_id]]

(* One session serves an order that is filled, another one that is         *)
(* canceled.                                                               *)
TwoSessionsRecords ==
    [t \in {"t1", "t2"} |->
        IF t = "t1"
        THEN <<SentRecord("ACK", "A", 1), SentRecord("PARTIAL_FILL", "A", 2),
               SentRecord("FULL_FILL", "A", 3)>>
        ELSE <<SentRecord("ACK", "B", 4), ReceivedRecord("F", "B"),
               SentRecord("CANCEL_CONFIRMED", "B", 5)>>]

Field(tag, value) == [tag |-> tag, value |-> value]

(* Out of order, and with a checksum that starts with 0.                   *)
ShortMessage == <<Field(49, <<67, 70>>), Field(35, <<48>>)>>

(* The other one has values for the computed tags, a tag that ends like    *)
(* tag 10, a value that reads like one, and an empty value.                *)
TwoMessages ==
    {ShortMessage,
     <<Field(8, <<70>>), Field(9, <<53>>), Field(35, <<68>>), Field(110, <<55>>),
       Field(58, <<49, 48, 61, 51>>), Field(11, <<>>), Field(10, <<49>>)>>}

MinusSixToSix == -6 .. 6

AuditInit ==
    /\ Init /\ LogInit
    /\ WireInit /\ PrecisionInit /\ RatioInit /\ SpoofInit /\ LatencyInit /\ SoakInit
    /\ part \in {"exchange", "log", "wire", "precision", "ratio", "spoof", "latency", "soak"}
    /\ part # "exchange" => strategy = "resting" /\ "drop" \in chaos
    /\ part # "wire" => message = ShortMessage
    /\ part # "precision" => exit_price = 0
    /\ part # "soak" => now = 0

Tool(name, action) == part = name /\ action /\ UNCHANGED <<exchangeVars, logVars, part>>

Soak(action) ==
    /\ Tool("soak", action)
    /\ UNCHANGED <<wireVars, precisionVars, ratioVars, spoofVars, latencyVars>>

AuditNext ==
    \/ part = "exchange" /\ Next /\ UNCHANGED <<logVars, toolVars, part>>
    \/ part = "log" /\ LogNext /\ UNCHANGED <<exchangeVars, toolVars, part>>
    \/ /\ Tool("wire", WireNext)
       /\ UNCHANGED <<precisionVars, ratioVars, spoofVars, latencyVars, soakVars>>
    \/ /\ Tool("precision", PrecisionNext)
       /\ UNCHANGED <<wireVars, ratioVars, spoofVars, latencyVars, soakVars>>
    \/ /\ Tool("ratio", RatioNext)
       /\ UNCHANGED <<wireVars, precisionVars, spoofVars, latencyVars, soakVars>>
    \/ /\ Tool("spoof", SpoofNext)
       /\ UNCHANGED <<wireVars, precisionVars, ratioVars, latencyVars, soakVars>>
    \/ /\ Tool("latency", LatencyNext)
       /\ UNCHANGED <<wireVars, precisionVars, ratioVars, spoofVars, soakVars>>
    \/ Soak(SoakNext)

AuditSpec == AuditInit /\ [][AuditNext]_auditVars /\ WF_auditVars(Soak(RunnerStep))
===============================================================================
