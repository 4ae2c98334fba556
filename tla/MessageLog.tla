------------------------------- MODULE MessageLog -------------------------------
(***************************************************************************)
(* The log the audit reads, with its timestamps: _record in                *)
(* exchange/mock_exchange.py reads the clock before it takes the lock under *)
(* which it appends, so that the entries of several threads need not be in *)
(* order of time; fixgateway/audit/audit_checker.py sorts the records of   *)
(* an order by timestamp and complains of timestamps out of order.         *)
(*                                                                         *)
(* What a thread has to record is given: messages of orders it serves.     *)
(* MockExchange says which messages those are; here only when each is      *)
(* stamped and when it is appended matters.  The clock is coarse: it may   *)
(* show one time to several readers.  It is not set back.                  *)
(***************************************************************************)
EXTENDS AuditTrail, SequencesExt, FiniteSetsExt

CONSTANTS
    Recorders,      \* threads that call _record
    Records,        \* the entries each has to record, in order
    LastTime        \* how far the clock goes (bound)

ASSUME RecordsAssumption ==
    \A t \in Recorders : Records[t] \in Seq(ToSet(Records[t]))

ASSUME LastTimeAssumption == LastTime \in Nat

VARIABLES
    clock,          \* datetime.now(UTC)
    stamp,          \* of the entry a thread has made and not appended; 0: none
    recorded,       \* how many entries of its work a thread has appended
    message_log,
    overlapped      \* two threads have been between clock and lock at once

logVars == <<clock, stamp, recorded, message_log, overlapped>>

LogInit ==
    /\ clock = 1
    /\ stamp = [t \in Recorders |-> 0]
    /\ recorded = [t \in Recorders |-> 0]
    /\ message_log = <<>>
    /\ overlapped = FALSE

Stamped(t) == stamp[t] # 0

Tick ==
    /\ clock < LastTime
    /\ clock' = clock + 1
    /\ UNCHANGED <<stamp, recorded, message_log, overlapped>>

(* entry = MessageLogEntry(direction, datetime.now(UTC), ...)              *)
ReadClock(t) ==
    /\ ~Stamped(t)
    /\ recorded[t] < Len(Records[t])
    /\ stamp' = [stamp EXCEPT ![t] = clock]
    /\ overlapped' = (overlapped \/ \E other \in Recorders : Stamped(other))
    /\ UNCHANGED <<clock, recorded, message_log>>

(* with self._lock: self.message_log.append(entry)                         *)
AppendEntry(t) ==
    /\ Stamped(t)
    /\ message_log' = Append(message_log,
            [entry |-> Records[t][recorded[t] + 1], timestamp |-> stamp[t], by |-> t])
    /\ recorded' = [recorded EXCEPT ![t] = @ + 1]
    /\ stamp' = [stamp EXCEPT ![t] = 0]
    /\ UNCHANGED <<clock, overlapped>>

LogNext == Tick \/ \E t \in Recorders : ReadClock(t) \/ AppendEntry(t)

LogSpec == LogInit /\ [][LogNext]_logVars

-------------------------------------------------------------------------------
(* The audit's half.  _reconstruct sorts by timestamp and, for equal ones, *)
(* by place in the log.                                                    *)

(* Mutant: the place in the log does not count.                            *)
EarlierByTime(i, j) ==
    \/ message_log[i].timestamp < message_log[j].timestamp
    \/ message_log[i].timestamp = message_log[j].timestamp /\ i > j

Earlier(i, j) ==
    \/ message_log[i].timestamp < message_log[j].timestamp
    \/ message_log[i].timestamp = message_log[j].timestamp /\ i < j

PlacesOf(id) == {i \in DOMAIN message_log : message_log[i].entry.message.order = id}

(* The k-th of them in order of time: k - 1 come before it.                *)
PlaceInTime(places, k) ==
    CHOOSE i \in places : Cardinality({j \in places : Earlier(j, i)}) = k - 1

EntriesByTime(id) ==
    [k \in 1 .. Cardinality(PlacesOf(id)) |->
        message_log[PlaceInTime(PlacesOf(id), k)].entry]

ReconstructByTime(id) == Reconstruct(EntriesByTime(id), id)

(* The ordering issues of check_completeness: neighbours whose times       *)
(* decrease, and entries of an order whose time does not increase.         *)
OverallIssues ==
    {i \in DOMAIN message_log :
        i > 1 /\ message_log[i].timestamp < message_log[i - 1].timestamp}

(* Mutant: compares an entry with every earlier one, of whatever order.    *)
OrderIssuesAmongAll ==
    {j \in DOMAIN message_log :
        \E i \in 1 .. j - 1 : message_log[j].timestamp <= message_log[i].timestamp}

OrderIssues ==
    {j \in DOMAIN message_log :
        LET before == {i \in PlacesOf(message_log[j].entry.message.order) : i < j}
        IN  before # {} /\ message_log[j].timestamp <= message_log[Max(before)].timestamp}

OrderingReported == OverallIssues # {} \/ OrderIssues # {}

-------------------------------------------------------------------------------
(* However threads interleave between the clock and the lock, the entries  *)
(* of one thread are in order of time.                                     *)
ThreadsInOrderOfTime ==
    \A i, j \in DOMAIN message_log :
        i < j /\ message_log[i].by = message_log[j].by =>
            message_log[i].timestamp <= message_log[j].timestamp

ServedBy(id) == {message_log[i].by : i \in PlacesOf(id)}

(* What a thread has recorded of an order, as it did.                      *)
RecordsOf(t, id) == {n \in 1 .. recorded[t] : Records[t][n].message.order = id}

PlaceInOrder(places, k) ==
    CHOOSE n \in places : Cardinality({m \in places : m < n}) = k - 1

RecordedOf(t, id) ==
    [k \in 1 .. Cardinality(RecordsOf(t, id)) |->
        Records[t][PlaceInOrder(RecordsOf(t, id), k)]]

(* So an order that one thread serves is rebuilt as it was recorded,       *)
(* whatever other threads have logged in between and however coarse the    *)
(* clock: sorting by time does not disturb it.                             *)
OwnOrdersRebuilt ==
    \A i \in DOMAIN message_log :
        LET id == message_log[i].entry.message.order
            t == message_log[i].by
        IN  ServedBy(id) = {t} => ReconstructByTime(id) = Reconstruct(RecordedOf(t, id), id)

(* check_completeness reports no ordering issue of a log whose threads     *)
(* never met between clock and lock, unless two entries of an order bear   *)
(* the same time.                                                          *)
AlarmsHaveACause ==
    OrderingReported =>
        \/ overlapped
        \/ \E i, j \in DOMAIN message_log :
              /\ i < j
              /\ message_log[i].timestamp = message_log[j].timestamp
              /\ message_log[i].entry.message.order = message_log[j].entry.message.order

===============================================================================
