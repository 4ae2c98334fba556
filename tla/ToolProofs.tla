------------------------------- MODULE ToolProofs -------------------------------
(***************************************************************************)
(* What the tools beside the exchange make of what they are given.         *)
(*                                                                         *)
(* The log: the order of its time stamps, and the order of a thread's own  *)
(* entries once they are sorted by it, for any threads, entries and length *)
(* of the clock.                                                           *)
(*                                                                         *)
(* The two passes of the pattern detector: they find what their docstrings *)
(* promise and nothing else, for any traders, limits and events.  Both     *)
(* definitions are of events that are read once and never change; a pass   *)
(* is right because what it keeps beside the events always says the same   *)
(* as they do.                                                             *)
(*                                                                         *)
(* The figures that are reported: what those of a soak are of, and what a  *)
(* soak leaves open, for any rates, times and failures; rounded prices and *)
(* average prices, for any prices; latency percentiles, for any samples.   *)
(***************************************************************************)
EXTENDS MessageLog, CancelRatio, RapidCancels, SoakRun, LatencyBaseline, Precision,
        FiniteSetTheorems, FunctionTheorems, WellFoundedInduction, TLAPS

-------------------------------------------------------------------------------
(* MessageLog                                                              *)

(* What is in the log was stamped by a clock that has only gone on.        *)
LogTyped ==
    /\ clock \in Nat \ {0}
    /\ stamp \in [Recorders -> 0 .. clock]
    /\ message_log \in Seq({message_log[i] : i \in DOMAIN message_log})
    /\ \A i \in DOMAIN message_log :
          /\ message_log[i].by \in Recorders
          /\ message_log[i].timestamp \in 1 .. clock

(* A thread stamps its next entry after it appended the last.              *)
StampIsLatest ==
    \A t \in Recorders : Stamped(t) =>
        \A i \in DOMAIN message_log :
            message_log[i].by = t => message_log[i].timestamp <= stamp[t]

(* As long as no two threads have met, all of this is true of the log as a *)
(* whole.                                                                  *)
InOrderAlone ==
    ~overlapped =>
        /\ \A t, u \in Recorders : Stamped(t) /\ Stamped(u) => t = u
        /\ \A t \in Recorders : Stamped(t) =>
              \A i \in DOMAIN message_log : message_log[i].timestamp <= stamp[t]
        /\ \A i, j \in DOMAIN message_log :
              i < j => message_log[i].timestamp <= message_log[j].timestamp

LogInv == LogTyped /\ StampIsLatest /\ ThreadsInOrderOfTime /\ InOrderAlone

LEMMA ReadClockKeeps ==
    ASSUME LogInv, NEW t \in Recorders, ReadClock(t)
    PROVE  LogInv'
  <1>1. /\ stamp' = [stamp EXCEPT ![t] = clock] /\ ~Stamped(t)
        /\ clock' = clock /\ message_log' = message_log
        /\ overlapped' = (overlapped \/ \E other \in Recorders : Stamped(other))
    BY DEF ReadClock
  <1>2. stamp \in [Recorders -> 0 .. clock] /\ clock \in Nat \ {0}
    BY DEF LogInv, LogTyped
  <1>3. stamp' \in [Recorders -> 0 .. clock] /\ stamp'[t] = clock
        /\ \A u \in Recorders \ {t} : stamp'[u] = stamp[u]
    BY <1>1, <1>2
  <1>4. LogTyped'
    BY <1>1, <1>3 DEF LogInv, LogTyped
  <1>5. \A i \in DOMAIN message_log : message_log[i].timestamp <= clock
    BY DEF LogInv, LogTyped
  <1>6. StampIsLatest'
    BY <1>1, <1>3, <1>5 DEF LogInv, StampIsLatest, Stamped
  <1>7. ThreadsInOrderOfTime'
    BY <1>1 DEF LogInv, ThreadsInOrderOfTime
  <1>8. InOrderAlone'
    <2> SUFFICES ASSUME ~overlapped'
                 PROVE  /\ \A u, v \in Recorders : Stamped(u)' /\ Stamped(v)' => u = v
                        /\ \A u \in Recorders : Stamped(u)' =>
                              \A i \in DOMAIN message_log' : message_log'[i].timestamp <= stamp'[u]
                        /\ \A i, j \in DOMAIN message_log' :
                              i < j => message_log'[i].timestamp <= message_log'[j].timestamp
      BY DEF InOrderAlone
    <2>1. ~overlapped /\ \A u \in Recorders : ~Stamped(u)
      BY <1>1
    <2>2. \A u \in Recorders : Stamped(u)' => u = t
      BY <1>3, <2>1 DEF Stamped
    <2> QED BY <1>1, <1>3, <1>5, <2>1, <2>2 DEF LogInv, InOrderAlone
  <1> QED BY <1>4, <1>6, <1>7, <1>8 DEF LogInv

LEMMA AppendEntryKeeps ==
    ASSUME LogInv, NEW t \in Recorders, AppendEntry(t)
    PROVE  LogInv'
  <1> PICK n : n = Len(message_log)
    OBVIOUS
  <1> PICK log : log = message_log
    OBVIOUS
  <1> PICK new : new = [entry |-> Records[t][recorded[t] + 1], timestamp |-> stamp[t], by |-> t]
    OBVIOUS
  <1>1. /\ message_log' = Append(log, new) /\ Stamped(t)
        /\ stamp' = [stamp EXCEPT ![t] = 0]
        /\ clock' = clock /\ overlapped' = overlapped
    BY DEF AppendEntry
  <1>2. new.timestamp = stamp[t] /\ new.by = t
    OBVIOUS
  <1>3. /\ log \in Seq({log[i] : i \in DOMAIN log})
        /\ stamp \in [Recorders -> 0 .. clock] /\ clock \in Nat \ {0}
    BY DEF LogInv, LogTyped
  <1>4. /\ n \in Nat /\ DOMAIN log = 1 .. n
        /\ DOMAIN message_log' = 1 .. n + 1
        /\ \A i \in 1 .. n : message_log'[i] = log[i]
        /\ message_log'[n + 1] = new
        /\ message_log' \in Seq({message_log'[i] : i \in DOMAIN message_log'})
    BY <1>1, <1>3
  <1>5. stamp[t] \in 1 .. clock /\ stamp' \in [Recorders -> 0 .. clock]
        /\ stamp'[t] = 0 /\ \A u \in Recorders \ {t} : stamp'[u] = stamp[u]
    BY <1>1, <1>3 DEF Stamped
  <1>6. \A i \in 1 .. n : log[i].by \in Recorders /\ log[i].timestamp \in 1 .. clock
    BY <1>4 DEF LogInv, LogTyped
  <1>7. \A i \in 1 .. n + 1 : i \in 1 .. n \/ i = n + 1
    BY <1>4
  <1>8. LogTyped'
    <2>1. clock' \in Nat \ {0} /\ stamp' \in [Recorders -> 0 .. clock']
      BY <1>1, <1>3, <1>5
    <2>2. ASSUME NEW i \in 1 .. n + 1
          PROVE  message_log'[i].by \in Recorders /\ message_log'[i].timestamp \in 1 .. clock
      <3>1. CASE i \in 1 .. n
        BY <1>4, <1>6, <3>1
      <3>2. CASE i = n + 1
        BY <1>2, <1>4, <1>5, <3>2
      <3> QED BY <1>7, <3>1, <3>2
    <2>3. \A i \in DOMAIN message_log' :
              message_log'[i].by \in Recorders /\ message_log'[i].timestamp \in 1 .. clock'
      BY <1>1, <1>4, <2>2
    <2>4. message_log' \in Seq({message_log'[i] : i \in DOMAIN message_log'})
      BY <1>4
    <2> QED BY <2>1, <2>3, <2>4 DEF LogTyped
  <1>9. StampIsLatest'
    BY <1>2, <1>4, <1>5, <1>7 DEF LogInv, StampIsLatest, Stamped
  <1>10. \A i \in 1 .. n : log[i].by = t => log[i].timestamp <= stamp[t]
    BY <1>1, <1>4 DEF LogInv, StampIsLatest
  <1>11. ThreadsInOrderOfTime'
    <2> SUFFICES ASSUME NEW i \in 1 .. n + 1, NEW j \in 1 .. n + 1, i < j,
                        message_log'[i].by = message_log'[j].by
                 PROVE  message_log'[i].timestamp <= message_log'[j].timestamp
      BY <1>4 DEF ThreadsInOrderOfTime
    <2>1. i \in 1 .. n
      BY <1>4
    <2>2. CASE j \in 1 .. n
      BY <1>4, <2>1, <2>2 DEF LogInv, ThreadsInOrderOfTime
    <2>3. CASE j = n + 1
      BY <1>2, <1>4, <1>10, <2>1, <2>3
    <2> QED BY <1>7, <2>2, <2>3
  <1>12. InOrderAlone'
    <2> SUFFICES ASSUME ~overlapped
                 PROVE  /\ \A u, v \in Recorders : Stamped(u)' /\ Stamped(v)' => u = v
                        /\ \A u \in Recorders : Stamped(u)' =>
                              \A i \in DOMAIN message_log' : message_log'[i].timestamp <= stamp'[u]
                        /\ \A i, j \in DOMAIN message_log' :
                              i < j => message_log'[i].timestamp <= message_log'[j].timestamp
      BY <1>1 DEF InOrderAlone
    <2>1. \A u \in Recorders : ~Stamped(u)'
      BY <1>1, <1>5 DEF LogInv, InOrderAlone, Stamped
    <2>2. \A i \in 1 .. n : log[i].timestamp <= stamp[t]
      BY <1>1, <1>4 DEF LogInv, InOrderAlone
    <2>3. ASSUME NEW i \in 1 .. n + 1, NEW j \in 1 .. n + 1, i < j
          PROVE  message_log'[i].timestamp <= message_log'[j].timestamp
      <3>1. i \in 1 .. n
        BY <1>4, <2>3
      <3>2. CASE j \in 1 .. n
        BY <1>4, <2>3, <3>1, <3>2 DEF LogInv, InOrderAlone
      <3>3. CASE j = n + 1
        BY <1>2, <1>4, <2>2, <3>1, <3>3
      <3> QED BY <1>7, <3>2, <3>3
    <2> QED BY <1>4, <2>1, <2>3
  <1> QED BY <1>8, <1>9, <1>11, <1>12 DEF LogInv

LEMMA LogInvHolds == LogSpec => []LogInv
  <1>1. LogInit => LogInv
    <2> SUFFICES ASSUME LogInit PROVE LogInv
      OBVIOUS
    <2>1. message_log = <<>> /\ clock = 1 /\ stamp = [t \in Recorders |-> 0]
      BY DEF LogInit
    <2>2. \A S : <<>> \in Seq(S)
      OBVIOUS
    <2>3. LogTyped
      BY <2>1, <2>2 DEF LogTyped
    <2> QED BY <2>1, <2>3 DEF LogInv, StampIsLatest, ThreadsInOrderOfTime, InOrderAlone, Stamped
  <1>2. LogInv /\ [LogNext]_logVars => LogInv'
    <2> SUFFICES ASSUME LogInv, [LogNext]_logVars PROVE LogInv'
      OBVIOUS
    <2>1. CASE Tick
      <3>1. /\ clock' = clock + 1
            /\ stamp' = stamp /\ message_log' = message_log /\ overlapped' = overlapped
        BY <2>1 DEF Tick
      <3>2. clock \in Nat \ {0}
        BY DEF LogInv, LogTyped
      <3>3. 0 .. clock \subseteq 0 .. clock' /\ 1 .. clock \subseteq 1 .. clock'
            /\ clock' \in Nat \ {0}
        BY <3>1, <3>2
      <3>4. LogTyped'
        <4>1. stamp \in [Recorders -> 0 .. clock']
          BY <3>3 DEF LogInv, LogTyped
        <4> QED BY <3>1, <3>3, <4>1 DEF LogInv, LogTyped
      <3> QED
        BY <3>1, <3>4 DEF LogInv, StampIsLatest, ThreadsInOrderOfTime, InOrderAlone, Stamped
    <2>2. CASE UNCHANGED logVars
      BY <2>2 DEF logVars, LogInv, LogTyped, StampIsLatest, ThreadsInOrderOfTime,
                  InOrderAlone, Stamped
    <2> QED BY <2>1, <2>2, ReadClockKeeps, AppendEntryKeeps DEF LogNext
  <1> QED BY <1>1, <1>2, PTL DEF LogSpec

(* _record (mock_exchange.py:443-453) may put the entries of two threads   *)
(* in the wrong order, those of one never.                                 *)
THEOREM EachThreadInOrder == LogSpec => []ThreadsInOrderOfTime
  BY LogInvHolds, PTL DEF LogInv

-------------------------------------------------------------------------------
(* The complaints of check_completeness.                                   *)

LEMMA Greatest ==
    ASSUME NEW n \in Nat, NEW S \in SUBSET (1 .. n), S # {}
    PROVE  Max(S) \in S
  <1> DEFINE T == {n - i : i \in S}
  <1>1. T \in SUBSET Nat /\ T # {}
    <2>1. \A i \in S : i \in 1 .. n /\ n - i \in Nat
      OBVIOUS
    <2> QED BY <2>1
  <1>2. PICK m \in T : \A k \in T : ~(<<k, m>> \in OpToRel(<, Nat))
    BY <1>1, NatLessThanWellFounded, WFMin
  <1>3. \A k \in T : ~(k < m)
    BY <1>1, <1>2 DEF OpToRel
  <1>4. PICK i \in S : m = n - i
    OBVIOUS
  <1>5. \A j \in S : i >= j
    BY <1>3, <1>4
  <1> QED BY <1>5 DEF Max

LEMMA AlarmsInOrder == LogInv => AlarmsHaveACause
  <1> SUFFICES ASSUME LogInv, OrderingReported, ~overlapped
               PROVE  \E i, j \in DOMAIN message_log :
                         /\ i < j
                         /\ message_log[i].timestamp = message_log[j].timestamp
                         /\ message_log[i].entry.message.order = message_log[j].entry.message.order
    BY DEF AlarmsHaveACause
  <1> PICK n : n = Len(message_log)
    OBVIOUS
  <1>1. message_log \in Seq({message_log[i] : i \in DOMAIN message_log})
    BY DEF LogInv, LogTyped
  <1>2. n \in Nat /\ DOMAIN message_log = 1 .. n
    BY <1>1
  <1>3. \A i \in 1 .. n : message_log[i].timestamp \in Nat
    BY <1>2 DEF LogInv, LogTyped
  <1>4. \A i, j \in 1 .. n : i < j => message_log[i].timestamp <= message_log[j].timestamp
    BY <1>2 DEF LogInv, InOrderAlone
  <1>5. OverallIssues = {}
    <2> SUFFICES ASSUME NEW i \in 1 .. n, i > 1,
                        message_log[i].timestamp < message_log[i - 1].timestamp
                 PROVE  FALSE
      BY <1>2 DEF OverallIssues
    <2>1. i - 1 \in 1 .. n /\ i - 1 < i
      BY <1>2
    <2>2. message_log[i - 1].timestamp <= message_log[i].timestamp
      BY <1>4, <2>1
    <2> QED BY <1>3, <2>1, <2>2
  <1>6. PICK j \in DOMAIN message_log :
            LET before == {i \in PlacesOf(message_log[j].entry.message.order) : i < j}
            IN  before # {} /\ message_log[j].timestamp <= message_log[Max(before)].timestamp
    BY <1>5 DEF OrderingReported, OrderIssues
  <1> DEFINE before == {i \in PlacesOf(message_log[j].entry.message.order) : i < j}
  <1>7. before \in SUBSET (1 .. n)
    BY <1>2 DEF PlacesOf
  <1>8. before # {} /\ message_log[j].timestamp <= message_log[Max(before)].timestamp
    BY <1>6
  <1>9. Max(before) \in before
    BY <1>2, <1>7, <1>8, Greatest
  <1>10. PICK i : i = Max(before)
    OBVIOUS
  <1>11. /\ i \in 1 .. n /\ i < j
         /\ message_log[i].entry.message.order = message_log[j].entry.message.order
    BY <1>2, <1>9, <1>10 DEF PlacesOf
  <1>12. message_log[i].timestamp = message_log[j].timestamp
    <2>1. message_log[i].timestamp <= message_log[j].timestamp
      BY <1>2, <1>4, <1>11
    <2>2. message_log[j].timestamp <= message_log[i].timestamp
      BY <1>8, <1>10
    <2> QED BY <1>2, <1>3, <1>11, <2>1, <2>2
  <1> QED BY <1>2, <1>11, <1>12

(* check_completeness (audit_checker.py:278-295) finds an ordering issue   *)
(* only where threads have met or a time is borne twice.                   *)
THEOREM NoFalseAlarm == LogSpec => []AlarmsHaveACause
  BY LogInvHolds, AlarmsInOrder, PTL

-------------------------------------------------------------------------------
(* The sort by time.  The n-th entry of a thread is the n-th it had to     *)
(* record: number says which one an entry of the log is.                   *)
Numbers(number) ==
    /\ number \in [DOMAIN message_log -> Nat \ {0}]
    /\ \A i \in DOMAIN message_log :
          message_log[i].entry = Records[message_log[i].by][number[i]]
    /\ \A t \in Recorders :
          /\ \A i \in DOMAIN message_log :
                message_log[i].by = t => number[i] \in 1 .. recorded[t]
          /\ \A n \in 1 .. recorded[t] :
                \E i \in DOMAIN message_log : message_log[i].by = t /\ number[i] = n
    /\ \A i, j \in DOMAIN message_log :
          i < j /\ message_log[i].by = message_log[j].by => number[i] < number[j]

NumberedInv ==
    /\ recorded \in [Recorders -> Nat]
    /\ \E number : Numbers(number)

LEMMA AppendEntryNumbers ==
    ASSUME LogInv, NumberedInv, NEW t \in Recorders, AppendEntry(t)
    PROVE  NumberedInv'
  <1> PICK n : n = Len(message_log)
    OBVIOUS
  <1> PICK log : log = message_log
    OBVIOUS
  <1> PICK new : new = [entry |-> Records[t][recorded[t] + 1], timestamp |-> stamp[t], by |-> t]
    OBVIOUS
  <1> PICK r : r = recorded[t]
    OBVIOUS
  <1> PICK number : Numbers(number)
    BY DEF NumberedInv
  <1>1. message_log' = Append(log, new) /\ recorded' = [recorded EXCEPT ![t] = @ + 1]
    BY DEF AppendEntry
  <1>2. new.entry = Records[t][r + 1] /\ new.by = t
    OBVIOUS
  <1>3. log \in Seq({log[i] : i \in DOMAIN log})
    BY DEF LogInv, LogTyped
  <1>4. /\ n \in Nat /\ DOMAIN log = 1 .. n
        /\ DOMAIN message_log' = 1 .. n + 1
        /\ \A i \in 1 .. n : message_log'[i] = log[i]
        /\ message_log'[n + 1] = new
    BY <1>1, <1>3
  <1>5. /\ recorded \in [Recorders -> Nat] /\ r \in Nat
        /\ recorded' \in [Recorders -> Nat] /\ recorded'[t] = r + 1
        /\ \A u \in Recorders \ {t} : recorded'[u] = recorded[u]
    BY <1>1 DEF NumberedInv
  <1>6. /\ number \in [1 .. n -> Nat \ {0}]
        /\ \A i \in 1 .. n : log[i].entry = Records[log[i].by][number[i]]
        /\ \A u \in Recorders :
              /\ \A i \in 1 .. n : log[i].by = u => number[i] \in 1 .. recorded[u]
              /\ \A k \in 1 .. recorded[u] : \E i \in 1 .. n : log[i].by = u /\ number[i] = k
        /\ \A i, j \in 1 .. n : i < j /\ log[i].by = log[j].by => number[i] < number[j]
    <2>1. DOMAIN message_log = 1 .. n /\ message_log = log
      BY <1>4
    <2>2. number \in [1 .. n -> Nat \ {0}]
      BY <2>1 DEF Numbers
    <2>3. \A i \in 1 .. n : log[i].entry = Records[log[i].by][number[i]]
      BY <2>1 DEF Numbers
    <2>4. \A u \in Recorders : \A i \in 1 .. n : log[i].by = u => number[i] \in 1 .. recorded[u]
      BY <2>1 DEF Numbers
    <2>5. \A u \in Recorders : \A k \in 1 .. recorded[u] :
              \E i \in 1 .. n : log[i].by = u /\ number[i] = k
      BY <2>1 DEF Numbers
    <2>6. \A i, j \in 1 .. n : i < j /\ log[i].by = log[j].by => number[i] < number[j]
      BY <2>1 DEF Numbers
    <2> QED BY <2>2, <2>3, <2>4, <2>5, <2>6
  <1> DEFINE next == [i \in 1 .. n + 1 |-> IF i = n + 1 THEN r + 1 ELSE number[i]]
  <1>7. /\ next \in [1 .. n + 1 -> Nat \ {0}] /\ next[n + 1] = r + 1
        /\ \A i \in 1 .. n : next[i] = number[i]
    BY <1>4, <1>5, <1>6
  <1>8. \A i \in 1 .. n + 1 : i \in 1 .. n \/ i = n + 1
    BY <1>4
  <1>9. n + 1 \in 1 .. n + 1 /\ \A i \in 1 .. n : i \in 1 .. n + 1
    BY <1>4
  <1> HIDE DEF next
  <1>10. ASSUME NEW i \in 1 .. n + 1
         PROVE  message_log'[i].entry = Records[message_log'[i].by][next[i]]
    <2>1. CASE i \in 1 .. n
      BY <1>4, <1>6, <1>7, <2>1
    <2>2. CASE i = n + 1
      BY <1>2, <1>4, <1>7, <2>2
    <2> QED BY <1>8, <2>1, <2>2
  <1>11. ASSUME NEW u \in Recorders, NEW i \in 1 .. n + 1, message_log'[i].by = u
         PROVE  next[i] \in 1 .. recorded'[u]
    <2>1. CASE i \in 1 .. n
      <3>1. number[i] \in 1 .. recorded[u]
        BY <1>4, <1>6, <1>11, <2>1
      <3>2. recorded[u] \in Nat /\ recorded'[u] \in Nat /\ recorded[u] <= recorded'[u]
        BY <1>5
      <3> QED BY <1>7, <2>1, <3>1, <3>2
    <2>2. CASE i = n + 1
      BY <1>2, <1>4, <1>5, <1>7, <1>11, <2>2
    <2> QED BY <1>8, <2>1, <2>2
  <1>12. ASSUME NEW u \in Recorders, NEW k \in 1 .. recorded'[u]
         PROVE  \E i \in 1 .. n + 1 : message_log'[i].by = u /\ next[i] = k
    <2>1. CASE k \in 1 .. recorded[u]
      <3>1. PICK i \in 1 .. n : log[i].by = u /\ number[i] = k
        BY <1>6, <2>1
      <3> QED BY <1>4, <1>7, <1>9, <3>1
    <2>2. CASE k \notin 1 .. recorded[u]
      <3>1. u = t /\ k = r + 1
        BY <1>5, <2>2
      <3> QED BY <1>2, <1>4, <1>7, <1>9, <3>1
    <2> QED BY <2>1, <2>2
  <1>13. ASSUME NEW i \in 1 .. n + 1, NEW j \in 1 .. n + 1, i < j,
                message_log'[i].by = message_log'[j].by
         PROVE  next[i] < next[j]
    <2>1. i \in 1 .. n
      BY <1>4, <1>13
    <2>2. CASE j \in 1 .. n
      BY <1>4, <1>6, <1>7, <1>13, <2>1, <2>2
    <2>3. CASE j = n + 1
      <3>1. log[i].by = t
        BY <1>2, <1>4, <1>13, <2>1, <2>3
      <3>2. number[i] \in 1 .. r
        BY <1>6, <2>1, <3>1
      <3> QED BY <1>5, <1>7, <2>1, <2>3, <3>2
    <2> QED BY <1>8, <2>2, <2>3
  <1>14. Numbers(next)'
    <2>1. next \in [DOMAIN message_log' -> Nat \ {0}]
      BY <1>4, <1>7
    <2>2. \A i \in DOMAIN message_log' :
              message_log'[i].entry = Records[message_log'[i].by][next[i]]
      BY <1>4, <1>10
    <2>3. \A u \in Recorders : \A i \in DOMAIN message_log' :
              message_log'[i].by = u => next[i] \in 1 .. recorded'[u]
      BY <1>4, <1>11
    <2>4. \A u \in Recorders : \A k \in 1 .. recorded'[u] :
              \E i \in DOMAIN message_log' : message_log'[i].by = u /\ next[i] = k
      BY <1>4, <1>12
    <2>5. \A i, j \in DOMAIN message_log' :
              i < j /\ message_log'[i].by = message_log'[j].by => next[i] < next[j]
      BY <1>4, <1>13
    <2> QED BY <2>1, <2>2, <2>3, <2>4, <2>5 DEF Numbers
  <1> QED BY <1>5, <1>14 DEF NumberedInv

LEMMA NumberedInvHolds == LogSpec => []NumberedInv
  <1>1. LogInit => NumberedInv
    <2> SUFFICES ASSUME LogInit PROVE NumberedInv
      OBVIOUS
    <2>1. message_log = <<>> /\ recorded = [t \in Recorders |-> 0]
      BY DEF LogInit
    <2>2. DOMAIN message_log = {}
      BY <2>1
    <2>3. recorded \in [Recorders -> Nat] /\ \A t \in Recorders : 1 .. recorded[t] = {}
      BY <2>1
    <2>4. Numbers([i \in {} |-> 1])
      BY <2>2, <2>3 DEF Numbers
    <2> QED BY <2>3, <2>4 DEF NumberedInv
  <1>2. LogInv /\ NumberedInv /\ [LogNext]_logVars => NumberedInv'
    <2> SUFFICES ASSUME LogInv, NumberedInv, [LogNext]_logVars PROVE NumberedInv'
      OBVIOUS
    <2>1. CASE UNCHANGED <<recorded, message_log>>
      BY <2>1 DEF NumberedInv, Numbers
    <2>2. CASE Tick
      BY <2>1, <2>2 DEF Tick
    <2>3. CASE \E t \in Recorders : ReadClock(t)
      BY <2>1, <2>3 DEF ReadClock
    <2>4. CASE UNCHANGED logVars
      BY <2>1, <2>4 DEF logVars
    <2> QED BY <2>2, <2>3, <2>4, AppendEntryNumbers DEF LogNext
  <1> QED BY <1>1, <1>2, LogInvHolds, PTL DEF LogSpec

(* How many of a set of places come before one of them.                    *)
Behind(places, n) == {m \in places : m < n}

LEMMA BehindCounted ==
    ASSUME NEW S \in SUBSET Nat, IsFiniteSet(S)
    PROVE  /\ \A n \in S : IsFiniteSet(Behind(S, n)) /\ Cardinality(Behind(S, n)) \in 0 .. Cardinality(S) - 1
           /\ \A m, n \in S : m < n => Cardinality(Behind(S, m)) < Cardinality(Behind(S, n))
  <1>1. ASSUME NEW n \in S
        PROVE  IsFiniteSet(Behind(S, n)) /\ Cardinality(Behind(S, n)) \in 0 .. Cardinality(S) - 1
    <2>1. Behind(S, n) \in SUBSET (S \ {n})
      BY DEF Behind
    <2>2. IsFiniteSet(S \ {n}) /\ Cardinality(S \ {n}) = Cardinality(S) - 1
      BY FS_RemoveElement
    <2>3. IsFiniteSet(Behind(S, n)) /\ Cardinality(Behind(S, n)) <= Cardinality(S \ {n})
      BY <2>1, <2>2, FS_Subset
    <2>4. Cardinality(Behind(S, n)) \in Nat /\ Cardinality(S) \in Nat
      BY <2>3, FS_CardinalityType
    <2> QED BY <2>2, <2>3, <2>4
  <1>2. ASSUME NEW m \in S, NEW n \in S, m < n
        PROVE  Cardinality(Behind(S, m)) < Cardinality(Behind(S, n))
    <2> PICK few, many : few = Behind(S, m) /\ many = Behind(S, n)
      OBVIOUS
    <2>1. few \in SUBSET many /\ m \in many /\ m \notin few
      <3>1. m \in Nat /\ n \in Nat /\ \A j \in S : j \in Nat
        OBVIOUS
      <3>2. \A j \in S : j < m => j < n
        BY <1>2, <3>1
      <3>3. ~(m < m)
        BY <3>1
      <3> QED BY <1>2, <3>2, <3>3 DEF Behind
    <2>2. IsFiniteSet(many) /\ IsFiniteSet(few)
      BY <1>1
    <2>3. Cardinality(few) <= Cardinality(many) /\ Cardinality(few) # Cardinality(many)
      BY <2>1, <2>2, FS_Subset
    <2>4. Cardinality(few) \in Nat /\ Cardinality(many) \in Nat
      BY <2>2, FS_CardinalityType
    <2> QED BY <2>3, <2>4
  <1> QED BY <1>1, <1>2

(* So that every place is taken, by one.                                   *)
LEMMA PlacesTaken ==
    ASSUME NEW S \in SUBSET Nat, IsFiniteSet(S), NEW k \in 1 .. Cardinality(S)
    PROVE  /\ \E n \in S : Cardinality(Behind(S, n)) = k - 1
           /\ \A m, n \in S : Cardinality(Behind(S, m)) = k - 1 /\ Cardinality(Behind(S, n)) = k - 1
                             => m = n
  <1> PICK c : c = Cardinality(S)
    OBVIOUS
  <1>1. c \in Nat
    BY FS_CardinalityType
  <1> DEFINE rank == [n \in S |-> Cardinality(Behind(S, n))]
  <1>2. ASSUME NEW m \in S, NEW n \in S, Cardinality(Behind(S, m)) = Cardinality(Behind(S, n))
        PROVE  m = n
    <2>1. m \in Nat /\ n \in Nat
      OBVIOUS
    <2>2. ~(m < n) /\ ~(n < m)
      <3>1. /\ m < n => Cardinality(Behind(S, m)) < Cardinality(Behind(S, n))
            /\ n < m => Cardinality(Behind(S, n)) < Cardinality(Behind(S, m))
        BY BehindCounted
      <3>2. Cardinality(Behind(S, m)) \in 0 .. c - 1
        BY BehindCounted
      <3> QED BY <1>1, <1>2, <3>1, <3>2
    <2> QED BY <2>1, <2>2
  <1>3. rank \in [S -> 0 .. c - 1]
    BY BehindCounted
  <1>4. rank \in Injection(S, 0 .. c - 1)
    <2>1. \A m, n \in S : rank[m] = rank[n] => m = n
      BY <1>2
    <2> HIDE DEF rank
    <2> QED BY <1>3, <2>1, Fun_IsInj
  <1>5. IsFiniteSet(0 .. c - 1) /\ Cardinality(0 .. c - 1) = c
    <2>1. 0 \in Int /\ c - 1 \in Int
      BY <1>1
    <2>2. /\ IsFiniteSet(0 .. c - 1)
          /\ Cardinality(0 .. c - 1) = IF 0 > c - 1 THEN 0 ELSE c - 1 - 0 + 1
      BY <2>1, FS_Interval
    <2>3. (IF 0 > c - 1 THEN 0 ELSE c - 1 - 0 + 1) = c
      BY <1>1
    <2> QED BY <2>2, <2>3
  <1>6. rank \in Surjection(S, 0 .. c - 1)
    <2> HIDE DEF rank
    <2> QED BY <1>4, <1>5, FS_Injection
  <1>7. k - 1 \in 0 .. c - 1
    BY <1>1
  <1>8. \E n \in S : rank[n] = k - 1
    <2> HIDE DEF rank
    <2> QED BY <1>6, <1>7 DEF Surjection
  <1> QED BY <1>2, <1>8

(* f takes the places of P to those of Q and keeps their order.            *)
Matches(f, P, Q) ==
    /\ P \in SUBSET Nat /\ Q \in SUBSET Nat /\ IsFiniteSet(Q)
    /\ f \in [P -> Q]
    /\ \A i, j \in P : i < j => f[i] < f[j]
    /\ \A n \in Q : \E i \in P : f[i] = n

LEMMA Matched ==
    ASSUME NEW P, NEW Q, NEW f, Matches(f, P, Q)
    PROVE  /\ IsFiniteSet(P) /\ Cardinality(P) = Cardinality(Q)
           /\ \A i \in P : Cardinality(Behind(P, i)) = Cardinality(Behind(Q, f[i]))
  <1> /\ P \in SUBSET Nat /\ Q \in SUBSET Nat /\ IsFiniteSet(Q)
      /\ f \in [P -> Q]
      /\ \A i, j \in P : i < j => f[i] < f[j]
      /\ \A n \in Q : \E i \in P : f[i] = n
    BY DEF Matches
  <1>1. \A i, j \in P : i \in Nat /\ j \in Nat /\ f[i] \in Nat /\ f[j] \in Nat /\ f[i] \in Q
    OBVIOUS
  <1>2. \A i, j \in P : f[i] = f[j] => i = j
    <2> SUFFICES ASSUME NEW i \in P, NEW j \in P, f[i] = f[j], i # j PROVE FALSE
      OBVIOUS
    <2>1. i < j \/ j < i
      BY <1>1
    <2>2. f[i] < f[j] \/ f[j] < f[i]
      BY <2>1
    <2> QED BY <1>1, <2>2
  <1>3. f \in Injection(P, Q)
    BY <1>2, Fun_IsInj
  <1>4. f \in Surjection(P, Q)
    BY DEF Surjection
  <1>5. IsFiniteSet(P) /\ Cardinality(P) = Cardinality(Q)
    BY <1>3, <1>4, FS_Injection
  <1>6. ASSUME NEW i \in P
        PROVE  Cardinality(Behind(P, i)) = Cardinality(Behind(Q, f[i]))
    <2> DEFINE g == [j \in Behind(P, i) |-> f[j]]
    <2>1. \A j \in P : j < i <=> f[j] < f[i]
      <3> SUFFICES ASSUME NEW j \in P PROVE j < i <=> f[j] < f[i]
        OBVIOUS
      <3>1. (j < i => f[j] < f[i]) /\ (i < j => f[i] < f[j])
        OBVIOUS
      <3>2. i \in Nat /\ j \in Nat /\ f[i] \in Nat /\ f[j] \in Nat
        BY <1>1
      <3>3. i = j => f[i] = f[j]
        OBVIOUS
      <3> QED BY <3>1, <3>2, <3>3
    <2>2. g \in [Behind(P, i) -> Behind(Q, f[i])]
      BY <1>1, <2>1 DEF Behind
    <2>3. \A a, b \in Behind(P, i) : g[a] = g[b] => a = b
      BY <1>2 DEF Behind
    <2>4. \A n \in Behind(Q, f[i]) : \E j \in Behind(P, i) : g[j] = n
      <3> SUFFICES ASSUME NEW n \in Q, n < f[i] PROVE \E j \in Behind(P, i) : g[j] = n
        BY DEF Behind
      <3>1. PICK j \in P : f[j] = n
        OBVIOUS
      <3>2. j \in Behind(P, i)
        BY <2>1, <3>1 DEF Behind
      <3> QED BY <3>1, <3>2
    <2>5. IsFiniteSet(Behind(Q, f[i]))
      BY <1>1, BehindCounted
    <2> HIDE DEF g
    <2>6. g \in Injection(Behind(P, i), Behind(Q, f[i]))
      BY <2>2, <2>3, Fun_IsInj
    <2>7. g \in Surjection(Behind(P, i), Behind(Q, f[i]))
      BY <2>2, <2>4 DEF Surjection
    <2> QED BY <2>5, <2>6, <2>7, FS_Injection
  <1> QED BY <1>5, <1>6

LEMMA OwnOrdersInOrder == LogInv /\ NumberedInv => OwnOrdersRebuilt
  <1> SUFFICES ASSUME LogInv, NumberedInv, NEW at_ \in DOMAIN message_log, NEW id, NEW t,
                      id = message_log[at_].entry.message.order, t = message_log[at_].by,
                      ServedBy(id) = {t}
               PROVE  EntriesByTime(id) = RecordedOf(t, id)
    BY DEF OwnOrdersRebuilt, ReconstructByTime
  <1> PICK n : n = Len(message_log)
    OBVIOUS
  <1> PICK log : log = message_log
    OBVIOUS
  <1> PICK number : Numbers(number)
    BY DEF NumberedInv
  <1> PICK P, Q : P = PlacesOf(id) /\ Q = RecordsOf(t, id)
    OBVIOUS
  <1>1. n \in Nat /\ DOMAIN log = 1 .. n
    <2>1. message_log \in Seq({message_log[i] : i \in DOMAIN message_log})
      BY DEF LogInv, LogTyped
    <2> QED BY <2>1
  <1>2. t \in Recorders /\ recorded[t] \in Nat
    BY DEF LogInv, LogTyped, NumberedInv
  <1>3. \A i \in P : i \in 1 .. n /\ log[i].by = t /\ log[i].entry.message.order = id
    BY <1>1 DEF PlacesOf, ServedBy
  <1>4. \A i \in 1 .. n : log[i].entry.message.order = id => i \in P
    BY <1>1 DEF PlacesOf
  <1>5. P \in SUBSET Nat /\ Q \in SUBSET Nat /\ IsFiniteSet(Q)
    <2>1. P \in SUBSET Nat
      BY <1>1, <1>3
    <2>2. Q \in SUBSET (1 .. recorded[t]) /\ Q \in SUBSET Nat
      BY <1>2 DEF RecordsOf
    <2>3. 1 \in Int /\ recorded[t] \in Int
      BY <1>2
    <2>4. IsFiniteSet(1 .. recorded[t])
      BY <2>3, FS_Interval
    <2> QED BY <2>1, <2>2, <2>4, FS_Subset
  <1>6. \A i, j \in P : Earlier(j, i) <=> j < i
    <2> SUFFICES ASSUME NEW i \in P, NEW j \in P PROVE Earlier(j, i) <=> j < i
      OBVIOUS
    <2> PICK a, b : a = log[i].timestamp /\ b = log[j].timestamp
      OBVIOUS
    <2>1. i \in 1 .. n /\ j \in 1 .. n /\ log[i].by = log[j].by
      BY <1>3
    <2>2. a \in Nat /\ b \in Nat
      BY <1>1, <2>1 DEF LogInv, LogTyped
    <2>3. (j < i => b <= a) /\ (i < j => a <= b)
      BY <1>1, <2>1 DEF LogInv, ThreadsInOrderOfTime
    <2>4. Earlier(j, i) <=> b < a \/ (b = a /\ j < i)
      BY DEF Earlier
    <2>5. i \in Nat /\ j \in Nat
      BY <1>1, <2>1
    <2> QED BY <2>2, <2>3, <2>4, <2>5
  <1> DEFINE f == [i \in P |-> number[i]]
  <1>7. \A i \in P : f[i] \in Q /\ log[i].entry = Records[t][f[i]]
    <2> SUFFICES ASSUME NEW i \in P PROVE number[i] \in Q /\ log[i].entry = Records[t][number[i]]
      OBVIOUS
    <2>1. number[i] \in 1 .. recorded[t] /\ log[i].entry = Records[t][number[i]]
      BY <1>1, <1>2, <1>3 DEF Numbers
    <2> QED BY <1>3, <2>1 DEF RecordsOf
  <1>8. \A i, j \in P : i < j => f[i] < f[j]
    BY <1>1, <1>3 DEF Numbers
  <1>9. \A m \in Q : \E i \in P : f[i] = m
    <2> SUFFICES ASSUME NEW m \in Q PROVE \E i \in P : number[i] = m
      OBVIOUS
    <2>1. m \in 1 .. recorded[t] /\ Records[t][m].message.order = id
      BY DEF RecordsOf
    <2>2. PICK i \in 1 .. n : log[i].by = t /\ number[i] = m
      BY <1>1, <1>2, <2>1 DEF Numbers
    <2>3. log[i].entry = Records[t][m]
      BY <1>1, <2>2 DEF Numbers
    <2> QED BY <1>4, <2>1, <2>2, <2>3
  <1>10. f \in [P -> Q]
    BY <1>7
  <1> HIDE DEF f
  <1>11. /\ IsFiniteSet(P) /\ Cardinality(P) = Cardinality(Q)
         /\ \A i \in P : Cardinality(Behind(P, i)) = Cardinality(Behind(Q, f[i]))
    <2>1. Matches(f, P, Q)
      BY <1>5, <1>8, <1>9, <1>10 DEF Matches
    <2> QED BY <2>1, Matched
  <1>12. \A i \in P : {j \in P : Earlier(j, i)} = Behind(P, i)
    BY <1>6 DEF Behind
  <1>13. ASSUME NEW k \in 1 .. Cardinality(P)
         PROVE  log[PlaceInTime(P, k)].entry = Records[t][PlaceInOrder(Q, k)]
    <2> PICK i, m : i = PlaceInTime(P, k) /\ m = PlaceInOrder(Q, k)
      OBVIOUS
    <2>1. i \in P /\ Cardinality(Behind(P, i)) = k - 1
      <3>1. \E j \in P : Cardinality(Behind(P, j)) = k - 1
        BY <1>5, <1>11, PlacesTaken
      <3>2. \E j \in P : Cardinality({h \in P : Earlier(h, j)}) = k - 1
        BY <1>12, <3>1
      <3>3. i \in P /\ Cardinality({h \in P : Earlier(h, i)}) = k - 1
        BY <3>2 DEF PlaceInTime
      <3> QED BY <1>12, <3>3
    <2>2. m \in Q /\ Cardinality(Behind(Q, m)) = k - 1
      <3>1. k \in 1 .. Cardinality(Q)
        BY <1>11
      <3>2. \E j \in Q : Cardinality(Behind(Q, j)) = k - 1
        BY <1>5, <3>1, PlacesTaken
      <3> QED BY <3>2 DEF PlaceInOrder, Behind
    <2>3. f[i] \in Q /\ Cardinality(Behind(Q, f[i])) = k - 1
      BY <1>7, <1>11, <2>1
    <2>4. f[i] = m
      BY <1>5, <1>11, <2>2, <2>3, PlacesTaken
    <2> QED BY <1>7, <2>1, <2>4
  <1>14. EntriesByTime(id) = [k \in 1 .. Cardinality(P) |-> log[PlaceInTime(P, k)].entry]
    BY DEF EntriesByTime
  <1>15. RecordedOf(t, id) = [k \in 1 .. Cardinality(P) |-> Records[t][PlaceInOrder(Q, k)]]
    BY <1>11 DEF RecordedOf
  <1> QED BY <1>13, <1>14, <1>15

(* _reconstruct (audit_checker.py:162-198) sorts the records of an order   *)
(* by time; of an order one thread serves it reads what that thread has    *)
(* recorded, in the order in which it did.                                 *)
THEOREM SortingDisturbsNothing == LogSpec => []OwnOrdersRebuilt
  BY LogInvHolds, NumberedInvHolds, OwnOrdersInOrder, PTL

-------------------------------------------------------------------------------
(* RapidCancels                                                            *)

Event == [action : {"place", "fill", "cancel"}, key : Keys, time : Nat]

(* Nothing has happened to the order of event p since.                     *)
Untouched(p) ==
    \A i \in p + 1 .. Len(timeline) : timeline[i].key # timeline[p].key

(* What is remembered as unfilled is what is placed and untouched.         *)
RemembersTheUntouched ==
    /\ \A key \in DOMAIN active_orders :
          ~active_orders[key].had_fill =>
              LET p == active_orders[key].placement
              IN  /\ p \in DOMAIN timeline
                  /\ timeline[p].action = "place"
                  /\ timeline[p].key = key
                  /\ Untouched(p)
    /\ \A p \in DOMAIN timeline :
          timeline[p].action = "place" /\ Untouched(p) =>
              /\ timeline[p].key \in DOMAIN active_orders
              /\ active_orders[timeline[p].key] = [placement |-> p, had_fill |-> FALSE]

SpoofInv == SpoofTypeOK /\ RemembersTheUntouched /\ SpoofsAreTheRapidUnfilled

(* The events read stay as they are, and one is added to them.             *)
ReadsOn(action, key, time, here) ==
    /\ timeline' \in Seq(Event)
    /\ here \in Nat \ {0}
    /\ Len(timeline') = here
    /\ DOMAIN timeline = 1 .. here - 1
    /\ DOMAIN timeline' = 1 .. here
    /\ timeline'[here] = [action |-> action, key |-> key, time |-> time]
    /\ \A i \in DOMAIN timeline : timeline'[i] = timeline[i]
    /\ \A p \in DOMAIN timeline : Untouched(p)' <=> Untouched(p) /\ timeline[p].key # key
    /\ Untouched(here)'
    /\ \A p \in DOMAIN timeline' : ~IsSpoof(here, p)'
    /\ \A p, c \in DOMAIN timeline : IsSpoof(p, c)' <=> IsSpoof(p, c)
    /\ \A p \in DOMAIN timeline :
          IsSpoof(p, here)' <=>
              /\ action = "cancel"
              /\ timeline[p].action = "place"
              /\ timeline[p].key = key
              /\ Untouched(p)
              /\ Rapid(timeline[p].time, time)

LEMMA OneMoreEvent ==
    ASSUME SpoofInv, NEW action \in {"place", "fill", "cancel"}, NEW key \in Keys,
           NEW time \in Nat, Happens(action, key, time), NEW here, here = Here
    PROVE  ReadsOn(action, key, time, here)
  <1> DEFINE event == [action |-> action, key |-> key, time |-> time]
  <1>1. timeline \in Seq(Event) /\ event \in Event
    BY DEF SpoofInv, SpoofTypeOK, Event
  <1>2. timeline' = Append(timeline, event)
    BY DEF Happens
  <1> HIDE DEF event
  <1>3. /\ timeline' \in Seq(Event)
        /\ Len(timeline) \in Nat
        /\ Len(timeline') = Len(timeline) + 1
        /\ DOMAIN timeline = 1 .. Len(timeline)
        /\ DOMAIN timeline' = 1 .. Len(timeline) + 1
        /\ timeline'[Len(timeline) + 1] = event
        /\ \A i \in DOMAIN timeline : timeline'[i] = timeline[i]
    BY <1>1, <1>2
  <1>4. event.key = key
    BY DEF event
  <1>5. ASSUME NEW p \in DOMAIN timeline
        PROVE  Untouched(p)' <=> Untouched(p) /\ timeline[p].key # key
    BY <1>3, <1>4 DEF Untouched
  <1>6. ASSUME NEW p \in DOMAIN timeline, NEW c \in DOMAIN timeline
        PROVE  IsSpoof(p, c)' <=> IsSpoof(p, c)
    BY <1>3, <1>6 DEF IsSpoof, Rapid
  <1>7. Untouched(here)'
    BY <1>3 DEF Untouched, Here
  <1>8. \A p \in DOMAIN timeline' : ~IsSpoof(here, p)'
    BY <1>3 DEF IsSpoof, Here
  <1>9. ASSUME NEW p \in DOMAIN timeline
        PROVE  IsSpoof(p, here)' <=>
                  /\ action = "cancel"
                  /\ timeline[p].action = "place"
                  /\ timeline[p].key = key
                  /\ Untouched(p)
                  /\ Rapid(timeline[p].time, time)
    BY <1>3 DEF IsSpoof, Untouched, Rapid, Here, event
  <1> QED
    BY <1>3, <1>5, <1>6, <1>7, <1>8, <1>9 DEF Here, event, ReadsOn

(* Only a cancel completes a match.                                        *)
LEMMA NoMatchOfOthers ==
    ASSUME SpoofInv, NEW action \in {"place", "fill"}, NEW key \in Keys, NEW time \in Nat,
           Happens(action, key, time), UNCHANGED spoofs
    PROVE  SpoofsAreTheRapidUnfilled'
  <1> PICK here : here = Here
    OBVIOUS
  <1>0. ReadsOn(action, key, time, here)
    BY OneMoreEvent
  <1>1. ASSUME NEW p \in DOMAIN timeline' PROVE ~IsSpoof(p, here)'
    BY <1>0 DEF ReadsOn, IsSpoof
  <1>2. \A p, c \in DOMAIN timeline' :
            IsSpoof(p, c)' <=> p \in DOMAIN timeline /\ c \in DOMAIN timeline /\ IsSpoof(p, c)
    BY <1>1, <1>0 DEF ReadsOn
  <1>3. spoofs = {pc \in (DOMAIN timeline) \X (DOMAIN timeline) : IsSpoof(pc[1], pc[2])}
    BY DEF SpoofInv, SpoofsAreTheRapidUnfilled
  <1>4. DOMAIN timeline \subseteq DOMAIN timeline'
    BY <1>0 DEF ReadsOn
  <1>5. spoofs = {pc \in (DOMAIN timeline') \X (DOMAIN timeline') : IsSpoof(pc[1], pc[2])'}
    BY <1>2, <1>3, <1>4
  <1> QED BY <1>5 DEF SpoofsAreTheRapidUnfilled

LEMMA PlaceKeeps ==
    ASSUME SpoofInv, NEW key \in Keys, NEW time \in Nat, SeePlace(key, time)
    PROVE  SpoofInv'
  <1> PICK here : here = Here
    OBVIOUS
  <1>0. ReadsOn("place", key, time, here)
    BY OneMoreEvent DEF SeePlace
  <1> DEFINE order == [placement |-> here, had_fill |-> FALSE]
  <1>1. Happens("place", key, time) /\ active_orders' = With(active_orders, key, order)
    BY DEF SeePlace
  <1>2. /\ order = [placement |-> here, had_fill |-> FALSE]
        /\ DOMAIN active_orders' = DOMAIN active_orders \cup {key}
        /\ active_orders'[key] = order
        /\ order.placement = here /\ order.had_fill = FALSE
        /\ \A k \in DOMAIN active_orders \ {key} : active_orders'[k] = active_orders[k]
        /\ active_orders' \in [DOMAIN active_orders' -> Remembered]
    BY <1>1, <1>0 DEF ReadsOn, With, SpoofInv, SpoofTypeOK, Remembered
  <1> HIDE DEF order
  <1>3. SpoofTypeOK'
    BY <1>1, <1>2, <1>0 DEF ReadsOn, SpoofInv, SpoofTypeOK, SeePlace, Event
  <1>4. RemembersTheUntouched'
    <2>1. ASSUME NEW k \in DOMAIN active_orders', ~active_orders'[k].had_fill,
                 NEW p, p = active_orders'[k].placement
          PROVE  /\ p \in DOMAIN timeline' /\ timeline'[p].action = "place"
                 /\ timeline'[p].key = k /\ Untouched(p)'
      <3>1. CASE k = key
        BY <1>2, <2>1, <3>1, <1>0 DEF ReadsOn
      <3>2. CASE k # key
        BY <1>2, <2>1, <3>2, <1>0 DEF ReadsOn, SpoofInv, RemembersTheUntouched
      <3> QED BY <3>1, <3>2
    <2>2. ASSUME NEW p \in DOMAIN timeline', timeline'[p].action = "place", Untouched(p)'
          PROVE  /\ timeline'[p].key \in DOMAIN active_orders'
                 /\ active_orders'[timeline'[p].key] = [placement |-> p, had_fill |-> FALSE]
      <3>1. CASE p = here
        BY <1>2, <3>1, <1>0 DEF ReadsOn
      <3>2. CASE p # here
        BY <1>2, <2>2, <3>2, <1>0 DEF ReadsOn, SpoofInv, RemembersTheUntouched
      <3> QED BY <3>1, <3>2
    <2> QED BY <2>1, <2>2 DEF RemembersTheUntouched
  <1>5. SpoofsAreTheRapidUnfilled'
    BY <1>1, NoMatchOfOthers DEF SeePlace
  <1> QED BY <1>3, <1>4, <1>5 DEF SpoofInv

LEMMA FillKeeps ==
    ASSUME SpoofInv, NEW key \in Keys, NEW time \in Nat, SeeFill(key, time)
    PROVE  SpoofInv'
  <1> PICK here : here = Here
    OBVIOUS
  <1>0. ReadsOn("fill", key, time, here)
    BY OneMoreEvent DEF SeeFill
  <1>1. Happens("fill", key, time)
    BY DEF SeeFill
  <1>2. /\ DOMAIN active_orders' = DOMAIN active_orders
        /\ key \in DOMAIN active_orders => active_orders'[key].had_fill
        /\ \A k \in DOMAIN active_orders \ {key} : active_orders'[k] = active_orders[k]
        /\ active_orders' \in [DOMAIN active_orders' -> Remembered]
    BY DEF SeeFill, Active, SpoofInv, SpoofTypeOK, Remembered
  <1>3. SpoofTypeOK'
    BY <1>1, <1>2, <1>0 DEF ReadsOn, SpoofInv, SpoofTypeOK, SeeFill, Event
  <1>4. RemembersTheUntouched'
    BY <1>1, <1>2, <1>0 DEF ReadsOn, SpoofInv, RemembersTheUntouched
  <1>5. SpoofsAreTheRapidUnfilled'
    BY <1>1, NoMatchOfOthers DEF SeeFill
  <1> QED BY <1>3, <1>4, <1>5 DEF SpoofInv

LEMMA StrayCancelKeeps ==
    ASSUME SpoofInv, NEW key \in Keys, NEW time \in Nat, SeeStrayCancel(key, time)
    PROVE  SpoofInv'
  <1> PICK here : here = Here
    OBVIOUS
  <1>0. ReadsOn("cancel", key, time, here)
    BY OneMoreEvent DEF SeeStrayCancel
  <1>1. Happens("cancel", key, time) /\ key \notin DOMAIN active_orders
    BY DEF SeeStrayCancel, Active
  <1>2. UNCHANGED <<active_orders, spoofs>>
    BY DEF SeeStrayCancel
  <1>3. SpoofTypeOK'
    BY <1>1, <1>2, <1>0 DEF ReadsOn, SpoofInv, SpoofTypeOK, Event
  <1>4. RemembersTheUntouched'
    BY <1>1, <1>2, <1>0 DEF ReadsOn, SpoofInv, RemembersTheUntouched
  <1>5. ASSUME NEW p \in DOMAIN timeline' PROVE ~IsSpoof(p, here)'
    <2>1. CASE p \in DOMAIN timeline
      <3>1. ~(timeline[p].action = "place" /\ timeline[p].key = key /\ Untouched(p))
        BY <1>1, <2>1 DEF SpoofInv, RemembersTheUntouched
      <3> QED BY <2>1, <3>1, <1>0 DEF ReadsOn
    <2> QED BY <1>1, <2>1, <1>0 DEF ReadsOn
  <1>6. \A p, c \in DOMAIN timeline' :
            IsSpoof(p, c)' <=> p \in DOMAIN timeline /\ c \in DOMAIN timeline /\ IsSpoof(p, c)
    BY <1>1, <1>5, <1>0 DEF ReadsOn
  <1>7. spoofs' = {pc \in (DOMAIN timeline') \X (DOMAIN timeline') : IsSpoof(pc[1], pc[2])'}
    BY <1>1, <1>2, <1>6, <1>0 DEF ReadsOn, SpoofInv, SpoofsAreTheRapidUnfilled
  <1> QED BY <1>3, <1>4, <1>7 DEF SpoofInv, SpoofsAreTheRapidUnfilled

LEMMA CancelKeeps ==
    ASSUME SpoofInv, NEW key \in Keys, NEW time \in Nat, SeeCancel(key, time)
    PROVE  SpoofInv'
  <1> PICK here : here = Here
    OBVIOUS
  <1>0. ReadsOn("cancel", key, time, here)
    BY OneMoreEvent DEF SeeCancel
  <1> DEFINE order == active_orders[key]
             place == order.placement
             matches == ~order.had_fill /\ Rapid(timeline[place].time, time)
  <1>1. Happens("cancel", key, time) /\ key \in DOMAIN active_orders
    BY DEF SeeCancel, Active
  <1>2. /\ DOMAIN active_orders' = DOMAIN active_orders \ {key}
        /\ \A k \in DOMAIN active_orders' : active_orders'[k] = active_orders[k]
        /\ active_orders' \in [DOMAIN active_orders' -> Remembered]
    BY DEF SeeCancel, Without, SpoofInv, SpoofTypeOK
  <1>3. spoofs' = IF matches THEN spoofs \cup {<<place, here>>} ELSE spoofs
    BY DEF SeeCancel
  <1>4. order \in Remembered
    BY <1>1 DEF SpoofInv, SpoofTypeOK
  <1>5. SpoofTypeOK'
    BY <1>1, <1>2, <1>3, <1>4, <1>0 DEF ReadsOn, SpoofInv, SpoofTypeOK, Event, Remembered
  <1>6. RemembersTheUntouched'
    <2>1. ASSUME NEW k \in DOMAIN active_orders', ~active_orders'[k].had_fill,
                 NEW p, p = active_orders'[k].placement
          PROVE  /\ p \in DOMAIN timeline' /\ timeline'[p].action = "place"
                 /\ timeline'[p].key = k /\ Untouched(p)'
      BY <1>1, <1>2, <2>1, <1>0 DEF ReadsOn, SpoofInv, RemembersTheUntouched
    <2>2. ASSUME NEW p \in DOMAIN timeline', timeline'[p].action = "place", Untouched(p)'
          PROVE  /\ timeline'[p].key \in DOMAIN active_orders'
                 /\ active_orders'[timeline'[p].key] = [placement |-> p, had_fill |-> FALSE]
      BY <1>1, <1>2, <2>2, <1>0 DEF ReadsOn, SpoofInv, RemembersTheUntouched
    <2> QED BY <2>1, <2>2 DEF RemembersTheUntouched
  <1>7. ASSUME NEW p \in DOMAIN timeline
        PROVE  IsSpoof(p, here)' <=> matches /\ p = place
    <2>1. IsSpoof(p, here)' <=>
              /\ timeline[p].action = "place"
              /\ timeline[p].key = key
              /\ Untouched(p)
              /\ Rapid(timeline[p].time, time)
      BY <1>0 DEF ReadsOn
    <2>2. timeline[p].action = "place" /\ timeline[p].key = key /\ Untouched(p) <=>
              ~order.had_fill /\ p = place
      <3>1. timeline[p].action = "place" /\ timeline[p].key = key /\ Untouched(p) =>
                order = [placement |-> p, had_fill |-> FALSE]
        BY DEF SpoofInv, RemembersTheUntouched
      <3>2. ~order.had_fill =>
                /\ timeline[place].action = "place"
                /\ timeline[place].key = key
                /\ Untouched(place)
        BY <1>1 DEF SpoofInv, RemembersTheUntouched
      <3>3. p = place => (Untouched(p) <=> Untouched(place))
        OBVIOUS
      <3> QED BY <3>1, <3>2, <3>3
    <2> QED BY <2>1, <2>2
  <1>8. matches => place \in DOMAIN timeline
    BY <1>1 DEF SpoofInv, RemembersTheUntouched
  <1> HIDE DEF matches, place
  <1>9. ~IsSpoof(here, here)'
    BY <1>1, <1>0 DEF ReadsOn
  <1>10. \A p, c \in DOMAIN timeline' :
            IsSpoof(p, c)' <=>
                \/ p \in DOMAIN timeline /\ c \in DOMAIN timeline /\ IsSpoof(p, c)
                \/ matches /\ p = place /\ c = here
    BY <1>1, <1>7, <1>8, <1>9, <1>0 DEF ReadsOn
  <1>11. spoofs' = {pc \in (DOMAIN timeline') \X (DOMAIN timeline') : IsSpoof(pc[1], pc[2])'}
    <2>1. spoofs = {pc \in (DOMAIN timeline) \X (DOMAIN timeline) : IsSpoof(pc[1], pc[2])}
      BY DEF SpoofInv, SpoofsAreTheRapidUnfilled
    <2>2. DOMAIN timeline' = DOMAIN timeline \cup {here} /\ here \notin DOMAIN timeline
      BY <1>1, <1>0 DEF ReadsOn
    <2> QED BY <1>3, <1>8, <1>10, <2>1, <2>2
  <1> QED BY <1>5, <1>6, <1>11 DEF SpoofInv, SpoofsAreTheRapidUnfilled

LEMMA SpoofInvHolds == SpoofSpec => []SpoofInv
  <1>1. SpoofInit => SpoofInv
    <2> SUFFICES ASSUME SpoofInit PROVE SpoofInv
      OBVIOUS
    <2>1. timeline = <<>> /\ spoofs = {} /\ DOMAIN active_orders = {}
      BY DEF SpoofInit
    <2>2. active_orders \in [DOMAIN active_orders -> Remembered]
      BY DEF SpoofInit
    <2> QED
      BY <2>1, <2>2 DEF SpoofInv, SpoofTypeOK, RemembersTheUntouched,
                        SpoofsAreTheRapidUnfilled
  <1>2. SpoofInv /\ [SpoofNext]_spoofVars => SpoofInv'
    <2> SUFFICES ASSUME SpoofInv, [SpoofNext]_spoofVars PROVE SpoofInv'
      OBVIOUS
    <2>1. CASE SpoofNext
      <3> PICK key \in Keys, time \in 0 .. TimelineMs :
              \/ SeePlace(key, time)
              \/ SeeFill(key, time)
              \/ SeeCancel(key, time)
              \/ SeeStrayCancel(key, time)
        BY <2>1 DEF SpoofNext
      <3>1. time \in Nat
        BY TimelineAssumption
      <3> QED BY <3>1, PlaceKeeps, FillKeeps, CancelKeeps, StrayCancelKeeps
    <2>2. CASE UNCHANGED spoofVars
      BY <2>2 DEF spoofVars, SpoofInv, SpoofTypeOK, RemembersTheUntouched, Untouched,
                  SpoofsAreTheRapidUnfilled, IsSpoof
    <2> QED BY <2>1, <2>2
  <1> QED BY <1>1, <1>2, PTL DEF SpoofSpec

(* detect_quote_stuffing_or_spoofing (pattern_detector.py:171-219) gives   *)
(* the matches its docstring describes, each of them and no other.         *)
THEOREM SpoofsAreFound == SpoofSpec => []SpoofsAreTheRapidUnfilled
  BY SpoofInvHolds, PTL DEF SpoofInv

-------------------------------------------------------------------------------
(* CancelRatio                                                             *)

(* The window is what is at most window_ms older than the latest event;    *)
(* while judging, its left end may still lag behind.                       *)
WindowKept ==
    /\ group = <<>> => left = 1 /\ ~judging
    /\ group # <<>> => left <= Len(group)
    /\ \A i, j \in DOMAIN group : i <= j => group[i].time <= group[j].time
    /\ \A i \in 1 .. left - 1 : ~(group[Len(group)].time - group[i].time <= WindowMs)
    /\ ~judging /\ group # <<>> => group[Len(group)].time - group[left].time <= WindowMs

CountKept == cancel_count = CancelsIn(left .. Len(group))

RatioInv == RatioTypeOK /\ WindowKept /\ CountKept /\ AlertsAreTheSuspicious

(* Cancels are counted one at a time, among the events of any group g.     *)
LEMMA OneMoreCanceling ==
    ASSUME NEW g, NEW events, IsFiniteSet(events), NEW i, i \notin events
    PROVE  LET cancels(set) == {j \in set : g[j].action = "cancel"} IN
           /\ Cardinality(cancels(events)) \in Nat
           /\ Cardinality(cancels(events \cup {i})) =
                  Cardinality(cancels(events)) + (IF g[i].action = "cancel" THEN 1 ELSE 0)
  <1> DEFINE cancels(set) == {j \in set : g[j].action = "cancel"}
  <1>1. IsFiniteSet(cancels(events))
    BY FS_Subset
  <1>2. cancels(events \cup {i}) =
            IF g[i].action = "cancel" THEN cancels(events) \cup {i} ELSE cancels(events)
    OBVIOUS
  <1>3. i \notin cancels(events)
    OBVIOUS
  <1> HIDE DEF cancels
  <1>4. Cardinality(cancels(events)) \in Nat
    BY <1>1, FS_CardinalityType
  <1>5. Cardinality(cancels(events) \cup {i}) = Cardinality(cancels(events)) + 1
    BY <1>1, <1>3, FS_AddElement
  <1>6. Cardinality(cancels(events \cup {i})) =
            Cardinality(cancels(events)) + (IF g[i].action = "cancel" THEN 1 ELSE 0)
    BY <1>2, <1>4, <1>5
  <1> QED BY <1>4, <1>6 DEF cancels

LEMMA EventsHaveTimes ==
    ASSUME RatioTypeOK
    PROVE  /\ Len(group) \in Nat
           /\ DOMAIN group = 1 .. Len(group)
           /\ group = <<>> <=> Len(group) = 0
           /\ \A i \in 1 .. Len(group) : group[i].time \in Nat
  <1> DEFINE Events == [action : Action, time : Nat]
  <1>1. group \in Seq(Events)
    BY DEF RatioTypeOK
  <1>2. \A event \in Events : event.time \in Nat
    OBVIOUS
  <1> HIDE DEF Events
  <1> QED BY <1>1, <1>2

LEMMA WindowIsAnInterval ==
    ASSUME RatioInv, judging, ~Outgrown
    PROVE  /\ Window(Len(group)) = left .. Len(group)
           /\ Cardinality(left .. Len(group)) = Len(group) - left + 1
           /\ group # <<>>
  <1>1. group # <<>> /\ left \in 1 .. Len(group) /\ Len(group) \in Nat
    BY EventsHaveTimes DEF RatioInv, RatioTypeOK, WindowKept
  <1>2. \A i \in 1 .. Len(group) : group[i].time \in Nat
    BY EventsHaveTimes DEF RatioInv
  <1>3. \A i \in left .. Len(group) : group[left].time <= group[i].time
    BY <1>1 DEF RatioInv, RatioTypeOK, WindowKept
  <1>4. ~(group[Len(group)].time - group[left].time > WindowMs)
    BY DEF Outgrown
  <1>5. \A i \in left .. Len(group) : group[Len(group)].time - group[i].time <= WindowMs
    BY <1>1, <1>2, <1>3, <1>4, WindowAssumption
  <1>6. \A i \in 1 .. left - 1 : ~(group[Len(group)].time - group[i].time <= WindowMs)
    BY DEF RatioInv, WindowKept
  <1>7. Window(Len(group)) = left .. Len(group)
    BY <1>1, <1>5, <1>6 DEF Window
  <1> QED BY <1>1, <1>7, FS_Interval

(* What has been judged stays as it is when an event is read.              *)
LEMMA ReadEventKeeps ==
    ASSUME RatioInv, NEW action \in Action, NEW time \in Nat, ReadEvent(action, time)
    PROVE  RatioInv'
  <1> DEFINE event == [action |-> action, time |-> time]
  <1>1. /\ group' = Append(group, event)
        /\ cancel_count' = cancel_count + (IF action = "cancel" THEN 1 ELSE 0)
        /\ ~judging /\ judging' /\ judging' \in BOOLEAN
        /\ left' = left /\ alerts' = alerts
        /\ time >= LatestTime
    BY DEF ReadEvent
  <1>2. /\ group \in Seq([action : Action, time : Nat])
        /\ event \in [action : Action, time : Nat]
        /\ left \in Nat \ {0}
    BY DEF RatioInv, RatioTypeOK
  <1>3. event.action = action /\ event.time = time
    OBVIOUS
  <1> HIDE DEF event
  <1> PICK n : n = Len(group)
    OBVIOUS
  <1>4. /\ n \in Nat
        /\ group' \in Seq([action : Action, time : Nat])
        /\ group' # <<>>
        /\ DOMAIN group = 1 .. n
        /\ Len(group') = n + 1
        /\ DOMAIN group' = 1 .. n + 1
        /\ group'[n + 1] = event
        /\ \A i \in 1 .. n : group'[i] = group[i]
        /\ group = <<>> <=> n = 0
        /\ \A i \in 1 .. n : group[i].time \in Nat
    <2>1. /\ n \in Nat
          /\ DOMAIN group = 1 .. n
          /\ group = <<>> <=> n = 0
          /\ \A i \in 1 .. n : group[i].time \in Nat
      BY EventsHaveTimes DEF RatioInv
    <2> QED BY <1>1, <1>2, <2>1
  <1>5. left \in 1 .. n + 1 /\ (n # 0 => left <= n)
    BY <1>2, <1>4 DEF RatioInv, WindowKept
  <1>6. RatioTypeOK'
    <2>1. cancel_count' \in Int
      BY <1>1 DEF RatioInv, RatioTypeOK
    <2>2. \A alert \in alerts' : alert.right \in DOMAIN group'
      BY <1>1, <1>4 DEF RatioInv, RatioTypeOK
    <2> QED BY <1>1, <1>2, <1>4, <2>1, <2>2 DEF RatioTypeOK
  <1>7. \A i \in 1 .. n : group[i].time <= time
    <2>1. n # 0 => time >= group[n].time
      BY <1>1, <1>4 DEF LatestTime
    <2>2. \A i \in 1 .. n : group[i].time <= group[n].time
      BY <1>4 DEF RatioInv, WindowKept
    <2> QED BY <1>4, <2>1, <2>2
  <1>8. WindowKept'
    <2>1. \A i, j \in 1 .. n + 1 : i <= j => group'[i].time <= group'[j].time
      <3> SUFFICES ASSUME NEW i \in 1 .. n + 1, NEW j \in 1 .. n + 1, i <= j
                   PROVE  group'[i].time <= group'[j].time
        OBVIOUS
      <3>1. CASE j = n + 1
        <4>1. group'[j].time = time /\ time <= time
          BY <1>3, <1>4, <3>1
        <4>2. i # n + 1 => group'[i].time = group[i].time /\ i \in 1 .. n
          BY <1>4
        <4>3. i = n + 1 => group'[i].time = time
          BY <3>1, <4>1
        <4>4. i # n + 1 => group'[i].time <= time
          BY <1>7, <4>2
        <4> QED BY <4>1, <4>3, <4>4
      <3>2. CASE j # n + 1
        <4>1. i \in 1 .. n /\ j \in 1 .. n
          BY <1>4, <3>2
        <4>2. group[i].time <= group[j].time
          BY <1>4, <4>1 DEF RatioInv, WindowKept
        <4>3. group'[i] = group[i] /\ group'[j] = group[j]
          BY <1>4, <4>1
        <4> QED BY <4>2, <4>3
      <3> QED BY <3>1, <3>2
    <2>2. \A i \in 1 .. left - 1 : ~(group'[n + 1].time - group'[i].time <= WindowMs)
      <3> SUFFICES ASSUME NEW i \in 1 .. left - 1
                   PROVE  ~(group'[n + 1].time - group'[i].time <= WindowMs)
        OBVIOUS
      <3>1. ~(group[n].time - group[i].time <= WindowMs)
        BY DEF RatioInv, WindowKept
      <3>2. i \in 1 .. n /\ n \in 1 .. n
        BY <1>2, <1>4, <1>5
      <3>3. group[n].time <= time /\ group'[i].time = group[i].time /\ group'[n + 1].time = time
        BY <1>3, <1>4, <1>7, <3>2
      <3> QED BY <1>4, <3>1, <3>2, <3>3, WindowAssumption
    <2> QED BY <1>1, <1>4, <1>5, <2>1, <2>2 DEF WindowKept
  <1>9. CountKept'
    <2>1. left .. n + 1 = (left .. n) \cup {n + 1} /\ n + 1 \notin left .. n
      BY <1>4, <1>5
    <2>2. IsFiniteSet(left .. n)
      BY <1>4, <1>5, FS_Interval
    <2>3. CancelsIn(left .. n) = cancel_count
      BY DEF RatioInv, CountKept
    <2>4. Canceling(n + 1)' <=> action = "cancel"
      BY <1>3, <1>4 DEF Canceling
    <2>5. CancelsIn(left .. n)' = CancelsIn(left .. n)
      <3>1. \A i \in left .. n : Canceling(i)' <=> Canceling(i)
        BY <1>4, <1>5 DEF Canceling
      <3>2. {i \in left .. n : Canceling(i)'} = {i \in left .. n : Canceling(i)}
        BY <3>1
      <3> QED BY <1>1, <3>2 DEF CancelsIn
    <2>6. CancelsIn((left .. n) \cup {n + 1})' =
              CancelsIn(left .. n)' + (IF Canceling(n + 1)' THEN 1 ELSE 0)
      <3>1. Cardinality({j \in (left .. n) \cup {n + 1} : group'[j].action = "cancel"}) =
                Cardinality({j \in left .. n : group'[j].action = "cancel"})
                + (IF group'[n + 1].action = "cancel" THEN 1 ELSE 0)
        BY <2>1, <2>2, OneMoreCanceling
      <3> QED BY <1>1, <3>1 DEF CancelsIn, Canceling
    <2> QED BY <1>1, <1>4, <2>1, <2>3, <2>4, <2>5, <2>6 DEF CountKept
  <1>10. AlertsAreTheSuspicious'
    <2>1. ASSUME NEW right \in 1 .. n
          PROVE  /\ Window(right)' = Window(right)
                 /\ CancelsIn(Window(right))' = CancelsIn(Window(right))
                 /\ Suspicious(right)' <=> Suspicious(right)
      <3>1. Window(right)' = Window(right) /\ Window(right) \subseteq 1 .. n
        BY <1>4 DEF Window
      <3>2. {i \in Window(right) : Canceling(i)'} = {i \in Window(right) : Canceling(i)}
        BY <1>4, <3>1 DEF Canceling
      <3>3. CancelsIn(Window(right))' = CancelsIn(Window(right))
        BY <3>1, <3>2 DEF CancelsIn
      <3> QED BY <3>1, <3>3 DEF Suspicious
    <2>2. Judged' = 1 .. n /\ Judged = 1 .. n
      BY <1>1, <1>4 DEF Judged
    <2>3. \A alert \in alerts : alert.right \in 1 .. n
      BY <1>4 DEF RatioInv, RatioTypeOK
    <2>4. {right \in Judged' : Suspicious(right)'} = {right \in Judged : Suspicious(right)}
      BY <2>1, <2>2
    <2>5. \A alert \in alerts' :
              /\ Window(alert.right)' = alert.start .. alert.right
              /\ alert.cancels = CancelsIn(Window(alert.right))'
              /\ alert.total = Cardinality(Window(alert.right))'
      BY <1>1, <2>1, <2>3 DEF RatioInv, AlertsAreTheSuspicious
    <2>6. {alert.right : alert \in alerts'} = {right \in Judged' : Suspicious(right)'}
      BY <1>1, <2>4 DEF RatioInv, AlertsAreTheSuspicious
    <2> QED BY <2>5, <2>6 DEF AlertsAreTheSuspicious
  <1> QED BY <1>6, <1>8, <1>9, <1>10 DEF RatioInv

LEMMA SlideKeeps ==
    ASSUME RatioInv, Slide
    PROVE  RatioInv'
  <1>1. /\ group' = group /\ alerts' = alerts /\ judging' = judging /\ judging
        /\ left' = left + 1
        /\ cancel_count' = cancel_count - (IF Canceling(left) THEN 1 ELSE 0)
        /\ group[Len(group)].time - group[left].time > WindowMs
    BY DEF Slide, Outgrown
  <1>2. /\ group \in Seq([action : Action, time : Nat])
        /\ left \in Nat \ {0} /\ left <= Len(group) /\ Len(group) \in Nat
    BY <1>1, EventsHaveTimes DEF RatioInv, RatioTypeOK, WindowKept
  <1>3. group[Len(group)].time \in Nat
    BY <1>2, EventsHaveTimes DEF RatioInv
  <1>4. left # Len(group)
    BY <1>1, <1>3, WindowAssumption
  <1>5. RatioTypeOK'
    BY <1>1, <1>2 DEF RatioInv, RatioTypeOK
  <1>6. WindowKept'
    <2>1. \A i \in 1 .. left : i \in 1 .. left - 1 \/ i = left
      BY <1>2
    <2>2. group[left].time \in Nat
      BY <1>2, EventsHaveTimes DEF RatioInv
    <2>3. ~(group[Len(group)].time - group[left].time <= WindowMs)
      BY <1>1, <1>3, <2>2, WindowAssumption
    <2>4. \A i \in 1 .. left : ~(group[Len(group)].time - group[i].time <= WindowMs)
      BY <2>1, <2>3 DEF RatioInv, WindowKept
    <2> QED BY <1>1, <1>2, <1>4, <2>4 DEF RatioInv, WindowKept
  <1>7. CountKept'
    <2> DEFINE rest == left + 1 .. Len(group)
    <2>1. left .. Len(group) = rest \cup {left} /\ left \notin rest
      BY <1>2
    <2>2. IsFiniteSet(rest)
      BY <1>2, FS_Interval
    <2>3. /\ CancelsIn(rest) \in Nat
          /\ CancelsIn(left .. Len(group)) =
                 CancelsIn(rest) + (IF Canceling(left) THEN 1 ELSE 0)
      BY <2>1, <2>2, OneMoreCanceling DEF CancelsIn, Canceling
    <2>4. cancel_count' = CancelsIn(rest)
      BY <1>1, <2>3 DEF RatioInv, CountKept
    <2>5. CancelsIn(left .. Len(group))' = CancelsIn(rest)
      BY <1>1 DEF CancelsIn, Canceling
    <2> QED BY <2>4, <2>5 DEF CountKept
  <1>8. AlertsAreTheSuspicious'
    BY <1>1 DEF RatioInv, AlertsAreTheSuspicious, Window, CancelsIn, Canceling, Suspicious,
                Judged
  <1> QED BY <1>5, <1>6, <1>7, <1>8 DEF RatioInv

LEMMA JudgeKeeps ==
    ASSUME RatioInv, Judge
    PROVE  RatioInv'
  <1> DEFINE n == Len(group)
             alert == Alert(n, left, cancel_count)
  <1>1. /\ judging /\ judging' = FALSE /\ ~Outgrown
        /\ group' = group /\ left' = left /\ cancel_count' = cancel_count
        /\ alerts' = IF Excessive(alert) THEN alerts \cup {alert} ELSE alerts
    BY DEF Judge
  <1>2. /\ Window(n) = left .. n
        /\ Cardinality(left .. n) = n - left + 1
        /\ group # <<>> /\ n \in DOMAIN group /\ n \in Nat \ {0}
    BY <1>1, WindowIsAnInterval DEF RatioInv, RatioTypeOK
  <1>3. /\ alert.right = n /\ alert.start = left
        /\ alert.cancels = CancelsIn(Window(n))
        /\ alert.total = Cardinality(Window(n))
    BY <1>2 DEF Alert, RatioInv, CountKept
  <1>4. Excessive(alert) <=> Suspicious(n)
    BY <1>3 DEF Excessive, Suspicious
  <1>5. Judged = 1 .. n - 1 /\ Judged' = 1 .. n
    BY <1>1 DEF Judged
  <1> HIDE DEF alert
  <1>6. RatioTypeOK'
    BY <1>1, <1>2, <1>3 DEF RatioInv, RatioTypeOK
  <1>7. WindowKept'
    <2>1. group[n].time - group[left].time <= WindowMs
      <3>1. group[n].time \in Nat /\ group[left].time \in Nat
        BY <1>2, EventsHaveTimes DEF RatioInv, RatioTypeOK, WindowKept
      <3> QED BY <1>1, <3>1, WindowAssumption DEF Outgrown
    <2> QED BY <1>1, <1>2, <2>1 DEF RatioInv, WindowKept
  <1>8. CountKept'
    BY <1>1 DEF RatioInv, CountKept, CancelsIn, Canceling
  <1>9. AlertsAreTheSuspicious'
    <2>1. /\ {a.right : a \in alerts} = {right \in 1 .. n - 1 : Suspicious(right)}
          /\ \A a \in alerts :
                /\ Window(a.right) = a.start .. a.right
                /\ a.cancels = CancelsIn(Window(a.right))
                /\ a.total = Cardinality(Window(a.right))
      BY <1>5 DEF RatioInv, AlertsAreTheSuspicious
    <2>2. {a.right : a \in alerts'} = {right \in 1 .. n : Suspicious(right)}
      <3>1. \A right \in 1 .. n : right \in 1 .. n - 1 \/ right = n
        BY <1>2
      <3>2. 1 .. n - 1 \subseteq 1 .. n /\ n \in 1 .. n
        BY <1>2
      <3>3. CASE Suspicious(n)
        <4>1. alerts' = alerts \cup {alert}
          BY <1>1, <1>4, <3>3
        <4>2. {a.right : a \in alerts'} = {a.right : a \in alerts} \cup {n}
          BY <1>3, <4>1
        <4> QED BY <2>1, <3>1, <3>2, <3>3, <4>2
      <3>4. CASE ~Suspicious(n)
        <4>1. alerts' = alerts
          BY <1>1, <1>4, <3>4
        <4> QED BY <2>1, <3>1, <3>2, <3>4, <4>1
      <3> QED BY <3>3, <3>4
    <2>3. \A a \in alerts' :
              /\ Window(a.right) = a.start .. a.right
              /\ a.cancels = CancelsIn(Window(a.right))
              /\ a.total = Cardinality(Window(a.right))
      BY <1>1, <1>2, <1>3, <2>1
    <2>4. ASSUME NEW right
          PROVE  /\ Window(right)' = Window(right)
                 /\ CancelsIn(Window(right))' = CancelsIn(Window(right))
                 /\ Suspicious(right)' <=> Suspicious(right)
      BY <1>1 DEF Window, CancelsIn, Canceling, Suspicious
    <2> QED BY <1>5, <2>2, <2>3, <2>4 DEF AlertsAreTheSuspicious
  <1> QED BY <1>6, <1>7, <1>8, <1>9 DEF RatioInv

LEMMA RatioInvHolds == RatioSpec => []RatioInv
  <1>1. RatioInit => RatioInv
    <2> SUFFICES ASSUME RatioInit PROVE RatioInv
      OBVIOUS
    <2>1. /\ group = <<>> /\ left = 1 /\ cancel_count = 0 /\ alerts = {}
          /\ judging = FALSE /\ Len(group) = 0
      BY DEF RatioInit
    <2>2. CancelsIn(left .. Len(group)) = 0
      <3>1. {i \in left .. Len(group) : Canceling(i)} = {}
        BY <2>1
      <3> QED BY <3>1, FS_EmptySet DEF CancelsIn
    <2>3. RatioTypeOK
      <3>1. \A S : <<>> \in Seq(S)
        OBVIOUS
      <3>2. group \in Seq([action : Action, time : Nat])
        BY <2>1, <3>1
      <3>3. left \in Nat \ {0} /\ cancel_count \in Int
        BY <2>1
      <3>4. judging \in BOOLEAN
        BY <2>1
      <3>5. \A alert \in alerts : alert.right \in DOMAIN group
        BY <2>1
      <3> QED BY <3>2, <3>3, <3>4, <3>5 DEF RatioTypeOK
    <2>4. WindowKept
      BY <2>1 DEF WindowKept
    <2>5. AlertsAreTheSuspicious
      BY <2>1 DEF AlertsAreTheSuspicious, Judged
    <2> QED BY <2>1, <2>2, <2>3, <2>4, <2>5 DEF RatioInv, CountKept
  <1>2. RatioInv /\ [RatioNext]_ratioVars => RatioInv'
    <2> SUFFICES ASSUME RatioInv, [RatioNext]_ratioVars PROVE RatioInv'
      OBVIOUS
    <2>1. ASSUME NEW action \in Action, NEW time \in 0 .. LastEventMs, ReadEvent(action, time)
          PROVE  RatioInv'
      <3>1. time \in Nat
        BY EventBoundsAssumption
      <3> QED BY <2>1, <3>1, ReadEventKeeps
    <2>2. CASE UNCHANGED ratioVars
      <3>1. RatioTypeOK' /\ WindowKept'
        BY <2>2 DEF ratioVars, RatioInv, RatioTypeOK, WindowKept
      <3>2. CountKept'
        BY <2>2 DEF ratioVars, RatioInv, CountKept, CancelsIn, Canceling
      <3>3. AlertsAreTheSuspicious'
        BY <2>2 DEF ratioVars, RatioInv, AlertsAreTheSuspicious, Judged, Suspicious, Window,
                    CancelsIn, Canceling
      <3> QED BY <3>1, <3>2, <3>3 DEF RatioInv
    <2> QED BY <2>1, <2>2, SlideKeeps, JudgeKeeps DEF RatioNext
  <1> QED BY <1>1, <1>2, PTL DEF RatioSpec

(* detect_high_cancel_ratio (pattern_detector.py:222-274) reports the      *)
(* windows that are suspicious by definition, with their counts, although  *)
(* it never looks at a window as a whole.                                  *)
THEOREM RatiosAreExact == RatioSpec => []AlertsAreTheSuspicious
  BY RatioInvHolds, PTL DEF RatioInv

-------------------------------------------------------------------------------
(* SoakRun                                                                 *)

Samples == [elapsed : Nat, completed : Nat, window : Nat]

Requests == [type : {"D", "F"}, order : Nat \ {0}]

SoakTyped ==
    /\ now \in Nat /\ next_request \in Nat /\ rolling \in Nat /\ errors \in Nat
    /\ samples \in Seq(Samples)
    /\ resting_orders \in Seq(Nat \ {0})
    /\ total_requests \in Nat /\ submitted_orders \in Nat /\ canceled_orders \in Nat
    /\ order_number \in Nat /\ cancel_number \in Nat
    /\ calling \in Requests \cup {NoCall}

CountsInv ==
    /\ SoakTyped
    /\ finished => calling = NoCall
    /\ AttemptsAddUp
    /\ WindowsPartition

LEMMA NoCallIsNone == NoCall \notin Requests
  BY DEF NoCall, Requests

LEMMA RequestsAre ==
    \A number \in Nat \ {0} :
        /\ Submission(number) \in Requests /\ Submission(number).order = number
        /\ Submission(number).type = "D"
        /\ Cancellation(number) \in Requests /\ Cancellation(number).order = number
        /\ Cancellation(number).type = "F"
  BY DEF Submission, Cancellation, Requests

LEMMA GapsAreNumbers ==
    ASSUME Due, now \in Nat
    PROVE  next_request' \in Nat
  BY SoakConfigAssumption DEF Due

LEMMA LastCompleted ==
    ASSUME SoakTyped
    PROVE  Completed(Len(samples)) \in Nat
  <1>1. samples \in Seq(Samples) /\ \A sample \in Samples : sample.completed \in Nat
    BY DEF SoakTyped, Samples
  <1>2. Len(samples) # 0 => samples[Len(samples)] \in Samples
    BY <1>1
  <1> QED BY <1>1, <1>2 DEF Completed

(* A step that leaves the samples and what they are of.                    *)
LEMMA SamplesStay ==
    ASSUME WindowsPartition, samples' = samples, finished' = finished,
           total_requests' = total_requests, rolling' = rolling
    PROVE  WindowsPartition'
  BY DEF WindowsPartition, Completed

(* A sample of what was completed since the last one may be added.         *)
LEMMA OneMoreSample ==
    ASSUME CountsInv, ~finished, samples' = Append(samples, Sample),
           total_requests' = total_requests,
           finished' \/ rolling' = 0
    PROVE  samples' \in Seq(Samples) /\ WindowsPartition'
  <1>1. /\ samples \in Seq(Samples) /\ Sample \in Samples
        /\ Sample.completed = total_requests /\ Sample.window = rolling
        /\ total_requests \in Nat /\ rolling \in Nat
    BY DEF CountsInv, SoakTyped, Sample, Samples
  <1> PICK n : n = Len(samples)
    OBVIOUS
  <1>2. /\ n \in Nat /\ DOMAIN samples = 1 .. n
        /\ samples' \in Seq(Samples) /\ Len(samples') = n + 1 /\ samples' # <<>>
        /\ DOMAIN samples' = 1 .. n + 1
        /\ samples'[n + 1] = Sample
        /\ \A i \in 1 .. n : samples'[i] = samples[i]
    BY <1>1
  <1>3. Completed(n + 1)' = total_requests
    BY <1>1, <1>2 DEF Completed
  <1>4. \A i \in 0 .. n : Completed(i)' = Completed(i)
    BY <1>2 DEF Completed
  <1>5. total_requests - Completed(n) = rolling
    BY DEF CountsInv, WindowsPartition
  <1>6. \A i \in DOMAIN samples' : samples'[i].completed - Completed(i - 1)' = samples'[i].window
    <2> SUFFICES ASSUME NEW i \in 1 .. n + 1
                 PROVE  samples'[i].completed - Completed(i - 1)' = samples'[i].window
      BY <1>2
    <2>1. Completed(i - 1)' = Completed(i - 1)
      BY <1>2, <1>4
    <2>2. CASE i = n + 1
      BY <1>1, <1>2, <1>5, <2>1, <2>2
    <2>3. CASE i # n + 1
      <3>1. i \in 1 .. n
        BY <1>2, <2>3
      <3>2. samples[i].completed - Completed(i - 1) = samples[i].window
        BY <1>2, <3>1 DEF CountsInv, WindowsPartition
      <3> QED BY <1>2, <2>1, <3>1, <3>2
    <2> QED BY <2>2, <2>3
  <1>7. Completed(Len(samples))' = total_requests'
    BY <1>2, <1>3
  <1>8. total_requests' - total_requests' = 0
    BY <1>1
  <1> QED BY <1>2, <1>6, <1>7, <1>8 DEF WindowsPartition

LEMMA CountsKept == CountsInv /\ [SoakNext]_soakVars => CountsInv'
  <1> SUFFICES ASSUME CountsInv, [SoakNext]_soakVars PROVE CountsInv'
    OBVIOUS
  <1>1. CASE TakeSample
    <2>1. /\ samples' = Append(samples, Sample) /\ ~finished /\ rolling' = 0
          /\ total_requests' = total_requests /\ finished' = finished
          /\ calling' = calling
          /\ UNCHANGED <<now, next_request, errors, resting_orders, countVars, numberVars>>
      BY <1>1 DEF TakeSample, Running, AtLoopHead, countVars
    <2>2. samples' \in Seq(Samples) /\ WindowsPartition'
      BY <2>1, OneMoreSample
    <2>3. SoakTyped'
      BY <2>1, <2>2 DEF CountsInv, SoakTyped, countVars, numberVars
    <2>4. AttemptsAddUp'
      BY <2>1 DEF CountsInv, AttemptsAddUp, InProgress, countVars, numberVars
    <2> QED BY <2>1, <2>2, <2>3, <2>4 DEF CountsInv
  <1>2. ASSUME NEW overrun \in 0 .. Overrun, Nap(overrun) PROVE CountsInv'
    <2>1. /\ now' = now + overrun
                       + (IF next_request - now < LongestNap
                          THEN next_request - now ELSE LongestNap)
          /\ now < next_request
          /\ UNCHANGED <<next_request, rolling, samples, errors, resting_orders, countVars,
                         numberVars, calling, finished>>
      BY <1>2 DEF Nap
    <2>2. now' \in Nat
      <3>1. now \in Nat /\ next_request \in Nat /\ LongestNap \in Nat /\ overrun \in Nat
        BY SoakTimesAssumption DEF CountsInv, SoakTyped
      <3> QED BY <2>1, <3>1
    <2>3. SoakTyped'
      BY <2>1, <2>2 DEF CountsInv, SoakTyped, countVars, numberVars
    <2> QED BY <2>1, <2>3, SamplesStay
            DEF CountsInv, AttemptsAddUp, InProgress, countVars, numberVars
  <1>3. CASE SendCancel
    <2>1. /\ resting_orders # <<>> /\ resting_orders' = Tail(resting_orders)
          /\ cancel_number' = cancel_number + 1
          /\ calling' = Cancellation(Head(resting_orders))
          /\ calling = NoCall /\ ~finished
          /\ UNCHANGED <<now, rolling, samples, errors, countVars, order_number, finished>>
      BY <1>3 DEF SendCancel, Due, Running, AtLoopHead, Request
    <2>6. next_request' \in Nat
      BY <1>3, GapsAreNumbers DEF SendCancel, CountsInv, SoakTyped
    <2>2. /\ resting_orders' \in Seq(Nat \ {0}) /\ Head(resting_orders) \in Nat \ {0}
      BY <2>1 DEF CountsInv, SoakTyped
    <2>3. calling' \in Requests /\ calling' # NoCall
      BY <2>1, <2>2, RequestsAre, NoCallIsNone
    <2>4. SoakTyped'
      BY <2>1, <2>2, <2>3, <2>6 DEF CountsInv, SoakTyped, countVars
    <2>5. AttemptsAddUp'
      BY <2>1, <2>3 DEF CountsInv, SoakTyped, AttemptsAddUp, InProgress, countVars
    <2> QED BY <2>1, <2>4, <2>5, SamplesStay DEF CountsInv, countVars
  <1>4. CASE SendNewOrder
    <2>1. /\ order_number' = order_number + 1
          /\ calling' = Submission(order_number')
          /\ calling = NoCall /\ ~finished
          /\ UNCHANGED <<now, rolling, samples, errors, resting_orders, countVars,
                         cancel_number, finished>>
      BY <1>4 DEF SendNewOrder, Due, Running, AtLoopHead, Request
    <2>5. next_request' \in Nat
      BY <1>4, GapsAreNumbers DEF SendNewOrder, CountsInv, SoakTyped
    <2>2. calling' \in Requests /\ calling' # NoCall
      BY <2>1, RequestsAre, NoCallIsNone DEF CountsInv, SoakTyped
    <2>3. SoakTyped'
      BY <2>1, <2>2, <2>5 DEF CountsInv, SoakTyped, countVars
    <2>4. AttemptsAddUp'
      BY <2>1, <2>2 DEF CountsInv, SoakTyped, AttemptsAddUp, InProgress, countVars
    <2> QED BY <2>1, <2>3, <2>4, SamplesStay DEF CountsInv, countVars
  <1>5. ASSUME NEW took \in 0 .. LongestCall, CallReturns(took) PROVE CountsInv'
    <2>1. /\ total_requests' = total_requests + 1 /\ rolling' = rolling + 1
          /\ calling # NoCall /\ calling' = NoCall /\ now' = now + took
          /\ UNCHANGED <<next_request, samples, errors, numberVars, finished>>
      BY <1>5 DEF CallReturns
    <2>2. \/ /\ calling.type = "D"
             /\ resting_orders' = Append(resting_orders, calling.order)
             /\ submitted_orders' = submitted_orders + 1 /\ canceled_orders' = canceled_orders
          \/ /\ canceled_orders' = canceled_orders + 1
             /\ resting_orders' = resting_orders /\ submitted_orders' = submitted_orders
      BY <1>5 DEF CallReturns
    <2>3. calling.order \in Nat \ {0}
      <3>1. calling \in Requests
        BY <2>1 DEF CountsInv, SoakTyped
      <3>2. \A request \in Requests : request.order \in Nat \ {0}
        BY DEF Requests
      <3> QED BY <3>1, <3>2
    <2>8. ~finished
      <3>1. calling # NoCall
        BY <2>1
      <3>2. finished => calling = NoCall
        BY DEF CountsInv
      <3> QED BY <3>1, <3>2
    <2>4. resting_orders' \in Seq(Nat \ {0})
      <3>1. resting_orders \in Seq(Nat \ {0})
        BY DEF CountsInv, SoakTyped
      <3>2. Append(resting_orders, calling.order) \in Seq(Nat \ {0})
        BY <2>3, <3>1
      <3> QED BY <2>2, <3>1, <3>2
    <2>5. SoakTyped'
      BY <2>1, <2>2, <2>4, SoakTimesAssumption DEF CountsInv, SoakTyped, numberVars
    <2>6. AttemptsAddUp'
      BY <2>1, <2>2 DEF CountsInv, SoakTyped, AttemptsAddUp, InProgress, numberVars
    <2>7. WindowsPartition'
      <3>1. \A i \in 0 .. Len(samples) : Completed(i)' = Completed(i)
        BY <2>1 DEF Completed
      <3>2. total_requests - Completed(Len(samples)) = rolling
        BY <2>8 DEF CountsInv, WindowsPartition
      <3>3. Completed(Len(samples)) \in Nat
        BY LastCompleted DEF CountsInv
      <3>4. total_requests' - Completed(Len(samples)) = rolling'
        BY <2>1, <3>2, <3>3 DEF CountsInv, SoakTyped
      <3> QED BY <2>1, <2>8, <3>4 DEF CountsInv, WindowsPartition, Completed
    <2> QED BY <2>1, <2>8, <2>5, <2>6, <2>7 DEF CountsInv
  <1>6. ASSUME NEW took \in 0 .. LongestCall, CallRaises(took) PROVE CountsInv'
    <2>1. /\ errors' = errors + 1
          /\ calling # NoCall /\ calling' = NoCall /\ now' = now + took
          /\ UNCHANGED <<next_request, rolling, samples, resting_orders, countVars,
                         numberVars, finished>>
      BY <1>6 DEF CallRaises
    <2>2. SoakTyped'
      BY <2>1, SoakTimesAssumption DEF CountsInv, SoakTyped, countVars, numberVars
    <2>3. AttemptsAddUp'
      BY <2>1 DEF CountsInv, SoakTyped, AttemptsAddUp, InProgress, countVars, numberVars
    <2> QED BY <2>1, <2>2, <2>3, SamplesStay DEF CountsInv, countVars
  <1>7. CASE Finish
    <2>1. /\ calling = NoCall /\ ~finished /\ finished'
          /\ UNCHANGED <<now, next_request, rolling, errors, resting_orders, countVars,
                         numberVars, calling>>
      BY <1>7 DEF Finish, AtLoopHead
    <2>2. \/ samples' = Append(samples, Sample)
          \/ ~(rolling > 0) /\ samples # <<>> /\ samples' = samples
      BY <1>7 DEF Finish
    <2>3. samples' \in Seq(Samples) /\ WindowsPartition'
      <3>1. CASE samples' = Append(samples, Sample)
        BY <2>1, <3>1, OneMoreSample DEF countVars
      <3>2. CASE ~(rolling > 0) /\ samples # <<>> /\ samples' = samples
        <4>1. rolling = 0 /\ total_requests - Completed(Len(samples)) = rolling
          BY <2>1, <3>2 DEF CountsInv, SoakTyped, WindowsPartition
        <4>2. Completed(Len(samples)) \in Nat /\ total_requests \in Nat
          BY LastCompleted DEF CountsInv, SoakTyped
        <4>3. Completed(Len(samples)) = total_requests
          BY <4>1, <4>2
        <4> QED BY <2>1, <3>2, <4>3
                DEF CountsInv, SoakTyped, WindowsPartition, Completed, countVars
      <3> QED BY <2>2, <3>1, <3>2
    <2>4. SoakTyped'
      BY <2>1, <2>3 DEF CountsInv, SoakTyped, countVars, numberVars
    <2>5. AttemptsAddUp'
      BY <2>1 DEF CountsInv, AttemptsAddUp, InProgress, countVars, numberVars
    <2> QED BY <2>1, <2>3, <2>4, <2>5 DEF CountsInv
  <1>8. CASE UNCHANGED runnerVars
    <2>1. SoakTyped'
      BY <1>8 DEF runnerVars, CountsInv, SoakTyped
    <2>2. AttemptsAddUp'
      BY <1>8 DEF runnerVars, CountsInv, AttemptsAddUp, InProgress
    <2>3. WindowsPartition' /\ finished' = finished /\ calling' = calling
      BY <1>8, SamplesStay DEF runnerVars, CountsInv
    <2> QED BY <2>1, <2>2, <2>3 DEF CountsInv
  <1> QED BY <1>1, <1>2, <1>3, <1>4, <1>5, <1>6, <1>7, <1>8
          DEF SoakNext, RunnerStep, Handle, soakVars

LEMMA CountsHold == SoakSpec => []CountsInv
  <1>1. SoakInit => CountsInv
    <2> SUFFICES ASSUME SoakInit PROVE CountsInv
      OBVIOUS
    <2>1. \A S : <<>> \in Seq(S)
      OBVIOUS
    <2>2. SoakTyped
      BY <2>1, SoakTimesAssumption DEF SoakInit, SoakTyped
    <2>3. AttemptsAddUp
      BY DEF SoakInit, AttemptsAddUp, InProgress
    <2>4. WindowsPartition
      BY DEF SoakInit, WindowsPartition, Completed
    <2> QED BY <2>2, <2>3, <2>4 DEF CountsInv, SoakInit
  <1> QED BY <1>1, CountsKept, PTL DEF SoakSpec

(* What SoakRunner.run (soak_runner.py:152-252) counts: every attempt      *)
(* once.                                                                   *)
THEOREM NoAttemptIsLost == SoakSpec => []AttemptsAddUp
  BY CountsHold, PTL DEF CountsInv

(* Every request answered is in the window of one sample.                  *)
THEOREM SamplesCoverTheRun == SoakSpec => []WindowsPartition
  BY CountsHold, PTL DEF CountsInv

-------------------------------------------------------------------------------
(* The orders a soak leaves open                                           *)

Submissions == {r \in unhandled : r.type = "D"}

(* The order the runner knows of: the one that rests, or that of the call. *)
Known ==
    {resting_orders[i] : i \in DOMAIN resting_orders}
        \cup IF calling = NoCall THEN {} ELSE {calling.order}

Outstanding(order) == order \in open \/ Submission(order) \in unhandled

Held == IF \E order \in Known : Outstanding(order) THEN 1 ELSE 0

OrdersTyped ==
    /\ IsFiniteSet(open) /\ IsFiniteSet(unhandled)
    /\ open \subseteq 1 .. order_number
    /\ unhandled \subseteq Requests
    /\ \A r \in unhandled : r.order <= order_number

(* The runner knows of one order at most, which the exchange has handled   *)
(* before the runner cancels it.                                           *)
OneKnown ==
    /\ calling # NoCall => resting_orders = <<>>
    /\ Len(resting_orders) <= 1
    /\ \A order \in Known : order <= order_number
    /\ \A i \in DOMAIN resting_orders : Submission(resting_orders[i]) \notin unhandled
    /\ calling.type = "F" =>
          /\ Submission(calling.order) \notin unhandled
          /\ calling \notin unhandled => calling.order \notin open

StrayBounded ==
    /\ \A r \in Submissions : r.order \notin open
    /\ Cardinality(open) + Cardinality(Submissions) <= errors + Held

OrdersInv == CountsInv /\ OrdersTyped /\ OneKnown /\ StrayBounded

LEMMA OrdersCounted ==
    ASSUME OrdersTyped
    PROVE  /\ IsFiniteSet(Submissions)
           /\ Cardinality(open) \in Nat /\ Cardinality(Submissions) \in Nat
           /\ \A r \in Submissions : r = Submission(r.order) /\ r.order \in Nat \ {0}
  <1>1. Submissions \subseteq unhandled
    BY DEF Submissions
  <1>2. IsFiniteSet(Submissions)
    BY <1>1, FS_Subset DEF OrdersTyped
  <1>3. \A r \in Submissions : r \in Requests /\ r.type = "D"
    BY DEF Submissions, OrdersTyped
  <1>4. \A r \in Requests : r.type = "D" => r = Submission(r.order) /\ r.order \in Nat \ {0}
    BY DEF Requests, Submission
  <1> QED BY <1>2, <1>3, <1>4, FS_CardinalityType DEF OrdersTyped

(* The orders stay as they are, and the runner knows of the same.          *)
LEMMA OrdersStay ==
    ASSUME OrdersInv, CountsInv', UNCHANGED <<unhandled, open, order_number>>,
           Known' = Known, errors' = errors, OneKnown'
    PROVE  OrdersInv'
  <1>1. OrdersTyped' /\ Submissions' = Submissions /\ Held' = Held
    BY DEF OrdersInv, OrdersTyped, Submissions, Held, Outstanding
  <1> QED BY <1>1 DEF OrdersInv, StrayBounded

LEMMA NothingRests ==
    ASSUME SoakTyped, resting_orders = <<>>
    PROVE  Known = IF calling = NoCall THEN {} ELSE {calling.order}
  BY DEF Known

LEMMA NotEmpty ==
    ASSUME NEW S, NEW s \in Seq(S), s # <<>>
    PROVE  Len(s) \in Nat /\ Len(s) # 0
  OBVIOUS

LEMMA SendCancelOrders ==
    ASSUME OrdersInv, CountsInv', SendCancel
    PROVE  OrdersInv'
  <1>1. /\ resting_orders # <<>> /\ resting_orders' = Tail(resting_orders)
        /\ calling' = Cancellation(Head(resting_orders))
        /\ unhandled' = unhandled \cup {calling'}
        /\ calling = NoCall
        /\ UNCHANGED <<errors, order_number, open>>
    BY DEF SendCancel, Due, Running, AtLoopHead, Request
  <1> PICK k : k = Head(resting_orders)
    OBVIOUS
  <1>2. resting_orders \in Seq(Nat \ {0}) /\ Len(resting_orders) = 1
        /\ order_number \in Nat /\ errors \in Nat
    <2>1. resting_orders \in Seq(Nat \ {0}) /\ order_number \in Nat /\ errors \in Nat
      BY DEF OrdersInv, CountsInv, SoakTyped
    <2>2. Len(resting_orders) <= 1
      BY DEF OrdersInv, OneKnown
    <2>3. Len(resting_orders) \in Nat /\ Len(resting_orders) # 0
      BY <1>1, <2>1, NotEmpty
    <2>4. PICK n : n = Len(resting_orders)
      OBVIOUS
    <2>5. n = 1
      BY <2>2, <2>3, <2>4
    <2> QED BY <2>1, <2>4, <2>5
  <1>3. /\ k \in Nat \ {0} /\ resting_orders' = <<>> /\ DOMAIN resting_orders = {1}
        /\ k = resting_orders[1]
    BY <1>1, <1>2
  <1>4. Known = {k}
    BY <1>1, <1>3 DEF Known
  <1>5. /\ calling' \in Requests /\ calling' # NoCall /\ calling'.order = k /\ calling'.type = "F"
        /\ Submission(k).type = "D"
    BY <1>1, <1>3, RequestsAre, NoCallIsNone
  <1>6. Known' = {k}
    BY <1>3, <1>5 DEF Known
  <1>7. OrdersTyped'
    <2>1. IsFiniteSet(unhandled')
      BY <1>1, FS_AddElement DEF OrdersInv, OrdersTyped
    <2>2. k <= order_number
      BY <1>4 DEF OrdersInv, OneKnown
    <2> QED BY <1>1, <1>5, <2>1, <2>2 DEF OrdersInv, OrdersTyped
  <1>8. Submission(k) \notin unhandled'
    BY <1>1, <1>3, <1>5 DEF OrdersInv, OneKnown
  <1>9. OneKnown'
    <2>1. DOMAIN resting_orders' = {} /\ Len(resting_orders') = 0 /\ k <= order_number'
      BY <1>1, <1>3, <1>4 DEF OrdersInv, OneKnown
    <2>2. Submission(calling'.order) \notin unhandled' /\ calling' \in unhandled'
      BY <1>1, <1>5, <1>8
    <2>3. \A order \in Known' : order <= order_number'
      BY <1>6, <2>1
    <2>4. Len(resting_orders') <= 1
      BY <2>1
    <2> QED BY <1>3, <2>1, <2>2, <2>3, <2>4 DEF OneKnown
  <1>10. Submissions' = Submissions
    BY <1>1, <1>5 DEF Submissions
  <1>11. Held' = Held
    BY <1>1, <1>4, <1>5, <1>6 DEF Held, Outstanding
  <1>12. StrayBounded'
    BY <1>1, <1>10, <1>11 DEF OrdersInv, StrayBounded
  <1> QED BY <1>7, <1>9, <1>12 DEF OrdersInv

LEMMA SendNewOrderOrders ==
    ASSUME OrdersInv, CountsInv', SendNewOrder
    PROVE  OrdersInv'
  <1> PICK k : k = order_number + 1
    OBVIOUS
  <1>1. /\ resting_orders = <<>> /\ resting_orders' = resting_orders
        /\ order_number' = k
        /\ calling' = Submission(k)
        /\ unhandled' = unhandled \cup {calling'}
        /\ calling = NoCall
        /\ UNCHANGED <<errors, open>>
    BY DEF SendNewOrder, Due, Running, AtLoopHead, Request
  <1>2. order_number \in Nat /\ errors \in Nat /\ k \in Nat \ {0}
    BY DEF OrdersInv, CountsInv, SoakTyped
  <1>3. /\ calling' \in Requests /\ calling' # NoCall /\ calling'.order = k /\ calling'.type = "D"
    BY <1>1, <1>2, RequestsAre, NoCallIsNone
  <1>4. Known = {} /\ Known' = {k}
    BY <1>1, <1>3 DEF Known
  <1>5. calling' \notin unhandled /\ k \notin open /\ k > order_number
    BY <1>2, <1>3 DEF OrdersInv, OrdersTyped
  <1>6. OrdersTyped'
    <2>1. IsFiniteSet(unhandled')
      BY <1>1, FS_AddElement DEF OrdersInv, OrdersTyped
    <2>2. open' \subseteq 1 .. order_number'
      BY <1>1, <1>2 DEF OrdersInv, OrdersTyped
    <2>3. \A r \in unhandled' : r \in Requests /\ r.order <= order_number'
      <3>1. \A r \in Requests : r.order \in Nat
        BY DEF Requests
      <3> QED BY <1>1, <1>2, <1>3, <3>1 DEF OrdersInv, OrdersTyped
    <2> QED BY <1>1, <2>1, <2>2, <2>3 DEF OrdersInv, OrdersTyped
  <1>7. OneKnown'
    BY <1>1, <1>2, <1>3, <1>4 DEF OrdersInv, OneKnown
  <1>8. Submissions' = Submissions \cup {calling'} /\ calling' \notin Submissions
    BY <1>1, <1>3, <1>5 DEF Submissions
  <1>9. Cardinality(Submissions') = Cardinality(Submissions) + 1
    BY <1>8, OrdersCounted, FS_AddElement DEF OrdersInv
  <1>10. Held = 0
    BY <1>4 DEF Held
  <1>11. Held' = 1
    BY <1>1, <1>4 DEF Held, Outstanding
  <1>12. StrayBounded'
    <2>1. Cardinality(open) \in Nat /\ Cardinality(Submissions) \in Nat
      BY OrdersCounted DEF OrdersInv
    <2>2. Cardinality(open) + Cardinality(Submissions) <= errors + 0
      BY <1>10 DEF OrdersInv, StrayBounded
    <2>3. Cardinality(open') + Cardinality(Submissions') <= errors' + Held'
      BY <1>1, <1>2, <1>9, <1>11, <2>1, <2>2
    <2>4. \A r \in Submissions' : r.order \notin open'
      BY <1>1, <1>3, <1>5, <1>8 DEF OrdersInv, StrayBounded
    <2> QED BY <2>3, <2>4 DEF StrayBounded
  <1> QED BY <1>6, <1>7, <1>12 DEF OrdersInv

LEMMA HandleOrders ==
    ASSUME OrdersInv, CountsInv', NEW request \in unhandled, Handle(request)
    PROVE  OrdersInv'
  <1> PICK k : k = request.order
    OBVIOUS
  <1>1. /\ unhandled' = unhandled \ {request}
        /\ open' = IF request.type = "D" THEN open \cup {k} ELSE open \ {k}
        /\ UNCHANGED <<errors, order_number, resting_orders, calling>>
    BY DEF Handle, runnerVars, numberVars
  <1>2. /\ order_number \in Nat /\ errors \in Nat
        /\ IsFiniteSet(open) /\ IsFiniteSet(unhandled)
        /\ Cardinality(open) \in Nat /\ Cardinality(Submissions) \in Nat
        /\ IsFiniteSet(Submissions)
    BY OrdersCounted DEF OrdersInv, CountsInv, SoakTyped, OrdersTyped
  <1>3. /\ request \in Requests /\ k \in 1 .. order_number /\ request.type \in {"D", "F"}
        /\ request.type = "D" => request = Submission(k)
    <2>1. request \in Requests /\ request.order <= order_number
      BY DEF OrdersInv, OrdersTyped
    <2>2. \A r \in Requests : r.order \in Nat \ {0} /\ r.type \in {"D", "F"}
      BY DEF Requests
    <2> QED BY <1>2, <2>1, <2>2, OrdersCounted DEF OrdersInv, Submissions
  <1>4. Known' = Known
    BY <1>1 DEF Known
  <1>5. OrdersTyped'
    <2>1. IsFiniteSet(unhandled') /\ IsFiniteSet(open')
      BY <1>1, <1>2, FS_RemoveElement, FS_AddElement
    <2> QED BY <1>1, <1>3, <2>1 DEF OrdersInv, OrdersTyped
  <1>6. OneKnown'
    <2>1. /\ calling # NoCall => resting_orders = <<>>
          /\ Len(resting_orders) <= 1
          /\ \A order \in Known : order <= order_number
          /\ \A i \in DOMAIN resting_orders : Submission(resting_orders[i]) \notin unhandled
      BY DEF OrdersInv, OneKnown
    <2>2. calling.type = "F" =>
              /\ Submission(calling.order) \notin unhandled'
              /\ calling \notin unhandled' => calling.order \notin open'
      <3> SUFFICES ASSUME calling.type = "F"
                   PROVE  /\ Submission(calling.order) \notin unhandled'
                          /\ calling \notin unhandled' => calling.order \notin open'
        OBVIOUS
      <3>1. /\ Submission(calling.order) \notin unhandled
            /\ calling \notin unhandled => calling.order \notin open
        BY DEF OrdersInv, OneKnown
      <3>2. CASE request = calling
        BY <1>1, <3>1, <3>2
      <3>3. CASE request # calling
        <4>1. request.type = "D" => k # calling.order
          BY <1>3, <3>1
        <4> QED BY <1>1, <3>1, <3>3, <4>1
      <3> QED BY <3>2, <3>3
    <2> QED BY <1>1, <1>4, <2>1, <2>2 DEF OneKnown
  <1>7. /\ \A r \in Submissions : r.order \notin open
        /\ Cardinality(open) + Cardinality(Submissions) <= errors + Held
    BY DEF OrdersInv, StrayBounded
  <1>8. CASE request.type = "D"
    <2>1. k \notin open /\ request \in Submissions
      BY <1>7, <1>8 DEF Submissions
    <2>2. Submissions' = Submissions \ {request} /\ open' = open \cup {k}
      BY <1>1, <1>8 DEF Submissions
    <2>3. /\ Cardinality(Submissions') = Cardinality(Submissions) - 1
          /\ Cardinality(open') = Cardinality(open) + 1
      BY <1>2, <2>1, <2>2, FS_RemoveElement, FS_AddElement
    <2>4. \A order : Outstanding(order)' <=> Outstanding(order)
      BY <1>1, <1>3, <1>8, <2>2 DEF Outstanding, Submission
    <2>5. Held' = Held
      BY <1>4, <2>4 DEF Held
    <2>6. \A r \in Submissions' : r.order # k
      <3>1. \A r \in Submissions : r = Submission(r.order)
        BY OrdersCounted DEF OrdersInv
      <3> QED BY <1>3, <1>8, <2>2, <3>1
    <2> QED BY <1>1, <1>2, <1>5, <1>6, <1>7, <2>2, <2>3, <2>5, <2>6 DEF OrdersInv, StrayBounded
  <1>9. CASE request.type # "D"
    <2>1. Submissions' = Submissions /\ open' = open \ {k}
      BY <1>1, <1>9 DEF Submissions
    <2>2. \A order : Submission(order) \in unhandled' <=> Submission(order) \in unhandled
      BY <1>1, <1>9 DEF Submission
    <2>3. \A r \in Submissions' : r.order \notin open'
      BY <1>7, <2>1
    <2>4. Cardinality(open') + Cardinality(Submissions') <= errors' + Held'
      <3>1. CASE k \in open
        <4>1. Cardinality(open') = Cardinality(open) - 1
          BY <1>2, <2>1, <3>1, FS_RemoveElement
        <4>2. Held \in {0, 1} /\ Held' \in {0, 1}
          BY DEF Held
        <4> QED BY <1>1, <1>2, <1>7, <2>1, <4>1, <4>2
      <3>2. CASE k \notin open
        <4>1. open' = open
          BY <2>1, <3>2
        <4>2. Held' = Held
          BY <1>4, <2>2, <4>1 DEF Held, Outstanding
        <4> QED BY <1>1, <1>7, <2>1, <4>1, <4>2
      <3> QED BY <3>1, <3>2
    <2> QED BY <1>5, <1>6, <2>3, <2>4 DEF OrdersInv, StrayBounded
  <1> QED BY <1>8, <1>9

LEMMA CallReturnsOrders ==
    ASSUME OrdersInv, CountsInv', NEW took, CallReturns(took)
    PROVE  OrdersInv'
  <1>1. /\ calling # NoCall /\ calling \notin unhandled /\ calling' = NoCall
        /\ resting_orders' = IF calling.type = "D" THEN Append(resting_orders, calling.order)
                             ELSE resting_orders
        /\ UNCHANGED <<errors, order_number, unhandled, open>>
    BY DEF CallReturns, numberVars
  <1>2. /\ resting_orders = <<>> /\ Known = {calling.order}
        /\ calling \in Requests /\ errors \in Nat
    BY <1>1 DEF OrdersInv, OneKnown, CountsInv, SoakTyped, Known
  <1> PICK k : k = calling.order
    OBVIOUS
  <1>3. k <= order_number /\ calling'.type # "F"
    BY <1>1, <1>2 DEF OrdersInv, OneKnown, NoCall
  <1>4. OrdersTyped' /\ Submissions' = Submissions
    BY <1>1 DEF OrdersInv, OrdersTyped, Submissions
  <1>5. CASE calling.type = "D"
    <2>1. resting_orders' = <<k>>
      BY <1>1, <1>2, <1>5
    <2>2. Known' = {k}
      BY <1>1, <2>1 DEF Known
    <2>3. calling = Submission(k)
      BY <1>2, <1>5 DEF Requests, Submission
    <2>4. OneKnown'
      <3>1. /\ DOMAIN resting_orders' = {1} /\ resting_orders'[1] = k /\ Len(resting_orders') <= 1
        BY <2>1
      <3>2. \A i \in DOMAIN resting_orders' : Submission(resting_orders'[i]) \notin unhandled'
        BY <1>1, <2>3, <3>1
      <3>3. \A order \in Known' : order <= order_number'
        BY <1>1, <1>3, <2>2
      <3> QED BY <1>1, <1>3, <3>1, <3>2, <3>3 DEF OneKnown
    <2> QED BY <1>1, <1>2, <2>2, <2>4, OrdersStay
  <1>6. CASE calling.type # "D"
    <2>1. resting_orders' = <<>> /\ calling.type = "F"
      BY <1>1, <1>2, <1>6 DEF Requests
    <2>2. Known' = {}
      BY <1>1, <2>1 DEF Known
    <2>3. OneKnown'
      BY <1>1, <1>3, <2>1, <2>2 DEF OneKnown
    <2>4. ~Outstanding(k)
      BY <1>1, <2>1 DEF OrdersInv, OneKnown, Outstanding
    <2>5. Held = 0 /\ Held' = 0
      BY <1>2, <2>2, <2>4 DEF Held
    <2>6. StrayBounded'
      BY <1>1, <1>4, <2>5 DEF OrdersInv, StrayBounded
    <2> QED BY <1>4, <2>3, <2>6 DEF OrdersInv
  <1> QED BY <1>5, <1>6

LEMMA CallRaisesOrders ==
    ASSUME OrdersInv, CountsInv', NEW took, CallRaises(took)
    PROVE  OrdersInv'
  <1>1. /\ calling # NoCall /\ calling' = NoCall /\ errors' = errors + 1
        /\ UNCHANGED <<resting_orders, order_number, unhandled, open>>
    BY DEF CallRaises, numberVars
  <1>2. resting_orders = <<>> /\ errors \in Nat
    BY <1>1 DEF OrdersInv, OneKnown, CountsInv, SoakTyped
  <1>3. Known' = {} /\ calling'.type # "F"
    BY <1>1, <1>2 DEF Known, NoCall
  <1>4. OrdersTyped' /\ Submissions' = Submissions
    BY <1>1 DEF OrdersInv, OrdersTyped, Submissions
  <1>5. OneKnown'
    BY <1>1, <1>2, <1>3 DEF OrdersInv, OneKnown
  <1>6. Cardinality(open) \in Nat /\ Cardinality(Submissions) \in Nat
    BY OrdersCounted DEF OrdersInv
  <1>7. Held \in {0, 1} /\ Held' \in {0, 1}
    BY DEF Held
  <1>8. Cardinality(open) + Cardinality(Submissions) <= errors + Held
    BY DEF OrdersInv, StrayBounded
  <1>9. Cardinality(open') + Cardinality(Submissions') <= errors' + Held'
    BY <1>1, <1>2, <1>4, <1>6, <1>7, <1>8
  <1> QED BY <1>1, <1>4, <1>5, <1>9 DEF OrdersInv, StrayBounded

LEMMA OrdersKept == OrdersInv /\ CountsInv' /\ [SoakNext]_soakVars => OrdersInv'
  <1> SUFFICES ASSUME OrdersInv, CountsInv', [SoakNext]_soakVars PROVE OrdersInv'
    OBVIOUS
  <1>1. CASE SendCancel
    BY <1>1, SendCancelOrders
  <1>2. CASE SendNewOrder
    BY <1>2, SendNewOrderOrders
  <1>3. ASSUME NEW took, CallReturns(took) \/ CallRaises(took) PROVE OrdersInv'
    BY <1>3, CallReturnsOrders, CallRaisesOrders
  <1>4. ASSUME NEW request \in unhandled, Handle(request) PROVE OrdersInv'
    BY <1>4, HandleOrders
  <1>5. CASE UNCHANGED <<errors, resting_orders, order_number, calling, unhandled, open>>
    <2>1. Known' = Known /\ OneKnown'
      BY <1>5 DEF OrdersInv, Known, OneKnown
    <2> QED BY <1>5, <2>1, OrdersStay
  <1>6. ASSUME NEW overrun, TakeSample \/ Nap(overrun) \/ Finish PROVE OrdersInv'
    BY <1>5, <1>6 DEF TakeSample, Nap, Finish, numberVars
  <1>7. CASE UNCHANGED soakVars
    BY <1>5, <1>7 DEF soakVars, runnerVars, numberVars
  <1> QED BY <1>1, <1>2, <1>3, <1>4, <1>6, <1>7 DEF SoakNext, RunnerStep

(* What a soak leaves open at the exchange is bounded by the errors it     *)
(* reports (soak_runner.py:152-252), also when an answer comes after the   *)
(* call has given up, or never.                                            *)
THEOREM FewOrdersStayOpen == SoakSpec => []OpenOrdersBounded
  <1>1. SoakInit /\ CountsInv => OrdersInv
    <2> SUFFICES ASSUME SoakInit, CountsInv PROVE OrdersInv
      OBVIOUS
    <2>1. /\ open = {} /\ unhandled = {} /\ resting_orders = <<>> /\ calling = NoCall
          /\ errors = 0
      BY DEF SoakInit
    <2>2. Known = {} /\ Submissions = {} /\ calling.type # "F"
      BY <2>1 DEF Known, Submissions, NoCall
    <2>3. OrdersTyped /\ OneKnown
      BY <2>1, <2>2, FS_EmptySet DEF OrdersTyped, OneKnown
    <2>4. StrayBounded
      BY <2>1, <2>2, FS_EmptySet DEF StrayBounded, Held
    <2> QED BY <2>3, <2>4 DEF OrdersInv
  <1>2. OrdersInv => OpenOrdersBounded
    <2> SUFFICES ASSUME OrdersInv PROVE OpenOrdersBounded
      OBVIOUS
    <2>1. Cardinality(open) \in Nat /\ Cardinality(Submissions) \in Nat /\ errors \in Nat
      BY OrdersCounted DEF OrdersInv, CountsInv, SoakTyped
    <2>2. Held \in {0, 1} /\ Cardinality(open) + Cardinality(Submissions) <= errors + Held
      BY DEF OrdersInv, StrayBounded, Held
    <2>3. Cardinality(open) + Cardinality(Submissions) <= errors + 1
      BY <2>1, <2>2
    <2> QED BY <2>3 DEF OpenOrdersBounded, Submissions
  <1> QED BY <1>1, <1>2, OrdersKept, CountsHold, PTL DEF SoakSpec

-------------------------------------------------------------------------------
(* Rounding and averages                                                   *)

LEMMA Products ==
    ASSUME NEW a \in Int, NEW b \in Int, NEW c \in Int
    PROVE  /\ a * b \in Int
           /\ a * (b + c) = a * b + a * c
           /\ a * (b - c) = a * b - a * c
           /\ a * (-b) = -(a * b)
           /\ a * b = b * a
  OBVIOUS

LEMMA LeastNatural ==
    ASSUME NEW S \in SUBSET Nat, S # {}
    PROVE  \E m \in S : \A n \in S : m <= n
  <1>1. PICK m \in S : \A n \in S : ~(<<n, m>> \in OpToRel(<, Nat))
    BY NatLessThanWellFounded, WFMin
  <1>2. \A n \in S : ~(n < m)
    BY <1>1 DEF OpToRel
  <1> QED BY <1>2

LEMMA Larger ==
    ASSUME NEW a \in Nat \ {0}, NEW b \in Int, NEW c \in Int, b < c
    PROVE  a * b + a <= a * c
  <1>1. PICK d : d = c - b - 1
    OBVIOUS
  <1>2. d \in Nat /\ c = b + 1 + d
    BY <1>1
  <1>3. a * d >= 0 /\ a * d \in Int
    BY <1>2
  <1>4. a * c = a * b + a + a * d
    BY <1>2
  <1> QED BY <1>3, <1>4

LEMMA Division ==
    ASSUME NEW a \in Int, NEW b \in Nat \ {0}
    PROVE  /\ a \div b \in Int /\ a % b \in 0 .. b - 1
           /\ a = b * (a \div b) + (a % b)
  OBVIOUS

(* The quotient and the remainder are the only ones.                       *)
LEMMA OneQuotient ==
    ASSUME NEW b \in Nat \ {0}, NEW q \in Int, NEW r \in 0 .. b - 1, NEW a \in Int,
           a = b * q + r
    PROVE  a \div b = q /\ a % b = r
  <1>1. PICK k, m : k = a \div b /\ m = a % b
    OBVIOUS
  <1>2. k \in Int /\ m \in 0 .. b - 1 /\ a = b * k + m
    BY <1>1, Division
  <1>3. b * k \in Int /\ b * q \in Int
    BY <1>2
  <1>4. ~(k < q)
    BY <1>2, <1>3, Larger
  <1>5. ~(q < k)
    BY <1>2, <1>3, Larger
  <1>6. k = q
    BY <1>2, <1>4, <1>5
  <1>7. m = r
    BY <1>2, <1>3, <1>6
  <1> QED BY <1>1, <1>6, <1>7

Divides(tick, q, r, price) ==
    q \in Int /\ r \in 0 .. tick - 1 /\ price = tick * q + r

(* HalfEven, from any quotient and remainder.                             *)
LEMMA Ticked ==
    ASSUME NEW tick \in Nat \ {0}, NEW price \in Int, NEW q, NEW r, Divides(tick, q, r, price)
    PROVE  /\ HalfEven(price, tick) =
                 IF 2 * r < tick \/ (2 * r = tick /\ q % 2 = 0) THEN q ELSE q + 1
           /\ price % tick = r
  <1>1. q \in Int /\ r \in 0 .. tick - 1 /\ price = tick * q + r
    BY DEF Divides
  <1>2. price \div tick = q /\ price % tick = r
    BY <1>1, OneQuotient
  <1> QED BY <1>2 DEF HalfEven

LEMMA EvenOrOdd ==
    ASSUME NEW q \in Int
    PROVE  /\ q % 2 \in {0, 1}
           /\ (-q) % 2 = q % 2
           /\ (-q - 1) % 2 = 1 - (q % 2)
  OBVIOUS

LEMMA Rounds ==
    ASSUME NEW price \in Int, NEW tick \in Nat \ {0}
    PROVE  RoundsToNearest(price, tick)
  <1>1. PICK q, r : q = price \div tick /\ r = price % tick
    OBVIOUS
  <1>2. q \in Int /\ r \in 0 .. tick - 1 /\ price = tick * q + r /\ r \in Int
    BY <1>1, Division
  <1>3. PICK n : n = IF 2 * r < tick \/ (2 * r = tick /\ q % 2 = 0) THEN q ELSE q + 1
    OBVIOUS
  <1>4. n \in Int /\ RoundToTick(price, tick) = n * tick
    <2>1. Divides(tick, q, r, price)
      BY <1>2 DEF Divides
    <2>2. HalfEven(price, tick) = n
      BY <1>3, <2>1, Ticked
    <2> QED BY <1>2, <1>3, <2>2 DEF RoundToTick
  <1>5. PICK w : w = tick * q
    OBVIOUS
  <1>6. /\ w \in Int /\ tick * (q + 1) = w + tick /\ tick * (-q) = -w
        /\ tick * (-q - 1) = -w - tick
    BY <1>2, <1>5
  <1>7. n * tick = tick * n
    BY <1>4
  <1>8. n * tick = IF n = q THEN w ELSE w + tick
    BY <1>3, <1>5, <1>6, <1>7
  <1>9. RoundToTick(price, tick) % tick = 0
    <2>1. Divides(tick, n, 0, n * tick) /\ n * tick \in Int
      BY <1>4, <1>7 DEF Divides
    <2> QED BY <1>4, <2>1, Ticked
  <1>10. 2 * Magnitude(RoundToTick(price, tick) - price) <= tick
    <2>1. n = q => 2 * r <= tick
      BY <1>2, <1>3
    <2>2. n # q => 2 * r >= tick
      BY <1>2, <1>3
    <2>3. RoundToTick(price, tick) - price = IF n = q THEN -r ELSE tick - r
      BY <1>2, <1>4, <1>5, <1>6, <1>8
    <2> QED BY <1>2, <2>1, <2>2, <2>3 DEF Magnitude
  <1>11. RoundToTick(-price, tick) = -RoundToTick(price, tick)
    <2>1. CASE r = 0
      <3>1. Divides(tick, -q, 0, -price) /\ -price \in Int
        BY <1>2, <1>5, <1>6, <2>1 DEF Divides
      <3>2. HalfEven(-price, tick) = -q
        <4>1. 2 * 0 < tick
          OBVIOUS
        <4> QED BY <3>1, <4>1, Ticked
      <3>3. n = q
        BY <1>2, <1>3, <2>1
      <3>4. (-q) * tick = tick * (-q)
        BY <1>2
      <3> QED BY <1>4, <1>6, <1>8, <3>2, <3>3, <3>4 DEF RoundToTick
    <2>2. CASE r # 0
      <3>1. Divides(tick, -q - 1, tick - r, -price) /\ -price \in Int
        BY <1>2, <1>5, <1>6, <2>2 DEF Divides
      <3>2. HalfEven(-price, tick) =
                IF 2 * (tick - r) < tick \/ (2 * (tick - r) = tick /\ (-q - 1) % 2 = 0)
                THEN -q - 1 ELSE (-q - 1) + 1
        BY <3>1, Ticked
      <3>3. /\ 2 * (tick - r) < tick <=> 2 * r > tick
            /\ 2 * (tick - r) = tick <=> 2 * r = tick
            /\ (-q - 1) + 1 = -q
        BY <1>2
      <3>4. HalfEven(-price, tick) = -n
        BY <1>2, <1>3, <3>2, <3>3, EvenOrOdd
      <3>5. (-n) * tick = -(n * tick)
        BY <1>4
      <3> QED BY <1>4, <3>4, <3>5 DEF RoundToTick
    <2> QED BY <2>1, <2>2
  <1>12. RoundToTick(RoundToTick(price, tick), tick) = RoundToTick(price, tick)
    <2>1. Divides(tick, n, 0, n * tick) /\ n * tick \in Int /\ 2 * 0 < tick
      BY <1>4, <1>7 DEF Divides
    <2>2. HalfEven(n * tick, tick) = n
      BY <1>4, <2>1, Ticked
    <2> QED BY <1>4, <2>2 DEF RoundToTick
  <1> QED BY <1>9, <1>10, <1>11, <1>12 DEF RoundsToNearest

(* The finest digit that fits exists.                                      *)
LEMMA LastDigitFits ==
    ASSUME NEW n \in Int, NEW d \in Nat \ {0}, NEW limit \in Nat,
           NEW last, last = LastDigit(n, d, limit)
    PROVE  /\ last \in PowersOfTen /\ last \in Nat \ {0}
           /\ \A finer \in PowersOfTen : Fits(n, d, limit, finer) => finer <= last
  <1> DEFINE F == {power \in PowersOfTen : Fits(n, d, limit, power)}
  <1>1. PICK finest \in PowersOfTen : \A power \in PowersOfTen : power <= finest
    BY PrecisionAssumption
  <1>2. PowersOfTen \subseteq Nat \ {0} /\ F \subseteq PowersOfTen /\ 1 \in F /\ finest \in Nat
    BY PrecisionAssumption DEF Fits
  <1> DEFINE T == {finest - power : power \in F}
  <1>3. T \in SUBSET Nat /\ T # {}
    BY <1>1, <1>2
  <1>4. PICK least \in T : \A t \in T : least <= t
    BY <1>3, LeastNatural
  <1>5. PICK most \in F : least = finest - most
    BY <1>4
  <1>6. ASSUME NEW power \in F PROVE power <= most
    <2>1. finest - power \in T
      OBVIOUS
    <2>2. finest - most <= finest - power
      BY <1>4, <1>5, <2>1
    <2>3. power \in Int /\ most \in Int
      BY <1>2
    <2> QED BY <1>2, <2>2, <2>3
  <1>7. \E power \in PowersOfTen :
            /\ Fits(n, d, limit, power)
            /\ \A finer \in PowersOfTen : Fits(n, d, limit, finer) => finer <= power
    BY <1>2, <1>6
  <1>8. /\ last \in PowersOfTen
        /\ \A finer \in PowersOfTen : Fits(n, d, limit, finer) => finer <= last
    BY <1>7 DEF LastDigit
  <1> QED BY <1>2, <1>8

(* What is lost by rounding to the last digit.                             *)
LEMMA RoundedWithin ==
    ASSUME NEW n \in Int, NEW d \in Nat \ {0}, NEW limit \in Nat,
           NEW r, r = Rounded(n, d, limit)
    PROVE  /\ r.amount \in Int /\ r.power \in Nat \ {0} /\ r.power \in PowersOfTen
           /\ 2 * Magnitude(r.amount * d - n * r.power) <= d
           /\ \A finer \in PowersOfTen : Fits(n, d, limit, finer) => finer <= r.power
  <1>1. PICK power : power = LastDigit(n, d, limit)
    OBVIOUS
  <1>2. r.power = power /\ r.amount = HalfEven(n * power, d)
    BY <1>1 DEF Rounded
  <1>3. /\ power \in PowersOfTen /\ power \in Nat \ {0}
        /\ \A finer \in PowersOfTen : Fits(n, d, limit, finer) => finer <= power
    BY <1>1, LastDigitFits
  <1>4. PICK whole : whole = n * power
    OBVIOUS
  <1>5. whole \in Int
    BY <1>3, <1>4
  <1>6. HalfEven(whole, d) \in Int
    <2>1. PICK q, m : q = whole \div d /\ m = whole % d
      OBVIOUS
    <2>2. q \in Int /\ m \in 0 .. d - 1 /\ whole = d * q + m
      BY <1>5, <2>1, Division
    <2>3. Divides(d, q, m, whole)
      BY <2>2 DEF Divides
    <2>4. HalfEven(whole, d) = q \/ HalfEven(whole, d) = q + 1
      BY <1>5, <2>3, Ticked
    <2> QED BY <2>2, <2>4
  <1>7. 2 * Magnitude(HalfEven(whole, d) * d - whole) <= d
    BY <1>5, Rounds DEF RoundsToNearest, RoundToTick
  <1> QED BY <1>2, <1>3, <1>4, <1>6, <1>7

Fills == [price : Prices, quantity : Quantities]

MoneyInv ==
    /\ fills \in Seq(Fills)
    /\ total_notional \in Int /\ total_quantity \in Nat /\ exit_price \in Int
    /\ realized \in [{"buy", "sell"} -> Int]
    /\ realized["buy"] = exit_price * total_quantity - total_notional
    /\ realized["sell"] = total_notional - exit_price * total_quantity

(* The average gives the notional back.                                    *)
LEMMA AverageKeeps ==
    ASSUME MoneyInv
    PROVE  AverageKeepsTheNotional
  <1> SUFFICES ASSUME total_quantity > 0 PROVE AverageKeepsTheNotional
    BY DEF AverageKeepsTheNotional
  <1>1. total_notional \in Int /\ total_quantity \in Nat \ {0} /\ AverageLimit \in Nat
    BY PrecisionAssumption DEF MoneyInv
  <1>2. PICK average : average = Average
    OBVIOUS
  <1>3. PICK amount, power : amount = average.amount /\ power = average.power
    OBVIOUS
  <1>4. /\ amount \in Int /\ power \in Nat \ {0}
        /\ 2 * Magnitude(amount * total_quantity - total_notional * power) <= total_quantity
        /\ \A finer \in PowersOfTen :
              Fits(total_notional, total_quantity, AverageLimit, finer) => finer <= power
    BY <1>1, <1>2, <1>3, RoundedWithin DEF Average
  <1>5. PICK off : off = Magnitude(amount * total_quantity - total_notional * power)
    OBVIOUS
  <1>6. off \in Nat /\ 2 * off <= total_quantity
    <2>1. amount * total_quantity - total_notional * power \in Int
      BY <1>1, <1>4
    <2> QED BY <1>4, <1>5, <2>1 DEF Magnitude
  <1>7. ASSUME 10 * power \in PowersOfTen
        PROVE  off * AverageLimit <= 5 * Magnitude(total_notional) * power
    <2>1. ~Fits(total_notional, total_quantity, AverageLimit, 10 * power)
      <3>1. ~(10 * power <= power)
        BY <1>4
      <3> QED BY <1>4, <1>7, <3>1
    <2>2. PICK size : size = Magnitude(total_notional)
      OBVIOUS
    <2>3. size \in Nat
      BY <1>1, <2>2 DEF Magnitude
    <2>4. AverageLimit * total_quantity <= size * (10 * power)
      BY <1>1, <1>4, <2>1, <2>2, <2>3 DEF Fits
    <2>5. PICK a, b, e : a = AverageLimit * total_quantity /\ b = size * power
                         /\ e = off * AverageLimit
      OBVIOUS
    <2>6. a \in Int /\ b \in Int /\ e \in Int
      BY <1>1, <1>4, <1>6, <2>3, <2>5
    <2>7. size * (10 * power) = 10 * b /\ 5 * size * power = 5 * b
      BY <1>4, <2>3, <2>5
    <2>8. 2 * e <= a
      <3>1. AverageLimit * (2 * off) <= AverageLimit * total_quantity
        BY <1>1, <1>6
      <3>2. AverageLimit * (2 * off) = 2 * e
        BY <1>1, <1>6, <2>5
      <3> QED BY <2>5, <3>1, <3>2
    <2>9. e <= 5 * b
      BY <2>4, <2>5, <2>6, <2>7, <2>8
    <2> QED BY <2>2, <2>5, <2>7, <2>9
  <1> QED BY <1>2, <1>3, <1>5, <1>6, <1>7 DEF AverageKeepsTheNotional

Near(x, y, twice) == 2 * (x - y) <= twice /\ 2 * (y - x) <= twice

LEMMA Nearness ==
    ASSUME NEW x \in Int, NEW y \in Int, NEW twice \in Int
    PROVE  Near(x, y, twice) <=> 2 * Magnitude(x - y) <= twice
  BY DEF Near, Magnitude

(* A factor.                                                               *)
LEMMA NearTimes ==
    ASSUME NEW x \in Int, NEW y \in Int, NEW twice \in Int, NEW k \in Nat, Near(x, y, twice)
    PROVE  Near(k * x, k * y, k * twice)
  <1>1. k * (2 * (x - y)) <= k * twice /\ k * (2 * (y - x)) <= k * twice
    <2>1. 2 * (x - y) \in Int /\ 2 * (y - x) \in Int /\ 2 * (x - y) <= twice /\ 2 * (y - x) <= twice
      BY DEF Near
    <2>2. \A u, v \in Int : u <= v => k * u <= k * v
      OBVIOUS
    <2> QED BY <2>1, <2>2
  <1>2. k * (2 * (x - y)) = 2 * (k * x - k * y) /\ k * (2 * (y - x)) = 2 * (k * y - k * x)
    OBVIOUS
  <1> QED BY <1>1, <1>2 DEF Near

LEMMA NearNear ==
    ASSUME NEW x \in Int, NEW y \in Int, NEW z \in Int, NEW t \in Int, NEW u \in Int,
           Near(x, y, t), Near(y, z, u)
    PROVE  Near(x, z, t + u)
  BY DEF Near

(* Three roundings: of the average, of its difference to the exit price,   *)
(* and of the product with the quantity.                                   *)
LEMMA ThreeRoundings ==
    ASSUME NEW notional \in Int, NEW quantity \in Nat, NEW exit \in Int,
           NEW A \in Int, NEW a \in Nat, Near(A * quantity, notional * a, quantity),
           NEW D \in Int, NEW d \in Nat, Near(D * a, (exit * a - A) * d, a),
           NEW P \in Int, NEW p \in Nat, Near(P * d, (D * quantity) * p, d)
    PROVE  Near((P * a) * d, ((exit * quantity - notional) * p) * a * d,
                a * d + quantity * p * a + quantity * p * d)
  <1>1. Near(a * (P * d), a * ((D * quantity) * p), a * d)
    <2>1. PICK x, y : x = P * d /\ y = (D * quantity) * p
      OBVIOUS
    <2>2. x \in Int /\ y \in Int /\ Near(x, y, d)
      BY <2>1
    <2>3. Near(a * x, a * y, a * d)
      BY <2>2, NearTimes
    <2> QED BY <2>1, <2>3
  <1>2. PICK f : f = quantity * p
    OBVIOUS
  <1>3. f \in Nat
    BY <1>2
  <1>4. Near(f * (D * a), f * ((exit * a - A) * d), f * a)
    <2>1. PICK x, y : x = D * a /\ y = (exit * a - A) * d
      OBVIOUS
    <2>2. x \in Int /\ y \in Int /\ Near(x, y, a)
      BY <2>1
    <2>3. Near(f * x, f * y, f * a)
      BY <1>3, <2>2, NearTimes
    <2> QED BY <2>1, <2>3
  <1>5. PICK g : g = p * d
    OBVIOUS
  <1>6. g \in Nat
    BY <1>5
  <1>7. Near(g * (A * quantity), g * (notional * a), g * quantity)
    <2>1. PICK x, y : x = A * quantity /\ y = notional * a
      OBVIOUS
    <2>2. x \in Int /\ y \in Int /\ Near(x, y, quantity)
      BY <2>1
    <2>3. Near(g * x, g * y, g * quantity)
      BY <1>6, <2>2, NearTimes
    <2> QED BY <2>1, <2>3
  <1>8. PICK w : w = exit * quantity * p * a * d
    OBVIOUS
  <1>9. w \in Int
    BY <1>8
  <1>10. Near(w - g * (A * quantity), w - g * (notional * a), g * quantity)
    <2>1. g * (A * quantity) \in Int /\ g * (notional * a) \in Int /\ g * quantity \in Int
      BY <1>6
    <2> QED BY <1>7, <1>9, <2>1 DEF Near
  <1>11. /\ a * ((D * quantity) * p) = f * (D * a)
         /\ f * ((exit * a - A) * d) = w - g * (A * quantity)
         /\ w - g * (notional * a) = ((exit * quantity - notional) * p) * a * d
         /\ a * (P * d) = (P * a) * d
    BY <1>2, <1>5, <1>8
  <1>12. PICK x, y, z, v : /\ x = (P * a) * d /\ y = f * (D * a)
                           /\ z = w - g * (A * quantity)
                           /\ v = ((exit * quantity - notional) * p) * a * d
    OBVIOUS
  <1>13. x \in Int /\ y \in Int /\ z \in Int /\ v \in Int
         /\ a * d \in Int /\ f * a \in Int /\ g * quantity \in Int
    BY <1>3, <1>6, <1>9, <1>12
  <1>14. Near(x, y, a * d) /\ Near(y, z, f * a) /\ Near(z, v, g * quantity)
    BY <1>1, <1>4, <1>10, <1>11, <1>12
  <1>15. Near(x, z, a * d + f * a)
    BY <1>13, <1>14, NearNear
  <1>16. Near(x, v, (a * d + f * a) + g * quantity)
    BY <1>13, <1>14, <1>15, NearNear
  <1>17. (a * d + f * a) + g * quantity = a * d + quantity * p * a + quantity * p * d
    BY <1>2, <1>5
  <1> QED BY <1>12, <1>16, <1>17

LEMMA AverageSettles ==
    ASSUME MoneyInv
    PROVE  AverageSettlesTheFills
  <1> SUFFICES ASSUME total_quantity > 0 PROVE AverageSettlesTheFills
    BY DEF AverageSettlesTheFills
  <1>1. /\ total_notional \in Int /\ total_quantity \in Nat \ {0} /\ exit_price \in Int
        /\ AverageLimit \in Nat /\ WorkingLimit \in Nat
    BY PrecisionAssumption DEF MoneyInv
  <1>2. PICK average : average = Average
    OBVIOUS
  <1>3. PICK A, a : A = average.amount /\ a = average.power
    OBVIOUS
  <1>4. /\ A \in Int /\ a \in Nat \ {0}
        /\ 2 * Magnitude(A * total_quantity - total_notional * a) <= total_quantity
    BY <1>1, <1>2, <1>3, RoundedWithin DEF Average
  <1>5. PICK difference : difference = Rounded(exit_price * a - A, a, WorkingLimit)
    OBVIOUS
  <1>6. PICK D, d : D = difference.amount /\ d = difference.power
    OBVIOUS
  <1>7. /\ D \in Int /\ d \in Nat \ {0}
        /\ 2 * Magnitude(D * a - (exit_price * a - A) * d) <= a
    <2>1. exit_price * a - A \in Int
      BY <1>1, <1>4
    <2> QED BY <1>1, <1>4, <1>5, <1>6, <2>1, RoundedWithin
  <1>8. PICK product : product = Rounded(D * total_quantity, d, WorkingLimit)
    OBVIOUS
  <1>9. PICK P, p : P = product.amount /\ p = product.power
    OBVIOUS
  <1>10. /\ P \in Int /\ p \in Nat \ {0}
         /\ 2 * Magnitude(P * d - (D * total_quantity) * p) <= d
    <2>1. D * total_quantity \in Int
      BY <1>1, <1>7
    <2> QED BY <1>1, <1>7, <1>8, <1>9, <2>1, RoundedWithin
  <1>11. /\ Near(A * total_quantity, total_notional * a, total_quantity)
         /\ Near(D * a, (exit_price * a - A) * d, a)
         /\ Near(P * d, (D * total_quantity) * p, d)
    <2>1. Near(A * total_quantity, total_notional * a, total_quantity)
      <3>1. PICK x, y : x = A * total_quantity /\ y = total_notional * a
        OBVIOUS
      <3>2. x \in Int /\ y \in Int /\ 2 * Magnitude(x - y) <= total_quantity
        BY <1>1, <1>4, <3>1
      <3>3. Near(x, y, total_quantity)
        BY <1>1, <3>2, Nearness
      <3> QED BY <3>1, <3>3
    <2>2. Near(D * a, (exit_price * a - A) * d, a)
      <3>1. PICK x, y : x = D * a /\ y = (exit_price * a - A) * d
        OBVIOUS
      <3>2. x \in Int /\ y \in Int /\ 2 * Magnitude(x - y) <= a
        BY <1>1, <1>4, <1>7, <3>1
      <3>3. Near(x, y, a)
        BY <1>4, <3>2, Nearness
      <3> QED BY <3>1, <3>3
    <2>3. Near(P * d, (D * total_quantity) * p, d)
      <3>1. PICK x, y : x = P * d /\ y = (D * total_quantity) * p
        OBVIOUS
      <3>2. x \in Int /\ y \in Int /\ 2 * Magnitude(x - y) <= d
        BY <1>1, <1>7, <1>10, <3>1
      <3>3. Near(x, y, d)
        BY <1>7, <3>2, Nearness
      <3> QED BY <3>1, <3>3
    <2> QED BY <2>1, <2>2, <2>3
  <1>12. PICK R : R = exit_price * total_quantity - total_notional
    OBVIOUS
  <1>13. PICK bound : bound = a * d + total_quantity * p * a + total_quantity * p * d
    OBVIOUS
  <1>14. R \in Int /\ bound \in Int
    BY <1>1, <1>4, <1>7, <1>10, <1>12, <1>13
  <1>15. Near((P * a) * d, (R * p) * a * d, bound)
    BY <1>1, <1>4, <1>7, <1>10, <1>11, <1>12, <1>13, ThreeRoundings
  <1>16. ASSUME NEW amount \in Int, NEW owed \in Int,
                \/ amount = P /\ owed = R
                \/ amount = -P /\ owed = -R
         PROVE  2 * Magnitude(amount - owed * p) * a * d <= bound
    <2>1. PICK s : s = P - R * p
      OBVIOUS
    <2>2. s \in Int
      BY <1>10, <1>14, <2>1
    <2>3. (P * a) * d - (R * p) * a * d = (s * a) * d
      BY <1>4, <1>7, <1>10, <1>14, <2>1
    <2>4. 2 * ((s * a) * d) <= bound /\ 2 * (-((s * a) * d)) <= bound
      <3>1. PICK x, y : x = (P * a) * d /\ y = (R * p) * a * d
        OBVIOUS
      <3>2. x \in Int /\ y \in Int
        BY <1>4, <1>7, <1>10, <1>14, <3>1
      <3> QED BY <1>14, <1>15, <2>3, <3>1, <3>2 DEF Near
    <2>5. amount - owed * p = s \/ amount - owed * p = -s
      BY <1>10, <1>14, <1>16, <2>1
    <2>6. PICK size : size = Magnitude(amount - owed * p)
      OBVIOUS
    <2>7. size = s \/ size = -s
      BY <2>2, <2>5, <2>6 DEF Magnitude
    <2>8. 2 * s * a * d = 2 * ((s * a) * d) /\ 2 * (-s) * a * d = 2 * (-((s * a) * d))
      BY <1>4, <1>7, <2>2
    <2> QED BY <2>4, <2>6, <2>7, <2>8
  <1>17. Direction["buy"] = 1 /\ Direction["sell"] = -1
    BY DEF Direction
  <1>18. DOMAIN realized = {"buy", "sell"} /\ realized["buy"] = R /\ realized["sell"] = -R
    BY <1>1, <1>12 DEF MoneyInv
  <1>19. ASSUME NEW side \in {"buy", "sell"}
         PROVE  LET settled == PnL(average, exit_price, total_quantity, side)
                IN  2 * Magnitude(settled.amount - realized[side] * settled.power) * a * d
                      <= a * d + total_quantity * settled.power * a
                         + total_quantity * settled.power * d
    <2>1. PICK settled : settled = PnL(average, exit_price, total_quantity, side)
      OBVIOUS
    <2>2. settled = [amount |-> P * Direction[side], power |-> p]
      BY <1>3, <1>5, <1>6, <1>8, <1>9, <2>1 DEF PnL
    <2>3. settled.power = p /\ settled.amount = P * Direction[side]
      BY <2>2
    <2>4. P * 1 = P /\ P * (-1) = -P /\ -P \in Int /\ -R \in Int
      BY <1>10, <1>14
    <2>5. \/ settled.amount = P /\ realized[side] = R
          \/ settled.amount = -P /\ realized[side] = -R
      BY <1>17, <1>18, <2>3, <2>4
    <2>6. settled.amount \in Int /\ realized[side] \in Int
      BY <1>10, <1>14, <2>4, <2>5
    <2>7. 2 * Magnitude(settled.amount - realized[side] * p) * a * d <= bound
      BY <1>16, <2>5, <2>6
    <2> QED BY <1>13, <2>1, <2>3, <2>7
  <1> QED BY <1>2, <1>3, <1>5, <1>6, <1>18, <1>19 DEF AverageSettlesTheFills

LEMMA MoneyInvParts == MoneyInv => MoneyIsKept
  <1> SUFFICES ASSUME MoneyInv PROVE MoneyIsKept
    OBVIOUS
  <1>1. PricesRoundToNearest
    <2> SUFFICES ASSUME NEW i \in DOMAIN fills, NEW tick \in Ticks
                 PROVE  RoundsToNearest(fills[i].price, tick)
      BY DEF PricesRoundToNearest
    <2>1. fills[i] \in Fills
      <3>1. fills \in Seq(Fills)
        BY DEF MoneyInv
      <3> QED BY <3>1
    <2>2. fills[i].price \in Int /\ tick \in Nat \ {0}
      BY <2>1, PrecisionAssumption DEF Fills
    <2> QED BY <2>2, Rounds
  <1> QED BY <1>1, AverageKeeps, AverageSettles DEF MoneyIsKept

(* precision.py: a price rounds to the nearest tick, alike on either side  *)
(* of zero and once for all (35-47); the average gives the notional back   *)
(* up to the digits of its context (71-75); and a position closed at its   *)
(* average price makes what its fills make one by one, up to what the      *)
(* three roundings on the way can lose (73-75 and 99), whatever the        *)
(* digits of the two contexts.                                             *)
THEOREM NoMoneyIsLost == PrecisionSpec => []MoneyIsKept
  <1>1. PrecisionInit => MoneyInv
    <2> SUFFICES ASSUME PrecisionInit PROVE MoneyInv
      OBVIOUS
    <2>1. /\ fills = <<>> /\ total_notional = 0 /\ total_quantity = 0 /\ exit_price \in Int
          /\ realized = [side \in {"buy", "sell"} |-> 0]
      BY PrecisionAssumption DEF PrecisionInit
    <2>2. exit_price * 0 = 0
      BY <2>1
    <2> QED BY <2>1, <2>2 DEF MoneyInv
  <1>2. MoneyInv /\ [PrecisionNext]_precisionVars => MoneyInv'
    <2> SUFFICES ASSUME MoneyInv, [PrecisionNext]_precisionVars PROVE MoneyInv'
      OBVIOUS
    <2>1. CASE UNCHANGED precisionVars
      BY <2>1 DEF precisionVars, MoneyInv
    <2>2. ASSUME NEW price \in Prices, NEW quantity \in Quantities, AddFill(price, quantity)
          PROVE  MoneyInv'
      <3>1. /\ fills' = Append(fills, [price |-> price, quantity |-> quantity])
            /\ total_notional' = total_notional + price * quantity
            /\ total_quantity' = total_quantity + quantity
            /\ realized' = [side \in DOMAIN realized |->
                               realized[side] + FillPnL(price, exit_price, quantity, side)]
            /\ exit_price' = exit_price
        BY <2>2 DEF AddFill, Notional
      <3>2. price \in Int /\ quantity \in Nat /\ quantity \in Int
        BY PrecisionAssumption
      <3>3. fills' \in Seq(Fills)
        <4>1. [price |-> price, quantity |-> quantity] \in Fills
          BY DEF Fills
        <4> QED BY <3>1, <4>1 DEF MoneyInv
      <3>4. PICK a, b, c : a = exit_price * quantity /\ b = price * quantity
                           /\ c = exit_price * total_quantity
        OBVIOUS
      <3>5. /\ exit_price \in Int /\ total_quantity \in Nat /\ total_notional \in Int
            /\ realized["buy"] \in Int /\ realized["sell"] \in Int
            /\ DOMAIN realized = {"buy", "sell"}
            /\ realized["buy"] = c - total_notional /\ realized["sell"] = total_notional - c
        BY <3>4 DEF MoneyInv
      <3>6. a \in Int /\ b \in Int /\ c \in Int
        BY <3>2, <3>4, <3>5
      <3>7. exit_price * (total_quantity + quantity) = c + a
        BY <3>2, <3>4, <3>5
      <3>8. (exit_price - price) * quantity = a - b
        BY <3>2, <3>4, <3>5
      <3>9. FillPnL(price, exit_price, quantity, "buy") = a - b
            /\ FillPnL(price, exit_price, quantity, "sell") = b - a
        <4>1. (a - b) * 1 = a - b /\ (a - b) * (-1) = b - a
          BY <3>6
        <4> QED BY <3>8, <4>1 DEF FillPnL, Direction
      <3>10. /\ realized' = [side \in {"buy", "sell"} |->
                               realized[side] + FillPnL(price, exit_price, quantity, side)]
             /\ realized'["buy"] = realized["buy"] + (a - b)
             /\ realized'["sell"] = realized["sell"] + (b - a)
        BY <3>1, <3>5, <3>9
      <3>11. realized' \in [{"buy", "sell"} -> Int]
        BY <3>5, <3>6, <3>9, <3>10
      <3>12. /\ total_notional' = total_notional + b
             /\ exit_price' * total_quantity' = c + a
        BY <3>1, <3>4, <3>7
      <3>13. /\ realized'["buy"] = exit_price' * total_quantity' - total_notional'
             /\ realized'["sell"] = total_notional' - exit_price' * total_quantity'
        BY <3>5, <3>6, <3>10, <3>12
      <3>14. total_notional' \in Int /\ total_quantity' \in Nat /\ exit_price' \in Int
        BY <3>1, <3>2, <3>5, <3>6, <3>12
      <3> QED BY <3>3, <3>11, <3>13, <3>14 DEF MoneyInv
    <2> QED BY <2>1, <2>2 DEF PrecisionNext
  <1> QED BY <1>1, <1>2, MoneyInvParts, PTL DEF PrecisionSpec

-------------------------------------------------------------------------------
(* Latencies and their baseline                                            *)

LatencyInv ==
    /\ order_count \in Nat \ {0}
    /\ latencies \in Seq(Latencies)
    /\ stage \in {"creating", "updating"} => latencies # <<>>
    /\ stage # "idle" => outcome = "none"
    /\ file \notin {Absent, Torn} => established # <<>> /\ file = Saved(P99(established))
    /\ outcome \in {"compared", "regression"} =>
          /\ file \notin {Absent, Torn}
          /\ (outcome = "compared") <=> Allowed(P99(latencies), P99(established))

LEMMA LatencyInvHolds == LatencySpec => []LatencyInv
  <1>1. LatencyInit => LatencyInv
    <2>1. \A S : <<>> \in Seq(S)
      OBVIOUS
    <2> QED BY <2>1 DEF LatencyInit, LatencyInv
  <1>2. LatencyInv /\ [LatencyNext]_latencyVars => LatencyInv'
    <2> SUFFICES ASSUME LatencyInv, [LatencyNext]_latencyVars PROVE LatencyInv'
      OBVIOUS
    <2>1. ASSUME NEW orders \in 1 .. MaxOrders, StartCheck(orders) PROVE LatencyInv'
      <3>1. order_count' \in Nat \ {0} /\ latencies' \in Seq(Latencies)
        BY <2>1, MaxOrdersAssumption DEF StartCheck
      <3> QED BY <2>1, <3>1 DEF LatencyInv, StartCheck
    <2>2. ASSUME NEW latency \in Latencies, Measure(latency) PROVE LatencyInv'
      <3>1. latencies' \in Seq(Latencies)
        BY <2>2 DEF LatencyInv, Measure
      <3> QED BY <2>2, <3>1 DEF LatencyInv, Measure
    <2>3. ASSUME NEW update, OpenBaseline(update) PROVE LatencyInv'
      <3>1. latencies # <<>>
        BY <2>3 DEF LatencyInv, OpenBaseline, Measured
      <3> QED BY <2>3, <3>1 DEF LatencyInv, OpenBaseline, Measured
    <2>4. CASE FillBaseline
      BY <2>4 DEF LatencyInv, FillBaseline
    <2>5. CASE InvalidBaseline
      BY <2>5 DEF LatencyInv, InvalidBaseline
    <2>6. CASE Compare
      <3>1. file = Saved(P99(established)) /\ file \notin {Absent, Torn} /\ established # <<>>
        BY <2>6 DEF LatencyInv, Compare
      <3>2. file.p99 = P99(established)
        BY <3>1 DEF Saved
      <3>3. /\ outcome' = IF Allowed(P99(latencies), P99(established)) THEN "compared" ELSE "regression"
            /\ stage' = "idle"
            /\ UNCHANGED <<order_count, latencies, file, established>>
        BY <2>6, <3>2 DEF Compare
      <3>4. P99(latencies)' = P99(latencies) /\ P99(established)' = P99(established)
        BY <3>3
      <3>5. (outcome' = "compared") <=> Allowed(P99(latencies)', P99(established)')
        BY <3>3, <3>4
      <3> QED BY <3>1, <3>3, <3>4, <3>5 DEF LatencyInv
    <2>7. CASE Killed
      BY <2>7 DEF LatencyInv, Killed
    <2>8. CASE UNCHANGED latencyVars
      BY <2>8 DEF LatencyInv, latencyVars
    <2> QED BY <2>1, <2>2, <2>3, <2>4, <2>5, <2>6, <2>7, <2>8 DEF LatencyNext
  <1> QED BY <1>1, <1>2, PTL DEF LatencySpec

(* compare_latency_baseline (latency.py:93-136) never compares with a      *)
(* baseline that was not written to its end, and a check that passes does  *)
(* not move it.                                                            *)
THEOREM BaselinesAreWhole == LatencySpec => []ComparedWithAWholeBaseline
  <1>1. LatencyInv => ComparedWithAWholeBaseline
    BY DEF LatencyInv, ComparedWithAWholeBaseline, Allowed
  <1> QED BY <1>1, LatencyInvHolds, PTL

(* Percentiles.  s is a sequence of n samples.                             *)

LEMMA Largest ==
    ASSUME NEW n \in Nat, NEW s \in [1 .. n -> Nat]
    PROVE  \E w \in Nat : \A i \in 1 .. n : s[i] <= w
  <1> DEFINE Bounded(m) == \E w \in Nat : \A i \in 1 .. m : s[i] <= w
             Unbounded == {m \in 0 .. n : ~Bounded(m)}
  <1>1. ASSUME Unbounded # {} PROVE FALSE
    <2>1. Unbounded \in SUBSET Nat
      OBVIOUS
    <2>2. PICK m \in Unbounded : \A k \in Unbounded : m <= k
      <3>1. \E m \in Unbounded : \A k \in Unbounded : m <= k
        <4> HIDE DEF Unbounded
        <4> QED BY <1>1, <2>1, LeastNatural
      <3> QED BY <3>1
    <2>3. Bounded(0)
      <3>1. \A i \in 1 .. 0 : s[i] <= 0
        OBVIOUS
      <3> QED BY <3>1
    <2>4. m \in 1 .. n /\ m - 1 \in 0 .. n
      <3>1. m \in 0 .. n /\ ~Bounded(m)
        BY <2>2
      <3>2. m # 0
        <4> HIDE DEF Bounded
        <4> QED BY <2>3, <3>1
      <3> QED BY <3>1, <3>2
    <2>5. PICK w \in Nat : \A i \in 1 .. m - 1 : s[i] <= w
      <3>1. m - 1 \notin Unbounded
        <4>1. m - 1 < m
          BY <2>4
        <4> HIDE DEF Unbounded
        <4> QED BY <2>2, <2>4, <4>1
      <3>2. Bounded(m - 1)
        <4> HIDE DEF Bounded
        <4> QED BY <2>4, <3>1
      <3> QED BY <3>2
    <2>6. PICK v : v = IF s[m] <= w THEN w ELSE s[m]
      OBVIOUS
    <2>7. v \in Nat /\ w <= v /\ s[m] <= v
      BY <2>4, <2>6
    <2>8. ASSUME NEW i \in 1 .. m PROVE s[i] <= v
      <3>1. CASE i = m
        BY <2>7, <3>1
      <3>2. CASE i # m
        <4>1. i \in 1 .. m - 1 /\ i \in 1 .. n
          BY <2>4, <3>2
        <4>2. s[i] <= w /\ s[i] \in Nat
          BY <2>5, <4>1
        <4> QED BY <2>7, <4>2
      <3> QED BY <3>1, <3>2
    <2> QED BY <2>2, <2>7, <2>8
  <1>2. Bounded(n)
    <2>1. n \notin Unbounded
      <3> HIDE DEF Unbounded
      <3> QED BY <1>1
    <2>2. n \in 0 .. n
      OBVIOUS
    <2> HIDE DEF Bounded
    <2> QED BY <2>1, <2>2
  <1> QED BY <1>2

LEMMA UpToCounted ==
    ASSUME NEW n \in Nat
    PROVE  IsFiniteSet(1 .. n) /\ Cardinality(1 .. n) = n
  <1>1. 1 \in Int /\ n \in Int
    OBVIOUS
  <1>2. /\ IsFiniteSet(1 .. n)
        /\ Cardinality(1 .. n) = IF 1 > n THEN 0 ELSE n - 1 + 1
    BY <1>1, FS_Interval
  <1>3. (IF 1 > n THEN 0 ELSE n - 1 + 1) = n
    OBVIOUS
  <1> QED BY <1>2, <1>3

LEMMA Counted ==
    ASSUME NEW n \in Nat, NEW s \in [1 .. n -> Nat], NEW S \in SUBSET (1 .. n)
    PROVE  /\ IsFiniteSet(S) /\ Cardinality(S) \in 0 .. n
           /\ Cardinality(1 .. n \ S) = n - Cardinality(S)
           /\ \A T \in SUBSET S : IsFiniteSet(T) /\ Cardinality(T) <= Cardinality(S)
                                  /\ Cardinality(T) \in Nat
  <1>1. IsFiniteSet(1 .. n) /\ Cardinality(1 .. n) = n
    BY UpToCounted
  <1>2. IsFiniteSet(S) /\ Cardinality(S) <= n /\ Cardinality(S) \in Nat
    <2>1. S \in SUBSET (1 .. n)
      OBVIOUS
    <2>2. IsFiniteSet(S) /\ Cardinality(S) <= Cardinality(1 .. n)
      BY <1>1, <2>1, FS_Subset
    <2>3. Cardinality(S) \in Nat
      BY <2>2, FS_CardinalityType
    <2> QED BY <1>1, <2>2, <2>3
  <1>3. IsFiniteSet(1 .. n \ S) /\ Cardinality(1 .. n \ S) \in Nat
    BY <1>1, FS_Subset, FS_CardinalityType
  <1>4. Cardinality(1 .. n \ S) = n - Cardinality(S)
    <2>1. (1 .. n \ S) \cup S = 1 .. n /\ (1 .. n \ S) \cap S = {}
      OBVIOUS
    <2>2. Cardinality((1 .. n \ S) \cup S) =
              Cardinality(1 .. n \ S) + Cardinality(S) - Cardinality((1 .. n \ S) \cap S)
      BY <1>2, <1>3, FS_Union
    <2>3. n = Cardinality(1 .. n \ S) + Cardinality(S) - 0
      BY <1>1, <2>1, <2>2, FS_EmptySet
    <2> QED BY <1>2, <1>3, <2>3
  <1>5. \A T \in SUBSET S : IsFiniteSet(T) /\ Cardinality(T) <= Cardinality(S)
                            /\ Cardinality(T) \in Nat
    BY <1>2, FS_Subset, FS_CardinalityType
  <1> QED BY <1>2, <1>4, <1>5

LEMMA Counts ==
    ASSUME NEW n \in Nat, NEW s \in [1 .. n -> Nat]
    PROVE  /\ \A v \in Nat : /\ Below(s, v) \in SUBSET (1 .. n)
                             /\ UpTo(s, v) \in SUBSET (1 .. n)
                             /\ Cardinality(Below(s, v)) \in 0 .. n
                             /\ Cardinality(UpTo(s, v)) \in 0 .. n
           /\ \A v, w \in Nat : v < w => Cardinality(UpTo(s, v)) <= Cardinality(Below(s, w))
  <1>1. \A v \in Nat : Below(s, v) \in SUBSET (1 .. n) /\ UpTo(s, v) \in SUBSET (1 .. n)
    BY DEF Below, UpTo
  <1>2. \A v \in Nat : Cardinality(Below(s, v)) \in 0 .. n /\ Cardinality(UpTo(s, v)) \in 0 .. n
    BY <1>1, Counted
  <1>3. ASSUME NEW v \in Nat, NEW w \in Nat, v < w
        PROVE  Cardinality(UpTo(s, v)) <= Cardinality(Below(s, w))
    <2>1. UpTo(s, v) \in SUBSET Below(s, w)
      BY <1>3 DEF Below, UpTo
    <2> QED BY <1>1, <2>1, Counted
  <1> QED BY <1>1, <1>2, <1>3

(* There is a sample for each place.                                       *)
LEMMA Ranked ==
    ASSUME NEW n \in Nat, NEW s \in [1 .. n -> Nat], NEW k \in 1 .. n
    PROVE  \E v \in ToSet(s) : Cardinality(Below(s, v)) < k /\ Cardinality(UpTo(s, v)) >= k
  <1> DEFINE Reaching == {w \in Nat : Cardinality(UpTo(s, w)) >= k}
  <1>1. Reaching # {}
    <2>1. PICK w \in Nat : \A i \in 1 .. n : s[i] <= w
      BY Largest
    <2>2. UpTo(s, w) = 1 .. n
      BY <2>1 DEF UpTo
    <2>3. Cardinality(UpTo(s, w)) = n
      BY <2>2, UpToCounted
    <2>4. w \in Reaching
      BY <2>3
    <2> QED BY <2>4
  <1>2. PICK v \in Reaching : \A w \in Reaching : v <= w
    <2>1. Reaching \in SUBSET Nat
      OBVIOUS
    <2> HIDE DEF Reaching
    <2> QED BY <1>1, <2>1, LeastNatural
  <1>3. v \in Nat /\ Cardinality(UpTo(s, v)) >= k
    BY <1>2
  <1>4. Cardinality(Below(s, v)) < k
    <2>1. CASE v = 0
      <3>1. Below(s, v) = {}
        BY <2>1 DEF Below
      <3> QED BY <3>1, FS_EmptySet
    <2>2. CASE v # 0
      <3>1. PICK u : u = v - 1
        OBVIOUS
      <3>2. u \in Nat /\ u < v
        BY <1>3, <2>2, <3>1
      <3>3. ~(Cardinality(UpTo(s, u)) >= k)
        BY <1>2, <1>3, <3>2
      <3>4. Below(s, v) = UpTo(s, u)
        BY <1>3, <3>1, <3>2 DEF Below, UpTo
      <3>5. Cardinality(UpTo(s, u)) \in 0 .. n
        BY <3>2, Counts
      <3> QED BY <3>3, <3>4, <3>5
    <2> QED BY <2>1, <2>2
  <1>5. v \in ToSet(s)
    <2> SUFFICES ASSUME \A i \in 1 .. n : s[i] # v PROVE FALSE
      BY DEF ToSet
    <2>1. Below(s, v) = UpTo(s, v)
      BY <1>3 DEF Below, UpTo
    <2>2. Cardinality(UpTo(s, v)) \in 0 .. n
      BY <1>3, Counts
    <2> QED BY <1>3, <1>4, <2>1, <2>2
  <1> QED BY <1>3, <1>4, <1>5

LEMMA InOrder ==
    ASSUME NEW n \in Nat, NEW s \in [1 .. n -> Nat]
    PROVE  /\ Ordered(s) \in [1 .. n -> Nat]
           /\ Len(Ordered(s)) = n
           /\ \A k \in 1 .. n : /\ Cardinality(Below(s, Ordered(s)[k])) < k
                                /\ Cardinality(UpTo(s, Ordered(s)[k])) >= k
           /\ \A j, k \in 1 .. n : j <= k => Ordered(s)[j] <= Ordered(s)[k]
  <1> PICK o : o = Ordered(s)
    OBVIOUS
  <1>1. DOMAIN o = 1 .. n
    BY DEF Ordered
  <1>2. ASSUME NEW k \in 1 .. n
        PROVE  /\ o[k] \in Nat
               /\ Cardinality(Below(s, o[k])) < k
               /\ Cardinality(UpTo(s, o[k])) >= k
    <2> DEFINE Right(v) == Cardinality(Below(s, v)) < k /\ Cardinality(UpTo(s, v)) >= k
    <2>1. o[k] = CHOOSE v \in ToSet(s) : Right(v)
      BY DEF Ordered
    <2>2. \E v \in ToSet(s) : Right(v)
      BY Ranked
    <2>3. o[k] \in ToSet(s) /\ Right(o[k])
      <3> HIDE DEF Right
      <3> QED BY <2>1, <2>2
    <2>4. ToSet(s) \subseteq Nat
      BY DEF ToSet
    <2> QED BY <2>3, <2>4
  <1>3. ASSUME NEW j \in 1 .. n, NEW k \in 1 .. n, j <= k PROVE o[j] <= o[k]
    <2> SUFFICES ASSUME o[k] < o[j] PROVE FALSE
      BY <1>2
    <2>1. PICK a, b : a = Cardinality(UpTo(s, o[k])) /\ b = Cardinality(Below(s, o[j]))
      OBVIOUS
    <2>2. a <= b
      BY <1>2, <2>1, Counts
    <2>3. a >= k /\ b < j
      <3>1. Cardinality(UpTo(s, o[k])) >= k
        BY <1>2
      <3>2. Cardinality(Below(s, o[j])) < j
        BY <1>2
      <3> QED BY <2>1, <3>1, <3>2
    <2>4. a \in Nat /\ b \in Nat
      <3>1. o[j] \in Nat /\ o[k] \in Nat
        BY <1>2
      <3>2. Cardinality(UpTo(s, o[k])) \in 0 .. n /\ Cardinality(Below(s, o[j])) \in 0 .. n
        BY <3>1, Counts
      <3> QED BY <2>1, <3>2
    <2> QED BY <1>3, <2>2, <2>3, <2>4
  <1>4. o \in [1 .. n -> Nat]
    <2>1. o = [k \in 1 .. n |-> o[k]]
      BY DEF Ordered
    <2> QED BY <1>2, <2>1
  <1>5. Len(o) = n
    BY <1>4
  <1> QED BY <1>2, <1>3, <1>4, <1>5

(* Where a percentile falls among the n samples in order.                  *)
Falls(n, permille, lower, fraction) ==
    /\ n \in Nat \ {0} /\ permille \in 1 .. 999
    /\ lower = ((n - 1) * permille) \div 1000
    /\ fraction = ((n - 1) * permille) % 1000

Placed(n, permille, lower, fraction) ==
           /\ lower \in Nat /\ fraction \in 0 .. 999
           /\ (n - 1) * permille \in Nat
           /\ (n - 1) * permille = 1000 * lower + fraction
           /\ (n - 1) * (1000 - permille) = 1000 * (n - 1) - (n - 1) * permille
           /\ lower + 1 \in 1 .. n
           /\ fraction # 0 => lower + 2 \in 1 .. n

LEMMA Place ==
    ASSUME NEW n, NEW permille, NEW lower, NEW fraction, Falls(n, permille, lower, fraction)
    PROVE  Placed(n, permille, lower, fraction)
  <1> n \in Nat \ {0} /\ permille \in 1 .. 999
    BY DEF Falls
  <1> PICK position : position = (n - 1) * permille
    OBVIOUS
  <1>1. n - 1 \in Nat
    OBVIOUS
  <1> PICK last : last = n - 1
    OBVIOUS
  <1>2. position \in Nat /\ last \in Nat /\ position = last * permille
    BY <1>1
  <1>3. last * (999 - permille) >= 0 /\ last * (999 - permille) = last * 999 - last * permille
    BY <1>2
  <1>4. position <= 999 * last
    BY <1>2, <1>3
  <1>5. lower = position \div 1000 /\ fraction = position % 1000
    BY DEF Falls
  <1>6. lower \in Nat /\ fraction \in 0 .. 999 /\ position = 1000 * lower + fraction
    BY <1>2, <1>5
  <1>7. lower <= last /\ (fraction # 0 => lower + 1 <= last)
    BY <1>2, <1>4, <1>6
  <1>8. last * (1000 - permille) = 1000 * last - last * permille
    BY <1>2
  <1>9. lower + 1 \in 1 .. n /\ (fraction # 0 => lower + 2 \in 1 .. n)
    BY <1>2, <1>6, <1>7
  <1> QED BY <1>2, <1>6, <1>8, <1>9 DEF Placed

(* The value lies between two neighbours, or on a sample.                  *)
LEMMA NaturalProduct ==
    ASSUME NEW d \in Nat, NEW f \in Nat
    PROVE  d * f \in Nat
  OBVIOUS

Graded(a, b, f, g) ==
           /\ a * 1000 + (b - a) * f \in Nat
           /\ a * 1000 <= a * 1000 + (b - a) * f
           /\ a * 1000 + (b - a) * f <= b * 1000
           /\ a * 1000 + (b - a) * f <= a * 1000 + (b - a) * g

Gradable(a, b, f, g) ==
    a \in Nat /\ b \in Nat /\ a <= b /\ f \in 0 .. 999 /\ g \in 0 .. 999 /\ f <= g

LEMMA Between ==
    ASSUME NEW a, NEW b, NEW f, NEW g, Gradable(a, b, f, g)
    PROVE  Graded(a, b, f, g)
  <1> a \in Nat /\ b \in Nat /\ a <= b /\ f \in 0 .. 999 /\ g \in 0 .. 999 /\ f <= g
    BY DEF Gradable
  <1> PICK d : d = b - a
    OBVIOUS
  <1>1. d \in Nat /\ b = a + d
    OBVIOUS
  <1>2. f \in Nat /\ g \in Nat /\ g - f \in Nat /\ 1000 - f \in Nat
    OBVIOUS
  <1>3. d * f \in Nat /\ d * g \in Nat
    BY <1>1, <1>2, NaturalProduct
  <1>4. d * (g - f) \in Nat /\ d * (1000 - f) \in Nat
    <2>1. PICK u, v : u = g - f /\ v = 1000 - f
      OBVIOUS
    <2>2. u \in Nat /\ v \in Nat
      BY <1>2, <2>1
    <2>3. d * u \in Nat /\ d * v \in Nat
      BY <1>1, <2>2, NaturalProduct
    <2> QED BY <2>1, <2>3
  <1>5. d * (g - f) = d * g - d * f /\ d * (1000 - f) = d * 1000 - d * f
    BY <1>1, <1>2
  <1>6. PICK x, y : x = d * f /\ y = d * g
    OBVIOUS
  <1>7. x \in Nat /\ y \in Nat /\ x <= y /\ x <= d * 1000
    BY <1>1, <1>3, <1>4, <1>5, <1>6
  <1>8. /\ a * 1000 + x \in Nat /\ a * 1000 <= a * 1000 + x
        /\ a * 1000 + x <= b * 1000 /\ a * 1000 + x <= a * 1000 + y
    BY <1>1, <1>7
  <1>9. a * 1000 + d * f \in Nat
        /\ a * 1000 <= a * 1000 + d * f
        /\ a * 1000 + d * f <= b * 1000
        /\ a * 1000 + d * f <= a * 1000 + d * g
    BY <1>6, <1>8
  <1> QED BY <1>9 DEF Graded

Stands(value, n, s, o, permille) ==
    s \in [1 .. n -> Nat] /\ o = Ordered(s) /\ value = Percentile(o, permille)

Settled(value, o, lower, fraction) ==
    /\ value \in Nat /\ o[lower + 1] \in Nat
    /\ o[lower + 1] * 1000 <= value
    /\ fraction = 0 => value = o[lower + 1] * 1000
    /\ fraction # 0 =>
          /\ o[lower + 2] \in Nat /\ o[lower + 1] <= o[lower + 2]
          /\ value <= o[lower + 2] * 1000
          /\ value = o[lower + 1] * 1000 + (o[lower + 2] - o[lower + 1]) * fraction

LEMMA Valued ==
    ASSUME NEW n, NEW s, NEW permille, NEW lower, NEW fraction, NEW o, NEW value,
           Falls(n, permille, lower, fraction), Stands(value, n, s, o, permille)
    PROVE  Settled(value, o, lower, fraction)
  <1> n \in Nat \ {0} /\ s \in [1 .. n -> Nat] /\ o = Ordered(s)
    BY DEF Falls, Stands
  <1>1. /\ o \in [1 .. n -> Nat] /\ Len(o) = n
        /\ \A j, k \in 1 .. n : j <= k => o[j] <= o[k]
    BY InOrder
  <1>2. /\ lower \in Nat /\ fraction \in 0 .. 999 /\ lower + 1 \in 1 .. n
        /\ fraction # 0 => lower + 2 \in 1 .. n
    <2>1. Placed(n, permille, lower, fraction)
      BY Place
    <2> QED BY <2>1 DEF Placed
  <1>3. value = IF fraction = 0 THEN o[lower + 1] * 1000
                ELSE o[lower + 1] * 1000 + (o[lower + 2] - o[lower + 1]) * fraction
    BY <1>1 DEF Percentile, Stands, Falls
  <1>4. CASE fraction = 0
    <2>1. o[lower + 1] \in Nat
      BY <1>1, <1>2
    <2> QED BY <1>3, <1>4, <2>1 DEF Settled
  <1>5. CASE fraction # 0
    <2>1. o[lower + 1] \in Nat /\ o[lower + 2] \in Nat /\ o[lower + 1] <= o[lower + 2]
      BY <1>1, <1>2, <1>5
    <2>2. Gradable(o[lower + 1], o[lower + 2], fraction, fraction)
      BY <1>2, <2>1 DEF Gradable
    <2>3. Graded(o[lower + 1], o[lower + 2], fraction, fraction)
      BY <2>2, Between
    <2> QED BY <1>3, <1>5, <2>1, <2>3 DEF Settled, Graded
  <1> QED BY <1>4, <1>5

LEMMA PercentileSplits ==
    ASSUME NEW n \in Nat \ {0}, NEW s \in [1 .. n -> Nat], Len(s) = n, NEW permille \in 1 .. 999
    PROVE  Splits(s, Percentile(Ordered(s), permille), permille)
  <1> PICK lower, fraction : Falls(n, permille, lower, fraction)
    BY DEF Falls
  <1> PICK o : o = Ordered(s)
    OBVIOUS
  <1> PICK value : Stands(value, n, s, o, permille)
    BY DEF Stands
  <1>1. /\ lower \in Nat /\ fraction \in 0 .. 999 /\ lower + 1 \in 1 .. n
        /\ (n - 1) * permille \in Nat
        /\ (n - 1) * permille = 1000 * lower + fraction
        /\ (n - 1) * (1000 - permille) = 1000 * (n - 1) - (n - 1) * permille
        /\ fraction # 0 => lower + 2 \in 1 .. n
    <2>1. Placed(n, permille, lower, fraction)
      BY Place
    <2> QED BY <2>1 DEF Placed
  <1>2. /\ value \in Nat /\ o[lower + 1] \in Nat
        /\ o[lower + 1] * 1000 <= value
        /\ fraction = 0 => value = o[lower + 1] * 1000
        /\ fraction # 0 => o[lower + 2] \in Nat /\ value <= o[lower + 2] * 1000
    <2>1. Settled(value, o, lower, fraction)
      BY Valued
    <2> QED BY <2>1 DEF Settled
  <1>3. \A k \in 1 .. n : Cardinality(Below(s, o[k])) < k /\ Cardinality(UpTo(s, o[k])) >= k
                          /\ o[k] \in Nat
    BY InOrder
  <1> DEFINE Lower == {i \in DOMAIN s : s[i] * 1000 <= value}
             Upper == {i \in DOMAIN s : s[i] * 1000 >= value}
  <1>4. Lower \in SUBSET (1 .. n) /\ Upper \in SUBSET (1 .. n)
    OBVIOUS
  <1>5. Cardinality(Lower) * 1000 > (n - 1) * permille
    <2>1. UpTo(s, o[lower + 1]) \in SUBSET Lower
      <3>1. ASSUME NEW i \in 1 .. n, s[i] <= o[lower + 1] PROVE s[i] * 1000 <= value
        BY <1>2, <3>1
      <3> QED BY <3>1 DEF UpTo
    <2> HIDE DEF Lower, Upper
    <2>2. Cardinality(UpTo(s, o[lower + 1])) <= Cardinality(Lower)
          /\ Cardinality(UpTo(s, o[lower + 1])) \in Nat /\ Cardinality(Lower) \in 0 .. n
      BY <1>4, <2>1, Counted
    <2>3. PICK c : c = Cardinality(Lower)
      OBVIOUS
    <2>4. c \in Nat /\ c >= lower + 1
      BY <1>1, <1>3, <2>2, <2>3
    <2>5. c * 1000 > 1000 * lower + fraction
      BY <1>1, <2>4
    <2> QED BY <1>1, <2>3, <2>5
  <1>6. Cardinality(Upper) * 1000 > (n - 1) * (1000 - permille)
    <2>1. PICK m : m = IF fraction = 0 THEN lower + 1 ELSE lower + 2
      OBVIOUS
    <2>2. m \in 1 .. n /\ o[m] \in Nat /\ value <= o[m] * 1000
      BY <1>1, <1>2, <2>1
    <2>3. 1 .. n \ Below(s, o[m]) \in SUBSET Upper
      <3>1. ASSUME NEW i \in 1 .. n, ~(s[i] < o[m]) PROVE s[i] * 1000 >= value
        BY <1>2, <2>2, <3>1
      <3> QED BY <3>1 DEF Below
    <2>4. PICK below : below = Below(s, o[m])
      OBVIOUS
    <2> HIDE DEF Lower, Upper
    <2>5. below \in SUBSET (1 .. n) /\ Cardinality(below) < m
      <3>1. Cardinality(Below(s, o[m])) < m
        <4>1. \A k \in 1 .. n : Cardinality(Below(s, o[k])) < k
          BY <1>3
        <4>2. m \in 1 .. n
          BY <2>2
        <4> QED BY <4>1, <4>2
      <3>2. Below(s, o[m]) \in SUBSET (1 .. n)
        <4>1. DOMAIN s = 1 .. n
          OBVIOUS
        <4> QED BY <4>1 DEF Below
      <3> QED BY <2>4, <3>1, <3>2
    <2>6. Cardinality(1 .. n \ below) = n - Cardinality(below) /\ Cardinality(below) \in 0 .. n
      BY <2>5, Counted
    <2>7. Cardinality(1 .. n \ below) <= Cardinality(Upper) /\ Cardinality(Upper) \in 0 .. n
      BY <1>4, <2>3, <2>4, Counted
    <2>8. PICK c, b : c = Cardinality(Upper) /\ b = Cardinality(below)
      OBVIOUS
    <2>9. c \in Nat /\ c >= n - m + 1
      BY <2>2, <2>5, <2>6, <2>7, <2>8
    <2>10. c * 1000 > 1000 * (n - 1) - (1000 * lower + fraction)
      BY <1>1, <2>1, <2>9
    <2> QED BY <1>1, <2>8, <2>10
  <1> QED BY <1>5, <1>6 DEF Splits, AtMost, AtLeast, Stands

Levels(p, q) == p \in 1 .. 999 /\ q \in 1 .. 999 /\ p <= q

LEMMA PercentilesInOrder ==
    ASSUME NEW n \in Nat \ {0}, NEW s \in [1 .. n -> Nat], NEW p, NEW q, Levels(p, q)
    PROVE  /\ Percentile(Ordered(s), p) <= Percentile(Ordered(s), q)
           /\ Percentile(Ordered(s), q) <= Ordered(s)[n] * 1000
  <1> p \in 1 .. 999 /\ q \in 1 .. 999 /\ p <= q
    BY DEF Levels
  <1> PICK l, f : Falls(n, p, l, f)
    BY DEF Falls
  <1> PICK m, g : Falls(n, q, m, g)
    BY DEF Falls
  <1> PICK o : o = Ordered(s)
    OBVIOUS
  <1> PICK x, y : Stands(x, n, s, o, p) /\ Stands(y, n, s, o, q)
    BY DEF Stands
  <1>11. Placed(n, p, l, f) /\ Placed(n, q, m, g)
    BY Place
  <1>12. (n - 1) * p = 1000 * l + f /\ (n - 1) * q = 1000 * m + g
    BY <1>11 DEF Placed
  <1>14. l \in Nat /\ m \in Nat /\ f \in 0 .. 999 /\ g \in 0 .. 999
    BY <1>11 DEF Placed
  <1>1. l \in Nat /\ f \in 0 .. 999 /\ l + 1 \in 1 .. n /\ (f # 0 => l + 2 \in 1 .. n)
    BY <1>11 DEF Placed
  <1>2. m \in Nat /\ g \in 0 .. 999 /\ m + 1 \in 1 .. n /\ (g # 0 => m + 2 \in 1 .. n)
    BY <1>11 DEF Placed
  <1>3. /\ o \in [1 .. n -> Nat]
        /\ \A j, k \in 1 .. n : j <= k => o[j] <= o[k]
    BY InOrder
  <1>13. Settled(x, o, l, f) /\ Settled(y, o, m, g)
    BY Valued
  <1>4. /\ x \in Nat /\ o[l + 1] * 1000 <= x
        /\ f = 0 => x = o[l + 1] * 1000
        /\ f # 0 => /\ o[l + 2] \in Nat /\ o[l + 1] <= o[l + 2]
                    /\ x <= o[l + 2] * 1000
                    /\ x = o[l + 1] * 1000 + (o[l + 2] - o[l + 1]) * f
    BY <1>13 DEF Settled
  <1>5. /\ y \in Nat /\ o[m + 1] * 1000 <= y
        /\ g = 0 => y = o[m + 1] * 1000
        /\ g # 0 => /\ o[m + 2] \in Nat /\ o[m + 1] <= o[m + 2]
                    /\ y <= o[m + 2] * 1000
                    /\ y = o[m + 1] * 1000 + (o[m + 2] - o[m + 1]) * g
    BY <1>13 DEF Settled
  <1>6. 1000 * l + f <= 1000 * m + g
    <2>1. n - 1 \in Nat /\ q - p \in Nat
      OBVIOUS
    <2>2. (n - 1) * (q - p) \in Nat
      <3>1. PICK c, d : c = n - 1 /\ d = q - p
        OBVIOUS
      <3>2. c \in Nat /\ d \in Nat
        BY <2>1, <3>1
      <3>3. c * d \in Nat
        BY <3>2, NaturalProduct
      <3> QED BY <3>1, <3>3
    <2>3. (n - 1) * (q - p) = (n - 1) * q - (n - 1) * p
      BY <2>1
    <2>4. PICK u, v : u = (n - 1) * p /\ v = (n - 1) * q
      OBVIOUS
    <2>5. v - u \in Nat /\ u = 1000 * l + f /\ v = 1000 * m + g
      BY <1>12, <2>2, <2>3, <2>4
    <2> QED BY <1>1, <1>2, <2>5
  <1>7. ASSUME l = m PROVE x <= y
    <2>1. f <= g
      BY <1>14, <1>6, <1>7
    <2>2. CASE f = 0
      BY <1>4, <1>5, <1>7, <2>2
    <2>3. CASE f # 0
      <3>1. g # 0
        <4>1. f \in 0 .. 999 /\ g \in 0 .. 999
          BY <1>14
        <4>2. f > 0
          BY <2>3, <4>1
        <4> QED BY <2>1, <4>1, <4>2
      <3>2. o[l + 1] \in Nat /\ o[l + 2] \in Nat /\ o[l + 1] <= o[l + 2]
        BY <1>1, <1>3, <1>4, <2>3
      <3>3. Gradable(o[l + 1], o[l + 2], f, g)
        BY <1>1, <1>2, <2>1, <3>2 DEF Gradable
      <3>4. Graded(o[l + 1], o[l + 2], f, g)
        BY <3>3, Between
      <3> QED BY <1>4, <1>5, <1>7, <2>3, <3>1, <3>4 DEF Graded
    <2> QED BY <2>2, <2>3
  <1>8. ASSUME l # m PROVE x <= y
    <2>1. l + 1 <= m
      <3>1. l \in Nat /\ m \in Nat
        BY <1>14
      <3>2. l < m \/ m + 1 <= l
        BY <1>8, <3>1
      <3>3. ASSUME m + 1 <= l PROVE FALSE
        <4>1. f >= 0 /\ f \in Int /\ g \in Int /\ g < 1000
          BY <1>14
        <4>2. 1000 * m + 1000 <= 1000 * l
          BY <3>1, <3>3
        <4> QED BY <1>6, <3>1, <4>1, <4>2
      <3> QED BY <3>1, <3>2, <3>3
    <2>2. CASE f = 0
      <3>1. l + 1 \in 1 .. n /\ m + 1 \in 1 .. n /\ l + 1 <= m + 1
        BY <1>1, <1>2, <2>1
      <3>2. o[l + 1] <= o[m + 1] /\ o[l + 1] \in Nat /\ o[m + 1] \in Nat
        BY <1>3, <3>1
      <3> QED BY <1>4, <1>5, <2>2, <3>2
    <2>3. CASE f # 0
      <3>1. l + 2 \in 1 .. n /\ m + 1 \in 1 .. n /\ l + 2 <= m + 1
        BY <1>1, <1>2, <2>1, <2>3
      <3>2. o[l + 2] <= o[m + 1] /\ o[l + 2] \in Nat /\ o[m + 1] \in Nat
        BY <1>3, <3>1
      <3> QED BY <1>4, <1>5, <2>3, <3>2
    <2> QED BY <2>2, <2>3
  <1>9. y <= o[n] * 1000
    <2>1. CASE g = 0
      <3>1. o[m + 1] <= o[n] /\ o[m + 1] \in Nat /\ o[n] \in Nat
        BY <1>2, <1>3
      <3> QED BY <1>5, <2>1, <3>1
    <2>2. CASE g # 0
      <3>1. o[m + 2] <= o[n] /\ o[m + 2] \in Nat /\ o[n] \in Nat
        BY <1>2, <1>3, <2>2
      <3> QED BY <1>5, <2>2, <3>1
    <2> QED BY <2>1, <2>2
  <1>10. x <= y
    BY <1>7, <1>8
  <1> QED BY <1>9, <1>10 DEF Stands

(* calculate_latency_percentiles (latency.py:25-55): each percentile has   *)
(* its share of the samples on either side, and they come in order up to   *)
(* the largest sample.                                                     *)
THEOREM PercentilesAreRanks == LatencySpec => []PercentilesSplitTheSamples
  <1>1. LatencyInv => PercentilesSplitTheSamples
    <2> SUFFICES ASSUME LatencyInv, Measured PROVE PercentilesSplitTheSamples
      BY DEF PercentilesSplitTheSamples
    <2> PICK n : n = order_count
      OBVIOUS
    <2> PICK s : s = latencies
      OBVIOUS
    <2>1. n \in Nat \ {0} /\ s \in [1 .. n -> Nat] /\ Len(s) = n
      <3>1. n \in Nat \ {0} /\ Len(s) = n
        BY DEF LatencyInv, Measured
      <3>2. s \in Seq(Latencies)
        BY DEF LatencyInv
      <3>3. s \in [1 .. Len(s) -> Latencies]
        BY <3>2
      <3>4. \A i \in 1 .. Len(s) : s[i] \in Nat
        BY <3>3, LatenciesAssumption
      <3> QED BY <3>1, <3>3, <3>4
    <2> PICK a, b, c : a = 500 /\ b = 990 /\ c = 999
      OBVIOUS
    <2>4. a \in 1 .. 999 /\ b \in 1 .. 999 /\ c \in 1 .. 999
      OBVIOUS
    <2>5. Levels(a, b) /\ Levels(b, c)
      BY DEF Levels
    <2>2. Splits(s, Percentile(Ordered(s), a), a) /\ Splits(s, Percentile(Ordered(s), b), b)
          /\ Splits(s, Percentile(Ordered(s), c), c)
      BY <2>1, <2>4, PercentileSplits
    <2>3. /\ Percentile(Ordered(s), a) <= Percentile(Ordered(s), b)
          /\ Percentile(Ordered(s), b) <= Percentile(Ordered(s), c)
          /\ Percentile(Ordered(s), c) <= Ordered(s)[n] * 1000
      BY <2>1, <2>5, PercentilesInOrder
    <2> QED BY <2>2, <2>3 DEF PercentilesSplitTheSamples, P50, P99, P999
  <1> QED BY <1>1, LatencyInvHolds, PTL

===============================================================================
