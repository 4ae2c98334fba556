------------------------------- MODULE CancelRatio -------------------------------
(***************************************************************************)
(* detect_high_cancel_ratio of fixgateway/surveillance/pattern_detector.py: *)
(* one pass over the events of one group (a trader in a symbol; groups     *)
(* share nothing) with a window whose left end only moves forward and a    *)
(* count of the cancels in it that is kept up to date.                     *)
(*                                                                         *)
(* The events come sorted by time, those of one time in any order.  Times  *)
(* are whole milliseconds, the threshold is a fraction.                    *)
(***************************************************************************)
EXTENDS Integers, Sequences, FiniteSets

CONSTANTS
    WindowMs,
    MinActions,
    ThresholdNum, ThresholdDen,
    MaxEvents,      \* events in the group (bound)
    LastEventMs     \* time of the last of them at most (bound)

ASSUME WindowAssumption == WindowMs \in Nat \ {0}

ASSUME MinActionsAssumption == MinActions \in Nat \ {0}

ASSUME ThresholdAssumption ==
    ThresholdDen \in Nat \ {0} /\ ThresholdNum \in 0 .. ThresholdDen

ASSUME EventBoundsAssumption == MaxEvents \in Nat /\ LastEventMs \in Nat

VARIABLES
    group,          \* the events read so far
    left,           \* where the window starts
    cancel_count,
    alerts,         \* LayeringLikeMatch, one per suspicious window
    judging         \* in the body of the loop, at the inner while

ratioVars == <<group, left, cancel_count, alerts, judging>>

Action == {"place", "fill", "cancel"}

RatioInit ==
    /\ group = <<>>
    /\ left = 1
    /\ cancel_count = 0
    /\ alerts = {}
    /\ judging = FALSE

Canceling(i) == group[i].action = "cancel"

LatestTime == IF group = <<>> THEN 0 ELSE group[Len(group)].time

(* for right, event in enumerate(group): count it.                         *)
ReadEvent(action, time) ==
    /\ ~judging
    /\ Len(group) < MaxEvents
    /\ time >= LatestTime
    /\ group' = Append(group, [action |-> action, time |-> time])
    /\ cancel_count' = cancel_count + (IF action = "cancel" THEN 1 ELSE 0)
    /\ judging' = TRUE
    /\ UNCHANGED <<left, alerts>>

Outgrown == group[Len(group)].time - group[left].time > WindowMs

(* Mutant: the cancels that leave the window stay counted.                 *)
SlideUncounted ==
    /\ judging
    /\ Outgrown
    /\ left' = left + 1
    /\ UNCHANGED <<group, cancel_count, alerts, judging>>

(* A turn of the inner while.                                              *)
Slide ==
    /\ judging
    /\ Outgrown
    /\ cancel_count' = cancel_count - (IF Canceling(left) THEN 1 ELSE 0)
    /\ left' = left + 1
    /\ UNCHANGED <<group, alerts, judging>>

Alert(right, start, cancels) ==
    [right |-> right, start |-> start, cancels |-> cancels, total |-> right - start + 1]

Excessive(alert) ==
    /\ alert.total >= MinActions
    /\ alert.cancels * ThresholdDen > ThresholdNum * alert.total

Judge ==
    /\ judging
    /\ ~Outgrown
    /\ LET alert == Alert(Len(group), left, cancel_count)
       IN  alerts' = IF Excessive(alert) THEN alerts \cup {alert} ELSE alerts
    /\ judging' = FALSE
    /\ UNCHANGED <<group, left, cancel_count>>

RatioNext ==
    \/ \E action \in Action, time \in 0 .. LastEventMs : ReadEvent(action, time)
    \/ Slide
    \/ Judge

RatioSpec == RatioInit /\ [][RatioNext]_ratioVars

-------------------------------------------------------------------------------
RatioTypeOK ==
    /\ group \in Seq([action : Action, time : Nat])
    /\ left \in Nat \ {0}
    /\ cancel_count \in Int
    /\ judging \in BOOLEAN
    /\ \A alert \in alerts : alert.right \in DOMAIN group

(* What an alert stands for, by definition: the events up to one of them   *)
(* that are at most window_ms older than it.                               *)
Window(right) ==
    {i \in 1 .. right : group[right].time - group[i].time <= WindowMs}

CancelsIn(events) == Cardinality({i \in events : Canceling(i)})

Suspicious(right) ==
    /\ Cardinality(Window(right)) >= MinActions
    /\ CancelsIn(Window(right)) * ThresholdDen > ThresholdNum * Cardinality(Window(right))

Judged == IF judging THEN 1 .. Len(group) - 1 ELSE 1 .. Len(group)

(* The events that end a suspicious trailing window are exactly those an   *)
(* alert is given for, once, and each alert bears the numbers of actions   *)
(* and of cancels in its window: the counts carried along the pass never   *)
(* drift from the window, whatever leaves it together.                     *)
AlertsAreTheSuspicious ==
    /\ {alert.right : alert \in alerts} = {right \in Judged : Suspicious(right)}
    /\ \A alert \in alerts :
          /\ Window(alert.right) = alert.start .. alert.right
          /\ alert.cancels = CancelsIn(Window(alert.right))
          /\ alert.total = Cardinality(Window(alert.right))

===============================================================================
