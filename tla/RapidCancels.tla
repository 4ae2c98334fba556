------------------------------ MODULE RapidCancels ------------------------------
(***************************************************************************)
(* detect_quote_stuffing_or_spoofing of                                    *)
(* fixgateway/surveillance/pattern_detector.py: one pass over the events   *)
(* of all traders that remembers, of each order, the placement it saw last *)
(* and whether it has been filled since.                                   *)
(*                                                                         *)
(* An order is known by trader and order id: Keys.  An id may be placed    *)
(* again, while its order is active too.  Events come sorted by time;      *)
(* times are whole milliseconds.                                           *)
(***************************************************************************)
EXTENDS Integers, Sequences

CONSTANTS
    Keys,
    SpoofWindowMs,          \* window_ms
    CancelThresholdMs,
    TimelineLength,         \* events at most (bound)
    TimelineMs              \* time of the last of them at most (bound)

ASSUME SpoofLimitsAssumption ==
    SpoofWindowMs \in Nat \ {0} /\ CancelThresholdMs \in Nat

ASSUME TimelineAssumption == TimelineLength \in Nat /\ TimelineMs \in Nat

VARIABLES
    timeline,       \* the events read so far
    active_orders,  \* key -> [placement, had_fill]; placement: where in timeline
    spoofs          \* SpoofingLikeMatch: <<placement, cancel>>

spoofVars == <<timeline, active_orders, spoofs>>

(* No more than this is ever remembered of an order.                       *)
Remembered == [placement : Nat \ {0}, had_fill : BOOLEAN]

SpoofInit ==
    /\ timeline = <<>>
    /\ active_orders = [key \in {} |-> 0]
    /\ spoofs = {}

Now == IF timeline = <<>> THEN 0 ELSE timeline[Len(timeline)].time

Happens(action, key, time) ==
    /\ Len(timeline) < TimelineLength
    /\ time >= Now
    /\ timeline' = Append(timeline, [action |-> action, key |-> key, time |-> time])

Here == Len(timeline) + 1

Active(key) == key \in DOMAIN active_orders

With(orders, key, order) ==
    [k \in DOMAIN orders \cup {key} |-> IF k = key THEN order ELSE orders[k]]

Without(orders, key) == [k \in DOMAIN orders \ {key} |-> orders[k]]

(* Mutant: an order that is placed again keeps its first placement.        *)
SeePlaceOnce(key, time) ==
    /\ Happens("place", key, time)
    /\ active_orders' =
          IF Active(key) THEN active_orders
          ELSE With(active_orders, key, [placement |-> Here, had_fill |-> FALSE])
    /\ UNCHANGED spoofs

SeePlace(key, time) ==
    /\ Happens("place", key, time)
    /\ active_orders' =
          With(active_orders, key, [placement |-> Here, had_fill |-> FALSE])
    /\ UNCHANGED spoofs

SeeFill(key, time) ==
    /\ Happens("fill", key, time)
    /\ active_orders' =
          IF Active(key)
          THEN [active_orders EXCEPT ![key].had_fill = TRUE]
          ELSE active_orders
    /\ UNCHANGED spoofs

Rapid(placed_at, canceled_at) ==
    /\ canceled_at - placed_at <= SpoofWindowMs
    /\ canceled_at - placed_at <= CancelThresholdMs

SeeCancel(key, time) ==
    /\ Happens("cancel", key, time)
    /\ Active(key)
    /\ active_orders' = Without(active_orders, key)
    /\ spoofs' =
          IF /\ ~active_orders[key].had_fill
             /\ Rapid(timeline[active_orders[key].placement].time, time)
          THEN spoofs \cup {<<active_orders[key].placement, Here>>}
          ELSE spoofs

SeeStrayCancel(key, time) ==
    /\ Happens("cancel", key, time)
    /\ ~Active(key)
    /\ UNCHANGED <<active_orders, spoofs>>

SpoofNext ==
    \E key \in Keys, time \in 0 .. TimelineMs :
        \/ SeePlace(key, time)
        \/ SeeFill(key, time)
        \/ SeeCancel(key, time)
        \/ SeeStrayCancel(key, time)

SpoofSpec == SpoofInit /\ [][SpoofNext]_spoofVars

-------------------------------------------------------------------------------
SpoofTypeOK ==
    /\ timeline \in Seq([action : {"place", "fill", "cancel"}, key : Keys, time : Nat])
    /\ active_orders \in [DOMAIN active_orders -> Remembered]
    /\ DOMAIN active_orders \subseteq Keys
    /\ spoofs \subseteq (Nat \X Nat)

(* What the docstring promises, by definition, of a placement p and a      *)
(* cancel c of the same order: c is within both limits of p, p is the      *)
(* latest placement before c, and neither a fill nor another cancel came   *)
(* between.                                                                *)
IsSpoof(p, c) ==
    /\ p < c
    /\ timeline[p].action = "place"
    /\ timeline[c].action = "cancel"
    /\ timeline[p].key = timeline[c].key
    /\ Rapid(timeline[p].time, timeline[c].time)
    /\ \A i \in p + 1 .. c - 1 : timeline[i].key # timeline[p].key

(* The matches of the pass are exactly these, however ids are used again,  *)
(* filled late or canceled twice, and whatever other orders do in between. *)
SpoofsAreTheRapidUnfilled ==
    spoofs = {pc \in (DOMAIN timeline) \X (DOMAIN timeline) : IsSpoof(pc[1], pc[2])}

===============================================================================
