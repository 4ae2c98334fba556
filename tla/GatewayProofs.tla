----------------------------- MODULE GatewayProofs -----------------------------
(***************************************************************************)
(* What a client may believe of its orders, for any clients, connections,  *)
(* requests, retries, chaos and faults.                                    *)
(*                                                                         *)
(* The exchange numbers its reports: no two share an ExecID.  So what a    *)
(* client has processed of an order is a set of its reports, each of which *)
(* moved the client's machine at most once.  Which state the machine is in *)
(* depends on that set alone, not on the order in which it came in         *)
(* (Follows).  The reports of an order are the arcs of its history, whence *)
(* ClientNeverAhead; a client that has read all of them is in the state of *)
(* the book, whence ClientAgrees.                                          *)
(***************************************************************************)
EXTENDS Gateway, MockExchangeProofs, FiniteSetTheorems

-------------------------------------------------------------------------------
(* The state of an order as a function of what happened to it.             *)

StateOf(events) ==
    IF "FULL_FILL" \in events THEN "FILLED"
    ELSE IF "CANCEL_CONFIRMED" \in events THEN "CANCELED"
    ELSE IF "PARTIAL_FILL" \in events THEN "PARTIALLY_FILLED"
    ELSE "NEW"

(* An arc to a terminal state is the last of a history.                    *)
LEMMA TerminalArcIsLast ==
    ASSUME NEW order, GoodOrder(order), NEW i \in 1 .. Len(order.history),
           order.history[i].to \in TERMINAL_STATES
    PROVE  i = Len(order.history) /\ order.state = order.history[i].to
  <1> DEFINE h == order.history
  <1>1. /\ h \in Seq(TRANSITIONS) /\ Len(h) \in Nat
        /\ \A k \in 1 .. Len(h) - 1 : h[k].to = h[k + 1].from
        /\ h[Len(h)].to = order.state
    BY DEF GoodOrder, HistoryExplains, Order
  <1>2. ASSUME i # Len(h)
        PROVE  FALSE
    <2>1. i \in 1 .. Len(h) - 1 /\ i + 1 \in 1 .. Len(h)
      BY <1>1, <1>2
    <2>2. h[i + 1] \in TRANSITIONS
      BY <1>1, <2>1
    <2>3. h[i + 1].from \in {"NEW", "PARTIALLY_FILLED"}
      BY <2>2, ArcShape
    <2> QED BY <1>1, <2>1, <2>3 DEF TERMINAL_STATES
  <1> QED BY <1>1, <1>2

(* An order that was filled was not canceled.                              *)
LEMMA FilledOrCanceled ==
    ASSUME NEW order, GoodOrder(order),
           NEW i \in 1 .. Len(order.history), order.history[i].event = "FULL_FILL",
           NEW j \in 1 .. Len(order.history), order.history[j].event = "CANCEL_CONFIRMED"
    PROVE  FALSE
  <1>1. order.history \in Seq(TRANSITIONS)
    BY DEF GoodOrder, Order
  <1>2. order.history[i].to = "FILLED" /\ order.history[j].to = "CANCELED"
    BY <1>1, ArcShape
  <1> QED BY <1>2, TerminalArcIsLast DEF TERMINAL_STATES

(* An order is PARTIALLY_FILLED from its first partial fill until it ends. *)
LEMMA PartialFillsShow ==
    ASSUME NEW order, GoodOrder(order), order.state \in {"NEW", "PARTIALLY_FILLED"}
    PROVE  order.state = "PARTIALLY_FILLED" <=>
             \E i \in 1 .. Len(order.history) : order.history[i].event = "PARTIAL_FILL"
  <1> DEFINE h == order.history
  <1>1. /\ h \in Seq(TRANSITIONS) /\ Len(h) \in Nat /\ Len(h) > 0
        /\ h[1] = Arc("NEW", "ACK", "NEW")
        /\ \A k \in 1 .. Len(h) - 1 : h[k].to = h[k + 1].from
        /\ h[Len(h)].to = order.state
    BY DEF GoodOrder, HistoryExplains, Order
  <1>2. ASSUME NEW k \in 1 .. Len(h)
        PROVE  /\ h[k].event = "PARTIAL_FILL" => h[k].to = "PARTIALLY_FILLED"
               /\ h[k].to = "NEW" => h[k].from = "NEW"
               /\ h[k].to = "PARTIALLY_FILLED" =>
                     h[k].event = "PARTIAL_FILL" \/ h[k].from = "PARTIALLY_FILLED"
    BY <1>1, ArcShape
  <1>3. \A k \in 2 .. Len(h) : k - 1 \in 1 .. Len(h) /\ h[k - 1].to = h[k].from
    <2> TAKE k \in 2 .. Len(h)
    <2>1. k - 1 \in 1 .. Len(h) - 1 /\ (k - 1) + 1 = k
      BY <1>1
    <2> QED BY <1>1, <2>1
  <1> HIDE DEF h
  <1>4. ASSUME NEW i \in 1 .. Len(h), h[i].event = "PARTIAL_FILL", order.state = "NEW"
        PROVE  FALSE
    <2> DEFINE Back == {k \in 1 .. Len(h) : k > i /\ h[k].to = "NEW"}
    <2>1. Len(h) \in Back /\ Back \in SUBSET Nat
      BY <1>1, <1>2, <1>4
    <2>2. PICK k \in Back : \A l \in Back : k <= l
      BY <2>1, LeastNatural
    <2>3. h[k - 1].to = "NEW" /\ k - 1 \in 1 .. Len(h) /\ k - 1 >= i
      BY <1>1, <1>2, <1>3, <2>2
    <2>4. k - 1 \in Back
      BY <1>1, <1>2, <1>4, <2>3
    <2> QED BY <1>1, <2>2, <2>4
  <1>5. ASSUME order.state = "PARTIALLY_FILLED"
        PROVE  \E i \in 1 .. Len(h) : h[i].event = "PARTIAL_FILL"
    <2> DEFINE Part == {k \in 1 .. Len(h) : h[k].to = "PARTIALLY_FILLED"}
    <2>1. Len(h) \in Part /\ Part \in SUBSET Nat
      BY <1>1, <1>5
    <2>2. PICK k \in Part : \A l \in Part : k <= l
      BY <2>1, LeastNatural
    <2>3. k # 1
      BY <1>1, <2>2 DEF Arc
    <2>4. h[k].event # "PARTIAL_FILL" => k - 1 \in Part
      BY <1>1, <1>2, <1>3, <2>2, <2>3
    <2> QED BY <1>1, <2>2, <2>4
  <1> QED BY <1>4, <1>5 DEF h

(* The state of an order in the book is that of the events of its history. *)
LEMMA StateFollowsEvents ==
    ASSUME NEW order, GoodOrder(order)
    PROVE  order.state = StateOf({order.history[i].event : i \in 1 .. Len(order.history)})
  <1> DEFINE h == order.history
             events == {h[i].event : i \in 1 .. Len(h)}
  <1>1. /\ h \in Seq(TRANSITIONS) /\ Len(h) \in Nat /\ Len(h) > 0
        /\ h[Len(h)].to = order.state /\ order.state # "REJECTED"
        /\ order.state \in OrderState
    BY DEF GoodOrder, HistoryExplains, Order, FillsMatchState
  <1>2. \A i \in 1 .. Len(h) : /\ h[i].event = "FULL_FILL" => h[i].to = "FILLED"
                               /\ h[i].event = "CANCEL_CONFIRMED" => h[i].to = "CANCELED"
    BY <1>1, ArcShape
  <1>3. h[Len(h)] \in TRANSITIONS /\ Len(h) \in 1 .. Len(h)
    BY <1>1
  <1>4. "FULL_FILL" \in events <=> order.state = "FILLED"
    <2>1. "FULL_FILL" \in events => order.state = "FILLED"
      BY <1>2, TerminalArcIsLast DEF TERMINAL_STATES
    <2>2. h[Len(h)].to = "FILLED" => h[Len(h)].event = "FULL_FILL"
      BY <1>3 DEF TRANSITIONS, Arc
    <2> QED BY <1>1, <1>3, <2>1, <2>2
  <1>5. "CANCEL_CONFIRMED" \in events <=> order.state = "CANCELED"
    <2>1. "CANCEL_CONFIRMED" \in events => order.state = "CANCELED"
      BY <1>2, TerminalArcIsLast DEF TERMINAL_STATES
    <2>2. h[Len(h)].to = "CANCELED" => h[Len(h)].event = "CANCEL_CONFIRMED"
      BY <1>3 DEF TRANSITIONS, Arc
    <2> QED BY <1>1, <1>3, <2>1, <2>2
  <1>6. order.state \in {"NEW", "PARTIALLY_FILLED"} =>
           (order.state = "PARTIALLY_FILLED" <=> "PARTIAL_FILL" \in events)
    BY PartialFillsShow
  <1> HIDE DEF events
  <1>7. order.state = StateOf(events)
    BY <1>1, <1>4, <1>5, <1>6 DEF StateOf, OrderState
  <1> QED BY <1>7 DEF events
-------------------------------------------------------------------------------
(* The client's machine of one order.                                      *)

Machine == [state : OrderState, history : Seq(TRANSITIONS)]

LEMMA AppliedToMachine ==
    ASSUME NEW machine \in Machine, NEW event, Permits(machine.state, event)
    PROVE  LET t == TransitionFor(machine.state, event)
               applied == ApplyEvent(machine, event)
           IN  /\ applied \in Machine
               /\ applied.state = t.to
               /\ applied.history = Append(machine.history, t)
               /\ t \in TRANSITIONS /\ t.from = machine.state /\ t.event = event
  <1> PICK t : t = TransitionFor(machine.state, event)
    OBVIOUS
  <1>1. t \in TRANSITIONS /\ t.from = machine.state /\ t.event = event /\ t.to \in OrderState
    BY TransitionForIsArc, ArcShape
  <1> PICK longer : longer = Append(machine.history, t)
    OBVIOUS
  <1>2. longer \in Seq(TRANSITIONS)
    BY <1>1 DEF Machine
  <1> PICK applied : applied = [machine EXCEPT !.state = t.to, !.history = longer]
    OBVIOUS
  <1>3. ApplyEvent(machine, event) = applied
    BY DEF ApplyEvent
  <1> PICK H : H = Seq(TRANSITIONS)
    OBVIOUS
  <1>4. Machine = [state : OrderState, history : H]
    BY DEF Machine
  <1>5. applied \in Machine /\ applied.state = t.to /\ applied.history = longer
    BY <1>1, <1>2, <1>4
  <1> QED BY <1>1, <1>3, <1>5

(* The arcs of a machine that a report announced: all but cancel requests, *)
(* which the machine takes on its own.                                     *)
ReportedArcs(history) ==
    {i \in 1 .. Len(history) : history[i].event # "CANCEL_REQUEST"}

(* Each such arc was caused by a report of its own.                        *)
Causes(cause, history, reports) ==
    /\ cause \in [ReportedArcs(history) -> reports]
    /\ \A i \in ReportedArcs(history) : cause[i].event = history[i].event
    /\ \A i, j \in ReportedArcs(history) : cause[i] = cause[j] => i = j

RequestsConfirmed(history) ==
    \A i \in 1 .. Len(history) : history[i].event = "CANCEL_REQUEST" =>
        i < Len(history) /\ history[i + 1].event = "CANCEL_CONFIRMED"

EventsOf(reports) == {m.event : m \in reports}

(* A machine that has been given these reports, in whatever order.         *)
Follows(machine, reports) ==
    /\ machine \in Machine
    /\ machine.state = StateOf(EventsOf(reports))
    /\ RequestsConfirmed(machine.history)
    /\ \E cause : Causes(cause, machine.history, reports)

(* The history grew by one arc, which report m caused, and perhaps by the  *)
(* cancel request before it.                                               *)
LEMMA CausesGrow ==
    ASSUME NEW h \in Seq(TRANSITIONS), NEW g \in Seq(TRANSITIONS), NEW reports, NEW m,
           m \notin reports, NEW cause, Causes(cause, h, reports),
           \A i \in 1 .. Len(h) : g[i] = h[i],
           g[Len(g)].event = m.event, m.event # "CANCEL_REQUEST",
           \/ Len(g) = Len(h) + 1
           \/ Len(g) = Len(h) + 2 /\ g[Len(h) + 1].event = "CANCEL_REQUEST"
    PROVE  \E longer : Causes(longer, g, reports \cup {m})
  <1> PICK k \in Nat, l \in Nat : k = Len(h) /\ l = Len(g)
    OBVIOUS
  <1>1. ReportedArcs(g) = ReportedArcs(h) \cup {l} /\ l \notin ReportedArcs(h)
    <2>1. ASSUME NEW i \in 1 .. l
          PROVE  i \in ReportedArcs(g) <=> i \in ReportedArcs(h) \cup {l}
      <3>1. CASE i = l
        BY <3>1 DEF ReportedArcs
      <3>2. CASE i \in 1 .. k
        BY <3>2 DEF ReportedArcs
      <3>3. CASE i # l /\ i \notin 1 .. k
        <4>1. i = k + 1 /\ l = k + 2
          BY <3>3
        <4> QED BY <4>1 DEF ReportedArcs
      <3> QED BY <3>1, <3>2, <3>3
    <2>2. ReportedArcs(g) \subseteq 1 .. l /\ ReportedArcs(h) \subseteq 1 .. k
      BY DEF ReportedArcs
    <2>3. 1 .. k \subseteq 1 .. l /\ l \in 1 .. l /\ l \notin 1 .. k
      OBVIOUS
    <2> QED BY <2>1, <2>2, <2>3
  <1> DEFINE longer == [i \in ReportedArcs(g) |-> IF i = l THEN m ELSE cause[i]]
  <1>2. /\ \A i \in ReportedArcs(h) : i # l /\ longer[i] = cause[i] /\ cause[i] \in reports
                                      /\ i \in ReportedArcs(g) /\ i \in 1 .. k
        /\ longer[l] = m /\ l \in ReportedArcs(g)
    BY <1>1 DEF Causes, ReportedArcs
  <1>3. longer \in [ReportedArcs(g) -> reports \cup {m}]
    BY <1>1, <1>2
  <1> HIDE DEF longer
  <1>4. ASSUME NEW i \in ReportedArcs(g)
        PROVE  longer[i].event = g[i].event
    BY <1>1, <1>2 DEF Causes
  <1>5. ASSUME NEW i \in ReportedArcs(g), NEW j \in ReportedArcs(g), longer[i] = longer[j]
        PROVE  i = j
    BY <1>1, <1>2, <1>5 DEF Causes
  <1> QED BY <1>3, <1>4, <1>5 DEF Causes

LEMMA CausesStay ==
    ASSUME NEW h, NEW reports, NEW more, NEW cause, Causes(cause, h, reports),
           reports \subseteq more
    PROVE  Causes(cause, h, more)
  BY DEF Causes

(* The events a report that announces something may carry.                 *)
Announced == {"ACK", "PARTIAL_FILL", "FULL_FILL", "CANCEL_CONFIRMED"}

LEMMA LiveStates ==
    ASSUME NEW events, StateOf(events) \in {"NEW", "PARTIALLY_FILLED"}
    PROVE  "FULL_FILL" \notin events /\ "CANCEL_CONFIRMED" \notin events
  BY DEF StateOf

(* The machine goes on to follow when it is given one report more, unless  *)
(* a fill of the whole order would join a cancel.                          *)
LEMMA FollowsOn ==
    ASSUME NEW machine, NEW reports, Follows(machine, reports),
           NEW m, m \notin reports, m.event \in Announced,
           ~({"FULL_FILL", "CANCEL_CONFIRMED"} \subseteq EventsOf(reports \cup {m}))
    PROVE  Follows(Followed(machine, m.event), reports \cup {m})
  <1> PICK events : events = EventsOf(reports)
    OBVIOUS
  <1> PICK more : more = reports \cup {m}
    OBVIOUS
  <1> PICK e : e = m.event
    OBVIOUS
  <1> PICK h : h = machine.history
    OBVIOUS
  <1>1. EventsOf(more) = events \cup {e}
    BY DEF EventsOf
  <1>2. /\ machine \in Machine /\ machine.state = StateOf(events) /\ RequestsConfirmed(h)
        /\ h \in Seq(TRANSITIONS) /\ Len(h) \in Nat
    BY DEF Follows, Machine
  <1>3. PICK cause : Causes(cause, h, reports)
    BY DEF Follows
  <1>4. ASSUME Followed(machine, e) = machine, StateOf(events \cup {e}) = StateOf(events)
        PROVE  Follows(Followed(machine, e), more)
    <2>1. Causes(cause, h, more)
      BY <1>3, CausesStay
    <2> QED BY <1>1, <1>2, <1>4, <2>1 DEF Follows
  <1>5. CASE machine.state \in TERMINAL_STATES
    <2>1. Followed(machine, e) = machine
      BY <1>5, PermittedEvents DEF Followed, ApplyEvent
    <2>2. ~("FULL_FILL" \in events \cup {e} /\ "CANCEL_CONFIRMED" \in events \cup {e})
      BY <1>1
    <2>3. "FULL_FILL" \in events \/ "CANCEL_CONFIRMED" \in events
      BY <1>2, <1>5 DEF StateOf, TERMINAL_STATES
    <2>4. StateOf(events \cup {e}) = StateOf(events)
      BY <2>2, <2>3 DEF StateOf
    <2> QED BY <1>4, <2>1, <2>4
  <1>6. CASE machine.state \in {"NEW", "PARTIALLY_FILLED"} /\ e # "CANCEL_CONFIRMED" /\ Permits(machine.state, e)
    <2> PICK later : later = Followed(machine, e)
      OBVIOUS
    <2> PICK t : t = TransitionFor(machine.state, e)
      OBVIOUS
    <2>1. /\ later \in Machine /\ later.state = t.to /\ later.history = Append(h, t)
          /\ t \in TRANSITIONS /\ t.event = e /\ t.from = machine.state
      BY <1>2, <1>6, AppliedToMachine DEF Followed
    <2>2. later.state = StateOf(events \cup {e})
      BY <1>2, <1>6, <2>1, ArcShape, LiveStates DEF StateOf, Announced
    <2>3. /\ later.history \in Seq(TRANSITIONS) /\ Len(later.history) = Len(h) + 1
          /\ \A i \in 1 .. Len(h) : later.history[i] = h[i]
          /\ later.history[Len(h) + 1] = t
      BY <1>2, <2>1
    <2>4. RequestsConfirmed(later.history)
      <3>1. ASSUME NEW i \in 1 .. Len(h) + 1, later.history[i].event = "CANCEL_REQUEST"
            PROVE  i < Len(h) + 1 /\ later.history[i + 1].event = "CANCEL_CONFIRMED"
        <4>1. i \in 1 .. Len(h)
          BY <1>2, <2>1, <2>3, <3>1 DEF Announced
        <4>2. i < Len(h) /\ h[i + 1].event = "CANCEL_CONFIRMED" /\ i + 1 \in 1 .. Len(h)
          BY <1>2, <2>3, <3>1, <4>1 DEF RequestsConfirmed
        <4> QED BY <1>2, <2>3, <4>2
      <3> QED BY <2>3, <3>1 DEF RequestsConfirmed
    <2>5. \E longer : Causes(longer, later.history, more)
      <3> PICK g \in Seq(TRANSITIONS) : g = later.history
        BY <2>3
      <3>1. /\ Len(g) = Len(h) + 1 /\ \A i \in 1 .. Len(h) : g[i] = h[i]
            /\ g[Len(g)].event = m.event /\ m.event # "CANCEL_REQUEST"
        BY <2>1, <2>3 DEF Announced
      <3> QED BY <1>2, <1>3, <3>1, CausesGrow
    <2> QED BY <1>1, <2>1, <2>2, <2>4, <2>5 DEF Follows
  <1>7. CASE machine.state \in {"NEW", "PARTIALLY_FILLED"} /\ e = "CANCEL_CONFIRMED"
    <2> PICK asking : asking = ApplyEvent(machine, "CANCEL_REQUEST")
      OBVIOUS
    <2> PICK later : later = Followed(machine, e)
      OBVIOUS
    <2> PICK t, u : /\ t = TransitionFor(machine.state, "CANCEL_REQUEST")
                    /\ u = TransitionFor(asking.state, "CANCEL_CONFIRMED")
      OBVIOUS
    <2>1. /\ asking \in Machine /\ asking.state = t.to /\ asking.history = Append(h, t)
          /\ t \in TRANSITIONS /\ t.event = "CANCEL_REQUEST" /\ t.from = machine.state
      BY <1>2, <1>7, PermittedEvents, AppliedToMachine
    <2>2. asking.state = machine.state
      BY <2>1, ArcShape
    <2>3. /\ later \in Machine /\ later.state = u.to /\ later.history = Append(asking.history, u)
          /\ u \in TRANSITIONS /\ u.event = "CANCEL_CONFIRMED"
      BY <1>7, <2>1, <2>2, PermittedEvents, AppliedToMachine DEF Followed
    <2>4. later.state = StateOf(events \cup {e})
      BY <1>2, <1>7, <2>3, ArcShape, LiveStates DEF StateOf
    <2>5. /\ later.history \in Seq(TRANSITIONS) /\ Len(later.history) = Len(h) + 2
          /\ \A i \in 1 .. Len(h) : later.history[i] = h[i]
          /\ later.history[Len(h) + 1] = t
          /\ later.history[Len(h) + 2] = u
      BY <1>2, <2>1, <2>3
    <2>6. RequestsConfirmed(later.history)
      <3>1. ASSUME NEW i \in 1 .. Len(h) + 2, later.history[i].event = "CANCEL_REQUEST"
            PROVE  i < Len(h) + 2 /\ later.history[i + 1].event = "CANCEL_CONFIRMED"
        <4>1. CASE i \in 1 .. Len(h)
          <5>1. i < Len(h) /\ h[i + 1].event = "CANCEL_CONFIRMED" /\ i + 1 \in 1 .. Len(h)
            BY <1>2, <2>5, <3>1, <4>1 DEF RequestsConfirmed
          <5> QED BY <1>2, <2>5, <5>1
        <4>2. CASE i = Len(h) + 1
          BY <1>2, <2>3, <2>5, <4>2
        <4>3. CASE i = Len(h) + 2
          BY <2>3, <2>5, <3>1, <4>3
        <4> QED BY <1>2, <4>1, <4>2, <4>3
      <3> QED BY <2>5, <3>1 DEF RequestsConfirmed
    <2>7. \E longer : Causes(longer, later.history, more)
      <3> PICK g \in Seq(TRANSITIONS) : g = later.history
        BY <2>5
      <3>1. /\ Len(g) = Len(h) + 2 /\ \A i \in 1 .. Len(h) : g[i] = h[i]
            /\ g[Len(h) + 1].event = "CANCEL_REQUEST"
            /\ g[Len(g)].event = m.event /\ m.event # "CANCEL_REQUEST"
        BY <1>7, <2>1, <2>3, <2>5
      <3> QED BY <1>2, <1>3, <3>1, CausesGrow
    <2> QED BY <1>1, <2>3, <2>4, <2>6, <2>7 DEF Follows
  <1>8. CASE machine.state \in {"NEW", "PARTIALLY_FILLED"} /\ e # "CANCEL_CONFIRMED" /\ ~Permits(machine.state, e)
    <2>1. Followed(machine, e) = machine
      BY <1>8 DEF Followed, ApplyEvent
    <2>2. e = "ACK" /\ machine.state = "PARTIALLY_FILLED"
      BY <1>8, PermittedEvents DEF Announced
    <2>3. StateOf(events \cup {e}) = StateOf(events)
      BY <1>2, <2>2, LiveStates DEF StateOf
    <2> QED BY <1>4, <2>1, <2>3
  <1> QED BY <1>2, <1>5, <1>6, <1>7, <1>8 DEF Machine, OrderState, TERMINAL_STATES
-------------------------------------------------------------------------------
(* A machine and the order it follows.                                     *)

(* f takes the places of an event in one history to places of it in       *)
(* another, each to one of its own.                                        *)
Matches(f, h, g, event) ==
    /\ f \in [{i \in 1 .. Len(h) : h[i].event = event} -> 1 .. Len(g)]
    /\ \A i \in DOMAIN f : g[f[i]].event = event
    /\ \A i, j \in DOMAIN f : f[i] = f[j] => i = j

LEMMA CountedOnce ==
    ASSUME NEW h \in Seq(TRANSITIONS), NEW g \in Seq(TRANSITIONS), NEW event,
           NEW f, Matches(f, h, g, event)
    PROVE  Count(h, event) <= Count(g, event)
  <1> DEFINE S == {i \in 1 .. Len(h) : h[i].event = event}
             T == {i \in 1 .. Len(g) : g[i].event = event}
  <1>1. IsFiniteSet(T)
    <2>1. IsFiniteSet(1 .. Len(g))
      BY FS_Interval
    <2> QED BY <2>1, FS_Subset
  <1>2. f \in Injection(S, T)
    <2>1. f \in [S -> 1 .. Len(g)] /\ DOMAIN f = S
      BY DEF Matches
    <2>2. f \in [S -> T]
      BY <2>1 DEF Matches
    <2>4. IsInjective(f)
      BY <2>1 DEF IsInjective, Matches
    <2> QED BY <2>2, <2>4 DEF Injection
  <1> HIDE DEF S, T
  <1>3. Cardinality(S) <= Cardinality(T)
    BY <1>1, <1>2, FS_Injection
  <1> QED BY <1>3 DEF Count, S, T

(* Nothing the machine went through did not happen to the order.           *)
Behind(machine, order) ==
    /\ \A event \in OrderEvent :
          Count(machine.history, event) <= Count(order.history, event)
    /\ \E i \in 1 .. Len(order.history) : order.history[i].to = machine.state

(* Whatever a machine has been given of the reports of an order, it counts *)
(* no event of the order twice and is in a state the order has been in.    *)
LEMMA NeverAhead ==
    ASSUME NEW order, GoodOrder(order), NEW arcs \in SUBSET (1 .. Len(order.history)),
           NEW all, NEW report, Explains(report, arcs, all, order.history),
           NEW machine, NEW reports \in SUBSET all, Follows(machine, reports)
    PROVE  Behind(machine, order)
  <1> PICK h, g : h = machine.history /\ g = order.history
    OBVIOUS
  <1>1. /\ h \in Seq(TRANSITIONS) /\ g \in Seq(TRANSITIONS)
        /\ Len(h) \in Nat /\ Len(g) \in Nat /\ Len(g) > 0
        /\ RequestsConfirmed(h) /\ g[1] = Arc("NEW", "ACK", "NEW")
        /\ \A i \in 1 .. Len(g) : g[i].event = "CANCEL_CONFIRMED" =>
                i > 1 /\ g[i - 1].event = "CANCEL_REQUEST"
    <2>1. h \in Seq(TRANSITIONS) /\ RequestsConfirmed(h)
      BY DEF Follows, Machine
    <2>2. g \in Seq(TRANSITIONS) /\ HistoryExplains(order)
      BY DEF GoodOrder, Order
    <2>3. Len(h) \in Nat /\ Len(g) \in Nat
      BY <2>1, <2>2
    <2>4. /\ Len(g) > 0 /\ g[1] = Arc("NEW", "ACK", "NEW")
          /\ \A i \in 1 .. Len(g) : g[i].event = "CANCEL_CONFIRMED" =>
                  i > 1 /\ g[i - 1].event = "CANCEL_REQUEST"
      BY <2>2, <2>3 DEF HistoryExplains
    <2> QED BY <2>1, <2>2, <2>3, <2>4
  <1>2. PICK cause : Causes(cause, h, reports)
    BY DEF Follows
  <1>3. /\ all = {report[a] : a \in arcs}
        /\ \A a \in arcs : report[a].event = g[a].event
    BY DEF Explains
  <1> DEFINE arc == [i \in ReportedArcs(h) |-> CHOOSE a \in arcs : report[a] = cause[i]]
  <1>4. ASSUME NEW i \in ReportedArcs(h)
        PROVE  arc[i] \in arcs /\ arc[i] \in 1 .. Len(g) /\ report[arc[i]] = cause[i]
               /\ g[arc[i]].event = h[i].event
    <2>1. cause[i] \in all /\ cause[i].event = h[i].event
      BY <1>2 DEF Causes
    <2>2. \E a \in arcs : report[a] = cause[i]
      BY <1>3, <2>1
    <2>3. arc[i] \in arcs /\ report[arc[i]] = cause[i]
      BY <2>2
    <2> HIDE DEF arc
    <2> QED BY <1>3, <2>1, <2>3
  <1>5. \A i, j \in ReportedArcs(h) : arc[i] = arc[j] => i = j
    <2> HIDE DEF arc
    <2>1. \A i, j \in ReportedArcs(h) : cause[i] = cause[j] => i = j
      BY <1>2 DEF Causes
    <2> QED BY <1>4, <2>1
  <1> HIDE DEF arc
  <1>6. ASSUME NEW event, event # "CANCEL_REQUEST"
        PROVE  Count(h, event) <= Count(g, event)
    <2> DEFINE S == {i \in 1 .. Len(h) : h[i].event = event}
               f == [i \in S |-> arc[i]]
    <2>1. \A i \in S : i \in ReportedArcs(h)
      BY <1>6 DEF ReportedArcs
    <2>2. f \in [S -> 1 .. Len(g)]
      BY <1>4, <2>1
    <2>3. \A i \in S : g[f[i]].event = event
      BY <1>4, <2>1
    <2>4. \A i, j \in S : f[i] = f[j] => i = j
      BY <1>5, <2>1
    <2>5. Matches(f, h, g, event)
      <3> HIDE DEF f
      <3> QED BY <2>2, <2>3, <2>4 DEF Matches
    <2> HIDE DEF f
    <2> QED BY <1>1, <2>5, CountedOnce
  <1>7. Count(h, "CANCEL_REQUEST") <= Count(g, "CANCEL_REQUEST")
    <2> DEFINE S == {i \in 1 .. Len(h) : h[i].event = "CANCEL_REQUEST"}
               f == [i \in S |-> arc[i + 1] - 1]
    <2>1. \A i \in S : i + 1 \in ReportedArcs(h) /\ h[i + 1].event = "CANCEL_CONFIRMED"
      <3>1. ASSUME NEW i \in S
            PROVE  i + 1 \in 1 .. Len(h) /\ h[i + 1].event = "CANCEL_CONFIRMED"
        BY <1>1 DEF RequestsConfirmed
      <3> QED BY <3>1 DEF ReportedArcs
    <2>2. ASSUME NEW i \in S
          PROVE  /\ arc[i + 1] \in Nat /\ f[i] = arc[i + 1] - 1
                 /\ f[i] \in 1 .. Len(g) /\ g[f[i]].event = "CANCEL_REQUEST"
      <3> PICK a : a = arc[i + 1]
        OBVIOUS
      <3>1. a \in 1 .. Len(g) /\ g[a].event = "CANCEL_CONFIRMED"
        BY <1>4, <2>1
      <3>2. a > 1 /\ g[a - 1].event = "CANCEL_REQUEST"
        BY <1>1, <3>1
      <3>3. a - 1 \in 1 .. Len(g) /\ a \in Nat
        BY <1>1, <3>1, <3>2
      <3> QED BY <3>2, <3>3
    <2>3. \A i, j \in S : f[i] = f[j] => i = j
      <3> TAKE i, j \in S
      <3> HAVE f[i] = f[j]
      <3>1. arc[i + 1] = arc[j + 1]
        <4> HIDE DEF f
        <4> PICK a, b, fi, fj : /\ a = arc[i + 1] /\ b = arc[j + 1]
                                /\ fi = f[i] /\ fj = f[j]
          OBVIOUS
        <4>1. a \in Nat /\ fi = a - 1
          BY <2>2
        <4>2. b \in Nat /\ fj = b - 1
          BY <2>2
        <4>3. fi = fj
          OBVIOUS
        <4>4. a = b
          BY <4>1, <4>2, <4>3
        <4> QED BY <4>4
      <3>2. i + 1 = j + 1
        BY <1>5, <2>1, <3>1
      <3> QED BY <1>1, <3>2
    <2>4. f \in [S -> 1 .. Len(g)] /\ \A i \in S : g[f[i]].event = "CANCEL_REQUEST"
      BY <2>2
    <2>5. Matches(f, h, g, "CANCEL_REQUEST")
      <3> HIDE DEF f
      <3> QED BY <2>3, <2>4 DEF Matches
    <2> HIDE DEF f
    <2> QED BY <1>1, <2>5, CountedOnce
  <1>8. \E i \in 1 .. Len(g) : g[i].to = machine.state
    <2>1. machine.state = StateOf(EventsOf(reports))
      BY DEF Follows
    <2>2. ASSUME NEW e \in EventsOf(reports)
          PROVE  \E i \in 1 .. Len(g) : g[i].event = e
      <3>1. PICK m \in reports : m.event = e
        BY <2>2 DEF EventsOf
      <3>2. PICK a \in arcs : m = report[a]
        BY <1>3, <3>1
      <3> QED BY <1>3, <3>1, <3>2
    <2>3. \A i \in 1 .. Len(g) : /\ g[i].event = "FULL_FILL" => g[i].to = "FILLED"
                                 /\ g[i].event = "CANCEL_CONFIRMED" => g[i].to = "CANCELED"
                                 /\ g[i].event = "PARTIAL_FILL" => g[i].to = "PARTIALLY_FILLED"
      BY <1>1, ArcShape
    <2>4. g[1].to = "NEW" /\ 1 \in 1 .. Len(g)
      BY <1>1 DEF Arc
    <2> QED BY <2>1, <2>2, <2>3, <2>4 DEF StateOf
  <1>9. ASSUME NEW event \in OrderEvent
        PROVE  Count(machine.history, event) <= Count(order.history, event)
    BY <1>6, <1>7
  <1> QED BY <1>8, <1>9 DEF Behind

(* A machine that has been given all reports of an order that was answered *)
(* for is in the state of the order.                                       *)
LEMMA AgreesInTheEnd ==
    ASSUME NEW order, GoodOrder(order),
           NEW arcs, arcs = {i \in 1 .. Len(order.history) :
                                order.history[i].event # "CANCEL_REQUEST"},
           NEW all, NEW report, Explains(report, arcs, all, order.history),
           NEW machine, Follows(machine, all)
    PROVE  machine.state = order.state
  <1> DEFINE events == {order.history[i].event : i \in 1 .. Len(order.history)}
  <1>1. /\ all = {report[a] : a \in arcs}
        /\ \A a \in arcs : report[a].event = order.history[a].event
    BY DEF Explains
  <1>2. \A e : e # "CANCEL_REQUEST" => (e \in EventsOf(all) <=> e \in events)
    <2>1. ASSUME NEW e, e \in EventsOf(all)
          PROVE  e \in events
      <3>1. PICK a \in arcs : e = report[a].event
        BY <1>1, <2>1 DEF EventsOf
      <3> QED BY <1>1, <3>1
    <2>2. ASSUME NEW e, e \in events, e # "CANCEL_REQUEST"
          PROVE  e \in EventsOf(all)
      <3>1. PICK i \in 1 .. Len(order.history) : e = order.history[i].event
        BY <2>2
      <3>2. i \in arcs
        BY <2>2, <3>1
      <3> QED BY <1>1, <3>1, <3>2 DEF EventsOf
    <2> QED BY <2>1, <2>2
  <1> HIDE DEF events
  <1>3. StateOf(EventsOf(all)) = StateOf(events)
    BY <1>2 DEF StateOf
  <1>4. order.state = StateOf(events)
    BY StateFollowsEvents DEF events
  <1> QED BY <1>3, <1>4 DEF Follows

-------------------------------------------------------------------------------
(* How the exchange numbers its reports.                                   *)

(* Every report carries a number already spent, and no other report does.  *)
NumberedInv ==
    /\ \A m \in Reports : IsReport(m) => m.exec_id < nextExec
    /\ \A m, n \in Reports : IsReport(m) /\ IsReport(n) /\ m.exec_id = n.exec_id => m = n

(* An order that is not answered from the cache is one whose plan failed.  *)
AnsweredInv == \A id \in DOMAIN orders : id \in DOMAIN responses \/ Rejected(id)

(* The messages a step adds, under numbers of their own.                   *)
Made(new) ==
    /\ Reports' = Reports \cup new
    /\ nextExec' \in Nat /\ nextExec <= nextExec'
    /\ \A m \in new : IsReport(m) =>
          m.exec_id \in Nat /\ nextExec <= m.exec_id /\ m.exec_id < nextExec'
    /\ \A m, n \in new : IsReport(m) /\ IsReport(n) /\ m.exec_id = n.exec_id => m = n

LEMMA MadeNone ==
    ASSUME ExchangeInv, Reports' = Reports, nextExec' = nextExec
    PROVE  Made({})
  BY DEF Made, ExchangeInv, BooksInv

LEMMA RejectsNumbered ==
    ASSUME NEW r, NEW n
    PROVE  /\ RejectedExecutionReport(r, n).exec_id = n
           /\ RejectedExecutionReport(r, n).order = r.order
           /\ RejectedExecutionReport(r, n).event = "REJECT"
           /\ ~IsReport(CancelReject(r))
           /\ r \in Requests => ~IsReport(Message(r.type, r.cl, r.order, "none", 0, 0))
  <1>1. r \in Requests => r.type # "8"
    BY RequestsAssumption
  <1>2. Message(r.type, r.cl, r.order, "none", 0, 0).type = r.type
    BY DEF Message
  <1> QED BY <1>1, <1>2 DEF RejectedExecutionReport, ExecutionReport, CancelReject, Message, IsReport

LEMMA ReceiveMakes ==
    ASSUME ExchangeInv, HandoverInv, NEW s \in Sessions, NEW r \in Requests, Receive(s, r)
    PROVE  \E new : Made(new)
  <1> PICK received, reject, refusal :
         /\ received = Message(r.type, r.cl, r.order, "none", 0, 0)
         /\ reject = RejectedExecutionReport(r, nextExec)
         /\ refusal = CancelReject(r)
    OBVIOUS
  <1>1. nextExec \in Nat
    BY DEF ExchangeInv, BooksInv
  <1>2. reject.exec_id = nextExec /\ ~IsReport(received) /\ ~IsReport(refusal)
    BY RejectsNumbered
  <1>3. \/ Reports' = Reports \cup {received} /\ nextExec' = nextExec
        \/ Reports' = Reports \cup {received, reject} /\ nextExec' = nextExec + 1
        \/ Reports' = Reports \cup {received, refusal} /\ nextExec' = nextExec
    BY ReceiveAdds
  <1>4. Made({received}) \/ Made({received, reject}) \/ Made({received, refusal})
    BY <1>1, <1>2, <1>3 DEF Made
  <1> QED BY <1>4

LEMMA LookUpMakes ==
    ASSUME ExchangeInv, HandoverInv, ReportedInv, NEW s \in Sessions, LookUp(s)
    PROVE  Made({})
  <1>1. /\ UNCHANGED books /\ UNCHANGED <<hand, pending, log>>
        /\ out[s] = <<>>
    BY DEF LookUp, HandoverInv
  <1>2. Reports' = Reports
    <2>1. CASE request[s].order \in DOMAIN responses
      <3> PICK messages : messages = responses[request[s].order]
        OBVIOUS
      <3>1. Answers(s, messages)
        BY <2>1 DEF LookUp
      <3>2. Reports' = Reports \cup ToSet(messages)
        BY <1>1, <3>1, AnswersAdd
      <3>3. ToSet(messages) \subseteq Reports
        BY <2>1 DEF ReportedInv, CachedInv, ReportsOf
      <3> QED BY <3>2, <3>3
    <2>2. CASE request[s].order \notin DOMAIN responses
      <3>1. out' = out
        BY <2>2 DEF LookUp
      <3> QED BY <1>1, <3>1, ReportsRest
    <2> QED BY <2>1, <2>2
  <1> QED BY <1>1, <1>2, MadeNone DEF books

(* Accepting an order answers for it, from now on by the cache, or rejects *)
(* it.                                                                     *)
LEMMA AcceptMakes ==
    ASSUME ExchangeInv, HandoverInv, NEW s \in Sessions, AcceptNewOrder(s)
    PROVE  /\ \E new : Made(new)
           /\ \A id \in DOMAIN orders' :
                 id \in DOMAIN orders \/ id \in DOMAIN responses' \/ Rejected(id)'
  <1> PICK r : r = request[s]
    OBVIOUS
  <1>1. /\ UNCHANGED <<hand, pending, log>> /\ out[s] = <<>> /\ nextExec \in Nat
    <2>1. at[s] = "accept" /\ UNCHANGED <<hand, pending, log>>
      BY Zenon DEF AcceptNewOrder
    <2> QED BY <2>1 DEF HandoverInv, ExchangeInv, BooksInv
  <1>2. ASSUME NEW n \in Nat, nextExec <= n, nextExec' = n + 1,
               Answers(s, <<RejectedExecutionReport(r, n)>>)
        PROVE  (\E new : Made(new)) /\ Rejected(r.order)'
    <2> PICK reject : reject = RejectedExecutionReport(r, n)
      OBVIOUS
    <2>1. reject.exec_id = n /\ reject.order = r.order /\ reject.event = "REJECT"
      BY RejectsNumbered
    <2>2. Reports' = Reports \cup {reject}
      <3>1. ToSet(<<reject>>) = {reject}
        BY SetsOfSequences
      <3> QED BY <1>1, <1>2, <3>1, AnswersAdd
    <2>3. Made({reject})
      BY <1>1, <1>2, <2>1, <2>2 DEF Made
    <2>4. Rejected(r.order)'
      BY <2>1, <2>2 DEF Rejected
    <2> QED BY <2>3, <2>4
  <1>3. CASE Refuses(s, r)
    BY <1>1, <1>2, <1>3 DEF Refuses
  <1>4. ASSUME NEW order, NEW reports \in Seq(Messages), r.order \notin DOMAIN orders,
               OpensWith(r, order, reports), Accepts(s, r, order, reports)
        PROVE  /\ \E new : Made(new)
               /\ \A id \in DOMAIN orders' :
                     id \in DOMAIN orders \/ id \in DOMAIN responses' \/ Rejected(id)'
    <2> PICK n : n = Len(reports)
      OBVIOUS
    <2>1. /\ n \in Nat /\ DOMAIN reports = 1 .. n
          /\ \A i \in 1 .. n : reports[i].exec_id = nextExec + i - 1
          /\ DOMAIN orders' = DOMAIN orders \cup {r.order}
      BY <1>4 DEF OpensWith, Accepts
    <2>2. CASE /\ Answers(s, reports)
               /\ responses' = [id \in DOMAIN responses \cup {r.order} |->
                                   IF id = r.order THEN reports ELSE responses[id]]
               /\ nextExec' = nextExec + n
      <3>1. Reports' = Reports \cup ToSet(reports)
        BY <1>1, <2>2, AnswersAdd
      <3>2. \A m \in ToSet(reports) : \E i \in 1 .. n : m = reports[i]
        BY <2>1 DEF ToSet
      <3>3. Made(ToSet(reports))
        <4>1. ASSUME NEW m \in ToSet(reports)
              PROVE  m.exec_id \in Nat /\ nextExec <= m.exec_id /\ m.exec_id < nextExec'
          BY <1>1, <2>1, <2>2, <3>2
        <4>2. ASSUME NEW m \in ToSet(reports), NEW k \in ToSet(reports), m.exec_id = k.exec_id
              PROVE  m = k
          <5>1. PICK i \in 1 .. n, j \in 1 .. n : m = reports[i] /\ k = reports[j]
            BY <3>2
          <5>2. i = j
            BY <1>1, <2>1, <4>2, <5>1
          <5> QED BY <5>1, <5>2
        <4>3. nextExec' \in Nat /\ nextExec <= nextExec'
          BY <1>1, <2>1, <2>2
        <4> QED BY <3>1, <4>1, <4>2, <4>3 DEF Made
      <3> QED BY <2>1, <2>2, <3>3
    <2>3. CASE /\ Answers(s, <<RejectedExecutionReport(r, nextExec + n)>>)
               /\ nextExec' = nextExec + n + 1
      <3>1. nextExec + n \in Nat /\ nextExec <= nextExec + n
        BY <1>1, <2>1
      <3> QED BY <1>2, <2>1, <2>3, <3>1
    <2> QED BY <1>4, <2>2, <2>3 DEF Accepts
  <1> QED BY <1>3, <1>4, AcceptShape DEF Refuses

LEMMA CancelMakes ==
    ASSUME ExchangeInv, HandoverInv, NEW s \in Sessions, Cancel(s)
    PROVE  \E new : Made(new)
  <1> PICK r : r = request[s]
    OBVIOUS
  <1>1. /\ UNCHANGED <<hand, pending, log>> /\ out[s] = <<>> /\ nextExec \in Nat
    BY DEF Cancel, HandoverInv, ExchangeInv, BooksInv
  <1>2. ASSUME NEW m, Answers(s, <<m>>)
        PROVE  Reports' = Reports \cup {m}
    <2>1. ToSet(<<m>>) = {m}
      BY SetsOfSequences
    <2> QED BY <1>1, <1>2, <2>1, AnswersAdd
  <1>3. ASSUME NEW cum, nextExec' = nextExec + 1,
               Answers(s, <<ExecutionReport(r.cl, r.order, "CANCEL_CONFIRMED", nextExec, cum)>>)
        PROVE  \E new : Made(new)
    <2> PICK m : m = ExecutionReport(r.cl, r.order, "CANCEL_CONFIRMED", nextExec, cum)
      OBVIOUS
    <2>1. m.exec_id = nextExec
      BY DEF ExecutionReport, Message
    <2>2. Reports' = Reports \cup {m}
      BY <1>2, <1>3
    <2>3. Made({m})
      BY <1>1, <1>3, <2>1, <2>2 DEF Made
    <2> QED BY <2>3
  <1>4. ASSUME nextExec' = nextExec, Answers(s, <<CancelReject(r)>>)
        PROVE  \E new : Made(new)
    <2> PICK m : m = CancelReject(r)
      OBVIOUS
    <2>1. ~IsReport(m)
      BY RejectsNumbered
    <2>2. Reports' = Reports \cup {m}
      BY <1>2, <1>4
    <2>3. Made({m})
      BY <1>1, <1>4, <2>1, <2>2 DEF Made
    <2> QED BY <2>3
  <1> QED BY <1>3, <1>4 DEF Cancel

(* Every step of the exchange keeps what it has reported and numbers anew  *)
(* what it reports.                                                        *)
LEMMA StepsMake ==
    ASSUME ExchangeInv, HandoverInv, ReportedInv, [Serves]_vars
    PROVE  /\ \E new : Made(new)
           /\ \A id \in DOMAIN orders' :
                 id \in DOMAIN orders \/ id \in DOMAIN responses' \/ Rejected(id)'
  <1> DEFINE Answered == \A id \in DOMAIN orders' :
                 id \in DOMAIN orders \/ id \in DOMAIN responses' \/ Rejected(id)'
  <1>0. ASSUME DOMAIN orders' = DOMAIN orders PROVE Answered
    BY <1>0
  <1>1. ASSUME UNCHANGED books, Reports' = Reports
        PROVE  (\E new : Made(new)) /\ Answered
    BY <1>1, MadeNone DEF books
  <1>2. ASSUME UNCHANGED books, UNCHANGED <<out, hand, pending, log>>
        PROVE  (\E new : Made(new)) /\ Answered
    BY <1>1, <1>2, ReportsRest
  <1>3. ASSUME NEW s \in Sessions, NEW r \in Requests, Receive(s, r)
        PROVE  (\E new : Made(new)) /\ Answered
    BY <1>3, ReceiveMakes DEF Receive
  <1>4. ASSUME NEW s \in Sessions,
               \/ AcceptConnection(s) \/ Register(s) \/ Logon(s) \/ Listen(s)
               \/ SessionEnds(s) \/ PeerLeaves(s)
        PROVE  (\E new : Made(new)) /\ Answered
    <2> HIDE DEF Answered
    <2> QED BY <1>2, <1>4 DEF AcceptConnection, Register, Logon, Listen, SessionEnds, PeerLeaves
  <1>5. ASSUME AcceptorExits \/ Stop \/ StopClose \/ StopJoin \/ Start
        PROVE  (\E new : Made(new)) /\ Answered
    <2> HIDE DEF Answered
    <2> QED BY <1>2, <1>5 DEF AcceptorExits, Stop, StopClose, StopJoin, Start
  <1>6. ASSUME NEW s \in Sessions, LookUp(s)
        PROVE  (\E new : Made(new)) /\ Answered
    BY <1>6, LookUpMakes DEF LookUp, books
  <1>7. ASSUME NEW s \in Sessions, AcceptNewOrder(s)
        PROVE  (\E new : Made(new)) /\ Answered
    BY <1>7, AcceptMakes
  <1>8. ASSUME NEW s \in Sessions, Cancel(s)
        PROVE  (\E new : Made(new)) /\ Answered
    <2>1. UNCHANGED <<orders, responses>> \/ \E id : Canceled(id)
      BY <1>8, CancelKeeps
    <2>2. DOMAIN orders' = DOMAIN orders
      BY <2>1 DEF Canceled
    <2> HIDE DEF Answered
    <2> QED BY <1>0, <1>8, <2>2, CancelMakes
  <1>9. ASSUME NEW s \in Sessions, Send(s)
        PROVE  (\E new : Made(new)) /\ Answered
    <2> HIDE DEF Answered
    <2> QED BY <1>1, <1>9, SendKeeps, SendMoves
  <1>10. ASSUME StopFlush \/ \E t \in Timers : HoldExpires(t)
        PROVE  (\E new : Made(new)) /\ Answered
    <2> HIDE DEF Answered
    <2> QED BY <1>1, <1>10, FlushKeeps, FlushMoves
  <1>11. ASSUME NEW t \in Threads, Deliver(t)
         PROVE  (\E new : Made(new)) /\ Answered
    <2> HIDE DEF Answered
    <2> QED BY <1>1, <1>11, DeliverKeeps, DeliverMoves
  <1>12. ASSUME UNCHANGED vars
        PROVE  (\E new : Made(new)) /\ Answered
    <2> HIDE DEF Answered
    <2> QED BY <1>2, <1>12 DEF vars, books, config
  <1> HIDE DEF Answered
  <1>13. (\E new : Made(new)) /\ Answered
    BY <1>3, <1>4, <1>5, <1>6, <1>7, <1>8, <1>9, <1>10, <1>11, <1>12
    DEF Serves, Exchange, Work, Connect, StopStep
  <1> QED BY <1>13 DEF Answered

LEMMA NumberedKept ==
    ASSUME ExchangeInv, NumberedInv, NEW new, Made(new)
    PROVE  NumberedInv'
  <1>1. \A m \in Reports : m.exec_id \in Nat
    BY ReportsTypedWhereverTheyAre DEF Messages
  <1>2. nextExec \in Nat
    BY DEF ExchangeInv, BooksInv
  <1> PICK n, n1 : n = nextExec /\ n1 = nextExec'
    OBVIOUS
  <1>3. /\ Reports' = Reports \cup new
        /\ n \in Nat /\ n1 \in Nat /\ n <= n1
        /\ \A m \in Reports : IsReport(m) => m.exec_id < n
        /\ \A m \in new : IsReport(m) => m.exec_id \in Nat /\ n <= m.exec_id /\ m.exec_id < n1
    BY <1>2 DEF NumberedInv, Made
  <1>4. \A m \in Reports' : IsReport(m) => m.exec_id < n1
    BY <1>1, <1>3
  <1>5. ASSUME NEW m \in Reports', NEW k \in Reports', IsReport(m), IsReport(k),
               m.exec_id = k.exec_id
        PROVE  m = k
    <2>1. CASE m \in Reports /\ k \in Reports
      BY <1>5, <2>1 DEF NumberedInv
    <2>2. CASE m \in new /\ k \in new
      BY <1>5, <2>2 DEF Made
    <2>3. ~(m \in Reports /\ k \in new) /\ ~(m \in new /\ k \in Reports)
      BY <1>1, <1>3, <1>5
    <2> QED BY <1>3, <2>1, <2>2, <2>3
  <1> QED BY <1>4, <1>5 DEF NumberedInv

LEMMA RejectedStays ==
    ASSUME NEW new, Made(new), NEW id, Rejected(id)
    PROVE  Rejected(id)'
  BY DEF Made, Rejected

LEMMA AnsweredKept ==
    ASSUME ExchangeInv, HandoverInv, ReportedInv, AnsweredInv, [Serves]_vars
    PROVE  AnsweredInv'
  <1>1. PICK new : Made(new)
    BY StepsMake
  <1>2. \A id \in DOMAIN responses : id \in DOMAIN responses'
    BY StepShape DEF Opened, Canceled
  <1>3. ASSUME NEW id \in DOMAIN orders'
        PROVE  id \in DOMAIN responses' \/ Rejected(id)'
    <2>1. id \in DOMAIN orders \/ id \in DOMAIN responses' \/ Rejected(id)'
      BY StepsMake
    <2> QED BY <1>1, <1>2, <2>1, RejectedStays DEF AnsweredInv
  <1> QED BY <1>3 DEF AnsweredInv

-------------------------------------------------------------------------------
(* Over which connections an order was asked for.                          *)

(* Who asked for what: the connections and the orders in the log.          *)
Asking(s, m) == <<s, m.order>>

Asked ==
    {Asking(log[i].session, log[i].message) :
        i \in {j \in 1 .. Len(log) : log[j].direction = "RECEIVED"}}

LEMMA AskedOverWhom ==
    ASSUME NEW s, NEW m
    PROVE  s \in AskedOver(m.order) <=> Asking(s, m) \in Asked
  BY DEF AskedOver, Asked, Asking

LEMMA AskedStays ==
    ASSUME ExchangeInv, LogExtends
    PROVE  Asked \subseteq Asked'
  <1> SUFFICES ASSUME NEW pair \in Asked PROVE pair \in Asked'
    OBVIOUS
  <1>1. PICK i \in 1 .. Len(log) : /\ pair = Asking(log[i].session, log[i].message)
                                   /\ log[i].direction = "RECEIVED"
    BY DEF Asked
  <1>2. i \in 1 .. Len(log') /\ log'[i] = log[i]
    BY LogGrows
  <1> QED BY <1>1, <1>2 DEF Asked

(* What is said of an order goes to connections it was asked for over.     *)
AskedInv ==
    /\ \A s \in Sessions : at[s] \in {"lookup", "accept", "cancel"} =>
          Asking(s, request[s]) \in Asked
    /\ \A s \in Sessions : \A m \in OutOf(s) : Asking(s, m) \in Asked
    /\ \A t \in Threads : \A d \in ToSet(hand[t]) : Asking(d.session, d.message) \in Asked
    /\ pending # Nothing => Asking(pending.session, pending.message) \in Asked
    /\ \A entry \in ToSet(log) : Asking(entry.session, entry.message) \in Asked

(* Nothing is said but what was to be said.                                *)
LEMMA AskedKeptQuietly ==
    ASSUME ExchangeInv, AskedInv, LogExtends,
           \A s \in Sessions : at'[s] \in {"lookup", "accept", "cancel"} =>
              at[s] \in {"lookup", "accept", "cancel"} /\ request'[s] = request[s],
           \A s \in Sessions : OutOf(s)' \subseteq OutOf(s),
           \A t \in Threads : \A d \in ToSet(hand'[t]) :
              Asking(d.session, d.message) \in Asked,
           pending' # Nothing => Asking(pending'.session, pending'.message) \in Asked,
           \A entry \in ToSet(log') : Asking(entry.session, entry.message) \in Asked
    PROVE  AskedInv'
  <1>1. Asked \subseteq Asked'
    BY AskedStays
  <1>2. \A s \in Sessions : at'[s] \in {"lookup", "accept", "cancel"} =>
           Asking(s, request'[s]) \in Asked'
    BY <1>1 DEF AskedInv
  <1>3. \A s \in Sessions : \A m \in OutOf(s)' : Asking(s, m) \in Asked'
    BY <1>1 DEF AskedInv
  <1>4. \A t \in Threads : \A d \in ToSet(hand'[t]) : Asking(d.session, d.message) \in Asked'
    BY <1>1
  <1>5. pending' # Nothing => Asking(pending'.session, pending'.message) \in Asked'
    BY <1>1
  <1>6. \A entry \in ToSet(log') : Asking(entry.session, entry.message) \in Asked'
    BY <1>1
  <1> QED BY <1>2, <1>3, <1>4, <1>5, <1>6 DEF AskedInv

LEMMA AskedReceive ==
    ASSUME ExchangeInv, AskedInv, NEW s \in Sessions, NEW r \in Requests, Receive(s, r)
    PROVE  AskedInv'
  <1> PICK received : received = Message(r.type, r.cl, r.order, "none", 0, 0)
    OBVIOUS
  <1> PICK entry : entry = LogEntry("RECEIVED", s, received)
    OBVIOUS
  <1>1. /\ UNCHANGED <<hand, pending>> /\ log' = Append(log, entry)
        /\ \/ /\ at' \in {[at EXCEPT ![s] = "lookup"], [at EXCEPT ![s] = "cancel"]}
              /\ request' = [request EXCEPT ![s] = r] /\ out' = out
           \/ /\ at' \in {[at EXCEPT ![s] = "turn"], [at EXCEPT ![s] = "lookup"]}
              /\ request' = request /\ at'[s] = "turn"
              /\ \E m : m.order = r.order /\ out' = [out EXCEPT ![s] = <<m>>]
    <2>1. RejectedExecutionReport(r, nextExec).order = r.order /\ CancelReject(r).order = r.order
      BY DEF RejectedExecutionReport, ExecutionReport, CancelReject, Message
    <2> QED BY <2>1 DEF Receive, Record, ExchangeInv, ThreadsInv
  <1>2. /\ entry \in LogEntries /\ entry.session = s /\ entry.message.order = r.order
        /\ entry.direction = "RECEIVED"
    BY MessagesTyped DEF LogEntry, LogEntries, Message
  <1>3. LogExtends /\ log \in Seq(LogEntries)
    BY <1>1, <1>2 DEF LogExtends, ExchangeInv, SendingInv
  <1>0. \A m : m.order = r.order => Asking(s, m) = Asking(s, r)
    BY DEF Asking
  <1>4. Asking(s, r) \in Asked'
    <2>1. Len(log) + 1 \in 1 .. Len(log') /\ log'[Len(log) + 1] = entry
      BY <1>1, <1>2, <1>3
    <2> QED BY <1>0, <1>2, <2>1 DEF Asked
  <1>5. Asked \subseteq Asked'
    BY <1>3, AskedStays
  <1>6. /\ at \in [Sessions -> {"none", "accepted", "logon", "turn", "receive",
                               "lookup", "accept", "cancel", "done"}]
        /\ request \in [Sessions -> Requests \cup {Nothing}]
        /\ out \in [Sessions -> Seq(Messages)]
    BY DEF ExchangeInv, ThreadsInv, SendingInv
  <1>7. ASSUME NEW x \in Sessions, at'[x] \in {"lookup", "accept", "cancel"}
        PROVE  Asking(x, request'[x]) \in Asked'
    <2>1. \/ x = s /\ request'[x] = r
          \/ at[x] \in {"lookup", "accept", "cancel"} /\ request'[x] = request[x]
      BY <1>1, <1>6, <1>7
    <2> QED BY <1>4, <1>5, <2>1 DEF AskedInv
  <1>8. ASSUME NEW x \in Sessions, NEW m \in OutOf(x)'
        PROVE  Asking(x, m) \in Asked'
    <2>1. \/ out'[x] = out[x]
          \/ x = s /\ \E k : k.order = r.order /\ out'[x] = <<k>>
      BY <1>1, <1>6
    <2>2. CASE out'[x] = out[x]
      BY <1>5, <1>8, <2>2 DEF AskedInv, OutOf
    <2>3. ASSUME x = s, NEW k, k.order = r.order, out'[x] = <<k>>
          PROVE  Asking(x, m) \in Asked'
      <3>1. m = k
        BY <1>8, <2>3, SetsOfSequences DEF OutOf
      <3> QED BY <1>0, <1>4, <2>3, <3>1
    <2> QED BY <2>1, <2>2, <2>3
  <1>9. \A any \in ToSet(log') : Asking(any.session, any.message) \in Asked'
    <2>1. ToSet(log') = ToSet(log) \cup {entry}
      BY <1>1, <1>2, <1>3, SetsOfSequences
    <2> QED BY <1>0, <1>2, <1>4, <1>5, <2>1 DEF AskedInv
  <1>10. /\ \A t \in Threads : \A d \in ToSet(hand'[t]) : Asking(d.session, d.message) \in Asked'
         /\ pending' # Nothing => Asking(pending'.session, pending'.message) \in Asked'
    BY <1>1, <1>5 DEF AskedInv
  <1> QED BY <1>7, <1>8, <1>9, <1>10 DEF AskedInv

(* A thread answers a request about the order it was for.                  *)
LEMMA AskedAnswers ==
    ASSUME ExchangeInv, AskedInv, NEW s \in Sessions, at[s] \in {"lookup", "accept", "cancel"},
           NEW messages, Answers(s, messages),
           \A m \in ToSet(messages) : m.order = request[s].order,
           UNCHANGED <<hand, pending, log>>
    PROVE  AskedInv'
  <1>1. /\ at \in [Sessions -> {"none", "accepted", "logon", "turn", "receive",
                               "lookup", "accept", "cancel", "done"}]
        /\ request \in [Sessions -> Requests \cup {Nothing}]
        /\ out \in [Sessions -> Seq(Messages)]
    BY DEF ExchangeInv, ThreadsInv, SendingInv
  <1>2. /\ out' = [out EXCEPT ![s] = messages]
        /\ at' = [at EXCEPT ![s] = "turn"]
        /\ request' = [request EXCEPT ![s] = Nothing]
    BY DEF Answers
  <1>3. Asked' = Asked
    BY DEF Asked
  <1>4. ASSUME NEW x \in Sessions, at'[x] \in {"lookup", "accept", "cancel"}
        PROVE  Asking(x, request'[x]) \in Asked
    BY <1>1, <1>2, <1>4 DEF AskedInv
  <1>5. ASSUME NEW x \in Sessions, NEW m \in OutOf(x)'
        PROVE  Asking(x, m) \in Asked
    <2>1. CASE x = s
      <3>1. m \in ToSet(messages)
        BY <1>1, <1>2, <1>5, <2>1 DEF OutOf
      <3>2. Asking(x, m) = Asking(s, request[s])
        BY <2>1, <3>1 DEF Asking
      <3> QED BY <3>2 DEF AskedInv
    <2>2. CASE x # s
      BY <1>1, <1>2, <1>5, <2>2 DEF AskedInv, OutOf
    <2> QED BY <2>1, <2>2
  <1> QED BY <1>3, <1>4, <1>5 DEF AskedInv

LEMMA AskedLookUp ==
    ASSUME ExchangeInv, ReportedInv, AskedInv, NEW s \in Sessions, LookUp(s)
    PROVE  AskedInv'
  <1>1. at[s] = "lookup" /\ UNCHANGED <<hand, pending, log>>
    BY DEF LookUp
  <1>2. CASE request[s].order \in DOMAIN responses
    <2> PICK messages : messages = responses[request[s].order]
      OBVIOUS
    <2>1. Answers(s, messages)
      BY <1>2 DEF LookUp
    <2>2. \A m \in ToSet(messages) : m.order = request[s].order
      BY <1>2 DEF ReportedInv, CachedInv, ReportsOf
    <2> QED BY <1>1, <2>1, <2>2, AskedAnswers
  <1>3. CASE request[s].order \notin DOMAIN responses
    <2>1. at' = [at EXCEPT ![s] = "accept"] /\ UNCHANGED <<out, request>>
      BY <1>3 DEF LookUp
    <2>2. Asked' = Asked
      BY <1>1 DEF Asked
    <2>3. \A x \in Sessions : at'[x] \in {"lookup", "accept", "cancel"} =>
             at[x] \in {"lookup", "accept", "cancel"}
      BY <1>1, <2>1 DEF ExchangeInv, ThreadsInv
    <2>4. \A x \in Sessions : OutOf(x)' = OutOf(x)
      BY <2>1 DEF OutOf
    <2> QED BY <1>1, <2>1, <2>2, <2>3, <2>4 DEF AskedInv
  <1> QED BY <1>2, <1>3

LEMMA AskedAccept ==
    ASSUME ExchangeInv, AskedInv, NEW s \in Sessions, AcceptNewOrder(s)
    PROVE  AskedInv'
  <1> PICK r : r = request[s]
    OBVIOUS
  <1>1. at[s] = "accept" /\ UNCHANGED <<hand, pending, log>>
    BY Zenon DEF AcceptNewOrder
  <1>2. ASSUME NEW n, Answers(s, <<RejectedExecutionReport(r, n)>>)
        PROVE  AskedInv'
    <2> PICK reject : reject = RejectedExecutionReport(r, n)
      OBVIOUS
    <2>1. reject.order = r.order /\ ToSet(<<reject>>) = {reject}
      BY RejectsNumbered, SetsOfSequences
    <2>2. Answers(s, <<reject>>) /\ \A m \in ToSet(<<reject>>) : m.order = request[s].order
      BY <1>2, <2>1
    <2> QED BY <1>1, <2>2, AskedAnswers
  <1>3. ASSUME NEW order, NEW reports \in Seq(Messages), OpensWith(r, order, reports),
               Answers(s, reports)
        PROVE  AskedInv'
    <2>1. \A m \in ToSet(reports) : m.order = r.order
      BY <1>3 DEF OpensWith, ToSet
    <2> QED BY <1>1, <1>3, <2>1, AskedAnswers
  <1> QED BY <1>2, <1>3, AcceptShape DEF Refuses, Accepts

LEMMA AskedCancel ==
    ASSUME ExchangeInv, AskedInv, NEW s \in Sessions, Cancel(s)
    PROVE  AskedInv'
  <1> PICK r : r = request[s]
    OBVIOUS
  <1>1. at[s] = "cancel" /\ UNCHANGED <<hand, pending, log>>
    BY DEF Cancel
  <1>2. PICK m : m.order = r.order /\ Answers(s, <<m>>)
    BY DEF Cancel, ExecutionReport, CancelReject, Message
  <1>3. \A k \in ToSet(<<m>>) : k.order = request[s].order
    BY <1>2, SetsOfSequences
  <1> QED BY <1>1, <1>2, <1>3, AskedAnswers

LEMMA AskedSend ==
    ASSUME ExchangeInv, AskedInv, NEW s \in Sessions, Send(s)
    PROVE  AskedInv'
  <1> PICK m : m = Head(out[s])
    OBVIOUS
  <1>1. /\ Sending(s) /\ s \in Threads /\ UNCHANGED <<at, request>>
        /\ out' = [out EXCEPT ![s] = Tail(@)]
        /\ out \in [Sessions -> Seq(Messages)]
        /\ hand \in [Threads -> Seq(AllDeliveries)]
        /\ log \in Seq(LogEntries)
    BY DEF Send, DropReport, SendDirectly, HoldBack, SendWithHeld, ExchangeInv, SendingInv, Threads
  <1>2. LogExtends
    BY StepsExtendLog DEF Serves, Exchange
  <1>3. /\ m \in OutOf(s) /\ m \in Messages
        /\ \A x \in Sessions : OutOf(x)' \subseteq OutOf(x)
    <2>1. out'[s] = Tail(out[s]) /\ out[s] # <<>> /\ out[s] \in Seq(Messages)
      BY <1>1 DEF Sending
    <2>2. ToSet(out[s]) = {m} \cup ToSet(out'[s]) /\ m \in Messages
      BY <2>1, SetsOfSequences, HeadAndTail
    <2>3. \A x \in Sessions : x # s => out'[x] = out[x]
      BY <1>1
    <2> QED BY <2>2, <2>3 DEF OutOf
  <1>4. Asking(s, m) \in Asked
    BY <1>3 DEF AskedInv
  <1>5. ASSUME NEW delivery \in Deliveries(s)
        PROVE  delivery.message = m /\ delivery.session = s
    <2>1. PICK duplicate \in BOOLEAN : delivery = Delivery(s, m, duplicate)
      BY DEF Deliveries
    <2> QED BY <2>1 DEF Delivery
  <1>6. ASSUME DropReport(s) PROVE AskedInv'
    <2>1. /\ UNCHANGED <<hand, pending>> /\ log' = Append(log, LogEntry("DROPPED", s, m))
      BY <1>6 DEF DropReport, Record
    <2>2. /\ LogEntry("DROPPED", s, m) \in LogEntries
          /\ LogEntry("DROPPED", s, m).message = m /\ LogEntry("DROPPED", s, m).session = s
      BY <1>3 DEF LogEntry, LogEntries
    <2>3. ToSet(log') = ToSet(log) \cup {LogEntry("DROPPED", s, m)}
      BY <1>1, <2>1, <2>2, SetsOfSequences
    <2>4. \A entry \in ToSet(log') : Asking(entry.session, entry.message) \in Asked
      BY <1>4, <2>2, <2>3 DEF AskedInv
    <2> QED BY <1>1, <1>2, <1>3, <2>1, <2>4, AskedKeptQuietly DEF AskedInv
  <1>7. ASSUME log' = log,
               \A t \in Threads : \A d \in ToSet(hand'[t]) :
                  \/ d \in ToSet(hand[t]) \/ d \in Deliveries(s)
                  \/ pending # Nothing /\ d = pending,
               pending' \in {Nothing, pending} \/ pending' \in Deliveries(s)
        PROVE  AskedInv'
    <2>1. \A t \in Threads : \A d \in ToSet(hand'[t]) : Asking(d.session, d.message) \in Asked
      BY <1>4, <1>5, <1>7 DEF AskedInv
    <2>2. pending' # Nothing => Asking(pending'.session, pending'.message) \in Asked
      BY <1>4, <1>5, <1>7 DEF AskedInv
    <2> QED BY <1>1, <1>2, <1>3, <1>7, <2>1, <2>2, AskedKeptQuietly DEF AskedInv
  <1>8. ASSUME SendDirectly(s) PROVE AskedInv'
    <2>1. PICK d \in Deliveries(s) : hand' = [hand EXCEPT ![s] = <<d>>]
      BY <1>8 DEF SendDirectly
    <2>2. pending' = pending /\ log' = log /\ ToSet(<<d>>) = {d}
      BY <1>8, SetsOfSequences DEF SendDirectly
    <2>3. \A t \in Threads : \A x \in ToSet(hand'[t]) : x \in ToSet(hand[t]) \/ x \in Deliveries(s)
      BY <1>1, <2>1, <2>2
    <2> QED BY <1>7, <2>2, <2>3
  <1>9. ASSUME HoldBack(s) PROVE AskedInv'
    <2>1. pending' \in Deliveries(s) /\ hand' = hand /\ log' = log
      BY <1>9 DEF HoldBack
    <2> QED BY <1>7, <2>1
  <1>10. ASSUME SendWithHeld(s) PROVE AskedInv'
    <2>1. PICK d \in Deliveries(s) : hand' = [hand EXCEPT ![s] = InOrder(pending, d)]
      BY <1>10 DEF SendWithHeld
    <2>2. pending' = Nothing /\ log' = log /\ pending # Nothing
      BY <1>10 DEF SendWithHeld
    <2>3. ToSet(InOrder(pending, d)) = {pending, d}
      BY SetsOfSequences DEF InOrder
    <2>4. \A t \in Threads : \A x \in ToSet(hand'[t]) :
             x \in ToSet(hand[t]) \/ x \in Deliveries(s) \/ x = pending
      BY <1>1, <2>1, <2>3
    <2> QED BY <1>7, <2>2, <2>4
  <1> QED BY <1>6, <1>8, <1>9, <1>10 DEF Send

LEMMA AskedFlush ==
    ASSUME ExchangeInv, AskedInv, StopFlush \/ \E t \in Timers : HoldExpires(t)
    PROVE  AskedInv'
  <1>1. PICK t \in Threads : TakePending(t)
    BY DEF StopFlush, HoldExpires, Threads
  <1>2. /\ hand' = [hand EXCEPT ![t] = IF pending = Nothing THEN <<>> ELSE <<pending>>]
        /\ pending' = Nothing /\ UNCHANGED <<at, request, out, log>>
        /\ hand \in [Threads -> Seq(AllDeliveries)]
    BY <1>1 DEF TakePending, StopFlush, HoldExpires, ExchangeInv, SendingInv
  <1>3. \A x \in Threads : \A d \in ToSet(hand'[x]) : Asking(d.session, d.message) \in Asked
    <2>1. ToSet(hand'[t]) = IF pending = Nothing THEN {} ELSE {pending}
      BY <1>2, SetsOfSequences
    <2>2. \A x \in Threads : x # t => hand'[x] = hand[x]
      BY <1>2
    <2> QED BY <2>1, <2>2 DEF AskedInv
  <1>4. LogExtends /\ \A s \in Sessions : OutOf(s)' = OutOf(s)
    BY <1>2 DEF LogExtends, OutOf
  <1> QED BY <1>2, <1>3, <1>4, AskedKeptQuietly DEF AskedInv

LEMMA AskedDeliver ==
    ASSUME ExchangeInv, AskedInv, NEW t \in Threads, Deliver(t)
    PROVE  AskedInv'
  <1> PICK delivery : delivery = Head(hand[t])
    OBVIOUS
  <1>1. /\ delivery \in ToSet(hand[t]) /\ LogExtends
        /\ hand' = [hand EXCEPT ![t] = Tail(@)]
        /\ ToSet(hand'[t]) \subseteq ToSet(hand[t])
        /\ \A entry \in ToSet(log') :
              \/ entry \in ToSet(log)
              \/ entry.session = delivery.session /\ entry.message = delivery.message
    BY DeliverExtends
  <1>2. UNCHANGED <<at, request, out, pending>>
    BY DEF Deliver
  <1>3. \A entry \in ToSet(log') : Asking(entry.session, entry.message) \in Asked
    BY <1>1 DEF AskedInv
  <1>4. \A x \in Threads : \A d \in ToSet(hand'[x]) : Asking(d.session, d.message) \in Asked
    <2>1. \A x \in Threads : x # t => hand'[x] = hand[x]
      BY <1>1 DEF ExchangeInv, SendingInv
    <2> QED BY <1>1, <2>1 DEF AskedInv
  <1>5. \A s \in Sessions : OutOf(s)' = OutOf(s)
    BY <1>2 DEF OutOf
  <1> QED BY <1>1, <1>2, <1>3, <1>4, <1>5, AskedKeptQuietly DEF AskedInv

LEMMA AskedKept ==
    ASSUME ExchangeInv, ReportedInv, AskedInv, [Serves]_vars
    PROVE  AskedInv'
  <1>1. ASSUME UNCHANGED <<request, out, hand, pending, log>>,
               \A s \in Sessions : at'[s] \in {"lookup", "accept", "cancel"} =>
                  at[s] \in {"lookup", "accept", "cancel"}
        PROVE  AskedInv'
    <2>1. LogExtends /\ \A s \in Sessions : OutOf(s)' = OutOf(s)
      BY <1>1 DEF LogExtends, OutOf
    <2> QED BY <1>1, <2>1, AskedKeptQuietly DEF AskedInv
  <1>2. ASSUME NEW s \in Sessions, NEW r \in Requests, Receive(s, r)
        PROVE  AskedInv'
    BY <1>2, AskedReceive
  <1>3. ASSUME NEW s \in Sessions,
               \/ AcceptConnection(s) \/ Register(s) \/ Logon(s) \/ Listen(s)
               \/ SessionEnds(s) \/ PeerLeaves(s)
        PROVE  AskedInv'
    <2>1. /\ UNCHANGED <<request, out, hand, pending, log>>
          /\ \/ at' = at
             \/ \E place \in {"accepted", "logon", "turn", "receive", "done"} :
                   at' = [at EXCEPT ![s] = place]
      BY <1>3 DEF AcceptConnection, Register, Logon, Listen, SessionEnds, PeerLeaves
    <2>2. \A x \in Sessions : at'[x] \in {"lookup", "accept", "cancel"} =>
             at[x] \in {"lookup", "accept", "cancel"}
      BY <2>1 DEF ExchangeInv, ThreadsInv
    <2> QED BY <1>1, <2>1, <2>2
  <1>4. ASSUME AcceptorExits \/ Stop \/ StopClose \/ StopJoin \/ Start
        PROVE  AskedInv'
    <2>1. UNCHANGED <<at, request, out, hand, pending, log>>
      BY <1>4 DEF AcceptorExits, Stop, StopClose, StopJoin, Start
    <2> QED BY <1>1, <2>1
  <1>5. ASSUME NEW s \in Sessions, LookUp(s) \/ AcceptNewOrder(s) \/ Cancel(s)
        PROVE  AskedInv'
    BY <1>5, AskedLookUp, AskedAccept, AskedCancel
  <1>6. ASSUME NEW s \in Sessions, Send(s)
        PROVE  AskedInv'
    BY <1>6, AskedSend
  <1>7. ASSUME StopFlush \/ \E t \in Timers : HoldExpires(t)
        PROVE  AskedInv'
    BY <1>7, AskedFlush
  <1>8. ASSUME NEW t \in Threads, Deliver(t)
        PROVE  AskedInv'
    BY <1>8, AskedDeliver
  <1>9. ASSUME UNCHANGED vars PROVE AskedInv'
    BY <1>1, <1>9 DEF vars
  <1> QED
    BY <1>2, <1>3, <1>4, <1>5, <1>6, <1>7, <1>8, <1>9
    DEF Serves, Exchange, Work, Connect, StopStep

-------------------------------------------------------------------------------
(* The clients                                                             *)

ClientTyped ==
    /\ session \in [Clients -> Sessions \cup {Nothing}]
    /\ inbox \in [Sessions -> Seq(Requests)]
    /\ call \in [Clients -> Requests \cup {Nothing}]
    /\ read \in [Clients -> Nat]
    /\ processed \in [Clients -> SUBSET Nat]
    /\ states = [c \in Clients |-> states[c]]

(* What the client has in mind when the next report of the order comes.    *)
Known(c, id) ==
    IF id \in DOMAIN states[c] THEN states[c][id] ELSE [state |-> "NEW", history |-> <<>>]

ProcessedOf(c, id) ==
    {m \in Reports : IsReport(m) /\ m.order = id /\ m.exec_id \in processed[c]}

(* No report a client was sent and has read went unprocessed.              *)
ReadInv ==
    \A c \in Clients : Connected(c) =>
        /\ read[c] <= Len(log)
        /\ \A i \in 1 .. read[c] :
              OnWire(i, session[c]) /\ IsReport(log[i].message) =>
                  log[i].message.exec_id \in processed[c]

(* What a client has processed was reported, and it knows no other orders. *)
ProcessedInv ==
    \A c \in Clients :
        /\ \A n \in processed[c] : n < nextExec
        /\ \A id \in DOMAIN states[c] : \E m \in Reports : IsReport(m) /\ m.order = id

(* Each machine follows the reports processed of its order.                *)
FollowedInv ==
    \A c \in Clients : \A id \in {r.order : r \in Requests} :
        Rejected(id) \/ Follows(Known(c, id), ProcessedOf(c, id))

KnowsInv == NumberedInv /\ AnsweredInv /\ AskedInv /\ ReadInv /\ ProcessedInv /\ FollowedInv

GatewayInv ==
    ExchangeInv /\ HandoverInv /\ ReportedInv /\ ClientTyped /\ KnowsInv

(* Whatever clients do, the exchange takes only its own steps.             *)
LEMMA ArriveServes ==
    ASSUME ClientTyped, NEW s \in Sessions, Arrive(s)
    PROVE  Serves
  <1>1. Head(inbox[s]) \in Requests
    <2>1. inbox[s] \in Seq(Requests) /\ inbox[s] # <<>>
      BY DEF ClientTyped, Arrive
    <2> QED BY <2>1, HeadAndTail
  <1> QED BY <1>1 DEF Arrive, Serves

LEMMA CloseServes ==
    ASSUME ExchangeInv, ClientTyped, NEW c \in Clients, Close(c)
    PROVE  [Serves]_vars
  <1> PICK s \in Sessions : s = session[c]
    BY DEF Close, Idle, Connected, ClientTyped
  <1>1. /\ socket' = [socket EXCEPT ![s] = IF @ = "open" THEN "hungup" ELSE @]
        /\ UNCHANGED <<books, at, request, out, hand, pending, service, log>>
        /\ socket \in [Sessions -> {"none", "open", "hungup", "closed"}]
    BY DEF Close, ExchangeInv, ServiceInv
  <1>2. CASE socket[s] = "open"
    BY <1>1, <1>2 DEF PeerLeaves, Serves
  <1>3. CASE socket[s] # "open"
    <2>1. socket' = socket
      BY <1>1, <1>3
    <2> QED BY <1>1, <2>1 DEF vars, books, config, service
  <1> QED BY <1>2, <1>3

(* A client may be writing or waiting, and may leave.                      *)
Waits ==
    /\ [Serves]_vars
    /\ UNCHANGED <<read, processed, states>>
    /\ \A c \in Clients : session'[c] \in {session[c], Nothing}

LEMMA AttemptTyped ==
    ASSUME ClientTyped, NEW c \in Clients, NEW r \in Requests, NEW n, Attempt(c, r, n)
    PROVE  /\ inbox' \in [Sessions -> Seq(Requests)]
           /\ call' \in [Clients -> Requests \cup {Nothing}]
  <1>1. \A q \in Seq(Requests) : Append(q, r) \in Seq(Requests)
    OBVIOUS
  <1>2. inbox' = [inbox EXCEPT ![session[c]] = Append(@, r)]
    BY DEF Attempt
  <1>3. call' = [call EXCEPT ![c] = Nothing] \/ call' = [call EXCEPT ![c] = r]
    BY DEF Attempt
  <1> QED BY <1>1, <1>2, <1>3 DEF ClientTyped

LEMMA GatewaySteps ==
    ASSUME ExchangeInv, ClientTyped, [GatewayNext]_allVars
    PROVE  /\ [Serves]_vars
           /\ session' \in [Clients -> Sessions \cup {Nothing}]
           /\ inbox' \in [Sessions -> Seq(Requests)]
           /\ call' \in [Clients -> Requests \cup {Nothing}]
           /\ \/ Waits
              \/ \E c \in Clients, s \in Sessions : ClientConnect(c, s)
              \/ \E c \in Clients : Read(c)
  <1> DEFINE Typed == /\ session' \in [Clients -> Sessions \cup {Nothing}]
                      /\ inbox' \in [Sessions -> Seq(Requests)]
                      /\ call' \in [Clients -> Requests \cup {Nothing}]
             Shape == /\ [Serves]_vars
                      /\ Typed
                      /\ \/ Waits
                         \/ \E c \in Clients, s \in Sessions : ClientConnect(c, s)
                         \/ \E c \in Clients : Read(c)
  <1>1. ASSUME [Serves]_vars, Typed, UNCHANGED <<session, read, processed, states>>
        PROVE  Shape
    BY <1>1 DEF Waits
  <1>2. ASSUME UNCHANGED vars, Typed, UNCHANGED <<session, read, processed, states>>
        PROVE  Shape
    BY <1>1, <1>2
  <1>3. ASSUME Exchange, UNCHANGED clientVars
        PROVE  Shape
    <2>1. Typed /\ UNCHANGED <<session, read, processed, states>>
      BY <1>3 DEF clientVars, ClientTyped
    <2> QED BY <1>1, <1>3, <2>1 DEF Serves
  <1>4. ASSUME NEW s \in Sessions, Arrive(s)
        PROVE  Shape
    <2>1. inbox' = [inbox EXCEPT ![s] = Tail(@)]
          /\ UNCHANGED <<session, call, read, processed, states>>
      BY <1>4 DEF Arrive
    <2>2. Tail(inbox[s]) \in Seq(Requests)
      <3>1. inbox[s] \in Seq(Requests) /\ inbox[s] # <<>>
        BY <1>4 DEF ClientTyped, Arrive
      <3> QED BY <3>1, HeadAndTail
    <2>3. Typed
      BY <2>1, <2>2 DEF ClientTyped
    <2> QED BY <1>1, <1>4, <2>1, <2>3, ArriveServes
  <1>5. ASSUME NEW c \in Clients, NEW s \in Sessions, ClientConnect(c, s)
        PROVE  Shape
    <2>1. Typed /\ UNCHANGED vars
      BY <1>5 DEF ClientConnect, ClientTyped
    <2> QED BY <1>5, <2>1
  <1>6. ASSUME NEW c \in Clients, NEW r \in Portfolio[c], Call(c, r) \/ SendNoWait(c, r)
        PROVE  Shape
    <2>1. r \in Requests
      BY PortfolioAssumption
    <2>2. UNCHANGED <<vars, session, read, processed, states>>
      BY <1>6 DEF Call, SendNoWait
    <2>3. CASE Call(c, r)
      <3>1. Attempt(c, r, 0)
        BY <2>3 DEF Call
      <3>2. Typed
        BY <2>1, <2>2, <3>1, AttemptTyped DEF ClientTyped
      <3> QED BY <1>2, <2>2, <3>2
    <2>4. CASE SendNoWait(c, r)
      <3>1. \A q \in Seq(Requests) : Append(q, r) \in Seq(Requests)
        BY <2>1
      <3>2. inbox' = [inbox EXCEPT ![session[c]] = Append(@, r)] /\ call' = call
        BY <2>4 DEF SendNoWait
      <3>3. Typed
        BY <2>2, <3>1, <3>2 DEF ClientTyped
      <3> QED BY <1>2, <2>2, <3>3
    <2> QED BY <1>6, <2>3, <2>4
  <1>7. ASSUME NEW c \in Clients, Read(c)
        PROVE  Shape
    <2>1. /\ UNCHANGED <<vars, session, inbox>>
          /\ call' = [call EXCEPT ![c] = Nothing] \/ call' = call
      BY <1>7 DEF Read
    <2>2. Typed
      BY <2>1 DEF ClientTyped
    <2> QED BY <1>7, <2>1, <2>2
  <1>8. ASSUME NEW c \in Clients, Timeout(c) \/ ConnectionLost(c)
        PROVE  Shape
    <2>1. /\ UNCHANGED <<vars, session, read, processed, states>> /\ call[c] # Nothing
          /\ \/ Attempt(c, call[c], attempt[c] + 1)
             \/ call' = [call EXCEPT ![c] = Nothing] /\ inbox' = inbox
      BY <1>8 DEF Timeout, ConnectionLost
    <2>2. call[c] \in Requests
      BY <2>1 DEF ClientTyped
    <2>3. Typed
      BY <2>1, <2>2, AttemptTyped DEF ClientTyped
    <2> QED BY <1>2, <2>1, <2>3
  <1>9. ASSUME NEW c \in Clients, TakeKept(c)
        PROVE  Shape
    <2>1. Typed /\ UNCHANGED <<vars, session, read, processed, states>>
      BY <1>9 DEF TakeKept, ClientTyped
    <2> QED BY <1>2, <2>1
  <1>10. ASSUME NEW c \in Clients, Close(c)
         PROVE  Shape
    <2>1. /\ session' = [session EXCEPT ![c] = Nothing]
          /\ UNCHANGED <<inbox, call, read, processed, states>>
      BY <1>10 DEF Close
    <2>2. Typed /\ \A d \in Clients : session'[d] \in {session[d], Nothing}
      BY <2>1 DEF ClientTyped
    <2> QED BY <1>10, <2>1, <2>2, CloseServes DEF Waits
  <1>11. ASSUME UNCHANGED allVars
         PROVE  Shape
    <2>1. Typed /\ UNCHANGED <<vars, session, read, processed, states>>
      BY <1>11 DEF allVars, clientVars, ClientTyped
    <2> QED BY <1>2, <2>1
  <1> HIDE DEF Shape
  <1>12. Shape
    BY <1>3, <1>4, <1>5, <1>6, <1>7, <1>8, <1>9, <1>10, <1>11 DEF GatewayNext, ClientStep
  <1> QED BY <1>12 DEF Shape

(* While a client waits the exchange may go on: what the client has read   *)
(* and processed stays what it was.                                        *)
LEMMA WaitingKeeps ==
    ASSUME GatewayInv, Waits
    PROVE  ReadInv' /\ ProcessedInv' /\ FollowedInv'
  <1>1. PICK new : Made(new)
    BY StepsMake DEF GatewayInv, Waits
  <1>2. UNCHANGED <<read, processed, states>> /\ ExchangeInv /\ ClientTyped /\ ProcessedInv
    BY DEF Waits, GatewayInv, KnowsInv
  <1>3. /\ Len(log) \in Nat /\ Len(log') \in Nat /\ Len(log) <= Len(log')
        /\ \A i \in 1 .. Len(log) : i \in 1 .. Len(log') /\ log'[i] = log[i]
    BY StepsExtendLog, LogGrows DEF GatewayInv, Waits
  <1>4. ReadInv'
    <2> SUFFICES ASSUME NEW c \in Clients, session'[c] # Nothing
                 PROVE  /\ read'[c] <= Len(log')
                        /\ \A i \in 1 .. read'[c] :
                              /\ log'[i].session = session'[c]
                              /\ log'[i].direction \in {"SENT", "DUPLICATE_SENT"}
                              /\ IsReport(log'[i].message)
                              => log'[i].message.exec_id \in processed'[c]
      BY DEF ReadInv, Connected, OnWire
    <2>1. session[c] = session'[c] /\ Connected(c)
      BY DEF Waits, Connected
    <2>2. read[c] \in Nat /\ read[c] <= Len(log)
      BY <1>2, <2>1 DEF ClientTyped, GatewayInv, KnowsInv, ReadInv
    <2>3. ASSUME NEW i \in 1 .. read[c], log[i].session = session[c],
                 log[i].direction \in {"SENT", "DUPLICATE_SENT"}, IsReport(log[i].message)
          PROVE  log[i].message.exec_id \in processed[c]
      BY <2>1, <2>3 DEF GatewayInv, KnowsInv, ReadInv, OnWire
    <2>4. \A i \in 1 .. read[c] : log'[i] = log[i]
      BY <1>3, <2>2
    <2>5. read'[c] <= Len(log')
      BY <1>2, <1>3, <2>2
    <2>6. ASSUME NEW i \in 1 .. read[c], log'[i].session = session'[c],
                 log'[i].direction \in {"SENT", "DUPLICATE_SENT"}, IsReport(log'[i].message)
          PROVE  log'[i].message.exec_id \in processed'[c]
      BY <1>2, <2>1, <2>3, <2>4, <2>6
    <2> QED BY <1>2, <2>5, <2>6
  <1>5. ProcessedInv'
    <2>1. \A c \in Clients : \A n \in processed[c] : n < nextExec'
      <3>1. \A c \in Clients : \A n \in processed[c] : n \in Nat /\ n < nextExec
        BY <1>2 DEF ClientTyped, ProcessedInv
      <3>2. nextExec \in Nat /\ nextExec' \in Nat /\ nextExec <= nextExec'
        BY <1>1, <1>2 DEF Made, ExchangeInv, BooksInv
      <3> QED BY <3>1, <3>2
    <2>2. Reports \subseteq Reports'
      BY <1>1 DEF Made
    <2> QED BY <1>2, <2>1, <2>2 DEF ProcessedInv
  <1>6. FollowedInv'
    <2> SUFFICES ASSUME NEW c \in Clients, NEW id \in {r.order : r \in Requests}
                 PROVE  Rejected(id)' \/ Follows(Known(c, id)', ProcessedOf(c, id)')
      BY DEF FollowedInv
    <2>1. Known(c, id)' = Known(c, id)
      BY <1>2 DEF Known
    <2>2. ProcessedOf(c, id)' = ProcessedOf(c, id)
      <3>1. ASSUME NEW m \in new, IsReport(m), m.exec_id \in processed[c]
            PROVE  FALSE
        <4>1. m.exec_id \in Nat /\ nextExec <= m.exec_id /\ nextExec \in Nat
          BY <1>1, <1>2, <3>1 DEF Made, ExchangeInv, BooksInv
        <4>2. m.exec_id < nextExec
          BY <1>2, <3>1 DEF ProcessedInv
        <4> QED BY <4>1, <4>2
      <3>2. Reports' = Reports \cup new /\ processed' = processed
        BY <1>1, <1>2 DEF Made
      <3> QED BY <3>1, <3>2 DEF ProcessedOf
    <2>3. Rejected(id) => Rejected(id)'
      BY <1>1, RejectedStays
    <2> QED BY <2>1, <2>2, <2>3 DEF GatewayInv, KnowsInv, FollowedInv
  <1> QED BY <1>4, <1>5, <1>6

LEMMA ConnectingKeeps ==
    ASSUME GatewayInv, NEW c \in Clients, NEW s \in Sessions, ClientConnect(c, s)
    PROVE  ReadInv' /\ ProcessedInv' /\ FollowedInv'
  <1>1. /\ UNCHANGED vars /\ UNCHANGED <<processed, states>>
        /\ session' = [session EXCEPT ![c] = s] /\ read' = [read EXCEPT ![c] = 0]
    BY DEF ClientConnect
  <1>2. UNCHANGED <<orders, responses, nextExec, out, hand, pending, log>>
    BY <1>1 DEF vars
  <1>3. Reports' = Reports
    BY <1>2, ReportsRest
  <1>4. ExchangeInv /\ ClientTyped /\ ReadInv /\ ProcessedInv /\ FollowedInv
    BY DEF GatewayInv, KnowsInv
  <1>5. ReadInv'
    <2> SUFFICES ASSUME NEW d \in Clients, session'[d] # Nothing
                 PROVE  /\ read'[d] <= Len(log')
                        /\ \A i \in 1 .. read'[d] :
                              /\ log'[i].session = session'[d]
                              /\ log'[i].direction \in {"SENT", "DUPLICATE_SENT"}
                              /\ IsReport(log'[i].message)
                              => log'[i].message.exec_id \in processed'[d]
      BY DEF ReadInv, Connected, OnWire
    <2>1. CASE d = c
      <3>1. read'[d] = 0 /\ Len(log) \in Nat
        BY <1>1, <1>4, <2>1 DEF ClientTyped, ExchangeInv, SendingInv
      <3> QED BY <1>2, <3>1
    <2>2. CASE d # c
      <3>1. read'[d] = read[d] /\ session'[d] = session[d]
        BY <1>1, <1>4, <2>2 DEF ClientTyped
      <3> QED BY <1>1, <1>2, <1>4, <3>1 DEF ReadInv, Connected, OnWire
    <2> QED BY <2>1, <2>2
  <1>6. ProcessedInv'
    BY <1>1, <1>2, <1>3, <1>4 DEF ProcessedInv
  <1>7. FollowedInv'
    <2>1. \A d, id : /\ Known(d, id)' = Known(d, id)
                     /\ ProcessedOf(d, id)' = ProcessedOf(d, id)
                     /\ Rejected(id)' <=> Rejected(id)
      BY <1>1, <1>3 DEF Known, ProcessedOf, Rejected
    <2> QED BY <1>4, <2>1 DEF FollowedInv
  <1> QED BY <1>5, <1>6, <1>7

(* What a client reads: the first message it was sent and has not read.    *)
LEMMA ReadShape ==
    ASSUME GatewayInv, NEW c \in Clients, Read(c),
           NEW next, next = Min(Unread(c)), NEW m, m = log[next].message
    PROVE  /\ next \in 1 .. Len(log) /\ read[c] < next /\ Connected(c)
           /\ OnWire(next, session[c])
           /\ \A i \in 1 .. next : OnWire(i, session[c]) => i <= read[c] \/ i = next
           /\ m \in Reports /\ m \in Messages
           /\ UNCHANGED vars /\ session' = session
           /\ read' = [read EXCEPT ![c] = next]
           /\ IF IsReport(m) /\ m.exec_id \notin processed[c]
              THEN Process(c, m)
              ELSE UNCHANGED <<processed, states>>
  <1>1. read[c] \in Nat /\ Len(log) \in Nat /\ log \in Seq(LogEntries) /\ ExchangeInv
    BY DEF GatewayInv, ClientTyped, ExchangeInv, SendingInv
  <1>2. Unread(c) # {} /\ Unread(c) \subseteq Nat
    BY <1>1 DEF Read, Unread
  <1>3. next \in Unread(c) /\ \A i \in Unread(c) : next <= i
    <2>1. \E i \in Unread(c) : \A j \in Unread(c) : i <= j
      BY <1>2, LeastNatural
    <2> QED BY <2>1 DEF Min
  <1>4. next \in 1 .. Len(log) /\ read[c] < next /\ OnWire(next, session[c])
    BY <1>1, <1>3 DEF Unread
  <1>5. \A i \in 1 .. next : OnWire(i, session[c]) => i <= read[c] \/ i = next
    <2> SUFFICES ASSUME NEW i \in 1 .. next, OnWire(i, session[c]), ~(i <= read[c]), i # next
                 PROVE  FALSE
      OBVIOUS
    <2>1. i \in read[c] + 1 .. Len(log) /\ i < next
      BY <1>1, <1>4
    <2>2. i \in Unread(c)
      BY <2>1 DEF Unread
    <2> QED BY <1>1, <1>3, <1>4, <2>1, <2>2
  <1>6. m \in Reports
    <2>1. log[next] \in ToSet(log)
      BY <1>1, <1>4 DEF ToSet
    <2> QED BY <2>1 DEF Logged, Reports
  <1>7. m \in Messages
    BY <1>1, <1>6, ReportsTypedWhereverTheyAre
  <1>8. /\ UNCHANGED vars /\ session' = session /\ Connected(c)
        /\ read' = [read EXCEPT ![c] = next]
        /\ IF IsReport(m) /\ m.exec_id \notin processed[c]
           THEN Process(c, m)
           ELSE UNCHANGED <<processed, states>>
    <2>1. /\ UNCHANGED vars /\ session' = session /\ Connected(c)
          /\ read' = [read EXCEPT ![c] = next]
          /\ IF IsReport(m) /\ ~(IsReport(m) /\ m.exec_id \in processed[c])
             THEN Process(c, m)
             ELSE UNCHANGED <<processed, states>>
      BY DEF Read
    <2> QED BY <2>1
  <1> QED BY <1>4, <1>5, <1>6, <1>7, <1>8

LEMMA ProcessShape ==
    ASSUME ClientTyped, NEW c \in Clients, NEW m, m.exec_id \in Nat, Process(c, m)
    PROVE  /\ processed' \in [Clients -> SUBSET Nat]
           /\ processed'[c] = processed[c] \cup {m.exec_id}
           /\ states' = [d \in Clients |-> states'[d]]
           /\ DOMAIN states'[c] = DOMAIN states[c] \cup {m.order}
           /\ Known(c, m.order)' = Followed(Known(c, m.order), m.event)
           /\ \A id : id # m.order => Known(c, id)' = Known(c, id)
           /\ \A d \in Clients : d # c => processed'[d] = processed[d] /\ states'[d] = states[d]
  <1> PICK known : known = Followed(Known(c, m.order), m.event)
    OBVIOUS
  <1> PICK book : book = [id \in DOMAIN states[c] \cup {m.order} |->
                             IF id = m.order THEN known ELSE states[c][id]]
    OBVIOUS
  <1>1. processed' = [processed EXCEPT ![c] = @ \cup {m.exec_id}]
    BY DEF Process
  <1>2. states' = [states EXCEPT ![c] = book]
    BY DEF Process, Known
  <1>3. /\ processed' \in [Clients -> SUBSET Nat]
        /\ processed'[c] = processed[c] \cup {m.exec_id}
        /\ \A d \in Clients : d # c => processed'[d] = processed[d]
    BY <1>1 DEF ClientTyped
  <1>4. /\ states' = [d \in Clients |-> states'[d]]
        /\ states'[c] = book
        /\ \A d \in Clients : d # c => states'[d] = states[d]
    BY <1>2 DEF ClientTyped
  <1>5. /\ DOMAIN states'[c] = DOMAIN states[c] \cup {m.order}
        /\ Known(c, m.order)' = known
        /\ \A id : id # m.order => Known(c, id)' = Known(c, id)
    BY <1>4 DEF Known
  <1> QED BY <1>3, <1>4, <1>5

(* Both a fill of the whole order and a cancel are never reported of it.   *)
LEMMA ReportsAgree ==
    ASSUME ExchangeInv, ReportedInv, NEW id, NEW m \in ReportsOf(id),
           NEW some \in SUBSET ReportsOf(id)
    PROVE  /\ m.event \in Announced
           /\ ~({"FULL_FILL", "CANCEL_CONFIRMED"} \subseteq EventsOf(some))
  <1>1. id \in DOMAIN orders
    BY ReportsOfAnnounce DEF ReportedInv, AnnouncedInv
  <1> PICK order : order = orders[id]
    OBVIOUS
  <1> PICK arcs : arcs = AnnouncedArcs(id)
    OBVIOUS
  <1>2. GoodOrder(order) /\ order.history \in Seq(TRANSITIONS)
    BY <1>1 DEF ExchangeInv, BooksInv, GoodOrder, Order
  <1>3. PICK report : Explains(report, arcs, ReportsOf(id), order.history)
    BY <1>1, EventsExplained DEF ReportedInv
  <1>4. /\ arcs \subseteq 1 .. Len(order.history)
        /\ \A i \in arcs : order.history[i].event # "CANCEL_REQUEST"
    BY <1>2 DEF AnnouncedArcs
  <1>5. ASSUME NEW k \in ReportsOf(id)
        PROVE  \E i \in 1 .. Len(order.history) :
                  order.history[i].event = k.event /\ k.event # "CANCEL_REQUEST"
    <2>1. PICK i \in arcs : k = report[i]
      BY <1>3 DEF Explains
    <2> QED BY <1>3, <1>4, <2>1 DEF Explains
  <1>6. m.event \in Announced
    <2>1. PICK i \in 1 .. Len(order.history) :
             order.history[i].event = m.event /\ m.event # "CANCEL_REQUEST"
      BY <1>5
    <2>2. m.event \in OrderEvent
      BY <1>2, <2>1, ArcShape
    <2>3. m.event # "REJECT"
      BY ReportsOfAnnounce DEF Announces
    <2> QED BY <2>1, <2>2, <2>3 DEF Announced, OrderEvent
  <1>7. ASSUME {"FULL_FILL", "CANCEL_CONFIRMED"} \subseteq EventsOf(some)
        PROVE  FALSE
    <2>1. PICK a \in some, b \in some : a.event = "FULL_FILL" /\ b.event = "CANCEL_CONFIRMED"
      BY <1>7 DEF EventsOf
    <2>2. PICK i \in 1 .. Len(order.history) : order.history[i].event = "FULL_FILL"
      BY <1>5, <2>1
    <2>3. PICK j \in 1 .. Len(order.history) : order.history[j].event = "CANCEL_CONFIRMED"
      BY <1>5, <2>1
    <2> QED BY <1>2, <2>2, <2>3, FilledOrCanceled
  <1> QED BY <1>6, <1>7

LEMMA ProcessedAreReports ==
    ASSUME NEW c, NEW id, ~Rejected(id)
    PROVE  ProcessedOf(c, id) \subseteq ReportsOf(id)
  BY DEF ProcessedOf, ReportsOf, Rejected

LEMMA ReadingKeeps ==
    ASSUME GatewayInv, NEW c \in Clients, Read(c)
    PROVE  /\ ReadInv' /\ ProcessedInv' /\ FollowedInv'
           /\ read' \in [Clients -> Nat]
           /\ processed' \in [Clients -> SUBSET Nat]
           /\ states' = [d \in Clients |-> states'[d]]
  <1> PICK next : next = Min(Unread(c))
    OBVIOUS
  <1> PICK m : m = log[next].message
    OBVIOUS
  <1>1. /\ next \in 1 .. Len(log) /\ read[c] < next /\ Connected(c)
        /\ \A i \in 1 .. next : OnWire(i, session[c]) => i <= read[c] \/ i = next
        /\ m \in Reports /\ m \in Messages
        /\ UNCHANGED vars /\ session' = session
        /\ read' = [read EXCEPT ![c] = next]
        /\ IF IsReport(m) /\ m.exec_id \notin processed[c]
           THEN Process(c, m)
           ELSE UNCHANGED <<processed, states>>
    BY ReadShape
  <1>2. UNCHANGED <<orders, responses, nextExec, out, hand, pending, log>>
    BY <1>1 DEF vars
  <1>3. Reports' = Reports
    BY <1>2, ReportsRest
  <1>4. /\ ExchangeInv /\ ClientTyped /\ ReportedInv /\ NumberedInv
        /\ ReadInv /\ ProcessedInv /\ FollowedInv
        /\ Len(log) \in Nat /\ m.exec_id \in Nat /\ m.order \in {r.order : r \in Requests}
    BY <1>1 DEF GatewayInv, KnowsInv, ExchangeInv, SendingInv, Messages
  <1>5. /\ processed' \in [Clients -> SUBSET Nat]
        /\ states' = [d \in Clients |-> states'[d]]
        /\ \A d \in Clients : processed[d] \subseteq processed'[d]
        /\ IsReport(m) => m.exec_id \in processed'[c]
        /\ \A d \in Clients : d # c => processed'[d] = processed[d] /\ states'[d] = states[d]
    <2>1. CASE Process(c, m)
      BY <1>4, <2>1, ProcessShape
    <2>2. CASE ~Process(c, m)
      BY <1>1, <1>4, <2>2 DEF ClientTyped
    <2> QED BY <2>1, <2>2
  <1>6. read' \in [Clients -> Nat] /\ next \in Nat
    BY <1>1, <1>4 DEF ClientTyped
  <1>7. ReadInv'
    <2> SUFFICES ASSUME NEW d \in Clients, session[d] # Nothing
                 PROVE  /\ read'[d] <= Len(log)
                        /\ \A i \in 1 .. read'[d] :
                              OnWire(i, session[d]) /\ IsReport(log[i].message)
                              => log[i].message.exec_id \in processed'[d]
      BY <1>1, <1>2 DEF ReadInv, Connected, OnWire
    <2>1. /\ read[d] <= Len(log) /\ read[d] \in Nat
          /\ \A i \in 1 .. read[d] :
                OnWire(i, session[d]) /\ IsReport(log[i].message)
                => log[i].message.exec_id \in processed[d]
      BY <1>4 DEF ReadInv, Connected, ClientTyped
    <2>2. CASE d # c
      <3>1. read'[d] = read[d]
        BY <1>1, <1>4, <2>2 DEF ClientTyped
      <3> QED BY <1>5, <2>1, <3>1
    <2>3. CASE d = c
      <3>1. read'[d] = next
        BY <1>1, <1>4, <2>3 DEF ClientTyped
      <3>2. ASSUME NEW i \in 1 .. next, OnWire(i, session[c]), IsReport(log[i].message)
            PROVE  log[i].message.exec_id \in processed'[c]
        <4>1. i = next \/ i \in 1 .. read[c]
          BY <1>1, <1>6, <2>1, <2>3, <3>2
        <4> QED BY <1>5, <2>1, <2>3, <3>2, <4>1
      <3> QED BY <1>1, <1>4, <1>6, <2>3, <3>1, <3>2
    <2> QED BY <2>2, <2>3
  <1>8. CASE ~(IsReport(m) /\ m.exec_id \notin processed[c])
    <2>1. UNCHANGED <<processed, states>>
      BY <1>1, <1>8
    <2>2. ProcessedInv'
      BY <1>2, <1>3, <1>4, <2>1 DEF ProcessedInv
    <2>3. \A d, id : /\ Known(d, id)' = Known(d, id)
                     /\ ProcessedOf(d, id)' = ProcessedOf(d, id)
                     /\ Rejected(id)' <=> Rejected(id)
      BY <1>3, <2>1 DEF Known, ProcessedOf, Rejected
    <2>4. FollowedInv'
      BY <1>4, <2>3 DEF FollowedInv
    <2> QED BY <1>5, <1>6, <1>7, <2>2, <2>4
  <1>9. CASE IsReport(m) /\ m.exec_id \notin processed[c]
    <2>1. /\ processed'[c] = processed[c] \cup {m.exec_id}
          /\ DOMAIN states'[c] = DOMAIN states[c] \cup {m.order}
          /\ Known(c, m.order)' = Followed(Known(c, m.order), m.event)
          /\ \A id : id # m.order => Known(c, id)' = Known(c, id)
      BY <1>1, <1>4, <1>9, ProcessShape
    <2>2. ProcessedInv'
      <3>1. m.exec_id < nextExec
        BY <1>1, <1>4, <1>9 DEF NumberedInv
      <3> QED BY <1>1, <1>2, <1>3, <1>4, <1>5, <1>9, <2>1, <3>1 DEF ProcessedInv
    <2>3. ASSUME NEW id
          PROVE  ProcessedOf(c, id)' = IF id = m.order THEN ProcessedOf(c, id) \cup {m}
                                       ELSE ProcessedOf(c, id)
      <3>1. \A k \in Reports : IsReport(k) /\ k.exec_id = m.exec_id => k = m
        BY <1>1, <1>4, <1>9 DEF NumberedInv
      <3>2. \A k : k \in ProcessedOf(c, id)' <=>
                      /\ k \in Reports /\ IsReport(k) /\ k.order = id
                      /\ k.exec_id \in processed[c] \/ k = m
        BY <1>3, <2>1, <3>1 DEF ProcessedOf
      <3>3. \A k : k \in ProcessedOf(c, id) <=>
                      /\ k \in Reports /\ IsReport(k) /\ k.order = id
                      /\ k.exec_id \in processed[c]
        BY DEF ProcessedOf
      <3> PICK was, is : was = ProcessedOf(c, id) /\ is = ProcessedOf(c, id)'
        OBVIOUS
      <3>4. \A k : k \in is <=> k \in was \/ (k = m /\ id = m.order)
        BY <1>1, <1>9, <3>2, <3>3
      <3>5. is = IF id = m.order THEN was \cup {m} ELSE was
        BY <3>4
      <3> QED BY <3>5
    <2>4. m \notin ProcessedOf(c, m.order)
      BY <1>9 DEF ProcessedOf
    <2>5. FollowedInv'
      <3> SUFFICES ASSUME NEW d \in Clients, NEW id \in {r.order : r \in Requests}
                   PROVE  Rejected(id)' \/ Follows(Known(d, id)', ProcessedOf(d, id)')
        BY DEF FollowedInv
      <3>1. CASE d # c
        <4>1. Known(d, id)' = Known(d, id)
          BY <1>5, <3>1 DEF Known
        <4>2. ProcessedOf(d, id)' = ProcessedOf(d, id)
          BY <1>3, <1>5, <3>1 DEF ProcessedOf
        <4>3. Rejected(id)' <=> Rejected(id)
          BY <1>3 DEF Rejected
        <4> QED BY <1>4, <4>1, <4>2, <4>3 DEF FollowedInv
      <3>2. CASE d = c /\ id # m.order
        <4>1. Known(d, id)' = Known(d, id) /\ ProcessedOf(d, id)' = ProcessedOf(d, id)
          BY <2>1, <2>3, <3>2
        <4>2. Rejected(id)' <=> Rejected(id)
          BY <1>3 DEF Rejected
        <4> QED BY <1>4, <4>1, <4>2 DEF FollowedInv
      <3>3. CASE d = c /\ id = m.order /\ ~Rejected(id)
        <4> PICK known, some : known = Known(c, id) /\ some = ProcessedOf(c, id)
          OBVIOUS
        <4>1. Follows(known, some)
          BY <1>4, <3>3 DEF FollowedInv
        <4>2. some \cup {m} \subseteq ReportsOf(id) /\ m \in ReportsOf(id)
          <5>1. m.event # "REJECT"
            BY <1>1, <3>3 DEF Rejected
          <5> QED BY <1>1, <1>9, <3>3, <5>1, ProcessedAreReports DEF ReportsOf
        <4>3. m.event \in Announced
              /\ ~({"FULL_FILL", "CANCEL_CONFIRMED"} \subseteq EventsOf(some \cup {m}))
          BY Zenon, <1>4, <4>2, ReportsAgree
        <4>4. Follows(Followed(known, m.event), some \cup {m})
          BY <2>4, <3>3, <4>1, <4>3, FollowsOn
        <4>5. Known(d, id)' = Followed(known, m.event)
              /\ ProcessedOf(d, id)' = some \cup {m}
          BY <2>1, <2>3, <3>3
        <4> QED BY <4>4, <4>5
      <3>4. CASE Rejected(id)
        BY <1>3, <3>4 DEF Rejected
      <3> QED BY <3>1, <3>2, <3>3, <3>4
    <2> QED BY <1>5, <1>6, <1>7, <2>2, <2>5
  <1> QED BY <1>8, <1>9

LEMMA GatewayInvHoldsFirst == GatewayInit => GatewayInv
  <1> SUFFICES ASSUME GatewayInit PROVE GatewayInv
    OBVIOUS
  <1>1. ExchangeInv /\ HandoverInv /\ ReportedInv
    BY InvariantHoldsFirst, ReportedFirst DEF GatewayInit
  <1>2. Reports = {} /\ Logged = {}
    <2>1. /\ \A s \in Sessions : OutOf(s) = {}
          /\ \A t \in Threads : HandOf(t) = {}
          /\ HeldBack = {} /\ Logged = {}
      BY SetsOfSequences DEF GatewayInit, Init, OutOf, HandOf, HeldBack, Logged
    <2> QED BY <2>1, PlacesOfReports
  <1>3. ClientTyped
    BY DEF GatewayInit, ClientTyped
  <1>4. NumberedInv /\ AnsweredInv
    BY <1>2 DEF NumberedInv, AnsweredInv, GatewayInit, Init
  <1>5. AskedInv
    <2>1. ToSet(<<>>) = {}
      BY SetsOfSequences
    <2>2. /\ at = [s \in Sessions |-> "none"] /\ pending = Nothing
          /\ out = [s \in Sessions |-> <<>>] /\ log = <<>>
          /\ hand = [t \in Threads |-> <<>>]
      BY DEF GatewayInit, Init
    <2> QED BY <2>1, <2>2 DEF AskedInv, OutOf
  <1>6. ReadInv /\ ProcessedInv
    BY DEF ReadInv, ProcessedInv, Connected, GatewayInit
  <1>7. FollowedInv
    <2> SUFFICES ASSUME NEW c \in Clients, NEW id
                 PROVE  Follows(Known(c, id), ProcessedOf(c, id))
      BY DEF FollowedInv
    <2>1. Known(c, id) = [state |-> "NEW", history |-> <<>>] /\ ProcessedOf(c, id) = {}
      BY <1>2 DEF Known, ProcessedOf, GatewayInit
    <2> PICK machine : machine = [state |-> "NEW", history |-> <<>>]
      OBVIOUS
    <2>2. machine \in Machine /\ machine.state = StateOf({}) /\ RequestsConfirmed(machine.history)
      BY DEF Machine, OrderState, StateOf, RequestsConfirmed
    <2>3. Causes([i \in {} |-> 0], machine.history, {}) /\ EventsOf({}) = {}
      BY DEF Causes, ReportedArcs, EventsOf
    <2>4. Follows(machine, {})
      BY <2>2, <2>3 DEF Follows
    <2> QED BY <2>1, <2>4
  <1> QED BY <1>1, <1>3, <1>4, <1>5, <1>6, <1>7 DEF GatewayInv, KnowsInv

LEMMA GatewayInvKept ==
    ASSUME GatewayInv, [GatewayNext]_allVars
    PROVE  GatewayInv'
  <1>1. /\ ExchangeInv /\ HandoverInv /\ ReportedInv /\ ClientTyped
        /\ NumberedInv /\ AnsweredInv /\ AskedInv
    BY DEF GatewayInv, KnowsInv
  <1>2. /\ [Serves]_vars
        /\ session' \in [Clients -> Sessions \cup {Nothing}]
        /\ inbox' \in [Sessions -> Seq(Requests)]
        /\ call' \in [Clients -> Requests \cup {Nothing}]
        /\ \/ Waits
           \/ \E c \in Clients, s \in Sessions : ClientConnect(c, s)
           \/ \E c \in Clients : Read(c)
    BY <1>1, GatewaySteps
  <1>3. ExchangeInv' /\ HandoverInv' /\ ReportedInv'
    BY <1>1, <1>2, StepShape, HandoverKept, ReportedKept
  <1>4. NumberedInv' /\ AnsweredInv' /\ AskedInv'
    BY <1>1, <1>2, StepsMake, NumberedKept, AnsweredKept, AskedKept
  <1>5. /\ ReadInv' /\ ProcessedInv' /\ FollowedInv'
        /\ read' \in [Clients -> Nat]
        /\ processed' \in [Clients -> SUBSET Nat]
        /\ states' = [d \in Clients |-> states'[d]]
    <2>1. CASE Waits
      BY <1>1, <2>1, WaitingKeeps DEF Waits, ClientTyped
    <2>2. ASSUME NEW c \in Clients, NEW s \in Sessions, ClientConnect(c, s)
          PROVE  /\ ReadInv' /\ ProcessedInv' /\ FollowedInv'
                 /\ read' \in [Clients -> Nat]
                 /\ processed' \in [Clients -> SUBSET Nat]
                 /\ states' = [d \in Clients |-> states'[d]]
      BY <1>1, <2>2, ConnectingKeeps DEF ClientConnect, ClientTyped
    <2> QED BY <1>2, <2>1, <2>2, ReadingKeeps
  <1> QED BY <1>2, <1>3, <1>4, <1>5 DEF GatewayInv, KnowsInv, ClientTyped

(* The exchange and its clients keep the invariant, whatever is dropped,   *)
(* duplicated, held back, swapped, repeated or left to a dead connection.  *)
THEOREM GatewayInvHolds == GatewaySpec => []GatewayInv
  BY GatewayInvHoldsFirst, GatewayInvKept, PTL DEF GatewaySpec

(* ClientNeverAhead: no client believes more of an order than what happened *)
(* to it, unless someone was told that the order was rejected.             *)
THEOREM ClientsAreNeverAhead == GatewaySpec => []ClientNeverAhead
  <1>1. ASSUME GatewayInv
        PROVE  ClientNeverAhead
    <2>1. ExchangeInv /\ ReportedInv /\ ProcessedInv /\ FollowedInv
      BY <1>1 DEF GatewayInv, KnowsInv
    <2> SUFFICES ASSUME NEW c \in Clients, NEW id \in DOMAIN states[c], ~Rejected(id)
                 PROVE  /\ id \in DOMAIN orders
                        /\ \A event \in OrderEvent :
                              Count(states[c][id].history, event)
                                  <= Count(orders[id].history, event)
                        /\ \E i \in 1 .. Len(orders[id].history) :
                              orders[id].history[i].to = states[c][id].state
      BY DEF ClientNeverAhead
    <2>2. PICK m \in Reports : IsReport(m) /\ m.order = id
      BY <2>1 DEF ProcessedInv
    <2>3. id \in DOMAIN orders /\ id \in {r.order : r \in Requests}
      <3>1. m.event # "REJECT" /\ m \in Messages
        BY <2>1, <2>2, ReportsTypedWhereverTheyAre DEF Rejected
      <3> QED BY <2>1, <2>2, <3>1 DEF ReportedInv, AnnouncedInv, Announces, Messages
    <2> PICK order, machine, arcs : /\ order = orders[id] /\ machine = states[c][id]
                                    /\ arcs = AnnouncedArcs(id)
      OBVIOUS
    <2>4. GoodOrder(order) /\ arcs \in SUBSET (1 .. Len(order.history))
      BY <2>1, <2>3 DEF ExchangeInv, BooksInv, GoodOrder, Order, AnnouncedArcs
    <2>5. PICK report : Explains(report, arcs, ReportsOf(id), order.history)
      BY <2>1, <2>3, EventsExplained DEF ReportedInv
    <2>6. Follows(machine, ProcessedOf(c, id)) /\ ProcessedOf(c, id) \subseteq ReportsOf(id)
      BY <2>1, <2>3, ProcessedAreReports DEF FollowedInv, Known
    <2> PICK all, reports : all = ReportsOf(id) /\ reports = ProcessedOf(c, id)
      OBVIOUS
    <2>7. Behind(machine, order)
      <3>1. reports \in SUBSET all /\ Explains(report, arcs, all, order.history)
            /\ Follows(machine, reports)
        BY <2>5, <2>6
      <3> QED BY <2>4, <3>1, NeverAhead
    <2> QED BY <2>3, <2>7 DEF Behind
  <1> QED BY <1>1, GatewayInvHolds, PTL

(* ClientAgrees: a client that has read everything has every order it      *)
(* alone asked for, over this connection, in the state of the book.        *)
THEOREM ClientsAgree == GatewaySpec => []ClientAgrees
  <1>1. ASSUME GatewayInv
        PROVE  ClientAgrees
    <2>1. /\ ExchangeInv /\ ReportedInv /\ ClientTyped /\ AnsweredInv /\ AskedInv
          /\ ReadInv /\ ProcessedInv /\ FollowedInv
      BY <1>1 DEF GatewayInv, KnowsInv
    <2> SUFFICES ASSUME NEW c \in Clients, Connected(c), Unread(c) = {},
                        NEW id \in DOMAIN states[c],
                        AskedOver(id) = {session[c]}, AllSent(id), ~Rejected(id)
                 PROVE  states[c][id].state = orders[id].state
      BY DEF ClientAgrees
    <2>2. PICK m \in Reports : IsReport(m) /\ m.order = id
      BY <2>1 DEF ProcessedInv
    <2>3. id \in DOMAIN orders /\ id \in {r.order : r \in Requests} /\ id \in DOMAIN responses
      <3>1. m.event # "REJECT" /\ m \in Messages
        BY <2>1, <2>2, ReportsTypedWhereverTheyAre DEF Rejected
      <3> QED BY <2>1, <2>2, <3>1 DEF ReportedInv, AnnouncedInv, Announces, Messages, AnsweredInv
    <2> PICK order, machine, arcs : /\ order = orders[id] /\ machine = states[c][id]
                                    /\ arcs = AnnouncedArcs(id)
      OBVIOUS
    <2>4. /\ GoodOrder(order)
          /\ arcs = {i \in 1 .. Len(order.history) : order.history[i].event # "CANCEL_REQUEST"}
      <3>1. GoodOrder(order) /\ order.history \in Seq(TRANSITIONS)
        BY <2>1, <2>3 DEF ExchangeInv, BooksInv, GoodOrder, Order
      <3>2. DOMAIN order.history = 1 .. Len(order.history)
        BY <3>1
      <3> QED BY <2>3, <3>1, <3>2 DEF AnnouncedArcs
    <2>5. PICK report : Explains(report, arcs, ReportsOf(id), order.history)
      BY <2>1, <2>3, EventsExplained DEF ReportedInv
    <2>6. ASSUME NEW k \in ReportsOf(id)
          PROVE  k.exec_id \in processed[c]
      <3>1. PICK i \in 1 .. Len(log) : log[i].message = k /\ OnWire(i, log[i].session)
        BY DEF AllSent
      <3>2. IsReport(k) /\ k.order = id
        BY DEF ReportsOf
      <3>3. log[i].session = session[c]
        <4>1. log[i] \in ToSet(log)
          BY <2>1, <3>1 DEF ToSet, ExchangeInv, SendingInv
        <4>2. Asking(log[i].session, k) \in Asked
          BY <2>1, <3>1, <4>1 DEF AskedInv
        <4>3. log[i].session \in AskedOver(k.order)
          BY <4>2, AskedOverWhom
        <4> QED BY <3>2, <4>3
      <3>4. i \notin read[c] + 1 .. Len(log)
        BY <3>1, <3>3 DEF Unread
      <3>5. i \in 1 .. read[c]
        <4>1. read[c] \in Nat /\ Len(log) \in Nat
          BY <2>1 DEF ClientTyped, ExchangeInv, SendingInv
        <4> QED BY <3>4, <4>1
      <3> QED BY <2>1, <3>1, <3>2, <3>3, <3>5 DEF ReadInv
    <2>7. ProcessedOf(c, id) = ReportsOf(id)
      <3>1. ProcessedOf(c, id) \subseteq ReportsOf(id)
        BY ProcessedAreReports
      <3>2. ReportsOf(id) \subseteq ProcessedOf(c, id)
        BY <2>6 DEF ReportsOf, ProcessedOf
      <3> QED BY <3>1, <3>2
    <2>8. Follows(machine, ReportsOf(id))
      BY <2>1, <2>3, <2>7 DEF FollowedInv, Known
    <2> QED BY <2>4, <2>5, <2>8, AgreesInTheEnd
  <1> QED BY <1>1, GatewayInvHolds, PTL

===============================================================================
