------------------------------ MODULE AuditProofs ------------------------------
(***************************************************************************)
(* The audit of the log of an exchange with one connection: the lifecycle  *)
(* rebuilt from the log alone is the one the order book went through, and  *)
(* the log is complete, for any requests, retries, cancels, fill plans,    *)
(* drops, duplicates and swaps that do not disturb the order of the log.   *)
(*                                                                         *)
(* Reconstruct reads the log from its beginning.  What it has made of the  *)
(* part logged so far is a beginning of the history in the book, as long   *)
(* as the reports reach the log in order; and the cancels it still waits   *)
(* for are as many as there are.                                           *)
(***************************************************************************)
EXTENDS AuditedExchange, MockExchangeProofs

-------------------------------------------------------------------------------
(* Reading a log                                                           *)

(* The recursive function of Reconstruct, on a beginning of the log.       *)
Reads(f, entries, id, n) ==
    f = [k \in 0 .. n |-> IF k = 0 THEN Unread ELSE ReadFor(id, f[k - 1], entries[k])]

LEMMA ReadsExist ==
    ASSUME NEW entries, NEW id, NEW n \in Nat
    PROVE  \E f : Reads(f, entries, id, n)
  <1> DEFINE Missing == {m \in Nat : ~ \E f : Reads(f, entries, id, m)}
  <1>1. SUFFICES ASSUME Missing # {} PROVE FALSE
    OBVIOUS
  <1>2. PICK m \in Missing : \A k \in Missing : m <= k
    BY <1>1, LeastNatural
  <1>3. CASE m = 0
    <2> DEFINE f == [k \in 0 .. 0 |-> Unread]
    <2>1. Reads(f, entries, id, 0)
      BY DEF Reads
    <2> QED BY <1>2, <1>3, <2>1
  <1>4. CASE m # 0
    <2>1. m - 1 \in Nat /\ m - 1 \notin Missing
      BY <1>2, <1>4
    <2>2. PICK g : Reads(g, entries, id, m - 1)
      BY <2>1
    <2> DEFINE f == [k \in 0 .. m |-> IF k = m THEN ReadFor(id, g[m - 1], entries[m]) ELSE g[k]]
    <2>3. /\ \A k \in 0 .. m - 1 : f[k] = g[k]
          /\ f[m] = ReadFor(id, g[m - 1], entries[m])
      BY <2>1
    <2>4. \A k \in 0 .. m - 1 : g[k] = IF k = 0 THEN Unread ELSE ReadFor(id, g[k - 1], entries[k])
      BY <2>1, <2>2 DEF Reads
    <2>5. ASSUME NEW k \in 0 .. m
          PROVE  f[k] = IF k = 0 THEN Unread ELSE ReadFor(id, f[k - 1], entries[k])
      <3>1. CASE k = m
        <4>1. f[m - 1] = g[m - 1]
          BY <1>4, <2>1, <2>3
        <4> HIDE DEF f
        <4> QED BY <1>4, <2>3, <3>1, <4>1
      <3>2. CASE k # m
        <4>1. k \in 0 .. m - 1 /\ (k # 0 => k - 1 \in 0 .. m - 1)
          BY <2>1, <3>2
        <4> HIDE DEF f
        <4> QED BY <2>3, <2>4, <4>1
      <3> QED BY <3>1, <3>2
    <2>6. f = [k \in 0 .. m |-> f[k]]
      OBVIOUS
    <2>7. Reads(f, entries, id, m)
      <3> HIDE DEF f
      <3> QED BY <2>5, <2>6 DEF Reads
    <2> QED BY <1>2, <2>7
  <1> QED BY <1>3, <1>4

SameSoFar(entries, later, n) == \A i \in 1 .. n : later[i] = entries[i]

(* Two readings of what is the same so far agree so far.                   *)
LEMMA ReadsAgree ==
    ASSUME NEW e, NEW later, NEW id, NEW n \in Nat, NEW m \in Nat, n <= m,
           SameSoFar(e, later, n),
           NEW f, Reads(f, e, id, n), NEW g, Reads(g, later, id, m)
    PROVE  g[n] = f[n]
  <1> DEFINE Apart == {k \in 0 .. n : g[k] # f[k]}
  <1>1. SUFFICES ASSUME Apart # {} PROVE FALSE
    OBVIOUS
  <1>2. PICK k \in Apart : \A j \in Apart : k <= j
    <2>1. Apart \in SUBSET Nat
      OBVIOUS
    <2> QED BY <1>1, <2>1, LeastNatural
  <1>3. /\ k \in 0 .. n /\ k \in 0 .. m
        /\ f[k] = IF k = 0 THEN Unread ELSE ReadFor(id, f[k - 1], e[k])
        /\ g[k] = IF k = 0 THEN Unread ELSE ReadFor(id, g[k - 1], later[k])
    BY DEF Reads
  <1>4. k # 0
    BY <1>2, <1>3
  <1>5. k - 1 \in 0 .. n /\ k \in 1 .. n /\ k - 1 \notin Apart
    BY <1>2, <1>3, <1>4
  <1>6. g[k - 1] = f[k - 1] /\ later[k] = e[k]
    BY <1>5 DEF SameSoFar
  <1> QED BY <1>2, <1>3, <1>4, <1>6

LEMMA ReconstructReads ==
    ASSUME NEW S, NEW e \in Seq(S), NEW id
    PROVE  \E f : Reads(f, e, id, Len(e)) /\ Reconstruct(e, id) = f[Len(e)]
  <1>1. Len(e) \in Nat
    OBVIOUS
  <1>2. PICK f : f = CHOOSE x : Reads(x, e, id, Len(e))
    OBVIOUS
  <1>3. Reads(f, e, id, Len(e))
    BY <1>1, <1>2, ReadsExist
  <1>4. Reconstruct(e, id) = f[Len(e)]
    BY <1>2 DEF Reconstruct, Reads
  <1> QED BY <1>3, <1>4

(* Reconstruct, entry by entry.                                            *)
LEMMA ReconstructGoesOn ==
    ASSUME NEW S, NEW e \in Seq(S), NEW a \in S, NEW id
    PROVE  Reconstruct(Append(e, a), id) = ReadFor(id, Reconstruct(e, id), a)
  <1> PICK later, n : later = Append(e, a) /\ n = Len(e)
    OBVIOUS
  <1>1. /\ later \in Seq(S) /\ Len(later) = n + 1 /\ n \in Nat
        /\ later[n + 1] = a /\ \A i \in 1 .. n : later[i] = e[i]
    OBVIOUS
  <1>2. PICK f : Reads(f, e, id, n) /\ Reconstruct(e, id) = f[n]
    BY ReconstructReads
  <1>3. PICK g : Reads(g, later, id, n + 1) /\ Reconstruct(later, id) = g[n + 1]
    BY <1>1, ReconstructReads
  <1>4. g[n] = f[n]
    <2> PICK m : m = n + 1
      OBVIOUS
    <2>1. m \in Nat /\ n \in Nat /\ n <= m
      BY <1>1
    <2>2. Reads(f, e, id, n) /\ Reads(g, later, id, m) /\ SameSoFar(e, later, n)
      BY <1>1, <1>2, <1>3 DEF SameSoFar
    <2> QED BY <2>1, <2>2, ReadsAgree
  <1>5. g[n + 1] = ReadFor(id, g[n], later[n + 1])
    <2>1. n + 1 \in 0 .. n + 1 /\ n + 1 # 0 /\ (n + 1) - 1 = n
      BY <1>1
    <2> QED BY <1>3, <2>1 DEF Reads
  <1> QED BY <1>1, <1>2, <1>3, <1>4, <1>5

LEMMA NothingToRead ==
    ASSUME NEW id
    PROVE  Reconstruct(<<>>, id) = Unread
  <1>1. PICK f : Reads(f, <<>>, id, Len(<<>>)) /\ Reconstruct(<<>>, id) = f[Len(<<>>)]
    <2>1. <<>> \in Seq({})
      OBVIOUS
    <2> QED BY <2>1, ReconstructReads
  <1>2. Len(<<>>) = 0
    OBVIOUS
  <1>3. f[0] = Unread
    BY <1>1, <1>2 DEF Reads
  <1> QED BY <1>1, <1>2, <1>3

-------------------------------------------------------------------------------
(* Reading an entry                                                        *)

(* What has been rebuilt of a log that made sense so far: the one record   *)
(* with these fields.                                                      *)
Made(state, history, pend, seen) ==
    [state : {state}, history : {history}, pending_cancel_requests : {pend},
     seen_exec_ids : {seen}, valid : {TRUE}]

LEMMA MadeHas ==
    ASSUME NEW state, NEW history, NEW pend, NEW seen,
           NEW rebuilt \in Made(state, history, pend, seen)
    PROVE  /\ rebuilt.valid /\ rebuilt.state = state /\ rebuilt.history = history
           /\ rebuilt.pending_cancel_requests = pend /\ rebuilt.seen_exec_ids = seen
  BY DEF Made

LEMMA PendingChanges ==
    ASSUME NEW state, NEW history, NEW pend, NEW seen,
           NEW rebuilt \in Made(state, history, pend, seen), NEW other
    PROVE  [rebuilt EXCEPT !.pending_cancel_requests = other] \in Made(state, history, other, seen)
  BY DEF Made

LEMMA SeenChanges ==
    ASSUME NEW state, NEW history, NEW pend, NEW seen,
           NEW rebuilt \in Made(state, history, pend, seen), NEW other
    PROVE  [rebuilt EXCEPT !.seen_exec_ids = other] \in Made(state, history, pend, other)
  BY DEF Made

LEMMA StateChanges ==
    ASSUME NEW state, NEW history, NEW pend, NEW seen,
           NEW rebuilt \in Made(state, history, pend, seen), NEW to, NEW longer
    PROVE  [rebuilt EXCEPT !.state = to, !.history = longer] \in Made(to, longer, pend, seen)
  BY DEF Made

LEMMA NothingMade == Unread \in Made("NEW", <<>>, 0, {})
  BY DEF Unread, Made

(* An event moves it along the arc of the table.                           *)
LEMMA AppliedMoves ==
    ASSUME NEW state, NEW history, NEW pend, NEW seen,
           NEW rebuilt \in Made(state, history, pend, seen),
           NEW event, Permits(state, event), NEW t, t = TransitionFor(state, event)
    PROVE  Applied(rebuilt, event) \in Made(t.to, Append(history, t), pend, seen)
  <1> PICK longer : longer = Append(history, t)
    OBVIOUS
  <1>1. rebuilt.state = state /\ rebuilt.history = history
    BY MadeHas
  <1>2. Applied(rebuilt, event) = [rebuilt EXCEPT !.state = t.to, !.history = longer]
    BY <1>1, Zenon DEF Applied, ApplyEvent
  <1>3. [rebuilt EXCEPT !.state = t.to, !.history = longer] \in Made(t.to, longer, pend, seen)
    BY StateChanges
  <1> QED BY <1>2, <1>3, Zenon

(* A confirmed cancel that was asked for moves it along two arcs.          *)
LEMMA ConfirmedMoves ==
    ASSUME NEW state, NEW history, NEW pend \in Nat \ {0}, NEW seen,
           NEW rebuilt \in Made(state, history, pend, seen),
           Permits(state, "CANCEL_REQUEST"), NEW t, t = TransitionFor(state, "CANCEL_REQUEST"),
           Permits(t.to, "CANCEL_CONFIRMED"), NEW u, u = TransitionFor(t.to, "CANCEL_CONFIRMED")
    PROVE  Confirmed(rebuilt) \in Made(u.to, Append(Append(history, t), u), pend - 1, seen)
  <1> PICK between, less : between = Applied(rebuilt, "CANCEL_REQUEST") /\ less = pend - 1
    OBVIOUS
  <1>1. rebuilt.pending_cancel_requests > 0
    BY MadeHas
  <1>2. between \in Made(t.to, Append(history, t), pend, seen)
    BY AppliedMoves
  <1>3. between.valid /\ between.pending_cancel_requests = pend
    BY <1>2, MadeHas
  <1>4. [between EXCEPT !.pending_cancel_requests = less]
           \in Made(t.to, Append(history, t), less, seen)
    BY <1>2, PendingChanges, Zenon
  <1>5. Confirmed(rebuilt) = Applied([between EXCEPT !.pending_cancel_requests = less], "CANCEL_CONFIRMED")
    <2>1. Confirmed(rebuilt) = Applied([between EXCEPT !.pending_cancel_requests = @ - 1], "CANCEL_CONFIRMED")
      BY <1>1, <1>3, Zenon DEF Confirmed
    <2>2. [between EXCEPT !.pending_cancel_requests = @ - 1]
             = [between EXCEPT !.pending_cancel_requests = less]
      BY <1>3
    <2> QED BY <2>1, <2>2
  <1>6. Applied([between EXCEPT !.pending_cancel_requests = less], "CANCEL_CONFIRMED")
           \in Made(u.to, Append(Append(history, t), u), less, seen)
    BY <1>4, AppliedMoves
  <1> QED BY <1>5, <1>6

(* What each kind of entry does to it.                                     *)
LEMMA RequestIsRead ==
    ASSUME NEW state, NEW history, NEW pend \in Nat, NEW seen, NEW entry,
           NEW rebuilt \in Made(state, history, pend, seen), Inbound(entry)
    PROVE  /\ entry.message.type = "F" =>
                 ReadRecord(rebuilt, entry) \in Made(state, history, pend + 1, seen)
           /\ entry.message.type # "F" =>
                 ReadRecord(rebuilt, entry) \in Made(state, history, pend, seen)
  <1> PICK more : more = pend + 1
    OBVIOUS
  <1>1. rebuilt.valid /\ rebuilt.pending_cancel_requests = pend
    BY MadeHas
  <1>2. CASE entry.message.type = "F"
    <2>1. ReadRecord(rebuilt, entry) = [rebuilt EXCEPT !.pending_cancel_requests = more]
      BY <1>1, <1>2 DEF ReadRecord
    <2>2. [rebuilt EXCEPT !.pending_cancel_requests = more] \in Made(state, history, more, seen)
      BY PendingChanges
    <2>3. ReadRecord(rebuilt, entry) \in Made(state, history, more, seen)
      BY <2>1, <2>2, Zenon
    <2> QED BY <1>2, <2>3
  <1>3. CASE entry.message.type # "F"
    <2>1. ReadRecord(rebuilt, entry) = rebuilt
      BY <1>1, <1>3 DEF ReadRecord
    <2>2. ReadRecord(rebuilt, entry) \in Made(state, history, pend, seen)
      BY <2>1, Zenon
    <2> QED BY <1>3, <2>2
  <1> QED BY <1>2, <1>3

LEMMA RefusalIsRead ==
    ASSUME NEW state, NEW history, NEW pend \in Nat, NEW seen, NEW entry,
           NEW rebuilt \in Made(state, history, pend, seen),
           ~Inbound(entry), entry.message.type = "9"
    PROVE  \E less \in Nat : /\ less = IF pend > 0 THEN pend - 1 ELSE 0
                             /\ ReadRecord(rebuilt, entry) \in Made(state, history, less, seen)
  <1> PICK less \in Nat : less = IF pend > 0 THEN pend - 1 ELSE 0
    OBVIOUS
  <1>1. rebuilt.valid /\ rebuilt.pending_cancel_requests = pend
    BY MadeHas
  <1>2. ReadRecord(rebuilt, entry) = [rebuilt EXCEPT !.pending_cancel_requests = less]
    BY <1>1 DEF ReadRecord
  <1>3. [rebuilt EXCEPT !.pending_cancel_requests = less] \in Made(state, history, less, seen)
    BY PendingChanges
  <1>4. ReadRecord(rebuilt, entry) \in Made(state, history, less, seen)
    BY <1>2, <1>3, Zenon
  <1> QED BY <1>4

LEMMA KnownIsRead ==
    ASSUME NEW state, NEW history, NEW pend, NEW seen, NEW entry,
           NEW rebuilt \in Made(state, history, pend, seen),
           ~Inbound(entry), entry.message.type = "8", entry.message.exec_id \in seen
    PROVE  ReadRecord(rebuilt, entry) = rebuilt
  <1>1. rebuilt.valid /\ AlreadySeen(rebuilt, entry.message)
    BY MadeHas DEF AlreadySeen
  <1> QED BY <1>1 DEF ReadRecord

(* A report that was not seen is applied to the order, a confirmation with *)
(* the request that it confirms.                                           *)
TakenIn(read, noted, event) ==
    read = IF event = "CANCEL_CONFIRMED" THEN Confirmed(noted) ELSE Applied(noted, event)

LEMMA NewsIsRead ==
    ASSUME NEW state, NEW history, NEW pend, NEW seen, NEW entry,
           NEW rebuilt \in Made(state, history, pend, seen),
           ~Inbound(entry), entry.message.type = "8", entry.message.exec_id \notin seen,
           NEW wider, wider = seen \cup {entry.message.exec_id}
    PROVE  \E noted \in Made(state, history, pend, wider) :
              TakenIn(ReadRecord(rebuilt, entry), noted, entry.message.event)
  <1> PICK noted : noted = [rebuilt EXCEPT !.seen_exec_ids = wider]
    OBVIOUS
  <1>1. rebuilt.valid /\ rebuilt.seen_exec_ids = seen /\ ~AlreadySeen(rebuilt, entry.message)
    BY MadeHas DEF AlreadySeen
  <1>2. [rebuilt EXCEPT !.seen_exec_ids = wider] \in Made(state, history, pend, wider)
    BY SeenChanges
  <1>3. noted \in Made(state, history, pend, wider)
    BY <1>2, Zenon
  <1>4. [rebuilt EXCEPT !.seen_exec_ids = @ \cup {entry.message.exec_id}] = noted
    BY <1>1
  <1>5. TakenIn(ReadRecord(rebuilt, entry), noted, entry.message.event)
    BY <1>1, <1>4 DEF ReadRecord, TakenIn
  <1> QED BY <1>3, <1>5, Zenon

-------------------------------------------------------------------------------
(* Reading a history                                                       *)

(* A walk through the table from a new order; a request to cancel and its  *)
(* confirmation are next to each other.                                    *)
Lifecycle(h) ==
    /\ h \in Seq(TRANSITIONS)
    /\ Len(h) > 0 => h[1].from = "NEW"
    /\ \A i \in 1 .. Len(h) - 1 : h[i].to = h[i + 1].from
    /\ \A i \in 1 .. Len(h) : h[i].event = "CANCEL_REQUEST" =>
            i < Len(h) /\ h[i + 1].event = "CANCEL_CONFIRMED"
    /\ \A i \in 1 .. Len(h) : h[i].event = "CANCEL_CONFIRMED" =>
            i > 1 /\ h[i - 1].event = "CANCEL_REQUEST"

ReportedArcs(h) == {i \in 1 .. Len(h) : h[i].event # "CANCEL_REQUEST"}

(* The first k arcs of it, and where they lead.                            *)
Beginning(h, k) == SubSeq(h, 1, k)

StateAfter(h, k) == IF k = 0 THEN "NEW" ELSE h[k].to

LEMMA OneArcAtMost ==
    ASSUME NEW t \in TRANSITIONS, NEW u \in TRANSITIONS, t.from = u.from, t.event = u.event
    PROVE  t = u
  <1>1. t = Arc(t.from, t.event, t.to) /\ u = Arc(u.from, u.event, u.to)
    BY ArcShape
  <1>2. t.event \in OrderEvent
    BY ArcShape
  <1>3. t.to = u.to
    BY <1>2, ArcShape DEF OrderEvent
  <1> QED BY <1>1, <1>3

(* The next arc is the one the table has for its event.                    *)
LEMMA NextArc ==
    ASSUME NEW h, Lifecycle(h), NEW k \in Nat, k < Len(h), NEW t, t = h[k + 1]
    PROVE  /\ Permits(StateAfter(h, k), t.event)
           /\ TransitionFor(StateAfter(h, k), t.event) = t
           /\ Append(Beginning(h, k), t) = Beginning(h, k + 1)
           /\ StateAfter(h, k + 1) = t.to
  <1> PICK state : state = StateAfter(h, k)
    OBVIOUS
  <1>1. h \in Seq(TRANSITIONS) /\ Len(h) \in Nat /\ k + 1 \in 1 .. Len(h) /\ t \in TRANSITIONS
    BY DEF Lifecycle
  <1>2. t.from = state
    <2>1. CASE k = 0
      BY <2>1 DEF Lifecycle, StateAfter
    <2>2. CASE k # 0
      <3>1. k \in 1 .. Len(h) - 1
        BY <1>1, <2>2
      <3> QED BY <2>2, <3>1 DEF Lifecycle, StateAfter
    <2> QED BY <2>1, <2>2
  <1>3. Permits(state, t.event)
    BY <1>1, <1>2 DEF Permits
  <1>4. TransitionFor(state, t.event) = t
    BY <1>1, <1>2, <1>3, TransitionForIsArc, OneArcAtMost
  <1>5. Append(Beginning(h, k), t) = Beginning(h, k + 1)
    BY <1>1 DEF Beginning
  <1>6. StateAfter(h, k + 1) = t.to
    BY <1>1 DEF StateAfter
  <1> QED BY <1>3, <1>4, <1>5, <1>6

(* The next arc that is reported is the next one, or the one after the     *)
(* request to cancel.                                                      *)
LEMMA NextReportedArc ==
    ASSUME NEW h, Lifecycle(h), NEW k \in 0 .. Len(h), k > 0 => h[k].event # "CANCEL_REQUEST",
           NEW i \in ReportedArcs(h), i > k, \A j \in ReportedArcs(h) : j < i => j <= k
    PROVE  \/ h[i].event # "CANCEL_CONFIRMED" /\ i = k + 1
           \/ h[i].event = "CANCEL_CONFIRMED" /\ i = k + 2 /\ h[k + 1].event = "CANCEL_REQUEST"
  <1>1. Len(h) \in Nat /\ i \in 1 .. Len(h) /\ h[i].event # "CANCEL_REQUEST"
    BY DEF Lifecycle, ReportedArcs
  <1>2. ASSUME NEW j \in 1 .. Len(h), h[j].event # "CANCEL_REQUEST", j < i
        PROVE  j <= k
    BY <1>2 DEF ReportedArcs
  <1>3. CASE h[i].event # "CANCEL_CONFIRMED"
    <2>1. i # 1 => i - 1 \in 1 .. Len(h) /\ h[i - 1].event # "CANCEL_REQUEST" /\ i - 1 < i
      <3> HAVE i # 1
      <3>1. i - 1 \in 1 .. Len(h) /\ (i - 1) + 1 = i /\ i - 1 < i
        BY <1>1
      <3> QED BY <1>3, <3>1 DEF Lifecycle
    <2>2. i # 1 => i - 1 <= k
      BY <1>2, <2>1
    <2> QED BY <1>1, <1>3, <2>2
  <1>4. CASE h[i].event = "CANCEL_CONFIRMED"
    <2>1. i > 1 /\ i - 1 \in 1 .. Len(h) /\ h[i - 1].event = "CANCEL_REQUEST"
      BY <1>1, <1>4 DEF Lifecycle
    <2>2. k # i - 1
      BY <1>1, <2>1
    <2>3. i # 2 => i - 2 \in 1 .. Len(h) /\ h[i - 2].event # "CANCEL_REQUEST" /\ i - 2 < i
      <3> HAVE i # 2
      <3>1. i - 2 \in 1 .. Len(h) /\ (i - 2) + 1 = i - 1 /\ i - 2 < i
        BY <1>1, <2>1
      <3> QED BY <2>1, <3>1 DEF Lifecycle
    <2>4. i # 2 => i - 2 <= k
      BY <1>2, <2>3
    <2>5. i = k + 2 /\ k + 1 = i - 1
      BY <1>1, <2>1, <2>2, <2>4
    <2> QED BY <1>4, <2>1, <2>5
  <1> QED BY <1>3, <1>4

(* A confirmed cancel is the end of it.                                    *)
LEMMA ConfirmedIsLast ==
    ASSUME NEW h, Lifecycle(h), NEW i \in 1 .. Len(h), h[i].event = "CANCEL_CONFIRMED"
    PROVE  i = Len(h)
  <1>1. h \in Seq(TRANSITIONS) /\ Len(h) \in Nat /\ h[i] \in TRANSITIONS
    BY DEF Lifecycle
  <1>2. ASSUME i # Len(h) PROVE FALSE
    <2>1. i \in 1 .. Len(h) - 1 /\ i + 1 \in 1 .. Len(h)
      BY <1>1, <1>2
    <2>2. h[i + 1] \in TRANSITIONS /\ h[i].to = h[i + 1].from
      BY <1>1, <2>1 DEF Lifecycle
    <2> QED BY <1>1, <2>2, ArcShape
  <1> QED BY <1>2

(* An entry tells of the order: the reports of it in a log, whatever       *)
(* became of them.                                                         *)
Told(entries, id) ==
    {m \in {entry.message : entry \in ToSet(entries)} : Announces(m) /\ m.order = id}

(* What has been rebuilt is the beginning of history h that the reports    *)
(* told of so far announce; p cancels are still waited for.                *)
SoFar(rebuilt, h, report, reports, told, k, p) ==
    /\ Explains(report, ReportedArcs(h), reports, h)
    /\ told \subseteq reports
    /\ k \in 0 .. Len(h)
    /\ k > 0 => h[k].event # "CANCEL_REQUEST"
    /\ \A i \in ReportedArcs(h) : report[i] \in told <=> i <= k
    /\ p \in Nat
    /\ rebuilt \in Made(StateAfter(h, k), Beginning(h, k), p, {m.exec_id : m \in told})

(* A cancel that was confirmed and not yet told of.                        *)
Due(reports, told) == \E m \in reports \ told : m.event = "CANCEL_CONFIRMED"

(* Each cancel that is being handled or still due is waited for.           *)
Enough(p, busy, due) == (busy \/ due => p >= 1) /\ (busy /\ due => p >= 2)

(* No report made before m is still to be told of.                         *)
NoneBefore(m, reports, told) == \A b \in reports : b.exec_id < m.exec_id => b \in told

(* One more report is read, which none made before it is still to follow.  *)
LEMMA ReportIsRead ==
    ASSUME NEW h, Lifecycle(h), NEW reports, reports \subseteq Messages,
           NEW rebuilt, NEW report, NEW told, NEW k, NEW p, NEW busy,
           SoFar(rebuilt, h, report, reports, told, k, p),
           Enough(p, busy, Due(reports, told)),
           NEW entry, ~Inbound(entry), NEW m \in reports, m = entry.message, IsReport(m),
           NoneBefore(m, reports, told), NEW more, more = told \cup {m},
           NEW read, read = ReadRecord(rebuilt, entry)
    PROVE  \E n, q : SoFar(read, h, report, reports, more, n, q) /\ Enough(q, busy, Due(reports, more))
  <1> PICK arcs, seen : arcs = ReportedArcs(h) /\ seen = {x.exec_id : x \in told}
    OBVIOUS
  <1>1. /\ k \in 0 .. Len(h) /\ p \in Nat /\ told \subseteq reports
        /\ k > 0 => h[k].event # "CANCEL_REQUEST"
        /\ rebuilt \in Made(StateAfter(h, k), Beginning(h, k), p, seen)
        /\ \A j \in arcs : report[j] \in told <=> j <= k
    BY DEF SoFar
  <1>10. \A j \in arcs : j <= k => report[j] \in told
    BY <1>1
  <1>2. /\ reports = {report[j] : j \in arcs}
        /\ \A j \in arcs : report[j] \in reports /\ report[j].event = h[j].event
                           /\ report[j].exec_id \in Nat
        /\ \A j, l \in arcs : j < l => report[j].exec_id < report[l].exec_id
        /\ arcs \subseteq 1 .. Len(h) /\ Len(h) \in Nat
    <2>1. \A x \in reports : x.exec_id \in Nat
      BY DEF Messages
    <2>2. Explains(report, arcs, reports, h)
      BY DEF SoFar
    <2>3. arcs \subseteq 1 .. Len(h) /\ Len(h) \in Nat
      BY DEF ReportedArcs, Lifecycle
    <2> QED BY <2>1, <2>2, <2>3 DEF Explains
  <1>3. PICK i \in arcs : report[i] = m
    BY <1>2
  <1>4. \A j \in arcs : /\ j < i => report[j].exec_id < m.exec_id
                        /\ j # i => report[j].exec_id # m.exec_id
    <2> TAKE j \in arcs
    <2>1. j < i \/ j = i \/ i < j
      BY <1>2
    <2> QED BY <1>2, <1>3, <2>1
  <1>5. m.exec_id \in seen <=> m \in told
    <2>1. \A x \in told : x.exec_id = m.exec_id => x = m
      BY <1>1, <1>2, <1>3, <1>4
    <2> QED BY <2>1
  <1>6. m.type = "8"
    BY DEF IsReport
  <1> PICK from, start : /\ from = StateAfter(h, k) /\ start = Beginning(h, k)
    OBVIOUS
  <1>9. rebuilt \in Made(from, start, p, seen)
    BY <1>1
  <1>7. CASE m \in told
    <2>1. entry.message.type = "8" /\ entry.message.exec_id \in seen
      BY <1>5, <1>6, <1>7
    <2>3. ReadRecord(rebuilt, entry) = rebuilt
      BY <1>9, <2>1, KnownIsRead
    <2>4. read = rebuilt
      BY <2>3
    <2>2. more = told
      BY <1>7
    <2> QED BY <2>2, <2>4
  <1>8. CASE m \notin told
    <2> PICK wider : wider = seen \cup {m.exec_id}
      OBVIOUS
    <2>11. /\ entry.message.type = "8" /\ entry.message.exec_id \notin seen
           /\ wider = seen \cup {entry.message.exec_id}
      BY <1>5, <1>6, <1>8
    <2>12. PICK noted \in Made(from, start, p, wider) :
              TakenIn(ReadRecord(rebuilt, entry), noted, entry.message.event)
      BY <1>9, <2>11, NewsIsRead
    <2>13. TakenIn(read, noted, m.event)
      BY <2>12
    <2>1. wider = {x.exec_id : x \in more}
      OBVIOUS
    <2>2. i > k
      BY <1>1, <1>2, <1>3, <1>8
    <2>3. \A j \in arcs : j < i => j <= k
      BY <1>1, <1>2, <1>4 DEF NoneBefore
    <2>4. \A j \in arcs : report[j] \in more <=> j <= i
      <3> TAKE j \in arcs
      <3>1. j < i \/ j = i \/ i < j
        BY <1>2
      <3>2. CASE j < i
        <4>1. j <= k /\ j <= i
          BY <1>2, <2>3, <3>2
        <4>2. report[j] \in told
          BY <1>10, <4>1
        <4>3. report[j] \in more
          BY <4>2
        <4> QED BY <4>1, <4>3
      <3>3. CASE j = i
        BY <1>2, <1>3, <3>3
      <3>4. CASE i < j
        <4>1. report[j] # m /\ ~(j <= k) /\ ~(j <= i)
          BY <1>1, <1>2, <1>4, <2>2, <3>4
        <4> QED BY <1>1, <4>1
      <3> QED BY <3>1, <3>2, <3>3, <3>4
    <2>5. \/ h[i].event # "CANCEL_CONFIRMED" /\ i = k + 1
          \/ h[i].event = "CANCEL_CONFIRMED" /\ i = k + 2 /\ h[k + 1].event = "CANCEL_REQUEST"
      BY <1>1, <2>2, <2>3, NextReportedArc
    <2>6. h[i].event = m.event /\ i \in 0 .. Len(h) /\ h[i].event # "CANCEL_REQUEST"
      BY <1>2, <1>3 DEF ReportedArcs
    <2>7. ASSUME NEW q \in Nat, read \in Made(StateAfter(h, i), Beginning(h, i), q, wider)
          PROVE  SoFar(read, h, report, reports, more, i, q)
      <3>1. more \subseteq reports
        BY <1>1
      <3>2. Explains(report, ReportedArcs(h), reports, h)
        BY DEF SoFar
      <3> QED BY <2>1, <2>4, <2>6, <2>7, <3>1, <3>2 DEF SoFar
    <2>8. Due(reports, more) => Due(reports, told)
      BY DEF Due
    <2>9. CASE h[i].event # "CANCEL_CONFIRMED" /\ i = k + 1
      <3> PICK t : t = h[i]
        OBVIOUS
      <3>1. /\ Permits(StateAfter(h, k), t.event) /\ t = TransitionFor(StateAfter(h, k), t.event)
            /\ Append(Beginning(h, k), t) = Beginning(h, i) /\ StateAfter(h, i) = t.to
        BY <1>1, <1>2, <2>6, <2>9, NextArc
      <3>2. read = Applied(noted, t.event)
        BY <2>6, <2>9, <2>13 DEF TakenIn
      <3>3. Permits(from, t.event) /\ t = TransitionFor(from, t.event)
        BY <3>1
      <3>6. Applied(noted, t.event) \in Made(t.to, Append(start, t), p, wider)
        BY <3>3, AppliedMoves
      <3>7. read \in Made(StateAfter(h, i), Beginning(h, i), p, wider)
        BY <3>1, <3>2, <3>6
      <3>4. SoFar(read, h, report, reports, more, i, p)
        BY <1>1, <2>7, <3>7
      <3>5. Enough(p, busy, Due(reports, more))
        BY <2>8 DEF Enough
      <3> QED BY <3>4, <3>5
    <2>10. CASE h[i].event = "CANCEL_CONFIRMED" /\ i = k + 2 /\ h[k + 1].event = "CANCEL_REQUEST"
      <3> PICK j, t, u, s : j = k + 1 /\ t = h[j] /\ u = h[i] /\ s = StateAfter(h, j)
        OBVIOUS
      <3>0. j \in Nat /\ j < Len(h) /\ i = j + 1 /\ k < Len(h) /\ k \in Nat
        BY <1>1, <1>2, <2>6, <2>10
      <3>1. /\ Permits(StateAfter(h, k), t.event) /\ t = TransitionFor(StateAfter(h, k), t.event)
            /\ Append(Beginning(h, k), t) = Beginning(h, j) /\ s = t.to
        BY <3>0, NextArc
      <3>2. /\ Permits(s, u.event) /\ u = TransitionFor(s, u.event)
            /\ Append(Beginning(h, j), u) = Beginning(h, i) /\ StateAfter(h, i) = u.to
        BY <3>0, NextArc
      <3>3. t.event = "CANCEL_REQUEST" /\ u.event = "CANCEL_CONFIRMED" /\ read = Confirmed(noted)
        BY <2>6, <2>10, <2>13 DEF TakenIn
      <3>4. Due(reports, told)
        BY <1>8, <2>6, <2>10 DEF Due
      <3>5. p \in Nat \ {0} /\ p - 1 \in Nat
        BY <1>1, <3>4 DEF Enough
      <3>11. /\ Permits(from, "CANCEL_REQUEST") /\ t = TransitionFor(from, "CANCEL_REQUEST")
             /\ Permits(t.to, "CANCEL_CONFIRMED") /\ u = TransitionFor(t.to, "CANCEL_CONFIRMED")
        BY <3>1, <3>2, <3>3
      <3>6. Confirmed(noted) \in Made(u.to, Append(Append(start, t), u), p - 1, wider)
        BY <3>5, <3>11, ConfirmedMoves
      <3>7. read \in Made(StateAfter(h, i), Beginning(h, i), p - 1, wider)
        BY <3>1, <3>2, <3>3, <3>6
      <3>8. SoFar(read, h, report, reports, more, i, p - 1)
        BY <2>7, <3>5, <3>7
      <3>9. ~Due(reports, more)
        <4> SUFFICES ASSUME NEW x \in reports \ more, x.event = "CANCEL_CONFIRMED" PROVE FALSE
          BY DEF Due
        <4>1. PICK l \in arcs : x = report[l]
          BY <1>2
        <4>2. l = Len(h) /\ i = Len(h)
          BY <1>2, <2>10, <4>1, ConfirmedIsLast
        <4> QED BY <1>3, <4>1, <4>2
      <3>10. Enough(p - 1, busy, Due(reports, more))
        BY <1>1, <3>4, <3>9 DEF Enough
      <3> QED BY <3>8, <3>10
    <2> QED BY <2>5, <2>9, <2>10
  <1> QED BY <1>7, <1>8

-------------------------------------------------------------------------------
(* The audit of one order                                                  *)

(* A log makes sense so far of an order with this history and these        *)
(* reports, of which a cancel is being handled or not.                     *)
AuditedTo(entries, id, h, reports, busy) ==
    \E report, k, p :
        /\ SoFar(Reconstruct(entries, id), h, report, reports, Told(entries, id), k, p)
        /\ Enough(p, busy, Due(reports, Told(entries, id)))

LEMMA ToldMore ==
    ASSUME NEW e \in Seq(LogEntries), NEW a \in LogEntries, NEW id
    PROVE  /\ Announces(a.message) /\ a.message.order = id =>
                 Told(Append(e, a), id) = Told(e, id) \cup {a.message}
           /\ ~(Announces(a.message) /\ a.message.order = id) =>
                 Told(Append(e, a), id) = Told(e, id)
  <1>1. ToSet(Append(e, a)) = ToSet(e) \cup {a}
    BY SetsOfSequences
  <1> PICK S, T : S = ToSet(e) /\ T = ToSet(Append(e, a))
    OBVIOUS
  <1>2. {entry.message : entry \in T} = {entry.message : entry \in S} \cup {a.message}
    BY <1>1
  <1> QED BY <1>2 DEF Told

LEMMA ReadsOn ==
    ASSUME NEW e \in Seq(LogEntries), NEW a \in LogEntries, NEW id
    PROVE  Reconstruct(Append(e, a), id) =
              IF a.message.order = id THEN ReadRecord(Reconstruct(e, id), a) ELSE Reconstruct(e, id)
  BY ReconstructGoesOn DEF ReadFor

LEMMA OtherEntry ==
    ASSUME NEW e \in Seq(LogEntries), NEW a \in LogEntries, NEW id, a.message.order # id,
           NEW h, NEW reports, NEW busy, AuditedTo(e, id, h, reports, busy)
    PROVE  AuditedTo(Append(e, a), id, h, reports, busy)
  <1>1. /\ Told(Append(e, a), id) = Told(e, id)
        /\ Reconstruct(Append(e, a), id) = Reconstruct(e, id)
    BY ToldMore, ReadsOn
  <1> QED BY <1>1, Zenon DEF AuditedTo

LEMMA LessBusy ==
    ASSUME NEW e, NEW id, NEW h, NEW reports, NEW busy, AuditedTo(e, id, h, reports, busy),
           NEW still, still => busy
    PROVE  AuditedTo(e, id, h, reports, still)
  BY DEF AuditedTo, Enough

LEMMA ReadAlike ==
    ASSUME NEW h, NEW reports, NEW rebuilt, NEW report, NEW told, NEW k, NEW p,
           SoFar(rebuilt, h, report, reports, told, k, p),
           NEW q \in Nat, NEW read,
           read \in Made(StateAfter(h, k), Beginning(h, k), q, {m.exec_id : m \in told})
    PROVE  SoFar(read, h, report, reports, told, k, q)
  BY DEF SoFar

LEMMA SilentEntry ==
    ASSUME NEW e \in Seq(LogEntries), NEW a \in LogEntries, NEW id, a.message.type # "8"
    PROVE  Told(Append(e, a), id) = Told(e, id)
  <1>1. ~Announces(a.message)
    BY DEF Announces, IsReport
  <1> QED BY <1>1, ToldMore

(* A request to cancel is waited for from then on.                         *)
LEMMA RequestEntry ==
    ASSUME NEW e \in Seq(LogEntries), NEW a \in LogEntries, NEW id, a.message.order = id,
           Inbound(a), a.message.type \in {"D", "F"},
           NEW h, NEW reports, AuditedTo(e, id, h, reports, FALSE)
    PROVE  AuditedTo(Append(e, a), id, h, reports, a.message.type = "F")
  <1> PICK told, rebuilt, read, later, seen :
              /\ told = Told(e, id) /\ rebuilt = Reconstruct(e, id)
              /\ later = Append(e, a) /\ read = Reconstruct(later, id)
              /\ seen = {m.exec_id : m \in told}
    OBVIOUS
  <1>1. PICK report, k, p : /\ SoFar(rebuilt, h, report, reports, told, k, p)
                            /\ Enough(p, FALSE, Due(reports, told))
    BY DEF AuditedTo
  <1>2. read = ReadRecord(rebuilt, a)
    BY ReadsOn
  <1>3. Told(later, id) = told
    BY SilentEntry
  <1>4. p \in Nat /\ rebuilt \in Made(StateAfter(h, k), Beginning(h, k), p, seen)
    BY <1>1 DEF SoFar
  <1>7. PICK from, start : /\ from = StateAfter(h, k) /\ start = Beginning(h, k)
                           /\ rebuilt \in Made(from, start, p, seen)
    BY <1>4
  <1>5. CASE a.message.type = "F"
    <2>4. ReadRecord(rebuilt, a) \in Made(from, start, p + 1, seen)
      BY <1>4, <1>5, <1>7, RequestIsRead
    <2>1. p + 1 \in Nat /\ read \in Made(StateAfter(h, k), Beginning(h, k), p + 1, seen)
      BY <1>2, <1>4, <1>7, <2>4
    <2>2. SoFar(read, h, report, reports, told, k, p + 1)
      BY <1>1, <2>1, ReadAlike
    <2>3. Enough(p + 1, TRUE, Due(reports, told))
      BY <1>1, <1>4 DEF Enough
    <2> QED BY <1>3, <1>5, <2>2, <2>3 DEF AuditedTo
  <1>6. CASE a.message.type # "F"
    <2>3. ReadRecord(rebuilt, a) \in Made(from, start, p, seen)
      BY <1>4, <1>6, <1>7, RequestIsRead
    <2>4. read \in Made(StateAfter(h, k), Beginning(h, k), p, seen)
      BY <1>2, <1>7, <2>3
    <2>1. SoFar(read, h, report, reports, told, k, p)
      BY <1>1, <1>4, <2>4, ReadAlike
    <2>2. Enough(p, a.message.type = "F", Due(reports, told))
      BY <1>1, <1>6 DEF Enough
    <2> QED BY <1>1, <1>3, <2>1, <2>2 DEF AuditedTo
  <1> QED BY <1>5, <1>6

(* The refusal of the cancel being handled is no longer waited for.        *)
LEMMA RefusalEntry ==
    ASSUME NEW e \in Seq(LogEntries), NEW a \in LogEntries, NEW id, a.message.order = id,
           ~Inbound(a), a.message.type = "9",
           NEW h, NEW reports, AuditedTo(e, id, h, reports, TRUE)
    PROVE  AuditedTo(Append(e, a), id, h, reports, FALSE)
  <1> PICK told, rebuilt, read, later, seen :
              /\ told = Told(e, id) /\ rebuilt = Reconstruct(e, id)
              /\ later = Append(e, a) /\ read = Reconstruct(later, id)
              /\ seen = {m.exec_id : m \in told}
    OBVIOUS
  <1>1. PICK report, k, p : /\ SoFar(rebuilt, h, report, reports, told, k, p)
                            /\ Enough(p, TRUE, Due(reports, told))
    BY DEF AuditedTo
  <1>2. read = ReadRecord(rebuilt, a)
    BY ReadsOn
  <1>3. Told(later, id) = told
    BY SilentEntry
  <1>4. p \in Nat /\ rebuilt \in Made(StateAfter(h, k), Beginning(h, k), p, seen)
    BY <1>1 DEF SoFar
  <1>5. p > 0 /\ p - 1 \in Nat
    BY <1>1, <1>4 DEF Enough
  <1>9. PICK from, start : /\ from = StateAfter(h, k) /\ start = Beginning(h, k)
                           /\ rebuilt \in Made(from, start, p, seen)
    BY <1>4
  <1>10. PICK less \in Nat : /\ less = IF p > 0 THEN p - 1 ELSE 0
                             /\ ReadRecord(rebuilt, a) \in Made(from, start, less, seen)
    BY <1>4, <1>9, RefusalIsRead
  <1>6. read \in Made(StateAfter(h, k), Beginning(h, k), p - 1, seen)
    BY <1>2, <1>5, <1>9, <1>10
  <1>7. SoFar(read, h, report, reports, told, k, p - 1)
    BY <1>1, <1>5, <1>6, ReadAlike
  <1>8. Enough(p - 1, FALSE, Due(reports, told))
    BY <1>1, <1>4 DEF Enough
  <1> QED BY <1>3, <1>7, <1>8 DEF AuditedTo

(* A report, logged for the first time or again.                           *)
LEMMA ReportEntry ==
    ASSUME NEW e \in Seq(LogEntries), NEW a \in LogEntries, NEW id, ~Inbound(a),
           NEW h, Lifecycle(h), NEW reports, reports \subseteq Messages,
           NEW busy, AuditedTo(e, id, h, reports, busy),
           NEW m \in reports, m = a.message, Announces(m), m.order = id,
           NoneBefore(m, reports, Told(e, id))
    PROVE  AuditedTo(Append(e, a), id, h, reports, busy)
  <1> PICK told, rebuilt, read, later : /\ told = Told(e, id) /\ rebuilt = Reconstruct(e, id)
                                        /\ later = Append(e, a) /\ read = Reconstruct(later, id)
    OBVIOUS
  <1>1. PICK report, k, p : /\ SoFar(rebuilt, h, report, reports, told, k, p)
                            /\ Enough(p, busy, Due(reports, told))
    BY DEF AuditedTo
  <1>2. read = ReadRecord(rebuilt, a)
    BY ReadsOn
  <1>3. Told(later, id) = told \cup {m}
    BY ToldMore
  <1>4. IsReport(m)
    BY DEF Announces
  <1>6. NoneBefore(m, reports, told)
    BY Zenon
  <1> PICK more : more = told \cup {m}
    OBVIOUS
  <1>5. PICK n, q : SoFar(read, h, report, reports, more, n, q) /\ Enough(q, busy, Due(reports, more))
    BY <1>1, <1>2, <1>4, <1>6, ReportIsRead
  <1> QED BY <1>3, <1>5 DEF AuditedTo

(* Nothing was asked for, or nothing is in the log.                        *)
LEMMA NothingAudited ==
    ASSUME NEW id
    PROVE  AuditedTo(<<>>, id, <<>>, {}, FALSE)
  <1> PICK report : report = [i \in {} |-> 0]
    OBVIOUS
  <1>1. Told(<<>>, id) = {}
    BY SetsOfSequences DEF Told
  <1>2. Len(<<>>) = 0 /\ ReportedArcs(<<>>) = {}
    BY DEF ReportedArcs
  <1>3. Explains(report, {}, {}, <<>>)
    BY DEF Explains
  <1>4. StateAfter(<<>>, 0) = "NEW" /\ Beginning(<<>>, 0) = <<>>
    BY DEF StateAfter, Beginning
  <1>5. {m.exec_id : m \in {}} = {}
    OBVIOUS
  <1> PICK rebuilt : rebuilt = Reconstruct(<<>>, id)
    OBVIOUS
  <1>8. rebuilt \in Made(StateAfter(<<>>, 0), Beginning(<<>>, 0), 0, {m.exec_id : m \in {}})
    BY <1>4, <1>5, NothingToRead, NothingMade
  <1>6. SoFar(rebuilt, <<>>, report, {}, {}, 0, 0)
    BY <1>2, <1>3, <1>8 DEF SoFar
  <1>7. Enough(0, FALSE, Due({}, {}))
    BY DEF Enough, Due
  <1> QED BY <1>1, <1>6, <1>7 DEF AuditedTo

(* A new order: none of its reports is in the log.                         *)
LEMMA OrderOpens ==
    ASSUME NEW e, NEW id, AuditedTo(e, id, <<>>, {}, FALSE),
           NEW h, Lifecycle(h), NEW report, NEW reports,
           Explains(report, ReportedArcs(h), reports, h),
           \A m \in reports : m.event # "CANCEL_CONFIRMED"
    PROVE  AuditedTo(e, id, h, reports, FALSE)
  <1> PICK told, rebuilt : told = Told(e, id) /\ rebuilt = Reconstruct(e, id)
    OBVIOUS
  <1>1. PICK f, k, p : SoFar(rebuilt, <<>>, f, {}, told, k, p)
    BY DEF AuditedTo
  <1>2. k = 0 /\ told = {} /\ p \in Nat
    BY <1>1 DEF SoFar
  <1>3. StateAfter(<<>>, 0) = StateAfter(h, 0) /\ Beginning(<<>>, 0) = Beginning(h, 0)
    <2>1. h \in Seq(TRANSITIONS)
      BY DEF Lifecycle
    <2> QED BY <2>1 DEF StateAfter, Beginning
  <1>4. rebuilt \in Made(StateAfter(h, 0), Beginning(h, 0), p, {m.exec_id : m \in told})
    BY <1>1, <1>2, <1>3 DEF SoFar
  <1>5. \A i \in ReportedArcs(h) : ~(i <= 0)
    BY DEF ReportedArcs
  <1>6. 0 \in 0 .. Len(h)
    BY DEF Lifecycle
  <1>7. SoFar(rebuilt, h, report, reports, told, 0, p)
    BY <1>2, <1>4, <1>5, <1>6 DEF SoFar
  <1>8. Enough(p, FALSE, Due(reports, told))
    BY DEF Enough, Due
  <1> QED BY <1>7, <1>8 DEF AuditedTo

(* The values that a function takes on a set.                              *)
ValuesOf(f, S) == {f[i] : i \in S}

LEMMA OneMoreValue ==
    ASSUME NEW f, NEW g, NEW S, NEW x, NEW v, g[x] = v, \A i \in S : g[i] = f[i]
    PROVE  ValuesOf(g, S \cup {x}) = ValuesOf(f, S) \cup {v}
  <1> PICK image : image = {g[i] : i \in S \cup {x}}
    OBVIOUS
  <1>1. \A i \in S : f[i] \in image
    OBVIOUS
  <1>2. v \in image
    OBVIOUS
  <1>3. \A i \in S \cup {x} : g[i] \in {f[l] : l \in S} \cup {v}
    OBVIOUS
  <1> QED BY <1>1, <1>2, <1>3 DEF ValuesOf

(* g goes on from h with a cancel, asked for and confirmed.                *)
CancelExtends(g, h) ==
    LET n == Len(h) IN
    /\ Len(g) = n + 2 /\ \A i \in 1 .. n : g[i] = h[i]
    /\ g[n + 1].event = "CANCEL_REQUEST" /\ g[n + 2].event = "CANCEL_CONFIRMED"

(* m was made after each of the reports.                                   *)
Newest(m, reports) == \A b \in reports : b.exec_id < m.exec_id

(* A cancel is confirmed: there is one more report, and one cancel less is *)
(* being handled.                                                          *)
LEMMA OrderCancels ==
    ASSUME NEW e, NEW id, NEW h, Lifecycle(h), NEW reports, reports \subseteq Messages,
           AuditedTo(e, id, h, reports, TRUE),
           NEW g \in Seq(TRANSITIONS), CancelExtends(g, h),
           NEW m \in Messages, m.event = "CANCEL_CONFIRMED", Newest(m, reports)
    PROVE  AuditedTo(e, id, g, reports \cup {m}, FALSE)
  <1> PICK n : n = Len(h)
    OBVIOUS
  <1>0. /\ Len(g) = n + 2 /\ \A i \in 1 .. n : g[i] = h[i]
        /\ g[n + 1].event = "CANCEL_REQUEST" /\ g[n + 2].event = "CANCEL_CONFIRMED"
        /\ \A b \in reports : b.exec_id < m.exec_id
    BY DEF CancelExtends, Newest
  <1> USE <1>0
  <1> PICK told, rebuilt, arcs, more, last :
              /\ told = Told(e, id) /\ rebuilt = Reconstruct(e, id)
              /\ arcs = ReportedArcs(h) /\ more = reports \cup {m} /\ last = n + 2
    OBVIOUS
  <1>1. PICK report, k, p : /\ SoFar(rebuilt, h, report, reports, told, k, p)
                            /\ Enough(p, TRUE, Due(reports, told))
    BY DEF AuditedTo
  <1>2. /\ Explains(report, arcs, reports, h) /\ told \subseteq reports /\ p \in Nat
        /\ k \in 0 .. n /\ n \in Nat /\ (k > 0 => h[k].event # "CANCEL_REQUEST")
        /\ \A i \in arcs : report[i] \in told <=> i <= k
        /\ rebuilt \in Made(StateAfter(h, k), Beginning(h, k), p, {x.exec_id : x \in told})
        /\ h \in Seq(TRANSITIONS)
    BY <1>1 DEF SoFar, Lifecycle
  <1>3. arcs \subseteq 1 .. n /\ ReportedArcs(g) = arcs \cup {last} /\ last \notin arcs
    <2>1. arcs \subseteq 1 .. n /\ last \notin arcs
      BY <1>2 DEF ReportedArcs
    <2>2. \A i \in 1 .. Len(g) : i \in 1 .. n \/ i = n + 1 \/ i = last
      BY <1>2
    <2>3. last \in 1 .. Len(g) /\ 1 .. n \subseteq 1 .. Len(g)
      BY <1>2
    <2> QED BY <2>1, <2>2, <2>3 DEF ReportedArcs
  <1> PICK longer : longer = [i \in arcs \cup {last} |-> IF i = last THEN m ELSE report[i]]
    OBVIOUS
  <1>4. longer[last] = m /\ \A i \in arcs : longer[i] = report[i]
    BY <1>3
  <1>5. Explains(longer, arcs \cup {last}, more, g)
    <2>1. \A i \in arcs : /\ report[i] \in reports /\ report[i].event = h[i].event
                          /\ report[i].exec_id < m.exec_id
                          /\ g[i] = h[i] /\ i < last
      BY <1>2, <1>3 DEF Explains
    <2>2. longer \in [arcs \cup {last} -> more]
      BY <1>3, <2>1
    <2>3. more = {longer[i] : i \in arcs \cup {last}}
      <3>1. reports = ValuesOf(report, arcs)
        BY <1>2 DEF Explains, ValuesOf
      <3>2. ValuesOf(longer, arcs \cup {last}) = ValuesOf(report, arcs) \cup {m}
        BY <1>4, OneMoreValue
      <3>3. ValuesOf(longer, arcs \cup {last}) = more
        BY <3>1, <3>2
      <3> QED BY <3>3, Zenon DEF ValuesOf
    <2>4. \A i \in arcs \cup {last} : longer[i].event = g[i].event
      BY <1>4, <2>1
    <2>5. ASSUME NEW i \in arcs \cup {last}, NEW j \in arcs \cup {last}, i < j
          PROVE  longer[i].exec_id < longer[j].exec_id
      <3>1. i \in arcs
        BY <1>2, <1>3, <2>1, <2>5
      <3>2. CASE j = last
        BY <1>4, <2>1, <3>1, <3>2
      <3>3. CASE j \in arcs
        BY <1>2, <1>4, <2>5, <3>1, <3>3 DEF Explains
      <3> QED BY <3>2, <3>3
    <2> QED BY <2>2, <2>3, <2>4, <2>5 DEF Explains
  <1>6. m \notin told
    <2>1. m.exec_id \in Nat
      BY DEF Messages
    <2> QED BY <1>2, <2>1
  <1>7. \A i \in arcs \cup {last} : longer[i] \in told <=> i <= k
    <2>1. ~(last <= k)
      BY <1>2
    <2> QED BY <1>2, <1>4, <1>6, <2>1
  <1>8. StateAfter(g, k) = StateAfter(h, k) /\ Beginning(g, k) = Beginning(h, k)
    <2>1. StateAfter(g, k) = StateAfter(h, k)
      BY <1>2 DEF StateAfter
    <2>2. Len(g) \in Nat /\ k <= Len(g) /\ k <= n
      BY <1>2
    <2>3. Beginning(g, k) = Beginning(h, k)
      BY <1>2, <2>2 DEF Beginning
    <2> QED BY <2>1, <2>3
  <1>9. k \in 0 .. Len(g) /\ (k > 0 => g[k].event # "CANCEL_REQUEST")
    BY <1>2
  <1>10. told \subseteq more
    BY <1>2
  <1>11. SoFar(rebuilt, g, longer, more, told, k, p)
    BY <1>2, <1>3, <1>5, <1>7, <1>8, <1>9, <1>10 DEF SoFar
  <1>12. Enough(p, FALSE, Due(more, told))
    BY <1>1, <1>2 DEF Enough
  <1> QED BY <1>11, <1>12 DEF AuditedTo

(* When all has been told, all has been rebuilt.                           *)
LEMMA AllIsTold ==
    ASSUME NEW e, NEW id, NEW h, Lifecycle(h), NEW reports, NEW busy,
           AuditedTo(e, id, h, reports, busy), reports \subseteq Told(e, id)
    PROVE  /\ Reconstruct(e, id).valid
           /\ Reconstruct(e, id).state = StateAfter(h, Len(h))
           /\ Reconstruct(e, id).history = h
  <1> PICK told, rebuilt, n : told = Told(e, id) /\ rebuilt = Reconstruct(e, id) /\ n = Len(h)
    OBVIOUS
  <1>1. PICK report, k, p : SoFar(rebuilt, h, report, reports, told, k, p)
    BY DEF AuditedTo
  <1>2. h \in Seq(TRANSITIONS) /\ n \in Nat /\ k \in 0 .. n
    BY <1>1 DEF SoFar, Lifecycle
  <1>3. k = n
    <2>1. CASE n = 0
      BY <1>2, <2>1
    <2>2. CASE n # 0
      <3>1. n \in 1 .. Len(h) /\ ~(n < Len(h))
        BY <1>2, <2>2
      <3>2. n \in ReportedArcs(h)
        BY <3>1 DEF Lifecycle, ReportedArcs
      <3>3. report[n] \in told
        BY <1>1, <3>2 DEF SoFar, Explains
      <3>4. n <= k
        BY <1>1, <3>2, <3>3 DEF SoFar
      <3> QED BY <1>2, <3>4
    <2> QED BY <2>1, <2>2
  <1>4. Beginning(h, n) = h
    BY <1>2 DEF Beginning
  <1>5. rebuilt \in Made(StateAfter(h, n), h, p, {m.exec_id : m \in told})
    BY <1>1, <1>3, <1>4 DEF SoFar
  <1> QED BY <1>5, MadeHas


-------------------------------------------------------------------------------
(* One connection whose log can be audited.                                *)

(* The orders the book takes when a plan for them works out.               *)
Acceptable(r) == r.type = "D" /\ r.valid /\ r.quantity # 0

GoodIds == {r.order : r \in {x \in Requests : Acceptable(x)}}

(* Every plan for them is filled to its end: one that fails leaves events  *)
(* in the book that no report tells of (mock_exchange.py:511-524).         *)
PlansWork ==
    \A r \in Requests, chosen \in FillStrategies :
        Acceptable(r) => \A plan \in PlansOf(chosen, r.quantity) :
            FillsTaken(AfterFills(r.quantity, plan), plan) = Len(plan)

(* A ClOrdID is not used for an order the book takes and for one that is   *)
(* rejected: the audit takes both for one lifecycle.                       *)
Unmixed == \A r \in Requests : r.type = "D" /\ r.order \in GoodIds => Acceptable(r)

(* No report is dropped while one made before it is held back: a report is *)
(* in the log from when it is dropped.                                     *)
NoDropOvertakes == \A modes \in ChaosModes : ~({"drop", "reorder"} \subseteq modes)

Auditable(s) == OneLine(s) /\ PlansWork /\ Unmixed /\ NoDropOvertakes

(* What is not a request, an answer or a message on its way.               *)
Quiet(s) ==
    /\ UNCHANGED <<books, request, out, hand, pending, log>>
    /\ \/ at'[s] \in {at[s], "accepted", "logon", "turn", "done"}
       \/ at'[s] = "receive" /\ HasSent(s)

LEMMA StepsOfOneLine ==
    ASSUME NEW s, OneLine(s), ExchangeInv, LineInv(s), [Serves]_vars
    PROVE  \/ Quiet(s)
           \/ \E r \in Requests : Receive(s, r)
           \/ LookUp(s) \/ AcceptNewOrder(s) \/ Cancel(s) \/ Send(s) \/ Deliver(s)
  <1>1. /\ s \in Sessions /\ Stopper \in Threads /\ Stopper # s /\ \A x \in Sessions : x = s
        /\ hand \in [Threads -> Seq(AllDeliveries)]
        /\ at \in [Sessions -> {"none", "accepted", "logon", "turn", "receive",
                                "lookup", "accept", "cancel", "done"}]
    BY ThreadsAssumption DEF OneLine, Threads, ExchangeInv, SendingInv, ThreadsInv
  <1>2. ASSUME AcceptConnection(s) \/ Register(s) \/ Logon(s) \/ Listen(s)
               \/ SessionEnds(s) \/ PeerLeaves(s)
        PROVE  Quiet(s)
    <2>1. UNCHANGED <<books, request, out, hand, pending, log>>
      BY <1>2 DEF AcceptConnection, Register, Logon, Listen, SessionEnds, PeerLeaves
    <2>2. \/ at'[s] \in {at[s], "accepted", "logon", "turn", "done"}
          \/ at'[s] = "receive" /\ HasSent(s)
      BY <1>1, <1>2 DEF AcceptConnection, Register, Logon, Listen, SessionEnds, PeerLeaves
    <2> QED BY <2>1, <2>2 DEF Quiet
  <1>3. ASSUME AcceptorExits \/ Stop \/ StopClose \/ StopJoin \/ Start \/ UNCHANGED vars
        PROVE  Quiet(s)
    BY <1>3 DEF AcceptorExits, Stop, StopClose, StopJoin, Start, vars, Quiet, books, config
  <1>4. ASSUME StopFlush \/ \E t \in Timers : HoldExpires(t)
        PROVE  Quiet(s)
    <2>1. pending = Nothing /\ StopFlush
      BY <1>4 DEF StopFlush, HoldExpires, LineInv, NobodyElseSends
    <2>2. /\ hand' = [hand EXCEPT ![Stopper] = <<>>] /\ pending' = pending
          /\ UNCHANGED <<books, request, out, at, log>>
      BY <2>1 DEF StopFlush, TakePending
    <2>3. hand[Stopper] = <<>>
      BY <1>1 DEF LineInv
    <2>4. hand' = hand
      BY <1>1, <2>2, <2>3
    <2> QED BY <2>2, <2>4 DEF Quiet
  <1>5. ASSUME NEW t \in Threads, Deliver(t)
        PROVE  t = s
    BY <1>5 DEF Deliver, LineInv
  <1> QED
    BY <1>1, <1>2, <1>3, <1>4, <1>5 DEF Serves, Exchange, Work, Connect, StopStep

LEMMA ReportsOfOneLine ==
    ASSUME NEW s, OneLine(s), LineInv(s)
    PROVE  /\ Reports = OutOf(s) \cup HandOf(s) \cup HeldBack \cup Logged
           /\ HandOf(s) = MessagesOf(hand[s])
  <1>1. s \in Sessions /\ s \in Threads /\ \A x \in Sessions : x = s
    BY DEF OneLine, Threads
  <1>2. \A t \in Threads : t # s => HandOf(t) = {}
    BY SetsOfSequences DEF LineInv, HandOf
  <1>3. ASSUME NEW m
        PROVE  m \in Reports <=> m \in OutOf(s) \cup HandOf(s) \cup HeldBack \cup Logged
    BY <1>1, <1>2, PlacesOfReports
  <1>4. Reports = OutOf(s) \cup HandOf(s) \cup HeldBack \cup Logged
    BY <1>3
  <1> QED BY <1>4 DEF HandOf, MessagesOf

(* What lies between the requests a session handles and the messages it    *)
(* has on their way: reports, or the refusal of a cancel alone.            *)
OnTheWay(o, d) ==
    \/ (\A m \in ToSet(o) : IsReport(m)) /\ \A x \in ToSet(d) : IsReport(x.message)
    \/ d = <<>> /\ \E m : o = <<m>> /\ m.type = "9"
    \/ o = <<>> /\ \E x : d = <<x>> /\ x.message.type = "9" /\ ~x.duplicate

ShapeInv(s) ==
    /\ at[s] \in {"receive", "lookup", "accept", "cancel"} => hand[s] = <<>>
    /\ pending # Nothing => IsReport(pending.message) /\ "reorder" \in chaos
    /\ OnTheWay(out[s], hand[s])

(* What a step of the session thread does with what is on its way.         *)
LEMMA WayOfOneLine ==
    ASSUME NEW s, OneLine(s), ExchangeInv
    PROVE  /\ s \in Sessions /\ s \in Threads
           /\ out \in [Sessions -> Seq(Messages)] /\ out[s] \in Seq(Messages)
           /\ hand \in [Threads -> Seq(AllDeliveries)] /\ hand[s] \in Seq(AllDeliveries)
           /\ at \in [Sessions -> {"none", "accepted", "logon", "turn", "receive",
                                   "lookup", "accept", "cancel", "done"}]
           /\ request \in [Sessions -> Requests \cup {Nothing}]
           /\ log \in Seq(LogEntries) /\ nextExec \in Nat
           /\ pending \in AllDeliveries \cup {Nothing}
           /\ \A d \in AllDeliveries : d.message \in Messages
  BY DEF OneLine, Threads, ExchangeInv, SendingInv, ThreadsInv, BooksInv, AllDeliveries

LEMMA ReportsOnTheWay ==
    ASSUME NEW o
    PROVE  /\ (\A m \in ToSet(o) : IsReport(m)) => OnTheWay(o, <<>>)
           /\ \A m : IsReport(m) \/ m.type = "9" => OnTheWay(<<m>>, <<>>)
  <1>1. ToSet(<<>>) = {} /\ \A m : ToSet(<<m>>) = {m}
    BY SetsOfSequences
  <1> QED BY <1>1 DEF OnTheWay

LEMMA DeliveriesCarry ==
    ASSUME NEW s \in Sessions, NEW x \in Deliveries(s)
    PROVE  /\ x.message = Head(out[s])
           /\ ~IsReport(Head(out[s])) => x.duplicate = FALSE
  <1>1. \E duplicate : /\ x = Delivery(s, Head(out[s]), duplicate)
                       /\ ~IsReport(Head(out[s])) => duplicate = FALSE
    BY DEF Deliveries
  <1> QED BY <1>1 DEF Delivery

(* The head of what is to be sent goes on its way.                         *)
LEMMA WayMoves ==
    ASSUME NEW o \in Seq(Messages), o # <<>>, OnTheWay(o, <<>>), NEW m, m = Head(o)
    PROVE  /\ IsReport(m) \/ (m.type = "9" /\ Tail(o) = <<>>)
           /\ IsReport(m) => OnTheWay(Tail(o), <<>>)
           /\ \A x : x.message = m /\ (~IsReport(m) => x.duplicate = FALSE) => OnTheWay(Tail(o), <<x>>)
           /\ \A x, held : x.message = m /\ IsReport(m) /\ IsReport(held.message) =>
                              OnTheWay(Tail(o), InOrder(held, x))
  <1> PICK tail : tail = Tail(o)
    OBVIOUS
  <1>1. /\ ToSet(<<>>) = {} /\ \A x : ToSet(<<x>>) = {x}
        /\ \A a, b : ToSet(<<a, b>>) = {a, b}
        /\ ToSet(o) = {m} \cup ToSet(tail)
    BY SetsOfSequences
  <1>2. \/ \A b \in {m} \cup ToSet(tail) : IsReport(b)
        \/ m.type = "9" /\ tail = <<>> /\ ~IsReport(m)
    <2>1. CASE \A b \in ToSet(o) : IsReport(b)
      BY <1>1, <2>1
    <2>2. CASE \E x : o = <<x>> /\ x.type = "9"
      BY <2>2 DEF IsReport
    <2>3. ~ \E x : <<>> = <<x>> /\ x.message.type = "9" /\ ~x.duplicate
      OBVIOUS
    <2> QED BY <2>1, <2>2, <2>3 DEF OnTheWay
  <1>3. IsReport(m) => OnTheWay(tail, <<>>)
    BY <1>2, ReportsOnTheWay
  <1>4. ASSUME NEW x, x.message = m, ~IsReport(m) => x.duplicate = FALSE
        PROVE  OnTheWay(tail, <<x>>)
    <2>1. CASE \A b \in {m} \cup ToSet(tail) : IsReport(b)
      BY <1>1, <1>4, <2>1 DEF OnTheWay
    <2>2. CASE m.type = "9" /\ tail = <<>> /\ ~IsReport(m)
      BY <1>4, <2>2 DEF OnTheWay
    <2> QED BY <1>2, <2>1, <2>2
  <1>5. ASSUME NEW x, NEW held, x.message = m, IsReport(m), IsReport(held.message)
        PROVE  OnTheWay(tail, InOrder(held, x))
    <2>1. ToSet(InOrder(held, x)) = {x, held}
      BY <1>1 DEF InOrder
    <2>2. \A b \in ToSet(tail) : IsReport(b)
      BY <1>2, <1>5
    <2> QED BY <1>5, <2>1, <2>2 DEF OnTheWay
  <1> QED BY <1>2, <1>3, <1>4, <1>5

LEMMA ShapeKept ==
    ASSUME NEW s, OneLine(s), ExchangeInv, HandoverInv, ReportedInv, LineInv(s), ShapeInv(s),
           [Serves]_vars
    PROVE  ShapeInv(s)'
  <1> PICK o, d : o = out[s] /\ d = hand[s]
    OBVIOUS
  <1>1. /\ s \in Sessions /\ s \in Threads
        /\ out \in [Sessions -> Seq(Messages)] /\ o \in Seq(Messages)
        /\ hand \in [Threads -> Seq(AllDeliveries)] /\ d \in Seq(AllDeliveries)
        /\ at \in [Sessions -> {"none", "accepted", "logon", "turn", "receive",
                                "lookup", "accept", "cancel", "done"}]
    BY WayOfOneLine
  <1>2. CASE Quiet(s)
    BY <1>2 DEF Quiet, ShapeInv, HasSent, books, config
  <1>3. ASSUME NEW messages, out'[s] = messages \/ out'[s] = <<>>, hand'[s] = <<>>,
               UNCHANGED <<pending, chaos>>,
               \/ \A m \in ToSet(messages) : IsReport(m)
               \/ \E m : messages = <<m>> /\ (IsReport(m) \/ m.type = "9")
        PROVE  ShapeInv(s)'
    <2>1. OnTheWay(messages, <<>>) /\ OnTheWay(<<>>, <<>>)
      BY <1>3, ReportsOnTheWay, SetsOfSequences
    <2> QED BY <1>3, <2>1 DEF ShapeInv
  <1>4. \A r, n : IsReport(RejectedExecutionReport(r, n)) /\ CancelReject(r).type = "9"
    BY DEF RejectedExecutionReport, ExecutionReport, CancelReject, Message, IsReport
  <1>5. ASSUME NEW r \in Requests, Receive(s, r)
        PROVE  ShapeInv(s)'
    <2>1. hand'[s] = <<>> /\ UNCHANGED <<pending, chaos>> /\ o = <<>>
      <3>1. at[s] = "receive" /\ UNCHANGED <<hand, pending, chaos>>
        BY <1>5, Zenon DEF Receive, config
      <3>2. hand[s] = <<>> /\ out[s] = <<>>
        BY <1>1, <3>1 DEF ShapeInv, HandoverInv
      <3> QED BY <3>1, <3>2
    <2>2. out' = out \/ \E m : /\ out' = [out EXCEPT ![s] = <<m>>]
                               /\ IsReport(m) \/ m.type = "9"
      BY <1>4, <1>5 DEF Receive
    <2>3. CASE out' = out
      BY <1>3, <2>1, <2>3, SetsOfSequences
    <2>4. ASSUME NEW m, out' = [out EXCEPT ![s] = <<m>>], IsReport(m) \/ m.type = "9"
          PROVE  ShapeInv(s)'
      <3>1. out'[s] = <<m>>
        BY <1>1, <2>4
      <3> QED BY <1>3, <2>1, <2>4, <3>1
    <2> QED BY <2>2, <2>3, <2>4
  <1>6. ASSUME LookUp(s) \/ AcceptNewOrder(s) \/ Cancel(s)
        PROVE  /\ d = <<>> /\ UNCHANGED <<hand, pending, chaos>>
               /\ at[s] \in {"lookup", "accept", "cancel"} /\ o = <<>>
    <2>1. /\ UNCHANGED <<hand, pending, chaos>>
          /\ at[s] \in {"lookup", "accept", "cancel"}
      BY <1>6, Zenon DEF LookUp, AcceptNewOrder, Cancel, books, config
    <2> QED BY <1>1, <2>1 DEF ShapeInv, HandoverInv
  <1>7. ASSUME LookUp(s)
        PROVE  ShapeInv(s)'
    <2> PICK id : id = request[s].order
      OBVIOUS
    <2>1. CASE id \in DOMAIN responses
      <3>1. out'[s] = responses[id]
        BY <1>1, <1>7, <2>1 DEF LookUp, Answers
      <3>2. \A m \in ToSet(responses[id]) : IsReport(m)
        BY <2>1 DEF ReportedInv, CachedInv, ReportsOf
      <3> QED BY <1>3, <1>6, <1>7, <3>1, <3>2
    <2>2. CASE id \notin DOMAIN responses
      <3>1. out'[s] = <<>>
        BY <1>6, <1>7, <2>2 DEF LookUp
      <3> QED BY <1>3, <1>6, <1>7, <3>1, SetsOfSequences
    <2> QED BY <2>1, <2>2
  <1>8. ASSUME AcceptNewOrder(s)
        PROVE  ShapeInv(s)'
    <2> PICK r : r = request[s]
      OBVIOUS
    <2>1. ASSUME NEW n, Answers(s, <<RejectedExecutionReport(r, n)>>)
          PROVE  ShapeInv(s)'
      <3>1. out'[s] = <<RejectedExecutionReport(r, n)>>
        BY <1>1, <2>1 DEF Answers
      <3> QED BY <1>3, <1>4, <1>6, <1>8, <3>1
    <2>2. ASSUME NEW order, NEW reports \in Seq(Messages),
                 OpensWith(r, order, reports), Answers(s, reports)
          PROVE  ShapeInv(s)'
      <3>1. out'[s] = reports
        BY <1>1, <2>2 DEF Answers
      <3>2. \A m \in ToSet(reports) : IsReport(m)
        BY <2>2 DEF OpensWith, ToSet
      <3> QED BY <1>3, <1>6, <1>8, <3>1, <3>2
    <2>3. CASE Refuses(s, r)
      BY <2>1, <2>3 DEF Refuses
    <2>4. ASSUME NEW order, NEW reports \in Seq(Messages),
                 OpensWith(r, order, reports), Accepts(s, r, order, reports)
          PROVE  ShapeInv(s)'
      <3>1. Answers(s, reports) \/ \E n : Answers(s, <<RejectedExecutionReport(r, n)>>)
        BY <2>4, Zenon DEF Accepts
      <3> QED BY <2>1, <2>2, <2>4, <3>1
    <2>5. \/ Refuses(s, r)
          \/ \E order : \E reports \in Seq(Messages) :
                OpensWith(r, order, reports) /\ Accepts(s, r, order, reports)
      BY <1>1, <1>8, AcceptShape
    <2> QED BY <2>3, <2>4, <2>5
  <1>9. ASSUME Cancel(s)
        PROVE  ShapeInv(s)'
    <2> PICK r : r = request[s]
      OBVIOUS
    <2>1. PICK m : Answers(s, <<m>>) /\ (IsReport(m) \/ m.type = "9")
      <3>1. \/ Answers(s, <<CancelReject(r)>>)
            \/ \E n, cum : Answers(s, <<ExecutionReport(r.cl, r.order, "CANCEL_CONFIRMED", n, cum)>>)
        BY <1>9, Zenon DEF Cancel
      <3>2. \A n, cum : IsReport(ExecutionReport(r.cl, r.order, "CANCEL_CONFIRMED", n, cum))
        BY DEF ExecutionReport, Message, IsReport
      <3> QED BY <1>4, <3>1, <3>2
    <2>2. out'[s] = <<m>>
      BY <1>1, <2>1 DEF Answers
    <2> QED BY <1>3, <1>6, <1>9, <2>1, <2>2
  <1>10. ASSUME Send(s)
         PROVE  ShapeInv(s)'
    <2> PICK m : m = Head(out[s])
      OBVIOUS
    <2>1. /\ d = <<>> /\ o # <<>> /\ out'[s] = Tail(o) /\ UNCHANGED <<at, chaos>>
      BY <1>1, <1>10 DEF Send, DropReport, SendDirectly, HoldBack, SendWithHeld, Sending, books, config
    <2>2. at[s] \notin {"receive", "lookup", "accept", "cancel"}
      BY <1>1, <2>1 DEF HandoverInv
    <2>3. OnTheWay(o, <<>>)
      BY <2>1 DEF ShapeInv
    <2>4. /\ IsReport(m) => OnTheWay(Tail(o), <<>>)
          /\ \A x : x.message = m /\ (~IsReport(m) => x.duplicate = FALSE) => OnTheWay(Tail(o), <<x>>)
          /\ \A x, held : x.message = m /\ IsReport(m) /\ IsReport(held.message) =>
                              OnTheWay(Tail(o), InOrder(held, x))
      BY <1>1, <2>1, <2>3, WayMoves
    <2>5. CASE DropReport(s) \/ HoldBack(s)
      <3>1. /\ IsReport(m) /\ hand'[s] = <<>>
            /\ pending' = pending \/ (pending' \in Deliveries(s) /\ "reorder" \in chaos)
        BY <2>1, <2>5 DEF DropReport, HoldBack
      <3>2. pending' \in Deliveries(s) => IsReport(pending'.message)
        BY <1>1, <3>1, DeliveriesCarry
      <3> QED BY <2>1, <2>4, <3>1, <3>2 DEF ShapeInv
    <2>6. CASE SendDirectly(s)
      <3>1. PICK x \in Deliveries(s) : hand' = [hand EXCEPT ![s] = <<x>>] /\ pending' = pending
        BY <2>6 DEF SendDirectly
      <3>2. hand'[s] = <<x>> /\ x.message = m /\ (~IsReport(m) => x.duplicate = FALSE)
        BY <1>1, <3>1, DeliveriesCarry
      <3>3. OnTheWay(Tail(o), <<x>>)
        BY <2>4, <3>2
      <3> QED BY <2>1, <2>2, <3>1, <3>2, <3>3 DEF ShapeInv
    <2>7. CASE SendWithHeld(s)
      <3> PICK held : held = pending
        OBVIOUS
      <3>1. PICK x \in Deliveries(s) : hand' = [hand EXCEPT ![s] = InOrder(held, x)]
        BY <2>7 DEF SendWithHeld
      <3>2. IsReport(m) /\ IsReport(held.message) /\ pending' = Nothing
        BY <2>7 DEF SendWithHeld, ShapeInv
      <3>3. hand'[s] = InOrder(held, x) /\ x.message = m
        BY <1>1, <3>1, DeliveriesCarry
      <3>4. OnTheWay(Tail(o), InOrder(held, x))
        BY <2>4, <3>2, <3>3
      <3> QED BY <2>1, <2>2, <3>2, <3>3, <3>4 DEF ShapeInv
    <2> QED BY <1>10, <2>5, <2>6, <2>7 DEF Send
  <1>11. ASSUME Deliver(s)
         PROVE  ShapeInv(s)'
    <2>1. /\ d # <<>> /\ hand'[s] = Tail(d) /\ UNCHANGED <<out, pending, chaos, at>>
      BY <1>1, <1>11 DEF Deliver, books, config
    <2>2. ToSet(d) = {Head(d)} \cup ToSet(Tail(d))
      BY <1>1, <2>1, SetsOfSequences
    <2>3. OnTheWay(o, Tail(d))
      <3>1. CASE (\A m \in ToSet(o) : IsReport(m)) /\ \A x \in ToSet(d) : IsReport(x.message)
        BY <2>2, <3>1 DEF OnTheWay
      <3>2. CASE o = <<>> /\ \E x : d = <<x>>
        <4>1. Tail(d) = <<>>
          BY <3>2
        <4> QED BY <3>2, <4>1, SetsOfSequences DEF OnTheWay
      <3> QED BY <2>1, <3>1, <3>2 DEF ShapeInv, OnTheWay
    <2>4. at[s] \notin {"receive", "lookup", "accept", "cancel"}
      BY <2>1 DEF ShapeInv
    <2> QED BY <2>1, <2>3, <2>4 DEF ShapeInv
  <1> QED BY <1>2, <1>5, <1>7, <1>8, <1>9, <1>10, <1>11, StepsOfOneLine

-------------------------------------------------------------------------------
(* What the orders in the book and the requests being handled are.         *)

(* An order in the book was answered with its reports, not with a reject;  *)
(* and no order that a reject is on its way for gets there.                *)
WorkInv(s) ==
    /\ DOMAIN orders \subseteq DOMAIN responses
    /\ DOMAIN orders \subseteq GoodIds
    /\ at[s] \in {"lookup", "accept"} => request[s].type = "D" /\ request[s].valid
    /\ at[s] = "accept" => request[s].order \notin DOMAIN orders
    /\ \A m \in Reports : m.event = "REJECT" => m.order \notin GoodIds

(* A plan that works leaves its reports in the cache.                      *)
LEMMA AcceptCaches ==
    ASSUME NEW s \in Sessions, PlansWork, ExchangeInv, AcceptNewOrder(s), NEW r, r = request[s],
           r.type = "D", r.valid, r.order \notin DOMAIN orders, r.quantity # 0
    PROVE  r.order \in DOMAIN responses'
  <1>1. /\ r \in Requests /\ strategy \in FillStrategies
    BY DEF AcceptNewOrder, ExchangeInv, ThreadsInv, BooksInv
  <1>2. ~(Holds(r.order) \/ Unacceptable(r))
    BY DEF Holds, Unacceptable
  <1>3. PICK plan \in FillPlans(r.quantity) :
           LET filled == AfterFills(r.quantity, plan)
               taken == FillsTaken(filled, plan)
               reports == ReportsOfFills(r, nextExec, filled, taken)
           IN  /\ orders' = [id \in DOMAIN orders \cup {r.order} |->
                                IF id = r.order THEN filled[taken] ELSE orders[id]]
               /\ Answers(s, AnswersTo(r, reports, plan))
               /\ IF taken = Len(plan)
                  THEN /\ responses' = [id \in DOMAIN responses \cup {r.order} |->
                              IF id = r.order THEN reports ELSE responses[id]]
                       /\ nextExec' = nextExec + Len(reports)
                  ELSE /\ nextExec' = nextExec + Len(reports) + 1
                       /\ UNCHANGED responses
    BY <1>2, Zenon DEF AcceptNewOrder, ReportsOfFills
  <1>4. FillsTaken(AfterFills(r.quantity, plan), plan) = Len(plan)
    BY <1>1 DEF PlansWork, Acceptable, FillPlans
  <1> QED BY <1>3, <1>4

(* The order is accepted with its reports, or rejected for good.           *)
LEMMA AcceptsOrRejects ==
    ASSUME NEW s \in Sessions, PlansWork, Unmixed, ExchangeInv, WorkInv(s), AcceptNewOrder(s),
           NEW r, r = request[s]
    PROVE  \/ Refuses(s, r) /\ r.order \notin GoodIds
           \/ /\ r.order \notin DOMAIN orders /\ r.order \in GoodIds
              /\ \E order : \E reports \in Seq(Messages) :
                    /\ OpensWith(r, order, reports) /\ Accepts(s, r, order, reports)
                    /\ Answers(s, reports)
                    /\ responses' = [id \in DOMAIN responses \cup {r.order} |->
                                        IF id = r.order THEN reports ELSE responses[id]]
                    /\ nextExec' = nextExec + Len(reports)
  <1>1. /\ r \in Requests /\ r.type = "D" /\ r.valid /\ r.order \notin DOMAIN orders
        /\ DOMAIN responses \subseteq DOMAIN orders
    BY DEF AcceptNewOrder, ExchangeInv, ThreadsInv, WorkInv, BooksInv
  <1>2. r.quantity # 0 => r.order \in DOMAIN responses'
    BY <1>1, AcceptCaches
  <1>3. CASE Refuses(s, r)
    <2>1. r.quantity = 0
      BY <1>1, <1>2, <1>3 DEF Refuses
    <2> QED BY <1>1, <1>3, <2>1 DEF Unmixed, Acceptable
  <1>4. ASSUME NEW order, NEW reports \in Seq(Messages), OpensWith(r, order, reports),
               Accepts(s, r, order, reports)
        PROVE  /\ r.order \in GoodIds
               /\ Answers(s, reports)
               /\ responses' = [id \in DOMAIN responses \cup {r.order} |->
                                   IF id = r.order THEN reports ELSE responses[id]]
               /\ nextExec' = nextExec + Len(reports)
    <2>1. r.quantity # 0
      BY <1>4 DEF OpensWith, GoodOrder, Order
    <2>2. r.order \in GoodIds
      BY <1>1, <2>1 DEF GoodIds, Acceptable
    <2> QED BY <1>1, <1>2, <1>4, <2>1, <2>2 DEF Accepts
  <1> QED BY <1>1, <1>3, <1>4, AcceptShape

LEMMA WorkKept ==
    ASSUME NEW s, OneLine(s), PlansWork, Unmixed, ExchangeInv, HandoverInv, ReportedInv,
           LineInv(s), WorkInv(s), [Serves]_vars
    PROVE  WorkInv(s)'
  <1>1. /\ s \in Sessions /\ DOMAIN responses \subseteq DOMAIN orders
        /\ at \in [Sessions -> {"none", "accepted", "logon", "turn", "receive",
                                "lookup", "accept", "cancel", "done"}]
        /\ request \in [Sessions -> Requests \cup {Nothing}]
        /\ orders = [id \in DOMAIN orders |-> orders[id]]
    BY WayOfOneLine DEF ExchangeInv, BooksInv
  <1>2. ASSUME UNCHANGED responses, DOMAIN orders' = DOMAIN orders,
               at'[s] \notin {"lookup", "accept"},
               \A m \in Reports' \ Reports : m.event = "REJECT" => m.order \notin GoodIds
        PROVE  WorkInv(s)'
    BY <1>2 DEF WorkInv
  <1>3. CASE Quiet(s)
    <2>1. Reports' = Reports /\ UNCHANGED <<orders, responses, request>>
      BY <1>3, ReportsRest DEF Quiet, books
    <2> QED BY <1>3, <2>1 DEF Quiet, WorkInv
  <1>4. ASSUME NEW r \in Requests, Receive(s, r)
        PROVE  WorkInv(s)'
    <2> PICK received : received = Message(r.type, r.cl, r.order, "none", 0, 0)
      OBVIOUS
    <2>1. ASSUME NEW m \in Reports' \ Reports, m.event = "REJECT"
          PROVE  m.order \notin GoodIds
      <3>1. received.event = "none" /\ CancelReject(r).event = "CANCEL_REJECT"
        BY DEF CancelReject, Message
      <3>2. m = RejectedExecutionReport(r, nextExec) /\ nextExec' = nextExec + 1
        BY <1>1, <1>4, <2>1, <3>1, ReceiveAdds
      <3>3. ~r.valid /\ r.type = "D"
        BY <1>4, <3>2, WayOfOneLine DEF Receive
      <3>4. m.order = r.order
        BY <3>2 DEF RejectedExecutionReport, ExecutionReport, Message
      <3> QED BY <3>3, <3>4 DEF Unmixed, Acceptable
    <2>2. /\ UNCHANGED <<orders, responses>>
          /\ at'[s] \in {"lookup", "accept"} =>
                at'[s] = "lookup" /\ request'[s] = r /\ r.type = "D" /\ r.valid
      BY <1>1, <1>4 DEF Receive
    <2> QED BY <2>1, <2>2 DEF WorkInv
  <1>5. ASSUME LookUp(s) \/ AcceptNewOrder(s) \/ Cancel(s)
        PROVE  out[s] = <<>> /\ UNCHANGED <<hand, pending, log>>
    <2>1. at[s] \in {"lookup", "accept", "cancel"} /\ UNCHANGED <<hand, pending, log>>
      <3>1. CASE LookUp(s)
        BY <3>1, Zenon DEF LookUp
      <3>2. CASE AcceptNewOrder(s)
        BY <3>2, Zenon DEF AcceptNewOrder
      <3>3. CASE Cancel(s)
        BY <3>3, Zenon DEF Cancel
      <3> QED BY <1>5, <3>1, <3>2, <3>3
    <2> QED BY <1>1, <2>1 DEF HandoverInv
  <1>6. ASSUME NEW messages, Answers(s, messages), out[s] = <<>>, UNCHANGED <<hand, pending, log>>
        PROVE  Reports' = Reports \cup ToSet(messages) /\ at'[s] = "turn"
    BY <1>1, <1>6, AnswersAdd DEF Answers
  <1>7. ASSUME LookUp(s)
        PROVE  WorkInv(s)'
    <2> PICK id : id = request[s].order
      OBVIOUS
    <2>1. UNCHANGED <<orders, responses>> /\ at[s] = "lookup"
      BY <1>7 DEF LookUp, books
    <2>2. CASE id \in DOMAIN responses
      <3>1. Reports' = Reports \cup ToSet(responses[id]) /\ at'[s] = "turn"
        BY <1>5, <1>6, <1>7, <2>2 DEF LookUp
      <3>2. ToSet(responses[id]) \subseteq Reports
        BY <2>2 DEF ReportedInv, CachedInv, ReportsOf
      <3> QED BY <1>2, <2>1, <3>1, <3>2
    <2>3. CASE id \notin DOMAIN responses
      <3>1. out' = out /\ request' = request
        BY <1>7, <2>3 DEF LookUp
      <3>2. Reports' = Reports
        BY <1>5, <1>7, <3>1, ReportsRest
      <3> QED BY <1>1, <2>1, <2>3, <3>1, <3>2 DEF WorkInv
    <2> QED BY <2>2, <2>3
  <1>8. ASSUME AcceptNewOrder(s)
        PROVE  WorkInv(s)'
    <2> PICK r : r = request[s]
      OBVIOUS
    <2>1. CASE Refuses(s, r) /\ r.order \notin GoodIds
      <3> PICK m : m = RejectedExecutionReport(r, nextExec)
        OBVIOUS
      <3>1. Reports' = Reports \cup ToSet(<<m>>) /\ at'[s] = "turn" /\ UNCHANGED <<orders, responses>>
        BY <1>5, <1>6, <1>8, <2>1 DEF Refuses
      <3>2. m.order = r.order /\ ToSet(<<m>>) = {m}
        BY SetsOfSequences DEF RejectedExecutionReport, ExecutionReport, Message
      <3> QED BY <1>2, <2>1, <3>1, <3>2
    <2>2. ASSUME NEW order, NEW reports \in Seq(Messages), r.order \in GoodIds,
                 OpensWith(r, order, reports), Accepts(s, r, order, reports), Answers(s, reports),
                 responses' = [id \in DOMAIN responses \cup {r.order} |->
                                  IF id = r.order THEN reports ELSE responses[id]]
          PROVE  WorkInv(s)'
      <3>1. Reports' = Reports \cup ToSet(reports) /\ at'[s] = "turn"
        BY <1>5, <1>6, <1>8, <2>2
      <3>2. /\ DOMAIN orders' = DOMAIN orders \cup {r.order}
            /\ DOMAIN responses' = DOMAIN responses \cup {r.order}
        BY <2>2 DEF Accepts
      <3>3. \A m \in ToSet(reports) : m.event # "REJECT"
        <4> SUFFICES ASSUME NEW i \in DOMAIN reports PROVE reports[i].event # "REJECT"
          BY DEF ToSet
        <4>1. i \in 1 .. Len(reports)
          OBVIOUS
        <4>2. reports[i].event \in OpeningEvents
          BY <2>2, <4>1 DEF OpensWith
        <4> QED BY <4>2 DEF OpeningEvents
      <3> QED BY <2>2, <3>1, <3>2, <3>3 DEF WorkInv
    <2> QED BY <1>1, <1>8, <2>1, <2>2, AcceptsOrRejects
  <1>9. ASSUME Cancel(s)
        PROVE  WorkInv(s)'
    <2>1. PICK m : Answers(s, <<m>>) /\ m.event # "REJECT"
      BY <1>9 DEF Cancel, CancelReject, ExecutionReport, Message
    <2>2. Reports' = Reports \cup {m} /\ at'[s] = "turn"
      BY <1>5, <1>6, <1>9, <2>1, SetsOfSequences
    <2>3. DOMAIN orders' = DOMAIN orders /\ responses' = responses
      BY <1>1, <1>9 DEF Cancel
    <2> QED BY <1>2, <2>1, <2>2, <2>3
  <1>10. ASSUME Send(s) \/ Deliver(s)
         PROVE  WorkInv(s)'
    <2>1. UNCHANGED <<orders, responses, at, request>>
      BY <1>10 DEF Send, DropReport, SendDirectly, HoldBack, SendWithHeld, Deliver, books
    <2>2. Reports' = Reports
      BY <1>1, <1>10, SendMoves, DeliverMoves, WayOfOneLine
    <2> QED BY <2>1, <2>2 DEF WorkInv
  <1> QED BY <1>3, <1>4, <1>7, <1>8, <1>9, <1>10, StepsOfOneLine

-------------------------------------------------------------------------------
(* The reports of an order reach the log in the order they were made, or   *)
(* again after they have all been there once.                              *)

Precedes(b, a) ==
    Announces(b) /\ Announces(a) /\ b.order = a.order /\ b.exec_id < a.exec_id

(* Each report of the set comes with all there are that were made earlier. *)
Closed(reports, set) == \A a \in set, b \in reports : Precedes(b, a) => b \in set

FirstOf(messages, j) == {messages[i] : i \in 1 .. j}

FirstIn(deliveries, j) == {deliveries[i].message : i \in 1 .. j}

(* So it is with the log, however many of the deliveries in hand and of    *)
(* the messages still to be sent are added to it.                          *)
QueueClosed(reports, logged, d, held, o) ==
    /\ \A j \in 0 .. Len(d) : Closed(reports, logged \cup FirstIn(d, j))
    /\ \A j \in 0 .. Len(o) :
          Closed(reports, logged \cup held \cup MessagesOf(d) \cup FirstOf(o, j))

LEMMA ClosedSets ==
    ASSUME NEW reports
    PROVE  /\ \A X, Y : Closed(reports, X) /\ Closed(reports, Y) => Closed(reports, X \cup Y)
           /\ \A X, Y : Closed(reports, X) /\ (\A m \in Y : ~Announces(m)) => Closed(reports, X \cup Y)
  BY DEF Closed, Precedes

(* Reports made later do not matter.                                       *)
LEMMA ClosedStays ==
    ASSUME NEW reports, NEW more, NEW X, X \subseteq reports, Closed(reports, X),
           \A a \in reports, b \in more \ reports : ~Precedes(b, a)
    PROVE  Closed(more, X)
  BY DEF Closed

LEMMA FirstOnes ==
    ASSUME NEW S, NEW q \in Seq(S)
    PROVE  /\ FirstOf(q, 0) = {} /\ FirstIn(q, 0) = {}
           /\ FirstOf(q, Len(q)) = ToSet(q)
           /\ FirstIn(q, Len(q)) = MessagesOf(q)
           /\ q # <<>> => \A j \in 0 .. Len(Tail(q)) :
                 /\ j + 1 \in 0 .. Len(q)
                 /\ FirstOf(q, j + 1) = {Head(q)} \cup FirstOf(Tail(q), j)
                 /\ FirstIn(q, j + 1) = {Head(q).message} \cup FirstIn(Tail(q), j)
  <1>1. /\ FirstOf(q, 0) = {} /\ FirstIn(q, 0) = {}
        /\ FirstOf(q, Len(q)) = ToSet(q) /\ FirstIn(q, Len(q)) = MessagesOf(q)
    BY DEF FirstOf, FirstIn, ToSet, MessagesOf
  <1>2. ASSUME q # <<>>, NEW j \in 0 .. Len(Tail(q))
        PROVE  /\ j + 1 \in 0 .. Len(q)
               /\ FirstOf(q, j + 1) = {Head(q)} \cup FirstOf(Tail(q), j)
               /\ FirstIn(q, j + 1) = {Head(q).message} \cup FirstIn(Tail(q), j)
    <2> PICK tail : tail = Tail(q)
      OBVIOUS
    <2>1. /\ Len(q) \in Nat /\ Len(q) > 0 /\ Len(tail) = Len(q) - 1 /\ Head(q) = q[1]
          /\ \A i \in 1 .. Len(tail) : tail[i] = q[i + 1]
      BY <1>2
    <2>2. j \in Nat /\ j + 1 \in 0 .. Len(q) /\ \A i \in 1 .. j : tail[i] = q[i + 1]
      BY <1>2, <2>1
    <2>3. ASSUME NEW i \in 1 .. j + 1
          PROVE  i = 1 \/ (i - 1 \in 1 .. j /\ tail[i - 1] = q[i])
      BY <2>2
    <2>4. \A i \in 1 .. j : i + 1 \in 1 .. j + 1
      BY <2>2
    <2>5. 1 \in 1 .. j + 1
      BY <2>2
    <2>6. FirstOf(q, j + 1) = {q[1]} \cup FirstOf(tail, j)
      BY <2>2, <2>3, <2>4, <2>5 DEF FirstOf
    <2>7. FirstIn(q, j + 1) = {q[1].message} \cup FirstIn(tail, j)
      <3>1. \A i \in 1 .. j + 1 : q[i].message \in {q[1].message} \cup {tail[l].message : l \in 1 .. j}
        BY <2>2, <2>3
      <3>2. \A l \in 1 .. j : tail[l].message \in {q[i].message : i \in 1 .. j + 1}
        BY <2>2, <2>4
      <3> QED BY <2>5, <3>1, <3>2 DEF FirstIn
    <2> QED BY <2>1, <2>2, <2>6, <2>7
  <1> QED BY <1>1, <1>2

(* Answers take the place of those that were sent.                         *)
LEMMA QueueAnswers ==
    ASSUME NEW reports, NEW more, NEW logged, NEW later, NEW held,
           QueueClosed(reports, logged, <<>>, held, <<>>),
           \A X : X \subseteq logged \cup held /\ Closed(reports, X) => Closed(more, X),
           NEW S, NEW q \in Seq(S), logged \subseteq later,
           \A m \in later \ logged : ~Announces(m),
           \A j \in 0 .. Len(q) : Closed(more, logged \cup held \cup FirstOf(q, j))
    PROVE  QueueClosed(more, later, <<>>, held, q)
  <1>1. /\ MessagesOf(<<>>) = {} /\ Len(<<>>) = 0 /\ FirstIn(<<>>, 0) = {} /\ FirstOf(<<>>, 0) = {}
    BY SetsOfSequences DEF MessagesOf, FirstIn, FirstOf
  <1>2. Closed(reports, logged) /\ Closed(more, logged)
    <2>1. Closed(reports, logged \cup {})
      BY <1>1 DEF QueueClosed
    <2>2. logged \cup {} = logged
      OBVIOUS
    <2> QED BY <2>1, <2>2
  <1>3. Closed(more, later)
    <2>1. Closed(more, logged \cup (later \ logged))
      BY <1>2, ClosedSets
    <2>2. logged \cup (later \ logged) = later
      OBVIOUS
    <2> QED BY <2>1, <2>2
  <1>4. ASSUME NEW j \in 0 .. Len(q)
        PROVE  Closed(more, later \cup held \cup MessagesOf(<<>>) \cup FirstOf(q, j))
    <2>1. Closed(more, (logged \cup held \cup FirstOf(q, j)) \cup (later \ logged))
      BY <1>4, ClosedSets
    <2>2. (logged \cup held \cup FirstOf(q, j)) \cup (later \ logged)
             = later \cup held \cup MessagesOf(<<>>) \cup FirstOf(q, j)
      BY <1>1
    <2> QED BY <2>1, <2>2
  <1>5. \A j \in 0 .. Len(<<>>) : Closed(more, later \cup FirstIn(<<>>, j))
    <2>1. later \cup {} = later /\ \A j \in 0 .. Len(<<>>) : j = 0
      BY <1>1
    <2> QED BY <1>1, <1>3, <2>1
  <1> QED BY <1>4, <1>5 DEF QueueClosed

(* The first of the messages to be sent goes on its way.                   *)
LEMMA QueueMoves ==
    ASSUME NEW reports, NEW logged, NEW held, NEW o \in Seq(Messages), o # <<>>,
           QueueClosed(reports, logged, <<>>, held, o), NEW m, m = Head(o)
    PROVE  /\ held = {} => /\ Closed(reports, logged \cup {m})
                           /\ QueueClosed(reports, logged \cup {m}, <<>>, {}, Tail(o))
                           /\ QueueClosed(reports, logged, <<>>, {m}, Tail(o))
           /\ \A x : x.message = m /\ (held = {} \/ ~IsReport(m)) =>
                        QueueClosed(reports, logged, <<x>>, held, Tail(o))
           /\ \A x, other : x.message = m /\ held = {other.message} =>
                        QueueClosed(reports, logged, InOrder(other, x), {}, Tail(o))
  <1> PICK tail : tail = Tail(o)
    OBVIOUS
  <1>1. /\ MessagesOf(<<>>) = {} /\ Len(<<>>) = 0 /\ FirstIn(<<>>, 0) = {} /\ FirstOf(o, 0) = {}
        /\ 0 \in 0 .. Len(o) /\ 0 \in 0 .. Len(<<>>) /\ \A j \in 0 .. Len(<<>>) : j = 0
    BY SetsOfSequences DEF MessagesOf, FirstIn, FirstOf
  <1>2. Closed(reports, logged) /\ Closed(reports, logged \cup held)
    <2>1. /\ Closed(reports, logged \cup {})
          /\ Closed(reports, logged \cup held \cup {} \cup {})
      BY <1>1 DEF QueueClosed
    <2>2. logged \cup {} = logged /\ logged \cup held \cup {} \cup {} = logged \cup held
      OBVIOUS
    <2> QED BY <2>1, <2>2
  <1>3. ASSUME NEW j \in 0 .. Len(tail)
        PROVE  Closed(reports, logged \cup held \cup {m} \cup FirstOf(tail, j))
    <2>1. j + 1 \in 0 .. Len(o) /\ FirstOf(o, j + 1) = {m} \cup FirstOf(tail, j)
      BY FirstOnes
    <2>2. Closed(reports, logged \cup held \cup MessagesOf(<<>>) \cup FirstOf(o, j + 1))
      BY <2>1 DEF QueueClosed
    <2>3. logged \cup held \cup MessagesOf(<<>>) \cup FirstOf(o, j + 1)
             = logged \cup held \cup {m} \cup FirstOf(tail, j)
      BY <1>1, <2>1
    <2> QED BY <2>2, <2>3
  <1>4. Closed(reports, logged \cup held \cup {m})
    <2>1. tail \in Seq(Messages)
      BY HeadAndTail
    <2>2. 0 \in 0 .. Len(tail) /\ FirstOf(tail, 0) = {}
      <3>1. Len(tail) \in Nat
        BY <2>1
      <3>2. FirstOf(tail, 0) = {}
        BY DEF FirstOf
      <3> QED BY <3>1, <3>2
    <2>3. logged \cup held \cup {m} \cup FirstOf(tail, 0) = logged \cup held \cup {m}
      BY <2>2
    <2> QED BY <1>3, <2>2, <2>3
  <1>5. ASSUME NEW L, NEW d, NEW h, L \cup h \cup MessagesOf(d) = logged \cup held \cup {m},
               \A j \in 0 .. Len(d) : Closed(reports, L \cup FirstIn(d, j))
        PROVE  QueueClosed(reports, L, d, h, tail)
    <2>1. ASSUME NEW j \in 0 .. Len(tail)
          PROVE  Closed(reports, L \cup h \cup MessagesOf(d) \cup FirstOf(tail, j))
      BY <1>3, <1>5
    <2> QED BY <1>5, <2>1 DEF QueueClosed
  <1>6. ASSUME NEW L, Closed(reports, L)
        PROVE  \A j \in 0 .. Len(<<>>) : Closed(reports, L \cup FirstIn(<<>>, j))
    <2>1. L \cup {} = L
      OBVIOUS
    <2> QED BY <1>1, <1>6, <2>1
  <1>7. ASSUME held = {}
        PROVE  /\ Closed(reports, logged \cup {m})
               /\ QueueClosed(reports, logged \cup {m}, <<>>, {}, tail)
               /\ QueueClosed(reports, logged, <<>>, {m}, tail)
    <2>1. logged \cup held \cup {m} = logged \cup {m}
      BY <1>7
    <2>2. Closed(reports, logged \cup {m})
      BY <1>4, <2>1
    <2>3. (logged \cup {m}) \cup {} \cup MessagesOf(<<>>) = logged \cup held \cup {m}
          /\ logged \cup {m} \cup MessagesOf(<<>>) = logged \cup held \cup {m}
      BY <1>1, <1>7
    <2> QED BY <1>2, <1>5, <1>6, <2>2, <2>3
  <1>8. ASSUME NEW x, x.message = m, held = {} \/ ~IsReport(m)
        PROVE  QueueClosed(reports, logged, <<x>>, held, tail)
    <2>1. /\ MessagesOf(<<x>>) = {m}
          /\ \A j \in 0 .. Len(<<x>>) : FirstIn(<<x>>, j) = IF j = 0 THEN {} ELSE {m}
      <3>1. ToSet(<<x>>) = {x} /\ Len(<<x>>) = 1 /\ <<x>>[1] = x
        BY SetsOfSequences
      <3> QED BY <1>8, <3>1 DEF MessagesOf, FirstIn
    <2>2. Closed(reports, logged \cup {m})
      <3>1. CASE held = {}
        BY <1>7, <3>1
      <3>2. CASE ~IsReport(m)
        BY <1>2, <3>2, ClosedSets DEF Announces
      <3> QED BY <1>8, <3>1, <3>2
    <2>3. \A j \in 0 .. Len(<<x>>) : Closed(reports, logged \cup FirstIn(<<x>>, j))
      <3>1. logged \cup {} = logged
        OBVIOUS
      <3> QED BY <1>2, <2>1, <2>2, <3>1
    <2> QED BY <1>5, <2>1, <2>3
  <1>9. ASSUME NEW x, NEW other, x.message = m, held = {other.message}
        PROVE  QueueClosed(reports, logged, InOrder(other, x), {}, tail)
    <2> PICK q, n : q = InOrder(other, x) /\ n = other.message
      OBVIOUS
    <2>1. ToSet(q) = {x, other} /\ MessagesOf(q) = {m, n} /\ Len(q) = 2
      <3>1. ToSet(q) = {x, other} /\ Len(q) = 2
        BY SetsOfSequences DEF InOrder
      <3> QED BY <1>9, <3>1 DEF MessagesOf
    <2>2. \A j \in 0 .. Len(q) : FirstIn(q, j) = IF j = 0 THEN {} ELSE
                                                 IF j = 1 THEN {q[1].message} ELSE {m, n}
      <3>1. q[1] \in {x, other} /\ q[2] \in {x, other} /\ {q[1].message, q[2].message} = {m, n}
        BY <1>9 DEF InOrder
      <3>2. FirstIn(q, 0) = {} /\ FirstIn(q, 1) = {q[1].message}
            /\ FirstIn(q, 2) = {q[1].message, q[2].message}
        <4>1. 1 .. 0 = {} /\ 1 .. 1 = {1} /\ 1 .. 2 = {1, 2}
          OBVIOUS
        <4> QED BY <4>1 DEF FirstIn
      <3>3. \A j \in 0 .. Len(q) : j = 0 \/ j = 1 \/ j = 2
        BY <2>1
      <3> QED BY <3>1, <3>2, <3>3
    <2>3. Closed(reports, logged \cup {q[1].message})
      <3>1. CASE n.order # m.order
        <4>1. q[1].message = m
          BY <1>9, <3>1 DEF InOrder
        <4>2. \A b : Precedes(b, m) => b # n
          BY <3>1 DEF Precedes
        <4> QED BY <1>2, <1>4, <1>9, <4>1, <4>2 DEF Closed
      <3>2. CASE n.order = m.order
        <4>1. q[1].message = n
          BY <1>9, <3>2 DEF InOrder
        <4> QED BY <1>2, <1>9, <4>1
      <3> QED BY <3>1, <3>2
    <2>4. Closed(reports, logged \cup {m, n})
      <3>1. logged \cup held \cup {m} = logged \cup {m, n}
        BY <1>9
      <3> QED BY <1>4, <3>1
    <2>5. \A j \in 0 .. Len(q) : Closed(reports, logged \cup FirstIn(q, j))
      <3>1. logged \cup {} = logged
        OBVIOUS
      <3> QED BY <1>2, <2>2, <2>3, <2>4, <3>1
    <2>6. logged \cup {} \cup MessagesOf(q) = logged \cup held \cup {m}
      BY <1>9, <2>1
    <2> QED BY <1>5, <2>5, <2>6
  <1> QED BY <1>7, <1>8, <1>9

(* The first of the deliveries in hand is made.                            *)
LEMMA QueueDelivers ==
    ASSUME NEW reports, NEW logged, NEW held, NEW o, NEW d \in Seq(AllDeliveries), d # <<>>,
           QueueClosed(reports, logged, d, held, o), NEW m, m = Head(d).message
    PROVE  /\ Closed(reports, logged \cup {m})
           /\ QueueClosed(reports, logged \cup {m}, Tail(d), held, o)
  <1> PICK tail : tail = Tail(d)
    OBVIOUS
  <1>1. /\ tail \in Seq(AllDeliveries) /\ MessagesOf(d) = {m} \cup MessagesOf(tail)
    <2>1. tail \in Seq(AllDeliveries) /\ ToSet(d) = {Head(d)} \cup ToSet(tail)
      BY HeadAndTail, SetsOfSequences
    <2> QED BY <2>1 DEF MessagesOf
  <1>2. ASSUME NEW j \in 0 .. Len(tail)
        PROVE  Closed(reports, (logged \cup {m}) \cup FirstIn(tail, j))
    <2>1. j + 1 \in 0 .. Len(d) /\ FirstIn(d, j + 1) = {m} \cup FirstIn(tail, j)
      BY FirstOnes
    <2>2. Closed(reports, logged \cup FirstIn(d, j + 1))
      BY <2>1 DEF QueueClosed
    <2>3. logged \cup FirstIn(d, j + 1) = (logged \cup {m}) \cup FirstIn(tail, j)
      BY <2>1
    <2> QED BY <2>2, <2>3
  <1>3. Closed(reports, logged \cup {m})
    <2>1. 0 \in 0 .. Len(tail) /\ FirstIn(tail, 0) = {}
      <3>1. Len(tail) \in Nat
        BY <1>1
      <3>2. FirstIn(tail, 0) = {}
        BY DEF FirstIn
      <3> QED BY <3>1, <3>2
    <2>2. (logged \cup {m}) \cup FirstIn(tail, 0) = logged \cup {m}
      BY <2>1
    <2> QED BY <1>2, <2>1, <2>2
  <1>4. ASSUME NEW j \in 0 .. Len(o)
        PROVE  Closed(reports, (logged \cup {m}) \cup held \cup MessagesOf(tail) \cup FirstOf(o, j))
    <2>1. Closed(reports, logged \cup held \cup MessagesOf(d) \cup FirstOf(o, j))
      BY DEF QueueClosed
    <2>2. logged \cup held \cup MessagesOf(d) \cup FirstOf(o, j)
             = (logged \cup {m}) \cup held \cup MessagesOf(tail) \cup FirstOf(o, j)
      BY <1>1
    <2> QED BY <2>1, <2>2
  <1> QED BY <1>2, <1>3, <1>4 DEF QueueClosed

(* The first reports in the cache, too, come with those made earlier.      *)
CacheClosed(reports, cache) ==
    \A id \in DOMAIN cache : \A j \in 0 .. Len(cache[id]) : Closed(reports, FirstOf(cache[id], j))

ClosedInv(s) ==
    /\ QueueClosed(Reports, Logged, hand[s], HeldBack, out[s])
    /\ CacheClosed(Reports, responses)

StaysClosed(s) ==
    /\ QueueClosed(Reports', Logged', hand'[s], HeldBack', out'[s])
    /\ CacheClosed(Reports', responses')

LEMMA LoggedMore ==
    ASSUME NEW e \in Seq(LogEntries), NEW a \in LogEntries
    PROVE  {x.message : x \in ToSet(Append(e, a))} = {x.message : x \in ToSet(e)} \cup {a.message}
  <1>1. ToSet(Append(e, a)) = ToSet(e) \cup {a}
    BY SetsOfSequences
  <1> QED BY <1>1

(* A delivery is logged by an entry, or by two when it is made twice.      *)
TakesDown(x) ==
    \E a, b \in LogEntries :
        /\ a.message = x.message /\ ~Inbound(a)
        /\ b.message = x.message /\ ~Inbound(b)
        /\ \/ log' = Append(log, a)
           \/ x.duplicate /\ log' = Append(Append(log, a), b)

LEMMA DeliverLogs ==
    ASSUME ExchangeInv, NEW t \in Threads, Deliver(t), NEW x, x = Head(hand[t])
    PROVE  /\ x \in AllDeliveries /\ hand[t] # <<>> /\ hand' = [hand EXCEPT ![t] = Tail(@)]
           /\ TakesDown(x)
  <1>1. /\ hand' = [hand EXCEPT ![t] = Tail(@)] /\ hand[t] # <<>>
        /\ hand \in [Threads -> Seq(AllDeliveries)] /\ log \in Seq(LogEntries)
    BY DEF Deliver, ExchangeInv, SendingInv
  <1>2. x \in AllDeliveries
    <2>1. hand[t] \in Seq(AllDeliveries)
      BY <1>1
    <2> QED BY <1>1, <2>1, HeadAndTail
  <1> DEFINE Entry(direction) == LogEntry(direction, x.session, x.message)
  <1>3. \A direction \in {"SENT", "DUPLICATE_SENT", "DELIVERY_FAILED"} :
            /\ Entry(direction) \in LogEntries
            /\ Entry(direction).message = x.message
            /\ ~Inbound(Entry(direction))
    BY <1>2 DEF AllDeliveries, LogEntry, LogEntries, Inbound
  <1>4. \/ log' = Append(log, Entry("SENT"))
        \/ x.duplicate /\ log' = log \o <<Entry("SENT"), Entry("DUPLICATE_SENT")>>
        \/ log' = Append(log, Entry("DELIVERY_FAILED"))
        \/ x.duplicate /\ log' = log \o <<Entry("SENT"), Entry("DELIVERY_FAILED")>>
    BY DEF Deliver
  <1> HIDE DEF Entry
  <1>5. PICK a, b \in {Entry("SENT"), Entry("DUPLICATE_SENT"), Entry("DELIVERY_FAILED")} :
           log' = Append(log, a) \/ (x.duplicate /\ log' = log \o <<a, b>>)
    BY <1>4
  <1>6. /\ a \in LogEntries /\ a.message = x.message /\ ~Inbound(a)
        /\ b \in LogEntries /\ b.message = x.message /\ ~Inbound(b)
    BY <1>3
  <1>7. log \o <<a, b>> = Append(Append(log, a), b)
    BY <1>1, <1>6
  <1>8. TakesDown(x)
    BY <1>5, <1>6, <1>7 DEF TakesDown
  <1> QED BY <1>1, <1>2, <1>8

(* What is reported from now on does not precede what was reported before. *)
LEMMA LaterReports ==
    ASSUME ExchangeInv, ReportedInv, NEW more,
           \A b \in more \ Reports : ~Announces(b) \/ (b.exec_id \in Nat /\ nextExec <= b.exec_id)
    PROVE  \A a \in Reports, b \in more \ Reports : ~Precedes(b, a)
  <1> SUFFICES ASSUME NEW a \in Reports, NEW b \in more \ Reports, Precedes(b, a) PROVE FALSE
    OBVIOUS
  <1>1. a.exec_id \in Nat /\ a.exec_id < nextExec /\ nextExec \in Nat
    BY ReportsTypedWhereverTheyAre
    DEF Precedes, ReportedInv, AnnouncedInv, Messages, ExchangeInv, BooksInv
  <1>2. b.exec_id \in Nat /\ nextExec <= b.exec_id /\ b.exec_id < a.exec_id
    BY DEF Precedes
  <1> QED BY <1>1, <1>2

(* The session has sent all it had, and has new answers.                   *)
LEMMA AnswersStayClosed ==
    ASSUME NEW s, OneLine(s), ExchangeInv, LineInv(s), ClosedInv(s),
           out[s] = <<>>, hand[s] = <<>>, hand'[s] = <<>>, HeldBack' = HeldBack,
           Logged \subseteq Logged', \A m \in Logged' \ Logged : ~Announces(m),
           NEW q \in Seq(Messages), out'[s] = q,
           \A a \in Reports, b \in Reports' \ Reports : ~Precedes(b, a), Reports \subseteq Reports',
           \A j \in 0 .. Len(q) : Closed(Reports', Logged \cup HeldBack) =>
                                     Closed(Reports', Logged \cup HeldBack \cup FirstOf(q, j))
    PROVE  QueueClosed(Reports', Logged', hand'[s], HeldBack', out'[s])
  <1> PICK reports, more, L, later, h : /\ reports = Reports /\ more = Reports'
                                        /\ L = Logged /\ later = Logged' /\ h = HeldBack
    OBVIOUS
  <1>1. reports = {} \cup {} \cup h \cup L
    BY ReportsOfOneLine, SetsOfSequences DEF OutOf, MessagesOf
  <1>2. QueueClosed(reports, L, <<>>, h, <<>>)
    BY DEF ClosedInv
  <1>3. ASSUME NEW X, X \subseteq L \cup h, Closed(reports, X)
        PROVE  Closed(more, X)
    BY <1>1, <1>3, ClosedStays
  <1>4. Closed(reports, L \cup h)
    BY <1>1 DEF Closed
  <1>5. \A j \in 0 .. Len(q) : Closed(more, L \cup h \cup FirstOf(q, j))
    BY <1>3, <1>4
  <1>6. QueueClosed(more, later, <<>>, h, q)
    BY <1>2, <1>3, <1>5, QueueAnswers
  <1> QED BY <1>6

LEMMA CacheStaysClosed ==
    ASSUME ReportedInv, CacheClosed(Reports, responses),
           \A a \in Reports, b \in Reports' \ Reports : ~Precedes(b, a),
           NEW id \in DOMAIN responses, NEW j \in 0 .. Len(responses[id]), ExchangeInv
    PROVE  Closed(Reports', FirstOf(responses[id], j))
  <1>1. FirstOf(responses[id], j) \subseteq Reports
    <2>1. ToSet(responses[id]) \subseteq Reports /\ responses[id] \in Seq(Messages)
      BY DEF ReportedInv, CachedInv, ReportsOf, ExchangeInv, BooksInv
    <2>2. \A i \in 1 .. j : i \in DOMAIN responses[id]
      BY <2>1
    <2> QED BY <2>1, <2>2 DEF FirstOf, ToSet
  <1>2. Closed(Reports, FirstOf(responses[id], j))
    BY DEF CacheClosed
  <1> QED BY <1>1, <1>2, ClosedStays

LEMMA ClosedRests ==
    ASSUME NEW s, ClosedInv(s), UNCHANGED <<out, hand, pending, log, responses>>
    PROVE  StaysClosed(s)
  <1>1. Reports' = Reports /\ Logged' = Logged /\ HeldBack' = HeldBack
    BY ReportsRest DEF Logged, HeldBack
  <1> QED BY <1>1 DEF ClosedInv, StaysClosed

(* Answers that announce nothing.                                          *)
LEMMA SilentAnswersStayClosed ==
    ASSUME NEW s, OneLine(s), ExchangeInv, ReportedInv, LineInv(s), ClosedInv(s),
           out[s] = <<>>, hand[s] = <<>>, hand'[s] = <<>>, HeldBack' = HeldBack,
           responses' = responses,
           Logged \subseteq Logged', \A m \in Logged' \ Logged : ~Announces(m),
           NEW q \in Seq(Messages), out'[s] = q, \A m \in ToSet(q) : ~Announces(m),
           Reports \subseteq Reports', \A b \in Reports' \ Reports : ~Announces(b)
    PROVE  StaysClosed(s)
  <1>1. \A a \in Reports, b \in Reports' \ Reports : ~Precedes(b, a)
    BY DEF Precedes
  <1> PICK more, L : more = Reports' /\ L = Logged \cup HeldBack
    OBVIOUS
  <1>2. ASSUME NEW j \in 0 .. Len(q), Closed(more, L)
        PROVE  Closed(more, L \cup FirstOf(q, j))
    <2>1. \A i \in 1 .. j : i \in DOMAIN q
      BY <1>2
    <2>2. \A m \in FirstOf(q, j) : ~Announces(m)
      BY <2>1 DEF FirstOf, ToSet
    <2> QED BY <1>2, <2>2, ClosedSets
  <1>3. QueueClosed(Reports', Logged', hand'[s], HeldBack', out'[s])
    BY <1>1, <1>2, AnswersStayClosed
  <1>4. CacheClosed(Reports', responses')
    <2>1. CacheClosed(Reports, responses)
      BY DEF ClosedInv
    <2>2. \A id \in DOMAIN responses : \A j \in 0 .. Len(responses[id]) :
             Closed(Reports', FirstOf(responses[id], j))
      BY <1>1, <2>1, CacheStaysClosed
    <2> QED BY <2>2 DEF CacheClosed
  <1> QED BY <1>3, <1>4 DEF StaysClosed

(* What a request adds to the reports announces nothing.                   *)
NothingNewAnnounced ==
    Reports \subseteq Reports' /\ \A b \in Reports' \ Reports : ~Announces(b)

LEMMA ReceiveReportsNothing ==
    ASSUME ExchangeInv, HandoverInv, NEW s \in Sessions, NEW r \in Requests, Receive(s, r)
    PROVE  NothingNewAnnounced
  <1>0. PICK a, b, c :
           /\ a = Message(r.type, r.cl, r.order, "none", 0, 0)
           /\ b = RejectedExecutionReport(r, nextExec) /\ c = CancelReject(r)
    OBVIOUS
  <1>1. ~Announces(a) /\ ~Announces(b) /\ ~Announces(c)
    BY <1>0, RejectsAnnounceNothing
  <1>2. \/ Reports' = Reports \cup {a}
        \/ Reports' = Reports \cup {a, b}
        \/ Reports' = Reports \cup {a, c}
    BY <1>0, ReceiveAdds
  <1> QED BY <1>1, <1>2 DEF NothingNewAnnounced

LEMMA ReceiveStaysClosed ==
    ASSUME NEW s, OneLine(s), ExchangeInv, HandoverInv, ReportedInv, LineInv(s), ShapeInv(s),
           ClosedInv(s), NEW r \in Requests, Receive(s, r)
    PROVE  StaysClosed(s)
  <1>1. /\ s \in Sessions /\ s \in Threads /\ log \in Seq(LogEntries) /\ nextExec \in Nat
        /\ out \in [Sessions -> Seq(Messages)]
    BY WayOfOneLine
  <1>2. /\ out[s] = <<>> /\ hand[s] = <<>> /\ hand'[s] = <<>> /\ HeldBack' = HeldBack
        /\ responses' = responses
    <2>1. at[s] = "receive" /\ UNCHANGED <<hand, pending, responses>>
      BY Zenon DEF Receive
    <2> QED BY <1>1, <2>1 DEF ShapeInv, HandoverInv, HeldBack
  <1>3. Reports \subseteq Reports' /\ \A b \in Reports' \ Reports : ~Announces(b)
    BY <1>1, ReceiveReportsNothing DEF NothingNewAnnounced
  <1>4. Logged \subseteq Logged' /\ \A m \in Logged' \ Logged : ~Announces(m)
    <2> PICK received : received = Message(r.type, r.cl, r.order, "none", 0, 0)
      OBVIOUS
    <2> PICK entry : entry = LogEntry("RECEIVED", s, received)
      OBVIOUS
    <2>1. entry \in LogEntries /\ entry.message = received
      BY <1>1, MessagesTyped DEF LogEntry, LogEntries
    <2>2. log' = Append(log, entry)
      BY DEF Receive, Record
    <2>3. Logged' = Logged \cup {received}
      BY <1>1, <2>1, <2>2, LoggedMore DEF Logged
    <2> QED BY <2>3, RejectsAnnounceNothing
  <1>5. ASSUME NEW q \in Seq(Messages), out'[s] = q, \A m \in ToSet(q) : ~Announces(m)
        PROVE  StaysClosed(s)
    BY <1>2, <1>3, <1>4, <1>5, SilentAnswersStayClosed
  <1>6. CASE out' = out
    <2>1. out'[s] = <<>> /\ <<>> \in Seq(Messages) /\ ToSet(<<>>) = {}
      BY <1>2, <1>6, SetsOfSequences
    <2> QED BY <1>5, <2>1
  <1>7. ASSUME NEW m \in Messages, ~Announces(m), out' = [out EXCEPT ![s] = <<m>>]
        PROVE  StaysClosed(s)
    <2>1. out'[s] = <<m>> /\ <<m>> \in Seq(Messages) /\ ToSet(<<m>>) = {m}
      BY <1>1, <1>7, SetsOfSequences
    <2> QED BY <1>5, <1>7, <2>1
  <1>8. \/ out' = out
        \/ out' = [out EXCEPT ![s] = <<RejectedExecutionReport(r, nextExec)>>]
        \/ out' = [out EXCEPT ![s] = <<CancelReject(r)>>]
    BY DEF Receive
  <1> QED BY <1>1, <1>6, <1>7, <1>8, RejectsAnnounceNothing, MessagesTyped

LEMMA LookUpStaysClosed ==
    ASSUME NEW s, OneLine(s), ExchangeInv, HandoverInv, ReportedInv, LineInv(s), ShapeInv(s),
           ClosedInv(s), LookUp(s)
    PROVE  StaysClosed(s)
  <1> PICK id : id = request[s].order
    OBVIOUS
  <1>1. /\ s \in Sessions /\ out \in [Sessions -> Seq(Messages)]
        /\ responses \in [DOMAIN responses -> Seq(Messages)]
    BY WayOfOneLine DEF ExchangeInv, BooksInv
  <1>2. /\ UNCHANGED <<hand, pending, log, responses>>
        /\ out[s] = <<>> /\ hand[s] = <<>> /\ hand'[s] = <<>>
        /\ HeldBack' = HeldBack /\ Logged' = Logged
    BY <1>1 DEF LookUp, books, ShapeInv, HandoverInv, HeldBack, Logged
  <1>3. CASE id \in DOMAIN responses
    <2> PICK q : q = responses[id]
      OBVIOUS
    <2>1. q \in Seq(Messages) /\ Answers(s, q) /\ out'[s] = q
      BY <1>1, <1>3 DEF LookUp, Answers
    <2>2. ToSet(q) \subseteq Reports
      BY <1>3 DEF ReportedInv, CachedInv, ReportsOf
    <2>3. Reports' = Reports
      BY <1>1, <1>2, <2>1, <2>2, AnswersAdd
    <2>4. CacheClosed(Reports, responses)
      BY DEF ClosedInv
    <2> PICK more, L : more = Reports' /\ L = Logged \cup HeldBack
      OBVIOUS
    <2>5. ASSUME NEW j \in 0 .. Len(q), Closed(more, L)
          PROVE  Closed(more, L \cup FirstOf(q, j))
      <3>1. Closed(more, FirstOf(q, j))
        BY <1>3, <2>3, <2>4, <2>5 DEF CacheClosed
      <3> QED BY <2>5, <3>1, ClosedSets
    <2>6. QueueClosed(Reports', Logged', hand'[s], HeldBack', out'[s])
      BY <1>2, <2>1, <2>3, <2>5, AnswersStayClosed
    <2> QED BY <1>2, <2>3, <2>4, <2>6 DEF StaysClosed
  <1>4. CASE id \notin DOMAIN responses
    <2>1. out' = out
      BY <1>4 DEF LookUp
    <2> QED BY <1>2, <2>1, ClosedRests
  <1> QED BY <1>3, <1>4

(* A new order: the reports of it are all there are, in order.             *)
LEMMA AcceptStaysClosed ==
    ASSUME NEW s, OneLine(s), PlansWork, Unmixed, ExchangeInv, HandoverInv, ReportedInv,
           LineInv(s), ShapeInv(s), WorkInv(s), ClosedInv(s), AcceptNewOrder(s)
    PROVE  StaysClosed(s)
  <1> PICK r : r = request[s]
    OBVIOUS
  <1>1. /\ s \in Sessions /\ out \in [Sessions -> Seq(Messages)] /\ nextExec \in Nat
        /\ responses \in [DOMAIN responses -> Seq(Messages)]
    BY WayOfOneLine DEF ExchangeInv, BooksInv
  <1>2. UNCHANGED <<hand, pending, log>> /\ at[s] = "accept"
    BY Zenon DEF AcceptNewOrder
  <1>3. /\ out[s] = <<>> /\ hand[s] = <<>> /\ hand'[s] = <<>>
        /\ HeldBack' = HeldBack /\ Logged' = Logged
    BY <1>1, <1>2 DEF ShapeInv, HandoverInv, HeldBack, Logged
  <1>4. ASSUME Refuses(s, r)
        PROVE  StaysClosed(s)
    <2> PICK m : m = RejectedExecutionReport(r, nextExec)
      OBVIOUS
    <2>1. Answers(s, <<m>>) /\ responses' = responses /\ ~Announces(m)
      BY <1>4, RejectsAnnounceNothing DEF Refuses
    <2>2. m \in Messages
      BY <1>1, <1>2, MessagesTyped DEF ExchangeInv, ThreadsInv
    <2>3. out'[s] = <<m>> /\ <<m>> \in Seq(Messages) /\ ToSet(<<m>>) = {m}
      BY <1>1, <2>1, <2>2, SetsOfSequences DEF Answers
    <2>4. Reports' = Reports \cup {m}
      BY <1>1, <1>2, <1>3, <2>1, <2>3, AnswersAdd
    <2> QED BY <1>3, <2>1, <2>3, <2>4, SilentAnswersStayClosed
  <1>5. ASSUME NEW order, NEW q \in Seq(Messages), OpensWith(r, order, q), Answers(s, q),
               r.order \notin DOMAIN orders,
               responses' = [id \in DOMAIN responses \cup {r.order} |->
                                IF id = r.order THEN q ELSE responses[id]]
        PROVE  StaysClosed(s)
    <2>1. out'[s] = q /\ Len(q) \in Nat /\ DOMAIN q = 1 .. Len(q)
      BY <1>1, <1>5 DEF Answers
    <2>2. Reports' = Reports \cup ToSet(q)
      BY <1>1, <1>2, <1>3, <1>5, AnswersAdd
    <2>3. \A i \in 1 .. Len(q) : q[i].order = r.order /\ q[i].exec_id = nextExec + i - 1
      BY <1>5 DEF OpensWith
    <2>4. \A b \in Reports : Announces(b) => b.order # r.order
      BY <1>5 DEF ReportedInv, AnnouncedInv
    <2>5. \A a \in Reports, b \in Reports' \ Reports : ~Precedes(b, a)
      <3>1. \A b \in Reports' \ Reports : b.exec_id \in Nat /\ nextExec <= b.exec_id
        BY <1>1, <2>1, <2>2, <2>3 DEF ToSet
      <3> QED BY <3>1, LaterReports
    <2> PICK more, L : more = Reports' /\ L = Logged \cup HeldBack
      OBVIOUS
    <2>6. ASSUME NEW j \in 0 .. Len(q)
          PROVE  Closed(more, FirstOf(q, j))
      <3> SUFFICES ASSUME NEW i \in 1 .. j, NEW b \in more, Precedes(b, q[i])
                   PROVE  b \in FirstOf(q, j)
        BY DEF Closed, FirstOf
      <3>1. i \in 1 .. Len(q) /\ j \in Nat /\ j <= Len(q)
        BY <2>1, <2>6
      <3>2. Announces(b) /\ b.order = r.order /\ b.exec_id < nextExec + i - 1
        BY <2>3, <3>1 DEF Precedes
      <3>3. b \in ToSet(q)
        BY <2>2, <2>4, <3>2
      <3>4. PICK k \in 1 .. Len(q) : b = q[k]
        BY <2>1, <3>3 DEF ToSet
      <3>5. k \in 1 .. j
        BY <1>1, <2>3, <3>1, <3>2, <3>4
      <3> QED BY <3>4, <3>5 DEF FirstOf
    <2>7. \A j \in 0 .. Len(q) : Closed(more, L) => Closed(more, L \cup FirstOf(q, j))
      BY <2>6, ClosedSets
    <2>8. QueueClosed(Reports', Logged', hand'[s], HeldBack', out'[s])
      BY <1>3, <2>1, <2>2, <2>5, <2>7, AnswersStayClosed
    <2>9. CacheClosed(Reports', responses')
      <3>1. CacheClosed(Reports, responses)
        BY DEF ClosedInv
      <3> SUFFICES ASSUME NEW id \in DOMAIN responses', NEW j \in 0 .. Len(responses'[id])
                   PROVE  Closed(Reports', FirstOf(responses'[id], j))
        BY DEF CacheClosed
      <3>2. CASE id = r.order
        <4>1. responses'[id] = q
          BY <1>5, <3>2
        <4> QED BY <2>6, <4>1
      <3>3. CASE id # r.order
        <4>1. id \in DOMAIN responses /\ responses'[id] = responses[id]
          BY <1>5, <3>3
        <4> QED BY <2>5, <3>1, <4>1, CacheStaysClosed
      <3> QED BY <3>2, <3>3
    <2> QED BY <2>8, <2>9 DEF StaysClosed
  <1> QED BY <1>1, <1>4, <1>5, AcceptsOrRejects

(* All there is has been logged or is held back when a cancel is answered. *)
LEMMA CancelStaysClosed ==
    ASSUME NEW s, OneLine(s), ExchangeInv, HandoverInv, ReportedInv,
           LineInv(s), ShapeInv(s), ClosedInv(s), Cancel(s)
    PROVE  StaysClosed(s)
  <1> PICK r : r = request[s]
    OBVIOUS
  <1>1. /\ s \in Sessions /\ out \in [Sessions -> Seq(Messages)] /\ nextExec \in Nat
        /\ responses \in [DOMAIN responses -> Seq(Messages)]
    BY WayOfOneLine DEF ExchangeInv, BooksInv
  <1>2. UNCHANGED <<hand, pending, log, responses>> /\ at[s] = "cancel"
    BY DEF Cancel
  <1>3. /\ out[s] = <<>> /\ hand[s] = <<>> /\ hand'[s] = <<>>
        /\ HeldBack' = HeldBack /\ Logged' = Logged
    BY <1>1, <1>2 DEF ShapeInv, HandoverInv, HeldBack, Logged
  <1>4. PICK m \in Messages : Answers(s, <<m>>) /\ (~Announces(m) \/ m.exec_id = nextExec)
    <2>1. r \in Requests
      BY <1>1, <1>2 DEF ExchangeInv, ThreadsInv
    <2>2. CASE Answers(s, <<CancelReject(r)>>)
      BY <2>1, <2>2, RejectsAnnounceNothing, MessagesTyped
    <2>3. ASSUME r.order \in DOMAIN orders,
                 Answers(s, <<ExecutionReport(r.cl, r.order, "CANCEL_CONFIRMED", nextExec,
                                              orders[r.order].cumulative_quantity)>>)
          PROVE  \E m \in Messages : Answers(s, <<m>>) /\ m.exec_id = nextExec
      <3> PICK cum, m : /\ cum = orders[r.order].cumulative_quantity
                        /\ m = ExecutionReport(r.cl, r.order, "CANCEL_CONFIRMED", nextExec, cum)
        OBVIOUS
      <3>1. cum \in Nat
        BY <2>3 DEF ExchangeInv, BooksInv, Order
      <3>2. "CANCEL_CONFIRMED" \in Events
        BY DEF Events, OrderEvent
      <3>3. m \in Messages
        BY <1>1, <2>1, <3>1, <3>2, MessagesTyped
      <3>4. m.exec_id = nextExec
        BY DEF ExecutionReport, Message
      <3> QED BY <2>3, <3>3, <3>4
    <2> QED BY <2>2, <2>3 DEF Cancel
  <1>5. out'[s] = <<m>> /\ <<m>> \in Seq(Messages) /\ ToSet(<<m>>) = {m}
    BY <1>1, <1>4, SetsOfSequences DEF Answers
  <1>6. Reports' = Reports \cup {m}
    BY <1>1, <1>2, <1>3, <1>4, <1>5, AnswersAdd
  <1>7. CASE ~Announces(m)
    BY <1>2, <1>3, <1>5, <1>6, <1>7, SilentAnswersStayClosed
  <1>8. CASE m.exec_id = nextExec
    <2>1. \A a \in Reports, b \in Reports' \ Reports : ~Precedes(b, a)
      <3>1. \A b \in Reports' \ Reports : b.exec_id \in Nat /\ nextExec <= b.exec_id
        BY <1>1, <1>6, <1>8
      <3> QED BY <3>1, LaterReports
    <2> PICK more, L, q : more = Reports' /\ L = Logged \cup HeldBack /\ q = <<m>>
      OBVIOUS
    <2>2. more = L \cup {m}
      <3>1. Reports = {} \cup {} \cup HeldBack \cup Logged
        BY <1>3, ReportsOfOneLine, SetsOfSequences DEF OutOf, MessagesOf
      <3> QED BY <1>6, <3>1
    <2>3. ASSUME NEW j \in 0 .. Len(q), Closed(more, L)
          PROVE  Closed(more, L \cup FirstOf(q, j))
      <3>1. j = 0 \/ j = Len(q)
        BY <2>3
      <3>2. CASE j = 0
        <4>1. L \cup FirstOf(q, j) = L
          BY <1>5, <3>2, FirstOnes
        <4> QED BY <2>3, <4>1
      <3>3. CASE j = Len(q)
        <4>1. FirstOf(q, j) = {m}
          BY <1>5, <3>3, FirstOnes
        <4> QED BY <2>2, <4>1 DEF Closed
      <3> QED BY <3>1, <3>2, <3>3
    <2>4. q \in Seq(Messages) /\ out'[s] = q
      BY <1>5
    <2>5. QueueClosed(Reports', Logged', hand'[s], HeldBack', out'[s])
      BY <1>3, <1>6, <2>1, <2>3, <2>4, AnswersStayClosed
    <2>6. CacheClosed(Reports', responses')
      <3>1. CacheClosed(Reports, responses)
        BY DEF ClosedInv
      <3>2. \A id \in DOMAIN responses : \A j \in 0 .. Len(responses[id]) :
               Closed(Reports', FirstOf(responses[id], j))
        BY <2>1, <3>1, CacheStaysClosed
      <3> QED BY <1>2, <3>2 DEF CacheClosed
    <2> QED BY <2>5, <2>6 DEF StaysClosed
  <1> QED BY <1>4, <1>7, <1>8

(* A report that is dropped is logged at once: nothing else is held back.  *)
LEMMA DropLogs ==
    ASSUME NEW s, OneLine(s), NoDropOvertakes, ExchangeInv, ShapeInv(s), DropReport(s),
           NEW m, m = Head(out[s])
    PROVE  /\ m \in Messages /\ IsReport(m) /\ hand[s] = <<>> /\ HeldBack = {}
           /\ UNCHANGED <<books, at, request, hand, pending>>
           /\ out[s] # <<>> /\ out' = [out EXCEPT ![s] = Tail(@)]
           /\ \E a \in LogEntries : a.message = m /\ ~Inbound(a) /\ log' = Append(log, a)
  <1>1. /\ s \in Sessions /\ out[s] \in Seq(Messages) /\ chaos \in ChaosModes
    BY WayOfOneLine DEF ExchangeInv, BooksInv
  <1>2. /\ IsReport(m) /\ hand[s] = <<>> /\ out[s] # <<>> /\ "drop" \in chaos
        /\ UNCHANGED <<books, at, request, hand, pending>>
        /\ out' = [out EXCEPT ![s] = Tail(@)]
        /\ log' = Append(log, LogEntry("DROPPED", s, m))
    BY DEF DropReport, Sending, Record
  <1>3. m \in Messages
    BY <1>1, <1>2, HeadAndTail
  <1>4. HeldBack = {}
    BY <1>1, <1>2 DEF NoDropOvertakes, ShapeInv, HeldBack
  <1>5. LogEntry("DROPPED", s, m) \in LogEntries /\ LogEntry("DROPPED", s, m).message = m
        /\ ~Inbound(LogEntry("DROPPED", s, m))
    BY <1>1, <1>3 DEF LogEntry, LogEntries, Inbound
  <1> QED BY <1>2, <1>3, <1>4, <1>5

LEMMA SendStaysClosed ==
    ASSUME NEW s, OneLine(s), NoDropOvertakes, ExchangeInv, ShapeInv(s), ClosedInv(s), Send(s)
    PROVE  StaysClosed(s)
  <1> PICK o, h, m : o = out[s] /\ h = HeldBack /\ m = Head(out[s])
    OBVIOUS
  <1>1. /\ hand[s] = <<>> /\ out' = [out EXCEPT ![s] = Tail(@)] /\ o # <<>>
        /\ s \in Sessions /\ s \in Threads /\ o \in Seq(Messages)
        /\ out \in [Sessions -> Seq(Messages)]
        /\ hand \in [Threads -> Seq(AllDeliveries)]
        /\ pending \in AllDeliveries \cup {Nothing} /\ log \in Seq(LogEntries)
        /\ responses' = responses
    BY WayOfOneLine
    DEF Send, DropReport, SendDirectly, HoldBack, SendWithHeld, Sending, books
  <1> PICK reports, L, rest : reports = Reports /\ L = Logged /\ rest = Tail(o)
    OBVIOUS
  <1>2. QueueClosed(reports, L, <<>>, h, o)
    BY <1>1 DEF ClosedInv
  <1>3. /\ h = {} => /\ QueueClosed(reports, L \cup {m}, <<>>, {}, rest)
                     /\ QueueClosed(reports, L, <<>>, {m}, rest)
        /\ \A x : x.message = m /\ (h = {} \/ ~IsReport(m)) => QueueClosed(reports, L, <<x>>, h, rest)
        /\ \A x, other : x.message = m /\ h = {other.message} =>
                            QueueClosed(reports, L, InOrder(other, x), {}, rest)
    BY <1>1, <1>2, QueueMoves
  <1>4. Reports' = reports /\ out'[s] = rest
    BY <1>1, SendMoves
  <1>5. ASSUME NEW later, NEW d, NEW held, QueueClosed(reports, later, d, held, rest),
               Logged' = later, hand'[s] = d, HeldBack' = held
        PROVE  StaysClosed(s)
    BY <1>1, <1>4, <1>5 DEF StaysClosed, ClosedInv
  <1>6. \A x \in Deliveries(s) : x.message = m
    BY <1>1, DeliveriesCarry
  <1>7. CASE DropReport(s)
    <2>1. PICK a \in LogEntries : a.message = m /\ log' = Append(log, a)
      BY <1>7, DropLogs
    <2>2. h = {} /\ UNCHANGED <<hand, pending>>
      BY <1>7, DropLogs
    <2>3. Logged' = L \cup {m}
      BY <1>1, <2>1, LoggedMore DEF Logged
    <2>4. HeldBack' = {} /\ hand'[s] = <<>>
      BY <1>1, <2>2 DEF HeldBack
    <2> QED BY <1>3, <1>5, <2>2, <2>3, <2>4
  <1>8. CASE SendDirectly(s)
    <2>1. PICK x \in Deliveries(s) : hand' = [hand EXCEPT ![s] = <<x>>]
      BY <1>8 DEF SendDirectly
    <2>2. /\ Logged' = L /\ hand'[s] = <<x>> /\ HeldBack' = h
          /\ h = {} \/ ~IsReport(m)
      BY <1>1, <1>8, <2>1 DEF SendDirectly, HeldBack, Logged
    <2> QED BY <1>3, <1>5, <1>6, <2>1, <2>2
  <1>9. CASE HoldBack(s)
    <2>1. PICK x \in Deliveries(s) : pending' = x
      BY <1>9 DEF HoldBack
    <2>2. x # Nothing
      <3>1. Sending(s) /\ SendingInv
        BY <1>9 DEF HoldBack, ExchangeInv
      <3> QED BY <1>1, <3>1, DeliveriesTyped, NothingAssumption
    <2>3. Logged' = L /\ hand'[s] = <<>> /\ HeldBack' = {m} /\ h = {}
      BY <1>1, <1>6, <1>9, <2>1, <2>2 DEF HoldBack, HeldBack, Logged
    <2> QED BY <1>3, <1>5, <2>3
  <1>10. CASE SendWithHeld(s)
    <2>1. PICK x \in Deliveries(s) : hand' = [hand EXCEPT ![s] = InOrder(pending, x)]
      BY <1>10 DEF SendWithHeld
    <2> PICK held : held = pending
      OBVIOUS
    <2>2. /\ Logged' = L /\ hand'[s] = InOrder(held, x) /\ HeldBack' = {}
          /\ h = {held.message}
      BY <1>1, <1>10, <2>1 DEF SendWithHeld, HeldBack, Logged
    <2> QED BY <1>3, <1>5, <1>6, <2>1, <2>2
  <1> QED BY <1>7, <1>8, <1>9, <1>10 DEF Send

LEMMA DeliverStaysClosed ==
    ASSUME NEW s, OneLine(s), ExchangeInv, ClosedInv(s), Deliver(s)
    PROVE  StaysClosed(s)
  <1> PICK d, x : d = hand[s] /\ x = Head(hand[s])
    OBVIOUS
  <1>1. /\ s \in Threads /\ d \in Seq(AllDeliveries) /\ log \in Seq(LogEntries)
        /\ hand \in [Threads -> Seq(AllDeliveries)]
    BY WayOfOneLine
  <1>2. /\ d # <<>> /\ hand' = [hand EXCEPT ![s] = Tail(@)]
        /\ UNCHANGED <<out, pending, responses>>
    BY DEF Deliver, books
  <1>3. PICK a, b \in LogEntries :
           /\ a.message = x.message /\ b.message = x.message
           /\ log' = Append(log, a) \/ log' = Append(Append(log, a), b)
    <2>1. TakesDown(x)
      BY <1>1, DeliverLogs
    <2> QED BY <2>1, Zenon DEF TakesDown
  <1>4. Logged' = Logged \cup {x.message}
    <2>1. CASE log' = Append(log, a)
      BY <1>1, <1>3, <2>1, LoggedMore DEF Logged
    <2>2. CASE log' = Append(Append(log, a), b)
      <3> PICK e : e = Append(log, a)
        OBVIOUS
      <3>1. e \in Seq(LogEntries)
        BY <1>1
      <3>2. {y.message : y \in ToSet(e)} = Logged \cup {x.message}
        BY <1>1, <1>3, LoggedMore DEF Logged
      <3>3. {y.message : y \in ToSet(Append(e, b))} = {y.message : y \in ToSet(e)} \cup {x.message}
        BY <1>3, <3>1, LoggedMore
      <3> QED BY <2>2, <3>2, <3>3 DEF Logged
    <2> QED BY <1>3, <2>1, <2>2
  <1>5. hand'[s] = Tail(d) /\ HeldBack' = HeldBack /\ Reports' = Reports
    BY <1>1, <1>2, DeliverMoves DEF HeldBack
  <1> PICK reports, L, h, o, m : /\ reports = Reports /\ L = Logged /\ h = HeldBack
                                 /\ o = out[s] /\ m = Head(d).message
    OBVIOUS
  <1>6. QueueClosed(reports, L \cup {m}, Tail(d), h, o)
    <2>1. QueueClosed(reports, L, d, h, o)
      BY DEF ClosedInv
    <2> QED BY <1>1, <1>2, <2>1, QueueDelivers
  <1> QED BY <1>2, <1>4, <1>5, <1>6 DEF StaysClosed, ClosedInv

LEMMA ClosedKept ==
    ASSUME NEW s, Auditable(s), ExchangeInv, HandoverInv, ReportedInv, LineInv(s), ShapeInv(s),
           WorkInv(s), ClosedInv(s), [Serves]_vars
    PROVE  ClosedInv(s)'
  <1>1. OneLine(s) /\ PlansWork /\ Unmixed /\ NoDropOvertakes
    BY DEF Auditable
  <1>2. CASE Quiet(s)
    <2>1. UNCHANGED <<out, hand, pending, log, responses>>
      BY <1>2 DEF Quiet, books
    <2>2. StaysClosed(s)
      BY <2>1, ClosedRests
    <2> QED BY <2>2 DEF StaysClosed, ClosedInv
  <1>3. ASSUME \/ \E r \in Requests : Receive(s, r)
               \/ LookUp(s) \/ AcceptNewOrder(s) \/ Cancel(s) \/ Send(s) \/ Deliver(s)
        PROVE  StaysClosed(s)
    BY <1>1, <1>3, ReceiveStaysClosed, LookUpStaysClosed, AcceptStaysClosed, CancelStaysClosed,
       SendStaysClosed, DeliverStaysClosed
  <1>4. StaysClosed(s) => ClosedInv(s)'
    BY DEF StaysClosed, ClosedInv
  <1> QED BY <1>1, <1>2, <1>3, <1>4, StepsOfOneLine

-------------------------------------------------------------------------------
(* What the log tells of the orders the book may hold.                     *)

HistoryOf(id) == IF id \in DOMAIN orders THEN orders[id].history ELSE <<>>

(* A cancel of the order is being handled, or its refusal not yet logged.  *)
Busy(s, id) ==
    \/ at[s] = "cancel" /\ request[s].order = id
    \/ \E m \in OutOf(s) \cup HandOf(s) : m.type = "9" /\ m.order = id

AuditInv(s) ==
    \A id \in GoodIds : AuditedTo(log, id, HistoryOf(id), ReportsOf(id), Busy(s, id))

StaysAudited(s) ==
    \A id \in GoodIds : AuditedTo(log', id, HistoryOf(id)', ReportsOf(id)', Busy(s, id)')

LEMMA GoodOrdersLive ==
    ASSUME NEW order, GoodOrder(order)
    PROVE  Lifecycle(order.history)
  <1> PICK h : h = order.history
    OBVIOUS
  <1>1. /\ h \in Seq(TRANSITIONS) /\ Len(h) > 0 /\ h[1] = Arc("NEW", "ACK", "NEW")
        /\ \A i \in 1 .. Len(h) - 1 : h[i].to = h[i + 1].from
        /\ \A i \in 1 .. Len(h) : h[i].event = "CANCEL_REQUEST" =>
              i < Len(h) /\ h[i + 1].event = "CANCEL_CONFIRMED"
        /\ \A i \in 1 .. Len(h) : h[i].event = "CANCEL_CONFIRMED" =>
              i > 1 /\ h[i - 1].event = "CANCEL_REQUEST"
    BY DEF GoodOrder, HistoryExplains, Order
  <1>2. h[1].from = "NEW"
    BY <1>1 DEF Arc
  <1> QED BY <1>1, <1>2 DEF Lifecycle

LEMMA GoodHistory ==
    ASSUME ExchangeInv, NEW id
    PROVE  Lifecycle(HistoryOf(id)) /\ ReportsOf(id) \subseteq Messages
  <1>1. CASE id \in DOMAIN orders
    <2>1. GoodOrder(orders[id]) /\ HistoryOf(id) = orders[id].history
      BY <1>1 DEF ExchangeInv, BooksInv, HistoryOf
    <2> QED BY <2>1, GoodOrdersLive, ReportsTypedWhereverTheyAre DEF ReportsOf
  <1>2. CASE id \notin DOMAIN orders
    <2>1. HistoryOf(id) = <<>>
      BY <1>2 DEF HistoryOf
    <2>2. Lifecycle(<<>>)
      BY DEF Lifecycle
    <2> QED BY <2>1, <2>2, ReportsTypedWhereverTheyAre DEF ReportsOf
  <1> QED BY <1>1, <1>2

(* Nothing is logged or announced, and no order changes.                   *)
LEMMA AuditRests ==
    ASSUME NEW s, AuditInv(s), UNCHANGED <<orders, log>>,
           \A m : Announces(m) => (m \in Reports' <=> m \in Reports),
           \A id \in GoodIds : Busy(s, id)' => Busy(s, id)
    PROVE  StaysAudited(s)
  <1> SUFFICES ASSUME NEW id \in GoodIds
               PROVE  AuditedTo(log', id, HistoryOf(id)', ReportsOf(id)', Busy(s, id)')
    BY DEF StaysAudited
  <1>1. HistoryOf(id)' = HistoryOf(id) /\ log' = log
    BY DEF HistoryOf
  <1>2. ReportsOf(id)' = ReportsOf(id)
    <2>1. \A m : m \in ReportsOf(id)' <=> m \in ReportsOf(id)
      BY ReportsOfAnnounce
    <2> QED BY <2>1
  <1>3. AuditedTo(log, id, HistoryOf(id), ReportsOf(id), Busy(s, id))
    BY DEF AuditInv
  <1> PICK h, reports, busy, still : /\ h = HistoryOf(id) /\ reports = ReportsOf(id)
                                     /\ busy = Busy(s, id) /\ still = Busy(s, id)'
    OBVIOUS
  <1>4. AuditedTo(log, id, h, reports, busy) /\ (still => busy)
    BY <1>3
  <1>5. AuditedTo(log, id, h, reports, still)
    BY <1>4, LessBusy
  <1> QED BY <1>1, <1>2, <1>5

(* A report that reaches the log, of this order or of another one.         *)
LEMMA ReportIsAudited ==
    ASSUME NEW s, ExchangeInv, ReportedInv, WorkInv(s), NEW id \in GoodIds,
           NEW e \in Seq(LogEntries), NEW a \in LogEntries, ~Inbound(a),
           NEW m \in Reports, m = a.message, IsReport(m),
           NEW busy, AuditedTo(e, id, HistoryOf(id), ReportsOf(id), busy),
           Closed(Reports, {x.message : x \in ToSet(e)} \cup {m})
    PROVE  AuditedTo(Append(e, a), id, HistoryOf(id), ReportsOf(id), busy)
  <1> PICK h, reports : h = HistoryOf(id) /\ reports = ReportsOf(id)
    OBVIOUS
  <1>1. CASE m.order # id
    BY <1>1, OtherEntry
  <1>2. CASE m.order = id /\ ~Announces(m)
    BY <1>2 DEF Announces, WorkInv
  <1>3. CASE m.order = id /\ Announces(m)
    <2>1. Lifecycle(h) /\ reports \subseteq Messages
      BY GoodHistory
    <2>2. m \in reports
      BY <1>3, ReportsOfAnnounce
    <2>3. ASSUME NEW b \in reports, b.exec_id < m.exec_id
          PROVE  b \in Told(e, id)
      <3>1. b \in Reports /\ Announces(b) /\ b.order = id
        BY ReportsOfAnnounce
      <3>2. b \in {x.message : x \in ToSet(e)} \cup {m}
        BY <1>3, <2>3, <3>1 DEF Closed, Precedes
      <3>3. b # m
        BY <2>1, <2>2, <2>3 DEF Messages
      <3> QED BY <3>1, <3>2, <3>3 DEF Told
    <2>4. AuditedTo(Append(e, a), id, h, reports, busy)
      <3>1. NoneBefore(m, reports, Told(e, id))
        BY <2>3 DEF NoneBefore
      <3> QED BY <1>3, <2>1, <2>2, <3>1, ReportEntry
    <2> QED BY <2>4
  <1> QED BY <1>1, <1>2, <1>3

(* While a request is being taken up or looked at nothing else is busy.    *)
LEMMA NotBusy ==
    ASSUME NEW s, OneLine(s), ExchangeInv, HandoverInv, ShapeInv(s), NEW id,
           at[s] \in {"receive", "lookup", "accept", "cancel"}
    PROVE  Busy(s, id) <=> at[s] = "cancel" /\ request[s].order = id
  <1>1. out[s] = <<>> /\ hand[s] = <<>>
    BY WayOfOneLine DEF HandoverInv, ShapeInv
  <1>2. OutOf(s) = {} /\ HandOf(s) = {}
    BY <1>1, SetsOfSequences DEF OutOf, HandOf
  <1> QED BY <1>2 DEF Busy

(* A session that has its answers and nothing else is busy with them.      *)
LEMMA BusyAnswering ==
    ASSUME NEW s, OneLine(s), ExchangeInv, NEW q, Answers(s, q), hand'[s] = <<>>, NEW id
    PROVE  /\ (\A m \in ToSet(q) : m.type # "9") => ~Busy(s, id)'
           /\ (\A m \in ToSet(q) : m.order # id) => ~Busy(s, id)'
  <1>1. out'[s] = q /\ at'[s] = "turn"
    BY WayOfOneLine DEF Answers
  <1>2. OutOf(s)' = ToSet(q) /\ HandOf(s)' = {}
    BY <1>1, SetsOfSequences DEF OutOf, HandOf
  <1> QED BY <1>1, <1>2 DEF Busy

LEMMA ReceiveStaysAudited ==
    ASSUME NEW s, OneLine(s), ExchangeInv, HandoverInv, ReportedInv, ShapeInv(s),
           AuditInv(s), NEW r \in Requests, Receive(s, r)
    PROVE  StaysAudited(s)
  <1> SUFFICES ASSUME NEW id \in GoodIds
               PROVE  AuditedTo(log', id, HistoryOf(id)', ReportsOf(id)', Busy(s, id)')
    BY DEF StaysAudited
  <1>1. /\ s \in Sessions /\ s \in Threads /\ log \in Seq(LogEntries) /\ nextExec \in Nat
        /\ out \in [Sessions -> Seq(Messages)]
        /\ request \in [Sessions -> Requests \cup {Nothing}]
        /\ at \in [Sessions -> {"none", "accepted", "logon", "turn", "receive",
                                "lookup", "accept", "cancel", "done"}]
    BY WayOfOneLine
  <1>2. at[s] = "receive" /\ UNCHANGED <<orders, hand>> /\ out[s] = <<>> /\ hand[s] = <<>>
    BY <1>1 DEF Receive, HandoverInv, ShapeInv
  <1> PICK received : received = Message(r.type, r.cl, r.order, "none", 0, 0)
    OBVIOUS
  <1> PICK entry : entry = LogEntry("RECEIVED", s, received)
    OBVIOUS
  <1>3. /\ entry \in LogEntries /\ entry.message = received /\ Inbound(entry)
        /\ received.order = r.order /\ received.type = r.type /\ r.type \in {"D", "F"}
        /\ log' = Append(log, entry)
    <2>1. received \in Messages
      BY MessagesTyped
    <2>2. entry \in LogEntries /\ entry.message = received /\ Inbound(entry)
      BY <1>1, <2>1 DEF LogEntry, LogEntries, Inbound
    <2>3. received.order = r.order /\ received.type = r.type /\ r.type \in {"D", "F"}
      BY RequestsAssumption DEF Message
    <2>4. log' = Append(log, entry)
      BY DEF Receive, Record
    <2> QED BY <2>2, <2>3, <2>4
  <1>4. Busy(s, id)' => r.order = id /\ r.type = "F"
    <2>1. HandOf(s)' = {}
      BY <1>2, SetsOfSequences DEF HandOf
    <2>2. at'[s] = "cancel" => request'[s] = r /\ r.type = "F"
      BY <1>1, <1>3 DEF Receive
    <2>3. ASSUME NEW m \in OutOf(s)', m.type = "9"
          PROVE  m.order = r.order /\ r.type = "F"
      <3>1. CASE out' = out
        BY <1>2, <2>3, <3>1, SetsOfSequences DEF OutOf
      <3>2. CASE out' = [out EXCEPT ![s] = <<RejectedExecutionReport(r, nextExec)>>]
        <4>1. OutOf(s)' = {RejectedExecutionReport(r, nextExec)}
          BY <1>1, <3>2, SetsOfSequences DEF OutOf
        <4> QED BY <2>3, <4>1 DEF RejectedExecutionReport, ExecutionReport, Message
      <3>3. CASE out' = [out EXCEPT ![s] = <<CancelReject(r)>>] /\ r.type = "F"
        <4>1. OutOf(s)' = {CancelReject(r)}
          BY <1>1, <3>3, SetsOfSequences DEF OutOf
        <4> QED BY <2>3, <3>3, <4>1 DEF CancelReject, Message
      <3> QED BY <3>1, <3>2, <3>3 DEF Receive
    <2> QED BY <2>1, <2>2, <2>3 DEF Busy
  <1>5. HistoryOf(id)' = HistoryOf(id)
    BY <1>2 DEF HistoryOf
  <1>6. ReportsOf(id)' = ReportsOf(id)
    <2>3. Reports \subseteq Reports' /\ \A b \in Reports' \ Reports : ~Announces(b)
      BY <1>1, ReceiveReportsNothing DEF NothingNewAnnounced
    <2>1. \A m : Announces(m) => (m \in Reports' <=> m \in Reports)
      BY <2>3
    <2>2. \A m : m \in ReportsOf(id)' <=> m \in ReportsOf(id)
      BY <2>1, ReportsOfAnnounce
    <2> QED BY <2>2
  <1> PICK h, reports, still, later : /\ h = HistoryOf(id) /\ reports = ReportsOf(id)
                                      /\ still = Busy(s, id)' /\ later = Append(log, entry)
    OBVIOUS
  <1>7. AuditedTo(log, id, h, reports, FALSE)
    <2>1. AuditedTo(log, id, h, reports, Busy(s, id))
      BY DEF AuditInv
    <2> QED BY <2>1, LessBusy
  <1>8. AuditedTo(later, id, h, reports, still)
    <2>1. CASE r.order = id
      <3>1. AuditedTo(later, id, h, reports, entry.message.type = "F")
        BY <1>1, <1>3, <1>7, <2>1, RequestEntry
      <3>2. still => entry.message.type = "F"
        BY <1>3, <1>4
      <3> QED BY <3>1, <3>2, LessBusy
    <2>2. CASE r.order # id
      <3>1. AuditedTo(later, id, h, reports, FALSE)
        BY <1>1, <1>3, <1>7, <2>2, OtherEntry
      <3>2. still => FALSE
        BY <1>4, <2>2
      <3> QED BY <3>1, <3>2, LessBusy
    <2> QED BY <2>1, <2>2
  <1> QED BY <1>3, <1>5, <1>6, <1>8

LEMMA LookUpStaysAudited ==
    ASSUME NEW s, OneLine(s), ExchangeInv, HandoverInv, ReportedInv, ShapeInv(s),
           AuditInv(s), LookUp(s)
    PROVE  StaysAudited(s)
  <1> PICK id : id = request[s].order
    OBVIOUS
  <1>1. /\ s \in Sessions /\ s \in Threads /\ out \in [Sessions -> Seq(Messages)]
        /\ at \in [Sessions -> {"none", "accepted", "logon", "turn", "receive",
                                "lookup", "accept", "cancel", "done"}]
    BY WayOfOneLine
  <1>2. /\ UNCHANGED <<orders, hand, pending, log, responses>> /\ at[s] = "lookup"
        /\ out[s] = <<>> /\ hand[s] = <<>> /\ hand'[s] = <<>>
    BY <1>1 DEF LookUp, books, ShapeInv, HandoverInv
  <1>3. CASE id \in DOMAIN responses
    <2> PICK q : q = responses[id]
      OBVIOUS
    <2>1. Answers(s, q)
      BY <1>3 DEF LookUp
    <2>2. ToSet(q) \subseteq Reports /\ \A m \in ToSet(q) : IsReport(m)
      BY <1>3 DEF ReportedInv, CachedInv, ReportsOf
    <2>3. Reports' = Reports
      BY <1>1, <1>2, <2>1, <2>2, AnswersAdd
    <2>4. \A x : ~Busy(s, x)'
      BY <1>2, <2>1, <2>2, BusyAnswering DEF IsReport
    <2> QED BY <1>2, <2>3, <2>4, AuditRests
  <1>4. CASE id \notin DOMAIN responses
    <2>1. out' = out /\ at'[s] # "cancel"
      BY <1>1, <1>4 DEF LookUp
    <2>2. Reports' = Reports
      BY <1>2, <2>1, ReportsRest
    <2>3. \A x : ~Busy(s, x)'
      <3>1. OutOf(s)' = {} /\ HandOf(s)' = {}
        BY <1>2, <2>1, SetsOfSequences DEF OutOf, HandOf
      <3> QED BY <2>1, <3>1 DEF Busy
    <2> QED BY <1>2, <2>2, <2>3, AuditRests
  <1> QED BY <1>3, <1>4

(* A new order is audited from its first arc on.                           *)
LEMMA AcceptStaysAudited ==
    ASSUME NEW s, OneLine(s), PlansWork, Unmixed, ExchangeInv, ExchangeInv', HandoverInv,
           ReportedInv, ReportedInv', ShapeInv(s), WorkInv(s), AuditInv(s), AcceptNewOrder(s)
    PROVE  StaysAudited(s)
  <1> PICK r : r = request[s]
    OBVIOUS
  <1>1. /\ s \in Sessions /\ s \in Threads /\ out \in [Sessions -> Seq(Messages)]
        /\ nextExec \in Nat
    BY WayOfOneLine
  <1>2. UNCHANGED <<hand, pending, log>> /\ at[s] = "accept"
    BY Zenon DEF AcceptNewOrder
  <1>3. out[s] = <<>> /\ hand[s] = <<>> /\ hand'[s] = <<>>
    BY <1>1, <1>2 DEF ShapeInv, HandoverInv
  <1>4. ASSUME Refuses(s, r)
        PROVE  StaysAudited(s)
    <2> PICK m : m = RejectedExecutionReport(r, nextExec)
      OBVIOUS
    <2>1. /\ Answers(s, <<m>>) /\ UNCHANGED orders /\ ~Announces(m) /\ m.type = "8"
          /\ ToSet(<<m>>) = {m}
      BY <1>4, RejectsAnnounceNothing, SetsOfSequences
      DEF Refuses, RejectedExecutionReport, ExecutionReport, Message
    <2>2. Reports' = Reports \cup {m}
      BY <1>1, <1>2, <1>3, <2>1, AnswersAdd
    <2>3. \A id : ~Busy(s, id)'
      BY <1>3, <2>1, BusyAnswering
    <2> QED BY <1>2, <2>1, <2>2, <2>3, AuditRests
  <1>5. ASSUME NEW order, NEW q \in Seq(Messages), OpensWith(r, order, q),
               Accepts(s, r, order, q), Answers(s, q), r.order \notin DOMAIN orders,
               responses' = [id \in DOMAIN responses \cup {r.order} |->
                                IF id = r.order THEN q ELSE responses[id]]
        PROVE  StaysAudited(s)
    <2>1. /\ DOMAIN q = 1 .. Len(q)
          /\ \A i \in 1 .. Len(q) : /\ q[i].order = r.order /\ IsReport(q[i])
                                    /\ q[i].event \in OpeningEvents
      BY <1>5 DEF OpensWith
    <2>2. \A m \in ToSet(q) : /\ m.order = r.order /\ m.type = "8"
                              /\ m.event # "CANCEL_CONFIRMED"
      BY <2>1 DEF ToSet, OpeningEvents, IsReport
    <2>3. Reports' = Reports \cup ToSet(q)
      BY <1>1, <1>2, <1>3, <1>5, AnswersAdd
    <2>4. \A id : ~Busy(s, id)'
      BY <1>3, <1>5, <2>2, BusyAnswering
    <2>5. /\ DOMAIN orders' = DOMAIN orders \cup {r.order}
          /\ \A id \in DOMAIN orders : id # r.order => orders'[id] = orders[id]
          /\ r.order \in DOMAIN responses'
      BY <1>5 DEF Accepts
    <2> SUFFICES ASSUME NEW id \in GoodIds
                 PROVE  AuditedTo(log', id, HistoryOf(id)', ReportsOf(id)', Busy(s, id)')
      BY DEF StaysAudited
    <2> PICK h, reports, still : h = HistoryOf(id)' /\ reports = ReportsOf(id)' /\ still = Busy(s, id)'
      OBVIOUS
    <2>6. AuditedTo(log, id, HistoryOf(id), ReportsOf(id), FALSE)
      <3>1. AuditedTo(log, id, HistoryOf(id), ReportsOf(id), Busy(s, id))
        BY DEF AuditInv
      <3> QED BY <3>1, LessBusy
    <2>7. AuditedTo(log, id, h, reports, FALSE)
      <3>1. CASE id # r.order
        <4>1. h = HistoryOf(id)
          BY <2>5, <3>1 DEF HistoryOf
        <4>2. \A m : m \in ReportsOf(id)' <=> m \in ReportsOf(id)
          BY <2>2, <2>3, <3>1, ReportsOfAnnounce
        <4>3. reports = ReportsOf(id)
          BY <4>2
        <4> QED BY <2>6, <4>1, <4>3
      <3>2. CASE id = r.order
        <4>1. HistoryOf(id) = <<>>
          BY <1>5, <3>2 DEF HistoryOf
        <4>2. \A m : m \notin ReportsOf(id)
          BY <1>5, <3>2, ReportsOfAnnounce DEF ReportedInv, AnnouncedInv
        <4>3. ReportsOf(id) = {}
          BY <4>2
        <4>4. AuditedTo(log, id, <<>>, {}, FALSE)
          BY <2>6, <4>1, <4>3
        <4>5. h = orders'[id].history /\ id \in DOMAIN orders'
          BY <2>5, <3>2 DEF HistoryOf
        <4>6. Lifecycle(h)
          BY <4>5, GoodOrdersLive DEF ExchangeInv, BooksInv
        <4>7. PICK report : Explains(report, AnnouncedArcs(id)', reports, h)
          BY <4>5, EventsExplained DEF ReportedInv
        <4>8. AnnouncedArcs(id)' = ReportedArcs(h)
          <5>1. DOMAIN h = 1 .. Len(h)
            BY <4>6 DEF Lifecycle
          <5>2. AnnouncedArcs(id)' = {i \in DOMAIN h : h[i].event # "CANCEL_REQUEST"}
            BY <2>5, <3>2, <4>5 DEF AnnouncedArcs
          <5> QED BY <5>1, <5>2 DEF ReportedArcs
        <4>9. \A m \in reports : m.event # "CANCEL_CONFIRMED"
          <5>1. \A m \in reports : m \in ToSet(q)
            BY <2>3, <4>2, ReportsOfAnnounce
          <5> QED BY <2>2, <5>1
        <4>10. Explains(report, ReportedArcs(h), reports, h)
          BY <4>7, <4>8
        <4> QED BY <4>4, <4>6, <4>9, <4>10, OrderOpens
      <3> QED BY <3>1, <3>2
    <2>8. AuditedTo(log, id, h, reports, still)
      BY <2>4, <2>7, LessBusy
    <2> QED BY <1>2, <2>8
  <1> QED BY <1>1, <1>4, <1>5, AcceptsOrRejects

(* A cancel that is confirmed, or refused: the reports and the history of  *)
(* the order grow together.                                                *)
LEMMA CancelStaysAudited ==
    ASSUME NEW s, OneLine(s), ExchangeInv, HandoverInv, ReportedInv, ShapeInv(s),
           AuditInv(s), Cancel(s)
    PROVE  StaysAudited(s)
  <1> PICK r : r = request[s]
    OBVIOUS
  <1>1. /\ s \in Sessions /\ s \in Threads /\ out \in [Sessions -> Seq(Messages)]
        /\ nextExec \in Nat /\ orders = [x \in DOMAIN orders |-> orders[x]]
    BY WayOfOneLine DEF ExchangeInv, BooksInv
  <1>2. UNCHANGED <<hand, pending, log>> /\ at[s] = "cancel" /\ r \in Requests
    BY <1>1 DEF Cancel, ExchangeInv, ThreadsInv
  <1>3. out[s] = <<>> /\ hand[s] = <<>> /\ hand'[s] = <<>>
    BY <1>1, <1>2 DEF ShapeInv, HandoverInv
  <1>4. \A id : Busy(s, id) <=> r.order = id
    BY <1>2, NotBusy
  <1>5. ASSUME Answers(s, <<CancelReject(r)>>), UNCHANGED orders
        PROVE  StaysAudited(s)
    <2> PICK m : m = CancelReject(r)
      OBVIOUS
    <2>1. ~Announces(m) /\ m.order = r.order /\ ToSet(<<m>>) = {m}
      BY RejectsAnnounceNothing, SetsOfSequences DEF CancelReject, Message
    <2>2. Reports' = Reports \cup {m}
      BY <1>1, <1>2, <1>3, <1>5, <2>1, AnswersAdd
    <2>3. \A id : Busy(s, id)' => Busy(s, id)
      BY <1>3, <1>4, <1>5, <2>1, BusyAnswering
    <2> QED BY <1>2, <1>5, <2>1, <2>2, <2>3, AuditRests
  <1>6. ASSUME NEW own, own = r.order, own \in DOMAIN orders, NEW m,
               m = ExecutionReport(r.cl, own, "CANCEL_CONFIRMED", nextExec,
                                   orders[own].cumulative_quantity),
               orders[own].state \notin TERMINAL_STATES,
               orders' = [orders EXCEPT ![own] = AfterCancel(@)],
               Answers(s, <<m>>)
        PROVE  StaysAudited(s)
    <2>1. /\ m.event = "CANCEL_CONFIRMED" /\ m.order = own /\ m.type = "8"
          /\ m.exec_id = nextExec /\ Announces(m) /\ ToSet(<<m>>) = {m}
      BY <1>6, SetsOfSequences DEF ExecutionReport, Message, Announces, IsReport
    <2>2. m \in Messages
      <3> PICK cum : cum = orders[own].cumulative_quantity
        OBVIOUS
      <3>1. cum \in Nat
        BY <1>6 DEF ExchangeInv, BooksInv, Order
      <3>2. "CANCEL_CONFIRMED" \in Events
        BY DEF Events, OrderEvent
      <3> QED BY <1>1, <1>2, <1>6, <3>1, <3>2, MessagesTyped
    <2>3. Reports' = Reports \cup {m}
      BY <1>1, <1>2, <1>3, <1>6, <2>1, AnswersAdd
    <2>4. \A id : ~Busy(s, id)'
      BY <1>3, <1>6, <2>1, BusyAnswering
    <2>5. /\ DOMAIN orders' = DOMAIN orders /\ orders'[own] = AfterCancel(orders[own])
          /\ \A id \in DOMAIN orders : id # own => orders'[id] = orders[id]
      BY <1>1, <1>6
    <2> SUFFICES ASSUME NEW id \in GoodIds
                 PROVE  AuditedTo(log', id, HistoryOf(id)', ReportsOf(id)', Busy(s, id)')
      BY DEF StaysAudited
    <2> PICK h, reports, g, more, still :
                /\ h = HistoryOf(id) /\ reports = ReportsOf(id)
                /\ g = HistoryOf(id)' /\ more = ReportsOf(id)' /\ still = Busy(s, id)'
      OBVIOUS
    <2>6. AuditedTo(log, id, h, reports, id = own)
      <3>1. AuditedTo(log, id, h, reports, Busy(s, id))
        BY DEF AuditInv
      <3>2. (id = own) => Busy(s, id)
        BY <1>4, <1>6
      <3> QED BY <3>1, <3>2, LessBusy
    <2>7. AuditedTo(log, id, g, more, FALSE)
      <3>1. CASE id # own
        <4>1. g = h
          BY <2>5, <3>1 DEF HistoryOf
        <4>2. \A x : x \in ReportsOf(id)' <=> x \in ReportsOf(id)
          BY <2>1, <2>3, <3>1, ReportsOfAnnounce
        <4>3. more = reports
          BY <4>2
        <4> QED BY <2>6, <4>1, <4>3, LessBusy
      <3>2. CASE id = own
        <4> PICK n : n = Len(h)
          OBVIOUS
        <4>1. h = orders[own].history /\ g = AfterCancel(orders[own]).history
          BY <1>6, <2>5, <3>2 DEF HistoryOf
        <4>2. GoodOrder(orders[own])
          BY <1>6 DEF ExchangeInv, BooksInv
        <4>3. /\ GoodOrder(AfterCancel(orders[own]))
              /\ Len(g) = n + 2 /\ \A i \in 1 .. n : g[i] = h[i]
              /\ g[n + 1].event = "CANCEL_REQUEST" /\ g[n + 2].event = "CANCEL_CONFIRMED"
          <5> PICK o, c : o = orders[own] /\ c = AfterCancel(o)
            OBVIOUS
          <5>1. GoodOrder(o) /\ o.state \notin TERMINAL_STATES /\ h = o.history /\ g = c.history
            BY <1>6, <4>1, <4>2
          <5>2. /\ GoodOrder(c) /\ Len(c.history) = Len(o.history) + 2
                /\ \A i \in 1 .. Len(o.history) : c.history[i] = o.history[i]
                /\ c.history[Len(o.history) + 1].event = "CANCEL_REQUEST"
                /\ c.history[Len(o.history) + 2].event = "CANCEL_CONFIRMED"
            BY <5>1, CanceledIsGood
          <5> QED BY <5>1, <5>2
        <4>4. g \in Seq(TRANSITIONS)
          BY <4>1, <4>3 DEF GoodOrder, Order
        <4>5. Lifecycle(h) /\ reports \subseteq Messages
          BY GoodHistory
        <4>6. \A x : x \in ReportsOf(id)' <=> x \in ReportsOf(id) \cup {m}
          BY <2>1, <2>3, <3>2, ReportsOfAnnounce
        <4>7. more = reports \cup {m}
          BY <4>6
        <4>8. \A b \in reports : b.exec_id < m.exec_id
          BY <2>1, ReportsOfAnnounce DEF ReportedInv, AnnouncedInv
        <4>9. AuditedTo(log, id, h, reports, TRUE)
          BY <2>6, <3>2, LessBusy
        <4>11. CancelExtends(g, h) /\ Newest(m, reports)
          BY <4>3, <4>8 DEF CancelExtends, Newest
        <4>10. AuditedTo(log, id, g, reports \cup {m}, FALSE)
          BY <2>1, <2>2, <4>4, <4>5, <4>9, <4>11, OrderCancels
        <4> QED BY <4>7, <4>10
      <3> QED BY <3>1, <3>2
    <2>8. AuditedTo(log, id, g, more, still)
      BY <2>4, <2>7, LessBusy
    <2> QED BY <1>2, <2>8
  <1>7. CASE r.order \in DOMAIN orders /\ CancelOutcome(orders[r.order]) = "ok"
    <2>1. orders[r.order].state \notin TERMINAL_STATES
      BY <1>7, RefusedCancel
    <2> QED BY <1>6, <1>7, <2>1 DEF Cancel
  <1>8. CASE r.order \in DOMAIN orders => CancelOutcome(orders[r.order]) # "ok"
    <2>1. r.order \in DOMAIN orders => AfterCancel(orders[r.order]) = orders[r.order]
      <3> SUFFICES ASSUME r.order \in DOMAIN orders
                   PROVE  AfterCancel(orders[r.order]) = orders[r.order]
        OBVIOUS
      <3>1. orders[r.order].state \in TERMINAL_STATES
        BY <1>8, CanceledIsGood DEF ExchangeInv, BooksInv
      <3> QED BY <3>1, RefusedCancel
    <2>2. /\ orders' = IF r.order \in DOMAIN orders
                       THEN [orders EXCEPT ![r.order] = AfterCancel(@)] ELSE orders
          /\ Answers(s, <<CancelReject(r)>>)
      BY <1>8 DEF Cancel
    <2>3. orders' = orders
      BY <1>1, <2>1, <2>2
    <2> QED BY <1>5, <2>2, <2>3
  <1> QED BY <1>7, <1>8

(* Sending makes nothing busy that was not: what was held back is a report. *)
LEMMA SendBusy ==
    ASSUME NEW s, OneLine(s), ExchangeInv, ShapeInv(s), Send(s), NEW id, Busy(s, id)'
    PROVE  Busy(s, id)
  <1> PICK o, m : o = out[s] /\ m = Head(out[s])
    OBVIOUS
  <1>1. /\ hand[s] = <<>> /\ out' = [out EXCEPT ![s] = Tail(@)] /\ o # <<>>
        /\ s \in Sessions /\ s \in Threads /\ o \in Seq(Messages)
        /\ out \in [Sessions -> Seq(Messages)]
        /\ hand \in [Threads -> Seq(AllDeliveries)]
        /\ UNCHANGED <<at, request>>
    BY WayOfOneLine
    DEF Send, DropReport, SendDirectly, HoldBack, SendWithHeld, Sending
  <1>2. ToSet(o) = {m} \cup ToSet(Tail(o)) /\ out'[s] = Tail(o)
    BY <1>1, SetsOfSequences
  <1>3. m \in OutOf(s) /\ OutOf(s)' \subseteq OutOf(s)
    BY <1>2 DEF OutOf
  <1>4. HandOf(s)' \subseteq {m} \cup HeldBack
    <2>1. \A x \in Deliveries(s) : x.message = m
      BY <1>1, DeliveriesCarry
    <2>2. CASE hand' = hand
      BY <1>1, <2>2, SetsOfSequences DEF HandOf
    <2>3. ASSUME NEW x \in Deliveries(s), hand' = [hand EXCEPT ![s] = <<x>>]
          PROVE  HandOf(s)' \subseteq {m}
      <3>1. hand'[s] = <<x>> /\ ToSet(<<x>>) = {x}
        BY <1>1, <2>3, SetsOfSequences
      <3> QED BY <2>1, <3>1 DEF HandOf
    <2>4. ASSUME NEW x \in Deliveries(s), NEW held, held = pending, pending # Nothing,
                 hand' = [hand EXCEPT ![s] = InOrder(held, x)]
          PROVE  HandOf(s)' \subseteq {m} \cup HeldBack
      <3>1. hand'[s] = InOrder(held, x) /\ ToSet(InOrder(held, x)) = {x, held}
        BY <1>1, <2>4, SetsOfSequences DEF InOrder
      <3>2. held.message \in HeldBack
        BY <2>4 DEF HeldBack
      <3> QED BY <2>1, <3>1, <3>2 DEF HandOf
    <2> QED BY <2>2, <2>3, <2>4 DEF Send, DropReport, SendDirectly, HoldBack, SendWithHeld
  <1>5. \A x \in HeldBack : x.type # "9"
    BY DEF HeldBack, ShapeInv, IsReport
  <1> QED BY <1>1, <1>3, <1>4, <1>5 DEF Busy

LEMMA SendStaysAudited ==
    ASSUME NEW s, OneLine(s), NoDropOvertakes, ExchangeInv, ReportedInv, LineInv(s), ShapeInv(s),
           WorkInv(s), ClosedInv(s), AuditInv(s), Send(s)
    PROVE  StaysAudited(s)
  <1>1. s \in Sessions /\ log \in Seq(LogEntries)
    BY WayOfOneLine
  <1>2. Reports' = Reports
    BY <1>1, SendMoves
  <1>3. CASE SendDirectly(s) \/ HoldBack(s) \/ SendWithHeld(s)
    <2>1. UNCHANGED <<orders, log>>
      BY <1>3 DEF SendDirectly, HoldBack, SendWithHeld, books
    <2> QED BY <1>2, <2>1, SendBusy, AuditRests
  <1>4. CASE DropReport(s)
    <2> PICK m : m = Head(out[s])
      OBVIOUS
    <2>1. /\ IsReport(m) /\ hand[s] = <<>> /\ HeldBack = {} /\ UNCHANGED orders
          /\ out[s] \in Seq(Messages) /\ out[s] # <<>>
      BY <1>4, DropLogs, WayOfOneLine DEF books
    <2>2. PICK a \in LogEntries : a.message = m /\ ~Inbound(a) /\ log' = Append(log, a)
      BY <1>4, DropLogs
    <2>3. m \in Reports
      <3>1. m \in ToSet(out[s])
        BY <2>1, SetsOfSequences
      <3> QED BY <1>1, <3>1, PlacesOfReports DEF OutOf
    <2>4. Closed(Reports, Logged \cup {m})
      <3> PICK o, h, reports, L : o = out[s] /\ h = HeldBack /\ reports = Reports /\ L = Logged
        OBVIOUS
      <3>1. QueueClosed(reports, L, <<>>, h, o) /\ h = {} /\ o # <<>> /\ m = Head(o)
            /\ o \in Seq(Messages)
        BY <2>1 DEF ClosedInv
      <3>2. Closed(reports, L \cup {m})
        BY <3>1, QueueMoves
      <3> QED BY <3>2
    <2> SUFFICES ASSUME NEW id \in GoodIds
                 PROVE  AuditedTo(log', id, HistoryOf(id)', ReportsOf(id)', Busy(s, id)')
      BY DEF StaysAudited
    <2>5. AuditedTo(log, id, HistoryOf(id), ReportsOf(id), Busy(s, id))
      BY DEF AuditInv
    <2>6. Closed(Reports, {x.message : x \in ToSet(log)} \cup {m})
      BY <2>4 DEF Logged
    <2>7. AuditedTo(Append(log, a), id, HistoryOf(id), ReportsOf(id), Busy(s, id))
      BY <1>1, <2>1, <2>2, <2>3, <2>5, <2>6, ReportIsAudited
    <2> PICK h, reports, busy, still, later :
                /\ h = HistoryOf(id) /\ reports = ReportsOf(id) /\ busy = Busy(s, id)
                /\ still = Busy(s, id)' /\ later = log'
      OBVIOUS
    <2>8. HistoryOf(id)' = h /\ ReportsOf(id)' = reports
      BY <1>2, <2>1 DEF HistoryOf, ReportsOf
    <2>9. AuditedTo(later, id, h, reports, busy) /\ (still => busy)
      BY <2>2, <2>7, SendBusy
    <2>10. AuditedTo(later, id, h, reports, still)
      BY <2>9, LessBusy
    <2> QED BY <2>8, <2>10
  <1> QED BY <1>3, <1>4 DEF Send

LEMMA DeliverStaysAudited ==
    ASSUME NEW s, OneLine(s), ExchangeInv, ReportedInv, LineInv(s), ShapeInv(s),
           WorkInv(s), ClosedInv(s), AuditInv(s), Deliver(s)
    PROVE  StaysAudited(s)
  <1> PICK d, x, m : d = hand[s] /\ x = Head(hand[s]) /\ m = Head(hand[s]).message
    OBVIOUS
  <1>1. /\ s \in Sessions /\ s \in Threads /\ log \in Seq(LogEntries)
        /\ d \in Seq(AllDeliveries) /\ hand \in [Threads -> Seq(AllDeliveries)]
    BY WayOfOneLine
  <1>2. /\ d # <<>> /\ hand' = [hand EXCEPT ![s] = Tail(@)]
        /\ UNCHANGED <<orders, at, request, out>>
    BY DEF Deliver, books
  <1>3. PICK a, b \in LogEntries :
           /\ a.message = m /\ ~Inbound(a) /\ b.message = m /\ ~Inbound(b)
           /\ \/ log' = Append(log, a)
              \/ x.duplicate /\ log' = Append(Append(log, a), b)
    <2>1. TakesDown(x)
      BY <1>1, DeliverLogs
    <2> QED BY <2>1, Zenon DEF TakesDown
  <1>4. Reports' = Reports
    BY <1>1, DeliverMoves
  <1>5. hand'[s] = Tail(d) /\ ToSet(d) = {x} \cup ToSet(Tail(d))
    BY <1>1, <1>2, SetsOfSequences
  <1>6. m \in Reports /\ m \in HandOf(s)
    <2>1. m \in HandOf(s)
      BY <1>5 DEF HandOf
    <2> QED BY <1>1, <2>1, PlacesOfReports
  <1>7. Closed(Reports, Logged \cup {m})
    <2> PICK o, h, reports, L : o = out[s] /\ h = HeldBack /\ reports = Reports /\ L = Logged
      OBVIOUS
    <2>1. QueueClosed(reports, L, d, h, o)
      BY DEF ClosedInv
    <2>2. Closed(reports, L \cup {m})
      BY <1>1, <1>2, <2>1, QueueDelivers
    <2> QED BY <2>2
  <1>8. \/ IsReport(m)
        \/ out[s] = <<>> /\ d = <<x>> /\ m.type = "9" /\ ~x.duplicate
    <2>1. CASE \A y \in ToSet(d) : IsReport(y.message)
      BY <1>5, <2>1
    <2>2. CASE out[s] = <<>> /\ \E y : d = <<y>> /\ y.message.type = "9" /\ ~y.duplicate
      BY <2>2
    <2> QED BY <1>2, <2>1, <2>2 DEF ShapeInv, OnTheWay
  <1> SUFFICES ASSUME NEW id \in GoodIds
               PROVE  AuditedTo(log', id, HistoryOf(id)', ReportsOf(id)', Busy(s, id)')
    BY DEF StaysAudited
  <1> PICK h, reports, busy, still, later, once :
              /\ h = HistoryOf(id) /\ reports = ReportsOf(id) /\ busy = Busy(s, id)
              /\ still = Busy(s, id)' /\ later = log' /\ once = Append(log, a)
    OBVIOUS
  <1>9. HistoryOf(id)' = h /\ ReportsOf(id)' = reports
    BY <1>2, <1>4 DEF HistoryOf, ReportsOf
  <1>10. AuditedTo(log, id, h, reports, busy)
    BY DEF AuditInv
  <1>11. still => busy
    <2>1. HandOf(s)' \subseteq HandOf(s) /\ OutOf(s)' = OutOf(s)
      BY <1>2, <1>5 DEF HandOf, OutOf
    <2> QED BY <1>2, <2>1 DEF Busy
  <1>12. CASE IsReport(m)
    <2>1. Closed(Reports, {y.message : y \in ToSet(log)} \cup {m})
      BY <1>7 DEF Logged
    <2>2. AuditedTo(once, id, HistoryOf(id), ReportsOf(id), busy)
      BY <1>1, <1>3, <1>6, <1>10, <1>12, <2>1, ReportIsAudited
    <2>3. once \in Seq(LogEntries)
      BY <1>1, <1>3
    <2>4. Closed(Reports, {y.message : y \in ToSet(once)} \cup {m})
      <3>1. {y.message : y \in ToSet(once)} = {y.message : y \in ToSet(log)} \cup {m}
        BY <1>1, <1>3, LoggedMore
      <3>2. {y.message : y \in ToSet(once)} \cup {m} = {y.message : y \in ToSet(log)} \cup {m}
        BY <3>1
      <3> QED BY <2>1, <3>2
    <2>5. AuditedTo(Append(once, b), id, HistoryOf(id), ReportsOf(id), busy)
      BY <1>3, <1>6, <1>12, <2>2, <2>3, <2>4, ReportIsAudited
    <2>6. AuditedTo(later, id, h, reports, busy)
      BY <1>3, <2>2, <2>5
    <2>7. AuditedTo(later, id, h, reports, still)
      BY <1>11, <2>6, LessBusy
    <2> QED BY <1>9, <2>7
  <1>13. CASE out[s] = <<>> /\ d = <<x>> /\ m.type = "9" /\ ~x.duplicate
    <2>1. later = once
      BY <1>3, <1>13
    <2>2. AuditedTo(once, id, h, reports, still)
      <3>1. CASE m.order # id
        <4>1. AuditedTo(once, id, h, reports, busy)
          BY <1>1, <1>3, <1>10, <3>1, OtherEntry
        <4> QED BY <1>11, <4>1, LessBusy
      <3>2. CASE m.order = id
        <4>1. TRUE => busy
          BY <1>6, <1>13, <3>2 DEF Busy
        <4>2. AuditedTo(log, id, h, reports, TRUE)
          BY <1>10, <4>1, LessBusy
        <4>3. AuditedTo(once, id, h, reports, FALSE)
          BY <1>1, <1>3, <1>13, <3>2, <4>2, RefusalEntry
        <4>4. still => FALSE
          <5>1. hand'[s] = <<>> /\ out'[s] = <<>>
            BY <1>2, <1>5, <1>13
          <5>2. at'[s] # "cancel"
            BY <1>2 DEF ShapeInv
          <5>3. HandOf(s)' = {} /\ OutOf(s)' = {}
            BY <5>1, SetsOfSequences DEF HandOf, OutOf
          <5> QED BY <5>2, <5>3 DEF Busy
        <4> QED BY <4>3, <4>4, LessBusy
      <3> QED BY <3>1, <3>2
    <2> QED BY <1>9, <2>1, <2>2
  <1> QED BY <1>8, <1>12, <1>13

LEMMA AuditKept ==
    ASSUME NEW s, Auditable(s), ExchangeInv, HandoverInv, ReportedInv, LineInv(s), ShapeInv(s),
           WorkInv(s), ClosedInv(s), AuditInv(s), [Serves]_vars
    PROVE  AuditInv(s)'
  <1>1. OneLine(s) /\ PlansWork /\ Unmixed /\ NoDropOvertakes
    BY DEF Auditable
  <1>2. ExchangeInv' /\ ReportedInv'
    BY StepShape, ReportedKept
  <1>3. ASSUME Quiet(s)
        PROVE  StaysAudited(s)
    <2>1. UNCHANGED <<orders, log, out, hand, pending, request>>
      BY <1>3 DEF Quiet, books
    <2>2. Reports' = Reports
      BY <2>1, ReportsRest
    <2>3. OutOf(s)' = OutOf(s) /\ HandOf(s)' = HandOf(s)
      BY <2>1 DEF OutOf, HandOf
    <2>4. at'[s] = "cancel" => at[s] = "cancel"
      BY <1>3 DEF Quiet
    <2>5. \A id : Busy(s, id)' => Busy(s, id)
      BY <2>1, <2>3, <2>4 DEF Busy
    <2> QED BY <2>1, <2>2, <2>5, AuditRests
  <1>4. ASSUME \E r \in Requests : Receive(s, r)
        PROVE  StaysAudited(s)
    BY <1>1, <1>4, ReceiveStaysAudited
  <1>5. ASSUME LookUp(s) \/ AcceptNewOrder(s) \/ Cancel(s)
        PROVE  StaysAudited(s)
    BY <1>1, <1>2, <1>5, LookUpStaysAudited, AcceptStaysAudited, CancelStaysAudited
  <1>6. ASSUME Send(s) \/ Deliver(s)
        PROVE  StaysAudited(s)
    BY <1>1, <1>6, SendStaysAudited, DeliverStaysAudited
  <1>7. StaysAudited(s) => AuditInv(s)'
    BY DEF StaysAudited, AuditInv
  <1> QED BY <1>1, <1>3, <1>4, <1>5, <1>6, <1>7, StepsOfOneLine

-------------------------------------------------------------------------------
(* What the audit finds                                                    *)

(* All that a log with one connection tells of.                            *)
TrailInv(s) ==
    /\ HandoverInv /\ ReportedInv /\ LineInv(s) /\ ShapeInv(s)
    /\ WorkInv(s) /\ ClosedInv(s) /\ AuditInv(s)

LEMMA TrailKept ==
    ASSUME NEW s, Auditable(s), ExchangeInv, TrailInv(s), [Serves]_vars
    PROVE  TrailInv(s)'
  <1>1. OneLine(s) /\ PlansWork /\ Unmixed
    BY DEF Auditable
  <1>2. HandoverInv' /\ ReportedInv'
    BY HandoverKept, ReportedKept DEF TrailInv
  <1>3. LineInv(s)' /\ ShapeInv(s)' /\ WorkInv(s)'
    BY <1>1, LineKept, ShapeKept, WorkKept DEF TrailInv
  <1>4. ClosedInv(s)' /\ AuditInv(s)'
    BY ClosedKept, AuditKept DEF TrailInv
  <1> QED BY <1>2, <1>3, <1>4 DEF TrailInv

LEMMA TrailFirst ==
    ASSUME NEW s, Auditable(s), Init
    PROVE  TrailInv(s)
  <1>1. /\ OneLine(s) /\ s \in Sessions /\ s \in Threads
        /\ out[s] = <<>> /\ hand[s] = <<>> /\ at[s] = "none" /\ pending = Nothing /\ log = <<>>
        /\ DOMAIN orders = {} /\ DOMAIN responses = {}
    BY DEF Auditable, OneLine, Threads, Init
  <1>2. HandoverInv /\ ReportedInv /\ LineInv(s)
    BY <1>1, ReportedFirst, OneLineFirst
  <1>3. Logged = {} /\ HeldBack = {} /\ OutOf(s) = {} /\ HandOf(s) = {} /\ MessagesOf(<<>>) = {}
    BY <1>1, SetsOfSequences DEF Logged, HeldBack, OutOf, HandOf, MessagesOf
  <1>4. Reports = {}
    BY <1>1, <1>2, <1>3, ReportsOfOneLine
  <1>5. ShapeInv(s)
    BY <1>1, ReportsOnTheWay, SetsOfSequences DEF ShapeInv
  <1>6. WorkInv(s)
    BY <1>1, <1>4 DEF WorkInv
  <1>7. ClosedInv(s)
    <2>1. \A X : Closed({}, X)
      BY DEF Closed
    <2>2. QueueClosed({}, {}, <<>>, {}, <<>>)
      BY <2>1 DEF QueueClosed
    <2>3. CacheClosed(Reports, responses)
      BY <1>1 DEF CacheClosed
    <2> QED BY <1>1, <1>3, <1>4, <2>2, <2>3 DEF ClosedInv
  <1>8. AuditInv(s)
    <2> SUFFICES ASSUME NEW id
                 PROVE  AuditedTo(log, id, HistoryOf(id), ReportsOf(id), Busy(s, id))
      BY DEF AuditInv
    <2>1. HistoryOf(id) = <<>> /\ ReportsOf(id) = {}
      BY <1>1, <1>4 DEF HistoryOf, ReportsOf
    <2>2. Busy(s, id) => FALSE
      BY <1>1, <1>3 DEF Busy
    <2> PICK busy : busy = Busy(s, id)
      OBVIOUS
    <2>3. AuditedTo(<<>>, id, <<>>, {}, FALSE)
      BY NothingAudited
    <2>4. AuditedTo(<<>>, id, <<>>, {}, busy)
      BY <2>2, <2>3, LessBusy
    <2> QED BY <1>1, <2>1, <2>4
  <1> QED BY <1>2, <1>5, <1>6, <1>7, <1>8 DEF TrailInv

LEMMA AllIsLogged ==
    ASSUME NEW s, OneLine(s), LineInv(s), Settled
    PROVE  Reports = Logged
  <1>1. out[s] = <<>> /\ hand[s] = <<>> /\ HeldBack = {}
    BY DEF OneLine, Settled, HeldBack, Threads
  <1>2. OutOf(s) = {} /\ HandOf(s) = {}
    BY <1>1, SetsOfSequences DEF OutOf, HandOf
  <1> QED BY <1>1, <1>2, ReportsOfOneLine

LEMMA SettledOrdersCheck ==
    ASSUME NEW s, Auditable(s), ExchangeInv, TrailInv(s), Settled, NEW id \in DOMAIN orders
    PROVE  /\ CrossCheck(log, id, orders[id])
           /\ Reconstruct(log, id).valid /\ Reconstruct(log, id).history # <<>>
           /\ Reconstruct(log, id).state = orders[id].state
  <1> PICK h, reports, rebuilt, order :
              /\ h = HistoryOf(id) /\ reports = ReportsOf(id)
              /\ rebuilt = Reconstruct(log, id) /\ order = orders[id]
    OBVIOUS
  <1>1. id \in GoodIds /\ AuditedTo(log, id, h, reports, Busy(s, id))
    BY DEF TrailInv, WorkInv, AuditInv
  <1>2. Lifecycle(h)
    BY GoodHistory
  <1>3. reports \subseteq Told(log, id)
    <2>1. Reports = Logged
      BY AllIsLogged DEF Auditable, TrailInv
    <2> QED BY <2>1, ReportsOfAnnounce DEF Told, Logged
  <1>4. rebuilt.valid /\ rebuilt.state = StateAfter(h, Len(h)) /\ rebuilt.history = h
    BY <1>1, <1>2, <1>3, AllIsTold
  <1>5. GoodOrder(order) /\ h = order.history
    BY DEF ExchangeInv, BooksInv, HistoryOf
  <1>6. Len(h) > 0 /\ h[Len(h)].to = order.state
    BY <1>5 DEF GoodOrder, HistoryExplains
  <1>7. StateAfter(h, Len(h)) = order.state /\ h # <<>>
    BY <1>6 DEF StateAfter
  <1>8. CrossCheck(log, id, order)
    BY <1>4, <1>5, <1>7 DEF CrossCheck
  <1> QED BY <1>4, <1>7, <1>8

-------------------------------------------------------------------------------
(* What becomes of an order that was asked for                             *)

(* The accept thread is done with a connection before it is served: no     *)
(* session is thrown back while it handles a request.                      *)
RegisterInv(s) == acceptor = s => at[s] = "accepted"

LEMMA RegisterKept ==
    ASSUME NEW s, OneLine(s), ExchangeInv, RegisterInv(s), [Serves]_vars
    PROVE  RegisterInv(s)'
  <1>1. /\ s \in Sessions /\ s \notin {"waiting", "exited"} /\ \A x \in Sessions : x = s
        /\ at \in [Sessions -> {"none", "accepted", "logon", "turn", "receive",
                                "lookup", "accept", "cancel", "done"}]
    BY SessionsAssumption, WayOfOneLine DEF OneLine
  <1>2. ASSUME AcceptConnection(s)
        PROVE  RegisterInv(s)'
    BY <1>1, <1>2 DEF AcceptConnection, RegisterInv
  <1>3. ASSUME acceptor' \in {"waiting", "exited"}
        PROVE  RegisterInv(s)'
    BY <1>1, <1>3 DEF RegisterInv
  <1>4. ASSUME UNCHANGED acceptor, at[s] # "accepted" \/ UNCHANGED at
        PROVE  RegisterInv(s)'
    BY <1>4 DEF RegisterInv
  <1>5. ASSUME Register(s) \/ AcceptorExits \/ Start
        PROVE  acceptor' \in {"waiting", "exited"}
    BY <1>5 DEF Register, AcceptorExits, Start
  <1>6. ASSUME \/ Logon(s) \/ Listen(s) \/ SessionEnds(s)
               \/ LookUp(s) \/ AcceptNewOrder(s) \/ Cancel(s)
               \/ \E r \in Requests : Receive(s, r)
        PROVE  UNCHANGED acceptor /\ at[s] # "accepted"
    BY <1>6, Zenon DEF Logon, Listen, SessionEnds, LookUp, AcceptNewOrder, Cancel, Receive, service
  <1>7. ASSUME \/ PeerLeaves(s) \/ Stop \/ StopFlush \/ StopClose \/ StopJoin \/ UNCHANGED vars
               \/ \E t \in Timers : HoldExpires(t)
               \/ \E t \in Threads : Deliver(t)
               \/ Send(s)
        PROVE  UNCHANGED <<acceptor, at>>
    BY <1>7 DEF PeerLeaves, Stop, StopFlush, StopClose, StopJoin, vars, HoldExpires, Deliver,
                Send, DropReport, SendDirectly, HoldBack, SendWithHeld, service
  <1> QED
    BY <1>1, <1>2, <1>3, <1>4, <1>5, <1>6, <1>7 DEF Serves, Exchange, Work, Connect, StopStep

(* A new order that is being handled is taken a step further, or waits.    *)
LEMMA NobodyInterrupts ==
    ASSUME NEW s, OneLine(s), ExchangeInv, RegisterInv(s), [Serves]_vars,
           at[s] \in {"lookup", "accept"}
    PROVE  at'[s] = at[s] \/ LookUp(s) \/ AcceptNewOrder(s)
  <1>1. /\ s \in Sessions /\ \A x \in Sessions : x = s
        /\ at \in [Sessions -> {"none", "accepted", "logon", "turn", "receive",
                                "lookup", "accept", "cancel", "done"}]
    BY WayOfOneLine DEF OneLine
  <1>2. ~(AcceptConnection(s) \/ Register(s) \/ Logon(s) \/ Listen(s) \/ SessionEnds(s)
          \/ Cancel(s) \/ \E r \in Requests : Receive(s, r))
    BY DEF AcceptConnection, Register, RegisterInv, Logon, Listen, SessionEnds, Cancel, Receive
  <1>3. ASSUME \/ PeerLeaves(s) \/ AcceptorExits \/ Start
               \/ Stop \/ StopFlush \/ StopClose \/ StopJoin \/ UNCHANGED vars
               \/ \E t \in Timers : HoldExpires(t)
               \/ \E t \in Threads : Deliver(t)
               \/ Send(s)
        PROVE  UNCHANGED at
    BY <1>3 DEF PeerLeaves, AcceptorExits, Start, Stop, StopFlush, StopClose, StopJoin, vars,
                HoldExpires, Deliver, Send, DropReport, SendDirectly, HoldBack, SendWithHeld
  <1> QED BY <1>1, <1>2, <1>3 DEF Serves, Exchange, Work, Connect, StopStep

(* What sending and delivering add to the log: reports and refusals.       *)
LEMMA SendLogs ==
    ASSUME NEW s, OneLine(s), NoDropOvertakes, ExchangeInv, ShapeInv(s), Send(s) \/ Deliver(s)
    PROVE  /\ UNCHANGED <<orders, responses, at, request>> /\ Reports' = Reports
           /\ \/ log' = log
              \/ \E a, b \in LogEntries : \E m \in Reports :
                    /\ a.message = m /\ ~Inbound(a) /\ b.message = m /\ ~Inbound(b)
                    /\ IsReport(m) \/ m.type = "9"
                    /\ log' = Append(log, a) \/ log' = Append(Append(log, a), b)
  <1>1. s \in Sessions /\ s \in Threads /\ out[s] \in Seq(Messages) /\ hand[s] \in Seq(AllDeliveries)
    BY WayOfOneLine
  <1>2. UNCHANGED <<orders, responses, at, request>>
    BY DEF Send, DropReport, SendDirectly, HoldBack, SendWithHeld, Deliver, books
  <1>3. Reports' = Reports
    BY <1>1, SendMoves, DeliverMoves
  <1>4. CASE SendDirectly(s) \/ HoldBack(s) \/ SendWithHeld(s)
    BY <1>2, <1>3, <1>4 DEF SendDirectly, HoldBack, SendWithHeld
  <1>5. CASE DropReport(s)
    <2> PICK m : m = Head(out[s])
      OBVIOUS
    <2>1. IsReport(m) /\ out[s] # <<>>
      BY <1>5, DropLogs
    <2>2. PICK a \in LogEntries : a.message = m /\ ~Inbound(a) /\ log' = Append(log, a)
      BY <1>5, DropLogs
    <2>3. m \in Reports
      <3>1. m \in ToSet(out[s])
        BY <1>1, <2>1, SetsOfSequences
      <3> QED BY <1>1, <3>1, PlacesOfReports DEF OutOf
    <2> QED BY <1>2, <1>3, <2>1, <2>2, <2>3
  <1>6. CASE Deliver(s)
    <2> PICK d, x, m : d = hand[s] /\ x = Head(hand[s]) /\ m = Head(hand[s]).message
      OBVIOUS
    <2>1. PICK a, b \in LogEntries :
             /\ a.message = m /\ ~Inbound(a) /\ b.message = m /\ ~Inbound(b)
             /\ log' = Append(log, a) \/ log' = Append(Append(log, a), b)
      <3>1. TakesDown(x)
        BY <1>1, <1>6, DeliverLogs
      <3> QED BY <3>1, Zenon DEF TakesDown
    <2>2. d # <<>> /\ ToSet(d) = {x} \cup ToSet(Tail(d))
      BY <1>1, <1>6, SetsOfSequences DEF Deliver
    <2>3. m \in Reports
      <3>1. m \in HandOf(s)
        BY <2>2 DEF HandOf
      <3> QED BY <1>1, <3>1, PlacesOfReports
    <2>4. IsReport(m) \/ m.type = "9"
      BY <2>2 DEF ShapeInv, OnTheWay
    <2> QED BY <1>2, <1>3, <2>1, <2>3, <2>4
  <1> QED BY <1>4, <1>5, <1>6 DEF Send

(* What taking up a request adds to the log.                               *)
LEMMA ReceiveLogs ==
    ASSUME NEW s \in Sessions, NEW r \in Requests, Receive(s, r)
    PROVE  \E a \in LogEntries :
              /\ Inbound(a) /\ log' = Append(log, a)
              /\ a.message.order = r.order /\ a.message.type = r.type /\ r.type \in {"D", "F"}
  <1> PICK received : received = Message(r.type, r.cl, r.order, "none", 0, 0)
    OBVIOUS
  <1> PICK entry : entry = LogEntry("RECEIVED", s, received)
    OBVIOUS
  <1>1. received \in Messages
    BY MessagesTyped
  <1>2. entry \in LogEntries /\ entry.message = received /\ Inbound(entry)
    BY <1>1 DEF LogEntry, LogEntries, Inbound
  <1>3. received.order = r.order /\ received.type = r.type /\ r.type \in {"D", "F"}
    BY RequestsAssumption DEF Message
  <1>4. log' = Append(log, entry)
    BY DEF Receive, Record
  <1> QED BY <1>2, <1>3, <1>4

(* An order that was asked for is in the book, or being handled, or        *)
(* answered with a reject.                                                 *)
RejectOf(m, id) == IsReport(m) /\ m.event = "REJECT" /\ m.order = id

Accounted(s, id) ==
    \/ id \in DOMAIN orders
    \/ at[s] \in {"lookup", "accept"} /\ request[s].order = id
    \/ \E m \in Reports : RejectOf(m, id)

StartedInv(s) == \A id \in StartedOrders(log) : Accounted(s, id)

(* An entry that asks for the order.                                       *)
Starts(a, id) == Inbound(a) /\ a.message.type = "D" /\ id = a.message.order

LEMMA StartedMore ==
    ASSUME NEW e \in Seq(LogEntries), NEW a \in LogEntries
    PROVE  /\ Inbound(a) /\ a.message.type = "D" =>
                 StartedOrders(Append(e, a)) = StartedOrders(e) \cup {a.message.order}
           /\ ~(Inbound(a) /\ a.message.type = "D") =>
                 StartedOrders(Append(e, a)) = StartedOrders(e)
  <1> PICK later, n : later = Append(e, a) /\ n = Len(e)
    OBVIOUS
  <1>1. /\ n \in Nat /\ DOMAIN e = 1 .. n /\ DOMAIN later = 1 .. n + 1
        /\ later[n + 1] = a /\ \A i \in 1 .. n : later[i] = e[i]
    OBVIOUS
  <1>2. ASSUME NEW id
        PROVE  id \in StartedOrders(later) <=>
                  \/ id \in StartedOrders(e)
                  \/ Starts(a, id)
    <2>1. \A q : id \in StartedOrders(q) <=> \E i \in DOMAIN q : Starts(q[i], id)
      BY DEF StartedOrders, Starts
    <2>2. \A i : i \in DOMAIN later <=> i \in DOMAIN e \/ i = n + 1
      BY <1>1
    <2>3. n + 1 \in DOMAIN later
      BY <1>1
    <2>4. ASSUME NEW i \in DOMAIN later, Starts(later[i], id)
          PROVE  id \in StartedOrders(e) \/ Starts(a, id)
      <3>1. CASE i \in DOMAIN e
        <4>1. later[i] = e[i]
          BY <1>1, <3>1
        <4> QED BY <2>1, <2>4, <3>1, <4>1
      <3>2. CASE i = n + 1
        BY <1>1, <2>4, <3>2
      <3> QED BY <2>2, <3>1, <3>2
    <2>5. ASSUME NEW i \in DOMAIN e, Starts(e[i], id)
          PROVE  id \in StartedOrders(later)
      <3>1. later[i] = e[i] /\ i \in DOMAIN later
        BY <1>1, <2>2
      <3> QED BY <2>1, <2>5, <3>1
    <2>6. Starts(a, id) => id \in StartedOrders(later)
      BY <1>1, <2>1, <2>3
    <2> QED BY <2>1, <2>4, <2>5, <2>6
  <1>3. /\ \A id : Starts(a, id) <=> Inbound(a) /\ a.message.type = "D" /\ id = a.message.order
        /\ \A id : id \in StartedOrders(later) <=> id \in StartedOrders(e) \/ Starts(a, id)
    BY <1>2 DEF Starts
  <1> QED BY <1>3

LEMMA StartedKept ==
    ASSUME NEW s, Auditable(s), ExchangeInv, HandoverInv, LineInv(s), ShapeInv(s), WorkInv(s),
           RegisterInv(s), StartedInv(s), [Serves]_vars
    PROVE  StartedInv(s)'
  <1>1. /\ OneLine(s) /\ PlansWork /\ Unmixed /\ NoDropOvertakes
        /\ s \in Sessions /\ log \in Seq(LogEntries) /\ DOMAIN responses \subseteq DOMAIN orders
        /\ out \in [Sessions -> Seq(Messages)]
        /\ at \in [Sessions -> {"none", "accepted", "logon", "turn", "receive",
                                "lookup", "accept", "cancel", "done"}]
        /\ request \in [Sessions -> Requests \cup {Nothing}]
    BY WayOfOneLine DEF Auditable, ExchangeInv, BooksInv
  <1>2. \A id : Accounted(s, id)' <=> \/ id \in DOMAIN orders'
                                      \/ at'[s] \in {"lookup", "accept"} /\ request'[s].order = id
                                      \/ \E m \in Reports' : RejectOf(m, id)
    BY DEF Accounted
  <1>3. ASSUME StartedOrders(log') = StartedOrders(log),
               \A id \in StartedOrders(log) : Accounted(s, id) => Accounted(s, id)'
        PROVE  StartedInv(s)'
    BY <1>3 DEF StartedInv
  <1>4. ASSUME LookUp(s) \/ AcceptNewOrder(s) \/ Cancel(s)
        PROVE  out[s] = <<>> /\ UNCHANGED <<hand, pending, log>>
    <2>1. at[s] \in {"lookup", "accept", "cancel"} /\ UNCHANGED <<hand, pending, log>>
      <3>1. CASE LookUp(s)
        BY <3>1, Zenon DEF LookUp
      <3>2. CASE AcceptNewOrder(s)
        BY <3>2, Zenon DEF AcceptNewOrder
      <3>3. CASE Cancel(s)
        BY <3>3, Zenon DEF Cancel
      <3> QED BY <1>4, <3>1, <3>2, <3>3
    <2> QED BY <1>1, <2>1 DEF HandoverInv
  <1>5. ASSUME NEW messages, Answers(s, messages), out[s] = <<>>, UNCHANGED <<hand, pending, log>>
        PROVE  Reports' = Reports \cup ToSet(messages)
    BY <1>1, <1>5, AnswersAdd
  <1>6. \A r, n : RejectOf(RejectedExecutionReport(r, n), r.order)
    BY DEF RejectOf, IsReport, RejectedExecutionReport, ExecutionReport, Message
  <1>7. ASSUME LookUp(s)
        PROVE  StartedInv(s)'
    <2> PICK id : id = request[s].order
      OBVIOUS
    <2>1. UNCHANGED <<orders, responses, log>> /\ out[s] = <<>>
      BY <1>4, <1>7 DEF LookUp, books
    <2>2. CASE id \in DOMAIN responses
      <3>1. Reports \subseteq Reports'
        BY <1>4, <1>5, <1>7, <2>2 DEF LookUp
      <3> QED BY <1>1, <1>2, <1>3, <2>1, <2>2, <3>1 DEF Accounted
    <2>3. CASE id \notin DOMAIN responses
      <3>1. out' = out /\ request' = request /\ at'[s] = "accept"
        BY <1>1, <1>7, <2>3 DEF LookUp
      <3>2. Reports' = Reports
        BY <1>4, <1>7, <3>1, ReportsRest
      <3> QED BY <1>2, <1>3, <2>1, <3>1, <3>2 DEF Accounted
    <2> QED BY <2>2, <2>3
  <1>8. ASSUME AcceptNewOrder(s)
        PROVE  StartedInv(s)'
    <2> PICK r : r = request[s]
      OBVIOUS
    <2>1. CASE Refuses(s, r)
      <3> PICK m : m = RejectedExecutionReport(r, nextExec)
        OBVIOUS
      <3>1. Reports' = Reports \cup {m} /\ UNCHANGED <<orders, log>>
        <4>1. Answers(s, <<m>>)
          BY <2>1 DEF Refuses
        <4> QED BY <1>4, <1>5, <1>8, <2>1, <4>1, SetsOfSequences DEF Refuses
      <3> QED BY <1>2, <1>3, <1>6, <3>1 DEF Accounted
    <2>2. ASSUME NEW order, NEW reports, Accepts(s, r, order, reports), Answers(s, reports)
          PROVE  StartedInv(s)'
      <3>1. Reports' = Reports \cup ToSet(reports) /\ log' = log
        BY <1>4, <1>5, <1>8, <2>2
      <3>2. DOMAIN orders' = DOMAIN orders \cup {r.order}
        BY <2>2 DEF Accepts
      <3> QED BY <1>2, <1>3, <3>1, <3>2 DEF Accounted
    <2> QED BY <1>1, <1>8, <2>1, <2>2, AcceptsOrRejects
  <1>9. ASSUME Cancel(s)
        PROVE  StartedInv(s)'
    <2>1. PICK m : Answers(s, <<m>>)
      BY <1>9 DEF Cancel
    <2>2. Reports \subseteq Reports' /\ log' = log /\ at[s] = "cancel"
      BY <1>4, <1>5, <1>9, <2>1 DEF Cancel
    <2>3. DOMAIN orders' = DOMAIN orders
      BY <1>9 DEF Cancel, ExchangeInv, BooksInv
    <2> QED BY <1>2, <1>3, <2>2, <2>3 DEF Accounted
  <1>10. ASSUME NEW r \in Requests, Receive(s, r)
         PROVE  StartedInv(s)'
    <2>1. PICK a \in LogEntries :
             /\ Inbound(a) /\ log' = Append(log, a)
             /\ a.message.order = r.order /\ a.message.type = r.type
      BY <1>1, <1>10, ReceiveLogs
    <2>2. Reports \subseteq Reports' /\ orders' = orders /\ at[s] = "receive"
      BY <1>1, <1>10, ReceiveAdds DEF Receive
    <2>3. \A id \in StartedOrders(log) : Accounted(s, id)'
      BY <1>2, <2>2 DEF StartedInv, Accounted
    <2>4. CASE r.type = "D"
      <3>1. StartedOrders(log') = StartedOrders(log) \cup {r.order}
        BY <1>1, <2>1, <2>4, StartedMore
      <3>2. Accounted(s, r.order)'
        <4>1. CASE r.valid
          <5>1. at'[s] = "lookup" /\ request'[s] = r
            BY <1>1, <1>10, <2>4, <4>1 DEF Receive
          <5> QED BY <1>2, <5>1
        <4>2. CASE ~r.valid
          <5> PICK m : m = RejectedExecutionReport(r, nextExec)
            OBVIOUS
          <5>1. out' = [out EXCEPT ![s] = <<m>>]
            BY <1>10, <2>4, <4>2 DEF Receive
          <5>2. m \in OutOf(s)'
            BY <1>1, <5>1, SetsOfSequences DEF OutOf
          <5>3. m \in Reports'
            BY <1>1, <5>2, PlacesOfReportsNext
          <5> QED BY <1>2, <1>6, <5>3
        <4> QED BY <4>1, <4>2
      <3> QED BY <2>3, <3>1, <3>2 DEF StartedInv
    <2>5. CASE r.type # "D"
      <3>1. StartedOrders(log') = StartedOrders(log)
        BY <1>1, <2>1, <2>5, StartedMore
      <3> QED BY <2>3, <3>1 DEF StartedInv
    <2> QED BY <2>4, <2>5
  <1>11. ASSUME Send(s) \/ Deliver(s)
         PROVE  StartedInv(s)'
    <2>1. UNCHANGED <<orders, at, request>> /\ Reports' = Reports
      BY <1>1, <1>11, SendLogs
    <2>2. StartedOrders(log') = StartedOrders(log)
      <3>1. CASE log' = log
        BY <3>1
      <3>2. ASSUME NEW a \in LogEntries, NEW b \in LogEntries, ~Inbound(a), ~Inbound(b),
                   log' = Append(log, a) \/ log' = Append(Append(log, a), b)
            PROVE  StartedOrders(log') = StartedOrders(log)
        <4> PICK once : once = Append(log, a)
          OBVIOUS
        <4>1. once \in Seq(LogEntries) /\ StartedOrders(once) = StartedOrders(log)
          BY <1>1, <3>2, StartedMore
        <4>2. StartedOrders(Append(once, b)) = StartedOrders(once)
          BY <3>2, <4>1, StartedMore
        <4> QED BY <3>2, <4>1, <4>2
      <3> QED BY <1>1, <1>11, <3>1, <3>2, SendLogs
    <2> QED BY <1>2, <1>3, <2>1, <2>2 DEF Accounted
  <1>12. ASSUME Quiet(s), ~(LookUp(s) \/ AcceptNewOrder(s))
         PROVE  StartedInv(s)'
    <2>1. Reports' = Reports /\ UNCHANGED <<orders, request, log>>
      BY <1>12, ReportsRest DEF Quiet, books
    <2>2. at[s] \in {"lookup", "accept"} => at'[s] = at[s]
      BY <1>1, <1>12, NobodyInterrupts
    <2> QED BY <1>2, <1>3, <2>1, <2>2 DEF Accounted
  <1> QED
    BY <1>1, <1>7, <1>8, <1>9, <1>10, <1>11, <1>12, StepsOfOneLine

-------------------------------------------------------------------------------
(* What the log tells of an order that the book never took                 *)

(* A reject of it that is in the log.                                      *)
RejectsIn(entries, id) ==
    {m \in {entry.message : entry \in ToSet(entries)} : RejectOf(m, id)}

Turned == <<Arc("NEW", "REJECT", "REJECTED")>>

(* Nothing has been rebuilt, or one reject, or there were two.             *)
NothingTold(entries, id) ==
    /\ RejectsIn(entries, id) = {}
    /\ \E p \in Nat : Reconstruct(entries, id) \in Made("NEW", <<>>, p, {})

OneReject(entries, id) ==
    \E n : /\ RejectsIn(entries, id) # {}
           /\ \A m \in RejectsIn(entries, id) : m.exec_id = n
           /\ \E p \in Nat : Reconstruct(entries, id) \in Made("REJECTED", Turned, p, {n})

TwoRejects(entries, id) == \E a, b \in RejectsIn(entries, id) : a.exec_id # b.exec_id

TurnedAway(entries, id) ==
    NothingTold(entries, id) \/ OneReject(entries, id) \/ TwoRejects(entries, id)

LEMMA RejectsMore ==
    ASSUME NEW e \in Seq(LogEntries), NEW a \in LogEntries, NEW id
    PROVE  /\ RejectOf(a.message, id) => RejectsIn(Append(e, a), id) = RejectsIn(e, id) \cup {a.message}
           /\ ~RejectOf(a.message, id) => RejectsIn(Append(e, a), id) = RejectsIn(e, id)
  <1> PICK S, T : /\ S = {x.message : x \in ToSet(e)}
                  /\ T = {x.message : x \in ToSet(Append(e, a))}
    OBVIOUS
  <1>1. T = S \cup {a.message}
    BY LoggedMore
  <1> QED BY <1>1 DEF RejectsIn

(* A reject ends a lifecycle that has not begun.                           *)
LEMMA RejectIsRead ==
    ASSUME NEW p \in Nat, NEW seen, NEW noted \in Made("NEW", <<>>, p, seen)
    PROVE  Applied(noted, "REJECT") \in Made("REJECTED", Turned, p, seen)
  <1> PICK t : t = TransitionFor("NEW", "REJECT")
    OBVIOUS
  <1>1. Permits("NEW", "REJECT")
    BY DEF Permits, TRANSITIONS, Arc
  <1>2. t \in TRANSITIONS /\ t.from = "NEW" /\ t.event = "REJECT"
    BY <1>1, TransitionForIsArc
  <1>3. t = Arc("NEW", "REJECT", "REJECTED") /\ t.to = "REJECTED"
    BY <1>2, ArcShape
  <1>4. Append(<<>>, t) = <<t>>
    OBVIOUS
  <1>5. Applied(noted, "REJECT") \in Made(t.to, Append(<<>>, t), p, seen)
    BY <1>1, AppliedMoves
  <1> QED BY <1>3, <1>4, <1>5 DEF Turned

(* Whatever is logged next: a request, a refusal, a reject or something    *)
(* of another order.                                                       *)
LEMMA EntryTurnsAway ==
    ASSUME NEW e \in Seq(LogEntries), NEW a \in LogEntries, NEW id, TurnedAway(e, id),
           NEW m, m = a.message,
           m.order = id => \/ Inbound(a) /\ m.type \in {"D", "F"}
                           \/ ~Inbound(a) /\ (m.type = "9" \/ RejectOf(m, id))
    PROVE  TurnedAway(Append(e, a), id)
  <1> PICK later, rebuilt, read, rejects : /\ later = Append(e, a)
                                           /\ rebuilt = Reconstruct(e, id)
                                           /\ read = Reconstruct(later, id)
                                           /\ rejects = RejectsIn(e, id)
    OBVIOUS
  <1>1. read = IF m.order = id THEN ReadRecord(rebuilt, a) ELSE rebuilt
    BY ReadsOn
  <1>2. /\ RejectOf(m, id) => RejectsIn(later, id) = rejects \cup {m}
        /\ ~RejectOf(m, id) => RejectsIn(later, id) = rejects
    BY RejectsMore
  <1>3. CASE TwoRejects(e, id)
    BY <1>2, <1>3 DEF TurnedAway, TwoRejects
  <1>4. ASSUME NEW p \in Nat, NEW state, NEW history, NEW seen,
               rebuilt \in Made(state, history, p, seen), ~RejectOf(m, id) \/ Inbound(a)
        PROVE  \E q \in Nat : read \in Made(state, history, q, seen)
    <2>1. CASE m.order # id
      BY <1>1, <1>4, <2>1
    <2>2. CASE m.order = id /\ Inbound(a)
      <3>1. read = ReadRecord(rebuilt, a) /\ p + 1 \in Nat
        BY <1>1, <2>2
      <3>2. \/ ReadRecord(rebuilt, a) \in Made(state, history, p + 1, seen)
            \/ ReadRecord(rebuilt, a) \in Made(state, history, p, seen)
        BY <1>4, <2>2, RequestIsRead
      <3> QED BY <1>4, <3>1, <3>2
    <2>3. CASE m.order = id /\ ~Inbound(a)
      <3>1. read = ReadRecord(rebuilt, a) /\ a.message.type = "9"
        BY <1>1, <1>4, <2>3
      <3>2. \E less \in Nat : ReadRecord(rebuilt, a) \in Made(state, history, less, seen)
        BY <1>4, <2>3, <3>1, RefusalIsRead
      <3> QED BY <3>1, <3>2
    <2> QED BY <2>1, <2>2, <2>3
  <1>5. CASE ~RejectOf(m, id)
    <2>1. RejectsIn(later, id) = rejects
      BY <1>2, <1>5
    <2>2. NothingTold(e, id) => NothingTold(later, id)
      BY <1>4, <1>5, <2>1 DEF NothingTold
    <2>3. OneReject(e, id) => OneReject(later, id)
      BY <1>4, <1>5, <2>1 DEF OneReject
    <2> QED BY <1>3, <2>2, <2>3 DEF TurnedAway
  <1>6. CASE RejectOf(m, id)
    <2>1. /\ RejectsIn(later, id) = rejects \cup {m} /\ read = ReadRecord(rebuilt, a)
          /\ ~Inbound(a) /\ m.type = "8" /\ m.event = "REJECT"
      BY <1>1, <1>2, <1>6 DEF RejectOf, IsReport
    <2>2. CASE NothingTold(e, id)
      <3>1. PICK p \in Nat : rebuilt \in Made("NEW", <<>>, p, {})
        BY <2>2 DEF NothingTold
      <3> PICK none, wider : none = {} /\ wider = {m.exec_id}
        OBVIOUS
      <3>6. /\ a.message.exec_id \notin none /\ wider = none \cup {a.message.exec_id}
            /\ rebuilt \in Made("NEW", <<>>, p, none)
            /\ a.message.type = "8" /\ ~Inbound(a) /\ a.message.event = "REJECT"
        BY <2>1, <3>1
      <3>7. \E noted \in Made("NEW", <<>>, p, wider) :
              TakenIn(ReadRecord(rebuilt, a), noted, a.message.event)
        BY <3>6, NewsIsRead
      <3>2. PICK noted \in Made("NEW", <<>>, p, wider) : read = Applied(noted, "REJECT")
        BY <2>1, <3>6, <3>7 DEF TakenIn
      <3>3. read \in Made("REJECTED", Turned, p, {m.exec_id})
        BY <3>2, RejectIsRead
      <3>4. RejectsIn(later, id) = {m}
        BY <2>1, <2>2 DEF NothingTold
      <3>5. OneReject(later, id)
        BY <3>3, <3>4 DEF OneReject
      <3> QED BY <3>5 DEF TurnedAway
    <2>3. CASE OneReject(e, id)
      <3>1. PICK n : /\ rejects # {} /\ \A x \in rejects : x.exec_id = n
                     /\ \E p \in Nat : rebuilt \in Made("REJECTED", Turned, p, {n})
        BY <2>3 DEF OneReject
      <3>2. CASE m.exec_id = n
        <4>1. PICK p \in Nat : rebuilt \in Made("REJECTED", Turned, p, {n})
          BY <3>1
        <4> PICK seen : seen = {n}
          OBVIOUS
        <4>4. rebuilt \in Made("REJECTED", Turned, p, seen) /\ a.message.exec_id \in seen
          BY <3>2, <4>1
        <4>5. ReadRecord(rebuilt, a) = rebuilt
          BY <2>1, <4>4, KnownIsRead
        <4>2. read = rebuilt
          BY <2>1, <4>5
        <4>3. OneReject(later, id)
          BY <2>1, <3>1, <3>2, <4>1, <4>2 DEF OneReject
        <4> QED BY <4>3 DEF TurnedAway
      <3>3. CASE m.exec_id # n
        <4>1. PICK x : x \in rejects
          BY <3>1
        <4>2. x \in RejectsIn(later, id) /\ m \in RejectsIn(later, id) /\ x.exec_id # m.exec_id
          BY <2>1, <3>1, <3>3, <4>1
        <4>3. TwoRejects(later, id)
          BY <4>2 DEF TwoRejects
        <4> QED BY <4>3 DEF TurnedAway
      <3> QED BY <3>2, <3>3
    <2> QED BY <1>3, <2>2, <2>3 DEF TurnedAway
  <1> QED BY <1>5, <1>6

(* What the log tells of orders that the book cannot hold.                 *)
TurnedInv == \A id : id \notin GoodIds => TurnedAway(log, id)

LEMMA TurnedKept ==
    ASSUME NEW s, Auditable(s), ExchangeInv, HandoverInv, ReportedInv, LineInv(s), ShapeInv(s),
           WorkInv(s), TurnedInv, [Serves]_vars
    PROVE  TurnedInv'
  <1>1. /\ OneLine(s) /\ NoDropOvertakes /\ s \in Sessions /\ log \in Seq(LogEntries)
    BY WayOfOneLine DEF Auditable
  <1>2. log' = log => TurnedInv'
    BY DEF TurnedInv
  <1>3. ASSUME NEW m \in Reports, IsReport(m), m.order \notin GoodIds
        PROVE  RejectOf(m, m.order)
    BY <1>3 DEF ReportedInv, AnnouncedInv, Announces, WorkInv, RejectOf
  <1>4. ASSUME NEW r \in Requests, Receive(s, r)
        PROVE  TurnedInv'
    <2>1. PICK a \in LogEntries :
             /\ Inbound(a) /\ log' = Append(log, a)
             /\ a.message.type \in {"D", "F"}
      BY <1>1, <1>4, ReceiveLogs
    <2>2. ASSUME NEW id, id \notin GoodIds
          PROVE  TurnedAway(Append(log, a), id)
      BY <1>1, <2>1, <2>2, EntryTurnsAway DEF TurnedInv
    <2> QED BY <2>1, <2>2 DEF TurnedInv
  <1>5. ASSUME Send(s) \/ Deliver(s)
        PROVE  TurnedInv'
    <2>1. ASSUME NEW a \in LogEntries, NEW b \in LogEntries, NEW m \in Reports,
                 a.message = m, ~Inbound(a), b.message = m, ~Inbound(b),
                 IsReport(m) \/ m.type = "9",
                 log' = Append(log, a) \/ log' = Append(Append(log, a), b)
          PROVE  TurnedInv'
      <3> SUFFICES ASSUME NEW id, id \notin GoodIds
                   PROVE  TurnedAway(log', id)
        BY DEF TurnedInv
      <3> PICK once : once = Append(log, a)
        OBVIOUS
      <3>1. m.order = id => m.type = "9" \/ RejectOf(m, id)
        BY <1>3, <2>1
      <3>2. once \in Seq(LogEntries) /\ TurnedAway(once, id)
        BY <1>1, <2>1, <3>1, EntryTurnsAway DEF TurnedInv
      <3>3. TurnedAway(Append(once, b), id)
        BY <2>1, <3>1, <3>2, EntryTurnsAway
      <3> QED BY <2>1, <3>2, <3>3
    <2> QED BY <1>1, <1>2, <1>5, <2>1, SendLogs
  <1>6. ASSUME Quiet(s) \/ LookUp(s) \/ AcceptNewOrder(s) \/ Cancel(s)
        PROVE  log' = log
    BY <1>6, Zenon DEF Quiet, LookUp, AcceptNewOrder, Cancel
  <1> QED BY <1>1, <1>2, <1>4, <1>5, <1>6, StepsOfOneLine

(* All that makes the log complete.                                        *)
CompleteInv(s) == TrailInv(s) /\ RegisterInv(s) /\ StartedInv(s) /\ TurnedInv

LEMMA CompleteKept ==
    ASSUME NEW s, Auditable(s), ExchangeInv, CompleteInv(s), [Serves]_vars
    PROVE  CompleteInv(s)'
  <1>1. TrailInv(s)'
    BY TrailKept DEF CompleteInv
  <1>2. RegisterInv(s)'
    BY RegisterKept DEF CompleteInv, Auditable
  <1>3. StartedInv(s)'
    BY StartedKept DEF CompleteInv, TrailInv
  <1>4. TurnedInv'
    BY TurnedKept DEF CompleteInv, TrailInv
  <1> QED BY <1>1, <1>2, <1>3, <1>4 DEF CompleteInv

LEMMA CompleteFirst ==
    ASSUME NEW s, Auditable(s), Init
    PROVE  CompleteInv(s)
  <1>1. /\ s \in Sessions /\ acceptor = "waiting" /\ log = <<>>
    BY DEF Auditable, OneLine, Init
  <1>2. RegisterInv(s)
    BY <1>1, SessionsAssumption DEF RegisterInv
  <1>3. StartedOrders(<<>>) = {}
    BY DEF StartedOrders
  <1>4. ASSUME NEW id
        PROVE  TurnedAway(<<>>, id)
    <2>1. RejectsIn(<<>>, id) = {}
      BY SetsOfSequences DEF RejectsIn
    <2>2. Reconstruct(<<>>, id) \in Made("NEW", <<>>, 0, {}) /\ 0 \in Nat
      BY NothingToRead, NothingMade
    <2> QED BY <2>1, <2>2 DEF TurnedAway, NothingTold
  <1> QED BY <1>1, <1>2, <1>3, <1>4, TrailFirst DEF CompleteInv, StartedInv, TurnedInv

(* Of an order that was not taken, and rejected once, the log tells so.    *)
LEMMA RejectedOrderIsOver ==
    ASSUME NEW s, Auditable(s), ExchangeInv, CompleteInv(s), Settled,
           NEW id \in StartedOrders(log), id \notin DOMAIN orders, ~RejectedTwice(id)
    PROVE  /\ Reconstruct(log, id).valid /\ Reconstruct(log, id).history # <<>>
           /\ Reconstruct(log, id).state = "REJECTED"
  <1> PICK rebuilt : rebuilt = Reconstruct(log, id)
    OBVIOUS
  <1>1. s \in Sessions /\ at[s] \notin {"lookup", "accept"}
    BY DEF Auditable, OneLine, Settled
  <1>2. PICK m \in Reports : RejectOf(m, id)
    BY <1>1 DEF CompleteInv, StartedInv, Accounted
  <1>3. id \notin GoodIds
    BY <1>2 DEF CompleteInv, TrailInv, WorkInv, RejectOf
  <1>4. m \in RejectsIn(log, id)
    <2>1. m \in Logged
      BY AllIsLogged DEF Auditable, CompleteInv, TrailInv
    <2> QED BY <1>2, <2>1 DEF Logged, RejectsIn
  <1>5. ~TwoRejects(log, id)
    <2>1. ASSUME NEW x \in RejectsIn(log, id)
          PROVE  \E i \in DOMAIN log : log[i].message = x /\ RejectOf(x, id)
      BY DEF RejectsIn, ToSet
    <2> QED BY <2>1 DEF TwoRejects, RejectedTwice, RejectOf
  <1>6. OneReject(log, id)
    BY <1>3, <1>4, <1>5 DEF CompleteInv, TurnedInv, TurnedAway, NothingTold
  <1>7. PICK p, n : rebuilt \in Made("REJECTED", Turned, p, {n})
    BY <1>6 DEF OneReject
  <1>8. rebuilt.valid /\ rebuilt.history = Turned /\ rebuilt.state = "REJECTED"
    BY <1>7, MadeHas
  <1>9. Turned # <<>>
    BY DEF Turned
  <1> QED BY <1>8, <1>9

LEMMA SettledLogIsComplete ==
    ASSUME NEW s, Auditable(s), ExchangeInv, CompleteInv(s), Settled,
           \A id \in StartedOrders(log) : ~RejectedTwice(id)
    PROVE  CheckCompleteness(log, orders)
  <1>1. ASSUME NEW id \in DOMAIN orders
        PROVE  /\ CrossCheck(log, id, orders[id])
               /\ Reconstruct(log, id).valid /\ Reconstruct(log, id).history # <<>>
               /\ Reconstruct(log, id).state = orders[id].state
    BY SettledOrdersCheck DEF CompleteInv
  <1>2. ASSUME NEW id \in StartedOrders(log)
        PROVE  /\ Reconstruct(log, id).valid /\ Reconstruct(log, id).history # <<>>
               /\ \/ Reconstruct(log, id).state \in TERMINAL_STATES
                  \/ ExplicitlyOpen(Reconstruct(log, id), id, orders)
    <2>1. CASE id \in DOMAIN orders
      BY <1>1, <2>1 DEF ExplicitlyOpen
    <2>2. CASE id \notin DOMAIN orders
      BY <2>2, RejectedOrderIsOver DEF TERMINAL_STATES
    <2> QED BY <2>1, <2>2
  <1> QED BY <1>1, <1>2 DEF CheckCompleteness

(* AuditMatchesBook: for any number of orders, requests and retries over   *)
(* one connection, whatever is dropped, duplicated or swapped, and however *)
(* cancels interleave with reports held back, the lifecycle rebuilt from   *)
(* the log alone is the one in the order book.                             *)
THEOREM LogTellsTheBook ==
    ASSUME NEW s, Auditable(s)
    PROVE  Spec => []AuditMatchesBook
  <1>1. Init => TrailInv(s)
    BY TrailFirst
  <1>2. ExchangeInv /\ TrailInv(s) /\ [Next]_vars => TrailInv(s)'
    BY TrailKept, NextServes
  <1>3. ExchangeInv /\ TrailInv(s) => AuditMatchesBook
    BY SettledOrdersCheck DEF AuditMatchesBook
  <1> QED BY <1>1, <1>2, <1>3, ExchangeInvHolds, PTL DEF Spec

(* AuditIsComplete: nor is an order missing from the log that was asked    *)
(* for, or one without an end that the book does not hold open, whether it *)
(* was accepted or rejected, as long as none was rejected twice.           *)
THEOREM LogIsComplete ==
    ASSUME NEW s, Auditable(s)
    PROVE  Spec => []AuditIsComplete
  <1>1. Init => CompleteInv(s)
    BY CompleteFirst
  <1>2. ExchangeInv /\ CompleteInv(s) /\ [Next]_vars => CompleteInv(s)'
    BY CompleteKept, NextServes
  <1>3. ExchangeInv /\ CompleteInv(s) => AuditIsComplete
    BY SettledLogIsComplete DEF AuditIsComplete
  <1> QED BY <1>1, <1>2, <1>3, ExchangeInvHolds, PTL DEF Spec

===============================================================================
