# A verification project for fix-gateway-qa

The repository is a Python test bench for FIX 4.4 order flow: a mock exchange
that keeps orders and answers clients over TCP (with a chaos mode that drops,
duplicates and reorders its reports), a client that retries and deduplicates,
and tools that look at what happened: an audit of the message log, market-data
conformance checks, surveillance, latency and soak reports.  This directory
holds TLA+ models of it, the TLC runs that check them, and TLAPS proofs.

## 1. The system

| part | state it keeps | operations | interacts with |
|---|---|---|---|
| order state machine `exchange/state_machine.py` | state, history | `apply` | used by the book, the client and the audit |
| order book `exchange/order_book.py` | `_orders` | `accept_order`, `fill_order`, `auto_fill`, `cancel_order` | called by the exchange under `_lock`, by tests directly |
| mock exchange `exchange/mock_exchange.py` | the book, cached responses per ClOrdID, the one held report and its timer, connections, session threads, the message log | accept loop, one thread per session, timers, `start`, `stop` | sockets to clients; the log is read by the audit |
| FIX client `client/fix_client.py` | socket, kept messages, processed ExecIDs, a state machine per order | `connect`, `close`, `send_new_order` (and `_nowait`), `send_cancel`, `receive_message`, retries | the exchange, over TCP |
| audit trail `audit/audit_checker.py` | none | `reconstruct_order_history`, `cross_check_against_state_machine`, `check_completeness` | reads the log and the machines of the book |
| market data `marketdata/` | book per symbol, sequence numbers, stale flag | snapshot, incremental, replay, conformance | a feed of encoded messages |
| framing, encoding, validation `fix/` | receive buffer | `FixStreamReader.receive`, `encode`, `decode`, `validate` | client and exchange |
| precision `fix/precision.py` | none | tick rounding, notional, average price, PnL | none |
| surveillance `surveillance/` | none between calls; in a pass, a window and its count, or the orders it remembers | two detectors, each one pass over the events | none |
| reporting `reporting/` | a baseline file; the counters, queue and samples of a soak | latency percentiles and their comparison, soak, benchmark, report | drive client and exchange |
| demo `run_demo.py` | none | prints a tour | all of them |

**What is hard about it.**  The exchange has one thread per session plus the
accept thread, timer threads and the caller of `stop()`, and three locks.  The
book is changed under one lock, the reports about the change are sent after it
is released, the held report is taken under a second lock and delivered after
*that* is released, and every delivery and its log entry are made under a third.
A client sees drops, duplicates, replays, its own retries, answers that come after
it stopped waiting, and connections that fail half way; a batch runs many of them.
The reader of the stream is given it in pieces.  The audit has only the log, whose
times are read before the lock under which it is written.  The passes of the
surveillance and the loop of the soak carry figures along that must go on saying
what the events say.  `PROJECT.json` lists these hazards at their lines.

**What makes each part correct.**  The book: executed quantity, state and
history agree and never go back, whatever calls fail.  The exchange: every event
of an order is announced exactly once (one ExecID), a retry changes nothing, every
request is answered, `stop()` ends.
The client: never ahead of the book, in agreement with it once everything is
read, in whatever order; no call without end, no report of an order to somebody who
asked about another, none given out twice, nothing from a connection given up.  The stream: messages come out whole, once, in order.  The
wire format: a damaged message is refused.  The audit: the log tells the lifecycle
of the book, and an alarm about its order has a cause.  Surveillance: an alert for
exactly what the definition calls suspicious.  The reports: figures that add up,
over windows that leave nothing out, compared with a baseline that is whole.
The market-data replay: a book it vouches for is the publisher's and current,
and what was lost is reported.

## 2. Modules

| module | models | notes |
|---|---|---|
| `OrderLifecycle` | `state_machine.py` | table and `apply` as operators on any record with `state` and `history`; used by book, client and audit alike |
| `Orders` | the `Order` record, what a fill and a cancel do to it | no variables; what has to hold of one order |
| `OrderLedger` | nothing in particular | the abstract promise: an order opens once, executes up to its quantity, closes for good |
| `OrderBook` | `order_book.py` | `orders`, and `outcome` (how the last call ended); one action per method, one disjunct per way out |
| `MockExchange` | `mock_exchange.py` | see below |
| `MCMockExchange` | the requests of its small instances | |
| `FixFraming` | `framing.py` | `FixStreamReader` over a stream cut anywhere |
| `MessageStream` | nothing in particular | the abstract promise of a reader: what was written comes out, whole and in order, until the stream ends |
| `FixSession` | the connections of `fix_client.py`, with the session thread at their other end | connect, close, calls, orders nobody waits for, retries, replays, answers late or left unread |
| `ConcurrentOrders` | `send_orders_concurrently` | tasks and a semaphore over clients of `FixSession` |
| `MCOrderBook` | small instances of the book, the reader, the sessions and the batch | |
| `AuditTrail` | `_reconstruct`, the cross-check, the verdict of `check_completeness` | a fold over log entries |
| `AuditedExchange` | composes `MockExchange` and `AuditTrail` | the audit of a running exchange |
| `MessageLog` | `_record` between clock and lock, the audit's sort by time and its ordering issues | uses `AuditTrail` |
| `WireFormat` | `message.py`, both integrity checks of `validator.py` | bytes |
| `Precision` | `precision.py` | integers in a common unit; the average and `pnl()` are rounded to the digits of their contexts |
| `CancelRatio`, `RapidCancels` | the two detectors of `pattern_detector.py` | one action per iteration of the pass |
| `LatencyBaseline` | `latency.py`, `run_latency_check.py` | checks that share a file, and may be killed |
| `SoakRun` | `SoakRunner.run` | one action per way through the loop |
| `MCAudit` | small instances of the audited exchange and of the tools | |
| `Gateway` | `fix_client.py` in front of `MockExchange` | adds clients and the bytes on their way |
| `MCGateway` | its small instances | |
| `MarketDataBook` | `book_reconstructor.py` | what a message does to a book, as operators; no variables |
| `MarketDataReplay` | `conformance_checker.py`, `feed_replay` | a publisher (external), the loop over what is delivered |
| `FeedView` | nothing in particular | the abstract promise of a consumer: follow, lose one's place, resync from a full message |
| `MCMarketData` | its small instance | |
| `OrderProofs`, `OrderBookProofs`, `MockExchangeProofs`, `GatewayProofs`, `FixProofs`, `ToolProofs`, `MarketDataProofs`, `AuditProofs` | proofs | section 5 |

**MockExchange.**  `at[s]` is where the thread of session `s` is: `none`,
`accepted` (by the accept thread, not yet registered), `logon`, `turn` (about to
look at the stop event), `receive`, `lookup`, `accept`, `cancel`, `done`.
`out[s]` are the reports it has still to send, `hand[t]` the deliveries a thread
(session, timer or the one in `stop()`) has taken under `_delivery_lock` and not
yet made, `pending` is `_pending_delivery`, `log` the message log.  Actions:

| action | code |
|---|---|
| `AcceptConnection`, `Register`, `AcceptorExits` | `_accept_loop`, split where it takes `_lock` |
| `Logon`, `Listen`, `SessionEnds` | `_handle_connection`: its first message, a turn of the loop, its `finally` |
| `Receive` | `_receive` and the validation at the head of both handlers |
| `LookUp`, `AcceptNewOrder` | the two locked blocks of `_handle_new_order`; a duplicate, or an order of nothing (which `validate` lets pass), makes `accept_order` raise |
| `Cancel` | `_handle_cancel` |
| `DropReport`, `SendDirectly`, `HoldBack`, `SendWithHeld` | `_send` with `_deliver_with_optional_reordering` up to the release of the delivery lock, one action per way out |
| `HoldExpires` | `_flush_pending_delivery` in a timer, up to the same point |
| `Deliver` | `_deliver`: `sendall`, the duplicate, the log entries |
| `Stop`, `StopFlush`, `StopClose`, `StopJoin`, `Start` | `stop()` between its locks, `start()` |

A block under a lock is one step: the only nesting is `_socket_send_lock` around
`_lock` (in `_record`), never the other way round, so no block waits for another
half way.  `Deliver` is one step because the duplicate and both log entries are
made under the one `_socket_send_lock`; that another thread may log
`RECEIVED` or `DROPPED` in between only permutes entries of different kinds.
Chaos is a free choice at each report (every probability may be anything), the
delays of the code are the interleavings.

**Data.**  Quantities are whole units (4 for an order, so that the built-in
fill strategies divide it); prices, symbols and sides take no part in any branch
modelled and are left out.  A request is a record with its type, ClOrdID, the
order it is about, its quantity and whether `validate` accepts it.  A report
carries what happened (`ExecType`), its ExecID and its order.  ExecIDs are drawn
from one counter, as in the code (which also draws exchange order IDs from it;
only uniqueness and order matter).

**Gateway.**  A client is single threaded.  What it was sent is read off the log
(`OnWire`, `Unread`), in log order, because delivery and log entry share a lock.  `Call`
covers `send_new_order` and `send_cancel`, `Attempt` the `sendall` and the search
of the kept messages, `Read` one message off the wire (dropped, kept, or the
answer), `Timeout` the retry or `FixRetriesExhaustedError`, `ConnectionLost` the
end of the stream.  A time out may happen whenever nothing is there to read.

**FixFraming.**  `stream` is what was written, `taken` how much of it the reader has
been given, `readerBuffer` what it keeps.  `CallReceive` begins a call, `CutMessage` is the
search for a whole message (with `Trimmed`, the dropping of what cannot start
one), `TakeChunk` a `recv` of any size up to `ReadSize`, `RecvTimesOut` and
`EndOfStream` its two other results.  The writer may put noise before the
first message and the connection may break anywhere.

**FixSession.**  A connection is a numbered pair of queues; `connection[c]` is the
client's socket, `phase[c]` what it waits for, `kept[c]` the messages it keeps for
later calls.  `Connect` opens a connection and sends the Logon,
`LogonAnswered`, `LogonTimesOut` and `FindsClosed` are the ways `connect()` ends:
the second leaves the socket in place (`fix_client.py:114`).  `SendRequest` and
`CallTimesOut` are a call and its retry, `SendNoWait` a `send_new_order_nowait`,
`ReadReply` the filter on ClOrdID, `TakeMessage` a `receive_message`,
`CloseConnection` what `close()` forgets.  The session thread (`TakeLogon`, `Serve`,
`PeerCloses`) sends the reports of an order one by one, the ACK and one per fill
(`ReportsOf`, `mock_exchange.py:506-527`), and of an order sent again the same
reports with the same ExecIDs (`:490-493`); chaos may drop any of them.  A request
of another type gets a session-level reject.  `part` tells the reports of an order
apart, as the ExecID does; a client skips those it has processed (`known`).  What
chaos sends twice would be skipped in the same way and is left to `Gateway`.
A call reads one report, so that the others of its order stay to be read by
whatever comes next; `unread` is the connections on which something may be left.

**ConcurrentOrders.**  `Enter` is a task that is past the semaphore and connects,
`EnterRefused` and `EnterFails` a `connect()` that raises before or after the
socket is stored, `SendOrder` and `Leave` the body of the `with` block and its
end, `Gather` the results or the first exception, and `Abandon` what becomes of the tasks
still waiting after one.

**MessageLog.**  `ReadClock` and `AppendEntry` are the two halves of `_record`,
`Tick` the clock, which may show several readers one time.  `ReconstructByTime`
is the audit's view (sorted by time, ties in log order: `PlaceInTime` says which
entry a stable sort puts where), `OverallIssues` and `OrderIssues` its two
complaints.

**WireFormat, Precision.**  `Encode`, `Decoded` and both checkers follow the code
byte by byte, since what is at stake is where a field begins and ends; `Damage`
changes, loses or doubles any one byte.  A price is a whole number of some unit, as
every finite Decimal is.  What the code computes from it may have digits below that
unit: `Rounded` is a quotient as a context keeps it, an amount of tenths,
hundredths and so on (`LastDigit`), half to even, with as many digits as fit below
ten to the context's precision.  `Average` is the division in the context of 50
digits (`AverageLimit`; `precision.py:73-75`), `PnL` the subtraction and the
multiplication in the default one of 28 (`WorkingLimit`; line 99), each rounded.
The totals (lines 66-67) are exact as long as they fit (`SumsFit`).

**CancelRatio, RapidCancels.**  The pass and, beside it, all events read so far.
`ReadEvent`, `Slide` and `Judge` are the three parts of one iteration;
`SeePlace`, `SeeFill`, `SeeCancel` and `SeeStrayCancel` the branches of the other
loop.  The properties are stated over the events alone.

**LatencyBaseline.**  `StartCheck`, `Measure` and `Measured` are the measurement,
`OpenBaseline` and `FillBaseline` the two steps of `write_text`, between which
`Killed` leaves an empty or torn file; `Compare` and `InvalidBaseline` are the
ways a comparison ends.  `Ordered` is the sorted samples, each at its rank.

**SoakRun.**  `TakeSample`, `Nap`, `SendCancel` and `SendNewOrder` are what a turn
of the loop may do; a request ends in `CallReturns` or `CallRaises`, at once or
later, and the exchange may `Handle` it at any time, also after the call gave up.
`Finish` is the last sample and the result.

**MarketDataReplay.**  `published[s]` is what the publisher has sent about a
symbol, with the book it had after each message: it deletes a level that becomes
empty, and may also send an incremental that fits no book (`PublishMisfit`).  The
replay's own state is `books`, `seen`, `highest_seen` and `result`, as in the code.
A message is delivered in any order, any number of times or never, intact or
damaged; the loop body has one action per way through it:

| action | `feed_replay` |
|---|---|
| `Undecodable`, `Corrupt`, `Aborts` | `FixDecodeError`; wrong checksum (marks stale the symbol it shows); any other exception, which ends the replay |
| `Duplicate`, `Late` | number seen before; number below the highest |
| `Snapshot` | reports the gap it closes, replaces the book |
| `Early`, `AfterGap`, `IgnoredWhileStale` | an incremental without a book, after a gap, for a stale book |
| `Incremental` | `apply_incremental`, on a copy; an update that raises marks the book stale |

## 3. Runs

Every passing run explores its state space completely.

| run | instance | shows |
|---|---|---|
| `OrderBook` | the book: 2 orders, quantities 0..4 | type; executed quantity, state and history agree; nothing is taken back; failures are harmless; implements `OrderLedger` |
| | the reader: 2 texts, 2 kinds of noise, chunks up to 10 bytes, 2 writes | implements `MessageStream`; nothing written is lost, and a cut stream is reported as cut |
| | a client: 2 connections, 2 sends, with and without a ClOrdID or waiting, an order of 2 reports and one that is refused | connections are kept apart; answers belong to their requests; no report is given out twice |
| | a batch: the same 2 orders, 1 retry, a limit of 1 or 2 | results and sockets are accounted for; the batch ends |
| `ExchangeChaos` | 1 session, 1 timer, 5 kinds of request (the order, its cancel, two malformed ones, an order of nothing), resting orders and plans that overfill, underfill or fill too often, drop + hold | every event is announced by exactly one ExecID and is on its way or in the log, and an order left by a failing plan is never announced as live; a retry changes neither book nor cached answers |
| `ExchangeSessions` | 2 sessions, 1 timer, 3 requests, drop + hold | announcements as above, and `OrderLedger`, when sessions race and release each other's reports |
| `ExchangeStop` | 2 sessions, 1 timer, 2 requests, hold + hang-up + stop/start, fair, deadlock checked | requests are answered and nothing stays held; `stop()` ends, and so do all sessions |
| `AuditOneSession` | the exchange: 1 session, no timer, resting and two-step fills, drop + duplicate or duplicate + hold | the log rebuilds the book's history; `check_completeness` then finds nothing missing |
| | the log: 2 threads with 3 entries each, a clock of 3 times | an order served by one thread is rebuilt as recorded; an ordering alarm has a cause |
| | the wire: 2 messages, any byte changed to one of 8, lost or doubled | only the intact message is accepted, by both checkers |
| | prices -6..6, ticks 1..4, 2 fills of 1 or 2, an average of 3 digits, 2 elsewhere | rounding goes to the nearest tick, ties alike on both sides of zero; the average gives back the notional and settles the fills, but for the digits lost |
| | the detectors: up to 5 events in a window of 2; 4 events of 2 orders | alerts and matches are those of the definitions |
| | latency checks: 3 checks of up to 3 orders | percentiles split the samples; a comparison is with a whole baseline, which passing checks never move |
| | a soak of 6 ticks, a sample every 2, calls of up to 3, naps that overrun by 1 | attempts add up; windows partition them; open orders stay bounded by the errors; it ends |
| `GatewayCalls` | 1 client, 2 calls, 1 retry, drop + hold + stop, fair | the client never believes more than happened; every call ends |
| `GatewayClients` | 2 clients on 2 sessions, which may reconnect, hold | a client that has read everything agrees with the book about the orders it asked for over that connection |
| `MarketData` | 2 symbols, 3 messages of one and 1 of the other, 4 kinds of update, 2 levels | every book, stale or not, is one the publisher had; a book not marked stale includes the newest message seen; losses are reported; implements `FeedView` |

`OrderBook` and `AuditOneSession` explore several parts one beside the other: the
variable `part`, chosen at the start, says which one a behaviour is of, and the
others stay as they are.  The parts share no variable, so that each is explored
as it would be alone; a property of one part holds trivially of the others.

Bounds.  `MaxRequests` bounds the messages served, `MaxCalls` the calls made,
`Timers` the timer threads delivering at one moment, `MaxRetries` is the client's
own parameter, `MaxSeq` the messages published per symbol.  Two sessions are
enough for every race of two locked blocks, one held report is all the exchange
has room for, and three requests about one order are the order, its retry and its
cancel.  Three messages are the fewest with a gap between two others (received 1,
then 3, then 2 late); the second symbol is there for a damaged message that shows
the wrong one.

Of the tools: a chunk of at most 10 bytes (`ReadSize`) cuts both texts, which are
9 and 12 long, at every place, and two writes can share a chunk; two connections
and two sends are an answer that comes late, to the next call or after a
reconnect, and an order sent again while its second report is read, kept or on its
way (the user's own second send is what a retry would be, so that only the workers
retry by themselves); a limit of one makes a worker wait.  Two threads and three times are
enough for entries in the wrong order and for ties.  The stray bytes are those
the decoder or `int()` treats differently (SOH, `=`, digits, a blank, `_`, one
that is not ASCII).  Ticks up to four over prices up to six have ties, whole
quotients and rests on both sides of zero; three shares, of two fills, make an
average whose digits do not end, and two digits fewer than a difference or a product
of it needs.  Five events with equal times let
several leave a window of two at once.  Three checks are a baseline, one killed
while it writes another, and a comparison.  Six ticks with a sample every two let
a call of three skip a sample.

`ChaosModes` is the set of combinations of chaos (drop, duplicate, reorder) an
instance may run with, chosen at the start like the exchange's configuration;
`Faults` are what the world may do (`hangup`, `stop`).  All of them together
exceed what TLC can explore, so that the runs differ in them.  Runs without
deadlock checking stop because their requests, or messages, are used up.

**Runs that find a violation** show where the code does something else than its
documentation says:

| run | what happens |
|---|---|
| `OrderBookAtomic` | `accept_order` in partial mode without a quantity raises and leaves the order in the book (`order_book.py:129-130`, against the comment in line 134) |
| `ExchangeRace` | two sessions with the same ClOrdID both miss the cache; one is told the accepted order was rejected |
| `AuditReorder` | a dropped fill is logged while the ACK before it is held back; the log no longer makes up a lifecycle |
| `GatewayCancelRetry` | the answer to a cancel is lost, its retry is rejected |

**Limits of the passing runs**, found while bounding them.  A timer, or `stop()`,
that has taken the held report under `_delivery_lock` and not yet delivered it can
be overtaken by the next report of the same order (`mock_exchange.py:416-421`), so
that nothing here promises that the reports of one order leave in order: what holds
is that each is on its way or in the log once (`EveryEventIsReported`), and that a
client that has read them agrees with the book in whatever order they came
(`ClientAgrees`).  The audit does depend on the order: it is checked and proved
where nobody but the session thread releases what it held back, or nothing is held
back (`OneLine`).  Two sessions can
log the reports of one order in the other order than the book's steps
(`:526-527`, `:575`): the audit's properties are checked, and proved, for one
session.  A client that
closes, reconnects and retries while its first message is still being handled is
in the position of `ExchangeRace`: `ClientNeverAhead` is about clients that have
not been told so.  A malformed order is not remembered: sent twice, it is rejected
twice, with two ExecIDs, and the audit cannot rebuild a lifecycle with two
rejections (`:478-485`); `AuditIsComplete` leaves such orders out, and its theorem
those that are corrected and then taken.

**Mutants.**  For each property of each passing run the modules hold a changed
definition (marked "Mutant") that a plausible slip in the code would amount to;
substituted for the original, it makes TLC refute the property.

## 4. Fairness

Weak fairness of each thread's own steps (threads are scheduled), of each timer
(it fires), of `StopStep` (the caller of `stop()` runs on), of `SessionEnds` only
when the thread has a reason to leave (sockets have a 0.2 s timeout, so the loop
looks at the stop event), and, in `Gateway`, of the network and of a waiting
client, whose `recv` either returns or times out.  Nothing is assumed of
clients' requests, of new connections, of `Stop`, `Start`, hang-ups or faults.

The reader (`FramingFairness`): its caller calls again and it cuts what it can
(weakly fair), and of what keeps arriving some chunk is taken, though time-outs
may come in between (strongly fair).  A batch (`ConcurrentFairness`): every
worker runs on, its calls return or time out, and `gather` is resumed.  A soak:
the runner's own steps; a call ends because the client's calls do
(`GatewayCalls`), and nothing is assumed of the exchange.

## 5. Proofs

Each module declares what it assumes of its constants beside them, by name; where
nothing else is said below, that is that numbers are natural (or integer, for
prices), that sizes, limits and denominators are not zero, that the sums of the
fills fit the digits of the default context (`SumsFit`), and that a set is one of
those or a sequence one.  TLC evaluates every assumption on the instances of
section 3.

**The order book**, for any set of order IDs and any set of natural
quantities (`AmountsAssumption`, `NoQuantityAssumption`):

| theorem (`OrderBookProofs`) | says |
|---|---|
| `TypeCorrect` | `Spec => []TypeOK` |
| `FillsAlwaysAccounted` | `Spec => []FillAccounting` |
| `HistoriesAlwaysExplain` | `Spec => []HistoryExplainsState` |
| `OrdersAlwaysAdvance` | `Spec => OrdersOnlyAdvance` |
| `FailuresAlwaysHarmless` | `Spec => FailuresAreHarmless` |
| `BookImplementsLedger` | `Spec => ImplementsLedger` |

The inductive invariant is `GoodBook`: every order in the book is a `GoodOrder`,
that is, well typed, `FillsMatchState` and `HistoryExplains` together.  Neither
half is inductive alone: that a fill of what is left leads to FILLED needs the
state to be one that permits it, and that a cancel leaves a terminal order alone
needs the state to match the end of the history.  `OrderProofs` proves, about the
operators alone, that an acknowledgement makes a good order and that every
successful fill and every cancel, refused or not, turns a good order into a good
one that has `Advanced`; `OrderBookProofs` classifies every step of the book as
one that opens one order, changes one order to the result of a fill or cancel, or
changes nothing (`StepShape`), and the theorems follow from that classification.

**The mock exchange**, for any sessions, timers, chaos and faults, any requests
(`RequestsAssumption`: their quantities are natural numbers) and any fill plans
(`StrategiesAssumption`, `PlansAssumption`: sequences of natural numbers).  The
thread in `stop()` is none of the others (`ThreadsAssumption`), a session is not
called like a state of the accept thread (`SessionsAssumption`), and "nothing is
held" is no report (`NothingAssumption`):

| theorem (`MockExchangeProofs`) | says |
|---|---|
| `TypeCorrect` | `Spec => []TypeOK` |
| `RetriesChangeNothing` | `Spec => RetryChangesNothing` |
| `ExchangeImplementsLedger` | `Spec => ImplementsLedger` |
| `EventsAreReportedOnce` | `Spec => []EveryEventIsReported` |

`ExchangeInv` adds to the types that every order in the book is a `GoodOrder`, that
what is cached was accepted, and that a thread that handles a message has one.
The hard step is `AcceptNewOrder`, which fills a new order along a plan of any
length: the recursive function of `AfterFills` is shown to exist, and to have a
good order at every fill that `fill_order` takes, by the least plan position where
it would not (`FillsExist`, `FillsAreGood`; the library's induction theorems need
an operator as a parameter, its theorem on least elements, `WFMin`, does not).
Every other step leaves book and cache alone, or cancels one live order
(`StepShape`).

That every event is announced once needs two more invariants.  `HandoverInv` says
where reports cannot be: a session thread has sent all it had when it takes up a
message, and nothing is left in the hands of `stop()` when it closes connections;
without it a step that fills `out[s]` or `hand[t]` could overwrite a report.
`ReportedInv` adds to the property that an announcement is of an order in the book
and bears an ExecID already spent, and that what is cached has been sent, so that
what is announced next comes after everything before and a replay adds
nothing.  The property is a correspondence between the announced arcs of a history
and the reports under way or logged.  Steps of chaos, timers and `stop()` only move
reports from one place to another (`Reports` is the same set, but for reports
dropped, which are logged); an accepted order brings the correspondence of
its whole plan at once, a cancel one more pair.

**The client's view** (`GatewayProofs`), for any clients, connections, requests, retries,
chaos and faults:

| theorem | says |
|---|---|
| `ClientsAreNeverAhead` | `GatewaySpec => []ClientNeverAhead` |
| `ClientsAgree` | `GatewaySpec => []ClientAgrees` |

Both follow from `GatewayInv` (`GatewayInvHolds`), which adds to the invariants of the
exchange what a client knows.  Reports are numbered apart (`NumberedInv`), so that
an ExecID stands for one report; every message on a connection answers something
asked over it (`AskedInv`); of what a client has read no report went
unprocessed (`ReadInv`), and it processed nothing else (`ProcessedInv`).  The heart
is `FollowedInv`: a machine that was given some of an order's reports, each once, in
any order, is in the state those reports as a set lead to, with a history of their
events alone (`Follows`).  That is why drops, duplicates and swaps cannot lead a client
astray: the state of an order is a function of the set of its events (`StateOf`), since an
order that was filled was not canceled and its partial fills come before either
(`FilledOrCanceled`, `PartialFillsShow`).  A new report moves the machine to the
state of the larger set (`FollowsOn`); the set of all of them leads to the state of
the book (`AgreesInTheEnd`).

**The sessions of a client**, for any clients, requests, retries and connections:

| theorem (`FixProofs`) | says |
|---|---|
| `SessionTypes` | `SessionSpec => []SessionTypeOK` |
| `ConnectionsAreSeparate` | `SessionSpec => []ConnectionsKeptApart` |
| `CallsGetTheirAnswers` | `SessionSpec => []AnswersBelong` |
| `ReportsGivenOnce` | `SessionSpec => []GivenOnce` |
| `BatchesAreAccounted` | `ConcurrentSpec => []BatchAccounted` |

`SessionInv` says, client by client and connection by connection, that no two
clients share one, that what travels over a connection is marked as its own, and
that on a connection that is not in `unread` at most one message is under way, which
belongs to the wait in progress.  That last part is why an answer belongs to its
request; and why it may not where something is unread: after a time-out, after an
order with more reports than the one its call returned, or after
`send_new_order_nowait`.  There a call without a ClOrdID returns whatever comes
next, and one with a ClOrdID may be ended by the session-level reject of another
request, but never by the report of another order.

`OnceInv`, for `ReportsGivenOnce`: a report that was given to a caller is known,
what is kept is known and was not given, and no report is kept twice.  Every way to
hand out or keep a report moves one from "not known" to "known"; `close()` forgets
the messages kept, not the ExecIDs, which is what the mutant does and why a report
can then come again over a later connection.  How many reports an order has
(`ReportsOf`) is any number.

The batch adds `BatchInv`: per worker, what it is at and what its client is
therefore in the middle of (`WorkerInv`; a worker makes one call, so that nothing
on its connection is late and the answer it finds is its own); per pair of workers,
that the connection of a result is used by no other; and that those past the
semaphore are no more than the limit (`LimitKept`), counted as tasks, of which the
open sockets of workers that have not failed are a part.

**The reader** (`FixProofs`): `ReaderImplementsStream` (`FramingSpec =>
ImplementsStream`), for any size of `recv`, any texts that begin with
BeginString and that their first checksum ends (`WireTextsAssumption`, what
`encode` makes of values without SOH; the docstring of `FixStreamReader` excludes
others) and any noise that begins no message and ends none (`NoiseAssumption`).
`FramingInv` lays noise and texts end to end: the stream is that as far as it
arrived, the buffer the part of it from the last text returned, or from the start,
to what `recv` has returned.  Two lemmas carry the proof: a search for the end of a
message in what has arrived finds what it would find in the whole, or
nothing (`SameEnd`), so that a marker cut in two does no harm; and
trimming leaves a beginning of a text as it is and removes noise exactly
(`BufferTrims`), so that a message is cut where a text ends (`MessageIsCut`).

**The audit** (`AuditProofs`), of one connection, for any number of orders, requests,
retries and cancels:

| theorem | says |
|---|---|
| `LogTellsTheBook` | `Auditable(s)` implies `Spec => []AuditMatchesBook` |
| `LogIsComplete` | `Auditable(s)` implies `Spec => []AuditIsComplete` |

`Auditable(s)` is what the audit needs of the exchange, and each part of it is
there because the code breaks the property without it: one connection whose
reports nobody else releases (`OneLine(s)`; with two, section 3); a plan that is
filled to its end (`PlansWork`: after one that fails the book holds events
that no report tells of, `mock_exchange.py:511-524`); no ClOrdID that is rejected
and later taken (`Unmixed`: the audit takes both for one lifecycle); and not drops
and holding back together (`NoDropOvertakes`: `AuditReorder` is the
counterexample).  `AuditOneSession` runs under it.

The argument follows the log as it grows.  What has been rebuilt so far is a
beginning of the history in the book, up to the last report that is in the log
(`AuditInv`, `SoFar`), and the cancels still waited for are at least those being
handled or confirmed and not yet logged (`Enough`); that count is what keeps the
pairing of requests and confirmations right when cancels are repeated, refused or
cross a held report.  A next report continues the beginning only if every earlier one
of its order is in the log already: `ClosedInv` says that of everything on its way,
place by place in the line, whatever was swapped or replayed.  It rests on
`ShapeInv` (what the session has on its way is reports, or one refusal alone) and
`WorkInv` (what is in the book was answered, and is rejected nowhere).  Once all is
logged the beginning is the whole (`AllIsTold`).

For completeness, an order asked for is in the book, being handled, or rejected
(`StartedInv`; `RegisterInv` says that no session is thrown back while it handles a
request), and of one that the book never takes the log tells nothing, one reject or
several (`TurnedInv`).  The fold over the log never needs an induction over data:
it grows by one entry at a time (`ReconstructGoesOn`), which makes the system's own
steps the induction; that it depends on the entries read so far only is shown by the
least place where it would not (`ReadsAgree`).

**The log**, for any threads, entries and length of the clock (`ToolProofs`):
`EachThreadInOrder` (the entries of one thread are in order of
time), `NoFalseAlarm` (`LogSpec => []AlarmsHaveACause`) and
`SortingDisturbsNothing` (`LogSpec => []OwnOrdersRebuilt`).  The invariant adds what
is in between: a thread's stamp is the latest of its own, and, until two threads
meet between clock and lock, of all.  For the last, `NumberedInv` gives every entry
in the log its number among the entries its thread recorded; the place the sort puts
an entry at is counted, and comes out as that number, since the entries before it
in time are those before it in the record (`BehindCounted`, `Matched`).

**The detectors**, for any limits and any sequence of events
(`ToolProofs`): `RatiosAreExact` (`RatioSpec =>
[]AlertsAreTheSuspicious`) rests on the count being that of the cancels in the
window while the left end moves; `SpoofsAreFound` (`SpoofSpec =>
[]SpoofsAreTheRapidUnfilled`) on the pass remembering as unfilled exactly the
placements nothing has happened to.

**The figures** (`ToolProofs`):

| theorem | says | for any |
|---|---|---|
| `NoAttemptIsLost` | `SoakSpec => []AttemptsAddUp` | rates, times and failures |
| `SamplesCoverTheRun` | `SoakSpec => []WindowsPartition` | the same |
| `FewOrdersStayOpen` | `SoakSpec => []OpenOrdersBounded` | the same |
| `NoMoneyIsLost` | `PrecisionSpec => []MoneyIsKept` | prices, ticks, quantities, numbers of fills and digits of the two contexts |
| `BaselinesAreWhole` | `LatencySpec => []ComparedWithAWholeBaseline` | latencies, checks and moments at which one is killed |
| `PercentilesAreRanks` | `LatencySpec => []PercentilesSplitTheSamples` | latencies and numbers of them |

The first two follow from `CountsInv`, which is both with the types.  `OrdersInv` adds
that the runner knows of one order at most, in its queue or in the call in progress
(`OneKnown`), and that all others that are open or about to be opened are as many as
the errors reported, at most (`StrayBounded`).  `MoneyInv`
gives both realized amounts in terms of the totals; rounding is shown by the
quotient and rest of a division, for negative prices as well (`Rounds`).  Each of
the three roundings is off by half of its last digit at most (`RoundedWithin`).  For
the average that is within five units of the digit after its context's last,
relative to the notional, because its last digit is the finest that fits
(`AverageKeeps`); the errors of the difference and of the product come
on top, the first two once per share (`ThreeRoundings`, `AverageSettles`).
`LatencyInv` says that a file that is neither absent nor torn holds the p99 of a
check that was measured; while the file is open it is torn.  That a percentile
splits the samples is shown by rank: a sorted sequence has at every place a sample
with as many below it as its place says (`Ranked`, `InOrder`), and the
interpolated value lies between two neighbours (`Between`).

**The market-data replay**, for any symbols, levels, updates, numbers of
messages (`MaxSeqAssumption`) and natural sizes (`SizesAssumption`):

| theorem (`MarketDataProofs`) | says |
|---|---|
| `TypeCorrect` | `Spec => []TypeOK` |
| `BooksAreThePublishers` | `Spec => []BooksAsPublished` |
| `NoBookIsSecretlyBehind` | `Spec => []FreshIsCurrent` |
| `LossesAreReported` | `Spec => []EveryGapReported` |
| `ReplayImplementsFeedView` | `Spec => ImplementsFeedView` |

The inductive invariant adds to these properties `PublishedInOrder` (a published
book follows from the one before by the message, if it fits) and that no book is
ahead of the highest number seen.  None of them is inductive alone: an update
yields the publisher's book only because the book it was applied to was the
publisher's (`BooksAsPublished`) of exactly the message before (`FreshIsCurrent`);
that argument never looks into the fold over the entries, which both sides apply to
equal drafts.  `BookReplaced` and `MarkingIsGood` show once that every way through
the loop touches one symbol's book only, and puts a good one there.

Model-checked only:

* `OnlyTheIntactAccepted`: checksum, decimal numbers and the split into fields are
  folds over the bytes of arbitrary messages, and what they compute is an induction
  over data, which the provers cannot be given;
* everything about liveness: `NothingWrittenIsLost`, `BatchEnds`, `EverythingSettles`,
  `StopCompletes`, `CallsEnd`, `SoakEnds` (out of the prover's reach).

## 6. Not modelled, and what the models assume

* The clock of the log does not go back; sequence numbers and header fields are
  left out.
* The rules of `validate` for single fields (required tags, enumerations, numbers,
  dates): the models keep their verdict, valid or not.
* A session whose Logon does not come within 0.2 s ends; the models allow it
  where hang-ups are switched on.
* `stop()` joins the accept thread with a time limit; `Start` assumes it has gone.
* Quantities and prices so long that their sums, or the PnL of one of the fills, have
  more than the 28 digits of the default context (`SumsFit`); float rounding in percentiles and ratios; the `naive_` functions
  of `precision.py`, which are there to be wrong.
* `latency_samples` and `retry_attempts` of the client, the degradation figures of a
  soak, which are only read off at the end.
* Market data: the checksum records and error texts of `ConformanceResult`; that a
  publisher sends levels of size zero in incrementals (a snapshot drops such a
  level, an incremental keeps it); `stale_symbols` and `final_books`, which are read
  off `books` at the end.
* `benchmark_runner.py`, `report_generator.py`, `run_demo.py`: timing of other tools,
  HTML and a printed tour, without a decision of their own.

## 7. What could come next

Several sessions under the audit, with malformed orders corrected and sent again.
