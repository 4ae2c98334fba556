-------------------------------- MODULE SoakRun --------------------------------
(***************************************************************************)
(* SoakRunner.run of fixgateway/reporting/soak_runner.py: one loop that    *)
(* sends orders and cancels at a changing rate for a given time, and       *)
(* samples itself on the way.  The exchange keeps every order open until   *)
(* it is canceled, and may handle a request after the call has given up.   *)
(*                                                                         *)
(* Time counts whole ticks since started.  It passes in the calls and the  *)
(* naps; what the loop does between them takes none.                       *)
(***************************************************************************)
EXTENDS Integers, Sequences, FiniteSets, SequencesExt

CONSTANTS
    Duration,           \* duration_seconds
    SampleInterval,     \* sample_interval_seconds
    RequestGap, BurstGap,      \* between requests: 1 / rate
    BurstPercent,       \* burst_fraction
    LongestNap,         \* 0.05 s
    Overrun,            \* a nap lasts so much too long at most (bound)
    LongestCall         \* the client's timeout; connect() takes that at most too

ASSUME SoakConfigAssumption ==
    /\ Duration \in Nat \ {0}
    /\ SampleInterval \in Nat \ {0}
    /\ RequestGap \in Nat \ {0} /\ BurstGap \in 1 .. RequestGap
    /\ BurstPercent \in 0 .. 49

ASSUME SoakTimesAssumption ==
    LongestNap \in Nat \ {0} /\ Overrun \in Nat /\ LongestCall \in Nat

VARIABLES
    now,
    next_sample, next_request,
    rolling,            \* how many latencies are in rolling_latencies
    samples,
    errors,             \* how many
    resting_orders,     \* order numbers
    total_requests, submitted_orders, canceled_orders,
    order_number, cancel_number,
    calling,            \* the request in progress, or NoCall
    finished,           \* run() has returned its result
    unhandled,          \* requests sent that the exchange has not handled
    open                \* orders open at the exchange

runnerVars == <<now, next_sample, next_request, rolling, samples, errors,
                resting_orders, total_requests, submitted_orders, canceled_orders,
                order_number, cancel_number, calling, finished>>

soakVars == <<runnerVars, unhandled, open>>

countVars == <<total_requests, submitted_orders, canceled_orders>>

numberVars == <<order_number, cancel_number>>

NoCall == [type |-> "none", order |-> 0]
Submission(number) == [type |-> "D", order |-> number]
Cancellation(number) == [type |-> "F", order |-> number]

SoakInit ==
    /\ now \in 0 .. LongestCall
    /\ next_sample = SampleInterval
    /\ next_request = 0
    /\ rolling = 0
    /\ samples = <<>>
    /\ errors = 0
    /\ resting_orders = <<>>
    /\ total_requests = 0 /\ submitted_orders = 0 /\ canceled_orders = 0
    /\ order_number = 0 /\ cancel_number = 0
    /\ calling = NoCall
    /\ finished = FALSE
    /\ unhandled = {}
    /\ open = {}

-------------------------------------------------------------------------------
AtLoopHead == calling = NoCall /\ ~finished

Running == AtLoopHead /\ now < Duration

Sample == [elapsed |-> now, completed |-> total_requests, window |-> rolling]

(* The first multiple of the interval, counted from next_sample, after now *)
NextSample == next_sample + SampleInterval * ((now - next_sample) \div SampleInterval + 1)

(* Mutant: the latencies of a window stay for the next one.                *)
TakeSampleKeeping ==
    /\ Running
    /\ now >= next_sample
    /\ samples' = Append(samples, Sample)
    /\ next_sample' = NextSample
    /\ UNCHANGED <<rolling, now, next_request, errors, resting_orders, countVars,
                   numberVars, calling, finished, unhandled, open>>

TakeSample ==
    /\ Running
    /\ now >= next_sample
    /\ samples' = Append(samples, Sample)
    /\ rolling' = 0
    /\ next_sample' = NextSample
    /\ UNCHANGED <<now, next_request, errors, resting_orders, countVars, numberVars,
                   calling, finished, unhandled, open>>

Nap(overrun) ==
    /\ Running
    /\ now < next_sample
    /\ now < next_request
    /\ now' = now + overrun
                   + (IF next_request - now < LongestNap
                      THEN next_request - now ELSE LongestNap)
    /\ UNCHANGED <<next_sample, next_request, rolling, samples, errors, resting_orders,
                   countVars, numberVars, calling, finished, unhandled, open>>

InBurst ==
    \/ now * 100 < Duration * BurstPercent
    \/ now * 100 >= Duration * (100 - BurstPercent)

Due ==
    /\ Running
    /\ now < next_sample
    /\ now >= next_request
    /\ next_request' = now + (IF InBurst THEN BurstGap ELSE RequestGap)

Request(request) ==
    /\ calling' = request
    /\ unhandled' = unhandled \cup {request}

SendCancel ==
    /\ Due
    /\ resting_orders # <<>>
    /\ resting_orders' = Tail(resting_orders)
    /\ cancel_number' = cancel_number + 1
    /\ Request(Cancellation(Head(resting_orders)))
    /\ UNCHANGED <<now, next_sample, rolling, samples, errors, countVars, order_number,
                   finished, open>>

(* Mutant: orders are sent whether one rests or not.                       *)
SendNewOrderAlways ==
    /\ Due
    /\ order_number' = order_number + 1
    /\ Request(Submission(order_number'))
    /\ UNCHANGED <<now, next_sample, rolling, samples, errors, resting_orders, countVars,
                   cancel_number, finished, open>>

SendNewOrder ==
    /\ Due
    /\ resting_orders = <<>>
    /\ order_number' = order_number + 1
    /\ Request(Submission(order_number'))
    /\ UNCHANGED <<now, next_sample, rolling, samples, errors, resting_orders, countVars,
                   cancel_number, finished, open>>

(* The exchange answers; the answer reaches the call if that still waits.  *)
Handle(request) ==
    /\ request \in unhandled
    /\ unhandled' = unhandled \ {request}
    /\ open' = IF request.type = "D" THEN open \cup {request.order} ELSE open \ {request.order}
    /\ UNCHANGED runnerVars

CallReturns(took) ==
    /\ calling # NoCall
    /\ calling \notin unhandled
    /\ IF calling.type = "D"
       THEN /\ resting_orders' = Append(resting_orders, calling.order)
            /\ submitted_orders' = submitted_orders + 1
            /\ UNCHANGED canceled_orders
       ELSE /\ canceled_orders' = canceled_orders + 1
            /\ UNCHANGED <<resting_orders, submitted_orders>>
    /\ total_requests' = total_requests + 1
    /\ rolling' = rolling + 1
    /\ calling' = NoCall
    /\ now' = now + took
    /\ UNCHANGED <<next_sample, next_request, samples, errors, numberVars, finished,
                   unhandled, open>>

(* Mutant: a failed request counts as a request.                           *)
CallRaisesCounted(took) ==
    /\ calling # NoCall
    /\ errors' = errors + 1
    /\ total_requests' = total_requests + 1
    /\ calling' = NoCall
    /\ now' = now + took
    /\ UNCHANGED <<next_sample, next_request, rolling, samples, resting_orders,
                   submitted_orders, canceled_orders, numberVars, finished, unhandled, open>>

(* Mutant: a call waits for its answer without a timeout.                  *)
CallRaisesOnAnswer(took) ==
    /\ calling # NoCall
    /\ calling \notin unhandled
    /\ errors' = errors + 1
    /\ calling' = NoCall
    /\ now' = now + took
    /\ UNCHANGED <<next_sample, next_request, rolling, samples, resting_orders, countVars,
                   numberVars, finished, unhandled, open>>

(* The call times out or the connection fails, whatever the exchange did.  *)
CallRaises(took) ==
    /\ calling # NoCall
    /\ errors' = errors + 1
    /\ calling' = NoCall
    /\ now' = now + took
    /\ UNCHANGED <<next_sample, next_request, rolling, samples, resting_orders, countVars,
                   numberVars, finished, unhandled, open>>

Finish ==
    /\ AtLoopHead
    /\ now >= Duration
    /\ samples' = IF rolling > 0 \/ samples = <<>> THEN Append(samples, Sample) ELSE samples
    /\ finished' = TRUE
    /\ UNCHANGED <<now, next_sample, next_request, rolling, errors, resting_orders,
                   countVars, numberVars, calling, unhandled, open>>

RunnerStep ==
    \/ TakeSample
    \/ \E overrun \in 0 .. Overrun : Nap(overrun)
    \/ SendCancel
    \/ SendNewOrder
    \/ \E took \in 0 .. LongestCall : CallReturns(took) \/ CallRaises(took)
    \/ Finish

SoakNext == RunnerStep \/ \E request \in unhandled : Handle(request)

SoakSpec == SoakInit /\ [][SoakNext]_soakVars /\ WF_soakVars(RunnerStep)

-------------------------------------------------------------------------------
Completed(i) == IF i = 0 THEN 0 ELSE samples[i].completed

InProgress == IF calling = NoCall THEN 0 ELSE 1

(* Every request answered is in the window of exactly one sample: a        *)
(* sample's window is what was completed since the sample before it, the   *)
(* latencies kept are those completed since the last one, and the result   *)
(* leaves none out.  The figures of a soak that stalls, fails or ends      *)
(* between two samples are then of the requests they claim.                *)
WindowsPartition ==
    /\ \A i \in DOMAIN samples : samples[i].completed - Completed(i - 1) = samples[i].window
    /\ finished => samples # <<>> /\ Completed(Len(samples)) = total_requests
    /\ ~finished => total_requests - Completed(Len(samples)) = rolling

(* Every request attempted is counted once: completed, failed or still in  *)
(* progress; and the completed ones are the submissions and the cancels.   *)
AttemptsAddUp ==
    /\ order_number + cancel_number = total_requests + errors + InProgress
    /\ total_requests = submitted_orders + canceled_orders

(* A soak does not fill the exchange with orders: those open there, and    *)
(* those that a request nobody waits for may still open, are at most one   *)
(* more than the errors it reports.  (A cancel that fails is not sent      *)
(* again, and an order whose submission failed is never canceled.)         *)
OpenOrdersBounded ==
    Cardinality(open) + Cardinality({r \in unhandled : r.type = "D"}) <= errors + 1

(* A run that has sent its first order ends, whether the exchange answers  *)
(* or not.                                                                 *)
SoakEnds == (order_number > 0) ~> finished

===============================================================================
