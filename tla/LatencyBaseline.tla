---------------------------- MODULE LatencyBaseline ----------------------------
(***************************************************************************)
(* fixgateway/reporting/latency.py and run_latency_check.py: a check       *)
(* measures latencies, takes their percentiles and compares the p99 with   *)
(* the one a file holds, or writes the file.  Checks run one after the     *)
(* other and share only the file; a check may be killed at any point, and  *)
(* the file is written in place: opened (and emptied), then filled.        *)
(*                                                                         *)
(* Latencies are whole; percentiles are in thousandths of their unit,      *)
(* where the interpolation between two whole samples is exact.             *)
(***************************************************************************)
EXTENDS Integers, Sequences, FiniteSets, SequencesExt

CONSTANTS
    Latencies,          \* what may be measured
    MaxOrders,          \* orders a check measures at most (bound)
    RegressionNum, RegressionDen,   \* regression_threshold
    MaxChecks           \* checks begun (bound)

ASSUME LatenciesAssumption == Latencies \subseteq Nat

ASSUME MaxOrdersAssumption == MaxOrders \in Nat \ {0}

ASSUME RegressionAssumption ==
    RegressionNum \in Nat /\ RegressionDen \in Nat \ {0}

VARIABLES
    order_count,    \* of the check that runs
    latencies,      \* its samples_ms so far
    stage,          \* where that check is
    outcome,        \* how the last check to end did
    file,           \* the baseline on disk
    checks,         \* begun so far
    established     \* the samples the file was last written from as a whole

latencyVars == <<order_count, latencies, stage, outcome, file, checks, established>>

Absent == [state |-> "absent"]
Torn == [state |-> "torn"]      \* empty, or the beginning of the JSON text
Saved(p99) == [state |-> "saved", p99 |-> p99]

LatencyInit ==
    /\ order_count = 1
    /\ latencies = <<>>
    /\ stage = "idle"
    /\ outcome = "none"
    /\ file = Absent
    /\ checks = 0
    /\ established = <<>>

-------------------------------------------------------------------------------
Below(samples, value) == {i \in DOMAIN samples : samples[i] < value}
UpTo(samples, value) == {i \in DOMAIN samples : samples[i] <= value}

(* sorted(samples): in place k the sample that less than k samples are     *)
(* below, and no less than k do not exceed.                                *)
Ordered(samples) ==
    [k \in DOMAIN samples |->
        CHOOSE value \in ToSet(samples) :
            /\ Cardinality(Below(samples, value)) < k
            /\ Cardinality(UpTo(samples, value)) >= k]

(* Mutant: n instead of n - 1 in the position.                             *)
PercentileFromOne(ordered, permille) ==
    LET position == Len(ordered) * permille
        lower == position \div 1000
        last == Len(ordered) - 1
        floor == IF lower > last THEN last ELSE lower
        above == IF floor = last THEN last ELSE floor + 1
    IN  ordered[floor + 1] * 1000
            + (ordered[above + 1] - ordered[floor + 1]) * (position % 1000)

(* _percentile, of a percentile in thousandths.  Python counts from 0.     *)
Percentile(ordered, permille) ==
    LET position == (Len(ordered) - 1) * permille
        lower == position \div 1000
        fraction == position % 1000
    IN  IF fraction = 0
        THEN ordered[lower + 1] * 1000
        ELSE ordered[lower + 1] * 1000
                + (ordered[lower + 2] - ordered[lower + 1]) * fraction

P50(samples) == Percentile(Ordered(samples), 500)
P99(samples) == Percentile(Ordered(samples), 990)
P999(samples) == Percentile(Ordered(samples), 999)

-------------------------------------------------------------------------------
StartCheck(orders) ==
    /\ stage = "idle"
    /\ checks < MaxChecks
    /\ checks' = checks + 1
    /\ order_count' = orders
    /\ latencies' = <<>>
    /\ stage' = "measuring"
    /\ outcome' = "none"
    /\ UNCHANGED <<file, established>>

(* An order of measure_orders is answered.                                 *)
Measure(latency) ==
    /\ stage = "measuring"
    /\ Len(latencies) < order_count
    /\ latencies' = Append(latencies, latency)
    /\ UNCHANGED <<order_count, stage, outcome, file, checks, established>>

Measured == stage = "measuring" /\ Len(latencies) = order_count

(* compare_latency_baseline that is to write: write_text opens the file.   *)
OpenBaseline(update) ==
    /\ Measured
    /\ update \/ file = Absent
    /\ file' = Torn
    /\ established' = <<>>
    /\ stage' = IF file = Absent THEN "creating" ELSE "updating"
    /\ UNCHANGED <<order_count, latencies, outcome, checks>>

FillBaseline ==
    /\ stage \in {"creating", "updating"}
    /\ file' = Saved(P99(latencies))
    /\ established' = latencies
    /\ outcome' = IF stage = "creating" THEN "created" ELSE "updated"
    /\ stage' = "idle"
    /\ UNCHANGED <<order_count, latencies, checks>>

(* The file exists and does not parse.                                     *)
InvalidBaseline ==
    /\ Measured
    /\ file = Torn
    /\ outcome' = "invalid"
    /\ stage' = "idle"
    /\ UNCHANGED <<order_count, latencies, file, checks, established>>

Allowed(current, baseline) ==
    current * RegressionDen <= baseline * (RegressionDen + RegressionNum)

(* Mutant: a check that passes becomes the next baseline.                  *)
CompareRatcheting ==
    /\ Measured
    /\ file \notin {Absent, Torn}
    /\ outcome' = IF Allowed(P99(latencies), file.p99) THEN "compared" ELSE "regression"
    /\ file' = Saved(P99(latencies))
    /\ stage' = "idle"
    /\ UNCHANGED <<order_count, latencies, checks, established>>

Compare ==
    /\ Measured
    /\ file \notin {Absent, Torn}
    /\ outcome' = IF Allowed(P99(latencies), file.p99) THEN "compared" ELSE "regression"
    /\ stage' = "idle"
    /\ UNCHANGED <<order_count, latencies, file, checks, established>>

(* The process is killed: what it wrote stays.                             *)
Killed ==
    /\ stage # "idle"
    /\ stage' = "idle"
    /\ outcome' = "killed"
    /\ latencies' = <<>>
    /\ UNCHANGED <<order_count, file, checks, established>>

LatencyNext ==
    \/ \E orders \in 1 .. MaxOrders : StartCheck(orders)
    \/ \E latency \in Latencies : Measure(latency)
    \/ \E update \in BOOLEAN : OpenBaseline(update)
    \/ FillBaseline
    \/ InvalidBaseline
    \/ Compare
    \/ Killed

LatencySpec == LatencyInit /\ [][LatencyNext]_latencyVars

-------------------------------------------------------------------------------
AtMost(samples, value) == Cardinality({i \in DOMAIN samples : samples[i] * 1000 <= value})
AtLeast(samples, value) == Cardinality({i \in DOMAIN samples : samples[i] * 1000 >= value})

(* A percentile by rank: so many of the samples are on either side of it.  *)
Splits(samples, value, permille) ==
    /\ AtMost(samples, value) * 1000 > (Len(samples) - 1) * permille
    /\ AtLeast(samples, value) * 1000 > (Len(samples) - 1) * (1000 - permille)

(* Whatever the number of samples, one included, every percentile has its  *)
(* share of the samples below and above, and they come in order up to the  *)
(* largest sample.                                                         *)
PercentilesSplitTheSamples ==
    Measured =>
        /\ Splits(latencies, P50(latencies), 500)
        /\ Splits(latencies, P99(latencies), 990)
        /\ Splits(latencies, P999(latencies), 999)
        /\ P50(latencies) <= P99(latencies)
        /\ P99(latencies) <= P999(latencies)
        /\ P999(latencies) <= Ordered(latencies)[order_count] * 1000

(* A check that reports a comparison compared with a baseline that some    *)
(* check wrote as a whole and nobody has begun to write since, and passes  *)
(* exactly when its p99 is within the tolerance of that one: a run killed  *)
(* while it writes leaves nothing to compare with, and checks that pass    *)
(* never move the bar, however many of them get a little slower.           *)
ComparedWithAWholeBaseline ==
    outcome \in {"compared", "regression"} =>
        /\ established # <<>>
        /\ (outcome = "compared")
               <=> P99(latencies) * RegressionDen
                      <= P99(established) * (RegressionDen + RegressionNum)

===============================================================================
