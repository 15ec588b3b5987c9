----------------------------- MODULE QueryHistory -----------------------------
(***************************************************************************)
(* The Query Store poller and the durable baseline it keeps of a query.    *)
(*                                                                         *)
(* A poll stores its rows one after the other; a row with executions is    *)
(* then judged on the baseline read under one lock and folded into the     *)
(* baseline under another, so two pollers of a server, a prune and a crash *)
(* fall between the three.  query_id numbers the queries of ONE database,  *)
(* the baseline is kept per server: the pollers of two databases of a      *)
(* server fold different queries into one row.  Several plans of a query   *)
(* are several rows of one poll.                                           *)
(*                                                                         *)
(* The stored rows themselves are left out: the report's detector is applied *)
(* to the series they would make.                                          *)
(*                                                                         *)
(* Durations are small integers; means and sums of squares are counted in  *)
(* 1/Unit, which the products n(n-1) of 2..MaxSamples divide, so that the  *)
(* arithmetic is exact where the program rounds to f64.                    *)
(*                                                                         *)
(* Source: sentinel/src/poll/query_store.rs, the baseline and regression   *)
(* functions of storage.rs, baseline_trend_from of backend health/mod.rs.  *)
(***************************************************************************)
EXTENDS Integers, Sequences, SequencesExt, FiniteSetsExt

CONSTANTS
    Pollers,        \* pollers of one server
    Results,        \* what one poll may return: sequences of [dur, execs]
    OldLogs,        \* what earlier runs of the daemon may have folded
    Retention,      \* in clock ticks
    Unit,           \* what a millisecond is counted in
    MaxSamples,     \* bound: samples in the baseline
    MaxPolls,       \* bound: polls
    MaxTime         \* bound: the clock

\* What the constants are; Collectors assumes it.
QueryHistoryAssumption ==
    /\ Results \subseteq Seq([dur : Nat, execs : Nat])
    /\ OldLogs \subseteq Seq(Nat)
    /\ \A old \in OldLogs : Len(old) <= MaxSamples
    /\ Retention \in Nat /\ MaxSamples \in Nat /\ Unit \in Nat \ {0}
    /\ \A n \in 2..MaxSamples : \E k \in 1..Unit : Unit = k * (n * (n - 1))

VARIABLES
    now,
    base,       \* the query_baseline row of a query_id
    polls,      \* polls begun
    pc,         \* poller -> "idle", "row", "read", "fold"
    todo,       \* poller -> rows of its result it has not finished
    prior,      \* poller -> the baseline it read
    log,        \* history: the samples in the baseline, oldest first
    seen        \* history: poller -> the log when it read the baseline

locals == <<polls, pc, todo, prior, seen>>
vars == <<now, base, locals, log>>

ZScoreK == 3                \* REGRESSION_Z_SCORE_K
MinSamples == 6             \* REGRESSION_MIN_SAMPLES
MinExecutions == 10         \* REGRESSION_MIN_EXECUTIONS
MinAbsDelta == 5            \* REGRESSION_MIN_ABS_DELTA_MS
BaselineMinCount == 6       \* DURABLE_BASELINE_MIN_COUNT

SumOf(s) == FoldLeft(LAMBDA x, y : x + y, 0, s)

NoBaseline == [count |-> 0, mean |-> 0, m2 |-> 0, last |-> 0]

\* Is d / stddev >= num / den, for d >= 0 and the variance m2 / (n - 1)?
ZAtLeast(d, m2, n, num, den) ==
    d * d * (n - 1) * den * den >= num * num * m2 * Unit

\* Welford's update.
Fold(b, sample) ==
    LET n     == b.count + 1
        delta == Unit * sample - b.mean
        mean  == b.mean + delta \div n
    IN  [count |-> n, mean |-> mean,
         m2 |-> b.m2 + (delta * (Unit * sample - mean)) \div Unit,
         last |-> sample]

\* Mutant: the floor on the absolute jump is forgotten.
DurableWithoutFloor(b, sample) ==
    LET d == Unit * sample - b.mean
    IN  /\ b.count >= BaselineMinCount
        /\ b.m2 > 0
        /\ d >= 0 /\ ZAtLeast(d, b.m2, b.count, ZScoreK, 1)

DetectRegressionDurable(b, sample) ==
    LET d == Unit * sample - b.mean
    IN  /\ b.count >= BaselineMinCount
        /\ b.m2 > 0
        /\ d >= 0 /\ ZAtLeast(d, b.m2, b.count, ZScoreK, 1)
        /\ d >= Unit * MinAbsDelta

\* The report's detector: the newest point of a series [dur, execs] against the
\* mean and the variance of the others.
DetectRegression(points) ==
    LET past == Front(points)
        n    == Len(past)
        mean == (Unit * SumOf([i \in 1..n |-> past[i].dur])) \div n
        away == [i \in 1..n |-> Unit * past[i].dur - mean]
        m2   == SumOf([i \in 1..n |-> away[i] * away[i]]) \div Unit
        d    == Unit * Last(points).dur - mean
    IN  /\ Len(points) >= MinSamples
        /\ SumOf([i \in DOMAIN points |-> points[i].execs]) >= MinExecutions
        /\ m2 > 0
        /\ d >= 0 /\ ZAtLeast(d, m2, n, ZScoreK, 1)
        /\ d >= Unit * MinAbsDelta

\* Mutant: the badge turns "elevated" only at the full threshold.
BandAtK(b) ==
    CASE b.count < BaselineMinCount -> "forming"
      [] LET d == Unit * b.last - b.mean
         IN  d >= 0 /\ b.m2 > 0 /\ ZAtLeast(d, b.m2, b.count, ZScoreK, 1) -> "regressed"
      [] OTHER -> "steady"

\* health_baseline_summary and the z bands of baseline_trend_from: the last
\* sample against the baseline that already holds it.
Band(b) ==
    LET d    == Unit * b.last - b.mean
        Z(num, den) == d >= 0 /\ b.m2 > 0 /\ ZAtLeast(d, b.m2, b.count, num, den)
    IN  CASE b.count < BaselineMinCount -> "forming"
          [] Z(ZScoreK, 1)              -> "regressed"
          [] Z(ZScoreK, 2)              -> "elevated"
          [] OTHER                      -> "steady"

-----------------------------------------------------------------------------
Batch(samples) == FoldLeft(Fold, NoBaseline, samples)

Init ==
    /\ now = 0
    /\ log \in OldLogs
    /\ base = [row |-> Batch(log), at |-> 0]
    /\ polls = 0
    /\ pc = [p \in Pollers |-> "idle"]
    /\ todo = [p \in Pollers |-> <<>>]
    /\ prior = [p \in Pollers |-> NoBaseline]
    /\ seen = [p \in Pollers |-> <<>>]

Tick ==
    /\ now < MaxTime
    /\ now' = now + 1
    /\ UNCHANGED <<base, locals, log>>

\* The query answers; one that fails, or a server without Query Store, ends the
\* poll where it began.
Query(p) ==
    /\ pc[p] = "idle" /\ polls < MaxPolls
    /\ polls' = polls + 1
    /\ \E result \in Results :
        /\ todo' = [todo EXCEPT ![p] = result]
        /\ pc' = [pc EXCEPT ![p] = IF result = <<>> THEN "idle" ELSE "row"]
    /\ UNCHANGED <<now, base, prior, seen, log>>

NextRow(p) ==
    /\ todo' = [todo EXCEPT ![p] = Tail(@)]
    /\ pc' = [pc EXCEPT ![p] = IF Len(todo[p]) = 1 THEN "idle" ELSE "row"]

\* The call returns.
Forget(p) ==
    /\ prior' = [prior EXCEPT ![p] = NoBaseline]
    /\ seen' = [seen EXCEPT ![p] = <<>>]

\* The sample of a row: duration per execution.
Sample(p) == Head(todo[p]).dur

InsertRow(p) ==
    /\ pc[p] = "row"
    /\ IF Head(todo[p]).execs > 0
         THEN pc' = [pc EXCEPT ![p] = "read"] /\ UNCHANGED todo
         ELSE NextRow(p)
    /\ UNCHANGED <<now, base, polls, prior, seen, log>>

\* Logged; the row is not folded either.
InsertFails(p) ==
    /\ pc[p] = "row"
    /\ NextRow(p)
    /\ UNCHANGED <<now, base, polls, prior, seen, log>>

\* get_query_baseline
ReadBaseline(p) ==
    /\ pc[p] = "read"
    /\ prior' = [prior EXCEPT ![p] = base.row]
    /\ seen' = [seen EXCEPT ![p] = log]
    /\ pc' = [pc EXCEPT ![p] = "fold"]
    /\ UNCHANGED <<now, base, polls, todo, log>>

\* observe_and_detect_regression: the verdict is on what was read before the fold.
Verdict(p) == DetectRegressionDurable(prior[p], Sample(p))

\* Mutant: the fold starts from the baseline read for the verdict.
FoldPrior(p) ==
    /\ pc[p] = "fold" /\ Len(log) < MaxSamples
    /\ base' = [row |-> Fold(prior[p], Sample(p)), at |-> now]
    /\ log' = Append(log, Sample(p))
    /\ NextRow(p)
    /\ Forget(p)
    /\ UNCHANGED <<now, polls>>

\* update_query_baseline, on the row as it is now.
UpdateBaseline(p) ==
    /\ pc[p] = "fold" /\ Len(log) < MaxSamples
    /\ base' = [row |-> Fold(base.row, Sample(p)), at |-> now]
    /\ log' = Append(log, Sample(p))
    /\ NextRow(p)
    /\ Forget(p)
    /\ UNCHANGED <<now, polls>>

\* The daemon is drained or killed: rows stored and not folded stay so.
Crash(p) ==
    /\ pc[p] # "idle"
    /\ pc' = [pc EXCEPT ![p] = "idle"]
    /\ todo' = [todo EXCEPT ![p] = <<>>]
    /\ Forget(p)
    /\ UNCHANGED <<now, base, polls, log>>

\* prune_before: a baseline not folded into since the cutoff goes.
Prune ==
    LET stale == base.row # NoBaseline /\ base.at + Retention < now
    IN  /\ base' = IF stale THEN [row |-> NoBaseline, at |-> now] ELSE base
        /\ log' = IF stale THEN <<>> ELSE log
        /\ UNCHANGED <<now, locals>>

Poll(p) ==
    \/ Query(p) \/ InsertRow(p) \/ InsertFails(p)
    \/ ReadBaseline(p) \/ UpdateBaseline(p)

Next ==
    \/ Tick \/ Prune
    \/ \E p \in Pollers : Poll(p) \/ Crash(p)

Spec == Init /\ [][Next]_vars

-----------------------------------------------------------------------------
\* The baseline row says of the samples folded into it, in whatever order two
\* pollers folded them, exactly what a pass over all of them would say.
BaselineIsBatch ==
    LET n == Len(log)
        sum == SumOf(log)
    IN  /\ base.row.count = n
        /\ base.row.mean * n = Unit * sum
        /\ base.row.m2 * n =
             Unit * (n * SumOf([i \in 1..n |-> log[i] * log[i]]) - sum * sum)
        /\ n > 0 => base.row.last = Last(log)

\* "the same outlier gates as the in-window detector, just sourced from durable
\* state": a sample is flagged exactly when the report's detector would flag it
\* over the samples the baseline held when it was read, if those are enough.
DetectorsAgree ==
    \A p \in Pollers : pc[p] = "fold" =>
        LET samples == seen[p] \o <<Sample(p)>>
            points  == [i \in DOMAIN samples |-> [dur |-> samples[i], execs |-> 2]]
        IN  Verdict(p) <=> (Len(samples) > BaselineMinCount /\ DetectRegression(points))

\* The health badge judges the last sample on a baseline that already holds it,
\* which damps every spike; one the poller has just flagged still shows, unless
\* another poller folded, or housekeeping pruned, since the baseline was read.
SpikeShows ==
    [][\A p \in Pollers :
         (UpdateBaseline(p) /\ seen[p] = log /\ Verdict(p))
            => Band(base'.row) \in {"elevated", "regressed"}]_vars
=============================================================================
