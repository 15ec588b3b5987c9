------------------------------ MODULE Collectors ------------------------------
(***************************************************************************)
(* The tasks a daemon spawns per instance: the deadlock, query-store and   *)
(* missing-index pollers and the alert evaluator (CounterDelta has the     *)
(* pollers of counters).  They share the store's file and the mutex each   *)
(* statement takes; no task's rows are another's input but the samples an  *)
(* evaluator reads, and Alerting has the pollers of those itself.  So a    *)
(* behaviour moves the tasks of one kind (active, chosen once), of several *)
(* processes, interleaved.                                                 *)
(*                                                                         *)
(* Source: sentinel/src/scheduler.rs (run spawns the tasks).               *)
(***************************************************************************)
EXTENDS DeadlockCapture

CONSTANTS
    None, LateTime, MaxFaults,      \* shared by several of the modules
    Results, OldLogs, Unit, MaxSamples, MaxPolls,   \* QueryHistory
    Database, Tables, Gap, MRetention,              \* MissingIndexDaily, Alerting
    Metrics, Rules, Silent, Unreadable, SameName,   \* Alerting
    Webhook, Cooldown, PassTime, MaxLevel

VARIABLES
    active,
    qNow, base, polls, qPc, qTodo, prior, seen, log,
    mNow, mRows, mPc, mTodo, checked, stamp, lost, failures,
    aNow, sample, taken, registered, cutoff, alerts, aPc, breaches, evalAt, faults

QH == INSTANCE QueryHistory WITH
        now <- qNow, pc <- qPc, todo <- qTodo
MI == INSTANCE MissingIndexDaily WITH
        now <- mNow, rows <- mRows, pc <- mPc, todo <- mTodo,
        NoTable <- None, Retention <- MRetention, MaxTime <- LateTime,
        MaxFailures <- MaxFaults
AL == INSTANCE Alerting WITH
        now <- aNow, pc <- aPc, todo <- breaches, MaxTime <- LateTime,
        Retention <- MRetention

qVars == <<qNow, base, polls, qPc, qTodo, prior, seen, log>>
mVars == <<mNow, mRows, mPc, mTodo, checked, stamp, lost, failures>>
aVars == <<aNow, sample, taken, registered, cutoff, alerts, aPc, breaches, evalAt, faults>>
allVars == <<active, vars, qVars, mVars, aVars>>

ASSUME CollectorsAssumption ==
    /\ QH!QueryHistoryAssumption
    /\ MI!MissingIndexAssumption
    /\ AL!AlertAssumption

CollectorsInit ==
    /\ active \in {"deadlocks", "queries", "missing_index", "alerts"}
    /\ Init /\ QH!Init /\ MI!Init /\ AL!Init
    \* one initial state for those that do not move
    /\ active # "deadlocks" => current = [p \in Pollers |-> CHOOSE g \in Graphs : TRUE]
    /\ active # "queries" => log = CHOOSE l \in OldLogs : TRUE

Deadlocks(step) == active = "deadlocks" /\ step /\ UNCHANGED <<active, qVars, mVars, aVars>>
Queries == active = "queries" /\ QH!Next /\ UNCHANGED <<active, vars, mVars, aVars>>
MissingIndex == active = "missing_index" /\ MI!Next /\ UNCHANGED <<active, vars, qVars, aVars>>
Alerts(step) == active = "alerts" /\ step /\ UNCHANGED <<active, vars, qVars, mVars>>

CollectorsNext == Deadlocks(Next) \/ Queries \/ MissingIndex \/ Alerts(AL!Next)

\* Only the liveness properties need fairness: see DeadlockCapture and Alerting.
CollectorsSpec ==
    /\ CollectorsInit /\ [][CollectorsNext]_allVars
    /\ \A p \in Pollers :
        WF_allVars(Deadlocks(Poll(p))) /\ SF_allVars(Deadlocks(Insert(p)))
    /\ WF_allVars(Alerts(AL!Evaluate)) /\ WF_allVars(Alerts(AL!Handle))

-----------------------------------------------------------------------------
\* A baseline row says what a pass over its samples would (QueryHistory).
BaselineIsBatch == QH!BaselineIsBatch

\* The poller and the report flag the same samples (QueryHistory).
DetectorsAgree == QH!DetectorsAgree

\* A flagged spike shows on the health badge (QueryHistory).
SpikeShows == QH!SpikeShows

\* One row-set per poller and gap (MissingIndexDaily).
SpacedCaptures == MI!SpacedCaptures

\* A poll that ends well leaves a capture (MissingIndexDaily).
LooksAreRecorded == MI!LooksAreRecorded

\* Two rows of one rule are a cooldown apart (Alerting).
NoSpam == AL!NoSpam

\* A breach is silent only in its own rule's cooldown (Alerting).
NoTierMasked == AL!NoTierMasked

\* A standing breach is eventually on record (Alerting).
StandingBreachFires == AL!StandingBreachFires
=============================================================================
