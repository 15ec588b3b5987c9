------------------------------- MODULE Alerting -------------------------------
(***************************************************************************)
(* From a vitals sample to a webhook: pollers persist what they observe,   *)
(* the alert evaluator reads the latest persisted values back on its own   *)
(* cadence, and every new breach becomes a row of alerts_fired and a POST. *)
(*                                                                         *)
(* Source: sentinel/src/poll/alert_eval.rs, alerts.rs, notify.rs, and      *)
(* should_fire_alert, insert_fired_alert, mark_alert_notified and          *)
(* prune_before of storage.rs.  A metric is a level, higher is worse, so   *)
(* that one comparison stands for the four comparators; a metric whose     *)
(* threshold cannot be resolved (PLE without the buffer size) is one       *)
(* without sample.  The clock does not go back.                            *)
(***************************************************************************)
EXTENDS Naturals, Sequences, SequencesExt

CONSTANTS
    Metrics,
    Rules,          \* the armed rules in order: [id, metric, level]
    Silent,         \* metrics whose poller writes no row when there is nothing to report
    Unreadable,     \* metrics a poll may fail to read (permission, DMV, network)
    SameName,       \* is the instance's configured name its server's name?
    Webhook,        \* is a webhook configured?
    None,           \* no sample yet
    Cooldown,
    Retention,      \* retention_days
    PassTime,       \* how long a pass may take: eight seconds per POST
    MaxLevel, MaxTime, MaxFaults    \* bounds for TLC

\* What the constants are; Collectors assumes it.
AlertAssumption ==
    /\ PassTime <= Retention
    /\ {Cooldown, Retention, PassTime, MaxLevel, MaxTime, MaxFaults} \subseteq Nat
    /\ Rules \in Seq([id : STRING, metric : Metrics, level : Nat])
    /\ IsInjective([i \in DOMAIN Rules |-> Rules[i].id])
    /\ Silent \cup Unreadable \subseteq Metrics
    /\ {SameName, Webhook} \subseteq BOOLEAN
    /\ None \notin Nat

VARIABLES
    now,
    sample,     \* metric -> the newest persisted value, or None
    taken,      \* metric -> when it was persisted
    registered, \* the `instances` row exists
    cutoff,     \* samples and alerts from before it have been pruned
    alerts,     \* every row ever in alerts_fired, oldest first: [rule, at, notified]
    pc,         \* the evaluator: "idle", "rules", "post"
    todo,       \* breaches it has still to handle: places of rules
    evalAt,     \* the time it took before the first of them
    faults      \* how often the process died or an alert could not be stored

store == <<sample, taken, registered, cutoff>>
evaluator == <<pc, todo, evalAt>>
vars == <<now, store, alerts, evaluator, faults>>

RuleIds == {Rules[i].id : i \in DOMAIN Rules}
RuleOf(id) == CHOOSE r \in {Rules[i] : i \in DOMAIN Rules} : r.id = id

Init ==
    /\ now = 0
    /\ sample = [m \in Metrics |-> None]
    /\ taken = [m \in Metrics |-> 0]
    /\ registered = FALSE
    /\ cutoff = 0
    /\ alerts = <<>>
    /\ pc = "idle" /\ todo = {} /\ evalAt = 0
    /\ faults = 0

-----------------------------------------------------------------------------
(* The server, the clock and the pollers.                                  *)

Tick ==
    /\ now < MaxTime
    /\ pc # "idle" => now < evalAt + PassTime
    /\ now' = now + 1
    /\ UNCHANGED <<store, alerts, evaluator, faults>>

\* A poll registers the instance, then persists what it read.
PollReads(m) ==
    /\ registered' = TRUE
    /\ \E v \in 0..MaxLevel : sample' = [sample EXCEPT ![m] = v]
    /\ taken' = [taken EXCEPT ![m] = now]
    /\ UNCHANGED <<now, cutoff, alerts, evaluator, faults>>

\* A poll that persists nothing: the live, wait and IO pollers write one row per
\* busy session, wait or file, none if all are idle; others could not read the
\* metric.  Whatever was persisted before stays.
PollFindsNothing(m) ==
    /\ m \in Silent \cup Unreadable
    /\ registered' = TRUE
    /\ UNCHANGED <<now, sample, taken, cutoff, alerts, evaluator, faults>>

\* prune_before
Prune ==
    /\ now >= Retention
    /\ cutoff' = now - Retention
    /\ UNCHANGED <<now, sample, taken, registered, alerts, evaluator, faults>>

-----------------------------------------------------------------------------
(* The evaluator.                                                          *)
\* evaluate_alert on the latest persisted sample.
Evaluates(rule) ==
    LET m == rule.metric
    IN  sample[m] # None /\ taken[m] >= cutoff /\ sample[m] >= rule.level

\* get_instance_id_by_name finds a row the pollers named after the server.
Evaluate ==
    /\ pc = "idle"
    /\ registered /\ SameName
    /\ todo' = {i \in DOMAIN Rules : Evaluates(Rules[i])}
    /\ pc' = IF todo' = {} THEN "idle" ELSE "rules"
    /\ evalAt' = now
    /\ UNCHANGED <<now, store, alerts, faults>>

\* The rows of a rule that are still there.
Fired(r) == {i \in DOMAIN alerts : alerts[i].rule = r /\ alerts[i].at >= cutoff}

\* Mutant: the cooldown is looked up by metric, not by rule.
ShouldFirePerMetric(r) ==
    \A i \in DOMAIN alerts :
        RuleOf(alerts[i].rule).metric = RuleOf(r).metric => evalAt - alerts[i].at >= Cooldown

\* Mutant: only a rule that was never notified is in its cooldown.
ShouldFireUnnotified(r) ==
    \A i \in Fired(r) : alerts[i].notified => evalAt - alerts[i].at >= Cooldown

\* Mutant: a rule without a row counts as one in its cooldown.
ShouldFireAgain(r) == \E i \in Fired(r) : evalAt - alerts[i].at >= Cooldown

\* should_fire_alert: its newest row is at least a cooldown old.
ShouldFire(r) == \A i \in Fired(r) : evalAt - alerts[i].at >= Cooldown

\* Breaches are handled in the order of their rules.
Current == Rules[Min(todo)].id
NextRule ==
    /\ todo' = todo \ {Min(todo)}
    /\ pc' = IF todo' = {} THEN "idle" ELSE "rules"

Suppress ==
    /\ pc = "rules" /\ ~ShouldFire(Current)
    /\ NextRule
    /\ UNCHANGED <<now, store, alerts, evalAt, faults>>

\* insert_fired_alert; the row is not notified yet.
Fire ==
    /\ pc = "rules" /\ ShouldFire(Current)
    /\ alerts' = Append(alerts, [rule |-> Current, at |-> evalAt, notified |-> FALSE])
    /\ IF Webhook THEN pc' = "post" /\ UNCHANGED todo ELSE NextRule
    /\ UNCHANGED <<now, store, evalAt, faults>>

FireFails ==
    /\ faults < MaxFaults
    /\ faults' = faults + 1
    /\ pc = "rules" /\ ShouldFire(Current)
    /\ NextRule
    /\ UNCHANGED <<now, store, alerts, evalAt>>

\* The receiver accepted the POST; marking the row may still fail.
PostOk ==
    /\ pc = "post"
    /\ \/ alerts' = [alerts EXCEPT ![Len(alerts)].notified = TRUE]
       \/ UNCHANGED alerts
    /\ NextRule
    /\ UNCHANGED <<now, store, evalAt, faults>>

\* No answer within eight seconds, or not a success: the row stays unnotified.
PostFails ==
    /\ pc = "post"
    /\ NextRule
    /\ UNCHANGED <<now, store, alerts, evalAt, faults>>

\* The process dies; what it had not written is forgotten.
Crash ==
    /\ faults < MaxFaults
    /\ faults' = faults + 1
    /\ pc' = "idle" /\ todo' = {} /\ evalAt' = 0
    /\ UNCHANGED <<now, store, alerts>>

Handle == Suppress \/ Fire \/ FireFails \/ PostOk \/ PostFails

Next ==
    \/ Tick \/ Prune \/ Evaluate \/ Handle \/ Crash
    \/ \E m \in Metrics : PollReads(m) \/ PollFindsNothing(m)

Spec == Init /\ [][Next]_vars

\* The evaluator's ticker fires again and again; each of its steps ends, the
\* POST after at most eight seconds.
FairSpec == Spec /\ WF_vars(Evaluate) /\ WF_vars(Handle)

-----------------------------------------------------------------------------
\* Types; the evaluator is idle exactly when it has no breach left to handle.
TypeOK ==
    /\ now \in 0..MaxTime /\ evalAt \in 0..now /\ cutoff \in 0..now
    /\ sample \in [Metrics -> 0..MaxLevel \cup {None}]
    /\ taken \in [Metrics -> 0..now]
    /\ registered \in BOOLEAN
    /\ alerts \in Seq([rule : RuleIds, at : 0..MaxTime, notified : BOOLEAN])
    /\ pc \in {"idle", "rules", "post"}
    /\ todo \subseteq DOMAIN Rules
    /\ (pc = "idle") <=> (todo = {})
    /\ faults \in 0..MaxFaults

\* "De-duped so the same breach can't spam every tick": two rows of one rule are
\* a cooldown apart, whatever crashed, failed to be delivered or was pruned in
\* between.  (Of a retention shorter than the cooldown this cannot be said.)
NoSpam ==
    \A i, j \in DOMAIN alerts :
        i < j /\ alerts[i].rule = alerts[j].rule => alerts[j].at - alerts[i].at >= Cooldown

\* A breach is left without a row of its own only while that very rule, not
\* another tier of the metric, is in its cooldown (or storing the row failed).
NoTierMasked ==
    [][pc = "rules" /\ todo' # todo /\ faults' = faults =>
         \E i \in DOMAIN alerts' :
             alerts'[i].rule = Current /\ evalAt - alerts'[i].at < Cooldown]_vars

HasFired(r) == \E i \in DOMAIN alerts : alerts[i].rule = r

\* A breach that stands in the persisted samples is eventually on record.
StandingBreachFires ==
    \A r \in RuleIds : [](([]Evaluates(RuleOf(r))) => <>HasFired(r))
=============================================================================
