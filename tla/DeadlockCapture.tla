---------------------------- MODULE DeadlockCapture ----------------------------
(***************************************************************************)
(* The deadlock poller: SQL Server keeps deadlock graphs in a ring buffer, *)
(* the poller copies those it has not stored, housekeeping prunes old rows *)
(* and reports and alerts count what is left.                              *)
(*                                                                         *)
(* Source: sentinel/src/poll/deadlocks.rs, and deadlock_graph_exists,      *)
(* insert_deadlock and prune_before of storage.rs.  The look-up and the    *)
(* insert lock the store separately.  A graph stands for its hash.         *)
(***************************************************************************)
EXTENDS Naturals

CONSTANTS
    Graphs,
    Pollers,        \* processes polling into this store
    Retention,      \* retention_days, in clock ticks; 0 disables pruning
    MaxTime, MaxCrashes     \* bounds for TLC

ASSUME DeadlockAssumption == {Retention, MaxTime, MaxCrashes} \subseteq Nat

VARIABLES
    now,
    happened,   \* the graphs whose deadlock happened
    ring,       \* the graphs in the ring buffer
    rows,       \* deadlock_capture: graph -> its rows, [at, by]
    pc,         \* poller -> "idle", "graphs", "insert"
    todo,       \* poller -> graphs of its result it has still to look at
    current,    \* poller -> the graph it is at (while inserting)
    crashes,
    captured    \* history: the graphs ever stored

server == <<now, happened, ring>>
locals == <<pc, todo, current>>
vars == <<server, rows, locals, crashes, captured>>

Init ==
    /\ now = 0
    /\ happened = {}
    /\ ring = {}
    /\ rows = [g \in Graphs |-> {}]
    /\ pc = [p \in Pollers |-> "idle"]
    /\ todo = [p \in Pollers |-> {}]
    /\ current \in [Pollers -> Graphs]
    /\ crashes = 0
    /\ captured = {}

Tick ==
    /\ now < MaxTime
    /\ now' = now + 1
    /\ UNCHANGED <<happened, ring, rows, locals, crashes, captured>>

Deadlock(g) ==
    /\ g \notin happened
    /\ happened' = happened \cup {g}
    /\ ring' = ring \cup {g}
    /\ UNCHANGED <<now, rows, locals, crashes, captured>>

\* The buffer is full, or the server restarted.
Evict(g) ==
    /\ g \in ring
    /\ ring' = ring \ {g}
    /\ UNCHANGED <<now, happened, rows, locals, crashes, captured>>
Query(p) ==
    /\ pc[p] = "idle"
    /\ todo' = [todo EXCEPT ![p] = ring]
    /\ pc' = [pc EXCEPT ![p] = IF ring = {} THEN "idle" ELSE "graphs"]
    /\ UNCHANGED <<server, rows, current, crashes, captured>>

Done(p, g) ==
    /\ todo' = [todo EXCEPT ![p] = @ \ {g}]
    /\ pc' = [pc EXCEPT ![p] = IF todo[p] = {g} THEN "idle" ELSE "graphs"]

\* Mutant: only the newest rows are looked up.
ExistsRecently(g) == \E r \in rows[g] : r.at = now

\* Mutant: any stored graph of the instance will do.
ExistsAny(g) == \E h \in Graphs : rows[h] # {}

\* deadlock_graph_exists
Exists(g) == rows[g] # {}

Known(p, g) ==
    /\ pc[p] = "graphs" /\ g \in todo[p] /\ Exists(g)
    /\ Done(p, g)
    /\ UNCHANGED <<server, rows, current, crashes, captured>>

New(p, g) ==
    /\ pc[p] = "graphs" /\ g \in todo[p] /\ ~Exists(g)
    /\ current' = [current EXCEPT ![p] = g]
    /\ pc' = [pc EXCEPT ![p] = "insert"]
    /\ UNCHANGED <<server, rows, todo, crashes, captured>>

\* captured_at is the time of the insert; which poller made it is history.
Row(p) == [at |-> now, by |-> p]

Insert(p) ==
    /\ pc[p] = "insert"
    /\ rows' = [rows EXCEPT ![current[p]] = @ \cup {Row(p)}]
    /\ captured' = captured \cup {current[p]}
    /\ Done(p, current[p])
    /\ UNCHANGED <<server, current, crashes>>

\* Only logged; the next poll finds the graph missing again.
InsertFails(p) ==
    /\ pc[p] = "insert"
    /\ Done(p, current[p])
    /\ UNCHANGED <<server, rows, current, crashes, captured>>

Crash(p) ==
    /\ pc[p] # "idle" /\ crashes < MaxCrashes
    /\ crashes' = crashes + 1
    /\ pc' = [pc EXCEPT ![p] = "idle"]
    /\ todo' = [todo EXCEPT ![p] = {}]
    /\ UNCHANGED <<server, rows, current, captured>>

\* prune_before: rows captured before the retention window.
Prune ==
    /\ Retention > 0
    /\ rows' = [g \in Graphs |-> {r \in rows[g] : r.at + Retention >= now}]
    /\ UNCHANGED <<server, locals, crashes, captured>>

Poll(p) ==
    \/ Query(p) \/ Insert(p) \/ InsertFails(p)
    \/ \E g \in Graphs : Known(p, g) \/ New(p, g)

Next ==
    \/ Tick \/ Prune
    \/ \E g \in Graphs : Deadlock(g) \/ Evict(g)
    \/ \E p \in Pollers : Poll(p) \/ Crash(p)

Spec == Init /\ [][Next]_vars

\* The poller's ticker fires again and again, its poll goes on, and an insert
\* that is tried again and again succeeds.
FairSpec ==
    /\ Spec
    /\ \A p \in Pollers : WF_vars(Poll(p)) /\ SF_vars(Insert(p))

-----------------------------------------------------------------------------
\* Types; an idle poller has looked at its whole result.
TypeOK ==
    /\ now \in 0..MaxTime
    /\ ring \subseteq happened /\ happened \subseteq Graphs
    /\ rows \in [Graphs -> SUBSET [at : 0..MaxTime, by : Pollers]]
    /\ pc \in [Pollers -> {"idle", "graphs", "insert"}]
    /\ todo \in [Pollers -> SUBSET Graphs]
    /\ current \in [Pollers -> Graphs]
    /\ \A p \in Pollers : (pc[p] = "idle") <=> (todo[p] = {})
    /\ captured \subseteq happened
    /\ crashes \in 0..MaxCrashes

\* "One stored row per actual xml_deadlock_report event": a poller never stores
\* a deadlock again while a row of it is there, whatever crashed, failed or was
\* pruned in between, so alone it keeps COUNT(*) a count of deadlocks; several
\* pollers of one store can each have one row of it.
OneRowPerPoller ==
    \A g \in Graphs : \A r, s \in rows[g] : r.by = s.by => r = s

\* A deadlock is stored, unless the ring buffer forgets it first.
Captured ==
    \A g \in Graphs : (g \in happened) ~> (g \in captured \/ g \notin ring)
=============================================================================
