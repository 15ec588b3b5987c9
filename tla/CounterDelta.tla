----------------------------- MODULE CounterDelta -----------------------------
(***************************************************************************)
(* The pollers that turn SQL Server's cumulative counters into rows of     *)
(* "what happened since the last tick": wait stats, index usage, file IO.  *)
(*                                                                         *)
(* Source: sentinel/src/poll/waits.rs, index_usage.rs, io_latency.rs, and  *)
(* the snapshots of poller_state in storage.rs.  Each poll reads the       *)
(* counters, diffs them against the snapshot its predecessor left, inserts *)
(* one row per key that moved, then saves its own reading; the store is    *)
(* locked for each of these calls, not across them.  One number stands for *)
(* the three or four counters of a key.                                    *)
(***************************************************************************)
EXTENDS Integers, FiniteSets

CONSTANTS
    Keys,           \* wait types, indexes or files
    Pollers,        \* whoever polls into one `instances` row
    Watches,        \* poller -> the keys its query can see (its database)
    Kinds,          \* the counters polled: "waits", "indexes", "files"
    TopN,           \* rows the wait query returns (30)
    MaxGap,         \* BASELINE_MAX_GAP_MS, in clock ticks
    MaxBefore, MaxTime, MaxGrowth, MaxRestarts, MaxFaults   \* bounds for TLC

ASSUME CounterAssumption ==
    /\ IsFiniteSet(Keys)
    /\ Watches \in [Pollers -> SUBSET Keys]
    /\ {TopN, MaxGap, MaxBefore, MaxTime, MaxGrowth, MaxRestarts, MaxFaults}
          \subseteq Nat
    /\ Kinds \subseteq {"waits", "indexes", "files"}

VARIABLES
    kind,       \* which of the three pollers this is; never changes
    now,        \* the clock
    counter,    \* key -> SQL Server's counter, since its last restart
    grown,      \* history: key -> all it ever counted while we looked
    restarts,   \* how often SQL Server restarted
    snapshot,   \* poller_state: the last reading saved, and when
    pc,         \* poller -> "idle", "diff", "insert"
    reading,    \* poller -> the counters its query returned
    prior,      \* poller -> the reading it diffed against
    rows,       \* poller -> key -> delta still to be inserted
    faults,     \* how many polls ended between their rows and their save
    booked      \* key -> the sum of the deltas in the store

pollerVars == <<pc, reading, prior, rows>>
server == <<counter, grown, restarts>>
vars == <<kind, now, server, snapshot, pollerVars, faults, booked>>

\* A reading: the counters of the keys returned, and (history) what had been
\* counted at that moment and under which restart.
Most == MaxBefore + MaxGrowth
Partial == UNION {[K -> 0..Most] : K \in SUBSET Keys}
Reading == [counts : Partial, at : 0..MaxTime,
            grown : [Keys -> 0..MaxGrowth], epoch : 0..MaxRestarts]
Zero == [k \in Keys |-> 0]
NoReading == [counts |-> [k \in {} |-> 0], at |-> 0, grown |-> Zero, epoch |-> 0]

Lookup(counts, k) == IF k \in DOMAIN counts THEN counts[k] ELSE 0

Init ==
    /\ kind \in Kinds
    /\ now = 0
    /\ counter \in [Keys -> 0..MaxBefore]
    /\ grown = Zero
    /\ restarts = 0
    /\ snapshot = [taken |-> FALSE, is |-> NoReading]
    /\ pc = [p \in Pollers |-> "idle"]
    /\ reading = [p \in Pollers |-> NoReading]
    /\ prior = [p \in Pollers |-> NoReading]
    /\ rows = [p \in Pollers |-> NoReading.counts]
    /\ faults = 0
    /\ booked = Zero

-----------------------------------------------------------------------------
(* The world.                                                              *)

Tick ==
    /\ now < MaxTime
    /\ now' = now + 1
    /\ UNCHANGED <<kind, server, snapshot, pollerVars, faults, booked>>

Count(k) ==
    /\ grown[k] < MaxGrowth
    /\ counter' = [counter EXCEPT ![k] = @ + 1]
    /\ grown' = [grown EXCEPT ![k] = @ + 1]
    /\ UNCHANGED <<kind, now, restarts, snapshot, pollerVars, faults, booked>>

\* The instance restarts, or DBCC SQLPERF clears the counters.
Restart ==
    /\ restarts < MaxRestarts
    /\ restarts' = restarts + 1
    /\ counter' = Zero
    /\ UNCHANGED <<kind, now, grown, snapshot, pollerVars, faults, booked>>

-----------------------------------------------------------------------------
(* A poll.                                                                 *)

\* What one query can return: TOP (30) of the wait types that waited at all,
\* ties in any order; every index of the connection's database; every file.
Returned(p) ==
    LET waited == {k \in Watches[p] : counter[k] > 0}
    IN  IF kind = "waits"
        THEN {K \in SUBSET waited :
                /\ Cardinality(K) <= TopN
                /\ \A k \in waited \ K : Cardinality(K) = TopN
                                         /\ \A j \in K : counter[j] >= counter[k]}
        ELSE {Watches[p]}

Query(p) ==
    /\ pc[p] = "idle"
    /\ \E K \in Returned(p) :
          reading' = [reading EXCEPT ![p] =
              [counts |-> [k \in K |-> counter[k]], at |-> now,
               grown |-> grown, epoch |-> restarts]]
    /\ pc' = [pc EXCEPT ![p] = "diff"]
    /\ UNCHANGED <<kind, now, server, snapshot, prior, rows, faults, booked>>

Decreased(counts, before) ==
    \E k \in DOMAIN counts \cap DOMAIN before : counts[k] < before[k]

\* BASELINE_MAX_GAP_MS and a counter that went backwards: looked at for waits
\* and index usage only.
ChecksBaseline == kind # "files"

\* Mutant: the first poll diffs against an empty snapshot.
Unseeded(p) ==
    ChecksBaseline /\ snapshot.taken =>
        /\ ~Decreased(reading[p].counts, snapshot.is.counts)
        /\ now - snapshot.is.at <= MaxGap

\* Mutant: the age of the snapshot is not looked at.
AnyAge(p) ==
    /\ snapshot.taken
    /\ ChecksBaseline => ~Decreased(reading[p].counts, snapshot.is.counts)

\* delta_is_trustworthy; the IO poller trusts whatever snapshot it finds.
Trustworthy(p) ==
    /\ snapshot.taken
    /\ ChecksBaseline =>
          /\ ~Decreased(reading[p].counts, snapshot.is.counts)
          /\ now - snapshot.is.at <= MaxGap

\* Mutant: a key that is new to the snapshot only seeds it.
MovedAndKnown(counts, before) ==
    {k \in DOMAIN counts \cap DOMAIN before : counts[k] > Lookup(before, k)}
Moved(counts, before) == {k \in DOMAIN counts : counts[k] > Lookup(before, k)}

\* Load the prior snapshot, decide whether to trust it, derive the rows.
Diff(p) ==
    /\ pc[p] = "diff"
    /\ LET counts == reading[p].counts
           before == snapshot.is.counts
           moved == IF Trustworthy(p) THEN Moved(counts, before) ELSE {}
       IN  rows' = [rows EXCEPT ![p] = [k \in moved |-> counts[k] - Lookup(before, k)]]
    /\ prior' = [prior EXCEPT ![p] = IF Trustworthy(p) THEN snapshot.is ELSE NoReading]
    /\ reading' = [reading EXCEPT ![p].at = now]
    /\ pc' = [pc EXCEPT ![p] = "insert"]
    /\ UNCHANGED <<kind, now, server, snapshot, faults, booked>>

Without(f, k) == [j \in DOMAIN f \ {k} |-> f[j]]

\* One row: stored, or the insert fails and the poll goes on to the next.
InsertRow(p, k) ==
    /\ pc[p] = "insert" /\ k \in DOMAIN rows[p]
    /\ \/ booked' = [booked EXCEPT ![k] = @ + rows[p][k]]
       \/ UNCHANGED booked
    /\ rows' = [rows EXCEPT ![p] = Without(@, k)]
    /\ UNCHANGED <<kind, now, server, snapshot, pc, reading, prior, faults>>

\* The poll is over, or died with its process: its locals are gone.
Forget(p) ==
    /\ pc' = [pc EXCEPT ![p] = "idle"]
    /\ reading' = [reading EXCEPT ![p] = NoReading]
    /\ prior' = [prior EXCEPT ![p] = NoReading]
    /\ rows' = [rows EXCEPT ![p] = NoReading.counts]
    /\ UNCHANGED <<kind, now, server, booked>>

\* Mutant: only keys the snapshot does not have yet are saved.
SaveNewKeys(p) ==
    /\ pc[p] = "insert" /\ rows[p] = NoReading.counts
    /\ LET old == snapshot.is.counts
           new == reading[p].counts
       IN  snapshot' = [taken |-> TRUE, is |-> [reading[p] EXCEPT !.at = now, !.counts =
               [k \in DOMAIN new \cup DOMAIN old |-> IF k \in DOMAIN old THEN old[k] ELSE new[k]]]]
    /\ Forget(p)
    /\ UNCHANGED faults

\* update_*_snapshot replaces the stored reading and its time.
Save(p) ==
    /\ pc[p] = "insert" /\ rows[p] = NoReading.counts
    /\ snapshot' = [taken |-> TRUE, is |-> [reading[p] EXCEPT !.at = now]]
    /\ Forget(p)
    /\ UNCHANGED faults

\* The poll ends between its rows and its save: the process dies, or the save
\* fails, which is only logged.
EndsUnsaved(p) ==
    /\ pc[p] = "insert" /\ faults < MaxFaults
    /\ faults' = faults + 1
    /\ Forget(p)
    /\ UNCHANGED snapshot

\* The process dies, or the query's result is lost, before there are any rows.
EndsEarly(p) ==
    /\ pc[p] = "diff"
    /\ Forget(p)
    /\ UNCHANGED <<snapshot, faults>>

Poll(p) ==
    \/ Query(p) \/ Diff(p) \/ (\E k \in Keys : InsertRow(p, k))
    \/ Save(p) \/ EndsUnsaved(p) \/ EndsEarly(p)

Next ==
    \/ Tick \/ Restart
    \/ \E k \in Keys : Count(k)
    \/ \E p \in Pollers : Poll(p)

Spec == Init /\ [][Next]_vars

-----------------------------------------------------------------------------
\* Types; a pending row always carries a positive delta.
TypeOK ==
    /\ kind \in Kinds
    /\ now \in 0..MaxTime
    /\ counter \in [Keys -> 0..Most]
    /\ grown \in [Keys -> 0..MaxGrowth]
    /\ \A k \in Keys : counter[k] <= MaxBefore + grown[k]
    /\ restarts \in 0..MaxRestarts
    /\ snapshot \in [taken : BOOLEAN, is : Reading]
    /\ pc \in [Pollers -> {"idle", "diff", "insert"}]
    /\ reading \in [Pollers -> Reading]
    /\ prior \in [Pollers -> Reading]
    /\ rows \in [Pollers -> Partial]
    /\ \A p \in Pollers : \A k \in DOMAIN rows[p] : rows[p][k] > 0
    /\ faults \in 0..MaxFaults
    /\ booked \in [Keys -> Nat]

Growth(p, k) == reading[p].grown[k] - prior[p].grown[k]

\* A row never claims more than its counter grew since the reading it is
\* diffed against: no cumulative total is booked as one window's delta, through
\* restarts, first sights of a key, and snapshots left by a crash.
RowsAreWindows ==
    \A p \in Pollers : \A k \in DOMAIN rows[p] : rows[p][k] <= Growth(p, k)

\* ... and, when the server did not restart in between, exactly that much.
RowsAreExact ==
    \A p \in Pollers : \A k \in DOMAIN rows[p] :
        reading[p].epoch = prior[p].epoch => rows[p][k] = Growth(p, k)

\* No row of waits or index usage covers more than BASELINE_MAX_GAP_MS.
RowsAreRecent ==
    \A p \in Pollers :
        ChecksBaseline /\ rows[p] # NoReading.counts => reading[p].at - prior[p].at <= MaxGap

\* Nothing is booked twice while every poll that stored rows also saved its
\* reading: all rows of a key together never claim more than it ever counted
\* while being monitored, whatever restarted, was missed or failed to be stored.
NeverOverbooked == faults = 0 => \A k \in Keys : booked[k] <= grown[k]

\* A diff that trusts its snapshot has a row for every key that moved: no wait
\* that happened between two good polls is left out.
NothingSkipped ==
    [][\A p \in Pollers : Diff(p) /\ prior'[p].epoch = reading[p].epoch /\ Trustworthy(p)
          => \A k \in Watches[p] :
                reading[p].grown[k] > prior'[p].grown[k] => k \in DOMAIN rows'[p]]_vars
=============================================================================
