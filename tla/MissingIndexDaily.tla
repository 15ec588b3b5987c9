--------------------------- MODULE MissingIndexDaily ---------------------------
(***************************************************************************)
(* The daily snapshot of the missing-index DMV.                            *)
(*                                                                         *)
(* A poll looks for the newest capture of its server, asks the DMV of its  *)
(* database if that is old enough, and stores the suggestions one by one,  *)
(* each under its own lock and each free to fail.  The scheduler polls on  *)
(* start and then daily, and a store may have several processes polling    *)
(* into it.  Captures are timed per server, suggestions kept per database. *)
(*                                                                         *)
(* Source: sentinel/src/poll/missing_index.rs, and storage.rs.             *)
(***************************************************************************)
EXTENDS Integers

CONSTANTS
    Pollers, Tables,
    NoTable,        \* table_name = ''
    Database,       \* poller -> the database it is connected to
    Gap,            \* MIN_CAPTURE_GAP_MS, in clock ticks
    Retention,
    MaxTime,        \* bound: the clock
    MaxFailures     \* bound: failing inserts, polls that fail or die

\* What the constants are; Collectors assumes it.
MissingIndexAssumption ==
    /\ {Gap, Retention, MaxTime, MaxFailures} \subseteq Nat
    /\ NoTable \notin Tables

VARIABLES
    now,
    rows,           \* missing_index_snapshot
    pc,             \* poller -> "idle", "ask", "insert", "sentinel"
    todo,           \* poller -> suggestions of its capture not yet stored
    checked,        \* poller -> when it found a capture due
    stamp,          \* poller -> captured_at of its capture
    lost,           \* history: poller -> has an insert of this poll failed
    failures

locals == <<pc, todo, checked, stamp, lost>>
vars == <<now, rows, locals, failures>>

Databases == {Database[p] : p \in Pollers}

Init ==
    /\ now = 0
    /\ rows = {}
    /\ pc = [p \in Pollers |-> "idle"]
    /\ todo = [p \in Pollers |-> {}]
    /\ checked = [p \in Pollers |-> 0]
    /\ stamp = [p \in Pollers |-> 0]
    /\ lost = [p \in Pollers |-> FALSE]
    /\ failures = 0

Tick ==
    /\ now < MaxTime
    /\ now' = now + 1
    /\ UNCHANGED <<rows, locals, failures>>

\* last_missing_index_capture_ms, of the server.
Captures == {r.at : r \in rows}

\* Mutant: any capture old enough makes the next one due.
DueSinceAny == Captures = {} \/ \E t \in Captures : now - t >= Gap

CaptureIsDue == \A t \in Captures : now - t >= Gap

\* A poll that finds no capture due changes nothing.
Check(p) ==
    /\ pc[p] = "idle" /\ CaptureIsDue
    /\ pc' = [pc EXCEPT ![p] = "ask"]
    /\ checked' = [checked EXCEPT ![p] = now]
    /\ UNCHANGED <<now, rows, todo, stamp, lost, failures>>

\* Mutant: an empty answer ends the poll.
AnswerOrNothing(p) ==
    /\ pc[p] = "ask"
    /\ \E answer \in SUBSET Tables : todo' = [todo EXCEPT ![p] = answer]
    /\ stamp' = [stamp EXCEPT ![p] = now]
    /\ pc' = [pc EXCEPT ![p] = IF todo'[p] = {} THEN "idle" ELSE "insert"]
    /\ UNCHANGED <<now, rows, checked, lost, failures>>

\* The DMV may suggest anything: it forgets on a restart, and new queries ask anew.
Answer(p) ==
    /\ pc[p] = "ask"
    /\ \E answer \in SUBSET Tables : todo' = [todo EXCEPT ![p] = answer]
    /\ stamp' = [stamp EXCEPT ![p] = now]
    /\ pc' = [pc EXCEPT ![p] = IF todo'[p] = {} THEN "sentinel" ELSE "insert"]
    /\ UNCHANGED <<now, rows, checked, lost, failures>>

\* The poll returns; nothing of it is kept but its rows.
Return(p) ==
    /\ pc' = [pc EXCEPT ![p] = "idle"]
    /\ todo' = [todo EXCEPT ![p] = {}]
    /\ checked' = [checked EXCEPT ![p] = 0]
    /\ stamp' = [stamp EXCEPT ![p] = 0]
    /\ lost' = [lost EXCEPT ![p] = FALSE]

Row(p, table) == [at |-> stamp[p], db |-> Database[p], table |-> table, by |-> p]

NextRow(p, t) ==
    IF todo[p] = {t}
      THEN Return(p)
      ELSE todo' = [todo EXCEPT ![p] = @ \ {t}] /\ UNCHANGED <<pc, checked, stamp>>

Insert(p, t) ==
    /\ pc[p] = "insert" /\ t \in todo[p]
    /\ rows' = rows \cup {Row(p, t)}
    /\ NextRow(p, t)
    /\ todo[p] # {t} => UNCHANGED lost
    /\ UNCHANGED <<now, failures>>

\* Logged; the poll goes on with the next row.
InsertFails(p, t) ==
    /\ pc[p] = "insert" /\ t \in todo[p] /\ failures < MaxFailures
    /\ failures' = failures + 1
    /\ NextRow(p, t)
    /\ todo[p] # {t} => lost' = [lost EXCEPT ![p] = TRUE]
    /\ UNCHANGED <<now, rows>>

\* "we looked, it suggested nothing"
InsertSentinel(p) ==
    /\ pc[p] = "sentinel"
    /\ rows' = rows \cup {Row(p, NoTable)}
    /\ Return(p)
    /\ UNCHANGED <<now, failures>>

\* The connection or the query fails, or the daemon dies: what is stored by then
\* stays, and is a capture.
Stop(p) ==
    /\ pc[p] # "idle" /\ failures < MaxFailures
    /\ failures' = failures + 1
    /\ Return(p)
    /\ UNCHANGED <<now, rows>>

\* prune_before
Prune ==
    /\ rows' = {r \in rows : r.at + Retention >= now}
    /\ UNCHANGED <<now, locals, failures>>

Poll(p) ==
    \/ Check(p) \/ Answer(p) \/ InsertSentinel(p)
    \/ \E t \in Tables : Insert(p, t) \/ InsertFails(p, t)

Next ==
    \/ Tick \/ Prune
    \/ \E p \in Pollers : Poll(p) \/ Stop(p)

Spec == Init /\ [][Next]_vars

-----------------------------------------------------------------------------
TypeOK ==
    /\ now \in 0..MaxTime
    /\ \A r \in rows :
        r \in [at : 0..now, db : Databases, table : Tables \cup {NoTable}, by : Pollers]
    /\ pc \in [Pollers -> {"idle", "ask", "insert", "sentinel"}]
    /\ todo \in [Pollers -> SUBSET Tables]
    /\ checked \in [Pollers -> 0..now]
    /\ stamp \in [Pollers -> 0..now]
    /\ lost \in [Pollers -> BOOLEAN]
    /\ failures \in 0..MaxFailures

\* "a daemon restarted three times in an afternoon must still write one row-set,
\* not three": whatever fails, dies or is pruned in between, the captures of one
\* poller are at least the gap apart; only another process that checked at the
\* same time can add one.
SpacedCaptures ==
    \A r, s \in rows : (r.by = s.by /\ r.at < s.at) => s.at - r.at >= Gap

\* "An EMPTY DMV is still an observation day": a poll that ends without a failure
\* leaves a capture of its database, made since it found one due.
PollEnds(p) == pc[p] # "idle" /\ pc'[p] = "idle" /\ failures' = failures
LooksAreRecorded ==
    [][\A p \in Pollers : (PollEnds(p) /\ ~lost[p]) =>
         \E r \in rows' : r.db = Database[p] /\ r.at >= checked[p]]_vars
=============================================================================
