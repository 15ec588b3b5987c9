---------------------------- MODULE CollectorsProofs ----------------------------
(***************************************************************************)
(* What TLAPS proves of DeadlockCapture, MissingIndexDaily and Alerting,   *)
(* and of the collectors of one store together, for any graphs, tables,    *)
(* rules, pollers, retention and bounds.                                   *)
(***************************************************************************)
EXTENDS Collectors, SequenceTheorems, WellFoundedInduction, TLAPS

\* What the look-up established still holds at the insert, as far as the
\* poller's own rows go: another poller may have stored the graph meanwhile.
PendingIsNew ==
    \A p \in Pollers : pc[p] = "insert" => \A r \in rows[current[p]] : r.by # p

\* Pollers go through graphs of deadlocks that did happen.
TodoHappened ==
    \A p \in Pollers :
        /\ todo[p] \subseteq happened
        /\ pc[p] = "insert" => current[p] \in todo[p]

IInv == TypeOK /\ TodoHappened /\ PendingIsNew /\ OneRowPerPoller

LEMMA IInvInit == Init => IInv
BY DeadlockAssumption
   DEF Init, IInv, TypeOK, TodoHappened, PendingIsNew, OneRowPerPoller, DeadlockAssumption

-----------------------------------------------------------------------------
(* Types.                                                                  *)

\* Going through the result one graph further keeps the poller's types.
LEMMA DoneTypes ==
    ASSUME TypeOK, NEW p \in Pollers, NEW g \in todo[p], Done(p, g)
    PROVE  /\ pc' \in [Pollers -> {"idle", "graphs", "insert"}]
           /\ todo' \in [Pollers -> SUBSET Graphs]
           /\ \A q \in Pollers : (pc'[q] = "idle") <=> (todo'[q] = {})
<1>1. pc' = [pc EXCEPT ![p] = IF todo[p] = {g} THEN "idle" ELSE "graphs"]
    BY DEF Done
<1>2. todo' = [todo EXCEPT ![p] = todo[p] \ {g}]
    BY DEF Done
<1>3. pc' \in [Pollers -> {"idle", "graphs", "insert"}]
    BY <1>1 DEF TypeOK
<1>4. todo' \in [Pollers -> SUBSET Graphs]
    BY <1>2 DEF TypeOK
<1>5. ASSUME NEW q \in Pollers PROVE (pc'[q] = "idle") <=> (todo'[q] = {})
  <2>1. CASE q = p
    BY <2>1, <1>1, <1>2 DEF TypeOK
  <2>2. CASE q # p
    BY <2>2, <1>1, <1>2 DEF TypeOK
  <2> QED
    BY <2>1, <2>2
<1> QED
    BY <1>3, <1>4, <1>5

LEMMA TypeStep == TypeOK /\ TodoHappened /\ [Next]_vars => TypeOK'
<1> SUFFICES ASSUME TypeOK, TodoHappened, [Next]_vars PROVE TypeOK'
    OBVIOUS
<1> USE DeadlockAssumption DEF DeadlockAssumption
<1>1. CASE Tick
    BY <1>1 DEF Tick, TypeOK, locals
<1>2. CASE Prune
  <2>1. rows' \in [Graphs -> SUBSET [at : 0..MaxTime, by : Pollers]]
    BY <1>2 DEF Prune, TypeOK
  <2> QED
    BY <2>1, <1>2 DEF Prune, TypeOK, server, locals
<1>3. ASSUME NEW g \in Graphs, Deadlock(g) \/ Evict(g) PROVE TypeOK'
    BY <1>3 DEF Deadlock, Evict, TypeOK, locals
<1>4. ASSUME NEW p \in Pollers, Query(p) PROVE TypeOK'
    BY <1>4 DEF Query, TypeOK, server
<1>5. ASSUME NEW p \in Pollers, NEW g \in Graphs, Known(p, g) PROVE TypeOK'
    BY <1>5, DoneTypes DEF Known, TypeOK, server
<1>6. ASSUME NEW p \in Pollers, NEW g \in Graphs, New(p, g) PROVE TypeOK'
    BY <1>6 DEF New, TypeOK, server
<1>7. ASSUME NEW p \in Pollers, Insert(p) PROVE TypeOK'
  <2>1. current[p] \in todo[p] /\ current[p] \in happened /\ current[p] \in Graphs
    BY <1>7 DEF Insert, TodoHappened, TypeOK
  <2>2. Row(p) \in [at : 0..MaxTime, by : Pollers]
    BY DEF Row, TypeOK
  <2>3. rows' \in [Graphs -> SUBSET [at : 0..MaxTime, by : Pollers]]
    BY <2>1, <2>2, <1>7 DEF Insert, TypeOK
  <2> QED
    BY <2>1, <2>3, <1>7, DoneTypes DEF Insert, TypeOK, server
<1>8. ASSUME NEW p \in Pollers, InsertFails(p) PROVE TypeOK'
  <2>1. current[p] \in todo[p]
    BY <1>8 DEF InsertFails, TodoHappened
  <2> QED
    BY <2>1, <1>8, DoneTypes DEF InsertFails, TypeOK, server
<1>9. ASSUME NEW p \in Pollers, Crash(p) PROVE TypeOK'
    BY <1>9 DEF Crash, TypeOK, server
<1>10. CASE UNCHANGED vars
    BY <1>10 DEF vars, server, locals, TypeOK
<1> QED
    BY <1>1, <1>2, <1>3, <1>4, <1>5, <1>6, <1>7, <1>8, <1>9, <1>10 DEF Next, Poll

LEMMA TodoStep == TypeOK /\ TodoHappened /\ [Next]_vars => TodoHappened'
<1> SUFFICES ASSUME TypeOK, TodoHappened, [Next]_vars PROVE TodoHappened'
    OBVIOUS
<1> USE DEF TodoHappened, TypeOK
<1>1. CASE Tick \/ Prune \/ UNCHANGED vars
    BY <1>1 DEF Tick, Prune, vars, server, locals
<1>2. ASSUME NEW g \in Graphs, Deadlock(g) \/ Evict(g) PROVE TodoHappened'
    BY <1>2 DEF Deadlock, Evict, locals
<1>3. ASSUME NEW p \in Pollers, Query(p) \/ Crash(p) PROVE TodoHappened'
    BY <1>3 DEF Query, Crash, server
<1>4. ASSUME NEW p \in Pollers, NEW g \in Graphs, Known(p, g) \/ New(p, g) PROVE TodoHappened'
    BY <1>4 DEF Known, New, Done, server
<1>5. ASSUME NEW p \in Pollers, Insert(p) \/ InsertFails(p) PROVE TodoHappened'
    BY <1>5 DEF Insert, InsertFails, Done, server
<1> QED
    BY <1>1, <1>2, <1>3, <1>4, <1>5 DEF Next, Poll

-----------------------------------------------------------------------------
(* One row per poller.                                                     *)

LEMMA RowsStep ==
    TypeOK /\ PendingIsNew /\ OneRowPerPoller /\ [Next]_vars
        => PendingIsNew' /\ OneRowPerPoller'
<1> SUFFICES ASSUME TypeOK, PendingIsNew, OneRowPerPoller, [Next]_vars
             PROVE  PendingIsNew' /\ OneRowPerPoller'
    OBVIOUS
<1> USE DEF PendingIsNew, OneRowPerPoller
<1>1. CASE Tick \/ UNCHANGED vars
    BY <1>1 DEF Tick, vars, server, locals
<1>2. CASE Prune
  <2>1. \A g \in Graphs : rows'[g] \subseteq rows[g]
    BY <1>2 DEF Prune, TypeOK
  <2>2. pc' = pc /\ current' = current
    BY <1>2 DEF Prune, locals
  <2>3. OneRowPerPoller'
    BY <2>1
  <2> QED
    BY <2>1, <2>2, <2>3 DEF TypeOK
<1>3. ASSUME NEW g \in Graphs, Deadlock(g) \/ Evict(g) PROVE PendingIsNew' /\ OneRowPerPoller'
    BY <1>3 DEF Deadlock, Evict, locals
<1>4. ASSUME NEW p \in Pollers, Query(p) \/ Crash(p) \/ InsertFails(p)
             \/ \E g \in Graphs : Known(p, g)
      PROVE  PendingIsNew' /\ OneRowPerPoller'
  <2>1. rows' = rows /\ current' = current
    BY <1>4 DEF Query, Crash, InsertFails, Known
  <2>2. \A q \in Pollers : pc'[q] = "insert" => pc[q] = "insert"
    BY <1>4 DEF Query, Crash, InsertFails, Known, Done, TypeOK
  <2> QED
    BY <2>1, <2>2
<1>5. ASSUME NEW p \in Pollers, NEW g \in Graphs, New(p, g)
      PROVE  PendingIsNew' /\ OneRowPerPoller'
  <2>1. rows[g] = {} /\ rows' = rows
    BY <1>5 DEF New, Exists
  <2>2. current' = [current EXCEPT ![p] = g]
    BY <1>5 DEF New
  <2>3. \A q \in Pollers : q # p => (pc'[q] = pc[q] /\ current'[q] = current[q])
    BY <2>2, <1>5 DEF New, TypeOK
  <2>4. current'[p] = g
    BY <2>2 DEF TypeOK
  <2> QED
    BY <2>1, <2>3, <2>4
<1>6. ASSUME NEW p \in Pollers, Insert(p) PROVE PendingIsNew' /\ OneRowPerPoller'
  <2> DEFINE g == current[p]
  <2>1. g \in Graphs
    BY DEF TypeOK
  <2>2. /\ rows'[g] = rows[g] \cup {Row(p)}
        /\ \A h \in Graphs : h # g => rows'[h] = rows[h]
    BY <2>1, <1>6 DEF Insert, TypeOK
  <2>3. Row(p).by = p /\ \A r \in rows[g] : r.by # p
    BY <1>6 DEF Row, Insert
  <2>4. OneRowPerPoller'
    BY <2>1, <2>2, <2>3
  <2>5. \A q \in Pollers : pc'[q] = "insert" => q # p /\ pc[q] = "insert"
    BY <1>6 DEF Insert, Done, TypeOK
  <2>6. current' = current
    BY <1>6 DEF Insert
  <2>7. PendingIsNew'
    BY <2>1, <2>2, <2>3, <2>5, <2>6 DEF TypeOK
  <2> QED
    BY <2>4, <2>7
<1> QED
    BY <1>1, <1>2, <1>3, <1>4, <1>5, <1>6 DEF Next, Poll

\* The inductive invariant holds of every behaviour.
LEMMA IInvHolds == Spec => []IInv
<1>1. IInv /\ [Next]_vars => IInv'
    BY TypeStep, TodoStep, RowsStep DEF IInv
<1> QED
    BY IInvInit, <1>1, PTL DEF Spec

\* The poller's loop stays in its types; idle, it has looked at its whole result.
THEOREM TypeCorrect == Spec => []TypeOK
<1>1. IInv => TypeOK
    BY DEF IInv
<1> QED
    BY IInvHolds, <1>1, PTL

\* However many processes poll into one store, prune it and die, none of them
\* stores a deadlock again while its own row of it is there (deadlocks.rs:68).
THEOREM OneRowEachPoller == Spec => []OneRowPerPoller
<1>1. IInv => OneRowPerPoller
    BY DEF IInv
<1> QED
    BY IInvHolds, <1>1, PTL

OneRow == \A g \in Graphs : \A r, s \in rows[g] : r = s

\* With one process polling, the store holds one row per deadlock: what the
\* poller's documentation claims (deadlocks.rs:3, 68).
THEOREM OneRowEach ==
    ASSUME \A p, q \in Pollers : p = q
    PROVE  Spec => []OneRow
<1>1. IInv => OneRow
    BY DEF IInv, TypeOK, OneRowPerPoller, OneRow
<1> QED
    BY IInvHolds, <1>1, PTL

-----------------------------------------------------------------------------
(* The daily capture of missing indexes.                                   *)

\* What a poll in flight knows: its captured_at is not before its check, and every
\* capture it has made before is a gap older than the check.
Flight ==
    \A p \in Pollers :
        /\ mPc[p] \in {"idle", "ask", "insert", "sentinel"}
        /\ mPc[p] = "ask" =>
             \A r \in mRows : r.by = p => checked[p] - r.at >= Gap
        /\ mPc[p] \in {"insert", "sentinel"} =>
             /\ checked[p] <= stamp[p]
             /\ \A r \in mRows : r.by = p => r.at = stamp[p] \/ checked[p] - r.at >= Gap

CaptureInv == MI!TypeOK /\ Flight /\ MI!SpacedCaptures

-----------------------------------------------------------------------------
LEMMA CaptureTypesInit == MI!MissingIndexAssumption /\ MI!Init => MI!TypeOK
  BY DEF MI!MissingIndexAssumption, MI!Init, MI!TypeOK

LEMMA CaptureReturn ==
    ASSUME MI!TypeOK, mNow' = mNow, NEW p \in Pollers, MI!Return(p)
    PROVE  /\ mPc' \in [Pollers -> {"idle", "ask", "insert", "sentinel"}]
           /\ mTodo' \in [Pollers -> SUBSET Tables]
           /\ checked' \in [Pollers -> 0..mNow]
           /\ stamp' \in [Pollers -> 0..mNow]
           /\ lost' \in [Pollers -> BOOLEAN]
  BY DEF MI!TypeOK, MI!Return

\* The types are kept by every step.
LEMMA CaptureTypesKept == MI!MissingIndexAssumption /\ MI!TypeOK /\ [MI!Next]_MI!vars => MI!TypeOK'
<1> SUFFICES ASSUME MI!MissingIndexAssumption, MI!TypeOK, [MI!Next]_MI!vars PROVE MI!TypeOK'
  OBVIOUS
<1> USE DEF MI!MissingIndexAssumption, MI!TypeOK
<1>1. CASE MI!Tick
  BY <1>1 DEF MI!Tick, MI!locals
<1>2. CASE MI!Prune
  BY <1>2 DEF MI!Prune, MI!locals
<1>3. ASSUME NEW p \in Pollers, MI!Check(p) PROVE MI!TypeOK'
  BY <1>3 DEF MI!Check
<1>4. ASSUME NEW p \in Pollers, MI!Answer(p) PROVE MI!TypeOK'
  BY <1>4 DEF MI!Answer
<1>5. ASSUME NEW p \in Pollers, NEW t \in Tables, MI!Insert(p, t) PROVE MI!TypeOK'
  <2>1. mRows' = mRows \cup {MI!Row(p, t)} /\ mNow' = mNow /\ failures' = failures
    BY <1>5 DEF MI!Insert
  <2>2. MI!Row(p, t) \in [at : 0..mNow, db : MI!Databases, table : Tables \cup {None}, by : Pollers]
    BY DEF MI!Row, MI!Databases
  <2>3. CASE mTodo[p] = {t}
    <3>1. MI!Return(p)
      BY <1>5, <2>3 DEF MI!Insert, MI!NextRow
    <3> QED BY <2>1, <2>2, <3>1, CaptureReturn
  <2>4. CASE mTodo[p] # {t}
    <3>1. /\ mTodo' = [mTodo EXCEPT ![p] = @ \ {t}]
          /\ mPc' = mPc /\ checked' = checked /\ stamp' = stamp /\ lost' = lost
      BY <1>5, <2>4 DEF MI!Insert, MI!NextRow
    <3> QED BY <2>1, <2>2, <3>1
  <2> QED BY <2>3, <2>4
<1>6. ASSUME NEW p \in Pollers, NEW t \in Tables, MI!InsertFails(p, t) PROVE MI!TypeOK'
  <2>1. mRows' = mRows /\ mNow' = mNow /\ failures' \in 0..MaxFaults
    BY <1>6 DEF MI!InsertFails
  <2>2. CASE mTodo[p] = {t}
    <3>1. MI!Return(p)
      BY <1>6, <2>2 DEF MI!InsertFails, MI!NextRow
    <3> QED BY <2>1, <3>1, CaptureReturn
  <2>3. CASE mTodo[p] # {t}
    <3>1. /\ mTodo' = [mTodo EXCEPT ![p] = @ \ {t}] /\ lost' = [lost EXCEPT ![p] = TRUE]
          /\ mPc' = mPc /\ checked' = checked /\ stamp' = stamp
      BY <1>6, <2>3 DEF MI!InsertFails, MI!NextRow
    <3> QED BY <2>1, <3>1
  <2> QED BY <2>2, <2>3
<1>7. ASSUME NEW p \in Pollers, MI!InsertSentinel(p) PROVE MI!TypeOK'
  <2>1. /\ mRows' = mRows \cup {MI!Row(p, None)} /\ mNow' = mNow /\ failures' = failures
        /\ MI!Return(p)
    BY <1>7 DEF MI!InsertSentinel
  <2>2. MI!Row(p, None) \in
          [at : 0..mNow, db : MI!Databases, table : Tables \cup {None}, by : Pollers]
    BY DEF MI!Row, MI!Databases
  <2> QED BY <2>1, <2>2, CaptureReturn
<1>8. ASSUME NEW p \in Pollers, MI!Stop(p) PROVE MI!TypeOK'
  BY <1>8, CaptureReturn DEF MI!Stop
<1>9. CASE UNCHANGED MI!vars
  BY <1>9 DEF MI!vars, MI!locals
<1> QED
  BY <1>1, <1>2, <1>3, <1>4, <1>5, <1>6, <1>7, <1>8, <1>9 DEF MI!Next, MI!Poll

\* What Flight and SpacedCaptures say survives a step that adds no row, moves no
\* stamp and brings no poller into flight.
LEMMA CaptureQuiet ==
    ASSUME MI!MissingIndexAssumption, CaptureInv, MI!TypeOK',
           mRows' \subseteq mRows,
           \A p \in Pollers :
               mPc'[p] = "idle" \/ (mPc'[p] = mPc[p] /\ checked'[p] = checked[p]
                                   /\ stamp'[p] = stamp[p])
    PROVE  (Flight /\ MI!SpacedCaptures)'
<1>1. Flight'
  BY DEF CaptureInv, MI!TypeOK, Flight
<1>2. MI!SpacedCaptures'
  BY DEF CaptureInv, MI!SpacedCaptures
<1> QED BY <1>1, <1>2

\* A row of a capture in flight keeps its distance to every row of its poller.
LEMMA CaptureStored ==
    ASSUME MI!MissingIndexAssumption, CaptureInv, MI!TypeOK',
           NEW p \in Pollers, mPc[p] \in {"insert", "sentinel"},
           NEW table, mRows' = mRows \cup {MI!Row(p, table)},
           \A q \in Pollers :
               \/ q = p /\ mPc'[q] = "idle"
               \/ mPc'[q] = mPc[q] /\ checked'[q] = checked[q] /\ stamp'[q] = stamp[q]
    PROVE  (Flight /\ MI!SpacedCaptures)'
<1>1. Flight'
  <2> SUFFICES ASSUME NEW q \in Pollers
               PROVE  /\ mPc'[q] \in {"idle", "ask", "insert", "sentinel"}
                      /\ mPc'[q] = "ask" =>
                           \A r \in mRows' : r.by = q => checked'[q] - r.at >= Gap
                      /\ mPc'[q] \in {"insert", "sentinel"} =>
                           /\ checked'[q] <= stamp'[q]
                           /\ \A r \in mRows' : r.by = q =>
                                r.at = stamp'[q] \/ checked'[q] - r.at >= Gap
    BY DEF Flight
  <2>1. MI!Row(p, table).by = p /\ MI!Row(p, table).at = stamp[p]
    BY DEF MI!Row
  <2>2. CASE q = p
    BY <2>1, <2>2 DEF CaptureInv, Flight
  <2>3. CASE q # p
    BY <2>1, <2>3 DEF CaptureInv, Flight
  <2> QED BY <2>2, <2>3
<1>2. MI!SpacedCaptures'
  <2> SUFFICES ASSUME NEW r \in mRows', NEW s \in mRows', r.by = s.by, r.at < s.at
               PROVE  s.at - r.at >= Gap
    BY DEF MI!SpacedCaptures
  <2>1. MI!Row(p, table).by = p /\ MI!Row(p, table).at = stamp[p]
    BY DEF MI!Row
  <2>2. \A u \in mRows : u.at \in Nat
    BY DEF CaptureInv, MI!TypeOK
  <2>3. checked[p] \in Nat /\ stamp[p] \in Nat /\ checked[p] <= stamp[p] /\ Gap \in Nat
    BY DEF MI!MissingIndexAssumption, CaptureInv, MI!TypeOK, Flight
  <2>4. \A u \in mRows : u.by = p => u.at = stamp[p] \/ checked[p] - u.at >= Gap
    BY DEF CaptureInv, Flight
  <2>5. CASE r \in mRows /\ s \in mRows
    BY <2>5 DEF CaptureInv, MI!SpacedCaptures
  <2>6. CASE r = MI!Row(p, table) /\ s = MI!Row(p, table)
    BY <2>1, <2>3, <2>6
  <2>7. CASE r \in mRows /\ s = MI!Row(p, table)
    BY <2>1, <2>2, <2>3, <2>4, <2>7
  <2>8. CASE r = MI!Row(p, table) /\ s \in mRows
    <3>1. s.by = p /\ s.at \in Nat
      BY <2>1, <2>2, <2>8
    <3>2. s.at = stamp[p] \/ checked[p] - s.at >= Gap
      BY <2>4, <2>8, <3>1
    <3> QED BY <2>1, <2>3, <2>8, <3>1, <3>2
  <2> QED BY <2>5, <2>6, <2>7, <2>8
<1> QED BY <1>1, <1>2

\* The strengthened invariant is kept by every step.
LEMMA CaptureInvKept == MI!MissingIndexAssumption /\ CaptureInv /\ [MI!Next]_MI!vars => CaptureInv'
<1> SUFFICES ASSUME MI!MissingIndexAssumption, CaptureInv, [MI!Next]_MI!vars PROVE CaptureInv'
  OBVIOUS
<1>0. MI!TypeOK /\ MI!TypeOK'
  BY CaptureTypesKept DEF CaptureInv
<1>1. CASE MI!Tick
  BY <1>0, <1>1, CaptureQuiet DEF CaptureInv, MI!Tick, MI!locals
<1>2. CASE MI!Prune
  BY <1>0, <1>2, CaptureQuiet DEF CaptureInv, MI!Prune, MI!locals
<1>3. ASSUME NEW p \in Pollers, MI!Check(p) PROVE CaptureInv'
  <2>1. \A r \in mRows : mNow - r.at >= Gap
    BY <1>3 DEF MI!Check, MI!CaptureIsDue, MI!Captures
  <2>2. /\ mPc' = [mPc EXCEPT ![p] = "ask"] /\ checked' = [checked EXCEPT ![p] = mNow]
        /\ mRows' = mRows /\ stamp' = stamp
    BY <1>3 DEF MI!Check
  <2>3. Flight'
    BY <1>0, <2>1, <2>2 DEF CaptureInv, Flight, MI!TypeOK
  <2>4. MI!SpacedCaptures'
    BY <2>2 DEF CaptureInv, MI!SpacedCaptures
  <2> QED BY <1>0, <2>3, <2>4 DEF CaptureInv
<1>4. ASSUME NEW p \in Pollers, MI!Answer(p) PROVE CaptureInv'
  <2>1. /\ mPc[p] = "ask" /\ stamp' = [stamp EXCEPT ![p] = mNow]
        /\ \/ mPc' = [mPc EXCEPT ![p] = "sentinel"] \/ mPc' = [mPc EXCEPT ![p] = "insert"]
        /\ mRows' = mRows /\ checked' = checked
    BY <1>4 DEF MI!Answer
  <2>2. Flight'
    <3> SUFFICES ASSUME NEW q \in Pollers
                 PROVE  /\ mPc'[q] \in {"idle", "ask", "insert", "sentinel"}
                        /\ mPc'[q] = "ask" =>
                             \A r \in mRows' : r.by = q => checked'[q] - r.at >= Gap
                        /\ mPc'[q] \in {"insert", "sentinel"} =>
                             /\ checked'[q] <= stamp'[q]
                             /\ \A r \in mRows' : r.by = q =>
                                  r.at = stamp'[q] \/ checked'[q] - r.at >= Gap
      BY DEF Flight
    <3>1. CASE q = p
      BY <1>0, <2>1, <3>1 DEF CaptureInv, Flight, MI!TypeOK
    <3>2. CASE q # p
      BY <1>0, <2>1, <3>2 DEF CaptureInv, Flight, MI!TypeOK
    <3> QED BY <3>1, <3>2
  <2>3. MI!SpacedCaptures'
    BY <2>1 DEF CaptureInv, MI!SpacedCaptures
  <2> QED BY <1>0, <2>2, <2>3 DEF CaptureInv
<1>5. ASSUME NEW p \in Pollers, NEW t \in Tables, MI!Insert(p, t) PROVE CaptureInv'
  <2>1. mPc[p] = "insert" /\ mRows' = mRows \cup {MI!Row(p, t)}
    BY <1>5 DEF MI!Insert
  <2>2. \A q \in Pollers :
          \/ q = p /\ mPc'[q] = "idle"
          \/ mPc'[q] = mPc[q] /\ checked'[q] = checked[q] /\ stamp'[q] = stamp[q]
    BY <1>0, <1>5 DEF MI!Insert, MI!NextRow, MI!Return, MI!TypeOK
  <2> QED BY <1>0, <2>1, <2>2, CaptureStored DEF CaptureInv
<1>6. ASSUME NEW p \in Pollers, NEW t \in Tables, MI!InsertFails(p, t) PROVE CaptureInv'
  <2>1. mRows' = mRows /\ \A q \in Pollers :
          \/ mPc'[q] = "idle"
          \/ mPc'[q] = mPc[q] /\ checked'[q] = checked[q] /\ stamp'[q] = stamp[q]
    BY <1>0, <1>6 DEF MI!InsertFails, MI!NextRow, MI!Return, MI!TypeOK
  <2> QED BY <1>0, <2>1, CaptureQuiet DEF CaptureInv
<1>7. ASSUME NEW p \in Pollers, MI!InsertSentinel(p) PROVE CaptureInv'
  <2>1. mPc[p] = "sentinel" /\ mRows' = mRows \cup {MI!Row(p, None)}
    BY <1>7 DEF MI!InsertSentinel
  <2>2. \A q \in Pollers :
          \/ q = p /\ mPc'[q] = "idle"
          \/ mPc'[q] = mPc[q] /\ checked'[q] = checked[q] /\ stamp'[q] = stamp[q]
    BY <1>0, <1>7 DEF MI!InsertSentinel, MI!Return, MI!TypeOK
  <2> QED BY <1>0, <2>1, <2>2, CaptureStored DEF CaptureInv
<1>8. ASSUME NEW p \in Pollers, MI!Stop(p) PROVE CaptureInv'
  <2>1. mRows' = mRows /\ \A q \in Pollers :
          \/ mPc'[q] = "idle"
          \/ mPc'[q] = mPc[q] /\ checked'[q] = checked[q] /\ stamp'[q] = stamp[q]
    BY <1>0, <1>8 DEF MI!Stop, MI!Return, MI!TypeOK
  <2> QED BY <1>0, <2>1, CaptureQuiet DEF CaptureInv
<1>9. CASE UNCHANGED MI!vars
  BY <1>0, <1>9, CaptureQuiet DEF CaptureInv, MI!vars, MI!locals
<1> QED
  BY <1>1, <1>2, <1>3, <1>4, <1>5, <1>6, <1>7, <1>8, <1>9 DEF MI!Next, MI!Poll

LEMMA CaptureInvInit == MI!MissingIndexAssumption /\ MI!Init => CaptureInv
  BY CaptureTypesInit DEF MI!Init, CaptureInv, Flight, MI!SpacedCaptures

LEMMA CaptureInvHolds == ASSUME MI!MissingIndexAssumption PROVE MI!Spec => []CaptureInv
<1>1. MI!Init => CaptureInv
  BY CaptureInvInit
<1>2. CaptureInv /\ [MI!Next]_MI!vars => CaptureInv'
  BY CaptureInvKept
<1> QED BY <1>1, <1>2, PTL DEF MI!Spec

-----------------------------------------------------------------------------
(* The alerts, for any rules, samples, faults and bounds.                    *)

\* What has been pruned is older than the retention, and no pass takes so long
\* that it could miss such a row's cooldown.
AlertClocks ==
    /\ cutoff = 0 \/ cutoff + MRetention <= aNow
    /\ aPc # "idle" => aNow <= evalAt + PassTime

\* Rows outlive the cooldown.
Outlives == MRetention + 1 >= Cooldown + PassTime

AlertInv == AL!TypeOK /\ AlertClocks /\ (Outlives => AL!NoSpam)

Alert == [rule : AL!RuleIds, at : 0..LateTime, notified : BOOLEAN]

-----------------------------------------------------------------------------
LEMMA AlertBounds ==
    ASSUME AL!AlertAssumption
    PROVE  /\ MRetention \in Nat /\ PassTime \in Nat
           /\ Cooldown \in Nat /\ MaxLevel \in Nat /\ LateTime \in Nat /\ MaxFaults \in Nat
           /\ DOMAIN Rules \subseteq Nat
<1>1. Rules \in Seq([id : STRING, metric : Metrics, level : Nat])
  BY DEF AL!AlertAssumption
<1>2. DOMAIN Rules = 1..Len(Rules) /\ Len(Rules) \in Nat
  BY <1>1
<1> QED BY <1>2 DEF AL!AlertAssumption

\* A set of numbers has a least one.
Less == {ss \in Nat \X Nat : ss[1] < ss[2]}

LEMMA LeastExists ==
    ASSUME NEW S, S \subseteq Nat, S # {}
    PROVE  AL!Min(S) \in S
<1>1. IsWellFoundedOn(Less, Nat)
  BY NatLessThanWellFounded DEF OpToRel, Less
<1>2. \E n \in S : \A m \in S : <<m, n>> \notin Less
  BY <1>1, WFMin
<1>3. \A m, n \in Nat : <<m, n>> \notin Less => n <= m
  BY DEF Less
<1>4. \E n \in S : \A m \in S : n <= m
  BY <1>2, <1>3
<1> QED BY <1>4 DEF AL!Min

\* The breach at hand is one of those to handle, and the id of a rule.
LEMMA CurrentIs ==
    ASSUME AL!AlertAssumption, breaches \subseteq DOMAIN Rules, breaches # {}
    PROVE  AL!Min(breaches) \in breaches /\ AL!Current \in AL!RuleIds
<1>1. AL!Min(breaches) \in breaches
  BY AlertBounds, LeastExists
<1> QED BY <1>1 DEF AL!Current, AL!RuleIds

\* The alerts are a sequence of rows, field by field.
LEMMA AlertsAre ==
    ASSUME AL!AlertAssumption, AL!TypeOK
    PROVE  /\ alerts \in Seq(Alert) /\ Len(alerts) \in Nat /\ DOMAIN alerts = 1..Len(alerts)
           /\ \A i \in DOMAIN alerts : alerts[i] \in Alert /\ alerts[i].at \in Nat
<1>1. alerts \in Seq(Alert)
  BY DEF AL!TypeOK, Alert
<1>2. \A i \in 1..Len(alerts) : alerts[i] \in Alert
  BY <1>1, ElementOfSeq
<1>3. \A a \in Alert : a.at \in Nat
  BY AlertBounds DEF Alert
<1> QED BY <1>1, <1>2, <1>3

LEMMA AlertsNextRule ==
    ASSUME AL!TypeOK, AL!NextRule
    PROVE  /\ breaches' \subseteq DOMAIN Rules /\ aPc' \in {"idle", "rules", "post"}
           /\ (aPc' = "idle") <=> (breaches' = {})
  BY DEF AL!TypeOK, AL!NextRule

LEMMA AlertInvInit == ASSUME AL!AlertAssumption PROVE AL!Init => AlertInv
<1> SUFFICES ASSUME AL!Init PROVE AlertInv
  OBVIOUS
<1>1. \A S : <<>> \in Seq(S)
  OBVIOUS
<1>2. alerts \in Seq([rule : AL!RuleIds, at : 0..LateTime, notified : BOOLEAN])
  BY <1>1 DEF AL!Init
<1>3. AL!TypeOK
  <2>1. aNow \in 0..LateTime /\ evalAt \in 0..aNow /\ faults \in 0..MaxFaults
    BY AlertBounds DEF AL!Init
  <2>2. sample \in [Metrics -> 0..MaxLevel \cup {None}] /\ taken \in [Metrics -> 0..aNow]
    BY <2>1 DEF AL!Init
  <2> QED BY <1>2, <2>1, <2>2 DEF AL!Init, AL!TypeOK
<1>4. AlertClocks /\ AL!NoSpam
  BY DEF AL!Init, AlertClocks, AL!NoSpam
<1> QED BY <1>3, <1>4 DEF AlertInv

\* Storing an alert: the row appended is a cooldown after its rule's others.
LEMMA FireKeeps == ASSUME AL!AlertAssumption, AlertInv, AL!Fire PROVE AlertInv'
<1> DEFINE row == [rule |-> AL!Current, at |-> evalAt, notified |-> FALSE]
<1>0. AL!TypeOK /\ breaches # {} /\ AL!Current \in AL!RuleIds
  BY CurrentIs DEF AlertInv, AL!TypeOK, AL!Fire
<1>1. row \in Alert
  BY <1>0, AlertBounds DEF AL!TypeOK, Alert
<1>2. alerts \in Seq(Alert) /\ alerts' = Append(alerts, row)
  BY <1>0, AlertsAre DEF AL!Fire
<1>3. /\ alerts' \in Seq(Alert)
      /\ DOMAIN alerts' = 1..(Len(alerts) + 1) /\ DOMAIN alerts = 1..Len(alerts)
      /\ \A i \in DOMAIN alerts : alerts'[i] = alerts[i]
      /\ alerts'[Len(alerts) + 1] = row
  <2> HIDE DEF row
  <2> QED BY <1>1, <1>2
<1>4. AL!TypeOK'
  <2>1. CASE Webhook
    BY <2>1, <1>0, <1>3 DEF AL!Fire, AL!TypeOK, AL!store, Alert
  <2>2. CASE ~Webhook
    BY <2>2, <1>0, <1>3, AlertsNextRule DEF AL!Fire, AL!TypeOK, AL!store, Alert
  <2> QED BY <2>1, <2>2
<1>5. ASSUME Outlives PROVE AL!NoSpam'
  <2> SUFFICES ASSUME NEW i \in DOMAIN alerts', NEW j \in DOMAIN alerts',
                      i < j, alerts'[i].rule = alerts'[j].rule
               PROVE  alerts'[j].at - alerts'[i].at >= Cooldown
    BY DEF AL!NoSpam
  <2>0. Len(alerts) \in Nat /\ i \in Nat /\ j \in Nat
    BY <1>0, AlertsAre, <1>3
  <2>1. CASE j = Len(alerts) + 1
    <3>1. i \in DOMAIN alerts /\ alerts'[i] = alerts[i] /\ alerts'[j] = row
      BY <2>0, <2>1, <1>3
    <3>2. evalAt - alerts[i].at >= Cooldown
      <4> DEFINE at == alerts[i].at
      <4>1. at \in Nat
        BY <3>1, <1>0, AlertsAre
      <4>2. evalAt \in Nat /\ aNow \in Nat /\ cutoff \in Nat
        BY <1>0, AlertBounds DEF AL!TypeOK
      <4>3. ASSUME at >= cutoff PROVE evalAt - at >= Cooldown
        BY <3>1, <4>3 DEF AL!Fire, AL!ShouldFire, AL!Fired
      <4>4. ASSUME at < cutoff PROVE evalAt - at >= Cooldown
        <5>1. cutoff + MRetention <= aNow /\ aNow <= evalAt + PassTime
          BY <4>1, <4>2, <4>4 DEF AlertInv, AlertClocks, AL!Fire
        <5>2. MRetention + 1 >= Cooldown + PassTime
          BY <1>5 DEF Outlives
        <5>3. MRetention \in Nat /\ PassTime \in Nat /\ Cooldown \in Nat
          BY AlertBounds
        <5> HIDE DEF at
        <5> QED BY <4>1, <4>2, <4>4, <5>1, <5>2, <5>3
      <4> HIDE DEF at
      <4>5. evalAt - at >= Cooldown
        BY <4>1, <4>2, <4>3, <4>4
      <4> QED BY <4>5 DEF at
    <3> QED BY <3>1, <3>2
  <2>2. CASE j # Len(alerts) + 1
    <3>1. i \in DOMAIN alerts /\ j \in DOMAIN alerts
      BY <2>0, <2>2, <1>3
    <3> QED BY <3>1, <1>3, <1>5 DEF AlertInv, AL!NoSpam
  <2> QED BY <2>1, <2>2
<1>6. AlertClocks'
  BY <1>0 DEF AlertInv, AlertClocks, AL!Fire, AL!NextRule, AL!store, AL!TypeOK
<1> QED BY <1>4, <1>5, <1>6 DEF AlertInv

\* Marking a row changes neither its rule nor its time.
LEMMA PostOkKeeps == ASSUME AL!AlertAssumption, AlertInv, AL!PostOk PROVE AlertInv'
<1>0. AL!TypeOK
  BY DEF AlertInv
<1>1. /\ alerts' \in Seq(Alert)
      /\ DOMAIN alerts' = DOMAIN alerts
      /\ \A i \in DOMAIN alerts : /\ alerts'[i].rule = alerts[i].rule
                                  /\ alerts'[i].at = alerts[i].at
  <2>1. CASE alerts' = alerts
    BY <2>1, <1>0, AlertsAre
  <2>2. CASE alerts' = [alerts EXCEPT ![Len(alerts)].notified = TRUE]
    <3>1. DOMAIN alerts' = DOMAIN alerts
      BY <2>2
    <3>2. \A i \in DOMAIN alerts :
            alerts'[i] = alerts[i] \/ alerts'[i] = [alerts[i] EXCEPT !.notified = TRUE]
      BY <2>2
    <3>3. \A a \in Alert : /\ [a EXCEPT !.notified = TRUE] \in Alert
                           /\ [a EXCEPT !.notified = TRUE].rule = a.rule
                           /\ [a EXCEPT !.notified = TRUE].at = a.at
      BY DEF Alert
    <3>4. \A i \in DOMAIN alerts : /\ alerts'[i] \in Alert
                                   /\ alerts'[i].rule = alerts[i].rule
                                   /\ alerts'[i].at = alerts[i].at
      BY <3>2, <3>3, <1>0, AlertsAre
    <3>5. alerts' \in [1..Len(alerts) -> Alert]
      BY <2>2, <3>1, <3>4, <1>0, AlertsAre
    <3>6. alerts' \in Seq(Alert)
      BY <3>5, <1>0, AlertsAre
    <3> QED BY <3>1, <3>4, <3>6
  <2> QED BY <2>1, <2>2 DEF AL!PostOk
<1>2. AL!TypeOK'
  BY <1>0, <1>1, AlertsNextRule DEF AL!PostOk, AL!TypeOK, AL!store, Alert
<1>3. AL!NoSpam => AL!NoSpam'
  BY <1>1 DEF AL!NoSpam
<1>4. AlertClocks'
  BY <1>0 DEF AlertInv, AlertClocks, AL!PostOk, AL!NextRule, AL!store, AL!TypeOK
<1> QED BY <1>2, <1>3, <1>4 DEF AlertInv, Outlives

LEMMA AlertInvKept == ASSUME AL!AlertAssumption, AlertInv, [AL!Next]_AL!vars PROVE AlertInv'
<1> USE AlertBounds DEF AlertInv, AL!store, AL!evaluator
<1>0. AL!TypeOK /\ AlertClocks
  OBVIOUS
<1>1. CASE AL!Tick
  <2>1. alerts' = alerts /\ cutoff' = cutoff /\ evalAt' = evalAt /\ aPc' = aPc /\ aNow' = aNow + 1
    BY <1>1 DEF AL!Tick
  <2>2. AL!TypeOK'
    BY <1>1, <1>0, <2>1 DEF AL!Tick, AL!TypeOK
  <2>3. AlertClocks'
    BY <1>1, <1>0, <2>1 DEF AL!Tick, AL!TypeOK, AlertClocks
  <2>4. AL!NoSpam => AL!NoSpam'
    BY <2>1 DEF AL!NoSpam
  <2> QED BY <2>2, <2>3, <2>4 DEF Outlives
<1>2. ASSUME NEW m \in Metrics, AL!PollReads(m) \/ AL!PollFindsNothing(m) PROVE AlertInv'
  <2>1. alerts' = alerts /\ aNow' = aNow
    BY <1>2 DEF AL!PollReads, AL!PollFindsNothing
  <2>2. AL!TypeOK'
    <3>1. CASE AL!PollReads(m)
      <4>1. PICK v \in 0..MaxLevel : sample' = [sample EXCEPT ![m] = v]
        BY <3>1 DEF AL!PollReads
      <4>2. sample' \in [Metrics -> 0..MaxLevel \cup {None}]
        BY <4>1, <1>0 DEF AL!TypeOK
      <4>3. taken' \in [Metrics -> 0..aNow]
        BY <3>1, <1>0 DEF AL!PollReads, AL!TypeOK
      <4> QED BY <3>1, <1>0, <2>1, <4>2, <4>3 DEF AL!PollReads, AL!TypeOK
    <3>2. CASE AL!PollFindsNothing(m)
      BY <3>2, <1>0, <2>1 DEF AL!PollFindsNothing, AL!TypeOK
    <3> QED BY <1>2, <3>1, <3>2
  <2>3. AlertClocks'
    BY <1>2, <1>0, <2>1 DEF AL!PollReads, AL!PollFindsNothing, AlertClocks
  <2>4. AL!NoSpam => AL!NoSpam'
    BY <2>1 DEF AL!NoSpam
  <2> QED BY <2>2, <2>3, <2>4 DEF Outlives
<1>3. CASE AL!Prune \/ AL!Evaluate \/ AL!Crash
  <2>1. alerts' = alerts /\ aNow' = aNow
    BY <1>3 DEF AL!Prune, AL!Evaluate, AL!Crash
  <2>2. AL!TypeOK'
    <3>1. CASE AL!Prune
      BY <3>1, <1>0, <2>1 DEF AL!Prune, AL!TypeOK
    <3>2. CASE AL!Evaluate
      <4>1. breaches' \subseteq DOMAIN Rules
        BY <3>2 DEF AL!Evaluate
      <4> QED BY <3>2, <1>0, <2>1, <4>1 DEF AL!Evaluate, AL!TypeOK
    <3>3. CASE AL!Crash
      BY <3>3, <1>0, <2>1 DEF AL!Crash, AL!TypeOK
    <3> QED BY <1>3, <3>1, <3>2, <3>3
  <2>3. AlertClocks'
    BY <1>3, <1>0, <2>1 DEF AL!Prune, AL!Evaluate, AL!Crash, AL!TypeOK, AlertClocks
  <2>4. AL!NoSpam => AL!NoSpam'
    BY <2>1 DEF AL!NoSpam
  <2> QED BY <2>2, <2>3, <2>4 DEF Outlives
<1>4. CASE AL!Suppress \/ AL!FireFails \/ AL!PostFails
  <2>0. /\ AL!NextRule /\ UNCHANGED <<aNow, AL!store, alerts, evalAt>>
        /\ faults' \in 0..MaxFaults
    BY <1>4, <1>0 DEF AL!Suppress, AL!FireFails, AL!PostFails, AL!TypeOK
  <2>1. AL!TypeOK'
    BY <1>0, <2>0, AlertsNextRule DEF AL!TypeOK
  <2>2. AL!NoSpam => AL!NoSpam'
    BY <1>4 DEF AL!Suppress, AL!FireFails, AL!PostFails, AL!NoSpam
  <2>3. AlertClocks'
    BY <1>4, <1>0 DEF AL!Suppress, AL!FireFails, AL!PostFails, AL!NextRule, AL!TypeOK, AlertClocks
  <2> QED BY <2>1, <2>2, <2>3 DEF Outlives
<1>5. CASE AL!Fire
  BY <1>5, FireKeeps
<1>6. CASE AL!PostOk
  BY <1>6, PostOkKeeps
<1>7. CASE UNCHANGED AL!vars
  BY <1>7 DEF AL!vars, AL!TypeOK, AlertClocks, AL!NoSpam, Outlives
<1> QED BY <1>1, <1>2, <1>3, <1>4, <1>5, <1>6, <1>7 DEF AL!Next, AL!Handle

LEMMA AlertInvHolds == ASSUME AL!AlertAssumption PROVE AL!Spec => []AlertInv
<1>1. AL!Init => AlertInv
  BY AlertInvInit
<1>2. AlertInv /\ [AL!Next]_AL!vars => AlertInv'
  BY AlertInvKept
<1> QED BY <1>1, <1>2, PTL DEF AL!Spec

-----------------------------------------------------------------------------
(* The collectors of one store.  What is shown of one component, in         *)
(* QueryHistoryProofs of the query baselines, holds of the composition: a    *)
(* step of it is a step of the component, or leaves its variables alone.     *)

QHP == INSTANCE QueryHistoryProofs WITH
        now <- qNow, pc <- qPc, todo <- qTodo

LEMMA DeadlocksMove == CollectorsSpec => Spec
<1>1. CollectorsInit => Init
    BY DEF CollectorsInit
<1>2. [CollectorsNext]_allVars => [Next]_vars
    BY DEF CollectorsNext, Deadlocks, Queries, MissingIndex, Alerts, allVars
<1> QED
    BY <1>1, <1>2, PTL DEF CollectorsSpec, Spec

LEMMA MissingIndexMoves == CollectorsSpec => MI!Spec
<1>1. CollectorsInit => MI!Init
    BY DEF CollectorsInit
<1>2. [CollectorsNext]_allVars => [MI!Next]_MI!vars
    BY DEF CollectorsNext, Deadlocks, Queries, MissingIndex, Alerts, allVars, mVars,
           MI!vars, MI!locals
<1> QED
    BY <1>1, <1>2, PTL DEF CollectorsSpec, MI!Spec

LEMMA CapturesKept == CollectorsSpec => []CaptureInv
BY MissingIndexMoves, CaptureInvHolds, CollectorsAssumption, PTL

\* The folds of the two instances.
LEMMA SameFolds ==
    /\ \A b, x : QH!Fold(b, x) = QHP!Fold(b, x)
    /\ \A s : QH!Batch(s) = QHP!Batch(s)
    /\ \A s : QH!SumOf(s) = QHP!SumOf(s)
<1>1. \A b, x : QH!Fold(b, x) = QHP!Fold(b, x)
    BY DEF QH!Fold, QHP!Fold
<1>2. \A s : QH!SumOf(s) = QHP!SumOf(s)
    BY DEF QH!SumOf, QHP!SumOf, QH!FoldLeft, QHP!FoldLeft, QH!MapThenFoldSet,
           QHP!MapThenFoldSet, QH!Max, QHP!Max
<1>3. \A s : QH!Batch(s) = QHP!Batch(s)
    BY DEF QH!Batch, QHP!Batch, QH!Fold, QHP!Fold, QH!NoBaseline, QHP!NoBaseline,
           QH!FoldLeft, QHP!FoldLeft, QH!MapThenFoldSet, QHP!MapThenFoldSet, QH!Max, QHP!Max
<1> QED
    BY <1>1, <1>2, <1>3

LEMMA SameVerdicts == \A p : QH!Verdict(p) <=> QHP!Verdict(p)
BY DEF QH!Verdict, QHP!Verdict, QH!Sample, QHP!Sample,
       QH!DetectRegressionDurable, QHP!DetectRegressionDurable, QH!ZAtLeast, QHP!ZAtLeast,
       QH!ZScoreK, QHP!ZScoreK, QH!MinAbsDelta, QHP!MinAbsDelta,
       QH!BaselineMinCount, QHP!BaselineMinCount

LEMMA QueriesMove == CollectorsSpec => QHP!Spec
<1>1. CollectorsInit => QHP!Init
    BY SameFolds DEF CollectorsInit, QH!Init, QHP!Init, QH!NoBaseline, QHP!NoBaseline
<1>2. QH!Next => QHP!Next
    BY SameFolds
       DEF QH!Next, QHP!Next, QH!Tick, QHP!Tick, QH!Prune, QHP!Prune, QH!Poll, QHP!Poll,
           QH!Query, QHP!Query, QH!InsertRow, QHP!InsertRow, QH!InsertFails, QHP!InsertFails,
           QH!ReadBaseline, QHP!ReadBaseline, QH!UpdateBaseline, QHP!UpdateBaseline,
           QH!Crash, QHP!Crash, QH!NextRow, QHP!NextRow, QH!Forget, QHP!Forget,
           QH!Sample, QHP!Sample, QH!NoBaseline, QHP!NoBaseline, QH!locals, QHP!locals
<1>3. [CollectorsNext]_allVars => [QHP!Next]_QHP!vars
    BY <1>2
       DEF CollectorsNext, Deadlocks, Queries, MissingIndex, Alerts, allVars, qVars,
           QHP!vars, QHP!locals
<1> QED
    BY <1>1, <1>3, PTL DEF CollectorsSpec, QHP!Spec

LEMMA AlertsMove == CollectorsSpec => AL!Spec
<1>1. CollectorsInit => AL!Init
    BY DEF CollectorsInit
<1>2. [CollectorsNext]_allVars => [AL!Next]_AL!vars
    BY DEF CollectorsNext, Deadlocks, Queries, MissingIndex, Alerts, allVars, aVars,
           AL!vars, AL!store, AL!evaluator
<1> QED
    BY <1>1, <1>2, PTL DEF CollectorsSpec, AL!Spec

LEMMA AlertsKept == CollectorsSpec => []AlertInv
BY AlertsMove, AlertInvHolds, CollectorsAssumption, PTL

LEMMA QueriesAssumed == QHP!QueryHistoryAssumption
BY CollectorsAssumption DEF QH!QueryHistoryAssumption, QHP!QueryHistoryAssumption

\* Beside the other collectors, too, no poller stores a deadlock while its own
\* row of it is there (deadlocks.rs:68).
THEOREM OneRowEachCollected == CollectorsSpec => []OneRowPerPoller
BY DeadlocksMove, OneRowEachPoller, PTL

\* The missing-index polls stay in their types.
THEOREM CaptureTypes == CollectorsSpec => []MI!TypeOK
<1>1. CaptureInv => MI!TypeOK
    BY DEF CaptureInv
<1> QED
    BY <1>1, CapturesKept, PTL

\* The captures of one missing-index poller are at least MIN_CAPTURE_GAP_MS
\* apart, whatever fails, dies, is pruned or polls beside it (missing_index.rs:49).
THEOREM CapturesApart == CollectorsSpec => []SpacedCaptures
<1>1. CaptureInv => SpacedCaptures
    BY DEF CaptureInv, SpacedCaptures
<1> QED
    BY <1>1, CapturesKept, PTL

\* A missing-index poll that ends without a failure leaves a capture of its
\* database, a row that says so if there was nothing (missing_index.rs:92).
THEOREM LooksCaptured == CollectorsSpec => LooksAreRecorded
<1>1. CaptureInv /\ [MI!Next]_MI!vars => [\A p \in Pollers : (MI!PollEnds(p) /\ ~lost[p]) =>
         \E r \in mRows' : r.db = Database[p] /\ r.at >= checked[p]]_MI!vars
  <2> SUFFICES ASSUME CaptureInv, MI!Next, NEW q \in Pollers, MI!PollEnds(q)
               PROVE  \E r \in mRows' : r.db = Database[q] /\ r.at >= checked[q]
    BY DEF MI!vars
  <2>0. MI!TypeOK /\ failures \in Nat /\ mPc[q] # "idle" /\ mPc'[q] = "idle" /\ failures' = failures
    BY DEF CaptureInv, MI!TypeOK, MI!PollEnds
  <2>1. ASSUME MI!Tick \/ MI!Prune PROVE FALSE
    BY <2>0, <2>1 DEF MI!Tick, MI!Prune, MI!locals
  <2>2. ASSUME NEW p \in Pollers, MI!Check(p) \/ MI!Answer(p) PROVE FALSE
    BY <2>0, <2>2 DEF MI!Check, MI!Answer, MI!TypeOK
  <2>3. ASSUME NEW p \in Pollers, NEW t \in Tables, MI!Insert(p, t)
        PROVE  \E r \in mRows' : r.db = Database[q] /\ r.at >= checked[q]
    <3>1. q = p
      BY <2>0, <2>3 DEF MI!Insert, MI!NextRow, MI!Return, MI!TypeOK
    <3>2. MI!Row(p, t) \in mRows' /\ MI!Row(p, t).db = Database[p] /\ MI!Row(p, t).at = stamp[p]
      BY <2>3 DEF MI!Insert, MI!Row
    <3>3. checked[p] <= stamp[p] /\ stamp[p] \in Nat /\ checked[p] \in Nat
      BY <2>3, <2>0 DEF CaptureInv, Flight, MI!Insert, MI!TypeOK
    <3> QED BY <3>1, <3>2, <3>3
  <2>4. ASSUME NEW p \in Pollers, MI!InsertSentinel(p)
        PROVE  \E r \in mRows' : r.db = Database[q] /\ r.at >= checked[q]
    <3>1. q = p
      BY <2>0, <2>4 DEF MI!InsertSentinel, MI!Return, MI!TypeOK
    <3>2. MI!Row(p, None) \in mRows' /\ MI!Row(p, None).db = Database[p]
          /\ MI!Row(p, None).at = stamp[p]
      BY <2>4 DEF MI!InsertSentinel, MI!Row
    <3>3. checked[p] <= stamp[p] /\ stamp[p] \in Nat /\ checked[p] \in Nat
      BY <2>4, <2>0 DEF CaptureInv, Flight, MI!InsertSentinel, MI!TypeOK
    <3> QED BY <3>1, <3>2, <3>3
  <2>5. ASSUME NEW p \in Pollers, MI!Stop(p) \/ \E t \in Tables : MI!InsertFails(p, t) PROVE FALSE
    BY <2>0, <2>5 DEF MI!Stop, MI!InsertFails
  <2> QED BY <2>1, <2>2, <2>3, <2>4, <2>5 DEF MI!Next, MI!Poll
<1> QED
    BY <1>1, CapturesKept, MissingIndexMoves, PTL
       DEF MI!Spec, LooksAreRecorded, MI!LooksAreRecorded

\* The baseline of a query says of its samples what a pass over them would, in
\* whatever order the pollers of its server fold them (QueryBaseline::fold).
THEOREM BaselineExact == CollectorsSpec => []BaselineIsBatch
<1>1. QHP!Spec => []QHP!BaselineIsBatch
    BY QueriesAssumed, QHP!RowIsBatch
<1>2. QHP!BaselineIsBatch <=> BaselineIsBatch
    BY SameFolds DEF BaselineIsBatch, QH!BaselineIsBatch, QHP!BaselineIsBatch,
                     QH!Last, QHP!Last
<1> QED
    BY <1>1, <1>2, QueriesMove, PTL

\* A sample is flagged by the poller exactly when the report's detector would flag
\* it over the samples the baseline held (detect_regression_durable).
THEOREM DetectorsSame == CollectorsSpec => []DetectorsAgree
<1>1. QHP!Spec => []QHP!DetectorsAgree
    BY QueriesAssumed, QHP!PollersAgree
<1>2. \A points : QH!DetectRegression(points) <=> QHP!DetectRegression(points)
    BY DEF QH!DetectRegression, QHP!DetectRegression, QH!Front, QHP!Front, QH!Last, QHP!Last,
           QH!MinSamples, QHP!MinSamples, QH!MinExecutions, QHP!MinExecutions,
           QH!ZScoreK, QHP!ZScoreK, QH!MinAbsDelta, QHP!MinAbsDelta,
           QH!ZAtLeast, QHP!ZAtLeast,
           QH!SumOf, QHP!SumOf, QH!FoldLeft, QHP!FoldLeft, QH!MapThenFoldSet,
           QHP!MapThenFoldSet, QH!Max, QHP!Max
<1>3. QHP!DetectorsAgree <=> DetectorsAgree
    BY <1>2, SameVerdicts
       DEF DetectorsAgree, QH!DetectorsAgree, QHP!DetectorsAgree, QH!Sample, QHP!Sample,
           QH!BaselineMinCount, QHP!BaselineMinCount
<1> QED
    BY <1>1, <1>3, QueriesMove, PTL

\* A flagged spike is on the health badge, though the baseline judged by then
\* holds it (baseline_trend_from).
THEOREM FlaggedShow == CollectorsSpec => SpikeShows
<1>1. QHP!Spec => QHP!SpikeShows
    BY QueriesAssumed, QHP!SpikesShow
<1>2. \A b : QH!Band(b) = QHP!Band(b)
    BY DEF QH!Band, QHP!Band, QH!ZAtLeast, QHP!ZAtLeast, QH!ZScoreK, QHP!ZScoreK,
           QH!BaselineMinCount, QHP!BaselineMinCount
<1>3. \A p : QH!UpdateBaseline(p) => QHP!UpdateBaseline(p)
    BY SameFolds
       DEF QH!UpdateBaseline, QHP!UpdateBaseline, QH!NextRow, QHP!NextRow,
           QH!Forget, QHP!Forget, QH!Sample, QHP!Sample, QH!NoBaseline, QHP!NoBaseline
<1>4. [\A p \in Pollers : (QHP!UpdateBaseline(p) /\ seen[p] = log /\ QHP!Verdict(p))
          => QHP!Band(base'.row) \in {"elevated", "regressed"}]_QHP!vars
      => [\A p \in Pollers : (QH!UpdateBaseline(p) /\ seen[p] = log /\ QH!Verdict(p))
          => QH!Band(base'.row) \in {"elevated", "regressed"}]_QH!vars
    BY <1>2, <1>3, SameVerdicts DEF QH!vars, QHP!vars, QH!locals, QHP!locals
<1>5. QHP!SpikeShows => SpikeShows
    BY <1>4, PTL DEF SpikeShows, QH!SpikeShows, QHP!SpikeShows
<1> QED
    BY <1>1, <1>5, QueriesMove, PTL

\* Samples, rows of alerts_fired and the evaluator's loop stay in their types,
\* for any rules.
THEOREM AlertTypes == CollectorsSpec => []AL!TypeOK
<1>1. AlertInv => AL!TypeOK
    BY DEF AlertInv
<1> QED
    BY <1>1, AlertsKept, PTL

\* Two rows of one alert rule are a cooldown apart, whatever crashes, fails or is
\* pruned, if rows are kept longer than it (should_fire_alert, storage.rs).
THEOREM AlertsApart == ASSUME Outlives PROVE CollectorsSpec => []NoSpam
<1>1. AlertInv => NoSpam
    BY DEF AlertInv, NoSpam
<1> QED
    BY <1>1, AlertsKept, PTL

\* A breach gets no row of its own only in the cooldown of that very rule, never
\* because of another tier of its metric (alert_eval.rs, tick).
THEOREM NoTierSilenced == ASSUME Cooldown > 0 PROVE CollectorsSpec => NoTierMasked
<1>0. AL!AlertAssumption
    BY CollectorsAssumption
<1>1. AlertInv /\ [AL!Next]_AL!vars =>
        [aPc = "rules" /\ breaches' # breaches /\ faults' = faults =>
           \E i \in DOMAIN alerts' :
             alerts'[i].rule = AL!Current /\ evalAt - alerts'[i].at < Cooldown]_AL!vars
  <2> SUFFICES ASSUME AlertInv, AL!Next, aPc = "rules", breaches' # breaches, faults' = faults
               PROVE  \E i \in DOMAIN alerts' :
                        alerts'[i].rule = AL!Current /\ evalAt - alerts'[i].at < Cooldown
    OBVIOUS
  <2>0. /\ AL!TypeOK /\ faults \in Nat /\ evalAt \in Nat /\ Cooldown \in Nat
    BY <1>0, AlertBounds DEF AlertInv, AL!TypeOK
  <2>1. CASE AL!Suppress
    <3>1. alerts' = alerts
      BY <2>1 DEF AL!Suppress, AL!store
    <3>2. PICK i \in DOMAIN alerts :
             alerts[i].rule = AL!Current /\ ~(evalAt - alerts[i].at >= Cooldown)
      BY <2>1 DEF AL!Suppress, AL!ShouldFire, AL!Fired
    <3>3. alerts[i].at \in Nat
      BY <2>0, <1>0, AlertsAre
    <3> QED BY <3>1, <3>2, <3>3, <2>0
  <2>2. CASE AL!Fire
    <3> DEFINE row == [rule |-> AL!Current, at |-> evalAt, notified |-> FALSE]
    <3>1. alerts' = Append(alerts, row) /\ alerts \in Seq(Alert) /\ Len(alerts) \in Nat
      BY <2>0, <2>2, <1>0, AlertsAre DEF AL!Fire
    <3>2. Len(alerts) + 1 \in DOMAIN alerts' /\ alerts'[Len(alerts) + 1] = row
      <4> HIDE DEF row
      <4> QED BY <3>1
    <3> QED BY <3>2, <2>0
  <2>3. CASE AL!Tick \/ AL!Prune \/ \E m \in Metrics : AL!PollReads(m) \/ AL!PollFindsNothing(m)
    BY <2>3, <2>0 DEF AL!Tick, AL!Prune, AL!PollReads, AL!PollFindsNothing, AL!evaluator
  <2>4. CASE AL!Evaluate \/ AL!PostOk \/ AL!PostFails
    BY <2>4 DEF AL!Evaluate, AL!PostOk, AL!PostFails
  <2>5. CASE AL!FireFails \/ AL!Crash
    BY <2>5, <2>0 DEF AL!FireFails, AL!Crash
  <2> QED BY <2>1, <2>2, <2>3, <2>4, <2>5 DEF AL!Next, AL!Handle
<1> QED
    BY <1>1, AlertsKept, AlertsMove, PTL DEF NoTierMasked, AL!NoTierMasked, AL!Spec
=============================================================================
