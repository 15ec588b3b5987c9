-------------------------- MODULE CounterDeltaProofs --------------------------
(***************************************************************************)
(* What TLAPS proves of CounterDelta for any set of keys and all bounds.   *)
(* Types and ages hold of any pollers; what the rows claim is proved of    *)
(* pollers whose query returns every key that ever counted, and what only  *)
(* holds while no second one polls the same counters, of one of them.      *)
(***************************************************************************)
EXTENDS CounterDelta, FiniteSetTheorems, TLAPS

\* What the properties of the rows need of the constants.
OnePoller == \A p, q \in Pollers : p = q
FullSight == (\A p \in Pollers : Watches[p] = Keys) /\ Cardinality(Keys) <= TopN

-----------------------------------------------------------------------------
(* Readings.                                                               *)

LEMMA BoundsAreNat ==
    /\ TopN \in Nat /\ MaxGap \in Nat /\ MaxBefore \in Nat /\ MaxTime \in Nat
    /\ MaxGrowth \in Nat /\ MaxRestarts \in Nat /\ MaxFaults \in Nat
    /\ Most \in Nat
BY CounterAssumption DEF CounterAssumption, Most

\* Counts are counters of some of the keys, and only that.
LEMMA PartialIs ==
    ASSUME NEW f PROVE f \in Partial <=> \E K \in SUBSET Keys : f \in [K -> 0..Most]
BY DEF Partial

LEMMA LookupIsNat ==
    ASSUME NEW f \in Partial, NEW k PROVE Lookup(f, k) \in 0..Most
BY PartialIs, BoundsAreNat DEF Lookup

LEMMA ReadingFields ==
    ASSUME NEW r \in Reading
    PROVE  /\ r.counts \in Partial
           /\ r.at \in 0..MaxTime
           /\ r.grown \in [Keys -> 0..MaxGrowth]
           /\ r.epoch \in 0..MaxRestarts
BY DEF Reading

LEMMA NoReadingIs == NoReading \in Reading /\ NoReading.counts \in Partial
                     /\ DOMAIN NoReading.counts = {}
<1>1. NoReading.counts \in [{} -> 0..Most]
    BY DEF NoReading
<1>2. NoReading.counts \in Partial
    BY <1>1, PartialIs
<1>3. Zero \in [Keys -> 0..MaxGrowth]
    BY BoundsAreNat DEF Zero
<1> QED
    BY <1>1, <1>2, <1>3, BoundsAreNat DEF NoReading, Reading

\* A query returns some of the keys the connection can see.
LEMMA ReturnedSees ==
    ASSUME NEW p \in Pollers, NEW K \in Returned(p) PROVE K \subseteq Watches[p]
BY DEF Returned

\* With full sight it returns every key that has a count.
LEMMA ReturnedAll ==
    ASSUME TypeOK, FullSight, NEW p \in Pollers, NEW K \in Returned(p),
           NEW k \in Keys, k \notin K
    PROVE  counter[k] = 0
<1> SUFFICES ASSUME counter[k] # 0 PROVE FALSE
    OBVIOUS
<1> DEFINE waited == {j \in Watches[p] : counter[j] > 0}
<1>1. Watches[p] = Keys /\ counter[k] \in 0..Most
    BY DEF FullSight, TypeOK
<1>2. k \in waited
    BY <1>1, BoundsAreNat
<1>3. CASE kind # "waits"
    BY <1>1, <1>3 DEF Returned
<1>4. CASE kind = "waits"
  <2>1. K \subseteq waited /\ Cardinality(K) = TopN
    BY <1>2, <1>4 DEF Returned
  <2>2. K \subseteq Keys /\ K # Keys
    BY <2>1, <1>1
  <2>3. Cardinality(K) # Cardinality(Keys) /\ Cardinality(K) <= Cardinality(Keys)
    BY <2>2, FS_Subset, CounterAssumption DEF CounterAssumption
  <2>4. Cardinality(K) \in Nat /\ Cardinality(Keys) \in Nat
    BY <2>2, FS_Subset, FS_CardinalityType, CounterAssumption DEF CounterAssumption
  <2> QED
    BY <2>1, <2>3, <2>4, BoundsAreNat DEF FullSight
<1> QED
    BY <1>3, <1>4

-----------------------------------------------------------------------------
(* Types.                                                                  *)

LEMMA InitTypes == Init => TypeOK
<1> SUFFICES ASSUME Init PROVE TypeOK
    OBVIOUS
<1> USE BoundsAreNat DEF Init
<1>1. counter \in [Keys -> 0..Most] /\ grown \in [Keys -> 0..MaxGrowth]
    BY DEF Most, Zero
<1>2. \A k \in Keys : counter[k] <= MaxBefore + grown[k]
    BY DEF Zero
<1>3. snapshot \in [taken : BOOLEAN, is : Reading]
    BY NoReadingIs
<1>4. /\ reading \in [Pollers -> Reading] /\ prior \in [Pollers -> Reading]
      /\ rows \in [Pollers -> Partial]
      /\ \A p \in Pollers : \A k \in DOMAIN rows[p] : rows[p][k] > 0
    BY NoReadingIs
<1>5. booked \in [Keys -> Nat]
    BY DEF Zero
<1> QED
    BY <1>1, <1>2, <1>3, <1>4, <1>5 DEF TypeOK

\* Dropping the poll's locals keeps their types.
LEMMA ForgetTypes ==
    ASSUME TypeOK, NEW p \in Pollers, Forget(p)
    PROVE  /\ pc' \in [Pollers -> {"idle", "diff", "insert"}]
           /\ reading' \in [Pollers -> Reading] /\ prior' \in [Pollers -> Reading]
           /\ rows' \in [Pollers -> Partial]
           /\ \A q \in Pollers : \A k \in DOMAIN rows'[q] : rows'[q][k] > 0
<1>1. /\ pc' \in [Pollers -> {"idle", "diff", "insert"}]
      /\ reading' \in [Pollers -> Reading] /\ prior' \in [Pollers -> Reading]
      /\ rows' \in [Pollers -> Partial]
    BY NoReadingIs DEF Forget, TypeOK
<1>2. ASSUME NEW q \in Pollers, NEW k \in DOMAIN rows'[q] PROVE rows'[q][k] > 0
  <2>1. q # p
    BY <1>2, NoReadingIs DEF Forget, TypeOK
  <2>2. rows'[q] = rows[q]
    BY <2>1 DEF Forget, TypeOK
  <2> QED
    BY <1>2, <2>2 DEF TypeOK
<1> QED
    BY <1>1, <1>2

LEMMA TypeStep == TypeOK /\ [Next]_vars => TypeOK'
<1> SUFFICES ASSUME TypeOK, [Next]_vars PROVE TypeOK'
    OBVIOUS
<1> USE BoundsAreNat
<1>1. CASE Tick
    BY <1>1 DEF Tick, TypeOK, server, pollerVars
<1>2. ASSUME NEW k \in Keys, Count(k) PROVE TypeOK'
  <2>1. counter[k] + 1 <= MaxBefore + (grown[k] + 1) /\ grown[k] + 1 \in 0..MaxGrowth
    BY <1>2 DEF Count, TypeOK
  <2>2. counter[k] + 1 \in 0..Most
    BY <2>1 DEF TypeOK, Most
  <2>3. counter' \in [Keys -> 0..Most] /\ grown' \in [Keys -> 0..MaxGrowth]
    BY <2>1, <2>2, <1>2 DEF Count, TypeOK
  <2>4. \A j \in Keys : counter'[j] <= MaxBefore + grown'[j]
    BY <2>1, <1>2 DEF Count, TypeOK
  <2> QED
    BY <2>3, <2>4, <1>2 DEF Count, TypeOK, pollerVars
<1>3. CASE Restart
  <2>1. counter' \in [Keys -> 0..Most] /\ \A j \in Keys : counter'[j] <= MaxBefore + grown'[j]
    BY <1>3 DEF Restart, Zero, TypeOK
  <2> QED
    BY <2>1, <1>3 DEF Restart, TypeOK, pollerVars
<1>4. ASSUME NEW p \in Pollers, Query(p) PROVE TypeOK'
  <2>1. PICK K \in Returned(p) :
            reading' = [reading EXCEPT ![p] =
                [counts |-> [k \in K |-> counter[k]], at |-> now,
                 grown |-> grown, epoch |-> restarts]]
    BY <1>4 DEF Query
  <2>2. K \subseteq Keys
    BY ReturnedSees, CounterAssumption DEF CounterAssumption
  <2>3. [k \in K |-> counter[k]] \in [K -> 0..Most]
    BY <2>2 DEF TypeOK
  <2>4. [k \in K |-> counter[k]] \in Partial
    BY <2>2, <2>3, PartialIs
  <2>5. reading' \in [Pollers -> Reading]
    BY <2>1, <2>4 DEF TypeOK, Reading
  <2> QED
    BY <2>5, <1>4 DEF Query, TypeOK, server
<1>5. ASSUME NEW p \in Pollers, Diff(p) PROVE TypeOK'
  <2> DEFINE counts == reading[p].counts
             before == snapshot.is.counts
             moved == IF Trustworthy(p) THEN Moved(counts, before) ELSE {}
             new == [k \in moved |-> counts[k] - Lookup(before, k)]
  <2>1. counts \in Partial /\ before \in Partial
    BY ReadingFields DEF TypeOK
  <2>2. PICK K \in SUBSET Keys : counts \in [K -> 0..Most]
    BY <2>1, PartialIs
  <2>3. moved \subseteq K
    BY <2>2 DEF Moved
  <2>4. \A k \in moved : counts[k] - Lookup(before, k) \in 0..Most
                          /\ counts[k] - Lookup(before, k) > 0
    BY <2>1, <2>2, <2>3, LookupIsNat DEF Moved
  <2>5. new \in [moved -> 0..Most]
    BY <2>4
  <2>6. new \in Partial
    BY <2>3, <2>5, PartialIs
  <2>7. rows' = [rows EXCEPT ![p] = new]
    BY <1>5 DEF Diff
  <2>8. rows' \in [Pollers -> Partial]
    BY <2>6, <2>7 DEF TypeOK
  <2>9. \A q \in Pollers : \A k \in DOMAIN rows'[q] : rows'[q][k] > 0
    BY <2>4, <2>7 DEF TypeOK
  <2>10. prior' \in [Pollers -> Reading]
    BY <1>5, NoReadingIs DEF Diff, TypeOK
  <2>11. [reading[p] EXCEPT !.at = now] \in Reading
    BY DEF TypeOK, Reading
  <2>12. reading' \in [Pollers -> Reading]
    BY <2>11, <1>5 DEF Diff, TypeOK
  <2> QED
    BY <2>8, <2>9, <2>10, <2>12, <1>5 DEF Diff, TypeOK, server
<1>6. ASSUME NEW p \in Pollers, NEW k \in Keys, InsertRow(p, k) PROVE TypeOK'
  <2> DEFINE rest == Without(rows[p], k)
  <2>1. rows[p] \in Partial /\ k \in DOMAIN rows[p]
    BY <1>6 DEF InsertRow, TypeOK
  <2>2. PICK K \in SUBSET Keys : rows[p] \in [K -> 0..Most]
    BY <2>1, PartialIs
  <2>3. rest \in [K \ {k} -> 0..Most]
    BY <2>2 DEF Without
  <2>4. rest \in Partial
    BY <2>3, PartialIs
  <2>5. rows' = [rows EXCEPT ![p] = rest]
    BY <1>6 DEF InsertRow
  <2>6. rows' \in [Pollers -> Partial]
    BY <2>4, <2>5 DEF TypeOK
  <2>7. \A q \in Pollers : \A j \in DOMAIN rows'[q] : rows'[q][j] > 0
    BY <2>5 DEF TypeOK, Without
  <2>8. booked' \in [Keys -> Nat]
    BY <2>1, <2>2, <1>6 DEF InsertRow, TypeOK
  <2> QED
    BY <2>6, <2>7, <2>8, <1>6 DEF InsertRow, TypeOK, server
<1>7. ASSUME NEW p \in Pollers, Save(p) PROVE TypeOK'
  <2>1. [reading[p] EXCEPT !.at = now] \in Reading
    BY DEF TypeOK, Reading
  <2>2. snapshot' \in [taken : BOOLEAN, is : Reading]
    BY <2>1, <1>7 DEF Save
  <2> QED
    BY <2>2, <1>7, ForgetTypes DEF Save, TypeOK, Forget, server
<1>8. ASSUME NEW p \in Pollers, EndsUnsaved(p) \/ EndsEarly(p) PROVE TypeOK'
  <2>1. Forget(p) /\ snapshot' = snapshot /\ faults' \in 0..MaxFaults
    BY <1>8 DEF EndsUnsaved, EndsEarly, TypeOK
  <2> QED
    BY <2>1, ForgetTypes DEF TypeOK, Forget, server
<1>9. CASE UNCHANGED vars
    BY <1>9 DEF vars, server, pollerVars, TypeOK
<1> QED
    BY <1>1, <1>2, <1>3, <1>4, <1>5, <1>6, <1>7, <1>8, <1>9 DEF Next, Poll

\* Every counter, reading, pending row and total stays in range: no delta is
\* zero or negative, whatever restarted in between.
THEOREM TypeCorrect == Spec => []TypeOK
BY InitTypes, TypeStep, PTL DEF Spec

-----------------------------------------------------------------------------
(* How readings relate: to the counters now, and one to an earlier one.    *)

\* What a reading r lacks of counters c is what they grew since (g), or at most
\* that when the server restarted in between (e).
Lacks(r, c, g, e) ==
    /\ r.epoch <= e
    /\ \A k \in Keys :
          IF r.epoch = e
          THEN c[k] - Lookup(r.counts, k) = g[k] - r.grown[k]
          ELSE c[k] <= g[k] - r.grown[k]

Behind(r) == Lacks(r, counter, grown, restarts)

\* The same of a reading r and the earlier reading s.
Follows(s, r) ==
    \A k \in Keys :
        IF s.epoch = r.epoch
        THEN Lookup(r.counts, k) - Lookup(s.counts, k) = r.grown[k] - s.grown[k]
        ELSE Lookup(r.counts, k) <= r.grown[k] - s.grown[k]

SnapshotInv ==
    /\ snapshot.taken => Behind(snapshot.is)
    /\ \A k \in Keys : snapshot.is.grown[k] <= grown[k]

ReadingInv(p) ==
    pc[p] # "idle" =>
        /\ Behind(reading[p])
        /\ snapshot.taken => Follows(snapshot.is, reading[p])
        /\ \A k \in Keys : /\ snapshot.is.grown[k] <= reading[p].grown[k]
                           /\ reading[p].grown[k] <= grown[k]

RowsInv(p) ==
    /\ pc[p] # "insert" => DOMAIN rows[p] = {}
    /\ \A k \in DOMAIN rows[p] :
          /\ Follows(prior[p], reading[p])
          /\ rows[p][k] = Lookup(reading[p].counts, k) - Lookup(prior[p].counts, k)

Inv == SnapshotInv /\ \A p \in Pollers : ReadingInv(p) /\ RowsInv(p)

\* Setting the time of a reading keeps the rest.
LEMMA AtOnly ==
    ASSUME NEW r \in Reading, NEW t
    PROVE  LET s == [r EXCEPT !.at = t]
           IN  s.counts = r.counts /\ s.grown = r.grown /\ s.epoch = r.epoch
BY DEF Reading

\* Counting and restarting keep an earlier reading behind the counters.
LEMMA CountKeepsBehind ==
    ASSUME TypeOK, NEW k \in Keys, Count(k), NEW r \in Reading, Behind(r)
    PROVE  Lacks(r, counter', grown', restarts')
<1>1. restarts' = restarts
    BY DEF Count
<1>2. SUFFICES ASSUME NEW j \in Keys
               PROVE IF r.epoch = restarts
                     THEN counter'[j] - Lookup(r.counts, j) = grown'[j] - r.grown[j]
                     ELSE counter'[j] <= grown'[j] - r.grown[j]
    BY <1>1 DEF Behind, Lacks
<1>3. /\ counter[j] \in Int /\ grown[j] \in Int /\ r.grown[j] \in Int
      /\ Lookup(r.counts, j) \in Int
    BY ReadingFields, LookupIsNat, BoundsAreNat DEF TypeOK
<1>4. IF r.epoch = restarts
      THEN counter[j] - Lookup(r.counts, j) = grown[j] - r.grown[j]
      ELSE counter[j] <= grown[j] - r.grown[j]
    BY DEF Behind, Lacks
<1>5. CASE j = k
  <2>1. counter'[j] = counter[j] + 1 /\ grown'[j] = grown[j] + 1
    BY <1>5 DEF Count, TypeOK
  <2> QED
    BY <2>1, <1>3, <1>4
<1>6. CASE j # k
  <2>1. counter'[j] = counter[j] /\ grown'[j] = grown[j]
    BY <1>6 DEF Count, TypeOK
  <2> QED
    BY <2>1, <1>4
<1> QED
    BY <1>5, <1>6

LEMMA RestartKeepsBehind ==
    ASSUME TypeOK, Restart, NEW r \in Reading, Behind(r),
           \A k \in Keys : r.grown[k] <= grown[k]
    PROVE  Lacks(r, counter', grown', restarts')
<1>1. restarts' = restarts + 1 /\ counter' = Zero /\ grown' = grown
    BY DEF Restart
<1>2. r.epoch <= restarts /\ r.epoch \in Int /\ restarts \in Int
    BY ReadingFields, BoundsAreNat DEF Behind, Lacks, TypeOK
<1>3. ASSUME NEW k \in Keys PROVE counter'[k] <= grown'[k] - r.grown[k]
  <2>1. grown[k] \in Int /\ r.grown[k] \in Int /\ r.grown[k] <= grown[k]
    BY ReadingFields, BoundsAreNat DEF TypeOK
  <2> QED
    BY <1>1, <2>1 DEF Zero
<1> QED
    BY <1>1, <1>2, <1>3 DEF Behind, Lacks

LEMMA InvInit == Init => Inv
<1> SUFFICES ASSUME Init PROVE Inv
    OBVIOUS
<1>1. SnapshotInv
    BY DEF Init, SnapshotInv, NoReading, Zero
<1>2. ASSUME NEW p \in Pollers PROVE ReadingInv(p) /\ RowsInv(p)
    BY NoReadingIs DEF Init, ReadingInv, RowsInv
<1> QED
    BY <1>1, <1>2 DEF Inv

\* Growth on the server.
LEMMA CountStep == ASSUME TypeOK, Inv, NEW k \in Keys, Count(k) PROVE Inv'
<1>1. /\ snapshot' = snapshot /\ pc' = pc /\ reading' = reading
      /\ prior' = prior /\ rows' = rows
    BY DEF Count, pollerVars
<1>2. \A j \in Keys : grown[j] \in Int /\ grown[j] <= grown'[j]
    BY BoundsAreNat DEF Count, TypeOK
<1>3. SnapshotInv'
  <2>1. snapshot.taken => Lacks(snapshot.is, counter', grown', restarts')
    BY CountKeepsBehind DEF TypeOK, Inv, SnapshotInv
  <2>2. \A j \in Keys : snapshot.is.grown[j] \in Int
    BY ReadingFields, BoundsAreNat DEF TypeOK
  <2>3. \A j \in Keys : snapshot.is.grown[j] <= grown'[j]
    BY <1>2, <2>2 DEF Inv, SnapshotInv, Count, TypeOK
  <2> QED
    BY <1>1, <2>1, <2>3 DEF SnapshotInv, Behind
<1>4. ASSUME NEW p \in Pollers PROVE ReadingInv(p)' /\ RowsInv(p)'
  <2>1. pc[p] # "idle" => Lacks(reading[p], counter', grown', restarts')
    BY CountKeepsBehind DEF TypeOK, Inv, ReadingInv
  <2>2. reading[p] \in Reading
    BY DEF TypeOK
  <2>3. \A j \in Keys : reading[p].grown[j] \in Int
    BY <2>2, ReadingFields, BoundsAreNat
  <2>4. pc[p] # "idle" => \A j \in Keys : reading[p].grown[j] <= grown'[j]
    BY <1>2, <2>3 DEF Inv, ReadingInv, Count, TypeOK
  <2>5. ReadingInv(p)'
    BY <1>1, <2>1, <2>4 DEF Inv, ReadingInv, Behind, Follows
  <2>6. RowsInv(p)'
    BY <1>1 DEF Inv, RowsInv, Follows
  <2> QED
    BY <2>5, <2>6
<1> QED
    BY <1>3, <1>4 DEF Inv

LEMMA RestartStep == ASSUME TypeOK, Inv, Restart PROVE Inv'
<1>1. /\ snapshot' = snapshot /\ pc' = pc /\ reading' = reading
      /\ prior' = prior /\ rows' = rows /\ grown' = grown
    BY DEF Restart, pollerVars
<1>2. SnapshotInv'
  <2>1. snapshot.taken => Lacks(snapshot.is, counter', grown', restarts')
    BY RestartKeepsBehind DEF TypeOK, Inv, SnapshotInv
  <2> QED
    BY <1>1, <2>1 DEF Inv, SnapshotInv, Behind
<1>3. ASSUME NEW p \in Pollers PROVE ReadingInv(p)' /\ RowsInv(p)'
  <2>1. pc[p] # "idle" => Lacks(reading[p], counter', grown', restarts')
    BY RestartKeepsBehind DEF TypeOK, Inv, ReadingInv
  <2>2. ReadingInv(p)'
    BY <1>1, <2>1 DEF Inv, ReadingInv, Behind, Follows
  <2>3. RowsInv(p)'
    BY <1>1 DEF Inv, RowsInv, Follows
  <2> QED
    BY <2>2, <2>3
<1> QED
    BY <1>2, <1>3 DEF Inv

\* A query's reading is the counters, so the snapshot is behind it as it is
\* behind them.
LEMMA QueryStep ==
    ASSUME TypeOK, Inv, OnePoller, FullSight, NEW p \in Pollers, Query(p) PROVE Inv'
<1> DEFINE r == reading'[p]
<1>1. PICK K \in Returned(p) :
          reading' = [reading EXCEPT ![p] =
              [counts |-> [k \in K |-> counter[k]], at |-> now,
               grown |-> grown, epoch |-> restarts]]
    BY DEF Query
<1>2. r = [counts |-> [k \in K |-> counter[k]], at |-> now,
           grown |-> grown, epoch |-> restarts]
    BY <1>1 DEF TypeOK
<1>3. \A k \in Keys : Lookup(r.counts, k) = counter[k]
    BY <1>2, ReturnedAll DEF Lookup
<1>4. /\ snapshot' = snapshot /\ counter' = counter /\ grown' = grown /\ restarts' = restarts
      /\ pc' = [pc EXCEPT ![p] = "diff"] /\ prior' = prior /\ rows' = rows
    BY DEF Query, server
<1>5. \A k \in Keys : counter[k] \in Int /\ grown[k] \in Int
    BY BoundsAreNat DEF TypeOK
<1>6. restarts \in Int
    BY BoundsAreNat DEF TypeOK
<1>7. Behind(r)
    BY <1>2, <1>3, <1>5, <1>6 DEF Behind, Lacks
<1>8. snapshot.taken => Follows(snapshot.is, r)
    BY <1>2, <1>3 DEF Inv, SnapshotInv, Behind, Lacks, Follows
<1>9. SnapshotInv'
    BY <1>4 DEF Inv, SnapshotInv, Behind
<1>10. ASSUME NEW q \in Pollers PROVE ReadingInv(q)' /\ RowsInv(q)'
  <2>1. q = p
    BY DEF OnePoller
  <2>2. \A k \in Keys : snapshot.is.grown[k] <= r.grown[k] /\ r.grown[k] <= grown[k]
    BY <1>2, <1>5 DEF Inv, SnapshotInv
  <2>3. ReadingInv(p)'
    BY <1>4, <1>7, <1>8, <2>2 DEF ReadingInv, Behind, Follows
  <2>4. DOMAIN rows'[p] = {}
    BY <1>4 DEF Query, Inv, RowsInv
  <2> QED
    BY <2>1, <2>3, <2>4 DEF RowsInv
<1> QED
    BY <1>9, <1>10 DEF Inv

\* The rows are what the reading and a trusted snapshot differ by.
LEMMA DiffStep ==
    ASSUME TypeOK, Inv, OnePoller, NEW p \in Pollers, Diff(p) PROVE Inv'
<1> DEFINE counts == reading[p].counts
           before == snapshot.is.counts
           moved == IF Trustworthy(p) THEN Moved(counts, before) ELSE {}
<1>1. /\ snapshot' = snapshot /\ counter' = counter /\ grown' = grown /\ restarts' = restarts
      /\ pc[p] = "diff"
    BY DEF Diff, server
<1>2. reading'[p] = [reading[p] EXCEPT !.at = now] /\ reading[p] \in Reading
    BY DEF Diff, TypeOK
<1>3. /\ reading'[p].counts = reading[p].counts /\ reading'[p].grown = reading[p].grown
      /\ reading'[p].epoch = reading[p].epoch
    BY <1>2, AtOnly
<1>4. rows'[p] = [k \in moved |-> counts[k] - Lookup(before, k)]
    BY DEF Diff, TypeOK
<1>5. SnapshotInv'
    BY <1>1 DEF Inv, SnapshotInv, Behind
<1>6. ReadingInv(p)'
  <2>1. /\ Behind(reading[p])
        /\ snapshot.taken => Follows(snapshot.is, reading[p])
        /\ \A k \in Keys : /\ snapshot.is.grown[k] <= reading[p].grown[k]
                           /\ reading[p].grown[k] <= grown[k]
    BY <1>1 DEF Inv, ReadingInv
  <2>2. Behind(reading[p])'
    BY <1>1, <1>3, <2>1 DEF Behind, Lacks
  <2>3. snapshot'.taken => Follows(snapshot.is, reading[p])'
    BY <1>1, <1>3, <2>1 DEF Follows
  <2> QED
    BY <1>1, <1>3, <2>1, <2>2, <2>3 DEF ReadingInv
<1>7. RowsInv(p)'
  <2>1. ASSUME NEW k \in DOMAIN rows'[p]
        PROVE  /\ Follows(prior'[p], reading'[p])
               /\ rows'[p][k] = Lookup(reading'[p].counts, k) - Lookup(prior'[p].counts, k)
    <3>1. k \in moved /\ Trustworthy(p)
        BY <1>4, <2>1
    <3>2. prior'[p] = snapshot.is
        BY <3>1 DEF Diff, TypeOK
    <3>3. Follows(snapshot.is, reading[p])
        BY <1>1, <3>1 DEF Trustworthy, Inv, ReadingInv
    <3>4. Follows(prior'[p], reading'[p])
        BY <1>3, <3>2, <3>3 DEF Follows
    <3>5. k \in DOMAIN counts
        BY <3>1 DEF Moved
    <3>6. rows'[p][k] = Lookup(counts, k) - Lookup(before, k)
        BY <1>4, <3>1, <3>5 DEF Lookup
    <3> QED
        BY <1>3, <3>2, <3>4, <3>6
  <2>2. pc'[p] = "insert"
    BY DEF Diff, TypeOK
  <2> QED
    BY <2>1, <2>2 DEF RowsInv, Follows
<1> QED
    BY <1>5, <1>6, <1>7 DEF Inv, OnePoller

LEMMA InsertStep ==
    ASSUME TypeOK, Inv, NEW p \in Pollers, NEW k \in Keys, InsertRow(p, k) PROVE Inv'
<1>1. /\ snapshot' = snapshot /\ counter' = counter /\ grown' = grown /\ restarts' = restarts
      /\ pc' = pc /\ reading' = reading /\ prior' = prior
    BY DEF InsertRow, server
<1>2. rows' = [rows EXCEPT ![p] = Without(rows[p], k)]
    BY DEF InsertRow
<1>3. SnapshotInv'
    BY <1>1 DEF Inv, SnapshotInv, Behind
<1>4. ASSUME NEW q \in Pollers PROVE ReadingInv(q)' /\ RowsInv(q)'
  <2>1. ReadingInv(q)'
    BY <1>1 DEF Inv, ReadingInv, Behind, Follows
  <2>2. /\ DOMAIN rows'[q] \subseteq DOMAIN rows[q]
        /\ \A j \in DOMAIN rows'[q] : rows'[q][j] = rows[q][j]
    BY <1>2 DEF Without, TypeOK
  <2>3. RowsInv(q)'
    BY <1>1, <2>2 DEF Inv, RowsInv, Follows
  <2> QED
    BY <2>1, <2>3
<1> QED
    BY <1>3, <1>4 DEF Inv

\* The poll is over: the snapshot is its reading, or the one it was before.
LEMMA EndStep ==
    ASSUME TypeOK, Inv, OnePoller, NEW p \in Pollers,
           Save(p) \/ EndsUnsaved(p) \/ EndsEarly(p)
    PROVE  Inv'
<1>1. /\ Forget(p) /\ pc[p] # "idle" /\ pc'[p] = "idle" /\ DOMAIN rows'[p] = {}
    BY NoReadingIs DEF Save, EndsUnsaved, EndsEarly, Forget, TypeOK
<1>2. counter' = counter /\ grown' = grown /\ restarts' = restarts
    BY <1>1 DEF Forget, server
<1>3. SnapshotInv'
  <2>1. CASE Save(p)
    <3>1. reading[p] \in Reading /\ snapshot'.is = [reading[p] EXCEPT !.at = now]
        BY <2>1 DEF Save, TypeOK
    <3>2. /\ snapshot'.is.counts = reading[p].counts /\ snapshot'.is.grown = reading[p].grown
          /\ snapshot'.is.epoch = reading[p].epoch
        BY <3>1, AtOnly
    <3>3. Behind(reading[p]) /\ \A k \in Keys : reading[p].grown[k] <= grown[k]
        BY <1>1 DEF Inv, ReadingInv
    <3>4. Behind(snapshot.is)'
        BY <1>2, <3>2, <3>3 DEF Behind, Lacks
    <3> QED
        BY <1>2, <3>2, <3>3, <3>4 DEF SnapshotInv
  <2>2. CASE snapshot' = snapshot
    BY <1>2, <2>2 DEF Inv, SnapshotInv, Behind
  <2> QED
    BY <2>1, <2>2 DEF EndsUnsaved, EndsEarly
<1>4. ReadingInv(p)' /\ RowsInv(p)'
    BY <1>1 DEF ReadingInv, RowsInv
<1> QED
    BY <1>3, <1>4 DEF Inv, OnePoller

LEMMA InvStep ==
    ASSUME OnePoller, FullSight, TypeOK, Inv, [Next]_vars PROVE Inv'
<1>1. CASE Tick \/ UNCHANGED vars
  <2>1. UNCHANGED <<snapshot, counter, grown, restarts, pc, reading, prior, rows>>
    BY <1>1 DEF Tick, vars, server, pollerVars
  <2>2. SnapshotInv'
    BY <2>1 DEF Inv, SnapshotInv, Behind
  <2>3. ASSUME NEW p \in Pollers PROVE ReadingInv(p)' /\ RowsInv(p)'
    BY <2>1 DEF Inv, ReadingInv, RowsInv, Behind, Follows
  <2> QED
    BY <2>2, <2>3 DEF Inv
<1> QED
    BY <1>1, CountStep, RestartStep, QueryStep, DiffStep, InsertStep, EndStep DEF Next, Poll

-----------------------------------------------------------------------------
(* What the rows claim.                                                    *)

LEMMA RowsFollow ==
    ASSUME TypeOK, Inv, NEW p \in Pollers, NEW k \in DOMAIN rows[p]
    PROVE  /\ k \in Keys
           /\ rows[p][k] \in Int
           /\ IF reading[p].epoch = prior[p].epoch
              THEN rows[p][k] = Growth(p, k)
              ELSE rows[p][k] <= Growth(p, k)
<1>1. k \in Keys /\ rows[p][k] \in Int
  <2>1. PICK K \in SUBSET Keys : rows[p] \in [K -> 0..Most]
    BY PartialIs DEF TypeOK
  <2> QED
    BY <2>1, BoundsAreNat
<1>2. /\ Follows(prior[p], reading[p])
      /\ rows[p][k] = Lookup(reading[p].counts, k) - Lookup(prior[p].counts, k)
    BY DEF Inv, RowsInv
<1>3. /\ Lookup(reading[p].counts, k) \in 0..Most /\ Lookup(prior[p].counts, k) \in 0..Most
      /\ reading[p].grown[k] \in Int /\ prior[p].grown[k] \in Int
    BY <1>1, ReadingFields, LookupIsNat, BoundsAreNat DEF TypeOK
<1> QED
    BY <1>1, <1>2, <1>3, BoundsAreNat DEF Follows, Growth

LEMMA WithinWindow == TypeOK /\ Inv => RowsAreWindows
<1> SUFFICES ASSUME TypeOK, Inv, NEW p \in Pollers, NEW k \in DOMAIN rows[p]
             PROVE  rows[p][k] <= Growth(p, k)
    BY DEF RowsAreWindows
<1>1. reading[p].grown[k] \in Int /\ prior[p].grown[k] \in Int
    BY RowsFollow, ReadingFields, BoundsAreNat DEF TypeOK
<1> QED
    BY <1>1, RowsFollow DEF Growth

\* While no poll ended unsaved, what is stored and what is still pending of a
\* key is no more than it had counted at the reading they come from.
BookedInv ==
    faults = 0 =>
        \A k \in Keys :
            /\ booked[k] <= grown[k]
            /\ \A p \in Pollers :
                  IF pc[p] = "insert"
                  THEN booked[k] + Lookup(rows[p], k) <= reading[p].grown[k]
                  ELSE booked[k] <= snapshot.is.grown[k]

LEMMA BookedInit == Init => BookedInv
BY DEF Init, BookedInv, NoReading, Zero

LEMMA NumbersAreInt ==
    ASSUME TypeOK, NEW k \in Keys
    PROVE  /\ booked[k] \in Int /\ grown[k] \in Int /\ snapshot.is.grown[k] \in Int
           /\ \A p \in Pollers : reading[p].grown[k] \in Int /\ Lookup(rows[p], k) \in Int
<1>1. booked[k] \in Int /\ grown[k] \in Int
    BY BoundsAreNat DEF TypeOK
<1>2. snapshot.is.grown[k] \in Int
    BY ReadingFields, BoundsAreNat DEF TypeOK
<1>3. ASSUME NEW p \in Pollers PROVE reading[p].grown[k] \in Int /\ Lookup(rows[p], k) \in Int
  <2>1. reading[p] \in Reading /\ rows[p] \in Partial
    BY DEF TypeOK
  <2> QED
    BY <2>1, ReadingFields, LookupIsNat, BoundsAreNat
<1> QED
    BY <1>1, <1>2, <1>3

LEMMA BookedStep ==
    ASSUME OnePoller, TypeOK, Inv, BookedInv, [Next]_vars, TypeOK', Inv' PROVE BookedInv'
<1> USE DEF BookedInv
<1>1. CASE Tick \/ Restart \/ UNCHANGED vars
    BY <1>1 DEF Tick, Restart, vars, server, pollerVars
<1>2. ASSUME NEW k \in Keys, Count(k) PROVE BookedInv'
  <2>1. \A j \in Keys : grown[j] <= grown'[j] /\ grown'[j] \in Int
    BY <1>2, BoundsAreNat DEF Count, TypeOK
  <2> QED
    BY <2>1, <1>2, NumbersAreInt DEF Count, pollerVars
<1>3. ASSUME NEW p \in Pollers, Query(p) PROVE BookedInv'
  <2>1. /\ pc[p] = "idle" /\ pc'[p] = "diff"
        /\ UNCHANGED <<grown, snapshot, faults, booked>>
    BY <1>3 DEF Query, server, TypeOK
  <2> QED
    BY <2>1 DEF OnePoller
<1>4. ASSUME NEW p \in Pollers, Diff(p) PROVE BookedInv'
  <2>1. /\ pc[p] = "diff" /\ pc'[p] = "insert" /\ reading'[p].grown = reading[p].grown
        /\ UNCHANGED <<grown, snapshot, faults, booked>>
    BY <1>4, AtOnly DEF Diff, server, TypeOK
  <2>2. ASSUME NEW k \in Keys, faults = 0
        PROVE  booked[k] + Lookup(rows'[p], k) <= reading'[p].grown[k]
    <3>1. booked[k] <= snapshot.is.grown[k] /\ snapshot.is.grown[k] <= reading[p].grown[k]
        BY <2>1, <2>2 DEF Inv, ReadingInv
    <3>2. CASE k \in DOMAIN rows'[p]
      <4>1. RowsAreWindows'
        BY WithinWindow, PTL
      <4>2. rows'[p][k] <= Growth(p, k)' /\ Lookup(rows'[p], k) \in Int
        BY <3>2, <4>1, LookupIsNat, BoundsAreNat DEF RowsAreWindows, TypeOK
      <4>3. prior'[p] = snapshot.is
        BY <1>4, <3>2 DEF Diff, TypeOK
      <4>4. rows'[p][k] <= reading[p].grown[k] - snapshot.is.grown[k]
        BY <2>1, <4>2, <4>3 DEF Growth
      <4> QED
        BY <2>1, <3>1, <3>2, <4>2, <4>4, NumbersAreInt DEF Lookup
    <3>3. CASE k \notin DOMAIN rows'[p]
        BY <2>1, <3>1, <3>3, NumbersAreInt DEF Lookup
    <3> QED
        BY <3>2, <3>3
  <2> QED
    BY <2>1, <2>2 DEF OnePoller
<1>5. ASSUME NEW p \in Pollers, NEW k \in Keys, InsertRow(p, k) PROVE BookedInv'
  <2>1. /\ pc[p] = "insert" /\ k \in DOMAIN rows[p]
        /\ UNCHANGED <<grown, snapshot, reading, pc, faults>>
        /\ rows'[p] = Without(rows[p], k)
    BY <1>5 DEF InsertRow, server, TypeOK
  <2>2. ASSUME NEW j \in Keys
        PROVE  /\ booked'[j] + Lookup(rows'[p], j) <= booked[j] + Lookup(rows[p], j)
               /\ booked'[j] <= booked[j] + Lookup(rows[p], j)
    <3>1. 0 <= Lookup(rows[p], j)
        BY LookupIsNat, BoundsAreNat DEF TypeOK
    <3>2. CASE j = k
      <4>1. Lookup(rows[p], k) = rows[p][k] /\ Lookup(rows'[p], k) = 0
        BY <2>1 DEF Lookup, Without
      <4>2. booked'[k] = booked[k] \/ booked'[k] = booked[k] + rows[p][k]
        BY <1>5 DEF InsertRow, TypeOK
      <4> QED
        BY <3>1, <3>2, <4>1, <4>2, NumbersAreInt
    <3>3. CASE j # k
      <4>1. booked'[j] = booked[j]
        BY <1>5, <3>3 DEF InsertRow, TypeOK
      <4>2. Lookup(rows'[p], j) = Lookup(rows[p], j)
        BY <2>1, <3>3 DEF Lookup, Without
      <4> QED
        BY <3>1, <4>1, <4>2, NumbersAreInt
    <3> QED
        BY <3>2, <3>3
  <2>3. ASSUME NEW j \in Keys, faults = 0
        PROVE  /\ booked'[j] <= grown[j]
               /\ booked'[j] + Lookup(rows'[p], j) <= reading[p].grown[j]
    <3>1. /\ booked[j] + Lookup(rows[p], j) <= reading[p].grown[j]
          /\ reading[p].grown[j] <= grown[j]
        BY <2>1, <2>3 DEF Inv, ReadingInv
    <3>2. /\ booked[j] \in Int /\ grown[j] \in Int /\ reading[p].grown[j] \in Int
          /\ Lookup(rows[p], j) \in Int /\ booked'[j] \in Int /\ Lookup(rows'[p], j) \in Int
        BY NumbersAreInt, LookupIsNat, BoundsAreNat DEF TypeOK
    <3> QED
        BY <2>2, <3>1, <3>2
  <2> QED
    BY <2>1, <2>3 DEF OnePoller
<1>6. ASSUME NEW p \in Pollers, Save(p) PROVE BookedInv'
  <2>1. /\ pc[p] = "insert" /\ pc'[p] = "idle" /\ DOMAIN rows[p] = {}
        /\ UNCHANGED <<grown, faults, booked>>
    BY <1>6, NoReadingIs DEF Save, Forget, server, TypeOK
  <2>2. snapshot'.is.grown = reading[p].grown
    BY <1>6, AtOnly DEF Save, TypeOK
  <2>3. ASSUME NEW k \in Keys, faults = 0 PROVE booked[k] <= reading[p].grown[k]
    BY <2>1, <2>3, NumbersAreInt DEF Lookup
  <2> QED
    BY <2>1, <2>2, <2>3 DEF OnePoller
<1>7. ASSUME NEW p \in Pollers, EndsEarly(p) PROVE BookedInv'
  <2>1. /\ pc[p] = "diff" /\ pc'[p] = "idle"
        /\ UNCHANGED <<grown, snapshot, faults, booked>>
    BY <1>7 DEF EndsEarly, Forget, server, TypeOK
  <2> QED
    BY <2>1 DEF OnePoller
<1>8. ASSUME NEW p \in Pollers, EndsUnsaved(p) PROVE BookedInv'
    BY <1>8, BoundsAreNat DEF EndsUnsaved, TypeOK
<1> QED
    BY <1>1, <1>2, <1>3, <1>4, <1>5, <1>6, <1>7, <1>8 DEF Next, Poll

-----------------------------------------------------------------------------
(* Theorems.                                                               *)

LEMMA InvHolds == ASSUME OnePoller, FullSight PROVE Spec => [](Inv /\ BookedInv)
<1>1. Init => Inv /\ BookedInv
    BY InvInit, BookedInit
<1>2. TypeOK /\ TypeOK' /\ Inv /\ BookedInv /\ [Next]_vars => (Inv /\ BookedInv)'
    BY OnePoller, FullSight, InvStep, BookedStep
<1> QED
    BY <1>1, <1>2, TypeCorrect, PTL DEF Spec

\* Nothing is booked twice while every poll that stored rows also saved its
\* reading: failing inserts, missed ticks and restarts only ever lose growth.
THEOREM NothingTwice == ASSUME OnePoller, FullSight PROVE Spec => []NeverOverbooked
<1>1. BookedInv => NeverOverbooked
    BY DEF BookedInv, NeverOverbooked
<1> QED
    BY <1>1, OnePoller, FullSight, InvHolds, PTL

-----------------------------------------------------------------------------
(* Several pollers of the same counters: a daemon that still drains beside *)
(* its successor.  Their polls overlap and save in any order, but within   *)
(* one life of the server counter and history differ by a constant, which  *)
(* every reading in play shows.                                            *)

\* The readings a poll may still use.
InPlay ==
    (IF snapshot.taken THEN {snapshot.is} ELSE {})
    \cup {reading[p] : p \in {q \in Pollers : pc[q] # "idle"}}
    \cup {prior[p] : p \in {q \in Pollers : DOMAIN rows[q] # {}}}

\* Two readings of one life of the server, in whatever order they were taken.
SameLife(r, s) ==
    r.epoch = s.epoch =>
        \A k \in Keys :
            Lookup(r.counts, k) - Lookup(s.counts, k) = r.grown[k] - s.grown[k]

\* A reading of this life lacks of the counters what they grew since.
OfThisLife(r, c, g, e) ==
    /\ r.epoch <= e
    /\ r.epoch = e => \A k \in Keys : c[k] - Lookup(r.counts, k) = g[k] - r.grown[k]

Agree ==
    /\ \A r \in InPlay : OfThisLife(r, counter, grown, restarts)
    /\ \A r, s \in InPlay : SameLife(r, s)

\* What is still to be inserted is what the reading and the prior one differ by.
Pending ==
    \A p \in Pollers :
        /\ pc[p] # "insert" => DOMAIN rows[p] = {}
        /\ \A k \in DOMAIN rows[p] :
              rows[p][k] = Lookup(reading[p].counts, k) - Lookup(prior[p].counts, k)

Alike(r, s) == r.counts = s.counts /\ r.grown = s.grown /\ r.epoch = s.epoch

LEMMA InPlayReadings == TypeOK => InPlay \subseteq Reading
BY DEF TypeOK, InPlay

\* Nothing new in play, and the server as it was: the readings still agree.
LEMMA AlikeAgree ==
    ASSUME Agree, UNCHANGED server, \A r \in InPlay' : \E s \in InPlay : Alike(r, s)
    PROVE  Agree'
<1>1. ASSUME NEW r \in InPlay' PROVE OfThisLife(r, counter, grown, restarts)'
  <2>1. PICK s \in InPlay : Alike(r, s)
    BY <1>1
  <2>2. OfThisLife(s, counter, grown, restarts)
    BY DEF Agree
  <2>. QED BY <2>1, <2>2 DEF OfThisLife, Alike, server
<1>2. ASSUME NEW r \in InPlay', NEW s \in InPlay' PROVE SameLife(r, s)
  <2>1. PICK q \in InPlay : Alike(r, q)
    BY <1>2
  <2>2. PICK t \in InPlay : Alike(s, t)
    BY <1>2
  <2>3. SameLife(q, t)
    BY DEF Agree
  <2>. QED BY <2>1, <2>2, <2>3 DEF SameLife, Alike
<1>. QED BY <1>1, <1>2 DEF Agree

LEMMA AgreeInit == Init => Agree /\ Pending
<1> SUFFICES ASSUME Init PROVE Agree /\ Pending
  OBVIOUS
<1>1. \A p \in Pollers : DOMAIN rows[p] = {} /\ pc[p] = "idle"
  BY NoReadingIs DEF Init
<1>2. InPlay = {}
  BY <1>1 DEF Init, InPlay
<1>. QED BY <1>1, <1>2 DEF Agree, Pending

\* The server counts or restarts: what was read stays what it was.
LEMMA ServerAgrees ==
    ASSUME TypeOK, Agree, Restart \/ \E k \in Keys : Count(k)
    PROVE  Agree'
<1>1. InPlay' = InPlay
  BY DEF Restart, Count, pollerVars, InPlay
<1>2. ASSUME NEW r \in InPlay PROVE OfThisLife(r, counter', grown', restarts')
  <2>1. OfThisLife(r, counter, grown, restarts) /\ r \in Reading
    BY InPlayReadings DEF Agree
  <2>2. r.epoch \in Int /\ restarts \in Int
    BY <2>1, ReadingFields, BoundsAreNat DEF TypeOK
  <2>3. CASE Restart
    BY <2>1, <2>2, <2>3 DEF Restart, OfThisLife
  <2>4. ASSUME NEW k \in Keys, Count(k), r.epoch = restarts, NEW j \in Keys
        PROVE  counter'[j] - Lookup(r.counts, j) = grown'[j] - r.grown[j]
    <3>1. counter[j] - Lookup(r.counts, j) = grown[j] - r.grown[j]
      BY <2>1, <2>4 DEF OfThisLife
    <3>2. /\ counter[j] \in Int /\ grown[j] \in Int /\ r.grown[j] \in Int
          /\ Lookup(r.counts, j) \in Int
      BY <2>1, ReadingFields, LookupIsNat, BoundsAreNat DEF TypeOK
    <3>3. \/ counter'[j] = counter[j] + 1 /\ grown'[j] = grown[j] + 1
          \/ counter'[j] = counter[j] /\ grown'[j] = grown[j]
      BY <2>4 DEF Count, TypeOK
    <3>. QED BY <3>1, <3>2, <3>3
  <2>5. CASE \E k \in Keys : Count(k)
    <3>1. restarts' = restarts
      BY <2>5 DEF Count
    <3>. QED BY <2>1, <2>4, <2>5, <3>1 DEF OfThisLife
  <2>. QED BY <2>3, <2>5
<1>. QED BY <1>1, <1>2 DEF Agree

\* A query's reading is the counters, so it agrees with whoever agreed with them.
LEMMA QueryAgrees ==
    ASSUME TypeOK, Agree, Pending, FullSight, NEW p \in Pollers, Query(p)
    PROVE  Agree'
<1> DEFINE r == reading'[p]
<1>1. PICK K \in Returned(p) :
          reading' = [reading EXCEPT ![p] =
              [counts |-> [k \in K |-> counter[k]], at |-> now,
               grown |-> grown, epoch |-> restarts]]
  BY DEF Query
<1>2. r = [counts |-> [k \in K |-> counter[k]], at |-> now,
           grown |-> grown, epoch |-> restarts]
  BY <1>1 DEF TypeOK
<1>3. \A k \in Keys : Lookup(r.counts, k) = counter[k]
  BY <1>2, ReturnedAll DEF Lookup
<1>4. r.grown = grown /\ r.epoch = restarts
  BY <1>2
<1>5. /\ snapshot' = snapshot /\ prior' = prior /\ rows' = rows /\ UNCHANGED server
      /\ \A q \in Pollers \ {p} : reading'[q] = reading[q] /\ pc'[q] = pc[q]
  BY <1>1 DEF Query, TypeOK
<1> HIDE DEF r
<1>6. \A s \in InPlay' : s = r \/ s \in InPlay
  BY <1>5 DEF InPlay, r
<1>7. \A k \in Keys : counter[k] \in Int /\ grown[k] \in Int
  BY BoundsAreNat DEF TypeOK
<1>8. OfThisLife(r, counter, grown, restarts)
  <2>1. restarts \in Int
    BY BoundsAreNat DEF TypeOK
  <2>. QED BY <1>3, <1>4, <1>7, <2>1 DEF OfThisLife
<1>9. ASSUME NEW s \in InPlay PROVE SameLife(r, s) /\ SameLife(s, r)
  <2>1. OfThisLife(s, counter, grown, restarts) /\ s \in Reading
    BY InPlayReadings DEF Agree
  <2>2. ASSUME NEW k \in Keys PROVE Lookup(s.counts, k) \in Int /\ s.grown[k] \in Int
    BY <2>1, ReadingFields, LookupIsNat, BoundsAreNat
  <2>3. ASSUME NEW k \in Keys, s.epoch = restarts
        PROVE  /\ Lookup(r.counts, k) - Lookup(s.counts, k) = r.grown[k] - s.grown[k]
               /\ Lookup(s.counts, k) - Lookup(r.counts, k) = s.grown[k] - r.grown[k]
    <3>1. counter[k] - Lookup(s.counts, k) = grown[k] - s.grown[k]
      BY <2>1, <2>3 DEF OfThisLife
    <3>. QED BY <1>3, <1>4, <1>7, <2>2, <3>1
  <2>. QED BY <1>4, <2>3 DEF SameLife
<1>10. SameLife(r, r)
  BY <1>3, <1>4, <1>7 DEF SameLife
<1>11. \A s \in InPlay' : OfThisLife(s, counter, grown, restarts)
  BY <1>6, <1>8 DEF Agree
<1>12. \A s, t \in InPlay' : SameLife(s, t)
  BY <1>6, <1>9, <1>10 DEF Agree
<1>. QED BY <1>5, <1>11, <1>12 DEF Agree, server

\* A diff puts only the snapshot it trusted in play; the rows are the difference.
LEMMA DiffAgrees ==
    ASSUME TypeOK, Agree, Pending, NEW p \in Pollers, Diff(p)
    PROVE  Agree' /\ Pending'
<1> DEFINE counts == reading[p].counts
           before == snapshot.is.counts
           moved == IF Trustworthy(p) THEN Moved(counts, before) ELSE {}
<1>1. /\ snapshot' = snapshot /\ UNCHANGED server /\ pc[p] = "diff" /\ pc'[p] = "insert"
      /\ \A q \in Pollers \ {p} : /\ reading'[q] = reading[q] /\ prior'[q] = prior[q]
                                 /\ rows'[q] = rows[q] /\ pc'[q] = pc[q]
  BY DEF Diff, TypeOK
<1>2. Alike(reading'[p], reading[p])
  <2>1. reading'[p] = [reading[p] EXCEPT !.at = now] /\ reading[p] \in Reading
    BY DEF Diff, TypeOK
  <2>. QED BY <2>1, AtOnly DEF Alike
<1>3. rows'[p] = [k \in moved |-> counts[k] - Lookup(before, k)]
  BY DEF Diff, TypeOK
<1>4. DOMAIN rows'[p] # {} => snapshot.taken /\ prior'[p] = snapshot.is
  BY <1>3 DEF Diff, TypeOK, Trustworthy
<1>5. \A r \in InPlay' : \E s \in InPlay : Alike(r, s)
  <2> SUFFICES ASSUME NEW r \in InPlay' PROVE \E s \in InPlay : Alike(r, s)
    OBVIOUS
  <2>1. r = reading'[p] \/ r \in InPlay
    BY <1>1, <1>4 DEF InPlay
  <2>2. reading[p] \in InPlay
    BY <1>1 DEF InPlay
  <2>3. Alike(r, r)
    BY DEF Alike
  <2>. QED BY <1>2, <2>1, <2>2, <2>3
<1>6. Agree'
  BY <1>1, <1>5, AlikeAgree
<1>7. ASSUME NEW k \in DOMAIN rows'[p]
      PROVE  rows'[p][k] = Lookup(reading'[p].counts, k) - Lookup(prior'[p].counts, k)
  <2>1. k \in moved /\ k \in DOMAIN counts
    BY <1>3, <1>7 DEF Moved
  <2>2. rows'[p][k] = Lookup(counts, k) - Lookup(before, k)
    BY <1>3, <2>1 DEF Lookup
  <2>. QED BY <1>2, <1>4, <1>7, <2>2 DEF Alike
<1>. QED BY <1>1, <1>6, <1>7 DEF Pending

\* The rest of a poll takes readings out of play, or makes one the snapshot.
LEMMA RestAgrees ==
    ASSUME TypeOK, Agree, Pending, NEW p \in Pollers,
           (\E k \in Keys : InsertRow(p, k)) \/ Save(p) \/ EndsUnsaved(p) \/ EndsEarly(p)
    PROVE  Agree' /\ Pending'
<1>1. CASE \E k \in Keys : InsertRow(p, k)
  <2>1. PICK k \in Keys : InsertRow(p, k)
    BY <1>1
  <2>2. UNCHANGED <<snapshot, pc, reading, prior, server>>
    BY <2>1 DEF InsertRow
  <2>3. \A q \in Pollers : /\ DOMAIN rows'[q] \subseteq DOMAIN rows[q]
                           /\ \A j \in DOMAIN rows'[q] : rows'[q][j] = rows[q][j]
    BY <2>1 DEF InsertRow, Without, TypeOK
  <2>4. InPlay' \subseteq InPlay
    BY <2>2, <2>3 DEF InPlay
  <2>5. Agree'
    BY <2>2, <2>4, AlikeAgree DEF Alike
  <2>. QED BY <2>2, <2>3, <2>5 DEF Pending
<1>2. CASE Save(p) \/ EndsUnsaved(p) \/ EndsEarly(p)
  <2>1. /\ Forget(p) /\ UNCHANGED server /\ pc[p] # "idle"
        /\ pc'[p] = "idle" /\ DOMAIN rows'[p] = {}
    BY <1>2, NoReadingIs DEF Save, EndsUnsaved, EndsEarly, Forget, TypeOK
  <2>2. \A q \in Pollers \ {p} : /\ reading'[q] = reading[q] /\ prior'[q] = prior[q]
                                 /\ rows'[q] = rows[q] /\ pc'[q] = pc[q]
    BY <2>1 DEF Forget, TypeOK
  <2>3. \/ snapshot' = snapshot
        \/ snapshot'.taken /\ Alike(snapshot'.is, reading[p])
    <3>1. CASE Save(p)
      <4>1. snapshot'.taken /\ snapshot'.is = [reading[p] EXCEPT !.at = now]
        BY <3>1 DEF Save
      <4>2. reading[p] \in Reading
        BY DEF TypeOK
      <4>. QED BY <4>1, <4>2, AtOnly DEF Alike
    <3>2. CASE EndsUnsaved(p) \/ EndsEarly(p)
      BY <3>2 DEF EndsUnsaved, EndsEarly
    <3>. QED BY <1>2, <3>1, <3>2
  <2>4. reading[p] \in InPlay
    BY <2>1 DEF InPlay
  <2>5. \A r \in InPlay' : r \in InPlay \/ Alike(r, reading[p])
    BY <2>1, <2>2, <2>3 DEF InPlay
  <2>6. \A r \in InPlay' : \E s \in InPlay : Alike(r, s)
    BY <2>4, <2>5 DEF Alike
  <2>7. Agree'
    BY <2>1, <2>6, AlikeAgree
  <2>. QED BY <2>1, <2>2, <2>7 DEF Pending
<1>. QED BY <1>1, <1>2

LEMMA AgreeHolds == ASSUME FullSight PROVE Spec => [](Agree /\ Pending)
<1>1. TypeOK /\ Agree /\ Pending /\ [Next]_vars => (Agree /\ Pending)'
  <2> SUFFICES ASSUME TypeOK, Agree, Pending, [Next]_vars PROVE (Agree /\ Pending)'
    OBVIOUS
  <2>1. CASE Tick \/ UNCHANGED vars
    <3>1. UNCHANGED <<snapshot, server, pollerVars>>
      BY <2>1 DEF Tick, vars
    <3>2. InPlay' = InPlay
      BY <3>1 DEF pollerVars, InPlay
    <3>3. Agree'
      BY <3>1, <3>2 DEF server, Agree
    <3>. QED BY <3>1, <3>3 DEF pollerVars, Pending
  <2>2. CASE Restart \/ \E k \in Keys : Count(k)
    <3>1. UNCHANGED <<pc, reading, prior, rows>>
      BY <2>2 DEF Restart, Count, pollerVars
    <3>. QED BY <2>2, <3>1, ServerAgrees DEF Pending
  <2>3. ASSUME NEW p \in Pollers, Query(p) PROVE Pending'
    <3>1. /\ DOMAIN rows[p] = {} /\ rows' = rows /\ prior' = prior
          /\ pc' = [pc EXCEPT ![p] = "diff"]
          /\ \A q \in Pollers \ {p} : reading'[q] = reading[q]
      BY <2>3 DEF Query, Pending
    <3>. QED BY <3>1 DEF Pending, TypeOK
  <2>. QED BY <2>1, <2>2, <2>3, FullSight, QueryAgrees, DiffAgrees, RestAgrees DEF Next, Poll
<1>. QED BY <1>1, AgreeInit, TypeCorrect, PTL DEF Spec

\* While the server stays up a row is exactly what its key counted since the
\* snapshot it was diffed against, for any number of pollers whose queries
\* return every key that counted: a poll that was overtaken by another claims
\* nothing that did not happen.
THEOREM RowsExact == ASSUME FullSight PROVE Spec => []RowsAreExact
<1>1. ASSUME TypeOK, Agree, Pending PROVE RowsAreExact
  <2> SUFFICES ASSUME NEW p \in Pollers, NEW k \in DOMAIN rows[p],
                      reading[p].epoch = prior[p].epoch
               PROVE  rows[p][k] = Growth(p, k)
    BY DEF RowsAreExact
  <2>1. k \in Keys
    <3>1. rows[p] \in Partial
      BY <1>1 DEF TypeOK
    <3>. QED BY <3>1, PartialIs
  <2>2. reading[p] \in InPlay /\ prior[p] \in InPlay
    BY <1>1 DEF Pending, InPlay
  <2>3. SameLife(reading[p], prior[p])
    BY <1>1, <2>2 DEF Agree
  <2>. QED BY <1>1, <2>1, <2>3 DEF SameLife, Pending, Growth
<1>. QED BY <1>1, AgreeHolds, FullSight, TypeCorrect, PTL

\* No cumulative total is ever booked as one window's delta (waits.rs:163-184),
\* for one poller through restarts, and for any number of them without: a poll
\* overtaken by a restart and another's save may take the new life's total for
\* the snapshot of its own.
THEOREM RowsWithinWindow ==
    ASSUME FullSight, OnePoller \/ MaxRestarts = 0 PROVE Spec => []RowsAreWindows
<1>1. CASE OnePoller
  BY <1>1, FullSight, InvHolds, TypeCorrect, WithinWindow, PTL
<1>2. CASE MaxRestarts = 0
  <2>1. TypeOK /\ RowsAreExact => RowsAreWindows
    <3> SUFFICES ASSUME TypeOK, RowsAreExact, NEW p \in Pollers, NEW k \in DOMAIN rows[p]
                 PROVE  rows[p][k] <= Growth(p, k)
      BY DEF RowsAreWindows
    <3>1. reading[p].epoch = prior[p].epoch
      <4>1. reading[p].epoch \in 0..0 /\ prior[p].epoch \in 0..0
        BY <1>2, ReadingFields DEF TypeOK
      <4>. QED BY <4>1
    <3>2. rows[p][k] = Growth(p, k)
      BY <3>1 DEF RowsAreExact
    <3>3. rows[p][k] \in Int
      <4>1. rows[p] \in Partial
        BY DEF TypeOK
      <4>2. PICK K \in SUBSET Keys : rows[p] \in [K -> 0..Most]
        BY <4>1, PartialIs
      <4>. QED BY <4>2, BoundsAreNat
    <3>. QED BY <3>2, <3>3
  <2>. QED BY <2>1, FullSight, RowsExact, TypeCorrect, PTL
<1>. QED BY <1>1, <1>2

\* A diff that trusts its snapshot has a row for every key that moved since,
\* whoever of any number of pollers left that snapshot.
THEOREM NoneSkipped == ASSUME FullSight PROVE Spec => NothingSkipped
<1> DEFINE covers(p) == Diff(p) /\ prior'[p].epoch = reading[p].epoch /\ Trustworthy(p)
                        => \A k \in Watches[p] : reading[p].grown[k] > prior'[p].grown[k]
                                                  => k \in DOMAIN rows'[p]
<1>1. ASSUME TypeOK, Agree PROVE \A p \in Pollers : covers(p)
  <2> SUFFICES ASSUME NEW p \in Pollers, Diff(p), Trustworthy(p),
                      prior'[p].epoch = reading[p].epoch, NEW k \in Watches[p],
                      reading[p].grown[k] > prior'[p].grown[k]
               PROVE  k \in DOMAIN rows'[p]
    OBVIOUS
  <2> DEFINE counts == reading[p].counts
             before == snapshot.is.counts
  <2>1. prior'[p] = snapshot.is /\ k \in Keys
    BY <1>1, CounterAssumption DEF Diff, TypeOK, CounterAssumption
  <2>2. reading[p] \in InPlay /\ snapshot.is \in InPlay
    BY DEF Diff, Trustworthy, InPlay
  <2>3. SameLife(reading[p], snapshot.is)
    BY <1>1, <2>2 DEF Agree
  <2>4. /\ Lookup(counts, k) \in 0..Most /\ Lookup(before, k) \in 0..Most
        /\ reading[p].grown[k] \in Int /\ snapshot.is.grown[k] \in Int
    BY <1>1, <2>1, ReadingFields, LookupIsNat, BoundsAreNat DEF TypeOK
  <2>5. Lookup(counts, k) > Lookup(before, k)
    BY <2>1, <2>3, <2>4, BoundsAreNat DEF SameLife
  <2>6. k \in DOMAIN counts /\ counts[k] = Lookup(counts, k)
    BY <2>4, <2>5, BoundsAreNat DEF Lookup
  <2>7. k \in Moved(counts, before)
    BY <2>5, <2>6 DEF Moved
  <2>8. rows'[p] = [j \in Moved(counts, before) |-> counts[j] - Lookup(before, j)]
    BY <1>1 DEF Diff, TypeOK
  <2>. QED BY <2>7, <2>8
<1>2. [](TypeOK /\ Agree) => [][\A p \in Pollers : covers(p)]_vars
  BY <1>1, PTL
<1>3. Spec => [](TypeOK /\ Agree)
  BY AgreeHolds, FullSight, TypeCorrect, PTL
<1>. QED BY <1>2, <1>3 DEF NothingSkipped

-----------------------------------------------------------------------------
(* How old a window may be, for any pollers and whatever they can see.     *)

Fresh ==
    /\ \A p \in Pollers : pc[p] # "insert" => rows[p] = NoReading.counts
    /\ RowsAreRecent

LEMMA FreshStep == TypeOK /\ Fresh /\ [Next]_vars => Fresh'
<1> SUFFICES ASSUME TypeOK, Fresh, [Next]_vars PROVE Fresh'
    OBVIOUS
<1> USE DEF Fresh, RowsAreRecent, ChecksBaseline
<1>1. CASE Tick \/ Restart \/ (\E k \in Keys : Count(k)) \/ UNCHANGED vars
    BY <1>1 DEF Tick, Restart, Count, server, pollerVars, vars
<1>2. ASSUME NEW p \in Pollers, Query(p) PROVE Fresh'
    BY <1>2 DEF Query, server, TypeOK
<1>3. ASSUME NEW p \in Pollers, Diff(p) PROVE Fresh'
  <2>1. /\ kind' = kind
        /\ \A q \in Pollers \ {p} : /\ rows'[q] = rows[q] /\ reading'[q] = reading[q]
                                   /\ prior'[q] = prior[q] /\ pc'[q] = pc[q]
        /\ pc'[p] = "insert" /\ reading'[p].at = now
    BY <1>3 DEF Diff, TypeOK, Reading
  <2>2. CASE Trustworthy(p)
    <3>1. prior'[p] = snapshot.is
        BY <1>3, <2>2 DEF Diff, TypeOK
    <3> QED
        BY <2>1, <2>2, <3>1 DEF Trustworthy
  <2>3. CASE ~Trustworthy(p)
    <3>1. rows'[p] = [k \in {} |-> 0]
        BY <1>3, <2>3 DEF Diff, TypeOK
    <3> QED
        BY <2>1, <3>1 DEF NoReading
  <2> QED
    BY <2>2, <2>3
<1>4. ASSUME NEW p \in Pollers, NEW k \in Keys, InsertRow(p, k) PROVE Fresh'
  <2>1. rows[p] # NoReading.counts
    BY <1>4, NoReadingIs DEF InsertRow
  <2> QED
    BY <1>4, <2>1 DEF InsertRow, TypeOK
<1>5. ASSUME NEW p \in Pollers, Save(p) \/ EndsUnsaved(p) \/ EndsEarly(p) PROVE Fresh'
  <2>1. Forget(p)
    BY <1>5 DEF Save, EndsUnsaved, EndsEarly
  <2> QED
    BY <2>1 DEF Forget, TypeOK
<1> QED
    BY <1>1, <1>2, <1>3, <1>4, <1>5 DEF Next, Poll

\* No row of waits or index usage covers more than the largest gap trusted
\* (waits.rs:163-184), for any pollers, whatever they miss or fail to store.
THEOREM RowsRecent == Spec => []RowsAreRecent
<1>1. Init => Fresh
    BY DEF Init, Fresh, RowsAreRecent
<1>2. Fresh => RowsAreRecent
    BY DEF Fresh
<1>3. TypeOK /\ Fresh /\ [Next]_vars => Fresh'
    BY FreshStep
<1> QED
    BY <1>1, <1>2, <1>3, TypeCorrect, PTL DEF Spec
=============================================================================
