------------------------- MODULE StoreMigrationProofs -------------------------
(***************************************************************************)
(* What TLAPS proves of StoreMigration for any number of openers, of       *)
(* migrations and of builds in use.                                        *)
(***************************************************************************)
EXTENDS StoreMigration, TLAPS

\* Every migration an opener has passed is applied: the fact that a version,
\* once written by that opener, can be trusted.
PassedIsApplied ==
    /\ \A o \in Openers : 1..(next[o] - 1) \subseteq applied
    /\ \A o \in Openers : pc[o] = "open" => next[o] > build[o]

IInv == TypeOK /\ VersionIsApplied /\ PassedIsApplied

LEMMA IInvInit == Init => IInv
<1> SUFFICES ASSUME Init PROVE IInv
    OBVIOUS
<1>1. version \in 0..Latest
    BY MigrationAssumption DEF Init, MigrationAssumption, Migrations
<1>2. TypeOK
  <2>1. shared \in BOOLEAN
    BY DEF Init
  <2> QED
    BY <1>1, <2>1, MigrationAssumption DEF TypeOK, Init, MigrationAssumption, Migrations
<1>3. VersionIsApplied /\ PassedIsApplied
    BY <1>1, MigrationAssumption DEF Init, VersionIsApplied, PassedIsApplied, MigrationAssumption
<1> QED
    BY <1>2, <1>3 DEF IInv

LEMMA TypeStep == TypeOK /\ [Next]_vars => TypeOK'
<1> SUFFICES ASSUME TypeOK, [Next]_vars PROVE TypeOK'
    OBVIOUS
<1> USE MigrationAssumption DEF MigrationAssumption, Migrations, TypeOK
<1>1. ASSUME NEW o \in Openers, ReadVersion(o) PROVE TypeOK'
    BY <1>1 DEF ReadVersion, First
<1>2. ASSUME NEW o \in Openers, Migrate(o) PROVE TypeOK'
  <2>1. next[o] \in 1..Latest
    <3>1. next[o] \in 1..(Latest + 1) /\ build[o] \in 0..Latest
        OBVIOUS
    <3> QED
        BY <3>1, <1>2 DEF Migrate, Pending
  <2>2. version' = next[o] /\ applied' = applied \cup {next[o]}
    BY <1>2 DEF Migrate
  <2>3. version' \in 0..Latest
    BY <2>1, <2>2
  <2>4. applied' \subseteq 1..Latest
    <3>1. applied \subseteq 1..Latest
        OBVIOUS
    <3> QED
        BY <2>1, <2>2, <3>1
  <2>5. next' \in [Openers -> 1..(Latest + 1)]
    BY <2>1, <1>2 DEF Migrate
  <2> QED
    BY <2>3, <2>4, <2>5, <1>2 DEF Migrate
<1>3. ASSUME NEW o \in Openers, DuplicateColumn(o) \/ Busy(o) \/ Opened(o) PROVE TypeOK'
    BY <1>3 DEF DuplicateColumn, Busy, Opened
<1>4. ASSUME NEW o \in Openers, Close(o) PROVE TypeOK'
    BY <1>4 DEF Close
<1>5. CASE UNCHANGED vars
    BY <1>5 DEF vars
<1> QED
    BY <1>1, <1>2, <1>3, <1>4, <1>5 DEF Next

LEMMA AppliedStep == IInv /\ [Next]_vars => (VersionIsApplied /\ PassedIsApplied)'
<1> SUFFICES ASSUME IInv, [Next]_vars PROVE (VersionIsApplied /\ PassedIsApplied)'
    OBVIOUS
<1> USE MigrationAssumption DEF MigrationAssumption, Migrations, IInv, TypeOK,
                                VersionIsApplied, PassedIsApplied
<1>1. ASSUME NEW o \in Openers, ReadVersion(o) PROVE (VersionIsApplied /\ PassedIsApplied)'
    BY <1>1 DEF ReadVersion, First
<1>2. ASSUME NEW o \in Openers, Migrate(o) PROVE (VersionIsApplied /\ PassedIsApplied)'
  <2>1. 1..next[o] = 1..(next[o] - 1) \cup {next[o]}
    OBVIOUS
  <2>2. 1..next[o] \subseteq applied'
    BY <2>1, <1>2 DEF Migrate
  <2>3. \A q \in Openers : 1..(next'[q] - 1) \subseteq applied'
    <3> TAKE q \in Openers
    <3>1. CASE q = o
        BY <3>1, <2>2, <1>2 DEF Migrate
    <3>2. CASE q # o
        BY <3>2, <1>2 DEF Migrate
    <3> QED
        BY <3>1, <3>2
  <2>4. \A q \in Openers : pc'[q] = "open" => next'[q] > build'[q]
    BY <1>2 DEF Migrate, Pending
  <2> QED
    BY <2>2, <2>3, <2>4, <1>2 DEF Migrate
<1>3. ASSUME NEW o \in Openers, DuplicateColumn(o) \/ Busy(o) \/ Opened(o)
      PROVE (VersionIsApplied /\ PassedIsApplied)'
    BY <1>3 DEF DuplicateColumn, Busy, Opened
<1>4. ASSUME NEW o \in Openers, Close(o) PROVE (VersionIsApplied /\ PassedIsApplied)'
    BY <1>4 DEF Close
<1>5. CASE UNCHANGED vars
    BY <1>5 DEF vars
<1> QED
    BY <1>1, <1>2, <1>3, <1>4, <1>5 DEF Next

\* The inductive invariant holds of every behaviour.
LEMMA IInvHolds == Spec => []IInv
<1>1. IInv /\ [Next]_vars => IInv'
    BY TypeStep, AppliedStep DEF IInv
<1> QED
    BY IInvInit, <1>1, PTL DEF Spec

\* Storage::migrate keeps the version and every opener's progress in range.
THEOREM TypeCorrect == Spec => []TypeOK
<1>1. IInv => TypeOK
    BY DEF IInv
<1> QED
    BY IInvHolds, <1>1, PTL

\* However many processes migrate one file at once, the version it records
\* never claims a migration that is not in it (storage.rs migrate).
THEOREM VersionTrusted == Spec => []VersionIsApplied
<1>1. IInv => VersionIsApplied
    BY DEF IInv
<1> QED
    BY IInvHolds, <1>1, PTL

\* Storage::open only returns a store with everything its build needs.
THEOREM OpenComplete == Spec => []OpenIsMigrated
<1>1. IInv => OpenIsMigrated
  <2> SUFFICES ASSUME IInv, NEW o \in Openers, pc[o] = "open"
               PROVE  1..build[o] \subseteq applied
    BY DEF OpenIsMigrated
  <2>1. 1..build[o] \subseteq 1..(next[o] - 1)
    BY MigrationAssumption DEF IInv, TypeOK, PassedIsApplied, MigrationAssumption
  <2> QED
    BY <2>1 DEF IInv, PassedIsApplied
<1> QED
    BY IInvHolds, <1>1, PTL

-----------------------------------------------------------------------------
(* While no two openers have been migrating at once, the recorded version is *)
(* exactly what was applied.                                                 *)

Apart == \A p, q \in Openers : pc[p] = "migrating" /\ pc[q] = "migrating" => p = q

Exact ==
    /\ Apart
    /\ applied = 1..version
    /\ \A o \in Openers : pc[o] = "migrating" => next[o] = version + 1

LEMMA ExactStep ==
    ASSUME TypeOK, Exact, [Next]_vars, ~shared'
    PROVE  Exact' /\ version' >= version
<1> USE MigrationAssumption DEF MigrationAssumption, Migrations, TypeOK, Exact, Apart
<1>1. ASSUME NEW o \in Openers, ReadVersion(o) PROVE Exact' /\ version' >= version
  <2>1. \A q \in Openers : pc[q] = "migrating" => q = o
    BY <1>1 DEF ReadVersion, Others
  <2> QED
    BY <1>1, <2>1 DEF ReadVersion, First
<1>2. ASSUME NEW o \in Openers, Migrate(o) PROVE Exact' /\ version' >= version
  <2>1. next[o] = version + 1
    BY <1>2 DEF Migrate, Pending
  <2>2. applied' = 1..version' /\ version' = version + 1
    BY <2>1, <1>2 DEF Migrate
  <2>3. \A q \in Openers : pc'[q] = "migrating" => q = o /\ next'[q] = version' + 1
    BY <2>1, <1>2 DEF Migrate, Pending
  <2> QED
    BY <2>2, <2>3
<1>3. ASSUME NEW o \in Openers, DuplicateColumn(o) \/ Busy(o) \/ Opened(o)
      PROVE Exact' /\ version' >= version
  <2>1. pc[o] = "migrating" /\ version' = version /\ applied' = applied /\ next' = next
    BY <1>3 DEF DuplicateColumn, Busy, Opened, Pending
  <2>2. \A q \in Openers : pc'[q] = "migrating" => pc[q] = "migrating"
    BY <1>3 DEF DuplicateColumn, Busy, Opened
  <2> QED
    BY <2>1, <2>2
<1>4. ASSUME NEW o \in Openers, Close(o) PROVE Exact' /\ version' >= version
    BY <1>4 DEF Close
<1>5. CASE UNCHANGED vars
    BY <1>5 DEF vars
<1> QED
    BY <1>1, <1>2, <1>3, <1>4, <1>5 DEF Next

\* Once shared, always shared.
LEMMA SharedStays == ASSUME [Next]_vars, shared PROVE shared'
<1>1. ASSUME NEW o \in Openers, ReadVersion(o) PROVE shared'
    BY <1>1 DEF ReadVersion
<1>2. ASSUME NEW o \in Openers,
             Migrate(o) \/ DuplicateColumn(o) \/ Busy(o) \/ Opened(o) \/ Close(o)
      PROVE  shared'
    BY <1>2 DEF Migrate, DuplicateColumn, Busy, Opened, Close
<1> QED
    BY <1>1, <1>2 DEF Next, vars

ExactIfApart == ~shared => Exact

LEMMA ExactHolds == Spec => []ExactIfApart
<1>1. Init => ExactIfApart
    BY DEF Init, Exact, ExactIfApart, Apart
<1>2. TypeOK /\ ExactIfApart /\ [Next]_vars => ExactIfApart'
  <2> SUFFICES ASSUME TypeOK, ExactIfApart, [Next]_vars, ~shared' PROVE Exact'
    BY DEF ExactIfApart
  <2>1. Exact
    BY SharedStays DEF ExactIfApart
  <2> QED
    BY <2>1, ExactStep
<1> QED
    BY <1>1, <1>2, TypeCorrect, PTL DEF Spec

\* A store no two openers have been migrating at the same time can always be
\* opened again, from whatever version and after a crash at any point.
THEOREM ReopensIfApart == Spec => []ReopenableIfApart
<1>1. TypeOK /\ ExactIfApart => ReopenableIfApart
  <2> SUFFICES ASSUME TypeOK, Exact, NEW m \in Alters, m > version PROVE m \notin applied
    BY DEF ExactIfApart, ReopenableIfApart, Reopenable
  <2> QED
    BY MigrationAssumption DEF Exact, TypeOK, MigrationAssumption, Migrations
<1> QED
    BY <1>1, ExactHolds, TypeCorrect, PTL

\* ... and its recorded version never goes back.
THEOREM GrowsIfApart == Spec => VersionGrows
<1>1. TypeOK /\ ExactIfApart /\ [Next]_vars => [~shared' => version' >= version]_vars
  <2> SUFFICES ASSUME TypeOK, ExactIfApart, [Next]_vars, ~shared' PROVE version' >= version
    OBVIOUS
  <2>1. Exact
    BY SharedStays DEF ExactIfApart
  <2> QED
    BY <2>1, ExactStep
<1> QED
    BY <1>1, ExactHolds, TypeCorrect, PTL DEF Spec, VersionGrows
=============================================================================
