---------------------------- MODULE StoreMigration ----------------------------
(***************************************************************************)
(* Storage::open and its migrations, run by every opener of the one SQLite *)
(* file: the daemon, each HTTP handler that reads a report, status, alerts *)
(* or logs, and the command line tool, possibly of another build.          *)
(*                                                                         *)
(* Source: sentinel/src/storage.rs (open, migrate, MIGRATIONS) and         *)
(* sentinel/migrations.  The recorded version is read once, outside any    *)
(* transaction; each migration then commits by itself together with the    *)
(* version it records.  SQLite makes each of those commits atomic and      *)
(* serial, so one is one step.                                             *)
(***************************************************************************)
EXTENDS Naturals

CONSTANTS
    Openers,    \* connections that may be opening the store at once
    Latest,     \* migrations are numbered 1..Latest (today 9)
    Alters,     \* those that ALTER TABLE ... ADD COLUMN: not repeatable (4, 5)
    Builds      \* how many migrations each build in use knows

Migrations == 1..Latest

ASSUME MigrationAssumption ==
    /\ Latest \in Nat
    /\ Alters \subseteq Migrations
    /\ Builds \subseteq Migrations

VARIABLES
    version,    \* meta.schema_version; 0 when the row is absent
    applied,    \* the migrations whose tables and columns exist
    pc,         \* opener -> "closed", "migrating", "open", "failed"
    build,      \* opener -> how many migrations its build knows
    next,       \* opener -> the migration it looks at next
    shared      \* history: two openers have been migrating at the same time

vars == <<version, applied, pc, build, next, shared>>

\* A store that does not exist, or one an earlier build left behind.
Init ==
    /\ version \in Builds \cup {0}
    /\ applied = 1..version
    /\ pc = [o \in Openers |-> "closed"]
    /\ build = [o \in Openers |-> Latest]
    /\ next = [o \in Openers |-> 1]
    /\ shared = FALSE

Others(o) == Openers \ {o}

\* Mutant: the first pending migration is skipped too.
FirstSkipsOne == version + 2

\* Mutant: every migration is run on every open.
FirstIgnoresVersion == 1

\* The first migration to look at: those up to the recorded version are skipped.
First == version + 1

\* Connection::open, CREATE TABLE IF NOT EXISTS meta, and the read of the
\* recorded version.
ReadVersion(o) ==
    /\ pc[o] = "closed"
    /\ pc' = [pc EXCEPT ![o] = "migrating"]
    /\ \E b \in Builds : build' = [build EXCEPT ![o] = b]
    /\ next' = [next EXCEPT ![o] = First]
    /\ shared' = (shared \/ \E q \in Others(o) : pc[q] = "migrating")
    /\ UNCHANGED <<version, applied>>

Pending(o) == pc[o] = "migrating" /\ next[o] <= build[o]

\* CREATE ... IF NOT EXISTS can run again; ADD COLUMN cannot.
Runs(m) == m \in Alters => m \notin applied

\* Mutant: the version is recorded before, and apart from, the migration.
MigrateVersionOnly(o) ==
    /\ Pending(o) /\ Runs(next[o])
    /\ \/ applied' = applied \cup {next[o]}
       \/ UNCHANGED applied
    /\ version' = next[o]
    /\ next' = [next EXCEPT ![o] = @ + 1]
    /\ UNCHANGED <<pc, build, shared>>

\* Mutant: the migration commits and its version is left to a later write.
MigrateForgetsVersion(o) ==
    /\ Pending(o) /\ Runs(next[o])
    /\ applied' = applied \cup {next[o]}
    /\ \/ version' = next[o]
       \/ UNCHANGED version
    /\ next' = [next EXCEPT ![o] = @ + 1]
    /\ UNCHANGED <<pc, build, shared>>

\* One migration and the version it records, in one transaction.
Migrate(o) ==
    /\ Pending(o) /\ Runs(next[o])
    /\ applied' = applied \cup {next[o]}
    /\ version' = next[o]
    /\ next' = [next EXCEPT ![o] = @ + 1]
    /\ UNCHANGED <<pc, build, shared>>

\* "duplicate column name": the transaction is rolled back and open fails.
DuplicateColumn(o) ==
    /\ Pending(o) /\ ~Runs(next[o])
    /\ pc' = [pc EXCEPT ![o] = "failed"]
    /\ UNCHANGED <<version, applied, build, next, shared>>

\* SQLITE_BUSY, or SQLITE_BUSY_SNAPSHOT when another opener committed between
\* this transaction's read and its write: rolled back, and open fails.
Busy(o) ==
    /\ Pending(o)
    /\ \E q \in Others(o) : pc[q] = "migrating"
    /\ pc' = [pc EXCEPT ![o] = "failed"]
    /\ UNCHANGED <<version, applied, build, next, shared>>

Opened(o) ==
    /\ pc[o] = "migrating" /\ next[o] > build[o]
    /\ pc' = [pc EXCEPT ![o] = "open"]
    /\ UNCHANGED <<version, applied, build, next, shared>>

\* The handler is done, the error was reported, or the process died: in each
\* case SQLite rolls an uncommitted migration back.
Close(o) ==
    /\ pc[o] # "closed"
    /\ pc' = [pc EXCEPT ![o] = "closed"]
    /\ build' = [build EXCEPT ![o] = Latest]
    /\ next' = [next EXCEPT ![o] = 1]
    /\ UNCHANGED <<version, applied, shared>>

Next ==
    \E o \in Openers :
        \/ ReadVersion(o) \/ Migrate(o) \/ DuplicateColumn(o) \/ Busy(o)
        \/ Opened(o) \/ Close(o)

Spec == Init /\ [][Next]_vars

-----------------------------------------------------------------------------
\* Types of the version, the tables and each opener's progress.
TypeOK ==
    /\ version \in 0..Latest
    /\ applied \subseteq Migrations
    /\ pc \in [Openers -> {"closed", "migrating", "open", "failed"}]
    /\ build \in [Openers -> 0..Latest]
    /\ next \in [Openers -> 1..(Latest + 1)]
    /\ shared \in BOOLEAN

\* storage.rs migrate: a migration and the version it records are one
\* transaction, so the recorded version never claims a migration whose tables
\* are not there, however many openers run them at once.
VersionIsApplied == 1..version \subseteq applied

\* Storage::open returned: the store has every table and column its build was written for.
OpenIsMigrated == \A o \in Openers : pc[o] = "open" => 1..build[o] \subseteq applied

\* Storage::open can be called again: no migration still ahead of the recorded
\* version would find its column already there.
Reopenable == \A m \in Alters : m > version => m \notin applied

\* ... which holds at least while no two openers were ever migrating at once,
\* whatever died between two migrations and whichever build came next.
ReopenableIfApart == ~shared => Reopenable

\* Nor does meta.schema_version go back then.
VersionGrows == [][~shared' => version' >= version]_vars
=============================================================================
