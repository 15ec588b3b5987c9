--------------------------- MODULE OperationalChecks ---------------------------
(***************************************************************************)
(* The best-practice checks of a health scan: what its probes read of a    *)
(* server, and what the checks make of it.                                 *)
(*                                                                         *)
(* Each probe is a query of its own and may fail without failing the scan. *)
(* A fact is <<value>>, or <<>> when its probe failed.  s is the server:   *)
(* its settings, and in "full", "log" and "checkdb" the age of what ran    *)
(* last, itself <<>> when it never ran.                                    *)
(*                                                                         *)
(* Source: backend/src/sqlserver.rs (pull_operational),                    *)
(* backend/src/health/operational.rs.                                      *)
(***************************************************************************)
EXTENDS Integers, FiniteSets

Probes == {"cpu", "configuration", "database", "vlf", "backups", "readOnly",
           "checkdb", "hadr", "jobs", "ifi", "tempdb", "traceFlags"}

\* The database probe and the configuration probe each fill several facts.
PullOperational(s, failed) ==
    LET Fact(probe, value) == IF probe \in failed THEN <<>> ELSE <<value>>
    IN  [cpu |-> Fact("cpu", s.cpu),
         maxdop |-> Fact("configuration", s.maxdop),
         costThreshold |-> Fact("configuration", s.costThreshold),
         adhoc |-> Fact("configuration", s.adhoc),
         recovery |-> Fact("database", s.recovery),
         autoShrink |-> Fact("database", s.autoShrink),
         autoClose |-> Fact("database", s.autoClose),
         pageVerify |-> Fact("database", s.pageVerify),
         autoCreateStats |-> Fact("database", s.autoCreateStats),
         autoUpdateStats |-> Fact("database", s.autoUpdateStats),
         vlf |-> Fact("vlf", s.vlf),
         backups |-> Fact("backups", [full |-> s.full, log |-> s.log]),
         readOnly |-> Fact("readOnly", s.readOnly),
         checkdb |-> Fact("checkdb", s.checkdb),
         replicas |-> IF "hadr" \in failed THEN {} ELSE s.replicas,
         jobs |-> Fact("jobs", s.jobs),
         ifi |-> Fact("ifi", s.ifi),
         tempFiles |-> Fact("tempdb", s.tempFiles),
         tempUnequal |-> Fact("tempdb", s.tempUnequal),
         traceFlags |-> Fact("traceFlags", s.traceFlags)]

Known(fact) == fact # <<>>
Is(fact, value) == Known(fact) /\ fact[1] = value

\* about tells apart the checks that share an id: the replica or the job.
Check(kind, id, severity, about) ==
    [kind |-> kind, id |-> id, severity |-> severity, about |-> about]
Config(id, severity, holds) ==
    IF holds THEN {Check("config", id, severity, "server")} ELSE {}
----------------------------------------------------------------------------
Parallelism(f) ==
    Config("maxdop_unbounded", "warning",
           Known(f.maxdop) /\ Known(f.cpu) /\ f.maxdop[1] = 0 /\ f.cpu[1] > 8)
      \cup Config("cost_threshold_default", "warning",
                  Known(f.costThreshold) /\ f.costThreshold[1] <= 5)
      \cup Config("optimize_for_adhoc_off", "info", Is(f.adhoc, FALSE))

DatabaseSettings(f) ==
    Config("auto_shrink_on", "warning", Is(f.autoShrink, TRUE))
      \cup Config("auto_close_on", "warning", Is(f.autoClose, TRUE))
      \cup Config("page_verify_not_checksum",
                  IF Is(f.pageVerify, "NONE") THEN "error" ELSE "warning",
                  Known(f.pageVerify) /\ f.pageVerify[1] # "CHECKSUM")
      \cup Config("auto_create_stats_off", "warning", Is(f.autoCreateStats, FALSE))
      \cup Config("auto_update_stats_off", "warning", Is(f.autoUpdateStats, FALSE))

TransactionLog(f) ==
    IF Known(f.vlf) /\ f.vlf[1] > 10000
    THEN {Check("log", "high_vlf_count", "warning", "log")} ELSE {}

\* Mutant: no history that could be read is no backup.
UnreadIsNone(f) ==
    IF Known(f.backups) /\ f.backups[1].full # <<>> THEN {}
    ELSE {Check("backup", "no_full_backup", "error", "backup")}

WeekHours == 24 * 7
Stale(age, limit) == age # <<>> /\ age[1] > limit

Backups(f) ==
    IF ~Known(f.backups) THEN {}
    ELSE LET b == f.backups[1]
             logged == Is(f.recovery, "FULL") \/ Is(f.recovery, "BULK_LOGGED")
             Backup(id, severity, holds) ==
                 IF holds THEN {Check("backup", id, severity, "backup")} ELSE {}
         IN  Backup("no_full_backup", "error", b.full = <<>>)
               \cup Backup("full_backup_stale", "warning", Stale(b.full, WeekHours))
               \cup Backup("no_log_backup", "warning", logged /\ b.log = <<>>)
               \cup Backup("log_backup_stale", "warning", logged /\ Stale(b.log, 24))

CheckdbStaleDays == 14

\* A read-only database is left alone, when it is known to be one.
Integrity(f) ==
    IF ~Known(f.checkdb) \/ Is(f.readOnly, TRUE) THEN {}
    ELSE LET age == f.checkdb[1]
         IN  IF age = <<>> THEN {Check("integrity", "checkdb_never", "critical", "db")}
             ELSE IF age[1] >= CheckdbStaleDays
                  THEN {Check("integrity", "checkdb_stale", "critical", "db")}
                  ELSE {}

Replicas(f) ==
    {Check("hadr", "replica_unhealthy", "critical", r.name) :
        r \in {r \in f.replicas :
                 \/ r.suspended
                 \/ r.health = "NOT_HEALTHY"
                 \/ r.synchronous /\ r.state \in {"NOT SYNCHRONIZING", "NOT SYNCHRONIZED"}}}

FailedJobs(f) ==
    IF ~Known(f.jobs) THEN {}
    ELSE {Check("jobs", "recent_failures",
                IF j.protectsData THEN "error" ELSE "warning", j.name) : j \in f.jobs[1]}

TempdbFileCap == 8

Files(f) ==
    Config("ifi_disabled", "warning", Is(f.ifi, FALSE))
      \cup (IF ~Known(f.tempFiles) \/ ~Known(f.cpu) THEN {}
            ELSE LET recommended ==
                         IF f.cpu[1] < TempdbFileCap THEN f.cpu[1] ELSE TempdbFileCap
                     few == f.tempFiles[1] < recommended
                 IN  Config("too_few_files",
                            IF f.tempFiles[1] <= 1 THEN "warning" ELSE "info", few)
                       \cup Config("unequal_files", "info", ~few /\ Is(f.tempUnequal, TRUE)))

HighRiskTraceFlags == {652, 661, 1211, 1224, 1806, 2330, 3505, 4138, 8649}

TraceFlags(f) ==
    Config("dangerous_trace_flag", "warning",
           Known(f.traceFlags) /\ f.traceFlags[1] \cap HighRiskTraceFlags # {})

Evaluate(f) ==
    Parallelism(f) \cup DatabaseSettings(f) \cup TransactionLog(f) \cup Backups(f)
      \cup Integrity(f) \cup Replicas(f) \cup FailedJobs(f) \cup Files(f) \cup TraceFlags(f)
=============================================================================
