------------------------------ MODULE MCRequests ------------------------------
(* Small instances of Requests for TLC. *)
EXTENDS Requests, TLC

PageSymmetry == Permutations(Pages)
-----------------------------------------------------------------------------
(* Servers to scan. *)

Advised(key, gain, severity) == [fix |-> key, gain |-> gain, severity |-> severity]

Table(size, heap, pk, wanted, idle, twice) ==
    [rows |-> size, heap |-> heap, pk |-> pk, missing |-> wanted,
     unused |-> idle, duplicates |-> twice]
Fine == Table(4, FALSE, TRUE, {}, {}, {})

Sound ==
    [cpu |-> 4, maxdop |-> 4, costThreshold |-> 50, adhoc |-> TRUE, recovery |-> "FULL",
     autoShrink |-> FALSE, autoClose |-> FALSE, pageVerify |-> "CHECKSUM",
     autoCreateStats |-> TRUE, autoUpdateStats |-> TRUE, vlf |-> 100, full |-> <<20>>,
     log |-> <<1>>, readOnly |-> FALSE, checkdb |-> <<3>>, replicas |-> {}, jobs |-> {},
     ifi |-> TRUE, tempFiles |-> 4, tempUnequal |-> FALSE, traceFlags |-> {4199}]

\* Wide open: every check on its bad side, each age past its limit.
Neglected ==
    [cpu |-> 16, maxdop |-> 0, costThreshold |-> 5, adhoc |-> FALSE, recovery |-> "FULL",
     autoShrink |-> TRUE, autoClose |-> TRUE, pageVerify |-> "NONE",
     autoCreateStats |-> FALSE, autoUpdateStats |-> FALSE, vlf |-> 10001, full |-> <<169>>,
     log |-> <<25>>, readOnly |-> FALSE, checkdb |-> <<14>>,
     replicas |-> {[name |-> "r1", suspended |-> FALSE, health |-> "NOT_HEALTHY",
                    synchronous |-> TRUE, state |-> "NOT SYNCHRONIZING"]},
     jobs |-> {[name |-> "nightly backup", protectsData |-> TRUE],
               [name |-> "reindex", protectsData |-> FALSE]},
     ifi |-> FALSE, tempFiles |-> 1, tempUnequal |-> TRUE, traceFlags |-> {1211}]

\* A read-only database that nobody ever backed up or checked.
Archive == [Sound EXCEPT !.full = <<>>, !.log = <<>>, !.checkdb = <<>>, !.readOnly = TRUE]

MCTables == {"t1", "t2"}
MCLetters == [t \in MCTables |-> t]

On(table) == [t \in MCTables |-> IF t = "t1" THEN table ELSE Fine]

MCServers ==
    {[tables |-> On(Fine), settings |-> Sound],
     [tables |-> [t \in MCTables |->
                    Table(IF t = "t1" THEN 6 ELSE 5, TRUE, FALSE, {}, {}, {})],
      settings |-> Archive],
     [tables |-> On(Table(4, FALSE, TRUE,
                          {Advised("k1", 50, "warning"), Advised("k2", 1, "info")},
                          {Advised("i1", 5000, "info")},
                          {Advised("i2", 1000, "info"), Advised("i2", 1000, "warning"),
                           Advised("i3", 1200, "warning")})),
      settings |-> Sound],
     [tables |-> On(Fine), settings |-> Neglected]}

MCCaptures == {{}, {"blocked"}, {"deadlock", "blocked", "waits", "slower"}}

MCBundleFailures == {{}, {"age", "metadata"}, {"sizes", "usage", "missing"}}

\* Every probe fails with and without the facts its own are weighed against.
MCProbeFailures ==
    {{}, {"cpu", "readOnly", "backups", "hadr", "traceFlags", "vlf"},
     {"configuration", "database", "tempdb", "checkdb", "jobs", "ifi"}}
-----------------------------------------------------------------------------
(* Tables to advise on, and their workload. *)

Index(key, inc, unique, clustered, pk) ==
    [key |-> key, inc |-> inc, unique |-> unique, clustered |-> clustered, pk |-> pk]
Plain(key, inc) == Index(key, inc, FALSE, FALSE, FALSE)

MCPrimary == Index(<<"id">>, {}, TRUE, TRUE, TRUE)
MCCatalogs ==
    {<<MCPrimary, Index(<<"a">>, {}, TRUE, FALSE, FALSE)>>,
     <<MCPrimary, Plain(<<"a">>, {}), Plain(<<"a">>, {})>>,
     <<MCPrimary, Plain(<<"a">>, {}), Plain(<<"a">>, {"c"})>>,
     <<MCPrimary, Plain(<<"a", "b">>, {}), Plain(<<"b">>, {"a"})>>,
     <<Index(<<"id">>, {}, TRUE, FALSE, TRUE), Plain(<<"a">>, {}),
       Index(<<"a">>, {}, FALSE, TRUE, FALSE)>>}

\* One column, with and without another read, and two columns: the three
\* suggestions they leave all fold into one.
MCQueries == {[key |-> <<"a">>, needs |-> {"c"}], [key |-> <<"a">>, needs |-> {}],
              [key |-> <<"a", "b">>, needs |-> {}]}
-----------------------------------------------------------------------------
(* Batches to run. *)

MCBatches ==
    {<<>>, <<"read">>, <<"write", "read">>, <<"write", "blocked">>,
     <<"write", "rollback", "write">>, <<"rollback", "begin", "write">>}

MCHeavy == {<<"write", "read">>, <<"read">>}
=============================================================================
