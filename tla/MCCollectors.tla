----------------------------- MODULE MCCollectors -----------------------------
(* Small instances of Collectors for TLC. *)
EXTENDS Collectors, Sequences

One(dur, execs) == <<[dur |-> dur, execs |-> execs]>>
MCResults ==
    {<<>>, One(10, 2), One(13, 2), One(20, 2), One(20, 0), One(10, 2) \o One(20, 2)}

\* Samples of earlier runs: none, a steady query, one that varies, a mature one.
MCOldLogs ==
    {<<>>, <<10, 10, 10, 10, 11>>, <<10, 14, 10, 14, 14>>, <<10, 10, 10, 10, 10, 11>>}

OneDatabase == [p \in Pollers |-> "db"]

\* Two tiers of one metric.
Tiers ==
    <<[id |-> "io.warning", metric |-> "io", level |-> 1],
      [id |-> "io.critical", metric |-> "io", level |-> 2]>>
=============================================================================
