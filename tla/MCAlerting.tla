------------------------------ MODULE MCAlerting ------------------------------
(* Small instances of Alerting for TLC. *)
EXTENDS Alerting

OneRule == <<[id |-> "blocking", metric |-> "blocked", level |-> 1]>>
=============================================================================
