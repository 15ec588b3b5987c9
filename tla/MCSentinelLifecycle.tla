------------------------- MODULE MCSentinelLifecycle -------------------------
(* Small instances of SentinelLifecycle for TLC. *)
EXTENDS SentinelLifecycle, TLC

\* Handlers, daemons and pollers are interchangeable in safety runs.
LifecycleSymmetry ==
    Permutations(Handlers) \cup Permutations(Daemons) \cup Permutations(Pollers)
=============================================================================
