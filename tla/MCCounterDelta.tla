---------------------------- MODULE MCCounterDelta ----------------------------
(* Small instances of CounterDelta for TLC. *)
EXTENDS CounterDelta, TLC

CONSTANTS k1, k2, p1

\* One poller that can see every key.
Alone == (p1 :> {k1, k2})

KeySymmetry == Permutations(Keys)
=============================================================================
