--------------------------- MODULE MCStoreMigration ---------------------------
(* Small instances of StoreMigration for TLC: the real nine migrations. *)
EXTENDS StoreMigration, TLC

OpenerSymmetry == Permutations(Openers)
=============================================================================
