------------------------------ MODULE MCUsageJournal ------------------------------
(* Values for model checking UsageJournal. *)
EXTENDS UsageJournal, TLC

Symmetry == Permutations(Blocks)

(* Sequence 0 was in use before writer-state.sqlite3 existed. *)
Upgraded == {0}
================================================================================
