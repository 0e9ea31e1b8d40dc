--------------------------- MODULE MCUsageAccounting ---------------------------
(***************************************************************************)
(* Instances of UsageAccounting for TLC.                                   *)
(***************************************************************************)
EXTENDS UsageAccounting, TLC

(* Batch identities are fresh UUIDs and events of one key: both symmetric.   *)
Symmetry == Permutations(BatchIds) \cup Permutations(Events)
================================================================================
