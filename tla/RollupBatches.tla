----------------------------- MODULE RollupBatches -----------------------------
(***************************************************************************)
(* What the control database and the disk backlog both speak of: rollup    *)
(* batches, and the failures the environment may produce.                  *)
(***************************************************************************)
CONSTANTS
  BatchIds,     (* identities of rollup batches (a fresh UUID per batch)    *)
  Faults        (* what may go wrong, a subset of FaultKinds                *)

FaultKinds == {
  "crash",      (* the API process dies                                     *)
  "shutdown",   (* the API process is asked to stop                         *)
  "cancel",     (* a request is dropped while it waits for channel capacity *)
  "dbFail",     (* a database transaction fails and is rolled back          *)
  "ackLost",    (* a transaction commits but its answer is an error         *)
  "digest",     (* an applied batch no longer has the digest of its marker  *)
  "write",      (* writing a block to the active backlog file fails         *)
  "seal",       (* syncing, sealing or reopening the active file fails      *)
  "claim",      (* moving or deleting a claimed file fails                  *)
  "peer",       (* another node prunes the shared marker table              *)
  "patch",      (* an administrator patches the key                         *)
  "analytics" } (* the usage journal refuses events                         *)

ASSUME FaultsAssumption == Faults \subseteq FaultKinds
================================================================================
