------------------------------ MODULE RollupStore ------------------------------
(***************************************************************************)
(* The control database's side of quota accounting: the rollup row of one  *)
(* key (llm_key_usage_rollups), the idempotency markers of applied batches *)
(* (llm_key_usage_rollup_applied_batches), and the admin handler that      *)
(* rewrites a whole key bundle.                                            *)
(*                                                                         *)
(* A row is a sum of batch deltas, so it is kept as the number of times    *)
(* each batch has been added to it.  Keys do not interact: one row.        *)
(***************************************************************************)
EXTENDS RollupBatches, Naturals

CONSTANT
  MaxCharges    (* bound: time passes only while no batch is charged more   *)

ASSUME MaxChargesAssumption == MaxCharges \in Nat

VARIABLES
  charged,      (* how many times each batch is contained in the row        *)
  markers,      (* batches whose applied marker row exists                  *)
  expired,      (* markers older than the 90-day retention                  *)
  patch         (* row values read by admin patches that did not write yet  *)

storeVars == <<charged, markers, expired, patch>>

StoreTypeOK ==
  /\ charged \in [BatchIds -> Nat]
  /\ markers \in SUBSET BatchIds
  /\ expired \in SUBSET markers
  /\ patch \in SUBSET [BatchIds -> Nat]

StoreInit ==
  /\ charged = [b \in BatchIds |-> 0]
  /\ markers = {}
  /\ expired = {}
  /\ patch = {}

(* Mutant: the delta is added whether or not the marker was new.             *)
ApplyBatchesIgnoringMarkers(S) ==
  /\ charged' = [b \in BatchIds |-> charged[b] + IF b \in S THEN 1 ELSE 0]
  /\ markers' = markers \cup S
  /\ UNCHANGED <<expired, patch>>

(* One transaction: insert a marker per batch, add the deltas of exactly the
   batches whose marker was new. *)
ApplyBatches(S) ==
  /\ charged' = [b \in BatchIds |->
                   charged[b] + IF b \in S \ markers THEN 1 ELSE 0]
  /\ markers' = markers \cup S
  /\ UNCHANGED <<expired, patch>>

(* Mutant: what was deleted is still counted as old.                         *)
PruneMarkersKeepingAge ==
  /\ markers' = markers \ expired
  /\ UNCHANGED <<charged, expired, patch>>

(* DELETE ... WHERE applied_at_ms < cutoff. *)
PruneMarkers ==
  /\ markers' = markers \ expired
  /\ expired' = {}
  /\ UNCHANGED <<charged, patch>>

(* Every marker written so far falls behind the retention cutoff. *)
AgeMarkers ==
  /\ \A b \in BatchIds : charged[b] < MaxCharges
  /\ expired # markers
  /\ expired' = markers
  /\ UNCHANGED <<charged, markers, patch>>

(* patch_admin_key reads the key, its route and its rollup row ...           *)
LoadKeyBundle ==
  /\ patch = {}
  /\ patch' = {charged}
  /\ UNCHANGED <<charged, markers, expired>>

(* ... and upserts all three with absolute values.                           *)
UpsertKeyBundle ==
  \E row \in patch :
    /\ charged' = row
    /\ patch' = patch \ {row}
    /\ UNCHANGED <<markers, expired>>
================================================================================
