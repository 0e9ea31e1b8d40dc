------------------------------ MODULE KeyAdmission ------------------------------
(***************************************************************************)
(* Admission of provider requests with one key, through the Valkey cache   *)
(* of authenticated keys: the key's row in the control database, its cache *)
(* entry, the requests that fill and read it, the flusher that applies     *)
(* usage rollups, and the administrator who patches or deletes the key.    *)
(*                                                                         *)
(* A step ends at every call to the database or to Valkey.  Recorded usage *)
(* is counted in units; the pending rollups of the node are its overlay.   *)
(***************************************************************************)
EXTENDS Integers

CONSTANTS
  Requests,     (* clients, one request at a time each                      *)
  Quota,        (* quota_billable_limit                                     *)
  MaxUsed,      (* bound: units of usage ever recorded                      *)
  Writes,       (* what the administrator does: "patch", "delete"           *)
  Faults,       (* "valkey", "ackLost", "store"                             *)
  NoEntry       (* no cache entry; no row in hand                           *)

(* A "deleted" row is no row: loading it gives None, cached as such.         *)
Row == [status : {"active", "disabled", "deleted"}, used : 0..MaxUsed]

ASSUME KeyAssumption ==
  /\ Quota \in Nat /\ MaxUsed \in Nat
  /\ NoEntry \notin Row

VARIABLES
  row,          (* llm_keys and llm_key_usage_rollups, as one lookup sees them *)
  entry,        (* the cached lookup                                        *)
  behind,       (* ghost: a write changed the row and could not reach entry *)
  pc,           (* where each request is                                    *)
  view,         (* the row each request holds                               *)
  overtaken,    (* ghost: the row it holds missed an invalidation           *)
  overlay,      (* PendingUsageRollups of the key                           *)
  flusher,      (* where the apply of a rollup batch is                     *)
  batch,        (* units in the batch being applied                         *)
  recorded,     (* units recorded so far                                    *)
  admin,        (* where the administrator's write is                       *)
  readUsed      (* the totals a patch read                                  *)

cacheVars == <<entry, behind, overtaken>>
requestVars == <<pc, view>>
flusherVars == <<flusher, batch>>
adminVars == <<admin, readUsed>>
vars == <<row, cacheVars, requestVars, overlay, flusherVars, recorded, adminVars>>

TypeOK ==
  /\ row \in Row
  /\ entry \in Row \cup {NoEntry}
  /\ behind \in BOOLEAN
  /\ pc \in [Requests -> {"idle", "miss", "loaded", "keyed", "serving"}]
  /\ view \in [Requests -> Row \cup {NoEntry}]
  /\ overtaken \in [Requests -> BOOLEAN]
  /\ overlay \in Nat
  /\ flusher \in {"idle", "committed", "retry", "settle"}
  /\ batch \in Nat
  /\ recorded \in 0..MaxUsed
  /\ admin \in {"idle", "read", "written"}
  /\ readUsed \in 0..MaxUsed

Init ==
  /\ row = [status |-> "active", used |-> 0]
  /\ entry = NoEntry /\ behind = FALSE
  /\ pc = [r \in Requests |-> "idle"]
  /\ view = [r \in Requests |-> NoEntry]
  /\ overtaken = [r \in Requests |-> FALSE]
  /\ overlay = 0 /\ batch = 0 /\ recorded = 0
  /\ flusher = "idle"
  /\ admin = "idle" /\ readUsed = 0

--------------------------------------------------------------------------------
(* Cache entries. *)

(* Fills that hold another row than the one now in the database.             *)
HoldsOldRow(r, now) == pc[r] = "loaded" /\ view[r] # now

(* A write of `now` without effect on the entry.                             *)
Unreached(now) ==
  /\ behind' = (entry # NoEntry)
  /\ overtaken' = [r \in Requests |-> overtaken[r] \/ HoldsOldRow(r, now)]
  /\ UNCHANGED entry

(* delete_many took the entry; fills under way may still put theirs.         *)
Deleted ==
  /\ entry' = NoEntry
  /\ behind' = FALSE
  /\ overtaken' = [r \in Requests |-> overtaken[r] \/ HoldsOldRow(r, row)]

(* invalidate_authenticated_key_cache_by_ids: the hash comes from llm_keys,
   so the entry of a key no longer there is not deleted; failures of either
   call are logged. *)
Invalidate ==
  \/ row.status # "deleted" /\ Deleted
  \/ /\ row.status = "deleted"
     /\ overtaken' = [r \in Requests |-> overtaken[r] \/ HoldsOldRow(r, row)]
     /\ UNCHANGED <<entry, behind>>
  \/ "valkey" \in Faults /\ Unreached(row)

(* Mutant: entries are put without a TTL.                                    *)
ExpireNever == FALSE /\ UNCHANGED vars

(* The entry's TTL, set when it was put, ends. *)
Expire ==
  /\ entry # NoEntry
  /\ entry' = NoEntry
  /\ behind' = FALSE
  /\ UNCHANGED <<row, overtaken, requestVars, overlay, flusherVars, recorded,
                 adminVars>>

--------------------------------------------------------------------------------
(* One request: provider_entry and load_authenticated_key_cached.            *)

Move(r, to, held) ==
  /\ pc' = [pc EXCEPT ![r] = to]
  /\ view' = [view EXCEPT ![r] = held]

(* A hit keeps the entry as it is; an unreadable cache is a miss.            *)
Lookup(r) ==
  /\ pc[r] = "idle"
  /\ \/ entry # NoEntry /\ Move(r, "keyed", entry)
     \/ (entry = NoEntry \/ "valkey" \in Faults) /\ Move(r, "miss", NoEntry)
  /\ UNCHANGED <<row, cacheVars, overlay, flusherVars, recorded, adminVars>>

Load(r) ==
  /\ pc[r] = "miss"
  /\ \/ Move(r, "loaded", row)
     \/ "store" \in Faults /\ Move(r, "idle", NoEntry)
  /\ overtaken' = [overtaken EXCEPT ![r] = FALSE]
  /\ UNCHANGED <<row, entry, behind, overlay, flusherVars, recorded, adminVars>>

(* set_json; a failure is logged. *)
Store(r) ==
  /\ pc[r] = "loaded"
  /\ \/ entry' = view[r] /\ behind' = overtaken[r]
     \/ "valkey" \in Faults /\ UNCHANGED <<entry, behind>>
  /\ Move(r, "keyed", view[r])
  /\ overtaken' = [overtaken EXCEPT ![r] = FALSE]
  /\ UNCHANGED <<row, overlay, flusherVars, recorded, adminVars>>

(* is_active_key and is_quota_exhausted, after overlay_authenticated_key.    *)
Allowed(held) ==
  /\ held.status = "active"
  /\ held.used + overlay < Quota

(* The row is in hand; the overlay is read and the checks follow.            *)
Admit(r) ==
  /\ pc[r] = "keyed"
  /\ Move(r, IF Allowed(view[r]) THEN "serving" ELSE "idle", NoEntry)
  /\ UNCHANGED <<row, cacheVars, overlay, flusherVars, recorded, adminVars>>

(* The response ends, with usage (append_usage_event) or without.            *)
Finish(r) ==
  /\ pc[r] = "serving"
  /\ Move(r, "idle", NoEntry)
  /\ \/ /\ recorded < MaxUsed
        /\ recorded' = recorded + 1
        /\ overlay' = overlay + 1
     \/ UNCHANGED <<recorded, overlay>>
  /\ UNCHANGED <<row, cacheVars, flusherVars, adminVars>>

--------------------------------------------------------------------------------
(* The flusher: apply_usage_rollup_batches, then PendingUsageRollups.        *)

(* Deltas of a key that is gone are skipped. *)
RowPlus(n) ==
  IF row.status = "deleted" THEN row
  ELSE [row EXCEPT !.used = @ + n]

Apply ==
  /\ flusher = "idle"
  /\ \E n \in 1..overlay :
       /\ batch' = n
       /\ row' = RowPlus(n)
       /\ \/ flusher' = "committed" /\ UNCHANGED cacheVars
          \/ /\ "ackLost" \in Faults     \* the commit took, its answer did not
             /\ flusher' = "retry"
             /\ Unreached(row')
  /\ UNCHANGED <<requestVars, overlay, recorded, adminVars>>

ApplyInvalidates ==
  /\ flusher = "committed"
  /\ Invalidate
  /\ flusher' = "settle"
  /\ UNCHANGED <<row, requestVars, overlay, batch, recorded, adminVars>>

(* Mutant: the retry adds its deltas again.                                  *)
ApplyAgainIgnoringMarkers ==
  /\ flusher = "retry"
  /\ flusher' = "settle"
  /\ row' = RowPlus(batch)
  /\ UNCHANGED <<cacheVars, requestVars, overlay, batch, recorded, adminVars>>

(* The marker says the batch was applied: no delta is left, and no key to
   invalidate. *)
ApplyAgain ==
  /\ flusher = "retry"
  /\ flusher' = "settle"
  /\ UNCHANGED <<row, cacheVars, requestVars, overlay, batch, recorded, adminVars>>

(* Mutant: the overlay is settled when the transaction has committed.        *)
SettleAtOnce ==
  /\ flusher \in {"committed", "settle"}
  /\ overlay' = overlay - batch
  /\ batch' = 0
  /\ flusher' = "idle"
  /\ UNCHANGED <<row, cacheVars, requestVars, recorded, adminVars>>

(* subtract_batch *)
Settle ==
  /\ flusher = "settle"
  /\ overlay' = overlay - batch
  /\ batch' = 0
  /\ flusher' = "idle"
  /\ UNCHANGED <<row, cacheVars, requestVars, recorded, adminVars>>

--------------------------------------------------------------------------------
(* The administrator: patch_admin_key and delete_admin_key.                  *)

PatchRead ==
  /\ "patch" \in Writes
  /\ admin = "idle" /\ row.status # "deleted"
  /\ admin' = "read"
  /\ readUsed' = row.used
  /\ UNCHANGED <<row, cacheVars, requestVars, overlay, flusherVars, recorded>>

(* Three upserts: the key, its route, its totals as they were read.  If one
   of the last two fails, the call returns before any invalidation. *)
PatchWrite ==
  /\ admin = "read"
  /\ \E s \in {"active", "disabled"} :
       \/ /\ row' = [status |-> s, used |-> readUsed]
          /\ admin' = "written"
          /\ UNCHANGED cacheVars
       \/ /\ "store" \in Faults
          /\ row' = [row EXCEPT !.status = s]
          /\ admin' = "idle"
          /\ Unreached(row')
  /\ readUsed' = 0
  /\ UNCHANGED <<requestVars, overlay, flusherVars, recorded>>

DeleteRow ==
  /\ "delete" \in Writes
  /\ admin = "idle" /\ row.status # "deleted"
  /\ row' = [status |-> "deleted", used |-> 0]
  /\ admin' = "written"
  /\ UNCHANGED <<cacheVars, requestVars, overlay, flusherVars, recorded, readUsed>>

(* Mutant: this mutation path forgets the cache.                             *)
AdminForgets ==
  /\ admin = "written"
  /\ admin' = "idle"
  /\ UNCHANGED <<row, cacheVars, requestVars, overlay, flusherVars, recorded,
                 readUsed>>

AdminInvalidates ==
  /\ admin = "written"
  /\ Invalidate
  /\ admin' = "idle"
  /\ UNCHANGED <<row, requestVars, overlay, flusherVars, recorded, readUsed>>

--------------------------------------------------------------------------------
RequestStep(r) == Lookup(r) \/ Load(r) \/ Store(r) \/ Admit(r) \/ Finish(r)
FlusherStep == Apply \/ ApplyInvalidates \/ ApplyAgain \/ Settle
AdminStep == PatchRead \/ PatchWrite \/ DeleteRow \/ AdminInvalidates

Next == Expire \/ FlusherStep \/ AdminStep \/ \E r \in Requests : RequestStep(r)

Spec == Init /\ [][Next]_vars

(* Calls return, so a request, a flush or a patch that began goes on; TTLs
   end.  Nothing obliges clients to send or the administrator to write. *)
Fairness ==
  /\ WF_vars(Expire)
  /\ WF_vars(FlusherStep)
  /\ WF_vars(PatchWrite \/ AdminInvalidates)
  /\ \A r \in Requests : WF_vars(Load(r) \/ Store(r) \/ Admit(r) \/ Finish(r))

FairSpec == Spec /\ Fairness

--------------------------------------------------------------------------------
(* Units committed to the row and still in the overlay.                      *)
Unsettled == batch

(* A write of the row whose invalidation is to come. *)
WriteOpen == flusher = "committed" \/ admin = "written"

(* Unless an invalidation passed it by (a fill overtook it, Valkey or the
   database failed), the cached row and what the overlay counts twice hold
   every unit of the database row: the overlay gives up a batch only when no
   entry lacks it, so a quota check on a hit misses no usage. *)
CachedUsageCounts ==
  entry # NoEntry /\ ~behind => entry.used + Unsettled >= row.used

(* Unless an invalidation passed it by, an entry of a key that exists differs
   from the database only while the write that changed the row has yet to
   invalidate: no write path forgets the cache. *)
EntryIsCurrent ==
  entry # NoEntry /\ ~behind /\ row.status # "deleted"
    => entry = row \/ WriteOpen

(* The same of a deleted key: "admin/config writes correctly invalidate or
   update the relevant cache keys".  delete_admin_key does not. *)
DeletedIsForgotten ==
  entry # NoEntry /\ ~behind /\ row.status = "deleted"
    => entry = row \/ WriteOpen

Barred ==
  \/ row.status # "active"
  \/ row.used + overlay - Unsettled >= Quota

(* Whatever fills raced with whatever writes, a key that stays disabled,
   deleted or out of quota is refused in the end: hits do not renew an entry,
   so a stale one goes with its TTL. *)
BarredIsRefused ==
  <>[]Barred => <>[](\A r \in Requests : pc[r] # "serving")
================================================================================
