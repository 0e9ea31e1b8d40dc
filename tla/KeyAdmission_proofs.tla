-------------------------- MODULE KeyAdmission_proofs --------------------------
(***************************************************************************)
(* Theorems about KeyAdmission, for every set of requests, every quota,    *)
(* every bound and every set of faults.                                    *)
(***************************************************************************)
EXTENDS KeyAdmission, TLAPS

--------------------------------------------------------------------------------
(* The inductive invariant. *)

(* Every unit in the row, or still owed to it, was recorded, also in the totals
   a patch is about to write back; only a commit makes the two overlap. *)
UnitsAreRecorded ==
  /\ batch <= overlay
  /\ flusher = "idle" => batch = 0
  /\ row.used + (overlay - batch) <= recorded
  /\ admin = "read" => readUsed + (overlay - batch) <= recorded

(* A patch never raises the totals, and finds the key it read. *)
PatchIsOlder ==
  /\ admin = "read" => readUsed <= row.used /\ row.status # "deleted"
  /\ row.status = "deleted" => row.used = 0

(* What entries and fills may lack: a batch committed and not yet invalidated. *)
Missing == IF flusher = "committed" THEN batch ELSE 0

EntryCounts == entry # NoEntry /\ ~behind => entry.used + Missing >= row.used

FillsCount ==
  \A r \in Requests :
    pc[r] = "loaded" /\ ~overtaken[r]
      => view[r] \in Row /\ view[r].used + Missing >= row.used

FillsAreCurrent ==
  \A r \in Requests :
    pc[r] = "loaded" /\ ~overtaken[r] => view[r] = row \/ WriteOpen

UsageInv == UnitsAreRecorded /\ PatchIsOlder
CountInv == EntryCounts /\ FillsCount
CurrentInv == EntryIsCurrent /\ FillsAreCurrent
IInv == TypeOK /\ UsageInv /\ CountInv /\ CurrentInv

--------------------------------------------------------------------------------
(* The operators. *)

LEMMA RowPlusType ==
  ASSUME TypeOK, UsageInv, flusher = "idle", NEW n \in 1..overlay
  PROVE  /\ RowPlus(n) \in Row
         /\ RowPlus(n).status = row.status
         /\ RowPlus(n).used <= row.used + n
         /\ RowPlus(n).used >= row.used
         /\ row.status = "deleted" => RowPlus(n) = row
<1>1. row.used \in 0..MaxUsed /\ recorded \in 0..MaxUsed
      /\ overlay \in Nat /\ batch \in Nat /\ MaxUsed \in Nat /\ n \in Nat
  BY KeyAssumption DEF TypeOK, Row
<1>2. row.used + n <= MaxUsed
  BY <1>1 DEF UsageInv, UnitsAreRecorded
<1>3. row.used + n \in 0..MaxUsed
  BY <1>1, <1>2
<1>4. CASE row.status = "deleted"
  BY <1>4, <1>1 DEF RowPlus, TypeOK
<1>5. CASE row.status # "deleted"
  <2>1. RowPlus(n) = [row EXCEPT !.used = row.used + n]
    BY <1>5 DEF RowPlus
  <2>2. row \in Row
    BY DEF TypeOK
  <2>3. RowPlus(n) \in Row /\ RowPlus(n).status = row.status
        /\ RowPlus(n).used = row.used + n
    BY <2>1, <2>2, <1>3 DEF Row
  <2> QED
    BY <2>3, <1>1, <1>5
<1> QED
  BY <1>4, <1>5

LEMMA CacheTypes ==
  ASSUME TypeOK
  PROVE  /\ \A now : Unreached(now) =>
              /\ entry' = entry /\ behind' \in BOOLEAN
              /\ overtaken' \in [Requests -> BOOLEAN]
         /\ Invalidate =>
              /\ entry' \in {entry, NoEntry} /\ behind' \in BOOLEAN
              /\ overtaken' \in [Requests -> BOOLEAN]
<1>1. ASSUME NEW now
      PROVE  [r \in Requests |-> overtaken[r] \/ HoldsOldRow(r, now)]
               \in [Requests -> BOOLEAN]
  BY DEF TypeOK, HoldsOldRow
<1>2. ASSUME NEW now, Unreached(now)
      PROVE  /\ entry' = entry /\ behind' \in BOOLEAN
             /\ overtaken' \in [Requests -> BOOLEAN]
  BY <1>1, <1>2 DEF Unreached
<1>3. ASSUME Invalidate
      PROVE  /\ entry' \in {entry, NoEntry} /\ behind' \in BOOLEAN
             /\ overtaken' \in [Requests -> BOOLEAN]
  <2>1. CASE Deleted
    BY <2>1, <1>1 DEF Deleted
  <2>2. CASE Unreached(row)
    BY <2>2, <1>2
  <2>3. CASE /\ overtaken' = [r \in Requests |-> overtaken[r] \/ HoldsOldRow(r, row)]
             /\ UNCHANGED <<entry, behind>>
    BY <2>3, <1>1 DEF TypeOK
  <2> QED
    BY <1>3, <2>1, <2>2, <2>3 DEF Invalidate
<1> QED
  BY <1>2, <1>3

LEMMA MoveType ==
  ASSUME TypeOK, NEW r \in Requests,
         NEW to \in {"idle", "miss", "loaded", "keyed", "serving"},
         NEW held \in Row \cup {NoEntry}, Move(r, to, held)
  PROVE  /\ pc' \in [Requests -> {"idle", "miss", "loaded", "keyed", "serving"}]
         /\ view' \in [Requests -> Row \cup {NoEntry}]
BY DEF TypeOK, Move

--------------------------------------------------------------------------------
(* TypeOK: the totals stay below the units recorded. *)

LEMMA RequestTypes ==
  ASSUME TypeOK, UsageInv, NEW r \in Requests, RequestStep(r)
  PROVE  TypeOK'
<1> USE DEF cacheVars, flusherVars, adminVars
<1>1. CASE Lookup(r)
  BY <1>1, MoveType DEF Lookup, TypeOK
<1>2. CASE Load(r)
  <2>1. row \in Row \cup {NoEntry}
    BY DEF TypeOK
  <2>2. /\ pc' \in [Requests -> {"idle", "miss", "loaded", "keyed", "serving"}]
        /\ view' \in [Requests -> Row \cup {NoEntry}]
    BY <1>2, <2>1, MoveType DEF Load
  <2> QED
    BY <1>2, <2>2 DEF Load, TypeOK
<1>3. CASE Store(r)
  <2>1. view[r] \in Row \cup {NoEntry} /\ overtaken[r] \in BOOLEAN
    BY DEF TypeOK
  <2>2. /\ pc' \in [Requests -> {"idle", "miss", "loaded", "keyed", "serving"}]
        /\ view' \in [Requests -> Row \cup {NoEntry}]
    BY <1>3, <2>1, MoveType DEF Store
  <2>3. entry' \in Row \cup {NoEntry} /\ behind' \in BOOLEAN
    BY <1>3, <2>1 DEF Store, TypeOK
  <2> QED
    BY <1>3, <2>2, <2>3 DEF Store, TypeOK
<1>4. CASE Admit(r)
  <2>1. (IF Allowed(view[r]) THEN "serving" ELSE "idle") \in {"serving", "idle"}
    OBVIOUS
  <2>2. /\ pc' \in [Requests -> {"idle", "miss", "loaded", "keyed", "serving"}]
        /\ view' \in [Requests -> Row \cup {NoEntry}]
    BY <1>4, <2>1, MoveType DEF Admit
  <2> QED
    BY <1>4, <2>2 DEF Admit, TypeOK
<1>5. CASE Finish(r)
  <2>1. /\ pc' \in [Requests -> {"idle", "miss", "loaded", "keyed", "serving"}]
        /\ view' \in [Requests -> Row \cup {NoEntry}]
    BY <1>5, MoveType DEF Finish
  <2>2. recorded' \in 0..MaxUsed /\ overlay' \in Nat
    BY <1>5, KeyAssumption DEF Finish, TypeOK
  <2> QED
    BY <1>5, <2>1, <2>2 DEF Finish, TypeOK
<1> QED
  BY <1>1, <1>2, <1>3, <1>4, <1>5 DEF RequestStep

LEMMA WriterTypes ==
  ASSUME TypeOK, UsageInv, FlusherStep \/ AdminStep \/ Expire
  PROVE  TypeOK'
<1> USE DEF cacheVars, requestVars, flusherVars, adminVars
<1>1. CASE Apply
  <2>1. PICK n \in 1..overlay :
          /\ batch' = n /\ row' = RowPlus(n)
          /\ flusher' \in {"committed", "retry"}
          /\ UNCHANGED <<entry, behind, overtaken>> \/ Unreached(row')
    BY <1>1 DEF Apply
  <2>2. row' \in Row /\ batch' \in Nat
    BY <1>1, <2>1, RowPlusType DEF Apply, TypeOK
  <2>3. /\ entry' \in Row \cup {NoEntry} /\ behind' \in BOOLEAN
        /\ overtaken' \in [Requests -> BOOLEAN]
    BY <2>1, CacheTypes DEF TypeOK
  <2> QED
    BY <1>1, <2>1, <2>2, <2>3 DEF Apply, TypeOK
<1>2. CASE ApplyInvalidates
  BY <1>2, CacheTypes DEF ApplyInvalidates, TypeOK
<1>3. CASE ApplyAgain
  BY <1>3 DEF ApplyAgain, TypeOK
<1>4. CASE Settle
  BY <1>4 DEF Settle, TypeOK, UsageInv, UnitsAreRecorded
<1>5. CASE PatchRead
  BY <1>5 DEF PatchRead, TypeOK, Row
<1>6. CASE PatchWrite
  <2>1. \A s \in {"active", "disabled"} :
          /\ [status |-> s, used |-> readUsed] \in Row
          /\ [row EXCEPT !.status = s] \in Row
    BY DEF TypeOK, Row
  <2>2. row' \in Row /\ admin' \in {"idle", "written"}
    BY <1>6, <2>1 DEF PatchWrite
  <2>3. /\ entry' \in Row \cup {NoEntry} /\ behind' \in BOOLEAN
        /\ overtaken' \in [Requests -> BOOLEAN]
    BY <1>6, CacheTypes DEF PatchWrite, TypeOK
  <2>4. readUsed' \in 0..MaxUsed
    BY <1>6, KeyAssumption DEF PatchWrite
  <2> QED
    BY <1>6, <2>2, <2>3, <2>4 DEF PatchWrite, TypeOK
<1>7. CASE DeleteRow
  <2>1. [status |-> "deleted", used |-> 0] \in Row
    BY KeyAssumption DEF Row
  <2> QED
    BY <1>7, <2>1 DEF DeleteRow, TypeOK
<1>8. CASE AdminInvalidates
  BY <1>8, CacheTypes DEF AdminInvalidates, TypeOK
<1>9. CASE Expire
  BY <1>9 DEF Expire, TypeOK
<1> QED
  BY <1>1, <1>2, <1>3, <1>4, <1>5, <1>6, <1>7, <1>8, <1>9 DEF FlusherStep, AdminStep

--------------------------------------------------------------------------------
(* The totals. *)

LEMMA UsageStep ==
  ASSUME TypeOK, UsageInv, [Next]_vars
  PROVE  UsageInv'
<1> USE DEF UsageInv, UnitsAreRecorded, PatchIsOlder
<1>0. /\ row.used \in Nat /\ recorded \in Nat /\ overlay \in Nat /\ batch \in Nat
      /\ readUsed \in Nat /\ row \in Row
  BY KeyAssumption DEF TypeOK, Row
<1>1. CASE Apply
  <2>1. PICK n \in 1..overlay :
          batch' = n /\ row' = RowPlus(n) /\ flusher' \in {"committed", "retry"}
    BY <1>1 DEF Apply
  <2>2. /\ row'.status = row.status /\ row'.used <= row.used + n
        /\ row'.used >= row.used /\ row'.used \in Nat
        /\ row.status = "deleted" => row' = row
    BY <1>1, <2>1, RowPlusType, KeyAssumption DEF Apply, Row
  <2>3. flusher = "idle" /\ UNCHANGED <<overlay, recorded, admin, readUsed>>
    BY <1>1 DEF Apply, adminVars
  <2> QED
    BY <1>0, <2>1, <2>2, <2>3
<1>2. CASE ApplyInvalidates \/ ApplyAgain
  BY <1>2, <1>0 DEF ApplyInvalidates, ApplyAgain, adminVars
<1>3. CASE Settle
  BY <1>3, <1>0 DEF Settle, adminVars
<1>4. CASE PatchRead
  BY <1>4, <1>0 DEF PatchRead, flusherVars
<1>5. CASE PatchWrite
  <2>1. PICK s \in {"active", "disabled"} :
          \/ row' = [status |-> s, used |-> readUsed]
          \/ row' = [row EXCEPT !.status = s]
    BY <1>5 DEF PatchWrite
  <2>2. row'.status # "deleted" /\ row'.used \in {readUsed, row.used}
    BY <2>1, <1>0 DEF Row
  <2>3. /\ admin = "read" /\ admin' # "read"
        /\ UNCHANGED <<overlay, recorded, flusher, batch>>
    BY <1>5 DEF PatchWrite, flusherVars
  <2> QED
    BY <1>0, <2>2, <2>3
<1>6. CASE DeleteRow
  BY <1>6, <1>0 DEF DeleteRow, flusherVars
<1>7. CASE AdminInvalidates
  BY <1>7, <1>0 DEF AdminInvalidates, flusherVars
<1>8. CASE Expire
  BY <1>8, <1>0 DEF Expire, flusherVars, adminVars
<1>9. ASSUME NEW r \in Requests, Lookup(r) \/ Load(r) \/ Store(r) \/ Admit(r)
      PROVE  UsageInv'
  BY <1>9, <1>0 DEF Lookup, Load, Store, Admit, flusherVars, adminVars
<1>10. ASSUME NEW r \in Requests, Finish(r)
       PROVE  UsageInv'
  BY <1>10, <1>0 DEF Finish, flusherVars, adminVars
<1>11. CASE UNCHANGED vars
  BY <1>11 DEF vars, flusherVars, adminVars
<1> QED
  BY <1>1, <1>2, <1>3, <1>4, <1>5, <1>6, <1>7, <1>8, <1>9, <1>10, <1>11
  DEF Next, FlusherStep, AdminStep, RequestStep

--------------------------------------------------------------------------------
(* The cache: what a write, an invalidation and a request do to it.          *)

LEMMA UnreachedEffect ==
  ASSUME TypeOK, NEW now, Unreached(now)
  PROVE  /\ entry' = NoEntry \/ behind'
         /\ \A r \in Requests :
              pc[r] = "loaded" /\ ~overtaken'[r] => ~overtaken[r] /\ view[r] = now
BY DEF Unreached, HoldsOldRow, TypeOK

LEMMA InvalidateEffect ==
  ASSUME TypeOK, Invalidate
  PROVE  /\ \/ entry' = NoEntry \/ behind'
            \/ row.status = "deleted" /\ UNCHANGED <<entry, behind>>
         /\ \A r \in Requests :
              pc[r] = "loaded" /\ ~overtaken'[r] => ~overtaken[r] /\ view[r] = row
<1>1. CASE Deleted
  BY <1>1 DEF Deleted, HoldsOldRow
<1>2. CASE Unreached(row)
  BY <1>2, UnreachedEffect
<1>3. CASE /\ row.status = "deleted"
           /\ overtaken' = [r \in Requests |-> overtaken[r] \/ HoldsOldRow(r, row)]
           /\ UNCHANGED <<entry, behind>>
  BY <1>3 DEF HoldsOldRow
<1> QED
  BY <1>1, <1>2, <1>3 DEF Invalidate

(* A request leaves the fills of the others alone; its own is of the row as it
   is; what it puts in the cache is its fill. *)
LEMMA RequestEffect ==
  ASSUME TypeOK, NEW r \in Requests, RequestStep(r)
  PROVE  /\ UNCHANGED <<row, flusher, batch, admin>>
         /\ \/ UNCHANGED <<entry, behind>>
            \/ pc[r] = "loaded" /\ entry' = view[r] /\ behind' = overtaken[r]
         /\ \A q \in Requests :
              pc'[q] = "loaded" =>
                \/ pc[q] = "loaded" /\ view'[q] = view[q] /\ overtaken'[q] = overtaken[q]
                \/ view'[q] = row
<1> USE DEF TypeOK, Move, flusherVars, adminVars, cacheVars
<1>1. CASE Lookup(r)
  BY <1>1 DEF Lookup
<1>2. CASE Load(r)
  BY <1>2 DEF Load
<1>3. CASE Store(r)
  BY <1>3 DEF Store
<1>4. CASE Admit(r)
  BY <1>4 DEF Admit
<1>5. CASE Finish(r)
  BY <1>5 DEF Finish
<1> QED
  BY <1>1, <1>2, <1>3, <1>4, <1>5 DEF RequestStep

--------------------------------------------------------------------------------
(* Entries hold every settled unit.                                          *)

LEMMA CountStep ==
  ASSUME TypeOK, UsageInv, CountInv, [Next]_vars
  PROVE  CountInv'
<1> USE DEF CountInv, EntryCounts, FillsCount, Missing
<1>0. /\ row \in Row /\ row.used \in Nat /\ batch \in Nat /\ overlay \in Nat
      /\ readUsed \in Nat
      /\ entry # NoEntry => entry \in Row /\ entry.used \in Nat
      /\ \A r \in Requests : view[r] \in Row => view[r].used \in Nat
  BY KeyAssumption DEF TypeOK, Row
<1>1. CASE Apply
  <2>0. /\ UNCHANGED <<pc, view>> /\ flusher = "idle" /\ batch = 0
    BY <1>1 DEF Apply, requestVars, UsageInv, UnitsAreRecorded
  <2>1. PICK n \in 1..overlay :
          /\ batch' = n /\ row' = RowPlus(n)
          /\ \/ flusher' = "committed" /\ UNCHANGED <<entry, behind, overtaken>>
             \/ flusher' = "retry" /\ Unreached(row')
    BY <1>1 DEF Apply, cacheVars
  <2>2. row'.used <= row.used + n /\ row' \in Row /\ row'.used \in Nat /\ n \in Nat
    BY <1>0, <2>0, <2>1, RowPlusType, KeyAssumption DEF Row
  <2>3. CASE flusher' = "committed" /\ UNCHANGED <<entry, behind, overtaken>>
    BY <1>0, <2>0, <2>1, <2>2, <2>3
  <2>4. CASE flusher' = "retry" /\ Unreached(row')
    <3>1. EntryCounts'
      BY <2>4, UnreachedEffect
    <3>2. FillsCount'
      BY <2>0, <2>1, <2>2, <2>4, UnreachedEffect
    <3> QED
      BY <3>1, <3>2
  <2> QED
    BY <2>1, <2>3, <2>4
<1>2. CASE ApplyInvalidates
  <2>1. /\ UNCHANGED <<row, pc, view, batch>> /\ flusher' = "settle" /\ Invalidate
    BY <1>2 DEF ApplyInvalidates, requestVars
  <2>2. EntryCounts'
    BY <2>1, <1>0, InvalidateEffect DEF UsageInv, PatchIsOlder
  <2>3. FillsCount'
    BY <2>1, <1>0, InvalidateEffect
  <2> QED
    BY <2>2, <2>3
<1>3. CASE ApplyAgain
  BY <1>3 DEF ApplyAgain, cacheVars, requestVars
<1>4. CASE Settle
  BY <1>4 DEF Settle, cacheVars, requestVars
<1>5. CASE PatchRead
  BY <1>5 DEF PatchRead, cacheVars, requestVars, flusherVars
<1>6. CASE PatchWrite
  <2>0. UNCHANGED <<pc, view, flusher, batch>> /\ admin = "read"
    BY <1>6 DEF PatchWrite, requestVars, flusherVars
  <2>1. readUsed <= row.used
    BY <2>0 DEF UsageInv, PatchIsOlder
  <2>2. PICK t \in {"active", "disabled"} :
          \/ /\ row' = [status |-> t, used |-> readUsed]
             /\ UNCHANGED <<entry, behind, overtaken>>
          \/ row' = [row EXCEPT !.status = t] /\ Unreached(row')
    BY <1>6 DEF PatchWrite, cacheVars
  <2>3. CASE /\ row' = [status |-> t, used |-> readUsed]
             /\ UNCHANGED <<entry, behind, overtaken>>
    BY <1>0, <2>0, <2>1, <2>3
  <2>4. CASE row' = [row EXCEPT !.status = t] /\ Unreached(row')
    <3>1. row' \in Row /\ row'.used = row.used
      BY <2>4, <1>0 DEF Row
    <3>2. EntryCounts'
      BY <2>4, UnreachedEffect
    <3>3. FillsCount'
      BY <1>0, <2>0, <2>4, <3>1, UnreachedEffect
    <3> QED
      BY <3>2, <3>3
  <2> QED
    BY <2>2, <2>3, <2>4
<1>7. CASE DeleteRow
  <2>1. row'.used = 0
    BY <1>7 DEF DeleteRow
  <2> QED
    BY <1>7, <1>0, <2>1 DEF DeleteRow, cacheVars, requestVars, flusherVars
<1>8. CASE AdminInvalidates
  <2>1. UNCHANGED <<row, pc, view, flusher, batch>> /\ Invalidate
    BY <1>8 DEF AdminInvalidates, requestVars, flusherVars
  <2>2. EntryCounts'
    BY <2>1, <1>0, InvalidateEffect
  <2>3. FillsCount'
    BY <2>1, <1>0, InvalidateEffect
  <2> QED
    BY <2>2, <2>3
<1>9. CASE Expire
  BY <1>9 DEF Expire, requestVars, flusherVars
<1>10. ASSUME NEW r \in Requests, RequestStep(r)
       PROVE  CountInv'
  <2>1. EntryCounts'
    BY <1>10, <1>0, RequestEffect DEF TypeOK
  <2>2. FillsCount'
    BY <1>10, <1>0, RequestEffect
  <2> QED
    BY <2>1, <2>2
<1>11. CASE UNCHANGED vars
  BY <1>11 DEF vars, cacheVars, requestVars, flusherVars
<1> QED
  BY <1>1, <1>2, <1>3, <1>4, <1>5, <1>6, <1>7, <1>8, <1>9, <1>10, <1>11
  DEF Next, FlusherStep, AdminStep

--------------------------------------------------------------------------------
(* Entries are of the row as it is, but for a write under way.               *)

LEMMA CurrentStep ==
  ASSUME TypeOK, UsageInv, CurrentInv, [Next]_vars
  PROVE  CurrentInv'
<1> USE DEF CurrentInv, EntryIsCurrent, FillsAreCurrent, WriteOpen
<1>1. CASE Apply
  <2>0. UNCHANGED <<pc, view, admin>> /\ flusher = "idle"
    BY <1>1 DEF Apply, requestVars, adminVars
  <2>1. \/ flusher' = "committed" /\ UNCHANGED <<entry, behind, overtaken>>
        \/ flusher' = "retry" /\ Unreached(row')
    BY <1>1 DEF Apply, cacheVars
  <2>2. CASE flusher' = "committed"
    BY <2>2
  <2>3. CASE Unreached(row')
    <3>1. EntryIsCurrent'
      BY <2>3, UnreachedEffect
    <3>2. FillsAreCurrent'
      BY <2>0, <2>3, UnreachedEffect
    <3> QED
      BY <3>1, <3>2
  <2> QED
    BY <2>1, <2>2, <2>3
<1>2. CASE ApplyInvalidates \/ AdminInvalidates
  <2>1. UNCHANGED <<row, pc, view>> /\ Invalidate
    BY <1>2 DEF ApplyInvalidates, AdminInvalidates, requestVars
  <2>2. EntryIsCurrent'
    BY <2>1, InvalidateEffect
  <2>3. FillsAreCurrent'
    BY <2>1, InvalidateEffect
  <2> QED
    BY <2>2, <2>3
<1>3. CASE ApplyAgain \/ Settle \/ PatchRead
  BY <1>3 DEF ApplyAgain, Settle, PatchRead, cacheVars, requestVars, adminVars,
              flusherVars
<1>4. CASE PatchWrite
  <2>0. UNCHANGED <<pc, view, flusher>>
    BY <1>4 DEF PatchWrite, requestVars, flusherVars
  <2>1. admin' = "written" \/ Unreached(row')
    BY <1>4 DEF PatchWrite
  <2>2. CASE admin' = "written"
    BY <2>2
  <2>3. CASE Unreached(row')
    <3>1. EntryIsCurrent'
      BY <2>3, UnreachedEffect
    <3>2. FillsAreCurrent'
      BY <2>0, <2>3, UnreachedEffect
    <3> QED
      BY <3>1, <3>2
  <2> QED
    BY <2>1, <2>2, <2>3
<1>5. CASE DeleteRow
  BY <1>5 DEF DeleteRow
<1>6. CASE Expire
  BY <1>6 DEF Expire, requestVars, flusherVars, adminVars
<1>7. ASSUME NEW r \in Requests, RequestStep(r)
      PROVE  CurrentInv'
  <2>1. EntryIsCurrent'
    BY <1>7, RequestEffect DEF TypeOK
  <2>2. FillsAreCurrent'
    BY <1>7, RequestEffect
  <2> QED
    BY <2>1, <2>2
<1>8. CASE UNCHANGED vars
  BY <1>8 DEF vars, cacheVars, requestVars, flusherVars, adminVars
<1> QED
  BY <1>1, <1>2, <1>3, <1>4, <1>5, <1>6, <1>7, <1>8 DEF Next, FlusherStep, AdminStep

--------------------------------------------------------------------------------
(* The theorems. *)

LEMMA Invariant == Spec => []IInv
<1>1. ASSUME Init
      PROVE  IInv
  <2>1. TypeOK
    <3>1. 0 \in 0..MaxUsed
      BY KeyAssumption
    <3>2. row \in Row
      BY <1>1, <3>1 DEF Init, Row
    <3> QED
      BY <1>1, <3>1, <3>2 DEF Init, TypeOK
  <2>2. UsageInv
    BY <1>1 DEF Init, UsageInv, UnitsAreRecorded, PatchIsOlder
  <2>3. CountInv /\ CurrentInv
    BY <1>1 DEF Init, CountInv, EntryCounts, FillsCount, CurrentInv,
                EntryIsCurrent, FillsAreCurrent
  <2> QED
    BY <2>1, <2>2, <2>3 DEF IInv
<1>2. IInv /\ [Next]_vars => IInv'
  <2> SUFFICES ASSUME IInv, [Next]_vars
               PROVE  IInv'
    OBVIOUS
  <2>0. TypeOK /\ UsageInv /\ CountInv /\ CurrentInv
    BY DEF IInv
  <2>1. TypeOK'
    <3>1. CASE UNCHANGED vars
      BY <2>0, <3>1 DEF TypeOK, vars, cacheVars, requestVars, flusherVars, adminVars
    <3> QED
      BY <2>0, <3>1, RequestTypes, WriterTypes DEF Next
  <2> QED
    BY <2>0, <2>1, UsageStep, CountStep, CurrentStep DEF IInv
<1> QED
  BY <1>1, <1>2, PTL DEF Spec

(* Every variable keeps its type: whatever is lost, applied again or written
   back, the totals of the key stay within the units recorded (keys.rs, usage.rs). *)
THEOREM TypeCorrect == Spec => []TypeOK
<1>1. IInv => TypeOK
  BY DEF IInv
<1> QED
  BY <1>1, Invariant, PTL

(* The overlay gives up a batch only when no entry an invalidation reached lacks
   it (apply_usage_rollup_batches, PendingUsageRollups::subtract_batch). *)
THEOREM CachedCounts == Spec => []CachedUsageCounts
<1>1. IInv => CachedUsageCounts
  <2> SUFFICES ASSUME IInv, entry # NoEntry, ~behind
               PROVE  entry.used + batch >= row.used
    BY DEF CachedUsageCounts, Unsettled
  <2>1. batch \in Nat /\ row.used \in Nat /\ entry.used \in Nat
    BY KeyAssumption DEF IInv, TypeOK, Row
  <2> QED
    BY <2>1 DEF IInv, CountInv, EntryCounts, Missing
<1> QED
  BY <1>1, Invariant, PTL

(* No write path of an existing key forgets the cache, and no fill outruns an
   invalidation unnoticed (load_authenticated_key_cached, cache.rs). *)
THEOREM EntriesCurrent == Spec => []EntryIsCurrent
<1>1. IInv => EntryIsCurrent
  BY DEF IInv, CurrentInv
<1> QED
  BY <1>1, Invariant, PTL
================================================================================
