------------------------------ MODULE JournalWorker ------------------------------
(***************************************************************************)
(* The usage worker's side of the journal on a primary node: claim the     *)
(* oldest sealed file, import it block by block into the analytics store,  *)
(* record it as consumed and delete it.  The worker is a process of its    *)
(* own; its import loop is one thread, which ends at the first error while *)
(* the process goes on serving queries.                                    *)
(***************************************************************************)
EXTENDS JournalFiles

CONSTANT MaxRollovers   (* bound: segments the analytics store archives      *)

ASSUME MaxRolloversAssumption == MaxRollovers \in Nat

VARIABLES
  wk,         (* where the import loop is                                    *)
  candidates, (* paths claim_oldest_sealed_file has listed                   *)
  claim,      (* path of the claimed file, if any                            *)
  position,   (* blocks of the claimed file that were read                   *)
  segment,    (* blocks in the active segment of the analytics store         *)
  archived,   (* how often each block is in an archived segment              *)
  rollovers   (* segments archived                                           *)

storeVars == <<segment, archived, rollovers>>
workerVars == <<wk, candidates, claim, position, storeVars>>

(* "stopped": the import loop has returned an error; "down": no process.     *)
WorkerStates == {"down", "stopped", "recover", "list", "claim",
                 "import", "record", "remove"}

Paths == [seq : Nat, ext : {"open", "journal", "recovering"}]

WorkerTypeOK ==
  /\ wk \in WorkerStates
  /\ candidates \subseteq Paths
  /\ claim \in SUBSET Paths
  /\ position \in Nat
  /\ segment \subseteq Blocks
  /\ archived \in [Blocks -> Nat]
  /\ rollovers \in 0..MaxRollovers

WorkerInit ==
  /\ wk = "down"
  /\ candidates = {} /\ claim = {} /\ position = 0
  /\ segment = {}
  /\ archived = [b \in Blocks |-> 0]
  /\ rollovers = 0

At(d, P) == {f \in InDir(d) : [seq |-> f.seq, ext |-> f.ext] \in P}

Claimed == At("consuming", claim)

Forget == candidates' = {} /\ claim' = {} /\ position' = 0

(* run_import_forever_with_runtime_config returns: the claimed file stays in
   consuming/. *)
LoopEnds == wk' = "stopped" /\ Forget
--------------------------------------------------------------------------------
(* Mutant: stale claims stay where they are.                                 *)
RecoverNoStaleClaim ==
  /\ wk = "recover"
  /\ files' = {g \in files : ~(g.dir = "consuming" /\ g.seq \in consumed)}
  /\ wk' = "list"
  /\ UNCHANGED <<nextSeq, consumed, candidates, claim, position, storeVars>>

(* recover_orphan_consuming_files: delete what was imported, give back what was
   not written for a lease. *)
RecoverConsuming ==
  /\ wk = "recover"
  /\ files' = {IF f.dir = "consuming" /\ f.aged THEN MovedTo(f, "sealed") ELSE f :
                 f \in {g \in files : ~(g.dir = "consuming" /\ g.seq \in consumed)}}
  /\ wk' = "list"
  /\ UNCHANGED <<nextSeq, consumed, candidates, claim, position, storeVars>>

(* claim_oldest_sealed_file lists the directory ...                          *)
ListSealed ==
  /\ wk = "list"
  /\ candidates' = {[seq |-> f.seq, ext |-> f.ext] : f \in InDir("sealed")}
  /\ wk' = IF candidates' = {} THEN "recover" ELSE "claim"
  /\ UNCHANGED <<fileVars, claim, position, storeVars>>

OldestCandidate(p) == p \in candidates /\ \A q \in candidates : p.seq <= q.seq

(* ... deletes the ones a former run imported ...                            *)
DeleteConsumed ==
  /\ wk = "claim"
  /\ \E p \in candidates :
       /\ OldestCandidate(p)
       /\ p.seq \in consumed
       /\ IF At("sealed", {p}) # {}
          THEN /\ files' = files \ At("sealed", {p})
               /\ candidates' = candidates \ {p}
               /\ wk' = IF candidates' = {} THEN "recover" ELSE "claim"
               /\ UNCHANGED <<claim, position>>
          ELSE LoopEnds /\ UNCHANGED files
  /\ UNCHANGED <<nextSeq, consumed, storeVars>>

(* ... and renames the first other one, if it is still there.                *)
ClaimOldest ==
  /\ wk = "claim"
  /\ \E p \in candidates :
       /\ OldestCandidate(p)
       /\ p.seq \notin consumed
       /\ IF At("sealed", {p}) # {}
          THEN /\ \E f \in At("sealed", {p}) : Replaced(f, MovedTo(f, "consuming"))
               /\ claim' = {p}
               /\ candidates' = {} /\ position' = 0
               /\ wk' = "import"
          ELSE LoopEnds /\ UNCHANGED files
  /\ UNCHANGED <<nextSeq, consumed, storeVars>>

(* Mutant: rows are appended without looking for their event_id.             *)
InsertRowsAgain(b) ==
  IF b \in segment
  THEN archived' = [archived EXCEPT ![b] = @ + 1] /\ UNCHANGED <<segment, rollovers>>
  ELSE segment' = segment \cup {b} /\ UNCHANGED <<archived, rollovers>>

(* rollover_active_segment: the rows S are archived, the new active segment
   starts with the rows R. *)
Rollover(S, R) ==
  /\ "rollover" \in Faults
  /\ rollovers < MaxRollovers
  /\ rollovers' = rollovers + 1
  /\ archived' = [c \in Blocks |-> archived[c] + IF c \in S THEN 1 ELSE 0]
  /\ segment' = R

(* Insert the rows that the active segment does not hold (ON CONFLICT DO
   NOTHING); a segment that is large enough is closed before or after. *)
InsertRows(b) ==
  \/ segment' = segment \cup {b} /\ UNCHANGED <<archived, rollovers>>
  \/ segment # {} /\ Rollover(segment, {b})
  \/ Rollover(segment \cup {b}, {})

(* import_claimed_file, one block.                                           *)
ImportBlock ==
  /\ wk = "import"
  /\ \E f \in Claimed :
       /\ position < Len(f.blocks)
       /\ f.blocks[position + 1] # Torn
       /\ InsertRows(f.blocks[position + 1])
  /\ position' = position + 1
  /\ UNCHANGED <<fileVars, wk, candidates, claim>>

(* The attribution lookup or the insert fails; a failure of the detail pack
   comes after the commit of the rows. *)
ImportFails ==
  /\ "store" \in Faults
  /\ wk = "import"
  /\ \E f \in Claimed :
       /\ position < Len(f.blocks)
       /\ f.blocks[position + 1] # Torn
       /\ UNCHANGED storeVars \/ InsertRows(f.blocks[position + 1])
  /\ LoopEnds
  /\ UNCHANGED fileVars

(* Bytes that do not parse, or the end of the file without a footer.         *)
ReadFails ==
  /\ wk = "import"
  /\ \E f \in Claimed :
       \/ position = Len(f.blocks) /\ ~f.footer
       \/ position < Len(f.blocks) /\ f.blocks[position + 1] = Torn
  /\ LoopEnds
  /\ UNCHANGED <<fileVars, storeVars>>

(* Mutant: the end of the records is enough.                                 *)
FinishWithoutFooter ==
  /\ wk = "import"
  /\ \E f \in Claimed : position < Len(f.blocks) => f.blocks[position + 1] = Torn
  /\ wk' = "record"
  /\ UNCHANGED <<fileVars, candidates, claim, position, storeVars>>

FinishFile ==
  /\ wk = "import"
  /\ \E f \in Claimed : position = Len(f.blocks) /\ f.footer
  /\ wk' = "record"
  /\ UNCHANGED <<fileVars, candidates, claim, position, storeVars>>

RecordConsumed ==
  /\ wk = "record"
  /\ consumed' = consumed \cup {p.seq : p \in claim}
  /\ wk' = "remove"
  /\ UNCHANGED <<files, nextSeq, candidates, claim, position, storeVars>>

RemoveConsumed ==
  /\ wk = "remove"
  /\ files' = files \ Claimed
  /\ wk' = "recover"
  /\ Forget
  /\ UNCHANGED <<nextSeq, consumed, storeVars>>

(* The state database or the directory refuses.                              *)
BookkeepingFails ==
  /\ "store" \in Faults
  /\ wk \in {"record", "remove"}
  /\ LoopEnds
  /\ UNCHANGED <<fileVars, storeVars>>
--------------------------------------------------------------------------------
(* The process dies, or is started: by systemd when it is gone, by an operator
   when only its import loop is. *)

WorkerDies ==
  /\ "workerCrash" \in Faults
  /\ wk # "down"
  /\ wk' = "down"
  /\ Forget
  /\ UNCHANGED <<fileVars, storeVars>>

StartWorker ==
  /\ wk = "down"
  /\ wk' = "recover"
  /\ UNCHANGED <<fileVars, candidates, claim, position, storeVars>>

OperatorRestarts ==
  /\ "operator" \in Faults
  /\ wk = "stopped"
  /\ wk' = "recover"
  /\ UNCHANGED <<fileVars, candidates, claim, position, storeVars>>

(* The consumer lease runs out on a claimed file.                            *)
LeasePasses ==
  /\ \E f \in InDir("consuming") : ~f.aged /\ Replaced(f, [f EXCEPT !.aged = TRUE])
  /\ UNCHANGED <<nextSeq, consumed, workerVars>>

Importing ==
  RecoverConsuming \/ ListSealed \/ DeleteConsumed \/ ClaimOldest \/ ImportBlock
  \/ ReadFails \/ FinishFile \/ RecordConsumed \/ RemoveConsumed

WorkerNext ==
  Importing \/ ImportFails \/ BookkeepingFails \/ WorkerDies \/ StartWorker
  \/ OperatorRestarts \/ LeasePasses
================================================================================
