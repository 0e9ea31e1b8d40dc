----------------------------- MODULE RollupBacklog -----------------------------
(***************************************************************************)
(* The disk backlog of control rollups: the journal files below            *)
(* control-rollups/{active,sealed,consuming,bad}, the writer of the active *)
(* file, and the moves of a file between the directories.                  *)
(*                                                                         *)
(* Operators with a primed variable are steps of the flusher task or of    *)
(* startup (module UsageAccounting); each one stands for the whole call    *)
(* and for every way the call can fail on disk.                            *)
(***************************************************************************)
EXTENDS RollupBatches, Naturals

CONSTANT
  MaxSequence   (* bound on file sequence numbers                           *)

ASSUME MaxSequenceAssumption == MaxSequence \in Nat \ {0}

VARIABLES
  files,        (* the journal files on disk                                *)
  writer        (* "open", or "none" once sealing or reopening has failed   *)

backlogVars == <<files, writer>>

Dirs == {"active", "sealed", "consuming", "bad"}

(* "torn": a record was cut short at the end of the file; "corrupt": a block
   follows a torn one, and no reader gets past that point. *)
Bodies == {"whole", "torn", "corrupt"}

(* "batches" are those of the valid prefix of the file. *)
File == [seq : 1..MaxSequence, dir : Dirs, batches : SUBSET BatchIds,
         body : Bodies]

BacklogTypeOK ==
  /\ files \in SUBSET File
  /\ writer \in {"open", "none"}

--------------------------------------------------------------------------------
InDir(d) == {f \in files : f.dir = d}

Readable(f) == f.body = "whole"

BatchesIn(S) == UNION {f.batches : f \in S}

(* Files whose batches this or a later process can still replay.             *)
Replayable ==
  {f \in files : f.dir # "bad" /\ (f.dir = "active" \/ Readable(f))}

IsOldest(f, S) == f \in S /\ \A g \in S : f.seq <= g.seq

(* Mutant: only the active directory is scanned.                             *)
IsNextSequenceAmongActive(n, S) ==
  LET A == {f \in S : f.dir = "active"}
  IN  /\ \A f \in A : f.seq < n
      /\ n = 1 \/ \E f \in A : f.seq = n - 1

(* next_rollup_sequence: one above every file of the four directories.       *)
IsNextSequence(n, S) ==
  /\ \A f \in S : f.seq < n
  /\ n = 1 \/ \E f \in S : f.seq = n - 1

ActiveFile(n) ==
  [seq |-> n, dir |-> "active", batches |-> {}, body |-> "whole"]

MovedTo(f, d) == [f EXCEPT !.dir = d]

Replaced(f, g) == (files \ {f}) \cup {g}

Move(f, d) == files' = Replaced(f, MovedTo(f, d))

(* The active file after one more complete block.  A block that follows a torn
   one is lost with it. *)
WithBlock(f, b) ==
  IF f.body = "whole" THEN [f EXCEPT !.batches = @ \cup {b}]
                      ELSE [f EXCEPT !.body = "corrupt"]

(* The active file after a part of a block.                                  *)
WithTornTail(f) ==
  IF f.body = "whole" THEN [f EXCEPT !.body = "torn"]
                      ELSE [f EXCEPT !.body = "corrupt"]

(* RollupJournalWriter::open on the given files.                             *)
OpenWriter(S) ==
  /\ \E n \in 1..MaxSequence :
       IsNextSequence(n, S) /\ files' = S \cup {ActiveFile(n)}
  /\ writer' = "open"

BacklogInit ==
  /\ files = {ActiveFile(1)}
  /\ writer = "open"

--------------------------------------------------------------------------------
(* append_batches: write one block, seal the file, open the next one.        *)

(* Everything works.                                                         *)
AppendSeals(b) ==
  /\ writer = "open"
  /\ \E f \in InDir("active") :
       OpenWriter(Replaced(f, MovedTo(WithBlock(f, b), "sealed")))

(* The writer was lost by an earlier failure: nothing is written.            *)
AppendRefused ==
  /\ writer = "none"
  /\ UNCHANGED backlogVars

(* What is on disk when the append stops half way: a part of the block, the
   block in a file that is not sealed, or the sealed file and no next one.   *)
CutShort == {Replaced(f, WithTornTail(f)) : f \in InDir("active")}
NotSealed(b) == {Replaced(f, WithBlock(f, b)) : f \in InDir("active")}
NotReopened(b) ==
  {Replaced(f, MovedTo(WithBlock(f, b), "sealed")) : f \in InDir("active")}

(* The block write fails: the batch has left the writer's memory, and the
   writer stays open. *)
AppendCutShort ==
  /\ "write" \in Faults
  /\ writer = "open"
  /\ files' \in CutShort \cup {files}
  /\ UNCHANGED writer

(* The per-block sync fails (the writer stays), or the footer, the sync or the
   rename of sealing fails (the writer is gone). *)
AppendNotSealed(b) ==
  /\ "seal" \in Faults
  /\ writer = "open"
  /\ files' \in NotSealed(b)
  /\ writer' \in {"open", "none"}

(* The next active file cannot be created.                                   *)
AppendNotReopened(b) ==
  /\ "seal" \in Faults
  /\ writer = "open"
  /\ files' \in NotReopened(b)
  /\ writer' = "none"

AppendBatches(b) ==
  \/ AppendSeals(b)
  \/ AppendRefused
  \/ AppendCutShort
  \/ AppendNotSealed(b)
  \/ AppendNotReopened(b)

(* The process dies inside append_batches.                                   *)
AppendInterrupted(b) ==
  /\ writer = "open"
  /\ files' \in CutShort \cup NotSealed(b) \cup NotReopened(b)

--------------------------------------------------------------------------------
(* The life of a claim.  Every rename or removal may fail and then leaves the
   file where it is. *)
ClaimFault == "claim" \in Faults

ClaimFile(f) == IsOldest(f, InDir("sealed")) /\ Move(f, "consuming")

CompleteClaim(f) ==
  \/ files' = files \ {f}
  \/ ClaimFault /\ UNCHANGED files

(* Mutant: a failed claim stays where it is.                                 *)
RestoreClaimNever(f) ==
  UNCHANGED files

RestoreClaim(f) ==
  \/ /\ ~ \E g \in InDir("sealed") : g.seq = f.seq
     /\ Move(f, "sealed")
  \/ /\ ClaimFault \/ \E g \in InDir("sealed") : g.seq = f.seq
     /\ UNCHANGED files

QuarantineClaim(f) == Move(f, "bad")

--------------------------------------------------------------------------------
(* Startup. *)

(* recover_orphan_active_rollup_files, one file: cut it back to its valid
   prefix and seal it, delete it if no batch is left, quarantine it if the scan
   fails (which depends on the bytes behind the torn block). *)
RecoverActiveFile(f) ==
  \/ /\ f.batches = {}
     /\ files' = files \ {f}
  \/ /\ f.batches # {}
     /\ IF \E g \in InDir("sealed") : g.seq = f.seq
        THEN Move(f, "bad")
        ELSE files' = Replaced(f, [f EXCEPT !.dir = "sealed", !.body = "whole"])
  \/ /\ f.body = "corrupt"
     /\ Move(f, "bad")

(* Mutant: abandoned claims are taken for applied ones.                      *)
RestoreConsumingFileByDeleting(f) ==
  files' = files \ {f}

(* restore_consuming_files, one file.                                        *)
RestoreConsumingFile(f) ==
  IF \E g \in InDir("sealed") : g.seq = f.seq THEN Move(f, "bad")
                                              ELSE Move(f, "sealed")
================================================================================
