------------------------------- MODULE UsageSegments ------------------------------
(***************************************************************************)
(* The tiered DuckDB store of the usage worker: rows are appended to one   *)
(* active segment; a full one is renamed into pending/ and a sealer thread *)
(* archives and publishes it; a maintenance thread drops what is older     *)
(* than the retention.  A segment file is a record: the sequence of its    *)
(* active name, the id it gets when it leaves active/, and its rows.       *)
(***************************************************************************)
EXTENDS UsageCatalog

CONSTANTS
  Attempts,     (* the sealer's attempts per segment                         *)
  MaxSegments,  (* bound: segments that leave active/                        *)
  MaxSequence   (* bound: sequences of active segments                       *)

ASSUME BoundsAssumption ==
  Attempts \in Nat \ {0} /\ MaxSegments \in Nat /\ MaxSequence \in Nat \ {0}

VARIABLES
  up,        (* the worker process lives                                     *)
  active,    (* files in active/                                             *)
  pending,   (* files in active/pending/                                     *)
  archive,   (* files in the archive, without *.uploading.duckdb             *)
  nextId,    (* the id (time and sequence) of the next pending segment       *)
  tier,      (* TieredDuckDbUsageState: path, nextSeq, hasRows               *)
  gate,      (* who holds write_gate                                         *)
  app,       (* the append in progress: step, event, file of the writer      *)
  sealers,   (* segments whose sealer thread waits for the lock              *)
  sealer,    (* the sealer that holds the lock: id, step, failures           *)
  ret,       (* the maintenance thread: step and what it still deletes       *)
  expired,   (* events older than the retention                              *)
  acked,     (* events whose append returned Ok                              *)
  abandoned, (* pending segments this process does not archive               *)
  raced      (* published segments whose file orphan pruning deleted          *)

fileVars == <<active, pending, archive, nextId>>
historyVars == <<acked, abandoned, raced>>
vars == <<catalogVars, lookup, up, fileVars, tier, gate, app, sealers, sealer,
          ret, expired, historyVars>>

AppendSteps == {"idle", "init", "insert", "full"}
SealerSteps == {"idle", "look", "collect", "commit", "bump", "unlink"}
RetentionSteps ==
  {"idle", "init", "catalog", "bump", "files", "paths", "list", "unlink"}

TypeOK ==
  /\ CatalogTypeOK
  /\ up \in BOOLEAN
  /\ active \subseteq [seq : Nat, rows : SUBSET Events]
  /\ pending \subseteq Segments /\ archive \subseteq Segments
  /\ nextId \in 1..(MaxSegments + 1)
  /\ tier \in [path : Nat, nextSeq : Nat, hasRows : BOOLEAN]
  /\ gate \in {"free", "append", "retention"}
  /\ app \in [step : AppendSteps, event : Events, after : AppendSteps, file : Nat]
  /\ sealers \subseteq Nat
  /\ sealer \in [id : Nat, step : SealerSteps, failures : 0..(Attempts - 1)]
  /\ ret \in [step : RetentionSteps, doomed : SUBSET Segments, known : SUBSET Nat]
  /\ expired \subseteq Events /\ acked \subseteq Events
  /\ abandoned \subseteq Nat /\ raced \subseteq Nat

NoAppend ==
  [step |-> "idle", event |-> CHOOSE e \in Events : TRUE, after |-> "idle", file |-> 0]
NoSealer == [id |-> 0, step |-> "idle", failures |-> 0]
NoRetention == [step |-> "idle", doomed |-> {}, known |-> {}]

Init ==
  /\ CatalogInit
  /\ up = FALSE
  /\ active = {} /\ pending = {} /\ archive = {} /\ nextId = 1
  /\ tier = [path |-> 1, nextSeq |-> 2, hasRows |-> FALSE]
  /\ gate = "free" /\ app = NoAppend
  /\ sealers = {} /\ sealer = NoSealer /\ ret = NoRetention
  /\ expired = {} /\ acked = {} /\ abandoned = {} /\ raced = {}

Expired(S) == {s \in S : s.rows # {} /\ s.rows \subseteq expired}
WithId(S, id) == {s \in S : s.id = id}
Current == {a \in active : a.seq = tier.path}

(* Opening a path creates the file; opening it again keeps its rows.         *)
Created(seq) ==
  IF \E a \in active : a.seq = seq THEN active ELSE active \cup {[seq |-> seq, rows |-> {}]}
--------------------------------------------------------------------------------
(* append_usage_events_to_tiered.                                            *)

appendRest == <<catalogVars, lookup, up, archive, ret, expired>>

(* The writer is opened on a path, and the state is unlocked while the rows are
   inserted. *)
Inserting(e, file) == [step |-> "insert", event |-> e, after |-> "idle", file |-> file]

MayAppend(e) ==
  /\ up /\ gate = "free"
  /\ e \notin RowsOf(active \cup pending \cup archive) \cup expired
  /\ tier.nextSeq <= MaxSequence

(* The gate is taken for the whole append; the segment has room.             *)
BeginAppend(e) ==
  /\ MayAppend(e)
  /\ gate' = "append"
  /\ active' = Created(tier.path)
  /\ app' = Inserting(e, tier.path)
  /\ UNCHANGED <<appendRest, pending, nextId, tier, sealers, sealer, historyVars>>

(* rollover_active_segment up to the new file: the segment moves to pending/.
   Any segment that has rows may be large enough. *)
RenameActive ==
  /\ tier.hasRows /\ nextId <= MaxSegments
  /\ \E a \in Current :
       /\ a.rows # {}
       /\ active' = active \ {a}
       /\ pending' = pending \cup {[id |-> nextId, seq |-> a.seq, rows |-> a.rows]}
  /\ nextId' = nextId + 1
  /\ tier' = [tier EXCEPT !.nextSeq = @ + 1]
  /\ UNCHANGED <<appendRest, sealers, sealer, historyVars>>

RolloverFirst(e) ==
  /\ MayAppend(e)
  /\ RenameActive
  /\ gate' = "append"
  /\ app' = [step |-> "init", event |-> e, after |-> "insert", file |-> 0]

RolloverAfter ==
  /\ app.step = "full"
  /\ RenameActive
  /\ app' = [app EXCEPT !.step = "init"]
  /\ UNCHANGED gate

AppendEnds == gate' = "free" /\ app' = NoAppend

Acknowledge ==
  /\ acked' = acked \cup {app.event}
  /\ AppendEnds

(* The new file is there: state and sealer follow, and then the insert, or the
   answer to the caller. *)
InitActive ==
  /\ app.step = "init"
  /\ active' = Created(tier.nextSeq - 1)
  /\ tier' = [tier EXCEPT !.path = tier.nextSeq - 1, !.hasRows = FALSE]
  /\ sealers' = sealers \cup {nextId - 1}
  /\ IF app.after = "insert"
     THEN app' = Inserting(app.event, tier.nextSeq - 1) /\ UNCHANGED <<gate, acked>>
     ELSE Acknowledge
  /\ UNCHANGED <<appendRest, pending, nextId, sealer, abandoned, raced>>

(* Creating the new file fails, before or after it exists: the state still names
   the old path, and nobody seals the pending segment. *)
InitActiveFails ==
  /\ app.step = "init"
  /\ \/ "init" \in Faults /\ UNCHANGED active
     \/ "initTorn" \in Faults /\ active' = Created(tier.nextSeq - 1)
  /\ AppendEnds
  /\ abandoned' = abandoned \cup {nextId - 1}
  /\ UNCHANGED <<appendRest, pending, nextId, tier, sealers, sealer, acked, raced>>

(* What the insert does to the files: a segment that is not there any more
   takes its rows with it. *)
Inserted ==
  {IF a.seq = app.file THEN [a EXCEPT !.rows = @ \cup {app.event}] ELSE a : a \in active}

(* The rows are in; the segment may be large enough to close it at once.     *)
Insert ==
  /\ app.step = "insert"
  /\ active' = Inserted
  /\ tier' = [tier EXCEPT !.hasRows = TRUE]
  /\ \/ Acknowledge
     \/ /\ nextId <= MaxSegments
        /\ app' = [app EXCEPT !.step = "full", !.after = "idle"]
        /\ UNCHANGED <<gate, acked>>
  /\ UNCHANGED <<appendRest, pending, nextId, sealers, sealer, abandoned, raced>>

(* The insert reports an error; the rows may be in.                          *)
InsertFails ==
  /\ "append" \in Faults
  /\ app.step = "insert"
  /\ active' \in {active, Inserted}
  /\ AppendEnds
  /\ UNCHANGED <<appendRest, pending, nextId, tier, sealers, sealer, historyVars>>

Appending == RolloverAfter \/ InitActive \/ Insert

Append ==
  \/ \E e \in Events : BeginAppend(e) \/ RolloverFirst(e)
  \/ Appending \/ InitActiveFails \/ InsertFails
--------------------------------------------------------------------------------
(* prune_tiered_usage_analytics, in the maintenance thread.                  *)

retentionRest == <<up, pending, nextId, sealers, sealer, expired, acked, abandoned>>

(* What the cycle does once it may look at the active segment: an expired one is
   removed; one whose file is missing is created by the checkpoint, and having no
   tables ends the cycle with an error. *)
JudgeActive ==
  \/ /\ ~tier.hasRows
     /\ ret' = [ret EXCEPT !.step = "catalog"]
     /\ UNCHANGED <<active, tier, gate>>
  \/ /\ tier.hasRows /\ Current = {}
     /\ active' = Created(tier.path)
     /\ UNCHANGED <<tier, gate, ret>>
  \/ /\ tier.hasRows
     /\ \E a \in Current : a.rows = {}
     /\ tier' = [tier EXCEPT !.hasRows = FALSE]
     /\ ret' = [ret EXCEPT !.step = "catalog"]
     /\ UNCHANGED <<active, gate>>
  \/ /\ tier.hasRows
     /\ Current # {} /\ Expired(Current) = {} /\ \A a \in Current : a.rows # {}
     /\ ret' = [ret EXCEPT !.step = "catalog"]
     /\ UNCHANGED <<active, tier, gate>>
  \/ /\ tier.hasRows
     /\ Expired(Current) # {}
     /\ active' = active \ Current
     /\ tier' = [tier EXCEPT !.nextSeq = @ + 1]
     /\ gate' = "retention"
     /\ ret' = [ret EXCEPT !.step = "init"]

(* Mutant: retention does not take the gate, only the state's lock.          *)
CheckActiveUngated ==
  /\ up /\ ret.step = "idle" /\ app.step \in {"idle", "insert"}
  /\ JudgeActive
  /\ UNCHANGED <<catalogVars, lookup, archive, app, raced, retentionRest>>

(* rollover_expired_active_segment, under the gate.                          *)
CheckActive ==
  /\ up /\ ret.step = "idle" /\ gate = "free"
  /\ JudgeActive
  /\ UNCHANGED <<catalogVars, lookup, archive, app, raced, retentionRest>>

(* discard_expired_active_segment, after the removal.                        *)
ReplaceActive ==
  /\ ret.step = "init"
  /\ active' = Created(tier.nextSeq - 1)
  /\ tier' = [tier EXCEPT !.path = tier.nextSeq - 1, !.hasRows = FALSE]
  /\ gate' = "free"
  /\ ret' = [ret EXCEPT !.step = "catalog"]
  /\ UNCHANGED <<catalogVars, lookup, archive, app, raced, retentionRest>>

ReplaceActiveFails ==
  /\ ret.step = "init"
  /\ \/ "init" \in Faults /\ UNCHANGED active
     \/ "initTorn" \in Faults /\ active' = Created(tier.nextSeq - 1)
  /\ gate' = "free"
  /\ ret' = NoRetention
  /\ UNCHANGED <<catalogVars, lookup, archive, tier, app, raced, retentionRest>>

pruneRest == <<active, tier, gate, app, retentionRest>>

(* Mutant: the files to remove are chosen by their oldest row, the rows of the
   table by the youngest. *)
DeleteExpiredByOldest ==
  /\ ret.step = "catalog"
  /\ DeleteSegments(Expired(catalog))
  /\ LET doomed == {s \in catalog : s.rows \cap expired # {}}
     IN  ret' = [ret EXCEPT !.doomed = doomed,
                           !.step = IF doomed = {} THEN "paths" ELSE "bump"]
  /\ UNCHANGED <<pruneRest, archive, raced>>

(* The rows go before the files.                                             *)
DeleteExpired ==
  /\ ret.step = "catalog"
  /\ DeleteSegments(Expired(catalog))
  /\ ret' = [ret EXCEPT !.doomed = Expired(catalog),
                        !.step = IF Expired(catalog) = {} THEN "paths" ELSE "bump"]
  /\ UNCHANGED <<pruneRest, archive, raced>>

AnnounceDeletion ==
  /\ ret.step = "bump"
  /\ BumpGeneration
  /\ ret' = [ret EXCEPT !.step = "files"]
  /\ UNCHANGED <<pruneRest, archive, raced>>

RemoveExpiredFile ==
  /\ ret.step = "files"
  /\ \E s \in ret.doomed :
       /\ archive' = {a \in archive : a.id # s.id}
       /\ ret' = [ret EXCEPT !.doomed = @ \ {s},
                             !.step = IF ret.doomed = {s} THEN "paths" ELSE "files"]
  /\ UNCHANGED <<catalogVars, lookup, pruneRest, raced>>

(* prune_orphan_archived_duckdb_files reads the paths of the catalog ...     *)
ReadPaths ==
  /\ ret.step = "paths"
  /\ ret' = [ret EXCEPT !.known = IdsOf(catalog), !.step = "list"]
  /\ UNCHANGED <<catalogVars, lookup, pruneRest, archive, raced>>

(* Mutant: orphans are left alone.                                           *)
ListNothing ==
  /\ ret.step = "list"
  /\ ret' = NoRetention
  /\ UNCHANGED <<catalogVars, lookup, pruneRest, archive, raced>>

(* ... then lists the archive ...                                            *)
ListArchive ==
  /\ ret.step = "list"
  /\ LET orphans == {a \in archive : a.id \notin ret.known}
     IN  ret' = IF orphans = {} THEN NoRetention
                ELSE [step |-> "unlink", doomed |-> orphans, known |-> {}]
  /\ UNCHANGED <<catalogVars, lookup, pruneRest, archive, raced>>

(* ... and deletes, one by one, what the paths did not name.  A file that was
   published since is deleted as well. *)
RemoveOrphan ==
  /\ ret.step = "unlink"
  /\ \E s \in ret.doomed :
       /\ archive' = {a \in archive : a.id # s.id}
       /\ raced' = raced \cup IdsOf(WithId(catalog, s.id))
       /\ ret' = IF ret.doomed = {s} THEN NoRetention
                 ELSE [ret EXCEPT !.doomed = @ \ {s}]
  /\ UNCHANGED <<catalogVars, lookup, pruneRest>>

(* A query or a removal fails: the cycle is over, and only logged.           *)
RetentionFails ==
  /\ "retention" \in Faults
  /\ ret.step \in {"catalog", "files", "paths", "list", "unlink"}
  /\ ret' = NoRetention
  /\ UNCHANGED <<catalogVars, lookup, pruneRest, archive, raced>>

Maintenance ==
  CheckActive \/ ReplaceActive \/ DeleteExpired \/ AnnounceDeletion
  \/ RemoveExpiredFile \/ ReadPaths \/ ListArchive \/ RemoveOrphan

Retention == Maintenance \/ ReplaceActiveFails \/ RetentionFails
--------------------------------------------------------------------------------
(* The sealer threads, one at a time.                                        *)

sealRest == <<up, active, nextId, tier, gate, app, ret, expired, acked>>

SealerGoes(step) == sealer' = [sealer EXCEPT !.step = step]

TakeSealerLock ==
  /\ sealer.step = "idle"
  /\ \E id \in sealers :
       /\ sealer' = [id |-> id, step |-> "look", failures |-> 0]
       /\ sealers' = sealers \ {id}
  /\ UNCHANGED <<catalogVars, lookup, sealRest, pending, archive, abandoned, raced>>

(* Mutant: a segment that is in the archive counts as published.             *)
ArchiveSegmentTrusting ==
  /\ sealer.step = "look"
  /\ IF sealer.id \in IdsOf(archive)
     THEN SealerGoes("unlink") /\ UNCHANGED <<archive, raced>>
     ELSE /\ archive' = archive \cup WithId(pending, sealer.id)
          /\ raced' = raced \ {sealer.id}
          /\ SealerGoes("collect")
  /\ UNCHANGED <<catalogVars, lookup, sealRest, sealers, pending, abandoned>>

(* publish_pending_segment_async: compact, validate, copy to *.uploading.duckdb
   and rename; a file that is in the archive already, after a crash or a failed
   attempt, is only published (finalize_archived_segment). *)
ArchiveSegment ==
  /\ sealer.step = "look"
  /\ IF sealer.id \in IdsOf(archive)
     THEN UNCHANGED <<archive, raced>>
     ELSE /\ archive' = archive \cup WithId(pending, sealer.id)
          /\ raced' = raced \ {sealer.id}
  /\ SealerGoes("collect")
  /\ UNCHANGED <<catalogVars, lookup, sealRest, sealers, pending, abandoned>>

(* publish_segment_catalog reads the events from the archived file.          *)
CollectEvents ==
  /\ sealer.step = "collect"
  /\ sealer.id \in IdsOf(archive)
  /\ SealerGoes("commit")
  /\ UNCHANGED <<catalogVars, lookup, sealRest, sealers, pending, archive, abandoned, raced>>

Publish ==
  /\ sealer.step = "commit"
  /\ \E s \in WithId(pending, sealer.id) : CommitSegment(s)
  /\ raced' = raced \cup ({sealer.id} \ IdsOf(archive))
  /\ SealerGoes("bump")
  /\ UNCHANGED <<sealRest, sealers, pending, archive, abandoned>>

AnnounceSegment ==
  /\ sealer.step = "bump"
  /\ BumpGeneration
  /\ SealerGoes("unlink")
  /\ UNCHANGED <<sealRest, sealers, pending, archive, abandoned, raced>>

RemovePending ==
  /\ sealer.step = "unlink"
  /\ pending' = pending \ WithId(pending, sealer.id)
  /\ sealer' = NoSealer
  /\ UNCHANGED <<catalogVars, lookup, sealRest, sealers, archive, abandoned, raced>>

(* Mutant: one attempt more than the loop has.                               *)
AttemptFailsOnceMore ==
  /\ "seal" \in Faults
  /\ sealer.step = "look"
  /\ IF sealer.failures < Attempts
     THEN sealer' = [sealer EXCEPT !.failures = @ + 1]
     ELSE sealer' = NoSealer
  /\ UNCHANGED <<catalogVars, lookup, sealRest, sealers, pending, archive, abandoned, raced>>

(* A missing file or an error of disk or database: try again, or give up.    *)
AttemptFails ==
  /\ \/ "seal" \in Faults /\ sealer.step \in {"look", "collect", "commit", "unlink"}
     \/ sealer.step = "collect" /\ sealer.id \notin IdsOf(archive)
  /\ IF sealer.failures + 1 < Attempts
     THEN /\ sealer' = [sealer EXCEPT !.step = "look", !.failures = @ + 1]
          /\ UNCHANGED abandoned
     ELSE /\ sealer' = NoSealer
          /\ abandoned' = abandoned \cup {sealer.id}
  /\ UNCHANGED <<catalogVars, lookup, sealRest, sealers, pending, archive, raced>>

Seal ==
  TakeSealerLock \/ ArchiveSegment \/ CollectEvents \/ Publish
  \/ AnnounceSegment \/ RemovePending \/ AttemptFails
--------------------------------------------------------------------------------
(* Life of the process. *)

Crash ==
  /\ "crash" \in Faults
  /\ up
  /\ up' = FALSE
  /\ gate' = "free" /\ app' = NoAppend
  /\ sealers' = {} /\ sealer' = NoSealer /\ ret' = NoRetention
  /\ abandoned' = {}
  /\ lookup' = NoLookup
  /\ UNCHANGED <<catalogVars, fileVars, tier, expired, acked, raced>>

(* next_sequence: the sequence of the segment sealed last, or zero.          *)
LastSequence ==
  IF catalog = {} THEN 0
  ELSE (CHOOSE s \in catalog : \A t \in catalog : t.id <= s.id).seq

(* choose_active_segment.                                                    *)
ChosenPath ==
  IF active = {} THEN LastSequence' + 1
  ELSE (CHOOSE a \in active : \A b \in active : b.seq <= a.seq).seq

(* A start that dies inside seed_catalog_from_archives_if_empty leaves a catalog
   that the next start does not take for empty. *)
SeedInterrupted ==
  /\ "crash" \in Faults
  /\ ~up /\ catalog = {}
  /\ catalog' \in SUBSET archive \ {{}}
  /\ behind' = FALSE /\ cached' = {}
  /\ UNCHANGED <<lookup, up, fileVars, tier, gate, app, sealers, sealer, ret,
                 expired, historyVars>>

(* open_tiered_with_catalog_backend: seed an empty catalog from the archive,
   spawn a sealer for every pending segment, choose the active one. *)
Start ==
  /\ ~up
  /\ up' = TRUE
  /\ IF catalog = {} /\ archive # {}
     THEN /\ catalog' = archive
          /\ behind' = FALSE /\ cached' = {}
     ELSE UNCHANGED catalogVars
  /\ sealers' = IdsOf(pending)
  /\ tier' = [path |-> ChosenPath, nextSeq |-> ChosenPath + 1,
              hasRows |-> active # {}]
  /\ active' = Created(ChosenPath)
  /\ UNCHANGED <<lookup, pending, archive, nextId, gate, app, sealer, ret,
                 expired, historyVars>>

(* Time passes for a row.                                                    *)
Expire ==
  /\ \E e \in Events : e \notin expired /\ expired' = expired \cup {e}
  /\ UNCHANGED <<catalogVars, lookup, up, fileVars, tier, gate, app, sealers,
                 sealer, ret, historyVars>>

storeVars == <<up, fileVars, tier, gate, app, sealers, sealer, ret, expired, historyVars>>

Read == up /\ Lookup /\ UNCHANGED storeVars

CachedExpires == CacheExpires /\ UNCHANGED storeVars

Next ==
  Append \/ Retention \/ Seal \/ Crash \/ SeedInterrupted \/ Start \/ Expire \/ Read \/ CachedExpires

Spec == Init /\ [][Next]_vars
--------------------------------------------------------------------------------
(* Properties. *)

Files == active \cup {[seq |-> s.seq, rows |-> s.rows] : s \in pending}

(* An acknowledged row is on disk and findable until it expires: in active/, in
   pending/, or in an archived file that the catalog names.  No interleaving of
   append, rollover, sealer, retention and crash loses it, except the one where
   orphan pruning deletes a file that was published behind its back. *)
AckedIsKept ==
  acked \subseteq expired \cup RowsOf(Files)
                 \cup RowsOf({s \in catalog : s.id \in IdsOf(archive) \cup raced})

(* The catalog names existing files: publication follows the rename, and
   retention deletes the rows of the table first.  A sealer that publishes an
   expired segment again, after a crash, may name one that is being deleted. *)
CatalogNamesFiles ==
  IdsOf(catalog \ Expired(catalog)) \subseteq IdsOf(archive) \cup raced
--------------------------------------------------------------------------------
(* Fairness and liveness. *)

(* The append, the sealers and the maintenance thread go on, systemd restarts the
   process, and no step of the maintenance fails for ever. *)
Fairness ==
  /\ WF_vars(Seal) /\ WF_vars(Start)
  /\ WF_vars(Appending)
  /\ WF_vars(Maintenance)
  /\ SF_vars(CheckActive) /\ SF_vars(DeleteExpired) /\ SF_vars(RemoveExpiredFile)
  /\ SF_vars(ReadPaths) /\ SF_vars(ListArchive) /\ SF_vars(RemoveOrphan)

FairSpec == Spec /\ Fairness

(* Once crashes stop, every pending segment gets into the catalog, whatever step a
   dead sealer had reached, unless its rows expire first, orphan pruning takes its
   file away, or the sealer fails as often as it may. *)
PendingIsPublished ==
  <>[]up => \A id \in 1..MaxSegments :
    id \in IdsOf(pending) ~>
      \/ id \in IdsOf(catalog) \cup abandoned \cup raced
      \/ Expired(WithId(pending \cup archive, id)) # {}

(* Once crashes stop, an archived file whose rows have expired, and which nobody
   seals any more, is deleted, also when its row in the catalog went before. *)
ExpiredIsDeleted ==
  <>[]up => \A id \in 1..MaxSegments :
    Expired(WithId(archive, id)) # {} /\ id \notin IdsOf(pending)
      ~> id \notin IdsOf(archive)
================================================================================
