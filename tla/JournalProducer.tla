----------------------------- MODULE JournalProducer -----------------------------
(***************************************************************************)
(* The API process' side of the usage journal: recovery of what a dead     *)
(* process left in active/, the writer, sealing and retention.  The writer *)
(* mutex makes this one thread; a step ends where the worker can see a     *)
(* difference in the directories or where a crash leaves one.              *)
(***************************************************************************)
EXTENDS JournalFiles

CONSTANT MaxFiles       (* JournalConfig::max_files *)

ASSUME MaxFilesAssumption == MaxFiles \in Nat \ {0}

VARIABLES
  api,        (* where the producer is                                       *)
  current,    (* sequence of the open writer's file                          *)
  sealing,    (* sequence of the file being sealed                           *)
  hasEvents,  (* JournalWriter::has_written_events                           *)
  doomed,     (* files retention has listed for deletion                     *)
  orphans,    (* active files startup has listed for recovery                *)
  output,     (* sequence of the recovered output, NoRow before it exists    *)
  copied,     (* blocks copied into the recovered output                     *)
  unwritten,  (* blocks that have not been appended                          *)
  written,    (* blocks that were written completely                         *)
  dropped,    (* blocks in files that retention deleted                      *)
  spoiled     (* history: blocks that a failing write put out of reach       *)

recoveryVars == <<orphans, output, copied>>
writerVars == <<current, sealing, hasEvents, doomed>>
blockVars == <<unwritten, written, dropped, spoiled>>
producerVars == <<api, writerVars, recoveryVars, blockVars>>

(* "open", "footer", "publish" are seal_current_writer; "list" and "delete" are
   enforce_retention; "scan", "finish" and "unlink" recover_one_active_file. *)
ApiStates == {"down", "scan", "finish", "unlink",
              "idle", "open", "footer", "publish", "list", "delete"}

ProducerTypeOK ==
  /\ api \in ApiStates
  /\ current \in Nat \cup {NoRow} /\ sealing \in Nat \cup {NoRow}
  /\ hasEvents \in BOOLEAN
  /\ doomed \subseteq [seq : Nat, ext : {"open", "journal", "recovering"}]
  /\ orphans \subseteq Nat
  /\ output \in Nat \cup {NoRow} /\ copied \in Nat
  /\ unwritten \subseteq Blocks
  /\ written \subseteq Blocks /\ dropped \subseteq Blocks /\ spoiled \subseteq Blocks

ProducerInit ==
  /\ api = "down"
  /\ current = NoRow /\ sealing = NoRow /\ hasEvents = FALSE
  /\ doomed = {} /\ orphans = {} /\ output = NoRow /\ copied = 0
  /\ unwritten = Blocks /\ written = {} /\ dropped = {} /\ spoiled = {}

Path(f) == [seq |-> f.seq, ext |-> f.ext]

ActiveFile(s) == {f \in InDir("active") : f.seq = s}

(* Bound: a process dies, or wastes a sequence, only while the sequences up to
   MaxSequence suffice to recover every active file and to write the rest.   *)
SequencesSuffice ==
  NextFileSequence + Cardinality(InDir("active")) + Cardinality(unwritten) <= MaxSequence

(* The n lowest sequences of a set of paths.                                 *)
Lowest(n, P) == {p \in P : Cardinality({q \in P : q.seq < p.seq}) < n}
--------------------------------------------------------------------------------
(* Startup: DiskJournalUsageWriter::open.                                    *)

Start ==
  /\ api = "down"
  /\ api' = "scan"
  /\ orphans' = {f.seq : f \in InDir("active")}
  /\ UNCHANGED <<fileVars, writerVars, output, copied, blockVars>>

(* Active files are recovered in ascending order.                            *)
Source == {f \in InDir("active") : f.seq \in orphans /\ \A s \in orphans : f.seq <= s}

NextOrphan(f) ==
  /\ orphans' = orphans \ {f.seq}
  /\ output' = NoRow /\ copied' = 0

(* A block whose checksum holds goes to an output under a new sequence, which
   is created in sealed/ at the first block; later writes follow the file
   wherever it was renamed to. *)
CopyBlock ==
  /\ api = "scan"
  /\ \E f \in Source :
       /\ copied < Len(f.blocks)
       /\ f.blocks[copied + 1] # Torn
       /\ IF output = NoRow
          THEN /\ AllocateSequence
               /\ output' = NextFileSequence
               /\ files' = files \cup {NewFile(NextFileSequence, "sealed", "recovering",
                                               <<f.blocks[copied + 1]>>)}
          ELSE /\ UNCHANGED <<nextSeq, output>>
               /\ files' = {IF g.seq = output THEN Written(g, f.blocks[copied + 1])
                                              ELSE g : g \in files}
  /\ copied' = copied + 1
  /\ UNCHANGED <<consumed, api, writerVars, orphans, blockVars>>

(* quarantine_or_delete_active_file (the default, quarantine).               *)
Quarantine(f) == Replaced(f, MovedTo(f, "bad")) /\ NextOrphan(f)

(* Bytes that do not parse, or a failing write: the error leaves the scan by
   "?", past the clean-up, so the unfinished output stays in sealed/.        *)
ScanFails ==
  /\ api = "scan"
  /\ \E f \in Source :
       /\ \/ /\ copied < Len(f.blocks) /\ f.blocks[copied + 1] = Torn
             /\ UNCHANGED spoiled
          \/ "write" \in Faults /\ spoiled' = spoiled \cup Legible(f)
       /\ Quarantine(f)
  /\ UNCHANGED <<nextSeq, consumed, api, writerVars, unwritten, written, dropped>>

(* The end of the file, or its footer.                                       *)
ScanEnds ==
  /\ api = "scan"
  /\ \E f \in Source :
       /\ copied = Len(f.blocks)
       /\ IF copied = 0
          THEN Removed(f) /\ NextOrphan(f) /\ UNCHANGED api
          ELSE /\ files' = {IF g.seq = output THEN [g EXCEPT !.footer = TRUE, !.aged = FALSE]
                                              ELSE g : g \in files}
               /\ api' = "finish"
               /\ UNCHANGED recoveryVars
  /\ UNCHANGED <<nextSeq, consumed, writerVars, blockVars>>

(* Publish the output under its final name; if the worker or retention has
   taken the temporary name, the rename fails and the source is quarantined. *)
FinishRecovered ==
  /\ api = "finish"
  /\ LET temp == {g \in InDir("sealed") : g.seq = output /\ g.ext = "recovering"}
     IN  IF temp # {}
         THEN /\ \E g \in temp : Replaced(g, [g EXCEPT !.ext = "journal"])
              /\ api' = "unlink"
              /\ UNCHANGED recoveryVars
         ELSE /\ \E f \in Source : Quarantine(f)
              /\ api' = "scan"
  /\ UNCHANGED <<nextSeq, consumed, writerVars, blockVars>>

RemoveSource ==
  /\ api = "unlink"
  /\ \E f \in Source : Removed(f) /\ NextOrphan(f)
  /\ api' = "scan"
  /\ UNCHANGED <<nextSeq, consumed, writerVars, blockVars>>

(* JournalWriter::open; File::create truncates a file of that name.          *)
CreateActive ==
  /\ AllocateSequence
  /\ current' = NextFileSequence
  /\ files' = (files \ ActiveFile(NextFileSequence))
                \cup {NewFile(NextFileSequence, "active", "open", <<>>)}
  /\ hasEvents' = FALSE

OpenFirst ==
  /\ api = "scan"
  /\ orphans = {}
  /\ CreateActive
  /\ api' = "idle"
  /\ UNCHANGED <<consumed, sealing, doomed, recoveryVars, blockVars>>
--------------------------------------------------------------------------------
(* The writer: JournalUsageEventSink::append_usage_events and maintain.      *)

(* One block is written; should_seal decides by size and age.                *)
AppendEvents(b) ==
  /\ api = "idle"
  /\ b \in unwritten
  /\ unwritten' = unwritten \ {b}
  /\ written' = written \cup {b}
  /\ \E f \in ActiveFile(current) :
       /\ Replaced(f, Written(f, b))
       /\ spoiled' = IF IsTorn(f) THEN spoiled \cup {b} ELSE spoiled
  /\ hasEvents' = TRUE
  /\ api' \in {"idle", "open"}
  /\ UNCHANGED <<nextSeq, consumed, current, sealing, doomed, recoveryVars, dropped>>

(* The write fails: the block is gone from memory and a part of it may be in
   the file, where later blocks follow it. *)
AppendFails(b) ==
  /\ "write" \in Faults
  /\ api = "idle"
  /\ b \in unwritten
  /\ unwritten' = unwritten \ {b}
  /\ \/ UNCHANGED files
     \/ \E f \in ActiveFile(current) : Replaced(f, Written(f, Torn))
  /\ UNCHANGED <<nextSeq, consumed, api, writerVars, recoveryVars, written, dropped, spoiled>>

Maintain ==
  /\ api = "idle"
  /\ hasEvents
  /\ api' = "open"
  /\ UNCHANGED <<fileVars, writerVars, recoveryVars, blockVars>>

(* seal_current_writer opens the next file before it seals the old one.      *)
OpenNext ==
  /\ api = "open"
  /\ sealing' = current
  /\ CreateActive
  /\ api' = "footer"
  /\ UNCHANGED <<consumed, doomed, recoveryVars, blockVars>>

(* The next file cannot be opened: the writer keeps the old one.             *)
OpenFails ==
  /\ "open" \in Faults
  /\ SequencesSuffice
  /\ api = "open"
  /\ AllocateSequence
  /\ files' \in {files,
                 files \cup {NewFile(NextFileSequence, "active", "open", <<Torn>>)}}
  /\ api' = "idle"
  /\ UNCHANGED <<consumed, writerVars, recoveryVars, blockVars>>

WriteFooter ==
  /\ api = "footer"
  /\ \E f \in ActiveFile(sealing) : Replaced(f, [f EXCEPT !.footer = TRUE, !.aged = FALSE])
  /\ api' = "publish"
  /\ UNCHANGED <<nextSeq, consumed, writerVars, recoveryVars, blockVars>>

PublishSealed ==
  /\ api = "publish"
  /\ \E f \in ActiveFile(sealing) :
       Replaced(f, [f EXCEPT !.dir = "sealed", !.ext = "journal"])
  /\ sealing' = NoRow
  /\ api' = "list"
  /\ UNCHANGED <<nextSeq, consumed, current, hasEvents, doomed, recoveryVars, blockVars>>

(* Sealing fails: the old writer is gone, its file waits in active/ for the
   next start. *)
SealFails ==
  /\ "seal" \in Faults
  /\ api \in {"footer", "publish"}
  /\ sealing' = NoRow
  /\ api' = "idle"
  /\ UNCHANGED <<fileVars, current, hasEvents, doomed, recoveryVars, blockVars>>
--------------------------------------------------------------------------------
(* enforce_retention. *)

ListForRetention ==
  /\ api = "list"
  /\ LET paths == {Path(f) : f \in InDir("sealed")}
     IN  doomed' = Lowest(Cardinality(paths) - MaxFiles, paths)
  /\ api' = "delete"
  /\ UNCHANGED <<fileVars, current, sealing, hasEvents, recoveryVars, blockVars>>

(* Delete the oldest listed file; an error, such as a file the worker has
   claimed meanwhile, ends the round. *)
DeleteOldest ==
  /\ api = "delete"
  /\ doomed # {}
  /\ \E p \in Lowest(1, doomed) :
       LET found == {f \in InDir("sealed") : Path(f) = p}
       IN  IF found # {}
           THEN /\ files' = files \ found
                /\ dropped' = dropped \cup UNION {Legible(f) : f \in found}
                /\ doomed' = doomed \ {p}
                /\ UNCHANGED api
           ELSE /\ UNCHANGED <<files, dropped>>
                /\ doomed' = {}
                /\ api' = "idle"
  /\ UNCHANGED <<nextSeq, consumed, current, sealing, hasEvents, recoveryVars,
                 unwritten, written, spoiled>>

RetentionEnds ==
  /\ api = "delete"
  /\ doomed = {}
  /\ api' = "idle"
  /\ UNCHANGED <<fileVars, writerVars, recoveryVars, blockVars>>
--------------------------------------------------------------------------------
(* The process dies.  In the middle of a write, the record stays torn.       *)

StopProducer ==
  /\ api' = "down"
  /\ current' = NoRow /\ sealing' = NoRow /\ hasEvents' = FALSE
  /\ doomed' = {} /\ orphans' = {} /\ output' = NoRow /\ copied' = 0
  /\ UNCHANGED <<nextSeq, consumed, written, dropped, spoiled>>

(* A stop between two operations; nothing seals the open file.               *)
Stop ==
  /\ "stop" \in Faults
  /\ SequencesSuffice
  /\ api = "idle"
  /\ StopProducer
  /\ UNCHANGED <<files, unwritten>>

CrashInWrite ==
  \/ /\ api = "idle"
     /\ \E b \in unwritten : unwritten' = unwritten \ {b}
     /\ \E f \in ActiveFile(current) : Replaced(f, Written(f, Torn))
  \/ /\ api = "footer"
     /\ \E f \in ActiveFile(sealing) : Replaced(f, Written(f, Torn))
     /\ UNCHANGED unwritten

Crash ==
  /\ "crash" \in Faults
  /\ SequencesSuffice
  /\ api # "down"
  /\ StopProducer
  /\ \/ UNCHANGED <<files, unwritten>>
     \/ CrashInWrite

Recovery ==
  CopyBlock \/ ScanFails \/ ScanEnds \/ FinishRecovered \/ RemoveSource \/ OpenFirst

Writing ==
  \/ \E b \in Blocks : AppendEvents(b) \/ AppendFails(b)
  \/ Maintain \/ OpenNext \/ OpenFails \/ WriteFooter \/ PublishSealed \/ SealFails

Retention == ListForRetention \/ DeleteOldest \/ RetentionEnds

ProducerNext == Start \/ Recovery \/ Writing \/ Retention \/ Stop \/ Crash
================================================================================
