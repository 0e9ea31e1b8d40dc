------------------------------- MODULE UsageJournal -------------------------------
(***************************************************************************)
(* The usage journal of one node: the API process writes it, the usage     *)
(* worker imports it; they share a directory and nothing else.             *)
(***************************************************************************)
EXTENDS JournalProducer, JournalWorker

vars == <<fileVars, producerVars, workerVars>>

TypeOK == FilesTypeOK /\ ProducerTypeOK /\ WorkerTypeOK

Init == FilesInit /\ ProducerInit /\ WorkerInit

Next ==
  \/ ProducerNext /\ UNCHANGED workerVars
  \/ WorkerNext /\ UNCHANGED producerVars

Spec == Init /\ [][Next]_vars
--------------------------------------------------------------------------------
(* Properties. *)

Copies(b) == archived[b] + IF b \in segment THEN 1 ELSE 0

Stored == {b \in Blocks : Copies(b) > 0}

(* A sequence names one file, across all directories, crashes, recovered
   outputs and the upgrade from a root without writer-state.sqlite3: no rename
   hits another file, and no new file truncates one. *)
OneFilePerSequence ==
  /\ \A f, g \in files : f.seq = g.seq => f = g
  /\ nextSeq # NoRow => \A f \in files : f.seq < nextSeq

(* The worker deletes a file unread when its sequence is recorded as consumed.
   That loses nothing: every block such a file holds, in whatever directory it
   reappears, is in the analytics store. *)
ConsumedIsImported ==
  \A f \in files : f.dir # "bad" /\ f.seq \in consumed =>
    \A i \in DOMAIN f.blocks : f.blocks[i] \in Stored

(* A block that was written completely stays within the worker's reach until it
   is imported or retention drops its file: neither a crash at any point of
   sealing or recovery, nor the worker claiming a file that recovery is still
   writing, loses it or leaves it in bad/ only.  Excused are the blocks that
   share a file with the torn record of a failing write (spoiled). *)
WrittenIsKept ==
  \A b \in written :
    \/ b \in Stored \cup dropped \cup spoiled
    \/ \E f \in files : f.dir # "bad" /\ b \in Legible(f)

(* Importing is idempotent: no block is in the analytics store twice, however
   often its file is claimed again or recovered under another sequence. *)
ImportedAtMostOnce == \A b \in Blocks : Copies(b) <= 1
--------------------------------------------------------------------------------
(* Fairness and liveness. *)

(* Threads and processes go on, the flush timer reaches maintain, the clock
   passes the lease, systemd restarts a process that is gone, and an operator,
   where a run has one, a worker whose loop has ended. *)
Fairness ==
  /\ WF_vars(ProducerNext /\ UNCHANGED workerVars /\ api' # "down")
  /\ WF_vars(Start /\ UNCHANGED workerVars)
  /\ WF_vars(Maintain /\ UNCHANGED workerVars)
  /\ WF_vars(Importing /\ UNCHANGED producerVars)
  /\ WF_vars(StartWorker /\ UNCHANGED producerVars)
  /\ WF_vars(OperatorRestarts /\ UNCHANGED producerVars)
  /\ WF_vars(LeasePasses /\ UNCHANGED producerVars)

FairSpec == Spec /\ Fairness

(* Once processes stop dying, every written block is imported, or retention
   dropped it. *)
EveryBlockIsImported ==
  <>[](api # "down" /\ wk # "down") =>
    \A b \in Blocks : b \in written ~> b \in Stored \cup dropped
================================================================================
