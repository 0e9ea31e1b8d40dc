------------------------------ MODULE JournalFiles ------------------------------
(***************************************************************************)
(* The usage journal's directory: the files both processes see, the        *)
(* producer's sequence counter and the consumer's record of imported       *)
(* files.  One block stands for the events of one append call.             *)
(***************************************************************************)
EXTENDS Integers, Sequences, FiniteSets, FiniteSetsExt

CONSTANTS
  Blocks,         (* blocks that may be written                              *)
  Torn,           (* bytes that are no complete record                       *)
  MaxSequence,    (* bound: file sequences the model allocates               *)
  OldSequences,   (* sequences used before writer-state.sqlite3 existed      *)
  Faults          (* what may happen beyond the plain course, of FaultKinds  *)

FaultKinds == {
  "crash",        (* the API process dies, in the middle of a write included *)
  "stop",         (* the API process is stopped between two operations       *)
  "write",        (* a write to a journal file fails                         *)
  "open",         (* the next active file cannot be opened                   *)
  "seal",         (* writing the footer or publishing the file fails         *)
  "workerCrash",  (* the usage worker's process dies                         *)
  "operator",     (* somebody restarts a worker whose import loop has ended  *)
  "store",        (* the analytics store or the worker's bookkeeping fails   *)
  "rollover" }    (* the analytics store closes its active segment           *)

ASSUME JournalAssumption ==
  /\ Faults \subseteq FaultKinds
  /\ Torn \notin Blocks
  /\ MaxSequence \in Nat
  /\ OldSequences \subseteq Nat /\ IsFiniteSet(OldSequences)

VARIABLES
  files,      (* the journal files                                           *)
  nextSeq,    (* writer_state.next_file_sequence                             *)
  consumed    (* consumed_files.file_sequence                                *)

fileVars == <<files, nextSeq, consumed>>

NoRow == -1

(* "recovering" marks the temporary output of crash recovery; "aged": not
   written for the consumer lease. *)
File == [seq    : Nat,
         dir    : {"active", "sealed", "consuming", "bad"},
         ext    : {"open", "journal", "recovering"},
         blocks : Seq(Blocks \cup {Torn}),
         footer : BOOLEAN,
         aged   : BOOLEAN]

FilesTypeOK ==
  /\ files \subseteq File
  /\ nextSeq \in Nat \cup {NoRow}
  /\ consumed \subseteq Nat

NewFile(s, d, x, content) ==
  [seq |-> s, dir |-> d, ext |-> x, blocks |-> content,
   footer |-> FALSE, aged |-> FALSE]

(* A new root, or one that an older release left: sequences in use, no counter
   row yet; a damaged file in bad/, or one that was imported and perhaps not
   deleted. *)
OldFile(s, d) ==
  IF d = "bad"
  THEN [NewFile(s, d, "open", <<Torn>>) EXCEPT !.aged = TRUE]
  ELSE [NewFile(s, d, "journal", <<>>) EXCEPT !.footer = TRUE, !.aged = TRUE]

FilesInit ==
  /\ nextSeq = NoRow
  /\ consumed \in SUBSET OldSequences
  /\ \E place \in [OldSequences -> {"bad", "sealed", "consuming", "gone"}] :
       /\ \A s \in OldSequences : place[s] \in {"sealed", "consuming"} => s \in consumed
       /\ files = {OldFile(s, place[s]) : s \in {t \in OldSequences : place[t] # "gone"}}

InDir(d) == {f \in files : f.dir = d}

MovedTo(f, d) == [f EXCEPT !.dir = d]

Written(f, block) ==
  [f EXCEPT !.blocks = Append(@, block), !.aged = FALSE]

Replaced(f, g) == files' = (files \ {f}) \cup {g}

Removed(f) == files' = files \ {f}

(* The blocks a reader gets before it meets bytes it cannot parse.           *)
Legible(f) ==
  {f.blocks[i] : i \in {j \in DOMAIN f.blocks :
                          \A k \in 1..j : f.blocks[k] # Torn}}

IsTorn(f) == \E i \in DOMAIN f.blocks : f.blocks[i] = Torn

(* A file the whole of which a reader accepts.                               *)
Valid(f) == f.footer /\ ~IsTorn(f)

(* Mutant: the consumer's record is not looked at.                           *)
SeedFromFiles ==
  1 + Max({-1} \cup {f.seq : f \in files})

(* Mutant: the directories are not looked at.                                *)
SeedFromConsumed ==
  1 + Max({-1} \cup consumed)

(* Mutant: the highest sequence in use, not the one after it.                *)
SeedWithHighest ==
  Max({-1} \cup {f.seq : f \in files} \cup consumed)

(* seed_next_file_sequence. *)
Seed ==
  1 + Max({-1} \cup {f.seq : f \in files} \cup consumed)

(* The sequence allocate_next_file_sequence returns, and its transaction.    *)
NextFileSequence == IF nextSeq = NoRow THEN Seed ELSE nextSeq

AllocateSequence ==
  /\ NextFileSequence <= MaxSequence
  /\ nextSeq' = NextFileSequence + 1
================================================================================
