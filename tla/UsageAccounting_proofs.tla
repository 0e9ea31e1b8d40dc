------------------------- MODULE UsageAccounting_proofs -------------------------
(***************************************************************************)
(* Theorems about UsageAccounting, for every set of events and batches,    *)
(* every channel and batch size, every bound and every set of faults the   *)
(* statement admits.                                                       *)
(***************************************************************************)
EXTENDS UsageAccounting, TLAPS

--------------------------------------------------------------------------------
(* The backlog operators keep the type of the files.                         *)

LEMMA OpenWriterType ==
  ASSUME NEW S \in SUBSET File, OpenWriter(S)
  PROVE  BacklogTypeOK'
BY MaxSequenceAssumption
   DEF OpenWriter, BacklogTypeOK, File, Dirs, Bodies, ActiveFile

LEMMA MovedType ==
  ASSUME NEW f \in File, NEW d \in Dirs
  PROVE  MovedTo(f, d) \in File
BY DEF MovedTo, File, Dirs, Bodies

LEMMA BlockTypes ==
  ASSUME NEW f \in File, NEW b \in BatchIds
  PROVE  WithBlock(f, b) \in File /\ WithTornTail(f) \in File
BY DEF WithBlock, WithTornTail, File, Dirs, Bodies

LEMMA AppendType ==
  ASSUME BacklogTypeOK, NEW b \in BatchIds, AppendBatches(b)
  PROVE  BacklogTypeOK'
<1> USE DEF BacklogTypeOK, InDir, Replaced
<1>1. CASE AppendSeals(b)
  BY <1>1, OpenWriterType, BlockTypes, MovedType DEF AppendSeals, Dirs
<1>2. CASE AppendRefused
  BY <1>2 DEF AppendRefused, backlogVars
<1>3. CASE AppendCutShort
  BY <1>3, BlockTypes DEF AppendCutShort, CutShort
<1>4. CASE AppendNotSealed(b)
  BY <1>4, BlockTypes DEF AppendNotSealed, NotSealed
<1>5. CASE AppendNotReopened(b)
  BY <1>5, BlockTypes, MovedType DEF AppendNotReopened, NotReopened, Dirs
<1> QED
  BY <1>1, <1>2, <1>3, <1>4, <1>5 DEF AppendBatches

LEMMA InterruptedType ==
  ASSUME BacklogTypeOK, NEW b \in BatchIds, AppendInterrupted(b)
  PROVE  files' \in SUBSET File
BY BlockTypes, MovedType
   DEF BacklogTypeOK, AppendInterrupted, CutShort, NotSealed, NotReopened,
       InDir, Replaced, Dirs

LEMMA MoveType ==
  ASSUME BacklogTypeOK, NEW f \in File
  PROVE  /\ \A d \in Dirs : Move(f, d) => files' \in SUBSET File
         /\ CompleteClaim(f) => files' \in SUBSET File
         /\ RestoreClaim(f) => files' \in SUBSET File
         /\ QuarantineClaim(f) => files' \in SUBSET File
         /\ RestoreConsumingFile(f) => files' \in SUBSET File
         /\ RecoverActiveFile(f) => files' \in SUBSET File
<1> USE DEF BacklogTypeOK
<1>1. ASSUME NEW g \in File
      PROVE  Replaced(f, g) \in SUBSET File
  BY DEF Replaced
<1>2. ASSUME NEW d \in Dirs
      PROVE  Move(f, d) => files' \in SUBSET File
  BY <1>1, MovedType DEF Move
<1>3. [f EXCEPT !.dir = "sealed", !.body = "whole"] \in File
  BY DEF File, Dirs, Bodies
<1>4. {"sealed", "bad"} \subseteq Dirs
  BY DEF Dirs
<1>5. files \ {f} \in SUBSET File
  OBVIOUS
<1>6. RecoverActiveFile(f) => files' \in SUBSET File
  BY <1>1, <1>2, <1>3, <1>4, <1>5 DEF RecoverActiveFile
<1>7. /\ Move(f, "sealed") => files' \in SUBSET File
      /\ Move(f, "bad") => files' \in SUBSET File
  BY <1>2, <1>4
<1>8. CompleteClaim(f) => files' \in SUBSET File
  BY <1>5 DEF CompleteClaim
<1>9. RestoreClaim(f) => files' \in SUBSET File
  BY <1>7 DEF RestoreClaim
<1>10. QuarantineClaim(f) => files' \in SUBSET File
  BY <1>7 DEF QuarantineClaim
<1>11. RestoreConsumingFile(f) => files' \in SUBSET File
  BY <1>7 DEF RestoreConsumingFile
<1> QED
  BY <1>2, <1>6, <1>8, <1>9, <1>10, <1>11
--------------------------------------------------------------------------------
(* The database operators keep their type.                                   *)

LEMMA StoreType ==
  ASSUME StoreTypeOK
  PROVE  /\ \A S \in SUBSET BatchIds : ApplyBatches(S) => StoreTypeOK'
         /\ PruneMarkers => StoreTypeOK'
         /\ AgeMarkers => StoreTypeOK'
         /\ LoadKeyBundle => StoreTypeOK'
         /\ UpsertKeyBundle => StoreTypeOK'
         /\ UNCHANGED storeVars => StoreTypeOK'
<1> USE DEF StoreTypeOK
<1>1. ASSUME NEW S \in SUBSET BatchIds, ApplyBatches(S)
      PROVE  StoreTypeOK'
  BY <1>1 DEF ApplyBatches
<1>2. PruneMarkers => StoreTypeOK'
  BY DEF PruneMarkers
<1>3. AgeMarkers => StoreTypeOK'
  BY DEF AgeMarkers
<1>4. LoadKeyBundle => StoreTypeOK'
  BY DEF LoadKeyBundle
<1>5. UpsertKeyBundle => StoreTypeOK'
  BY DEF UpsertKeyBundle
<1>6. UNCHANGED storeVars => StoreTypeOK'
  BY DEF storeVars
<1> QED
  BY <1>1, <1>2, <1>3, <1>4, <1>5, <1>6

LEMMA OverlayType ==
  ASSUME overlay \in [Events -> Int], NEW E
  PROVE  /\ OverlayPlus(E) \in [Events -> Int]
         /\ OverlayMinus(E) \in [Events -> Int]
BY DEF OverlayPlus, OverlayMinus

LEMMA RetryType ==
  ASSUME attempts \in 0..MaxAttempts, window \in {"open", "suspended", "elapsed"},
         ReenableIfReady \/ RecordSuccess \/ RecordFailure \/ UNCHANGED retryVars
  PROVE  /\ attempts' \in 0..MaxAttempts
         /\ window' \in {"open", "suspended", "elapsed"}
BY SizesAssumption
   DEF ReenableIfReady, RecordSuccess, RecordFailure, retryVars

--------------------------------------------------------------------------------
(* Type correctness. *)

LEMMA InitType == Init => TypeOK
BY MaxSequenceAssumption, SizesAssumption
   DEF Init, TypeOK, StoreInit, StoreTypeOK, BacklogInit, BacklogTypeOK, File,
       Dirs, Bodies, ActiveFile, Procs, Pcs

LEMMA HandlersType ==
  ASSUME TypeOK, Handlers
  PROVE  TypeOK'
<1> PICK e \in Events :
      Enqueue(e) \/ SendCompletes(e) \/ SendFails(e) \/ SendCancelled(e)
  BY DEF Handlers
<1> USE OverlayType
    DEF TypeOK, StoreTypeOK, BacklogTypeOK, storeVars, backlogVars,
        analyticsVars, workVars, retryVars
<1>1. CASE Enqueue(e)
  BY <1>1 DEF Enqueue
<1>2. CASE SendCompletes(e)
  BY <1>2 DEF SendCompletes
<1>3. CASE SendFails(e)
  BY <1>3 DEF SendFails
<1>4. CASE SendCancelled(e)
  BY <1>4 DEF SendCancelled
<1> QED
  BY <1>1, <1>2, <1>3, <1>4

LEMMA SelectType ==
  ASSUME TypeOK, Receive \/ TimerTick \/ SeeShutdown
  PROVE  TypeOK'
<1> USE DEF TypeOK, BacklogTypeOK, backlogVars, clientVars, analyticsVars,
            workVars
<1>1. CASE Receive
  <2>1. BeginFlush \/ UNCHANGED <<pc, retryVars>>
    BY <1>1 DEF Receive
  <2>2. pc' \in Pcs /\ (ReenableIfReady \/ UNCHANGED retryVars)
    BY <2>1 DEF BeginFlush, Pcs
  <2>3. buffer' \subseteq Events /\ queue' \subseteq Events
    BY <1>1 DEF Receive, kSubset
  <2> QED
    BY <1>1, <2>2, <2>3, RetryType, StoreType DEF Receive
<1>2. CASE TimerTick
  <2>1. pc' \in Pcs /\ ReenableIfReady
    BY <1>2 DEF TimerTick, BeginFlush, Pcs
  <2>2. StoreTypeOK'
    BY <1>2, StoreType DEF TimerTick, PruneIfDue
  <2> QED
    BY <1>2, <2>1, <2>2, RetryType DEF TimerTick
<1>3. CASE SeeShutdown
  <2>1. pc' \in Pcs /\ ReenableIfReady
    BY <1>3 DEF SeeShutdown, BeginFlush, Pcs
  <2> QED
    BY <1>3, <2>1, RetryType, StoreType DEF SeeShutdown, Procs
<1> QED
  BY <1>1, <1>2, <1>3

LEMMA ReplayType ==
  ASSUME TypeOK, ReplaySteps
  PROVE  TypeOK'
<1> USE DEF TypeOK, clientVars, analyticsVars, workVars
<1>1. /\ \A f \in files : f \in File
      /\ \A f \in claim : f \in File
      /\ BatchesIn(claim) \in SUBSET BatchIds
  BY DEF BacklogTypeOK, BatchesIn, File
<1>2. CASE SkipBacklog
  BY <1>2, StoreType, RetryType
     DEF SkipBacklog, BacklogTypeOK, backlogVars, Pcs
<1>3. CASE ClaimBacklog
  <2>1. PICK f \in files : ClaimFile(f) /\ claim' = {MovedTo(f, "consuming")}
    BY <1>3 DEF ClaimBacklog
  <2>2. files' \in SUBSET File /\ claim' \in SUBSET File
    BY <1>1, <2>1, MoveType, MovedType DEF ClaimFile, Dirs
  <2> QED
    BY <1>3, <2>2, StoreType, RetryType
       DEF ClaimBacklog, BacklogTypeOK, Pcs
<1>4. CASE QuarantineUnreadable
  <2>1. PICK f \in files : QuarantineClaim(f) \/ ClaimFile(f)
    BY <1>4 DEF QuarantineUnreadable, InDir
  <2>2. files' \in SUBSET File
    BY <1>1, <2>1, MoveType DEF ClaimFile, Dirs
  <2> QED
    BY <1>4, <2>2, StoreType, RetryType
       DEF QuarantineUnreadable, BacklogTypeOK, Pcs
<1>5. CASE ReplayCommits
  BY <1>1, <1>5, StoreType, RetryType
     DEF ReplayCommits, BacklogTypeOK, backlogVars, Pcs
<1>6. CASE ReplayOk
  <2>1. PICK f \in claim : CompleteClaim(f)
    BY <1>6 DEF ReplayOk
  <2>2. files' \in SUBSET File
    BY <1>1, <2>1, MoveType
  <2> QED
    BY <1>6, <2>2, StoreType, RetryType, OverlayType
       DEF ReplayOk, BacklogTypeOK, Pcs
<1>7. CASE ReplayFails
  <2>1. PICK f \in claim : RestoreClaim(f)
    BY <1>7 DEF ReplayFails
  <2>2. files' \in SUBSET File
    BY <1>1, <2>1, MoveType
  <2> QED
    BY <1>7, <2>2, StoreType, RetryType
       DEF ReplayFails, BacklogTypeOK, Pcs
<1>8. CASE ReplayMismatch
  <2>1. PICK f \in claim :
          \/ /\ QuarantineClaim(f)
             /\ overlay' = OverlayMinus(ContentOf(f.batches))
          \/ UNCHANGED <<files, overlay>>
    BY <1>8 DEF ReplayMismatch
  <2>2. files' \in SUBSET File /\ overlay' \in [Events -> Int]
    BY <1>1, <2>1, MoveType, OverlayType DEF BacklogTypeOK
  <2> QED
    BY <1>8, <2>2, StoreType, RetryType
       DEF ReplayMismatch, BacklogTypeOK, Pcs
<1> QED
  BY <1>2, <1>3, <1>4, <1>5, <1>6, <1>7, <1>8 DEF ReplaySteps

LEMMA LiveType ==
  ASSUME TypeOK, LiveSteps
  PROVE  TypeOK'
<1> USE DEF TypeOK, clientVars, analyticsVars, workVars
<1>1. CASE NothingBuffered
  BY <1>1, StoreType, RetryType
     DEF NothingBuffered, BacklogTypeOK, backlogVars, Pcs
<1>2. CASE TakeBuffer
  BY <1>2, StoreType, RetryType
     DEF TakeBuffer, BacklogTypeOK, backlogVars, Pcs
<1>3. CASE LiveCommits
  BY <1>3, StoreType, RetryType
     DEF LiveCommits, BacklogTypeOK, backlogVars, Pcs
<1>4. CASE LiveOk
  BY <1>4, StoreType, RetryType, OverlayType
     DEF LiveOk, BacklogTypeOK, backlogVars, Pcs
<1>5. CASE LiveFails
  BY <1>5, StoreType, RetryType
     DEF LiveFails, BacklogTypeOK, backlogVars, Pcs
<1>6. CASE Park
  <2>1. PICK b \in hand : AppendBatches(b)
    BY <1>6 DEF Park
  <2>2. BacklogTypeOK'
    BY <2>1, AppendType
  <2> QED
    BY <1>6, <2>2, StoreType, RetryType DEF Park, Pcs
<1>7. CASE Forward
  BY <1>7, StoreType, RetryType
     DEF Forward, BacklogTypeOK, backlogVars, Pcs, Procs
<1> QED
  BY <1>1, <1>2, <1>3, <1>4, <1>5, <1>6, <1>7 DEF LiveSteps

LEMMA LoseMemoryType ==
  ASSUME TypeOK, LoseMemory, files' \in SUBSET File
  PROVE  TypeOK'
BY StoreType, SizesAssumption
   DEF TypeOK, LoseMemory, BacklogTypeOK, Procs, Pcs

LEMMA LifeType ==
  ASSUME TypeOK, WindowElapses \/ StoreSteps \/ Shutdown \/ Exit \/ Crash \/ Startup
  PROVE  TypeOK'
<1> USE DEF TypeOK, clientVars, analyticsVars, workVars
<1>1. CASE WindowElapses
  BY <1>1, StoreType DEF WindowElapses, BacklogTypeOK, backlogVars
<1>2. CASE StoreSteps
  BY <1>2, StoreType, RetryType DEF StoreSteps, BacklogTypeOK, backlogVars
<1>3. CASE Shutdown
  BY <1>3, StoreType, RetryType
     DEF Shutdown, BacklogTypeOK, backlogVars, Procs
<1>4. CASE Exit
  BY <1>4, LoseMemoryType DEF Exit, BacklogTypeOK
<1>5. CASE Crash
  <2>1. files' \in SUBSET File
    BY <1>5, InterruptedType DEF Crash, BacklogTypeOK
  <2> QED
    BY <1>5, <2>1, LoseMemoryType DEF Crash
<1>6. CASE Start
  BY <1>6, StoreType, RetryType
     DEF Start, BacklogTypeOK, backlogVars, Procs
<1>7. CASE RecoverFile
  <2>1. PICK f \in files : RecoverActiveFile(f) \/ RestoreConsumingFile(f)
    BY <1>7 DEF RecoverFile, InDir
  <2>2. f \in File
    BY DEF BacklogTypeOK
  <2>3. files' \in SUBSET File
    BY <2>1, <2>2, MoveType
  <2> QED
    BY <1>7, <2>3, StoreType, RetryType DEF RecoverFile, BacklogTypeOK
<1>8. CASE FinishStart
  <2> DEFINE unreadable == {f \in InDir("sealed") : ~Readable(f)}
             scanned == (files \ unreadable)
                          \cup {MovedTo(f, "bad") : f \in unreadable}
  <2>1. scanned \in SUBSET File
    <3>1. \A f \in unreadable : MovedTo(f, "bad") \in File
      BY MovedType DEF BacklogTypeOK, InDir, Dirs
    <3> QED
      BY <3>1 DEF BacklogTypeOK
  <2>2. OpenWriter(scanned)
    BY <1>8 DEF FinishStart
  <2>3. BacklogTypeOK'
    BY <2>1, <2>2, OpenWriterType
  <2>4. overlay' \in [Events -> Int]
    BY <1>8, OverlayType DEF FinishStart, PendingOverlay
  <2> HIDE DEF scanned, unreadable
  <2> QED
    BY <1>8, <2>3, <2>4, StoreType, RetryType DEF FinishStart, Procs
<1> QED
  BY <1>1, <1>2, <1>3, <1>4, <1>5, <1>6, <1>7, <1>8 DEF Startup

LEMMA NextType ==
  ASSUME TypeOK, [Next]_vars
  PROVE  TypeOK'
<1>1. CASE Next
  BY <1>1, HandlersType, SelectType, ReplayType, LiveType, LifeType
     DEF Next, Flusher
<1>2. CASE UNCHANGED vars
  BY <1>2 DEF vars, TypeOK, StoreTypeOK, BacklogTypeOK, storeVars, backlogVars,
              clientVars, analyticsVars, workVars, retryVars
<1> QED
  BY <1>1, <1>2

(* Type correctness of the accounting pipeline, for all faults: no step of a
   handler, the flusher, the database, a crash or a recovery leaves the typed
   state, in particular the attempts counter and the file sequences. *)
THEOREM TypeCorrect == Spec => []TypeOK
<1>1. Init => TypeOK
  BY InitType
<1>2. TypeOK /\ [Next]_vars => TypeOK'
  BY NextType
<1> QED
  BY <1>1, <1>2, PTL DEF Spec
--------------------------------------------------------------------------------
(* An event is in one place: it has not happened, waits for the channel, is in
   the channel, is buffered, or belongs to one batch. *)

EventsApart ==
  /\ fresh \cap sending = {} /\ fresh \cap queue = {} /\ fresh \cap buffer = {}
  /\ sending \cap queue = {} /\ sending \cap buffer = {}
  /\ queue \cap buffer = {}
  /\ \A b \in BatchIds :
       content[b] \cap (fresh \cup sending \cup queue \cup buffer) = {}
  /\ \A b, c \in BatchIds : b # c => content[b] \cap content[c] = {}

LEMMA EventsApartStep ==
  ASSUME TypeOK, EventsApart, [Next]_vars
  PROVE  EventsApart'
<1> USE DEF EventsApart, clientVars, workVars
<1>1. CASE Handlers
  <2> PICK e \in Events :
        Enqueue(e) \/ SendCompletes(e) \/ SendFails(e) \/ SendCancelled(e)
    BY <1>1 DEF Handlers
  <2>1. CASE Enqueue(e)
    BY <2>1 DEF Enqueue
  <2>2. CASE SendCompletes(e)
    BY <2>2 DEF SendCompletes
  <2>3. CASE SendFails(e)
    BY <2>3 DEF SendFails
  <2>4. CASE SendCancelled(e)
    BY <2>4 DEF SendCancelled
  <2> QED
    BY <2>1, <2>2, <2>3, <2>4
<1>2. CASE Receive
  <2>1. PICK E \in SUBSET queue : buffer' = buffer \cup E /\ queue' = queue \ E
    BY <1>2 DEF Receive, kSubset
  <2> QED
    BY <1>2, <2>1 DEF Receive
<1>3. CASE TimerTick
  BY <1>3 DEF TimerTick
<1>4. CASE SeeShutdown
  BY <1>4 DEF SeeShutdown
<1>5. CASE ReplaySteps
  BY <1>5 DEF ReplaySteps, SkipBacklog, ClaimBacklog, QuarantineUnreadable,
              ReplayCommits, ReplayOk, ReplayFails, ReplayMismatch
<1>6. CASE TakeBuffer
  <2>1. PICK b \in BatchIds : content' = [content EXCEPT ![b] = buffer]
    BY <1>6 DEF TakeBuffer
  <2> QED
    BY <1>6, <2>1 DEF TakeBuffer, TypeOK
<1>7. CASE NothingBuffered \/ LiveCommits \/ LiveOk \/ LiveFails \/ Park
  BY <1>7 DEF NothingBuffered, LiveCommits, LiveOk, LiveFails, Park
<1>8. CASE Forward
  BY <1>8 DEF Forward
<1>9. CASE WindowElapses \/ StoreSteps \/ Shutdown \/ Startup
  BY <1>9 DEF WindowElapses, StoreSteps, Shutdown, Startup, Start, RecoverFile,
              FinishStart
<1>10. CASE Exit \/ Crash
  BY <1>10 DEF Exit, Crash, LoseMemory
<1>11. CASE UNCHANGED vars
  BY <1>11 DEF vars
<1> QED
  BY <1>1, <1>2, <1>3, <1>4, <1>5, <1>6, <1>7, <1>8, <1>9, <1>10, <1>11
     DEF Next, Flusher, LiveSteps

--------------------------------------------------------------------------------
(* One copy on disk, under every fault.  The inductive invariant adds that the
   batch the flusher holds is in no file yet, and that the identity of a stored
   or held batch is in use, so that no later batch takes it. *)

Apart(S) ==
  \A f, g \in S : f # g => f.seq # g.seq /\ f.batches \cap g.batches = {}

HandIsNew == hand \cap BatchesIn(files) = {}

StoredAreUsed == \A b \in BatchesIn(files) \cup hand : content[b] # {}

DiskInv == OneCopyOnDisk /\ HandIsNew /\ StoredAreUsed

LEMMA ReplacedApart ==
  ASSUME Apart(files), NEW f \in files, NEW g, g.seq = f.seq,
         NEW B, B \cap BatchesIn(files) = {}, g.batches \subseteq f.batches \cup B
  PROVE  Apart(Replaced(f, g))
BY DEF Apart, Replaced, BatchesIn

LEMMA OpenWriterApart ==
  ASSUME NEW S \in SUBSET File, Apart(S), OpenWriter(S)
  PROVE  /\ Apart(files')
         /\ BatchesIn(files') \subseteq BatchesIn(S)
<1>1. PICK n \in 1..MaxSequence :
        IsNextSequence(n, S) /\ files' = S \cup {ActiveFile(n)}
  BY DEF OpenWriter
<1>2. \A f \in S : f.seq # ActiveFile(n).seq
  BY <1>1 DEF IsNextSequence, ActiveFile, File
<1>3. ActiveFile(n).batches = {}
  BY DEF ActiveFile
<1> QED
  BY <1>1, <1>2, <1>3 DEF Apart, BatchesIn

LEMMA MovedApart ==
  ASSUME NEW f \in files, BacklogTypeOK, Apart(files),
         \/ \E d \in Dirs : Move(f, d)
         \/ CompleteClaim(f)
         \/ RestoreClaim(f)
         \/ QuarantineClaim(f)
         \/ RestoreConsumingFile(f)
         \/ RecoverActiveFile(f)
  PROVE  Apart(files') /\ BatchesIn(files') \subseteq BatchesIn(files)
<1>1. ASSUME NEW g, g.seq = f.seq, g.batches = f.batches, files' = Replaced(f, g)
      PROVE  Apart(files') /\ BatchesIn(files') \subseteq BatchesIn(files)
  <2>1. BatchesIn(files') \subseteq BatchesIn(files)
    BY <1>1 DEF BatchesIn, Replaced
  <2>2. {} \cap BatchesIn(files) = {} /\ g.batches \subseteq f.batches \cup {}
    BY <1>1
  <2>3. Apart(Replaced(f, g))
    BY <1>1, <2>2, ReplacedApart
  <2> QED
    BY <1>1, <2>1, <2>3
<1>2. f \in File
  BY DEF BacklogTypeOK
<1>3. \A d : MovedTo(f, d).seq = f.seq /\ MovedTo(f, d).batches = f.batches
  BY <1>2 DEF MovedTo, File
<1>4. \A d : Move(f, d) =>
               Apart(files') /\ BatchesIn(files') \subseteq BatchesIn(files)
  BY <1>1, <1>3 DEF Move
<1>5. /\ [f EXCEPT !.dir = "sealed", !.body = "whole"].seq = f.seq
      /\ [f EXCEPT !.dir = "sealed", !.body = "whole"].batches = f.batches
  BY <1>2 DEF File
<1>6. files' \in {files \ {f}, files} =>
        Apart(files') /\ BatchesIn(files') \subseteq BatchesIn(files)
  BY DEF Apart, BatchesIn
<1>7. RecoverActiveFile(f) =>
        Apart(files') /\ BatchesIn(files') \subseteq BatchesIn(files)
  BY <1>1, <1>4, <1>5, <1>6 DEF RecoverActiveFile
<1> QED
  BY <1>4, <1>6, <1>7
     DEF CompleteClaim, RestoreClaim, QuarantineClaim, RestoreConsumingFile

LEMMA AppendedApart ==
  ASSUME BacklogTypeOK, Apart(files), NEW b \in BatchIds, b \notin BatchesIn(files),
         AppendBatches(b) \/ AppendInterrupted(b)
  PROVE  Apart(files') /\ BatchesIn(files') \subseteq BatchesIn(files) \cup {b}
<1>1. ASSUME NEW f \in InDir("active"), NEW g \in
               {WithTornTail(f), WithBlock(f, b), MovedTo(WithBlock(f, b), "sealed")}
      PROVE  /\ Replaced(f, g) \in SUBSET File
             /\ Apart(Replaced(f, g))
             /\ BatchesIn(Replaced(f, g)) \subseteq BatchesIn(files) \cup {b}
  <2>1. f \in files /\ f \in File
    BY DEF InDir, BacklogTypeOK
  <2>2. g \in File
    BY <2>1, BlockTypes, MovedType DEF Dirs
  <2>3. /\ WithBlock(f, b).seq = f.seq
        /\ WithBlock(f, b).batches \subseteq f.batches \cup {b}
        /\ WithTornTail(f).seq = f.seq
        /\ WithTornTail(f).batches \subseteq f.batches \cup {b}
    BY <2>1 DEF WithBlock, WithTornTail, File
  <2>4. /\ MovedTo(WithBlock(f, b), "sealed").seq = f.seq
        /\ MovedTo(WithBlock(f, b), "sealed").batches \subseteq f.batches \cup {b}
    BY <2>1, <2>3, BlockTypes DEF MovedTo, File
  <2>5. g.seq = f.seq /\ g.batches \subseteq f.batches \cup {b}
    BY <2>3, <2>4
  <2>6. Apart(Replaced(f, g))
    BY <2>1, <2>5, ReplacedApart
  <2>7. BatchesIn(Replaced(f, g)) \subseteq BatchesIn(files) \cup {b}
    BY <2>1, <2>5 DEF BatchesIn, Replaced
  <2>8. Replaced(f, g) \in SUBSET File
    BY <2>2 DEF Replaced, BacklogTypeOK
  <2> QED
    BY <2>6, <2>7, <2>8
<1>2. CASE UNCHANGED files
  BY <1>2
<1>3. CASE files' \in CutShort \cup NotSealed(b) \cup NotReopened(b)
  BY <1>1, <1>3 DEF CutShort, NotSealed, NotReopened
<1>4. CASE AppendSeals(b)
  <2>1. PICK f \in InDir("active") :
          OpenWriter(Replaced(f, MovedTo(WithBlock(f, b), "sealed")))
    BY <1>4 DEF AppendSeals
  <2> QED
    BY <1>1, <2>1, OpenWriterApart
<1> QED
  BY <1>2, <1>3, <1>4
     DEF AppendBatches, AppendRefused, backlogVars, AppendCutShort,
         AppendNotSealed, AppendNotReopened, AppendInterrupted

LEMMA DiskMoves ==
  ASSUME DiskInv, Apart(files'), UNCHANGED content,
         \/ hand' \subseteq hand /\ BatchesIn(files') \subseteq BatchesIn(files)
         \/ hand' = {} /\ BatchesIn(files') \subseteq BatchesIn(files) \cup hand
  PROVE  DiskInv'
BY DEF DiskInv, OneCopyOnDisk, HandIsNew, StoredAreUsed, Apart

LEMMA DiskReplay ==
  ASSUME TypeOK, DiskInv, ReplaySteps, \A f \in claim : f \in files
  PROVE  DiskInv'
<1> USE DEF clientVars, analyticsVars, workVars
<1>1. Apart(files) /\ BacklogTypeOK
  BY DEF DiskInv, OneCopyOnDisk, Apart, TypeOK
<1>2. CASE UNCHANGED <<files, hand, content>>
  BY <1>1, <1>2, DiskMoves
<1>3. ASSUME NEW f \in files, UNCHANGED <<hand, content>>,
             \/ Move(f, "consuming") \/ Move(f, "bad")
             \/ CompleteClaim(f) \/ RestoreClaim(f)
      PROVE  DiskInv'
  BY <1>1, <1>3, MovedApart, DiskMoves DEF Dirs
<1>4. CASE SkipBacklog \/ ReplayCommits
  BY <1>2, <1>4 DEF SkipBacklog, ReplayCommits, backlogVars
<1>5. CASE ClaimBacklog
  BY <1>3, <1>5 DEF ClaimBacklog, ClaimFile
<1>6. CASE QuarantineUnreadable
  BY <1>3, <1>6 DEF QuarantineUnreadable, ClaimFile, QuarantineClaim, InDir
<1>7. CASE ReplayOk
  BY <1>3, <1>7 DEF ReplayOk
<1>8. CASE ReplayFails
  BY <1>3, <1>8 DEF ReplayFails
<1>9. CASE ReplayMismatch
  BY <1>2, <1>3, <1>9 DEF ReplayMismatch, QuarantineClaim
<1> QED
  BY <1>4, <1>5, <1>6, <1>7, <1>8, <1>9 DEF ReplaySteps

LEMMA DiskStep ==
  ASSUME TypeOK, DiskInv, [Next]_vars, \A f \in claim : f \in files
  PROVE  DiskInv'
<1> USE DEF clientVars, analyticsVars, workVars, backlogVars
<1>1. Apart(files) /\ BacklogTypeOK
  BY DEF DiskInv, OneCopyOnDisk, Apart, TypeOK
<1>2. CASE UNCHANGED <<files, content>> /\ hand' \subseteq hand
  BY <1>1, <1>2, DiskMoves
<1>3. CASE Handlers
  BY <1>2, <1>3 DEF Handlers, Enqueue, SendCompletes, SendFails, SendCancelled
<1>4. CASE Receive \/ TimerTick \/ SeeShutdown
  BY <1>2, <1>4 DEF Receive, TimerTick, SeeShutdown
<1>5. CASE ReplaySteps
  BY <1>5, DiskReplay
<1>6. CASE NothingBuffered \/ LiveCommits \/ LiveOk \/ LiveFails \/ Forward
  BY <1>2, <1>6 DEF NothingBuffered, LiveCommits, LiveOk, LiveFails, Forward
<1>7. CASE TakeBuffer
  <2>1. PICK b \in BatchIds :
          /\ content[b] = {}
          /\ content' = [content EXCEPT ![b] = buffer]
          /\ hand' = {b}
    BY <1>7 DEF TakeBuffer
  <2>2. b \notin BatchesIn(files)
    BY <2>1 DEF DiskInv, StoredAreUsed
  <2>3. BatchesIn(files) \in SUBSET BatchIds
    BY <1>1 DEF BacklogTypeOK, BatchesIn, File
  <2>4. \A c \in BatchesIn(files) \cup {b} : content'[c] # {}
    BY <1>7, <2>1, <2>3 DEF TakeBuffer, DiskInv, StoredAreUsed, TypeOK
  <2>5. UNCHANGED files /\ BatchesIn(files') = BatchesIn(files)
    BY <1>7 DEF TakeBuffer
  <2> QED
    BY <2>1, <2>2, <2>4, <2>5 DEF DiskInv, OneCopyOnDisk, HandIsNew, StoredAreUsed
<1>8. ASSUME UNCHANGED content, hand' = {},
             \E b \in hand : AppendBatches(b) \/ AppendInterrupted(b)
      PROVE  DiskInv'
  <2>1. PICK b \in hand : AppendBatches(b) \/ AppendInterrupted(b)
    BY <1>8
  <2>2. b \in BatchIds /\ b \notin BatchesIn(files)
    BY DEF TypeOK, DiskInv, HandIsNew
  <2> QED
    BY <1>1, <1>8, <2>1, <2>2, AppendedApart, DiskMoves
<1>9. CASE Park
  BY <1>8, <1>9 DEF Park
<1>10. CASE WindowElapses \/ StoreSteps \/ Shutdown \/ Start
  BY <1>2, <1>10 DEF WindowElapses, StoreSteps, Shutdown, Start
<1>11. CASE Exit \/ Crash
  BY <1>2, <1>8, <1>11 DEF Exit, Crash, LoseMemory
<1>12. CASE RecoverFile
  <2>1. PICK f \in files : RecoverActiveFile(f) \/ RestoreConsumingFile(f)
    BY <1>12 DEF RecoverFile, InDir
  <2> QED
    BY <1>1, <1>12, <2>1, MovedApart, DiskMoves DEF RecoverFile
<1>13. CASE FinishStart
  <2> DEFINE unreadable == {f \in InDir("sealed") : ~Readable(f)}
             scanned == (files \ unreadable)
                          \cup {MovedTo(f, "bad") : f \in unreadable}
  <2>1. OpenWriter(scanned)
    BY <1>13 DEF FinishStart
  <2>2. \A f \in unreadable : /\ f \in files /\ MovedTo(f, "bad") \in File
                              /\ MovedTo(f, "bad").seq = f.seq
                              /\ MovedTo(f, "bad").batches = f.batches
    <3>1. \A f \in unreadable : f \in files /\ f \in File
      BY <1>1 DEF InDir, BacklogTypeOK
    <3> QED
      BY <3>1, MovedType DEF MovedTo, Dirs, File
  <2>3. scanned \in SUBSET File
    BY <1>1, <2>2 DEF BacklogTypeOK
  <2>4. Apart(scanned)
    BY <1>1, <2>2 DEF Apart
  <2>5. BatchesIn(scanned) \subseteq BatchesIn(files)
    BY <2>2 DEF BatchesIn
  <2> HIDE DEF scanned, unreadable
  <2>6. Apart(files') /\ BatchesIn(files') \subseteq BatchesIn(files)
    BY <2>1, <2>3, <2>4, <2>5, OpenWriterApart
  <2> QED
    BY <1>13, <2>6, DiskMoves DEF FinishStart
<1>14. CASE UNCHANGED vars
  BY <1>2, <1>14 DEF vars
<1> QED
  BY <1>3, <1>4, <1>5, <1>6, <1>7, <1>9, <1>10, <1>11, <1>12, <1>13, <1>14
     DEF Next, Flusher, LiveSteps, Startup

(* The claim is a file on disk, and the flusher is idle while nothing serves. *)

IdleWhenDown == ~Serving => pc = "select"

ClaimOnDisk ==
  /\ IdleWhenDown
  /\ claim \subseteq files
  /\ claim # {} => pc \in {"replay", "replayed"}

LEMMA ClaimOnDiskStep ==
  ASSUME TypeOK, ClaimOnDisk, [Next]_vars
  PROVE  ClaimOnDisk'
<1> USE DEF ClaimOnDisk, IdleWhenDown, Serving, clientVars, analyticsVars,
            workVars, backlogVars
<1>1. CASE Handlers
  BY <1>1 DEF Handlers, Enqueue, SendCompletes, SendFails, SendCancelled
<1>2. CASE Receive \/ TimerTick \/ SeeShutdown
  BY <1>2 DEF Receive, TimerTick, SeeShutdown, Listening, BeginFlush
<1>3. CASE ClaimBacklog
  BY <1>3 DEF ClaimBacklog, ClaimFile, Move, Replaced
<1>4. CASE ReplayCommits
  BY <1>4 DEF ReplayCommits
<1>5. CASE SkipBacklog \/ QuarantineUnreadable
  BY <1>5 DEF SkipBacklog, QuarantineUnreadable
<1>6. CASE ReplayOk \/ ReplayFails \/ ReplayMismatch
  BY <1>6 DEF ReplayOk, ReplayFails, ReplayMismatch
<1>7. CASE LiveSteps
  BY <1>7 DEF LiveSteps, NothingBuffered, TakeBuffer, LiveCommits, LiveOk,
              LiveFails, Park, Forward
<1>8. CASE WindowElapses \/ StoreSteps \/ Shutdown \/ Startup
  BY <1>8 DEF WindowElapses, StoreSteps, Shutdown, Startup, Start, RecoverFile,
              FinishStart
<1>9. CASE Exit \/ Crash
  BY <1>9 DEF Exit, Crash, LoseMemory
<1>10. CASE UNCHANGED vars
  BY <1>10 DEF vars
<1> QED
  BY <1>1, <1>2, <1>3, <1>4, <1>5, <1>6, <1>7, <1>8, <1>9, <1>10
     DEF Next, Flusher, ReplaySteps

(* No rename or creation of a backlog file ever hits another file, and no batch
   is stored twice, under every fault: sealing, parking, claiming, restoring,
   quarantining and every recovery keep file sequences unique. *)
THEOREM OneCopy == Spec => []OneCopyOnDisk
<1> DEFINE Inv == TypeOK /\ ClaimOnDisk /\ DiskInv
<1>1. Init => Inv
  BY InitType
     DEF Init, StoreInit, BacklogInit, ClaimOnDisk, IdleWhenDown, DiskInv,
         OneCopyOnDisk, HandIsNew, StoredAreUsed, BatchesIn, ActiveFile
<1>2. Inv /\ [Next]_vars => Inv'
  BY NextType, ClaimOnDiskStep, DiskStep DEF ClaimOnDisk
<1>3. Inv => OneCopyOnDisk
  BY DEF DiskInv
<1> QED
  BY <1>1, <1>2, <1>3, PTL DEF Spec
--------------------------------------------------------------------------------
(* At most once.  The inductive invariant: a batch that a later step may apply
   again has its marker if the row, or a row an admin patch is about to write,
   contains it; and marker pruning finds no such batch, because while the
   process serves, every file with batches is sealed or claimed.  The second
   half needs that sealing and moving files do not fail, and that no other
   node prunes. *)

StrandingFaults == {"seal", "claim", "peer"}

(* Batches a later step may apply. *)
Held == BatchesIn({f \in files : f.dir # "bad"}) \cup hand

InRow(b) == charged[b] # 0 \/ \E row \in patch : row[b] # 0

HeldHaveMarkers == \A b \in Held : InRow(b) => b \in markers

HeldAreUsed == \A b \in Held : content[b] # {}

UnusedAreClean == \A b \in BatchIds : content[b] = {} => ~InRow(b)

AddedOnce ==
  \A b \in BatchIds : charged[b] <= 1 /\ \A row \in patch : row[b] <= 1

ChargeInv == HeldHaveMarkers /\ HeldAreUsed /\ UnusedAreClean /\ AddedOnce

ClaimShape ==
  /\ claim # {} => pc \in {"replay", "replayed"}
  /\ \A f \in claim : f \in files /\ f.dir = "consuming"
  /\ \A f, g \in claim : f = g

HandShape == hand # {} => pc \in {"apply", "applied", "park"}

(* While the process serves, parked batches are sealed or claimed.           *)
Settled ==
  Serving => \A f \in files :
    /\ f.dir = "active" => f.batches = {}
    /\ f.dir = "consuming" => f \in claim

PlaceInv == ClaimShape /\ HandShape /\ Settled /\ IdleWhenDown

LEMMA InitOnce == Init => EventsApart /\ ChargeInv /\ PlaceInv
BY DEF Init, StoreInit, BacklogInit, EventsApart, ChargeInv, HeldHaveMarkers,
       HeldAreUsed, UnusedAreClean, AddedOnce, Held, InRow, BatchesIn,
       ActiveFile, PlaceInv, ClaimShape, HandShape, Settled, IdleWhenDown

(* The charge invariant under the database's steps and under steps that only
   move or drop held batches. *)

LEMMA HeldTyped ==
  ASSUME TypeOK
  PROVE  Held \in SUBSET BatchIds
BY DEF TypeOK, BacklogTypeOK, Held, BatchesIn, File

LEMMA ChargeMoves ==
  ASSUME ChargeInv, Held' \subseteq Held, UNCHANGED <<storeVars, content>>
  PROVE  ChargeInv'
BY DEF ChargeInv, HeldHaveMarkers, HeldAreUsed, UnusedAreClean, AddedOnce,
       InRow, storeVars

LEMMA ChargeApplies ==
  ASSUME TypeOK, ChargeInv, NEW S \in SUBSET Held, ApplyBatches(S),
         Held' = Held, UNCHANGED content
  PROVE  ChargeInv'
<1> USE DEF ChargeInv, InRow, ApplyBatches
<1>1. charged \in [BatchIds -> Nat] /\ S \in SUBSET BatchIds
  BY HeldTyped DEF TypeOK, StoreTypeOK
<1>2. \A b \in S \ markers : charged[b] = 0 /\ content[b] # {}
  BY DEF HeldHaveMarkers, HeldAreUsed
<1>3. \A b \in BatchIds : b \notin S \ markers => charged'[b] = charged[b]
  BY <1>1
<1>4. \A b \in S \ markers : charged'[b] = 1
  BY <1>1, <1>2
<1>5. HeldHaveMarkers'
  BY <1>3, <1>4, HeldTyped DEF HeldHaveMarkers
<1>6. HeldAreUsed'
  BY DEF HeldAreUsed
<1>7. UnusedAreClean'
  BY <1>2, <1>3 DEF UnusedAreClean
<1>8. AddedOnce'
  BY <1>3, <1>4 DEF AddedOnce
<1> QED
  BY <1>5, <1>6, <1>7, <1>8

LEMMA ChargePrunes ==
  ASSUME ChargeInv, Held = {}, PruneMarkers, Held' = Held, UNCHANGED content
  PROVE  ChargeInv'
BY DEF ChargeInv, HeldHaveMarkers, HeldAreUsed, UnusedAreClean, AddedOnce,
       InRow, PruneMarkers

LEMMA ChargePatches ==
  ASSUME TypeOK, ChargeInv, AgeMarkers \/ LoadKeyBundle \/ UpsertKeyBundle,
         Held' = Held, UNCHANGED content
  PROVE  ChargeInv'
<1> USE DEF ChargeInv, HeldHaveMarkers, HeldAreUsed, UnusedAreClean, AddedOnce,
            InRow
<1>1. CASE AgeMarkers
  BY <1>1 DEF AgeMarkers
<1>2. CASE LoadKeyBundle
  BY <1>2 DEF LoadKeyBundle
<1>3. CASE UpsertKeyBundle
  <2> PICK row \in patch : charged' = row /\ patch' = patch \ {row}
                           /\ UNCHANGED <<markers, expired>>
    BY <1>3 DEF UpsertKeyBundle
  <2> QED
    OBVIOUS
<1> QED
  BY <1>1, <1>2, <1>3

(* What the moves of a file do to the batches a later step may apply.        *)
LEMMA HeldMoves ==
  ASSUME NEW f \in files, f.dir # "bad", BacklogTypeOK, UNCHANGED hand,
         \/ \E d \in Dirs : Move(f, d)
         \/ CompleteClaim(f)
         \/ RestoreClaim(f)
         \/ QuarantineClaim(f)
         \/ RestoreConsumingFile(f)
         \/ RecoverActiveFile(f)
  PROVE  Held' \subseteq Held
<1>1. ASSUME NEW g, g.batches = f.batches, files' = Replaced(f, g)
      PROVE  Held' \subseteq Held
  BY <1>1 DEF Held, BatchesIn, Replaced
<1>2. f \in File
  BY DEF BacklogTypeOK
<1>3. \A d : MovedTo(f, d).batches = f.batches
  BY <1>2 DEF MovedTo, File
<1>4. \A d : Move(f, d) => Held' \subseteq Held
  BY <1>1, <1>3 DEF Move
<1>5. [f EXCEPT !.dir = "sealed", !.body = "whole"].batches = f.batches
  BY <1>2 DEF File
<1>6. files' = files \ {f} => Held' \subseteq Held
  BY DEF Held, BatchesIn
<1>7. UNCHANGED files => Held' \subseteq Held
  BY DEF Held, BatchesIn
<1>8. RecoverActiveFile(f) => Held' \subseteq Held
  BY <1>1, <1>4, <1>5, <1>6 DEF RecoverActiveFile
<1> QED
  BY <1>4, <1>6, <1>7, <1>8
     DEF CompleteClaim, RestoreClaim, QuarantineClaim, RestoreConsumingFile

(* Appending adds the parked batch to a file at most.                        *)
LEMMA HeldAppends ==
  ASSUME BacklogTypeOK, NEW b \in hand, hand \in SUBSET BatchIds, hand' = {},
         AppendBatches(b) \/ AppendInterrupted(b)
  PROVE  Held' \subseteq Held
<1>1. ASSUME NEW f \in files, f.dir = "active",
             NEW g, g.batches \subseteq f.batches \cup {b},
             files' \subseteq Replaced(f, g) \cup {ActiveFile(n) : n \in 1..MaxSequence}
      PROVE  Held' \subseteq Held
  BY <1>1 DEF Held, BatchesIn, Replaced, ActiveFile
<1>2. ASSUME NEW f \in files
      PROVE  /\ WithBlock(f, b).batches \subseteq f.batches \cup {b}
             /\ \A d : MovedTo(WithBlock(f, b), d).batches = WithBlock(f, b).batches
             /\ WithTornTail(f).batches = f.batches
  <2>1. WithBlock(f, b) \in File
    BY BlockTypes DEF BacklogTypeOK
  <2> QED
    BY <2>1 DEF WithBlock, WithTornTail, MovedTo, BacklogTypeOK, File
<1>3. CASE UNCHANGED files
  BY <1>3 DEF Held, BatchesIn
<1>4. ASSUME files' \in CutShort
      PROVE  Held' \subseteq Held
  BY <1>1, <1>2, <1>4 DEF CutShort, InDir
<1>5. ASSUME files' \in NotSealed(b)
      PROVE  Held' \subseteq Held
  BY <1>1, <1>2, <1>5 DEF NotSealed, InDir
<1>6. ASSUME files' \in NotReopened(b)
      PROVE  Held' \subseteq Held
  BY <1>1, <1>2, <1>6 DEF NotReopened, InDir
<1>7. CASE AppendSeals(b)
  <2>1. PICK f \in InDir("active") :
          OpenWriter(Replaced(f, MovedTo(WithBlock(f, b), "sealed")))
    BY <1>7 DEF AppendSeals
  <2>2. files' \subseteq Replaced(f, MovedTo(WithBlock(f, b), "sealed"))
                         \cup {ActiveFile(n) : n \in 1..MaxSequence}
    BY <2>1 DEF OpenWriter
  <2>3. f \in files /\ f.dir = "active"
    BY DEF InDir
  <2> QED
    BY <1>1, <1>2, <2>2, <2>3
<1> QED
  BY <1>3, <1>4, <1>5, <1>6, <1>7
     DEF AppendBatches, AppendRefused, backlogVars, AppendCutShort,
         AppendNotSealed, AppendNotReopened, AppendInterrupted

(* Nothing is held when the flush timer finds the sealed directory empty.    *)
LEMMA PruneFindsNothing ==
  ASSUME TypeOK, PlaceInv, Listening, InDir("sealed") = {}
  PROVE  Held = {}
<1>1. hand = {} /\ claim = {} /\ Serving
  BY DEF PlaceInv, ClaimShape, HandShape, Listening, Serving
<1>2. \A f \in files : f.dir # "bad" => f.batches = {}
  BY <1>1 DEF PlaceInv, Settled, TypeOK, BacklogTypeOK, File, Dirs, InDir
<1> QED
  BY <1>1, <1>2 DEF Held, BatchesIn

LEMMA ChargeReplay ==
  ASSUME TypeOK, PlaceInv, ChargeInv, ReplaySteps
  PROVE  ChargeInv'
<1> USE DEF clientVars, analyticsVars, workVars
<1>1. BacklogTypeOK /\ \A f \in claim : f \in files /\ f.dir # "bad"
  BY DEF TypeOK, PlaceInv, ClaimShape
<1>2. \A f \in InDir("sealed") : f \in files /\ f.dir # "bad"
  BY DEF InDir
<1>3. CASE SkipBacklog
  BY <1>3, ChargeMoves DEF SkipBacklog, backlogVars, Held, BatchesIn
<1>4. CASE ClaimBacklog
  <2>1. PICK f \in InDir("sealed") : Move(f, "consuming")
    BY <1>4 DEF ClaimBacklog, ClaimFile, IsOldest
  <2>2. Held' \subseteq Held
    BY <1>1, <1>2, <1>4, <2>1, HeldMoves DEF ClaimBacklog, Dirs
  <2> QED
    BY <1>4, <2>2, ChargeMoves DEF ClaimBacklog
<1>5. CASE QuarantineUnreadable
  <2>1. PICK f \in InDir("sealed") : QuarantineClaim(f) \/ Move(f, "consuming")
    BY <1>5 DEF QuarantineUnreadable, ClaimFile
  <2>2. Held' \subseteq Held
    BY <1>1, <1>2, <1>5, <2>1, HeldMoves DEF QuarantineUnreadable, Dirs
  <2> QED
    BY <1>5, <2>2, ChargeMoves DEF QuarantineUnreadable
<1>6. CASE ReplayCommits
  <2>1. BatchesIn(claim) \in SUBSET Held
    BY <1>1 DEF BatchesIn, Held
  <2>2. Held' = Held /\ UNCHANGED content /\ ApplyBatches(BatchesIn(claim))
    BY <1>6 DEF ReplayCommits, backlogVars, Held, BatchesIn
  <2> QED
    BY <2>1, <2>2, ChargeApplies
<1>7. CASE ReplayOk
  <2>1. Held' \subseteq Held
    BY <1>1, <1>7, HeldMoves DEF ReplayOk
  <2> QED
    BY <1>7, <2>1, ChargeMoves DEF ReplayOk
<1>8. CASE ReplayFails
  <2>1. Held' \subseteq Held
    BY <1>1, <1>8, HeldMoves DEF ReplayFails
  <2> QED
    BY <1>8, <2>1, ChargeMoves DEF ReplayFails
<1>9. CASE ReplayMismatch
  <2>1. PICK f \in claim : QuarantineClaim(f) \/ UNCHANGED files
    BY <1>9 DEF ReplayMismatch
  <2>2. Held' \subseteq Held
    <3>1. CASE QuarantineClaim(f)
      BY <1>1, <1>9, <3>1, HeldMoves DEF ReplayMismatch
    <3>2. CASE UNCHANGED files
      BY <1>9, <3>2 DEF ReplayMismatch, Held, BatchesIn
    <3> QED
      BY <2>1, <3>1, <3>2
  <2> QED
    BY <1>9, <2>2, ChargeMoves DEF ReplayMismatch
<1> QED
  BY <1>3, <1>4, <1>5, <1>6, <1>7, <1>8, <1>9 DEF ReplaySteps

LEMMA ChargeLive ==
  ASSUME TypeOK, PlaceInv, ChargeInv, LiveSteps
  PROVE  ChargeInv'
<1> USE DEF clientVars, analyticsVars, workVars
<1>1. CASE NothingBuffered \/ LiveFails \/ Forward
  BY <1>1, ChargeMoves
     DEF NothingBuffered, LiveFails, Forward, backlogVars, Held, BatchesIn
<1>2. CASE TakeBuffer
  <2>1. PICK b \in BatchIds :
          /\ content[b] = {}
          /\ content' = [content EXCEPT ![b] = buffer]
          /\ hand' = {b}
    BY <1>2 DEF TakeBuffer
  <2>2. buffer # {} /\ UNCHANGED files /\ UNCHANGED storeVars
    BY <1>2 DEF TakeBuffer, backlogVars
  <2>3. Held' \subseteq Held \cup {b}
    BY <2>1, <2>2 DEF Held, BatchesIn
  <2>4. ~InRow(b) /\ \A c : InRow(c)' = InRow(c)
    BY <2>1, <2>2 DEF ChargeInv, UnusedAreClean, InRow, storeVars
  <2>5. content'[b] # {} /\ \A c \in BatchIds : c # b => content'[c] = content[c]
    BY <2>1, <2>2 DEF TypeOK
  <2>6. HeldHaveMarkers'
    BY <2>2, <2>3, <2>4 DEF ChargeInv, HeldHaveMarkers, storeVars
  <2>7. HeldAreUsed'
    BY <2>3, <2>5, HeldTyped DEF ChargeInv, HeldAreUsed
  <2>8. UnusedAreClean' /\ AddedOnce'
    BY <2>2, <2>4, <2>5 DEF ChargeInv, UnusedAreClean, AddedOnce, storeVars
  <2> QED
    BY <2>6, <2>7, <2>8 DEF ChargeInv
<1>3. CASE LiveCommits
  <2>1. Held' = Held /\ UNCHANGED content /\ ApplyBatches(hand)
    BY <1>3 DEF LiveCommits, backlogVars, Held, BatchesIn
  <2>2. hand \in SUBSET Held
    BY DEF Held
  <2> QED
    BY <2>1, <2>2, ChargeApplies
<1>4. CASE LiveOk
  BY <1>4, ChargeMoves DEF LiveOk, backlogVars, Held, BatchesIn
<1>5. CASE Park
  <2>1. Held' \subseteq Held
    BY <1>5, HeldAppends DEF Park, TypeOK
  <2> QED
    BY <1>5, <2>1, ChargeMoves DEF Park
<1> QED
  BY <1>1, <1>2, <1>3, <1>4, <1>5 DEF LiveSteps

LEMMA ChargeLife ==
  ASSUME TypeOK, ChargeInv, Startup \/ Exit \/ Crash
  PROVE  ChargeInv'
<1> USE DEF clientVars, analyticsVars, workVars
<1>1. CASE Start
  BY <1>1, ChargeMoves DEF Start, backlogVars, Held, BatchesIn
<1>2. CASE RecoverFile
  <2>1. PICK f \in files :
          f.dir # "bad" /\ (RecoverActiveFile(f) \/ RestoreConsumingFile(f))
    BY <1>2 DEF RecoverFile, InDir
  <2>2. Held' \subseteq Held
    BY <1>2, <2>1, HeldMoves DEF RecoverFile, TypeOK
  <2> QED
    BY <1>2, <2>2, ChargeMoves DEF RecoverFile
<1>3. CASE FinishStart
  <2> DEFINE unreadable == {f \in InDir("sealed") : ~Readable(f)}
             scanned == (files \ unreadable)
                          \cup {MovedTo(f, "bad") : f \in unreadable}
  <2>1. OpenWriter(scanned)
    BY <1>3 DEF FinishStart
  <2>2. \A f \in files' : f \in files \/ f.dir = "bad" \/ f.batches = {}
    <3>1. \A f \in unreadable : MovedTo(f, "bad").dir = "bad"
      BY DEF MovedTo, InDir, TypeOK, BacklogTypeOK, File
    <3> QED
      BY <2>1, <3>1 DEF OpenWriter, ActiveFile
  <2> HIDE DEF scanned, unreadable
  <2>3. Held' \subseteq Held
    BY <1>3, <2>2 DEF FinishStart, Held, BatchesIn
  <2> QED
    BY <1>3, <2>3, ChargeMoves DEF FinishStart
<1>4. CASE Exit
  BY <1>4, ChargeMoves DEF Exit, LoseMemory, Held, BatchesIn
<1>5. CASE Crash
  <2>1. Held' \subseteq Held
    <3>1. CASE UNCHANGED files
      BY <1>5, <3>1 DEF Crash, LoseMemory, Held, BatchesIn
    <3>2. CASE \E b \in hand : AppendInterrupted(b)
      BY <1>5, <3>2, HeldAppends DEF Crash, LoseMemory, TypeOK
    <3> QED
      BY <1>5, <3>1, <3>2 DEF Crash
  <2> QED
    BY <1>5, <2>1, ChargeMoves DEF Crash, LoseMemory
<1> QED
  BY <1>1, <1>2, <1>3, <1>4, <1>5 DEF Startup

LEMMA ChargeStep ==
  ASSUME TypeOK, PlaceInv, ChargeInv, [Next]_vars,
         Faults \cap StrandingFaults = {}
  PROVE  ChargeInv'
<1> USE DEF clientVars, analyticsVars, workVars
<1>1. CASE Handlers
  <2>1. UNCHANGED <<storeVars, backlogVars, hand, content>>
    BY <1>1 DEF Handlers, Enqueue, SendCompletes, SendFails, SendCancelled
  <2> QED
    BY <2>1, ChargeMoves DEF backlogVars, Held, BatchesIn
<1>2. CASE Receive \/ SeeShutdown \/ WindowElapses \/ Shutdown
  <2>1. UNCHANGED <<storeVars, backlogVars, hand, content>>
    BY <1>2 DEF Receive, SeeShutdown, WindowElapses, Shutdown
  <2> QED
    BY <2>1, ChargeMoves DEF backlogVars, Held, BatchesIn
<1>3. CASE TimerTick
  <2>1. Held' = Held /\ UNCHANGED content
    BY <1>3 DEF TimerTick, backlogVars, Held, BatchesIn
  <2>2. CASE UNCHANGED storeVars
    BY <2>1, <2>2, ChargeMoves
  <2>3. CASE InDir("sealed") = {} /\ PruneMarkers
    BY <1>3, <2>1, <2>3, PruneFindsNothing, ChargePrunes DEF TimerTick
  <2> QED
    BY <1>3, <2>2, <2>3 DEF TimerTick, PruneIfDue
<1>4. CASE ReplaySteps
  BY <1>4, ChargeReplay
<1>5. CASE LiveSteps
  BY <1>5, ChargeLive
<1>6. CASE StoreSteps
  <2>1. Held' = Held /\ UNCHANGED content
    BY <1>6 DEF StoreSteps, backlogVars, Held, BatchesIn
  <2> QED
    BY <1>6, <2>1, ChargePatches DEF StoreSteps, StrandingFaults
<1>7. CASE Startup \/ Exit \/ Crash
  BY <1>7, ChargeLife
<1>8. CASE UNCHANGED vars
  BY <1>8, ChargeMoves DEF vars, backlogVars, Held, BatchesIn
<1> QED
  BY <1>1, <1>2, <1>3, <1>4, <1>5, <1>6, <1>7, <1>8 DEF Next, Flusher

(* The place invariant. *)

LEMMA PlaceReplay ==
  ASSUME TypeOK, DiskInv, PlaceInv, ReplaySteps,
         Faults \cap StrandingFaults = {}
  PROVE  PlaceInv'
<1> USE DEF PlaceInv, ClaimShape, HandShape, Settled, IdleWhenDown, Serving,
            clientVars, analyticsVars, workVars
<1>1. ~ClaimFault
  BY DEF ClaimFault, StrandingFaults
<1>2. \A f \in files : f \in File /\ \A d : MovedTo(f, d).dir = d
  BY DEF TypeOK, BacklogTypeOK, MovedTo, File
<1>3. CASE SkipBacklog \/ ReplayCommits
  BY <1>3 DEF SkipBacklog, ReplayCommits, backlogVars
<1>4. CASE ClaimBacklog
  <2>1. PICK f \in files : /\ f.dir = "sealed"
                           /\ Move(f, "consuming")
                           /\ claim' = {MovedTo(f, "consuming")}
    BY <1>4 DEF ClaimBacklog, ClaimFile, IsOldest, InDir
  <2>2. claim = {} /\ hand = {}
    BY <1>4 DEF ClaimBacklog
  <2> QED
    BY <1>2, <1>4, <2>1, <2>2 DEF ClaimBacklog, Move, Replaced
<1>5. CASE QuarantineUnreadable
  <2>1. PICK f \in files : Move(f, "bad")
    BY <1>1, <1>5 DEF QuarantineUnreadable, QuarantineClaim, InDir
  <2> QED
    BY <1>2, <1>5, <2>1 DEF QuarantineUnreadable, Move, Replaced
<1>6. CASE ReplayOk
  <2>1. PICK f \in claim : files' = files \ {f}
    BY <1>1, <1>6 DEF ReplayOk, CompleteClaim
  <2> QED
    BY <1>6, <2>1 DEF ReplayOk
<1>7. CASE ReplayFails
  <2>1. PICK f \in claim : RestoreClaim(f)
    BY <1>7 DEF ReplayFails
  <2>2. ~ \E g \in InDir("sealed") : g.seq = f.seq
    BY DEF DiskInv, OneCopyOnDisk, InDir
  <2>3. Move(f, "sealed")
    BY <1>1, <2>1, <2>2 DEF RestoreClaim
  <2> QED
    BY <1>2, <1>7, <2>3 DEF ReplayFails, Move, Replaced
<1>8. CASE ReplayMismatch
  <2>1. PICK f \in claim : Move(f, "bad")
    BY <1>1, <1>8 DEF ReplayMismatch, QuarantineClaim
  <2> QED
    BY <1>2, <1>8, <2>1 DEF ReplayMismatch, Move, Replaced
<1> QED
  BY <1>3, <1>4, <1>5, <1>6, <1>7, <1>8 DEF ReplaySteps

LEMMA PlaceLive ==
  ASSUME TypeOK, PlaceInv, LiveSteps, Faults \cap StrandingFaults = {}
  PROVE  PlaceInv'
<1> USE DEF PlaceInv, ClaimShape, HandShape, Settled, IdleWhenDown, Serving,
            clientVars, analyticsVars, workVars
<1>1. CASE NothingBuffered \/ LiveCommits \/ LiveOk \/ LiveFails \/ Forward
  BY <1>1 DEF NothingBuffered, LiveCommits, LiveOk, LiveFails, Forward, backlogVars
<1>2. CASE TakeBuffer
  BY <1>2 DEF TakeBuffer, backlogVars
<1>3. CASE Park
  <2>1. claim = {} /\ claim' = {} /\ Serving
    BY <1>3 DEF Park
  <2>2. PICK b \in hand : AppendBatches(b)
    BY <1>3 DEF Park
  <2>3. ~AppendNotSealed(b) /\ ~AppendNotReopened(b)
    BY DEF AppendNotSealed, AppendNotReopened, StrandingFaults
  <2>4. \A f \in files' : /\ f.dir = "active" => f.batches = {}
                          /\ f.dir # "consuming"
    <3>1. CASE UNCHANGED files
      BY <2>1, <3>1
    <3>2. CASE files' \in CutShort
      <4>1. PICK f \in files : f.dir = "active" /\ files' = Replaced(f, WithTornTail(f))
        BY <3>2 DEF CutShort, InDir
      <4>2. WithTornTail(f).dir = "active" /\ WithTornTail(f).batches = f.batches
        BY <4>1 DEF WithTornTail, TypeOK, BacklogTypeOK, File
      <4> QED
        BY <2>1, <4>1, <4>2 DEF Replaced
    <3>3. CASE AppendSeals(b)
      <4>1. PICK f \in files :
              OpenWriter(Replaced(f, MovedTo(WithBlock(f, b), "sealed")))
        BY <3>3 DEF AppendSeals, InDir
      <4>2. MovedTo(WithBlock(f, b), "sealed").dir = "sealed"
        BY BlockTypes DEF MovedTo, TypeOK, BacklogTypeOK, File
      <4> QED
        BY <2>1, <4>1, <4>2 DEF OpenWriter, Replaced, ActiveFile
    <3> QED
      BY <2>2, <2>3, <3>1, <3>2, <3>3
         DEF AppendBatches, AppendRefused, AppendCutShort, backlogVars
  <2> QED
    BY <1>3, <2>1, <2>4 DEF Park
<1> QED
  BY <1>1, <1>2, <1>3 DEF LiveSteps

LEMMA PlaceStep ==
  ASSUME TypeOK, DiskInv, PlaceInv, [Next]_vars, Faults \cap StrandingFaults = {}
  PROVE  PlaceInv'
<1> USE DEF PlaceInv, ClaimShape, HandShape, Settled, IdleWhenDown, Serving,
            clientVars, analyticsVars, workVars, backlogVars
<1>1. CASE Handlers
  BY <1>1 DEF Handlers, Enqueue, SendCompletes, SendFails, SendCancelled
<1>2. CASE Receive \/ TimerTick \/ SeeShutdown
  BY <1>2 DEF Receive, TimerTick, SeeShutdown, Listening, BeginFlush
<1>3. CASE ReplaySteps
  BY <1>3, PlaceReplay
<1>4. CASE LiveSteps
  BY <1>4, PlaceLive
<1>5. CASE WindowElapses \/ StoreSteps \/ Shutdown
  BY <1>5 DEF WindowElapses, StoreSteps, Shutdown
<1>6. CASE Exit \/ Crash
  BY <1>6 DEF Exit, Crash, LoseMemory
<1>7. CASE Start
  BY <1>7 DEF Start
<1>8. CASE RecoverFile
  BY <1>8 DEF RecoverFile
<1>9. CASE FinishStart
  <2> DEFINE unreadable == {f \in InDir("sealed") : ~Readable(f)}
             scanned == (files \ unreadable)
                          \cup {MovedTo(f, "bad") : f \in unreadable}
  <2>1. OpenWriter(scanned)
    BY <1>9 DEF FinishStart
  <2>2. \A f \in files : f.dir \notin {"active", "consuming"}
    BY <1>9 DEF FinishStart, InDir
  <2>3. \A f \in unreadable : MovedTo(f, "bad").dir = "bad"
    BY DEF MovedTo, InDir, TypeOK, BacklogTypeOK, File
  <2>4. \A f \in files' : /\ f.dir = "active" => f.batches = {}
                          /\ f.dir # "consuming"
    BY <2>1, <2>2, <2>3 DEF OpenWriter, ActiveFile
  <2> HIDE DEF scanned, unreadable
  <2>5. claim' = {} /\ hand' = {} /\ UNCHANGED pc /\ pc = "select"
    BY <1>9 DEF FinishStart
  <2> QED
    BY <2>4, <2>5
<1>10. CASE UNCHANGED vars
  BY <1>10 DEF vars
<1> QED
  BY <1>1, <1>2, <1>3, <1>4, <1>5, <1>6, <1>7, <1>8, <1>9, <1>10
     DEF Next, Flusher, Startup

OnceInv == TypeOK /\ EventsApart /\ ClaimOnDisk /\ DiskInv /\ ChargeInv /\ PlaceInv

LEMMA OnceInvariant ==
  ASSUME Faults \cap StrandingFaults = {}
  PROVE  Spec => []OnceInv
<1>1. Init => OnceInv
  <2>1. Init => ClaimOnDisk /\ DiskInv
    BY DEF Init, StoreInit, BacklogInit, ClaimOnDisk, IdleWhenDown, DiskInv,
           OneCopyOnDisk, HandIsNew, StoredAreUsed, BatchesIn, ActiveFile
  <2> QED
    BY <2>1, InitType, InitOnce DEF OnceInv
<1>2. OnceInv /\ [Next]_vars => OnceInv'
  <2> SUFFICES ASSUME OnceInv, [Next]_vars PROVE OnceInv'
    OBVIOUS
  <2>1. TypeOK' /\ EventsApart'
    BY NextType, EventsApartStep DEF OnceInv
  <2>2. ClaimOnDisk' /\ DiskInv'
    BY ClaimOnDiskStep, DiskStep DEF OnceInv, ClaimOnDisk
  <2>3. ChargeInv' /\ PlaceInv'
    BY ChargeStep, PlaceStep DEF OnceInv
  <2> QED
    BY <2>1, <2>2, <2>3 DEF OnceInv
<1> QED
  BY <1>1, <1>2, PTL DEF Spec

(* No usage is billed twice, in any number of events, batches, restarts, failed
   or unanswered transactions and admin patches, as long as sealing a parked
   batch and moving a claimed file do not fail and no other node prunes. *)
THEOREM AtMostOnce ==
  ASSUME Faults \cap StrandingFaults = {}
  PROVE  Spec => []BilledAtMostOnce
<1>1. OnceInv => BilledAtMostOnce
  BY DEF OnceInv, TypeOK, StoreTypeOK, EventsApart, ChargeInv, AddedOnce,
         BilledAtMostOnce
<1> QED
  BY <1>1, OnceInvariant, PTL

(* Under the same assumption, a billed batch that may be replayed still has its
   marker: pruning behind an empty sealed directory is then sound. *)
THEOREM Idempotent ==
  ASSUME Faults \cap StrandingFaults = {}
  PROVE  Spec => []ReplayIsIdempotent
<1>1. OnceInv => ReplayIsIdempotent
  <2> SUFFICES ASSUME OnceInv,
                      NEW b \in BatchesIn(Replayable) \cup hand, charged[b] >= 1
               PROVE  b \in markers
    BY DEF ReplayIsIdempotent
  <2>1. b \in Held
    BY DEF Held, Replayable, BatchesIn
  <2>2. charged[b] # 0
    BY <2>1, HeldTyped DEF OnceInv, TypeOK, StoreTypeOK
  <2> QED
    BY <2>1, <2>2 DEF OnceInv, ChargeInv, HeldHaveMarkers, InRow
<1> QED
  BY <1>1, OnceInvariant, PTL

--------------------------------------------------------------------------------
LEMMA NoAttemptStep ==
  ASSUME TypeOK, NoAttemptWhileSuspended, [Next]_vars
  PROVE  NoAttemptWhileSuspended'
<1> USE DEF NoAttemptWhileSuspended, Suspended, retryVars
<1>1. CASE Handlers
  BY <1>1 DEF Handlers, Enqueue, SendCompletes, SendFails, SendCancelled
<1>2. CASE Receive \/ TimerTick \/ SeeShutdown
  BY <1>2 DEF Receive, TimerTick, SeeShutdown, Listening, BeginFlush,
              ReenableIfReady
<1>3. CASE ReplaySteps
  BY <1>3 DEF ReplaySteps, SkipBacklog, ClaimBacklog, QuarantineUnreadable,
              ReplayCommits, ReplayOk, ReplayFails, ReplayMismatch
<1>4. CASE LiveSteps
  BY <1>4 DEF LiveSteps, NothingBuffered, TakeBuffer, LiveCommits, LiveOk,
              LiveFails, Park, Forward
<1>5. CASE WindowElapses \/ StoreSteps \/ Shutdown \/ Startup
  BY <1>5 DEF WindowElapses, StoreSteps, Shutdown, Startup, Start, RecoverFile,
              FinishStart
<1>6. CASE Exit \/ Crash
  BY <1>6 DEF Exit, Crash, LoseMemory
<1>7. CASE UNCHANGED vars
  BY <1>7 DEF vars
<1> QED
  BY <1>1, <1>2, <1>3, <1>4, <1>5, <1>6, <1>7 DEF Next, Flusher

(* The retry window is respected under every fault: a failure that suspends it
   ends the attempt that caused it, and neither path starts another one. *)
THEOREM WindowRespected == Spec => []NoAttemptWhileSuspended
<1>1. Init => NoAttemptWhileSuspended
  BY DEF Init, NoAttemptWhileSuspended
<1> QED
  BY <1>1, TypeCorrect, NoAttemptStep, PTL DEF Spec

--------------------------------------------------------------------------------
(* The sum over a set with at most one element, which is all BillsOf needs: the
   recursive function behind it exists and has the value one expects.  Sums over
   larger sets would take an induction. *)

(* "it" is the recursive function behind the sum of f over S. *)
Summed(f, S, it) ==
  it = [s \in SUBSET S |->
          IF s = {} THEN 0
          ELSE LET x == CHOOSE x \in s : TRUE IN f[x] + it[s \ {x}]]

LEMMA SumIsChosen ==
  ASSUME NEW f, NEW S
  PROVE  SumFunctionOnSet(f, S) = (CHOOSE it : Summed(f, S, it))[S]
BY DEF SumFunctionOnSet, FoldFunctionOnSet, MapThenFoldSet, Summed

LEMMA SumOfNone ==
  ASSUME NEW f
  PROVE  SumFunctionOnSet(f, {}) = 0
<1> DEFINE zero == [s \in SUBSET {} |-> 0]
<1>1. Summed(f, {}, zero)
  BY DEF Summed
<1> DEFINE it == CHOOSE it : Summed(f, {}, it)
<1>2. Summed(f, {}, it)
  BY <1>1
<1>3. it[{}] = 0
  BY <1>2 DEF Summed
<1> QED
  BY <1>3, SumIsChosen

LEMMA SummedOne ==
  ASSUME NEW f, NEW b, f[b] \in Nat, NEW it, Summed(f, {b}, it)
  PROVE  it[{b}] = f[b]
<1>1. it = [s \in SUBSET {b} |->
              IF s = {} THEN 0
              ELSE LET x == CHOOSE x \in s : TRUE IN f[x] + it[s \ {x}]]
  BY DEF Summed
<1>2. it[{}] = 0
  BY <1>1
<1>3. (CHOOSE x \in {b} : TRUE) = b /\ {b} \ {b} = {} /\ {b} \in SUBSET {b} /\ {b} # {}
  OBVIOUS
<1>4. it[{b}] = LET x == CHOOSE x \in {b} : TRUE IN f[x] + it[{b} \ {x}]
  BY <1>1, <1>3
<1>5. it[{b}] = f[b] + it[{}]
  BY <1>3, <1>4
<1> QED
  BY <1>2, <1>5

LEMMA SumOfOne ==
  ASSUME NEW f, NEW b, f[b] \in Nat
  PROVE  SumFunctionOnSet(f, {b}) = f[b]
<1> DEFINE one == [s \in SUBSET {b} |-> IF s = {} THEN 0 ELSE f[b]]
<1>1. Summed(f, {b}, one)
  <2>1. \A s \in SUBSET {b} : s # {} =>
          s = {b} /\ (CHOOSE x \in s : TRUE) = b /\ s \ {b} = {}
    OBVIOUS
  <2>2. \A s \in SUBSET {b} : one[s] =
          IF s = {} THEN 0
          ELSE LET x == CHOOSE x \in s : TRUE IN f[x] + one[s \ {x}]
    BY <2>1
  <2> QED
    BY <2>2 DEF Summed
<1>2. Summed(f, {b}, CHOOSE it : Summed(f, {b}, it))
  BY <1>1
<1> QED
  BY <1>2, SummedOne, SumIsChosen

--------------------------------------------------------------------------------
(* The ledger.  How often an event is billed is how often its batch is charged,
   since it is in one batch at most. *)

LEMMA BillsInBatch ==
  ASSUME NEW row \in [BatchIds -> Nat], NEW in \in [BatchIds -> SUBSET Events],
         \A b, c \in BatchIds : b # c => in[b] \cap in[c] = {},
         NEW e, NEW b \in BatchIds, e \in in[b]
  PROVE  SumFunctionOnSet(row, {c \in BatchIds : e \in in[c]}) = row[b]
<1>1. {c \in BatchIds : e \in in[c]} = {b}
  OBVIOUS
<1>2. row[b] \in Nat
  OBVIOUS
<1> QED
  BY <1>1, <1>2, SumOfOne

LEMMA BillsOutsideBatches ==
  ASSUME NEW in, NEW row, NEW e, \A b \in BatchIds : e \notin in[b]
  PROVE  SumFunctionOnSet(row, {c \in BatchIds : e \in in[c]}) = 0
<1>1. {c \in BatchIds : e \in in[c]} = {}
  OBVIOUS
<1> QED
  BY <1>1, SumOfNone

LEMMA BillsAreCharges ==
  ASSUME TypeOK, EventsApart
  PROVE  /\ \A e \in Events, b \in BatchIds : e \in content[b] => BillsOf(e) = charged[b]
         /\ \A e \in Events : (\A b \in BatchIds : e \notin content[b]) => BillsOf(e) = 0
         /\ \A e \in Events : e \notin BilledEvents => BillsOf(e) = 0
<1>1. /\ charged \in [BatchIds -> Nat] /\ content \in [BatchIds -> SUBSET Events]
      /\ \A b, c \in BatchIds : b # c => content[b] \cap content[c] = {}
  BY DEF TypeOK, StoreTypeOK, EventsApart
<1>2. ASSUME NEW e \in Events, NEW b \in BatchIds, e \in content[b]
      PROVE  BillsOf(e) = charged[b]
  BY <1>1, <1>2, BillsInBatch DEF BillsOf
<1>3. ASSUME NEW e \in Events, \A b \in BatchIds : e \notin content[b]
      PROVE  BillsOf(e) = 0
  BY <1>3, BillsOutsideBatches DEF BillsOf
<1>4. ASSUME NEW e \in Events, e \notin BilledEvents
      PROVE  BillsOf(e) = 0
  <2>1. ASSUME NEW b \in BatchIds, e \in content[b]
        PROVE  charged[b] = 0
    BY <1>1, <1>4, <2>1 DEF BilledEvents, ContentOf
  <2> QED
    BY <1>2, <1>3, <2>1
<1> QED
  BY <1>2, <1>3, <1>4

(* The same after a step. *)
LEMMA NextBillsAreCharges ==
  ASSUME TypeOK', EventsApart'
  PROVE  /\ \A e \in Events, b \in BatchIds :
              e \in content'[b] => BillsOf(e)' = charged'[b]
         /\ \A e \in Events :
              (\A b \in BatchIds : e \notin content'[b]) => BillsOf(e)' = 0
<1>1. /\ charged' \in [BatchIds -> Nat] /\ content' \in [BatchIds -> SUBSET Events]
      /\ \A b, c \in BatchIds : b # c => content'[b] \cap content'[c] = {}
  BY DEF TypeOK, StoreTypeOK, EventsApart
<1>2. ASSUME NEW e \in Events, NEW b \in BatchIds, e \in content'[b]
      PROVE  BillsOf(e)' = charged'[b]
  BY <1>1, <1>2, BillsInBatch DEF BillsOf
<1>3. ASSUME NEW e \in Events, \A b \in BatchIds : e \notin content'[b]
      PROVE  BillsOf(e)' = 0
  BY <1>3, BillsOutsideBatches DEF BillsOf
<1> QED
  BY <1>2, <1>3

(* What is buffered or in a batch was accepted, and a claimed file is readable. *)
AcceptedInv ==
  /\ accepted \cap fresh = {}
  /\ queue \subseteq accepted /\ buffer \subseteq accepted
  /\ \A b \in BatchIds : content[b] \subseteq accepted

ClaimWhole == \A f \in claim : f.body = "whole"

LEMMA AcceptedStep ==
  ASSUME TypeOK, EventsApart, AcceptedInv, [Next]_vars
  PROVE  AcceptedInv'
<1> USE DEF EventsApart, AcceptedInv, clientVars, workVars
<1>1. CASE Handlers
  BY <1>1 DEF Handlers, Enqueue, SendCompletes, SendFails, SendCancelled, workVars
<1>2. CASE Receive \/ TimerTick \/ SeeShutdown
  BY <1>2 DEF Receive, TimerTick, SeeShutdown, kSubset
<1>3. CASE ReplaySteps
  BY <1>3 DEF ReplaySteps, SkipBacklog, ClaimBacklog, QuarantineUnreadable,
              ReplayCommits, ReplayOk, ReplayFails, ReplayMismatch
<1>4. CASE TakeBuffer
  BY <1>4 DEF TakeBuffer, TypeOK
<1>5. CASE NothingBuffered \/ LiveCommits \/ LiveOk \/ LiveFails \/ Park \/ Forward
  BY <1>5 DEF NothingBuffered, LiveCommits, LiveOk, LiveFails, Park, Forward
<1>6. CASE WindowElapses \/ StoreSteps \/ Shutdown \/ Startup
  BY <1>6 DEF WindowElapses, StoreSteps, Shutdown, Startup, Start, RecoverFile,
              FinishStart
<1>7. CASE Exit \/ Crash
  BY <1>7 DEF Exit, Crash, LoseMemory
<1>8. CASE UNCHANGED vars
  BY <1>8 DEF vars
<1> QED
  BY <1>1, <1>2, <1>3, <1>4, <1>5, <1>6, <1>7, <1>8 DEF Next, Flusher, LiveSteps

LEMMA ClaimWholeStep ==
  ASSUME TypeOK, ClaimWhole, [Next]_vars
  PROVE  ClaimWhole'
<1> USE DEF ClaimWhole, workVars
<1>1. CASE Handlers
  BY <1>1 DEF Handlers, Enqueue, SendCompletes, SendFails, SendCancelled
<1>2. CASE Receive \/ TimerTick \/ SeeShutdown
  BY <1>2 DEF Receive, TimerTick, SeeShutdown
<1>3. CASE ClaimBacklog
  BY <1>3 DEF ClaimBacklog, Readable, MovedTo, TypeOK, BacklogTypeOK, File
<1>4. CASE SkipBacklog \/ QuarantineUnreadable \/ ReplayCommits \/ ReplayOk
           \/ ReplayFails \/ ReplayMismatch
  BY <1>4 DEF SkipBacklog, QuarantineUnreadable, ReplayCommits, ReplayOk,
              ReplayFails, ReplayMismatch
<1>5. CASE LiveSteps
  BY <1>5 DEF LiveSteps, NothingBuffered, TakeBuffer, LiveCommits, LiveOk,
              LiveFails, Park, Forward
<1>6. CASE WindowElapses \/ StoreSteps \/ Shutdown \/ Startup
  BY <1>6 DEF WindowElapses, StoreSteps, Shutdown, Startup, Start, RecoverFile,
              FinishStart
<1>7. CASE Exit \/ Crash
  BY <1>7 DEF Exit, Crash, LoseMemory
<1>8. CASE UNCHANGED vars
  BY <1>8 DEF vars
<1> QED
  BY <1>1, <1>2, <1>3, <1>4, <1>5, <1>6, <1>7, <1>8 DEF Next, Flusher, ReplaySteps
--------------------------------------------------------------------------------
(* Steps as the ledger sees them: a quiet step may only lose usage, an accepting
   step adds one event, and an applying step bills what it adds to the row. *)

Replayed == BatchesIn(Replayable)

Quiet ==
  /\ UNCHANGED <<charged, accepted>>
  /\ \A b \in BatchIds : content'[b] # content[b] => content[b] = {}
  /\ Outstanding' \subseteq Outstanding \cup fresh

Accepting ==
  /\ UNCHANGED <<charged, content>>
  /\ Outstanding' = Outstanding
  /\ \E e \in Outstanding \cap Events : accepted' = accepted \cup {e}

Applying ==
  /\ \E S \in SUBSET Held : ApplyBatches(S) /\ ContentOf(S) \subseteq Outstanding
  /\ UNCHANGED <<content, accepted>>
  /\ Outstanding' = Outstanding

LedgerInv == OnceInv /\ AcceptedInv /\ ClaimWhole

LEMMA QuietIsLoss ==
  ASSUME LedgerInv, OnceInv', Quiet
  PROVE  \E S \in SUBSET Events : Ledger!Lose(S)
<1> DEFINE out == accepted \ (BilledEvents \cup Outstanding)
           S == out' \ out
<1>1. /\ TypeOK /\ EventsApart /\ TypeOK' /\ EventsApart'
      /\ charged \in [BatchIds -> Nat] /\ accepted \subseteq Events
      /\ accepted \cap fresh = {}
  BY DEF LedgerInv, OnceInv, AcceptedInv, TypeOK, StoreTypeOK
<1>2. \A b \in BatchIds : content'[b] # content[b] => charged[b] = 0
  BY <1>1 DEF LedgerInv, OnceInv, ChargeInv, UnusedAreClean, InRow, Quiet
<1>3. BilledEvents' = BilledEvents
  BY <1>1, <1>2 DEF BilledEvents, ContentOf, Quiet
<1>4. \A e \in Events : BillsOf(e)' = BillsOf(e)
  <2> SUFFICES ASSUME NEW e \in Events PROVE BillsOf(e)' = BillsOf(e)
    OBVIOUS
  <2>1. CASE \E b \in BatchIds : e \in content[b]
    <3> PICK b \in BatchIds : e \in content[b]
      BY <2>1
    <3>1. content'[b] = content[b]
      BY DEF Quiet
    <3> QED
      BY <1>1, <3>1, BillsAreCharges, NextBillsAreCharges DEF Quiet
  <2>2. CASE \A b \in BatchIds : e \notin content[b]
    <3>1. BillsOf(e) = 0
      BY <1>1, <2>2, BillsAreCharges
    <3>2. \A b \in BatchIds : e \in content'[b] => charged'[b] = 0
      BY <1>2, <2>2 DEF Quiet
    <3> QED
      BY <1>1, <3>1, <3>2, NextBillsAreCharges
  <2> QED
    BY <2>1, <2>2
<1>5. [e \in Events |-> BillsOf(e)]' = [e \in Events |-> BillsOf(e)]
  BY <1>4
<1>6. out' = out \cup S /\ S \subseteq accepted \ out /\ S \cap BilledEvents = {}
  BY <1>1, <1>3 DEF Quiet
<1>7. \A e \in S : BillsOf(e) = 0
  BY <1>1, <1>6, BillsAreCharges
<1>8. Ledger!Lose(S)
  BY <1>1, <1>5, <1>6, <1>7 DEF Ledger!Lose, Ledger!Unbilled, Quiet
<1> QED
  BY <1>1, <1>6, <1>8

LEMMA AcceptingIsAccept ==
  ASSUME LedgerInv, OnceInv', Accepting
  PROVE  \E e \in Events : Ledger!Accept(e)
<1>1. PICK e \in Outstanding \cap Events : accepted' = accepted \cup {e}
  BY DEF Accepting
<1>2. /\ BilledEvents' = BilledEvents
      /\ \A d \in Events : BillsOf(d)' = BillsOf(d)
  BY DEF Accepting, BilledEvents, ContentOf, BillsOf
<1>3. [d \in Events |-> BillsOf(d)]' = [d \in Events |-> BillsOf(d)]
  BY <1>2
<1>4. /\ accepted' \ (BilledEvents' \cup Outstanding')
           = accepted \ (BilledEvents \cup Outstanding)
  BY <1>1, <1>2 DEF Accepting
<1> QED
  BY <1>1, <1>3, <1>4 DEF Ledger!Accept

LEMMA ApplyingIsBill ==
  ASSUME LedgerInv, OnceInv', Applying
  PROVE  \E S \in SUBSET Events : Ledger!Bill(S)
<1>1. PICK B \in SUBSET Held : ApplyBatches(B) /\ ContentOf(B) \subseteq Outstanding
  BY DEF Applying
<1> DEFINE new == B \ markers
           S == ContentOf(new)
<1>2. /\ TypeOK /\ EventsApart /\ TypeOK' /\ EventsApart' /\ AcceptedInv
      /\ charged \in [BatchIds -> Nat] /\ content \in [BatchIds -> SUBSET Events]
      /\ B \subseteq BatchIds
  BY <1>1, HeldTyped DEF LedgerInv, OnceInv, TypeOK, StoreTypeOK
<1>3. \A b \in new : charged[b] = 0 /\ charged'[b] = 1
  BY <1>1, <1>2 DEF LedgerInv, OnceInv, ChargeInv, HeldHaveMarkers, InRow, ApplyBatches
<1>4. \A b \in BatchIds \ new : charged'[b] = charged[b]
  BY <1>1, <1>2 DEF ApplyBatches
<1>5. content' = content /\ accepted' = accepted /\ Outstanding' = Outstanding
  BY DEF Applying
<1>6. S \subseteq Events /\ S \subseteq Outstanding /\ S \subseteq accepted
  BY <1>1, <1>2 DEF ContentOf, AcceptedInv
<1>7. BilledEvents' = BilledEvents \cup S
  BY <1>2, <1>3, <1>4, <1>5 DEF BilledEvents, ContentOf
<1>8. \A e \in S : BillsOf(e) = 0 /\ BillsOf(e)' = 1
  <2> SUFFICES ASSUME NEW e \in S PROVE BillsOf(e) = 0 /\ BillsOf(e)' = 1
    OBVIOUS
  <2>1. PICK b \in new : e \in content[b]
    BY DEF ContentOf
  <2> QED
    BY <1>2, <1>3, <1>5, <1>6, <2>1, BillsAreCharges, NextBillsAreCharges
<1>9. \A e \in Events \ S : BillsOf(e)' = BillsOf(e)
  <2> SUFFICES ASSUME NEW e \in Events \ S PROVE BillsOf(e)' = BillsOf(e)
    OBVIOUS
  <2>1. CASE \E b \in BatchIds : e \in content[b]
    <3> PICK b \in BatchIds : e \in content[b]
      BY <2>1
    <3>1. b \notin new
      BY DEF ContentOf
    <3> QED
      BY <1>2, <1>4, <1>5, <3>1, BillsAreCharges, NextBillsAreCharges
  <2>2. CASE \A b \in BatchIds : e \notin content[b]
    BY <1>2, <1>5, <2>2, BillsAreCharges, NextBillsAreCharges
  <2> QED
    BY <2>1, <2>2
<1> HIDE DEF S
<1>10. [e \in Events |-> BillsOf(e)]'
         = [e \in Events |-> IF e \in S THEN 1 ELSE [d \in Events |-> BillsOf(d)][e]]
  BY <1>8, <1>9
<1>11. /\ accepted' \ (BilledEvents' \cup Outstanding')
            = accepted \ (BilledEvents \cup Outstanding)
       /\ S \cap (accepted \ (BilledEvents \cup Outstanding)) = {}
  BY <1>5, <1>6, <1>7
<1>12. Ledger!Bill(S)
  BY <1>5, <1>6, <1>8, <1>10, <1>11 DEF Ledger!Bill, Ledger!Unbilled
<1> QED
  BY <1>6, <1>12

(* What the moves of a file, an append and its interruption leave to replay. *)
LEMMA ReplacedReplayed ==
  ASSUME NEW f \in files, NEW g, NEW B, g.batches \subseteq f.batches \cup B,
         g.dir # "bad" /\ (g.dir = "active" \/ Readable(g)) => f \in Replayable,
         files' \subseteq Replaced(f, g) \cup {ActiveFile(n) : n \in 1..MaxSequence}
  PROVE  Replayed' \subseteq Replayed \cup B
<1> SUFFICES ASSUME NEW h \in files', h.dir # "bad", h.dir = "active" \/ Readable(h)
             PROVE  h.batches \subseteq Replayed \cup B
  BY DEF Replayed, Replayable, BatchesIn, Readable
<1>1. CASE h = g
  BY <1>1 DEF Replayed, BatchesIn
<1>2. CASE h \in files
  BY <1>2 DEF Replayed, BatchesIn, Replayable
<1>3. CASE \E n \in 1..MaxSequence : h = ActiveFile(n)
  BY <1>3 DEF ActiveFile
<1> QED
  BY <1>1, <1>2, <1>3 DEF Replaced

LEMMA ReplayedShrinks ==
  ASSUME files' \subseteq files
  PROVE  Replayed' \subseteq Replayed
BY DEF Replayed, Replayable, BatchesIn, Readable

LEMMA ReplayedMoves ==
  ASSUME BacklogTypeOK, NEW f \in files,
         \/ Move(f, "bad")
         \/ Move(f, "sealed") /\ f.dir \in {"consuming", "sealed"}
         \/ Move(f, "consuming") /\ f.dir \in {"consuming", "sealed"}
         \/ CompleteClaim(f)
         \/ RestoreClaim(f) /\ f.dir = "consuming"
         \/ QuarantineClaim(f)
         \/ RestoreConsumingFile(f) /\ f.dir = "consuming"
         \/ RecoverActiveFile(f) /\ f.dir = "active"
  PROVE  Replayed' \subseteq Replayed
<1>1. ASSUME NEW g, g.batches = f.batches,
             g.dir # "bad" /\ (g.dir = "active" \/ Readable(g)) => f \in Replayable,
             files' = Replaced(f, g)
      PROVE  Replayed' \subseteq Replayed
  BY <1>1, ReplacedReplayed
<1>2. \A d : /\ MovedTo(f, d).dir = d /\ MovedTo(f, d).batches = f.batches
             /\ MovedTo(f, d).body = f.body
  BY DEF BacklogTypeOK, MovedTo, File
<1>3. Move(f, "bad") => Replayed' \subseteq Replayed
  BY <1>1, <1>2 DEF Move
<1>4. ASSUME Move(f, "sealed") \/ Move(f, "consuming"), f.dir \in {"consuming", "sealed"}
      PROVE  Replayed' \subseteq Replayed
  BY <1>1, <1>2, <1>4 DEF Move, Readable, Replayable
<1>5. ASSUME RecoverActiveFile(f), f.dir = "active"
      PROVE  Replayed' \subseteq Replayed
  <2> DEFINE g == [f EXCEPT !.dir = "sealed", !.body = "whole"]
  <2>1. g.batches = f.batches
    BY DEF BacklogTypeOK, File
  <2>2. f \in Replayable
    BY <1>5 DEF Replayable
  <2>3. files' = Replaced(f, g) => Replayed' \subseteq Replayed
    BY <1>1, <2>1, <2>2
  <2> QED
    BY <1>3, <1>5, <2>3, ReplayedShrinks DEF RecoverActiveFile
<1> QED
  BY <1>3, <1>4, <1>5, ReplayedShrinks
     DEF CompleteClaim, RestoreClaim, QuarantineClaim, RestoreConsumingFile

LEMMA ReplayedAppends ==
  ASSUME BacklogTypeOK, NEW b \in BatchIds, AppendBatches(b) \/ AppendInterrupted(b)
  PROVE  Replayed' \subseteq Replayed \cup {b}
<1>1. ASSUME NEW f \in files, f.dir = "active",
             NEW g, g.batches \subseteq f.batches \cup {b},
             files' \subseteq Replaced(f, g) \cup {ActiveFile(n) : n \in 1..MaxSequence}
      PROVE  Replayed' \subseteq Replayed \cup {b}
  <2>1. f \in Replayable
    BY <1>1 DEF Replayable
  <2> QED
    BY <1>1, <2>1, ReplacedReplayed
<1>2. ASSUME NEW f \in files
      PROVE  /\ WithTornTail(f).batches = f.batches
             /\ WithBlock(f, b).batches \subseteq f.batches \cup {b}
             /\ MovedTo(WithBlock(f, b), "sealed").batches \subseteq f.batches \cup {b}
  BY DEF BacklogTypeOK, WithTornTail, WithBlock, MovedTo, File
<1>3. CASE UNCHANGED files
  BY <1>3, ReplayedShrinks
<1>4. ASSUME NEW f \in InDir("active"),
             OpenWriter(Replaced(f, MovedTo(WithBlock(f, b), "sealed")))
      PROVE  Replayed' \subseteq Replayed \cup {b}
  BY <1>1, <1>2, <1>4 DEF InDir, OpenWriter
<1>5. ASSUME files' \in CutShort \cup NotSealed(b) \cup NotReopened(b)
      PROVE  Replayed' \subseteq Replayed \cup {b}
  BY <1>1, <1>2, <1>5 DEF InDir, CutShort, NotSealed, NotReopened
<1> QED
  BY <1>3, <1>4, <1>5
     DEF AppendBatches, AppendInterrupted, AppendSeals, AppendRefused, AppendCutShort,
         AppendNotSealed, AppendNotReopened, backlogVars

(* What is still outstanding, from where its parts went. *)
LEMMA StillOutstanding ==
  ASSUME InMemory' \subseteq InMemory \cup fresh, Replayed' \subseteq Replayed \cup hand,
         content' = content
  PROVE  Outstanding' \subseteq Outstanding \cup fresh
<1>1. OnDisk' \subseteq OnDisk \cup ContentOf(hand)
  BY DEF OnDisk, Replayed, ContentOf
<1> QED
  BY <1>1 DEF Outstanding, InMemory

LEMMA QuietFiles ==
  ASSUME UNCHANGED <<charged, accepted, content>>,
         InMemory' \subseteq InMemory \cup fresh,
         Replayed' \subseteq Replayed \cup hand
  PROVE  Quiet
BY StillOutstanding DEF Quiet

LEMMA HandlersQuiet ==
  ASSUME LedgerInv, Handlers
  PROVE  Quiet \/ Accepting
<1> PICK e \in Events :
      Enqueue(e) \/ SendCompletes(e) \/ SendFails(e) \/ SendCancelled(e)
  BY DEF Handlers
<1> USE DEF storeVars, backlogVars, workVars, clientVars
<1>1. CASE SendCompletes(e)
  BY <1>1 DEF SendCompletes, Accepting, Outstanding, InMemory, OnDisk, ContentOf,
              Replayable, BatchesIn
<1>2. CASE Enqueue(e) \/ SendFails(e) \/ SendCancelled(e)
  <2>1. UNCHANGED <<charged, accepted, content, files, hand>>
    BY <1>2 DEF Enqueue, SendFails, SendCancelled
  <2>2. InMemory' \subseteq InMemory \cup fresh
    BY <1>2, <2>1 DEF Enqueue, SendFails, SendCancelled, InMemory, ContentOf
  <2> QED
    BY <2>1, <2>2, ReplayedShrinks, QuietFiles
<1> QED
  BY <1>1, <1>2

LEMMA SelectQuiet ==
  ASSUME LedgerInv, Receive \/ TimerTick \/ SeeShutdown
  PROVE  Quiet
<1> USE DEF storeVars, backlogVars, workVars, clientVars
<1>1. UNCHANGED <<charged, accepted, content, files, hand, sending>>
  BY DEF Receive, TimerTick, SeeShutdown, PruneIfDue, PruneMarkers
<1>2. InMemory' \subseteq InMemory
  BY <1>1 DEF Receive, TimerTick, SeeShutdown, InMemory, ContentOf, kSubset
<1> QED
  BY <1>1, <1>2, ReplayedShrinks, QuietFiles

LEMMA ReplayAsLedger ==
  ASSUME LedgerInv, ReplaySteps
  PROVE  Quiet \/ Applying
<1> USE DEF storeVars, backlogVars, workVars, clientVars
<1>1. BacklogTypeOK /\ \A f \in claim : f \in files /\ f.dir = "consuming"
  BY DEF LedgerInv, OnceInv, TypeOK, PlaceInv, ClaimShape
<1>2. CASE ReplayCommits
  <2>1. /\ ApplyBatches(BatchesIn(claim))
        /\ UNCHANGED <<content, accepted, files, hand, sending, queue, buffer>>
    BY <1>2 DEF ReplayCommits
  <2>2. Outstanding' = Outstanding
    BY <2>1 DEF Outstanding, InMemory, OnDisk, ContentOf, Replayable, BatchesIn
  <2>3. BatchesIn(claim) \subseteq Held
    BY <1>1 DEF BatchesIn, Held
  <2>4. claim \subseteq Replayable
    BY <1>1 DEF LedgerInv, ClaimWhole, Replayable, Readable
  <2>5. ContentOf(BatchesIn(claim)) \subseteq Outstanding
    BY <2>4 DEF Outstanding, OnDisk, ContentOf, BatchesIn
  <2> QED
    BY <2>1, <2>2, <2>3, <2>5 DEF Applying
<1>3. CASE SkipBacklog \/ ClaimBacklog \/ QuarantineUnreadable \/ ReplayOk
           \/ ReplayFails \/ ReplayMismatch
  <2>1. UNCHANGED <<charged, accepted, content, hand, sending, queue, buffer>>
    BY <1>3 DEF SkipBacklog, ClaimBacklog, QuarantineUnreadable, ReplayOk,
                ReplayFails, ReplayMismatch
  <2>2. InMemory' \subseteq InMemory
    BY <2>1 DEF InMemory, ContentOf
  <2>3. Replayed' \subseteq Replayed
    <3>1. CASE UNCHANGED files
      BY <3>1, ReplayedShrinks
    <3>2. CASE ClaimBacklog \/ QuarantineUnreadable
      BY <1>1, <3>2, ReplayedMoves, ReplayedShrinks
         DEF ClaimBacklog, QuarantineUnreadable, ClaimFile, QuarantineClaim,
             IsOldest, InDir
    <3>3. CASE ReplayOk \/ ReplayFails \/ ReplayMismatch
      BY <1>1, <3>1, <3>3, ReplayedMoves DEF ReplayOk, ReplayFails, ReplayMismatch
    <3> QED
      BY <1>3, <3>1, <3>2, <3>3 DEF SkipBacklog
  <2> QED
    BY <2>1, <2>2, <2>3, QuietFiles
<1> QED
  BY <1>2, <1>3 DEF ReplaySteps

LEMMA LiveAsLedger ==
  ASSUME LedgerInv, LiveSteps
  PROVE  Quiet \/ Applying
<1> USE DEF storeVars, backlogVars, workVars, clientVars
<1>1. TypeOK /\ BacklogTypeOK /\ hand \subseteq BatchIds
  BY DEF LedgerInv, OnceInv, TypeOK
<1>2. CASE LiveCommits
  <2>1. /\ ApplyBatches(hand)
        /\ UNCHANGED <<content, accepted, files, hand, sending, queue, buffer>>
    BY <1>2 DEF LiveCommits
  <2>2. Outstanding' = Outstanding
    BY <2>1 DEF Outstanding, InMemory, OnDisk, ContentOf, Replayable, BatchesIn
  <2> QED
    BY <2>1, <2>2 DEF Applying, Held, Outstanding, InMemory
<1>3. CASE TakeBuffer
  <2>1. PICK b \in BatchIds : /\ content[b] = {}
                              /\ content' = [content EXCEPT ![b] = buffer]
                              /\ hand' = {b}
    BY <1>3 DEF TakeBuffer
  <2>2. UNCHANGED <<charged, accepted, files, sending, queue>> /\ buffer' = {}
    BY <1>3 DEF TakeBuffer
  <2>3. content'[b] = buffer /\ \A c \in BatchIds : c # b => content'[c] = content[c]
    BY <1>1, <2>1 DEF TypeOK
  <2>4. b \notin Replayed /\ Replayed \subseteq BatchIds
    <3>1. Replayed \subseteq BatchesIn(files)
      BY DEF Replayed, Replayable, BatchesIn
    <3> QED
      BY <1>1, <2>1, <3>1
         DEF LedgerInv, OnceInv, DiskInv, StoredAreUsed, BacklogTypeOK, File, BatchesIn
  <2>5. Replayed' = Replayed
    BY <2>2 DEF Replayed, Replayable, BatchesIn, Readable
  <2>6. OnDisk' = OnDisk
    BY <2>3, <2>4, <2>5 DEF OnDisk, Replayed, ContentOf
  <2>7. InMemory' \subseteq InMemory
    BY <2>1, <2>2, <2>3 DEF InMemory, ContentOf
  <2> QED
    BY <2>1, <2>2, <2>3, <2>6, <2>7 DEF Quiet, Outstanding
<1>4. CASE Park
  <2>1. PICK b \in hand : AppendBatches(b)
    BY <1>4 DEF Park
  <2>2. UNCHANGED <<charged, accepted, content, sending, queue, buffer>> /\ hand' = {}
    BY <1>4 DEF Park
  <2>3. InMemory' \subseteq InMemory
    BY <2>2 DEF InMemory, ContentOf
  <2>4. Replayed' \subseteq Replayed \cup {b}
    BY <1>1, <2>1, ReplayedAppends
  <2> QED
    BY <2>1, <2>2, <2>3, <2>4, QuietFiles
<1>5. CASE NothingBuffered \/ LiveOk \/ LiveFails \/ Forward
  <2>1. /\ UNCHANGED <<charged, accepted, content, files, sending, buffer>>
        /\ hand' \subseteq hand /\ queue' \subseteq queue
    BY <1>5 DEF NothingBuffered, LiveOk, LiveFails, Forward
  <2>2. InMemory' \subseteq InMemory
    BY <2>1 DEF InMemory, ContentOf
  <2> QED
    BY <2>1, <2>2, ReplayedShrinks, QuietFiles
<1> QED
  BY <1>2, <1>3, <1>4, <1>5 DEF LiveSteps

LEMMA LifeQuiet ==
  ASSUME LedgerInv, "patch" \notin Faults,
         WindowElapses \/ StoreSteps \/ Shutdown \/ Exit \/ Crash \/ Startup
  PROVE  Quiet
<1> USE DEF storeVars, backlogVars, workVars, clientVars
<1>1. BacklogTypeOK /\ hand \subseteq BatchIds
  BY DEF LedgerInv, OnceInv, TypeOK
<1>2. CASE WindowElapses \/ StoreSteps \/ Shutdown \/ Start
  <2>1. UNCHANGED <<charged, accepted, content, files, hand, sending, queue, buffer>>
    BY <1>2 DEF WindowElapses, StoreSteps, Shutdown, Start, AgeMarkers, PruneMarkers
  <2>2. InMemory' \subseteq InMemory
    BY <2>1 DEF InMemory, ContentOf
  <2> QED
    BY <2>1, <2>2, ReplayedShrinks, QuietFiles
<1>3. CASE Exit \/ Crash
  <2>1. /\ UNCHANGED <<charged, accepted, content>>
        /\ sending' = {} /\ queue' = {} /\ buffer' = {} /\ hand' = {}
    BY <1>3 DEF Exit, Crash, LoseMemory
  <2>2. InMemory' = {}
    BY <2>1 DEF InMemory, ContentOf
  <2>3. UNCHANGED files \/ \E b \in hand : AppendInterrupted(b)
    BY <1>3 DEF Exit, Crash
  <2>4. Replayed' \subseteq Replayed \cup hand
    BY <1>1, <2>3, ReplayedShrinks, ReplayedAppends
  <2> QED
    BY <2>1, <2>2, <2>4, QuietFiles
<1>4. CASE RecoverFile
  <2>1. UNCHANGED <<charged, accepted, content, hand, sending, queue, buffer>>
    BY <1>4 DEF RecoverFile
  <2>2. InMemory' \subseteq InMemory
    BY <2>1 DEF InMemory, ContentOf
  <2>3. PICK f \in files : \/ RecoverActiveFile(f) /\ f.dir = "active"
                           \/ RestoreConsumingFile(f) /\ f.dir = "consuming"
    BY <1>4 DEF RecoverFile, InDir
  <2>4. Replayed' \subseteq Replayed
    BY <1>1, <2>3, ReplayedMoves
  <2> QED
    BY <2>1, <2>2, <2>4, QuietFiles
<1>5. CASE FinishStart
  <2>1. UNCHANGED <<charged, accepted, content, hand, sending, queue, buffer>>
    BY <1>5 DEF FinishStart
  <2>2. InMemory' \subseteq InMemory
    BY <2>1 DEF InMemory, ContentOf
  <2>3. \A h \in files' : \/ h \in files \/ h.dir = "bad" \/ h.batches = {}
    <3>1. \A f \in files : MovedTo(f, "bad").dir = "bad"
      BY <1>1 DEF BacklogTypeOK, MovedTo, File
    <3> QED
      BY <1>5, <3>1 DEF FinishStart, OpenWriter, ActiveFile, InDir
  <2>4. Replayed' \subseteq Replayed
    BY <2>3 DEF Replayed, Replayable, BatchesIn, Readable
  <2> QED
    BY <2>1, <2>2, <2>4, QuietFiles
<1> QED
  BY <1>2, <1>3, <1>4, <1>5 DEF Startup

LEMMA LedgerSteps ==
  ASSUME LedgerInv, OnceInv', [Next]_vars, "patch" \notin Faults
  PROVE  [Ledger!LedgerNext]_(Ledger!ledgerVars)
<1>1. CASE Next
  <2>1. Quiet \/ Accepting \/ Applying
    BY <1>1, HandlersQuiet, SelectQuiet, ReplayAsLedger, LiveAsLedger, LifeQuiet
       DEF Next, Flusher
  <2> QED
    BY <2>1, QuietIsLoss, AcceptingIsAccept, ApplyingIsBill DEF Ledger!LedgerNext
<1>2. CASE UNCHANGED vars
  BY <1>2 DEF vars, storeVars, backlogVars, clientVars, workVars, Ledger!ledgerVars,
              BillsOf, BilledEvents, Outstanding, InMemory, OnDisk, ContentOf,
              BatchesIn, Replayable, Readable
<1> QED
  BY <1>1, <1>2

(* Usage that was accepted is billed once or lost for good: every step of the
   handlers, the flusher, the disk and the process, crashes and failed writes
   included, is one step of the ledger or none (append_usage_event,
   flush_usage_event_buffer, flush_rollup_backlog, apply_usage_rollup_batches). *)
THEOREM LedgerImplemented ==
  ASSUME Faults \cap StrandingFaults = {}, "patch" \notin Faults
  PROVE  Spec => ImplementsLedger
<1>1. Init => Ledger!LedgerInit
  <2> SUFFICES ASSUME Init PROVE Ledger!LedgerInit
    OBVIOUS
  <2>1. TypeOK /\ EventsApart /\ BilledEvents = {} /\ accepted = {}
    BY InitType, InitOnce DEF Init, StoreInit, BilledEvents, ContentOf
  <2>2. \A e \in Events : BillsOf(e) = 0
    BY <2>1, BillsAreCharges
  <2> QED
    BY <2>1, <2>2 DEF Ledger!LedgerInit
<1>2. Init => AcceptedInv /\ ClaimWhole
  BY DEF Init, AcceptedInv, ClaimWhole
<1>3. OnceInv /\ AcceptedInv /\ ClaimWhole /\ [Next]_vars => AcceptedInv' /\ ClaimWhole'
  BY AcceptedStep, ClaimWholeStep DEF OnceInv
<1>4. LedgerInv /\ OnceInv' /\ [Next]_vars => [Ledger!LedgerNext]_(Ledger!ledgerVars)
  BY LedgerSteps
<1>5. Spec => []OnceInv
  BY OnceInvariant
<1> QED
  BY <1>1, <1>2, <1>3, <1>4, <1>5, PTL
     DEF Spec, ImplementsLedger, Ledger!LedgerSpec, LedgerInv

================================================================================
