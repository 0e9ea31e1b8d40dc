---------------------- MODULE UsageAccounting_overlay_proofs ----------------------
(***************************************************************************)
(* Theorems about the overlay of UsageAccounting, which a quota check adds *)
(* to the key's row, and about what reaches the usage journal: for every   *)
(* set of events and batches and every channel, batch and attempt bound.   *)
(***************************************************************************)
EXTENDS UsageAccounting_proofs

--------------------------------------------------------------------------------
(* What holds whatever fails: memory is empty while nothing serves, and the
   flusher's claim is one file in consuming/. *)

EmptyWhenDown ==
  ~Serving => /\ sending = {} /\ queue = {} /\ buffer = {} /\ hand = {}
              /\ overlay = [e \in Events |-> 0]

FreshUncounted == \A e \in fresh : overlay[e] = 0

LEMMA MinusElsewhere ==
  ASSUME TypeOK, NEW E, NEW e \in Events, e \notin E
  PROVE  OverlayMinus(E)[e] = overlay[e]
BY DEF OverlayMinus, TypeOK

LEMMA EmptyStep ==
  ASSUME TypeOK, IdleWhenDown, EmptyWhenDown, [Next]_vars
  PROVE  EmptyWhenDown'
<1> USE DEF EmptyWhenDown, IdleWhenDown, Serving, clientVars, analyticsVars, workVars
<1>1. CASE Handlers
  BY <1>1 DEF Handlers, Enqueue, SendCompletes, SendFails, SendCancelled, Receiving
<1>2. CASE Receive \/ TimerTick \/ SeeShutdown
  BY <1>2 DEF Receive, TimerTick, SeeShutdown, Listening
<1>3. CASE ReplaySteps
  BY <1>3 DEF ReplaySteps, SkipBacklog, ClaimBacklog, QuarantineUnreadable,
              ReplayCommits, ReplayOk, ReplayFails, ReplayMismatch
<1>4. CASE LiveSteps
  BY <1>4 DEF LiveSteps, NothingBuffered, TakeBuffer, LiveCommits, LiveOk,
              LiveFails, Park, Forward
<1>5. CASE WindowElapses \/ StoreSteps \/ Shutdown \/ Startup
  BY <1>5 DEF WindowElapses, StoreSteps, Shutdown, Startup, Start, RecoverFile,
              FinishStart
<1>6. CASE Exit \/ Crash
  BY <1>6 DEF Exit, Crash, LoseMemory
<1>7. CASE UNCHANGED vars
  BY <1>7 DEF vars
<1> QED
  BY <1>1, <1>2, <1>3, <1>4, <1>5, <1>6, <1>7 DEF Next, Flusher

(* No subtraction is of an event that has not happened. *)
LEMMA FreshMinus ==
  ASSUME TypeOK, FreshUncounted, NEW E, fresh \cap E = {},
         overlay' = OverlayMinus(E), UNCHANGED fresh
  PROVE  FreshUncounted'
BY MinusElsewhere DEF FreshUncounted, TypeOK

LEMMA ContentNotFresh ==
  ASSUME EventsApart, NEW B \in SUBSET BatchIds
  PROVE  fresh \cap ContentOf(B) = {}
BY DEF EventsApart, ContentOf

LEMMA FilesTyped ==
  ASSUME TypeOK, NEW S \in SUBSET files
  PROVE  BatchesIn(S) \in SUBSET BatchIds
BY DEF TypeOK, BacklogTypeOK, BatchesIn, File

LEMMA FreshStep ==
  ASSUME TypeOK, EventsApart, EmptyWhenDown, ClaimOnDisk, FreshUncounted, [Next]_vars
  PROVE  FreshUncounted'
<1> USE DEF clientVars, analyticsVars, workVars
<1>1. CASE UNCHANGED <<fresh, overlay>>
  BY <1>1 DEF FreshUncounted
<1>2. CASE Handlers
  <2> PICK e \in Events :
        Enqueue(e) \/ SendCompletes(e) \/ SendFails(e) \/ SendCancelled(e)
    BY <1>2 DEF Handlers
  <2>1. CASE Enqueue(e)
    <3>1. fresh' = fresh \ {e} /\ overlay' = OverlayPlus({e})
      BY <2>1 DEF Enqueue
    <3>2. \A d \in Events : d # e => overlay'[d] = overlay[d]
      BY <3>1 DEF OverlayPlus, TypeOK
    <3> QED
      BY <3>1, <3>2 DEF FreshUncounted, TypeOK
  <2>2. CASE SendCompletes(e) \/ SendCancelled(e)
    BY <1>1, <2>2 DEF SendCompletes, SendCancelled
  <2>3. CASE SendFails(e)
    BY <2>3, FreshMinus DEF SendFails, EventsApart
  <2> QED
    BY <2>1, <2>2, <2>3
<1>3. CASE Receive \/ TimerTick \/ SeeShutdown
  BY <1>1, <1>3 DEF Receive, TimerTick, SeeShutdown
<1>4. CASE ReplayOk
  <2>1. BatchesIn(claim) \in SUBSET BatchIds
    BY FilesTyped DEF ClaimOnDisk
  <2> QED
    BY <1>4, <2>1, FreshMinus, ContentNotFresh DEF ReplayOk
<1>5. CASE ReplayMismatch
  <2>1. PICK f \in claim : \/ overlay' = OverlayMinus(ContentOf(f.batches))
                           \/ UNCHANGED overlay
    BY <1>5 DEF ReplayMismatch
  <2>2. f.batches \in SUBSET BatchIds
    BY DEF ClaimOnDisk, TypeOK, BacklogTypeOK, File
  <2> QED
    BY <1>1, <1>5, <2>1, <2>2, FreshMinus, ContentNotFresh DEF ReplayMismatch
<1>6. CASE SkipBacklog \/ ClaimBacklog \/ QuarantineUnreadable \/ ReplayCommits
           \/ ReplayFails
  BY <1>1, <1>6 DEF SkipBacklog, ClaimBacklog, QuarantineUnreadable, ReplayCommits,
                    ReplayFails
<1>7. CASE LiveOk
  BY <1>7, FreshMinus, ContentNotFresh DEF LiveOk, TypeOK
<1>8. CASE NothingBuffered \/ TakeBuffer \/ LiveCommits \/ LiveFails \/ Park \/ Forward
  BY <1>1, <1>8 DEF NothingBuffered, TakeBuffer, LiveCommits, LiveFails, Park, Forward
<1>9. CASE WindowElapses \/ StoreSteps \/ Shutdown \/ Start \/ RecoverFile
  BY <1>1, <1>9 DEF WindowElapses, StoreSteps, Shutdown, Start, RecoverFile
<1>10. CASE FinishStart
  <2> DEFINE E == ContentOf(BatchesIn({f \in InDir("sealed") : Readable(f)}))
  <2>1. overlay' = OverlayPlus(E) /\ UNCHANGED fresh
    BY <1>10 DEF FinishStart, PendingOverlay
  <2>2. fresh \cap E = {}
    BY FilesTyped, ContentNotFresh DEF InDir
  <2> HIDE DEF E
  <2> QED
    BY <2>1, <2>2 DEF FreshUncounted, OverlayPlus, TypeOK
<1>11. CASE Exit \/ Crash
  BY <1>11 DEF Exit, Crash, LoseMemory, FreshUncounted, TypeOK
<1>12. CASE UNCHANGED vars
  BY <1>1, <1>12 DEF vars
<1> QED
  BY <1>2, <1>3, <1>4, <1>5, <1>6, <1>7, <1>8, <1>9, <1>10, <1>11, <1>12
     DEF Next, Flusher, ReplaySteps, LiveSteps, Startup

(* ClaimShape of the first module holds under every fault. *)
LEMMA ShapeOfClaim ==
  ASSUME TypeOK, IdleWhenDown, ClaimShape, [Next]_vars
  PROVE  ClaimShape'
<1> USE DEF ClaimShape, IdleWhenDown, Serving, clientVars, analyticsVars, workVars,
            backlogVars
<1>1. CASE Handlers
  BY <1>1 DEF Handlers, Enqueue, SendCompletes, SendFails, SendCancelled
<1>2. CASE Receive \/ TimerTick \/ SeeShutdown
  BY <1>2 DEF Receive, TimerTick, SeeShutdown, Listening, BeginFlush
<1>3. CASE ClaimBacklog
  <2>1. PICK f \in files : /\ Move(f, "consuming")
                           /\ claim' = {MovedTo(f, "consuming")}
    BY <1>3 DEF ClaimBacklog, ClaimFile
  <2>2. MovedTo(f, "consuming").dir = "consuming"
    BY DEF MovedTo, TypeOK, BacklogTypeOK, File
  <2> QED
    BY <1>3, <2>1, <2>2 DEF ClaimBacklog, Move, Replaced
<1>4. CASE ReplayCommits
  BY <1>4 DEF ReplayCommits
<1>5. CASE SkipBacklog \/ QuarantineUnreadable
  BY <1>5 DEF SkipBacklog, QuarantineUnreadable
<1>6. CASE ReplayOk \/ ReplayFails \/ ReplayMismatch
  BY <1>6 DEF ReplayOk, ReplayFails, ReplayMismatch
<1>7. CASE LiveSteps
  BY <1>7 DEF LiveSteps, NothingBuffered, TakeBuffer, LiveCommits, LiveOk,
              LiveFails, Park, Forward
<1>8. CASE WindowElapses \/ StoreSteps \/ Shutdown \/ Startup
  BY <1>8 DEF WindowElapses, StoreSteps, Shutdown, Startup, Start, RecoverFile,
              FinishStart
<1>9. CASE Exit \/ Crash
  BY <1>9 DEF Exit, Crash, LoseMemory
<1>10. CASE UNCHANGED vars
  BY <1>10 DEF vars
<1> QED
  BY <1>1, <1>2, <1>3, <1>4, <1>5, <1>6, <1>7, <1>8, <1>9, <1>10
     DEF Next, Flusher, ReplaySteps

--------------------------------------------------------------------------------
(* The row keeps what was added to it, unless an administrator writes old totals
   back. *)

Committed(B) == \A b \in B : charged[b] >= 1

CommitInv ==
  /\ Committed(markers)
  /\ pc = "replayed" => Committed(BatchesIn(claim))
  /\ pc = "applied" => Committed(hand)

LEMMA ApplyCommits ==
  ASSUME TypeOK, CommitInv, NEW S \in SUBSET BatchIds, ApplyBatches(S)
  PROVE  /\ \A b \in BatchIds : charged'[b] >= charged[b]
         /\ Committed(markers)' /\ Committed(S)'
<1>1. charged \in [BatchIds -> Nat] /\ markers \in SUBSET BatchIds
  BY DEF TypeOK, StoreTypeOK
<1>2. \A b \in BatchIds :
        charged'[b] = charged[b] + IF b \in S \ markers THEN 1 ELSE 0
  BY DEF ApplyBatches
<1>3. \A b \in BatchIds : b \in S \cup markers => charged'[b] >= 1
  BY <1>1, <1>2 DEF CommitInv, Committed
<1> QED
  BY <1>1, <1>2, <1>3 DEF ApplyBatches, Committed

(* Only the two commits add to the row, and only they pass the places where a
   transaction has committed on. *)
LEMMA StoreKinds ==
  ASSUME IdleWhenDown, [Next]_vars, "patch" \notin Faults
  PROVE  \/ /\ UNCHANGED charged /\ markers' \subseteq markers
            /\ pc' = "replayed" => pc = "replayed" /\ UNCHANGED <<files, claim>>
            /\ pc' = "applied" => pc = "applied" /\ UNCHANGED hand
         \/ ReplayCommits
         \/ LiveCommits
<1> USE DEF storeVars, clientVars, analyticsVars, workVars, backlogVars
<1>1. CASE Handlers
  BY <1>1 DEF Handlers, Enqueue, SendCompletes, SendFails, SendCancelled
<1>2. CASE Receive \/ TimerTick \/ SeeShutdown
  BY <1>2 DEF Receive, TimerTick, SeeShutdown, Listening, BeginFlush, PruneIfDue,
              PruneMarkers
<1>3. CASE ReplaySteps
  BY <1>3 DEF ReplaySteps, SkipBacklog, ClaimBacklog, QuarantineUnreadable,
              ReplayOk, ReplayFails, ReplayMismatch
<1>4. CASE LiveSteps
  BY <1>4 DEF LiveSteps, NothingBuffered, TakeBuffer, LiveOk, LiveFails, Park, Forward
<1>5. CASE StoreSteps
  BY <1>5 DEF StoreSteps, AgeMarkers, PruneMarkers
<1>6. CASE WindowElapses \/ Shutdown \/ Start
  BY <1>6 DEF WindowElapses, Shutdown, Start
<1>7. CASE RecoverFile \/ FinishStart
  BY <1>7 DEF RecoverFile, FinishStart, IdleWhenDown, Serving
<1>8. CASE Exit \/ Crash
  BY <1>8 DEF Exit, Crash, LoseMemory
<1>9. CASE UNCHANGED vars
  BY <1>9 DEF vars
<1> QED
  BY <1>1, <1>2, <1>3, <1>4, <1>5, <1>6, <1>7, <1>8, <1>9 DEF Next, Flusher, Startup

LEMMA CommitStep ==
  ASSUME TypeOK, ClaimOnDisk, CommitInv, [Next]_vars, "patch" \notin Faults
  PROVE  CommitInv' /\ \A b \in BatchIds : charged'[b] >= charged[b]
<1>1. CASE ReplayCommits
  <2>1. BatchesIn(claim) \in SUBSET BatchIds
    BY FilesTyped DEF ClaimOnDisk
  <2>2. pc' = "replayed" /\ claim' = claim /\ ApplyBatches(BatchesIn(claim))
    BY <1>1 DEF ReplayCommits, workVars
  <2>3. BatchesIn(claim)' = BatchesIn(claim)
    BY <2>2 DEF BatchesIn
  <2> QED
    BY <2>1, <2>2, <2>3, ApplyCommits DEF CommitInv, Committed
<1>2. CASE LiveCommits
  <2>1. pc' = "applied" /\ hand' = hand /\ ApplyBatches(hand)
    BY <1>2 DEF LiveCommits, workVars
  <2> QED
    BY <2>1, ApplyCommits DEF CommitInv, Committed, TypeOK
<1>3. CASE /\ UNCHANGED charged /\ markers' \subseteq markers
           /\ pc' = "replayed" => pc = "replayed" /\ UNCHANGED <<files, claim>>
           /\ pc' = "applied" => pc = "applied" /\ UNCHANGED hand
  <2>1. claim' = claim => BatchesIn(claim)' = BatchesIn(claim)
    BY DEF BatchesIn
  <2>2. \A b \in BatchIds : charged'[b] >= charged[b]
    BY <1>3 DEF TypeOK, StoreTypeOK
  <2> QED
    BY <1>3, <2>1, <2>2 DEF CommitInv, Committed
<1> QED
  BY <1>1, <1>2, <1>3, StoreKinds DEF ClaimOnDisk

(* The content of a batch is set once, before it is charged. *)
LEMMA ContentGrows ==
  ASSUME TypeOK, [Next]_vars
  PROVE  \A b \in BatchIds : content[b] \subseteq content'[b]
<1> USE DEF clientVars, analyticsVars, workVars
<1>1. CASE TakeBuffer
  BY <1>1 DEF TakeBuffer, TypeOK
<1>2. CASE Handlers
  BY <1>2 DEF Handlers, Enqueue, SendCompletes, SendFails, SendCancelled
<1>3. CASE Receive \/ TimerTick \/ SeeShutdown
  BY <1>3 DEF Receive, TimerTick, SeeShutdown
<1>4. CASE ReplaySteps
  BY <1>4 DEF ReplaySteps, SkipBacklog, ClaimBacklog, QuarantineUnreadable,
              ReplayCommits, ReplayOk, ReplayFails, ReplayMismatch
<1>5. CASE NothingBuffered \/ LiveCommits \/ LiveOk \/ LiveFails \/ Park \/ Forward
  BY <1>5 DEF NothingBuffered, LiveCommits, LiveOk, LiveFails, Park, Forward
<1>6. CASE WindowElapses \/ StoreSteps \/ Shutdown \/ Startup
  BY <1>6 DEF WindowElapses, StoreSteps, Shutdown, Startup, Start, RecoverFile,
              FinishStart
<1>7. CASE Exit \/ Crash
  BY <1>7 DEF Exit, Crash, LoseMemory
<1>8. CASE UNCHANGED vars
  BY <1>8 DEF vars
<1> QED
  BY <1>1, <1>2, <1>3, <1>4, <1>5, <1>6, <1>7, <1>8 DEF Next, Flusher, LiveSteps

LEMMA BilledGrows ==
  ASSUME TypeOK, [Next]_vars, \A b \in BatchIds : charged'[b] >= charged[b]
  PROVE  BilledEvents \subseteq BilledEvents'
<1>1. TypeOK'
  BY NextType
<1>2. \A b \in BatchIds : charged[b] >= 1 => charged'[b] >= 1
  BY <1>1 DEF TypeOK, StoreTypeOK
<1> QED
  BY <1>2, ContentGrows DEF BilledEvents, ContentOf

--------------------------------------------------------------------------------
(* A quota check sees usage in memory through the overlay, and usage of a batch
   that may still be applied through the overlay or the row. *)

Seen(e) == overlay[e] >= 1 \/ e \in BilledEvents

CoverInv ==
  Serving => /\ \A e \in InMemory : overlay[e] >= 1
             /\ \A b \in Held : \A e \in content[b] : Seen(e)

LEMMA MemoryTyped ==
  ASSUME TypeOK
  PROVE  /\ InMemory \subseteq Events
         /\ \A b \in BatchIds : content[b] \subseteq Events
         /\ \A B \in SUBSET BatchIds : ContentOf(B) \subseteq Events
BY DEF TypeOK, InMemory, ContentOf

(* Steps that leave the overlay alone only move usage or drop it. *)
LEMMA CoverMoves ==
  ASSUME TypeOK, CoverInv, BilledEvents \subseteq BilledEvents',
         Serving' => Serving, UNCHANGED <<overlay, content>>,
         InMemory' \subseteq InMemory, Held' \subseteq Held
  PROVE  CoverInv'
BY DEF CoverInv, Seen

(* A subtraction is of usage that is nowhere any more, or in the row. *)
LEMMA CoverMinus ==
  ASSUME TypeOK, CoverInv, BilledEvents \subseteq BilledEvents', Serving,
         NEW E, overlay' = OverlayMinus(E), UNCHANGED content,
         InMemory' \subseteq InMemory \ E, Held' \subseteq Held,
         \A b \in Held' : content[b] \cap E \subseteq BilledEvents
  PROVE  CoverInv'
<1>1. \A e \in Events \ E : overlay'[e] = overlay[e]
  BY MinusElsewhere
<1>2. \A e \in InMemory' : overlay'[e] >= 1
  BY <1>1, MemoryTyped DEF CoverInv
<1>3. ASSUME NEW b \in Held', NEW e \in content[b]
      PROVE  Seen(e)'
  <2>1. b \in Held /\ e \in Events
    BY <1>3, HeldTyped, MemoryTyped
  <2>2. CASE e \in E
    BY <1>3, <2>2 DEF Seen
  <2>3. CASE e \notin E
    BY <1>1, <1>3, <2>1, <2>3 DEF CoverInv, Seen
  <2> QED
    BY <2>2, <2>3
<1> QED
  BY <1>2, <1>3 DEF CoverInv

(* Events of different batches, and of batches and memory, are different. *)
LEMMA Disjoint ==
  ASSUME TypeOK, EventsApart, NEW A \in SUBSET BatchIds, NEW B \in SUBSET BatchIds,
         A \cap B = {}
  PROVE  /\ ContentOf(A) \cap ContentOf(B) = {}
         /\ ContentOf(A) \cap (sending \cup queue \cup buffer) = {}
         /\ \A b \in B : content[b] \cap ContentOf(A) = {}
BY DEF EventsApart, ContentOf

LEMMA HeldByFiles ==
  ASSUME UNCHANGED files
  PROVE  /\ hand' \subseteq hand => Held' \subseteq Held
         /\ UNCHANGED hand => Held' = Held
         /\ hand' = {} => Held' \subseteq BatchesIn(files)
BY DEF Held, BatchesIn

CoverHyp ==
  /\ TypeOK /\ EventsApart /\ ClaimOnDisk /\ DiskInv /\ ClaimShape
  /\ EmptyWhenDown /\ FreshUncounted /\ CommitInv /\ CoverInv
  /\ BilledEvents \subseteq BilledEvents'

LEMMA CoverHandlers ==
  ASSUME CoverHyp, Handlers
  PROVE  CoverInv'
<1> USE DEF CoverHyp, clientVars, analyticsVars, workVars, backlogVars
<1> PICK e \in Events :
      Enqueue(e) \/ SendCompletes(e) \/ SendFails(e) \/ SendCancelled(e)
  BY DEF Handlers
<1>1. UNCHANGED <<files, hand, content>> /\ Held' = Held
  BY HeldByFiles DEF Enqueue, SendCompletes, SendFails, SendCancelled
<1>2. CASE Enqueue(e)
  <2>1. overlay' = OverlayPlus({e}) /\ Serving /\ e \in fresh
        /\ InMemory' = InMemory \cup {e}
    BY <1>1, <1>2 DEF Enqueue, InMemory, ContentOf
  <2>2. overlay'[e] = 1 /\ \A d \in Events : d # e => overlay'[d] = overlay[d]
    BY <2>1 DEF OverlayPlus, TypeOK, FreshUncounted
  <2>3. \A d \in Events : overlay[d] >= 1 => overlay'[d] >= 1
    BY <2>2
  <2>4. \A b \in Held : \A d \in content[b] : Seen(d)'
    BY <2>1, <2>3, HeldTyped, MemoryTyped DEF CoverInv, Seen
  <2>5. \A d \in InMemory : d \in Events /\ overlay[d] >= 1
    BY <2>1, MemoryTyped DEF CoverInv
  <2>6. \A d \in InMemory \cup {e} : overlay'[d] >= 1
    BY <2>2, <2>3, <2>5
  <2> QED
    BY <1>1, <2>1, <2>4, <2>6 DEF CoverInv
<1>3. CASE SendCompletes(e) \/ SendCancelled(e)
  <2>1. InMemory' \subseteq InMemory /\ Serving' = Serving /\ UNCHANGED overlay
    BY <1>1, <1>3 DEF SendCompletes, SendCancelled, InMemory, ContentOf, Serving
  <2> QED
    BY <1>1, <2>1, CoverMoves
<1>4. CASE SendFails(e)
  <2>1. \A B \in SUBSET BatchIds : ContentOf(B) \cap {e} = {}
    BY <1>4 DEF SendFails, EventsApart, ContentOf
  <2>2. InMemory' \subseteq InMemory \ {e}
    BY <1>1, <1>4, <2>1 DEF SendFails, InMemory, ContentOf, EventsApart, TypeOK
  <2>3. \A b \in Held' : content[b] \cap {e} = {}
    BY <1>1, <1>4, HeldTyped DEF SendFails, EventsApart
  <2>4. Serving /\ overlay' = OverlayMinus({e})
    BY <1>4 DEF SendFails, Serving
  <2> QED
    BY <1>1, <2>2, <2>3, <2>4, CoverMinus
<1> QED
  BY <1>2, <1>3, <1>4

LEMMA CoverReplay ==
  ASSUME CoverHyp, ReplaySteps
  PROVE  CoverInv'
<1> USE DEF CoverHyp, clientVars, analyticsVars, workVars, backlogVars
<1>1. /\ UNCHANGED <<hand, content, sending, queue, buffer, proc>>
      /\ InMemory' = InMemory /\ Serving' = Serving
  BY DEF ReplaySteps, SkipBacklog, ClaimBacklog, QuarantineUnreadable,
         ReplayCommits, ReplayOk, ReplayFails, ReplayMismatch, InMemory, ContentOf,
         Serving
<1>2. BacklogTypeOK /\ \A f \in claim : f \in files /\ f.dir # "bad"
  BY DEF TypeOK, ClaimShape
<1>3. \A f \in InDir("sealed") : f \in files /\ f.dir # "bad"
  BY DEF InDir
<1>4. Serving
  BY DEF ReplaySteps, SkipBacklog, ClaimBacklog, QuarantineUnreadable,
         ReplayCommits, ReplayOk, ReplayFails, ReplayMismatch, ClaimOnDisk, IdleWhenDown
<1>5. \A S \in SUBSET files : /\ BatchesIn(S) \in SUBSET BatchIds
                              /\ hand \cap BatchesIn(S) = {}
  BY FilesTyped DEF DiskInv, HandIsNew, BatchesIn
<1>6. CASE SkipBacklog \/ ReplayCommits
  BY <1>1, <1>6, HeldByFiles, CoverMoves DEF SkipBacklog, ReplayCommits
<1>7. CASE ClaimBacklog
  <2>1. PICK f \in InDir("sealed") : Move(f, "consuming")
    BY <1>7 DEF ClaimBacklog, ClaimFile, IsOldest
  <2>2. Held' \subseteq Held
    BY <1>1, <1>2, <1>3, <2>1, HeldMoves DEF Dirs
  <2> QED
    BY <1>1, <1>7, <2>2, CoverMoves DEF ClaimBacklog
<1>8. CASE QuarantineUnreadable
  <2>1. PICK f \in InDir("sealed") : QuarantineClaim(f) \/ Move(f, "consuming")
    BY <1>8 DEF QuarantineUnreadable, ClaimFile
  <2>2. Held' \subseteq Held
    BY <1>1, <1>2, <1>3, <2>1, HeldMoves DEF Dirs
  <2> QED
    BY <1>1, <1>8, <2>2, CoverMoves DEF QuarantineUnreadable
<1>9. CASE ReplayFails
  <2>1. Held' \subseteq Held
    BY <1>1, <1>2, <1>9, HeldMoves DEF ReplayFails
  <2> QED
    BY <1>1, <1>9, <2>1, CoverMoves DEF ReplayFails
<1>10. CASE ReplayOk
  <2> DEFINE C == BatchesIn(claim)
  <2>1. overlay' = OverlayMinus(ContentOf(C)) /\ Held' \subseteq Held
    BY <1>1, <1>2, <1>10, HeldMoves DEF ReplayOk
  <2>2. C \in SUBSET BatchIds /\ hand \cap C = {} /\ hand \in SUBSET BatchIds
    BY <1>2, <1>5 DEF TypeOK
  <2>3. ContentOf(C) \subseteq BilledEvents
    BY <1>10, <2>2 DEF ReplayOk, CommitInv, Committed, BilledEvents, ContentOf
  <2> HIDE DEF C
  <2>4. InMemory' \subseteq InMemory \ ContentOf(C)
    BY <1>1, <2>2, Disjoint DEF InMemory
  <2> QED
    BY <1>1, <1>4, <2>1, <2>3, <2>4, CoverMinus
<1>11. CASE ReplayMismatch
  <2>1. PICK f \in claim :
          \/ QuarantineClaim(f) /\ overlay' = OverlayMinus(ContentOf(f.batches))
          \/ UNCHANGED <<files, overlay>>
    BY <1>11 DEF ReplayMismatch
  <2>2. CASE UNCHANGED <<files, overlay>>
    BY <1>1, <2>2, HeldByFiles, CoverMoves
  <2>3. CASE QuarantineClaim(f) /\ overlay' = OverlayMinus(ContentOf(f.batches))
    <3>1. Held' \subseteq Held
      BY <1>1, <1>2, <2>3, HeldMoves
    <3>2. MovedTo(f, "bad").dir = "bad"
      BY <1>2 DEF MovedTo, BacklogTypeOK, File
    <3>3. f \in files /\ f.batches = BatchesIn({f}) /\ {f} \in SUBSET files
      BY <1>2 DEF BatchesIn
    <3>4. f.batches \in SUBSET BatchIds /\ hand \cap f.batches = {}
      BY <1>5, <3>3
    <3>5. \A g \in files \ {f} : g.batches \cap f.batches = {}
      BY <3>3 DEF DiskInv, OneCopyOnDisk
    <3>6. Held' \cap f.batches = {}
      BY <1>1, <2>3, <3>2, <3>4, <3>5
         DEF QuarantineClaim, Move, Replaced, Held, BatchesIn
    <3>7. \A b \in Held' : content[b] \cap ContentOf(f.batches) = {}
      BY <3>1, <3>4, <3>6, HeldTyped, Disjoint
    <3>8. InMemory' \subseteq InMemory \ ContentOf(f.batches)
      BY <1>1, <3>4, Disjoint DEF InMemory, TypeOK
    <3> QED
      BY <1>1, <1>4, <2>3, <3>1, <3>7, <3>8, CoverMinus
  <2> QED
    BY <2>1, <2>2, <2>3
<1> QED
  BY <1>6, <1>7, <1>8, <1>9, <1>10, <1>11 DEF ReplaySteps

LEMMA CoverLive ==
  ASSUME CoverHyp, LiveSteps
  PROVE  CoverInv'
<1> USE DEF CoverHyp, clientVars, analyticsVars, workVars, backlogVars
<1>1. Serving
  BY DEF LiveSteps, NothingBuffered, TakeBuffer, LiveCommits, LiveOk, LiveFails,
         Park, Forward, ClaimOnDisk, IdleWhenDown
<1>2. CASE NothingBuffered \/ LiveCommits \/ LiveFails
  BY <1>1, <1>2, HeldByFiles, CoverMoves
     DEF NothingBuffered, LiveCommits, LiveFails, InMemory, ContentOf
<1>3. CASE Forward
  <2>1. UNCHANGED <<files, hand, content, sending, buffer, overlay>>
        /\ queue' \subseteq queue
    BY <1>3 DEF Forward
  <2>2. InMemory' \subseteq InMemory
    BY <2>1 DEF InMemory, ContentOf
  <2> QED
    BY <1>1, <2>1, <2>2, HeldByFiles, CoverMoves
<1>4. CASE TakeBuffer
  <2>1. PICK b \in BatchIds :
          /\ content[b] = {}
          /\ content' = [content EXCEPT ![b] = buffer]
          /\ hand' = {b}
    BY <1>4 DEF TakeBuffer
  <2>2. UNCHANGED <<files, sending, queue, overlay>> /\ buffer' = {}
    BY <1>4 DEF TakeBuffer
  <2>3. content'[b] = buffer /\ \A c \in BatchIds : c # b => content'[c] = content[c]
    BY <2>1 DEF TypeOK
  <2>4. InMemory' \subseteq InMemory
    BY <2>1, <2>2, <2>3 DEF InMemory, ContentOf
  <2>5. Held' \subseteq Held \cup {b}
    BY <2>1, <2>2 DEF Held, BatchesIn
  <2>6. \A e \in buffer : overlay[e] >= 1
    BY <1>1 DEF CoverInv, InMemory
  <2>7. ASSUME NEW c \in Held', NEW e \in content'[c]
        PROVE  overlay[e] >= 1 \/ e \in BilledEvents
    <3>1. CASE c = b
      BY <2>3, <2>6, <2>7, <3>1
    <3>2. CASE c # b
      BY <1>1, <2>3, <2>5, <2>7, <3>2, HeldTyped DEF CoverInv, Seen
    <3> QED
      BY <3>1, <3>2
  <2>8. \A e \in InMemory' : overlay'[e] >= 1
    BY <1>1, <2>2, <2>4 DEF CoverInv
  <2>9. \A c \in Held' : \A e \in content'[c] : Seen(e)'
    BY <2>2, <2>7 DEF Seen
  <2> QED
    BY <2>8, <2>9 DEF CoverInv
<1>5. CASE LiveOk
  <2>1. /\ overlay' = OverlayMinus(ContentOf(hand)) /\ hand' = {}
        /\ UNCHANGED <<files, content, sending, queue, buffer>>
    BY <1>5 DEF LiveOk
  <2>2. Held' \subseteq Held /\ Held' \subseteq BatchesIn(files)
    BY <2>1, HeldByFiles
  <2>3. BatchesIn(files) \in SUBSET BatchIds /\ hand \cap BatchesIn(files) = {}
        /\ hand \in SUBSET BatchIds
    BY FilesTyped DEF DiskInv, HandIsNew, TypeOK
  <2>4. \A c \in Held' : content[c] \cap ContentOf(hand) = {}
    BY <2>2, <2>3, Disjoint
  <2>5. InMemory' = sending \cup queue \cup buffer
    BY <2>1 DEF InMemory, ContentOf
  <2>6. InMemory' \subseteq InMemory \ ContentOf(hand)
    BY <2>3, <2>5, Disjoint DEF InMemory
  <2> QED
    BY <1>1, <2>1, <2>2, <2>4, <2>6, CoverMinus
<1>6. CASE Park
  <2>1. Held' \subseteq Held
    BY <1>6, HeldAppends DEF Park, TypeOK
  <2>2. InMemory' \subseteq InMemory
    BY <1>6 DEF Park, InMemory, ContentOf
  <2> QED
    BY <1>1, <1>6, <2>1, <2>2, CoverMoves DEF Park
<1> QED
  BY <1>2, <1>3, <1>4, <1>5, <1>6 DEF LiveSteps

(* A restart loads every batch it may replay into the empty overlay. *)
LEMMA CoverStart ==
  ASSUME CoverHyp, FinishStart
  PROVE  CoverInv'
<1> USE DEF CoverHyp, clientVars, analyticsVars, workVars
<1> DEFINE unreadable == {f \in InDir("sealed") : ~Readable(f)}
           scanned == (files \ unreadable)
                        \cup {MovedTo(f, "bad") : f \in unreadable}
           kept == {f \in InDir("sealed") : Readable(f)}
           E == ContentOf(BatchesIn(kept))
<1>1. OpenWriter(scanned) /\ overlay' = OverlayPlus(E)
      /\ InDir("active") \cup InDir("consuming") = {} /\ ~Serving
      /\ UNCHANGED <<sending, queue, buffer, hand, content>>
  BY DEF FinishStart, PendingOverlay, Serving
<1>2. sending = {} /\ queue = {} /\ buffer = {} /\ hand = {}
      /\ \A e \in Events : overlay[e] = 0
  BY <1>1 DEF EmptyWhenDown
<1>3. InMemory' = {}
  BY <1>1, <1>2 DEF InMemory, ContentOf
<1>4. \A f \in unreadable : MovedTo(f, "bad").dir = "bad"
  BY DEF MovedTo, InDir, TypeOK, BacklogTypeOK, File
<1>5. \A f \in files' : f.dir # "bad" => f \in kept \/ f.batches = {}
  <2>1. \A f \in files : f.dir \in {"sealed", "bad"}
    BY <1>1 DEF InDir, TypeOK, BacklogTypeOK, File, Dirs
  <2>2. \A f \in files' : f \in scanned \/ f.batches = {}
    BY <1>1 DEF OpenWriter, ActiveFile
  <2>3. \A f \in scanned : f.dir # "bad" => f \in kept
    BY <1>4, <2>1 DEF InDir
  <2> QED
    BY <2>2, <2>3
<1>6. Held' \subseteq BatchesIn(kept)
  <2> HIDE DEF kept, scanned, unreadable, E
  <2> QED
    BY <1>1, <1>2, <1>5 DEF Held, BatchesIn
<1>7. BatchesIn(kept) \in SUBSET BatchIds
  BY FilesTyped DEF InDir
<1> HIDE DEF kept, scanned, unreadable
<1>8. \A b \in Held' : \A e \in content[b] : e \in E /\ e \in Events
  BY <1>6, <1>7, MemoryTyped DEF ContentOf
<1> HIDE DEF E
<1>9. \A e \in E \cap Events : overlay'[e] >= 1
  BY <1>1, <1>2 DEF OverlayPlus
<1>10. \A b \in Held' : \A e \in content'[b] : Seen(e)'
  BY <1>1, <1>8, <1>9 DEF Seen
<1> QED
  BY <1>3, <1>10 DEF CoverInv

LEMMA CoverStep ==
  ASSUME CoverHyp, [Next]_vars
  PROVE  CoverInv'
<1> USE DEF CoverHyp, clientVars, analyticsVars, workVars, backlogVars
<1>1. CASE Handlers
  BY <1>1, CoverHandlers
<1>2. CASE Receive
  <2>1. PICK E \in SUBSET queue : buffer' = buffer \cup E /\ queue' = queue \ E
    BY <1>2 DEF Receive, kSubset
  <2>2. UNCHANGED <<files, hand, content, sending, overlay, proc>>
    BY <1>2 DEF Receive
  <2>3. InMemory' \subseteq InMemory /\ Serving' = Serving
    BY <2>1, <2>2 DEF InMemory, ContentOf, Serving
  <2> QED
    BY <2>2, <2>3, HeldByFiles, CoverMoves
<1>3. CASE SeeShutdown
  <2>1. UNCHANGED <<files, hand, content, sending, overlay>> /\ Serving
        /\ InMemory' \subseteq InMemory
    BY <1>3 DEF SeeShutdown, InMemory, ContentOf, Serving
  <2> QED
    BY <2>1, HeldByFiles, CoverMoves
<1>4. CASE TimerTick \/ WindowElapses \/ StoreSteps \/ UNCHANGED vars
  <2>1. UNCHANGED <<files, hand, content, sending, queue, buffer, overlay, proc>>
    BY <1>4 DEF TimerTick, WindowElapses, StoreSteps, vars
  <2>2. InMemory' = InMemory /\ Serving' = Serving
    BY <2>1 DEF InMemory, ContentOf, Serving
  <2> QED
    BY <2>1, <2>2, HeldByFiles, CoverMoves
<1>5. CASE Shutdown
  <2>1. UNCHANGED <<files, hand, content, sending, queue, buffer, overlay>> /\ Serving
    BY <1>5 DEF Shutdown, Serving
  <2>2. InMemory' = InMemory
    BY <2>1 DEF InMemory, ContentOf
  <2> QED
    BY <2>1, <2>2, HeldByFiles, CoverMoves
<1>6. CASE ReplaySteps
  BY <1>6, CoverReplay
<1>7. CASE LiveSteps
  BY <1>7, CoverLive
<1>8. CASE Exit \/ Crash \/ Start \/ RecoverFile
  BY <1>8 DEF Exit, Crash, LoseMemory, Start, RecoverFile, CoverInv, Serving
<1>9. CASE FinishStart
  BY <1>9, CoverStart
<1> QED
  BY <1>1, <1>2, <1>3, <1>4, <1>5, <1>6, <1>7, <1>8, <1>9 DEF Next, Flusher, Startup

--------------------------------------------------------------------------------
(* The facts that hold under every fault. *)

BaseInv ==
  /\ TypeOK /\ EventsApart /\ ClaimOnDisk /\ DiskInv /\ ClaimShape
  /\ EmptyWhenDown /\ FreshUncounted

LEMMA BaseInit == Init => BaseInv
BY InitType
   DEF Init, StoreInit, BacklogInit, BaseInv, EventsApart, ClaimOnDisk, IdleWhenDown,
       DiskInv, OneCopyOnDisk, HandIsNew, StoredAreUsed, BatchesIn, ActiveFile,
       ClaimShape, EmptyWhenDown, FreshUncounted, Serving

LEMMA BaseStep == BaseInv /\ [Next]_vars => BaseInv'
BY NextType, EventsApartStep, ClaimOnDiskStep, DiskStep, ShapeOfClaim, EmptyStep,
   FreshStep
   DEF BaseInv, ClaimOnDisk

(* A quota check misses no usage that will be billed, whatever crashes, is lost,
   fails on disk, is cancelled or quarantined, and whichever node prunes; only an
   administrator's patch, which writes back older totals, is excluded. *)
THEOREM QuotaIsCovered ==
  ASSUME "patch" \notin Faults
  PROVE  Spec => []QuotaCovers
<1> DEFINE Inv == BaseInv /\ CommitInv /\ CoverInv
<1>1. Init => Inv
  <2> SUFFICES ASSUME Init PROVE Inv
    OBVIOUS
  <2>1. CommitInv
    BY DEF Init, StoreInit, CommitInv, Committed
  <2>2. InMemory = {} /\ Held = {}
    BY DEF Init, BacklogInit, InMemory, Held, ContentOf, BatchesIn, ActiveFile
  <2> QED
    BY <2>1, <2>2, BaseInit DEF CoverInv
<1>2. Inv /\ [Next]_vars => Inv'
  <2> SUFFICES ASSUME Inv, [Next]_vars PROVE Inv'
    OBVIOUS
  <2>1. BaseInv'
    BY BaseStep
  <2>2. CommitInv' /\ \A b \in BatchIds : charged'[b] >= charged[b]
    BY CommitStep DEF BaseInv
  <2>3. BilledEvents \subseteq BilledEvents'
    BY <2>2, BilledGrows DEF BaseInv
  <2>4. CoverInv'
    BY <2>3, CoverStep DEF CoverHyp, BaseInv
  <2> QED
    BY <2>1, <2>2, <2>4
<1>3. Inv => QuotaCovers
  <2>1. BatchesIn(Replayable) \subseteq Held
    BY DEF Replayable, Held, BatchesIn
  <2> QED
    BY <2>1 DEF CoverInv, Seen, QuotaCovers, Outstanding, OnDisk, ContentOf
<1> QED
  BY <1>1, <1>2, <1>3, PTL DEF Spec

--------------------------------------------------------------------------------
(* A disk whose single operations succeed: there the overlay is exactly the
   outstanding usage, and journaled usage is accounted.  Crashes in the middle of
   those operations, failed and unanswered transactions, other nodes and digest
   mismatches are still allowed. *)

DiskFaults == {"write", "seal", "claim"}

(* Batches of files that are not quarantined. *)
Stored == BatchesIn({f \in files : f.dir # "bad"})

--------------------------------------------------------------------------------
(* The shape of the disk.  A crash leaves a torn or unsealed active file, or an
   abandoned claim, but recovery clears them before the process serves again. *)

FileShape ==
  \A f \in files :
    /\ f.dir \in {"sealed", "consuming"} => f.body = "whole"
    /\ f.body # "corrupt"
    /\ \A b, c \in f.batches : b = c

ServeShape ==
  Serving => /\ writer = "open"
             /\ \A f \in files :
                  /\ f.dir = "active" => f.batches = {} /\ f.body = "whole"
                  /\ f.dir = "consuming" => f \in claim

HandIsOne == HandShape /\ \A b, c \in hand : b = c

ShapeInv == FileShape /\ ServeShape /\ HandIsOne

LEMMA ReplacedShape ==
  ASSUME FileShape, NEW f \in files, NEW g, g.batches = f.batches,
         f.body = "whole" => g.body = "whole", g.body # "corrupt",
         g.dir \in {"sealed", "consuming"} => g.body = "whole",
         files' = Replaced(f, g)
  PROVE  FileShape'
BY DEF FileShape, Replaced

(* What a move of a file keeps. *)
LEMMA MovedParts ==
  ASSUME BacklogTypeOK, NEW f \in files, NEW d
  PROVE  /\ MovedTo(f, d).batches = f.batches /\ MovedTo(f, d).body = f.body
         /\ MovedTo(f, d).seq = f.seq /\ MovedTo(f, d).dir = d
BY DEF BacklogTypeOK, MovedTo, File

LEMMA MoveShape ==
  ASSUME BacklogTypeOK, FileShape, NEW f \in files, f.body = "whole", NEW d, Move(f, d)
  PROVE  FileShape'
BY MovedParts, ReplacedShape DEF Move

(* What one append leaves. *)
LEMMA AppendedParts ==
  ASSUME BacklogTypeOK, NEW f \in files, f.dir = "active", f.batches = {},
         f.body = "whole", NEW b
  PROVE  /\ WithBlock(f, b).batches = {b} /\ WithBlock(f, b).body = "whole"
         /\ WithBlock(f, b).dir = "active"
         /\ WithTornTail(f).batches = {} /\ WithTornTail(f).body = "torn"
         /\ WithTornTail(f).dir = "active"
         /\ MovedTo(WithBlock(f, b), "sealed").batches = {b}
         /\ MovedTo(WithBlock(f, b), "sealed").body = "whole"
         /\ MovedTo(WithBlock(f, b), "sealed").dir = "sealed"
BY DEF BacklogTypeOK, WithBlock, WithTornTail, MovedTo, File

LEMMA OpenedParts ==
  ASSUME NEW S, OpenWriter(S)
  PROVE  /\ writer' = "open"
         /\ S \subseteq files'
         /\ \A f \in files' : \/ f \in S
                              \/ f.dir = "active" /\ f.batches = {} /\ f.body = "whole"
BY DEF OpenWriter, ActiveFile

LEMMA ShapeReplay ==
  ASSUME TypeOK, DiskInv, ClaimShape, ShapeInv, ReplaySteps, Faults \cap DiskFaults = {}
  PROVE  ShapeInv'
<1> USE DEF ShapeInv, ServeShape, HandIsOne, HandShape, Serving, clientVars,
            analyticsVars, workVars
<1>1. BacklogTypeOK /\ ~ClaimFault
  BY DEF TypeOK, ClaimFault, DiskFaults
<1>2. CASE SkipBacklog \/ ReplayCommits
  BY <1>2 DEF SkipBacklog, ReplayCommits, backlogVars, FileShape
<1>3. CASE ClaimBacklog
  <2>1. PICK f \in files : /\ f.dir = "sealed" /\ f.body = "whole"
                           /\ Move(f, "consuming")
                           /\ claim' = {MovedTo(f, "consuming")}
    BY <1>3 DEF ClaimBacklog, ClaimFile, IsOldest, InDir, Readable
  <2>2. FileShape'
    BY <1>1, <2>1, MoveShape
  <2>3. claim = {} /\ hand = {}
    BY <1>3 DEF ClaimBacklog, ClaimShape
  <2>4. MovedTo(f, "consuming").dir = "consuming"
    BY <1>1, MovedParts
  <2> QED
    BY <1>3, <2>1, <2>2, <2>3, <2>4 DEF ClaimBacklog, Move, Replaced
<1>4. CASE QuarantineUnreadable
  BY <1>4 DEF QuarantineUnreadable, InDir, Readable, FileShape
<1>5. CASE ReplayOk
  <2>1. PICK f \in claim : files' = files \ {f}
    BY <1>1, <1>5 DEF ReplayOk, CompleteClaim
  <2> QED
    BY <1>5, <2>1 DEF ReplayOk, ClaimShape, FileShape
<1>6. CASE ReplayFails
  <2>1. PICK f \in claim : RestoreClaim(f)
    BY <1>6 DEF ReplayFails
  <2>2. f \in files /\ f.dir = "consuming" /\ f.body = "whole"
        /\ \A g \in claim : g = f
    BY DEF ClaimShape, FileShape
  <2>3. Move(f, "sealed")
    BY <1>1, <2>1, <2>2 DEF RestoreClaim, DiskInv, OneCopyOnDisk, InDir
  <2>4. FileShape' /\ MovedTo(f, "sealed").dir = "sealed"
    BY <1>1, <2>2, <2>3, MoveShape, MovedParts
  <2> QED
    BY <1>6, <2>2, <2>3, <2>4 DEF ReplayFails, Move, Replaced
<1>7. CASE ReplayMismatch
  <2>1. PICK f \in claim : Move(f, "bad")
    BY <1>1, <1>7 DEF ReplayMismatch, QuarantineClaim
  <2>2. f \in files /\ f.dir = "consuming" /\ f.body = "whole"
        /\ \A g \in claim : g = f
    BY DEF ClaimShape, FileShape
  <2>3. FileShape' /\ MovedTo(f, "bad").dir = "bad"
    BY <1>1, <2>1, <2>2, MoveShape, MovedParts
  <2> QED
    BY <1>7, <2>1, <2>2, <2>3 DEF ReplayMismatch, Move, Replaced
<1> QED
  BY <1>2, <1>3, <1>4, <1>5, <1>6, <1>7 DEF ReplaySteps

(* Parking, whole or interrupted by a crash, keeps the shape and the batches,
   and a whole one adds the parked batch. *)
LEMMA AppendShape ==
  ASSUME TypeOK, ShapeInv, Serving, NEW b \in hand, Faults \cap DiskFaults = {},
         AppendBatches(b) \/ AppendInterrupted(b)
  PROVE  /\ FileShape'
         /\ Stored \subseteq Stored' /\ Stored' \subseteq Stored \cup {b}
         /\ AppendBatches(b) =>
              /\ b \in Stored' /\ writer' = "open"
              /\ \A f \in files' : \/ f \in files \/ f.dir = "sealed"
                                   \/ f.dir = "active" /\ f.batches = {}
                                      /\ f.body = "whole"
<1>1. BacklogTypeOK /\ writer = "open"
  BY DEF TypeOK, ShapeInv, ServeShape
<1>2. \A f \in InDir("active") : f \in files /\ f.dir = "active" /\ f.batches = {}
                                 /\ f.body = "whole"
  BY DEF InDir, ShapeInv, ServeShape
<1>3. AppendBatches(b) => AppendSeals(b)
  BY <1>1 DEF AppendBatches, AppendRefused, AppendCutShort, AppendNotSealed,
              AppendNotReopened, DiskFaults
<1>4. CASE AppendSeals(b)
  <2>1. PICK f \in InDir("active") :
          OpenWriter(Replaced(f, MovedTo(WithBlock(f, b), "sealed")))
    BY <1>4 DEF AppendSeals
  <2> DEFINE g == MovedTo(WithBlock(f, b), "sealed")
  <2>2. g.batches = {b} /\ g.body = "whole" /\ g.dir = "sealed"
    BY <1>1, <1>2, AppendedParts
  <2> HIDE DEF g
  <2>3. /\ writer' = "open" /\ Replaced(f, g) \subseteq files'
        /\ \A h \in files' : \/ h \in Replaced(f, g)
                             \/ h.dir = "active" /\ h.batches = {} /\ h.body = "whole"
    BY <2>1, OpenedParts DEF g
  <2>4. FileShape'
    BY <2>2, <2>3 DEF ShapeInv, FileShape, Replaced
  <2>5. Stored \subseteq Stored' /\ Stored' \subseteq Stored \cup {b} /\ b \in Stored'
    BY <1>2, <2>2, <2>3 DEF Stored, BatchesIn, Replaced
  <2> QED
    BY <2>2, <2>3, <2>4, <2>5 DEF Replaced
<1>5. CASE AppendInterrupted(b)
  <2>1. PICK f \in InDir("active") :
          \E g \in {WithTornTail(f), WithBlock(f, b), MovedTo(WithBlock(f, b), "sealed")} :
            files' = Replaced(f, g)
    BY <1>5 DEF AppendInterrupted, CutShort, NotSealed, NotReopened
  <2> PICK g \in {WithTornTail(f), WithBlock(f, b), MovedTo(WithBlock(f, b), "sealed")} :
        files' = Replaced(f, g)
    BY <2>1
  <2>2. /\ g.batches \subseteq {b} /\ g.body \in {"whole", "torn"}
        /\ g.dir = "sealed" \/ g.dir = "active"
        /\ g.dir = "sealed" => g.body = "whole"
    BY <1>1, <1>2, AppendedParts
  <2>3. FileShape'
    BY <2>1, <2>2 DEF ShapeInv, FileShape, Replaced
  <2>4. Stored \subseteq Stored' /\ Stored' \subseteq Stored \cup {b}
    BY <1>2, <2>1, <2>2 DEF Stored, BatchesIn, Replaced
  <2>5. CASE ~AppendBatches(b)
    BY <2>3, <2>4, <2>5
  <2> QED
    BY <1>3, <1>4, <2>5
<1> QED
  BY <1>3, <1>4, <1>5

LEMMA ShapeLive ==
  ASSUME TypeOK, ClaimOnDisk, ShapeInv, LiveSteps, Faults \cap DiskFaults = {}
  PROVE  ShapeInv'
<1> USE DEF clientVars, analyticsVars, workVars
<1>1. Serving
  BY DEF LiveSteps, NothingBuffered, TakeBuffer, LiveCommits, LiveOk, LiveFails,
         Park, Forward, ClaimOnDisk, IdleWhenDown
<1>2. CASE NothingBuffered \/ LiveCommits \/ LiveOk \/ LiveFails \/ Forward
  BY <1>1, <1>2
     DEF NothingBuffered, LiveCommits, LiveOk, LiveFails, Forward, backlogVars,
         ShapeInv, ServeShape, FileShape, HandIsOne, HandShape
<1>3. CASE TakeBuffer
  BY <1>1, <1>3
     DEF TakeBuffer, backlogVars, ShapeInv, ServeShape, FileShape, HandIsOne, HandShape
<1>4. CASE Park
  <2>1. PICK b \in hand : AppendBatches(b)
    BY <1>4 DEF Park
  <2>2. /\ FileShape' /\ writer' = "open"
        /\ \A f \in files' : \/ f \in files \/ f.dir = "sealed"
                             \/ f.dir = "active" /\ f.batches = {} /\ f.body = "whole"
    BY <1>1, <2>1, AppendShape
  <2>3. hand' = {} /\ UNCHANGED claim
    BY <1>4 DEF Park
  <2>4. ServeShape'
    BY <1>1, <2>2, <2>3 DEF ShapeInv, ServeShape
  <2>5. HandIsOne'
    BY <2>3 DEF HandIsOne, HandShape
  <2> QED
    BY <2>2, <2>4, <2>5 DEF ShapeInv
<1> QED
  BY <1>2, <1>3, <1>4 DEF LiveSteps

(* One file of startup: the active file is sealed, or deleted if it is empty,
   and an abandoned claim goes back to the sealed directory. *)
LEMMA RecoveredFile ==
  ASSUME TypeOK, DiskInv, FileShape, RecoverFile
  PROVE  FileShape' /\ Stored' = Stored
<1>1. BacklogTypeOK /\ Apart(files)
  BY DEF TypeOK, DiskInv, OneCopyOnDisk, Apart
<1>2. ASSUME NEW f \in files, f.dir # "bad", NEW g, g.batches = f.batches,
             g.body = "whole", g.dir = "sealed", files' = Replaced(f, g)
      PROVE  FileShape' /\ Stored' = Stored
  BY <1>2, ReplacedShape DEF Stored, BatchesIn, Replaced
<1>3. ASSUME NEW f \in InDir("active"), RecoverActiveFile(f)
      PROVE  FileShape' /\ Stored' = Stored
  <2>1. f \in files /\ f.dir = "active" /\ f \in File
    BY <1>1 DEF InDir, BacklogTypeOK
  <2>2. ~ \E g \in InDir("sealed") : g.seq = f.seq
    BY <1>1, <2>1 DEF Apart, InDir
  <2>3. f.body # "corrupt"
    BY <2>1 DEF FileShape
  <2>4. CASE f.batches = {} /\ files' = files \ {f}
    BY <2>1, <2>4 DEF FileShape, Stored, BatchesIn
  <2>5. CASE files' = Replaced(f, [f EXCEPT !.dir = "sealed", !.body = "whole"])
    <3> DEFINE g == [f EXCEPT !.dir = "sealed", !.body = "whole"]
    <3>1. g.batches = f.batches /\ g.body = "whole" /\ g.dir = "sealed"
      BY <2>1 DEF File
    <3> HIDE DEF g
    <3>2. files' = Replaced(f, g)
      BY <2>5 DEF g
    <3> QED
      BY <1>2, <2>1, <3>1, <3>2
  <2> QED
    BY <1>3, <2>2, <2>3, <2>4, <2>5 DEF RecoverActiveFile
<1>4. ASSUME NEW f \in InDir("consuming"), RestoreConsumingFile(f)
      PROVE  FileShape' /\ Stored' = Stored
  <2>1. f \in files /\ f.dir = "consuming" /\ f.body = "whole"
    BY DEF InDir, FileShape
  <2>2. ~ \E g \in InDir("sealed") : g.seq = f.seq
    BY <1>1, <2>1 DEF Apart, InDir
  <2>3. files' = Replaced(f, MovedTo(f, "sealed"))
    BY <1>4, <2>2 DEF RestoreConsumingFile, Move
  <2>4. /\ MovedTo(f, "sealed").batches = f.batches
        /\ MovedTo(f, "sealed").body = "whole" /\ MovedTo(f, "sealed").dir = "sealed"
    BY <1>1, <2>1, MovedParts
  <2> QED
    BY <1>2, <2>1, <2>3, <2>4
<1> QED
  BY <1>3, <1>4 DEF RecoverFile

(* The end of startup finds readable sealed files only. *)
LEMMA StartedFiles ==
  ASSUME TypeOK, FileShape, FinishStart
  PROVE  /\ FileShape' /\ Stored' = Stored /\ writer' = "open"
         /\ \A f \in files' : /\ f.dir = "active" => f.batches = {} /\ f.body = "whole"
                              /\ f.dir # "consuming"
         /\ overlay' = OverlayPlus(ContentOf(Stored))
<1> DEFINE unreadable == {f \in InDir("sealed") : ~Readable(f)}
           scanned == (files \ unreadable)
                        \cup {MovedTo(f, "bad") : f \in unreadable}
<1>1. unreadable = {}
  BY DEF InDir, Readable, FileShape
<1>2. scanned = files
  BY <1>1
<1>3. OpenWriter(scanned) /\ InDir("active") \cup InDir("consuming") = {}
  BY DEF FinishStart
<1>4. OpenWriter(files)
  BY <1>2, <1>3
<1>5. /\ writer' = "open" /\ files \subseteq files'
      /\ \A f \in files' : \/ f \in files
                           \/ f.dir = "active" /\ f.batches = {} /\ f.body = "whole"
  BY <1>4, OpenedParts
<1>6. \A f \in files : f.dir \in {"sealed", "bad"}
  BY <1>3 DEF InDir, TypeOK, BacklogTypeOK, File, Dirs
<1>7. FileShape'
  BY <1>5 DEF FileShape
<1>8. Stored' = Stored
  BY <1>5 DEF Stored, BatchesIn
<1>9. {f \in InDir("sealed") : Readable(f)} = {f \in files : f.dir # "bad"}
  BY <1>6 DEF InDir, Readable, FileShape
<1>10. overlay' = OverlayPlus(ContentOf(Stored))
  BY <1>9 DEF FinishStart, PendingOverlay, Stored
<1> QED
  BY <1>5, <1>6, <1>7, <1>8, <1>10

LEMMA ShapeStep ==
  ASSUME TypeOK, DiskInv, ClaimOnDisk, ClaimShape, EmptyWhenDown, ShapeInv,
         [Next]_vars, Faults \cap DiskFaults = {}
  PROVE  ShapeInv'
<1> USE DEF ShapeInv, clientVars, analyticsVars, workVars, backlogVars
<1>1. ASSUME UNCHANGED <<files, writer, claim, hand, pc>>, Serving' => Serving
      PROVE  ShapeInv'
  BY <1>1 DEF FileShape, ServeShape, HandIsOne, HandShape
<1>2. CASE Handlers
  BY <1>1, <1>2 DEF Handlers, Enqueue, SendCompletes, SendFails, SendCancelled, Serving
<1>3. CASE Receive \/ TimerTick \/ SeeShutdown
  <2>1. UNCHANGED <<files, writer, claim, hand>> /\ Serving /\ pc = "select"
    BY <1>3 DEF Receive, TimerTick, SeeShutdown, Listening, Serving
  <2> QED
    BY <2>1 DEF FileShape, ServeShape, HandIsOne, HandShape
<1>4. CASE ReplaySteps
  BY <1>4, ShapeReplay
<1>5. CASE LiveSteps
  BY <1>5, ShapeLive
<1>6. CASE WindowElapses \/ StoreSteps \/ Shutdown \/ Start
  BY <1>1, <1>6 DEF WindowElapses, StoreSteps, Shutdown, Start, Serving
<1>7. CASE Exit \/ Crash
  <2>1. ~Serving' /\ hand' = {}
    BY <1>7 DEF Exit, Crash, LoseMemory, Serving
  <2>2. FileShape'
    <3>1. CASE UNCHANGED files
      BY <3>1 DEF FileShape
    <3>2. CASE pc = "park" /\ \E b \in hand : AppendInterrupted(b)
      BY <3>2, AppendShape DEF ClaimOnDisk, IdleWhenDown
    <3> QED
      BY <1>7, <3>1, <3>2 DEF Exit, Crash
  <2> QED
    BY <2>1, <2>2 DEF ServeShape, HandIsOne, HandShape
<1>8. CASE RecoverFile
  <2>1. ~Serving' /\ hand' = {}
    BY <1>8 DEF RecoverFile, Serving, EmptyWhenDown
  <2> QED
    BY <1>8, <2>1, RecoveredFile DEF ServeShape, HandIsOne, HandShape
<1>9. CASE FinishStart
  <2>1. hand' = {}
    BY <1>9 DEF FinishStart, Serving, EmptyWhenDown
  <2> QED
    BY <1>9, <2>1, StartedFiles DEF ServeShape, HandIsOne, HandShape
<1>10. CASE UNCHANGED vars
  BY <1>1, <1>10 DEF vars, Serving
<1> QED
  BY <1>2, <1>3, <1>4, <1>5, <1>6, <1>7, <1>8, <1>9, <1>10 DEF Next, Flusher, Startup

--------------------------------------------------------------------------------
(* What the steps do to the stored batches. *)

LEMMA StoredTyped ==
  ASSUME TypeOK
  PROVE  /\ Stored \in SUBSET BatchIds /\ hand \in SUBSET BatchIds
         /\ BatchesIn(claim) \in SUBSET BatchIds
BY DEF TypeOK, BacklogTypeOK, Stored, BatchesIn, File

LEMMA StoredMoves ==
  ASSUME BacklogTypeOK, NEW f \in files, f.dir # "bad", NEW d, d # "bad", Move(f, d)
  PROVE  Stored' = Stored
BY MovedParts DEF Stored, BatchesIn, Move, Replaced

LEMMA StoredLeaves ==
  ASSUME BacklogTypeOK, OneCopyOnDisk, NEW f \in files, f.dir # "bad",
         files' = files \ {f} \/ Move(f, "bad")
  PROVE  Stored' = Stored \ f.batches
<1>1. \A g \in files : g # f => g.batches \cap f.batches = {}
  BY DEF OneCopyOnDisk
<1>2. MovedTo(f, "bad").dir = "bad"
  BY MovedParts
<1> QED
  BY <1>1, <1>2 DEF Stored, BatchesIn, Move, Replaced

(* The claim is replayed to the end, or given up for good. *)
Settles == ReplayOk \/ ReplayMismatch

LEMMA StoredReplay ==
  ASSUME TypeOK, DiskInv, ClaimShape, FileShape, ReplaySteps, Faults \cap DiskFaults = {}
  PROVE  \/ Stored' = Stored /\ UNCHANGED overlay
         \/ /\ Settles /\ Stored' = Stored \ BatchesIn(claim)
            /\ overlay' = OverlayMinus(ContentOf(BatchesIn(claim)))
<1>1. BacklogTypeOK /\ OneCopyOnDisk /\ ~ClaimFault
  BY DEF TypeOK, DiskInv, ClaimFault, DiskFaults
<1>2. ASSUME NEW f \in claim
      PROVE  /\ f \in files /\ f.dir = "consuming" /\ BatchesIn(claim) = f.batches
             /\ ~ \E g \in InDir("sealed") : g.seq = f.seq
  BY <1>1 DEF ClaimShape, BatchesIn, OneCopyOnDisk, InDir
<1>3. CASE SkipBacklog \/ ReplayCommits
  BY <1>3 DEF SkipBacklog, ReplayCommits, backlogVars, Stored, BatchesIn
<1>4. CASE ClaimBacklog
  <2>1. PICK f \in files : f.dir # "bad" /\ Move(f, "consuming")
    BY <1>4 DEF ClaimBacklog, ClaimFile, IsOldest, InDir
  <2> QED
    BY <1>1, <1>4, <2>1, StoredMoves DEF ClaimBacklog
<1>5. CASE QuarantineUnreadable
  BY <1>5 DEF QuarantineUnreadable, InDir, Readable, FileShape
<1>6. CASE ReplayFails
  <2>1. PICK f \in claim : Move(f, "sealed")
    BY <1>1, <1>2, <1>6 DEF ReplayFails, RestoreClaim
  <2> QED
    BY <1>1, <1>2, <1>6, <2>1, StoredMoves DEF ReplayFails
<1>7. CASE ReplayOk
  <2>1. PICK f \in claim : files' = files \ {f}
    BY <1>1, <1>7 DEF ReplayOk, CompleteClaim
  <2> QED
    BY <1>1, <1>2, <1>7, <2>1, StoredLeaves DEF ReplayOk, Settles
<1>8. CASE ReplayMismatch
  <2>1. PICK f \in claim : Move(f, "bad") /\ overlay' = OverlayMinus(ContentOf(f.batches))
    BY <1>1, <1>8 DEF ReplayMismatch, QuarantineClaim
  <2> QED
    BY <1>1, <1>2, <1>8, <2>1, StoredLeaves DEF Settles
<1> QED
  BY <1>3, <1>4, <1>5, <1>6, <1>7, <1>8 DEF ReplaySteps

LEMMA StoredPark ==
  ASSUME TypeOK, ClaimOnDisk, ShapeInv, Park, Faults \cap DiskFaults = {}
  PROVE  Stored' = Stored \cup hand
<1>1. PICK b \in hand : AppendBatches(b)
  BY DEF Park
<1>2. hand = {b}
  BY DEF ShapeInv, HandIsOne
<1>3. Serving
  BY DEF Park, ClaimOnDisk, IdleWhenDown
<1> QED
  BY <1>1, <1>2, <1>3, AppendShape

(* Every other step leaves the stored batches alone; a crash may add the one it
   interrupted. *)
LEMMA StoredKept ==
  ASSUME TypeOK, DiskInv, ClaimOnDisk, ClaimShape, ShapeInv, [Next]_vars,
         Faults \cap DiskFaults = {}
  PROVE  \/ Stored' = Stored
         \/ Settles /\ Stored' = Stored \ BatchesIn(claim)
         \/ Park /\ Stored' = Stored \cup hand
         \/ Crash /\ Stored \subseteq Stored'
<1> USE DEF backlogVars
<1>1. UNCHANGED files => Stored' = Stored
  BY DEF Stored, BatchesIn
<1>2. CASE Handlers \/ Receive \/ TimerTick \/ SeeShutdown \/ WindowElapses
           \/ StoreSteps \/ Shutdown \/ Exit \/ Start \/ UNCHANGED vars
  BY <1>1, <1>2
     DEF Handlers, Enqueue, SendCompletes, SendFails, SendCancelled, Receive,
         TimerTick, SeeShutdown, WindowElapses, StoreSteps, Shutdown, Exit, Start, vars
<1>3. CASE ReplaySteps
  BY <1>3, StoredReplay DEF ShapeInv
<1>4. CASE NothingBuffered \/ TakeBuffer \/ LiveCommits \/ LiveOk \/ LiveFails \/ Forward
  BY <1>1, <1>4 DEF NothingBuffered, TakeBuffer, LiveCommits, LiveOk, LiveFails, Forward
<1>5. CASE Park
  BY <1>5, StoredPark
<1>6. CASE Crash
  <2>1. CASE pc = "park" /\ \E b \in hand : AppendInterrupted(b)
    BY <1>6, <2>1, AppendShape DEF ClaimOnDisk, IdleWhenDown
  <2> QED
    BY <1>1, <1>6, <2>1 DEF Crash
<1>7. CASE RecoverFile
  BY <1>7, RecoveredFile DEF ShapeInv
<1>8. CASE FinishStart
  BY <1>8, StartedFiles DEF ShapeInv
<1> QED
  BY <1>2, <1>3, <1>4, <1>5, <1>6, <1>7, <1>8
     DEF Next, Flusher, LiveSteps, Startup

--------------------------------------------------------------------------------
(* The overlay. *)

(* Usage on its way through the process, and usage of batches. *)
Pipe == sending \cup queue \cup buffer

LEMMA OutstandingIs ==
  ASSUME TypeOK, FileShape
  PROVE  /\ Outstanding = Pipe \cup ContentOf(Stored \cup hand)
         /\ OnDisk = ContentOf(Stored)
<1>1. \A f \in files : f.dir \in Dirs
  BY DEF TypeOK, BacklogTypeOK, File
<1>2. Replayable = {f \in files : f.dir # "bad"}
  BY <1>1 DEF Replayable, FileShape, Readable, Dirs
<1>3. OnDisk = ContentOf(Stored)
  BY <1>2 DEF OnDisk, Stored
<1>4. \A A, B : ContentOf(A \cup B) = ContentOf(A) \cup ContentOf(B)
  BY DEF ContentOf
<1> QED
  BY <1>3, <1>4 DEF Outstanding, InMemory, Pipe

LEMMA OutstandingNext ==
  ASSUME TypeOK', FileShape'
  PROVE  /\ Outstanding' = Pipe' \cup ContentOf(Stored \cup hand)'
         /\ OnDisk' = ContentOf(Stored)'
<1>1. \A f \in files' : f.dir \in Dirs
  BY DEF TypeOK, BacklogTypeOK, File
<1>2. Replayable' = {f \in files' : f.dir # "bad"}
  BY <1>1 DEF Replayable, FileShape, Readable, Dirs
<1>3. OnDisk' = ContentOf(Stored)'
  BY <1>2 DEF OnDisk, Stored, ContentOf, BatchesIn
<1>4. ContentOf(Stored \cup hand)' = ContentOf(Stored)' \cup ContentOf(hand)'
  BY DEF ContentOf
<1> QED
  BY <1>3, <1>4 DEF Outstanding, InMemory, Pipe

LEMMA ContentMinus ==
  ASSUME TypeOK, EventsApart, NEW A \in SUBSET BatchIds, NEW C \in SUBSET A
  PROVE  ContentOf(A \ C) = ContentOf(A) \ ContentOf(C)
BY DEF EventsApart, ContentOf

(* What a step needs: the invariants before it, and the shape after it. *)
ExactHyp ==
  /\ BaseInv /\ ShapeInv /\ OverlayIsOutstanding
  /\ TypeOK' /\ ShapeInv'
  /\ Faults \cap (DiskFaults \cup {"cancel"}) = {}

LEMMA ExactMoves ==
  ASSUME ExactHyp, Receiving' => Receiving, UNCHANGED <<overlay, content>>,
         Pipe' = Pipe, (Stored \cup hand)' = Stored \cup hand
  PROVE  OverlayIsOutstanding'
<1>1. Outstanding' = Outstanding
  BY OutstandingIs, OutstandingNext DEF ExactHyp, BaseInv, ShapeInv, ContentOf
<1> QED
  BY <1>1 DEF ExactHyp, OverlayIsOutstanding

(* A subtraction is of usage that was outstanding and is no longer. *)
LEMMA ExactMinus ==
  ASSUME ExactHyp, Receiving, UNCHANGED content, Pipe' = Pipe,
         NEW C \in SUBSET (Stored \cup hand),
         overlay' = OverlayMinus(ContentOf(C)),
         (Stored \cup hand)' = (Stored \cup hand) \ C
  PROVE  OverlayIsOutstanding'
<1> DEFINE A == Stored \cup hand
           E == ContentOf(C)
<1>1. A \in SUBSET BatchIds /\ C \in SUBSET A
  BY StoredTyped DEF ExactHyp, BaseInv
<1>2. Pipe \cap ContentOf(C) = {}
  BY <1>1 DEF ExactHyp, BaseInv, EventsApart, Pipe, ContentOf
<1>3. ContentOf(A \ C) = ContentOf(A) \ ContentOf(C)
  BY <1>1, ContentMinus DEF ExactHyp, BaseInv
<1>4. Outstanding = Pipe \cup ContentOf(A)
  BY OutstandingIs DEF ExactHyp, BaseInv, ShapeInv
<1>5. Outstanding' = Pipe' \cup ContentOf(A)'
  BY OutstandingNext DEF ExactHyp, ShapeInv
<1>6. ContentOf(A)' = ContentOf(A \ C)
  BY DEF ContentOf
<1>7. Outstanding' = Outstanding \ E
  BY <1>2, <1>3, <1>4, <1>5, <1>6
<1>8. E \subseteq Outstanding
  BY <1>1, <1>4 DEF ContentOf
<1> HIDE DEF E, A
<1>9. \A e \in Events : overlay[e] = IF e \in Outstanding THEN 1 ELSE 0
  BY DEF ExactHyp, OverlayIsOutstanding
<1>10. E \subseteq Events
  BY <1>1, MemoryTyped DEF E, A, ExactHyp, BaseInv
<1>11. overlay' = OverlayMinus(E)
  BY DEF E
<1>12. \A e \in Events : overlay'[e] = IF e \in Outstanding \ E THEN 1 ELSE 0
  <2>1. CASE \A e \in Events : overlay[e] = 0
    <3>1. E = {}
      BY <1>8, <1>9, <1>10, <2>1
    <3> QED
      BY <1>9, <1>11, <2>1, <3>1 DEF OverlayMinus
  <2>2. CASE ~ \A e \in Events : overlay[e] = 0
    <3>1. \A e \in Events : overlay'[e] = overlay[e] - IF e \in E THEN 1 ELSE 0
      BY <1>11, <2>2 DEF OverlayMinus
    <3> QED
      BY <1>8, <1>9, <3>1
  <2> QED
    BY <2>1, <2>2
<1> QED
  BY <1>7, <1>12 DEF OverlayIsOutstanding

LEMMA ExactHandlers ==
  ASSUME ExactHyp, Handlers
  PROVE  OverlayIsOutstanding'
<1> USE DEF ExactHyp, BaseInv, clientVars, analyticsVars, workVars, backlogVars
<1> PICK e \in Events :
      Enqueue(e) \/ SendCompletes(e) \/ SendFails(e) \/ SendCancelled(e)
  BY DEF Handlers
<1>1. /\ UNCHANGED <<content, proc>> /\ (Stored \cup hand)' = Stored \cup hand
      /\ Receiving' = Receiving
  BY DEF Enqueue, SendCompletes, SendFails, SendCancelled, Stored, BatchesIn, Receiving
<1>2. CASE Enqueue(e)
  <2>1. overlay' = OverlayPlus({e}) /\ e \in fresh /\ Pipe' = Pipe \cup {e}
    BY <1>2 DEF Enqueue, Pipe
  <2>2. overlay'[e] = 1 /\ \A d \in Events : d # e => overlay'[d] = overlay[d]
    BY <2>1 DEF OverlayPlus, TypeOK, FreshUncounted
  <2>3. Outstanding' = Outstanding \cup {e}
    BY <1>1, <2>1, OutstandingIs, OutstandingNext DEF ShapeInv, ContentOf
  <2> QED
    BY <1>1, <2>2, <2>3 DEF OverlayIsOutstanding
<1>3. CASE SendCompletes(e)
  BY <1>1, <1>3, ExactMoves DEF SendCompletes, Pipe
<1>4. CASE SendFails(e)
  BY <1>1, <1>4 DEF SendFails, Receiving, OverlayIsOutstanding
<1>5. CASE SendCancelled(e)
  BY <1>5 DEF SendCancelled
<1> QED
  BY <1>2, <1>3, <1>4, <1>5

LEMMA ExactReplay ==
  ASSUME ExactHyp, ReplaySteps
  PROVE  OverlayIsOutstanding'
<1> USE DEF ExactHyp, BaseInv, clientVars, analyticsVars, workVars
<1>1. /\ UNCHANGED <<hand, content, sending, queue, buffer, proc>>
      /\ Pipe' = Pipe /\ Receiving' = Receiving
  BY DEF ReplaySteps, SkipBacklog, ClaimBacklog, QuarantineUnreadable,
         ReplayCommits, ReplayOk, ReplayFails, ReplayMismatch, Pipe, Receiving
<1>2. CASE Stored' = Stored /\ UNCHANGED overlay
  BY <1>1, <1>2, ExactMoves
<1>3. CASE /\ Stored' = Stored \ BatchesIn(claim)
           /\ overlay' = OverlayMinus(ContentOf(BatchesIn(claim)))
  <2>1. CASE ~Receiving
    BY <1>1, <2>1 DEF OverlayIsOutstanding
  <2>2. CASE Receiving
    <3>1. BatchesIn(claim) \subseteq Stored /\ hand \cap BatchesIn(claim) = {}
      BY DEF ClaimShape, Stored, BatchesIn, DiskInv, HandIsNew
    <3> QED
      BY <1>1, <1>3, <2>2, <3>1, ExactMinus
  <2> QED
    BY <2>1, <2>2
<1>4. Faults \cap DiskFaults = {}
  BY DEF DiskFaults
<1> QED
  BY <1>2, <1>3, <1>4, StoredReplay DEF ShapeInv

LEMMA ExactLive ==
  ASSUME ExactHyp, LiveSteps
  PROVE  OverlayIsOutstanding'
<1> USE DEF ExactHyp, BaseInv, clientVars, analyticsVars, workVars, backlogVars
<1>1. UNCHANGED files => Stored' = Stored
  BY DEF Stored, BatchesIn
<1>2. CASE NothingBuffered \/ LiveCommits \/ LiveFails
  BY <1>1, <1>2, ExactMoves DEF NothingBuffered, LiveCommits, LiveFails, Pipe, Receiving
<1>3. CASE Forward
  <2>1. CASE proc = "draining"
    BY <1>3, <2>1 DEF Forward, OverlayIsOutstanding, Receiving
  <2>2. CASE proc # "draining"
    BY <1>1, <1>3, <2>2, ExactMoves DEF Forward, Pipe, Receiving
  <2> QED
    BY <2>1, <2>2
<1>4. CASE TakeBuffer
  <2>1. PICK b \in BatchIds :
          /\ content[b] = {}
          /\ content' = [content EXCEPT ![b] = buffer]
          /\ hand' = {b}
    BY <1>4 DEF TakeBuffer
  <2>2. UNCHANGED <<files, sending, queue, overlay, proc>> /\ buffer' = {} /\ hand = {}
    BY <1>4 DEF TakeBuffer, ShapeInv, HandIsOne, HandShape
  <2>3. b \notin Stored
    BY <2>1 DEF DiskInv, StoredAreUsed, Stored, BatchesIn
  <2>4. content'[b] = buffer /\ \A c \in BatchIds : c # b => content'[c] = content[c]
    BY <2>1 DEF TypeOK
  <2>5. ContentOf(Stored \cup hand)' = ContentOf(Stored \cup hand) \cup buffer
    BY <1>1, <2>1, <2>2, <2>3, <2>4, StoredTyped DEF ContentOf
  <2>6. Outstanding' = Outstanding
    BY <2>2, <2>5, OutstandingIs, OutstandingNext DEF ShapeInv, Pipe
  <2> QED
    BY <2>2, <2>6 DEF OverlayIsOutstanding, Receiving
<1>5. CASE LiveOk
  <2>1. /\ overlay' = OverlayMinus(ContentOf(hand)) /\ hand' = {} /\ Stored' = Stored
        /\ UNCHANGED <<content, proc>> /\ Pipe' = Pipe
    BY <1>1, <1>5 DEF LiveOk, Pipe
  <2>2. hand \cap Stored = {}
    BY DEF DiskInv, HandIsNew, Stored, BatchesIn
  <2>3. CASE Receiving
    BY <2>1, <2>2, <2>3, ExactMinus
  <2>4. CASE ~Receiving
    BY <2>1, <2>4 DEF OverlayIsOutstanding, Receiving
  <2> QED
    BY <2>3, <2>4
<1>6. CASE Park
  <2>1. Stored' = Stored \cup hand /\ hand' = {}
    BY <1>6, StoredPark DEF Park, DiskFaults
  <2> QED
    BY <1>6, <2>1, ExactMoves DEF Park, Pipe, Receiving
<1> QED
  BY <1>2, <1>3, <1>4, <1>5, <1>6 DEF LiveSteps

LEMMA ExactStep ==
  ASSUME ExactHyp, [Next]_vars
  PROVE  OverlayIsOutstanding'
<1> USE DEF ExactHyp, BaseInv, clientVars, analyticsVars, workVars, backlogVars
<1>1. UNCHANGED files => Stored' = Stored
  BY DEF Stored, BatchesIn
<1>2. CASE Handlers
  BY <1>2, ExactHandlers
<1>3. CASE Receive
  <2>1. PICK E \in SUBSET queue : buffer' = buffer \cup E /\ queue' = queue \ E
    BY <1>3 DEF Receive, kSubset
  <2>2. Pipe' = Pipe
    BY <1>3, <2>1 DEF Receive, Pipe
  <2> QED
    BY <1>1, <1>3, <2>2, ExactMoves DEF Receive, Receiving
<1>4. CASE SeeShutdown
  BY <1>1, <1>4, ExactMoves DEF SeeShutdown, Pipe, Receiving
<1>5. CASE TimerTick \/ WindowElapses \/ StoreSteps \/ Shutdown \/ UNCHANGED vars
  <2>1. /\ UNCHANGED <<files, hand, content, sending, queue, buffer, overlay>>
        /\ Receiving' => Receiving
    BY <1>5 DEF TimerTick, WindowElapses, StoreSteps, Shutdown, vars, Receiving
  <2> QED
    BY <1>1, <2>1, ExactMoves DEF Pipe
<1>6. CASE ReplaySteps
  BY <1>6, ExactReplay
<1>7. CASE LiveSteps
  BY <1>7, ExactLive
<1>8. CASE Exit \/ Crash \/ Start \/ RecoverFile
  BY <1>8 DEF Exit, Crash, LoseMemory, Start, RecoverFile, OverlayIsOutstanding, Receiving
<1>9. CASE FinishStart
  <2>1. /\ sending = {} /\ queue = {} /\ buffer = {} /\ hand = {}
        /\ \A e \in Events : overlay[e] = 0
    BY <1>9 DEF FinishStart, EmptyWhenDown, Serving
  <2>2. Stored' = Stored /\ overlay' = OverlayPlus(ContentOf(Stored))
    BY <1>9, StartedFiles DEF ShapeInv
  <2>3. Pipe' = {} /\ hand' = {} /\ UNCHANGED content
    BY <1>9, <2>1 DEF FinishStart, Pipe
  <2>4. Outstanding' = ContentOf(Stored)
    BY <2>2, <2>3, OutstandingIs, OutstandingNext DEF ShapeInv, ContentOf
  <2> QED
    BY <2>1, <2>2, <2>4 DEF OverlayPlus, OverlayIsOutstanding
<1> QED
  BY <1>2, <1>3, <1>4, <1>5, <1>6, <1>7, <1>8, <1>9 DEF Next, Flusher, Startup

LEMMA ShapeInit == Init => ShapeInv
BY DEF Init, BacklogInit, ShapeInv, FileShape, ServeShape, HandIsOne, HandShape,
       ActiveFile

(* A quota check counts every outstanding event exactly once and no other event,
   until the flusher drops its receiver: across failed and unanswered
   transactions, digest mismatches, crashes in the middle of parking and
   restarts, as long as no handler is cancelled and single disk operations
   succeed. *)
THEOREM OverlayIsExact ==
  ASSUME Faults \cap (DiskFaults \cup {"cancel"}) = {}
  PROVE  Spec => []OverlayIsOutstanding
<1> DEFINE Inv == BaseInv /\ ShapeInv /\ OverlayIsOutstanding
<1>1. Init => Inv
  <2> SUFFICES ASSUME Init PROVE Inv
    OBVIOUS
  <2>1. Outstanding = {}
    BY DEF Init, BacklogInit, Outstanding, InMemory, OnDisk, Replayable, ContentOf,
           BatchesIn, ActiveFile
  <2>2. \A e \in Events : overlay[e] = 0
    BY DEF Init
  <2> QED
    BY <2>1, <2>2, BaseInit, ShapeInit DEF OverlayIsOutstanding
<1>2. Inv /\ [Next]_vars => Inv'
  <2> SUFFICES ASSUME Inv, [Next]_vars PROVE Inv'
    OBVIOUS
  <2>1. BaseInv'
    BY BaseStep
  <2>2. ShapeInv'
    BY ShapeStep DEF BaseInv, DiskFaults
  <2>3. OverlayIsOutstanding'
    BY <2>1, <2>2, ExactStep DEF ExactHyp, BaseInv
  <2> QED
    BY <2>1, <2>2, <2>3
<1> QED
  BY <1>1, <1>2, PTL DEF Spec

--------------------------------------------------------------------------------
(* The journal. *)

(* Events leave the retry buffer for the journal only after their batch has been
   committed or parked. *)
RetryInv ==
  /\ pc \in {"select", "claim", "replay", "replayed", "live"} => retryBuf = {}
  /\ pc \in {"apply", "applied", "park"} => retryBuf \subseteq ContentOf(hand)
  /\ pc = "forward" => retryBuf \subseteq BilledEvents \cup OnDisk

(* A step keeps events accounted if it keeps the stored batches, or drops only
   batches of the row. *)
LEMMA AccountedGrows ==
  ASSUME TypeOK, FileShape, TypeOK', FileShape', [Next]_vars,
         BilledEvents \subseteq BilledEvents',
         NEW C, Stored \ C \subseteq Stored', ContentOf(C) \subseteq BilledEvents
  PROVE  BilledEvents \cup OnDisk \subseteq (BilledEvents \cup OnDisk)'
<1>1. OnDisk = ContentOf(Stored) /\ OnDisk' = ContentOf(Stored)'
  BY OutstandingIs, OutstandingNext
<1>2. \A b \in Stored \ C : content[b] \subseteq content'[b]
  BY ContentGrows, StoredTyped
<1>3. \A b \in Stored \ C : content[b] \subseteq OnDisk'
  BY <1>1, <1>2 DEF ContentOf
<1>4. OnDisk \subseteq ContentOf(C) \cup OnDisk'
  BY <1>1, <1>3 DEF ContentOf
<1> QED
  BY <1>4

(* A digest mismatch quarantines a file of one batch, which is in the row. *)
LEMMA SettledIsBilled ==
  ASSUME TypeOK, ClaimShape, FileShape, CommitInv, Settles
  PROVE  ContentOf(BatchesIn(claim)) \subseteq BilledEvents
<1>1. BatchesIn(claim) \in SUBSET BatchIds
  BY StoredTyped
<1>2. Committed(BatchesIn(claim))
  <2>1. CASE ReplayOk
    BY <2>1 DEF ReplayOk, CommitInv
  <2>2. CASE ReplayMismatch
    <3>1. PICK c \in BatchesIn(claim) : c \in markers
      BY <2>2 DEF ReplayMismatch
    <3>2. \A b \in BatchesIn(claim) : b = c
      BY DEF ClaimShape, FileShape, BatchesIn
    <3> QED
      BY <3>1, <3>2 DEF CommitInv, Committed
  <2> QED
    BY <2>1, <2>2 DEF Settles
<1> QED
  BY <1>1, <1>2 DEF Committed, BilledEvents, ContentOf

LEMMA JournalStep ==
  ASSUME BaseInv, CommitInv, ShapeInv, RetryInv, JournaledIsAccounted, [Next]_vars,
         TypeOK', ShapeInv', CommitInv',
         Faults \cap (DiskFaults \cup {"patch"}) = {}
  PROVE  RetryInv' /\ JournaledIsAccounted'
<1> USE DEF BaseInv, clientVars, analyticsVars, workVars, backlogVars
<1> DEFINE Accounted == BilledEvents \cup OnDisk
<1>1. Faults \cap DiskFaults = {} /\ "patch" \notin Faults
  OBVIOUS
<1>2. BilledEvents \subseteq BilledEvents'
  BY <1>1, CommitStep, BilledGrows
<1>3. Accounted \subseteq Accounted'
  <2>1. CASE Settles /\ Stored' = Stored \ BatchesIn(claim)
    BY <1>2, <2>1, SettledIsBilled, AccountedGrows DEF ShapeInv
  <2>2. CASE Stored \subseteq Stored'
    <3>1. ContentOf({}) \subseteq BilledEvents /\ Stored \ {} \subseteq Stored'
      BY <2>2 DEF ContentOf
    <3> QED
      BY <1>2, <3>1, AccountedGrows DEF ShapeInv
  <2> QED
    BY <1>1, <2>1, <2>2, StoredKept
<1> HIDE DEF Accounted
<1>4. ASSUME journaled' = journaled \/ (journaled' = journaled \cup retryBuf /\ pc = "forward")
      PROVE  JournaledIsAccounted'
  BY <1>3, <1>4 DEF JournaledIsAccounted, RetryInv, Accounted
<1>5. CASE Handlers \/ WindowElapses \/ StoreSteps \/ Shutdown \/ Startup
           \/ UNCHANGED vars
  <2>1. UNCHANGED <<retryBuf, journaled, pc, hand, content>>
    BY <1>5 DEF Handlers, Enqueue, SendCompletes, SendFails, SendCancelled,
                WindowElapses, StoreSteps, Shutdown, Startup, Start, RecoverFile,
                FinishStart, vars
  <2> QED
    BY <1>3, <1>4, <2>1 DEF RetryInv, ContentOf, Accounted
<1>6. CASE Receive \/ TimerTick \/ SeeShutdown
  <2>1. UNCHANGED <<retryBuf, journaled>> /\ pc = "select" /\ pc' \in {"select", "claim"}
    BY <1>6 DEF Receive, TimerTick, SeeShutdown, Listening, BeginFlush
  <2> QED
    BY <1>4, <2>1 DEF RetryInv
<1>7. CASE ReplaySteps
  <2>1. /\ UNCHANGED <<retryBuf, journaled>>
        /\ pc \in {"claim", "replay", "replayed"} /\ pc' \in {"replay", "replayed", "live"}
    BY <1>7 DEF ReplaySteps, SkipBacklog, ClaimBacklog, QuarantineUnreadable,
                ReplayCommits, ReplayOk, ReplayFails, ReplayMismatch
  <2> QED
    BY <1>4, <2>1 DEF RetryInv
<1>8. CASE NothingBuffered
  BY <1>4, <1>8 DEF NothingBuffered, RetryInv
<1>9. CASE TakeBuffer
  <2>1. PICK b \in BatchIds : content'[b] = buffer /\ hand' = {b}
    BY <1>9 DEF TakeBuffer, TypeOK
  <2>2. retryBuf' = buffer /\ UNCHANGED journaled /\ pc' \in {"apply", "park"}
    BY <1>9 DEF TakeBuffer, RetryInv
  <2>3. retryBuf' \subseteq ContentOf(hand)'
    BY <2>1, <2>2 DEF ContentOf
  <2> QED
    BY <1>4, <2>2, <2>3 DEF RetryInv
<1>10. CASE LiveCommits \/ LiveFails
  BY <1>4, <1>10 DEF LiveCommits, LiveFails, RetryInv, ContentOf
<1>11. CASE LiveOk
  <2>1. ContentOf(hand) \subseteq BilledEvents
    BY <1>11, StoredTyped DEF LiveOk, CommitInv, Committed, BilledEvents, ContentOf
  <2>2. UNCHANGED <<retryBuf, journaled>> /\ pc' = "forward" /\ retryBuf \subseteq Accounted'
    BY <1>3, <1>11, <2>1 DEF LiveOk, RetryInv, Accounted
  <2> QED
    BY <1>4, <2>2 DEF RetryInv, Accounted
<1>12. CASE Park
  <2>1. Stored' = Stored \cup hand /\ UNCHANGED content
    BY <1>1, <1>12, StoredPark DEF Park
  <2>2. ContentOf(hand) \subseteq OnDisk'
    BY <2>1, OutstandingNext DEF ShapeInv, ContentOf
  <2> QED
    BY <1>4, <1>12, <2>2 DEF Park, RetryInv
<1>13. CASE Forward
  BY <1>4, <1>13 DEF Forward, RetryInv
<1>14. CASE Exit \/ Crash
  BY <1>4, <1>14 DEF Exit, Crash, LoseMemory, RetryInv
<1> QED
  BY <1>5, <1>6, <1>7, <1>8, <1>9, <1>10, <1>11, <1>12, <1>13, <1>14
     DEF Next, Flusher, LiveSteps

(* The usage journal never shows usage that accounting does not have, whatever
   crashes, is cancelled, fails or goes unanswered in the database, and whichever
   node prunes, as long as single disk operations succeed and no administrator
   writes older totals back. *)
THEOREM JournalIsAccounted ==
  ASSUME Faults \cap (DiskFaults \cup {"patch"}) = {}
  PROVE  Spec => []JournaledIsAccounted
<1> DEFINE Inv == BaseInv /\ CommitInv /\ ShapeInv /\ RetryInv /\ JournaledIsAccounted
<1>1. Init => Inv
  <2> SUFFICES ASSUME Init PROVE Inv
    OBVIOUS
  <2>1. CommitInv /\ RetryInv /\ JournaledIsAccounted
    BY DEF Init, StoreInit, CommitInv, Committed, RetryInv, JournaledIsAccounted
  <2> QED
    BY <2>1, BaseInit, ShapeInit
<1>2. Inv /\ [Next]_vars => Inv'
  <2> SUFFICES ASSUME Inv, [Next]_vars PROVE Inv'
    OBVIOUS
  <2>1. BaseInv'
    BY BaseStep
  <2>2. ShapeInv'
    BY ShapeStep DEF BaseInv, DiskFaults
  <2>3. CommitInv'
    BY CommitStep DEF BaseInv
  <2>4. RetryInv' /\ JournaledIsAccounted'
    BY <2>1, <2>2, <2>3, JournalStep DEF BaseInv
  <2> QED
    BY <2>1, <2>2, <2>3, <2>4
<1> QED
  BY <1>1, <1>2, PTL DEF Spec

================================================================================
