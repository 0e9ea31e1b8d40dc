---------------------------- MODULE UsageAccounting ----------------------------
(***************************************************************************)
(* Quota accounting of the API process: usage events enter a bounded       *)
(* channel, one flusher task aggregates them into rollup batches, applies  *)
(* each batch to the control database or parks it in the disk backlog, and *)
(* replays parked batches; an in-memory overlay shows quota checks the     *)
(* usage the database does not contain yet.                                *)
(*                                                                         *)
(* Request handlers, the flusher, the database, other nodes, the clock and *)
(* the process' own life interleave.  One flusher step ends at every await *)
(* and at every file operation whose failure is handled on its own.        *)
(* All events belong to one key: keys share nothing but the batches.       *)
(***************************************************************************)
EXTENDS RollupStore, RollupBacklog, Integers, FiniteSets, FiniteSetsExt

CONSTANTS
  Events,             (* usage events that may happen                       *)
  ChannelCapacity,    (* mpsc::channel capacity                             *)
  BatchSize,          (* buffered events that force a flush                 *)
  MaxAttempts         (* USAGE_EVENT_ROLLUP_MAX_ATTEMPTS                    *)

ASSUME SizesAssumption ==
  /\ ChannelCapacity \in Nat \ {0}
  /\ BatchSize \in Nat \ {0}
  /\ MaxAttempts \in Nat \ {0}

VARIABLES
  proc,         (* life of the API process                                  *)
  fresh,        (* events that have not happened yet                        *)
  sending,      (* events whose handler awaits channel capacity             *)
  accepted,     (* events whose append_usage_event returned Ok              *)
  queue,        (* events in the channel                                    *)
  buffer,       (* the flusher's event buffer                               *)
  retryBuf,     (* analytics_retry_buffer                                   *)
  journaled,    (* events handed to the usage journal                       *)
  overlay,      (* PendingUsageRollups: net additions of each event         *)
  pc,           (* where the flusher task is                                *)
  hand,         (* the live batch the flusher holds, if any                 *)
  claim,        (* the claimed backlog file, if any                         *)
  content,      (* events aggregated into each batch                        *)
  attempts,     (* UsageRollupRetryState::attempts                          *)
  window        (* UsageRollupRetryState::suspended_until against the clock *)

clientVars == <<fresh, sending, accepted>>
analyticsVars == <<retryBuf, journaled>>
workVars == <<hand, claim, content>>
retryVars == <<attempts, window>>
vars == <<storeVars, backlogVars, clientVars, queue, buffer, analyticsVars,
          overlay, pc, workVars, retryVars, proc>>

(* "stopping": the shutdown signal is sent; "draining": the flusher runs its
   final flush; "closed": the flusher has returned and the receiver is gone;
   "starting": the backlog is being reopened. *)
Procs == {"up", "stopping", "draining", "closed", "down", "starting"}

(* "claim", "replay" and "replayed" are flush_rollup_backlog; "live", "apply",
   "applied" and "park" the live batch; "forward" the analytics tail. *)
Pcs == {"select", "claim", "replay", "replayed",
        "live", "apply", "applied", "park", "forward"}

TypeOK ==
  /\ StoreTypeOK
  /\ BacklogTypeOK
  /\ proc \in Procs
  /\ fresh \subseteq Events /\ sending \subseteq Events
  /\ accepted \subseteq Events /\ queue \subseteq Events
  /\ buffer \subseteq Events
  /\ retryBuf \subseteq Events /\ journaled \subseteq Events
  /\ overlay \in [Events -> Int]
  /\ pc \in Pcs
  /\ hand \in SUBSET BatchIds
  /\ claim \in SUBSET File
  /\ content \in [BatchIds -> SUBSET Events]
  /\ attempts \in 0..MaxAttempts
  /\ window \in {"open", "suspended", "elapsed"}

Init ==
  /\ StoreInit
  /\ BacklogInit
  /\ proc = "up"
  /\ fresh = Events
  /\ sending = {} /\ accepted = {} /\ queue = {} /\ buffer = {}
  /\ retryBuf = {} /\ journaled = {}
  /\ overlay = [e \in Events |-> 0]
  /\ pc = "select"
  /\ hand = {} /\ claim = {}
  /\ content = [b \in BatchIds |-> {}]
  /\ attempts = 0 /\ window = "open"

--------------------------------------------------------------------------------
(* Helpers. *)

Serving == proc \in {"up", "stopping", "draining", "closed"}
Receiving == proc \in {"up", "stopping", "draining"}
Listening == pc = "select" /\ proc \in {"up", "stopping"}

ContentOf(B) == UNION {content[b] : b \in B}

(* PendingUsageRollups::add_batch.                                           *)
OverlayPlus(E) == [e \in Events |-> overlay[e] + IF e \in E THEN 1 ELSE 0]

(* Mutant: an applied batch stays in the overlay.                            *)
OverlayMinusNothing(E) ==
  overlay

(* PendingUsageRollups::subtract_batch; a key without an entry is skipped.   *)
OverlayMinus(E) ==
  IF \A e \in Events : overlay[e] = 0 THEN overlay
  ELSE [e \in Events |-> overlay[e] - IF e \in E THEN 1 ELSE 0]

(* UsageRollupRetryState. *)
Suspended == window = "suspended"

ReenableIfReady ==
  IF window = "elapsed" THEN attempts' = 0 /\ window' = "open"
                        ELSE UNCHANGED retryVars

RecordSuccess == attempts' = 0 /\ window' = "open"

RecordFailure ==
  IF attempts + 1 >= MaxAttempts
  THEN attempts' = MaxAttempts /\ window' = "suspended"
  ELSE attempts' = attempts + 1 /\ UNCHANGED window

(* flush_usage_event_buffer begins. *)
BeginFlush == pc' = "claim" /\ ReenableIfReady

--------------------------------------------------------------------------------
(* Request handlers: UsageAccounting::enqueue_events.                        *)

(* The overlay first, then the send. *)
Enqueue(e) ==
  /\ Serving
  /\ e \in fresh
  /\ fresh' = fresh \ {e}
  /\ overlay' = OverlayPlus({e})
  /\ sending' = sending \cup {e}
  /\ UNCHANGED <<storeVars, backlogVars, accepted, queue, buffer,
                 analyticsVars, pc, workVars, retryVars, proc>>

SendCompletes(e) ==
  /\ Receiving
  /\ e \in sending
  /\ Cardinality(queue) < ChannelCapacity
  /\ sending' = sending \ {e}
  /\ queue' = queue \cup {e}
  /\ accepted' = accepted \cup {e}
  /\ UNCHANGED <<storeVars, backlogVars, fresh, buffer, analyticsVars,
                 overlay, pc, workVars, retryVars, proc>>

(* The receiver is gone: take the overlay back and return an error.          *)
SendFails(e) ==
  /\ proc = "closed"
  /\ e \in sending
  /\ sending' = sending \ {e}
  /\ overlay' = OverlayMinus({e})
  /\ UNCHANGED <<storeVars, backlogVars, fresh, accepted, queue, buffer,
                 analyticsVars, pc, workVars, retryVars, proc>>

(* The handler's future is dropped at the await: nothing takes the overlay
   back. *)
SendCancelled(e) ==
  /\ "cancel" \in Faults
  /\ Serving
  /\ e \in sending
  /\ sending' = sending \ {e}
  /\ UNCHANGED <<storeVars, backlogVars, fresh, accepted, queue, buffer,
                 analyticsVars, overlay, pc, workVars, retryVars, proc>>

--------------------------------------------------------------------------------
(* The flusher's tokio::select!.                                             *)

(* rx.recv, then try_recv up to the batch size.                              *)
Receive ==
  /\ Listening
  /\ queue # {}
  /\ LET room == Max({1, BatchSize - Cardinality(buffer)})
         n    == Min({room, Cardinality(queue)})
     IN  \E E \in kSubset(n, queue) :
           /\ buffer' = buffer \cup E
           /\ queue' = queue \ E
  /\ IF Cardinality(buffer') >= BatchSize THEN BeginFlush
                                          ELSE UNCHANGED <<pc, retryVars>>
  /\ UNCHANGED <<storeVars, backlogVars, clientVars, analyticsVars,
                 overlay, workVars, proc>>

(* Mutant: the backlog is not looked at.                                     *)
PruneWheneverDue ==
  UNCHANGED storeVars \/ PruneMarkers

(* prune_usage_rollup_batch_markers_if_due: only behind an empty sealed
   directory; not due, or failing, it changes nothing. *)
PruneIfDue ==
  \/ UNCHANGED storeVars
  \/ InDir("sealed") = {} /\ PruneMarkers

(* Mutant: only buffered events start a timed flush.                         *)
WorkWaitingInBuffer ==
  buffer # {}

(* What a timed flush is for: buffered events, or a parked backlog outside the
   retry window. *)
WorkWaiting == buffer # {} \/ (~Suspended /\ InDir("sealed") # {})

(* The flush interval has passed. *)
TimerTick ==
  /\ Listening
  /\ PruneIfDue
  /\ IF WorkWaiting
     THEN BeginFlush
     ELSE ReenableIfReady /\ UNCHANGED pc
  /\ UNCHANGED <<backlogVars, clientVars, queue, buffer, analyticsVars,
                 overlay, workVars, proc>>

(* The shutdown signal: drain what the channel holds, then flush once.       *)
SeeShutdown ==
  /\ proc = "stopping"
  /\ pc = "select"
  /\ proc' = "draining"
  /\ buffer' = buffer \cup queue
  /\ queue' = {}
  /\ BeginFlush
  /\ UNCHANGED <<storeVars, backlogVars, clientVars, analyticsVars,
                 overlay, workVars>>

--------------------------------------------------------------------------------
(* flush_rollup_backlog. *)

(* Suspended, nothing sealed, or the claiming rename fails.                  *)
SkipBacklog ==
  /\ pc = "claim"
  /\ Suspended \/ InDir("sealed") = {} \/ ClaimFault
  /\ pc' = "live"
  /\ UNCHANGED <<storeVars, backlogVars, clientVars, queue, buffer,
                 analyticsVars, overlay, workVars, retryVars, proc>>

(* Mutant: the retry window is not looked at.                                *)
ClaimBacklogAnyTime ==
  /\ pc = "claim"
  /\ \E f \in files :
       /\ Readable(f)
       /\ ClaimFile(f)
       /\ claim' = {MovedTo(f, "consuming")}
  /\ pc' = "replay"
  /\ UNCHANGED <<storeVars, writer, clientVars, queue, buffer,
                 analyticsVars, overlay, hand, content, retryVars, proc>>

ClaimBacklog ==
  /\ pc = "claim"
  /\ ~Suspended
  /\ \E f \in files :
       /\ Readable(f)
       /\ ClaimFile(f)
       /\ claim' = {MovedTo(f, "consuming")}
  /\ pc' = "replay"
  /\ UNCHANGED <<storeVars, writer, clientVars, queue, buffer,
                 analyticsVars, overlay, hand, content, retryVars, proc>>

(* The claimed file cannot be read: it goes to bad/, or stays in consuming/ if
   that fails; the overlay keeps its usage. *)
QuarantineUnreadable ==
  /\ pc = "claim"
  /\ ~Suspended
  /\ \E f \in InDir("sealed") :
       /\ ~Readable(f)
       /\ IsOldest(f, InDir("sealed"))
       /\ \/ QuarantineClaim(f)
          \/ ClaimFault /\ ClaimFile(f)
  /\ pc' = "live"
  /\ UNCHANGED <<storeVars, writer, clientVars, queue, buffer,
                 analyticsVars, overlay, workVars, retryVars, proc>>

ReplayCommits ==
  /\ pc = "replay"
  /\ ApplyBatches(BatchesIn(claim))
  /\ pc' = "replayed"
  /\ UNCHANGED <<backlogVars, clientVars, queue, buffer, analyticsVars,
                 overlay, workVars, retryVars, proc>>

ReplayOk ==
  /\ pc = "replayed"
  /\ RecordSuccess
  /\ overlay' = OverlayMinus(ContentOf(BatchesIn(claim)))
  /\ \E f \in claim : CompleteClaim(f)
  /\ claim' = {}
  /\ pc' = "live"
  /\ UNCHANGED <<storeVars, writer, clientVars, queue, buffer,
                 analyticsVars, hand, content, proc>>

(* A retryable failure, before or after the commit.                          *)
ReplayFails ==
  /\ \/ pc = "replay" /\ "dbFail" \in Faults
     \/ pc = "replayed" /\ "ackLost" \in Faults
  /\ RecordFailure
  /\ \E f \in claim : RestoreClaim(f)
  /\ claim' = {}
  /\ pc' = "live"
  /\ UNCHANGED <<storeVars, writer, clientVars, queue, buffer,
                 analyticsVars, overlay, hand, content, proc>>

(* UsageRollupDigestMismatch rolls the whole file's transaction back.        *)
ReplayMismatch ==
  /\ "digest" \in Faults
  /\ pc = "replay"
  /\ BatchesIn(claim) \cap markers # {}
  /\ \E f \in claim :
       \/ /\ QuarantineClaim(f)
          /\ overlay' = OverlayMinus(ContentOf(f.batches))
       \/ /\ ClaimFault
          /\ UNCHANGED <<files, overlay>>
  /\ claim' = {}
  /\ pc' = "live"
  /\ UNCHANGED <<storeVars, writer, clientVars, queue, buffer,
                 analyticsVars, hand, content, retryVars, proc>>

--------------------------------------------------------------------------------
(* The live batch of flush_usage_event_buffer.                               *)

NothingBuffered ==
  /\ pc = "live"
  /\ buffer = {}
  /\ pc' = "forward"
  /\ UNCHANGED <<storeVars, backlogVars, clientVars, queue, buffer,
                 analyticsVars, overlay, workVars, retryVars, proc>>

(* Aggregate the buffer under a fresh identity; inside the retry window the
   batch is parked without an attempt. *)
TakeBuffer ==
  /\ pc = "live"
  /\ buffer # {}
  /\ \E b \in BatchIds :
       /\ content[b] = {}
       /\ content' = [content EXCEPT ![b] = buffer]
       /\ hand' = {b}
  /\ retryBuf' = retryBuf \cup buffer
  /\ buffer' = {}
  /\ pc' = IF Suspended THEN "park" ELSE "apply"
  /\ UNCHANGED <<storeVars, backlogVars, clientVars, queue, journaled,
                 overlay, claim, retryVars, proc>>

LiveCommits ==
  /\ pc = "apply"
  /\ ApplyBatches(hand)
  /\ pc' = "applied"
  /\ UNCHANGED <<backlogVars, clientVars, queue, buffer, analyticsVars,
                 overlay, workVars, retryVars, proc>>

LiveOk ==
  /\ pc = "applied"
  /\ RecordSuccess
  /\ overlay' = OverlayMinus(ContentOf(hand))
  /\ hand' = {}
  /\ pc' = "forward"
  /\ UNCHANGED <<storeVars, backlogVars, clientVars, queue, buffer,
                 analyticsVars, claim, content, proc>>

LiveFails ==
  /\ \/ pc = "apply" /\ "dbFail" \in Faults
     \/ pc = "applied" /\ "ackLost" \in Faults
  /\ RecordFailure
  /\ pc' = "park"
  /\ UNCHANGED <<storeVars, backlogVars, clientVars, queue, buffer,
                 analyticsVars, overlay, workVars, proc>>

(* A failing append leaves the usage in the overlay only.                    *)
Park ==
  /\ pc = "park"
  /\ \E b \in hand : AppendBatches(b)
  /\ hand' = {}
  /\ pc' = "forward"
  /\ UNCHANGED <<storeVars, clientVars, queue, buffer, analyticsVars,
                 overlay, claim, content, retryVars, proc>>

(* Hand the events to the usage journal, or drop them; the final flush ends the
   task and drops the receiver with what it still holds. *)
Forward ==
  /\ pc = "forward"
  /\ \/ journaled' = journaled \cup retryBuf
     \/ "analytics" \in Faults /\ UNCHANGED journaled
  /\ retryBuf' = {}
  /\ pc' = "select"
  /\ IF proc = "draining" THEN proc' = "closed" /\ queue' = {}
                          ELSE UNCHANGED <<proc, queue>>
  /\ UNCHANGED <<storeVars, backlogVars, clientVars, buffer,
                 overlay, workVars, retryVars>>

--------------------------------------------------------------------------------
(* The clock, the database's other clients, and the process' life.           *)

WindowElapses ==
  /\ Suspended
  /\ window' = "elapsed"
  /\ UNCHANGED <<storeVars, backlogVars, clientVars, queue, buffer,
                 analyticsVars, overlay, pc, workVars, attempts, proc>>

StoreSteps ==
  /\ \/ AgeMarkers
     \/ "peer" \in Faults /\ PruneMarkers
     \/ "patch" \in Faults /\ (LoadKeyBundle \/ UpsertKeyBundle)
  /\ UNCHANGED <<backlogVars, clientVars, queue, buffer, analyticsVars,
                 overlay, pc, workVars, retryVars, proc>>

Shutdown ==
  /\ "shutdown" \in Faults
  /\ proc = "up"
  /\ proc' = "stopping"
  /\ UNCHANGED <<storeVars, backlogVars, clientVars, queue, buffer,
                 analyticsVars, overlay, pc, workVars, retryVars>>

LoseMemory ==
  /\ proc' = "down"
  /\ sending' = {} /\ queue' = {} /\ buffer' = {} /\ retryBuf' = {}
  /\ overlay' = [e \in Events |-> 0]
  /\ pc' = "select"
  /\ hand' = {} /\ claim' = {}
  /\ attempts' = 0 /\ window' = "open"
  /\ writer' = "none"
  /\ UNCHANGED <<storeVars, fresh, accepted, journaled, content>>

Exit ==
  /\ proc = "closed"
  /\ LoseMemory
  /\ UNCHANGED files

Crash ==
  /\ "crash" \in Faults
  /\ Serving \/ proc = "starting"
  /\ LoseMemory
  /\ \/ UNCHANGED files
     \/ pc = "park" /\ \E b \in hand : AppendInterrupted(b)

(* UsageRollupBacklog::open, one file at a time.                             *)
Start ==
  /\ proc = "down"
  /\ proc' = "starting"
  /\ UNCHANGED <<storeVars, backlogVars, clientVars, queue, buffer,
                 analyticsVars, overlay, pc, workVars, retryVars>>

RecoverFile ==
  /\ proc = "starting"
  /\ IF InDir("active") # {}
     THEN \E f \in InDir("active") : RecoverActiveFile(f)
     ELSE \E f \in InDir("consuming") : RestoreConsumingFile(f)
  /\ UNCHANGED <<storeVars, writer, clientVars, queue, buffer,
                 analyticsVars, overlay, pc, workVars, retryVars, proc>>

(* Mutant: the backlog is not loaded.                                        *)
PendingOverlayNotLoaded ==
  overlay

(* for_each_pending_batch(add_batch).                                        *)
PendingOverlay ==
  OverlayPlus(ContentOf(BatchesIn({f \in InDir("sealed") : Readable(f)})))

(* Open the writer, quarantine unreadable sealed files, and load the others
   into the overlay. *)
FinishStart ==
  LET unreadable == {f \in InDir("sealed") : ~Readable(f)}
      scanned    == (files \ unreadable) \cup {MovedTo(f, "bad") : f \in unreadable}
  IN  /\ proc = "starting"
      /\ InDir("active") \cup InDir("consuming") = {}
      /\ OpenWriter(scanned)
      /\ overlay' = PendingOverlay
      /\ proc' = "up"
      /\ UNCHANGED <<storeVars, clientVars, queue, buffer, analyticsVars,
                     pc, workVars, retryVars>>

--------------------------------------------------------------------------------
Handlers ==
  \E e \in Events :
    Enqueue(e) \/ SendCompletes(e) \/ SendFails(e) \/ SendCancelled(e)

ReplaySteps ==
  SkipBacklog \/ ClaimBacklog \/ QuarantineUnreadable
  \/ ReplayCommits \/ ReplayOk \/ ReplayFails \/ ReplayMismatch

LiveSteps ==
  NothingBuffered \/ TakeBuffer \/ LiveCommits \/ LiveOk \/ LiveFails
  \/ Park \/ Forward

Flusher == Receive \/ TimerTick \/ SeeShutdown \/ ReplaySteps \/ LiveSteps

Startup == Start \/ RecoverFile \/ FinishStart

Next ==
  Handlers \/ Flusher \/ WindowElapses \/ StoreSteps
  \/ Shutdown \/ Exit \/ Crash \/ Startup

Spec == Init /\ [][Next]_vars
--------------------------------------------------------------------------------
(* Where the usage of an event is. *)

BilledEvents == ContentOf({b \in BatchIds : charged[b] >= 1})

InMemory == sending \cup queue \cup buffer \cup ContentOf(hand)

OnDisk == ContentOf(BatchesIn(Replayable))

(* Usage that some later step still bills.                                   *)
Outstanding == InMemory \cup OnDisk

--------------------------------------------------------------------------------
(* Properties. *)

(* No usage is billed twice, whatever fails between a commit and the moment its
   batch leaves memory and disk, however often the process restarts: an event
   is in one batch, and a batch is added to the row at most once.  This is the
   "exactly once by batch_id" of UsageRollupBatchSink, upper half. *)
BilledAtMostOnce ==
  /\ \A b \in BatchIds : charged[b] <= 1
  /\ \A b, c \in BatchIds : b # c => content[b] \cap content[c] = {}

(* A batch that was billed and may be replayed still has its marker row: marker
   pruning, which looks only at the sealed directory, never forgets a batch
   that is parked, claimed or held by the flusher. *)
ReplayIsIdempotent ==
  \A b \in BatchesIn(Replayable) \cup hand : charged[b] >= 1 => b \in markers

(* A quota check never misses usage that will be billed: while the process
   serves, an outstanding event is in the overlay or already in the row, in
   every window between enqueueing, committing, subtracting and reloading. *)
QuotaCovers ==
  Serving => \A e \in Outstanding : overlay[e] >= 1 \/ e \in BilledEvents

(* The overlay holds exactly the outstanding usage, so a quota check does not
   count an event for ever either: what add_events and add_batch added is
   subtracted once, until the flusher drops its receiver. *)
OverlayIsOutstanding ==
  Receiving => \A e \in Events : overlay[e] = IF e \in Outstanding THEN 1 ELSE 0

(* The usage journal never shows usage that accounting does not have: a
   journaled event was billed or is safely parked, also after a crash. *)
JournaledIsAccounted == journaled \subseteq BilledEvents \cup OnDisk

(* A file sequence names one file and a batch is stored in one file: no rename
   of sealing, claiming, restoring or quarantining can hit another file, and no
   new active file truncates an old one. *)
OneCopyOnDisk ==
  \A f, g \in files :
    f # g => f.seq # g.seq /\ f.batches \cap g.batches = {}

(* The control database is left alone inside the retry window: no attempt is in
   flight while the window is suspended, so three failures in one flush or over
   several flushes stop both the replay and the live path. *)
NoAttemptWhileSuspended == pc \in {"replay", "apply"} => ~Suspended
--------------------------------------------------------------------------------
(* Refinement. *)

BillsOf(e) == SumFunctionOnSet(charged, {b \in BatchIds : e \in content[b]})

(* The accounting pipeline implements the ledger: every step of a handler, the
   flusher, a crash or a restart is one acceptance, one billing, one loss, or
   nothing the ledger sees. *)
Ledger == INSTANCE RollupLedger WITH
  bills <- [e \in Events |-> BillsOf(e)],
  lost  <- accepted \ (BilledEvents \cup Outstanding)

ImplementsLedger == Ledger!LedgerSpec
--------------------------------------------------------------------------------
(* Fairness and liveness. *)

(* The runtime polls the flusher and a waiting handler; the clock passes the
   retry window; startup goes on.  The database is not down for ever: an
   attempt that is made again and again commits, and is answered, some time. *)
Fairness ==
  /\ WF_vars(Flusher)
  /\ \A e \in Events : WF_vars(SendCompletes(e))
  /\ WF_vars(WindowElapses)
  /\ WF_vars(Startup)
  /\ SF_vars(ReplayCommits) /\ SF_vars(ReplayOk)
  /\ SF_vars(LiveCommits) /\ SF_vars(LiveOk)

FairSpec == Spec /\ Fairness

(* While the process lives, accepted usage reaches the row, however many
   attempts fail and however often the retry window suspends. *)
AcceptedIsBilled ==
  []Serving =>
    \A e \in Events :
      e \in accepted \cap InMemory ~> e \in BilledEvents \cup ContentOf(markers)

(* Once restarts stop, every batch a failed attempt or a crash left on disk is
   billed, the ones a dead process had claimed included; a marked one was, even if
   an administrator's patch took it out of the row again. *)
ParkedIsBilled ==
  <>[]Serving =>
    \A b \in BatchIds :
      b \in BatchesIn(Replayable) ~> charged[b] >= 1 \/ b \in markers

(* The overlay never keeps usage for ever, so a key is not locked out by usage
   its row already contains. *)
OverlayClears ==
  <>[]Serving => \A e \in Events : overlay[e] # 0 ~> overlay[e] = 0
================================================================================
