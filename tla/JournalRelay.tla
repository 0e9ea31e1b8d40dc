------------------------------- MODULE JournalRelay -------------------------------
(***************************************************************************)
(* Edge nodes hand their sealed journal files to the usage worker of the   *)
(* primary: an edge claims its oldest file, posts it, and deletes it when  *)
(* the primary answers with success.  The primary checks a ledger keyed by *)
(* source node and sequence, imports block by block, and records the file. *)
(* Edges find the primary through a key in Valkey.  How a journal file is  *)
(* written, and how its own node imports it, is in UsageJournal.           *)
(***************************************************************************)
EXTENDS Naturals, FiniteSets

CONSTANTS
  Edges,   (* edge nodes                                                     *)
  Files,   (* sequences an edge seals, in their order                        *)
  Blocks,  (* blocks of a file, in their order                               *)
  Faults   (* what may go wrong                                              *)

FaultKinds == {"edgeCrash", "primaryCrash", "network", "store", "valkey",
               "remove", "operator"}

ASSUME RelayAssumption ==
  /\ Files \subseteq Nat \ {0} /\ Blocks \subseteq Nat \ {0}
  /\ IsFiniteSet(Files) /\ IsFiniteSet(Blocks) /\ Blocks # {}
  /\ Faults \subseteq FaultKinds

VARIABLES
  place,    (* where each file of each edge is                               *)
  aged,     (* claimed files older than the consumer lease                   *)
  edge,     (* per edge: step of the relay loop, and the claimed file        *)
  known,    (* edges whose snapshot names the primary                        *)
  beacon,   (* the primary's key is in Valkey                                *)
  primary,  (* the primary's worker process lives                            *)
  request,  (* per edge: the request it waits for, and one it gave up        *)
  ledger,   (* relay_consumed_files: (edge, sequence)                        *)
  stored    (* rows in the primary's analytics store                         *)

storeVars == <<ledger, stored>>
edgeVars == <<place, aged, edge>>
clusterVars == <<known, beacon>>
vars == <<edgeVars, clusterVars, primary, request, storeVars>>

Places == {"unsealed", "sealed", "consuming", "gone"}
EdgeSteps == {"down", "stopped", "recover", "send", "wait", "remove"}
RequestSteps == {"free", "sent", "import", "record", "ok", "error"}
Connections == {"current", "late"}

RowsOf(e, f) == {e} \X {f} \X Blocks

Free == [step |-> "free", file |-> 0, position |-> 0]

TypeOK ==
  /\ place \in [Edges \X Files -> Places]
  /\ aged \subseteq Edges \X Files
  /\ edge \in [Edges -> [step : EdgeSteps, file : Files \cup {0}]]
  /\ known \subseteq Edges /\ beacon \in BOOLEAN /\ primary \in BOOLEAN
  /\ request \in [Edges \X Connections ->
                    [step : RequestSteps, file : Files \cup {0}, position : Blocks \cup {0}]]
  /\ ledger \subseteq Edges \X Files
  /\ stored \subseteq Edges \X Files \X Blocks

Init ==
  /\ place = [x \in Edges \X Files |-> "unsealed"]
  /\ aged = {}
  /\ edge = [e \in Edges |-> [step |-> "down", file |-> 0]]
  /\ known = {} /\ beacon = FALSE /\ primary = FALSE
  /\ request = [x \in Edges \X Connections |-> Free]
  /\ ledger = {} /\ stored = {}

At(e, step) == edge[e].step = step
Goes(e, step) == edge' = [edge EXCEPT ![e].step = step]
Stops(e, step) == edge' = [edge EXCEPT ![e] = [step |-> step, file |-> 0]]

Move(e, f, to) == place' = [place EXCEPT ![<<e, f>>] = to]

FilesAt(e, p) == {f \in Files : place[<<e, f>>] = p}

Request(e, c, r) == request' = [request EXCEPT ![<<e, c>>] = r]

(* The request goes on without the edge.  Bound: one such request of an edge.  *)
GivesUp(e) ==
  \/ request[<<e, "current">>] = Free /\ UNCHANGED request
  \/ /\ request[<<e, "current">>] # Free /\ request[<<e, "late">>] = Free
     /\ request' = [request EXCEPT ![<<e, "late">>] = request[<<e, "current">>],
                                   ![<<e, "current">>] = Free]
--------------------------------------------------------------------------------
(* The edge: EdgeUsageWorker::run_one_relay, in a loop that ends at an error. *)

(* The API process of the edge seals its next file.                          *)
SealFile(e) ==
  /\ \E f \in FilesAt(e, "unsealed") :
       /\ \A g \in FilesAt(e, "unsealed") : f <= g
       /\ Move(e, f, "sealed")
  /\ UNCHANGED <<aged, edge, clusterVars, primary, request, storeVars>>

(* recover_orphan_consuming_files, then claim_oldest_sealed_file.  An edge never
   records a file as consumed. *)
RecoverAndClaim(e) ==
  LET stale  == {f \in FilesAt(e, "consuming") : <<e, f>> \in aged}
      sealed == FilesAt(e, "sealed") \cup stale
      back   == [x \in DOMAIN place |->
                   IF x[1] = e /\ x[2] \in stale THEN "sealed" ELSE place[x]]
  IN  /\ At(e, "recover")
      /\ sealed # {}
      /\ LET f == CHOOSE f \in sealed : \A g \in sealed : f <= g
         IN  /\ place' = [back EXCEPT ![<<e, f>>] = "consuming"]
             /\ edge' = [edge EXCEPT ![e] = [step |-> "send", file |-> f]]
      /\ aged' = aged \ ({e} \X stale)
      /\ UNCHANGED <<clusterVars, primary, request, storeVars>>

(* restore_claimed_file, and the error that ends the loop.                   *)
RestoreAndStop(e) == Move(e, edge[e].file, "sealed") /\ Stops(e, "stopped")

NoPrimary(e) ==
  /\ At(e, "send") /\ e \notin known
  /\ RestoreAndStop(e)
  /\ UNCHANGED <<aged, clusterVars, primary, request, storeVars>>

(* The request leaves; the client waits at most fifteen seconds.             *)
Post(e) ==
  /\ At(e, "send") /\ e \in known
  /\ Request(e, "current", [step |-> "sent", file |-> edge[e].file, position |-> 0])
  /\ Goes(e, "wait")
  /\ UNCHANGED <<place, aged, clusterVars, primary, storeVars>>

(* Mutant: any answer is taken for an acknowledgement.                       *)
AcceptAnyAnswer(e) ==
  /\ At(e, "wait")
  /\ request[<<e, "current">>].step \in {"ok", "error"}
  /\ Request(e, "current", Free)
  /\ Goes(e, "remove")
  /\ UNCHANGED <<place, aged, clusterVars, primary, storeVars>>

Accepted(e) ==
  /\ At(e, "wait")
  /\ request[<<e, "current">>].step = "ok"
  /\ Request(e, "current", Free)
  /\ Goes(e, "remove")
  /\ UNCHANGED <<place, aged, clusterVars, primary, storeVars>>

Rejected(e) ==
  /\ At(e, "wait")
  /\ request[<<e, "current">>].step = "error"
  /\ Request(e, "current", Free)
  /\ RestoreAndStop(e)
  /\ UNCHANGED <<aged, clusterVars, primary, storeVars>>

Cut(e) == ~primary \/ request[<<e, "current">>] = Free

(* The connection is refused, breaks, or is too slow: send() fails, and the
   claim stays in consuming/.  The request may still be on its way. *)
PostFails(e) ==
  /\ At(e, "wait") /\ ("network" \in Faults \/ Cut(e))
  /\ GivesUp(e)
  /\ Stops(e, "stopped")
  /\ UNCHANGED <<place, aged, clusterVars, primary, storeVars>>

RemoveRelayed(e) ==
  /\ At(e, "remove")
  /\ Move(e, edge[e].file, "gone")
  /\ Stops(e, "recover")
  /\ UNCHANGED <<aged, clusterVars, primary, request, storeVars>>

RemoveFails(e) ==
  /\ "remove" \in Faults
  /\ At(e, "remove")
  /\ Stops(e, "stopped")
  /\ UNCHANGED <<place, aged, clusterVars, primary, request, storeVars>>

(* The lease is measured from the file's last modification.                  *)
LeasePasses(e) ==
  /\ \E f \in FilesAt(e, "consuming") :
       /\ <<e, f>> \notin aged
       /\ aged' = aged \cup {<<e, f>>}
  /\ UNCHANGED <<place, edge, clusterVars, primary, request, storeVars>>

EdgeDies(e) ==
  /\ "edgeCrash" \in Faults
  /\ ~At(e, "down")
  /\ GivesUp(e)
  /\ Stops(e, "down")
  /\ known' = known \ {e}
  /\ UNCHANGED <<place, aged, beacon, primary, storeVars>>

(* ClusterRuntimeState::start loads the primary before the worker runs.      *)
StartEdge(e) ==
  /\ At(e, "down")
  /\ Stops(e, "recover")
  /\ known' = IF beacon THEN known \cup {e} ELSE known \ {e}
  /\ UNCHANGED <<place, aged, beacon, primary, request, storeVars>>

(* Nothing in the process restarts the loop; an operator may.                *)
OperatorRestarts(e) ==
  /\ "operator" \in Faults
  /\ At(e, "stopped")
  /\ Stops(e, "recover")
  /\ UNCHANGED <<place, aged, clusterVars, primary, request, storeVars>>

Relaying(e) ==
  RecoverAndClaim(e) \/ NoPrimary(e) \/ Post(e) \/ Accepted(e) \/ Rejected(e)
  \/ RemoveRelayed(e)

EdgeNext(e) ==
  \/ SealFile(e) \/ Relaying(e) \/ PostFails(e) \/ RemoveFails(e) \/ LeasePasses(e)
  \/ EdgeDies(e) \/ StartEdge(e) \/ OperatorRestarts(e)
--------------------------------------------------------------------------------
(* The primary: import_relayed_journal_bytes, one handler per connection.    *)

(* Mutant: a file that was imported already is answered with an error.       *)
RejectConsumed(e, c) ==
  /\ primary /\ request[<<e, c>>].step = "sent"
  /\ Request(e, c, [request[<<e, c>>] EXCEPT
       !.step = IF <<e, request[<<e, c>>].file>> \in ledger THEN "error" ELSE "import"])
  /\ UNCHANGED <<edgeVars, clusterVars, primary, storeVars>>

(* is_relay_consumed.                                                        *)
LookupLedger(e, c) ==
  /\ primary /\ request[<<e, c>>].step = "sent"
  /\ Request(e, c, [request[<<e, c>>] EXCEPT
       !.step = IF <<e, request[<<e, c>>].file>> \in ledger THEN "ok" ELSE "import"])
  /\ UNCHANGED <<edgeVars, clusterVars, primary, storeVars>>

NextBlocks(e, c) == {b \in Blocks : b > request[<<e, c>>].position}

(* Mutant: the footer is counted as a block.                                 *)
ImportFooter(e, c) ==
  /\ request[<<e, c>>].step = "import"
  /\ \E b \in NextBlocks(e, c) :
       /\ \A d \in NextBlocks(e, c) : b <= d
       /\ stored' = stored \cup {<<e, request[<<e, c>>].file, b>>}
       /\ Request(e, c, IF NextBlocks(e, c) = {b}
            THEN [request[<<e, c>>] EXCEPT !.position = b + 1, !.step = "record"]
            ELSE [request[<<e, c>>] EXCEPT !.position = b])
  /\ UNCHANGED <<edgeVars, clusterVars, primary, ledger>>

(* Mutant: the ledger is written with the first block.                       *)
RecordWithFirst(e, c) ==
  /\ request[<<e, c>>].step = "import"
  /\ \E b \in NextBlocks(e, c) :
       /\ \A d \in NextBlocks(e, c) : b <= d
       /\ stored' = stored \cup {<<e, request[<<e, c>>].file, b>>}
       /\ ledger' = ledger \cup {<<e, request[<<e, c>>].file>>}
       /\ Request(e, c, [request[<<e, c>>] EXCEPT !.position = b,
            !.step = IF NextBlocks(e, c) = {b} THEN "record" ELSE "import"])
  /\ UNCHANGED <<edgeVars, clusterVars, primary>>

(* Rows that the active segment holds already are skipped.                   *)
ImportBlock(e, c) ==
  /\ request[<<e, c>>].step = "import"
  /\ \E b \in NextBlocks(e, c) :
       /\ \A d \in NextBlocks(e, c) : b <= d
       /\ stored' = stored \cup {<<e, request[<<e, c>>].file, b>>}
       /\ Request(e, c, [request[<<e, c>>] EXCEPT !.position = b,
            !.step = IF NextBlocks(e, c) = {b} THEN "record" ELSE "import"])
  /\ UNCHANGED <<edgeVars, clusterVars, primary, ledger>>

(* record_relay_consumed_file.                                               *)
Record(e, c) ==
  /\ request[<<e, c>>].step = "record"
  /\ ledger' = ledger \cup {<<e, request[<<e, c>>].file>>}
  /\ Request(e, c, [request[<<e, c>>] EXCEPT !.step = "ok"])
  /\ UNCHANGED <<edgeVars, clusterVars, primary, stored>>

(* The analytics store or the ledger refuses: 500.                           *)
ImportFails(e, c) ==
  /\ "store" \in Faults
  /\ request[<<e, c>>].step \in {"import", "record"}
  /\ Request(e, c, [request[<<e, c>>] EXCEPT !.step = "error"])
  /\ UNCHANGED <<edgeVars, clusterVars, primary, storeVars>>

(* Nobody waits for the answer: the server drops the handler wherever it waits,
   or the request never arrives, or its answer goes nowhere. *)
RequestEnds(e) ==
  /\ request[<<e, "late">>] # Free
  /\ Request(e, "late", Free)
  /\ UNCHANGED <<edgeVars, clusterVars, primary, storeVars>>

Handling(e, c) == LookupLedger(e, c) \/ ImportBlock(e, c) \/ Record(e, c)

PrimaryDies ==
  /\ "primaryCrash" \in Faults
  /\ primary
  /\ primary' = FALSE
  /\ request' = [x \in DOMAIN request |->
                   IF request[x].step = "sent" THEN request[x] ELSE Free]
  /\ UNCHANGED <<edgeVars, clusterVars, storeVars>>

StartPrimary ==
  /\ ~primary
  /\ primary' = TRUE /\ beacon' = TRUE
  /\ UNCHANGED <<edgeVars, known, request, storeVars>>
--------------------------------------------------------------------------------
(* Valkey: the primary publishes every fifteen seconds, the key lives sixty. *)

Publish ==
  /\ primary /\ ~beacon
  /\ beacon' = TRUE
  /\ UNCHANGED <<edgeVars, known, primary, request, storeVars>>

BeaconExpires ==
  /\ beacon /\ (~primary \/ "valkey" \in Faults)
  /\ beacon' = FALSE
  /\ UNCHANGED <<edgeVars, known, primary, request, storeVars>>

(* The edge's heartbeat; a failing read counts as no primary.                *)
Heartbeat(e) ==
  /\ ~At(e, "down")
  /\ \/ known' = IF beacon THEN known \cup {e} ELSE known \ {e}
     \/ "valkey" \in Faults /\ known' = known \ {e}
  /\ UNCHANGED <<edgeVars, beacon, primary, request, storeVars>>

Next ==
  \/ \E e \in Edges : EdgeNext(e) \/ RequestEnds(e) \/ Heartbeat(e)
  \/ \E e \in Edges, c \in Connections :
       Handling(e, c) \/ ImportFails(e, c)
  \/ PrimaryDies \/ StartPrimary \/ Publish \/ BeaconExpires

Spec == Init /\ [][Next]_vars
--------------------------------------------------------------------------------
(* Properties. *)

(* The edge deletes a file only when every row of it is in the primary's store:
   no lost answer, dead handler, dropped request or restart loses usage. *)
RelayedIsStored ==
  \A e \in Edges, f \in Files : place[<<e, f>>] = "gone" => RowsOf(e, f) \subseteq stored

(* The ledger vouches for the rows, also when two deliveries of one file overlap
   and one of them is cut off. *)
LedgerIsStored == \A x \in ledger : RowsOf(x[1], x[2]) \subseteq stored
--------------------------------------------------------------------------------
(* Fairness and liveness. *)

(* The edge's loop and the handler it waits for go on, the lease passes, an
   abandoned request comes to its end, and an operator, where a run has one, restarts
   a loop.  Network and store do not cut every delivery off: if deliveries are made
   for ever, each stage of one is passed some time. *)
Fairness ==
  \A e \in Edges :
    /\ WF_vars(Relaying(e)) /\ WF_vars(PostFails(e) /\ Cut(e))
    /\ WF_vars(LeasePasses(e)) /\ WF_vars(RequestEnds(e))
    /\ WF_vars(OperatorRestarts(e))
    /\ SF_vars(LookupLedger(e, "current")) /\ SF_vars(Record(e, "current"))
    /\ SF_vars(ImportBlock(e, "current"))
    /\ SF_vars(ImportBlock(e, "current") /\ request'[<<e, "current">>].step = "record")
    /\ SF_vars(Accepted(e)) /\ SF_vars(RemoveRelayed(e))

FairSpec == Spec /\ Fairness

(* Once processes stop dying and Valkey keeps naming the primary, every sealed file
   reaches it and leaves the edge, however many deliveries fail before. *)
EverySealedIsRelayed ==
  <>[](primary /\ known = Edges) =>
    \A e \in Edges, f \in Files : place[<<e, f>>] = "sealed" ~> place[<<e, f>>] = "gone"
================================================================================
