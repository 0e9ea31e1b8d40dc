-------------------------- MODULE JournalRelay_proofs --------------------------
(***************************************************************************)
(* Theorems about JournalRelay, for every number of edges, files and       *)
(* blocks and every set of faults.                                         *)
(***************************************************************************)
EXTENDS JournalRelay, WellFoundedInduction, TLAPS

--------------------------------------------------------------------------------
(* The inductive invariant. *)

(* Where a request is tells what of its file is stored. *)
RequestInv ==
  \A e \in Edges, c \in Connections :
    /\ request[<<e, c>>].step # "free" => request[<<e, c>>].file \in Files
    /\ request[<<e, c>>].step = "sent" => request[<<e, c>>].position = 0
    /\ request[<<e, c>>].step = "import" =>
         \A b \in Blocks :
           b <= request[<<e, c>>].position => <<e, request[<<e, c>>].file, b>> \in stored
    /\ request[<<e, c>>].step \in {"record", "ok"} =>
         RowsOf(e, request[<<e, c>>].file) \subseteq stored

(* The answer an edge waits for is about the file it claims; once it removes
   the file, the rows are there. *)
EdgeInv ==
  \A e \in Edges :
    /\ edge[e].step \in {"send", "wait", "remove"} => edge[e].file \in Files
    /\ edge[e].step = "wait" /\ request[<<e, "current">>].step # "free"
         => request[<<e, "current">>].file = edge[e].file
    /\ edge[e].step = "remove" => RowsOf(e, edge[e].file) \subseteq stored

IInv == TypeOK /\ RequestInv /\ EdgeInv /\ LedgerIsStored /\ RelayedIsStored

--------------------------------------------------------------------------------
(* Sets of naturals have a least element; so the oldest file exists.         *)

LEMMA LeastNatural ==
  ASSUME NEW S, S \subseteq Nat, S # {}
  PROVE  \E m \in S : \A n \in S : m <= n
<1> DEFINE Less == {p \in Nat \X Nat : p[1] < p[2]}
<1>1. IsWellFoundedOn(Less, Nat)
  BY NatLessThanWellFounded, Zenon DEF OpToRel
<1>2. PICK m \in S : \A n \in S : <<n, m>> \notin Less
  <2> HIDE DEF Less
  <2> QED
    BY <1>1, WFMin
<1>3. \A n \in S : <<n, m>> \in Nat \X Nat /\ <<n, m>>[1] = n /\ <<n, m>>[2] = m
  OBVIOUS
<1>4. \A n \in S : ~(n < m)
  BY <1>2, <1>3
<1> QED
  BY <1>4

LEMMA OldestFile ==
  ASSUME NEW S \in SUBSET Files, S # {}
  PROVE  (CHOOSE f \in S : \A g \in S : f <= g) \in S
<1>1. \E f \in S : \A g \in S : f <= g
  BY LeastNatural, RelayAssumption
<1> QED
  BY <1>1

--------------------------------------------------------------------------------
(* The operators the actions are built from. *)

EdgeStates == [step : EdgeSteps, file : Files \cup {0}]
Requests ==
  [step : RequestSteps, file : Files \cup {0}, position : Blocks \cup {0}]

LEMMA GoesEffect ==
  ASSUME TypeOK, NEW e \in Edges, NEW step \in EdgeSteps, Goes(e, step)
  PROVE  /\ edge' \in [Edges -> EdgeStates]
         /\ edge'[e].step = step /\ edge'[e].file = edge[e].file
         /\ \A d \in Edges : d # e => edge'[d] = edge[d]
<1>1. edge[e] \in EdgeStates /\ edge \in [Edges -> EdgeStates]
  BY DEF TypeOK, EdgeStates
<1>2. edge' = [edge EXCEPT ![e] = [edge[e] EXCEPT !.step = step]]
  BY DEF Goes
<1>3. /\ [edge[e] EXCEPT !.step = step] \in EdgeStates
      /\ [edge[e] EXCEPT !.step = step].step = step
      /\ [edge[e] EXCEPT !.step = step].file = edge[e].file
  BY <1>1 DEF EdgeStates
<1> QED
  BY <1>1, <1>2, <1>3

LEMMA StopsEffect ==
  ASSUME TypeOK, NEW e \in Edges, NEW step \in EdgeSteps, Stops(e, step)
  PROVE  /\ edge' \in [Edges -> EdgeStates]
         /\ edge'[e].step = step
         /\ \A d \in Edges : d # e => edge'[d] = edge[d]
<1>1. [step |-> step, file |-> 0] \in EdgeStates
  BY DEF EdgeStates
<1> QED
  BY <1>1 DEF Stops, TypeOK, EdgeStates

LEMMA MoveEffect ==
  ASSUME TypeOK, NEW e \in Edges, NEW f, NEW to \in Places, Move(e, f, to)
  PROVE  /\ place' \in [Edges \X Files -> Places]
         /\ \A x \in Edges \X Files :
              place'[x] = place[x] \/ (x = <<e, f>> /\ place'[x] = to)
BY DEF TypeOK, Move

LEMMA RequestEffect ==
  ASSUME TypeOK, NEW e \in Edges, NEW c \in Connections, NEW r \in Requests,
         Request(e, c, r)
  PROVE  /\ request' \in [Edges \X Connections -> Requests]
         /\ request'[<<e, c>>] = r
         /\ \A d \in Edges, b \in Connections :
              <<d, b>> # <<e, c>> => request'[<<d, b>>] = request[<<d, b>>]
BY DEF TypeOK, Request, Requests

LEMMA FreeType == Free \in Requests /\ Free.step = "free"
BY DEF Free, Requests, RequestSteps

LEMMA GivesUpEffect ==
  ASSUME TypeOK, NEW e \in Edges, GivesUp(e)
  PROVE  /\ request' \in [Edges \X Connections -> Requests]
         /\ request'[<<e, "current">>] = Free
         /\ request'[<<e, "late">>] \in {request[<<e, "late">>], request[<<e, "current">>]}
         /\ \A d \in Edges, b \in Connections :
              d # e => request'[<<d, b>>] = request[<<d, b>>]
<1> "current" \in Connections /\ "late" \in Connections
  BY DEF Connections
<1>1. CASE request[<<e, "current">>] = Free /\ UNCHANGED request
  BY <1>1 DEF TypeOK, Requests
<1>2. CASE request' = [request EXCEPT ![<<e, "late">>] = request[<<e, "current">>],
                                      ![<<e, "current">>] = Free]
  <2>1. /\ request \in [Edges \X Connections -> Requests]
        /\ request[<<e, "current">>] \in Requests /\ Free \in Requests
    BY FreeType DEF TypeOK, Requests
  <2> QED
    BY <1>2, <2>1
<1> QED
  BY <1>1, <1>2 DEF GivesUp

LEMMA ClaimEffect ==
  ASSUME TypeOK, NEW e \in Edges, RecoverAndClaim(e)
  PROVE  /\ place' \in [Edges \X Files -> Places]
         /\ \A x \in Edges \X Files : place'[x] = "gone" => place[x] = "gone"
         /\ edge' \in [Edges -> EdgeStates]
         /\ edge'[e].step = "send" /\ edge'[e].file \in Files
         /\ \A d \in Edges : d # e => edge'[d] = edge[d]
<1> DEFINE stale == {f \in FilesAt(e, "consuming") : <<e, f>> \in aged}
           sealed == FilesAt(e, "sealed") \cup stale
           back == [x \in DOMAIN place |->
                      IF x[1] = e /\ x[2] \in stale THEN "sealed" ELSE place[x]]
           f == CHOOSE f \in sealed : \A g \in sealed : f <= g
<1>1. sealed \in SUBSET Files /\ sealed # {}
  BY DEF RecoverAndClaim, FilesAt
<1>2. f \in Files
  <2> HIDE DEF sealed
  <2>1. f \in sealed
    BY <1>1, OldestFile
  <2> QED
    BY <1>1, <2>1
<1>3. /\ place' = [back EXCEPT ![<<e, f>>] = "consuming"]
      /\ edge' = [edge EXCEPT ![e] = [step |-> "send", file |-> f]]
  BY DEF RecoverAndClaim
<1>4. /\ back \in [Edges \X Files -> Places]
      /\ \A x \in Edges \X Files : back[x] = place[x] \/ back[x] = "sealed"
  BY DEF Places, TypeOK
<1> HIDE DEF back, f
<1>5. /\ place' \in [Edges \X Files -> Places]
      /\ \A x \in Edges \X Files : place'[x] = "gone" => place[x] = "gone"
  BY <1>2, <1>3, <1>4 DEF Places
<1>6. [step |-> "send", file |-> f] \in EdgeStates
  BY <1>2 DEF EdgeStates, EdgeSteps
<1> QED
  BY <1>2, <1>3, <1>5, <1>6 DEF TypeOK, EdgeStates

--------------------------------------------------------------------------------
(* What a step of an edge does. *)

Sent(e) == [step |-> "sent", file |-> edge[e].file, position |-> 0]

EdgeTypes ==
  /\ place' \in [Edges \X Files -> Places]
  /\ edge' \in [Edges -> EdgeStates]
  /\ request' \in [Edges \X Connections -> Requests]

(* A file goes only in "remove"; other edges see nothing; the edge's requests
   are older ones, none, or the file it claims; and it advances from claim to
   request, and from a good answer to the removal. *)
EdgeAdvance(e) ==
  /\ \A x \in Edges \X Files :
       place'[x] = "gone" =>
         \/ place[x] = "gone"
         \/ x = <<e, edge[e].file>> /\ edge[e].step = "remove"
  /\ \A d \in Edges : d # e =>
       /\ edge'[d] = edge[d]
       /\ \A c \in Connections : request'[<<d, c>>] = request[<<d, c>>]
  /\ \A c \in Connections :
       \/ request'[<<e, c>>] \in {request[<<e, c>>], Free, request[<<e, "current">>]}
       \/ edge[e].step = "send" /\ request'[<<e, c>>] = Sent(e)
  /\ \/ edge'[e].step \notin {"send", "wait", "remove"}
     \/ edge'[e].step = "send" /\ edge'[e].file \in Files
     \/ /\ edge'[e] = edge[e]
        /\ request'[<<e, "current">>] = request[<<e, "current">>]
     \/ /\ edge'[e].step = "wait" /\ edge[e].step = "send"
        /\ edge'[e].file = edge[e].file /\ request'[<<e, "current">>] = Sent(e)
     \/ /\ edge'[e].step = "remove" /\ edge[e].step = "wait"
        /\ edge'[e].file = edge[e].file /\ request[<<e, "current">>].step = "ok"

LEMMA EdgeEffect ==
  ASSUME TypeOK, EdgeInv, NEW e \in Edges, EdgeNext(e)
  PROVE  EdgeTypes /\ EdgeAdvance(e) /\ UNCHANGED storeVars
<1> USE DEF EdgeTypes, EdgeAdvance
<1>0. /\ place \in [Edges \X Files -> Places]
      /\ edge \in [Edges -> EdgeStates]
      /\ request \in [Edges \X Connections -> Requests]
      /\ "current" \in Connections
      /\ {"send", "wait", "remove", "recover", "stopped", "down"} \subseteq EdgeSteps
      /\ {"sealed", "consuming", "gone"} \subseteq Places
  BY DEF TypeOK, EdgeStates, Requests, Connections, EdgeSteps, Places
<1>1. CASE SealFile(e)
  <2>1. PICK f \in Files : Move(e, f, "sealed")
    BY <1>1 DEF SealFile, FilesAt
  <2>2. UNCHANGED <<edge, request, storeVars>>
    BY <1>1 DEF SealFile
  <2> QED
    BY <1>0, <2>1, <2>2, MoveEffect
<1>2. CASE RecoverAndClaim(e)
  <2>1. UNCHANGED <<request, storeVars>>
    BY <1>2 DEF RecoverAndClaim
  <2> QED
    BY <1>0, <1>2, <2>1, ClaimEffect
<1>3. CASE NoPrimary(e)
  <2>1. /\ Move(e, edge[e].file, "sealed") /\ Stops(e, "stopped")
        /\ UNCHANGED <<request, storeVars>>
    BY <1>3 DEF NoPrimary, RestoreAndStop
  <2> QED
    BY <1>0, <2>1, MoveEffect, StopsEffect
<1>4. CASE Post(e)
  <2>1. /\ edge[e].step = "send" /\ Goes(e, "wait")
        /\ Request(e, "current", Sent(e))
        /\ UNCHANGED <<place, storeVars>>
    BY <1>4 DEF Post, At, Sent
  <2>2. Sent(e) \in Requests
    BY <1>0 DEF Sent, EdgeStates, Requests, RequestSteps
  <2>3. /\ request' \in [Edges \X Connections -> Requests]
        /\ request'[<<e, "current">>] = Sent(e)
        /\ \A d \in Edges, b \in Connections :
             <<d, b>> # <<e, "current">> => request'[<<d, b>>] = request[<<d, b>>]
    BY <1>0, <2>1, <2>2, RequestEffect
  <2> QED
    BY <1>0, <2>1, <2>3, GoesEffect
<1>5. CASE Accepted(e)
  <2>1. /\ edge[e].step = "wait" /\ request[<<e, "current">>].step = "ok"
        /\ Goes(e, "remove") /\ Request(e, "current", Free)
        /\ UNCHANGED <<place, storeVars>>
    BY <1>5 DEF Accepted, At
  <2>2. /\ request' \in [Edges \X Connections -> Requests]
        /\ request'[<<e, "current">>] = Free
        /\ \A d \in Edges, b \in Connections :
             <<d, b>> # <<e, "current">> => request'[<<d, b>>] = request[<<d, b>>]
    BY <1>0, <2>1, FreeType, RequestEffect
  <2> QED
    BY <1>0, <2>1, <2>2, GoesEffect
<1>6. CASE Rejected(e)
  <2>1. /\ Move(e, edge[e].file, "sealed") /\ Stops(e, "stopped")
        /\ Request(e, "current", Free) /\ UNCHANGED storeVars
    BY <1>6 DEF Rejected, RestoreAndStop
  <2>2. /\ request' \in [Edges \X Connections -> Requests]
        /\ request'[<<e, "current">>] = Free
        /\ \A d \in Edges, b \in Connections :
             <<d, b>> # <<e, "current">> => request'[<<d, b>>] = request[<<d, b>>]
    BY <1>0, <2>1, FreeType, RequestEffect
  <2>3. /\ edge' \in [Edges -> EdgeStates]
        /\ edge'[e].step = "stopped"
        /\ \A d \in Edges : d # e => edge'[d] = edge[d]
    BY <1>0, <2>1, StopsEffect
  <2>4. /\ place' \in [Edges \X Files -> Places]
        /\ \A x \in Edges \X Files : place'[x] = "gone" => place[x] = "gone"
    BY <1>0, <2>1, MoveEffect
  <2>5. \A c \in Connections : request'[<<e, c>>] \in {request[<<e, c>>], Free}
    BY <2>2
  <2> QED
    BY <2>1, <2>2, <2>3, <2>4, <2>5
<1>7. CASE PostFails(e) \/ EdgeDies(e)
  <2>1. /\ GivesUp(e) /\ (Stops(e, "stopped") \/ Stops(e, "down"))
        /\ UNCHANGED <<place, storeVars>>
    BY <1>7 DEF PostFails, EdgeDies
  <2>2. /\ edge' \in [Edges -> EdgeStates]
        /\ edge'[e].step \in {"stopped", "down"}
        /\ \A d \in Edges : d # e => edge'[d] = edge[d]
    BY <1>0, <2>1, StopsEffect
  <2>3. \A c \in Connections :
          request'[<<e, c>>] \in {request[<<e, c>>], Free, request[<<e, "current">>]}
    BY <2>1, GivesUpEffect DEF Connections
  <2> QED
    BY <1>0, <2>1, <2>2, <2>3, GivesUpEffect
<1>8. CASE RemoveRelayed(e)
  <2>1. /\ edge[e].step = "remove"
        /\ Move(e, edge[e].file, "gone") /\ Stops(e, "recover")
        /\ UNCHANGED <<request, storeVars>>
    BY <1>8 DEF RemoveRelayed, At
  <2> QED
    BY <1>0, <2>1, MoveEffect, StopsEffect
<1>9. CASE RemoveFails(e) \/ StartEdge(e) \/ OperatorRestarts(e)
  <2>1. /\ Stops(e, "stopped") \/ Stops(e, "recover")
        /\ UNCHANGED <<place, request, storeVars>>
    BY <1>9 DEF RemoveFails, StartEdge, OperatorRestarts
  <2> QED
    BY <1>0, <2>1, StopsEffect
<1>10. CASE LeasePasses(e)
  <2>1. UNCHANGED <<place, edge, request, storeVars>>
    BY <1>10 DEF LeasePasses
  <2> QED
    BY <1>0, <2>1
<1> QED
  BY <1>1, <1>2, <1>3, <1>4, <1>5, <1>6, <1>7, <1>8, <1>9, <1>10
  DEF EdgeNext, Relaying

(* So nothing is deleted that is not stored, whatever the edge does. *)
LEMMA EdgeStep ==
  ASSUME IInv, NEW e \in Edges, EdgeNext(e)
  PROVE  RequestInv' /\ EdgeInv' /\ RelayedIsStored'
<1>0. /\ TypeOK /\ RequestInv /\ EdgeInv /\ RelayedIsStored
      /\ EdgeTypes /\ EdgeAdvance(e) /\ UNCHANGED stored
      /\ "current" \in Connections
  BY EdgeEffect DEF IInv, storeVars, Connections
<1>1. RequestInv'
  <2> SUFFICES ASSUME NEW d \in Edges, NEW c \in Connections
               PROVE  /\ request'[<<d, c>>].step # "free"
                           => request'[<<d, c>>].file \in Files
                      /\ request'[<<d, c>>].step = "sent"
                           => request'[<<d, c>>].position = 0
                      /\ request'[<<d, c>>].step = "import" =>
                           \A b \in Blocks :
                             b <= request'[<<d, c>>].position
                               => <<d, request'[<<d, c>>].file, b>> \in stored
                      /\ request'[<<d, c>>].step \in {"record", "ok"} =>
                           RowsOf(d, request'[<<d, c>>].file) \subseteq stored
    BY <1>0 DEF RequestInv, RowsOf
  <2>1. CASE d # e
    BY <1>0, <2>1 DEF RequestInv, EdgeAdvance
  <2>2. CASE d = e /\ request'[<<e, c>>] = Free
    BY <2>2 DEF Free
  <2>3. CASE d = e /\ edge[e].step = "send" /\ request'[<<e, c>>] = Sent(e)
    <3>1. /\ request'[<<d, c>>].step = "sent" /\ request'[<<d, c>>].position = 0
          /\ request'[<<d, c>>].file = edge[e].file
      BY <2>3 DEF Sent
    <3>2. edge[e].file \in Files
      BY <1>0, <2>3 DEF EdgeInv
    <3> QED
      BY <3>1, <3>2
  <2>4. CASE d = e /\ request'[<<e, c>>] \in {request[<<e, c>>], request[<<e, "current">>]}
    BY <1>0, <2>4 DEF RequestInv
  <2> QED
    BY <1>0, <2>1, <2>2, <2>3, <2>4 DEF EdgeAdvance
<1>2. EdgeInv'
  <2> SUFFICES ASSUME NEW d \in Edges
               PROVE  /\ edge'[d].step \in {"send", "wait", "remove"}
                           => edge'[d].file \in Files
                      /\ edge'[d].step = "wait" /\ request'[<<d, "current">>].step # "free"
                           => request'[<<d, "current">>].file = edge'[d].file
                      /\ edge'[d].step = "remove"
                           => RowsOf(d, edge'[d].file) \subseteq stored
    BY <1>0 DEF EdgeInv, RowsOf
  <2>1. CASE d # e
    BY <1>0, <2>1 DEF EdgeInv, EdgeAdvance
  <2>2. CASE d = e /\ edge'[e].step \notin {"wait", "remove"}
    BY <1>0, <2>2 DEF EdgeAdvance, EdgeInv
  <2>3. CASE d = e /\ edge'[e].step = "wait"
    BY <1>0, <2>3 DEF EdgeAdvance, EdgeInv, Sent
  <2>4. CASE d = e /\ edge'[e].step = "remove"
    <3>1. CASE edge'[e] = edge[e]
      BY <1>0, <2>4, <3>1 DEF EdgeInv
    <3>2. CASE /\ edge[e].step = "wait" /\ edge'[e].file = edge[e].file
               /\ request[<<e, "current">>].step = "ok"
      BY <1>0, <2>4, <3>2 DEF EdgeInv, RequestInv
    <3> QED
      BY <1>0, <2>4, <3>1, <3>2 DEF EdgeAdvance
  <2> QED
    BY <2>1, <2>2, <2>3, <2>4
<1>3. RelayedIsStored'
  <2> SUFFICES ASSUME NEW d \in Edges, NEW f \in Files, place'[<<d, f>>] = "gone"
               PROVE  RowsOf(d, f) \subseteq stored
    BY <1>0 DEF RelayedIsStored, RowsOf
  <2>1. CASE place[<<d, f>>] = "gone"
    BY <1>0, <2>1 DEF RelayedIsStored
  <2>2. CASE <<d, f>> = <<e, edge[e].file>> /\ edge[e].step = "remove"
    BY <1>0, <2>2 DEF EdgeInv
  <2> QED
    BY <1>0, <2>1, <2>2 DEF EdgeAdvance
<1> QED
  BY <1>1, <1>2, <1>3

--------------------------------------------------------------------------------
(* What a step of the primary does. *)

(* Rows and ledger entries are added only; a request keeps its file until it
   is free, and gets on when the rows it stands for are there. *)
PrimaryAdvance ==
  /\ stored \subseteq stored'
  /\ \A d \in Edges, c \in Connections :
       \/ request'[<<d, c>>] \in {request[<<d, c>>], Free}
       \/ /\ request[<<d, c>>].step # "free"
          /\ request'[<<d, c>>].file = request[<<d, c>>].file
          /\ request'[<<d, c>>].step # "sent"
          /\ request'[<<d, c>>].step = "import" =>
               \A b \in Blocks :
                 b <= request'[<<d, c>>].position
                   => <<d, request[<<d, c>>].file, b>> \in stored'
          /\ request'[<<d, c>>].step \in {"record", "ok"} =>
               RowsOf(d, request[<<d, c>>].file) \subseteq stored'

PrimaryNext ==
  \/ \E e \in Edges : RequestEnds(e)
  \/ \E e \in Edges, c \in Connections : Handling(e, c) \/ ImportFails(e, c)
  \/ PrimaryDies

LEMMA Advances ==
  ASSUME TypeOK, NEW e \in Edges, NEW c \in Connections,
         NEW r \in Requests, Request(e, c, r),
         request[<<e, c>>].step # "free", r.step # "sent",
         r.file = request[<<e, c>>].file, stored \subseteq stored',
         r.step = "import" =>
           \A b \in Blocks : b <= r.position => <<e, r.file, b>> \in stored',
         r.step \in {"record", "ok"} => RowsOf(e, r.file) \subseteq stored'
  PROVE  PrimaryAdvance /\ request' \in [Edges \X Connections -> Requests]
<1>1. /\ request' \in [Edges \X Connections -> Requests]
      /\ request'[<<e, c>>] = r
      /\ \A d \in Edges, b \in Connections :
           <<d, b>> # <<e, c>> => request'[<<d, b>>] = request[<<d, b>>]
  BY RequestEffect
<1>2. ASSUME NEW d \in Edges, NEW k \in Connections
      PROVE  \/ request'[<<d, k>>] \in {request[<<d, k>>], Free}
             \/ <<d, k>> = <<e, c>>
  BY <1>1, <1>2
<1> QED
  BY <1>1, <1>2 DEF PrimaryAdvance

LEMMA HandlerEffect ==
  ASSUME TypeOK, RequestInv, LedgerIsStored, NEW e \in Edges, NEW c \in Connections,
         Handling(e, c) \/ ImportFails(e, c)
  PROVE  /\ PrimaryAdvance /\ LedgerIsStored'
         /\ request' \in [Edges \X Connections -> Requests]
         /\ ledger' \subseteq Edges \X Files
         /\ stored' \subseteq Edges \X Files \X Blocks
<1> DEFINE q == request[<<e, c>>]
<1>0. /\ q \in Requests
      /\ ledger \subseteq Edges \X Files
      /\ stored \subseteq Edges \X Files \X Blocks
      /\ Blocks \subseteq Nat \ {0}
      /\ q.step # "free" => q.file \in Files
      /\ q.step = "sent" => q.position = 0
      /\ q.step = "import" =>
           \A b \in Blocks : b <= q.position => <<e, q.file, b>> \in stored
      /\ q.step \in {"record", "ok"} => RowsOf(e, q.file) \subseteq stored
  BY RelayAssumption DEF TypeOK, Requests, RequestInv
<1> HIDE DEF q
<1>1. CASE LookupLedger(e, c)
  <2>1. PICK s \in {"ok", "import"} :
          /\ Request(e, c, [q EXCEPT !.step = s])
          /\ s = "ok" => <<e, q.file>> \in ledger
    BY <1>1 DEF LookupLedger, q
  <2>2. q.step = "sent" /\ UNCHANGED storeVars
    BY <1>1 DEF LookupLedger, q
  <2>3. /\ [q EXCEPT !.step = s] \in Requests
        /\ [q EXCEPT !.step = s].step = s
        /\ [q EXCEPT !.step = s].file = q.file
        /\ [q EXCEPT !.step = s].position = 0
    BY <1>0, <2>2 DEF Requests, RequestSteps
  <2>4. s = "ok" => RowsOf(e, q.file) \subseteq stored
    <3> SUFFICES ASSUME s = "ok"
                 PROVE  RowsOf(e, q.file) \subseteq stored
      OBVIOUS
    <3>1. <<e, q.file>> \in ledger
      BY <2>1
    <3>2. RowsOf(<<e, q.file>>[1], <<e, q.file>>[2]) \subseteq stored
      BY <3>1 DEF LedgerIsStored
    <3> QED
      BY <3>2
  <2>5. \A b \in Blocks : ~(b <= 0)
    BY <1>0
  <2>6. PrimaryAdvance /\ request' \in [Edges \X Connections -> Requests]
    BY <2>1, <2>2, <2>3, <2>4, <2>5, Advances DEF q, storeVars
  <2> QED
    BY <1>0, <2>2, <2>6 DEF storeVars, LedgerIsStored, RowsOf
<1>2. CASE ImportBlock(e, c)
  <2>1. q.step = "import" /\ ledger' = ledger
    BY <1>2 DEF ImportBlock, q
  <2>2. PICK b \in Blocks :
          /\ b > q.position
          /\ \A d \in Blocks : d > q.position => b <= d
          /\ stored' = stored \cup {<<e, q.file, b>>}
          /\ Request(e, c, [q EXCEPT !.position = b,
               !.step = IF NextBlocks(e, c) = {b} THEN "record" ELSE "import"])
    BY <1>2 DEF ImportBlock, NextBlocks, q
  <2> DEFINE s == IF NextBlocks(e, c) = {b} THEN "record" ELSE "import"
             r == [q EXCEPT !.position = b, !.step = s]
  <2>3. r \in Requests /\ r.step = s /\ r.file = q.file /\ r.position = b
    BY <1>0 DEF Requests, RequestSteps
  <2>4. s \in {"record", "import"} /\ (s = "record" => NextBlocks(e, c) = {b})
    OBVIOUS
  <2>5. Request(e, c, r)
    BY <2>2
  <2> HIDE DEF r, s
  <2>6. q.position \in Nat /\ b \in Nat
    <3>1. q.position \in Blocks \cup {0}
      BY <1>0 DEF Requests
    <3>2. \A d \in Blocks \cup {0} : d \in Nat
      BY RelayAssumption
    <3> QED
      BY <2>2, <3>1, <3>2, Zenon
  <2>7. \A d \in Blocks : d <= b => <<e, q.file, d>> \in stored'
    <3> SUFFICES ASSUME NEW d \in Blocks, d <= b
                 PROVE  <<e, q.file, d>> \in stored'
      OBVIOUS
    <3>1. CASE d <= q.position
      BY <1>0, <2>1, <2>2, <3>1
    <3>2. CASE d > q.position
      <4>1. d \in Nat
        BY <1>0
      <4>2. d = b
        BY <2>2, <2>6, <3>2, <4>1
      <4> QED
        BY <2>2, <4>2
    <3>3. d \in Nat
      BY <1>0
    <3> QED
      BY <2>6, <3>1, <3>2, <3>3
  <2>8. s = "record" => RowsOf(e, q.file) \subseteq stored'
    <3> SUFFICES ASSUME s = "record", NEW d \in Blocks
                 PROVE  <<e, q.file, d>> \in stored'
      BY DEF RowsOf
    <3>1. d \in Nat
      BY <1>0
    <3>2. d > q.position => d = b
      BY <2>4 DEF NextBlocks, q
    <3>3. d <= b
      BY <2>2, <2>6, <3>1, <3>2
    <3> QED
      BY <2>7, <3>3
  <2>9. stored \subseteq stored' /\ stored' \subseteq Edges \X Files \X Blocks
    BY <1>0, <2>1, <2>2
  <2>10. PrimaryAdvance /\ request' \in [Edges \X Connections -> Requests]
    BY <2>1, <2>3, <2>4, <2>5, <2>7, <2>8, <2>9, Advances DEF q
  <2> QED
    BY <1>0, <2>1, <2>9, <2>10 DEF LedgerIsStored, RowsOf
<1>3. CASE Record(e, c)
  <2>1. /\ q.step = "record" /\ stored' = stored
        /\ ledger' = ledger \cup {<<e, q.file>>}
        /\ Request(e, c, [q EXCEPT !.step = "ok"])
    BY <1>3 DEF Record, q
  <2>2. /\ [q EXCEPT !.step = "ok"] \in Requests
        /\ [q EXCEPT !.step = "ok"].step = "ok"
        /\ [q EXCEPT !.step = "ok"].file = q.file
    BY <1>0 DEF Requests, RequestSteps
  <2>3. PrimaryAdvance /\ request' \in [Edges \X Connections -> Requests]
    BY <1>0, <2>1, <2>2, Advances DEF q
  <2>4. <<e, q.file>>[1] = e /\ <<e, q.file>>[2] = q.file
    OBVIOUS
  <2>5. \A x \in ledger' : RowsOf(x[1], x[2]) \subseteq stored
    BY <1>0, <2>1, <2>4 DEF LedgerIsStored
  <2> QED
    BY <1>0, <2>1, <2>3, <2>5 DEF LedgerIsStored, RowsOf
<1>4. CASE ImportFails(e, c)
  <2>1. /\ q.step \in {"import", "record"} /\ UNCHANGED storeVars
        /\ Request(e, c, [q EXCEPT !.step = "error"])
    BY <1>4 DEF ImportFails, q
  <2>2. /\ [q EXCEPT !.step = "error"] \in Requests
        /\ [q EXCEPT !.step = "error"].step = "error"
        /\ [q EXCEPT !.step = "error"].file = q.file
    BY <1>0 DEF Requests, RequestSteps
  <2>3. PrimaryAdvance /\ request' \in [Edges \X Connections -> Requests]
    BY <2>1, <2>2, Advances DEF q, storeVars
  <2> QED
    BY <1>0, <2>1, <2>3 DEF storeVars, LedgerIsStored, RowsOf
<1> QED
  BY <1>1, <1>2, <1>3, <1>4 DEF Handling

LEMMA RequestsEnd ==
  ASSUME TypeOK, PrimaryDies \/ \E e \in Edges : RequestEnds(e)
  PROVE  /\ PrimaryAdvance /\ UNCHANGED storeVars
         /\ request' \in [Edges \X Connections -> Requests]
<1>1. CASE PrimaryDies
  <2>1. /\ request' = [x \in DOMAIN request |->
                         IF request[x].step = "sent" THEN request[x] ELSE Free]
        /\ UNCHANGED storeVars
    BY <1>1 DEF PrimaryDies
  <2>2. request \in [Edges \X Connections -> Requests] /\ Free \in Requests
    BY FreeType DEF TypeOK, Requests
  <2> QED
    BY <2>1, <2>2 DEF PrimaryAdvance, storeVars
<1>2. ASSUME NEW e \in Edges, RequestEnds(e)
      PROVE  /\ PrimaryAdvance /\ UNCHANGED storeVars
             /\ request' \in [Edges \X Connections -> Requests]
  <2>1. "late" \in Connections /\ Request(e, "late", Free) /\ UNCHANGED storeVars
    BY <1>2 DEF RequestEnds, Connections
  <2>2. /\ request' \in [Edges \X Connections -> Requests]
        /\ request'[<<e, "late">>] = Free
        /\ \A d \in Edges, b \in Connections :
             <<d, b>> # <<e, "late">> => request'[<<d, b>>] = request[<<d, b>>]
    BY <2>1, FreeType, RequestEffect
  <2> QED
    BY <2>1, <2>2 DEF PrimaryAdvance, storeVars
<1> QED
  BY <1>1, <1>2

(* What advances like that keeps what requests and edges rely on. *)
LEMMA PrimaryKeeps ==
  ASSUME IInv, PrimaryAdvance, UNCHANGED <<place, edge>>
  PROVE  RequestInv' /\ EdgeInv' /\ RelayedIsStored'
<1>0. TypeOK /\ RequestInv /\ EdgeInv /\ RelayedIsStored /\ stored \subseteq stored'
      /\ "current" \in Connections
  BY DEF IInv, PrimaryAdvance, Connections
<1>1. RequestInv'
  <2> SUFFICES ASSUME NEW d \in Edges, NEW c \in Connections
               PROVE  /\ request'[<<d, c>>].step # "free"
                           => request'[<<d, c>>].file \in Files
                      /\ request'[<<d, c>>].step = "sent"
                           => request'[<<d, c>>].position = 0
                      /\ request'[<<d, c>>].step = "import" =>
                           \A b \in Blocks :
                             b <= request'[<<d, c>>].position
                               => <<d, request'[<<d, c>>].file, b>> \in stored'
                      /\ request'[<<d, c>>].step \in {"record", "ok"} =>
                           RowsOf(d, request'[<<d, c>>].file) \subseteq stored'
    BY DEF RequestInv, RowsOf
  <2>1. CASE request'[<<d, c>>] = request[<<d, c>>]
    BY <1>0, <2>1 DEF RequestInv
  <2>2. CASE request'[<<d, c>>] = Free
    BY <2>2 DEF Free
  <2>3. CASE ~(request'[<<d, c>>] \in {request[<<d, c>>], Free})
    BY <1>0, <2>3 DEF RequestInv, PrimaryAdvance
  <2> QED
    BY <2>1, <2>2, <2>3
<1>2. EdgeInv'
  <2> SUFFICES ASSUME NEW d \in Edges
               PROVE  /\ edge[d].step \in {"send", "wait", "remove"}
                           => edge[d].file \in Files
                      /\ edge[d].step = "wait" /\ request'[<<d, "current">>].step # "free"
                           => request'[<<d, "current">>].file = edge[d].file
                      /\ edge[d].step = "remove"
                           => RowsOf(d, edge[d].file) \subseteq stored'
    BY DEF EdgeInv, RowsOf
  <2>1. \/ request'[<<d, "current">>].step = "free"
        \/ /\ request[<<d, "current">>].step # "free"
           /\ request'[<<d, "current">>].file = request[<<d, "current">>].file
        \/ request'[<<d, "current">>] = request[<<d, "current">>]
    BY <1>0, FreeType DEF PrimaryAdvance
  <2> QED
    BY <1>0, <2>1 DEF EdgeInv
<1>3. RelayedIsStored'
  BY <1>0 DEF RelayedIsStored, RowsOf
<1> QED
  BY <1>1, <1>2, <1>3

(* The rest of Next: the clock of the cluster, and nothing. *)
Cluster ==
  StartPrimary \/ Publish \/ BeaconExpires \/ \E e \in Edges : Heartbeat(e)

LEMMA ClusterEffect ==
  ASSUME TypeOK, Cluster \/ UNCHANGED vars
  PROVE  /\ UNCHANGED <<place, edge, request, storeVars>> /\ PrimaryAdvance /\ TypeOK'
<1>1. UNCHANGED <<edgeVars, request, storeVars>>
  BY DEF Cluster, StartPrimary, Publish, BeaconExpires, Heartbeat, vars
<1>2. known' \subseteq Edges /\ beacon' \in BOOLEAN /\ primary' \in BOOLEAN
  BY DEF Cluster, StartPrimary, Publish, BeaconExpires, Heartbeat, vars, clusterVars,
         TypeOK
<1>3. UNCHANGED <<place, aged, edge, request, ledger, stored>>
  BY <1>1 DEF edgeVars, storeVars
<1>4. PrimaryAdvance
  BY <1>3 DEF PrimaryAdvance
<1>5. TypeOK'
  BY <1>2, <1>3 DEF TypeOK
<1> QED
  BY <1>1, <1>3, <1>4, <1>5

LEMMA EdgeTypeOK ==
  ASSUME TypeOK, EdgeInv, NEW e \in Edges, EdgeNext(e)
  PROVE  TypeOK'
<1>1. EdgeTypes /\ UNCHANGED storeVars
  BY EdgeEffect
<1>2. aged' \subseteq Edges \X Files
  BY DEF TypeOK, EdgeNext, Relaying, SealFile, RecoverAndClaim, NoPrimary, Post,
         Accepted, Rejected, PostFails, RemoveRelayed, RemoveFails, LeasePasses,
         EdgeDies, StartEdge, OperatorRestarts, FilesAt
<1>3. known' \subseteq Edges /\ UNCHANGED <<beacon, primary>>
  BY DEF TypeOK, EdgeNext, Relaying, SealFile, RecoverAndClaim, NoPrimary, Post,
         Accepted, Rejected, PostFails, RemoveRelayed, RemoveFails, LeasePasses,
         EdgeDies, StartEdge, OperatorRestarts, clusterVars
<1> QED
  BY <1>1, <1>2, <1>3 DEF TypeOK, EdgeTypes, EdgeStates, Requests, storeVars

LEMMA PrimaryTypeOK ==
  ASSUME TypeOK, PrimaryNext,
         request' \in [Edges \X Connections -> Requests],
         ledger' \subseteq Edges \X Files, stored' \subseteq Edges \X Files \X Blocks
  PROVE  TypeOK' /\ UNCHANGED <<place, edge>>
<1>1. UNCHANGED <<edgeVars, clusterVars>> /\ primary' \in BOOLEAN
  BY DEF PrimaryNext, RequestEnds, Handling, LookupLedger, ImportBlock, Record,
         ImportFails, PrimaryDies, TypeOK
<1> QED
  BY <1>1 DEF TypeOK, Requests, edgeVars, clusterVars

--------------------------------------------------------------------------------
(* The theorems. *)

LEMMA Invariant == Spec => []IInv
<1>1. ASSUME Init
      PROVE  IInv
  <2>1. TypeOK
    BY <1>1 DEF Init, TypeOK, Free, Places, EdgeSteps, RequestSteps
  <2>2. RequestInv
    BY <1>1 DEF Init, RequestInv, Free
  <2>3. EdgeInv
    BY <1>1 DEF Init, EdgeInv
  <2>4. LedgerIsStored /\ RelayedIsStored
    BY <1>1 DEF Init, LedgerIsStored, RelayedIsStored
  <2> QED
    BY <2>1, <2>2, <2>3, <2>4 DEF IInv
<1>2. IInv /\ [Next]_vars => IInv'
  <2> SUFFICES ASSUME IInv, [Next]_vars
               PROVE  IInv'
    OBVIOUS
  <2>0. TypeOK /\ RequestInv /\ EdgeInv /\ LedgerIsStored
    BY DEF IInv
  <2>1. ASSUME NEW e \in Edges, EdgeNext(e)
        PROVE  IInv'
    <3>1. UNCHANGED storeVars
      BY <2>0, <2>1, EdgeEffect
    <3>2. LedgerIsStored'
      BY <2>0, <3>1 DEF LedgerIsStored, RowsOf, storeVars
    <3> QED
      BY <2>0, <2>1, <3>2, EdgeStep, EdgeTypeOK DEF IInv
  <2>2. CASE PrimaryNext
    <3>1. CASE \E e \in Edges, c \in Connections : Handling(e, c) \/ ImportFails(e, c)
      BY <2>0, <2>2, <3>1, HandlerEffect, PrimaryTypeOK, PrimaryKeeps DEF IInv
    <3>2. CASE PrimaryDies \/ \E e \in Edges : RequestEnds(e)
      <4>1. /\ PrimaryAdvance /\ UNCHANGED <<ledger, stored>>
            /\ request' \in [Edges \X Connections -> Requests]
        BY <2>0, <3>2, RequestsEnd DEF storeVars
      <4>2. LedgerIsStored'
        BY <2>0, <4>1 DEF LedgerIsStored, RowsOf
      <4>3. TypeOK' /\ UNCHANGED <<place, edge>>
        BY <2>0, <2>2, <4>1, PrimaryTypeOK DEF TypeOK
      <4> QED
        BY <4>1, <4>2, <4>3, PrimaryKeeps DEF IInv
    <3> QED
      BY <2>2, <3>1, <3>2 DEF PrimaryNext
  <2>3. CASE Cluster \/ UNCHANGED vars
    <3>1. UNCHANGED <<place, edge, storeVars>> /\ PrimaryAdvance /\ TypeOK'
      BY <2>0, <2>3, ClusterEffect
    <3>2. LedgerIsStored'
      BY <2>0, <3>1 DEF LedgerIsStored, RowsOf, storeVars
    <3> QED
      BY <3>1, <3>2, PrimaryKeeps DEF IInv
  <2> QED
    BY <2>1, <2>2, <2>3 DEF Next, PrimaryNext, Cluster
<1> QED
  BY <1>1, <1>2, PTL DEF Spec

(* Every variable keeps its type; a file an edge claims exists (claim_oldest_
   sealed_file), and a handler never reads past the last block of its file. *)
THEOREM TypeCorrect == Spec => []TypeOK
<1>1. IInv => TypeOK
  BY DEF IInv
<1> QED
  BY <1>1, Invariant, PTL

(* An edge deletes a file only when the primary has stored every row of it, for
   every fault of the network, the store and either process (run_one_relay). *)
THEOREM DeletedOnlyWhenStored == Spec => []RelayedIsStored
<1>1. IInv => RelayedIsStored
  BY DEF IInv
<1> QED
  BY <1>1, Invariant, PTL

(* The ledger of relayed files vouches for their rows, also when deliveries of
   one file overlap (import_relayed_journal_bytes). *)
THEOREM LedgerVouches == Spec => []LedgerIsStored
<1>1. IInv => LedgerIsStored
  BY DEF IInv
<1> QED
  BY <1>1, Invariant, PTL
================================================================================
