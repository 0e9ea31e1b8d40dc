-------------------------- MODULE CodexDispatch_proofs -------------------------
(***************************************************************************)
(* Theorems about CodexDispatch, for every number of requests, accounts,   *)
(* limits and attempts.                                                    *)
(***************************************************************************)
EXTENDS CodexDispatch, FiniteSetTheorems, TLAPS

--------------------------------------------------------------------------------
(* The inductive invariant. *)

Starting == {"new", "routed"}
Trying == {"attempt", "body", "preflight"}
Streaming == {"ready", "streaming", "finishing"}

(* Where a request is tells what it holds and what its loop has done.  Only a
   recording may be without an account: that of a blocked session. *)
PlaceInv ==
  \A r \in Requests :
    /\ pc[r] \in Starting \cup {"select", "done"} => account[r] = NoAccount
    /\ pc[r] \in Trying \cup Streaming => account[r] # NoAccount
    /\ pc[r] \in Starting => failed[r] = {} /\ attempts[r] = 0
    /\ pc[r] = "select" => attempts[r] < AttemptLimit
    /\ pc[r] # "done" => end[r] = "none"

KeyHolders == {r \in Requests : HoldsKey(r)}
Users(a) == {r \in Requests : account[r] = a}

IInv == TypeOK /\ PlaceInv /\ EachAttemptAnotherAccount /\ SlotsAreHeld /\ RecordedOnce

--------------------------------------------------------------------------------
(* Every step of a request is of one of five kinds. *)

(* It ends; its record is there, or spawned, or not due. *)
Ending(r) ==
  /\ pc[r] \notin {"new", "done"}
  /\ \/ /\ \E how \in {"answered", "streamed"} : Ends(r, how)
        /\ records' = [records EXCEPT ![r] = @ + 1] /\ UNCHANGED spawned
     \/ /\ Ends(r, "streamed")
        /\ spawned' = spawned \cup {r} /\ UNCHANGED records
     \/ /\ \E how \in {"refused", "failed", "cancelled"} : Ends(r, how)
        /\ UNCHANGED recordVars

FailingOver(r) ==
  /\ pc[r] \in Trying /\ AttemptsLeft(r) /\ NextAccount(r)
  /\ UNCHANGED recordVars

Going(r) ==
  /\ \/ /\ pc[r] = "new"
        /\ pc' = [pc EXCEPT ![r] = "routed"]
     \/ /\ pc[r] = "routed"
        /\ pc' = [pc EXCEPT ![r] = "recording"]
     \/ /\ pc[r] \in Trying \cup Streaming
        /\ \E to \in Trying \cup Streaming \cup {"recording"} : pc' = [pc EXCEPT ![r] = to]
  /\ UNCHANGED <<account, loopVars, end, limitVars, recordVars>>

TakingKey(r) ==
  /\ pc[r] = "routed"
  /\ pc' = [pc EXCEPT ![r] = "select"]
  /\ keyInFlight' = keyInFlight + 1
  /\ UNCHANGED <<account, loopVars, end, inFlight, recordVars>>

TakingAccount(r) ==
  /\ pc[r] = "select"
  /\ \E a \in Accounts \ failed[r] :
       /\ inFlight[a] < AccountLimit
       /\ pc' = [pc EXCEPT ![r] = "attempt"]
       /\ account' = [account EXCEPT ![r] = a]
       /\ inFlight' = [inFlight EXCEPT ![a] = @ + 1]
       /\ attempts' = [attempts EXCEPT ![r] = @ + 1]
  /\ UNCHANGED <<failed, end, keyInFlight, recordVars>>

Kinds(r) ==
  Ending(r) \/ FailingOver(r) \/ Going(r) \/ TakingKey(r) \/ TakingAccount(r)

RequestStep(r) == Arrive(r) \/ HandlerStep(r) \/ UpstreamStep(r) \/ Disconnect(r)

LEMMA StepKinds ==
  ASSUME NEW r \in Requests, RequestStep(r)
  PROVE  Kinds(r)
<1> USE DEF Kinds, Trying, Streaming
<1>1. CASE Arrive(r)
  BY <1>1 DEF Arrive, Going
<1>2. CASE Enter(r)
  <2>1. CASE blocked /\ Goes(r, "recording")
    BY <1>2, <2>1 DEF Enter, Goes, Going
  <2>2. CASE Ends(r, "refused")
    BY <1>2, <2>2 DEF Enter, Ending
  <2>3. CASE pc' = [pc EXCEPT ![r] = "select"] /\ keyInFlight' = keyInFlight + 1
             /\ UNCHANGED <<account, loopVars, end, inFlight>>
    BY <1>2, <2>3 DEF Enter, TakingKey
  <2> QED
    BY <1>2, <2>1, <2>2, <2>3 DEF Enter
<1>3. CASE Select(r)
  <2>1. CASE Ends(r, "failed")
    BY <1>3, <2>1 DEF Select, Ending
  <2>2. CASE \E a \in Candidates(r) :
               /\ Free(a)
               /\ pc' = [pc EXCEPT ![r] = "attempt"]
               /\ account' = [account EXCEPT ![r] = a]
               /\ inFlight' = [inFlight EXCEPT ![a] = @ + 1]
               /\ attempts' = [attempts EXCEPT ![r] = @ + 1]
               /\ UNCHANGED <<failed, end, keyInFlight>>
    BY <1>3, <2>2 DEF Select, TakingAccount, Candidates, Free
  <2> QED
    BY <1>3, <2>1, <2>2 DEF Select
<1>4. CASE Record(r)
  BY <1>4 DEF Record, Ending
<1>5. CASE Poll(r) \/ PreflightPasses(r) \/ StreamEnds(r) \/ BodyComplete(r)
  BY <1>5 DEF Poll, PreflightPasses, StreamEnds, BodyComplete, Goes, Going
<1>6. CASE Finish(r)
  BY <1>6 DEF Finish, Ending
<1>7. CASE TransportFails(r)
  BY <1>7 DEF TransportFails, Ending, FailingOver
<1>8. CASE Unauthorized(r)
  <2>1. CASE MayFailOver(r) /\ NextAccount(r)
    BY <1>8, <2>1 DEF Unauthorized, MayFailOver, FailingOver
  <2>2. CASE Goes(r, "recording")
    BY <1>8, <2>2 DEF Unauthorized, Goes, Going
  <2> QED
    BY <1>8, <2>1, <2>2 DEF Unauthorized
<1>9. CASE UpstreamFails(r)
  <2>1. CASE MayFailOver(r) /\ NextAccount(r)
    BY <1>9, <2>1 DEF UpstreamFails, MayFailOver, FailingOver
  <2>2. CASE Goes(r, "recording")
    BY <1>9, <2>2 DEF UpstreamFails, Goes, Going
  <2> QED
    BY <1>9, <2>1, <2>2 DEF UpstreamFails
<1>10. CASE ReadFails(r)
  BY <1>10 DEF ReadFails, Ending
<1>11. CASE Accepted(r)
  BY <1>11 DEF Accepted, Goes, Going
<1>12. CASE StreamBreaks(r)
  BY <1>12 DEF StreamBreaks, GuardDropped, Ending
<1>13. CASE Disconnect(r)
  BY <1>13 DEF Disconnect, GuardDropped, Ending, Pcs
<1> QED
  BY <1>1, <1>2, <1>3, <1>4, <1>5, <1>6, <1>7, <1>8, <1>9, <1>10, <1>11, <1>12, <1>13
  DEF RequestStep, HandlerStep, UpstreamStep

--------------------------------------------------------------------------------
(* What each kind does to its request, and that it leaves the others alone.  *)

Same(q) ==
  /\ pc'[q] = pc[q] /\ account'[q] = account[q] /\ end'[q] = end[q]
  /\ failed'[q] = failed[q] /\ attempts'[q] = attempts[q]
  /\ records'[q] = records[q] /\ (q \in spawned' <=> q \in spawned)

LEMMA Others ==
  ASSUME TypeOK, NEW r \in Requests, Kinds(r), NEW q \in Requests, q # r
  PROVE  Same(q)
<1> USE DEF Same, TypeOK, recordVars, loopVars
<1>1. ASSUME NEW how, Ends(r, how)
      PROVE  /\ pc'[q] = pc[q] /\ account'[q] = account[q] /\ end'[q] = end[q]
             /\ failed'[q] = failed[q] /\ attempts'[q] = attempts[q]
  BY <1>1 DEF Ends, DropAccountPermit
<1>2. CASE Ending(r)
  <2>1. records'[q] = records[q] /\ (q \in spawned' <=> q \in spawned)
    BY <1>2 DEF Ending
  <2>2. PICK how : Ends(r, how)
    BY <1>2 DEF Ending
  <2> QED
    BY <1>1, <2>1, <2>2
<1>3. CASE FailingOver(r)
  BY <1>3 DEF FailingOver, NextAccount, DropAccountPermit
<1>4. CASE Going(r)
  BY <1>4 DEF Going
<1>5. CASE TakingKey(r)
  BY <1>5 DEF TakingKey
<1>6. CASE TakingAccount(r)
  BY <1>6 DEF TakingAccount
<1> QED
  BY <1>2, <1>3, <1>4, <1>5, <1>6 DEF Kinds

LEMMA EndsEffect ==
  ASSUME TypeOK, NEW r \in Requests, NEW how, Ends(r, how)
  PROVE  /\ pc'[r] = "done" /\ account'[r] = NoAccount /\ end'[r] = how
         /\ failed'[r] = {} /\ attempts'[r] = 0
BY DEF TypeOK, Ends, DropAccountPermit

LEMMA EndingEffect ==
  ASSUME TypeOK, NEW r \in Requests, Ending(r)
  PROVE  /\ pc[r] \notin {"new", "done"} /\ pc'[r] = "done"
         /\ account'[r] = NoAccount /\ failed'[r] = {} /\ attempts'[r] = 0
         /\ end'[r] \in {"refused", "failed", "answered", "streamed", "cancelled"}
         /\ \/ /\ end'[r] \in {"answered", "streamed"}
               /\ records'[r] = records[r] + 1 /\ (r \in spawned' <=> r \in spawned)
            \/ end'[r] = "streamed" /\ r \in spawned' /\ records'[r] = records[r]
            \/ /\ end'[r] \notin {"answered", "streamed"}
               /\ records'[r] = records[r] /\ (r \in spawned' <=> r \in spawned)
<1>1. CASE /\ \E how \in {"answered", "streamed"} : Ends(r, how)
           /\ records' = [records EXCEPT ![r] = @ + 1] /\ UNCHANGED spawned
  <2>1. records'[r] = records[r] + 1
    BY <1>1 DEF TypeOK
  <2> QED
    BY <1>1, <2>1, EndsEffect DEF Ending
<1>2. CASE /\ Ends(r, "streamed")
           /\ spawned' = spawned \cup {r} /\ UNCHANGED records
  BY <1>2, EndsEffect DEF Ending
<1>3. CASE /\ \E how \in {"refused", "failed", "cancelled"} : Ends(r, how)
           /\ UNCHANGED recordVars
  BY <1>3, EndsEffect DEF Ending, recordVars
<1> QED
  BY <1>1, <1>2, <1>3 DEF Ending

LEMMA FailingOverEffect ==
  ASSUME TypeOK, NEW r \in Requests, FailingOver(r)
  PROVE  /\ pc[r] \in Trying /\ pc'[r] = "select" /\ account'[r] = NoAccount
         /\ failed'[r] = failed[r] \cup {account[r]}
         /\ attempts'[r] = attempts[r] /\ attempts[r] < AttemptLimit
         /\ end'[r] = end[r]
BY DEF TypeOK, FailingOver, NextAccount, DropAccountPermit, AttemptsLeft

LEMMA TakingAccountEffect ==
  ASSUME TypeOK, NEW r \in Requests, TakingAccount(r)
  PROVE  /\ pc[r] = "select" /\ pc'[r] = "attempt"
         /\ account'[r] \in Accounts \ failed[r]
         /\ failed'[r] = failed[r] /\ attempts'[r] = attempts[r] + 1
         /\ end'[r] = end[r]
BY DEF TypeOK, TakingAccount

LEMMA MovingEffect ==
  ASSUME TypeOK, NEW r \in Requests, Going(r) \/ TakingKey(r)
  PROVE  /\ account'[r] = account[r] /\ failed'[r] = failed[r]
         /\ attempts'[r] = attempts[r] /\ end'[r] = end[r]
         /\ \/ pc[r] = "new" /\ pc'[r] = "routed"
            \/ pc[r] = "routed" /\ pc'[r] \in {"recording", "select"}
            \/ /\ pc[r] \in Trying \cup Streaming
               /\ pc'[r] \in Trying \cup Streaming \cup {"recording"}
BY DEF TypeOK, Going, TakingKey, loopVars, Trying, Streaming

--------------------------------------------------------------------------------
(* The invariant's parts. *)

LEMMA PlaceStep ==
  ASSUME TypeOK, PlaceInv, NEW r \in Requests, Kinds(r)
  PROVE  PlaceInv'
<1> SUFFICES ASSUME NEW q \in Requests
             PROVE  /\ pc'[q] \in Starting \cup {"select", "done"} => account'[q] = NoAccount
                    /\ pc'[q] \in Trying \cup Streaming => account'[q] # NoAccount
                    /\ pc'[q] \in Starting => failed'[q] = {} /\ attempts'[q] = 0
                    /\ pc'[q] = "select" => attempts'[q] < AttemptLimit
                    /\ pc'[q] # "done" => end'[q] = "none"
  BY DEF PlaceInv
<1> USE DEF PlaceInv, Starting, Trying, Streaming
<1>1. CASE q # r
  BY <1>1, Others DEF Same
<1>2. CASE q = r /\ Ending(r)
  BY <1>2, EndingEffect
<1>3. CASE q = r /\ FailingOver(r)
  BY <1>3, FailingOverEffect
<1>4. CASE q = r /\ (Going(r) \/ TakingKey(r))
  BY <1>4, MovingEffect, DispatchAssumption
<1>5. CASE q = r /\ TakingAccount(r)
  BY <1>5, TakingAccountEffect, DispatchAssumption
<1> QED
  BY <1>1, <1>2, <1>3, <1>4, <1>5 DEF Kinds

LEMMA FiniteFailed ==
  ASSUME TypeOK, NEW r \in Requests
  PROVE  IsFiniteSet(failed[r]) /\ Cardinality(failed[r]) \in Nat
<1>1. failed[r] \in SUBSET Accounts
  BY DEF TypeOK
<1> QED
  BY <1>1, DispatchAssumption, FS_Subset, FS_CardinalityType

LEMMA AttemptStep ==
  ASSUME TypeOK, PlaceInv, EachAttemptAnotherAccount, NEW r \in Requests, Kinds(r)
  PROVE  EachAttemptAnotherAccount'
<1> SUFFICES ASSUME NEW q \in Requests
             PROVE  /\ account'[q] # NoAccount =>
                         /\ account'[q] \notin failed'[q]
                         /\ attempts'[q] = Cardinality(failed'[q]) + 1
                    /\ pc'[q] = "select" => attempts'[q] = Cardinality(failed'[q])
  BY DEF EachAttemptAnotherAccount, InAttempt, HoldsAccount
<1>0. /\ account[q] # NoAccount =>
           /\ account[q] \notin failed[q]
           /\ attempts[q] = Cardinality(failed[q]) + 1
      /\ pc[q] = "select" => attempts[q] = Cardinality(failed[q])
      /\ attempts[q] \in Nat
  BY DispatchAssumption DEF EachAttemptAnotherAccount, InAttempt, HoldsAccount, TypeOK
<1>1. CASE q # r
  BY <1>0, <1>1, Others DEF Same
<1>2. CASE q = r /\ Ending(r)
  BY <1>2, EndingEffect
<1>3. CASE q = r /\ FailingOver(r)
  <2>1. account[r] # NoAccount
    BY <1>3, FailingOverEffect DEF PlaceInv
  <2>2. Cardinality(failed[r] \cup {account[r]}) = Cardinality(failed[r]) + 1
    BY <1>0, <1>3, <2>1, FiniteFailed, FS_AddElement
  <2> QED
    BY <1>0, <1>3, <2>1, <2>2, FailingOverEffect
<1>4. CASE q = r /\ (Going(r) \/ TakingKey(r))
  <2>1. pc[r] \in Starting =>
          failed[r] = {} /\ attempts[r] = 0 /\ account[r] = NoAccount
    BY DEF PlaceInv
  <2>2. Cardinality({}) = 0
    BY FS_EmptySet
  <2> QED
    BY <1>0, <1>4, <2>1, <2>2, MovingEffect DEF Starting, Trying, Streaming
<1>5. CASE q = r /\ TakingAccount(r)
  BY <1>0, <1>5, TakingAccountEffect, FiniteFailed
<1> QED
  BY <1>1, <1>2, <1>3, <1>4, <1>5 DEF Kinds

LEMMA RecordStep ==
  ASSUME TypeOK, PlaceInv, RecordedOnce, NEW r \in Requests, Kinds(r)
  PROVE  RecordedOnce'
<1> SUFFICES ASSUME NEW q \in Requests
             PROVE  records'[q] + (IF q \in spawned' THEN 1 ELSE 0)
                      = IF end'[q] \in {"answered", "streamed"} THEN 1 ELSE 0
  BY DEF RecordedOnce
<1>0. /\ records[q] + (IF q \in spawned THEN 1 ELSE 0)
           = IF end[q] \in {"answered", "streamed"} THEN 1 ELSE 0
      /\ records[q] \in Nat
  BY DEF RecordedOnce, TypeOK
<1>1. CASE q # r
  BY <1>0, <1>1, Others DEF Same
<1>2. CASE q = r /\ Ending(r)
  <2>1. end[r] = "none"
    BY <1>2, EndingEffect DEF PlaceInv
  <2>2. records[r] = 0 /\ r \notin spawned
    BY <1>0, <1>2, <2>1
  <2> QED
    BY <1>2, <2>2, EndingEffect
<1>3. CASE q = r /\ ~Ending(r)
  <2>1. end'[r] = end[r] /\ UNCHANGED <<records, spawned>>
    BY <1>3, FailingOverEffect, MovingEffect, TakingAccountEffect
    DEF Kinds, FailingOver, Going, TakingKey, TakingAccount, recordVars
  <2> QED
    BY <1>0, <1>3, <2>1
<1> QED
  BY <1>1, <1>2, <1>3

--------------------------------------------------------------------------------
(* The limiter's counters. *)

LEMMA FiniteRequests ==
  ASSUME NEW S \in SUBSET Requests, NEW r \in Requests
  PROVE  /\ Cardinality(S) \in 0..Cardinality(Requests) /\ Cardinality(S) \in Nat
         /\ r \notin S => Cardinality(S \cup {r}) = Cardinality(S) + 1
         /\ r \in S => Cardinality(S \ {r}) = Cardinality(S) - 1
         /\ r \notin S => Cardinality(S \ {r}) = Cardinality(S)
<1>1. IsFiniteSet(S) /\ IsFiniteSet(Requests)
  BY DispatchAssumption, FS_Subset
<1>2. /\ Cardinality(S) \in Nat /\ Cardinality(Requests) \in Nat
      /\ Cardinality(S) <= Cardinality(Requests)
  BY <1>1, FS_Subset, FS_CardinalityType
<1>3. r \notin S => Cardinality(S \cup {r}) = Cardinality(S) + 1
  BY <1>1, FS_AddElement
<1>4. /\ r \in S => Cardinality(S \ {r}) = Cardinality(S) - 1
      /\ r \notin S => Cardinality(S \ {r}) = Cardinality(S)
  BY <1>1, FS_RemoveElement
<1>5. Cardinality(S) \in 0..Cardinality(Requests)
  BY <1>2
<1> QED
  BY <1>2, <1>3, <1>4, <1>5

LEMMA KeySlotStep ==
  ASSUME TypeOK, PlaceInv, SlotsAreHeld, NEW r \in Requests, Kinds(r)
  PROVE  keyInFlight' = Cardinality(KeyHolders')
<1>0. /\ KeyHolders \in SUBSET Requests
      /\ keyInFlight = Cardinality(KeyHolders)
      /\ \A q \in Requests :
           q \in KeyHolders' <=> (pc'[q] = "select" \/ account'[q] # NoAccount)
      /\ \A q \in Requests :
           q \in KeyHolders <=> (pc[q] = "select" \/ account[q] # NoAccount)
      /\ KeyHolders' \in SUBSET Requests
  BY DEF SlotsAreHeld, KeyHolders, HoldsKey, HoldsAccount
<1>1. \A q \in Requests : q # r => (q \in KeyHolders' <=> q \in KeyHolders)
  BY <1>0, Others DEF Same
<1> HIDE DEF KeyHolders
<1>2. CASE Ending(r)
  <2>1. KeyHolders' = KeyHolders \ {r}
    BY <1>0, <1>1, <1>2, EndingEffect
  <2>2. keyInFlight' = IF r \in KeyHolders THEN keyInFlight - 1 ELSE keyInFlight
    BY <1>0, <1>2 DEF Ending, Ends, DropKeyPermit, HoldsKey, HoldsAccount
  <2> QED
    BY <1>0, <2>1, <2>2, FiniteRequests
<1>3. CASE FailingOver(r)
  <2>1. r \in KeyHolders /\ r \in KeyHolders'
    BY <1>0, <1>3, FailingOverEffect DEF PlaceInv
  <2>2. KeyHolders' = KeyHolders
    BY <1>0, <1>1, <2>1
  <2> QED
    BY <1>0, <1>3, <2>2 DEF FailingOver, NextAccount
<1>4. CASE Going(r)
  <2>1. pc[r] # "select" /\ pc'[r] # "select" /\ account'[r] = account[r]
    BY <1>4 DEF Going, TypeOK, Trying, Streaming
  <2>2. KeyHolders' = KeyHolders
    BY <1>0, <1>1, <2>1
  <2> QED
    BY <1>0, <1>4, <2>2 DEF Going, limitVars
<1>5. CASE TakingKey(r)
  <2>1. r \notin KeyHolders /\ r \in KeyHolders'
    BY <1>0, <1>5 DEF PlaceInv, Starting, TakingKey, TypeOK
  <2>2. KeyHolders' = KeyHolders \cup {r}
    BY <1>0, <1>1, <2>1
  <2> QED
    BY <1>0, <1>5, <2>1, <2>2, FiniteRequests DEF TakingKey
<1>6. CASE TakingAccount(r)
  <2>1. r \in KeyHolders /\ r \in KeyHolders'
    BY <1>0, <1>6, TakingAccountEffect, DispatchAssumption
  <2>2. KeyHolders' = KeyHolders
    BY <1>0, <1>1, <2>1
  <2> QED
    BY <1>0, <1>6, <2>2 DEF TakingAccount
<1> QED
  BY <1>2, <1>3, <1>4, <1>5, <1>6 DEF Kinds

LEMMA AccountSlotStep ==
  ASSUME TypeOK, PlaceInv, SlotsAreHeld, NEW r \in Requests, Kinds(r),
         NEW a \in Accounts
  PROVE  /\ inFlight'[a] = Cardinality(Users(a)')
         /\ inFlight'[a] \in 0..AccountLimit
<1>0. /\ Users(a) \in SUBSET Requests
      /\ inFlight[a] = Cardinality(Users(a))
      /\ \A q \in Requests : q \in Users(a)' <=> account'[q] = a
      /\ \A q \in Requests : q \in Users(a) <=> account[q] = a
      /\ Users(a)' \in SUBSET Requests
      /\ inFlight[a] \in 0..AccountLimit /\ AccountLimit \in Nat
      /\ a # NoAccount
  BY DispatchAssumption DEF SlotsAreHeld, Users, TypeOK
<1>1. \A q \in Requests : q # r => (q \in Users(a)' <=> q \in Users(a))
  BY <1>0, Others DEF Same
<1>2. Cardinality(Users(a)') \in Nat
  BY <1>0, FiniteRequests
<1> HIDE DEF Users
<1>3. CASE Ending(r) \/ FailingOver(r)
  <2>1. account'[r] = NoAccount
    BY <1>3, EndingEffect, FailingOverEffect
  <2>2. Users(a)' = Users(a) \ {r}
    BY <1>0, <1>1, <2>1
  <2>3. inFlight'[a] = IF r \in Users(a) THEN inFlight[a] - 1 ELSE inFlight[a]
    BY <1>0, <1>3
    DEF Ending, Ends, FailingOver, NextAccount, DropAccountPermit
  <2>4. inFlight'[a] = Cardinality(Users(a)')
    BY <1>0, <2>2, <2>3, FiniteRequests
  <2> QED
    BY <1>0, <1>2, <2>3, <2>4
<1>4. CASE Going(r) \/ TakingKey(r)
  <2>1. account'[r] = account[r] /\ inFlight' = inFlight
    BY <1>4, MovingEffect DEF Going, TakingKey, limitVars
  <2>2. Users(a)' = Users(a)
    BY <1>0, <1>1, <2>1
  <2> QED
    BY <1>0, <2>1, <2>2
<1>5. CASE TakingAccount(r)
  <2>1. PICK b \in Accounts :
          /\ inFlight[b] < AccountLimit
          /\ account' = [account EXCEPT ![r] = b]
          /\ inFlight' = [inFlight EXCEPT ![b] = @ + 1]
    BY <1>5 DEF TakingAccount
  <2>2. account[r] = NoAccount /\ account'[r] = b
    BY <1>5, <2>1 DEF TakingAccount, PlaceInv, TypeOK
  <2>3. CASE a = b
    <3>1. Users(a)' = Users(a) \cup {r} /\ r \notin Users(a)
      BY <1>0, <1>1, <2>2, <2>3
    <3>2. inFlight'[a] = inFlight[a] + 1 /\ inFlight[a] < AccountLimit
      BY <2>1, <2>3 DEF TypeOK
    <3> QED
      BY <1>0, <3>1, <3>2, FiniteRequests
  <2>4. CASE a # b
    <3>1. Users(a)' = Users(a)
      BY <1>0, <1>1, <2>2, <2>4
    <3>2. inFlight'[a] = inFlight[a]
      BY <2>1, <2>4 DEF TypeOK
    <3> QED
      BY <1>0, <3>1, <3>2
  <2> QED
    BY <2>3, <2>4
<1> QED
  BY <1>3, <1>4, <1>5 DEF Kinds

--------------------------------------------------------------------------------
(* TypeOK, and the steps of the rest of the system. *)

(* What the rest of the state may hold. *)
RestOK ==
  /\ routes \in [Requests -> SUBSET Accounts]
  /\ preferred \in [Requests -> Accounts \cup {NoAccount}]
  /\ cooling \subseteq Accounts /\ authError \subseteq Accounts
  /\ affinity \in Accounts \cup {NoAccount}
  /\ blocked \in BOOLEAN

LoopOK ==
  /\ pc \in [Requests -> Pcs]
  /\ account \in [Requests -> Accounts \cup {NoAccount}]
  /\ failed \in [Requests -> SUBSET Accounts]
  /\ attempts \in [Requests -> 0..AttemptLimit]
  /\ end \in [Requests -> {"none", "refused", "failed", "answered", "streamed",
                           "cancelled"}]
  /\ records \in [Requests -> Nat]
  /\ spawned \subseteq Requests

LEMMA RestStep ==
  ASSUME TypeOK, PlaceInv, NEW r \in Requests, RequestStep(r)
  PROVE  RestOK'
<1> USE DEF TypeOK, RestOK, accountVars, sessionVars, routeVars
<1>1. ASSUME NEW how, Ends(r, how)
      PROVE  /\ routes' \in [Requests -> SUBSET Accounts]
             /\ preferred' \in [Requests -> Accounts \cup {NoAccount}]
  BY <1>1 DEF Ends
<1>2. ASSUME NEW to, Goes(r, to)
      PROVE  UNCHANGED <<routes, preferred>>
  BY <1>2 DEF Goes
<1>3. ASSUME NextAccount(r)
      PROVE  UNCHANGED <<routes, preferred>>
  BY <1>3 DEF NextAccount
<1>4. CASE Arrive(r)
  BY <1>4 DEF Arrive
<1>5. CASE Enter(r)
  BY <1>1, <1>2, <1>5 DEF Enter
<1>6. CASE Select(r)
  BY <1>1, <1>6 DEF Select
<1>7. CASE Record(r) \/ Finish(r) \/ ReadFails(r) \/ Disconnect(r) \/ StreamBreaks(r)
  BY <1>1, <1>7 DEF Record, Finish, ReadFails, Disconnect, StreamBreaks, GuardDropped
<1>8. CASE Poll(r) \/ PreflightPasses(r) \/ StreamEnds(r) \/ BodyComplete(r)
  BY <1>2, <1>8 DEF Poll, PreflightPasses, StreamEnds, BodyComplete
<1>9. CASE TransportFails(r) \/ Unauthorized(r) \/ UpstreamFails(r)
  <2>1. pc[r] \in Trying
    BY <1>9 DEF TransportFails, Unauthorized, UpstreamFails, Trying
  <2>2. account[r] \in Accounts
    BY <2>1 DEF PlaceInv
  <2>3. /\ routes' \in [Requests -> SUBSET Accounts]
        /\ preferred' \in [Requests -> Accounts \cup {NoAccount}]
    BY <1>1, <1>2, <1>3, <1>9 DEF TransportFails, Unauthorized, UpstreamFails
  <2> QED
    BY <1>9, <2>2, <2>3 DEF TransportFails, Unauthorized, UpstreamFails
<1>10. CASE Accepted(r)
  <2>1. account[r] \in Accounts
    BY <1>10 DEF Accepted, PlaceInv, Trying
  <2> QED
    BY <1>2, <1>10, <2>1 DEF Accepted
<1> QED
  BY <1>4, <1>5, <1>6, <1>7, <1>8, <1>9, <1>10
  DEF RequestStep, HandlerStep, UpstreamStep

LEMMA LoopStep ==
  ASSUME TypeOK, PlaceInv, NEW r \in Requests, Kinds(r)
  PROVE  LoopOK'
<1> USE DEF TypeOK, LoopOK, recordVars, loopVars
<1>0. {"done", "routed", "recording", "select", "attempt"} \cup Trying \cup Streaming
        \subseteq Pcs
      /\ 0 \in 0..AttemptLimit
  BY DispatchAssumption DEF Pcs, Trying, Streaming
<1>1. CASE Ending(r)
  <2>1. records' \in [Requests -> Nat] /\ spawned' \subseteq Requests
    BY <1>1 DEF Ending
  <2>2. PICK how \in {"refused", "failed", "answered", "streamed", "cancelled"} :
          Ends(r, how)
    BY <1>1 DEF Ending
  <2> QED
    BY <1>0, <2>1, <2>2 DEF Ends, DropAccountPermit
<1>2. CASE FailingOver(r)
  <2>1. account[r] \in Accounts
    BY <1>2 DEF FailingOver, PlaceInv
  <2> QED
    BY <1>0, <1>2, <2>1 DEF FailingOver, NextAccount, DropAccountPermit
<1>3. CASE Going(r)
  BY <1>0, <1>3 DEF Going
<1>4. CASE TakingKey(r)
  BY <1>0, <1>4 DEF TakingKey
<1>5. CASE TakingAccount(r)
  <2>1. attempts[r] + 1 \in 0..AttemptLimit
    BY <1>5, DispatchAssumption DEF TakingAccount, PlaceInv
  <2> QED
    BY <1>0, <1>5, <2>1 DEF TakingAccount
<1> QED
  BY <1>1, <1>2, <1>3, <1>4, <1>5 DEF Kinds

LEMMA SlotStep ==
  ASSUME TypeOK, PlaceInv, SlotsAreHeld, NEW r \in Requests, Kinds(r)
  PROVE  /\ SlotsAreHeld'
         /\ keyInFlight' \in 0..Cardinality(Requests)
         /\ inFlight' \in [Accounts -> 0..AccountLimit]
<1>1. SlotsAreHeld'
  BY KeySlotStep, AccountSlotStep DEF SlotsAreHeld, KeyHolders, Users
<1>2. keyInFlight' \in 0..Cardinality(Requests)
  <2>1. KeyHolders' \in SUBSET Requests
    BY DEF KeyHolders
  <2> QED
    BY <2>1, KeySlotStep, FiniteRequests
<1>3. inFlight' \in [Accounts -> 0..AccountLimit]
  <2>1. inFlight' = [a \in Accounts |-> inFlight'[a]]
    BY DEF Kinds, Ending, Ends, FailingOver, NextAccount, DropAccountPermit,
           Going, TakingKey, TakingAccount, limitVars, TypeOK
  <2>2. \A a \in Accounts : inFlight'[a] \in 0..AccountLimit
    BY AccountSlotStep
  <2> QED
    BY <2>1, <2>2
<1> QED
  BY <1>1, <1>2, <1>3

LEMMA TypeStep ==
  ASSUME TypeOK, PlaceInv, SlotsAreHeld, NEW r \in Requests, RequestStep(r)
  PROVE  TypeOK'
BY StepKinds, RestStep, LoopStep, SlotStep DEF TypeOK, RestOK, LoopOK

Elsewhere == CooldownEnds \/ Reauthorized \/ SessionForgotten \/ UNCHANGED vars

LEMMA ElsewhereStep ==
  ASSUME IInv, Elsewhere
  PROVE  IInv'
<1> USE DEF vars, loopVars, routeVars, limitVars, accountVars, sessionVars, recordVars
<1>1. /\ UNCHANGED <<pc, account, failed, attempts, routes, preferred, end,
                     keyInFlight, inFlight, records, spawned>>
      /\ cooling' \subseteq Accounts /\ authError' \subseteq Accounts
      /\ affinity' \in Accounts \cup {NoAccount} /\ blocked' \in BOOLEAN
  BY DEF Elsewhere, CooldownEnds, Reauthorized, SessionForgotten, IInv, TypeOK
<1>2. TypeOK'
  BY <1>1 DEF IInv, TypeOK
<1>3. PlaceInv' /\ RecordedOnce'
  BY <1>1 DEF IInv, PlaceInv, RecordedOnce
<1>4. EachAttemptAnotherAccount' /\ SlotsAreHeld'
  BY <1>1 DEF IInv, EachAttemptAnotherAccount, SlotsAreHeld, InAttempt, HoldsAccount,
              HoldsKey
<1> QED
  BY <1>2, <1>3, <1>4 DEF IInv

LEMMA SpawnedStep ==
  ASSUME IInv, NEW r \in Requests, SpawnedRecord(r)
  PROVE  IInv'
<1> USE DEF loopVars, routeVars, limitVars, accountVars, sessionVars
<1>1. /\ UNCHANGED <<pc, account, failed, attempts, routes, preferred, end,
                     keyInFlight, inFlight, cooling, authError, affinity, blocked>>
      /\ r \in spawned /\ spawned' = spawned \ {r}
      /\ records' = [records EXCEPT ![r] = records[r] + 1]
      /\ records \in [Requests -> Nat]
  BY DEF SpawnedRecord, IInv, TypeOK
<1>2. TypeOK'
  BY <1>1 DEF IInv, TypeOK
<1>3. PlaceInv'
  BY <1>1 DEF IInv, PlaceInv
<1>4. RecordedOnce'
  <2> SUFFICES ASSUME NEW q \in Requests
               PROVE  records'[q] + (IF q \in spawned' THEN 1 ELSE 0)
                        = IF end[q] \in {"answered", "streamed"} THEN 1 ELSE 0
    BY <1>1 DEF RecordedOnce
  <2>1. records[q] + (IF q \in spawned THEN 1 ELSE 0)
          = IF end[q] \in {"answered", "streamed"} THEN 1 ELSE 0
    BY DEF IInv, RecordedOnce
  <2> QED
    BY <1>1, <2>1
<1>5. EachAttemptAnotherAccount' /\ SlotsAreHeld'
  BY <1>1 DEF IInv, EachAttemptAnotherAccount, SlotsAreHeld, InAttempt, HoldsAccount,
              HoldsKey
<1> QED
  BY <1>2, <1>3, <1>4, <1>5 DEF IInv

--------------------------------------------------------------------------------
(* The theorems. *)

LEMMA Invariant == Spec => []IInv
<1>1. ASSUME Init
      PROVE  IInv
  <2>1. Cardinality({}) = 0 /\ Cardinality(Requests) \in Nat
    BY DispatchAssumption, FS_EmptySet, FS_CardinalityType
  <2>2. TypeOK
    <3>1. /\ 0 \in 0..Cardinality(Requests) /\ 0 \in 0..AccountLimit
          /\ 0 \in 0..AttemptLimit
      BY <2>1, DispatchAssumption
    <3> QED
      BY <1>1, <3>1 DEF Init, TypeOK, Pcs
  <2>3. PlaceInv /\ RecordedOnce
    BY <1>1, DispatchAssumption
    DEF Init, PlaceInv, RecordedOnce, Starting, Trying, Streaming
  <2>4. EachAttemptAnotherAccount
    BY <1>1 DEF Init, EachAttemptAnotherAccount, InAttempt, HoldsAccount
  <2>5. SlotsAreHeld
    <3>1. {r \in Requests : HoldsKey(r)} = {}
      BY <1>1 DEF Init, HoldsKey, HoldsAccount
    <3>2. \A a \in Accounts : {r \in Requests : account[r] = a} = {}
      BY <1>1, DispatchAssumption DEF Init
    <3> QED
      BY <1>1, <2>1, <3>1, <3>2 DEF Init, SlotsAreHeld
  <2> QED
    BY <2>2, <2>3, <2>4, <2>5 DEF IInv
<1>2. IInv /\ [Next]_vars => IInv'
  <2> SUFFICES ASSUME IInv, [Next]_vars
               PROVE  IInv'
    OBVIOUS
  <2>1. ASSUME NEW r \in Requests, RequestStep(r)
        PROVE  IInv'
    BY <2>1, StepKinds, TypeStep, PlaceStep, AttemptStep, SlotStep, RecordStep DEF IInv
  <2>2. ASSUME NEW r \in Requests, SpawnedRecord(r)
        PROVE  IInv'
    BY <2>2, SpawnedStep
  <2>3. CASE Elsewhere
    BY <2>3, ElsewhereStep
  <2> QED
    BY <2>1, <2>2, <2>3 DEF Next, RequestStep, Elsewhere
<1> QED
  BY <1>1, <1>2, PTL DEF Spec

(* Every variable keeps its type; in particular no account is used beyond its
   limit, and no request makes more attempts than its limit (dispatch_codex_proxy,
   RequestLimiter). *)
THEOREM TypeCorrect == Spec => []TypeOK
<1>1. IInv => TypeOK
  BY DEF IInv
<1> QED
  BY <1>1, Invariant, PTL

(* The failover loop of dispatch_codex_proxy never tries an account twice. *)
THEOREM AttemptsDiffer == Spec => []EachAttemptAnotherAccount
<1>1. IInv => EachAttemptAnotherAccount
  BY DEF IInv
<1> QED
  BY <1>1, Invariant, PTL

(* The limiter's counters are the permits held, over every failover, early
   return, stream and disconnect (LimitPermit::drop). *)
THEOREM SlotsHeld == Spec => []SlotsAreHeld
<1>1. IInv => SlotsAreHeld
  BY DEF IInv
<1> QED
  BY <1>1, Invariant, PTL

(* Usage is recorded at most once for a request, and exactly once if it was
   answered or its stream polled (CodexStreamRecordGuard). *)
THEOREM Recorded == Spec => []RecordedOnce
<1>1. IInv => RecordedOnce
  BY DEF IInv
<1> QED
  BY <1>1, Invariant, PTL
================================================================================
