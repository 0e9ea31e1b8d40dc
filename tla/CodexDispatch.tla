------------------------------ MODULE CodexDispatch -----------------------------
(***************************************************************************)
(* Dispatch of the requests of one Codex session to upstream accounts:     *)
(* the key's and the accounts' request limits, cooldowns, failover, session *)
(* affinity and rejection, streaming, and the usage record of each request. *)
(*                                                                         *)
(* A step ends at every await of dispatch_codex_proxy.  What the upstream  *)
(* and the client do is chosen freely; permits and the stream's record     *)
(* guard act when they are dropped, wherever that is.                      *)
(***************************************************************************)
EXTENDS Integers, FiniteSets

CONSTANTS
  Requests,       (* requests of one session of one key                     *)
  Accounts,       (* the accounts of the key's route                        *)
  KeyLimits,      (* values request_max_concurrency of the key takes        *)
  AccountLimit,   (* account_request_max_concurrency                        *)
  AttemptLimit,   (* account_failure_retry_limit, at least 1                *)
  NoAccount

ASSUME DispatchAssumption ==
  /\ KeyLimits \subseteq Nat \ {0} /\ AccountLimit \in Nat \ {0}
  /\ AttemptLimit \in Nat \ {0}
  /\ IsFiniteSet(Requests) /\ IsFiniteSet(Accounts)
  /\ Accounts # {} /\ NoAccount \notin Accounts

VARIABLES
  pc,           (* where each request is                                    *)
  account,      (* the account whose permit it holds                        *)
  failed,       (* failed_accounts                                          *)
  attempts,     (* attempt_count                                            *)
  routes,       (* accounts its routes show with a terminal auth error      *)
  preferred,    (* preferred_account_name                                   *)
  end,          (* how it ended                                             *)
  keyInFlight,  (* RequestLimiter: in_flight of the key's scope             *)
  inFlight,     (* and of each account's                                    *)
  cooling,      (* CodexAccountCooldowns                                    *)
  authError,    (* accounts with a persisted terminal auth error            *)
  affinity,     (* CodexSessionAffinity entry of the session                *)
  blocked,      (* CodexSessionRejection entry of the session               *)
  records,      (* usage records of each request                            *)
  spawned       (* requests whose dropped guard spawned a record            *)

loopVars == <<failed, attempts>>
routeVars == <<routes, preferred>>
limitVars == <<keyInFlight, inFlight>>
accountVars == <<cooling, authError>>
sessionVars == <<affinity, blocked>>
recordVars == <<records, spawned>>
vars == <<pc, account, loopVars, routeVars, end, limitVars, accountVars,
          sessionVars, recordVars>>

(* "recording": record_codex_usage is awaited by the handler; "ready": the
   response is returned and its lazy body not polled yet; "finishing":
   finish_success awaits the record. *)
Pcs == {"new", "routed", "select", "attempt", "body", "preflight", "recording",
        "ready", "streaming", "finishing", "done"}

TypeOK ==
  /\ pc \in [Requests -> Pcs]
  /\ account \in [Requests -> Accounts \cup {NoAccount}]
  /\ failed \in [Requests -> SUBSET Accounts]
  /\ attempts \in [Requests -> 0..AttemptLimit]
  /\ routes \in [Requests -> SUBSET Accounts]
  /\ preferred \in [Requests -> Accounts \cup {NoAccount}]
  /\ end \in [Requests -> {"none", "refused", "failed", "answered", "streamed",
                           "cancelled"}]
  /\ keyInFlight \in 0..Cardinality(Requests)
  /\ inFlight \in [Accounts -> 0..AccountLimit]
  /\ cooling \subseteq Accounts /\ authError \subseteq Accounts
  /\ affinity \in Accounts \cup {NoAccount}
  /\ blocked \in BOOLEAN
  /\ records \in [Requests -> Nat]
  /\ spawned \subseteq Requests

Init ==
  /\ pc = [r \in Requests |-> "new"]
  /\ account = [r \in Requests |-> NoAccount]
  /\ failed = [r \in Requests |-> {}]
  /\ attempts = [r \in Requests |-> 0]
  /\ routes = [r \in Requests |-> {}]
  /\ preferred = [r \in Requests |-> NoAccount]
  /\ end = [r \in Requests |-> "none"]
  /\ keyInFlight = 0
  /\ inFlight = [a \in Accounts |-> 0]
  /\ cooling = {} /\ authError = {}
  /\ affinity = NoAccount /\ blocked = FALSE
  /\ records = [r \in Requests |-> 0]
  /\ spawned = {}

--------------------------------------------------------------------------------
(* Permits: RequestLimiter and the Drop of LimitPermit.                      *)

HoldsAccount(r) == account[r] # NoAccount
HoldsKey(r) == pc[r] = "select" \/ HoldsAccount(r)

(* Mutant: the permit goes to the next attempt instead of being dropped.     *)
DropAccountPermitNever(r) ==
  /\ account' = [account EXCEPT ![r] = NoAccount]
  /\ UNCHANGED inFlight

DropAccountPermit(r) ==
  /\ account' = [account EXCEPT ![r] = NoAccount]
  /\ inFlight' = [a \in Accounts |->
                    IF a = account[r] THEN inFlight[a] - 1 ELSE inFlight[a]]

(* Mutant: the key's permit outlives a response without an account.          *)
DropKeyPermitWithAccount(r) ==
  keyInFlight' = IF HoldsAccount(r) THEN keyInFlight - 1 ELSE keyInFlight

DropKeyPermit(r) ==
  keyInFlight' = IF HoldsKey(r) THEN keyInFlight - 1 ELSE keyInFlight

(* The handler returns, or its future or its body is dropped. *)
Ends(r, how) ==
  /\ pc' = [pc EXCEPT ![r] = "done"]
  /\ end' = [end EXCEPT ![r] = how]
  /\ failed' = [failed EXCEPT ![r] = {}]
  /\ attempts' = [attempts EXCEPT ![r] = 0]
  /\ routes' = [routes EXCEPT ![r] = {}]
  /\ preferred' = [preferred EXCEPT ![r] = NoAccount]
  /\ DropAccountPermit(r)
  /\ DropKeyPermit(r)

Goes(r, to) ==
  /\ pc' = [pc EXCEPT ![r] = to]
  /\ UNCHANGED <<account, loopVars, routeVars, end, limitVars>>

--------------------------------------------------------------------------------
(* Up to the account loop. *)

(* resolve_codex_route_candidates: the candidates carry the auth errors known
   now; then the body is read. *)
Arrive(r) ==
  /\ pc[r] = "new"
  /\ pc' = [pc EXCEPT ![r] = "routed"]
  /\ routes' = [routes EXCEPT ![r] = authError]
  /\ UNCHANGED <<account, loopVars, preferred, end, limitVars, accountVars,
                 sessionVars, recordVars>>

(* A blocked session is refused with a usage record, before any permit; a full
   key without one; the limit comes with the routes. *)
Enter(r) ==
  /\ pc[r] = "routed"
  /\ \/ blocked /\ Goes(r, "recording")
     \/ ~blocked /\ (\E n \in KeyLimits : keyInFlight >= n) /\ Ends(r, "refused")
     \/ /\ ~blocked /\ (\E n \in KeyLimits : keyInFlight < n)
        /\ pc' = [pc EXCEPT ![r] = "select"]
        /\ preferred' = [preferred EXCEPT ![r] = affinity]
        /\ keyInFlight' = keyInFlight + 1
        /\ UNCHANGED <<account, loopVars, routes, end, inFlight>>
  /\ UNCHANGED <<accountVars, sessionVars, recordVars>>

(* Neither failed in this request, nor out by its auth error, nor cooling.   *)
Candidates(r) == Accounts \ (failed[r] \cup routes[r] \cup cooling)

Free(a) == inFlight[a] < AccountLimit

(* select_codex_route_with_account_permit: the session's account if it can be
   had; else the order is that of the route, or of the accounts' sessions.  A
   request whose candidates are all full sleeps and looks again: no step. *)
Select(r) ==
  /\ pc[r] = "select"
  /\ \/ \E a \in Candidates(r) :
          /\ Free(a)
          /\ preferred[r] \in Candidates(r) /\ Free(preferred[r])
               => a = preferred[r]
          /\ pc' = [pc EXCEPT ![r] = "attempt"]
          /\ account' = [account EXCEPT ![r] = a]
          /\ inFlight' = [inFlight EXCEPT ![a] = @ + 1]
          /\ attempts' = [attempts EXCEPT ![r] = @ + 1]
          /\ UNCHANGED <<failed, routeVars, end, keyInFlight>>
     \/ Candidates(r) = {} /\ Ends(r, "failed")
  /\ UNCHANGED <<accountVars, sessionVars, recordVars>>

--------------------------------------------------------------------------------
(* One account's attempt. *)

(* Mutant: failing before the upstream answered does not mark the account.   *)
NextAccountAnyway(r) ==
  /\ pc' = [pc EXCEPT ![r] = "select"]
  /\ DropAccountPermit(r)
  /\ UNCHANGED <<loopVars, routeVars, end, keyInFlight>>

(* failed_accounts.insert and continue: the account's permit is dropped, the
   key's is kept. *)
NextAccount(r) ==
  /\ pc' = [pc EXCEPT ![r] = "select"]
  /\ failed' = [failed EXCEPT ![r] = @ \cup {account[r]}]
  /\ DropAccountPermit(r)
  /\ UNCHANGED <<attempts, routeVars, end, keyInFlight>>

(* Mutant: one attempt more than the limit.                                  *)
AttemptsLeftOneMore(r) ==
  attempts[r] <= AttemptLimit

AttemptsLeft(r) == attempts[r] < AttemptLimit

(* has_codex_failover_candidate *)
MayFailOver(r) ==
  AttemptsLeft(r) /\ Accounts \ (failed[r] \cup {account[r]}) # {}

(* The route cannot be hydrated, its token not be had, or the send fails.    *)
TransportFails(r) ==
  /\ pc[r] = "attempt"
  /\ cooling' = cooling \cup {account[r]}
  /\ IF AttemptsLeft(r) THEN NextAccount(r) ELSE Ends(r, "failed")
  /\ UNCHANGED <<authError, sessionVars, recordVars>>

(* 401 or 403 again after a forced refresh: persisted, for later requests.   *)
Unauthorized(r) ==
  /\ pc[r] = "attempt"
  /\ authError' = authError \cup {account[r]}
  /\ cooling' = cooling \cup {account[r]}
  /\ IF MayFailOver(r) THEN NextAccount(r) ELSE Goes(r, "recording")
  /\ UNCHANGED <<sessionVars, recordVars>>

(* codex_error_disposition of an error status, of a completed body or of the
   stream before its first client chunk (classify_codex_upstream_outcome). *)
UpstreamFails(r) ==
  /\ pc[r] \in {"attempt", "body", "preflight"}
  /\ \/ /\ blocked' \in {blocked, TRUE}          \* ReturnToClient
        /\ Goes(r, "recording")
        /\ UNCHANGED cooling
     \/ /\ cooling' = cooling \cup {account[r]}
        /\ IF MayFailOver(r) THEN NextAccount(r) ELSE Goes(r, "recording")
        /\ UNCHANGED blocked
  /\ UNCHANGED <<authError, affinity, recordVars>>

(* A body that breaks off while it is read ends in 502, a request that cannot
   be rewritten for the account in 400: neither leaves a record. *)
ReadFails(r) ==
  /\ pc[r] \in {"attempt", "body"}
  /\ Ends(r, "failed")
  /\ UNCHANGED <<accountVars, sessionVars, recordVars>>

(* 2xx headers. *)
Accepted(r) ==
  /\ pc[r] = "attempt"
  /\ affinity' = account[r]
  /\ \E to \in {"body", "preflight"} : Goes(r, to)
  /\ UNCHANGED <<accountVars, blocked, recordVars>>

BodyComplete(r) ==
  /\ pc[r] = "body"
  /\ Goes(r, "recording")
  /\ UNCHANGED <<accountVars, sessionVars, recordVars>>

(* The response goes out before the call returns. *)
Record(r) ==
  /\ pc[r] = "recording"
  /\ records' = [records EXCEPT ![r] = @ + 1]
  /\ Ends(r, "answered")
  /\ UNCHANGED <<accountVars, sessionVars, spawned>>

--------------------------------------------------------------------------------
(* Streams: the body owns the permits and, once polled, the record guard.    *)

PreflightPasses(r) ==
  /\ pc[r] = "preflight"
  /\ Goes(r, "ready")
  /\ UNCHANGED <<accountVars, sessionVars, recordVars>>

Poll(r) ==
  /\ pc[r] = "ready"
  /\ Goes(r, "streaming")
  /\ UNCHANGED <<accountVars, sessionVars, recordVars>>

StreamEnds(r) ==
  /\ pc[r] = "streaming"
  /\ Goes(r, "finishing")
  /\ UNCHANGED <<accountVars, sessionVars, recordVars>>

(* Mutant: finish_success leaves record_committed unset.                     *)
FinishUncommitted(r) ==
  /\ pc[r] = "finishing"
  /\ records' = [records EXCEPT ![r] = @ + 1]
  /\ spawned' = spawned \cup {r}
  /\ Ends(r, "streamed")
  /\ UNCHANGED <<accountVars, sessionVars>>

(* finish_success: the record is accepted and the guard committed.           *)
Finish(r) ==
  /\ pc[r] = "finishing"
  /\ records' = [records EXCEPT ![r] = @ + 1]
  /\ Ends(r, "streamed")
  /\ UNCHANGED <<accountVars, sessionVars, spawned>>

(* The guard is dropped uncommitted. *)
GuardDropped(r) ==
  /\ spawned' = spawned \cup {r}
  /\ Ends(r, "streamed")
  /\ UNCHANGED <<accountVars, affinity, records>>

(* An error event, which may block the session, or an unreadable one.        *)
StreamBreaks(r) ==
  /\ pc[r] = "streaming"
  /\ blocked' \in {blocked, TRUE}
  /\ GuardDropped(r)

(* The server drops the body, or the handler's future, of a client gone.     *)
Disconnect(r) ==
  \/ /\ pc[r] \in {"streaming", "finishing"}
     /\ GuardDropped(r)
     /\ UNCHANGED blocked
  \/ /\ pc[r] \in Pcs \ {"new", "done", "streaming", "finishing"}
     /\ Ends(r, "cancelled")
     /\ UNCHANGED <<accountVars, sessionVars, recordVars>>

SpawnedRecord(r) ==
  /\ r \in spawned
  /\ spawned' = spawned \ {r}
  /\ records' = [records EXCEPT ![r] = @ + 1]
  /\ UNCHANGED <<pc, account, loopVars, routeVars, end, limitVars, accountVars,
                 sessionVars>>

--------------------------------------------------------------------------------
(* Time, other sessions and the refresher. *)

CooldownEnds ==
  /\ \E a \in cooling : cooling' = cooling \ {a}
  /\ UNCHANGED <<pc, account, loopVars, routeVars, end, limitVars, authError,
                 sessionVars, recordVars>>

(* A token refresh that works clears the error. *)
Reauthorized ==
  /\ \E a \in authError : authError' = authError \ {a}
  /\ UNCHANGED <<pc, account, loopVars, routeVars, end, limitVars, cooling,
                 sessionVars, recordVars>>

(* TTLs, and LRU eviction by other sessions. *)
SessionForgotten ==
  /\ \/ affinity # NoAccount /\ affinity' = NoAccount /\ UNCHANGED blocked
     \/ blocked /\ blocked' = FALSE /\ UNCHANGED affinity
  /\ UNCHANGED <<pc, account, loopVars, routeVars, end, limitVars, accountVars,
                 recordVars>>

--------------------------------------------------------------------------------
UpstreamStep(r) ==
  \/ TransportFails(r) \/ Unauthorized(r) \/ UpstreamFails(r) \/ ReadFails(r)
  \/ Accepted(r) \/ BodyComplete(r) \/ PreflightPasses(r)
  \/ StreamEnds(r) \/ StreamBreaks(r)

HandlerStep(r) == Enter(r) \/ Select(r) \/ Record(r) \/ Poll(r) \/ Finish(r)

Next ==
  \/ \E r \in Requests :
       \/ Arrive(r) \/ HandlerStep(r) \/ UpstreamStep(r)
       \/ Disconnect(r) \/ SpawnedRecord(r)
  \/ CooldownEnds \/ Reauthorized \/ SessionForgotten

Spec == Init /\ [][Next]_vars

(* The handler's own steps and spawned tasks run; an upstream goes on or fails
   in the end.  Neither arrivals nor disconnects are owed. *)
FairSpec ==
  /\ Spec
  /\ \A r \in Requests :
       WF_vars(HandlerStep(r)) /\ WF_vars(UpstreamStep(r)) /\ WF_vars(SpawnedRecord(r))

--------------------------------------------------------------------------------
InAttempt(r) == HoldsAccount(r)

(* Every attempt of a request is on an account it has not failed on, and every
   attempt before it failed on another one: no path of the loop goes on
   without marking its account. *)
EachAttemptAnotherAccount ==
  \A r \in Requests :
    /\ InAttempt(r) => account[r] \notin failed[r]
                       /\ attempts[r] = Cardinality(failed[r]) + 1
    /\ pc[r] = "select" => attempts[r] = Cardinality(failed[r])

(* The limiter counts what is held, no more and no less: over failover, early
   returns, streams and disconnects no slot leaks and none is freed twice. *)
SlotsAreHeld ==
  /\ keyInFlight = Cardinality({r \in Requests : HoldsKey(r)})
  /\ \A a \in Accounts :
       inFlight[a] = Cardinality({r \in Requests : account[r] = a})

(* A request is recorded at most once; exactly once if it was answered from an
   upstream or its stream was ever polled, whoever ended it; and not at all if
   it was refused, cut off before, or failed on every account. *)
RecordedOnce ==
  \A r \in Requests :
    records[r] + (IF r \in spawned THEN 1 ELSE 0)
      = IF end[r] \in {"answered", "streamed"} THEN 1 ELSE 0

(* Once arrived, a request ends, and what its end owes is recorded: none waits
   for a slot no one gives back. *)
EveryRequestEnds ==
  \A r \in Requests : pc[r] = "routed" ~> (pc[r] = "done" /\ r \notin spawned)
================================================================================
