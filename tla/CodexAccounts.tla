----------------------------- MODULE CodexAccounts -----------------------------
(***************************************************************************)
(* The credentials of one Codex account: refreshing its token under a lock *)
(* of each process, the row and its cached copy, the background check of   *)
(* the account, administrators who write the same row, and whether         *)
(* requests are routed to the account.                                     *)
(*                                                                         *)
(* A token is a generation: the provider exchanges the newest refresh      *)
(* token, once, for the next generation.  A step ends at every await that  *)
(* another task could use.                                                 *)
(***************************************************************************)
EXTENDS Integers

CONSTANTS
  Nodes,         (* processes that share the database and Valkey            *)
  CheckNode,     (* the one whose role runs the status scheduler            *)
  Requests,      (* request handlers                                        *)
  Check,         (* the check of the account's usage                        *)
  Admin,         (* an administrator's call                                 *)
  NoEntry,
  MaxGeneration, (* bound: tokens issued; the last one stays good           *)
  MaxFailures,   (* bound: crashes and failing calls                        *)
  MaxAdminCalls  (* bound: administrators' calls                            *)

ASSUME AccountsAssumption ==
  /\ CheckNode \in Nodes
  /\ Check # Admin /\ Check \notin Requests /\ Admin \notin Requests
  /\ {MaxGeneration, MaxFailures, MaxAdminCalls} \subseteq Nat
  /\ MaxGeneration >= 1

Tasks == Requests \cup {Check, Admin}
Generations == 1..MaxGeneration

VARIABLES
  row,        (* llm_codex_accounts: the account                            *)
  cached,     (* its entries in Valkey, while they differ from the row      *)
  fill,       (* a row read for them before the last write, not stored yet  *)
  issued,     (* the provider: newest generation                            *)
  access,     (* the provider: what each access token is worth              *)
  locks,      (* REFRESH_LOCKS of each process: who is in the section       *)
  pc, node,   (* where each task is, and in which process                   *)
  have,       (* the generation in the route it was given                   *)
  force,      (* force_refresh                                              *)
  using,      (* the generation of its CodexCallContext                     *)
  work,       (* the update it is about to save                             *)
  rec,        (* the row save_codex_auth_update and its like have read      *)
  status,     (* usage_error_message in the public status snapshot          *)
  result,     (* what the running check found                               *)
  misled,     (* history: tasks in a section whose reload was out of date   *)
  overtaken,  (* history: ... or during which another process wrote         *)
  failures, adminCalls

rowVars == <<row, cached, fill>>
providerVars == <<issued, access>>
lockVars == <<locks, misled, overtaken>>
taskVars == <<pc, node, have, force, using, work, rec>>
statusVars == <<status, result>>
bounds == <<failures, adminCalls>>
vars == <<rowVars, providerVars, lockVars, taskVars, statusVars, bounds>>

Errors == {"none", "transient", "terminal"}

(* stamp: last_refresh_at_ms, as far as it is compared: 0 before the check
   that the snapshot shows, 1 after it, 2 after the running check began.     *)
Rows == [gen : Generations, err : Errors, enabled : BOOLEAN, stamp : 0..2]

(* set: the fields of the row the update is about. *)
Updates == [set : {"auth", "disable", "toggle"}, gen : Generations, err : Errors]
NoUpdate == [set |-> "auth", gen |-> 1, err |-> "none"]

InSection(p) == p \in locks[node[p]]

TypeOK ==
  /\ row \in Rows /\ cached \in Rows \cup {NoEntry} /\ fill \in Rows \cup {NoEntry}
  /\ issued \in Generations /\ row.gen <= issued
  /\ access \in [Generations -> {"good", "rejected", "expired"}]
  /\ locks \in [Nodes -> SUBSET Tasks]
  /\ \A n \in Nodes : \A p, q \in locks[n] : p = q
  /\ pc \in [Tasks -> {"idle", "call", "lock", "refresh", "read", "write",
                       "fallback", "publish"}]
  /\ \A p \in Tasks : InSection(p) => pc[p] \in {"refresh", "read", "write"}
  /\ node \in [Tasks -> Nodes]
  /\ have \in [Tasks -> Generations] /\ using \in [Tasks -> Generations]
  /\ force \in [Tasks -> BOOLEAN]
  /\ work \in [Tasks -> Updates] /\ rec \in [Tasks -> Rows \cup {NoEntry}]
  /\ status \in {"none", "transient", "terminal"} /\ result \in Errors
  /\ misled \subseteq Tasks /\ overtaken \subseteq Tasks
  /\ failures \in 0..MaxFailures /\ adminCalls \in 0..MaxAdminCalls

Init ==
  /\ row \in {[gen |-> 1, err |-> "none", enabled |-> e, stamp |-> 0] : e \in BOOLEAN}
  /\ cached = NoEntry /\ fill = NoEntry
  /\ issued = 1 /\ access = [g \in Generations |-> "good"]
  /\ locks = [n \in Nodes |-> {}] /\ misled = {} /\ overtaken = {}
  /\ pc = [p \in Tasks |-> "idle"] /\ node = [p \in Tasks |-> CheckNode]
  /\ have = [p \in Tasks |-> 1] /\ using = [p \in Tasks |-> 1]
  /\ force = [p \in Tasks |-> FALSE]
  /\ work = [p \in Tasks |-> NoUpdate] /\ rec = [p \in Tasks |-> NoEntry]
  /\ status \in {"none", "transient"} /\ result = "none"
  /\ failures = 0 /\ adminCalls = 0

--------------------------------------------------------------------------------
(* Reading the account, and routing. *)

Expired(g) == access[g] = "expired"

(* resolve_codex_account_route.  Without an entry, or with one that is as the
   row, the row answers. *)
Entry == IF cached # NoEntry THEN cached ELSE row

(* codex_local_auth_error_message *)
LocalError(r) ==
  IF r.enabled THEN r.err
  ELSE IF ~Expired(r.gen) THEN "none"
  ELSE IF r.err # "none" THEN r.err ELSE "terminal"

(* codex_cached_error_message: what the snapshot says; without an error there
   the row's own, if it is newer than the check. *)
CachedError(r) ==
  IF status # "none" THEN status
  ELSE IF r.stamp > 0 THEN LocalError(r)
  ELSE IF ~r.enabled /\ Expired(r.gen) THEN "terminal" ELSE "none"

(* select_codex_route_with_account_permit passes over terminal errors. *)
Routable == CachedError(Entry) # "terminal"

--------------------------------------------------------------------------------
(* The end of a task, and of a section.  Locals are reset when a task ends.  *)

Leaves(p) ==
  /\ locks' = [n \in Nodes |-> locks[n] \ {p}]
  /\ misled' = misled \ {p} /\ overtaken' = overtaken \ {p}

Ends(p, found) ==
  /\ pc' = [pc EXCEPT ![p] = IF p = Check THEN "publish" ELSE "idle"]
  /\ result' = IF p = Check THEN found ELSE result
  /\ have' = [have EXCEPT ![p] = 1] /\ using' = [using EXCEPT ![p] = 1]
  /\ force' = [force EXCEPT ![p] = FALSE]
  /\ work' = [work EXCEPT ![p] = NoUpdate]
  /\ rec' = [rec EXCEPT ![p] = NoEntry]
  /\ node' = [node EXCEPT ![p] = CheckNode]
  /\ UNCHANGED status

Fails == failures < MaxFailures /\ failures' = failures + 1

(* A task calls with the token it has, or goes for a fresh one. *)
GoesWith(p, g) ==
  /\ pc' = [pc EXCEPT ![p] = "call"]
  /\ using' = [using EXCEPT ![p] = g]

Saves(p, update) ==
  /\ pc' = [pc EXCEPT ![p] = "read"]
  /\ work' = [work EXCEPT ![p] = update]

AuthUpdate(g, e) == [set |-> "auth", gen |-> g, err |-> e]

--------------------------------------------------------------------------------
(* ensure_context_for_route *)

(* The route a request is given comes from the entries, that of a check from
   the row (resolve_admin_codex_account_route). *)
Begin(p, n) ==
  /\ pc[p] = "idle" /\ p # Admin
  /\ p = Check => n = CheckNode
  /\ p # Check => Routable
  /\ LET route == IF p = Check THEN row ELSE Entry
     IN  /\ have' = [have EXCEPT ![p] = route.gen]
         /\ IF Expired(route.gen)
            THEN pc' = [pc EXCEPT ![p] = "lock"] /\ UNCHANGED using
            ELSE GoesWith(p, route.gen)
  /\ node' = [node EXCEPT ![p] = n]
  /\ UNCHANGED <<providerVars, lockVars, force, work, statusVars, bounds>>

(* The clock of stamps moves with the checks: see Rows. *)
Restamped(r, from) ==
  IF r # NoEntry /\ r.stamp = from THEN [r EXCEPT !.stamp = from - 1] ELSE r

RestampAll(from) ==
  /\ row' = Restamped(row, from)
  /\ cached' = Restamped(cached, from) /\ fill' = Restamped(fill, from)
  /\ rec' = [p \in Tasks |-> Restamped(rec[p], from)]

BeginRequest(r, n) == Begin(r, n) /\ UNCHANGED <<rowVars, rec>>
BeginCheck == Begin(Check, CheckNode) /\ RestampAll(2)

(* Mutant: the route the task was given is not read again.                   *)
ReloadedNothing(p) == [Entry EXCEPT !.gen = have[p]]

Reloaded(p) == Entry

(* Mutant: the lock is not waited for.                                       *)
LockIsFreeAlways(p) == TRUE

LockIsFree(p) == locks[node[p]] = {}

(* The lock, and what the account is now.  Somebody may have refreshed it. *)
Lock(p) ==
  /\ pc[p] = "lock" /\ LockIsFree(p)
  /\ LET latest == Reloaded(p)
         enters == /\ locks' = [locks EXCEPT ![node[p]] = @ \cup {p}]
                   /\ misled' = IF cached # NoEntry /\ cached.gen < row.gen
                                THEN misled \cup {p} ELSE misled
                   /\ UNCHANGED overtaken
     IN  \/ /\ ~Expired(latest.gen)
            /\ force[p] => latest.gen # have[p]
            /\ GoesWith(p, latest.gen)
            /\ UNCHANGED <<lockVars, work>>
         \/ /\ Expired(latest.gen) \/ (force[p] /\ latest.gen = have[p])
            /\ ~latest.enabled
            /\ Saves(p, AuthUpdate(latest.gen,
                 IF Expired(latest.gen) THEN "terminal" ELSE "transient"))
            /\ enters
            /\ UNCHANGED using
         \/ /\ Expired(latest.gen) \/ (force[p] /\ latest.gen = have[p])
            /\ latest.enabled
            /\ pc' = [pc EXCEPT ![p] = "refresh"]
            /\ using' = [using EXCEPT ![p] = latest.gen]
            /\ enters
            /\ UNCHANGED work
  /\ UNCHANGED <<rowVars, providerVars, node, have, force, rec, statusVars, bounds>>

(* refresh_auth: the newest token is exchanged, an older one was used before;
   the request or its answer may be lost.  A call that fails is saved with the
   old token; an administrator's is not. *)
Refresh(p) ==
  /\ pc[p] = "refresh"
  /\ \/ /\ using[p] = issued /\ issued < MaxGeneration
        /\ issued' = issued + 1
        /\ Saves(p, AuthUpdate(issued + 1, "none"))
        /\ UNCHANGED <<node, have, force, using, rec, statusVars, failures>>
     \/ /\ IF using[p] = issued THEN Fails ELSE UNCHANGED failures
        /\ issued' \in {issued} \cup
             (IF using[p] = issued THEN {issued + 1} \cap Generations ELSE {})
        /\ IF p = Admin
           THEN Ends(p, "transient")
           ELSE /\ Saves(p, AuthUpdate(using[p],
                     IF using[p] = issued THEN "transient" ELSE "terminal"))
                /\ UNCHANGED <<node, have, force, using, rec, statusVars>>
  /\ UNCHANGED <<rowVars, access, lockVars, adminCalls>>

--------------------------------------------------------------------------------
(* save_codex_auth_update, set_codex_account_auto_refresh_enabled and
   patch_admin_codex_account: read the row, change it, write all of it back. *)

Updated(r, u) ==
  CASE u.set = "auth" ->
         [gen |-> u.gen, err |-> u.err, enabled |-> r.enabled, stamp |-> 2]
    [] u.set = "disable" -> [r EXCEPT !.enabled = FALSE]
    [] u.set = "toggle" -> [r EXCEPT !.enabled = ~@]

ReadRow(p) ==
  /\ pc[p] = "read"
  /\ work[p].set = "disable" => row.enabled
  /\ pc' = [pc EXCEPT ![p] = "write"]
  /\ rec' = [rec EXCEPT ![p] = Updated(row, work[p])]
  /\ UNCHANGED <<rowVars, providerVars, lockVars, node, have, force, using, work,
                 statusVars, bounds>>

(* Refreshing is off already: nothing to write. *)
DisabledAlready ==
  /\ pc[Check] = "read" /\ work[Check].set = "disable" /\ ~row.enabled
  /\ Ends(Check, "none")
  /\ UNCHANGED <<rowVars, providerVars, lockVars, bounds>>

(* A section of which another process, or a write outside any section, has
   changed the row. *)
Overtakes(p) ==
  {q \in Tasks : InSection(q) /\ ~(InSection(p) /\ node[p] = node[q])}

(* What follows a save: a call with the new token; or the error, which a check
   that was forced may work around. *)
AfterSave(p, saved) ==
  \/ /\ work[p].set = "auth" /\ work[p].err = "none" /\ saved /\ p # Admin
     /\ GoesWith(p, work[p].gen)
     /\ work' = [work EXCEPT ![p] = NoUpdate] /\ rec' = [rec EXCEPT ![p] = NoEntry]
     /\ UNCHANGED <<node, have, force, statusVars>>
  \/ /\ work[p].err = "terminal" /\ p = Check /\ force[p]
     /\ pc' = [pc EXCEPT ![p] = "fallback"]
     /\ work' = [work EXCEPT ![p] = NoUpdate] /\ rec' = [rec EXCEPT ![p] = NoEntry]
     /\ UNCHANGED <<node, have, force, using, statusVars>>
  \/ /\ work[p].err # "none" /\ ~(work[p].err = "terminal" /\ p = Check /\ force[p])
     /\ Ends(p, work[p].err)
  \/ /\ work[p].err = "none" /\ (work[p].set # "auth" \/ ~saved \/ p = Admin)
     /\ Ends(p, IF work[p].set = "auth" THEN "transient" ELSE "none")

(* The entries are deleted behind the write, if Valkey answers; a reader that
   has missed them before may still store what it read. *)
Write(p) ==
  /\ pc[p] = "write"
  /\ row' = rec[p]
  /\ \/ cached' = NoEntry /\ UNCHANGED <<fill, failures>>
     \/ cached' = Entry /\ UNCHANGED fill /\ Fails
     \/ cached' = NoEntry /\ fill' = row /\ Fails
  /\ AfterSave(p, TRUE)
  /\ locks' = [n \in Nodes |-> locks[n] \ {p}]
  /\ misled' = misled \ {p}
  /\ overtaken' = (overtaken \cup Overtakes(p)) \ {p}
  /\ UNCHANGED <<providerVars, adminCalls>>

(* A refreshed token that cannot be saved is lost.  The error of saving an
   error is only logged. *)
SaveFails(p) ==
  /\ pc[p] \in {"read", "write"} /\ Fails
  /\ AfterSave(p, FALSE)
  /\ Leaves(p)
  /\ UNCHANGED <<rowVars, providerVars, adminCalls>>

--------------------------------------------------------------------------------
(* The call itself: a request to the upstream, or the check's usage query.   *)

CallSucceeds(p) ==
  /\ pc[p] = "call" /\ access[using[p]] = "good"
  /\ Ends(p, "none")
  /\ UNCHANGED <<rowVars, providerVars, lockVars, bounds>>

(* 401, now and then (bound: not for the last token) with a good token: once
   more with a forced refresh.  After that a request saves the error, outside
   of any section, over the token it finds then. *)
Unauthorized(p) ==
  /\ pc[p] = "call"
  /\ IF access[using[p]] = "good" THEN using[p] < MaxGeneration /\ Fails
                                   ELSE UNCHANGED failures
  /\ \/ /\ ~force[p]
        /\ force' = [force EXCEPT ![p] = TRUE]
        /\ pc' = [pc EXCEPT ![p] = "lock"]
        /\ UNCHANGED <<node, have, using, work, rec, statusVars>>
     \/ /\ force[p] /\ p # Check
        /\ Saves(p, AuthUpdate(Entry.gen, "terminal"))
        /\ UNCHANGED <<node, have, force, using, rec, statusVars>>
     \/ force[p] /\ p = Check /\ Ends(p, "transient")
  /\ UNCHANGED <<rowVars, providerVars, lockVars, adminCalls>>

(* Network, database and proxy errors. *)
CallFails(p) ==
  /\ pc[p] \in {"call", "lock", "fallback"} /\ Fails
  /\ Ends(p, "transient")
  /\ UNCHANGED <<rowVars, providerVars, lockVars, adminCalls>>

(* The forced refresh failed for good: the access token may still work, and
   then refreshing is switched off. *)
Fallback ==
  /\ pc[Check] = "fallback"
  /\ \/ access[Entry.gen] = "good"
        /\ Saves(Check, [NoUpdate EXCEPT !.set = "disable"])
        /\ UNCHANGED <<node, have, force, using, rec, statusVars>>
     \/ access[Entry.gen] # "good" /\ Ends(Check, "terminal")
  /\ UNCHANGED <<rowVars, providerVars, lockVars, bounds>>

--------------------------------------------------------------------------------
(* The snapshot. *)

(* Mutant: a terminal error stays in the snapshot.                           *)
MergedKeepingTerminal ==
  IF status = "terminal" \/ (status = "none" /\ result = "transient")
  THEN status ELSE result

(* merge_background_refresh_result: a good snapshot survives an error that is
   not terminal. *)
Merged ==
  IF status = "none" /\ result = "transient" THEN "none" ELSE result

(* The scheduler merges, an administrator's check does not. *)
Publish ==
  /\ pc[Check] = "publish"
  /\ status' \in {Merged, result}
  /\ pc' = [pc EXCEPT ![Check] = "idle"]
  /\ result' = "none"
  /\ RestampAll(1)
  /\ UNCHANGED <<providerVars, lockVars, node, have, force, using, work, bounds>>

--------------------------------------------------------------------------------
(* Administrators: refreshing the token without the lock, switching its
   refresh on or off. *)

AdminCalls ==
  /\ pc[Admin] = "idle" /\ adminCalls < MaxAdminCalls
  /\ adminCalls' = adminCalls + 1
  /\ \/ /\ pc' = [pc EXCEPT ![Admin] = "refresh"]
        /\ using' = [using EXCEPT ![Admin] = row.gen]
        /\ UNCHANGED work
     \/ Saves(Admin, [NoUpdate EXCEPT !.set = "toggle"]) /\ UNCHANGED using
  /\ UNCHANGED <<rowVars, providerVars, lockVars, node, have, force, rec,
                 statusVars, failures>>

(* A refresh the provider has no more tokens for (bound) is given up. *)
AdminGivesUp ==
  /\ pc[Admin] = "refresh" /\ using[Admin] = MaxGeneration
  /\ Ends(Admin, "none")
  /\ UNCHANGED <<rowVars, providerVars, lockVars, bounds>>

--------------------------------------------------------------------------------
(* Tokens, entries, processes. *)

TokenGoesBad ==
  /\ \E g \in 1..(MaxGeneration - 1), to \in {"rejected", "expired"} :
       /\ g <= issued /\ access[g] \notin {to, "expired"}
       /\ access' = [access EXCEPT ![g] = to]
  /\ UNCHANGED <<rowVars, issued, lockVars, taskVars, statusVars, bounds>>

FillWrite ==
  /\ fill # NoEntry
  /\ cached' = fill /\ fill' = NoEntry
  /\ UNCHANGED <<row, providerVars, lockVars, taskVars, statusVars, bounds>>

EntryExpires ==
  /\ cached # NoEntry /\ cached' = NoEntry
  /\ UNCHANGED <<row, fill, providerVars, lockVars, taskVars, statusVars, bounds>>

(* A process dies: its tasks end where they are, its locks are gone. *)
Crash(n) ==
  /\ Fails
  /\ LET dies == {p \in Tasks : pc[p] # "idle" /\ node[p] = n}
         idle(f, v) == [p \in Tasks |-> IF p \in dies THEN v ELSE f[p]]
     IN  /\ dies # {}
         /\ pc' = idle(pc, "idle") /\ node' = idle(node, CheckNode)
         /\ have' = idle(have, 1) /\ using' = idle(using, 1)
         /\ force' = idle(force, FALSE)
         /\ work' = idle(work, NoUpdate) /\ rec' = idle(rec, NoEntry)
         /\ result' = IF Check \in dies THEN "none" ELSE result
         /\ misled' = misled \ dies /\ overtaken' = overtaken \ dies
  /\ locks' = [locks EXCEPT ![n] = {}]
  /\ UNCHANGED <<rowVars, providerVars, status, adminCalls>>

--------------------------------------------------------------------------------
TaskStep(p) ==
  \/ Lock(p) \/ Refresh(p) \/ ReadRow(p) \/ Write(p) \/ SaveFails(p)
  \/ CallSucceeds(p) \/ Unauthorized(p) \/ CallFails(p)

Next ==
  \/ \E p \in Tasks : TaskStep(p)
  \/ \E r \in Requests, n \in Nodes : BeginRequest(r, n)
  \/ BeginCheck \/ Fallback \/ DisabledAlready \/ Publish
  \/ AdminCalls \/ AdminGivesUp
  \/ TokenGoesBad \/ FillWrite \/ EntryExpires
  \/ \E n \in Nodes : Crash(n)

Spec == Init /\ [][Next]_vars

(* Tasks that run go on, tokio's mutex serves its waiters in turn, the scheduler
   checks again and again, entries expire.  No request, no administrator and no
   failure is owed. *)
FairSpec ==
  /\ Spec
  /\ \A p \in Tasks : WF_vars(TaskStep(p)) /\ SF_vars(Lock(p))
  /\ WF_vars(BeginCheck) /\ WF_vars(Publish)
  /\ WF_vars(Fallback) /\ WF_vars(DisabledAlready)
  /\ WF_vars(AdminGivesUp) /\ WF_vars(FillWrite) /\ WF_vars(EntryExpires)

--------------------------------------------------------------------------------
(* A write in the section never puts an older token over a newer one, the
   only copy of a refresh token that still works: the lock and the reload see
   to that within a process.  The exceptions are a reload that was answered
   by an entry older than the row, and writers the lock does not keep out:
   those of other processes, administrators, and requests that save a 401. *)
RefreshKeepsNewerToken ==
  [][\A p \in Tasks :
       Write(p) /\ InSection(p) /\ row'.gen < row.gen
         => p \in misled \cup overtaken]_vars

UsableToken == access[row.gen] = "good"

(* A token that cannot be used and not be refreshed: its refresh token was
   exchanged and the new one is lost; or it is expired with refreshing off.  *)
DeadToken ==
  \/ access[row.gen] # "good" /\ row.enabled /\ row.gen < issued
  \/ access[row.gen] = "expired" /\ (row.enabled => row.gen < issued)

(* Routing follows the token in the end: an account whose token stays usable is
   not blocked for ever by errors of the past, and one whose token stays dead
   does not take requests for ever. *)
RoutingFollowsToken ==
  /\ <>[]UsableToken => <>[]Routable
  /\ <>[]DeadToken => <>[]~Routable
================================================================================
