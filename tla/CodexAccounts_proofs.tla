------------------------- MODULE CodexAccounts_proofs --------------------------
(***************************************************************************)
(* Theorems about CodexAccounts, for any number of processes, requests,    *)
(* tokens, failures and administrators' calls.                             *)
(***************************************************************************)
EXTENDS CodexAccounts, TLAPS

--------------------------------------------------------------------------------
(* The inductive invariant. *)

(* No copy of a token is newer than what the provider issued. *)
Bounded ==
  /\ cached # NoEntry => cached.gen <= issued
  /\ fill # NoEntry => fill.gen <= issued
  /\ \A p \in Tasks :
       /\ using[p] <= issued /\ work[p].gen <= issued
       /\ pc[p] = "write" => rec[p] \in Rows /\ rec[p].gen <= issued

(* Who is in a section: a task of that process, on its way from a reload to the
   write of a token. *)
Sections ==
  /\ \A n \in Nodes : \A p \in locks[n] :
       /\ node[p] = n /\ p # Admin
       /\ pc[p] \in {"refresh", "read", "write"}
       /\ pc[p] # "refresh" => work[p].set = "auth"
  /\ pc[Admin] \in {"idle", "refresh", "read", "write"}

(* The generation a task in a section is about to write. *)
Carries(p) ==
  CASE pc[p] = "refresh" -> using[p]
    [] pc[p] = "read" -> work[p].gen
    [] pc[p] = "write" -> rec[p].gen

(* Unless it was misled or overtaken, it is not older than the row's. *)
CarriesNewest ==
  \A p \in Tasks :
    InSection(p) /\ p \notin misled \cup overtaken => Carries(p) >= row.gen

IInv == TypeOK /\ Bounded /\ Sections /\ CarriesNewest

--------------------------------------------------------------------------------
(* The operators. *)

LEMMA EntryType ==
  ASSUME IInv
  PROVE  Entry \in Rows /\ Entry.gen \in Generations /\ Entry.gen <= issued
BY DEF IInv, TypeOK, Bounded, Entry, Rows

LEMMA RestampedType ==
  ASSUME NEW r \in Rows \cup {NoEntry}, NEW from \in 1..2
  PROVE  /\ Restamped(r, from) \in Rows \cup {NoEntry}
         /\ r \in Rows => Restamped(r, from) \in Rows /\ Restamped(r, from).gen = r.gen
         /\ r = NoEntry => Restamped(r, from) = NoEntry
<1>1. CASE r # NoEntry /\ r.stamp = from
  <2>1. r \in Rows /\ from - 1 \in 0..2
    BY <1>1
  <2>2. Restamped(r, from) = [r EXCEPT !.stamp = from - 1]
    BY <1>1 DEF Restamped
  <2> QED
    BY <1>1, <2>1, <2>2 DEF Rows
<1>2. CASE ~(r # NoEntry /\ r.stamp = from)
  BY <1>2 DEF Restamped
<1> QED
  BY <1>1, <1>2

LEMMA UpdatedType ==
  ASSUME NEW r \in Rows, NEW u \in Updates
  PROVE  /\ Updated(r, u) \in Rows
         /\ Updated(r, u).gen = IF u.set = "auth" THEN u.gen ELSE r.gen
<1>1. CASE u.set = "auth"
  BY <1>1 DEF Updated, Rows, Updates
<1>2. CASE u.set = "disable"
  BY <1>2 DEF Updated, Rows, Updates
<1>3. CASE u.set = "toggle"
  BY <1>3 DEF Updated, Rows, Updates
<1> QED
  BY <1>1, <1>2, <1>3 DEF Updates

LEMMA NoUpdateType ==
  /\ NoUpdate \in Updates /\ NoUpdate.set = "auth" /\ NoUpdate.gen = 1
  /\ [NoUpdate EXCEPT !.set = "disable"] \in Updates
  /\ [NoUpdate EXCEPT !.set = "disable"].gen = 1
  /\ [NoUpdate EXCEPT !.set = "toggle"] \in Updates
  /\ [NoUpdate EXCEPT !.set = "toggle"].gen = 1
BY AccountsAssumption DEF NoUpdate, Updates, Generations, Errors

LEMMA AuthUpdateType ==
  ASSUME NEW g \in Generations, NEW e \in Errors
  PROVE  /\ AuthUpdate(g, e) \in Updates
         /\ AuthUpdate(g, e).set = "auth" /\ AuthUpdate(g, e).gen = g
BY DEF AuthUpdate, Updates

LEMMA EndsEffect ==
  ASSUME IInv, NEW p \in Tasks, NEW e \in Errors, Ends(p, e)
  PROVE  /\ pc' = [pc EXCEPT ![p] = IF p = Check THEN "publish" ELSE "idle"]
         /\ have' \in [Tasks -> Generations] /\ force' \in [Tasks -> BOOLEAN]
         /\ using' = [using EXCEPT ![p] = 1]
         /\ work' = [work EXCEPT ![p] = NoUpdate]
         /\ rec' = [rec EXCEPT ![p] = NoEntry]
         /\ node' = [node EXCEPT ![p] = CheckNode]
         /\ status' = status /\ result' \in Errors
         /\ 1 \in Generations /\ 1 <= issued /\ CheckNode \in Nodes
  BY AccountsAssumption DEF Ends, IInv, TypeOK, Generations

(* The provider's counter may grow under all that is bounded by it. *)
LEMMA BoundsKept ==
  ASSUME IInv, UNCHANGED rowVars, issued' \in Generations, issued' >= issued
  PROVE  /\ row'.gen <= issued'
         /\ cached' # NoEntry => cached'.gen <= issued'
         /\ fill' # NoEntry => fill'.gen <= issued'
         /\ \A q \in Tasks :
              /\ using[q] <= issued' /\ work[q].gen <= issued'
              /\ pc[q] = "write" => rec[q] \in Rows /\ rec[q].gen <= issued'
BY SMTT(40) DEF IInv, TypeOK, Bounded, Generations, Rows, Updates, rowVars

(* A step that ends a task outside of any section. *)
LEMMA EndingKeeps ==
  ASSUME IInv, NEW p \in Tasks, NEW e \in Errors, Ends(p, e),
         pc[p] # "idle", p = Admin \/ pc[p] \notin {"refresh", "read", "write"}
                         \/ (p = Check /\ work[p].set # "auth" /\ pc[p] = "read"),
         UNCHANGED <<rowVars, lockVars, access, adminCalls>>,
         issued' \in Generations /\ issued' >= issued,
         failures' \in 0..MaxFailures
  PROVE  IInv'
<1>1. \A n \in Nodes : p \notin locks[n]
  BY DEF IInv, Sections
<1> DEFINE c == IF p = Check THEN "publish" ELSE "idle"
<1>2. p = Admin => c = "idle"
  BY AccountsAssumption
<1>3. /\ pc' = [pc EXCEPT ![p] = c] /\ c \in {"publish", "idle"}
      /\ have' \in [Tasks -> Generations] /\ force' \in [Tasks -> BOOLEAN]
      /\ using' = [using EXCEPT ![p] = 1]
      /\ work' = [work EXCEPT ![p] = NoUpdate]
      /\ rec' = [rec EXCEPT ![p] = NoEntry]
      /\ node' = [node EXCEPT ![p] = CheckNode]
      /\ status' = status /\ result' \in Errors
      /\ 1 \in Generations /\ 1 <= issued /\ CheckNode \in Nodes
  BY EndsEffect
<1> HIDE DEF c
<1>4. 1 <= issued'
  BY <1>3 DEF IInv, TypeOK, Generations
<1>5. TypeOK'
  BY <1>1, <1>2, <1>3, <1>4, BoundsKept, NoUpdateType, SMTT(40)
     DEF IInv, TypeOK, Bounded, Sections, InSection, Generations, rowVars,
         lockVars
<1>6. Bounded'
  BY <1>1, <1>2, <1>3, <1>4, BoundsKept, NoUpdateType, SMTT(40)
     DEF IInv, TypeOK, Bounded, Generations, rowVars, lockVars
<1>7. Sections'
  BY <1>1, <1>2, <1>3, <1>4, BoundsKept, NoUpdateType, SMTT(40)
     DEF IInv, TypeOK, Sections, InSection, rowVars, lockVars
<1>8. CarriesNewest'
  BY <1>1, <1>2, <1>3, <1>4, BoundsKept, NoUpdateType, SMTT(40)
     DEF IInv, TypeOK, Bounded, Sections, CarriesNewest, Carries, InSection,
         Generations, rowVars, lockVars
<1> QED
  BY <1>5, <1>6, <1>7, <1>8 DEF IInv

(* A step outside of any section that makes a task save something. *)
LEMMA SavingKeeps ==
  ASSUME IInv, NEW p \in Tasks, NEW u \in Updates, Saves(p, u), u.gen <= issued,
         p = Admin \/ pc[p] \notin {"refresh", "read", "write"},
         UNCHANGED <<rowVars, lockVars, providerVars, node, have, force, using,
                     rec, statusVars>>,
         failures' \in 0..MaxFailures, adminCalls' \in 0..MaxAdminCalls
  PROVE  IInv'
<1>1. \A n \in Nodes : p \notin locks[n]
  BY DEF IInv, Sections
<1>2. pc' = [pc EXCEPT ![p] = "read"] /\ work' = [work EXCEPT ![p] = u]
  BY DEF Saves
<1>3. TypeOK'
  BY <1>1, <1>2, NoUpdateType
     DEF IInv, TypeOK, Bounded, Sections, InSection, Generations, rowVars,
         lockVars, providerVars, statusVars
<1>4. Bounded'
  BY <1>1, <1>2, NoUpdateType
     DEF IInv, TypeOK, Bounded, Generations, rowVars, lockVars, providerVars,
         statusVars
<1>5. Sections'
  BY <1>1, <1>2, NoUpdateType
     DEF IInv, TypeOK, Sections, InSection, rowVars, lockVars, providerVars,
         statusVars
<1>6. CarriesNewest'
  BY <1>1, <1>2, NoUpdateType
     DEF IInv, TypeOK, Bounded, Sections, CarriesNewest, Carries, InSection,
         Generations, rowVars, lockVars, providerVars, statusVars
<1> QED
  BY <1>3, <1>4, <1>5, <1>6 DEF IInv

LEMMA RefreshKeeps ==
  ASSUME IInv, NEW p \in Tasks, Refresh(p)
  PROVE  IInv'
<1>1. /\ pc[p] = "refresh"
      /\ UNCHANGED <<rowVars, access, lockVars, adminCalls>>
      /\ failures' \in 0..MaxFailures
      /\ issued' \in Generations /\ issued' >= issued
  BY AccountsAssumption DEF Refresh, Fails, IInv, TypeOK, Generations
<1>2. CASE p = Admin /\ Ends(p, "transient")
  BY <1>1, <1>2, EndingKeeps DEF Errors
<1>3. CASE \E g \in Generations, e \in Errors :
             /\ g <= issued' /\ g >= using[p]
             /\ using[p] = issued \/ g = using[p]
             /\ Saves(p, AuthUpdate(g, e))
             /\ UNCHANGED <<node, have, force, using, rec, statusVars>>
  <2>1. PICK g \in Generations, e \in Errors :
             /\ g <= issued' /\ g >= using[p]
             /\ Saves(p, AuthUpdate(g, e))
             /\ UNCHANGED <<node, have, force, using, rec, statusVars>>
    BY <1>3
  <2>2. PICK u \in Updates : /\ u.set = "auth" /\ u.gen = g
                             /\ pc' = [pc EXCEPT ![p] = "read"]
                             /\ work' = [work EXCEPT ![p] = u]
    BY <2>1, AuthUpdateType DEF Saves
  <2>3. /\ UNCHANGED <<node, have, force, using, rec, statusVars>>
        /\ g <= issued' /\ g >= using[p]
    BY <2>1
  <2>4. TypeOK'
    BY <1>1, <2>2, <2>3, BoundsKept, NoUpdateType, SMTT(40)
       DEF IInv, TypeOK, Bounded, Sections, InSection, Generations, rowVars,
           lockVars, statusVars
  <2>5. Bounded'
    BY <1>1, <2>2, <2>3, BoundsKept, NoUpdateType, SMTT(40)
       DEF IInv, TypeOK, Bounded, Generations, rowVars, lockVars, statusVars
  <2>6. Sections'
    BY <1>1, <2>2, <2>3, BoundsKept, NoUpdateType, SMTT(40)
       DEF IInv, TypeOK, Sections, InSection, rowVars, lockVars, statusVars
  <2>7. CarriesNewest'
    <3>1. SUFFICES ASSUME NEW q \in Tasks, InSection(q)', q \notin misled \cup overtaken
                   PROVE  Carries(q)' >= row.gen
      BY <1>1 DEF CarriesNewest, lockVars, rowVars
    <3>2. InSection(q) /\ Carries(q) >= row.gen
      BY <1>1, <2>3, <3>1 DEF InSection, lockVars, IInv, CarriesNewest
    <3>3. CASE q = p
      <4>1. using[p] >= row.gen /\ Carries(p)' = g
        BY <1>1, <2>2, <3>2, <3>3 DEF Carries, IInv, TypeOK
      <4> QED
        BY <2>3, <3>3, <4>1 DEF IInv, TypeOK, Generations, Rows
    <3>4. CASE q # p
      BY <1>1, <2>2, <2>3, <3>2, <3>4
         DEF Carries, InSection, IInv, TypeOK, Sections
    <3> QED
      BY <3>3, <3>4
  <2> QED
    BY <2>4, <2>5, <2>6, <2>7 DEF IInv
<1>4. using[p] \in Generations /\ using[p] <= issued /\ issued \in Generations
  BY DEF IInv, TypeOK, Bounded
<1>5. CASE /\ using[p] = issued /\ issued < MaxGeneration /\ issued' = issued + 1
           /\ Saves(p, AuthUpdate(issued + 1, "none"))
           /\ UNCHANGED <<node, have, force, using, rec, statusVars, failures>>
  <2>1. issued + 1 \in Generations /\ "none" \in Errors
        /\ issued + 1 <= issued' /\ issued + 1 >= using[p]
    BY <1>4, <1>5, AccountsAssumption DEF Generations, Errors
  <2> QED
    BY <1>3, <1>4, <1>5, <2>1
<1>6. CASE /\ Saves(p, AuthUpdate(using[p],
                     IF using[p] = issued THEN "transient" ELSE "terminal"))
           /\ UNCHANGED <<node, have, force, using, rec, statusVars>>
  <2>1. (IF using[p] = issued THEN "transient" ELSE "terminal") \in Errors
        /\ using[p] <= issued' /\ using[p] >= using[p]
    BY <1>1, <1>4 DEF Errors, Generations
  <2> QED
    BY <1>3, <1>4, <1>6, <2>1
<1> QED
  BY <1>2, <1>5, <1>6 DEF Refresh

LEMMA UnauthorizedKeeps ==
  ASSUME IInv, NEW p \in Tasks, Unauthorized(p)
  PROVE  IInv'
<1>1. /\ pc[p] = "call" /\ p # Admin
      /\ UNCHANGED <<rowVars, providerVars, lockVars, adminCalls>>
      /\ failures' \in 0..MaxFailures
      /\ issued' \in Generations /\ issued' >= issued
      /\ adminCalls' \in 0..MaxAdminCalls
  BY AccountsAssumption
     DEF Unauthorized, Fails, IInv, TypeOK, Sections, Generations, providerVars
<1>2. CASE /\ force' = [force EXCEPT ![p] = TRUE]
           /\ pc' = [pc EXCEPT ![p] = "lock"]
           /\ UNCHANGED <<node, have, using, work, rec, statusVars>>
  <2>1. TypeOK'
    BY <1>1, <1>2, NoUpdateType
       DEF IInv, TypeOK, Bounded, Sections, InSection, Generations, rowVars,
           lockVars, providerVars, statusVars
  <2>2. Bounded'
    BY <1>1, <1>2, NoUpdateType
       DEF IInv, TypeOK, Bounded, Generations, rowVars, lockVars, providerVars,
           statusVars
  <2>3. Sections'
    BY <1>1, <1>2, NoUpdateType
       DEF IInv, TypeOK, Sections, InSection, rowVars, lockVars, providerVars,
           statusVars
  <2>4. CarriesNewest'
    BY <1>1, <1>2, NoUpdateType
       DEF IInv, TypeOK, Bounded, Sections, CarriesNewest, Carries, InSection,
           Generations, rowVars, lockVars, providerVars, statusVars
  <2> QED
    BY <2>1, <2>2, <2>3, <2>4 DEF IInv
<1>3. CASE /\ Saves(p, AuthUpdate(Entry.gen, "terminal"))
           /\ UNCHANGED <<node, have, force, using, rec, statusVars>>
  <2>1. "terminal" \in Errors
    BY DEF Errors
  <2> QED
    BY <1>1, <1>3, <2>1, EntryType, AuthUpdateType, SavingKeeps
<1>4. CASE Ends(p, "transient")
  BY <1>1, <1>4, EndingKeeps DEF Errors, providerVars
<1> QED
  BY <1>2, <1>3, <1>4 DEF Unauthorized

LEMMA FallbackKeeps ==
  ASSUME IInv, Fallback
  PROVE  IInv'
<1>1. /\ Check \in Tasks /\ pc[Check] = "fallback"
      /\ UNCHANGED <<rowVars, providerVars, lockVars, bounds>>
      /\ issued \in Generations /\ issued >= 1
      /\ failures \in 0..MaxFailures /\ adminCalls \in 0..MaxAdminCalls
  BY AccountsAssumption DEF Fallback, Tasks, IInv, TypeOK, Generations
<1>2. CASE /\ Saves(Check, [NoUpdate EXCEPT !.set = "disable"])
           /\ UNCHANGED <<node, have, force, using, rec, statusVars>>
  BY <1>1, <1>2, NoUpdateType, SavingKeeps DEF bounds
<1>3. CASE Ends(Check, "terminal")
  <2>1. issued' \in Generations /\ issued' >= issued
    BY <1>1 DEF providerVars, Generations
  <2> QED
    BY <1>1, <1>3, <2>1, EndingKeeps DEF Errors, providerVars, bounds
<1> QED
  BY <1>2, <1>3 DEF Fallback

LEMMA AdminCallsKeeps ==
  ASSUME IInv, AdminCalls
  PROVE  IInv'
<1>1. /\ Admin \in Tasks /\ pc[Admin] = "idle"
      /\ adminCalls' \in 0..MaxAdminCalls
      /\ issued \in Generations /\ issued >= 1
      /\ failures \in 0..MaxFailures
      /\ UNCHANGED <<rowVars, providerVars, lockVars, node, have, force, rec,
                     statusVars, failures>>
  BY AccountsAssumption DEF AdminCalls, Tasks, IInv, TypeOK, Generations
<1>2. CASE Saves(Admin, [NoUpdate EXCEPT !.set = "toggle"]) /\ UNCHANGED using
  BY <1>1, <1>2, NoUpdateType, SavingKeeps
<1>3. CASE /\ pc' = [pc EXCEPT ![Admin] = "refresh"]
           /\ using' = [using EXCEPT ![Admin] = row.gen]
           /\ UNCHANGED work
  <2>1. row.gen \in Generations /\ row.gen <= issued
    BY DEF IInv, TypeOK, Rows
  <2>2. \A n \in Nodes : Admin \notin locks[n]
    BY DEF IInv, Sections
  <2>3. TypeOK'
    BY <1>1, <1>3, <2>1, <2>2, NoUpdateType
       DEF IInv, TypeOK, Bounded, Sections, InSection, Generations, rowVars,
           lockVars, providerVars, statusVars
  <2>4. Bounded'
    BY <1>1, <1>3, <2>1, <2>2, NoUpdateType
       DEF IInv, TypeOK, Bounded, Generations, rowVars, lockVars, providerVars,
           statusVars
  <2>5. Sections'
    BY <1>1, <1>3, <2>1, <2>2, NoUpdateType
       DEF IInv, TypeOK, Sections, InSection, rowVars, lockVars, providerVars,
           statusVars
  <2>6. CarriesNewest'
    BY <1>1, <1>3, <2>1, <2>2, NoUpdateType
       DEF IInv, TypeOK, Bounded, Sections, CarriesNewest, Carries, InSection,
           Generations, rowVars, lockVars, providerVars, statusVars
  <2> QED
    BY <2>3, <2>4, <2>5, <2>6 DEF IInv
<1> QED
  BY <1>2, <1>3 DEF AdminCalls

LEMMA ReadRowKeeps ==
  ASSUME IInv, NEW p \in Tasks, ReadRow(p)
  PROVE  IInv'
<1>1. /\ pc[p] = "read" /\ pc' = [pc EXCEPT ![p] = "write"]
      /\ rec' = [rec EXCEPT ![p] = Updated(row, work[p])]
      /\ UNCHANGED <<rowVars, providerVars, lockVars, node, have, force, using, work,
                     statusVars, bounds>>
  BY DEF ReadRow
<1>2. /\ Updated(row, work[p]) \in Rows /\ Updated(row, work[p]).gen <= issued
      /\ work[p].set = "auth" => Updated(row, work[p]).gen = work[p].gen
  BY UpdatedType DEF IInv, TypeOK, Bounded
<1>3. TypeOK'
  BY <1>1, <1>2, NoUpdateType
     DEF IInv, TypeOK, Bounded, Sections, InSection, Generations, rowVars,
         providerVars, lockVars, statusVars, bounds
<1>4. Bounded'
  BY <1>1, <1>2, NoUpdateType
     DEF IInv, TypeOK, Bounded, Generations, rowVars, providerVars, lockVars,
         statusVars, bounds
<1>5. Sections'
  BY <1>1, <1>2, NoUpdateType
     DEF IInv, TypeOK, Sections, InSection, rowVars, providerVars, lockVars,
         statusVars, bounds
<1>6. CarriesNewest'
  BY <1>1, <1>2, NoUpdateType
     DEF IInv, TypeOK, Bounded, Sections, CarriesNewest, Carries, InSection,
         Generations, rowVars, providerVars, lockVars, statusVars, bounds
<1> QED
  BY <1>3, <1>4, <1>5, <1>6 DEF IInv

LEMMA AfterSaveEffect ==
  ASSUME IInv, NEW p \in Tasks, NEW saved \in BOOLEAN, AfterSave(p, saved)
  PROVE  \E c \in {"call", "fallback", "publish", "idle"}, g \in Generations, n \in Nodes :
           /\ pc' = [pc EXCEPT ![p] = c] /\ (p = Admin => c = "idle")
           /\ using' = [using EXCEPT ![p] = g] /\ g <= issued
           /\ node' = [node EXCEPT ![p] = n]
           /\ work' = [work EXCEPT ![p] = NoUpdate]
           /\ rec' = [rec EXCEPT ![p] = NoEntry]
           /\ have' \in [Tasks -> Generations] /\ force' \in [Tasks -> BOOLEAN]
           /\ status' = status /\ result' \in Errors
<1>1. /\ node[p] \in Nodes /\ node = [node EXCEPT ![p] = node[p]]
      /\ using[p] \in Generations /\ using[p] <= issued
      /\ using = [using EXCEPT ![p] = using[p]]
      /\ work[p].gen \in Generations /\ work[p].gen <= issued /\ work[p].err \in Errors
      /\ have \in [Tasks -> Generations] /\ force \in [Tasks -> BOOLEAN]
      /\ result \in Errors
  BY DEF IInv, TypeOK, Bounded, Updates
<1>2. CASE /\ p # Admin /\ GoesWith(p, work[p].gen)
           /\ work' = [work EXCEPT ![p] = NoUpdate] /\ rec' = [rec EXCEPT ![p] = NoEntry]
           /\ UNCHANGED <<node, have, force, statusVars>>
  <2>1. /\ pc' = [pc EXCEPT ![p] = "call"]
        /\ using' = [using EXCEPT ![p] = work[p].gen]
        /\ node' = [node EXCEPT ![p] = node[p]]
    BY <1>1, <1>2 DEF GoesWith
  <2> QED
    BY <1>1, <1>2, <2>1 DEF statusVars
<1>3. CASE /\ p = Check /\ pc' = [pc EXCEPT ![p] = "fallback"]
           /\ work' = [work EXCEPT ![p] = NoUpdate] /\ rec' = [rec EXCEPT ![p] = NoEntry]
           /\ UNCHANGED <<node, have, force, using, statusVars>>
  <2>1. /\ node' = [node EXCEPT ![p] = node[p]] /\ p # Admin
        /\ using' = [using EXCEPT ![p] = using[p]]
    BY <1>1, <1>3, AccountsAssumption
  <2> QED
    BY <1>1, <1>3, <2>1 DEF statusVars
<1>4. CASE \E e \in Errors : Ends(p, e)
  <2>1. PICK e \in Errors : Ends(p, e)
    BY <1>4
  <2>2. /\ pc' = [pc EXCEPT ![p] = IF p = Check THEN "publish" ELSE "idle"]
        /\ have' \in [Tasks -> Generations] /\ force' \in [Tasks -> BOOLEAN]
        /\ using' = [using EXCEPT ![p] = 1]
        /\ work' = [work EXCEPT ![p] = NoUpdate]
        /\ rec' = [rec EXCEPT ![p] = NoEntry]
        /\ node' = [node EXCEPT ![p] = CheckNode]
        /\ status' = status /\ result' \in Errors
        /\ 1 \in Generations /\ 1 <= issued /\ CheckNode \in Nodes
    BY <2>1, EndsEffect
  <2>3. CASE p = Check
    BY <2>2, <2>3, AccountsAssumption
  <2>4. CASE p # Check
    BY <2>2, <2>4
  <2> QED
    BY <2>3, <2>4
<1>5. CASE Ends(p, work[p].err)
  BY <1>1, <1>4, <1>5
<1>6. CASE Ends(p, IF work[p].set = "auth" THEN "transient" ELSE "none")
  <2>1. (IF work[p].set = "auth" THEN "transient" ELSE "none") \in Errors
    BY DEF Errors
  <2> QED
    BY <1>4, <1>6, <2>1
<1> QED
  BY <1>2, <1>3, <1>5, <1>6 DEF AfterSave

(* The end of a save, whether the row was written or not. *)
LEMMA SavedKeeps ==
  ASSUME IInv, NEW p \in Tasks, NEW saved \in BOOLEAN,
         pc[p] \in {"read", "write"}, AfterSave(p, saved),
         row' \in Rows /\ row'.gen <= issued,
         cached' \in Rows \cup {NoEntry}, cached' # NoEntry => cached'.gen <= issued,
         fill' \in Rows \cup {NoEntry}, fill' # NoEntry => fill'.gen <= issued,
         locks' = [n \in Nodes |-> locks[n] \ {p}],
         misled' = misled \ {p},
         \/ row' = row /\ overtaken' = overtaken \ {p}
         \/ overtaken' = (overtaken \cup Overtakes(p)) \ {p},
         UNCHANGED providerVars,
         failures' \in 0..MaxFailures /\ adminCalls' \in 0..MaxAdminCalls
  PROVE  IInv'
<1>1. PICK c \in {"call", "fallback", "publish", "idle"}, g \in Generations, n \in Nodes :
           /\ pc' = [pc EXCEPT ![p] = c] /\ (p = Admin => c = "idle")
           /\ using' = [using EXCEPT ![p] = g] /\ g <= issued
           /\ node' = [node EXCEPT ![p] = n]
           /\ work' = [work EXCEPT ![p] = NoUpdate]
           /\ rec' = [rec EXCEPT ![p] = NoEntry]
           /\ have' \in [Tasks -> Generations] /\ force' \in [Tasks -> BOOLEAN]
           /\ status' = status /\ result' \in Errors
  BY AfterSaveEffect
<1>2. overtaken' \subseteq Tasks /\ 1 <= issued
  BY DEF Overtakes, IInv, TypeOK, Generations
<1>3. TypeOK'
  BY <1>1, <1>2, NoUpdateType, SMTT(40)
     DEF IInv, TypeOK, Sections, InSection, providerVars
<1>4. Bounded'
  BY <1>1, <1>2, NoUpdateType, SMTT(40) DEF IInv, TypeOK, Bounded, providerVars
<1>5. Sections'
  BY <1>1, SMTT(40) DEF IInv, TypeOK, Sections
<1>6. CarriesNewest'
  <2>1. SUFFICES ASSUME NEW q \in Tasks, InSection(q)', q \notin misled' \cup overtaken'
                 PROVE  Carries(q)' >= row'.gen
    BY DEF CarriesNewest
  <2>2. q # p
    BY <2>1, <1>1 DEF InSection, IInv, TypeOK
  <2>3. /\ node'[q] = node[q] /\ pc'[q] = pc[q] /\ using'[q] = using[q]
        /\ work'[q] = work[q] /\ rec'[q] = rec[q]
    BY <1>1, <2>2 DEF IInv, TypeOK
  <2>4. InSection(q) /\ q \notin misled /\ q \notin overtaken
    BY <2>1, <2>2, <2>3 DEF InSection, IInv, TypeOK
  <2>5. Carries(q)' = Carries(q)
    BY <2>3 DEF Carries
  <2>6. row' = row
    <3>1. CASE InSection(p) /\ node[p] = node[q]
      BY <2>2, <2>4, <3>1 DEF InSection, IInv, TypeOK
    <3>2. CASE ~(InSection(p) /\ node[p] = node[q])
      BY <2>1, <2>2, <2>4, <3>2 DEF Overtakes
    <3> QED
      BY <3>1, <3>2
  <2> QED
    BY <2>4, <2>5, <2>6 DEF IInv, CarriesNewest
<1> QED
  BY <1>3, <1>4, <1>5, <1>6 DEF IInv

LEMMA WriteKeeps ==
  ASSUME IInv, NEW p \in Tasks, Write(p)
  PROVE  IInv'
<1>1. /\ pc[p] = "write" /\ row' = rec[p] /\ AfterSave(p, TRUE)
      /\ locks' = [n \in Nodes |-> locks[n] \ {p}] /\ misled' = misled \ {p}
      /\ overtaken' = (overtaken \cup Overtakes(p)) \ {p}
      /\ UNCHANGED <<providerVars, adminCalls>>
  BY DEF Write
<1>2. row' \in Rows /\ row'.gen <= issued
  BY <1>1 DEF IInv, Bounded
<1>3. failures' \in 0..MaxFailures
  BY AccountsAssumption DEF Write, Fails, IInv, TypeOK
<1>4. /\ cached' \in Rows \cup {NoEntry} /\ (cached' # NoEntry => cached'.gen <= issued)
      /\ fill' \in Rows \cup {NoEntry} /\ (fill' # NoEntry => fill'.gen <= issued)
  BY EntryType DEF Write, IInv, TypeOK, Bounded
<1>5. adminCalls' \in 0..MaxAdminCalls
  BY <1>1 DEF IInv, TypeOK
<1> QED
  BY <1>1, <1>2, <1>3, <1>4, <1>5, SavedKeeps

LEMMA SaveFailsKeeps ==
  ASSUME IInv, NEW p \in Tasks, SaveFails(p)
  PROVE  IInv'
<1>1. /\ pc[p] \in {"read", "write"} /\ AfterSave(p, FALSE)
      /\ locks' = [n \in Nodes |-> locks[n] \ {p}] /\ misled' = misled \ {p}
      /\ overtaken' = overtaken \ {p} /\ row' = row
      /\ UNCHANGED <<rowVars, providerVars, adminCalls>>
  BY DEF SaveFails, Leaves, rowVars
<1>2. failures' \in 0..MaxFailures /\ adminCalls' \in 0..MaxAdminCalls
  BY <1>1, AccountsAssumption DEF SaveFails, Fails, IInv, TypeOK
<1>3. /\ row' \in Rows /\ row'.gen <= issued
      /\ cached' \in Rows \cup {NoEntry} /\ (cached' # NoEntry => cached'.gen <= issued)
      /\ fill' \in Rows \cup {NoEntry} /\ (fill' # NoEntry => fill'.gen <= issued)
  BY <1>1 DEF rowVars, IInv, TypeOK, Bounded
<1> QED
  BY <1>1, <1>2, <1>3, SavedKeeps

(* Moving the clock of the stamps touches no token. *)
LEMMA RestampAllEffect ==
  ASSUME IInv, NEW from \in 1..2, RestampAll(from)
  PROVE  /\ row' \in Rows /\ row'.gen = row.gen
         /\ cached' \in Rows \cup {NoEntry} /\ (cached' # NoEntry => cached'.gen <= issued)
         /\ fill' \in Rows \cup {NoEntry} /\ (fill' # NoEntry => fill'.gen <= issued)
         /\ rec' \in [Tasks -> Rows \cup {NoEntry}]
         /\ \A p \in Tasks : rec[p] \in Rows =>
              rec'[p] \in Rows /\ rec'[p].gen = rec[p].gen
<1>1. row \in Rows /\ cached \in Rows \cup {NoEntry} /\ fill \in Rows \cup {NoEntry}
      /\ \A p \in Tasks : rec[p] \in Rows \cup {NoEntry}
  BY DEF IInv, TypeOK
<1>2. row' \in Rows /\ row'.gen = row.gen
  BY <1>1, RestampedType DEF RestampAll
<1>3. cached' \in Rows \cup {NoEntry} /\ (cached' # NoEntry => cached'.gen <= issued)
  BY <1>1, RestampedType DEF RestampAll, IInv, Bounded
<1>4. fill' \in Rows \cup {NoEntry} /\ (fill' # NoEntry => fill'.gen <= issued)
  BY <1>1, RestampedType DEF RestampAll, IInv, Bounded
<1>5. \A p \in Tasks : /\ rec'[p] = Restamped(rec[p], from)
                       /\ rec'[p] \in Rows \cup {NoEntry}
                       /\ rec[p] \in Rows => rec'[p] \in Rows /\ rec'[p].gen = rec[p].gen
  BY <1>1, RestampedType DEF RestampAll
<1>6. rec' \in [Tasks -> Rows \cup {NoEntry}]
  BY <1>5 DEF RestampAll
<1> QED
  BY <1>2, <1>3, <1>4, <1>5, <1>6

LEMMA BeginCheckKeeps ==
  ASSUME IInv, BeginCheck
  PROVE  IInv'
<1>1. Check \in Tasks /\ Check # Admin /\ CheckNode \in Nodes
      /\ row.gen \in Generations /\ row.gen <= issued
  BY AccountsAssumption DEF Tasks, IInv, TypeOK, Rows
<1>2. PICK c \in {"call", "lock"}, g \in Generations :
        /\ g <= issued
        /\ pc[Check] = "idle" /\ pc' = [pc EXCEPT ![Check] = c]
        /\ have' \in [Tasks -> Generations]
        /\ using' = [using EXCEPT ![Check] = g]
        /\ node' = [node EXCEPT ![Check] = CheckNode]
  <2>1. CASE Expired(row.gen)
    <3>1. using' = [using EXCEPT ![Check] = using[Check]]
      BY <1>1, <2>1 DEF BeginCheck, Begin, IInv, TypeOK
    <3>2. using[Check] \in Generations /\ using[Check] <= issued
      BY <1>1 DEF IInv, TypeOK, Bounded
    <3> QED
      BY <1>1, <2>1, <3>1, <3>2 DEF BeginCheck, Begin, IInv, TypeOK
  <2>2. CASE ~Expired(row.gen)
    BY <1>1, <2>2 DEF BeginCheck, Begin, GoesWith, IInv, TypeOK
  <2> QED
    BY <2>1, <2>2
<1>3. UNCHANGED <<providerVars, lockVars, force, work, statusVars, bounds>>
  BY DEF BeginCheck, Begin
<1>4. /\ row' \in Rows /\ row'.gen = row.gen
      /\ cached' \in Rows \cup {NoEntry} /\ (cached' # NoEntry => cached'.gen <= issued)
      /\ fill' \in Rows \cup {NoEntry} /\ (fill' # NoEntry => fill'.gen <= issued)
      /\ rec' \in [Tasks -> Rows \cup {NoEntry}]
      /\ \A p \in Tasks : rec[p] \in Rows =>
           rec'[p] \in Rows /\ rec'[p].gen = rec[p].gen
  BY RestampAllEffect DEF BeginCheck
<1>5. TypeOK'
  <2>1. /\ pc' \in [Tasks -> {"idle", "call", "lock", "refresh", "read", "write",
                            "fallback", "publish"}]
        /\ node' \in [Tasks -> Nodes] /\ using' \in [Tasks -> Generations]
    BY <1>1, <1>2, <1>3, <1>4 DEF IInv, TypeOK
  <2>2. /\ row' \in Rows /\ row'.gen <= issued'
        /\ issued' \in Generations
        /\ access' \in [Generations -> {"good", "rejected", "expired"}]
    BY <1>1, <1>2, <1>3, <1>4 DEF IInv, TypeOK, providerVars
  <2>3. /\ locks' = locks /\ misled' \subseteq Tasks /\ overtaken' \subseteq Tasks
        /\ have' \in [Tasks -> Generations] /\ force' \in [Tasks -> BOOLEAN]
        /\ work' \in [Tasks -> Updates]
        /\ failures' \in 0..MaxFailures /\ adminCalls' \in 0..MaxAdminCalls
        /\ status' \in {"none", "transient", "terminal"} /\ result' \in Errors
    BY <1>1, <1>2, <1>3, <1>4
       DEF IInv, TypeOK, lockVars, bounds, statusVars, Errors
  <2>4. \A q \in Tasks : InSection(q)' => pc'[q] \in {"refresh", "read", "write"}
    BY <1>1, <1>2, <1>3, <1>4 DEF IInv, TypeOK, InSection, lockVars, Sections
  <2> QED
    BY <2>1, <2>2, <2>3, <2>4, <1>4 DEF IInv, TypeOK
<1>6. Bounded'
  <2>1. \A q \in Tasks : using'[q] <= issued /\ work'[q].gen <= issued
    BY <1>1, <1>2, <1>3, <1>4 DEF IInv, TypeOK, Bounded
  <2>2. \A q \in Tasks : pc'[q] = "write" => rec'[q] \in Rows /\ rec'[q].gen <= issued
    BY <1>1, <1>2, <1>3, <1>4 DEF IInv, TypeOK, Bounded
  <2>3. issued' = issued
    BY <1>1, <1>2, <1>3, <1>4 DEF providerVars
  <2> QED
    BY <2>1, <2>2, <2>3, <1>4 DEF Bounded
<1>7. Sections'
  BY <1>1, <1>2, <1>3, <1>4, SMTT(40)
     DEF IInv, TypeOK, Sections, InSection, providerVars, lockVars, statusVars,
         bounds
<1>8. CarriesNewest'
  BY <1>1, <1>2, <1>3, <1>4, SMTT(40)
     DEF IInv, TypeOK, Bounded, Sections, CarriesNewest, Carries, InSection,
         Generations, providerVars, lockVars, statusVars, bounds
<1> QED
  BY <1>5, <1>6, <1>7, <1>8 DEF IInv

LEMMA PublishKeeps ==
  ASSUME IInv, Publish
  PROVE  IInv'
<1>1. /\ Check \in Tasks /\ Check # Admin
      /\ pc[Check] = "publish" /\ pc' = [pc EXCEPT ![Check] = "idle"]
      /\ status' \in Errors /\ result' \in Errors
      /\ UNCHANGED <<providerVars, lockVars, node, have, force, using, work, bounds>>
  BY AccountsAssumption DEF Publish, Merged, Tasks, IInv, TypeOK, Errors
<1>4. /\ row' \in Rows /\ row'.gen = row.gen
      /\ cached' \in Rows \cup {NoEntry} /\ (cached' # NoEntry => cached'.gen <= issued)
      /\ fill' \in Rows \cup {NoEntry} /\ (fill' # NoEntry => fill'.gen <= issued)
      /\ rec' \in [Tasks -> Rows \cup {NoEntry}]
      /\ \A p \in Tasks : rec[p] \in Rows =>
           rec'[p] \in Rows /\ rec'[p].gen = rec[p].gen
  BY RestampAllEffect DEF Publish
<1>5. TypeOK'
  <2>1. /\ pc' \in [Tasks -> {"idle", "call", "lock", "refresh", "read", "write",
                            "fallback", "publish"}]
        /\ node' \in [Tasks -> Nodes] /\ using' \in [Tasks -> Generations]
    BY <1>1, <1>4 DEF IInv, TypeOK
  <2>2. /\ row' \in Rows /\ row'.gen <= issued'
        /\ issued' \in Generations
        /\ access' \in [Generations -> {"good", "rejected", "expired"}]
    BY <1>1, <1>4 DEF IInv, TypeOK, providerVars
  <2>3. /\ locks' = locks /\ misled' \subseteq Tasks /\ overtaken' \subseteq Tasks
        /\ have' \in [Tasks -> Generations] /\ force' \in [Tasks -> BOOLEAN]
        /\ work' \in [Tasks -> Updates]
        /\ failures' \in 0..MaxFailures /\ adminCalls' \in 0..MaxAdminCalls
        /\ status' \in {"none", "transient", "terminal"} /\ result' \in Errors
    BY <1>1, <1>4 DEF IInv, TypeOK, lockVars, bounds, statusVars, Errors
  <2>4. \A q \in Tasks : InSection(q)' => pc'[q] \in {"refresh", "read", "write"}
    BY <1>1, <1>4 DEF IInv, TypeOK, InSection, lockVars, Sections
  <2> QED
    BY <2>1, <2>2, <2>3, <2>4, <1>4 DEF IInv, TypeOK
<1>6. Bounded'
  <2>1. \A q \in Tasks : using'[q] <= issued /\ work'[q].gen <= issued
    BY <1>1, <1>4 DEF IInv, TypeOK, Bounded
  <2>2. \A q \in Tasks : pc'[q] = "write" => rec'[q] \in Rows /\ rec'[q].gen <= issued
    BY <1>1, <1>4 DEF IInv, TypeOK, Bounded
  <2>3. issued' = issued
    BY <1>1, <1>4 DEF providerVars
  <2> QED
    BY <2>1, <2>2, <2>3, <1>4 DEF Bounded
<1>7. Sections'
  BY <1>1, <1>4, SMTT(40)
     DEF IInv, TypeOK, Sections, InSection, providerVars, lockVars, bounds,
         Errors
<1>8. CarriesNewest'
  BY <1>1, <1>4, SMTT(40)
     DEF IInv, TypeOK, Bounded, Sections, CarriesNewest, Carries, InSection,
         Generations, providerVars, lockVars, bounds, Errors
<1> QED
  BY <1>5, <1>6, <1>7, <1>8 DEF IInv

LEMMA CrashKeeps ==
  ASSUME IInv, NEW n \in Nodes, Crash(n)
  PROVE  IInv'
<1> DEFINE dies == {p \in Tasks : pc[p] # "idle" /\ node[p] = n}
<1>1. /\ pc' = [p \in Tasks |-> IF p \in dies THEN "idle" ELSE pc[p]]
      /\ node' = [p \in Tasks |-> IF p \in dies THEN CheckNode ELSE node[p]]
      /\ have' = [p \in Tasks |-> IF p \in dies THEN 1 ELSE have[p]]
      /\ using' = [p \in Tasks |-> IF p \in dies THEN 1 ELSE using[p]]
      /\ force' = [p \in Tasks |-> IF p \in dies THEN FALSE ELSE force[p]]
      /\ work' = [p \in Tasks |-> IF p \in dies THEN NoUpdate ELSE work[p]]
      /\ rec' = [p \in Tasks |-> IF p \in dies THEN NoEntry ELSE rec[p]]
      /\ result' = (IF Check \in dies THEN "none" ELSE result)
      /\ misled' = misled \ dies /\ overtaken' = overtaken \ dies
      /\ locks' = [locks EXCEPT ![n] = {}]
      /\ UNCHANGED <<rowVars, providerVars, status, adminCalls>>
  BY DEF Crash
<1>2. /\ failures' \in 0..MaxFailures /\ CheckNode \in Nodes
      /\ 1 \in Generations /\ 1 <= issued /\ result' \in Errors
  BY <1>1, AccountsAssumption
     DEF Crash, Fails, IInv, TypeOK, Generations, Errors
<1>3. \A m \in Nodes : locks'[m] = IF m = n THEN {} ELSE locks[m]
  BY <1>1 DEF IInv, TypeOK
<1>4. \A m \in Nodes : \A p \in locks'[m] : m # n /\ p \in locks[m] /\ p \in Tasks \ dies
  BY <1>3 DEF IInv, TypeOK, Sections
<1>5. \A p \in Tasks \ dies :
        /\ pc'[p] = pc[p] /\ node'[p] = node[p] /\ using'[p] = using[p]
        /\ work'[p] = work[p] /\ rec'[p] = rec[p]
  BY <1>1
<1>6. \A p \in dies : /\ pc'[p] = "idle" /\ node'[p] = CheckNode /\ using'[p] = 1
                       /\ work'[p] = NoUpdate
  BY <1>1
<1>7. /\ pc' \in [Tasks -> {"idle", "call", "lock", "refresh", "read", "write",
                           "fallback", "publish"}]
      /\ node' \in [Tasks -> Nodes] /\ have' \in [Tasks -> Generations]
      /\ using' \in [Tasks -> Generations] /\ force' \in [Tasks -> BOOLEAN]
      /\ work' \in [Tasks -> Updates] /\ rec' \in [Tasks -> Rows \cup {NoEntry}]
      /\ locks' \in [Nodes -> SUBSET Tasks]
  BY <1>1, <1>2, NoUpdateType DEF IInv, TypeOK
<1> HIDE DEF dies
<1>8. \A p \in Tasks : InSection(p)' => p \notin dies /\ InSection(p)
  BY <1>4, <1>5, <1>7 DEF InSection
<1>9. TypeOK'
  <2>1. \A m \in Nodes : \A p, q \in locks'[m] : p = q
    BY <1>4 DEF IInv, TypeOK
  <2>2. \A p \in Tasks : InSection(p)' => pc'[p] \in {"refresh", "read", "write"}
    BY <1>5, <1>8 DEF IInv, TypeOK
  <2> QED
    <3>1. /\ row' \in Rows /\ cached' \in Rows \cup {NoEntry}
          /\ fill' \in Rows \cup {NoEntry}
          /\ issued' \in Generations /\ row'.gen <= issued'
          /\ access' \in [Generations -> {"good", "rejected", "expired"}]
      BY <1>1 DEF IInv, TypeOK, rowVars, providerVars
    <3>2. /\ status' \in {"none", "transient", "terminal"} /\ result' \in Errors
          /\ misled' \subseteq Tasks /\ overtaken' \subseteq Tasks
          /\ failures' \in 0..MaxFailures /\ adminCalls' \in 0..MaxAdminCalls
      BY <1>1, <1>2 DEF IInv, TypeOK
    <3> QED
      BY <1>7, <2>1, <2>2, <3>1, <3>2 DEF TypeOK
<1>10. Bounded'
  <2>1. \A p \in Tasks : /\ using'[p] <= issued /\ work'[p].gen <= issued
                         /\ pc'[p] = "write" => rec'[p] \in Rows /\ rec'[p].gen <= issued
    BY <1>2, <1>5, <1>6, NoUpdateType DEF IInv, Bounded
  <2> QED
    BY <1>1, <2>1 DEF IInv, Bounded, rowVars, providerVars
<1>11. Sections'
  <2>1. pc'[Admin] \in {"idle", "refresh", "read", "write"}
    BY <1>1 DEF IInv, Sections, Tasks
  <2> QED
    BY <1>4, <1>5, <2>1 DEF IInv, Sections
<1>12. CarriesNewest'
  <2>1. SUFFICES ASSUME NEW q \in Tasks, InSection(q)', q \notin misled' \cup overtaken'
                 PROVE  Carries(q)' >= row'.gen
    BY DEF CarriesNewest
  <2>2. InSection(q) /\ q \notin misled \cup overtaken /\ row' = row
    BY <1>1, <1>8, <2>1 DEF rowVars
  <2>3. Carries(q)' = Carries(q)
    BY <1>5, <1>8, <2>1 DEF Carries
  <2> QED
    BY <2>2, <2>3 DEF IInv, CarriesNewest
<1> QED
  BY <1>9, <1>10, <1>11, <1>12 DEF IInv

LEMMA BeginRequestKeeps ==
  ASSUME IInv, NEW r \in Requests, NEW n \in Nodes, BeginRequest(r, n)
  PROVE  IInv'
<1>1. r \in Tasks /\ r # Admin /\ r # Check
  BY AccountsAssumption DEF Tasks
<1>2. PICK c \in {"call", "lock"}, g \in Generations :
        /\ g <= issued
        /\ pc[r] = "idle" /\ pc' = [pc EXCEPT ![r] = c]
        /\ have' \in [Tasks -> Generations]
        /\ using' = [using EXCEPT ![r] = g]
        /\ node' = [node EXCEPT ![r] = n]
  <2>1. CASE Expired(Entry.gen)
    <3>1. using' = [using EXCEPT ![r] = using[r]]
      BY <1>1, <2>1, EntryType DEF BeginRequest, Begin, IInv, TypeOK
    <3>2. using[r] \in Generations /\ using[r] <= issued
      BY <1>1 DEF IInv, TypeOK, Bounded
    <3> QED
      BY <1>1, <2>1, <3>1, <3>2, EntryType DEF BeginRequest, Begin, IInv, TypeOK
  <2>2. CASE ~Expired(Entry.gen)
    BY <1>1, <2>2, EntryType DEF BeginRequest, Begin, GoesWith, IInv, TypeOK
  <2> QED
    BY <2>1, <2>2
<1>3. UNCHANGED <<rowVars, providerVars, lockVars, force, work, rec, statusVars, bounds>>
  BY DEF BeginRequest, Begin
<1>4. TypeOK'
  BY <1>1, <1>2, <1>3, EntryType
     DEF IInv, TypeOK, Bounded, Sections, InSection, Generations, rowVars,
         providerVars, lockVars, statusVars, bounds
<1>5. Bounded'
  BY <1>1, <1>2, <1>3, EntryType
     DEF IInv, TypeOK, Bounded, Generations, rowVars, providerVars, lockVars,
         statusVars, bounds
<1>6. Sections'
  BY <1>1, <1>2, <1>3, EntryType
     DEF IInv, TypeOK, Sections, InSection, rowVars, providerVars, lockVars,
         statusVars, bounds
<1>7. CarriesNewest'
  BY <1>1, <1>2, <1>3, EntryType
     DEF IInv, TypeOK, Bounded, Sections, CarriesNewest, Carries, InSection,
         Generations, rowVars, providerVars, lockVars, statusVars, bounds
<1> QED
  BY <1>4, <1>5, <1>6, <1>7 DEF IInv

LEMMA LockKeeps ==
  ASSUME IInv, NEW p \in Tasks, Lock(p)
  PROVE  IInv'
<1>1. /\ pc[p] = "lock" /\ locks[node[p]] = {} /\ p # Admin
      /\ UNCHANGED <<rowVars, providerVars, node, have, force, rec, statusVars, bounds>>
  BY DEF Lock, LockIsFree, IInv, Sections
<1>2. \A n \in Nodes : p \notin locks[n]
  BY <1>1 DEF IInv, Sections
<1> DEFINE Enters ==
      /\ locks' = [locks EXCEPT ![node[p]] = @ \cup {p}]
      /\ misled' = IF cached # NoEntry /\ cached.gen < row.gen
                   THEN misled \cup {p} ELSE misled
      /\ UNCHANGED overtaken
<1>3. CASE /\ pc' = [pc EXCEPT ![p] = "call"]
           /\ using' = [using EXCEPT ![p] = Entry.gen]
           /\ UNCHANGED <<lockVars, work>>
  <2>1. TypeOK'
    BY <1>1, <1>2, <1>3, EntryType
       DEF IInv, TypeOK, Bounded, Sections, InSection, Generations, rowVars,
           providerVars, lockVars, statusVars, bounds
  <2>2. Bounded'
    BY <1>1, <1>2, <1>3, EntryType
       DEF IInv, TypeOK, Bounded, Generations, rowVars, providerVars, lockVars,
           statusVars, bounds
  <2>3. Sections'
    BY <1>1, <1>2, <1>3, EntryType
       DEF IInv, TypeOK, Sections, InSection, rowVars, providerVars, lockVars,
           statusVars, bounds
  <2>4. CarriesNewest'
    BY <1>1, <1>2, <1>3, EntryType
       DEF IInv, TypeOK, Bounded, Sections, CarriesNewest, Carries, InSection,
           Generations, rowVars, providerVars, lockVars, statusVars, bounds
  <2> QED
    BY <2>1, <2>2, <2>3, <2>4 DEF IInv
<1>4. Enters => /\ p \in misled' \/ Entry.gen >= row.gen
                /\ misled' \subseteq Tasks /\ misled \subseteq misled'
                /\ locks' \in [Nodes -> SUBSET Tasks]
                /\ locks'[node[p]] = {p}
                /\ \A n \in Nodes : n # node[p] => locks'[n] = locks[n]
  BY <1>1 DEF IInv, TypeOK, Entry, Rows, Generations
<1>5. CASE /\ pc' = [pc EXCEPT ![p] = "read"]
           /\ \E e \in Errors : work' = [work EXCEPT ![p] = AuthUpdate(Entry.gen, e)]
           /\ Enters /\ UNCHANGED using
  <2>1. PICK u \in Updates : /\ work' = [work EXCEPT ![p] = u]
                             /\ u.gen = Entry.gen /\ u.set = "auth"
    BY <1>5, EntryType, AuthUpdateType
  <2>2. TypeOK'
    BY <1>1, <1>2, <1>4, <1>5, <2>1, EntryType
       DEF IInv, TypeOK, Bounded, Sections, InSection, Generations, rowVars,
           providerVars, lockVars, statusVars, bounds
  <2>3. Bounded'
    BY <1>1, <1>2, <1>4, <1>5, <2>1, EntryType
       DEF IInv, TypeOK, Bounded, Generations, rowVars, providerVars, lockVars,
           statusVars, bounds
  <2>4. Sections'
    BY <1>1, <1>2, <1>4, <1>5, <2>1, EntryType
       DEF IInv, TypeOK, Sections, InSection, rowVars, providerVars, lockVars,
           statusVars, bounds
  <2>5. CarriesNewest'
    BY <1>1, <1>2, <1>4, <1>5, <2>1, EntryType
       DEF IInv, TypeOK, Bounded, Sections, CarriesNewest, Carries, InSection,
           Generations, rowVars, providerVars, lockVars, statusVars, bounds
  <2> QED
    BY <2>2, <2>3, <2>4, <2>5 DEF IInv
<1>6. CASE /\ pc' = [pc EXCEPT ![p] = "refresh"]
           /\ using' = [using EXCEPT ![p] = Entry.gen]
           /\ Enters /\ UNCHANGED work
  <2>1. TypeOK'
    BY <1>1, <1>2, <1>4, <1>6, EntryType
       DEF IInv, TypeOK, Bounded, Sections, InSection, Generations, rowVars,
           providerVars, lockVars, statusVars, bounds
  <2>2. Bounded'
    BY <1>1, <1>2, <1>4, <1>6, EntryType
       DEF IInv, TypeOK, Bounded, Generations, rowVars, providerVars, lockVars,
           statusVars, bounds
  <2>3. Sections'
    BY <1>1, <1>2, <1>4, <1>6, EntryType
       DEF IInv, TypeOK, Sections, InSection, rowVars, providerVars, lockVars,
           statusVars, bounds
  <2>4. CarriesNewest'
    BY <1>1, <1>2, <1>4, <1>6, EntryType
       DEF IInv, TypeOK, Bounded, Sections, CarriesNewest, Carries, InSection,
           Generations, rowVars, providerVars, lockVars, statusVars, bounds
  <2> QED
    BY <2>1, <2>2, <2>3, <2>4 DEF IInv
<1> QED
  BY <1>3, <1>5, <1>6 DEF Lock, Reloaded, GoesWith, Saves, Errors

LEMMA TokenGoesBadKeeps ==
  ASSUME IInv, TokenGoesBad
  PROVE  IInv'
<1>1. TypeOK'
  BY NoUpdateType, AccountsAssumption, SMTT(40)
     DEF IInv, TypeOK, Bounded, Sections, Generations, TokenGoesBad, rowVars,
         lockVars, taskVars, statusVars, bounds, InSection
<1>2. Bounded'
  BY NoUpdateType, AccountsAssumption, SMTT(40)
     DEF IInv, TypeOK, Bounded, TokenGoesBad, rowVars, lockVars, taskVars,
         statusVars, bounds, InSection
<1>3. Sections'
  BY NoUpdateType, AccountsAssumption, SMTT(40)
     DEF IInv, TypeOK, Sections, TokenGoesBad, rowVars, lockVars, taskVars,
         statusVars, bounds, InSection
<1>4. CarriesNewest'
  BY NoUpdateType, AccountsAssumption, SMTT(40)
     DEF IInv, TypeOK, Bounded, Sections, CarriesNewest, Carries, TokenGoesBad,
         rowVars, lockVars, taskVars, statusVars, bounds, InSection
<1> QED
  BY <1>1, <1>2, <1>3, <1>4 DEF IInv

LEMMA FillWriteKeeps ==
  ASSUME IInv, FillWrite
  PROVE  IInv'
<1>1. TypeOK'
  BY NoUpdateType, AccountsAssumption, SMTT(40)
     DEF IInv, TypeOK, Bounded, Sections, Generations, FillWrite, providerVars,
         lockVars, taskVars, statusVars, bounds, InSection
<1>2. Bounded'
  BY NoUpdateType, AccountsAssumption, SMTT(40)
     DEF IInv, TypeOK, Bounded, FillWrite, providerVars, lockVars, taskVars,
         statusVars, bounds, InSection
<1>3. Sections'
  BY NoUpdateType, AccountsAssumption, SMTT(40)
     DEF IInv, TypeOK, Sections, FillWrite, providerVars, lockVars, taskVars,
         statusVars, bounds, InSection
<1>4. CarriesNewest'
  BY NoUpdateType, AccountsAssumption, SMTT(40)
     DEF IInv, TypeOK, Bounded, Sections, CarriesNewest, Carries, FillWrite,
         providerVars, lockVars, taskVars, statusVars, bounds, InSection
<1> QED
  BY <1>1, <1>2, <1>3, <1>4 DEF IInv

LEMMA EntryExpiresKeeps ==
  ASSUME IInv, EntryExpires
  PROVE  IInv'
<1>1. TypeOK'
  BY NoUpdateType, AccountsAssumption, SMTT(40)
     DEF IInv, TypeOK, Bounded, Sections, Generations, EntryExpires,
         providerVars, lockVars, taskVars, statusVars, bounds, InSection
<1>2. Bounded'
  BY NoUpdateType, AccountsAssumption, SMTT(40)
     DEF IInv, TypeOK, Bounded, EntryExpires, providerVars, lockVars, taskVars,
         statusVars, bounds, InSection
<1>3. Sections'
  BY NoUpdateType, AccountsAssumption, SMTT(40)
     DEF IInv, TypeOK, Sections, EntryExpires, providerVars, lockVars, taskVars,
         statusVars, bounds, InSection
<1>4. CarriesNewest'
  BY NoUpdateType, AccountsAssumption, SMTT(40)
     DEF IInv, TypeOK, Bounded, Sections, CarriesNewest, Carries, EntryExpires,
         providerVars, lockVars, taskVars, statusVars, bounds, InSection
<1> QED
  BY <1>1, <1>2, <1>3, <1>4 DEF IInv

LEMMA CallSucceedsKeeps ==
  ASSUME IInv, NEW p \in Tasks, CallSucceeds(p)
  PROVE  IInv'
<1>1. /\ p \in Tasks /\ Ends(p, "none") /\ "none" \in Errors
      /\ pc[p] # "idle"
      /\ pc[p] \notin {"refresh", "read", "write"}
      /\ UNCHANGED <<rowVars, lockVars, access, adminCalls>>
      /\ issued' \in Generations /\ issued' >= issued
      /\ failures' \in 0..MaxFailures
  BY AccountsAssumption
     DEF CallSucceeds, IInv, TypeOK, Errors, Generations, Tasks, providerVars,
         bounds
<1> QED
  BY <1>1, EndingKeeps

LEMMA CallFailsKeeps ==
  ASSUME IInv, NEW p \in Tasks, CallFails(p)
  PROVE  IInv'
<1>1. /\ p \in Tasks /\ Ends(p, "transient") /\ "transient" \in Errors
      /\ pc[p] # "idle"
      /\ pc[p] \notin {"refresh", "read", "write"}
      /\ UNCHANGED <<rowVars, lockVars, access, adminCalls>>
      /\ issued' \in Generations /\ issued' >= issued
      /\ failures' \in 0..MaxFailures
  BY AccountsAssumption
     DEF CallFails, Fails, IInv, TypeOK, Errors, Generations, Tasks,
         providerVars, bounds
<1> QED
  BY <1>1, EndingKeeps

LEMMA DisabledAlreadyKeeps ==
  ASSUME IInv, DisabledAlready
  PROVE  IInv'
<1>1. /\ Check \in Tasks /\ Ends(Check, "none") /\ "none" \in Errors
      /\ pc[Check] # "idle"
      /\ work[Check].set # "auth" /\ pc[Check] = "read"
      /\ UNCHANGED <<rowVars, lockVars, access, adminCalls>>
      /\ issued' \in Generations /\ issued' >= issued
      /\ failures' \in 0..MaxFailures
  BY AccountsAssumption
     DEF DisabledAlready, IInv, TypeOK, Errors, Generations, Tasks,
         providerVars, bounds
<1> QED
  BY <1>1, EndingKeeps

LEMMA AdminGivesUpKeeps ==
  ASSUME IInv, AdminGivesUp
  PROVE  IInv'
<1>1. /\ Admin \in Tasks /\ Ends(Admin, "none") /\ "none" \in Errors
      /\ pc[Admin] # "idle"
      /\ TRUE
      /\ UNCHANGED <<rowVars, lockVars, access, adminCalls>>
      /\ issued' \in Generations /\ issued' >= issued
      /\ failures' \in 0..MaxFailures
  BY AccountsAssumption
     DEF AdminGivesUp, IInv, TypeOK, Errors, Generations, Tasks, providerVars,
         bounds
<1> QED
  BY <1>1, EndingKeeps

--------------------------------------------------------------------------------
(* The theorems. *)

LEMMA InitKeeps == Init => IInv
<1> SUFFICES ASSUME Init PROVE IInv
  OBVIOUS
<1>1. 1 \in Generations /\ CheckNode \in Nodes /\ Tasks # {} /\ Admin \in Tasks
  BY AccountsAssumption DEF Generations, Tasks
<1>2. row \in Rows /\ row.gen = 1
  BY <1>1 DEF Init, Rows, Errors
<1>3. \A p \in Tasks : ~InSection(p)
  BY <1>1 DEF Init, InSection
<1>4. TypeOK
  BY <1>1, <1>2, <1>3, NoUpdateType, AccountsAssumption DEF Init, TypeOK, Errors
<1>5. Bounded
  BY <1>1, NoUpdateType DEF Init, Bounded
<1>6. Sections
  BY <1>1 DEF Init, Sections
<1>7. CarriesNewest
  BY <1>3 DEF CarriesNewest
<1> QED
  BY <1>4, <1>5, <1>6, <1>7 DEF IInv

LEMMA StutterKeeps ==
  ASSUME IInv, UNCHANGED vars
  PROVE  IInv'
<1>1. TypeOK'
  BY DEF IInv, TypeOK, InSection, vars, rowVars, providerVars, lockVars,
         taskVars,
         statusVars, bounds
<1>2. Bounded'
  BY DEF IInv, Bounded, vars, rowVars, providerVars, taskVars
<1>3. Sections'
  BY DEF IInv, Sections, vars, lockVars, taskVars
<1>4. CarriesNewest'
  BY DEF IInv, CarriesNewest, Carries, InSection, vars, rowVars, lockVars,
         taskVars
<1> QED
  BY <1>1, <1>2, <1>3, <1>4 DEF IInv

LEMMA NextKeeps ==
  ASSUME IInv, [Next]_vars
  PROVE  IInv'
<1>1. CASE \E p \in Tasks : TaskStep(p)
  <2>1. PICK p \in Tasks : TaskStep(p)
    BY <1>1
  <2> QED
    BY <2>1, LockKeeps, RefreshKeeps, ReadRowKeeps, WriteKeeps, SaveFailsKeeps,
       CallSucceedsKeeps, UnauthorizedKeeps, CallFailsKeeps DEF TaskStep
<1>2. CASE \E r \in Requests, n \in Nodes : BeginRequest(r, n)
  BY <1>2, BeginRequestKeeps
<1>3. CASE BeginCheck \/ Fallback \/ DisabledAlready \/ Publish
  BY <1>3, BeginCheckKeeps, FallbackKeeps, DisabledAlreadyKeeps, PublishKeeps
<1>4. CASE AdminCalls \/ AdminGivesUp
  BY <1>4, AdminCallsKeeps, AdminGivesUpKeeps
<1>5. CASE TokenGoesBad \/ FillWrite \/ EntryExpires
  BY <1>5, TokenGoesBadKeeps, FillWriteKeeps, EntryExpiresKeeps
<1>6. CASE \E n \in Nodes : Crash(n)
  BY <1>6, CrashKeeps
<1>7. CASE UNCHANGED vars
  BY <1>7, StutterKeeps
<1> QED
  BY <1>1, <1>2, <1>3, <1>4, <1>5, <1>6, <1>7 DEF Next

LEMMA Inductive == Spec => []IInv
  BY InitKeeps, NextKeeps, PTL DEF Spec

(* The variables keep their types: among them, that at most one task of a
   process is in the section of REFRESH_LOCKS (codex_refresh.rs), and that a
   task there is on its way to a write. *)
THEOREM TypeCorrect == Spec => []TypeOK
<1>1. IInv => TypeOK
  BY DEF IInv
<1> QED
  BY <1>1, Inductive, PTL

LEMMA WriteInSectionKeepsNewer ==
  ASSUME IInv, NEW p \in Tasks, Write(p), InSection(p), row'.gen < row.gen
  PROVE  p \in misled \cup overtaken
<1>1. /\ Carries(p) = rec[p].gen /\ row' = rec[p]
      /\ row' \in Rows /\ row \in Rows
  BY DEF Write, Carries, IInv, TypeOK, Bounded
<1>2. SUFFICES ASSUME p \notin misled \cup overtaken
               PROVE  FALSE
  OBVIOUS
<1>3. row'.gen >= row.gen
  BY <1>1, <1>2 DEF IInv, CarriesNewest
<1> QED
  BY <1>1, <1>3 DEF Rows, Generations

(* A save in the section of refresh_auth (codex_refresh.rs) never puts an older
   token over a newer one, unless a stale entry answered its reload or a writer
   the lock does not keep out wrote the row meanwhile. *)
THEOREM LockedWriteKeeps == Spec => RefreshKeepsNewerToken
<1> DEFINE A == \A p \in Tasks :
                  Write(p) /\ InSection(p) /\ row'.gen < row.gen
                    => p \in misled \cup overtaken
<1>1. IInv => [A]_vars
  BY WriteInSectionKeepsNewer
<1>2. Spec => [][A]_vars
  BY <1>1, Inductive, PTL
<1> QED
  BY <1>2 DEF RefreshKeepsNewerToken

================================================================================
