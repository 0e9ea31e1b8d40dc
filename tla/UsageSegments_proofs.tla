------------------------- MODULE UsageSegments_proofs -------------------------
(***************************************************************************)
(* Theorems about UsageSegments and the lookups of UsageCatalog, for every *)
(* set of events, every number of segments, sequences and attempts, and    *)
(* every set of faults.                                                    *)
(***************************************************************************)
EXTENDS UsageSegments, WellFoundedInduction, TLAPS

USE BoundsAssumption, SoughtAssumption

ActiveFiles == [seq : Nat, rows : SUBSET Events]

--------------------------------------------------------------------------------
(* The highest of a bounded set of numbers, for the choices of the start. *)

LEMMA LeastNumber ==
  ASSUME NEW S, S \subseteq Nat, S # {}
  PROVE  \E m \in S : \A n \in S : m <= n
<1> DEFINE Less == {p \in Nat \X Nat : p[1] < p[2]}
<1>1. IsWellFoundedOn(Less, Nat)
  BY NatLessThanWellFounded, Zenon DEF OpToRel
<1>2. PICK m \in S : \A n \in S : <<n, m>> \notin Less
  <2> HIDE DEF Less
  <2> QED
    BY <1>1, WFMin
<1>3. \A n \in S : <<n, m>> \in Nat \X Nat /\ <<n, m>>[1] = n /\ <<n, m>>[2] = m
  OBVIOUS
<1>4. \A n \in S : ~(n < m)
  BY <1>2, <1>3
<1> QED
  BY <1>4

(* By the least upper bound. *)
LEMMA HighestNumber ==
  ASSUME NEW S, S \subseteq Nat, S # {}, NEW bound \in Nat, \A n \in S : n < bound
  PROVE  \E m \in S : \A n \in S : n <= m
<1> DEFINE Bounds == {k \in Nat : \A n \in S : n < k}
<1>1. bound \in Bounds /\ Bounds \subseteq Nat
  OBVIOUS
<1>2. PICK k \in Bounds : \A j \in Bounds : k <= j
  <2> HIDE DEF Bounds
  <2> QED
    BY <1>1, LeastNumber
<1>3. k \in Nat /\ k - 1 \in Nat /\ \A n \in S : n < k
  <2>1. k \in Nat /\ \A n \in S : n < k
    BY <1>2
  <2>2. PICK n \in S : TRUE
    OBVIOUS
  <2>3. n \in Nat /\ n < k
    BY <2>1
  <2> QED
    BY <2>1, <2>3
<1>4. k - 1 \notin Bounds
  BY <1>2, <1>3
<1>5. PICK m \in S : ~(m < k - 1)
  BY <1>3, <1>4
<1> QED
  BY <1>3, <1>5

--------------------------------------------------------------------------------
(* The operators the actions are built from. *)

LEMMA IdsAndRows ==
  ASSUME NEW S
  PROVE  /\ \A i : i \in IdsOf(S) <=> \E s \in S : s.id = i
         /\ \A e : e \in RowsOf(S) <=> \E s \in S : e \in s.rows
BY DEF IdsOf, RowsOf

LEMMA CreatedEffect ==
  ASSUME NEW n \in Nat
  PROVE  /\ active \subseteq Created(n)
         /\ \E a \in Created(n) : a.seq = n
         /\ \A a \in Created(n) : a \in active \/ (a.seq = n /\ a.rows = {})
         /\ (\E a \in active : a.seq = n) => Created(n) = active
         /\ \A a, b \in Created(n) :
              a.seq = b.seq /\ ~(a \in active /\ b \in active) => a = b
         /\ active \subseteq ActiveFiles => Created(n) \subseteq ActiveFiles
<1> DEFINE new == [seq |-> n, rows |-> {}]
<1>1. new.seq = n /\ new.rows = {} /\ new \in ActiveFiles
  BY DEF ActiveFiles
<1>2. CASE \E a \in active : a.seq = n
  <2>1. Created(n) = active
    BY <1>2 DEF Created
  <2> QED
    BY <1>2, <2>1
<1>3. CASE ~ \E a \in active : a.seq = n
  <2>1. Created(n) = active \cup {new}
    BY <1>3 DEF Created
  <2> HIDE DEF new
  <2> QED
    BY <1>1, <1>3, <2>1
<1> QED
  BY <1>2, <1>3

LEMMA InsertedEffect ==
  ASSUME active \subseteq ActiveFiles, app.event \in Events
  PROVE  /\ Inserted \subseteq ActiveFiles
         /\ \A a \in active : \E b \in Inserted :
              /\ b.seq = a.seq /\ a.rows \subseteq b.rows
              /\ a.seq = app.file => app.event \in b.rows
         /\ \A b \in Inserted : \E a \in active :
              /\ b.seq = a.seq
              /\ b = IF a.seq = app.file THEN [a EXCEPT !.rows = @ \cup {app.event}] ELSE a
<1>1. \A a \in active : a \in ActiveFiles
  OBVIOUS
<1> DEFINE New(a) == IF a.seq = app.file THEN [a EXCEPT !.rows = @ \cup {app.event}] ELSE a
<1>2. \A a \in active :
        /\ New(a) \in ActiveFiles /\ New(a).seq = a.seq /\ a.rows \subseteq New(a).rows
        /\ a.seq = app.file => app.event \in New(a).rows
  BY <1>1 DEF ActiveFiles
<1>3. Inserted = {New(a) : a \in active}
  BY DEF Inserted
<1> QED
  BY <1>2, <1>3

LEMMA BumpEffect ==
  ASSUME CatalogTypeOK, BumpGeneration
  PROVE  /\ CatalogTypeOK' /\ catalog' = catalog
         /\ \/ behind' = FALSE /\ cached' = {} /\ lookup' = [lookup EXCEPT !.current = FALSE]
            \/ UNCHANGED <<behind, cached, lookup>>
BY DEF CatalogTypeOK, BumpGeneration, catalogVars

LEMMA CommitEffect ==
  ASSUME CatalogTypeOK, NEW s \in Segments, CommitSegment(s)
  PROVE  CatalogTypeOK'
BY DEF CatalogTypeOK, CommitSegment

LEMMA DeleteEffect ==
  ASSUME CatalogTypeOK, NEW S, DeleteSegments(S)
  PROVE  CatalogTypeOK'
BY DEF CatalogTypeOK, DeleteSegments

LEMMA CatalogStutters ==
  ASSUME CatalogTypeOK, UNCHANGED <<catalogVars, lookup>>
  PROVE  CatalogTypeOK'
BY DEF CatalogTypeOK, catalogVars

LEMMA WithIdEffect ==
  ASSUME NEW S, NEW i
  PROVE  WithId(S, i) \subseteq S /\ \A s \in WithId(S, i) : s.id = i
BY DEF WithId

LEMMA IdsAreNumbers ==
  ASSUME NEW S \in SUBSET Segments
  PROVE  IdsOf(S) \subseteq Nat
BY DEF IdsOf, Segments

LEMMA NoOnesType ==
  /\ NoAppend \in [step : AppendSteps, event : Events, after : AppendSteps, file : Nat]
  /\ NoSealer \in [id : Nat, step : SealerSteps, failures : 0..(Attempts - 1)]
  /\ NoRetention \in
       [step : RetentionSteps, doomed : SUBSET Segments, known : SUBSET Nat]
  /\ NoLookup \in [step : LookupSteps, event : Events, current : BOOLEAN,
                   ids : SUBSET Nat, owed : BOOLEAN]
BY DEF NoAppend, NoSealer, NoRetention, NoLookup, AppendSteps, SealerSteps,
       RetentionSteps, LookupSteps

--------------------------------------------------------------------------------
(* Types.  A start takes the highest active sequence or the one after the segment
   sealed last, so both must exist. *)

ActiveBelow ==
  /\ \A a \in active : a.seq < tier.nextSeq
  /\ tier.path < tier.nextSeq

IdsBelow == \A s \in pending \cup archive \cup catalog \cup ret.doomed : s.id < nextId

TypedInv == TypeOK /\ ActiveBelow /\ IdsBelow

LEMMA InitTypes == Init => TypedInv
<1>1. Init => TypeOK
  <2> SUFFICES ASSUME Init PROVE TypeOK
    OBVIOUS
  <2>1. CatalogTypeOK
    BY NoOnesType DEF Init, CatalogInit, CatalogTypeOK
  <2>2. tier \in [path : Nat, nextSeq : Nat, hasRows : BOOLEAN]
    BY DEF Init
  <2>3. nextId \in 1..(MaxSegments + 1)
    BY DEF Init
  <2> QED
    BY <2>1, <2>2, <2>3, NoOnesType DEF Init, TypeOK
<1>2. Init => ActiveBelow /\ IdsBelow
  BY DEF Init, CatalogInit, ActiveBelow, IdsBelow, NoRetention
<1> QED
  BY <1>1, <1>2 DEF TypedInv

LEMMA RenameTypes ==
  ASSUME TypedInv, RenameActive
  PROVE  /\ active' \subseteq active
         /\ pending' \subseteq Segments /\ nextId' \in 1..(MaxSegments + 1)
         /\ tier' \in [path : Nat, nextSeq : Nat, hasRows : BOOLEAN]
         /\ tier'.nextSeq = tier.nextSeq + 1 /\ tier'.path = tier.path
         /\ ActiveBelow' /\ IdsBelow'
         /\ UNCHANGED <<appendRest, sealers, sealer, historyVars>>
<1> USE DEF TypedInv, TypeOK, CatalogTypeOK
<1>1. PICK a \in active :
        /\ active' = active \ {a}
        /\ pending' = pending \cup {[id |-> nextId, seq |-> a.seq, rows |-> a.rows]}
  BY DEF RenameActive, Current
<1>2. /\ nextId \in 1..MaxSegments /\ nextId' = nextId + 1
      /\ tier' = [tier EXCEPT !.nextSeq = @ + 1]
      /\ UNCHANGED <<appendRest, sealers, sealer, historyVars>>
  BY DEF RenameActive
<1>3. /\ tier' \in [path : Nat, nextSeq : Nat, hasRows : BOOLEAN]
      /\ tier'.nextSeq = tier.nextSeq + 1 /\ tier'.path = tier.path
      /\ tier.nextSeq \in Nat /\ tier.path \in Nat
  BY <1>2
<1> DEFINE new == [id |-> nextId, seq |-> a.seq, rows |-> a.rows]
<1>4. new \in Segments /\ new.id = nextId
  BY <1>2 DEF Segments
<1>5. ActiveBelow'
  <2>1. \A b \in active : b.seq \in Nat
    OBVIOUS
  <2> QED
    BY <1>1, <1>3, <2>1 DEF ActiveBelow
<1>6. IdsBelow'
  <2>1. UNCHANGED <<archive, catalog, ret>>
    BY <1>2 DEF appendRest, catalogVars
  <2>2. \A s \in pending \cup archive \cup catalog \cup ret.doomed : s.id \in Nat
    BY DEF Segments
  <2> HIDE DEF new
  <2>3. \A s \in pending' : s \in pending \/ s.id = nextId
    BY <1>1, <1>4 DEF new
  <2> QED
    BY <1>2, <2>1, <2>2, <2>3 DEF IdsBelow
<1> QED
  BY <1>1, <1>2, <1>3, <1>4, <1>5, <1>6

LEMMA CreatedTypes ==
  ASSUME TypeOK, ActiveBelow, NEW n \in Nat, n < tier'.nextSeq, active' = Created(n),
         tier.nextSeq <= tier'.nextSeq, tier'.path < tier'.nextSeq,
         tier'.nextSeq \in Nat
  PROVE  active' \subseteq ActiveFiles /\ ActiveBelow'
<1>1. active \subseteq ActiveFiles /\ tier.nextSeq \in Nat
  BY DEF TypeOK, ActiveFiles
<1>2. active' \subseteq ActiveFiles
  BY <1>1, CreatedEffect
<1>3. \A a \in active' : a.seq < tier'.nextSeq
  <2>1. \A a \in active' : a \in active \/ a.seq = n
    BY CreatedEffect
  <2>2. \A a \in active : a.seq \in Nat /\ a.seq < tier.nextSeq
    BY <1>1 DEF ActiveBelow, ActiveFiles
  <2> QED
    BY <1>1, <2>1, <2>2
<1> QED
  BY <1>2, <1>3 DEF ActiveBelow

(* Steps that leave the files and the rest of the catalog alone. *)
LEMMA IdsStutter ==
  ASSUME IdsBelow, UNCHANGED nextId,
         pending' \subseteq pending, archive' \subseteq pending \cup archive,
         catalog' \subseteq pending \cup archive \cup catalog,
         ret'.doomed \subseteq archive \cup catalog \cup ret.doomed
  PROVE  IdsBelow'
BY DEF IdsBelow

LEMMA AppendTypes ==
  ASSUME TypedInv, Append
  PROVE  TypedInv'
<1> USE DEF TypedInv, TypeOK, appendRest, historyVars, ActiveFiles, AppendSteps
<1>1. tier.path \in Nat /\ tier.nextSeq \in Nat /\ tier.path < tier.nextSeq
  BY DEF ActiveBelow
<1>2. tier.nextSeq - 1 \in Nat /\ nextId - 1 \in Nat
  BY <1>1
<1>3. ASSUME NEW e \in Events, BeginAppend(e) PROVE TypedInv'
  <2>1. active' = Created(tier.path) /\ app' = Inserting(e, tier.path)
    BY <1>3 DEF BeginAppend
  <2>2. /\ UNCHANGED <<appendRest, pending, nextId, tier, sealers, sealer, historyVars>>
        /\ gate' = "append"
    BY <1>3 DEF BeginAppend
  <2>3. active' \subseteq ActiveFiles /\ ActiveBelow'
    BY <1>1, <2>1, <2>2, CreatedTypes
  <2>4. IdsBelow'
    BY <2>2, IdsStutter DEF catalogVars
  <2>5. app' \in [step : AppendSteps, event : Events, after : AppendSteps, file : Nat]
    BY <1>1, <2>1 DEF Inserting
  <2> QED
    BY <2>2, <2>3, <2>4, <2>5, CatalogStutters
<1>4. ASSUME NEW e \in Events, RolloverFirst(e) PROVE TypedInv'
  <2>1. RenameActive /\ gate' = "append"
        /\ app' = [step |-> "init", event |-> e, after |-> "insert", file |-> 0]
    BY <1>4 DEF RolloverFirst
  <2>2. app' \in [step : AppendSteps, event : Events, after : AppendSteps, file : Nat]
    BY <2>1
  <2> QED
    BY <2>1, <2>2, RenameTypes, CatalogStutters
<1>5. CASE RolloverAfter
  <2>1. RenameActive /\ UNCHANGED gate /\ app' = [app EXCEPT !.step = "init"]
    BY <1>5 DEF RolloverAfter
  <2> QED
    BY <2>1, RenameTypes, CatalogStutters
<1>6. CASE InitActive
  <2>1. /\ active' = Created(tier.nextSeq - 1)
        /\ tier' = [tier EXCEPT !.path = tier.nextSeq - 1, !.hasRows = FALSE]
        /\ sealers' = sealers \cup {nextId - 1}
        /\ UNCHANGED <<appendRest, pending, nextId, sealer, abandoned, raced>>
    BY <1>6 DEF InitActive
  <2>2. tier'.nextSeq = tier.nextSeq /\ tier'.path = tier.nextSeq - 1
    BY <2>1
  <2>3. active' \subseteq ActiveFiles /\ ActiveBelow'
    BY <1>1, <1>2, <2>1, <2>2, CreatedTypes
  <2>4. IdsBelow'
    BY <2>1, IdsStutter DEF catalogVars
  <2>5. /\ app' \in [step : AppendSteps, event : Events, after : AppendSteps, file : Nat]
        /\ gate' \in {"free", "append", "retention"} /\ acked' \subseteq Events
    BY <1>2, <1>6, NoOnesType DEF InitActive, Inserting, Acknowledge, AppendEnds
  <2>6. tier' \in [path : Nat, nextSeq : Nat, hasRows : BOOLEAN] /\ sealers' \subseteq Nat
    BY <1>2, <2>1
  <2> QED
    BY <2>1, <2>3, <2>4, <2>5, <2>6, CatalogStutters
<1>7. CASE InitActiveFails
  <2>1. /\ gate' = "free" /\ app' = NoAppend /\ abandoned' = abandoned \cup {nextId - 1}
        /\ UNCHANGED <<appendRest, pending, nextId, tier, sealers, sealer, acked, raced>>
        /\ active' = active \/ active' = Created(tier.nextSeq - 1)
    BY <1>7 DEF InitActiveFails, AppendEnds
  <2>2. active' \subseteq ActiveFiles /\ ActiveBelow'
    <3>1. CASE active' = Created(tier.nextSeq - 1)
      BY <1>1, <1>2, <2>1, <3>1, CreatedTypes
    <3>2. CASE active' = active
      BY <2>1, <3>2 DEF ActiveBelow
    <3> QED
      BY <2>1, <3>1, <3>2
  <2>3. IdsBelow'
    BY <2>1, IdsStutter DEF catalogVars
  <2> QED
    BY <1>2, <2>1, <2>2, <2>3, NoOnesType, CatalogStutters
<1>8. Inserted \subseteq ActiveFiles /\ \A b \in Inserted : \E a \in active : b.seq = a.seq
  BY InsertedEffect
<1>9. CASE Insert
  <2>1. /\ active' = Inserted /\ tier' = [tier EXCEPT !.hasRows = TRUE]
        /\ UNCHANGED <<appendRest, pending, nextId, sealers, sealer, abandoned, raced>>
    BY <1>9 DEF Insert
  <2>2. ActiveBelow'
    BY <1>8, <2>1 DEF ActiveBelow
  <2>3. IdsBelow'
    BY <2>1, IdsStutter DEF catalogVars
  <2>4. /\ app' \in [step : AppendSteps, event : Events, after : AppendSteps, file : Nat]
        /\ gate' \in {"free", "append", "retention"} /\ acked' \subseteq Events
    BY <1>9, NoOnesType DEF Insert, Acknowledge, AppendEnds
  <2> QED
    BY <1>8, <2>1, <2>2, <2>3, <2>4, CatalogStutters
<1>10. CASE InsertFails
  <2>1. /\ gate' = "free" /\ app' = NoAppend /\ active' \in {active, Inserted}
        /\ UNCHANGED <<appendRest, pending, nextId, tier, sealers, sealer, historyVars>>
    BY <1>10 DEF InsertFails, AppendEnds
  <2>2. ActiveBelow'
    BY <1>8, <2>1 DEF ActiveBelow
  <2>3. IdsBelow'
    BY <2>1, IdsStutter DEF catalogVars
  <2> QED
    BY <1>8, <2>1, <2>2, <2>3, NoOnesType, CatalogStutters
<1> QED
  BY <1>3, <1>4, <1>5, <1>6, <1>7, <1>9, <1>10 DEF Append, Appending

LEMMA JudgeTypes ==
  ASSUME TypedInv, JudgeActive, UNCHANGED <<catalogVars, lookup, archive, app, raced>>,
         UNCHANGED retentionRest
  PROVE  TypedInv'
<1> USE DEF TypedInv, TypeOK, retentionRest, ActiveFiles, RetentionSteps
<1>1. tier.path \in Nat /\ tier.nextSeq \in Nat /\ tier.path < tier.nextSeq
  BY DEF ActiveBelow
<1>2. ret'.doomed = ret.doomed /\ ret'.known = ret.known /\ ret'.step \in RetentionSteps
      /\ ret' \in [step : RetentionSteps, doomed : SUBSET Segments, known : SUBSET Nat]
  BY DEF JudgeActive
<1>3. IdsBelow'
  BY <1>2, IdsStutter DEF catalogVars
<1>4. /\ tier' \in [path : Nat, nextSeq : Nat, hasRows : BOOLEAN]
      /\ tier'.path = tier.path
      /\ tier'.nextSeq = tier.nextSeq \/ tier'.nextSeq = tier.nextSeq + 1
  <2>1. tier' \in {tier, [tier EXCEPT !.hasRows = FALSE], [tier EXCEPT !.nextSeq = @ + 1]}
    BY DEF JudgeActive
  <2>2. CASE tier' = [tier EXCEPT !.nextSeq = @ + 1]
    BY <1>1, <2>2
  <2>3. CASE tier' = [tier EXCEPT !.hasRows = FALSE]
    BY <2>3
  <2> QED
    BY <2>1, <2>2, <2>3
<1>5. active' \subseteq ActiveFiles /\ ActiveBelow'
  <2>1. CASE active' = Created(tier.path)
    BY <1>1, <1>4, <2>1, CreatedTypes
  <2>2. CASE active' \subseteq active
    <3>1. \A a \in active : a.seq \in Nat
      OBVIOUS
    <3> QED
      BY <1>1, <1>4, <2>2, <3>1 DEF ActiveBelow
  <2> QED
    BY <2>1, <2>2 DEF JudgeActive
<1>6. gate' \in {"free", "append", "retention"}
  BY DEF JudgeActive
<1> QED
  BY <1>2, <1>3, <1>4, <1>5, <1>6, CatalogStutters

LEMMA RetentionTypes ==
  ASSUME TypedInv, Retention
  PROVE  TypedInv'
<1> USE DEF TypedInv, TypeOK, pruneRest, retentionRest, ActiveFiles, RetentionSteps
<1>1. tier.path \in Nat /\ tier.nextSeq \in Nat /\ tier.path < tier.nextSeq
      /\ tier.nextSeq - 1 \in Nat
  BY DEF ActiveBelow
<1>2. \A d : ret.doomed \ d \in SUBSET Segments
  OBVIOUS
<1>3. CASE CheckActive
  BY <1>3, JudgeTypes DEF CheckActive
<1>4. CASE ReplaceActive
  <2>1. /\ active' = Created(tier.nextSeq - 1)
        /\ tier' = [tier EXCEPT !.path = tier.nextSeq - 1, !.hasRows = FALSE]
        /\ gate' = "free" /\ ret' = [ret EXCEPT !.step = "catalog"]
        /\ UNCHANGED <<catalogVars, lookup, archive, app, raced, retentionRest>>
    BY <1>4 DEF ReplaceActive
  <2>2. /\ tier'.nextSeq = tier.nextSeq /\ tier'.path = tier.nextSeq - 1
        /\ tier' \in [path : Nat, nextSeq : Nat, hasRows : BOOLEAN]
    BY <1>1, <2>1
  <2>3. active' \subseteq ActiveFiles /\ ActiveBelow'
    BY <1>1, <2>1, <2>2, CreatedTypes
  <2>4. ret'.doomed = ret.doomed
        /\ ret' \in [step : RetentionSteps, doomed : SUBSET Segments, known : SUBSET Nat]
    BY <2>1
  <2>5. IdsBelow'
    BY <2>1, <2>4, IdsStutter DEF catalogVars
  <2> QED
    BY <2>1, <2>2, <2>3, <2>4, <2>5, CatalogStutters
<1>5. CASE ReplaceActiveFails
  <2>1. /\ active' = active \/ active' = Created(tier.nextSeq - 1)
        /\ gate' = "free" /\ ret' = NoRetention
        /\ UNCHANGED <<catalogVars, lookup, archive, tier, app, raced, retentionRest>>
    BY <1>5 DEF ReplaceActiveFails
  <2>2. active' \subseteq ActiveFiles /\ ActiveBelow'
    <3>1. CASE active' = Created(tier.nextSeq - 1)
      BY <1>1, <2>1, <3>1, CreatedTypes
    <3>2. CASE active' = active
      BY <2>1, <3>2 DEF ActiveBelow
    <3> QED
      BY <2>1, <3>1, <3>2
  <2>3. IdsBelow'
    BY <2>1, IdsStutter DEF catalogVars, NoRetention
  <2> QED
    BY <2>1, <2>2, <2>3, NoOnesType, CatalogStutters
<1>6. CASE DeleteExpired
  <2>1. /\ DeleteSegments(Expired(catalog))
        /\ UNCHANGED <<pruneRest, archive, raced>>
        /\ ret' = [ret EXCEPT !.doomed = Expired(catalog),
                             !.step = IF Expired(catalog) = {} THEN "paths" ELSE "bump"]
    BY <1>6 DEF DeleteExpired
  <2>2. Expired(catalog) \subseteq catalog /\ catalog' \subseteq catalog
    BY <2>1 DEF Expired, DeleteSegments
  <2>3. ret'.doomed = Expired(catalog)
        /\ ret' \in [step : RetentionSteps, doomed : SUBSET Segments, known : SUBSET Nat]
    BY <2>1, <2>2 DEF CatalogTypeOK
  <2>4. IdsBelow'
    BY <2>1, <2>2, <2>3, IdsStutter
  <2>5. ActiveBelow'
    BY <2>1 DEF ActiveBelow
  <2> QED
    BY <2>1, <2>3, <2>4, <2>5, DeleteEffect
<1>7. CASE AnnounceDeletion
  <2>1. /\ BumpGeneration /\ ret' = [ret EXCEPT !.step = "files"]
        /\ UNCHANGED <<pruneRest, archive, raced>>
    BY <1>7 DEF AnnounceDeletion
  <2>2. ret'.doomed = ret.doomed
        /\ ret' \in [step : RetentionSteps, doomed : SUBSET Segments, known : SUBSET Nat]
    BY <2>1
  <2>3. IdsBelow' /\ ActiveBelow'
    BY <2>1, <2>2, BumpEffect, IdsStutter DEF ActiveBelow
  <2> QED
    BY <2>1, <2>2, <2>3, BumpEffect
<1>8. CASE RemoveExpiredFile \/ ReadPaths \/ ListArchive \/ RemoveOrphan \/ RetentionFails
  <2>1. UNCHANGED <<catalogVars, lookup, pruneRest>> /\ archive' \subseteq archive
    BY <1>8 DEF RemoveExpiredFile, ReadPaths, ListArchive, RemoveOrphan, RetentionFails
  <2>2. \A S : S \subseteq Segments => IdsOf(S) \subseteq Nat
    BY IdsAreNumbers
  <2>3. raced' \subseteq Nat
    BY <1>8, <2>2, WithIdEffect
       DEF RemoveExpiredFile, ReadPaths, ListArchive, RemoveOrphan, RetentionFails,
           CatalogTypeOK
  <2>4. ret' \in [step : RetentionSteps, doomed : SUBSET Segments, known : SUBSET Nat]
        /\ ret'.doomed \subseteq archive \cup ret.doomed
    <3>1. CASE RemoveExpiredFile
      <4> PICK s \in ret.doomed :
            ret' = [ret EXCEPT !.doomed = @ \ {s},
                              !.step = IF ret.doomed = {s} THEN "paths" ELSE "files"]
        BY <3>1 DEF RemoveExpiredFile
      <4> QED
        OBVIOUS
    <3>2. CASE ReadPaths
      BY <2>2, <3>2 DEF ReadPaths, CatalogTypeOK
    <3>3. CASE ListArchive
      BY <3>3, NoOnesType DEF ListArchive, NoRetention
    <3>4. CASE RemoveOrphan
      BY <1>2, <3>4, NoOnesType DEF RemoveOrphan, NoRetention
    <3>5. CASE RetentionFails
      BY <3>5, NoOnesType DEF RetentionFails, NoRetention
    <3> QED
      BY <1>8, <3>1, <3>2, <3>3, <3>4, <3>5
  <2>5. IdsBelow' /\ ActiveBelow'
    BY <2>1, <2>4, IdsStutter DEF ActiveBelow, catalogVars
  <2> QED
    BY <2>1, <2>3, <2>4, <2>5, CatalogStutters
<1> QED
  BY <1>3, <1>4, <1>5, <1>6, <1>7, <1>8 DEF Retention, Maintenance

LEMMA SealTypes ==
  ASSUME TypedInv, Seal
  PROVE  TypedInv'
<1> USE DEF TypedInv, TypeOK, sealRest, SealerSteps
<1>1. sealer.id \in Nat /\ 0 \in 0..(Attempts - 1)
  OBVIOUS
<1>2. /\ UNCHANGED sealRest
      /\ pending' \subseteq pending /\ archive' \subseteq pending \cup archive
      /\ catalog' \subseteq pending \cup archive \cup catalog
  BY BumpEffect
     DEF Seal, TakeSealerLock, ArchiveSegment, CollectEvents, Publish, AnnounceSegment,
         RemovePending, AttemptFails, CommitSegment, WithId, catalogVars
<1>3. ActiveBelow' /\ IdsBelow'
  BY <1>2, IdsStutter DEF ActiveBelow
<1>4. CatalogTypeOK'
  <2>1. CASE Publish
    <3>1. PICK s \in pending : CommitSegment(s)
      BY <2>1 DEF Publish, WithId
    <3> QED
      BY <3>1, CommitEffect
  <2> QED
    BY <2>1, BumpEffect, CatalogStutters
       DEF Seal, TakeSealerLock, ArchiveSegment, CollectEvents, AnnounceSegment,
           RemovePending, AttemptFails
<1>5. sealers' \subseteq Nat /\ raced' \subseteq Nat /\ abandoned' \subseteq Nat
  BY <1>1
     DEF Seal, TakeSealerLock, ArchiveSegment, CollectEvents, Publish, AnnounceSegment,
         RemovePending, AttemptFails
<1>6. sealer' \in [id : Nat, step : SealerSteps, failures : 0..(Attempts - 1)]
  <2>1. CASE TakeSealerLock
    BY <1>1, <2>1 DEF TakeSealerLock
  <2>2. CASE ArchiveSegment \/ CollectEvents \/ Publish \/ AnnounceSegment
    BY <2>2 DEF ArchiveSegment, CollectEvents, Publish, AnnounceSegment, SealerGoes
  <2>3. CASE RemovePending
    BY <2>3, NoOnesType DEF RemovePending
  <2>4. CASE AttemptFails
    <3>1. CASE sealer.failures + 1 < Attempts
      <4>1. sealer' = [sealer EXCEPT !.step = "look", !.failures = @ + 1]
        BY <2>4, <3>1 DEF AttemptFails
      <4>2. sealer.failures + 1 \in 0..(Attempts - 1)
        BY <3>1
      <4> QED
        BY <4>1, <4>2
    <3>2. CASE ~(sealer.failures + 1 < Attempts)
      BY <2>4, <3>2, NoOnesType DEF AttemptFails
    <3> QED
      BY <3>1, <3>2
  <2> QED
    BY <2>1, <2>2, <2>3, <2>4 DEF Seal
<1> QED
  BY <1>2, <1>3, <1>4, <1>5, <1>6

LEMMA LastSequenceIsNumber ==
  ASSUME nextId \in Nat, catalog' \subseteq Segments, \A s \in catalog' : s.id < nextId
  PROVE  LastSequence' \in Nat
<1>1. CASE catalog' = {}
  BY <1>1 DEF LastSequence
<1>2. CASE catalog' # {}
  <2> DEFINE ids == {s.id : s \in catalog'}
  <2>1. \A s \in catalog' : s.id \in Nat /\ s.seq \in Nat
    BY DEF Segments
  <2>2. \E m \in ids : \A n \in ids : n <= m
    <3>1. ids \subseteq Nat /\ ids # {} /\ \A n \in ids : n < nextId
      BY <1>2, <2>1
    <3> HIDE DEF ids
    <3> QED
      BY <3>1, HighestNumber
  <2>3. \E s \in catalog' : \A t \in catalog' : t.id <= s.id
    BY <2>2
  <2> QED
    BY <1>2, <2>1, <2>3 DEF LastSequence
<1> QED
  BY <1>1, <1>2

LEMMA HighestActive ==
  ASSUME TypedInv, active # {}
  PROVE  \E a \in active : /\ a.seq = ChosenPath
                           /\ \A b \in active : b.seq <= a.seq
<1> DEFINE seqs == {a.seq : a \in active}
<1>1. tier.nextSeq \in Nat /\ \A a \in active : a.seq \in Nat /\ a.seq < tier.nextSeq
  BY DEF TypedInv, TypeOK, ActiveBelow
<1>2. \E m \in seqs : \A n \in seqs : n <= m
  <2>1. seqs \subseteq Nat /\ seqs # {} /\ \A n \in seqs : n < tier.nextSeq
    BY <1>1
  <2> HIDE DEF seqs
  <2> QED
    BY <1>1, <2>1, HighestNumber
<1>3. \E a \in active : \A b \in active : b.seq <= a.seq
  BY <1>2
<1> QED
  BY <1>3 DEF ChosenPath

(* The path a start chooses is not below any active file. *)
LEMMA ChosenIsHighest ==
  ASSUME TypedInv, LastSequence' \in Nat
  PROVE  ChosenPath \in Nat /\ \A a \in active : a.seq <= ChosenPath
<1>1. CASE active = {}
  <2>1. PICK n \in Nat : n = LastSequence'
    OBVIOUS
  <2>2. ChosenPath = n + 1
    BY <1>1, <2>1 DEF ChosenPath
  <2> QED
    BY <1>1, <2>2
<1>2. CASE active # {}
  BY <1>2, HighestActive DEF TypedInv, TypeOK
<1> QED
  BY <1>1, <1>2

LEMMA StartTypes ==
  ASSUME TypedInv, Start
  PROVE  TypedInv'
<1> USE DEF TypedInv, TypeOK, historyVars, ActiveFiles
<1>1. /\ active' = Created(ChosenPath) /\ sealers' = IdsOf(pending) /\ up' = TRUE
      /\ tier' = [path |-> ChosenPath, nextSeq |-> ChosenPath + 1,
                  hasRows |-> active # {}]
      /\ UNCHANGED <<lookup, pending, archive, nextId, gate, app, sealer, ret,
                     expired, historyVars>>
  BY DEF Start
<1>2. \/ catalog' = archive /\ behind' = FALSE /\ cached' = {}
      \/ UNCHANGED <<catalog, behind, cached>>
  BY DEF Start, catalogVars
<1>3. CatalogTypeOK'
  BY <1>1, <1>2 DEF CatalogTypeOK
<1>4. LastSequence' \in Nat
  BY <1>2, <1>3, LastSequenceIsNumber DEF IdsBelow, CatalogTypeOK
<1>5. ChosenPath \in Nat /\ \A a \in active : a.seq <= ChosenPath
  BY <1>4, ChosenIsHighest
<1> HIDE DEF TypedInv
<1>6. active' \subseteq ActiveFiles /\ ActiveBelow'
  <2>1. active \subseteq ActiveFiles
    BY DEF TypedInv
  <2>2. \A a \in active' : a.seq \in Nat /\ a.seq <= ChosenPath
    BY <1>1, <1>5, <2>1, CreatedEffect
  <2>3. tier'.path = ChosenPath /\ tier'.nextSeq = ChosenPath + 1
    BY <1>1
  <2> QED
    BY <1>1, <1>5, <2>1, <2>2, <2>3, CreatedEffect DEF ActiveBelow
<1>7. IdsBelow'
  BY <1>1, <1>2, IdsStutter DEF TypedInv
<1>8. tier' \in [path : Nat, nextSeq : Nat, hasRows : BOOLEAN]
  BY <1>1, <1>5
<1>9. sealers' \subseteq Nat
  BY <1>1, IdsAreNumbers DEF TypedInv
<1> QED
  BY <1>1, <1>3, <1>6, <1>7, <1>8, <1>9 DEF TypedInv

LEMMA LookupTypes ==
  ASSUME CatalogTypeOK, Lookup
  PROVE  CatalogTypeOK' /\ UNCHANGED catalog
<1> USE DEF CatalogTypeOK, catalogVars, LookupSteps
<1>1. \A S : S \subseteq Segments => IdsOf(S) \subseteq Nat
  BY IdsAreNumbers
<1>2. ASSUME NEW e \in Sought, LocateHit(e) PROVE CatalogTypeOK' /\ UNCHANGED catalog
  BY <1>2 DEF LocateHit, Owed
<1>3. ASSUME NEW e \in Sought, LocateMiss(e) PROVE CatalogTypeOK' /\ UNCHANGED catalog
  BY <1>3 DEF LocateMiss, Owed
<1>4. CASE LoadLocator
  <2>1. PICK ids \in Located(lookup.event) :
          lookup' = [lookup EXCEPT !.step = "write", !.ids = ids]
    BY <1>4 DEF LoadLocator
  <2>2. ids \subseteq Nat
    BY DEF Located, Segments
  <2> QED
    BY <1>4, <2>1, <2>2 DEF LoadLocator
<1>5. CASE WriteLocator
  BY <1>5 DEF WriteLocator
<1>6. CASE OpenLocated
  BY <1>6, NoOnesType DEF OpenLocated
<1> QED
  BY <1>2, <1>3, <1>4, <1>5, <1>6 DEF Lookup

LEMMA LifeTypes ==
  ASSUME TypedInv, Crash \/ SeedInterrupted \/ Expire \/ Read \/ CachedExpires
  PROVE  TypedInv'
<1> USE DEF TypedInv, TypeOK, fileVars, historyVars, storeVars
<1>1. /\ UNCHANGED <<active, pending, archive, nextId, tier>>
      /\ catalog' \subseteq catalog \cup archive
      /\ ret' \in {ret, NoRetention}
  BY LookupTypes
     DEF Crash, SeedInterrupted, Expire, Read, CachedExpires, CacheExpires, catalogVars
<1>2. IdsBelow' /\ ActiveBelow'
  BY <1>1, IdsStutter DEF ActiveBelow, NoRetention
<1>3. CASE Crash
  BY <1>1, <1>2, <1>3, NoOnesType DEF Crash, CatalogTypeOK, catalogVars
<1>4. CASE SeedInterrupted
  BY <1>1, <1>2, <1>4 DEF SeedInterrupted, CatalogTypeOK
<1>5. CASE Expire
  BY <1>1, <1>2, <1>5, CatalogStutters DEF Expire
<1>6. CASE Read
  BY <1>1, <1>2, <1>6, LookupTypes DEF Read
<1>7. CASE CachedExpires
  <2>1. CatalogTypeOK'
    BY <1>7 DEF CachedExpires, CacheExpires, CatalogTypeOK
  <2> QED
    BY <1>1, <1>2, <1>7, <2>1 DEF CachedExpires
<1> QED
  BY <1>3, <1>4, <1>5, <1>6, <1>7

LEMMA StutterTypes ==
  ASSUME TypedInv, UNCHANGED vars
  PROVE  TypedInv'
BY DEF TypedInv, TypeOK, CatalogTypeOK, ActiveBelow, IdsBelow, vars, catalogVars,
       fileVars, historyVars

LEMMA Typed == Spec => []TypedInv
<1>1. TypedInv /\ [Next]_vars => TypedInv'
  BY AppendTypes, RetentionTypes, SealTypes, StartTypes, LifeTypes, StutterTypes
     DEF Next
<1> QED
  BY InitTypes, <1>1, PTL DEF Spec

--------------------------------------------------------------------------------
(* Who holds the gate, and what a process that is down does not do. *)

ControlInv ==
  /\ (gate = "append") <=> (app.step # "idle")
  /\ (gate = "retention") <=> (ret.step = "init")
  /\ ~up => /\ app.step = "idle" /\ sealers = {} /\ sealer.step = "idle"
            /\ ret.step = "idle" /\ lookup.step = "idle"

LEMMA InitControl == Init => ControlInv
BY DEF Init, CatalogInit, ControlInv, NoAppend, NoSealer, NoRetention, NoLookup

LEMMA AppendControl ==
  ASSUME TypedInv, ControlInv, Append
  PROVE  ControlInv'
<1> USE DEF ControlInv, appendRest
<1>1. /\ app \in [step : AppendSteps, event : Events, after : AppendSteps, file : Nat]
      /\ NoAppend.step = "idle"
      /\ \A e, n : Inserting(e, n).step = "insert"
  BY DEF TypedInv, TypeOK, NoAppend, Inserting
<1>2. up /\ UNCHANGED <<lookup, up, ret, sealer>> /\ gate # "retention"
  BY DEF Append, Appending, BeginAppend, RolloverFirst, RolloverAfter, InitActive, Insert,
         InitActiveFails, InsertFails, RenameActive, MayAppend
<1>3. \/ gate' = "append" /\ app'.step \in {"init", "insert", "full"}
      \/ gate' = "free" /\ app'.step = "idle"
  <2>1. ASSUME NEW e \in Events, BeginAppend(e) \/ RolloverFirst(e)
        PROVE  gate' = "append" /\ app'.step \in {"init", "insert", "full"}
    BY <1>1, <2>1 DEF BeginAppend, RolloverFirst
  <2>2. CASE RolloverAfter
    BY <1>1, <2>2 DEF RolloverAfter
  <2>3. CASE InitActive
    <3>1. \/ app' = Inserting(app.event, tier.nextSeq - 1) /\ UNCHANGED gate
          \/ AppendEnds
      BY <2>3 DEF InitActive, Acknowledge
    <3> QED
      BY <1>1, <2>3, <3>1 DEF InitActive, AppendEnds, Inserting
  <2>4. CASE Insert
    BY <1>1, <2>4 DEF Insert, Acknowledge, AppendEnds
  <2>5. CASE InitActiveFails \/ InsertFails
    BY <1>1, <2>5 DEF InitActiveFails, InsertFails, AppendEnds
  <2> QED
    BY <2>1, <2>2, <2>3, <2>4, <2>5 DEF Append, Appending
<1> QED
  BY <1>2, <1>3

LEMMA DeleteKeepsStep ==
  ASSUME CatalogTypeOK, NEW S, BumpGeneration \/ DeleteSegments(S)
  PROVE  lookup'.step = lookup.step
BY DEF CatalogTypeOK, BumpGeneration, DeleteSegments

LEMMA RetentionControl ==
  ASSUME TypedInv, ControlInv, Retention
  PROVE  ControlInv'
<1> USE DEF ControlInv, retentionRest, pruneRest
<1>1. /\ ret \in [step : RetentionSteps, doomed : SUBSET Segments, known : SUBSET Nat]
      /\ NoRetention.step = "idle" /\ CatalogTypeOK
  BY DEF TypedInv, TypeOK, NoRetention
<1>2. CASE CheckActive
  <2>1. up /\ UNCHANGED <<lookup, up, app, sealers, sealer>> /\ gate = "free"
    BY <1>2 DEF CheckActive
  <2>2. \/ gate' = "retention" /\ ret'.step = "init"
        \/ gate' = "free" /\ ret'.step \in {"idle", "catalog"}
    BY <1>1, <1>2 DEF CheckActive, JudgeActive
  <2> QED
    BY <2>1, <2>2
<1>3. CASE ReplaceActive \/ ReplaceActiveFails
  BY <1>1, <1>3 DEF ReplaceActive, ReplaceActiveFails
<1>4. CASE ~(CheckActive \/ ReplaceActive \/ ReplaceActiveFails)
  <2>1. up /\ UNCHANGED <<up, app, sealers, sealer, gate>> /\ gate # "retention"
    BY <1>4
       DEF Retention, Maintenance, DeleteExpired, AnnounceDeletion, RemoveExpiredFile,
           ReadPaths, ListArchive, RemoveOrphan, RetentionFails
  <2>2. ret'.step # "init"
    <3>1. CASE DeleteExpired
      BY <1>1, <3>1 DEF DeleteExpired
    <3>2. CASE RemoveExpiredFile
      BY <1>1, <3>2 DEF RemoveExpiredFile
    <3>3. CASE AnnounceDeletion \/ ReadPaths
      BY <1>1, <3>3 DEF AnnounceDeletion, ReadPaths
    <3>4. CASE ListArchive \/ RemoveOrphan \/ RetentionFails
      BY <1>1, <3>4 DEF ListArchive, RemoveOrphan, RetentionFails
    <3> QED
      BY <1>4, <3>1, <3>2, <3>3, <3>4 DEF Retention, Maintenance
  <2> QED
    BY <2>1, <2>2
<1> QED
  BY <1>2, <1>3, <1>4

LEMMA SealControl ==
  ASSUME TypedInv, ControlInv, Seal
  PROVE  ControlInv'
<1>1. up /\ UNCHANGED <<up, gate, app, ret>>
  BY DEF ControlInv, sealRest, Seal, TakeSealerLock, ArchiveSegment, CollectEvents,
         Publish, AnnounceSegment, RemovePending, AttemptFails
<1> QED
  BY <1>1 DEF ControlInv

LEMMA LifeControl ==
  ASSUME TypedInv, ControlInv,
         Crash \/ SeedInterrupted \/ Start \/ Expire \/ Read \/ CachedExpires
  PROVE  ControlInv'
BY DEF ControlInv, NoAppend, NoSealer, NoRetention, NoLookup, Crash, SeedInterrupted,
       Start, Expire, Read, CachedExpires, CacheExpires, storeVars

LEMMA StutterControl ==
  ASSUME ControlInv, UNCHANGED vars
  PROVE  ControlInv'
BY DEF ControlInv, vars

LEMMA Controlled == Spec => [](TypedInv /\ ControlInv)
<1>1. TypedInv /\ ControlInv /\ [Next]_vars => ControlInv'
  BY AppendControl, RetentionControl, SealControl, LifeControl, StutterControl DEF Next
<1> QED
  BY InitControl, <1>1, Typed, PTL DEF Spec

--------------------------------------------------------------------------------
(* No two active files of one sequence, and the file of an insert stays. *)

ActiveUnique == \A a, b \in active : a.seq = b.seq => a = b

FilesInv ==
  /\ ActiveUnique
  /\ app.step = "insert" => \E a \in active : a.seq = app.file

LEMMA InitFiles == Init => FilesInv
BY DEF Init, FilesInv, ActiveUnique, NoAppend

LEMMA CreatedUnique ==
  ASSUME ActiveUnique, NEW n \in Nat, active' = Created(n)
  PROVE  ActiveUnique' /\ active \subseteq active' /\ \E a \in active' : a.seq = n
BY CreatedEffect DEF ActiveUnique

LEMMA InsertedUnique ==
  ASSUME TypedInv, ActiveUnique, active' = Inserted
  PROVE  ActiveUnique'
<1>1. \A b \in Inserted : \E a \in active :
        /\ b.seq = a.seq
        /\ b = IF a.seq = app.file THEN [a EXCEPT !.rows = @ \cup {app.event}] ELSE a
  BY InsertedEffect DEF TypedInv, TypeOK, ActiveFiles
<1>2. ASSUME NEW b \in active', NEW c \in active', b.seq = c.seq
      PROVE  b = c
  <2>1. PICK a \in active :
          /\ b.seq = a.seq
          /\ b = IF a.seq = app.file THEN [a EXCEPT !.rows = @ \cup {app.event}] ELSE a
    BY <1>1
  <2>2. PICK d \in active :
          /\ c.seq = d.seq
          /\ c = IF d.seq = app.file THEN [d EXCEPT !.rows = @ \cup {app.event}] ELSE d
    BY <1>1
  <2>3. a = d
    BY <1>2, <2>1, <2>2 DEF ActiveUnique
  <2> QED
    BY <2>1, <2>2, <2>3
<1> QED
  BY <1>2 DEF ActiveUnique

LEMMA AppendFiles ==
  ASSUME TypedInv, FilesInv, Append
  PROVE  FilesInv'
<1>1. /\ tier.path \in Nat /\ tier.nextSeq - 1 \in Nat /\ nextId \in Nat
      /\ app \in [step : AppendSteps, event : Events, after : AppendSteps, file : Nat]
      /\ NoAppend.step = "idle" /\ ActiveUnique
  BY DEF TypedInv, TypeOK, ActiveBelow, NoAppend, FilesInv
<1>2. ASSUME NEW e \in Events, BeginAppend(e) PROVE FilesInv'
  <2>1. active' = Created(tier.path) /\ app'.file = tier.path
    BY <1>2 DEF BeginAppend, Inserting
  <2> QED
    BY <1>1, <2>1, CreatedUnique DEF FilesInv
<1>3. ASSUME RenameActive, app'.step = "init" PROVE FilesInv'
  BY <1>3, RenameTypes DEF FilesInv, ActiveUnique
<1>4. ASSUME NEW e \in Events, RolloverFirst(e) PROVE FilesInv'
  BY <1>3, <1>4 DEF RolloverFirst
<1>5. CASE RolloverAfter
  BY <1>1, <1>3, <1>5 DEF RolloverAfter
<1>6. CASE InitActive
  <2>1. active' = Created(tier.nextSeq - 1)
        /\ (app'.step = "insert" => app'.file = tier.nextSeq - 1)
    BY <1>1, <1>6 DEF InitActive, Inserting, Acknowledge, AppendEnds
  <2> QED
    BY <1>1, <2>1, CreatedUnique DEF FilesInv
<1>7. CASE InitActiveFails
  <2>1. app'.step = "idle" /\ (active' = active \/ active' = Created(tier.nextSeq - 1))
    BY <1>1, <1>7 DEF InitActiveFails, AppendEnds
  <2>2. ActiveUnique'
    <3>1. CASE active' = active
      BY <1>1, <3>1 DEF ActiveUnique
    <3>2. CASE active' = Created(tier.nextSeq - 1)
      BY <1>1, <3>2, CreatedUnique
    <3> QED
      BY <2>1, <3>1, <3>2
  <2> QED
    BY <2>1, <2>2 DEF FilesInv
<1>8. CASE Insert \/ InsertFails
  <2>1. app'.step # "insert" /\ (active' = active \/ active' = Inserted)
    BY <1>1, <1>8 DEF Insert, InsertFails, Acknowledge, AppendEnds
  <2>2. ActiveUnique'
    <3>1. CASE active' = active
      BY <1>1, <3>1 DEF ActiveUnique
    <3> QED
      BY <1>1, <2>1, <3>1, InsertedUnique
  <2> QED
    BY <2>1, <2>2 DEF FilesInv
<1> QED
  BY <1>2, <1>4, <1>5, <1>6, <1>7, <1>8 DEF Append, Appending

(* The gate keeps retention off the active files while an append runs. *)
LEMMA RetentionFiles ==
  ASSUME TypedInv, ControlInv, FilesInv, Retention
  PROVE  FilesInv'
<1>1. tier.path \in Nat /\ tier.nextSeq - 1 \in Nat /\ ActiveUnique
  BY DEF TypedInv, TypeOK, ActiveBelow, FilesInv
<1>2. UNCHANGED app
  BY DEF Retention, Maintenance, CheckActive, ReplaceActive, ReplaceActiveFails,
         DeleteExpired, AnnounceDeletion, RemoveExpiredFile, ReadPaths, ListArchive,
         RemoveOrphan, RetentionFails, pruneRest
<1>3. CASE CheckActive \/ ReplaceActive \/ ReplaceActiveFails
  <2>1. app.step = "idle"
    BY <1>3 DEF CheckActive, ReplaceActive, ReplaceActiveFails, ControlInv
  <2>2. \/ active' \subseteq active
        \/ active' = Created(tier.path) \/ active' = Created(tier.nextSeq - 1)
    BY <1>3 DEF CheckActive, JudgeActive, ReplaceActive, ReplaceActiveFails
  <2>3. CASE active' \subseteq active
    BY <1>1, <1>2, <2>1, <2>3 DEF FilesInv, ActiveUnique
  <2>4. CASE active' = Created(tier.path) \/ active' = Created(tier.nextSeq - 1)
    BY <1>1, <1>2, <2>1, <2>4, CreatedUnique DEF FilesInv
  <2> QED
    BY <2>2, <2>3, <2>4
<1>4. CASE ~(CheckActive \/ ReplaceActive \/ ReplaceActiveFails)
  <2>1. UNCHANGED active
    BY <1>4
       DEF Retention, Maintenance, DeleteExpired, AnnounceDeletion, RemoveExpiredFile,
           ReadPaths, ListArchive, RemoveOrphan, RetentionFails, pruneRest
  <2> QED
    BY <1>2, <2>1 DEF FilesInv, ActiveUnique
<1> QED
  BY <1>3, <1>4

(* The path a start opens is a number. *)
LEMMA ChosenPathIsNumber ==
  ASSUME TypedInv, Start
  PROVE  ChosenPath \in Nat
<1>1. CatalogTypeOK' /\ \A s \in catalog' : s.id < nextId
  <2>1. /\ UNCHANGED lookup
        /\ \/ catalog' = archive /\ behind' = FALSE /\ cached' = {}
           \/ UNCHANGED catalogVars
    BY DEF Start
  <2> QED
    BY <2>1 DEF TypedInv, TypeOK, CatalogTypeOK, IdsBelow, catalogVars
<1>2. LastSequence' \in Nat
  BY <1>1, LastSequenceIsNumber DEF TypedInv, TypeOK, CatalogTypeOK
<1> QED
  BY <1>2, ChosenIsHighest

LEMMA OtherFiles ==
  ASSUME TypedInv, ControlInv, FilesInv,
         Seal \/ Crash \/ SeedInterrupted \/ Start \/ Expire \/ Read \/ CachedExpires
           \/ UNCHANGED vars
  PROVE  FilesInv'
<1>1. CASE Start
  <2>1. active' = Created(ChosenPath) /\ app'.step = "idle"
    BY <1>1 DEF Start, ControlInv
  <2>2. ActiveUnique'
    BY <1>1, <2>1, ChosenPathIsNumber, CreatedUnique DEF FilesInv
  <2> QED
    BY <2>1, <2>2 DEF FilesInv
<1>2. CASE ~Start
  <2>1. UNCHANGED active /\ app' \in {app, NoAppend}
    BY <1>2
       DEF Seal, TakeSealerLock, ArchiveSegment, CollectEvents, Publish, AnnounceSegment,
           RemovePending, AttemptFails, sealRest, Crash, SeedInterrupted, Expire, Read,
           CachedExpires, storeVars, fileVars, vars
  <2> QED
    BY <2>1 DEF FilesInv, ActiveUnique, NoAppend
<1> QED
  BY <1>1, <1>2

--------------------------------------------------------------------------------
(* A segment keeps its id: two of the tier, of the archive, of the catalog or of the
   deletion that have one id are the same segment.  None is empty. *)

Everywhere == pending \cup archive \cup catalog \cup ret.doomed

OneSegmentPerId ==
  /\ \A s, t \in Everywhere : s.id = t.id => s = t
  /\ \A s \in Everywhere : s.rows # {}

LEMMA InitIds == Init => OneSegmentPerId
BY DEF Init, CatalogInit, OneSegmentPerId, Everywhere, NoRetention

LEMMA RenameEffect ==
  ASSUME TypedInv, RenameActive
  PROVE  \E a \in active : \E new \in Segments :
           /\ a.rows # {} /\ new.id = nextId /\ new.rows = a.rows /\ new.seq = a.seq
           /\ active' = active \ {a} /\ pending' = pending \cup {new}
           /\ nextId' = nextId + 1
           /\ UNCHANGED <<catalogVars, lookup, up, archive, ret, expired, sealers, sealer,
                          acked, abandoned, raced>>
<1>1. PICK a \in active :
        /\ a.rows # {} /\ active' = active \ {a}
        /\ pending' = pending \cup {[id |-> nextId, seq |-> a.seq, rows |-> a.rows]}
  BY DEF RenameActive, Current
<1>2. [id |-> nextId, seq |-> a.seq, rows |-> a.rows] \in Segments
  BY DEF TypedInv, TypeOK, Segments
<1>3. /\ nextId' = nextId + 1
      /\ UNCHANGED <<catalogVars, lookup, up, archive, ret, expired, sealers, sealer,
                     acked, abandoned, raced>>
  BY DEF RenameActive, appendRest, historyVars
<1> DEFINE new == [id |-> nextId, seq |-> a.seq, rows |-> a.rows]
<1>4. new.id = nextId /\ new.rows = a.rows /\ new.seq = a.seq
  OBVIOUS
<1> HIDE DEF new
<1>5. new \in Segments /\ pending' = pending \cup {new}
  BY <1>1, <1>2 DEF new
<1> QED
  BY <1>1, <1>3, <1>4, <1>5

LEMMA RenameIds ==
  ASSUME TypedInv, OneSegmentPerId, RenameActive
  PROVE  OneSegmentPerId'
<1>1. PICK a \in active, new \in Segments :
        /\ a.rows # {} /\ new.id = nextId /\ new.rows = a.rows
        /\ pending' = pending \cup {new} /\ UNCHANGED <<catalog, archive, ret>>
  BY RenameEffect DEF catalogVars
<1>2. \A s \in Everywhere : s.id \in Nat /\ s.id < nextId
  BY DEF TypedInv, TypeOK, CatalogTypeOK, IdsBelow, Everywhere, Segments
<1>3. nextId \in Nat /\ \A s \in Everywhere' : s \in Everywhere \/ s = new
  BY <1>1 DEF Everywhere, TypedInv, TypeOK
<1> QED
  BY <1>1, <1>2, <1>3 DEF OneSegmentPerId

LEMMA FewerIds ==
  ASSUME OneSegmentPerId, Everywhere' \subseteq Everywhere
  PROVE  OneSegmentPerId'
BY DEF OneSegmentPerId

LEMMA AppendIds ==
  ASSUME TypedInv, OneSegmentPerId, Append
  PROVE  OneSegmentPerId'
<1>1. RenameActive \/ UNCHANGED <<pending, archive, catalog, ret>>
  BY DEF Append, Appending, BeginAppend, RolloverFirst, RolloverAfter, InitActive,
         InitActiveFails, Insert, InsertFails, appendRest, catalogVars
<1>2. CASE UNCHANGED <<pending, archive, catalog, ret>>
  BY <1>2, FewerIds DEF Everywhere
<1> QED
  BY <1>1, <1>2, RenameIds

LEMMA RetentionIds ==
  ASSUME TypedInv, OneSegmentPerId, Retention
  PROVE  OneSegmentPerId'
<1>1. ret \in [step : RetentionSteps, doomed : SUBSET Segments, known : SUBSET Nat]
      /\ CatalogTypeOK /\ NoRetention.doomed = {}
  BY DEF TypedInv, TypeOK, NoRetention
<1>2. pending' = pending /\ archive' \subseteq archive /\ catalog' \subseteq catalog
  BY <1>1, BumpEffect
     DEF Retention, Maintenance, CheckActive, ReplaceActive, ReplaceActiveFails,
         DeleteExpired, AnnounceDeletion, RemoveExpiredFile, ReadPaths, ListArchive,
         RemoveOrphan, RetentionFails, pruneRest, retentionRest, catalogVars,
         DeleteSegments
<1>3. ret'.doomed \subseteq ret.doomed \cup archive \cup catalog
  <2>1. CASE CheckActive \/ ReplaceActive \/ ReplaceActiveFails
    BY <1>1, <2>1 DEF CheckActive, JudgeActive, ReplaceActive, ReplaceActiveFails
  <2>2. CASE DeleteExpired
    BY <1>1, <2>2 DEF DeleteExpired, Expired
  <2>3. CASE AnnounceDeletion \/ ReadPaths
    BY <1>1, <2>3 DEF AnnounceDeletion, ReadPaths
  <2>4. CASE RemoveExpiredFile
    BY <1>1, <2>4 DEF RemoveExpiredFile
  <2>5. CASE ListArchive
    BY <1>1, <2>5 DEF ListArchive
  <2>6. CASE RemoveOrphan \/ RetentionFails
    BY <1>1, <2>6 DEF RemoveOrphan, RetentionFails
  <2> QED
    BY <2>1, <2>2, <2>3, <2>4, <2>5, <2>6 DEF Retention, Maintenance
<1> QED
  BY <1>2, <1>3, FewerIds DEF Everywhere

LEMMA SealIds ==
  ASSUME TypedInv, OneSegmentPerId, Seal
  PROVE  OneSegmentPerId'
<1>1. /\ pending' \subseteq pending /\ archive' \subseteq pending \cup archive
      /\ catalog' \subseteq pending \cup archive \cup catalog /\ ret' = ret
  BY BumpEffect
     DEF Seal, TakeSealerLock, ArchiveSegment, CollectEvents, Publish, AnnounceSegment,
         RemovePending, AttemptFails, CommitSegment, WithId, catalogVars, sealRest,
         TypedInv, TypeOK
<1> QED
  BY <1>1, FewerIds DEF Everywhere

LEMMA OtherIds ==
  ASSUME TypedInv, OneSegmentPerId,
         Crash \/ SeedInterrupted \/ Start \/ Expire \/ Read \/ CachedExpires
           \/ UNCHANGED vars
  PROVE  OneSegmentPerId'
<1>1. /\ pending' = pending /\ archive' = archive /\ catalog' \subseteq catalog \cup archive
      /\ ret' \in {ret, NoRetention}
  BY LookupTypes
     DEF Crash, SeedInterrupted, Start, Expire, Read, CachedExpires, CacheExpires,
         storeVars, fileVars, catalogVars, vars, TypedInv, TypeOK
<1> QED
  BY <1>1, FewerIds DEF Everywhere, NoRetention

LEMMA Filed == Spec => [](TypedInv /\ ControlInv /\ FilesInv /\ OneSegmentPerId)
<1>1. TypedInv /\ ControlInv /\ FilesInv /\ [Next]_vars => FilesInv'
  BY AppendFiles, RetentionFiles, OtherFiles DEF Next
<1>2. TypedInv /\ OneSegmentPerId /\ [Next]_vars => OneSegmentPerId'
  BY AppendIds, RetentionIds, SealIds, OtherIds DEF Next
<1> QED
  BY InitFiles, InitIds, <1>1, <1>2, Controlled, PTL DEF Spec

--------------------------------------------------------------------------------
(* The segment of a sealer, waiting or at work, is in pending/, and so is the one
   the append in progress will hand over. *)

SealInv ==
  /\ sealers \subseteq IdsOf(pending)
  /\ sealer.step # "idle" => sealer.id \in IdsOf(pending) \ sealers
  /\ app.step = "init" => /\ nextId - 1 \in IdsOf(pending) \ sealers
                          /\ sealer.step # "idle" => sealer.id # nextId - 1

LEMMA InitSeal == Init => SealInv
BY DEF Init, SealInv, NoAppend, NoSealer

LEMMA RenameSeal ==
  ASSUME TypedInv, SealInv, RenameActive
  PROVE  SealInv'
<1>1. PICK a \in active, new \in Segments :
        /\ new.id = nextId /\ nextId' = nextId + 1
        /\ pending' = pending \cup {new} /\ UNCHANGED <<sealers, sealer>>
  BY RenameEffect
<1>2. nextId \in Nat /\ nextId' - 1 = nextId
  BY <1>1 DEF TypedInv, TypeOK
<1>3. \A i \in IdsOf(pending) : i \in Nat /\ i < nextId
  BY DEF IdsOf, Segments, TypedInv, TypeOK, IdsBelow
<1>4. nextId \notin IdsOf(pending)
  BY <1>2, <1>3
<1>5. IdsOf(pending) \subseteq IdsOf(pending') /\ nextId \in IdsOf(pending')
  BY <1>1 DEF IdsOf
<1> QED
  BY <1>1, <1>2, <1>4, <1>5 DEF SealInv

LEMMA AppendSeal ==
  ASSUME TypedInv, SealInv, Append
  PROVE  SealInv'
<1>1. \/ RenameActive \/ InitActive
      \/ app'.step # "init" /\ UNCHANGED <<pending, nextId, sealers, sealer>>
  <2>1. CASE InitActiveFails \/ InsertFails
    BY <2>1 DEF InitActiveFails, InsertFails, AppendEnds, NoAppend
  <2>2. CASE Insert
    <3>1. app \in [step : AppendSteps, event : Events, after : AppendSteps, file : Nat]
      BY DEF TypedInv, TypeOK
    <3>2. UNCHANGED <<pending, nextId, sealers, sealer>>
      BY <2>2 DEF Insert
    <3>3. app' \in {NoAppend, [app EXCEPT !.step = "full", !.after = "idle"]}
      BY <2>2 DEF Insert, Acknowledge, AppendEnds
    <3>4. NoAppend.step = "idle" /\ [app EXCEPT !.step = "full", !.after = "idle"].step = "full"
      BY <3>1 DEF NoAppend
    <3> QED
      BY <3>2, <3>3, <3>4
  <2>3. ASSUME NEW e \in Events, BeginAppend(e)
        PROVE  app'.step # "init" /\ UNCHANGED <<pending, nextId, sealers, sealer>>
    BY <2>3 DEF BeginAppend, Inserting
  <2> QED
    BY <2>1, <2>2, <2>3 DEF Append, Appending, RolloverFirst, RolloverAfter
<1>2. CASE InitActive
  <2>1. /\ sealers' = sealers \cup {nextId - 1} /\ app.step = "init"
        /\ UNCHANGED <<pending, nextId, sealer>> /\ app'.step # "init"
    BY <1>2 DEF InitActive, Inserting, Acknowledge, AppendEnds, NoAppend
  <2> QED
    BY <2>1 DEF SealInv
<1>3. CASE app'.step # "init" /\ UNCHANGED <<pending, nextId, sealers, sealer>>
  BY <1>3 DEF SealInv
<1> QED
  BY <1>1, <1>2, <1>3, RenameSeal

LEMMA SealSeal ==
  ASSUME TypedInv, SealInv, Seal
  PROVE  SealInv'
<1>1. UNCHANGED <<nextId, app>>
  BY DEF Seal, TakeSealerLock, ArchiveSegment, CollectEvents, Publish, AnnounceSegment,
         RemovePending, AttemptFails, sealRest
<1>2. sealer \in [id : Nat, step : SealerSteps, failures : 0..(Attempts - 1)]
      /\ NoSealer.step = "idle"
  BY DEF TypedInv, TypeOK, NoSealer
<1>3. CASE TakeSealerLock
  <2>1. PICK id \in sealers :
          /\ sealer' = [id |-> id, step |-> "look", failures |-> 0]
          /\ sealers' = sealers \ {id}
    BY <1>3 DEF TakeSealerLock
  <2>2. pending' = pending /\ sealer'.id = id
    BY <1>3, <2>1 DEF TakeSealerLock
  <2> QED
    BY <1>1, <2>1, <2>2 DEF SealInv
<1>4. CASE RemovePending
  <2>1. /\ pending' = pending \ WithId(pending, sealer.id) /\ sealer' = NoSealer
        /\ sealers' = sealers /\ sealer.step # "idle"
    BY <1>4 DEF RemovePending
  <2>2. IdsOf(pending) \ {sealer.id} \subseteq IdsOf(pending')
    BY <2>1 DEF IdsOf, WithId
  <2>3. sealers \subseteq IdsOf(pending) \ {sealer.id}
    BY <2>1 DEF SealInv
  <2>4. app.step = "init" => nextId - 1 \in IdsOf(pending) \ {sealer.id}
    BY <2>1 DEF SealInv
  <2> QED
    BY <1>1, <1>2, <2>1, <2>2, <2>3, <2>4 DEF SealInv
<1>5. CASE ~(TakeSealerLock \/ RemovePending)
  <2>1. /\ UNCHANGED <<pending, sealers>>
        /\ sealer.step # "idle"
    BY <1>5
       DEF Seal, ArchiveSegment, CollectEvents, Publish, AnnounceSegment, AttemptFails
  <2>2. sealer'.id = sealer.id \/ sealer' = NoSealer
    BY <1>2, <1>5
       DEF Seal, ArchiveSegment, CollectEvents, Publish, AnnounceSegment, AttemptFails,
           SealerGoes
  <2> QED
    BY <1>1, <1>2, <2>1, <2>2 DEF SealInv
<1> QED
  BY <1>3, <1>4, <1>5

LEMMA OtherSeal ==
  ASSUME ControlInv, SealInv,
         Retention \/ Crash \/ SeedInterrupted \/ Start \/ Expire \/ Read
           \/ CachedExpires \/ UNCHANGED vars
  PROVE  SealInv'
<1>1. UNCHANGED <<pending, nextId>>
  BY DEF Retention, Maintenance, CheckActive, ReplaceActive, ReplaceActiveFails,
         DeleteExpired, AnnounceDeletion, RemoveExpiredFile, ReadPaths, ListArchive,
         RemoveOrphan, RetentionFails, pruneRest, retentionRest, Crash, SeedInterrupted,
         Start, Expire, Read, CachedExpires, storeVars, fileVars, vars
<1>2. CASE Crash \/ Start
  BY <1>1, <1>2 DEF SealInv, Crash, Start, NoAppend, NoSealer, ControlInv
<1>3. CASE ~(Crash \/ Start)
  <2>1. UNCHANGED <<app, sealers, sealer>>
    BY <1>3
       DEF Retention, Maintenance, CheckActive, ReplaceActive, ReplaceActiveFails,
           DeleteExpired, AnnounceDeletion, RemoveExpiredFile, ReadPaths, ListArchive,
           RemoveOrphan, RetentionFails, pruneRest, retentionRest, SeedInterrupted,
           Expire, Read, CachedExpires, storeVars, vars
  <2> QED
    BY <1>1, <2>1 DEF SealInv
<1> QED
  BY <1>2, <1>3

StructInv == TypedInv /\ ControlInv /\ FilesInv /\ OneSegmentPerId /\ SealInv

LEMMA Structured == Spec => []StructInv
<1>1. TypedInv /\ ControlInv /\ SealInv /\ [Next]_vars => SealInv'
  BY AppendSeal, SealSeal, OtherSeal DEF Next
<1>2. (TypedInv /\ ControlInv /\ FilesInv /\ OneSegmentPerId) /\ SealInv => StructInv
  BY DEF StructInv
<1> QED
  BY InitSeal, <1>1, <1>2, Filed, PTL DEF Spec

--------------------------------------------------------------------------------
(* What the catalog names is in the archive, was taken from it by orphan pruning, or
   has expired: the files retention deletes hold nothing else. *)

IsBacked(c) == c.id \in raced \/ \E t \in archive : t.id = c.id

BackedInv ==
  /\ ret.step \in {"bump", "files"} => \A s \in ret.doomed : s.rows \subseteq expired
  /\ \A c \in catalog : IsBacked(c) \/ c.rows \subseteq expired

LEMMA InitBacked == Init => BackedInv
BY DEF Init, CatalogInit, BackedInv, NoRetention

LEMMA BackedStutter ==
  ASSUME BackedInv, UNCHANGED <<archive, raced>>, catalog' \subseteq catalog \cup archive,
         expired \subseteq expired', ret' \in {ret, NoRetention}
  PROVE  BackedInv'
<1>1. NoRetention.step = "idle"
  BY DEF NoRetention
<1> QED
  BY <1>1 DEF BackedInv, IsBacked

LEMMA RetentionBacked ==
  ASSUME StructInv, BackedInv, Retention
  PROVE  BackedInv'
<1>1. /\ ret \in [step : RetentionSteps, doomed : SUBSET Segments, known : SUBSET Nat]
      /\ CatalogTypeOK /\ NoRetention.step = "idle"
  BY DEF StructInv, TypedInv, TypeOK, NoRetention
<1>2. UNCHANGED expired
  BY DEF Retention, Maintenance, CheckActive, ReplaceActive, ReplaceActiveFails,
         DeleteExpired, AnnounceDeletion, RemoveExpiredFile, ReadPaths, ListArchive,
         RemoveOrphan, RetentionFails, pruneRest, retentionRest
<1>3. CASE CheckActive \/ ReplaceActive \/ ReplaceActiveFails
  <2>1. UNCHANGED <<catalog, archive, raced>>
    BY <1>3 DEF CheckActive, ReplaceActive, ReplaceActiveFails, catalogVars
  <2>2. ret'.step \notin {"bump", "files"}
    <3>1. CASE CheckActive
      <4>1. ret' \in {ret, [ret EXCEPT !.step = "catalog"], [ret EXCEPT !.step = "init"]}
            /\ ret.step = "idle"
        BY <3>1 DEF CheckActive, JudgeActive
      <4>2. ret'.step \in {"idle", "catalog", "init"}
        <5>1. CASE ret' = ret
          BY <4>1, <5>1
        <5>2. CASE ret' = [ret EXCEPT !.step = "catalog"]
          BY <1>1, <5>2
        <5>3. CASE ret' = [ret EXCEPT !.step = "init"]
          BY <1>1, <5>3
        <5> QED
          BY <4>1, <5>1, <5>2, <5>3
      <4> QED
        BY <4>2
    <3>2. CASE ReplaceActive \/ ReplaceActiveFails
      BY <1>1, <3>2 DEF ReplaceActive, ReplaceActiveFails
    <3> QED
      BY <1>3, <3>1, <3>2
  <2> QED
    BY <1>2, <2>1, <2>2 DEF BackedInv, IsBacked
<1>4. CASE DeleteExpired
  <2>1. UNCHANGED <<archive, raced>> /\ catalog' \subseteq catalog
    BY <1>4 DEF DeleteExpired, DeleteSegments
  <2>2. ret'.doomed = Expired(catalog)
    BY <1>1, <1>4 DEF DeleteExpired
  <2>3. \A s \in ret'.doomed : s.rows \subseteq expired
    BY <2>2 DEF Expired
  <2> QED
    BY <1>2, <2>1, <2>3 DEF BackedInv, IsBacked
<1>5. CASE AnnounceDeletion
  <2>1. UNCHANGED <<catalog, archive, raced>>
    BY <1>1, <1>5, BumpEffect DEF AnnounceDeletion
  <2>2. ret'.doomed = ret.doomed /\ ret.step = "bump"
    BY <1>1, <1>5 DEF AnnounceDeletion
  <2> QED
    BY <1>2, <2>1, <2>2 DEF BackedInv, IsBacked
<1>6. CASE RemoveExpiredFile
  <2>1. PICK s \in ret.doomed :
          /\ archive' = {a \in archive : a.id # s.id}
          /\ ret' = [ret EXCEPT !.doomed = @ \ {s},
                               !.step = IF ret.doomed = {s} THEN "paths" ELSE "files"]
    BY <1>6 DEF RemoveExpiredFile
  <2>2. ret'.doomed \subseteq ret.doomed /\ ret.step = "files"
        /\ UNCHANGED <<catalog, raced>>
    BY <1>1, <1>6, <2>1 DEF RemoveExpiredFile, catalogVars
  <2>3. s.rows \subseteq expired
    BY <2>2 DEF BackedInv
  <2>4. ASSUME NEW c \in catalog, c.id = s.id PROVE c.rows \subseteq expired
    BY <2>3, <2>4 DEF StructInv, OneSegmentPerId, Everywhere
  <2>5. ASSUME NEW c \in catalog, c.id # s.id, IsBacked(c) PROVE IsBacked(c)'
    BY <2>1, <2>2, <2>5 DEF IsBacked
  <2>6. \A t \in ret'.doomed : t.rows \subseteq expired
    BY <2>2 DEF BackedInv
  <2>7. \A c \in catalog : IsBacked(c)' \/ c.rows \subseteq expired
    BY <2>4, <2>5 DEF BackedInv
  <2> QED
    BY <1>2, <2>2, <2>6, <2>7 DEF BackedInv
<1>7. CASE ReadPaths \/ ListArchive \/ RetentionFails
  <2>1. UNCHANGED <<catalog, archive, raced>>
    BY <1>7 DEF ReadPaths, ListArchive, RetentionFails, catalogVars
  <2>2. ret'.step \notin {"bump", "files"}
    <3>1. CASE ReadPaths
      BY <1>1, <3>1 DEF ReadPaths
    <3>2. CASE ListArchive \/ RetentionFails
      BY <1>1, <3>2 DEF ListArchive, RetentionFails
    <3> QED
      BY <1>7, <3>1, <3>2
  <2> QED
    BY <1>2, <2>1, <2>2 DEF BackedInv, IsBacked
<1>8. CASE RemoveOrphan
  <2>1. PICK s \in ret.doomed :
          /\ archive' = {a \in archive : a.id # s.id}
          /\ raced' = raced \cup IdsOf(WithId(catalog, s.id))
    BY <1>8 DEF RemoveOrphan
  <2>2. UNCHANGED catalog /\ ret'.step \notin {"bump", "files"}
    BY <1>1, <1>8 DEF RemoveOrphan, catalogVars
  <2>3. ASSUME NEW c \in catalog, IsBacked(c) PROVE IsBacked(c)'
    <3>1. c.id = s.id => c.id \in raced'
      BY <2>1 DEF IdsOf, WithId
    <3> QED
      BY <2>1, <2>3, <3>1 DEF IsBacked
  <2> QED
    BY <1>2, <2>2, <2>3 DEF BackedInv
<1> QED
  BY <1>3, <1>4, <1>5, <1>6, <1>7, <1>8 DEF Retention, Maintenance

LEMMA SealBacked ==
  ASSUME StructInv, BackedInv, Seal
  PROVE  BackedInv'
<1>1. UNCHANGED <<ret, expired>>
  BY DEF Seal, TakeSealerLock, ArchiveSegment, CollectEvents, Publish, AnnounceSegment,
         RemovePending, AttemptFails, sealRest
<1>2. CASE ArchiveSegment
  <2>1. UNCHANGED catalog
    BY <1>2 DEF ArchiveSegment, catalogVars
  <2>2. PICK p \in pending : p.id = sealer.id
    BY <1>2 DEF ArchiveSegment, StructInv, SealInv, IdsOf
  <2>3. archive \subseteq archive'
        /\ (raced' = raced \/ (raced' = raced \ {sealer.id} /\ p \in archive'))
    BY <1>2, <2>2 DEF ArchiveSegment, WithId
  <2>4. ASSUME NEW c \in catalog, IsBacked(c) PROVE IsBacked(c)'
    BY <2>2, <2>3, <2>4 DEF IsBacked
  <2> QED
    BY <1>1, <2>1, <2>4 DEF BackedInv
<1>3. CASE Publish
  <2>1. PICK s \in WithId(pending, sealer.id) : CommitSegment(s)
    BY <1>3 DEF Publish
  <2>2. archive' = archive /\ raced' = raced \cup ({sealer.id} \ IdsOf(archive))
    BY <1>3 DEF Publish
  <2>3. s.id = sealer.id /\ \A c \in catalog' : c \in catalog \/ c = s
    BY <2>1 DEF CommitSegment, WithId
  <2>4. IsBacked(s)'
    BY <2>2, <2>3 DEF IsBacked, IdsOf
  <2>5. ASSUME NEW c \in catalog, IsBacked(c) PROVE IsBacked(c)'
    BY <2>2, <2>5 DEF IsBacked
  <2> QED
    BY <1>1, <2>3, <2>4, <2>5 DEF BackedInv
<1>4. CASE ~(ArchiveSegment \/ Publish)
  <2>1. UNCHANGED <<catalog, archive, raced>>
    BY <1>4, BumpEffect
       DEF Seal, TakeSealerLock, CollectEvents, AnnounceSegment, RemovePending,
           AttemptFails, catalogVars, StructInv, TypedInv, TypeOK
  <2> QED
    BY <1>1, <2>1, BackedStutter
<1> QED
  BY <1>2, <1>3, <1>4

LEMMA OtherBacked ==
  ASSUME StructInv, BackedInv,
         Append \/ Crash \/ SeedInterrupted \/ Start \/ Expire \/ Read
           \/ CachedExpires \/ UNCHANGED vars
  PROVE  BackedInv'
<1>1. CatalogTypeOK
  BY DEF StructInv, TypedInv, TypeOK
<1>2. CASE Append
  <2>1. UNCHANGED <<archive, raced, catalog, expired, ret>>
    BY <1>2
       DEF Append, Appending, BeginAppend, RolloverFirst, RolloverAfter, InitActive, Insert,
           InitActiveFails, InsertFails, RenameActive, appendRest, historyVars, catalogVars
  <2> QED
    BY <2>1, BackedStutter
<1>3. CASE ~Append
  <2>1. UNCHANGED <<archive, raced>> /\ catalog' \subseteq catalog \cup archive
        /\ expired \subseteq expired' /\ ret' \in {ret, NoRetention}
    BY <1>1, <1>3, LookupTypes
       DEF Crash, SeedInterrupted, Start, Expire, Read, CachedExpires, CacheExpires,
           storeVars, fileVars, historyVars, catalogVars, vars
  <2> QED
    BY <2>1, BackedStutter
<1> QED
  BY <1>2, <1>3

LEMMA Backed == Spec => []BackedInv
<1>1. StructInv /\ BackedInv /\ [Next]_vars => BackedInv'
  BY RetentionBacked, SealBacked, OtherBacked DEF Next
<1> QED
  BY InitBacked, <1>1, Structured, PTL DEF Spec

--------------------------------------------------------------------------------
(* A sealer removes a pending segment when its rows are in the catalog, and retention
   takes nothing from there but what has expired. *)

PublishedInv ==
  sealer.step \in {"bump", "unlink"} =>
    \A s \in pending : s.id = sealer.id => s \in catalog \/ s.rows \subseteq expired

LEMMA InitPublished == Init => PublishedInv
BY DEF Init, PublishedInv, NoSealer

(* No step but the retention's takes a segment out of the catalog. *)
LEMMA CatalogKeeps ==
  ASSUME StructInv, [Next]_vars
  PROVE  /\ \A c \in catalog : c \in catalog' \/ c.rows \subseteq expired
         /\ expired \subseteq expired'
<1>1. CatalogTypeOK /\ OneSegmentPerId /\ TypedInv
  BY DEF StructInv, TypedInv, TypeOK
<1>2. CASE Append
  BY <1>2
     DEF Append, Appending, BeginAppend, RolloverFirst, RolloverAfter, InitActive, Insert,
         InitActiveFails, InsertFails, RenameActive, appendRest, catalogVars
<1>3. CASE Retention
  <2>1. UNCHANGED expired
    BY <1>3
       DEF Retention, Maintenance, CheckActive, ReplaceActive, ReplaceActiveFails,
           DeleteExpired, AnnounceDeletion, RemoveExpiredFile, ReadPaths, ListArchive,
           RemoveOrphan, RetentionFails, pruneRest, retentionRest
  <2>2. CASE DeleteExpired
    BY <2>1, <2>2 DEF DeleteExpired, DeleteSegments, Expired
  <2>3. CASE ~DeleteExpired
    BY <1>1, <1>3, <2>1, <2>3, BumpEffect
       DEF Retention, Maintenance, CheckActive, ReplaceActive, ReplaceActiveFails,
           AnnounceDeletion, RemoveExpiredFile, ReadPaths, ListArchive,
           RemoveOrphan, RetentionFails, catalogVars
  <2> QED
    BY <2>2, <2>3
<1>4. CASE Publish
  <2>1. PICK s \in pending : CommitSegment(s)
    BY <1>4 DEF Publish, WithId
  <2>2. \A c \in catalog : c.id = s.id => c = s
    BY <1>1 DEF OneSegmentPerId, Everywhere
  <2> QED
    BY <1>4, <2>1, <2>2 DEF CommitSegment, Publish, sealRest
<1>5. CASE Seal /\ ~Publish
  BY <1>1, <1>5, BumpEffect
     DEF Seal, TakeSealerLock, ArchiveSegment, CollectEvents, AnnounceSegment,
         RemovePending, AttemptFails, sealRest, catalogVars
<1>6. CASE Crash \/ SeedInterrupted \/ Start \/ Expire \/ Read \/ CachedExpires
             \/ UNCHANGED vars
  BY <1>1, <1>6, LookupTypes
     DEF Crash, SeedInterrupted, Start, Expire, Read, CachedExpires, CacheExpires,
         storeVars, catalogVars, vars
<1> QED
  BY <1>2, <1>3, <1>4, <1>5, <1>6 DEF Next

LEMMA PublishedStep ==
  ASSUME StructInv, PublishedInv, [Next]_vars
  PROVE  PublishedInv'
<1>1. sealer \in [id : Nat, step : SealerSteps, failures : 0..(Attempts - 1)]
      /\ NoSealer.step = "idle" /\ TypedInv /\ SealInv
  BY DEF StructInv, TypedInv, TypeOK, NoSealer
<1>2. CASE UNCHANGED <<pending, sealer>>
  BY <1>2, CatalogKeeps DEF PublishedInv
<1>3. CASE RenameActive
  <2>1. PICK a \in active, new \in Segments :
          /\ new.id = nextId /\ pending' = pending \cup {new} /\ UNCHANGED sealer
    BY <1>1, <1>3, RenameEffect
  <2>2. sealer.step # "idle" => sealer.id # nextId
    <3>1. sealer.step # "idle" => \E s \in pending : s.id = sealer.id
      BY <1>1 DEF SealInv, IdsOf
    <3>2. nextId \in Nat /\ \A s \in pending : s.id \in Nat /\ s.id < nextId
      BY <1>1 DEF TypedInv, TypeOK, IdsBelow, Segments
    <3> QED
      BY <3>1, <3>2
  <2> QED
    BY <2>1, <2>2, CatalogKeeps DEF PublishedInv
<1>4. CASE Publish
  <2>1. PICK s \in WithId(pending, sealer.id) : CommitSegment(s)
    BY <1>4 DEF Publish
  <2>2. s \in catalog' /\ s \in pending /\ s.id = sealer.id
    BY <2>1 DEF CommitSegment, WithId
  <2>3. pending' = pending /\ sealer'.id = sealer.id
    BY <1>1, <1>4 DEF Publish, SealerGoes
  <2>4. \A t \in pending : t.id = sealer.id => t = s
    BY <2>2 DEF StructInv, OneSegmentPerId, Everywhere
  <2> QED
    BY <2>2, <2>3, <2>4 DEF PublishedInv
<1>5. CASE AnnounceSegment
  <2>1. sealer'.id = sealer.id /\ sealer.step = "bump" /\ pending' = pending
    BY <1>1, <1>5 DEF AnnounceSegment, SealerGoes
  <2> QED
    BY <2>1, CatalogKeeps DEF PublishedInv
<1>6. CASE sealer'.step \notin {"bump", "unlink"}
  BY <1>6 DEF PublishedInv
<1>7. \/ UNCHANGED <<pending, sealer>> \/ RenameActive \/ Publish \/ AnnounceSegment
      \/ sealer'.step \notin {"bump", "unlink"}
  <2>1. CASE Append
    BY <2>1
       DEF Append, Appending, BeginAppend, RolloverFirst, RolloverAfter, InitActive, Insert,
           InitActiveFails, InsertFails
  <2>2. CASE Retention
    BY <2>2
       DEF Retention, Maintenance, CheckActive, ReplaceActive, ReplaceActiveFails,
           DeleteExpired, AnnounceDeletion, RemoveExpiredFile, ReadPaths, ListArchive,
           RemoveOrphan, RetentionFails, pruneRest, retentionRest
  <2>3. CASE TakeSealerLock
    BY <2>3 DEF TakeSealerLock
  <2>4. CASE ArchiveSegment \/ CollectEvents
    BY <1>1, <2>4 DEF ArchiveSegment, CollectEvents, SealerGoes
  <2>5. CASE RemovePending
    BY <1>1, <2>5 DEF RemovePending
  <2>6. CASE AttemptFails
    BY <1>1, <2>6 DEF AttemptFails
  <2>7. CASE Crash \/ SeedInterrupted \/ Start \/ Expire \/ Read \/ CachedExpires
               \/ UNCHANGED vars
    BY <1>1, <2>7
       DEF Crash, SeedInterrupted, Start, Expire, Read, CachedExpires, storeVars,
           fileVars, vars
  <2> QED
    BY <2>1, <2>2, <2>3, <2>4, <2>5, <2>6, <2>7 DEF Next, Seal
<1> QED
  BY <1>2, <1>3, <1>4, <1>5, <1>6, <1>7

LEMMA PublishedAlways == Spec => []PublishedInv
<1>1. StructInv /\ PublishedInv /\ [Next]_vars => PublishedInv'
  BY PublishedStep
<1> QED
  BY InitPublished, <1>1, Structured, PTL DEF Spec

--------------------------------------------------------------------------------
(* Rows go from one place to the next, and out of all of them only when they have
   expired. *)

IsKept(e) ==
  e \in expired \/ \E s \in active \cup pending \cup catalog : e \in s.rows

KeptInv ==
  /\ app.step = "full" \/ (app.step = "init" /\ app.after # "insert") => IsKept(app.event)
  /\ \A e \in acked : IsKept(e)

LEMMA InitKept == Init => KeptInv
BY DEF Init, KeptInv, NoAppend

LEMMA AppendKeeps ==
  ASSUME StructInv, Append, NEW e, IsKept(e)
  PROVE  IsKept(e)'
<1>1. /\ tier.path \in Nat /\ tier.nextSeq - 1 \in Nat /\ TypedInv
      /\ active \subseteq ActiveFiles /\ app.event \in Events
  BY DEF StructInv, TypedInv, TypeOK, ActiveBelow, ActiveFiles
<1>2. CASE RenameActive
  <2>1. PICK a \in active, new \in Segments :
          /\ new.rows = a.rows /\ active' = active \ {a} /\ pending' = pending \cup {new}
          /\ UNCHANGED <<catalog, expired>>
    BY <1>1, <1>2, RenameEffect DEF catalogVars
  <2> QED
    BY <2>1 DEF IsKept
<1>3. CASE /\ UNCHANGED <<pending, catalog, expired>>
           /\ active' \in {active, Created(tier.path), Created(tier.nextSeq - 1), Inserted}
  <2>1. active \subseteq active' \/ active' = Inserted
    BY <1>1, <1>3, CreatedEffect
  <2>2. \A a \in active : \E b \in Inserted : a.rows \subseteq b.rows
    BY <1>1, InsertedEffect
  <2> QED
    BY <1>3, <2>1, <2>2 DEF IsKept
<1> QED
  BY <1>2, <1>3
     DEF Append, Appending, BeginAppend, RolloverFirst, RolloverAfter, InitActive, Insert,
         InitActiveFails, InsertFails, appendRest, catalogVars

(* The active segment that retention removes has expired as a whole. *)
LEMMA JudgeKeeps ==
  ASSUME StructInv, JudgeActive, NEW e, \E a \in active : e \in a.rows
  PROVE  e \in expired \/ \E a \in active' : e \in a.rows
<1>1. tier.path \in Nat /\ ActiveUnique
  BY DEF StructInv, TypedInv, TypeOK, FilesInv
<1>2. CASE Expired(Current) # {} /\ active' = active \ Current
  <2>1. PICK x \in Current : x.rows \subseteq expired
    BY <1>2 DEF Expired
  <2>2. \A a \in Current : a = x
    BY <1>1, <2>1 DEF Current, ActiveUnique
  <2> QED
    BY <1>2, <2>1, <2>2
<1>3. CASE active' \in {active, Created(tier.path)}
  BY <1>1, <1>3, CreatedEffect
<1> QED
  BY <1>2, <1>3 DEF JudgeActive

LEMMA RetentionKeeps ==
  ASSUME StructInv, Retention, NEW e, IsKept(e)
  PROVE  IsKept(e)'
<1>1. UNCHANGED <<pending, expired>> /\ tier.nextSeq - 1 \in Nat
  <2>1. tier.nextSeq - 1 \in Nat
    BY DEF StructInv, TypedInv, TypeOK, ActiveBelow
  <2> QED
    BY <2>1
       DEF Retention, Maintenance, CheckActive, ReplaceActive, ReplaceActiveFails,
           DeleteExpired, AnnounceDeletion, RemoveExpiredFile, ReadPaths, ListArchive,
           RemoveOrphan, RetentionFails, pruneRest, retentionRest
<1>2. \A c \in catalog : c \in catalog' \/ c.rows \subseteq expired
  BY CatalogKeeps DEF Next
<1>3. ASSUME \E a \in active : e \in a.rows
      PROVE  e \in expired \/ \E a \in active' : e \in a.rows
  <2>1. CASE CheckActive
    BY <1>3, <2>1, JudgeKeeps DEF CheckActive
  <2>2. CASE active' \in {active, Created(tier.nextSeq - 1)}
    BY <1>1, <1>3, <2>2, CreatedEffect
  <2> QED
    BY <2>1, <2>2
       DEF Retention, Maintenance, ReplaceActive, ReplaceActiveFails,
           DeleteExpired, AnnounceDeletion, RemoveExpiredFile, ReadPaths, ListArchive,
           RemoveOrphan, RetentionFails, pruneRest
<1> QED
  BY <1>1, <1>2, <1>3 DEF IsKept

LEMMA SealKeeps ==
  ASSUME StructInv, PublishedInv, Seal, NEW e, IsKept(e)
  PROVE  IsKept(e)'
<1>1. UNCHANGED <<active, expired>>
  BY DEF Seal, TakeSealerLock, ArchiveSegment, CollectEvents, Publish, AnnounceSegment,
         RemovePending, AttemptFails, sealRest
<1>2. \A c \in catalog : c \in catalog' \/ c.rows \subseteq expired
  BY CatalogKeeps DEF Next
<1>3. \A s \in pending : s \in pending' \/ s \in catalog \/ s.rows \subseteq expired
  <2>1. CASE RemovePending
    <3>1. /\ sealer.step = "unlink"
          /\ \A s \in pending : s \in pending' \/ s.id = sealer.id
      BY <2>1 DEF RemovePending, WithId
    <3> QED
      BY <3>1 DEF PublishedInv
  <2>2. CASE UNCHANGED pending
    BY <2>2
  <2> QED
    BY <2>1, <2>2
       DEF Seal, TakeSealerLock, ArchiveSegment, CollectEvents, Publish, AnnounceSegment,
           AttemptFails
<1> QED
  BY <1>1, <1>2, <1>3 DEF IsKept

LEMMA OtherKeeps ==
  ASSUME StructInv, NEW e, IsKept(e),
         Crash \/ SeedInterrupted \/ Start \/ Expire \/ Read \/ CachedExpires
           \/ UNCHANGED vars
  PROVE  IsKept(e)'
<1>1. /\ \A c \in catalog : c \in catalog' \/ c.rows \subseteq expired
      /\ expired \subseteq expired'
  BY CatalogKeeps DEF Next
<1>2. UNCHANGED pending
  BY DEF Crash, SeedInterrupted, Start, Expire, Read, CachedExpires, storeVars,
         fileVars, vars
<1>3. active \subseteq active'
  <2>1. CASE Start
    BY <2>1, ChosenPathIsNumber, CreatedEffect DEF Start, StructInv
  <2>2. CASE ~Start
    BY <2>2
       DEF Crash, SeedInterrupted, Expire, Read, CachedExpires, storeVars, fileVars, vars
  <2> QED
    BY <2>1, <2>2
<1> QED
  BY <1>1, <1>2, <1>3 DEF IsKept

(* The event that was inserted is kept before its append is acknowledged. *)
LEMMA KeptStep ==
  ASSUME StructInv, PublishedInv, KeptInv, [Next]_vars
  PROVE  KeptInv'
<1>1. \A e : IsKept(e) => IsKept(e)'
  BY AppendKeeps, RetentionKeeps, SealKeeps, OtherKeeps DEF Next
<1>2. /\ app \in [step : AppendSteps, event : Events, after : AppendSteps, file : Nat]
      /\ NoAppend.step = "idle" /\ active \subseteq ActiveFiles
  BY DEF StructInv, TypedInv, TypeOK, NoAppend, ActiveFiles
<1>3. PICK x \in Events : x = app.event
  BY <1>2
<1>4. CASE Insert
  <2>1. PICK a \in active : a.seq = app.file
    BY <1>4 DEF Insert, StructInv, FilesInv
  <2>2. PICK b \in active' : x \in b.rows
    BY <1>2, <1>3, <1>4, <2>1, InsertedEffect DEF Insert
  <2>3. IsKept(x)'
    BY <2>2 DEF IsKept
  <2>4. CASE Acknowledge
    BY <1>1, <1>2, <1>3, <2>3, <2>4 DEF Acknowledge, AppendEnds, KeptInv
  <2>5. CASE app' = [app EXCEPT !.step = "full", !.after = "idle"] /\ UNCHANGED acked
    <3>1. app'.event = x
      BY <1>2, <1>3, <2>5
    <3>2. IsKept(app.event)'
      BY <2>3, <3>1
    <3> QED
      BY <1>1, <2>5, <3>2 DEF KeptInv
  <2> QED
    BY <1>4, <2>4, <2>5 DEF Insert
<1>5. CASE InitActive
  <2>1. \/ app' = Inserting(app.event, tier.nextSeq - 1) /\ UNCHANGED acked
        \/ Acknowledge /\ app.after # "insert"
    BY <1>5 DEF InitActive
  <2>2. CASE app' = Inserting(app.event, tier.nextSeq - 1) /\ UNCHANGED acked
    BY <1>1, <2>2 DEF Inserting, KeptInv
  <2>3. CASE Acknowledge /\ app.after # "insert"
    <3>1. IsKept(x)'
      BY <1>1, <1>3, <1>5, <2>3 DEF InitActive, KeptInv
    <3> QED
      BY <1>1, <1>2, <1>3, <2>3, <3>1 DEF Acknowledge, AppendEnds, KeptInv
  <2> QED
    BY <2>1, <2>2, <2>3
<1>6. CASE RolloverAfter
  <2>1. app'.event = x /\ app.step = "full" /\ UNCHANGED acked
    BY <1>2, <1>3, <1>6 DEF RolloverAfter, RenameActive, historyVars
  <2>2. IsKept(x)'
    BY <1>1, <1>3, <2>1 DEF KeptInv
  <2>3. IsKept(app.event)'
    BY <2>1, <2>2
  <2> QED
    BY <1>1, <2>1, <2>3 DEF KeptInv
<1>7. ASSUME NEW e \in Events, BeginAppend(e) \/ RolloverFirst(e) PROVE KeptInv'
  BY <1>1, <1>7
     DEF BeginAppend, Inserting, RolloverFirst, RenameActive, historyVars, KeptInv
<1>8. CASE app' = NoAppend /\ UNCHANGED acked
  BY <1>1, <1>2, <1>8 DEF KeptInv
<1>9. CASE UNCHANGED <<app, acked>>
  <2>1. app'.event = x
    BY <1>3, <1>9
  <2>2. IsKept(x)' => IsKept(app.event)'
    BY <2>1
  <2> QED
    BY <1>1, <1>3, <1>9, <2>2 DEF KeptInv
<1>10. CASE InitActiveFails \/ InsertFails
  BY <1>8, <1>10 DEF InitActiveFails, InsertFails, AppendEnds, historyVars
<1>11. CASE Retention
  BY <1>9, <1>11
     DEF Retention, Maintenance, CheckActive, ReplaceActive, ReplaceActiveFails,
         DeleteExpired, AnnounceDeletion, RemoveExpiredFile, ReadPaths, ListArchive,
         RemoveOrphan, RetentionFails, pruneRest, retentionRest
<1>12. CASE Seal
  BY <1>9, <1>12
     DEF Seal, TakeSealerLock, ArchiveSegment, CollectEvents, Publish, AnnounceSegment,
         RemovePending, AttemptFails, sealRest
<1>13. CASE Crash \/ SeedInterrupted \/ Start \/ Expire \/ Read \/ CachedExpires
              \/ UNCHANGED vars
  BY <1>8, <1>9, <1>13
     DEF Crash, SeedInterrupted, Start, Expire, Read, CachedExpires, storeVars,
         historyVars, vars
<1> QED
  BY <1>4, <1>5, <1>6, <1>7, <1>10, <1>11, <1>12, <1>13 DEF Next, Append, Appending

LEMMA KeptAlways == Spec => []KeptInv
<1>1. StructInv /\ PublishedInv /\ KeptInv /\ [Next]_vars => KeptInv'
  BY KeptStep
<1> QED
  BY InitKept, <1>1, Structured, PublishedAlways, PTL DEF Spec

--------------------------------------------------------------------------------
(* While the generation is up to date, a cached answer, and one that is about to be
   stored with the current stamp, names the segment of a published event. *)

Published(e) == \E s \in catalog : e \in s.rows

LookupInv ==
  /\ ~behind => \A c \in cached : Published(c.event) => c.ids # {}
  /\ ~behind /\ lookup.step = "write" /\ lookup.current /\ Published(lookup.event)
       => lookup.ids # {}
  /\ lookup.owed /\ lookup.step = "load" => Published(lookup.event)
  /\ lookup.owed /\ lookup.step \in {"write", "open"} => lookup.ids # {}

LEMMA InitLookup == Init => LookupInv
BY DEF Init, CatalogInit, LookupInv, NoLookup

LEMMA LookupStutter ==
  ASSUME LookupInv, UNCHANGED <<catalogVars, lookup>>
  PROVE  LookupInv'
BY DEF LookupInv, Published, catalogVars

LEMMA LookupIdle ==
  ASSUME lookup'.step = "idle",
         cached' = {} \/ (LookupInv /\ UNCHANGED catalogVars)
  PROVE  LookupInv'
<1>1. ~behind' => \A c \in cached' : Published(c.event)' => c.ids # {}
  BY DEF LookupInv, Published, catalogVars
<1> QED
  BY <1>1 DEF LookupInv

LEMMA LookupIs ==
  ASSUME CatalogTypeOK
  PROVE  /\ lookup \in [step : LookupSteps, event : Events, current : BOOLEAN,
                        ids : SUBSET Nat, owed : BOOLEAN]
         /\ behind \in BOOLEAN
BY DEF CatalogTypeOK

LEMMA BumpLookup ==
  ASSUME CatalogTypeOK, LookupInv, BumpGeneration
  PROVE  LookupInv'
<1>1. CASE behind' = FALSE /\ cached' = {} /\ lookup' = [lookup EXCEPT !.current = FALSE]
           /\ catalog' = catalog
  <2>1. /\ lookup'.step = lookup.step /\ lookup'.event = lookup.event
        /\ lookup'.current = FALSE /\ lookup'.ids = lookup.ids
        /\ lookup'.owed = lookup.owed
    BY <1>1, LookupIs
  <2>2. Published(lookup.event) <=> Published(lookup.event)'
    BY <1>1, <2>1 DEF Published
  <2> QED
    BY <1>1, <2>1, <2>2 DEF LookupInv
<1> QED
  BY <1>1, LookupStutter DEF BumpGeneration

LEMMA CommitLookup ==
  ASSUME CatalogTypeOK, LookupInv, OneSegmentPerId, NEW s \in pending, CommitSegment(s)
  PROVE  LookupInv'
<1>1. behind' = TRUE /\ lookup' = lookup /\ catalog \subseteq catalog'
  BY DEF CommitSegment, OneSegmentPerId, Everywhere
<1>2. Published(lookup.event) => Published(lookup.event)'
  BY <1>1 DEF Published
<1> QED
  BY <1>1, <1>2 DEF LookupInv

LEMMA DeleteLookup ==
  ASSUME CatalogTypeOK, LookupInv, NEW S, DeleteSegments(S)
  PROVE  LookupInv'
<1>1. /\ catalog' = catalog \ S /\ cached' = cached
      /\ lookup'.step = lookup.step /\ lookup'.event = lookup.event
      /\ lookup'.current = lookup.current /\ lookup'.ids = lookup.ids
  BY LookupIs DEF DeleteSegments
<1>2. ~behind' => ~behind
  BY LookupIs DEF DeleteSegments
<1>3. lookup'.owed => lookup.owed /\ Published(lookup.event)'
  <2>1. lookup'.owed = (lookup.owed /\ \E s \in catalog' : lookup.event \in s.rows)
    BY <1>1, LookupIs DEF DeleteSegments
  <2> QED
    BY <1>1, <2>1, LookupIs DEF Published
<1>4. \A e : Published(e)' => Published(e)
  BY <1>1 DEF Published
<1>5. Published(lookup.event)' => Published(lookup.event)
  BY <1>1 DEF Published
<1> QED
  BY <1>1, <1>2, <1>3, <1>4, <1>5 DEF LookupInv

LEMMA ReadLookup ==
  ASSUME CatalogTypeOK, LookupInv, Lookup
  PROVE  LookupInv'
<1>1. ASSUME NEW e \in Sought, LocateHit(e) PROVE LookupInv'
  <2>1. PICK c \in cached :
          /\ c.event = e
          /\ lookup' = [step |-> "open", event |-> e, current |-> TRUE, ids |-> c.ids,
                        owed |-> Owed(e)]
    BY <1>1 DEF LocateHit
  <2>2. /\ lookup'.step = "open" /\ lookup'.ids = c.ids /\ lookup'.owed = Owed(e)
        /\ UNCHANGED catalogVars
    BY <1>1, <2>1 DEF LocateHit
  <2>3. Owed(e) => c.ids # {}
    BY <2>1 DEF Owed, LookupInv, Published, RowsOf
  <2> QED
    BY <2>2, <2>3 DEF LookupInv, Published, catalogVars
<1>2. ASSUME NEW e \in Sought, LocateMiss(e) PROVE LookupInv'
  <2>1. /\ lookup'.step = "load" /\ lookup'.event = e /\ lookup'.owed = Owed(e)
        /\ UNCHANGED catalogVars
    BY <1>2 DEF LocateMiss
  <2>2. Owed(e) => Published(e)
    BY DEF Owed, Published, RowsOf
  <2>3. Published(e) <=> Published(lookup.event)'
    BY <2>1 DEF Published, catalogVars
  <2> QED
    BY <2>1, <2>2, <2>3 DEF LookupInv, Published, catalogVars
<1>3. CASE LoadLocator
  <2>1. PICK ids \in Located(lookup.event) :
          lookup' = [lookup EXCEPT !.step = "write", !.ids = ids]
    BY <1>3 DEF LoadLocator
  <2>2. /\ lookup'.step = "write" /\ lookup'.event = lookup.event
        /\ lookup'.ids = ids /\ lookup'.owed = lookup.owed
        /\ UNCHANGED catalogVars /\ lookup.step = "load"
    BY <1>3, <2>1, LookupIs DEF LoadLocator
  <2>3. Published(lookup.event) => ids # {}
    BY <2>1 DEF Published, Located
  <2>4. Published(lookup.event)' => Published(lookup.event)
    BY <2>2 DEF Published, catalogVars
  <2> QED
    BY <2>2, <2>3, <2>4 DEF LookupInv, Published, catalogVars
<1>4. CASE WriteLocator
  <2> DEFINE entry == [event |-> lookup.event, ids |-> lookup.ids]
  <2>1. /\ cached' = {c \in cached : c.event # lookup.event}
                       \cup {c \in {entry} : lookup.current}
        /\ lookup' = [lookup EXCEPT !.step = "open"] /\ UNCHANGED <<catalog, behind>>
        /\ lookup.step = "write"
    BY <1>4 DEF WriteLocator
  <2>2. /\ lookup'.step = "open" /\ lookup'.ids = lookup.ids
        /\ lookup'.owed = lookup.owed
    BY <2>1, LookupIs
  <2>3. entry.event = lookup.event /\ entry.ids = lookup.ids
    OBVIOUS
  <2> HIDE DEF entry
  <2>4. \A c \in cached' : c \in cached \/ (c = entry /\ lookup.current)
    BY <2>1
  <2>5. ~behind => \A c \in cached' : Published(c.event) => c.ids # {}
    BY <2>1, <2>3, <2>4 DEF LookupInv
  <2>6. \A e : Published(e)' <=> Published(e)
    BY <2>1 DEF Published
  <2> QED
    BY <2>1, <2>2, <2>5, <2>6 DEF LookupInv
<1>5. CASE OpenLocated
  <2>1. lookup'.step = "idle" /\ UNCHANGED catalogVars
    BY <1>5 DEF OpenLocated, NoLookup
  <2> QED
    BY <2>1, LookupIdle
<1> QED
  BY <1>1, <1>2, <1>3, <1>4, <1>5 DEF Lookup

LEMMA CachedExpiresLookup ==
  ASSUME LookupInv, CacheExpires
  PROVE  LookupInv'
<1>1. cached' \subseteq cached /\ UNCHANGED <<catalog, behind, lookup>>
  BY DEF CacheExpires
<1>2. \A e : Published(e)' <=> Published(e)
  BY <1>1 DEF Published
<1>3. Published(lookup.event)' <=> Published(lookup.event)
  BY <1>1 DEF Published
<1> QED
  BY <1>1, <1>2, <1>3 DEF LookupInv

LEMMA LookupStep ==
  ASSUME StructInv, LookupInv, [Next]_vars
  PROVE  LookupInv'
<1>1. CatalogTypeOK /\ OneSegmentPerId
  BY DEF StructInv, TypedInv, TypeOK
<1>2. CASE Append
  <2>1. UNCHANGED <<catalogVars, lookup>>
    BY <1>2
       DEF Append, Appending, BeginAppend, RolloverFirst, RolloverAfter, InitActive, Insert,
           InitActiveFails, InsertFails, RenameActive, appendRest
  <2> QED
    BY <2>1, LookupStutter
<1>3. CASE Retention
  <2>1. \/ DeleteSegments(Expired(catalog)) \/ BumpGeneration
        \/ UNCHANGED <<catalogVars, lookup>>
    BY <1>3
       DEF Retention, Maintenance, CheckActive, ReplaceActive, ReplaceActiveFails,
           DeleteExpired, AnnounceDeletion, RemoveExpiredFile, ReadPaths, ListArchive,
           RemoveOrphan, RetentionFails
  <2> QED
    BY <1>1, <2>1, DeleteLookup, BumpLookup, LookupStutter
<1>4. CASE Seal
  <2>1. \/ \E s \in pending : CommitSegment(s)
        \/ BumpGeneration \/ UNCHANGED <<catalogVars, lookup>>
    BY <1>4
       DEF Seal, TakeSealerLock, ArchiveSegment, CollectEvents, Publish, AnnounceSegment,
           RemovePending, AttemptFails, WithId
  <2> QED
    BY <1>1, <2>1, CommitLookup, BumpLookup, LookupStutter
<1>5. CASE SeedInterrupted \/ Start
  <2>1. lookup'.step = "idle"
    BY <1>5 DEF SeedInterrupted, Start, StructInv, ControlInv
  <2>2. cached' = {} \/ UNCHANGED catalogVars
    BY <1>5 DEF SeedInterrupted, Start
  <2> QED
    BY <2>1, <2>2, LookupIdle
<1>6. CASE Crash
  <2>1. lookup'.step = "idle" /\ UNCHANGED catalogVars
    BY <1>6 DEF Crash, NoLookup
  <2> QED
    BY <2>1, LookupIdle
<1>7. CASE Expire \/ UNCHANGED vars
  BY <1>7, LookupStutter DEF Expire, vars
<1> QED
  BY <1>1, <1>2, <1>3, <1>4, <1>5, <1>6, <1>7, ReadLookup, CachedExpiresLookup
     DEF Next, Read, CachedExpires

LEMMA LookupAlways == Spec => []LookupInv
<1>1. StructInv /\ LookupInv /\ [Next]_vars => LookupInv'
  BY LookupStep
<1> QED
  BY InitLookup, <1>1, Structured, PTL DEF Spec

--------------------------------------------------------------------------------
(* The theorems. *)

(* Every state of the tiered store and of the lookups has its type. *)
THEOREM SegmentTypes == Spec => []TypeOK
BY Structured, PTL DEF StructInv, TypedInv

(* An event whose append_usage_events_to_tiered returned Ok is in active/, in
   pending/, or in an archived file the catalog names, until it expires: whatever the
   order of append, rollover, sealer, retention, crash and restart, and whichever of
   their steps fail, except that prune_orphan_archived_duckdb_files may delete a file
   that was published behind its back. *)
THEOREM AcknowledgedIsKept == Spec => []AckedIsKept
<1>1. BackedInv /\ KeptInv => AckedIsKept
  <2> SUFFICES ASSUME BackedInv, KeptInv, NEW e \in acked, e \notin expired
               PROVE  e \in RowsOf(Files) \cup RowsOf({s \in catalog :
                                 s.id \in IdsOf(archive) \cup raced})
    BY DEF AckedIsKept
  <2>1. PICK s \in active \cup pending \cup catalog : e \in s.rows
    BY DEF KeptInv, IsKept
  <2>2. CASE s \in active
    BY <2>1, <2>2 DEF Files, RowsOf
  <2>3. CASE s \in pending
    <3> DEFINE file == [seq |-> s.seq, rows |-> s.rows]
    <3>1. file \in Files /\ e \in file.rows
      BY <2>1, <2>3 DEF Files
    <3> QED
      BY <3>1, IdsAndRows
  <2>4. CASE s \in catalog
    <3>1. IsBacked(s)
      BY <2>1, <2>4 DEF BackedInv
    <3>2. s.id \in IdsOf(archive) \cup raced
      BY <3>1 DEF IsBacked, IdsOf
    <3> QED
      BY <2>1, <2>4, <3>2 DEF RowsOf
  <2> QED
    BY <2>1, <2>2, <2>3, <2>4
<1> QED
  BY <1>1, Backed, KeptAlways, PTL

(* publish_segment_catalog commits after the rename into the archive, and retention
   deletes the rows of the table before the files: the catalog names existing files,
   but for expired segments and those orphan pruning took. *)
THEOREM CatalogIsBacked == Spec => []CatalogNamesFiles
<1>1. StructInv /\ BackedInv => CatalogNamesFiles
  <2> SUFFICES ASSUME StructInv, BackedInv, NEW c \in catalog, c \notin Expired(catalog)
               PROVE  c.id \in IdsOf(archive) \cup raced
    BY DEF CatalogNamesFiles, IdsOf
  <2>1. c.rows # {}
    BY DEF StructInv, OneSegmentPerId, Everywhere
  <2>2. IsBacked(c)
    BY <2>1 DEF BackedInv, Expired
  <2> QED
    BY <2>2 DEF IsBacked, IdsOf
<1> QED
  BY <1>1, Structured, Backed, PTL

(* locate_archived_segment finds the segment of an event that was published and
   announced when the lookup began, unless the segment is dropped meanwhile: the
   generation is read before the cache and the table, so no answer of before the
   publication is served after the bump that announces it. *)
THEOREM LookupsFind == Spec => []LookupFindsPublished
<1>1. LookupInv => LookupFindsPublished
  BY DEF LookupInv, LookupFindsPublished
<1> QED
  BY LookupAlways, <1>1, PTL

================================================================================
