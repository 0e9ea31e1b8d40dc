------------------------------- MODULE UsageCatalog -------------------------------
(***************************************************************************)
(* The catalog of archived usage segments: the tables llm_usage_segments   *)
(* and llm_usage_segment_events in Postgres, and the lookup of an event's  *)
(* segment, which a shared request cache answers while its stamp is the    *)
(* current catalog generation.                                             *)
(*                                                                         *)
(* The generation only grows, so a stamp is either current or dead for     *)
(* ever: `cached` holds the entries with the current stamp, and a bump     *)
(* empties it.                                                             *)
(***************************************************************************)
EXTENDS Naturals, FiniteSets

CONSTANTS
  Events,   (* usage events                                                  *)
  Sought,   (* the events a reader looks up                                  *)
  Faults    (* what may go wrong                                             *)

FaultKinds ==
  {"crash", "append", "init", "initTorn", "seal", "retention", "redis"}

ASSUME FaultsAssumption == Faults \subseteq FaultKinds

ASSUME SoughtAssumption == Sought \subseteq Events /\ Events # {}

VARIABLES
  catalog,  (* segments of the table, with their events                      *)
  behind,   (* the catalog changed and the generation has not yet            *)
  cached,   (* [event, ids] of cached answers with the current stamp         *)
  lookup    (* a reader: step, event, whether its stamp is still current,    *)
            (* the segment, and whether the event was published all the time *)

catalogVars == <<catalog, behind, cached>>

Segments == [id : Nat, seq : Nat, rows : SUBSET Events]

LookupSteps == {"idle", "load", "write", "open"}

CatalogTypeOK ==
  /\ catalog \subseteq Segments
  /\ behind \in BOOLEAN
  /\ cached \subseteq [event : Events, ids : SUBSET Nat]
  /\ lookup \in [step : LookupSteps, event : Events, current : BOOLEAN,
                 ids : SUBSET Nat, owed : BOOLEAN]

NoLookup ==
  [step |-> "idle", event |-> CHOOSE e \in Events : TRUE, current |-> FALSE,
   ids |-> {}, owed |-> FALSE]

CatalogInit ==
  /\ catalog = {} /\ behind = FALSE /\ cached = {}
  /\ lookup = NoLookup

IdsOf(S) == {s.id : s \in S}
RowsOf(S) == UNION {s.rows : s \in S}

(* The segment llm_usage_segment_events names for an event: the one that was
   published last; which one is left open if there are several. *)
Located(e) ==
  LET holders == {s \in catalog : e \in s.rows}
  IN  IF holders = {} THEN {{}} ELSE {{s.id} : s \in holders}

(* bump_generation: an error is logged and ignored.                          *)
BumpGeneration ==
  \/ /\ behind' = FALSE
     /\ cached' = {}
     /\ lookup' = [lookup EXCEPT !.current = FALSE]
     /\ UNCHANGED catalog
  \/ "redis" \in Faults /\ UNCHANGED <<catalogVars, lookup>>

(* publish_segment, the transaction.                                         *)
CommitSegment(s) ==
  /\ catalog' = {c \in catalog : c.id # s.id} \cup {s}
  /\ behind' = TRUE
  /\ UNCHANGED <<cached, lookup>>

(* delete_expired_segments, the transaction.                                 *)
DeleteSegments(S) ==
  /\ catalog' = catalog \ S
  /\ behind' = (behind \/ S # {})
  /\ lookup' = [lookup EXCEPT !.owed = @ /\ \E s \in catalog \ S : lookup.event \in s.rows]
  /\ UNCHANGED cached
--------------------------------------------------------------------------------
(* locate_archived_segment for an event that the active segment does not hold. *)


(* Published and announced: a reader that starts now must find the event.    *)
Owed(e) == ~behind /\ e \in RowsOf(catalog)

(* The generation is read first, then the cache is asked for its answer.     *)
LocateHit(e) ==
  /\ lookup.step = "idle"
  /\ \E c \in cached :
       /\ c.event = e
       /\ lookup' = [step |-> "open", event |-> e, current |-> TRUE, ids |-> c.ids,
                     owed |-> Owed(e)]
  /\ UNCHANGED catalogVars

LocateMiss(e) ==
  /\ lookup.step = "idle"
  /\ \A c \in cached : c.event # e
  /\ lookup' = [step |-> "load", event |-> e, current |-> TRUE, ids |-> {},
                owed |-> Owed(e)]
  /\ UNCHANGED catalogVars

(* load_archived_segment_locator.                                            *)
LoadLocator ==
  /\ lookup.step = "load"
  /\ \E ids \in Located(lookup.event) :
       lookup' = [lookup EXCEPT !.step = "write", !.ids = ids]
  /\ UNCHANGED catalogVars

(* Mutant: the answer is stamped with the generation of the moment it is
   written. *)
WriteLocatorStampedNow ==
  /\ lookup.step = "write"
  /\ cached' = {c \in cached : c.event # lookup.event}
                 \cup {[event |-> lookup.event, ids |-> lookup.ids]}
  /\ lookup' = [lookup EXCEPT !.step = "open"]
  /\ UNCHANGED <<catalog, behind>>

(* The answer is stored under the generation that was read first; an entry with
   an older stamp replaces a current one all the same. *)
WriteLocator ==
  /\ lookup.step = "write"
  /\ cached' = {c \in cached : c.event # lookup.event}
                 \cup {c \in {[event |-> lookup.event, ids |-> lookup.ids]} : lookup.current}
  /\ lookup' = [lookup EXCEPT !.step = "open"]
  /\ UNCHANGED <<catalog, behind>>

(* The named file is opened, if there is one; the lookup is over.            *)
OpenLocated ==
  /\ lookup.step = "open"
  /\ lookup' = NoLookup
  /\ UNCHANGED catalogVars

(* The time to live of a cached answer passes.                               *)
CacheExpires ==
  /\ \E c \in cached : cached' = cached \ {c}
  /\ UNCHANGED <<catalog, behind, lookup>>

Lookup ==
  \/ \E e \in Sought : LocateHit(e) \/ LocateMiss(e)
  \/ LoadLocator \/ WriteLocator \/ OpenLocated
--------------------------------------------------------------------------------
(* A lookup that begins when an event is published finds its segment, unless the
   segment is dropped meanwhile: no answer that was read before the publication
   is served from the cache after it. *)
LookupFindsPublished == lookup.step = "open" /\ lookup.owed => lookup.ids # {}
================================================================================
