------------------------------ MODULE RollupLedger ------------------------------
(***************************************************************************)
(* What quota accounting promises, without channel, buffer, batches, disk, *)
(* overlay or retries: usage that was accepted is billed exactly once or   *)
(* is lost for good; lost usage is never billed, and usage is never billed *)
(* before its recording succeeded.                                         *)
(***************************************************************************)
EXTENDS Naturals

CONSTANT Events

VARIABLES
  accepted,     (* events whose recording returned Ok                       *)
  bills,        (* how often each event is contained in the key's row       *)
  lost          (* accepted events nothing will bill any more               *)

ledgerVars == <<accepted, bills, lost>>

LedgerInit ==
  /\ accepted = {}
  /\ bills = [e \in Events |-> 0]
  /\ lost = {}

Accept(e) ==
  /\ accepted' = accepted \cup {e}
  /\ UNCHANGED <<bills, lost>>

Unbilled == {e \in accepted \ lost : bills[e] = 0}

Bill(S) ==
  /\ S \subseteq Unbilled
  /\ bills' = [e \in Events |-> IF e \in S THEN 1 ELSE bills[e]]
  /\ UNCHANGED <<accepted, lost>>

Lose(S) ==
  /\ S \subseteq Unbilled
  /\ lost' = lost \cup S
  /\ UNCHANGED <<accepted, bills>>

LedgerNext ==
  \/ \E e \in Events : Accept(e)
  \/ \E S \in SUBSET Events : Bill(S) \/ Lose(S)

LedgerSpec == LedgerInit /\ [][LedgerNext]_ledgerVars
================================================================================
