------------------------------ MODULE AnchorLog ------------------------------
(***************************************************************************)
(* What the audit registry's anchor() and verify() promise the rest of     *)
(* SolarProof (apps/contracts/audit_registry/src/lib.rs), with none of its *)
(* storage layout: a log of reading hashes, each anchored at most once, at *)
(* the ledger of the call, and never changed afterwards.                   *)
(***************************************************************************)
EXTENDS Integers

CONSTANTS Hash,
          Unanchored    \* verify() answers None

VARIABLES now,          \* the ledger sequence
          anchoredAt    \* hash -> ledger of its anchor

vars == <<now, anchoredAt>>

Init ==
  /\ now = 0
  /\ anchoredAt = [h \in Hash |-> Unanchored]

Anchor(h) ==
  /\ anchoredAt[h] = Unanchored
  /\ anchoredAt' = [anchoredAt EXCEPT ![h] = now]
  /\ UNCHANGED now

Tick ==
  /\ now' = now + 1
  /\ UNCHANGED anchoredAt

Next == Tick \/ \E h \in Hash : Anchor(h)

Spec == Init /\ [][Next]_vars

==============================================================================
