------------------------------- MODULE Accounts -------------------------------
(***************************************************************************)
(* The accounts that call the contracts of SolarProof.  A ledger has       *)
(* finitely many, and a contract's role key that was never written holds   *)
(* none of them.                                                           *)
(***************************************************************************)
EXTENDS Integers, FiniteSets

CONSTANTS Address,
          NoAddress     \* a role key not written yet

ASSUME AccountsAssumption ==
  /\ NoAddress \notin Address
  /\ IsFiniteSet(Address)

==============================================================================
