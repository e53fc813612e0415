----------------------------- MODULE MCContracts -----------------------------
(* Model-checking instance of EnergyToken and AuditRegistry, called side by *)
(* side on one network: three accounts, of which one lets another spend for *)
(* it, and itself too; three hashes, two of which share a bucket.           *)
EXTENDS EnergyToken, AuditRegistry

CONSTANTS A, B, C, H1, H2, H3

MCApproving == {<<A, A>>, <<A, B>>}
MCHash == {H1, H2, H3}
MCGetBucketId == [h \in MCHash |-> IF h = H3 THEN 1 ELSE 0]

Init == TokenInit /\ RegistryInit

Next ==
  \/ TokenNext /\ UNCHANGED registryVars
  \/ RegistryNext /\ UNCHANGED tokenVars

Spec == Init /\ [][Next]_<<tokenVars, registryVars>>

(* Neither contract reads the other's storage: each is explored as long as *)
(* the other was not called.                                               *)
OneContractAtATime == TokenInit \/ RegistryInit

==============================================================================
