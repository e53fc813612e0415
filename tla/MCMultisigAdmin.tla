--------------------------- MODULE MCMultisigAdmin ---------------------------
(* Model-checking instance of MultisigAdmin: four accounts and three signer *)
(* triples - the first with a key in two slots, the others overlapping in   *)
(* keys that change slot - and two or three operations.                     *)
EXTENDS MultisigAdmin

CONSTANTS A, B, C, D

Triple(x, y, z) == [i \in Index |-> IF i = 0 THEN x ELSE IF i = 1 THEN y ELSE z]

MCAddress == {A, B, C, D}
MCSignerSets == {Triple(A, B, C), Triple(B, D, A)}
MCDuplicateSets == {Triple(A, A, B), Triple(A, B, C), Triple(B, D, A)}

==============================================================================
