------------------------ MODULE MCCommunityGovernance ------------------------
(* Model-checking instance of CommunityGovernance: three voters, of whom    *)
(* two share a word of the bitmap and the third begins the next, two wasm   *)
(* hashes, and four basis points to the whole.                              *)
EXTENDS CommunityGovernance, TLC

CONSTANTS A, B, C, H1, H2

Voters == {A, B, C}
Hashes == {H1, H2}
Symmetry == Permutations(Address) \cup Permutations(Hash)

(* Proposals and upgrades share the admin and the ledger only, no action    *)
(* reads both: either is explored as long as the other was not begun.       *)
OneHalfAtATime == proposalCount = 0 \/ \A h \in Hash : announced[h] = Never

==============================================================================
