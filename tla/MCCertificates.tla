---------------------------- MODULE MCCertificates ----------------------------
(* Model-checking instance of Certificates: one certificate under two       *)
(* lookups, of which a mint deletes one, two requests of each kind.         *)
EXTENDS Certificates, TLC

TheCertificate == [id \in Lookup |-> CHOOSE c \in Certificate : TRUE]

(* Wallets are alike, and so are requests.                                  *)
Symmetry == Permutations(Wallet) \cup Permutations(Reader) \cup Permutations(Call)

==============================================================================
