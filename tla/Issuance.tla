------------------------------- MODULE Issuance -------------------------------
(***************************************************************************)
(* What the batch route promises of the readings it accepts                *)
(* (apps/web/src/app/api/readings/batch/route.ts), with none of its        *)
(* requests, awaits and transactions in flight: readings are stored once,  *)
(* only stored ones are anchored, there are no more mints of an amount     *)
(* than stored readings of it, and a certificate joins a reading and a     *)
(* mint that no other certificate names.  Anchors and mints may come at    *)
(* any time or never: a certificate is issued when its mint is handed to   *)
(* the network, before the network has applied it.                         *)
(***************************************************************************)
EXTENDS Integers, FiniteSets

CONSTANTS Reading, MintTx,
          MintCall      \* [Reading -> what a mint of the reading calls]

VARIABLES rows, anchored, minted, certificates

vars == <<rows, anchored, minted, certificates>>

Init == rows = {} /\ anchored = {} /\ minted = {} /\ certificates = {}

Store(r) ==
  /\ r \in Reading \ rows
  /\ rows' = rows \cup {r}
  /\ UNCHANGED <<anchored, minted, certificates>>

Anchor(r) ==
  /\ r \in rows
  /\ anchored' = anchored \cup {r}
  /\ UNCHANGED <<rows, minted, certificates>>

Mint(t) ==
  /\ t \in MintTx \ minted
  /\ Cardinality({u \in minted : u.mints = t.mints})
       < Cardinality({r \in rows : MintCall[r] = t.mints})
  /\ minted' = minted \cup {t}
  /\ UNCHANGED <<rows, anchored, certificates>>

Certify(r, t) ==
  /\ r \in rows
  /\ t \in MintTx /\ t.mints = MintCall[r]
  /\ \A c \in certificates : c.reading # r /\ c.mint_tx # t
  /\ certificates' = certificates \cup {[reading |-> r, mint_tx |-> t]}
  /\ UNCHANGED <<rows, anchored, minted>>

(* A step is known by what it adds.                                        *)
Next ==
  \/ \E r \in rows' \ rows : Store(r)
  \/ \E r \in anchored' \ anchored : Anchor(r)
  \/ \E t \in minted' \ minted : Mint(t)
  \/ \E c \in certificates' \ certificates : Certify(c.reading, c.mint_tx)

Spec == Init /\ [][Next]_vars

==============================================================================
