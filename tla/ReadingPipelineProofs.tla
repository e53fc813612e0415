------------------------- MODULE ReadingPipelineProofs -------------------------
(***************************************************************************)
(* Theorems about ReadingPipeline, for any readings, meters, batches and   *)
(* seconds, finitely many requests and any bound on the sequence number.   *)
(***************************************************************************)
EXTENDS ReadingPipeline, FiniteSetTheorems, TLAPS

(* The awaits, by the transaction a request holds in them.                 *)
Unbuilt == {"idle", "received", "verified", "anchor"}
Anchoring == {"anchor_built", "anchor_prepared", "anchor_sent", "mint"}
Minting == {"mint_built", "mint_prepared", "mint_sent", "minted"}

(* A request holds no transaction, the anchor of its reading or the mint   *)
(* of its reading, and keeps what it held when it ended.                   *)
MintOf(q) == {t \in MintTx : t.mints = MintCall[ReadingOf[q]]}
HoldsTx(q) ==
  /\ pc[q] \in Unbuilt => tx[q] = NoTx
  /\ pc[q] \in Anchoring => tx[q] \in AnchorTx
  /\ pc[q] \in Minting => tx[q] \in MintOf(q)
  /\ tx[q] \in MintTx => tx[q] \in MintOf(q)

(* The request that stored its reading: it may build transactions for it,  *)
(* or has built them.                                                      *)
Owner(q) == pc[q] = "anchor" \/ tx[q] # NoTx

OwnersDistinct ==
  \A p, q \in Request : Owner(p) /\ Owner(q) /\ ReadingOf[p] = ReadingOf[q] => p = q
OwnersStored == \A q \in Request : Owner(q) => ReadingOf[q] \in stored
StoredWasSubmitted == \A r \in stored : \E q \in Request : ReadingOf[q] = r

(* A certificate is of a request that ended, and holds its mint.           *)
CertificatesOwned ==
  \A c \in certificates : \E q \in Request :
    /\ pc[q] \in Ended
    /\ c.reading = ReadingOf[q]
    /\ c.mint_tx = tx[q]

(* A mint on its way or on the ledger is held by a request.                *)
MintsOwned ==
  \A t \in (pool \cup mints) \cap MintTx : \E q \in Request : tx[q] = t

Inv ==
  /\ TypeOK
  /\ \A q \in Request : HoldsTx(q)
  /\ OwnersDistinct
  /\ OwnersStored
  /\ StoredWasSubmitted
  /\ CertificatesOwned
  /\ CertificatesDistinct
  /\ MintsOwned

------------------------------------------------------------------------------
(* The two kinds of transactions are told apart by what they call.         *)
LEMMA TxKinds ==
  /\ AnchorTx \cap MintTx = {}
  /\ NoTx \notin AnchorTx /\ NoTx \notin MintTx
<1>1. ASSUME NEW t \in AnchorTx, t \in MintTx PROVE FALSE
  <2>1. "anchors" \in DOMAIN t
    BY <1>1 DEF AnchorTx
  <2>2. "anchors" \notin DOMAIN t
    BY <1>1 DEF MintTx
  <2>3. QED
    BY <2>1, <2>2
<1>2. QED
  BY <1>1, Assumption DEF Assumption, Tx

LEMMA InitInv == Init => Inv
<1> SUFFICES ASSUME Init PROVE Inv
  OBVIOUS
<1>1. TypeOK
  BY Assumption DEF Assumption, Init, TypeOK
<1>2. \A q \in Request : HoldsTx(q) /\ ~Owner(q)
  BY TxKinds DEF Init, HoldsTx, Owner, Unbuilt, Anchoring, Minting
<1>3. QED
  BY <1>1, <1>2 DEF Init, Inv, OwnersDistinct, OwnersStored, StoredWasSubmitted,
     CertificatesOwned, CertificatesDistinct, MintsOwned

------------------------------------------------------------------------------
(* Types.                                                                  *)
LEMMA BuiltTx ==
  ASSUME TypeOK, NEW q \in Request, NEW s \in Second
  PROVE  /\ [anchors |-> ReadingOf[q], sequence |-> NextSequence, second |-> s] \in AnchorTx
         /\ [mints |-> MintCall[ReadingOf[q]], sequence |-> NextSequence, second |-> s]
              \in MintOf(q)
<1>1. NextSequence \in Sequence /\ ReadingOf[q] \in Reading
  BY Assumption DEF Assumption, TypeOK, NextSequence, Sequence
<1>2. QED
  BY <1>1 DEF AnchorTx, MintTx, MintOf

LEMMA NextType ==
  ASSUME Inv, [Next]_vars
  PROVE  TypeOK'
<1> USE Assumption DEF Assumption, database, network
<1>1. TypeOK /\ \A q \in Request : ReadingOf[q] \in Reading
  BY DEF Inv
<1>2. ASSUME NEW b \in Batch, Receive(b) PROVE TypeOK'
  BY <1>1, <1>2 DEF Receive, TypeOK, Await
<1>3. ASSUME NEW b \in Batch, Crash(b) PROVE TypeOK'
  BY <1>1, <1>3 DEF Crash, TypeOK, Ended
<1>4. ASSUME NEW m \in Meter, Revoke(m) PROVE TypeOK'
  BY <1>1, <1>4 DEF Revoke, TypeOK
<1>5. ASSUME NEW q \in Request, Verify(q) \/ Prepare(q) \/ RpcFails(q) PROVE TypeOK'
  BY <1>1, <1>5 DEF Verify, Prepare, RpcFails, Goto, TypeOK, Await, Ended
<1>6. ASSUME NEW q \in Request, Insert(q) PROVE TypeOK'
  BY <1>1, <1>6 DEF Insert, Goto, TypeOK, Await, Ended
<1>7. ASSUME NEW q \in Request, Send(q) PROVE TypeOK'
  <2>1. tx[q] \in Tx
    BY <1>7 DEF Send, Inv, HoldsTx, Sending, Anchoring, Minting, MintOf, Tx
  <2>2. pool' \in SUBSET Tx
    BY <1>1, <1>7, <2>1 DEF Send, TypeOK
  <2>3. pc' \in [Request -> Await \cup Ended \cup {"idle"}]
    BY <1>1, <1>7 DEF Send, AfterSend, Goto, TypeOK, Await, Ended
  <2>4. QED
    BY <1>1, <1>7, <2>2, <2>3 DEF Send, TypeOK
<1>8. ASSUME NEW q \in Request, MarkAnchored(q) \/ MarkMinted(q) PROVE TypeOK'
  BY <1>1, <1>8 DEF MarkAnchored, MarkMinted, Goto, TypeOK, Await
<1>9. ASSUME NEW q \in Request, Certify(q) PROVE TypeOK'
  <2>1. [reading |-> ReadingOf[q], mint_tx |-> tx[q]] \in Certificate
    BY <1>1, <1>9 DEF Certify, Inv, HoldsTx, Minting, MintOf, Certificate
  <2>2. certificates' \in SUBSET Certificate
    BY <1>1, <1>9, <2>1 DEF Certify, InsertCertificate, TypeOK
  <2>3. pc' \in [Request -> Await \cup Ended \cup {"idle"}]
    BY <1>1, <1>9 DEF Certify, Goto, TypeOK, Ended
  <2>4. QED
    BY <1>1, <1>9, <2>2, <2>3 DEF Certify, TypeOK
<1>10. ASSUME NEW q \in Request, NEW s \in Second, BuildAnchor(q, s) \/ BuildMint(q, s)
       PROVE  TypeOK'
  <2>1. PICK t \in Tx, next \in Await : Build(q, t, next)
    <3>1. CASE BuildAnchor(q, s)
      BY <1>1, <3>1, BuiltTx DEF BuildAnchor, Await, Tx
    <3>2. CASE BuildMint(q, s)
      BY <1>1, <3>2, BuiltTx DEF BuildMint, Await, Tx, MintOf
    <3>3. QED
      BY <1>10, <3>1, <3>2
  <2>2. QED
    BY <1>1, <2>1 DEF Build, Goto, TypeOK
<1>11. ASSUME NEW t \in pool, Apply(t) PROVE TypeOK'
  <2>1. sequence' \in 0..MaxSequence
    BY <1>1, <1>11 DEF Apply, TypeOK
  <2>2. anchors' \in SUBSET Reading /\ mints' \in SUBSET MintTx
    BY <1>1, <1>11 DEF Apply, TypeOK, AnchorTx
  <2>3. QED
    BY <1>1, <1>11, <2>1, <2>2 DEF Apply, TypeOK
<1>12. ASSUME NEW t \in pool, Drop(t) PROVE TypeOK'
  BY <1>1, <1>12 DEF Drop, TypeOK
<1>13. CASE UNCHANGED vars
  BY <1>1, <1>13 DEF vars, TypeOK
<1>14. QED
  BY <1>2, <1>3, <1>4, <1>5, <1>6, <1>7, <1>8, <1>9, <1>10, <1>11, <1>12, <1>13 DEF Next

------------------------------------------------------------------------------
(* Most steps build nothing, store nothing and hand nothing over: requests *)
(* go on with what they hold, or end.                                      *)
GoesOn(q) ==
  \/ pc'[q] = pc[q]
  \/ pc'[q] \in Ended /\ pc[q] \notin Ended
  \/ pc[q] \in Unbuilt \ {"anchor"} /\ pc'[q] \in Unbuilt \ {"anchor"}
  \/ pc[q] \in Anchoring /\ pc'[q] \in Anchoring
  \/ pc[q] \in Minting /\ pc'[q] \in Minting

(* What is said of requests and rows.                                      *)
Kept ==
  /\ \A q \in Request : HoldsTx(q)
  /\ OwnersDistinct
  /\ OwnersStored
  /\ StoredWasSubmitted
  /\ CertificatesOwned
  /\ CertificatesDistinct
  /\ MintsOwned

LEMMA StagesApart ==
  /\ Ended \cap (Unbuilt \cup Anchoring \cup Minting) = {}
  /\ Unbuilt \cap (Anchoring \cup Minting) = {}
  /\ Anchoring \cap Minting = {}
  /\ "anchor" \in Unbuilt
BY DEF Ended, Unbuilt, Anchoring, Minting

LEMMA QuietKeeps ==
  ASSUME Inv, UNCHANGED <<tx, stored, certificates>>,
         \A q \in Request : GoesOn(q),
         (pool' \cup mints') \cap MintTx \subseteq pool \cup mints
  PROVE  Kept'
<1>1. ASSUME NEW q \in Request PROVE HoldsTx(q)'
  BY StagesApart DEF Inv, HoldsTx, GoesOn, MintOf
<1>2. \A q \in Request : Owner(q)' => Owner(q)
  BY StagesApart DEF Owner, GoesOn
<1>3. OwnersDistinct' /\ OwnersStored' /\ StoredWasSubmitted'
  BY <1>2 DEF Inv, OwnersDistinct, OwnersStored, StoredWasSubmitted
<1>4. \A q \in Request : pc[q] \in Ended => pc'[q] \in Ended
  BY StagesApart DEF GoesOn
<1>5. CertificatesOwned' /\ CertificatesDistinct'
  BY <1>4 DEF Inv, CertificatesOwned, CertificatesDistinct
<1>6. MintsOwned'
  BY DEF Inv, MintsOwned
<1>7. QED
  BY <1>1, <1>3, <1>5, <1>6 DEF Kept

(* A step of request q alone.                                              *)
LEMMA GotoGoesOn ==
  ASSUME TypeOK, NEW q \in Request, NEW step, Goto(q, step), GoesOn(q)
  PROVE  \A p \in Request : GoesOn(p)
BY DEF Goto, TypeOK, GoesOn

LEMMA QuietSteps ==
  ASSUME Inv,
         \/ \E b \in Batch : Receive(b) \/ Crash(b)
         \/ \E m \in Meter : Revoke(m)
         \/ \E q \in Request : \/ Verify(q) \/ Prepare(q) \/ RpcFails(q)
                               \/ MarkAnchored(q) \/ MarkMinted(q)
         \/ \E t \in pool : Apply(t) \/ Drop(t)
         \/ UNCHANGED vars
  PROVE  Kept'
<1> USE DEF database, network
<1>1. TypeOK
  BY DEF Inv
<1>2. ASSUME NEW b \in Batch, Receive(b) \/ Crash(b) PROVE Kept'
  <2>1. \A q \in Request : GoesOn(q)
    BY <1>1, <1>2 DEF Receive, Crash, GoesOn, TypeOK, Unbuilt, Ended, Await
  <2>2. QED
    BY <1>2, <2>1, QuietKeeps DEF Receive, Crash
<1>3. ASSUME NEW m \in Meter, Revoke(m) PROVE Kept'
  BY <1>3, QuietKeeps DEF Revoke, GoesOn
<1>4. ASSUME NEW q \in Request, \/ Verify(q) \/ Prepare(q) \/ RpcFails(q)
                               \/ MarkAnchored(q) \/ MarkMinted(q)
      PROVE  Kept'
  <2>1. PICK step : Goto(q, step)
    BY <1>4 DEF Verify, Prepare, RpcFails, MarkAnchored, MarkMinted
  <2>2. GoesOn(q)
    BY <1>1, <1>4 DEF Verify, Prepare, RpcFails, MarkAnchored, MarkMinted, Goto, GoesOn,
       TypeOK, Unbuilt, Anchoring, Minting, Ended
  <2>3. UNCHANGED <<tx, stored, certificates, pool, mints>>
    BY <1>4 DEF Verify, Prepare, RpcFails, MarkAnchored, MarkMinted
  <2>4. QED
    BY <1>1, <2>1, <2>2, <2>3, GotoGoesOn, QuietKeeps
<1>5. ASSUME NEW t \in pool, Apply(t) \/ Drop(t) PROVE Kept'
  <2>1. /\ UNCHANGED <<pc, tx, stored, certificates>>
        /\ pool' \cup mints' \subseteq pool \cup mints
    BY <1>5 DEF Apply, Drop
  <2>2. QED
    BY <2>1, QuietKeeps DEF GoesOn
<1>6. CASE UNCHANGED vars
  BY <1>6, QuietKeeps DEF vars, GoesOn
<1>7. QED
  BY <1>2, <1>3, <1>4, <1>5, <1>6

LEMMA InsertKeeps ==
  ASSUME Inv, NEW q \in Request, Insert(q)
  PROVE  Kept'
<1> USE DEF database, network
<1>1. /\ TypeOK /\ pc[q] = "verified" /\ tx[q] = NoTx /\ pc[q] \notin Ended
      /\ UNCHANGED <<tx, certificates, pool, mints>>
  BY DEF Inv, Insert, HoldsTx, Unbuilt, Ended
<1>2. CASE Goto(q, "stopped") /\ UNCHANGED stored
  <2>1. GoesOn(q)
    BY <1>1, <1>2 DEF Goto, GoesOn, TypeOK, Ended
  <2>2. QED
    BY <1>1, <1>2, <2>1, GotoGoesOn, QuietKeeps
<1>3. CASE /\ ReadingOf[q] \notin stored
           /\ stored' = stored \cup {ReadingOf[q]}
           /\ Goto(q, "anchor") \/ Goto(q, "stopped")
  <2>1. \A p \in Request : p # q => pc'[p] = pc[p]
    BY <1>1, <1>3 DEF Goto, TypeOK
  <2>2. pc'[q] \in {"anchor", "stopped"}
    BY <1>1, <1>3 DEF Goto, TypeOK
  <2>3. ASSUME NEW p \in Request PROVE HoldsTx(p)'
    BY <1>1, <2>1, <2>2, TxKinds DEF Inv, HoldsTx, MintOf, Unbuilt, Anchoring, Minting
  <2>4. \A p \in Request : Owner(p)' => p = q \/ Owner(p)
    BY <1>1, <2>1 DEF Owner
  <2>5. OwnersDistinct' /\ OwnersStored' /\ StoredWasSubmitted'
    BY <1>3, <2>4 DEF Inv, OwnersDistinct, OwnersStored, StoredWasSubmitted
  <2>6. CertificatesOwned' /\ CertificatesDistinct' /\ MintsOwned'
    BY <1>1, <2>1 DEF Inv, CertificatesOwned, CertificatesDistinct, MintsOwned
  <2>7. QED
    BY <2>3, <2>5, <2>6 DEF Kept
<1>4. QED
  BY <1>2, <1>3 DEF Insert, NewRow

(* A request that builds owned its reading before; what it held before was *)
(* no mint, and no certificate is of it.                                   *)
LEMMA BuildKeeps ==
  ASSUME Inv, NEW q \in Request, NEW t \in Tx, NEW next, Build(q, t, next),
         \/ pc[q] = "anchor" /\ t \in AnchorTx /\ next = "anchor_built"
         \/ pc[q] = "mint" /\ t \in MintOf(q) /\ next = "mint_built"
  PROVE  Kept'
<1> USE DEF database, network
<1>1. /\ TypeOK /\ UNCHANGED <<stored, certificates, pool, mints>>
      /\ tx' = [tx EXCEPT ![q] = t] /\ pc' = [pc EXCEPT ![q] = next]
  BY DEF Inv, Build, Goto
<1>2. /\ \A p \in Request : p # q => pc'[p] = pc[p] /\ tx'[p] = tx[p]
      /\ pc'[q] = next /\ tx'[q] = t
  BY <1>1 DEF TypeOK
<1>3. Owner(q) /\ tx[q] \notin MintTx /\ pc[q] \notin Ended
  BY TxKinds DEF Inv, Owner, HoldsTx, Unbuilt, Anchoring, Ended
<1>4. ASSUME NEW p \in Request PROVE HoldsTx(p)'
  <2>1. CASE p = q
    BY <1>2, <2>1, TxKinds DEF HoldsTx, MintOf, Unbuilt, Anchoring, Minting
  <2>2. CASE p # q
    BY <1>2, <2>2 DEF Inv, HoldsTx, MintOf
  <2>3. QED
    BY <2>1, <2>2
<1>5. \A p \in Request : Owner(p)' => Owner(p)
  BY <1>2, <1>3 DEF Owner
<1>6. OwnersDistinct' /\ OwnersStored' /\ StoredWasSubmitted'
  BY <1>1, <1>5 DEF Inv, OwnersDistinct, OwnersStored, StoredWasSubmitted
<1>7. CertificatesOwned' /\ CertificatesDistinct'
  BY <1>1, <1>2, <1>3 DEF Inv, CertificatesOwned, CertificatesDistinct
<1>8. MintsOwned'
  BY <1>1, <1>2, <1>3 DEF Inv, MintsOwned
<1>9. QED
  BY <1>4, <1>6, <1>7, <1>8 DEF Kept

LEMMA SendKeeps ==
  ASSUME Inv, NEW q \in Request, Send(q)
  PROVE  Kept'
<1> USE DEF database
<1>1. /\ TypeOK /\ UNCHANGED <<tx, stored, certificates, mints>>
      /\ pool' \subseteq pool \cup {tx[q]}
  BY DEF Inv, Send
<1>2. \A p \in Request : GoesOn(p)
  <2>1. PICK step : Goto(q, step) /\ step \in {AfterSend(pc[q]), "stopped"}
    BY DEF Send
  <2>2. GoesOn(q)
    BY <1>1, <2>1 DEF Send, Sending, AfterSend, Goto, GoesOn, TypeOK, Anchoring, Minting, Ended
  <2>3. QED
    BY <1>1, <2>1, <2>2, GotoGoesOn
<1>3. ASSUME NEW p \in Request PROVE HoldsTx(p)'
  BY <1>1, <1>2, StagesApart DEF Inv, HoldsTx, GoesOn, MintOf
<1>4. \A p \in Request : Owner(p)' => Owner(p)
  BY <1>1, <1>2, StagesApart DEF Owner, GoesOn
<1>5. OwnersDistinct' /\ OwnersStored' /\ StoredWasSubmitted'
  BY <1>1, <1>4 DEF Inv, OwnersDistinct, OwnersStored, StoredWasSubmitted
<1>6. CertificatesOwned' /\ CertificatesDistinct'
  BY <1>1, <1>2, StagesApart DEF Inv, CertificatesOwned, CertificatesDistinct, GoesOn
<1>7. MintsOwned'
  BY <1>1 DEF Inv, MintsOwned
<1>8. QED
  BY <1>3, <1>5, <1>6, <1>7 DEF Kept

(* A certificate is of the owner of its reading, who has ended: whoever is *)
(* about to insert one is another, with another reading.                   *)
LEMMA CertifyKeeps ==
  ASSUME Inv, NEW q \in Request, Certify(q)
  PROVE  Kept'
<1> USE DEF network
<1> DEFINE new == [reading |-> ReadingOf[q], mint_tx |-> tx[q]]
<1>1. /\ TypeOK /\ UNCHANGED <<tx, stored, pool, mints>>
      /\ pc[q] = "minted" /\ pc[q] \notin Ended
      /\ tx[q] \in MintTx /\ Owner(q)
  BY TxKinds DEF Inv, Certify, HoldsTx, Minting, MintOf, Ended, Owner
<1>2. PICK step \in Ended : Goto(q, step)
  BY DEF Certify, Ended
<1>3. GoesOn(q)
  BY <1>1, <1>2 DEF Goto, GoesOn, TypeOK
<1>4. CASE UNCHANGED certificates
  BY <1>1, <1>2, <1>3, <1>4, GotoGoesOn, QuietKeeps
<1>5. CASE /\ \A c \in certificates : c.mint_tx # tx[q]
           /\ certificates' = certificates \cup {new}
  <2>1. new.reading = ReadingOf[q] /\ new.mint_tx = tx[q]
    OBVIOUS
  <2> HIDE DEF new
  <2>2. /\ pc'[q] \in Ended
        /\ \A p \in Request : p # q => pc'[p] = pc[p]
    BY <1>1, <1>2 DEF Goto, TypeOK
  <2>3. ASSUME NEW p \in Request PROVE HoldsTx(p)'
    BY <1>1, <2>2, StagesApart DEF Inv, HoldsTx, MintOf
  <2>4. \A p \in Request : Owner(p)' => Owner(p)
    BY <1>1, <2>2, StagesApart DEF Owner
  <2>5. OwnersDistinct' /\ OwnersStored' /\ StoredWasSubmitted'
    BY <1>1, <2>4 DEF Inv, OwnersDistinct, OwnersStored, StoredWasSubmitted
  <2>6. ASSUME NEW c \in certificates PROVE c.reading # ReadingOf[q]
    <3>1. PICK p \in Request :
            pc[p] \in Ended /\ c.reading = ReadingOf[p] /\ c.mint_tx = tx[p]
      BY DEF Inv, CertificatesOwned
    <3>2. c.mint_tx \in MintTx
      BY <1>1 DEF TypeOK, Certificate
    <3>3. Owner(p) /\ p # q
      BY <1>1, <3>1, <3>2, TxKinds DEF Owner
    <3>4. QED
      BY <1>1, <3>1, <3>3 DEF Inv, OwnersDistinct
  <2>7. CertificatesDistinct'
    BY <1>5, <2>1, <2>6 DEF Inv, CertificatesDistinct
  <2>8. CertificatesOwned'
    BY <1>1, <1>5, <2>1, <2>2 DEF Inv, CertificatesOwned
  <2>9. MintsOwned'
    BY <1>1 DEF Inv, MintsOwned
  <2>10. QED
    BY <2>3, <2>5, <2>7, <2>8, <2>9 DEF Kept
<1>6. QED
  BY <1>4, <1>5 DEF Certify, InsertCertificate

LEMMA NextInv == Inv /\ [Next]_vars => Inv'
<1> SUFFICES ASSUME Inv, [Next]_vars PROVE Inv'
  OBVIOUS
<1>1. ASSUME NEW q \in Request, NEW s \in Second, BuildAnchor(q, s) \/ BuildMint(q, s)
      PROVE  Kept'
  <2>1. TypeOK
    BY DEF Inv
  <2>2. CASE BuildAnchor(q, s)
    BY <2>1, <2>2, BuiltTx, BuildKeeps DEF BuildAnchor, Tx
  <2>3. CASE BuildMint(q, s)
    BY <2>1, <2>3, BuiltTx, BuildKeeps DEF BuildMint, MintOf, Tx
  <2>4. QED
    BY <1>1, <2>2, <2>3
<1>2. Kept'
  BY <1>1, QuietSteps, InsertKeeps, SendKeeps, CertifyKeeps DEF Next
<1>3. QED
  BY <1>2, NextType DEF Inv, Kept

LEMMA SpecInv == Spec => []Inv
BY InitInv, NextInv, PTL DEF Spec

------------------------------------------------------------------------------
(* Mints of one call are held by as many requests, and these own as many   *)
(* rows: the first map is onto the mints, the second takes no row twice.   *)
LEMMA MintsFitRows == Inv => NeverOverMinted
<1> SUFFICES ASSUME Inv, NEW m \in {MintCall[r] : r \in Reading}
             PROVE  Cardinality({t \in mints : t.mints = m})
                      <= Cardinality({r \in stored : MintCall[r] = m})
  BY DEF NeverOverMinted
<1> DEFINE T == {t \in mints : t.mints = m}
           R == {r \in stored : MintCall[r] = m}
           D == {q \in Request : tx[q] \in T}
<1>1. IsFiniteSet(Request) /\ IsFiniteSet(D)
  BY Assumption, FS_Subset DEF Assumption
<1>2. IsFiniteSet(R)
  <2> DEFINE F == {q \in Request : ReadingOf[q] \in R}
             f == [q \in F |-> ReadingOf[q]]
  <2>1. IsFiniteSet(F)
    BY <1>1, FS_Subset
  <2>2. f \in Surjection(F, R)
    BY DEF Inv, StoredWasSubmitted, Surjection
  <2>3. QED
    BY <2>1, <2>2, FS_Surjection
<1>3. Cardinality(T) <= Cardinality(D)
  <2> DEFINE f == [q \in D |-> tx[q]]
  <2>1. \A t \in T : \E q \in D : tx[q] = t
    BY DEF Inv, TypeOK, MintsOwned
  <2>2. f \in Surjection(D, T)
    BY <2>1 DEF Surjection
  <2>3. QED
    BY <1>1, <2>2, FS_Surjection
<1>4. Cardinality(D) <= Cardinality(R)
  <2> DEFINE f == [q \in D |-> ReadingOf[q]]
  <2>1. ASSUME NEW q \in D PROVE Owner(q) /\ ReadingOf[q] \in R
    <3>1. tx[q] \in MintTx /\ tx[q].mints = m
      BY DEF Inv, TypeOK
    <3>2. Owner(q)
      BY <3>1, TxKinds DEF Owner
    <3>3. QED
      BY <3>1, <3>2 DEF Inv, HoldsTx, MintOf, OwnersStored
  <2>2. f \in Injection(D, R)
    BY <2>1 DEF Inv, OwnersDistinct, Injection, IsInjective
  <2>3. QED
    BY <1>2, <2>2, FS_Injection
<1>5. Cardinality(T) \in Nat /\ Cardinality(D) \in Nat /\ Cardinality(R) \in Nat
  <2>1. IsFiniteSet(T)
    <3> DEFINE f == [q \in D |-> tx[q]]
    <3>1. f \in Surjection(D, T)
      BY DEF Inv, TypeOK, MintsOwned, Surjection
    <3>2. QED
      BY <1>1, <3>1, FS_Surjection
  <2>2. QED
    BY <1>1, <1>2, <2>1, FS_CardinalityType
<1>6. QED
  BY <1>3, <1>4, <1>5

(* TypeOK holds of every reachable state; of a certificate it says that it *)
(* names the transaction of a mint.                                        *)
THEOREM TypeCorrect == Spec => []TypeOK
<1>1. Inv => TypeOK
  BY DEF Inv
<1>2. QED
  BY <1>1, SpecInv, PTL

(* A row of readings is minted once or never, for any number of batches    *)
(* that submit it and whatever fails on the way.                           *)
THEOREM NeverMintsTwice == Spec => []NeverOverMinted
BY MintsFitRows, SpecInv, PTL

(* Certificates never share a reading or a mint.                           *)
THEOREM CertificatesAreDistinct == Spec => []CertificatesDistinct
<1>1. Inv => CertificatesDistinct
  BY DEF Inv
<1>2. QED
  BY <1>1, SpecInv, PTL

(* The unique reading_hash lets one request at most go to the network.     *)
THEOREM OneSubmits == Spec => []SubmittedByOne
<1>1. Inv => SubmittedByOne
  BY DEF Inv, SubmittedByOne, OwnersDistinct, Owner
<1>2. QED
  BY <1>1, SpecInv, PTL

------------------------------------------------------------------------------
(* Where the readings on the ledger come from.                             *)

(* A request past the checks was accepted on the meters its batch read; a  *)
(* row is of such a request, and an anchor of a row.                       *)
LookedUp(q) == pc[q] \notin {"idle", "received", "stopped"} => Accepted(q)
RowIsAccepted(r) ==
  \E q \in Request : pc[q] # "idle" /\ Accepted(q) /\ ReadingOf[q] = r
AnchorsFromRows ==
  /\ \A q \in Request : tx[q] \in AnchorTx => tx[q].anchors = ReadingOf[q]
  /\ \A t \in pool \cap AnchorTx : t.anchors \in stored
  /\ anchors \subseteq stored
Provenance ==
  /\ \A q \in Request : LookedUp(q)
  /\ \A r \in stored : RowIsAccepted(r)
  /\ AnchorsFromRows

(* The meters a batch read stay what they were: Receive reads them before  *)
(* any request of the batch has left the start, and nothing writes them.   *)
LEMMA AcceptedStays ==
  ASSUME Inv, [Next]_vars, NEW q \in Request, pc[q] # "idle"
  PROVE  pc'[q] # "idle" /\ (Accepted(q)' <=> Accepted(q))
<1>1. ASSUME NEW b \in Batch, Receive(b)
      PROVE  pc'[q] # "idle" /\ (Accepted(q)' <=> Accepted(q))
  <2>1. BatchOf[q] # b
    BY <1>1 DEF Receive
  <2>2. meterMap'[BatchOf[q]] = meterMap[BatchOf[q]] /\ pc'[q] = pc[q]
    BY <1>1, <2>1, Assumption DEF Assumption, Receive, Inv, TypeOK
  <2>. QED  BY <2>2 DEF Accepted
<1>2. CASE ~\E b \in Batch : Receive(b)
  <2>1. meterMap' = meterMap
    BY <1>2 DEF Next, vars, Crash, Revoke, Verify, Insert, Prepare, Send,
                RpcFails, MarkAnchored, MarkMinted, Certify, BuildAnchor,
                BuildMint, Build, Apply, Drop
  <2>2. pc'[q] # "idle"
    BY <1>2 DEF Next, vars, Crash, Revoke, Verify, Insert, Prepare, Send,
                RpcFails, MarkAnchored, MarkMinted, Certify, BuildAnchor,
                BuildMint, Build, Apply, Drop, Goto, AfterSend, Inv, TypeOK
  <2>. QED  BY <2>1, <2>2 DEF Accepted
<1>. QED  BY <1>1, <1>2

LEMMA LookupKeeps ==
  ASSUME Inv, Provenance, [Next]_vars, NEW q \in Request
  PROVE  LookedUp(q)'
<1>1. CASE pc[q] = "idle"
  <2>1. pc'[q] \in {"idle", "received"}
    BY <1>1 DEF Next, vars, Receive, Crash, Revoke, Verify, Insert, Prepare,
                Send, RpcFails, MarkAnchored, MarkMinted, Certify, BuildAnchor,
                BuildMint, Build, Apply, Drop, Goto, Inv, TypeOK, Await, Sending
  <2>. QED  BY <2>1 DEF LookedUp
<1>2. CASE pc[q] = "received"
  <2>1. pc'[q] \in {"received", "stopped"} \/ Accepted(q)
    BY <1>2 DEF Next, vars, Receive, Crash, Revoke, Verify, Insert, Prepare,
                Send, RpcFails, MarkAnchored, MarkMinted, Certify, BuildAnchor,
                BuildMint, Build, Apply, Drop, Goto, Inv, TypeOK, Sending
  <2>. QED  BY <1>2, <2>1, AcceptedStays DEF LookedUp
<1>3. CASE pc[q] = "stopped"
  <2>1. pc'[q] = "stopped"
    BY <1>3, AcceptedStays
       DEF Next, vars, Receive, Crash, Revoke, Verify, Insert, Prepare,
           Send, RpcFails, MarkAnchored, MarkMinted, Certify, BuildAnchor,
           BuildMint, Build, Apply, Drop, Goto, Inv, TypeOK, Sending
  <2>. QED  BY <2>1 DEF LookedUp
<1>4. CASE pc[q] \notin {"idle", "received", "stopped"}
  <2>1. Accepted(q)
    BY <1>4 DEF Provenance, LookedUp
  <2>. QED  BY <1>4, <2>1, AcceptedStays DEF LookedUp
<1>. QED  BY <1>1, <1>2, <1>3, <1>4

LEMMA RowsKeep ==
  ASSUME Inv, Provenance, [Next]_vars, NEW r \in stored'
  PROVE  RowIsAccepted(r)'
<1>1. ASSUME NEW q \in Request, pc[q] # "idle", Accepted(q), ReadingOf[q] = r
      PROVE  RowIsAccepted(r)'
  BY <1>1, AcceptedStays DEF RowIsAccepted
<1>2. CASE r \in stored
  BY <1>1, <1>2 DEF Provenance, RowIsAccepted
<1>3. CASE r \notin stored
  <2>1. PICK q \in Request : Insert(q) /\ ReadingOf[q] = r
    BY <1>3 DEF Next, vars, database, Receive, Crash, Revoke, Verify, Insert,
                Prepare, Send, RpcFails, MarkAnchored, MarkMinted, Certify,
                BuildAnchor, BuildMint, Build, Apply, Drop
  <2>2. pc[q] = "verified"
    BY <2>1 DEF Insert
  <2>. QED  BY <1>1, <2>1, <2>2 DEF Provenance, LookedUp
<1>. QED  BY <1>2, <1>3

LEMMA AnchorsKeep ==
  ASSUME Inv, Provenance, [Next]_vars
  PROVE  AnchorsFromRows'
<1>. USE DEF Provenance, AnchorsFromRows
<1>1. stored \subseteq stored'
  BY DEF Next, vars, database, Receive, Crash, Revoke, Verify, Insert,
         Prepare, Send, RpcFails, MarkAnchored, MarkMinted, Certify,
         BuildAnchor, BuildMint, Build, Apply, Drop
<1>2. ASSUME NEW q \in Request, NEW s \in Second, BuildAnchor(q, s)
      PROVE  AnchorsFromRows'
  <2>1. \A p \in Request : p # q => tx'[p] = tx[p]
    BY <1>2 DEF BuildAnchor, Build
  <2>2. tx'[q].anchors = ReadingOf[q]
    BY <1>2 DEF BuildAnchor, Build, Inv, TypeOK
  <2>. QED  BY <1>2, <2>1, <2>2 DEF BuildAnchor, Build, database, network
<1>3. ASSUME NEW q \in Request, NEW s \in Second, BuildMint(q, s)
      PROVE  AnchorsFromRows'
  <2>1. \A p \in Request : p # q => tx'[p] = tx[p]
    BY <1>3 DEF BuildMint, Build
  <2>2. tx'[q] \in MintTx
    <3>1. tx'[q] = [mints |-> MintCall[ReadingOf[q]], sequence |-> NextSequence,
                    second |-> s]
      BY <1>3 DEF BuildMint, Build, Inv, TypeOK
    <3>. QED  BY <3>1, BuiltTx DEF Inv, MintOf
  <2>. QED  BY <1>3, <2>1, <2>2, TxKinds DEF BuildMint, Build, database, network
<1>4. ASSUME NEW q \in Request, Send(q)
      PROVE  AnchorsFromRows'
  <2>1. tx[q] \in AnchorTx => tx[q].anchors \in stored
    BY TxKinds DEF Inv, OwnersStored, Owner
  <2>. QED  BY <1>4, <2>1 DEF Send, database
<1>5. ASSUME NEW t \in pool, Apply(t)
      PROVE  AnchorsFromRows'
  BY <1>5 DEF Apply, database
<1>6. ASSUME UNCHANGED <<tx, anchors>>, pool' \subseteq pool
      PROVE  AnchorsFromRows'
  BY <1>1, <1>6
<1>. QED
  BY <1>2, <1>3, <1>4, <1>5, <1>6
     DEF Next, vars, network, Receive, Crash, Revoke, Verify, Insert, Prepare,
         RpcFails, MarkAnchored, MarkMinted, Certify, Drop

LEMMA SpecProvenance == Spec => []Provenance
<1>1. Init => Provenance
  BY TxKinds DEF Init, Provenance, LookedUp, AnchorsFromRows
<1>2. Inv /\ Provenance /\ [Next]_vars => Provenance'
  BY LookupKeeps, RowsKeep, AnchorsKeep DEF Provenance
<1>. QED  BY <1>1, <1>2, SpecInv, PTL DEF Spec

(* Every stored reading, and so every anchor on the ledger, was submitted  *)
(* with a valid signature, of a meter that was active when its batch read  *)
(* the meters, although meters are revoked and instances stop at any time. *)
THEOREM ReadingsAreAccepted ==
  Spec => [](/\ \A r \in stored : \E q \in Request : Accepted(q) /\ ReadingOf[q] = r
             /\ anchors \subseteq stored)
<1>1. Provenance =>
        /\ \A r \in stored : \E q \in Request : Accepted(q) /\ ReadingOf[q] = r
        /\ anchors \subseteq stored
  BY DEF Provenance, RowIsAccepted, AnchorsFromRows
<1>. QED  BY <1>1, SpecProvenance, PTL

(* A certificate is of a stored reading and names a mint of the recipient  *)
(* and amount of that reading, although requests of one batch build their  *)
(* transactions side by side.                                              *)
THEOREM CertificatesNameTheirMint ==
  Spec => [](\A c \in certificates :
               c.reading \in stored /\ c.mint_tx.mints = MintCall[c.reading])
<1>1. Inv => \A c \in certificates :
               c.reading \in stored /\ c.mint_tx.mints = MintCall[c.reading]
  <2>. SUFFICES ASSUME Inv, NEW c \in certificates
                PROVE  c.reading \in stored /\ c.mint_tx.mints = MintCall[c.reading]
    OBVIOUS
  <2>1. PICK q \in Request : c.reading = ReadingOf[q] /\ c.mint_tx = tx[q]
    BY DEF Inv, CertificatesOwned
  <2>2. tx[q] \in MintTx
    BY <2>1 DEF Inv, TypeOK, Certificate
  <2>3. Owner(q) /\ tx[q].mints = MintCall[ReadingOf[q]]
    BY <2>2, TxKinds DEF Owner, Inv, HoldsTx, MintOf
  <2>. QED  BY <2>1, <2>3 DEF Inv, OwnersStored
<1>. QED  BY <1>1, SpecInv, PTL

------------------------------------------------------------------------------
(* The issuance.                                                           *)

(* The sequence number of a mint on the ledger is used up, so a mint that  *)
(* is applied was not applied before.                                      *)
MintsSpent == \A t \in mints : t.sequence <= sequence

LEMMA MintsSpentKeeps == Inv /\ MintsSpent /\ [Next]_vars => MintsSpent'
<1>. SUFFICES ASSUME Inv, MintsSpent, [Next]_vars PROVE MintsSpent'
  OBVIOUS
<1>0. sequence \in Nat /\ \A t \in mints : t.sequence \in Nat
  BY Assumption DEF Assumption, Inv, TypeOK, MintTx, Sequence
<1>1. ASSUME NEW t \in pool, Apply(t) PROVE MintsSpent'
  BY <1>0, <1>1 DEF Apply, MintsSpent
<1>2. CASE UNCHANGED <<mints, sequence>>
  BY <1>2 DEF MintsSpent
<1>. QED
  BY <1>1, <1>2
     DEF Next, vars, network, Receive, Crash, Revoke, Verify, Insert, Prepare,
         Send, RpcFails, MarkAnchored, MarkMinted, Certify, BuildAnchor,
         BuildMint, Build, Drop

(* Mints of one call are finitely many, as the requests that hold them.    *)
LEMMA MintsFinite ==
  ASSUME Inv, NEW m
  PROVE  IsFiniteSet({t \in mints : t.mints = m})
<1>. DEFINE T == {t \in mints : t.mints = m}
            D == {q \in Request : tx[q] \in T}
            f == [q \in D |-> tx[q]]
<1>1. IsFiniteSet(D)
  BY Assumption, FS_Subset DEF Assumption
<1>2. f \in Surjection(D, T)
  BY DEF Inv, TypeOK, MintsOwned, Surjection
<1>. QED  BY <1>1, <1>2, FS_Surjection

(* A mint that is applied leaves no more mints than rows, so before it     *)
(* there was a row to spare.                                               *)
LEMMA MintHasRow ==
  ASSUME Inv, Inv', NEW t \in MintTx, t \notin mints,
         mints' = mints \cup {t}, stored' = stored
  PROVE  Cardinality({u \in mints : u.mints = t.mints})
           < Cardinality({r \in stored : MintCall[r] = t.mints})
<1>. DEFINE T == {u \in mints : u.mints = t.mints}
            U == {u \in mints' : u.mints = t.mints}
            R == {r \in stored : MintCall[r] = t.mints}
<1>1. U = T \cup {t} /\ t \notin T
  OBVIOUS
<1>2. IsFiniteSet(T) /\ Cardinality(T) \in Nat
  BY MintsFinite, FS_CardinalityType
<1>3. Cardinality(U) = Cardinality(T) + 1
  BY <1>1, <1>2, FS_AddElement
<1>4. t.mints \in {MintCall[r] : r \in Reading}
  BY DEF MintTx
<1>5. NeverOverMinted'
  BY MintsFitRows, PTL
<1>6. Cardinality(U) <= Cardinality(R)
  BY <1>4, <1>5 DEF NeverOverMinted
<1>7. Cardinality(R) \in Nat
  <2>. DEFINE F == {q \in Request : ReadingOf[q] \in R}
              f == [q \in F |-> ReadingOf[q]]
  <2>1. IsFiniteSet(F)
    BY Assumption, FS_Subset DEF Assumption
  <2>2. f \in Surjection(F, R)
    BY DEF Inv, StoredWasSubmitted, Surjection
  <2>. QED  BY <2>1, <2>2, FS_Surjection, FS_CardinalityType
<1>. QED  BY <1>2, <1>3, <1>6, <1>7

(* A certificate that is written is of a reading that had none: its        *)
(* request holds a transaction, and the others of the reading hold none.   *)
LEMMA CertifyIsFirst ==
  ASSUME Inv, NEW q \in Request, pc[q] = "minted"
  PROVE  /\ ReadingOf[q] \in stored
         /\ tx[q] \in MintTx /\ tx[q].mints = MintCall[ReadingOf[q]]
         /\ \A c \in certificates : c.reading # ReadingOf[q]
<1>1. tx[q] \in MintTx /\ tx[q].mints = MintCall[ReadingOf[q]]
  BY DEF Inv, HoldsTx, Minting, MintOf
<1>2. Owner(q) /\ ReadingOf[q] \in stored
  BY <1>1, TxKinds DEF Owner, Inv, OwnersStored
<1>3. ASSUME NEW c \in certificates, c.reading = ReadingOf[q]
      PROVE  FALSE
  <2>1. PICK p \in Request : pc[p] \in Ended /\ c.reading = ReadingOf[p] /\ c.mint_tx = tx[p]
    BY DEF Inv, CertificatesOwned
  <2>2. Owner(p)
    BY <2>1, TxKinds DEF Owner, Inv, TypeOK, Certificate
  <2>3. p = q
    BY <1>2, <1>3, <2>1, <2>2 DEF Inv, OwnersDistinct
  <2>. QED  BY <2>1, <2>3 DEF Ended
<1>. QED  BY <1>1, <1>2, <1>3

(* The issuance counts with an instance of FiniteSets of its own.          *)
LEMMA SameCardinality == \A S : Issued!Cardinality(S) = Cardinality(S)
BY Zenon DEF Issued!Cardinality, Cardinality

(* Every step of the route and of the network is one of the issuance, or   *)
(* changes nothing that it speaks of.                                      *)
THEOREM PipelineImplementsIssuance == Spec => ImplementsIssuance
<1>1. Init => Issued!Init /\ MintsSpent
  BY DEF Init, Issued!Init, MintsSpent
<1>2. Inv /\ Inv' /\ Provenance /\ MintsSpent /\ [Next]_vars
        => [Issued!Next]_(Issued!vars)
  <2>. SUFFICES ASSUME Inv, Inv', Provenance, MintsSpent, [Next]_vars
                PROVE  Issued!Next \/ UNCHANGED Issued!vars
    OBVIOUS
  <2>1. ASSUME UNCHANGED <<stored, anchors, mints, certificates>>
        PROVE  UNCHANGED Issued!vars
    BY <2>1 DEF Issued!vars
  <2>2. ASSUME NEW q \in Request, Insert(q)
        PROVE  Issued!Next \/ UNCHANGED Issued!vars
    <3>1. CASE NewRow(ReadingOf[q]) /\ stored' = stored \cup {ReadingOf[q]}
      <4>1. ReadingOf[q] \in Reading \ stored
        BY <3>1, Assumption DEF Assumption, NewRow
      <4>2. Issued!Store(ReadingOf[q])
        BY <2>2, <3>1, <4>1 DEF Insert, network, Issued!Store
      <4>. QED  BY <3>1, <4>1, <4>2 DEF Issued!Next
    <3>2. CASE stored' = stored
      BY <2>1, <2>2, <3>2 DEF Insert, network
    <3>. QED  BY <2>2, <3>1, <3>2 DEF Insert
  <2>3. ASSUME NEW q \in Request, Certify(q)
        PROVE  Issued!Next \/ UNCHANGED Issued!vars
    <3>. DEFINE c == [reading |-> ReadingOf[q], mint_tx |-> tx[q]]
    <3>1. /\ ReadingOf[q] \in stored
          /\ tx[q] \in MintTx /\ tx[q].mints = MintCall[ReadingOf[q]]
          /\ \A d \in certificates : d.reading # ReadingOf[q]
      BY <2>3, CertifyIsFirst DEF Certify
    <3>2. CASE /\ \A d \in certificates : d.mint_tx # tx[q]
               /\ certificates' = certificates \cup {c}
      <4>1. Issued!Certify(c.reading, c.mint_tx)
        BY <2>3, <3>1, <3>2 DEF Certify, network, Issued!Certify
      <4>2. c \in certificates' \ certificates
        BY <3>1, <3>2
      <4>. QED  BY <4>1, <4>2 DEF Issued!Next
    <3>3. CASE certificates' = certificates
      BY <2>1, <2>3, <3>3 DEF Certify, network
    <3>. QED  BY <2>3, <3>2, <3>3 DEF Certify, InsertCertificate
  <2>4. ASSUME NEW t \in pool, Apply(t)
        PROVE  Issued!Next \/ UNCHANGED Issued!vars
    <3>. USE <2>4 DEF Apply, database
    <3>1. CASE t \in AnchorTx /\ anchors' = anchors \cup {t.anchors} /\ UNCHANGED mints
      <4>1. CASE t.anchors \in anchors
        BY <2>1, <3>1, <4>1
      <4>2. CASE t.anchors \notin anchors
        <5>1. t.anchors \in stored
          BY <3>1 DEF Provenance, AnchorsFromRows
        <5>2. Issued!Anchor(t.anchors)
          BY <3>1, <5>1 DEF Issued!Anchor
        <5>. QED  BY <3>1, <4>2, <5>2 DEF Issued!Next
      <4>. QED  BY <4>1, <4>2
    <3>2. CASE t \in MintTx /\ mints' = mints \cup {t} /\ UNCHANGED anchors
      <4>1. t \notin mints
        BY DEF Inv, TypeOK, MintsSpent
      <4>2. Issued!Mint(t)
        <5>1. stored' = stored
          OBVIOUS
        <5>2. Cardinality({u \in mints : u.mints = t.mints})
                < Cardinality({r \in stored : MintCall[r] = t.mints})
          BY <3>2, <4>1, <5>1, MintHasRow
        <5>. QED  BY <3>2, <4>1, <5>2, SameCardinality DEF Issued!Mint
      <4>. QED  BY <3>2, <4>1, <4>2 DEF Issued!Next
    <3>3. CASE UNCHANGED <<anchors, mints>>
      BY <2>1, <3>3
    <3>. QED  BY <3>1, <3>2, <3>3
  <2>. QED
    BY <2>1, <2>2, <2>3, <2>4
       DEF Next, vars, database, network, Receive, Crash, Revoke, Verify,
           Prepare, Send, RpcFails, MarkAnchored, MarkMinted, BuildAnchor,
           BuildMint, Build, Drop
<1>. QED
  BY <1>1, <1>2, MintsSpentKeeps, SpecInv, SpecProvenance, PTL
     DEF Spec, ImplementsIssuance, Issued!Spec

==============================================================================
