--------------------------- MODULE ReadingPipeline ---------------------------
(***************************************************************************)
(* POST /api/readings/batch (apps/web/src/app/api/readings/batch/route.ts) *)
(* with the Stellar client it calls (apps/web/src/lib/stellar.ts): the     *)
(* readings of a batch are stored, anchored and minted concurrently, each  *)
(* through a chain of awaits on the database and on the network, and all   *)
(* of them sign with one account.                                          *)
(*                                                                         *)
(* A request is one element of a batch; every await is a step of its own,  *)
(* and the requests of one or of several batches interleave.  The network  *)
(* is external: it is modelled from what the client asks of it and from    *)
(* the answers the client tells apart.                                     *)
(***************************************************************************)
EXTENDS Integers, FiniteSets

CONSTANTS Request,      \* elements of the batches
          Batch,        \* calls of the route
          Reading,      \* readings told apart by their hash
          Meter,
          BatchOf,      \* [Request -> Batch]
          ReadingOf,    \* [Request -> Reading], the reading as submitted
          MeterOf,      \* [Reading -> Meter]
          MintCall,     \* recipient and amount of a reading's mint
          Signed,       \* the requests whose signature verifies
          Second,       \* seconds at which a transaction may be built
          NoTx,         \* no transaction built yet
          MaxSequence   \* bound on the sequence number of the account

(* A transaction is known by its hash, that is by its content: what it     *)
(* calls, its sequence number and its time bounds, which are in seconds.   *)
Sequence == 1..(MaxSequence + 1)
AnchorTx == [anchors: Reading, sequence: Sequence, second: Second]
MintTx == [mints: {MintCall[r] : r \in Reading}, sequence: Sequence,
           second: Second]
Tx == AnchorTx \cup MintTx

ASSUME Assumption ==
  /\ IsFiniteSet(Request)
  /\ BatchOf \in [Request -> Batch]
  /\ ReadingOf \in [Request -> Reading]
  /\ MeterOf \in [Reading -> Meter]
  /\ DOMAIN MintCall = Reading
  /\ Signed \subseteq Request
  /\ MaxSequence \in Nat
  /\ NoTx \notin Tx

Certificate == [reading: Reading, mint_tx: MintTx]

(* A request stops with an error, or with the instance that served it.     *)
Ended == {"success", "stopped"}
Await == {"received", "verified", "anchor", "anchor_built", "anchor_prepared",
          "anchor_sent", "mint", "mint_built", "mint_prepared", "mint_sent",
          "minted"}

VARIABLES active,       \* meters.active
          meterMap,     \* the batch's copy of the active meters
          pc,           \* the await each request has reached
          tx,           \* the transaction the request built last
          stored,       \* readings with a row (reading_hash is unique)
          dbAnchored,   \* rows with anchored = true
          dbMinted,     \* rows with minted = true
          certificates, \* rows of certificates (mint_tx_hash is unique)
          sequence,     \* ledger: sequence number of the minter account
          pool,         \* network: transactions accepted, not yet applied
          anchors,      \* ledger: readings in the audit registry
          mints         \* ledger: mint transactions applied

database == <<stored, dbAnchored, dbMinted, certificates>>
network == <<sequence, pool, anchors, mints>>
vars == <<active, meterMap, pc, tx, database, network>>

TypeOK ==
  /\ active \in SUBSET Meter
  /\ meterMap \in [Batch -> SUBSET Meter]
  /\ pc \in [Request -> Await \cup Ended \cup {"idle"}]
  /\ tx \in [Request -> Tx \cup {NoTx}]
  /\ stored \in SUBSET Reading
  /\ dbAnchored \in SUBSET Reading
  /\ dbMinted \in SUBSET Reading
  /\ certificates \in SUBSET Certificate
  /\ sequence \in 0..MaxSequence
  /\ pool \in SUBSET Tx
  /\ anchors \in SUBSET Reading
  /\ mints \in SUBSET MintTx

Init ==
  /\ active = Meter
  /\ meterMap = [b \in Batch |-> {}]
  /\ pc = [q \in Request |-> "idle"]
  /\ tx = [q \in Request |-> NoTx]
  /\ stored = {}
  /\ dbAnchored = {}
  /\ dbMinted = {}
  /\ certificates = {}
  /\ sequence = 0
  /\ pool = {}
  /\ anchors = {}
  /\ mints = {}

------------------------------------------------------------------------------
Goto(q, step) == pc' = [pc EXCEPT ![q] = step]

(* The route reads the meters of the whole batch once, then starts all its *)
(* elements with Promise.all.                                              *)
Receive(b) ==
  /\ \A q \in Request : BatchOf[q] = b => pc[q] = "idle"
  /\ meterMap' = [meterMap EXCEPT ![b] = active]
  /\ pc' = [q \in Request |-> IF BatchOf[q] = b THEN "received" ELSE pc[q]]
  /\ UNCHANGED <<active, tx, database, network>>

(* PATCH /api/meters/[id]/revoke.                                          *)
Revoke(m) ==
  /\ active' = active \ {m}
  /\ UNCHANGED <<meterMap, pc, tx, database, network>>

Accepted(q) ==
  /\ MeterOf[ReadingOf[q]] \in meterMap[BatchOf[q]]
  /\ q \in Signed

(* 404 without the meter in the batch's copy, 401 without a valid          *)
(* signature, else on to the insert.                                       *)
Verify(q) ==
  /\ pc[q] = "received"
  /\ Goto(q, IF Accepted(q) THEN "verified" ELSE "stopped")
  /\ UNCHANGED <<active, meterMap, tx, database, network>>

(* The operators named Mutant... are wrong variants of the definition that *)
(* follows them.  No action uses them; each breaks a property below.       *)

(* A table without the unique column.                                      *)
MutantNewRow(r) == TRUE

(* reading_hash is unique.                                                 *)
NewRow(r) == r \notin stored

(* The insert fails when the hash has a row, or when the database does;    *)
(* the row may be there and its answer lost.                               *)
Insert(q) ==
  /\ pc[q] = "verified"
  /\ \/ /\ NewRow(ReadingOf[q])
        /\ stored' = stored \cup {ReadingOf[q]}
        /\ Goto(q, "anchor") \/ Goto(q, "stopped")
     \/ Goto(q, "stopped") /\ UNCHANGED stored
  /\ UNCHANGED <<active, meterMap, tx, dbAnchored, dbMinted, certificates,
                 network>>

------------------------------------------------------------------------------
(* getAccount, then the transaction is built on the sequence number read.  *)
Build(q, t, next) ==
  /\ tx' = [tx EXCEPT ![q] = t]
  /\ Goto(q, next)
  /\ UNCHANGED <<active, meterMap, database, network>>

(* The sequence number read, not the one after it.                         *)
MutantNextSequence == sequence

NextSequence == sequence + 1

BuildAnchor(q, s) ==
  /\ pc[q] = "anchor"
  /\ Build(q, [anchors |-> ReadingOf[q], sequence |-> NextSequence,
               second |-> s], "anchor_built")

BuildMint(q, s) ==
  /\ pc[q] = "mint"
  /\ Build(q, [mints |-> MintCall[ReadingOf[q]], sequence |-> NextSequence,
               second |-> s], "mint_built")

(* prepareTransaction simulates the call on the current ledger: an anchor  *)
(* of a reading the registry holds is refused there.                       *)
Prepare(q) ==
  /\ \/ pc[q] = "anchor_built" /\ ReadingOf[q] \notin anchors
          /\ Goto(q, "anchor_prepared")
     \/ pc[q] = "mint_built" /\ Goto(q, "mint_prepared")
  /\ UNCHANGED <<active, meterMap, tx, database, network>>

Sending == {"anchor_prepared", "mint_prepared"}
AfterSend(step) == IF step = "anchor_prepared" THEN "anchor_sent" ELSE "mint_sent"

(* sendTransaction hands the transaction over, or not, and whatever it     *)
(* answers except ERROR counts as success: TRY_AGAIN_LATER and DUPLICATE   *)
(* too.  A timeout leaves the transaction where it had got to.             *)
Send(q) ==
  /\ pc[q] \in Sending
  /\ pool' \in {pool, pool \cup {tx[q]}}
  /\ \/ Goto(q, AfterSend(pc[q]))
     \/ Goto(q, "stopped")
  /\ UNCHANGED <<active, meterMap, tx, database, sequence, anchors, mints>>

(* An RPC call that fails, times out or finds the circuit open throws; the *)
(* element ends with 409 or 500 and is not tried again.                    *)
RpcFails(q) ==
  /\ pc[q] \in {"anchor", "anchor_built", "mint", "mint_built"}
  /\ Goto(q, "stopped")
  /\ UNCHANGED <<active, meterMap, tx, database, network>>

------------------------------------------------------------------------------
(* The client reports the failure of an update in its answer, which the    *)
(* route does not look at: it goes on with or without the column.          *)
MarkAnchored(q) ==
  /\ pc[q] = "anchor_sent"
  /\ dbAnchored' \in {dbAnchored, dbAnchored \cup {ReadingOf[q]}}
  /\ Goto(q, "mint")
  /\ UNCHANGED <<active, meterMap, tx, stored, dbMinted, certificates, network>>

MarkMinted(q) ==
  /\ pc[q] = "mint_sent"
  /\ dbMinted' \in {dbMinted, dbMinted \cup {ReadingOf[q]}}
  /\ Goto(q, "minted")
  /\ UNCHANGED <<active, meterMap, tx, stored, dbAnchored, certificates, network>>

(* A table without the unique mint_tx_hash.                                *)
MutantInsertCertificate(r, t) ==
  certificates' \in {certificates,
                     certificates \cup {[reading |-> r, mint_tx |-> t]}}

(* A certificate whose mint hash has a row already is refused by the       *)
(* database; the route does not look at the answer of this insert either.  *)
InsertCertificate(r, t) ==
  \/ /\ \A c \in certificates : c.mint_tx # t
     /\ certificates' = certificates \cup {[reading |-> r, mint_tx |-> t]}
  \/ UNCHANGED certificates

(* invalidateCert follows, and throws when Redis does not answer.          *)
Certify(q) ==
  /\ pc[q] = "minted"
  /\ InsertCertificate(ReadingOf[q], tx[q])
  /\ \/ Goto(q, "success")
     \/ Goto(q, "stopped")
  /\ UNCHANGED <<active, meterMap, tx, stored, dbAnchored, dbMinted, network>>

(* The function instance that serves a batch is stopped.                   *)
Crash(b) ==
  /\ \E q \in Request : BatchOf[q] = b /\ pc[q] \in Await
  /\ pc' = [q \in Request |-> IF BatchOf[q] = b /\ pc[q] \in Await
                              THEN "stopped" ELSE pc[q]]
  /\ UNCHANGED <<active, meterMap, tx, database, network>>

------------------------------------------------------------------------------
(* The network applies a transaction whose sequence number is the next one *)
(* of the account.  The call may still fail, and an anchor does when the   *)
(* registry holds the reading by then.                                     *)
Apply(t) ==
  /\ t \in pool
  /\ sequence < MaxSequence
  /\ t.sequence = sequence + 1
  /\ sequence' = sequence + 1
  /\ pool' = pool \ {t}
  /\ \/ t \in AnchorTx /\ anchors' = anchors \cup {t.anchors} /\ UNCHANGED mints
     \/ t \in MintTx /\ mints' = mints \cup {t} /\ UNCHANGED anchors
     \/ UNCHANGED <<anchors, mints>>
  /\ UNCHANGED <<active, meterMap, pc, tx, database>>

(* Time bounds of 30 s pass, the sequence number is used up, or the pool   *)
(* is full.                                                                *)
Drop(t) ==
  /\ t \in pool
  /\ pool' = pool \ {t}
  /\ UNCHANGED <<active, meterMap, pc, tx, database, sequence, anchors, mints>>

Next ==
  \/ \E b \in Batch : Receive(b) \/ Crash(b)
  \/ \E m \in Meter : Revoke(m)
  \/ \E q \in Request :
       \/ Verify(q) \/ Insert(q) \/ Prepare(q) \/ Send(q) \/ RpcFails(q)
       \/ MarkAnchored(q) \/ MarkMinted(q) \/ Certify(q)
       \/ \E s \in Second : BuildAnchor(q, s) \/ BuildMint(q, s)
  \/ \E t \in pool : Apply(t) \/ Drop(t)

Spec == Init /\ [][Next]_vars

------------------------------------------------------------------------------
(* However often a reading is submitted, at once or later, and whatever    *)
(* becomes of its transactions and of the answers of the database, the     *)
(* ledger holds no more mints of an amount than the database holds         *)
(* readings of it: each row is minted once or never.                       *)
NeverOverMinted ==
  \A m \in {MintCall[r] : r \in Reading} :
    Cardinality({t \in mints : t.mints = m})
      <= Cardinality({r \in stored : MintCall[r] = m})

(* No two certificates share a reading or a mint transaction, although two *)
(* readings of one amount may build the very same transaction.             *)
CertificatesDistinct ==
  \A c, d \in certificates :
    c # d => c.reading # d.reading /\ c.mint_tx # d.mint_tx

(* A reading goes to the network through at most one request: the others   *)
(* that submit it, at once or after a failure, end at the insert.          *)
SubmittedByOne ==
  \A p, q \in Request :
    tx[p] # NoTx /\ tx[q] # NoTx /\ ReadingOf[p] = ReadingOf[q] => p = q

(* The route implements the issuance of certificates: whatever its awaits, *)
(* failures and the network do, a step stores one reading, anchors one     *)
(* that is stored, mints within what is stored, writes one certificate of  *)
(* a stored reading and an unused mint of its call, or does none of these. *)
Issued == INSTANCE Issuance
            WITH rows <- stored, anchored <- anchors, minted <- mints
ImplementsIssuance == Issued!Spec

------------------------------------------------------------------------------
(* docs/verify.md line 107: "The exact reading hash was recorded on the    *)
(* Stellar blockchain before the certificate was minted".  The client      *)
(* mints once the anchor is handed over, not once it is applied.           *)
AnchoredBeforeMinted ==
  \A c \in certificates : c.mint_tx \in mints => c.reading \in anchors

==============================================================================
