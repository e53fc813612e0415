---------------------------- MODULE AuditRegistry ----------------------------
(***************************************************************************)
(* The audit_registry contract (apps/contracts/audit_registry/src/lib.rs): *)
(* reading hashes anchored once each, in buckets, behind a single-use      *)
(* nonce kept in temporary storage.                                        *)
(*                                                                         *)
(* A call is one transaction; Err and panic both leave the state as it     *)
(* was, so an action is a call that returns Ok.  Persistent entries are    *)
(* archived, never dropped, when their lifetime ends; temporary entries    *)
(* are deleted.                                                            *)
(***************************************************************************)
EXTENDS Accounts

CONSTANTS Hash,         \* reading hashes
          Nonce,
          Version,
          InitialVersion,
          BucketId,
          GetBucketId,  \* [Hash -> BucketId], get_bucket_id
          Unanchored,   \* verify() answers None
          MaxU32,       \* width of TotalAnchors
          MaxLedger     \* bound on the ledger sequence

ASSUME RegistryAssumption ==
  /\ InitialVersion \in Version
  /\ GetBucketId \in [Hash -> BucketId]
  /\ Unanchored \notin Nat
  /\ MaxU32 \in Nat
  /\ MaxLedger \in Nat

VARIABLES ledger,
          registryAdmin, \* DataKey::Admin
          apiSigner,
          version,
          bucket,       \* DataKey::Bucket(id): hash -> ledger, per bucket
          nonces,       \* live DataKey::Nonce entries
          totalAnchors

roles == <<registryAdmin, apiSigner, version>>
registryVars == <<ledger, roles, bucket, nonces, totalAnchors>>

RegistryTypeOK ==
  /\ ledger \in 0..MaxLedger
  /\ registryAdmin \in Address \cup {NoAddress}
  /\ apiSigner \in Address \cup {NoAddress}
  /\ version \in Version
  /\ bucket \in [BucketId -> [Hash -> Nat \cup {Unanchored}]]
  /\ nonces \in SUBSET Nonce
  /\ totalAnchors \in 0..MaxU32

RegistryInit ==
  /\ ledger = 0
  /\ registryAdmin = NoAddress
  /\ apiSigner = NoAddress
  /\ version = InitialVersion
  /\ bucket = [b \in BucketId |-> [h \in Hash |-> Unanchored]]
  /\ nonces = {}
  /\ totalAnchors = 0

------------------------------------------------------------------------------
CloseLedger ==
  /\ ledger < MaxLedger
  /\ ledger' = ledger + 1
  /\ UNCHANGED <<roles, bucket, nonces, totalAnchors>>

(* The network deletes a temporary entry whose lifetime is over.           *)
ExpireNonce(n) ==
  /\ n \in nonces
  /\ nonces' = nonces \ {n}
  /\ UNCHANGED <<ledger, roles, bucket, totalAnchors>>

InitializeRegistry(a, signer) ==
  /\ registryAdmin = NoAddress
  /\ registryAdmin' = a
  /\ apiSigner' = signer
  /\ totalAnchors' = 0
  /\ version' = InitialVersion
  /\ UNCHANGED <<ledger, bucket, nonces>>

Migrate(v) ==
  /\ registryAdmin # NoAddress
  /\ version' = v
  /\ UNCHANGED <<ledger, registryAdmin, apiSigner, bucket, nonces,
                 totalAnchors>>

SetApiSigner(signer) ==
  /\ registryAdmin # NoAddress
  /\ apiSigner' = signer
  /\ UNCHANGED <<ledger, registryAdmin, version, bucket, nonces, totalAnchors>>

(* verify and is_anchored look a hash up in the bucket it maps to.         *)
Verify(h) == bucket[GetBucketId[h]][h]
IsAnchored(h) == Verify(h) # Unanchored

(* The operators named Mutant... are wrong variants of the definition that *)
(* follows them.  No action uses them; each breaks a property below.       *)

(* Without the AlreadyAnchored check.                                      *)
MutantStoreAgain(h) ==
  bucket' = [bucket EXCEPT ![GetBucketId[h]][h] = ledger]

(* The bucket of the hash is read, must not hold it, and is written back.  *)
Store(h) ==
  /\ bucket[GetBucketId[h]][h] = Unanchored
  /\ bucket' = [bucket EXCEPT ![GetBucketId[h]][h] = ledger]

(* Without the overflow check of u32.                                      *)
MutantCountAnchor == totalAnchors' = totalAnchors + 1

CountAnchor ==
  /\ totalAnchors < MaxU32
  /\ totalAnchors' = totalAnchors + 1

Anchor(caller, h, n) ==
  /\ caller = apiSigner
  /\ n \notin nonces
  /\ nonces' = nonces \cup {n}
  /\ Store(h)
  /\ CountAnchor
  /\ UNCHANGED <<ledger, roles>>

RegistryNext ==
  \/ CloseLedger
  \/ \E n \in Nonce : ExpireNonce(n)
  \/ \E a, signer \in Address : InitializeRegistry(a, signer)
  \/ \E v \in Version : Migrate(v)
  \/ \E signer \in Address : SetApiSigner(signer)
  \/ \E caller \in Address, h \in Hash, n \in Nonce : Anchor(caller, h, n)

RegistrySpec == RegistryInit /\ [][RegistryNext]_registryVars

------------------------------------------------------------------------------
Anchored == {h \in Hash : IsAnchored(h)}

(* total_anchors() is the number of hashes for which is_anchored() answers *)
(* true: nonces expiring, signers rotating and buckets being shared never  *)
(* make the counter and the buckets disagree.                              *)
TotalCountsAnchors == totalAnchors = Cardinality(Anchored)

(* An anchor is stored where verify() looks for it, and nowhere else, so   *)
(* no hash is recorded a second time in another bucket.                    *)
OneBucketPerHash ==
  \A b \in BucketId, h \in Hash :
    bucket[b][h] # Unanchored => b = GetBucketId[h] /\ bucket[b][h] <= ledger

(* The contract implements the log: reading any bucketed storage through   *)
(* verify(), every call either anchors one new hash at the current ledger  *)
(* or leaves the log alone, even after the nonce of an earlier anchor has  *)
(* been deleted and is used again.                                         *)
Log == INSTANCE AnchorLog
         WITH now <- ledger, anchoredAt <- [h \in Hash |-> Verify(h)]
ImplementsLog == Log!Spec

==============================================================================
