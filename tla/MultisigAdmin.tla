---------------------------- MODULE MultisigAdmin ----------------------------
(***************************************************************************)
(* The multisig_admin contract (apps/contracts/multisig_admin/src/lib.rs): *)
(* three signer slots, an approval threshold, operations approved through  *)
(* a per-operation bitmap, and the rotation of the signer slots.           *)
(*                                                                         *)
(* A contract call is one transaction: it either runs to its end or panics *)
(* and is rolled back, so every action below is a successful call and a    *)
(* panic is a disabled action.  `require_auth` makes the caller the        *)
(* address it passes.  An approval bitmap is the set of its bit positions. *)
(***************************************************************************)
EXTENDS Integers, FiniteSets

CONSTANTS Address,      \* accounts that may become signers
          NoAddress,    \* content of a signer slot that was never written
          SignerSets,   \* the signer triples callers pass, [0..2 -> Address]
          NoRotation,   \* "no rotation stored for this operation"
          MaxOps        \* bound on OpCount, a u32 in the code

Index == 0..2
Threshold == 1..3
OpId == 0..(MaxOps - 1)

ASSUME Assumption ==
  /\ NoAddress \notin Address
  /\ SignerSets \subseteq [Index -> Address]
  /\ NoRotation \notin [signers: SignerSets, threshold: Threshold]
  /\ MaxOps \in Nat

(* `call_data` matters through its first byte alone: 0x01 is the rotation  *)
(* tag, anything else (or nothing) is an opaque call.                      *)
CallData == {"call", "tag01"}
Rotation == [signers: SignerSets, threshold: Threshold]

VARIABLES signer,       \* DataKey::Signer(0..2)
          threshold,    \* DataKey::Threshold, 0 while the key is absent
          opCount,      \* DataKey::OpCount
          call_data,    \* DataKey::Op(id).call_data, "absent" without the key
          executed,     \* the ids whose DataKey::Op(id).executed is true
          approvals,    \* DataKey::Approvals(id)
          rotation,     \* DataKey::Signer(10*id + 3..5) and (rot_thr, id)
          approvedBy,   \* history: the accounts whose approval set a bit
          rotated       \* history: an execute_rotate has succeeded

contract == <<signer, threshold, opCount, call_data, executed, approvals,
              rotation>>
vars == <<contract, approvedBy, rotated>>

TypeOK ==
  /\ signer \in [Index -> Address \cup {NoAddress}]
  /\ threshold \in Threshold \cup {0}
  /\ opCount \in 0..MaxOps
  /\ call_data \in [OpId -> CallData \cup {"absent"}]
  /\ executed \in SUBSET OpId
  /\ approvals \in [OpId -> SUBSET Index]
  /\ rotation \in [OpId -> Rotation \cup {NoRotation}]
  /\ approvedBy \in [OpId -> SUBSET Address]
  /\ rotated \in BOOLEAN

Init ==
  /\ signer = [i \in Index |-> NoAddress]
  /\ threshold = 0
  /\ opCount = 0
  /\ call_data = [id \in OpId |-> "absent"]
  /\ executed = {}
  /\ approvals = [id \in OpId |-> {}]
  /\ rotation = [id \in OpId |-> NoRotation]
  /\ approvedBy = [id \in OpId |-> {}]
  /\ rotated = FALSE

------------------------------------------------------------------------------
(* The operators named Mutant... are wrong variants of the definition that *)
(* follows them.  No action uses them; each breaks a property below.       *)

(* An address in any of its slots, not in the first one only.              *)
MutantSignerIndex(a, i) == signer[i] = a

(* signer_index returns the first slot that holds the address.             *)
SignerIndex(a, i) ==
  /\ signer[i] = a
  /\ \A j \in Index : j < i => signer[j] # a

(* One approval more, and one less, than the threshold asks for.           *)
MutantThresholdPassed(bits) == Cardinality(bits) > threshold
MutantThresholdNear(bits) == Cardinality(bits) + 1 >= threshold

ThresholdMet(bits) == Cardinality(bits) >= threshold

(* mark_executed, called when the bits just written meet the threshold.    *)
MarkExecuted(id, bits) ==
  executed' = IF ThresholdMet(bits) THEN executed \cup {id} ELSE executed

(* Operations approve accepts: stored, and not executed.                   *)
MutantOpen(id) == call_data[id] # "absent"
Open(id) ==
  /\ call_data[id] # "absent"
  /\ id \notin executed

(* Without the assertion that the threshold is between 1 and 3.            *)
MutantInitialize(signers, thr) ==
  /\ threshold = 0
  /\ signer' = signers
  /\ threshold' \in 0..4
  /\ opCount' = 0
  /\ UNCHANGED <<call_data, executed, approvals, rotation, approvedBy, rotated>>

Initialize(signers, thr) ==
  /\ threshold = 0
  /\ signer' = signers
  /\ threshold' = thr
  /\ opCount' = 0
  /\ UNCHANGED <<call_data, executed, approvals, rotation, approvedBy, rotated>>

Propose(proposer, data) ==
  \E i \in Index :
    /\ SignerIndex(proposer, i)
    /\ opCount < MaxOps
    /\ opCount' = opCount + 1
    /\ call_data' = [call_data EXCEPT ![opCount] = data]
    /\ approvals' = [approvals EXCEPT ![opCount] = {i}]
    /\ MarkExecuted(opCount, {i})
    /\ approvedBy' = [approvedBy EXCEPT ![opCount] = {proposer}]
    /\ UNCHANGED <<signer, threshold, rotation, rotated>>

(* What approve asks before it writes.                                     *)
MayApprove(a, id, i) ==
  /\ SignerIndex(a, i)
  /\ Open(id)
  /\ i \notin approvals[id]

Approve(a, id) ==
  \E i \in Index :
    /\ MayApprove(a, id, i)
    /\ approvals' = [approvals EXCEPT ![id] = @ \cup {i}]
    /\ MarkExecuted(id, approvals[id] \cup {i})
    /\ approvedBy' = [approvedBy EXCEPT ![id] = @ \cup {a}]
    /\ UNCHANGED <<signer, threshold, opCount, call_data, rotation, rotated>>

(* Unlike propose, propose_rotate never marks the operation executed.      *)
ProposeRotate(proposer, signers, thr) ==
  \E i \in Index :
    /\ SignerIndex(proposer, i)
    /\ opCount < MaxOps
    /\ opCount' = opCount + 1
    /\ call_data' = [call_data EXCEPT ![opCount] = "tag01"]
    /\ approvals' = [approvals EXCEPT ![opCount] = {i}]
    /\ rotation' = [rotation EXCEPT ![opCount] =
                      [signers |-> signers, threshold |-> thr]]
    /\ approvedBy' = [approvedBy EXCEPT ![opCount] = {proposer}]
    /\ UNCHANGED <<signer, threshold, executed, rotated>>

(* Anyone may call execute_rotate; it reads the bitmap against the         *)
(* threshold now in force, and leaves the operation itself untouched.      *)
ExecuteRotate(id) ==
  /\ call_data[id] = "tag01"
  /\ ThresholdMet(approvals[id])
  /\ rotation[id] # NoRotation
  /\ signer' = rotation[id].signers
  /\ threshold' = rotation[id].threshold
  /\ rotated' = TRUE
  /\ UNCHANGED <<opCount, call_data, executed, approvals, rotation, approvedBy>>

Next ==
  \/ \E signers \in SignerSets, thr \in Threshold : Initialize(signers, thr)
  \/ \E a \in Address, data \in CallData : Propose(a, data)
  \/ \E a \in Address, id \in OpId : Approve(a, id)
  \/ \E a \in Address, signers \in SignerSets, thr \in Threshold :
       ProposeRotate(a, signers, thr)
  \/ \E id \in OpId : ExecuteRotate(id)

Spec == Init /\ [][Next]_vars

------------------------------------------------------------------------------
(* While the three slots hold three different keys, every stored operation *)
(* that is not executed has a current signer whose approve is accepted:    *)
(* whatever rotations raised or lowered the threshold and whatever slots   *)
(* the earlier signers left set, no operation is stuck.  Without that      *)
(* condition it may be: of a triple with one key in two slots, and neither *)
(* initialize nor propose_rotate refuses one, the second is never resolved *)
(* by signer_index, and with the other two bits set every approve panics.  *)
DistinctKeys == \A i, j \in Index : signer[i] = signer[j] => i = j
PendingCanComplete ==
  DistinctKeys =>
    \A id \in OpId : Open(id) =>
      \E a \in Address, i \in Index : MayApprove(a, id, i)

(* While no rotation has happened, the bits of an operation are as many as *)
(* the accounts that gave them: a key installed in two slots still counts  *)
(* once, because signer_index always resolves it to the same slot.         *)
OneBitPerKey ==
  ~rotated =>
    \A id \in OpId : Cardinality(approvedBy[id]) = Cardinality(approvals[id])

(* After initialize, signers and threshold change only to the triple and   *)
(* threshold some propose_rotate stored, when that operation holds as many *)
(* approval bits as the outgoing threshold asks for; and the first change  *)
(* was approved by that many distinct keys, all of them current signers.   *)
Configured == threshold # 0
CurrentSigners == {signer[i] : i \in Index}
RotationIsApproved ==
  [][Configured /\ <<signer, threshold>>' # <<signer, threshold>> =>
       \E id \in OpId :
         /\ id < opCount
         /\ rotation[id] = [signers |-> signer', threshold |-> threshold']
         /\ Cardinality(approvals[id]) >= threshold
         /\ ~rotated => /\ Cardinality(approvedBy[id]) >= threshold
                        /\ approvedBy[id] \subseteq CurrentSigners]_vars

(* An executed operation is settled: no later call, not even a rotation to *)
(* a lower or higher threshold, changes its data, its bits or its flag.    *)
ExecutedIsFinal ==
  [][\A id \in executed :
       /\ id \in executed'
       /\ call_data'[id] = call_data[id]
       /\ approvals'[id] = approvals[id]
       /\ rotation'[id] = rotation[id]]_vars

------------------------------------------------------------------------------
(* The parts of the inductive invariant behind these properties.           *)

(* Nothing can be proposed before initialize fills the signer slots.       *)
NothingBeforeInitialize ==
  threshold = 0 => signer = [i \in Index |-> NoAddress] /\ opCount = 0

(* The keys of an operation are written when its id is allocated, and ids  *)
(* are allocated once, in order.                                           *)
UnallocatedIsEmpty ==
  \A id \in OpId : id >= opCount =>
    /\ call_data[id] = "absent"
    /\ id \notin executed
    /\ approvals[id] = {}
    /\ approvedBy[id] = {}

(* Before the first rotation every key that approved still resolves to a   *)
(* slot whose bit is set.                                                  *)
KeysHoldTheirBits ==
  ~rotated =>
    \A id \in OpId : \A a \in approvedBy[id] :
      \E i \in approvals[id] : SignerIndex(a, i)

(* Three bits meet every threshold, so approve marks what it fills.        *)
PendingHasFreeSlot ==
  \A id \in OpId : id \notin executed => approvals[id] # Index

(* initialize and the rotations fill every slot.                           *)
SlotsAreFilled ==
  threshold # 0 => \A i \in Index : signer[i] \in Address

Inv ==
  /\ TypeOK
  /\ NothingBeforeInitialize
  /\ UnallocatedIsEmpty
  /\ \A id \in OpId : IsFiniteSet(approvedBy[id])
  /\ KeysHoldTheirBits
  /\ OneBitPerKey
  /\ PendingHasFreeSlot
  /\ SlotsAreFilled

------------------------------------------------------------------------------
(* Statements of the contract's documentation that the code does not keep. *)

(* Header, line 6: the count is of distinct signers.  The bitmap counts    *)
(* slots: a key that a rotation moves to another slot approves twice.      *)
DistinctSignersApproved ==
  [][\A id \in executed' \ executed :
       Cardinality(approvedBy'[id]) >= threshold]_vars

==============================================================================
