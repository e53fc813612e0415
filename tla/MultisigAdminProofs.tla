------------------------- MODULE MultisigAdminProofs -------------------------
(* Theorems about MultisigAdmin for every set of accounts, every list of    *)
(* signer triples and every bound on the number of operations.              *)
EXTENDS MultisigAdmin, FiniteSetTheorems, TLAPS

(* The bitmap has three bits: a set of slots is finite, counts at most      *)
(* three, and counts three only when it is all of them.                     *)
LEMMA SlotSets ==
  ASSUME NEW S \in SUBSET Index
  PROVE  /\ IsFiniteSet(S)
         /\ Cardinality(S) \in 0..3
         /\ S = Index <=> Cardinality(S) = 3
<1>1. IsFiniteSet(Index) /\ Cardinality(Index) = 3
  <2>1. IsFiniteSet(0..2) /\ Cardinality(0..2) = IF 0 > 2 THEN 0 ELSE 2-0+1
    BY FS_Interval, 0 \in Int, 2 \in Int, Zenon
  <2>. QED  BY <2>1 DEF Index
<1>2. IsFiniteSet(S) /\ Cardinality(S) <= 3 /\ (Cardinality(S) = 3 => S = Index)
  BY <1>1, FS_Subset
<1>3. Cardinality(S) \in Nat
  BY <1>2, FS_CardinalityType
<1>. QED  BY <1>1, <1>2, <1>3

(* Adding a slot that is not yet set adds one to the count of bits.         *)
LEMMA SetBit ==
  ASSUME NEW S \in SUBSET Index, NEW i \in Index \ S
  PROVE  Cardinality(S \cup {i}) = Cardinality(S) + 1
BY SlotSets, FS_AddElement

------------------------------------------------------------------------------
LEMMA InitTypeOK == Init => TypeOK
<1>. SUFFICES ASSUME Init PROVE TypeOK
  OBVIOUS
<1>1. opCount \in 0..MaxOps
  BY Assumption DEF Init, Assumption
<1>2. rotation \in [OpId -> Rotation \cup {NoRotation}]
  BY DEF Init
<1>. QED  BY <1>1, <1>2 DEF Init, TypeOK

LEMMA NextTypeOK == TypeOK /\ [Next]_vars => TypeOK'
<1>. SUFFICES ASSUME TypeOK, [Next]_vars PROVE TypeOK'
  OBVIOUS
<1>. USE Assumption DEF Assumption, TypeOK, CallData, Rotation, Threshold, Index
<1>1. ASSUME NEW signers \in SignerSets, NEW thr \in Threshold,
             Initialize(signers, thr)
      PROVE  TypeOK'
  BY <1>1 DEF Initialize
<1>2. ASSUME NEW a \in Address, NEW data \in CallData, Propose(a, data)
      PROVE  TypeOK'
  BY <1>2 DEF Propose, MarkExecuted, OpId
<1>3. ASSUME NEW a \in Address, NEW id \in OpId, Approve(a, id)
      PROVE  TypeOK'
  BY <1>3 DEF Approve, MayApprove, Open, MarkExecuted
<1>4. ASSUME NEW a \in Address, NEW signers \in SignerSets,
             NEW thr \in Threshold, ProposeRotate(a, signers, thr)
      PROVE  TypeOK'
  BY <1>4 DEF ProposeRotate, OpId
<1>5. ASSUME NEW id \in OpId, ExecuteRotate(id)
      PROVE  TypeOK'
  BY <1>5 DEF ExecuteRotate
<1>6. CASE UNCHANGED vars
  BY <1>6 DEF vars, contract
<1>. QED  BY <1>1, <1>2, <1>3, <1>4, <1>5, <1>6 DEF Next

(* Every call keeps the types of the stored keys.                           *)
THEOREM TypeCorrect == Spec => []TypeOK
BY InitTypeOK, NextTypeOK, PTL DEF Spec

------------------------------------------------------------------------------
LEMMA InitInv == Init => Inv
<1>. SUFFICES ASSUME Init PROVE Inv
  OBVIOUS
<1>1. TypeOK
  BY InitTypeOK
<1>2. IsFiniteSet({}) /\ Cardinality({}) = 0
  BY FS_EmptySet
<1>3. \A id \in OpId : approvals[id] = {} /\ approvedBy[id] = {}
  BY DEF Init
<1>4. NothingBeforeInitialize /\ UnallocatedIsEmpty
  BY <1>3 DEF Init, NothingBeforeInitialize, UnallocatedIsEmpty
<1>5. KeysHoldTheirBits /\ OneBitPerKey
  BY <1>2, <1>3 DEF KeysHoldTheirBits, OneBitPerKey
<1>6. PendingHasFreeSlot
  BY <1>3 DEF PendingHasFreeSlot, Index
<1>7. SlotsAreFilled
  BY DEF Init, SlotsAreFilled
<1>. QED  BY <1>1, <1>2, <1>3, <1>4, <1>5, <1>6, <1>7 DEF Inv

(* The two proposing calls write the keys of a fresh id: one bit, one       *)
(* account, which resolves to the slot whose bit it is.                     *)
LEMMA FreshOperation ==
  ASSUME Inv, TypeOK', NEW a \in Address, NEW i \in Index,
         SignerIndex(a, i), opCount < MaxOps, opCount' = opCount + 1,
         NEW data \in CallData,
         call_data' = [call_data EXCEPT ![opCount] = data],
         approvals' = [approvals EXCEPT ![opCount] = {i}],
         approvedBy' = [approvedBy EXCEPT ![opCount] = {a}],
         executed' \in {executed, executed \cup {opCount}},
         UNCHANGED <<signer, threshold, rotated>>
  PROVE  Inv'
<1>. USE DEF Inv
<1>1. opCount \in OpId /\ threshold # 0
  BY Assumption DEF TypeOK, OpId, Assumption, NothingBeforeInitialize,
                    SignerIndex
<1>2. /\ approvals'[opCount] = {i} /\ approvedBy'[opCount] = {a}
      /\ \A id \in OpId \ {opCount} :
           /\ approvals'[id] = approvals[id]
           /\ approvedBy'[id] = approvedBy[id]
           /\ call_data'[id] = call_data[id]
  BY <1>1 DEF TypeOK
<1>3. NothingBeforeInitialize'
  BY <1>1 DEF NothingBeforeInitialize
<1>4. UnallocatedIsEmpty'
  BY <1>1, <1>2 DEF UnallocatedIsEmpty, OpId, TypeOK
<1>5. /\ IsFiniteSet({a}) /\ Cardinality({a}) = 1
      /\ Cardinality({i}) = 1
  BY FS_Singleton
<1>6. \A id \in OpId : IsFiniteSet(approvedBy'[id])
  BY <1>1, <1>2, <1>5
<1>7. KeysHoldTheirBits'
  BY <1>1, <1>2 DEF KeysHoldTheirBits, SignerIndex
<1>8. OneBitPerKey'
  BY <1>1, <1>2, <1>5 DEF OneBitPerKey
<1>9. PendingHasFreeSlot'
  <2>1. {i} # Index
    BY DEF Index
  <2>. QED  BY <2>1, <1>1, <1>2 DEF PendingHasFreeSlot
<1>10. SlotsAreFilled'
  BY DEF SlotsAreFilled
<1>. QED  BY <1>3, <1>4, <1>6, <1>7, <1>8, <1>9, <1>10

(* approve adds the caller's bit, and the caller with it: the two sets grow *)
(* together as long as no rotation has moved a key to another slot.         *)
LEMMA ApproveInv ==
  ASSUME Inv, TypeOK', NEW a \in Address, NEW id \in OpId, Approve(a, id)
  PROVE  Inv'
<1>. USE DEF Inv
<1>1. PICK i \in Index :
        /\ SignerIndex(a, i)
        /\ call_data[id] # "absent" /\ id \notin executed
        /\ i \notin approvals[id]
        /\ approvals' = [approvals EXCEPT ![id] = @ \cup {i}]
        /\ MarkExecuted(id, approvals[id] \cup {i})
        /\ approvedBy' = [approvedBy EXCEPT ![id] = @ \cup {a}]
        /\ UNCHANGED <<signer, threshold, opCount, call_data, rotation, rotated>>
  BY DEF Approve, MayApprove, Open
<1>2. id < opCount
  BY <1>1 DEF UnallocatedIsEmpty, TypeOK, OpId
<1>3. /\ approvals'[id] = approvals[id] \cup {i}
      /\ approvedBy'[id] = approvedBy[id] \cup {a}
      /\ \A k \in OpId \ {id} : /\ approvals'[k] = approvals[k]
                               /\ approvedBy'[k] = approvedBy[k]
  BY <1>1 DEF TypeOK
<1>4. \A k \in OpId \ {id} : k \in executed' <=> k \in executed
  BY <1>1 DEF MarkExecuted
<1>5. NothingBeforeInitialize'
  BY <1>1 DEF NothingBeforeInitialize
<1>6. UnallocatedIsEmpty'
  BY <1>1, <1>2, <1>3, <1>4 DEF UnallocatedIsEmpty, OpId, TypeOK
<1>7. /\ IsFiniteSet(approvedBy[id] \cup {a})
      /\ a \notin approvedBy[id] =>
           Cardinality(approvedBy[id] \cup {a}) = Cardinality(approvedBy[id]) + 1
  BY FS_AddElement
<1>8. \A k \in OpId : IsFiniteSet(approvedBy'[k])
  BY <1>3, <1>7
<1>9. KeysHoldTheirBits'
  BY <1>1, <1>3 DEF KeysHoldTheirBits, SignerIndex
<1>10. Cardinality(approvals[id] \cup {i}) = Cardinality(approvals[id]) + 1
  BY <1>1, SetBit DEF TypeOK
<1>11. OneBitPerKey'
  <2>1. ~rotated => a \notin approvedBy[id]
    <3>. SUFFICES ASSUME ~rotated, a \in approvedBy[id] PROVE FALSE
      OBVIOUS
    <3>1. PICK j \in approvals[id] : SignerIndex(a, j)
      BY DEF KeysHoldTheirBits
    <3>2. i = j
      BY <1>1, <3>1 DEF SignerIndex, TypeOK, Index
    <3>. QED  BY <1>1, <3>1, <3>2
  <2>. QED  BY <1>1, <1>3, <1>7, <1>10, <2>1 DEF OneBitPerKey
<1>12. PendingHasFreeSlot'
  <2>1. approvals'[id] = Index => ThresholdMet(approvals[id] \cup {i})
    <3>1. Cardinality(Index) = 3
      BY SlotSets
    <3>2. approvals'[id] = Index => Cardinality(approvals[id] \cup {i}) = 3
      BY <1>3, <3>1
    <3>. QED  BY <3>2 DEF ThresholdMet, TypeOK, Threshold
  <2>2. approvals'[id] = Index => id \in executed'
    BY <1>1, <2>1 DEF MarkExecuted
  <2>. QED  BY <1>3, <1>4, <2>2 DEF PendingHasFreeSlot
<1>13. SlotsAreFilled'
  BY <1>1 DEF SlotsAreFilled
<1>. QED  BY <1>5, <1>6, <1>8, <1>9, <1>11, <1>12, <1>13

LEMMA NextInv == Inv /\ [Next]_vars => Inv'
<1>. SUFFICES ASSUME Inv, [Next]_vars PROVE Inv'
  OBVIOUS
<1>. USE DEF Inv
<1>1. TypeOK'
  BY NextTypeOK
<1>2. ASSUME NEW signers \in SignerSets, NEW thr \in Threshold,
             Initialize(signers, thr)
      PROVE  Inv'
  <2>1. opCount = 0 /\ UNCHANGED opCount
    BY <1>2 DEF Initialize, NothingBeforeInitialize
  <2>2. \A id \in OpId : approvals[id] = {} /\ approvedBy[id] = {}
    BY <2>1, Assumption DEF UnallocatedIsEmpty, OpId, Assumption
  <2>3. NothingBeforeInitialize'
    BY <1>2 DEF Initialize, NothingBeforeInitialize, Threshold
  <2>4. UnallocatedIsEmpty' /\ PendingHasFreeSlot'
    BY <1>2, <2>1 DEF Initialize, UnallocatedIsEmpty, PendingHasFreeSlot
  <2>5. KeysHoldTheirBits' /\ OneBitPerKey'
    BY <1>2, <2>2 DEF Initialize, KeysHoldTheirBits, OneBitPerKey
  <2>6. SlotsAreFilled'
    BY <1>2, Assumption DEF Initialize, SlotsAreFilled, Assumption
  <2>. QED  BY <1>1, <1>2, <2>3, <2>4, <2>5, <2>6 DEF Initialize
<1>3. ASSUME NEW a \in Address, NEW data \in CallData, Propose(a, data)
      PROVE  Inv'
  BY <1>1, <1>3, FreshOperation DEF Propose, MarkExecuted
<1>4. ASSUME NEW a \in Address, NEW id \in OpId, Approve(a, id)
      PROVE  Inv'
  BY <1>1, <1>4, ApproveInv
<1>5. ASSUME NEW a \in Address, NEW signers \in SignerSets,
             NEW thr \in Threshold, ProposeRotate(a, signers, thr)
      PROVE  Inv'
  BY <1>1, <1>5, FreshOperation DEF ProposeRotate, CallData
<1>6. ASSUME NEW id \in OpId, ExecuteRotate(id)
      PROVE  Inv'
  <2>1. threshold' # 0
    BY <1>6 DEF ExecuteRotate, TypeOK, Rotation, Threshold
  <2>2. SlotsAreFilled'
    BY <1>6, Assumption DEF ExecuteRotate, SlotsAreFilled, TypeOK, Rotation,
                            Assumption
  <2>. QED
    BY <1>1, <1>6, <2>1, <2>2 DEF ExecuteRotate, NothingBeforeInitialize,
       UnallocatedIsEmpty, KeysHoldTheirBits, OneBitPerKey, PendingHasFreeSlot
<1>7. CASE UNCHANGED vars
  BY <1>1, <1>7 DEF vars, contract, NothingBeforeInitialize,
     UnallocatedIsEmpty, KeysHoldTheirBits, OneBitPerKey, PendingHasFreeSlot,
     SlotsAreFilled, SignerIndex
<1>. QED  BY <1>2, <1>3, <1>4, <1>5, <1>6, <1>7 DEF Next

LEMMA Invariance == Spec => []Inv
BY InitInv, NextInv, PTL DEF Spec

(* An operation that is stored and not executed can be approved by one of   *)
(* the current signers, as long as these are three different keys: the      *)
(* unset bit is of a slot, and the key in that slot resolves to it.         *)
THEOREM PendingAlwaysCanComplete == Spec => []PendingCanComplete
<1>1. Inv => PendingCanComplete
  <2>. SUFFICES ASSUME Inv, DistinctKeys, NEW id \in OpId, Open(id)
                PROVE  \E a \in Address, i \in Index : MayApprove(a, id, i)
    BY DEF PendingCanComplete
  <2>1. PICK i \in Index : i \notin approvals[id]
    BY DEF Inv, TypeOK, PendingHasFreeSlot, Open
  <2>2. opCount # 0
    BY DEF Inv, UnallocatedIsEmpty, TypeOK, Open, OpId
  <2>3. signer[i] \in Address
    BY <2>2 DEF Inv, NothingBeforeInitialize, SlotsAreFilled
  <2>4. SignerIndex(signer[i], i)
    BY DEF SignerIndex, DistinctKeys, Index
  <2>. QED  BY <2>1, <2>3, <2>4 DEF MayApprove
<1>. QED  BY <1>1, Invariance, PTL

(* Until the first rotation the bits of an operation count distinct keys,   *)
(* even when one key was installed in several slots.                        *)
THEOREM BitsCountKeys == Spec => []OneBitPerKey
<1>1. Inv => OneBitPerKey
  BY DEF Inv
<1>. QED  BY <1>1, Invariance, PTL

(* Signers and threshold change only through an operation that stored       *)
(* exactly those values and holds enough bits, the first time enough keys.  *)
THEOREM RotationAlwaysApproved == Spec => RotationIsApproved
<1>. DEFINE ApprovedStep ==
       Configured /\ <<signer, threshold>>' # <<signer, threshold>> =>
         \E id \in OpId :
           /\ id < opCount
           /\ rotation[id] = [signers |-> signer', threshold |-> threshold']
           /\ Cardinality(approvals[id]) >= threshold
           /\ ~rotated => /\ Cardinality(approvedBy[id]) >= threshold
                          /\ approvedBy[id] \subseteq CurrentSigners
<1>1. Inv /\ [Next]_vars => [ApprovedStep]_vars
  <2>. SUFFICES ASSUME Inv, Next, Configured,
                       <<signer, threshold>>' # <<signer, threshold>>
                PROVE  ApprovedStep
    OBVIOUS
  <2>1. PICK id \in OpId : ExecuteRotate(id)
    BY DEF Next, Configured, Initialize, Propose, Approve, ProposeRotate
  <2>2. id < opCount
    BY <2>1 DEF ExecuteRotate, Inv, UnallocatedIsEmpty, TypeOK, OpId
  <2>3. rotation[id] = [signers |-> signer', threshold |-> threshold']
    BY <2>1 DEF ExecuteRotate, Inv, TypeOK, Rotation
  <2>4. ~rotated => /\ Cardinality(approvedBy[id]) >= threshold
                    /\ approvedBy[id] \subseteq CurrentSigners
    BY <2>1 DEF ExecuteRotate, ThresholdMet, Inv, OneBitPerKey, TypeOK,
                KeysHoldTheirBits, SignerIndex, CurrentSigners
  <2>. QED  BY <2>1, <2>2, <2>3, <2>4 DEF ExecuteRotate, ThresholdMet
<1>. QED  BY <1>1, Invariance, PTL DEF Spec, RotationIsApproved

(* No call changes an executed operation.                                   *)
THEOREM ExecutedStaysFinal == Spec => ExecutedIsFinal
<1>. DEFINE FinalStep ==
       \A id \in executed :
         /\ id \in executed'
         /\ call_data'[id] = call_data[id]
         /\ approvals'[id] = approvals[id]
         /\ rotation'[id] = rotation[id]
<1>1. Inv /\ [Next]_vars => [FinalStep]_vars
  <2>. SUFFICES ASSUME Inv, Next, NEW id \in executed
                PROVE  /\ id \in executed'
                       /\ call_data'[id] = call_data[id]
                       /\ approvals'[id] = approvals[id]
                       /\ rotation'[id] = rotation[id]
    OBVIOUS
  <2>1. id \in OpId /\ id < opCount
    BY DEF Inv, TypeOK, UnallocatedIsEmpty, OpId
  <2>. USE DEF Inv, TypeOK, OpId
  <2>2. ASSUME NEW a \in Address, NEW data \in CallData, Propose(a, data)
        PROVE  FinalStep
    BY <2>1, <2>2 DEF Propose, MarkExecuted, UnallocatedIsEmpty
  <2>3. ASSUME NEW a \in Address, NEW k \in OpId, Approve(a, k)
        PROVE  FinalStep
    BY <2>1, <2>3 DEF Approve, MayApprove, Open, MarkExecuted
  <2>4. ASSUME NEW a \in Address, NEW signers \in SignerSets,
               NEW thr \in Threshold, ProposeRotate(a, signers, thr)
        PROVE  FinalStep
    BY <2>1, <2>4 DEF ProposeRotate, UnallocatedIsEmpty
  <2>5. CASE \/ \E signers \in SignerSets, thr \in Threshold :
                   Initialize(signers, thr)
             \/ \E k \in OpId : ExecuteRotate(k)
    BY <2>5 DEF Initialize, ExecuteRotate
  <2>. QED  BY <2>2, <2>3, <2>4, <2>5 DEF Next
<1>. QED  BY <1>1, Invariance, PTL DEF Spec, ExecutedIsFinal
==============================================================================
