---------------------- MODULE CommunityGovernanceProofs ----------------------
(* Theorems about CommunityGovernance for every set of voters, every number  *)
(* of proposals and every setting of the constants: the bitmap, the tallies, *)
(* the outcome of finalize, the two timelocks.                               *)
EXTENDS CommunityGovernance, FiniteSetTheorems, TLAPS

------------------------------------------------------------------------------
(* Lemmas about the operators.                                               *)

(* A word and a bit name one voter index, so two keys are equal only for the *)
(* same proposal and the same index.                                         *)
LEMMA BitAtInjective ==
  ASSUME NEW i, NEW j, NEW a \in Nat, NEW b \in Nat, BitAt(i, a) = BitAt(j, b)
  PROVE  i = j /\ a = b
<1>1. WordBits \in Nat \ {0}
  BY Assumption DEF Assumption
<1>2. i = j /\ a \div WordBits = b \div WordBits /\ a % WordBits = b % WordBits
  BY DEF BitAt
<1>3. /\ a = WordBits * (a \div WordBits) + (a % WordBits)
      /\ b = WordBits * (b \div WordBits) + (b % WordBits)
  BY <1>1
<1>. QED  BY <1>2, <1>3

LEMMA BitAtType ==
  ASSUME NEW id \in ProposalId, NEW a \in Nat
  PROVE  BitAt(id, a) \in ProposalId \X Nat \X (0..(WordBits - 1))
<1>1. WordBits \in Nat \ {0}
  BY Assumption DEF Assumption
<1>2. a \div WordBits \in Nat /\ a % WordBits \in 0..(WordBits - 1)
  BY <1>1
<1>. QED  BY <1>2 DEF BitAt

(* A proposal that carries has a yes vote: thresholdBps is at least one.     *)
LEMMA CarriesNeedsYes ==
  ASSUME TypeOK, NEW p \in Proposal, Total(p) > 0, Carries(p)
  PROVE  p.yes_votes > 0
<1>1. Scale \in Nat \ {0} /\ thresholdBps \in Nat \ {0}
  BY Assumption DEF Assumption, TypeOK
<1>2. p.yes_votes \in Nat /\ Total(p) \in Nat \ {0}
  BY DEF Proposal, Total
<1>3. p.yes_votes = 0 => p.yes_votes * Scale = 0
  BY <1>1
<1>4. 0 \div Total(p) = 0
  BY <1>2
<1>. QED  BY <1>1, <1>2, <1>3, <1>4 DEF Carries

LEMMA ExceptType ==
  ASSUME NEW D, NEW S, NEW f \in [D -> S], NEW k, NEW x \in S
  PROVE  [f EXCEPT ![k] = x] \in [D -> S]
OBVIOUS

LEMMA IndexOfType ==
  ASSUME TypeOK, NEW a \in Address
  PROVE  IndexOf(a) \in Nat
BY DEF TypeOK, IndexOf, Unregistered

------------------------------------------------------------------------------
(* Every key keeps its type; u32 sums are checked before they are stored.    *)
LEMMA InitTypeOK == Init => TypeOK
BY Assumption
   DEF Assumption, Init, TypeOK, NoProposal, Proposal, Unregistered, Never

LEMMA NextTypeOK == TypeOK /\ [Next]_vars => TypeOK'
<1>. SUFFICES ASSUME TypeOK, [Next]_vars PROVE TypeOK'
  OBVIOUS
<1>. USE Assumption DEF Assumption, TypeOK
<1>1. CASE CloseLedger
  BY <1>1 DEF CloseLedger, config, voting, upgrade
<1>2. ASSUME NEW a \in Address, NEW period \in VotingPeriods,
             Initialize(a, period)
      PROVE  TypeOK'
  BY <1>2 DEF Initialize, upgrade, NoProposal, Proposal
<1>3. ASSUME NEW v \in Version, Migrate(v)
      PROVE  TypeOK'
  BY <1>3 DEF Migrate, voting, upgrade
<1>4. ASSUME NEW a \in Address, NEW bps \in Bps,
             SetQuorumBps(a, bps) \/ SetThresholdBps(a, bps)
      PROVE  TypeOK'
  BY <1>4 DEF SetQuorumBps, SetThresholdBps, voting, upgrade
<1>5. ASSUME NEW a \in Address, NEW n \in Timelocks, SetExecutionTimelock(a, n)
      PROVE  TypeOK'
  BY <1>5 DEF SetExecutionTimelock, voting, upgrade
<1>6. ASSUME NEW a \in Address, Propose(a)
      PROVE  TypeOK'
  <2>1. NewProposal(ledger + votingPeriod) \in Proposal
    BY DEF NewProposal, Proposal, Status
  <2>2. proposals' \in [ProposalId -> Proposal]
    BY <1>6, <2>1, ExceptType DEF Propose
  <2>3. proposalCount' \in 0..MaxProposals
    BY <1>6 DEF Propose
  <2>. QED  BY <1>6, <2>2, <2>3 DEF Propose, config, voting, upgrade
<1>7. ASSUME NEW a \in Address, NEW id \in ProposalId,
             NEW approve \in {"yes", "no"}, Vote(a, id, approve)
      PROVE  TypeOK'
  <2>1. proposals' \in [ProposalId -> Proposal]
    BY <1>7 DEF Vote, Proposal
  <2>2. bitmap' \in SUBSET (ProposalId \X Nat \X (0..(WordBits - 1)))
    BY <1>7, IndexOfType, BitAtType DEF Vote
  <2>3. /\ voterIndex' \in [Address -> Nat \cup {Unregistered}]
        /\ voterCount' \in Nat
        /\ ballots' \in SUBSET Ballot
    BY <1>7, IndexOfType DEF Vote, Ballot
  <2>. QED  BY <1>7, <2>1, <2>2, <2>3 DEF Vote, config, upgrade
<1>8. ASSUME NEW id \in ProposalId, Finalize(id) \/ Execute(id)
      PROVE  TypeOK'
  <2>1. proposals' \in [ProposalId -> Proposal]
    BY <1>8 DEF Finalize, Execute, Proposal, Status
  <2>. QED  BY <1>8, <2>1 DEF Finalize, Execute, config, voting, upgrade
<1>9. ASSUME NEW a \in Address, NEW h \in Hash, ProposeUpgrade(a, h)
      PROVE  TypeOK'
  BY <1>9 DEF ProposeUpgrade, config, voting, UpgradeProposal
<1>10. ASSUME NEW a \in Address, CancelUpgrade(a) \/ ExecuteUpgrade(a)
       PROVE  TypeOK'
  BY <1>10 DEF CancelUpgrade, ExecuteUpgrade, config, voting, UpgradeProposal
<1>11. CASE UNCHANGED vars
  BY <1>11 DEF vars, config, voting, upgrade
<1>. QED
  BY <1>1, <1>2, <1>3, <1>4, <1>5, <1>6, <1>7, <1>8, <1>9, <1>10, <1>11 DEF Next

THEOREM TypeCorrect == Spec => []TypeOK
BY InitTypeOK, NextTypeOK, PTL DEF Spec

------------------------------------------------------------------------------
(* The voting invariant.                                                     *)

LEMMA InitVotingInv == Init => VotingInv
<1>. SUFFICES ASSUME Init PROVE VotingInv
  OBVIOUS
<1>. USE Assumption DEF Assumption, Init
<1>1. NothingBeforeInitialize
  BY DEF NothingBeforeInitialize
<1>2. ProposalsAllocated
  BY DEF ProposalsAllocated
<1>3. IndicesDistinct
  BY DEF IndicesDistinct, Unregistered
<1>4. BitmapIsBallots
  BY FS_EmptySet DEF BitmapIsBallots
<1>5. TallyCountsBallots
  <2>1. \A id, c : BallotsOf(id, c) = {}
    BY DEF BallotsOf
  <2>. QED  BY <2>1, FS_EmptySet DEF TallyCountsBallots, NoProposal
<1>. QED  BY <1>1, <1>2, <1>3, <1>4, <1>5 DEF VotingInv

(* A vote that is accepted comes from a voter with no ballot on the proposal. *)
LEMMA VoteIsFirst ==
  ASSUME TypeOK, VotingInv, NEW a \in Address, NEW id \in ProposalId,
         BitAt(id, IndexOf(a)) \notin bitmap
  PROVE  \A x \in ballots : x.id = id => x.voter # a
<1>. SUFFICES ASSUME NEW x \in ballots, x.id = id, x.voter = a PROVE FALSE
  OBVIOUS
<1>1. voterIndex[a] # Unregistered /\ BitAt(id, voterIndex[a]) \in bitmap
  BY DEF VotingInv, BitmapIsBallots
<1>. QED  BY <1>1 DEF IndexOf

(* voter_index hands out VoterCount to a new voter and nothing to an old one. *)
LEMMA VoteIndices ==
  ASSUME TypeOK, VotingInv, NEW a \in Address, NEW id \in ProposalId,
         NEW c \in {"yes", "no"}, Vote(a, id, c)
  PROVE  /\ IndicesDistinct'
         /\ \A b \in Address : voterIndex[b] # Unregistered =>
                                  voterIndex'[b] = voterIndex[b]
         /\ voterIndex'[a] = IndexOf(a) /\ voterIndex'[a] # Unregistered
<1>1. /\ voterIndex' = [voterIndex EXCEPT ![a] = IndexOf(a)]
      /\ voterCount' = IF voterIndex[a] = Unregistered
                       THEN voterCount + 1 ELSE voterCount
  BY DEF Vote
<1>2. voterIndex \in [Address -> Nat \cup {Unregistered}] /\ voterCount \in Nat
  BY DEF TypeOK
<1>3. IndicesDistinct
  BY DEF VotingInv
<1>. QED  BY <1>1, <1>2, <1>3 DEF IndicesDistinct, IndexOf, Unregistered

LEMMA VoteBitmap ==
  ASSUME TypeOK, VotingInv, NEW a \in Address, NEW id \in ProposalId,
         NEW c \in {"yes", "no"}, Vote(a, id, c)
  PROVE  BitmapIsBallots'
<1>. DEFINE cast == [id |-> id, voter |-> a, approve |-> c]
<1>1. /\ ballots' = ballots \cup {cast}
      /\ bitmap' = bitmap \cup {BitAt(id, IndexOf(a))}
  BY DEF Vote
<1>2. /\ IsFiniteSet(ballots)
      /\ \A x \in ballots : voterIndex[x.voter] # Unregistered
      /\ bitmap = {BitAt(x.id, voterIndex[x.voter]) : x \in ballots}
  BY DEF VotingInv, BitmapIsBallots
<1>3. IsFiniteSet(ballots')
  BY <1>1, <1>2, FS_AddElement
<1>4. \A x \in ballots : x.voter \in Address
  BY DEF TypeOK, Ballot
<1>5. \A x \in ballots : voterIndex'[x.voter] = voterIndex[x.voter]
  BY <1>2, <1>4, VoteIndices
<1>6. \A x \in ballots' : voterIndex'[x.voter] # Unregistered
  BY <1>1, <1>2, <1>5, VoteIndices
<1>7. bitmap' = {BitAt(x.id, voterIndex'[x.voter]) : x \in ballots'}
  <2>1. BitAt(cast.id, voterIndex'[cast.voter]) = BitAt(id, IndexOf(a))
    BY VoteIndices
  <2>2. \A x \in ballots : BitAt(x.id, voterIndex'[x.voter])
                            = BitAt(x.id, voterIndex[x.voter])
    BY <1>5
  <2>. QED  BY <1>1, <1>2, <2>1, <2>2, Zenon
<1>8. {BitAt(x.id, voterIndex'[x.voter]) : x \in ballots'}
      = {BitAt(x.id, voterIndex[x.voter]) : x \in ballots}'
  BY DEF BitAt
<1>. QED  BY <1>3, <1>6, <1>7, <1>8 DEF BitmapIsBallots

(* The counter of the side voted for grows by one, like its set of ballots.  *)
LEMMA VoteTally ==
  ASSUME TypeOK, VotingInv, NEW a \in Address, NEW id \in ProposalId,
         NEW c \in {"yes", "no"}, Vote(a, id, c)
  PROVE  TallyCountsBallots'
<1>. DEFINE cast == [id |-> id, voter |-> a, approve |-> c]
<1>1. /\ ballots' = ballots \cup {cast}
      /\ BitAt(id, IndexOf(a)) \notin bitmap
      /\ proposals' = IF c = "yes"
                      THEN [proposals EXCEPT ![id].yes_votes = @ + 1]
                      ELSE [proposals EXCEPT ![id].no_votes = @ + 1]
  BY DEF Vote
<1>2. \A x \in ballots : x.id = id => x.voter # a
  BY <1>1, VoteIsFirst
<1>3. IsFiniteSet(ballots) /\ TallyCountsBallots
  BY DEF VotingInv, BitmapIsBallots
<1>4. \A x, y \in ballots' : x.id = y.id /\ x.voter = y.voter => x = y
  BY <1>1, <1>2, <1>3 DEF TallyCountsBallots
<1>5. \A i \in ProposalId, d \in {"yes", "no"} :
        IF i = id /\ d = c
        THEN /\ BallotsOf(i, d)' = BallotsOf(i, d) \cup {cast}
             /\ cast \notin BallotsOf(i, d)
        ELSE BallotsOf(i, d)' = BallotsOf(i, d)
  BY <1>1, <1>2 DEF BallotsOf
<1>6. \A i \in ProposalId, d \in {"yes", "no"} : IsFiniteSet(BallotsOf(i, d))
  BY <1>3, FS_Subset DEF BallotsOf
<1>7. \A i \in ProposalId, d \in {"yes", "no"} :
        Cardinality(BallotsOf(i, d)') =
          IF i = id /\ d = c THEN Cardinality(BallotsOf(i, d)) + 1
                             ELSE Cardinality(BallotsOf(i, d))
  <2>. TAKE i \in ProposalId, d \in {"yes", "no"}
  <2>1. CASE i = id /\ d = c
    BY <1>5, <1>6, <2>1, FS_AddElement
  <2>2. CASE ~(i = id /\ d = c)
    BY <1>5, <2>2
  <2>. QED  BY <2>1, <2>2
<1>8. \A i \in ProposalId :
        /\ proposals'[i].yes_votes = IF i = id /\ c = "yes"
                                     THEN proposals[i].yes_votes + 1
                                     ELSE proposals[i].yes_votes
        /\ proposals'[i].no_votes = IF i = id /\ c = "no"
                                    THEN proposals[i].no_votes + 1
                                    ELSE proposals[i].no_votes
  BY <1>1 DEF TypeOK, Proposal
<1>. QED  BY <1>3, <1>4, <1>7, <1>8 DEF TallyCountsBallots

(* Steps that leave the ballots and both counters of every proposal alone.   *)
LEMMA TallyUntouched ==
  ASSUME TallyCountsBallots, UNCHANGED ballots,
         \A i \in ProposalId : /\ proposals'[i].yes_votes = proposals[i].yes_votes
                               /\ proposals'[i].no_votes = proposals[i].no_votes
  PROVE  TallyCountsBallots'
BY DEF TallyCountsBallots, BallotsOf

LEMMA BitmapUntouched ==
  ASSUME BitmapIsBallots, UNCHANGED <<ballots, voterIndex, bitmap>>
  PROVE  BitmapIsBallots'
BY DEF BitmapIsBallots, BitAt

LEMMA NextVotingInv == TypeOK /\ VotingInv /\ [Next]_vars => VotingInv'
<1>. SUFFICES ASSUME TypeOK, VotingInv, [Next]_vars PROVE VotingInv'
  OBVIOUS
<1>. USE DEF VotingInv
<1>0. TypeOK'
  BY NextTypeOK
<1>1. ASSUME NEW a \in Address, NEW period \in VotingPeriods,
             Initialize(a, period)
      PROVE  VotingInv'
  <2>1. /\ ballots = {} /\ proposalCount = 0 /\ voterCount = 0
        /\ voterIndex = [b \in Address |-> Unregistered]
    BY <1>1 DEF Initialize, NothingBeforeInitialize
  <2>2. BitmapIsBallots'
    BY <1>1, BitmapUntouched DEF Initialize
  <2>3. IndicesDistinct'
    BY <1>1, <2>1 DEF Initialize, IndicesDistinct, Unregistered
  <2>4. ProposalsAllocated'
    BY <1>1, <2>1 DEF Initialize, ProposalsAllocated
  <2>5. NothingBeforeInitialize'
    BY <1>1, Assumption
       DEF Assumption, Initialize, NothingBeforeInitialize, Initialized
  <2>6. TallyCountsBallots'
    <3>1. \A i \in ProposalId : proposals[i] = NoProposal
      BY <2>1 DEF ProposalsAllocated, ProposalId
    <3>. QED  BY <1>1, <3>1, TallyUntouched DEF Initialize, NoProposal
  <2>. QED  BY <2>2, <2>3, <2>4, <2>5, <2>6
<1>2. ASSUME NEW a \in Address, Propose(a)
      PROVE  VotingInv'
  <2>1. proposalCount + 1 \in ProposalId
    <3>1. /\ MaxProposals \in Nat /\ proposalCount \in 0..MaxProposals
          /\ proposalCount < MaxProposals
      BY <1>2, Assumption DEF Assumption, Propose, TypeOK
    <3>. QED  BY <3>1 DEF ProposalId
  <2>2. /\ \A i \in ProposalId :
             proposals'[i] = IF i = proposalCount + 1
                             THEN NewProposal(ledger + votingPeriod)
                             ELSE proposals[i]
        /\ proposals[proposalCount + 1] = NoProposal
    BY <1>2, <2>1 DEF Propose, TypeOK, ProposalsAllocated
  <2>3. TallyCountsBallots'
    BY <1>2, <2>1, <2>2, TallyUntouched
       DEF Propose, voting, NoProposal, NewProposal
  <2>4. ProposalsAllocated'
    BY <1>2, <2>2 DEF Propose, ProposalsAllocated, voting, TypeOK, Ballot, ProposalId
  <2>5. BitmapIsBallots'
    BY <1>2, BitmapUntouched DEF Propose, voting
  <2>. QED
    BY <1>2, <2>3, <2>4, <2>5
       DEF Propose, voting, config, upgrade, NothingBeforeInitialize,
           Initialized, IndicesDistinct
<1>3. ASSUME NEW a \in Address, NEW id \in ProposalId,
             NEW c \in {"yes", "no"}, Vote(a, id, c)
      PROVE  VotingInv'
  <2>1. NothingBeforeInitialize'
    BY <1>3 DEF Vote, NothingBeforeInitialize, Initialized, config
  <2>2. id <= proposalCount
    <3>1. proposals[id].status = "Active"
      BY <1>3 DEF Vote
    <3>2. proposals[id] # NoProposal
      BY <3>1 DEF NoProposal
    <3>. QED  BY <3>2 DEF ProposalsAllocated, TypeOK, ProposalId
  <2>3. \A i \in ProposalId : i > proposalCount => proposals'[i] = proposals[i]
    <3>1. \A i \in ProposalId : i # id => proposals'[i] = proposals[i]
      BY <1>3 DEF Vote, TypeOK
    <3>2. \A i \in ProposalId : i > proposalCount => i # id
      BY <2>2 DEF TypeOK, ProposalId
    <3>. QED  BY <3>1, <3>2
  <2>4. ProposalsAllocated'
    BY <1>3, <2>2, <2>3 DEF Vote, ProposalsAllocated
  <2>. QED  BY <1>3, <2>1, <2>4, VoteIndices, VoteBitmap, VoteTally
<1>4. ASSUME NEW id \in ProposalId, Finalize(id) \/ Execute(id)
      PROVE  VotingInv'
  <2>1. id <= proposalCount
    BY <1>4 DEF Finalize, Finalizable, Execute, ProposalsAllocated, NoProposal,
                TypeOK, ProposalId
  <2>2. \A i \in ProposalId :
          /\ proposals'[i].yes_votes = proposals[i].yes_votes
          /\ proposals'[i].no_votes = proposals[i].no_votes
          /\ i # id => proposals'[i] = proposals[i]
    BY <1>4 DEF Finalize, Execute, TypeOK, Proposal
  <2>3. UNCHANGED <<ledger, config, proposalCount, voting, upgrade>>
    BY <1>4 DEF Finalize, Execute
  <2>4. TallyCountsBallots' /\ BitmapIsBallots'
    BY <2>2, <2>3, TallyUntouched, BitmapUntouched DEF voting
  <2>5. ProposalsAllocated'
    BY <2>1, <2>2, <2>3 DEF ProposalsAllocated, voting, TypeOK, ProposalId
  <2>. QED
    BY <2>3, <2>4, <2>5
       DEF voting, config, upgrade, NothingBeforeInitialize, Initialized,
           IndicesDistinct
<1>5. ASSUME UNCHANGED <<proposals, proposalCount, voting>>,
             Initialized => Initialized',
             ~Initialized => UNCHANGED pendingUpgrade
      PROVE  VotingInv'
  <2>1. TallyCountsBallots' /\ BitmapIsBallots'
    BY <1>5, TallyUntouched, BitmapUntouched DEF voting
  <2>. QED
    BY <1>5, <2>1
       DEF voting, NothingBeforeInitialize, IndicesDistinct, ProposalsAllocated
<1>6. CASE \/ CloseLedger
           \/ \E v \in Version : Migrate(v)
           \/ \E a \in Address, bps \in Bps : SetQuorumBps(a, bps)
           \/ \E a \in Address, bps \in Bps : SetThresholdBps(a, bps)
           \/ \E a \in Address, n \in Timelocks : SetExecutionTimelock(a, n)
           \/ \E a \in Address, h \in Hash : ProposeUpgrade(a, h)
           \/ \E a \in Address : CancelUpgrade(a) \/ ExecuteUpgrade(a)
           \/ UNCHANGED vars
  BY <1>5, <1>6
     DEF vars, CloseLedger, Migrate, SetQuorumBps, SetThresholdBps,
         SetExecutionTimelock, ProposeUpgrade, CancelUpgrade, ExecuteUpgrade,
         Initialized, config, upgrade
<1>. QED  BY <1>1, <1>2, <1>3, <1>4, <1>6 DEF Next

LEMMA VotingInvariance == Spec => [](TypeOK /\ VotingInv)
BY InitTypeOK, NextTypeOK, InitVotingInv, NextVotingInv, PTL DEF Spec

(* No two voters share an index of the bitmap.                               *)
THEOREM VotersKeepTheirBits == Spec => []IndicesDistinct
BY VotingInvariance, PTL DEF VotingInv

(* One ballot per voter and proposal, and tallies that count the ballots.    *)
THEOREM TalliesAreExact == Spec => []TallyCountsBallots
BY VotingInvariance, PTL DEF VotingInv

(* A set bit is the bit of a ballot, and no other ballot has it: distinct    *)
(* voters and proposals have distinct keys.                                  *)
LEMMA BitsAreBallots ==
  ASSUME TypeOK, VotingInv
  PROVE  BitmapRecordsVoters
<1>. SUFFICES ASSUME NEW a \in Address, NEW id \in ProposalId
              PROVE  (\E x \in ballots : x.id = id /\ x.voter = a)
                       <=> HasVoted(a, id)
  BY DEF BitmapRecordsVoters
<1>. USE DEF VotingInv, BitmapIsBallots
<1>1. ASSUME voterIndex[a] # Unregistered,
             NEW x \in ballots,
             BitAt(id, voterIndex[a]) = BitAt(x.id, voterIndex[x.voter])
      PROVE  x.id = id /\ x.voter = a
  <2>1. x.voter \in Address
    BY DEF TypeOK, Ballot
  <2>2. voterIndex[a] \in Nat /\ voterIndex[x.voter] \in Nat
    BY <1>1, <2>1 DEF TypeOK
  <2>3. x.id = id /\ voterIndex[a] = voterIndex[x.voter]
    BY <1>1, <2>2, BitAtInjective
  <2>. QED  BY <1>1, <2>1, <2>3 DEF IndicesDistinct
<1>. QED  BY <1>1 DEF HasVoted

(* A bit is set exactly for those who voted.                                 *)
THEOREM BitmapIsExact == Spec => []BitmapRecordsVoters
BY BitsAreBallots, VotingInvariance, PTL

------------------------------------------------------------------------------
(* Outcomes and the execution timelock.                                      *)

(* What a step does to one proposal: it is replaced by initialize, which     *)
(* clears it, or by propose, which finds it absent; it gains a vote while    *)
(* Active; it is finalised from Active; it is executed from Passed; or it    *)
(* stays as it is.                                                           *)
Counted(p, q) ==
  /\ p.status = "Active" /\ q.status = "Active"
  /\ q.end_ledger = p.end_ledger
Decided(p, q) ==
  /\ p.status = "Active" /\ ledger > p.end_ledger
  /\ q = [p EXCEPT !.status = q.status, !.execute_after = q.execute_after]
  /\ \/ Total(p) = 0 /\ q.status = "Expired"
     \/ /\ Total(p) > 0 /\ Carries(p) /\ q.status = "Passed"
        /\ q.execute_after = ledger + executeTimelock
     \/ Total(p) > 0 /\ q.status = "Rejected"
Enacted(p, q) ==
  /\ p.status = "Passed" /\ ledger >= p.execute_after
  /\ q = [p EXCEPT !.status = "Executed"]

LEMMA StepOfProposal ==
  ASSUME TypeOK, VotingInv, [Next]_vars, NEW id \in ProposalId
  PROVE  LET p == proposals[id]  q == proposals'[id] IN
         \/ q = p
         \/ p = NoProposal /\ q.status = "Active"
         \/ Counted(p, q)
         \/ Decided(p, q)
         \/ Enacted(p, q)
<1>. DEFINE p == proposals[id]
            q == proposals'[id]
<1>. USE DEF VotingInv
<1>1. ASSUME NEW a \in Address, NEW period \in VotingPeriods,
             Initialize(a, period)
      PROVE  q = p
  <2>1. proposals[id] = NoProposal
    BY <1>1 DEF Initialize, NothingBeforeInitialize, ProposalsAllocated, ProposalId
  <2>. QED  BY <1>1, <2>1 DEF Initialize
<1>2. ASSUME NEW a \in Address, Propose(a)
      PROVE  q = p \/ (p = NoProposal /\ q.status = "Active")
  <2>1. CASE id = proposalCount + 1
    <3>1. p = NoProposal
      BY <2>1 DEF ProposalsAllocated, TypeOK
    <3>2. q = NewProposal(ledger + votingPeriod)
      BY <1>2, <2>1 DEF Propose, TypeOK
    <3>. QED  BY <3>1, <3>2 DEF NewProposal
  <2>2. CASE id # proposalCount + 1
    BY <1>2, <2>2 DEF Propose, TypeOK
  <2>. QED  BY <2>1, <2>2
<1>3. ASSUME NEW a \in Address, NEW i \in ProposalId,
             NEW c \in {"yes", "no"}, Vote(a, i, c)
      PROVE  q = p \/ Counted(p, q)
  <2>1. CASE i = id
    BY <1>3, <2>1 DEF Vote, TypeOK, Proposal, Counted
  <2>2. CASE i # id
    BY <1>3, <2>2 DEF Vote, TypeOK
  <2>. QED  BY <2>1, <2>2
<1>4. ASSUME NEW i \in ProposalId, Finalize(i)
      PROVE  q = p \/ Decided(p, q)
  <2>1. CASE i = id
    <3>0. p \in Proposal /\ p.status = "Active" /\ ledger > p.end_ledger
      BY <1>4, <2>1 DEF Finalize, Finalizable, TypeOK
    <3>1. CASE Total(p) = 0 /\ q = [p EXCEPT !.status = "Expired"]
      BY <3>0, <3>1 DEF Decided, Proposal
    <3>2. CASE /\ Total(p) > 0 /\ Carries(p)
               /\ q = [p EXCEPT !.status = "Passed",
                               !.execute_after = ledger + executeTimelock]
      BY <3>0, <3>2 DEF Decided, Proposal
    <3>3. CASE Total(p) > 0 /\ q = [p EXCEPT !.status = "Rejected"]
      BY <3>0, <3>3 DEF Decided, Proposal
    <3>. QED
      BY <1>4, <2>1, <3>1, <3>2, <3>3 DEF Finalize, TypeOK
  <2>2. CASE i # id
    BY <1>4, <2>2 DEF Finalize, TypeOK
  <2>. QED  BY <2>1, <2>2
<1>5. ASSUME NEW i \in ProposalId, Execute(i)
      PROVE  q = p \/ Enacted(p, q)
  BY <1>5 DEF Execute, TypeOK, Proposal, Enacted
<1>6. CASE UNCHANGED proposals
  BY <1>6
<1>. QED
  BY <1>1, <1>2, <1>3, <1>4, <1>5, <1>6
     DEF Next, vars, CloseLedger, Migrate, SetQuorumBps, SetThresholdBps,
         SetExecutionTimelock, ProposeUpgrade, CancelUpgrade, ExecuteUpgrade

(* Only CloseLedger touches the ledger.                                      *)
LEMMA LedgerGrows == TypeOK /\ [Next]_vars => ledger' >= ledger /\ ledger \in Nat
<1>. SUFFICES ASSUME TypeOK, [Next]_vars
              PROVE  ledger' >= ledger /\ ledger \in Nat
  OBVIOUS
<1>1. ledger \in Nat
  BY Assumption DEF Assumption, TypeOK
<1>2. CASE CloseLedger
  BY <1>1, <1>2 DEF CloseLedger
<1>3. CASE UNCHANGED ledger
  BY <1>1, <1>3
<1>. QED
  BY <1>1, <1>2, <1>3
     DEF vars, Next, Initialize, Migrate, SetQuorumBps, SetThresholdBps,
         SetExecutionTimelock, Propose, Vote, Finalize, Execute, ProposeUpgrade,
         CancelUpgrade, ExecuteUpgrade

(* A proposal passes with at least one yes vote, whatever set_quorum_bps and *)
(* set_threshold_bps were given, and expires exactly without votes.          *)
THEOREM OutcomesMatch == Spec => []OutcomeMatchesTally
<1>1. Init => OutcomeMatchesTally
  BY DEF Init, OutcomeMatchesTally, NoProposal
<1>2. TypeOK /\ VotingInv /\ OutcomeMatchesTally /\ [Next]_vars
        => OutcomeMatchesTally'
  <2>. SUFFICES ASSUME TypeOK, VotingInv, OutcomeMatchesTally, [Next]_vars,
                       NEW id \in ProposalId
                PROVE  LET q == proposals'[id] IN
                       /\ q.status \in {"Passed", "Executed"} => q.yes_votes > 0
                       /\ q.status = "Rejected" => Total(q) > 0
                       /\ q.status = "Expired" => Total(q) = 0
    BY DEF OutcomeMatchesTally, Total
  <2>. DEFINE p == proposals[id]
              q == proposals'[id]
  <2>0. p \in Proposal
    BY DEF TypeOK
  <2>1. /\ p.status \in {"Passed", "Executed"} => p.yes_votes > 0
        /\ p.status = "Rejected" => Total(p) > 0
        /\ p.status = "Expired" => Total(p) = 0
    BY DEF OutcomeMatchesTally
  <2>2. CASE Decided(p, q)
    <3>1. q.yes_votes = p.yes_votes /\ Total(q) = Total(p)
      BY <2>0, <2>2 DEF Decided, Proposal, Total
    <3>2. Total(p) > 0 /\ Carries(p) => p.yes_votes > 0
      BY <2>0, CarriesNeedsYes
    <3>. QED  BY <2>2, <3>1, <3>2 DEF Decided
  <2>3. CASE Enacted(p, q)
    BY <2>0, <2>1, <2>3 DEF Enacted, Proposal
  <2>4. CASE q = p \/ q.status = "Active"
    BY <2>1, <2>4
  <2>. QED  BY <2>2, <2>3, <2>4, StepOfProposal DEF Counted
<1>. QED  BY <1>1, <1>2, VotingInvariance, PTL DEF Spec

(* Between the end of the voting period and the execution lie at least the   *)
(* ledger of finalize and a timelock of one ledger.                          *)
THEOREM ExecutionsWait == Spec => []ExecutionIsDelayed
<1>1. Init => ExecutionIsDelayed
  BY DEF Init, ExecutionIsDelayed, NoProposal
<1>2. TypeOK /\ VotingInv /\ ExecutionIsDelayed /\ [Next]_vars
        => ExecutionIsDelayed'
  <2>. SUFFICES ASSUME TypeOK, VotingInv, ExecutionIsDelayed, [Next]_vars,
                       NEW id \in ProposalId
                PROVE  LET q == proposals'[id] IN
                       /\ q.status \in {"Passed", "Executed"} =>
                            q.execute_after >= q.end_ledger + 2
                       /\ q.status = "Executed" => ledger' >= q.execute_after
    BY DEF ExecutionIsDelayed
  <2>. DEFINE p == proposals[id]
              q == proposals'[id]
  <2>0. /\ p \in Proposal /\ p.execute_after \in Nat /\ p.end_ledger \in Nat
        /\ executeTimelock \in Nat \ {0}
    BY DEF TypeOK, Proposal
  <2>1. /\ p.status \in {"Passed", "Executed"} =>
             p.execute_after >= p.end_ledger + 2
        /\ p.status = "Executed" => ledger >= p.execute_after
    BY DEF ExecutionIsDelayed
  <2>2. ledger \in Nat /\ ledger' \in Nat /\ ledger' >= ledger
    BY LedgerGrows, NextTypeOK, Assumption DEF Assumption, TypeOK
  <2>3. CASE Decided(p, q)
    <3>1. q.end_ledger = p.end_ledger
      BY <2>0, <2>3 DEF Decided, Proposal
    <3>. QED  BY <2>0, <2>2, <2>3, <3>1 DEF Decided
  <2>4. CASE Enacted(p, q)
    <3>1. q.end_ledger = p.end_ledger /\ q.execute_after = p.execute_after
      BY <2>0, <2>4 DEF Enacted, Proposal
    <3>. QED  BY <2>0, <2>1, <2>2, <2>4, <3>1 DEF Enacted
  <2>5. CASE q = p
    BY <2>0, <2>1, <2>2, <2>5
  <2>6. CASE q.status = "Active"
    BY <2>6
  <2>. QED  BY <2>3, <2>4, <2>5, <2>6, StepOfProposal DEF Counted
<1>. QED  BY <1>1, <1>2, VotingInvariance, PTL DEF Spec

(* No call, initialize and migrate included, reopens a decided proposal.     *)
THEOREM DecisionsAreFinal == Spec => DecidedIsFrozen
<1>. DEFINE Frozen ==
       \A id \in ProposalId : LET p == proposals[id] q == proposals'[id] IN
         p.status \notin {"absent", "Active"} =>
           /\ [q EXCEPT !.status = p.status] = p
           /\ q.status = p.status
                \/ (p.status = "Passed" /\ q.status = "Executed")
<1>1. TypeOK /\ VotingInv /\ [Next]_vars => [Frozen]_vars
  <2>. SUFFICES ASSUME TypeOK, VotingInv, [Next]_vars, NEW id \in ProposalId,
                       proposals[id].status \notin {"absent", "Active"}
                PROVE  LET p == proposals[id] q == proposals'[id] IN
                       /\ [q EXCEPT !.status = p.status] = p
                       /\ q.status = p.status
                            \/ (p.status = "Passed" /\ q.status = "Executed")
    OBVIOUS
  <2>. DEFINE p == proposals[id]
              q == proposals'[id]
  <2>0. p \in Proposal
    BY DEF TypeOK
  <2>1. CASE q = p
    BY <2>0, <2>1 DEF Proposal
  <2>2. CASE Enacted(p, q)
    BY <2>0, <2>2 DEF Enacted, Proposal
  <2>3. p # NoProposal /\ ~Counted(p, q) /\ ~Decided(p, q)
    BY DEF NoProposal, Counted, Decided
  <2>4. q = p \/ Enacted(p, q)
    BY <2>3, StepOfProposal
  <2>. QED  BY <2>1, <2>2, <2>4
<1>. QED  BY <1>1, VotingInvariance, PTL DEF Spec, DecidedIsFrozen

------------------------------------------------------------------------------
(* Upgrades.                                                                 *)

(* The contract is upgraded only to the hash announced last, a full timelock *)
(* after its announcement.                                                   *)
THEOREM UpgradesAreAnnounced == Spec => UpgradeIsAnnounced
<1>. DEFINE Announced ==
       \A h \in upgradedTo' \ upgradedTo :
         /\ announced[h] # Never
         /\ ledger >= announced[h] + UpgradeTimelockLedgers
         /\ \A g \in Hash : announced[g] <= announced[h]
<1>1. Init => PendingIsLastAnnounced
  BY DEF Init, PendingIsLastAnnounced, Never
<1>2. TypeOK /\ PendingIsLastAnnounced /\ [Next]_vars => PendingIsLastAnnounced'
  <2>. SUFFICES ASSUME TypeOK, PendingIsLastAnnounced, [Next]_vars
                PROVE  PendingIsLastAnnounced'
    OBVIOUS
  <2>1. ledger \in Nat /\ ledger' \in Nat /\ ledger' >= ledger
    BY LedgerGrows, NextTypeOK, Assumption DEF Assumption, TypeOK
  <2>2. ASSUME NEW a \in Address, NEW h \in Hash, ProposeUpgrade(a, h)
        PROVE  PendingIsLastAnnounced'
    BY <2>1, <2>2
       DEF ProposeUpgrade, PendingIsLastAnnounced, TypeOK, Never
  <2>3. ASSUME UNCHANGED announced, pendingUpgrade' \in {pendingUpgrade, NoUpgrade}
        PROVE  PendingIsLastAnnounced'
    BY <2>1, <2>3 DEF PendingIsLastAnnounced, TypeOK, Never
  <2>. QED
    BY <2>2, <2>3
       DEF Next, vars, upgrade, CloseLedger, Initialize, Migrate, SetQuorumBps,
           SetThresholdBps, SetExecutionTimelock, Propose, Vote, Finalize,
           Execute, CancelUpgrade, ExecuteUpgrade
<1>3. TypeOK /\ PendingIsLastAnnounced /\ [Next]_vars => [Announced]_vars
  <2>. SUFFICES ASSUME TypeOK, PendingIsLastAnnounced, [Next]_vars
                PROVE  Announced
    OBVIOUS
  <2>1. ASSUME NEW a \in Address, ExecuteUpgrade(a)
        PROVE  Announced
    BY <2>1 DEF ExecuteUpgrade, UpgradeUnlocked, PendingIsLastAnnounced, TypeOK
  <2>2. CASE UNCHANGED upgradedTo
    BY <2>2
  <2>. QED
    BY <2>1, <2>2
       DEF Next, vars, upgrade, CloseLedger, Initialize, Migrate, SetQuorumBps,
           SetThresholdBps, SetExecutionTimelock, Propose, Vote, Finalize,
           Execute, ProposeUpgrade, CancelUpgrade
<1>. QED
  BY <1>1, <1>2, <1>3, TypeCorrect, PTL DEF Spec, UpgradeIsAnnounced

------------------------------------------------------------------------------
(* The arithmetic of finalize.                                               *)

(* The voters of a proposal's ballots have distinct indices below VoterCount.*)
LEMMA BallotsWithinVoters ==
  ASSUME TypeOK, VotingInv, NEW id \in ProposalId
  PROVE  Total(proposals[id]) <= voterCount
<1>. USE DEF VotingInv
<1>. DEFINE yes == BallotsOf(id, "yes")
            no == BallotsOf(id, "no")
            idx == [x \in yes \cup no |-> voterIndex[x.voter]]
<1>0. /\ voterCount \in Nat /\ IsFiniteSet(ballots)
      /\ \A x \in ballots : x.voter \in Address
      /\ \A a \in Address : voterIndex[a] \in Nat \cup {Unregistered}
  BY DEF TypeOK, BitmapIsBallots, Ballot
<1>1. IsFiniteSet(yes) /\ IsFiniteSet(no) /\ yes \cap no = {}
  BY <1>0, FS_Subset DEF BallotsOf
<1>2. /\ IsFiniteSet(yes \cup no)
      /\ Cardinality(yes \cup no) = Cardinality(yes) + Cardinality(no)
  <2>1. /\ IsFiniteSet(yes \cup no)
        /\ Cardinality(yes \cup no)
             = Cardinality(yes) + Cardinality(no) - Cardinality(yes \cap no)
    BY <1>1, FS_Union
  <2>2. Cardinality(yes \cap no) = 0
    BY <1>1, FS_EmptySet
  <2>3. Cardinality(yes) \in Nat /\ Cardinality(no) \in Nat
    BY <1>1, FS_CardinalityType
  <2>. QED  BY <2>1, <2>2, <2>3
<1>3. idx \in Injection(yes \cup no, 0..(voterCount - 1))
  <2>1. \A x \in yes \cup no :
          /\ x \in ballots /\ x.id = id
          /\ voterIndex[x.voter] \in 0..(voterCount - 1)
    BY <1>0 DEF BallotsOf, BitmapIsBallots, IndicesDistinct
  <2>2. \A x, y \in yes \cup no :
          voterIndex[x.voter] = voterIndex[y.voter] => x = y
    BY <1>0, <2>1 DEF BitmapIsBallots, IndicesDistinct, TallyCountsBallots
  <2>. QED  BY <2>1, <2>2 DEF Injection, IsInjective
<1>4. IsFiniteSet(0..(voterCount - 1)) /\ Cardinality(0..(voterCount - 1)) = voterCount
  <2>1. 0 \in Int /\ voterCount - 1 \in Int
    BY <1>0
  <2>2. /\ IsFiniteSet(0..(voterCount - 1))
        /\ Cardinality(0..(voterCount - 1)) =
             IF 0 > voterCount - 1 THEN 0 ELSE (voterCount - 1) - 0 + 1
    BY <2>1, FS_Interval, Zenon
  <2>. QED  BY <1>0, <2>2
<1>5. Cardinality(yes \cup no) <= voterCount
  BY <1>2, <1>3, <1>4, FS_Injection
<1>. QED  BY <1>2, <1>5 DEF TallyCountsBallots, Total

LEMMA ProductsGrow ==
  ASSUME NEW a \in Nat, NEW b \in Nat, NEW k \in Nat, a <= b
  PROVE  a * k <= b * k /\ a * k \in Nat
<1>1. (b - a) * k \in Nat
  BY b - a \in Nat
<1>2. (b - a) * k = b * k - a * k
  OBVIOUS
<1>. QED  BY <1>1, <1>2

(* While 10_000 times the voters fits, no sum or product of finalize leaves  *)
(* u32: the counters it multiplies never exceed the number of voters.        *)
THEOREM FinalizeNeverOverflows == Spec => []FinalizeFitsVoters
<1>1. TypeOK /\ VotingInv => FinalizeFitsVoters
  <2>. SUFFICES ASSUME TypeOK, VotingInv, voterCount * Scale <= MaxU32,
                       NEW id \in ProposalId
                PROVE  FinalizeFits(proposals[id])
    BY DEF FinalizeFitsVoters
  <2>. DEFINE p == proposals[id]
  <2>1. /\ p.yes_votes \in Nat /\ p.no_votes \in Nat /\ voterCount \in Nat
        /\ Scale \in Nat \ {0} /\ MaxU32 \in Nat
    BY Assumption DEF Assumption, TypeOK, Proposal
  <2>2. Total(p) \in Nat /\ p.yes_votes <= Total(p) /\ Total(p) <= voterCount
    BY <2>1, BallotsWithinVoters DEF Total
  <2>3. Total(p) * Scale <= voterCount * Scale /\ Total(p) * Scale \in Nat
    BY <2>1, <2>2, ProductsGrow
  <2>4. p.yes_votes * Scale <= Total(p) * Scale /\ p.yes_votes * Scale \in Nat
    BY <2>1, <2>2, ProductsGrow
  <2>5. Total(p) <= Total(p) * Scale
    <3>1. Total(p) * 1 <= Total(p) * Scale
      BY <2>1, <2>2, ProductsGrow, Total(p) * 1 = 1 * Total(p),
         Total(p) * Scale = Scale * Total(p)
    <3>. QED  BY <2>2, <3>1
  <2>6. voterCount * Scale \in Nat
    BY <2>1, ProductsGrow
  <2>. QED  BY <2>1, <2>2, <2>3, <2>4, <2>5, <2>6 DEF FinalizeFits
<1>. QED  BY <1>1, VotingInvariance, PTL
------------------------------------------------------------------------------
(* The ballot box.                                                           *)

(* A vote puts one voter into the box of its proposal, who was not in it,    *)
(* and leaves the voters of the other boxes as they were.                    *)
LEMMA VoteFillsBox ==
  ASSUME TypeOK, VotingInv, NEW a \in Address, NEW id \in ProposalId,
         NEW c \in {"yes", "no"}, Vote(a, id, c)
  PROVE  /\ ~HasVoted(a, id)
         /\ \A b \in Address, i \in ProposalId :
              HasVoted(b, i)' <=> HasVoted(b, i) \/ (b = a /\ i = id)
<1>1. TypeOK' /\ VotingInv'
  BY NextTypeOK, NextVotingInv DEF Next
<1>2. BitmapRecordsVoters /\ BitmapRecordsVoters'
  <2>1. BitmapRecordsVoters
    BY BitsAreBallots
  <2>2. (TypeOK /\ VotingInv => BitmapRecordsVoters)'
    BY BitsAreBallots, PTL
  <2>. QED  BY <1>1, <2>1, <2>2
<1>3. ballots' = ballots \cup {[id |-> id, voter |-> a, approve |-> c]}
  BY DEF Vote
<1>4. ~HasVoted(a, id)
  BY DEF Vote, HasVoted, IndexOf
<1>5. \A b \in Address, i \in ProposalId :
        HasVoted(b, i)' <=> HasVoted(b, i) \/ (b = a /\ i = id)
  <2>. TAKE b \in Address, i \in ProposalId
  <2>1. (\E x \in ballots' : x.id = i /\ x.voter = b)
          <=> (\E x \in ballots : x.id = i /\ x.voter = b) \/ (b = a /\ i = id)
    <3>. DEFINE cast == [id |-> id, voter |-> a, approve |-> c]
    <3>1. cast.id = id /\ cast.voter = a /\ ballots' = ballots \cup {cast}
      BY <1>3
    <3>. HIDE DEF cast
    <3>. QED  BY <3>1
  <2>2. (\E x \in ballots : x.id = i /\ x.voter = b) <=> HasVoted(b, i)
    BY <1>2 DEF BitmapRecordsVoters
  <2>3. (\E x \in ballots' : x.id = i /\ x.voter = b) <=> HasVoted(b, i)'
    BY <1>2 DEF BitmapRecordsVoters, HasVoted, BitAt
  <2>. QED  BY <2>1, <2>2, <2>3
<1>. QED  BY <1>4, <1>5

(* Steps that leave the bits alone leave the voters of every box alone.      *)
LEMMA BoxesUntouched ==
  ASSUME UNCHANGED <<voterIndex, bitmap>>
  PROVE  \A b \in Address, i \in ProposalId : HasVoted(b, i)' <=> HasVoted(b, i)
BY DEF HasVoted, BitAt

(* Nobody voted on a proposal exactly when its tally is zero.                *)
LEMMA EmptyBoxes ==
  ASSUME TypeOK, VotingInv, NEW id \in ProposalId
  PROVE  {a \in Address : HasVoted(a, id)} = {} <=> Total(proposals[id]) = 0
<1>. DEFINE yes == BallotsOf(id, "yes")
            no == BallotsOf(id, "no")
<1>1. /\ IsFiniteSet(yes) /\ IsFiniteSet(no)
      /\ Cardinality(yes) = proposals[id].yes_votes
      /\ Cardinality(no) = proposals[id].no_votes
  BY FS_Subset DEF VotingInv, BitmapIsBallots, TallyCountsBallots, BallotsOf
<1>2. Total(proposals[id]) = 0 <=> yes = {} /\ no = {}
  <2>1. /\ proposals[id].yes_votes \in Nat
        /\ proposals[id].no_votes \in Nat
    BY DEF TypeOK, Proposal
  <2>. HIDE DEF yes, no
  <2>2. (Cardinality(yes) = 0 <=> yes = {}) /\ (Cardinality(no) = 0 <=> no = {})
    BY <1>1, FS_EmptySet
  <2>. QED  BY <1>1, <2>1, <2>2 DEF Total
<1>3. yes = {} /\ no = {} <=> \A x \in ballots : x.id # id
  BY DEF BallotsOf, TypeOK, Ballot
<1>4. (\A x \in ballots : x.id # id) <=> \A a \in Address : ~HasVoted(a, id)
  BY BitsAreBallots DEF BitmapRecordsVoters, TypeOK, Ballot
<1>. QED  BY <1>2, <1>3, <1>4

(* Every call is a step of the ballot box, or changes nothing a voter sees.  *)
THEOREM GovernanceImplementsBallotBox == Spec => ImplementsBallotBox
<1>. DEFINE voted == [i \in ProposalId |-> {a \in Address : HasVoted(a, i)}]
            yes == [i \in ProposalId |-> proposals[i].yes_votes]
            no == [i \in ProposalId |-> proposals[i].no_votes]
            outcome == [i \in ProposalId |-> proposals[i].status]
<1>1. Init => Box!Init
  <2>. SUFFICES ASSUME Init PROVE Box!Init
    OBVIOUS
  <2>1. \A a \in Address, i \in ProposalId : ~HasVoted(a, i)
    BY DEF Init, HasVoted
  <2>2. voted = [i \in ProposalId |-> {}]
    BY <2>1
  <2>3. \A i \in ProposalId : proposals[i] = NoProposal
    BY DEF Init
  <2>. QED  BY <2>2, <2>3 DEF Box!Init, NoProposal
<1>2. TypeOK /\ VotingInv /\ [Next]_vars => [Box!Next]_(Box!vars)
  <2>. SUFFICES ASSUME TypeOK, VotingInv, [Next]_vars
                PROVE  Box!Next \/ UNCHANGED Box!vars
    OBVIOUS
  <2>1. ASSUME UNCHANGED <<proposals, voterIndex, bitmap>>
        PROVE  UNCHANGED Box!vars
    BY <2>1, BoxesUntouched DEF Box!vars
  <2>2. ASSUME NEW a \in Address, NEW period \in VotingPeriods,
               Initialize(a, period)
        PROVE  UNCHANGED Box!vars
    <3>1. \A i \in ProposalId : proposals[i] = NoProposal
      BY <2>2 DEF Initialize, VotingInv, NothingBeforeInitialize,
                  ProposalsAllocated, ProposalId
    <3>2. proposals' = proposals
      BY <2>2, <3>1 DEF Initialize, TypeOK
    <3>. QED  BY <2>1, <2>2, <3>2 DEF Initialize
  <2>3. ASSUME NEW a \in Address, Propose(a)
        PROVE  Box!Next
    <3>. DEFINE id == proposalCount + 1
    <3>1. id \in ProposalId /\ proposals[id] = NoProposal
      BY <2>3, Assumption
         DEF Assumption, Propose, TypeOK, ProposalId, VotingInv,
             ProposalsAllocated
    <3>. HIDE DEF id
    <3>2. proposals' = [proposals EXCEPT ![id] = NewProposal(ledger + votingPeriod)]
      BY <2>3 DEF Propose, id
    <3>3. /\ proposals'[id].status = "Active"
          /\ proposals'[id].yes_votes = 0 /\ proposals'[id].no_votes = 0
      BY <3>1, <3>2 DEF NewProposal, TypeOK
    <3>4. outcome' = [outcome EXCEPT ![id] = "Active"]
      BY <3>1, <3>2, <3>3 DEF TypeOK
    <3>5. yes' = yes /\ no' = no
      BY <3>1, <3>2, <3>3 DEF TypeOK, NoProposal
    <3>6. voted' = voted
      BY <2>3, BoxesUntouched DEF Propose, voting
    <3>7. outcome[id] = "absent"
      BY <3>1 DEF NoProposal
    <3>. QED
      BY <3>1, <3>4, <3>5, <3>6, <3>7 DEF Box!Next, Box!Open, Box!Becomes
  <2>4. ASSUME NEW a \in Address, NEW id \in ProposalId,
               NEW c \in {"yes", "no"}, Vote(a, id, c)
        PROVE  Box!Next
    <3>1. /\ proposals' = IF c = "yes"
                          THEN [proposals EXCEPT ![id].yes_votes = @ + 1]
                          ELSE [proposals EXCEPT ![id].no_votes = @ + 1]
          /\ outcome[id] = "Active"
      BY <2>4 DEF Vote
    <3>2. outcome' = outcome
      BY <3>1 DEF TypeOK, Proposal
    <3>3. \/ yes' = [yes EXCEPT ![id] = @ + 1] /\ no' = no
          \/ no' = [no EXCEPT ![id] = @ + 1] /\ yes' = yes
      BY <3>1 DEF TypeOK, Proposal
    <3>4. a \notin voted[id]
      BY <2>4, VoteFillsBox
    <3>5. voted' = [voted EXCEPT ![id] = @ \cup {a}]
      <4>1. \A i \in ProposalId :
              {b \in Address : HasVoted(b, i)'} =
                IF i = id THEN {b \in Address : HasVoted(b, i)} \cup {a}
                          ELSE {b \in Address : HasVoted(b, i)}
        BY <2>4, VoteFillsBox
      <4>. QED  BY <4>1
    <3>. QED
      BY <3>1, <3>2, <3>3, <3>4, <3>5 DEF Box!Next, Box!Cast
  <2>5. ASSUME NEW id \in ProposalId, Finalize(id)
        PROVE  Box!Next
    <3>. DEFINE p == proposals[id]
    <3>1. p \in Proposal /\ outcome[id] = "Active"
      BY <2>5 DEF Finalize, Finalizable, TypeOK
    <3>2. PICK verdict \in {"Passed", "Rejected", "Expired"} :
            /\ outcome' = [outcome EXCEPT ![id] = verdict]
            /\ verdict = "Expired" => Total(p) = 0
            /\ verdict = "Passed" => Total(p) > 0 /\ Carries(p)
            /\ verdict = "Rejected" => Total(p) > 0
      <4>1. \A i \in ProposalId : proposals[i] \in Proposal
        BY DEF TypeOK
      <4>2. ASSUME Total(p) = 0,
                   proposals' = [proposals EXCEPT ![id].status = "Expired"]
            PROVE  outcome' = [outcome EXCEPT ![id] = "Expired"]
        BY <4>1, <4>2 DEF TypeOK, Proposal
      <4>3. ASSUME Total(p) > 0, Carries(p),
                   proposals' = [proposals EXCEPT
                      ![id].status = "Passed",
                      ![id].execute_after = ledger + executeTimelock]
            PROVE  outcome' = [outcome EXCEPT ![id] = "Passed"]
        BY <4>1, <4>3 DEF TypeOK, Proposal
      <4>4. ASSUME Total(p) > 0,
                   proposals' = [proposals EXCEPT ![id].status = "Rejected"]
            PROVE  outcome' = [outcome EXCEPT ![id] = "Rejected"]
        BY <4>1, <4>4 DEF TypeOK, Proposal
      <4>. HIDE DEF outcome
      <4>. QED  BY <2>5, <4>2, <4>3, <4>4 DEF Finalize
    <3>3. yes' = yes /\ no' = no
      BY <2>5 DEF Finalize, TypeOK, Proposal
    <3>4. voted' = voted
      BY <2>5, BoxesUntouched DEF Finalize, voting
    <3>5. voted[id] = {} <=> Total(p) = 0
      BY EmptyBoxes
    <3>6. verdict = "Passed" => yes[id] > 0
      BY <3>1, <3>2, CarriesNeedsYes
    <3>7. Box!Allows(id, verdict)
      BY <3>2, <3>5, <3>6 DEF Box!Allows
    <3>. QED
      BY <3>1, <3>2, <3>3, <3>4, <3>7 DEF Box!Next, Box!Decide, Box!Becomes
  <2>6. ASSUME NEW id \in ProposalId, Execute(id)
        PROVE  Box!Next
    <3>1. outcome[id] = "Passed" /\ outcome' = [outcome EXCEPT ![id] = "Executed"]
      BY <2>6 DEF Execute, TypeOK, Proposal
    <3>2. yes' = yes /\ no' = no
      BY <2>6 DEF Execute, TypeOK, Proposal
    <3>3. voted' = voted
      BY <2>6, BoxesUntouched DEF Execute, voting
    <3>. QED
      BY <3>1, <3>2, <3>3 DEF Box!Next, Box!Carry, Box!Becomes
  <2>. QED
    BY <2>1, <2>2, <2>3, <2>4, <2>5, <2>6
       DEF Next, vars, voting, CloseLedger, Migrate, SetQuorumBps,
           SetThresholdBps, SetExecutionTimelock, ProposeUpgrade, CancelUpgrade,
           ExecuteUpgrade
<1>. QED
  BY <1>1, <1>2, VotingInvariance, PTL DEF Spec, ImplementsBallotBox, Box!Spec
==============================================================================
