------------------------- MODULE CommunityGovernance -------------------------
(***************************************************************************)
(* The community_governance contract                                       *)
(* (apps/contracts/community_governance/src/lib.rs): proposals, votes      *)
(* recorded in a bitmap over voter indices, finalisation, execution behind *)
(* a timelock, and contract upgrades behind another.                       *)
(*                                                                         *)
(* A call is one transaction and a panic rolls it back, so an action is a  *)
(* call that succeeds; VoteLock, which vote() sets and clears within one   *)
(* transaction that calls nothing else, is never seen set and has no       *)
(* state.  u32 arithmetic panics on overflow, which is a guard here.       *)
(***************************************************************************)
EXTENDS Integers, FiniteSets

CONSTANTS Address,
          NoAddress,            \* Admin key not written yet
          Hash,                 \* wasm hashes an upgrade may name
          NoUpgrade,            \* PendingUpgrade key absent
          Version,              \* version strings, the compiled-in one first
          InitialVersion,
          MaxProposals,         \* bound on ProposalCount
          VotingPeriods,        \* periods initialize() may be given
          Bps,                  \* basis points set_*_bps() may be given
          Timelocks,            \* arguments of set_execution_timelock()
          DefaultQuorumBps,
          DefaultThresholdBps,
          ExecuteTimelockLedgers,
          UpgradeTimelockLedgers,
          Scale,                \* 10_000 basis points
          WordBits,             \* 128 bits in a bitmap word
          MaxU32,
          MaxLedger             \* bound on the ledger sequence

ASSUME Assumption ==
  /\ NoAddress \notin Address
  /\ IsFiniteSet(Address)
  /\ InitialVersion \in Version
  /\ MaxProposals \in Nat
  /\ VotingPeriods \subseteq Nat
  /\ Scale \in Nat \ {0}
  /\ Bps \subseteq 1..Scale
  /\ {DefaultQuorumBps, DefaultThresholdBps} \subseteq 1..Scale
  /\ Timelocks \subseteq Nat \ {0}
  /\ {ExecuteTimelockLedgers, UpgradeTimelockLedgers} \subseteq Nat \ {0}
  /\ WordBits \in Nat \ {0}
  /\ MaxU32 \in Nat
  /\ MaxLedger \in Nat
  /\ NoUpgrade \notin [new_wasm_hash: Hash, unlock_ledger: Nat]

ProposalId == 1..MaxProposals
Status == {"Active", "Passed", "Rejected", "Expired", "Executed"}
Proposal == [yes_votes: Nat, no_votes: Nat, end_ledger: Nat,
             status: Status \cup {"absent"}, execute_after: Nat]
NoProposal == [yes_votes |-> 0, no_votes |-> 0, end_ledger |-> 0,
               status |-> "absent", execute_after |-> 0]
NewProposal(end) == [yes_votes |-> 0, no_votes |-> 0, end_ledger |-> end,
                     status |-> "Active", execute_after |-> 0]
UpgradeProposal == [new_wasm_hash: Hash, unlock_ledger: Nat]
Unregistered == -1
Never == -1

VARIABLES ledger,           \* env.ledger().sequence()
          admin,
          quorumBps,
          thresholdBps,
          votingPeriod,
          executeTimelock,
          version,
          proposals,
          proposalCount,
          voterIndex,       \* DataKey::VoterIndex(address)
          voterCount,
          bitmap,           \* the set bits, as <<proposal, word, bit>>
          pendingUpgrade,
          upgradedTo,       \* wasm hashes the contract was upgraded to
          announced,        \* history: ledger of a hash's last upg_prop event
          ballots           \* history: votes cast, [id, voter, approve]

config == <<admin, quorumBps, thresholdBps, votingPeriod, executeTimelock,
            version>>
voting == <<voterIndex, voterCount, bitmap, ballots>>
upgrade == <<pendingUpgrade, upgradedTo, announced>>
vars == <<ledger, config, proposals, proposalCount, voting, upgrade>>

Ballot == [id: ProposalId, voter: Address, approve: {"yes", "no"}]

TypeOK ==
  /\ ledger \in 0..MaxLedger
  /\ admin \in Address \cup {NoAddress}
  /\ quorumBps \in 1..Scale
  /\ thresholdBps \in 1..Scale
  /\ votingPeriod \in Nat
  /\ executeTimelock \in Nat \ {0}
  /\ version \in Version
  /\ proposals \in [ProposalId -> Proposal]
  /\ proposalCount \in 0..MaxProposals
  /\ voterIndex \in [Address -> Nat \cup {Unregistered}]
  /\ voterCount \in Nat
  /\ bitmap \in SUBSET (ProposalId \X Nat \X (0..(WordBits - 1)))
  /\ pendingUpgrade \in UpgradeProposal \cup {NoUpgrade}
  /\ upgradedTo \in SUBSET Hash
  /\ announced \in [Hash -> Nat \cup {Never}]
  /\ ballots \in SUBSET Ballot

(* The two basis-point getters and the timelock getter fall back to the    *)
(* compiled-in defaults while their keys are absent.                       *)
Init ==
  /\ ledger = 0
  /\ admin = NoAddress
  /\ quorumBps = DefaultQuorumBps
  /\ thresholdBps = DefaultThresholdBps
  /\ votingPeriod = 0
  /\ executeTimelock = ExecuteTimelockLedgers
  /\ version = InitialVersion
  /\ proposals = [id \in ProposalId |-> NoProposal]
  /\ proposalCount = 0
  /\ voterIndex = [a \in Address |-> Unregistered]
  /\ voterCount = 0
  /\ bitmap = {}
  /\ pendingUpgrade = NoUpgrade
  /\ upgradedTo = {}
  /\ announced = [h \in Hash |-> Never]
  /\ ballots = {}

------------------------------------------------------------------------------
Initialized == admin # NoAddress

CloseLedger ==
  /\ ledger < MaxLedger
  /\ ledger' = ledger + 1
  /\ UNCHANGED <<config, proposals, proposalCount, voting, upgrade>>

(* The `quorum` argument is not used.  Voting and upgrade keys are absent  *)
(* until initialize has run, so there is nothing else to reset.            *)
Initialize(a, period) ==
  /\ ~Initialized
  /\ admin' = a
  /\ quorumBps' = DefaultQuorumBps
  /\ thresholdBps' = DefaultThresholdBps
  /\ votingPeriod' = period
  /\ proposalCount' = 0
  /\ voterCount' = 0
  /\ proposals' = [id \in ProposalId |-> NoProposal]
  /\ version' = InitialVersion
  /\ UNCHANGED <<ledger, executeTimelock, voterIndex, bitmap, ballots,
                 upgrade>>

Migrate(v) ==
  /\ Initialized
  /\ version' = v
  /\ UNCHANGED <<ledger, admin, quorumBps, thresholdBps, votingPeriod,
                 executeTimelock, proposals, proposalCount, voting,
                 upgrade>>

(* set_quorum_bps and set_threshold_bps authenticate the caller they are   *)
(* passed and do not compare it with the stored admin, so any account may  *)
(* be it.                                                                  *)
SetQuorumBps(caller, bps) ==
  /\ quorumBps' = bps
  /\ UNCHANGED <<ledger, admin, thresholdBps, votingPeriod, executeTimelock,
                 version, proposals, proposalCount, voting, upgrade>>

SetThresholdBps(caller, bps) ==
  /\ thresholdBps' = bps
  /\ UNCHANGED <<ledger, admin, quorumBps, votingPeriod, executeTimelock,
                 version, proposals, proposalCount, voting, upgrade>>

SetExecutionTimelock(caller, ledgers) ==
  /\ Initialized
  /\ caller = admin
  /\ executeTimelock' = ledgers
  /\ UNCHANGED <<ledger, admin, quorumBps, thresholdBps, votingPeriod,
                 version, proposals, proposalCount, voting, upgrade>>

Propose(proposer) ==
  /\ Initialized
  /\ proposalCount < MaxProposals
  /\ ledger + votingPeriod <= MaxU32
  /\ proposals' = [proposals EXCEPT ![proposalCount + 1] =
                     NewProposal(ledger + votingPeriod)]
  /\ proposalCount' = proposalCount + 1
  /\ UNCHANGED <<ledger, config, voting, upgrade>>

------------------------------------------------------------------------------
(* The operators named Mutant... are wrong variants of the definition that *)
(* follows them.  No action uses them; each breaks a property below.       *)

(* An index one below the next free one, and an index that is not stored.  *)
MutantIndexBelow(voter) ==
  IF voterIndex[voter] # Unregistered THEN voterIndex[voter]
  ELSE IF voterCount = 0 THEN 0 ELSE voterCount - 1
MutantIndexFresh(voter) == voterCount

(* voter_index: the stored index, or the next free one.                    *)
IndexOf(voter) ==
  IF voterIndex[voter] # Unregistered THEN voterIndex[voter] ELSE voterCount

(* A modulus one too large, whose bits leave the word, and one too small,  *)
(* which gives two voters of a word one bit.                               *)
MutantBitBeyond(id, idx) == <<id, idx \div WordBits, idx % (WordBits + 1)>>
MutantBitModulus(id, idx) == <<id, idx \div WordBits, idx % (WordBits - 1)>>

(* The key and the bit under which bitmap_get and bitmap_set find a vote.  *)
BitAt(id, idx) == <<id, idx \div WordBits, idx % WordBits>>

Vote(voter, id, approve) ==
  /\ Initialized
  /\ BitAt(id, IndexOf(voter)) \notin bitmap
  /\ proposals[id].status = "Active"
  /\ ledger <= proposals[id].end_ledger
  /\ voterIndex' = [voterIndex EXCEPT ![voter] = IndexOf(voter)]
  /\ voterCount' = IF voterIndex[voter] = Unregistered
                   THEN voterCount + 1 ELSE voterCount
  /\ proposals' =
       IF approve = "yes"
       THEN [proposals EXCEPT ![id].yes_votes = @ + 1]
       ELSE [proposals EXCEPT ![id].no_votes = @ + 1]
  /\ bitmap' = bitmap \cup {BitAt(id, IndexOf(voter))}
  /\ ballots' = ballots \cup {[id |-> id, voter |-> voter, approve |-> approve]}
  /\ UNCHANGED <<ledger, config, proposalCount, upgrade>>

Total(p) == p.yes_votes + p.no_votes

(* Shares compared by cross-multiplication, which scales twice.            *)
MutantFinalizeFits(p) == Total(p) * Scale * Scale <= MaxU32

(* The products and sums of finalize stay within u32: beyond it the call   *)
(* panics.  With no votes the first disjunct of the code decides alone.    *)
FinalizeFits(p) ==
  /\ Total(p) <= MaxU32
  /\ Total(p) > 0 =>
    /\ p.yes_votes * Scale <= MaxU32
    /\ (p.yes_votes * Scale) \div Total(p) >= thresholdBps
         => Total(p) * Scale <= MaxU32

(* The quorum comparison alone.                                            *)
MutantCarries(p) == Total(p) * Scale >= quorumBps

(* Both comparisons finalize makes; the second one is on the number of     *)
(* votes cast, not on their share of the voters.                           *)
Carries(p) ==
  /\ (p.yes_votes * Scale) \div Total(p) >= thresholdBps
  /\ Total(p) * Scale >= quorumBps

(* One ledger too early, and whatever became of the proposal before.       *)
MutantFinalizableEarly(p) == p.status = "Active" /\ ledger >= p.end_ledger
MutantFinalizableAgain(p) == p.status # "absent" /\ ledger > p.end_ledger

Finalizable(p) == p.status = "Active" /\ ledger > p.end_ledger

Finalize(id) ==
  LET p == proposals[id] IN
  /\ Initialized
  /\ Finalizable(p)
  /\ FinalizeFits(p)
  /\ \/ /\ Total(p) = 0
        /\ proposals' = [proposals EXCEPT ![id].status = "Expired"]
     \/ /\ Total(p) > 0
        /\ Carries(p)
        /\ ledger + executeTimelock <= MaxU32
        /\ proposals' = [proposals EXCEPT
                           ![id].status = "Passed",
                           ![id].execute_after = ledger + executeTimelock]
     \/ /\ Total(p) > 0
        /\ ~Carries(p)
        /\ proposals' = [proposals EXCEPT ![id].status = "Rejected"]
  /\ UNCHANGED <<ledger, config, proposalCount, voting, upgrade>>

Execute(id) ==
  /\ Initialized
  /\ proposals[id].status = "Passed"
  /\ ledger >= proposals[id].execute_after
  /\ proposals' = [proposals EXCEPT ![id].status = "Executed"]
  /\ UNCHANGED <<ledger, config, proposalCount, voting, upgrade>>

------------------------------------------------------------------------------
(* An announcement that replaces the pending hash and keeps its date.      *)
MutantProposeUpgrade(caller, hash) ==
  /\ Initialized
  /\ caller = admin
  /\ pendingUpgrade' =
       [new_wasm_hash |-> hash,
        unlock_ledger |-> IF pendingUpgrade = NoUpgrade
                          THEN ledger + UpgradeTimelockLedgers
                          ELSE pendingUpgrade.unlock_ledger]
  /\ announced' = [announced EXCEPT ![hash] = ledger]
  /\ UNCHANGED <<ledger, config, proposals, proposalCount, voting, upgradedTo>>

ProposeUpgrade(caller, hash) ==
  /\ Initialized
  /\ caller = admin
  /\ pendingUpgrade = NoUpgrade
  /\ ledger + UpgradeTimelockLedgers <= MaxU32
  /\ pendingUpgrade' = [new_wasm_hash |-> hash,
                        unlock_ledger |-> ledger + UpgradeTimelockLedgers]
  /\ announced' = [announced EXCEPT ![hash] = ledger]
  /\ UNCHANGED <<ledger, config, proposals, proposalCount, voting, upgradedTo>>

CancelUpgrade(caller) ==
  /\ Initialized
  /\ caller = admin
  /\ pendingUpgrade # NoUpgrade
  /\ pendingUpgrade' = NoUpgrade
  /\ UNCHANGED <<ledger, config, proposals, proposalCount, voting, upgradedTo,
                 announced>>

UpgradeUnlocked == ledger >= pendingUpgrade.unlock_ledger

ExecuteUpgrade(caller) ==
  /\ Initialized
  /\ caller = admin
  /\ pendingUpgrade # NoUpgrade
  /\ UpgradeUnlocked
  /\ pendingUpgrade' = NoUpgrade
  /\ upgradedTo' = upgradedTo \cup {pendingUpgrade.new_wasm_hash}
  /\ UNCHANGED <<ledger, config, proposals, proposalCount, voting, announced>>

Next ==
  \/ CloseLedger
  \/ \E a \in Address, period \in VotingPeriods : Initialize(a, period)
  \/ \E v \in Version : Migrate(v)
  \/ \E a \in Address, bps \in Bps : SetQuorumBps(a, bps)
  \/ \E a \in Address, bps \in Bps : SetThresholdBps(a, bps)
  \/ \E a \in Address, n \in Timelocks : SetExecutionTimelock(a, n)
  \/ \E a \in Address : Propose(a)
  \/ \E a \in Address, id \in ProposalId, approve \in {"yes", "no"} :
       Vote(a, id, approve)
  \/ \E id \in ProposalId : Finalize(id)
  \/ \E id \in ProposalId : Execute(id)
  \/ \E a \in Address, h \in Hash : ProposeUpgrade(a, h)
  \/ \E a \in Address : CancelUpgrade(a)
  \/ \E a \in Address : ExecuteUpgrade(a)

Spec == Init /\ [][Next]_vars

------------------------------------------------------------------------------
BallotsOf(id, approve) == {x \in ballots : x.id = id /\ x.approve = approve}

(* What bitmap_get answers for a voter who has an index.                   *)
HasVoted(a, id) ==
  voterIndex[a] # Unregistered /\ BitAt(id, voterIndex[a]) \in bitmap

(* The bitmap is exact: a bit is set for a proposal when, and only when,   *)
(* the voter behind its index has voted on that proposal, although the     *)
(* bits of 128 voters share one word and the key carries the proposal id.  *)
BitmapRecordsVoters ==
  \A a \in Address, id \in ProposalId :
    (\E x \in ballots : x.id = id /\ x.voter = a)
      <=> HasVoted(a, id)

(* A voter has at most one ballot on a proposal, for or against, and the   *)
(* two counters of the proposal are the numbers of ballots cast.           *)
TallyCountsBallots ==
  /\ \A x, y \in ballots : x.id = y.id /\ x.voter = y.voter => x = y
  /\ \A id \in ProposalId :
       /\ proposals[id].yes_votes = Cardinality(BallotsOf(id, "yes"))
       /\ proposals[id].no_votes = Cardinality(BallotsOf(id, "no"))

(* Whatever the basis points were set to between the votes and the call to *)
(* finalize, a proposal nobody voted yes on cannot pass, one nobody voted  *)
(* on expires, and only those expire.                                      *)
OutcomeMatchesTally ==
  \A id \in ProposalId : LET p == proposals[id] IN
    /\ p.status \in {"Passed", "Executed"} => p.yes_votes > 0
    /\ p.status = "Rejected" => Total(p) > 0
    /\ p.status = "Expired" => Total(p) = 0

(* An executed proposal was open to its end, then finalised, then held     *)
(* back by a timelock of at least one ledger, fixed when it was finalised. *)
ExecutionIsDelayed ==
  \A id \in ProposalId : LET p == proposals[id] IN
    /\ p.status \in {"Passed", "Executed"} => p.execute_after >= p.end_ledger + 2
    /\ p.status = "Executed" => ledger >= p.execute_after

(* While the registered voters times 10_000 fit in a u32, finalize never   *)
(* panics on an overflow, however the votes fell.                          *)
FinalizeFitsVoters ==
  voterCount * Scale <= MaxU32 =>
    \A id \in ProposalId : FinalizeFits(proposals[id])

(* A decided proposal keeps its tally and its dates, and its status only   *)
(* ever moves from Passed to Executed.                                     *)
DecidedIsFrozen ==
  [][\A id \in ProposalId : LET p == proposals[id] q == proposals'[id] IN
       p.status \notin {"absent", "Active"} =>
         /\ [q EXCEPT !.status = p.status] = p
         /\ q.status = p.status
              \/ (p.status = "Passed" /\ q.status = "Executed")]_vars

(* The contract is upgraded only to a hash that was announced and stayed   *)
(* the pending one for the whole timelock.                                 *)
UpgradeIsAnnounced ==
  [][\A h \in upgradedTo' \ upgradedTo :
       /\ announced[h] # Never
       /\ ledger >= announced[h] + UpgradeTimelockLedgers
       /\ \A g \in Hash : announced[g] <= announced[h]]_vars

(* The contract implements the ballot box: reading who voted through the   *)
(* voter indices and the bitmap words, every call is one ballot of a voter *)
(* who had none, a new proposal, a verdict its ballots allow, an execution *)
(* of a proposal that passed, or leaves the boxes alone.                   *)
Box == INSTANCE BallotBox
         WITH Voter <- Address,
              voted <- [id \in ProposalId |-> {a \in Address : HasVoted(a, id)}],
              yes <- [id \in ProposalId |-> proposals[id].yes_votes],
              no <- [id \in ProposalId |-> proposals[id].no_votes],
              outcome <- [id \in ProposalId |-> proposals[id].status]
ImplementsBallotBox == Box!Spec

------------------------------------------------------------------------------
(* The parts of the inductive invariant behind these properties.           *)

(* initialize resets the counters and nothing else of the voting state,    *)
(* because nobody can vote or propose before it.                           *)
NothingBeforeInitialize ==
  ~Initialized =>
    /\ ballots = {}
    /\ bitmap = {}
    /\ voterCount = 0
    /\ voterIndex = [a \in Address |-> Unregistered]
    /\ proposalCount = 0
    /\ pendingUpgrade = NoUpgrade

(* Indices are handed out once: no two voters share one, and VoterCount is *)
(* above them all.                                                         *)
IndicesDistinct ==
  /\ \A a \in Address : voterIndex[a] < voterCount
  /\ \A a, b \in Address :
       a # b /\ voterIndex[a] # Unregistered => voterIndex[a] # voterIndex[b]

(* Ids above ProposalCount hold no proposal; ballots name ids below it.    *)
ProposalsAllocated ==
  /\ \A id \in ProposalId : id > proposalCount => proposals[id] = NoProposal
  /\ \A x \in ballots : x.id <= proposalCount

(* The bits are those of the ballots, under the indices now stored.        *)
BitmapIsBallots ==
  /\ IsFiniteSet(ballots)
  /\ \A x \in ballots : voterIndex[x.voter] # Unregistered
  /\ bitmap = {BitAt(x.id, voterIndex[x.voter]) : x \in ballots}

VotingInv ==
  /\ NothingBeforeInitialize
  /\ ProposalsAllocated
  /\ IndicesDistinct
  /\ BitmapIsBallots
  /\ TallyCountsBallots

(* The pending upgrade is the last one announced, a timelock ago at most.  *)
PendingIsLastAnnounced ==
  /\ \A h \in Hash : announced[h] <= ledger
  /\ pendingUpgrade # NoUpgrade =>
       LET h == pendingUpgrade.new_wasm_hash IN
         /\ announced[h] # Never
         /\ pendingUpgrade.unlock_ledger = announced[h] + UpgradeTimelockLedgers
         /\ \A g \in Hash : announced[g] <= announced[h]

==============================================================================
