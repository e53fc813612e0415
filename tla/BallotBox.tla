------------------------------ MODULE BallotBox ------------------------------
(***************************************************************************)
(* What the community_governance contract promises its voters              *)
(* (apps/contracts/community_governance/src/lib.rs), with none of its      *)
(* voter indices, bitmap words and ledgers: a box of ballots per proposal, *)
(* into which a voter puts one ballot while it is open, and a verdict that *)
(* the ballots in it allow.                                                *)
(***************************************************************************)
EXTENDS Integers

CONSTANTS Voter, ProposalId

VARIABLES voted,      \* proposal -> who voted on it
          yes, no,    \* proposal -> the ballots for and against it
          outcome     \* proposal -> its status

vars == <<outcome, yes, no, voted>>

Init ==
  /\ voted = [id \in ProposalId |-> {}]
  /\ yes = [id \in ProposalId |-> 0]
  /\ no = [id \in ProposalId |-> 0]
  /\ outcome = [id \in ProposalId |-> "absent"]

Becomes(id, status) == outcome' = [outcome EXCEPT ![id] = status]

Open(id) ==
  /\ outcome[id] = "absent"
  /\ Becomes(id, "Active")
  /\ UNCHANGED <<voted, yes, no>>

Cast(voter, id) ==
  /\ outcome[id] = "Active"
  /\ \/ yes' = [yes EXCEPT ![id] = @ + 1] /\ UNCHANGED no
     \/ no' = [no EXCEPT ![id] = @ + 1] /\ UNCHANGED yes
  /\ voter \notin voted[id]
  /\ voted' = [voted EXCEPT ![id] = @ \cup {voter}]
  /\ UNCHANGED outcome

(* The quorum and the threshold may be set to anything above zero.         *)
Allows(id, verdict) ==
  IF voted[id] = {} THEN verdict = "Expired"
  ELSE verdict = "Rejected" \/ (verdict = "Passed" /\ yes[id] > 0)

Decide(id, verdict) ==
  /\ outcome[id] = "Active"
  /\ Becomes(id, verdict)
  /\ Allows(id, verdict)
  /\ UNCHANGED <<voted, yes, no>>

Carry(id) ==
  /\ outcome[id] = "Passed"
  /\ Becomes(id, "Executed")
  /\ UNCHANGED <<voted, yes, no>>

Next ==
  \E id \in ProposalId :
    \/ Open(id) \/ Carry(id)
    \/ \E verdict \in {"Passed", "Rejected", "Expired"} : Decide(id, verdict)
    \/ \E voter \in Voter : Cast(voter, id)

Spec == Init /\ [][Next]_vars

==============================================================================
