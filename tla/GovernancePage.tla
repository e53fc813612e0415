---------------------------- MODULE GovernancePage ----------------------------
(***************************************************************************)
(* The governance page (app/governance/page.tsx): proposals and votes that *)
(* live in the state of the page, and a form that creates a proposal after *)
(* it connected the wallet, if it has to, and after the time a signature   *)
(* takes.  The form is there while its `useWallet` is mounted.             *)
(*                                                                         *)
(* What a proposal says is left out.  Two proposals that are created in    *)
(* one millisecond have one id in the code; here ids are distinct.         *)
(***************************************************************************)
EXTENDS BrowserWallet, FiniteSets

CONSTANTS Proposal,      \* ids, those of SEED among them
          SeedActive, SeedClosed,
          VoteChoice,    \* "for", "against", "abstain"
          Submission     \* submissions of forms in flight together

Pending == [stage: {"connecting", "signing"}, mine: BOOLEAN]

ASSUME GovernanceAssumption ==
  /\ None \notin VoteChoice \cup Pending
  /\ SeedActive \subseteq Proposal
  /\ SeedClosed \subseteq Proposal
  /\ SeedActive \cap SeedClosed = {}

VARIABLES active,      \* the proposals with status "active"
          tally,       \* votes counted on top of those of SEED
          userVote,    \* the vote of the user
          signing,     \* `submitting` of the form
          submission   \* submissions of the form

governancePage == <<active, tally, userVote, signing, submission>>

NoVotes == [choice \in VoteChoice |-> 0]

GovernanceTypeOK ==
  /\ active \in SUBSET Proposal
  /\ tally \in [Proposal -> [VoteChoice -> 0..1]]
  /\ userVote \in [Proposal -> VoteChoice \cup {None}]
  /\ signing \in BOOLEAN
  /\ submission \in [Submission -> Pending \cup {None}]

GovernanceInit ==
  /\ active = SeedActive
  /\ tally = [p \in Proposal |-> NoVotes]
  /\ userVote = [p \in Proposal |-> None]
  /\ signing = FALSE
  /\ submission = [s \in Submission |-> None]

(* The form goes and its submissions go on.                                *)
Abandon ==
  [s \in Submission |-> IF submission[s] = None THEN None
                        ELSE [submission[s] EXCEPT !.mine = FALSE]]

------------------------------------------------------------------------------
(* The card of an active proposal has the buttons, enabled with a wallet.  *)
CardVotes(p) == p \in active /\ Connected("page")

(* Buttons that stay enabled once the user has voted.                      *)
MutantMayVote(p) == CardVotes(p)
MayVote(p) == CardVotes(p) /\ userVote[p] = None

HandleVote(p, choice) ==
  /\ MayVote(p)
  /\ tally' = [tally EXCEPT ![p][choice] = @ + 1]
  /\ userVote' = [userVote EXCEPT ![p] = choice]
  /\ UNCHANGED <<active, signing, submission, wallet>>

(* The button that opens the form and closes it again.                     *)
ToggleForm ==
  /\ IF hook["form"].mounted
     THEN /\ Swap({"form"}, {}, FALSE)
          /\ signing' = FALSE
          /\ submission' = Abandon
     ELSE Swap({}, {"form"}, FALSE) /\ UNCHANGED <<signing, submission>>
  /\ UNCHANGED <<active, tally, userVote>>

(* The button of the form is disabled while it signs, not while it         *)
(* connects.                                                               *)
MayPropose == hook["form"].mounted /\ ~signing

(* A form whose fields are valid.                                          *)
Submit(s) ==
  /\ MayPropose
  /\ submission[s] = None
  /\ Connected("form") \/ installed
  /\ signing' = Connected("form")
  /\ submission' = [submission EXCEPT ![s] =
       [stage |-> IF Connected("form") THEN "signing" ELSE "connecting",
        mine |-> TRUE]]
  /\ UNCHANGED <<active, tally, userVote, wallet>>

FormConnected(s, address) ==
  /\ submission[s] # None
  /\ submission[s].stage = "connecting"
  /\ Establish(IF submission[s].mine THEN "form" ELSE None, address)
  /\ storage' = address
  /\ signing' = (signing \/ submission[s].mine)
  /\ submission' = [submission EXCEPT ![s].stage = "signing"]
  /\ UNCHANGED <<active, tally, userVote, tasks, installed>>

FormRefused(s) ==
  /\ submission[s] # None
  /\ submission[s].stage = "connecting"
  /\ submission' = [submission EXCEPT ![s] = None]
  /\ UNCHANGED <<active, tally, userVote, signing, wallet>>

(* onCreated closes the form of its page, whichever it is by then.         *)
Created(s) ==
  /\ submission[s] # None
  /\ submission[s].stage = "signing"
  /\ \E p \in Proposal \ (active \cup SeedActive \cup SeedClosed) :
       active' = active \cup {p}
  /\ signing' = FALSE
  /\ submission' = [Abandon EXCEPT ![s] = None]
  /\ IF hook["form"].mounted THEN Swap({"form"}, {}, FALSE) ELSE UNCHANGED wallet
  /\ UNCHANGED <<tally, userVote>>

(* When the page is left its proposals are gone, and of its submissions    *)
(* only a connection still has an effect.                                  *)
Connecting == \E s \in Submission : submission[s] # None /\ submission[s].stage = "connecting"
LeaveGovernance ==
  /\ active' = SeedActive
  /\ tally' = [p \in Proposal |-> NoVotes]
  /\ userVote' = [p \in Proposal |-> None]
  /\ signing' = FALSE
  /\ submission' = [s \in Submission |-> None]

OnGovernance ==
  \/ \E p \in Proposal, choice \in VoteChoice : HandleVote(p, choice)
  \/ ToggleForm
  \/ \E s \in Submission : Submit(s)

SubmissionsGoOn ==
  \E s \in Submission :
    \/ \E address \in Address : FormConnected(s, address)
    \/ FormRefused(s)
    \/ Created(s)

==============================================================================
