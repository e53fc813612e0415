---------------------------- MODULE BrowserProofs ----------------------------
(* Theorems about Browser for every set of accounts, certificates,          *)
(* proposals, meters and requests in flight.                                *)
EXTENDS Browser, TLAPS

------------------------------------------------------------------------------
(* Components that come and go.                                             *)

(* A restoration knows the wallet it restores: what was stored when its     *)
(* component came.                                                          *)
RestoresKnown ==
  \A t \in tasks : t.kind = "restore" => t.address \in Address

LEMMA HooksAreComponents ==
  \A path \in Page : Hooks(path) \subseteq Component
BY DEF Page, Hooks, Component

(* Swap leaves a hook alone that neither comes nor leaves, and every        *)
(* restoration it starts is of a stored wallet.                             *)
LEMMA SwapKeepsHooks ==
  ASSUME WalletTypeOK,
         NEW leaving \in SUBSET Component, NEW coming \in SUBSET Component,
         NEW connecting, Swap(leaving, coming, connecting)
  PROVE  /\ WalletTypeOK'
         /\ RestoresKnown => RestoresKnown'
         /\ \A i \in Component \ (leaving \cup coming) : hook'[i] = hook[i]
<1>. USE WalletAssumption DEF WalletAssumption, WalletTypeOK
<1>. DEFINE restoring == storage # None /\ installed
            kept == {IF t.of \in leaving THEN [t EXCEPT !.of = None] ELSE t : t \in tasks}
            started == {[kind |-> "restore", of |-> i, address |-> storage] :
                          i \in IF restoring THEN coming ELSE {}}
<1>1. /\ tasks' = (IF connecting THEN {Orphan} ELSE {}) \cup kept \cup started
      /\ hook' = [i \in Component |->
                    IF i \in coming
                    THEN [mounted |-> TRUE, address |-> None, loading |-> restoring]
                    ELSE IF i \in leaving THEN Unmounted ELSE hook[i]]
      /\ UNCHANGED <<storage, installed>>
  BY DEF Swap
<1>2. hook' \in [Component -> [mounted: BOOLEAN, address: Address \cup {None},
                               loading: BOOLEAN]]
  BY <1>1 DEF Unmounted
<1>3. Orphan \in Task /\ Orphan.kind # "restore"
  BY DEF Orphan, Task
<1>4. \A t \in kept : /\ t \in Task
                      /\ \E u \in tasks : t.kind = u.kind /\ t.address = u.address
  BY DEF Task
<1>5. \A t \in started : t \in Task /\ t.address \in Address
  BY DEF Task
<1>. HIDE DEF kept, started
<1>6. tasks' \in SUBSET Task
  BY <1>1, <1>3, <1>4, <1>5
<1>7. RestoresKnown => RestoresKnown'
  BY <1>1, <1>3, <1>4, <1>5 DEF RestoresKnown
<1>. QED  BY <1>1, <1>2, <1>6, <1>7

(* An answer of the extension changes hooks in one way only: a hook that    *)
(* is given an address is given that of a wallet.                           *)
LEMMA WalletStep ==
  ASSUME WalletTypeOK, WalletNext
  PROVE  /\ WalletTypeOK'
         /\ RestoresKnown => RestoresKnown'
         /\ RestoresKnown =>
              \A i \in Component \ {"navbar"} :
                hook'[i].address = hook[i].address \/ hook'[i].address \in Address
<1>. USE WalletAssumption DEF WalletAssumption, WalletTypeOK, Task
<1>. DEFINE Kept ==
       RestoresKnown =>
         \A i \in Component \ {"navbar"} :
           hook'[i].address = hook[i].address \/ hook'[i].address \in Address
<1>1. ASSUME NEW t \in tasks, Restored(t)
      PROVE  WalletTypeOK' /\ (RestoresKnown => RestoresKnown') /\ Kept
  BY <1>1 DEF Restored, RestoresKnown
<1>2. ASSUME NEW t \in tasks, NotAllowed(t)
      PROVE  WalletTypeOK' /\ (RestoresKnown => RestoresKnown') /\ Kept
  BY <1>2 DEF NotAllowed, RestoresKnown
<1>3. ASSUME NEW t \in tasks, AccessRefused(t)
      PROVE  WalletTypeOK' /\ (RestoresKnown => RestoresKnown') /\ Kept
  BY <1>3 DEF AccessRefused, RestoresKnown
<1>4. ASSUME NEW t \in tasks, NEW address \in Address, AccessGiven(t, address)
      PROVE  WalletTypeOK' /\ (RestoresKnown => RestoresKnown') /\ Kept
  BY <1>4 DEF AccessGiven, Establish, RestoresKnown
<1>5. ASSUME NEW i \in Component, Connect(i)
      PROVE  WalletTypeOK' /\ (RestoresKnown => RestoresKnown') /\ Kept
  BY <1>5 DEF Connect, RestoresKnown
<1>6. CASE Disconnect
  BY <1>6 DEF Disconnect, RestoresKnown, Component
<1>. QED  BY <1>1, <1>2, <1>3, <1>4, <1>5, <1>6 DEF WalletNext

------------------------------------------------------------------------------
(* The pages.  What the tallies add to those of SEED is the user's votes.   *)
TallyIsVote ==
  \A p \in Proposal, choice \in VoteChoice :
    tally[p][choice] = IF userVote[p] = choice THEN 1 ELSE 0

(* A request whose dialog is still there was sent by a page that is.        *)
MineAreHere ==
  \A k \in Request : request[k] # None /\ request[k].mine => request[k].here

(* An open dialog stands on a page whose wallet is connected.               *)
DialogHasWallet == retiring # None => hook["page"].address \in Address

Busy == {k \in Request : request[k] # None /\ request[k].mine}

Locks ==
  /\ submitting <=> Busy # {}
  /\ \A k, l \in Busy : k = l

Signs ==
  signing <=> \E s \in Submission :
    /\ submission[s] # None
    /\ submission[s].mine /\ submission[s].stage = "signing"

Revokes == revoking # None => revokeTarget # None

LEMMA DisownTypes ==
  ASSUME NEW requests \in [Request -> Retirement \cup {None}],
         NEW here \in BOOLEAN
  PROVE  /\ Disown(requests, here) \in [Request -> Retirement \cup {None}]
         /\ \A k \in Request :
              /\ Disown(requests, here)[k] = None <=> requests[k] = None
              /\ requests[k] # None => ~Disown(requests, here)[k].mine
BY CertificatesAssumption DEF Disown, Retirement

LEMMA AbandonTypes ==
  ASSUME GovernanceTypeOK
  PROVE  /\ Abandon \in [Submission -> Pending \cup {None}]
         /\ \A s \in Submission : submission[s] # None => ~Abandon[s].mine
BY GovernanceAssumption DEF GovernanceTypeOK, Abandon, Pending

LEMMA NoVotesTypes ==
  /\ NoVotes \in [VoteChoice -> 0..1]
  /\ \A choice \in VoteChoice : NoVotes[choice] = 0
BY DEF NoVotes

(* What a step on the certificates page, or of a request it sent, keeps.    *)
CertificatesInv ==
  /\ CertificatesTypeOK
  /\ MineAreHere
  /\ Locks
  /\ DialogHasWallet
  /\ RequestsNameWallet

LEMMA CertificatesStep ==
  ASSUME WalletTypeOK, CertificatesInv,
         OnCertificates \/ InBackground
  PROVE  CertificatesInv' /\ UNCHANGED wallet
<1>. USE CertificatesAssumption
     DEF CertificatesAssumption, CertificatesInv, CertificatesTypeOK
<1>. DEFINE Goal == CertificatesInv' /\ UNCHANGED wallet
<1>1. CASE List
  BY <1>1 DEF List, MineAreHere, Locks, Busy, DialogHasWallet,
              RequestsNameWallet, wallet
<1>2. CASE PushParams
  BY <1>2 DEF PushParams, MineAreHere, Locks, Busy, DialogHasWallet,
              RequestsNameWallet, wallet
<1>3. ASSUME NEW c \in Certificate, OpenDialog(c)
      PROVE  Goal
  <2>1. hook["page"].address \in Address
    BY <1>3 DEF OpenDialog, MayRetire, Connected, WalletTypeOK, Component
  <2>. QED
    BY <1>3, <2>1 DEF OpenDialog, MineAreHere, Locks, Busy, DialogHasWallet,
                      RequestsNameWallet, wallet
<1>4. CASE CloseDialog
  <2>1. /\ request' \in [Request -> Retirement \cup {None}]
        /\ \A k \in Request :
             /\ request'[k] = None <=> request[k] = None
             /\ request[k] # None => ~request'[k].mine
    BY <1>4, DisownTypes DEF CloseDialog
  <2>2. \A k \in Request :
          request[k] # None => request'[k].address = request[k].address
    BY <1>4 DEF CloseDialog, Disown, Retirement
  <2>. QED
    BY <1>4, <2>1, <2>2
       DEF CloseDialog, MineAreHere, Locks, Busy, DialogHasWallet,
           RequestsNameWallet, wallet
<1>5. ASSUME NEW k \in Request, Confirm(k)
      PROVE  Goal
  <2>. DEFINE sent == [certificate |-> retiring, address |-> hook["page"].address,
                       mine |-> TRUE, here |-> TRUE]
  <2>1. /\ retiring \in Certificate /\ hook["page"].address \in Address
        /\ ~submitting /\ Busy = {}
    BY <1>5 DEF Confirm, MayConfirm, DialogHasWallet, Locks
  <2>2. sent \in Retirement /\ sent # None
    <3>1. sent \in Retirement
      BY <2>1 DEF Retirement
    <3>. QED  BY <3>1
  <2>3. /\ request' = [request EXCEPT ![k] = sent]
        /\ submitting' = TRUE /\ toasts' = toasts \cup {k}
        /\ UNCHANGED <<offered, retiring, wallet>>
    BY <1>5 DEF Confirm, Toast
  <2>4. request' \in [Request -> Retirement \cup {None}]
    BY <2>2, <2>3
  <2>5. Busy' = {k}
    BY <2>1, <2>2, <2>3 DEF Busy
  <2>6. MineAreHere' /\ RequestsNameWallet'
    BY <2>1, <2>2, <2>3 DEF MineAreHere, RequestsNameWallet
  <2>7. DialogHasWallet'
    BY <2>3 DEF DialogHasWallet, wallet
  <2>. QED  BY <2>3, <2>4, <2>5, <2>6, <2>7 DEF Locks
<1>6. ASSUME NEW k \in Request, Rejected(k)
      PROVE  Goal
  <2>1. /\ request' = [request EXCEPT ![k] = None]
        /\ submitting' = (submitting /\ ~request[k].mine)
        /\ request[k] # None /\ toasts' = toasts \ {k}
        /\ UNCHANGED <<offered, retiring, wallet>>
    BY <1>6 DEF Rejected, Locked, Dismissed
  <2>2. Busy' = Busy \ {k} /\ (k \in Busy <=> request[k].mine)
    BY <2>1 DEF Busy
  <2>3. MineAreHere' /\ RequestsNameWallet' /\ DialogHasWallet'
    BY <2>1 DEF MineAreHere, RequestsNameWallet, DialogHasWallet, wallet
  <2>4. /\ submitting' <=> Busy' # {}
        /\ \A i, j \in Busy' : i = j
    <3>1. CASE k \in Busy
      BY <2>1, <2>2, <3>1 DEF Locks
    <3>2. CASE k \notin Busy
      <4>1. Busy' = Busy /\ submitting' = submitting
        BY <2>1, <2>2, <3>2
      <4>. QED  BY <4>1 DEF Locks
    <3>. QED  BY <3>1, <3>2
  <2>5. CertificatesTypeOK'
    BY <2>1
  <2>. QED  BY <2>1, <2>3, <2>4, <2>5 DEF Locks
<1>7. ASSUME NEW k \in Request, Retired(k)
      PROVE  Goal
  <2>. DEFINE rest == [request EXCEPT ![k] = None]
  <2>1. rest \in [Request -> Retirement \cup {None}]
    OBVIOUS
  <2>2. CASE request[k].here
    <3>1. /\ request' = Disown(rest, TRUE) /\ submitting' = FALSE
          /\ retiring' = None /\ toasts' = toasts \ {k}
          /\ UNCHANGED <<offered, wallet>>
      BY <1>7, <2>2 DEF Retired, Dismissed
    <3>2. /\ request' \in [Request -> Retirement \cup {None}]
          /\ \A l \in Request : /\ request'[l] = None <=> rest[l] = None
                                /\ rest[l] # None => ~request'[l].mine
      BY <2>1, <3>1, DisownTypes
    <3>3. \A l \in Request :
            rest[l] # None => request'[l].address = rest[l].address
      BY <2>1, <3>1 DEF Disown, Retirement
    <3>. QED
      BY <3>1, <3>2, <3>3
         DEF MineAreHere, Locks, Busy, DialogHasWallet, RequestsNameWallet
  <2>3. CASE ~request[k].here
    <3>1. /\ request' = rest /\ toasts' = toasts \ {k} /\ request[k] # None
          /\ UNCHANGED <<retiring, submitting, offered, wallet>>
      BY <1>7, <2>3 DEF Retired, Dismissed
    <3>2. Busy' = Busy
      BY <2>3, <3>1 DEF Busy, MineAreHere
    <3>3. MineAreHere' /\ RequestsNameWallet' /\ DialogHasWallet'
      BY <3>1 DEF MineAreHere, RequestsNameWallet, DialogHasWallet, wallet
    <3>. QED  BY <2>1, <3>1, <3>2, <3>3 DEF Locks
  <2>. QED  BY <2>2, <2>3
<1>8. ASSUME NEW k \in Request, Dismiss(k)
      PROVE  Goal
  BY <1>8 DEF Dismiss, Dismissed, MineAreHere, Locks, Busy, DialogHasWallet,
              RequestsNameWallet, wallet
<1>. QED
  BY <1>1, <1>2, <1>3, <1>4, <1>5, <1>6, <1>7, <1>8
     DEF OnCertificates, InBackground

(* What a step on the governance page, or of a form it had, keeps.          *)
GovernanceInv ==
  /\ GovernanceTypeOK
  /\ TallyIsVote
  /\ Signs

LEMMA GovernanceStep ==
  ASSUME WalletTypeOK, RestoresKnown, GovernanceInv,
         OnGovernance \/ SubmissionsGoOn
  PROVE  /\ GovernanceInv'
         /\ WalletTypeOK' /\ RestoresKnown'
         /\ hook'["page"] = hook["page"]
<1>. USE GovernanceAssumption
     DEF GovernanceAssumption, GovernanceInv, GovernanceTypeOK
<1>. DEFINE WalletKept == WalletTypeOK' /\ RestoresKnown' /\ hook'["page"] = hook["page"]
<1>1. UNCHANGED wallet => WalletKept
  BY DEF wallet, WalletTypeOK, RestoresKnown
<1>2. ASSUME NEW leaving \in SUBSET {"form"}, NEW coming \in SUBSET {"form"},
             Swap(leaving, coming, FALSE)
      PROVE  WalletKept
  <2>1. /\ leaving \in SUBSET Component /\ coming \in SUBSET Component
        /\ "page" \in Component \ (leaving \cup coming)
    BY DEF Component
  <2>. QED  BY <1>2, <2>1, SwapKeepsHooks
<1>3. ASSUME NEW p \in Proposal, NEW choice \in VoteChoice, HandleVote(p, choice)
      PROVE  GovernanceInv' /\ WalletKept
  <2>1. /\ tally' = [tally EXCEPT ![p][choice] = tally[p][choice] + 1]
        /\ userVote' = [userVote EXCEPT ![p] = choice]
        /\ userVote[p] = None
        /\ UNCHANGED <<active, signing, submission, wallet>>
    BY <1>3 DEF HandleVote, MayVote
  <2>2. \A c \in VoteChoice : tally[p][c] = 0
    BY <2>1 DEF TallyIsVote
  <2>3. tally' = [tally EXCEPT ![p][choice] = 1]
    <3>1. tally[p][choice] + 1 = 1
      BY <2>2
    <3>. QED  BY <2>1, <3>1
  <2>4. TallyIsVote'
    BY <2>1, <2>2, <2>3 DEF TallyIsVote
  <2>5. GovernanceTypeOK'
    BY <2>1, <2>3
  <2>. QED  BY <1>1, <2>1, <2>4, <2>5 DEF Signs
<1>4. CASE ToggleForm
  <2>1. CASE hook["form"].mounted
    <3>1. GovernanceTypeOK' /\ TallyIsVote'
      BY <1>4, <2>1, AbandonTypes DEF ToggleForm, TallyIsVote
    <3>2. Signs'
      BY <1>4, <2>1, AbandonTypes DEF ToggleForm, Signs, Abandon
    <3>. QED  BY <1>2, <1>4, <2>1, <3>1, <3>2 DEF ToggleForm
  <2>2. CASE ~hook["form"].mounted
    BY <1>2, <1>4, <2>2 DEF ToggleForm, TallyIsVote, Signs
  <2>. QED  BY <2>1, <2>2
<1>5. ASSUME NEW s \in Submission, Submit(s)
      PROVE  GovernanceInv' /\ WalletKept
  <2>. DEFINE begun == [stage |-> IF Connected("form") THEN "signing" ELSE "connecting",
                        mine |-> TRUE]
  <2>1. /\ ~signing /\ submission[s] = None
        /\ signing' = Connected("form")
        /\ submission' = [submission EXCEPT ![s] = begun]
        /\ UNCHANGED <<active, tally, userVote, wallet>>
    BY <1>5 DEF Submit, MayPropose
  <2>2. begun \in Pending
    BY DEF Pending
  <2>3. GovernanceTypeOK'
    BY <2>1, <2>2 DEF Connected
  <2>4. Signs'
    BY <2>1, <2>2 DEF Signs
  <2>. QED  BY <1>1, <2>1, <2>3, <2>4 DEF TallyIsVote
<1>6. ASSUME NEW s \in Submission, NEW address \in Address,
             FormConnected(s, address)
      PROVE  GovernanceInv' /\ WalletKept
  <2>1. /\ submission[s] \in Pending /\ submission[s].stage = "connecting"
        /\ hook' = (IF submission[s].mine
                    THEN [hook EXCEPT !["form"].address = address] ELSE hook)
        /\ storage' = address
        /\ signing' = (signing \/ submission[s].mine)
        /\ submission' = [submission EXCEPT ![s].stage = "signing"]
        /\ UNCHANGED <<active, tally, userVote, tasks, installed>>
    <3>1. "form" # None
      BY WalletAssumption DEF WalletAssumption, Component
    <3>. QED  BY <1>6, <3>1 DEF FormConnected, Establish
  <2>2. WalletKept
    BY <2>1 DEF WalletTypeOK, RestoresKnown, Component
  <2>3. GovernanceTypeOK'
    BY <2>1 DEF Pending
  <2>4. /\ submission'[s] # None /\ submission'[s].stage = "signing"
        /\ submission'[s].mine = submission[s].mine
        /\ \A r \in Submission \ {s} : submission'[r] = submission[r]
    BY <2>1 DEF Pending
  <2>5. Signs'
    BY <2>1, <2>4 DEF Signs
  <2>. QED  BY <2>1, <2>2, <2>3, <2>5 DEF TallyIsVote
<1>7. ASSUME NEW s \in Submission, FormRefused(s)
      PROVE  GovernanceInv' /\ WalletKept
  BY <1>1, <1>7 DEF FormRefused, TallyIsVote, Signs
<1>8. ASSUME NEW s \in Submission, Created(s)
      PROVE  GovernanceInv' /\ WalletKept
  <2>1. WalletKept
    BY <1>1, <1>2, <1>8 DEF Created
  <2>2. /\ signing' = FALSE
        /\ submission' = [Abandon EXCEPT ![s] = None]
        /\ active' \in SUBSET Proposal
        /\ UNCHANGED <<tally, userVote>>
    BY <1>8 DEF Created
  <2>3. GovernanceTypeOK' /\ TallyIsVote'
    BY <2>2, AbandonTypes DEF TallyIsVote
  <2>4. Signs'
    BY <2>2, AbandonTypes DEF Signs, Abandon
  <2>. QED  BY <2>1, <2>3, <2>4
<1>. QED
  BY <1>3, <1>4, <1>5, <1>6, <1>7, <1>8 DEF OnGovernance, SubmissionsGoOn

(* What a step on the meters page keeps.                                    *)
MetersInv == MetersTypeOK /\ Revokes

LEMMA MetersStep ==
  ASSUME MetersInv, OnMeters
  PROVE  MetersInv'
BY MetersAssumption
   DEF MetersAssumption, MetersInv, MetersTypeOK, Revokes, OnMeters, FetchMeters,
       AskRevoke, ConfirmRevoke, CancelRevoke, DialogFree, Fill, Register,
       MayRegister, Outcome, RevokeEnds, RegisterEnds

(* Leaving a page resets it, and what it sent goes on without it.           *)
LEMMA LeavingResets ==
  ASSUME CertificatesInv, GovernanceInv, MetersInv
  PROVE  /\ Leave => CertificatesInv'
         /\ LeaveGovernance => GovernanceInv'
         /\ LeaveMeters => MetersInv'
<1>1. ASSUME Leave PROVE CertificatesInv'
  <2>1. /\ request' = Disown(request, FALSE)
        /\ retiring' = None /\ submitting' = FALSE /\ offered' = {}
        /\ UNCHANGED toasts
    BY <1>1 DEF Leave
  <2>2. /\ request' \in [Request -> Retirement \cup {None}]
        /\ \A k \in Request :
             /\ request'[k] = None <=> request[k] = None
             /\ request[k] # None => ~request'[k].mine
    BY <2>1, DisownTypes DEF CertificatesInv, CertificatesTypeOK
  <2>3. \A k \in Request :
          request[k] # None => request'[k].address = request[k].address
    BY <2>1 DEF CertificatesInv, CertificatesTypeOK, Disown, Retirement
  <2>. QED
    BY <2>1, <2>2, <2>3
       DEF CertificatesInv, CertificatesTypeOK, MineAreHere, Locks, Busy,
           DialogHasWallet, RequestsNameWallet
<1>2. ASSUME LeaveGovernance PROVE GovernanceInv'
  <2>1. GovernanceTypeOK' /\ Signs'
    BY <1>2, NoVotesTypes, GovernanceAssumption
       DEF LeaveGovernance, GovernanceAssumption, GovernanceTypeOK, Signs
  <2>2. TallyIsVote'
    BY <1>2, NoVotesTypes, GovernanceAssumption
       DEF LeaveGovernance, GovernanceAssumption, TallyIsVote
  <2>. QED  BY <2>1, <2>2 DEF GovernanceInv
<1>3. ASSUME LeaveMeters PROVE MetersInv'
  BY <1>3 DEF LeaveMeters, MetersInv, MetersTypeOK, Revokes
<1>. QED  BY <1>1, <1>2, <1>3

------------------------------------------------------------------------------
(* The tab.                                                                 *)
TabInv ==
  /\ WalletTypeOK /\ RestoresKnown
  /\ CertificatesInv
  /\ GovernanceInv
  /\ MetersInv
  /\ pathname \in Page

LEMMA TabStarts == Init => TabInv
<1>. SUFFICES ASSUME Init PROVE TabInv
  OBVIOUS
<1>1. WalletTypeOK /\ RestoresKnown
  <2>. DEFINE restoring == storage # None /\ installed
  <2>1. /\ storage \in Address \cup {None} /\ installed \in BOOLEAN
        /\ hook = [i \in Component |->
                     IF i = "navbar" THEN [Unmounted EXCEPT !.mounted = TRUE, !.loading = restoring]
                     ELSE Unmounted]
        /\ tasks = {[kind |-> "restore", of |-> i, address |-> storage] :
                      i \in IF restoring THEN {"navbar"} ELSE {}}
    BY DEF Init, WalletInit
  <2>2. hook \in [Component -> [mounted: BOOLEAN, address: Address \cup {None},
                                loading: BOOLEAN]]
    BY <2>1 DEF Unmounted
  <2>3. \A t \in tasks : t \in Task /\ t.address \in Address
    BY <2>1 DEF Task, Component
  <2>. QED  BY <2>1, <2>2, <2>3 DEF WalletTypeOK, RestoresKnown
<1>2. CertificatesInv
  BY DEF Init, CertificatesInit, CertificatesInv, CertificatesTypeOK, MineAreHere,
         Locks, Busy, DialogHasWallet, RequestsNameWallet
<1>3. GovernanceInv
  <2>1. GovernanceTypeOK /\ Signs
    BY NoVotesTypes, GovernanceAssumption
       DEF Init, GovernanceInit, GovernanceAssumption, GovernanceTypeOK, Signs
  <2>2. TallyIsVote
    BY NoVotesTypes, GovernanceAssumption
       DEF Init, GovernanceInit, GovernanceAssumption, TallyIsVote
  <2>. QED  BY <2>1, <2>2 DEF GovernanceInv
<1>4. MetersInv /\ pathname \in Page
  BY DEF Init, MetersInit, MetersInv, MetersTypeOK, Revokes, Page
<1>. QED  BY <1>1, <1>2, <1>3, <1>4 DEF TabInv

LEMMA TabSteps ==
  ASSUME TabInv, [Next]_vars
  PROVE  TabInv'
<1>. USE DEF TabInv
<1>1. UNCHANGED certificatesPage /\ DialogHasWallet' => CertificatesInv'
  BY DEF certificatesPage, CertificatesInv, CertificatesTypeOK, MineAreHere, Locks,
         Busy, RequestsNameWallet
<1>2. UNCHANGED governancePage => GovernanceInv'
  BY DEF governancePage, GovernanceInv, GovernanceTypeOK, TallyIsVote, Signs
<1>3. UNCHANGED metersPage => MetersInv'
  BY DEF metersPage, MetersInv, MetersTypeOK, Revokes
<1>4. UNCHANGED wallet => WalletTypeOK' /\ RestoresKnown'
  BY DEF wallet, WalletTypeOK, RestoresKnown
<1>5. UNCHANGED certificatesPage /\ UNCHANGED hook => DialogHasWallet'
  BY DEF certificatesPage, CertificatesInv, DialogHasWallet
<1>6. CASE InWallet
  <2>1. /\ WalletTypeOK' /\ RestoresKnown'
        /\ hook'["page"].address = hook["page"].address
             \/ hook'["page"].address \in Address
    BY <1>6, WalletStep DEF InWallet, Component
  <2>2. DialogHasWallet'
    BY <1>6, <2>1 DEF InWallet, certificatesPage, CertificatesInv, DialogHasWallet
  <2>. QED  BY <1>1, <1>2, <1>3, <1>6, <2>1, <2>2 DEF InWallet
<1>7. CASE InCertificates \/ Retirements
  BY <1>2, <1>3, <1>4, <1>7, CertificatesStep DEF InCertificates, Retirements
<1>8. CASE InGovernance \/ Proposals
  <2>1. /\ GovernanceInv' /\ WalletTypeOK' /\ RestoresKnown'
        /\ hook'["page"] = hook["page"]
    BY <1>8, GovernanceStep DEF InGovernance, Proposals
  <2>2. /\ UNCHANGED <<certificatesPage, metersPage, pathname>>
    BY <1>8 DEF InGovernance, Proposals
  <2>3. DialogHasWallet'
    BY <2>1, <2>2 DEF certificatesPage, CertificatesInv, DialogHasWallet
  <2>. QED  BY <1>1, <1>3, <2>1, <2>2, <2>3
<1>9. CASE InMeters
  BY <1>1, <1>2, <1>4, <1>5, <1>9, MetersStep DEF InMeters, wallet
<1>10. ASSUME NEW path \in Page, Navigate(path)
       PROVE  TabInv'
  <2>1. /\ Hooks(pathname) \cup {"form"} \in SUBSET Component
        /\ Hooks(path) \in SUBSET Component
    BY HooksAreComponents DEF Component
  <2>2. WalletTypeOK' /\ RestoresKnown'
    BY <1>10, <2>1, SwapKeepsHooks DEF Navigate
  <2>. QED  BY <1>10, <2>2, LeavingResets DEF Navigate
<1>11. CASE Reload
  <2>. DEFINE restoring == storage # None /\ installed
              mounted == Hooks(pathname) \cup {"navbar"}
  <2>1. /\ hook' = [i \in Component |->
                      IF i \in mounted
                      THEN [mounted |-> TRUE, address |-> None, loading |-> restoring]
                      ELSE Unmounted]
        /\ tasks' = {[kind |-> "restore", of |-> i, address |-> storage] :
                       i \in IF restoring THEN mounted ELSE {}}
        /\ UNCHANGED <<storage, installed, pathname>>
        /\ offered' = {} /\ retiring' = None /\ submitting' = FALSE
        /\ request' = [k \in Request |-> None]
        /\ toasts' = {}
        /\ LeaveGovernance /\ LeaveMeters
    BY <1>11 DEF Reload
  <2>2. mounted \subseteq Component
    BY HooksAreComponents DEF Component
  <2>. HIDE DEF mounted
  <2>3. hook' \in [Component -> [mounted: BOOLEAN, address: Address \cup {None},
                                 loading: BOOLEAN]]
    BY <2>1 DEF Unmounted
  <2>4. \A t \in tasks' : t \in Task /\ t.address \in Address
    BY <2>1, <2>2 DEF Task, WalletTypeOK
  <2>5. WalletTypeOK' /\ RestoresKnown'
    BY <2>1, <2>3, <2>4 DEF WalletTypeOK, RestoresKnown
  <2>6. CertificatesInv'
    BY <2>1 DEF CertificatesInv, CertificatesTypeOK, MineAreHere, Locks, Busy,
                DialogHasWallet, RequestsNameWallet
  <2>. QED  BY <2>1, <2>5, <2>6, LeavingResets
<1>12. CASE UNCHANGED vars
  BY <1>1, <1>2, <1>3, <1>4, <1>5, <1>12 DEF vars, wallet
<1>. QED
  BY <1>6, <1>7, <1>8, <1>9, <1>10, <1>11, <1>12 DEF Next

LEMMA TabHolds == Spec => []TabInv
BY TabStarts, TabSteps, PTL DEF Spec

(* The state of every page and every hook stays in its range; no proposal   *)
(* is counted more than once for the user of the tab.                       *)
THEOREM TypeCorrect == Spec => []TypeOK
<1>1. TabInv => TypeOK
  BY DEF TabInv, CertificatesInv, GovernanceInv, MetersInv, TypeOK
<1>. QED  BY <1>1, TabHolds, PTL

(* A retirement that is sent names the address of a wallet: the dialog      *)
(* opens on a connected page, and no answer of the extension, no other      *)
(* component and no form takes the address from the page while it is open.  *)
THEOREM RequestsAreSigned == Spec => []RequestsNameWallet
<1>1. TabInv => RequestsNameWallet
  BY DEF TabInv, CertificatesInv
<1>. QED  BY <1>1, TabHolds, PTL

(* A dialog and a form are locked exactly while a request they sent         *)
(* themselves is under way, and a dialog has one at a time.                 *)
THEOREM LocksAreExact == Spec => []BusyMatchesRequests
<1>1. TabInv => BusyMatchesRequests
  BY DEF TabInv, CertificatesInv, GovernanceInv, MetersInv, Locks, Busy, Signs,
         Revokes, BusyMatchesRequests
<1>. QED  BY <1>1, TabHolds, PTL

(* What the tallies show beyond those of SEED is the vote of the user, once *)
(* in the choice the buttons recorded and nowhere else.                     *)
THEOREM TalliesCountTheUser == Spec => []TallyIsVote
<1>1. TabInv => TallyIsVote
  BY DEF TabInv, GovernanceInv
<1>. QED  BY <1>1, TabHolds, PTL
==============================================================================
