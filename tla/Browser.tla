------------------------------- MODULE Browser -------------------------------
(***************************************************************************)
(* The web application in one tab: the navigation bar and one page at a    *)
(* time, with the wallet hooks of both and what goes on when a page is     *)
(* left.  Certificates and meters are behind a gate (wallet-gate.tsx),     *)
(* the certificates page and the governance page have a hook of their own. *)
(***************************************************************************)
EXTENDS CertificatesPage, GovernancePage, MetersPage

VARIABLE pathname

vars == <<wallet, certificatesPage, governancePage, metersPage, pathname>>

Page == {"/", "/certificates", "/governance", "/meters"}
Hooks(path) ==
  CASE path = "/certificates" -> {"gate", "page"}
    [] path = "/governance" -> {"page"}
    [] path = "/meters" -> {"gate"}
    [] OTHER -> {}

TypeOK ==
  /\ WalletTypeOK
  /\ CertificatesTypeOK
  /\ GovernanceTypeOK
  /\ MetersTypeOK
  /\ pathname \in Page

Init ==
  /\ WalletInit
  /\ CertificatesInit
  /\ GovernanceInit
  /\ MetersInit
  /\ pathname = "/"

(* A link of the navigation bar: the page and its form are unmounted.      *)
Navigate(path) ==
  /\ path # pathname
  /\ pathname' = path
  /\ Swap(Hooks(pathname) \cup {"form"}, Hooks(path), Connecting)
  /\ Leave /\ LeaveGovernance /\ LeaveMeters

(* Everything is gone but what is in sessionStorage.                       *)
Reload ==
  LET mounted == Hooks(pathname) \cup {"navbar"}
      restoring == storage # None /\ installed
  IN /\ hook' = [i \in Component |->
                   IF i \in mounted
                   THEN [mounted |-> TRUE, address |-> None, loading |-> restoring]
                   ELSE Unmounted]
     /\ tasks' = {[kind |-> "restore", of |-> i, address |-> storage] :
                    i \in IF restoring THEN mounted ELSE {}}
     /\ UNCHANGED <<storage, installed, pathname>>
     /\ offered' = {}
     /\ retiring' = None /\ submitting' = FALSE
     /\ request' = [k \in Request |-> None]
     /\ toasts' = {}
     /\ LeaveGovernance /\ LeaveMeters

InWallet == WalletNext /\ UNCHANGED <<certificatesPage, governancePage, metersPage, pathname>>
InCertificates ==
  /\ pathname = "/certificates"
  /\ OnCertificates
  /\ UNCHANGED <<governancePage, metersPage, pathname>>
InGovernance ==
  /\ pathname = "/governance"
  /\ OnGovernance
  /\ UNCHANGED <<certificatesPage, metersPage, pathname>>
InMeters ==
  /\ pathname = "/meters"
  /\ OnMeters
  /\ UNCHANGED <<wallet, certificatesPage, governancePage, pathname>>
Retirements == InBackground /\ UNCHANGED <<governancePage, metersPage, pathname>>
Proposals == SubmissionsGoOn /\ UNCHANGED <<certificatesPage, metersPage, pathname>>

Next ==
  \/ InWallet \/ InCertificates \/ InGovernance \/ InMeters
  \/ Retirements \/ Proposals
  \/ \E path \in Page : Navigate(path)
  \/ Reload

(* A request to retire is answered or fails.                               *)
Answered(k) ==
  /\ Rejected(k) \/ Retired(k)
  /\ UNCHANGED <<governancePage, metersPage, pathname>>

Spec == Init /\ [][Next]_vars /\ \A k \in Request : WF_vars(Answered(k))

------------------------------------------------------------------------------
(* Whatever was connected, disconnected and restored meanwhile and in      *)
(* whichever component, a retirement names the address of a wallet: the    *)
(* route refuses a body without one.                                       *)
RequestsNameWallet ==
  \A k \in Request : request[k] # None => request[k].address \in Address

(* A dialog or a form is locked exactly while a request that it sent       *)
(* itself is under way, however often it was closed, opened and moved to   *)
(* another certificate, and left with requests in flight: so a dialog has  *)
(* one request at a time, and a revocation always a dialog that shows it.  *)
BusyMatchesRequests ==
  LET mine == {k \in Request : request[k] # None /\ request[k].mine}
  IN /\ submitting <=> mine # {}
     /\ \A k, l \in mine : k = l
     /\ signing <=> \E s \in Submission :
          /\ submission[s] # None
          /\ submission[s].mine /\ submission[s].stage = "signing"
     /\ revoking # None => revokeTarget # None

(* "Submitting retirement transaction..." does not stay on the screen: the *)
(* notification goes, also when the dialog and the page are gone by then.  *)
SpinnersEnd ==
  \A k \in Request : k \in toasts ~> k \notin toasts

==============================================================================
