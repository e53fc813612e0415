--------------------------- MODULE CertificatesPage ---------------------------
(***************************************************************************)
(* The certificates page: its list, the dialog that retires a certificate, *)
(* and the notifications of the application (app/certificates/page.tsx,    *)
(* components/retire-modal.tsx, components/toast.tsx).  Of these the ones  *)
(* that say a request is pending are modelled; the others go by a timer.   *)
(*                                                                         *)
(* A retirement goes on when its dialog is closed, and the dialog can be   *)
(* opened again meanwhile.  The routes are external: they answer a list    *)
(* with the certificates that are then active, and a retirement with       *)
(* success or an error.                                                    *)
(***************************************************************************)
EXTENDS BrowserWallet

CONSTANTS Certificate,
          Request   \* retirements in flight together

Retirement == [certificate: Certificate, address: Address \cup {None},
               mine: BOOLEAN, here: BOOLEAN]

ASSUME CertificatesAssumption == None \notin Certificate \cup Retirement

VARIABLES offered,    \* the certificates that are listed with a button
          retiring,   \* the certificate the dialog is about, if it is open
          submitting, \* state of the dialog
          request,    \* retirements sent
          toasts      \* the requests with a pending notification on the screen

certificatesPage == <<offered, retiring, submitting, request, toasts>>

CertificatesTypeOK ==
  /\ offered \in SUBSET Certificate
  /\ retiring \in Certificate \cup {None}
  /\ submitting \in BOOLEAN
  /\ request \in [Request -> Retirement \cup {None}]
  /\ toasts \in SUBSET Request

CertificatesInit ==
  /\ offered = {}
  /\ retiring = None
  /\ submitting = FALSE
  /\ request = [k \in Request |-> None]
  /\ toasts = {}

(* The dialog goes, or the page does: the requests it sent are no longer   *)
(* its own.                                                                *)
Disown(requests, here) ==
  [k \in Request |-> IF requests[k] = None THEN None
                     ELSE [requests[k] EXCEPT !.mine = FALSE, !.here = @ /\ here]]

------------------------------------------------------------------------------
(* GET certificates answers, at any moment: when the page is mounted or    *)
(* gains the focus, after another filter was chosen, and when a retirement *)
(* succeeded.  A page of those that match is listed, in any case those not *)
(* retired by then with a button.                                          *)
List ==
  /\ offered' \in SUBSET Certificate
  /\ UNCHANGED <<retiring, submitting, request, toasts, wallet>>

(* Another filter is another query: there is no data until it is answered. *)
PushParams ==
  /\ GateOpen
  /\ offered' = {}
  /\ UNCHANGED <<retiring, submitting, request, toasts, wallet>>

(* A button that does not look at the wallet.                              *)
MutantMayRetire(c) == GateOpen /\ c \in offered
MayRetire(c) == GateOpen /\ c \in offered /\ Connected("page")

(* From the keyboard also while the dialog is open, which then stays.      *)
OpenDialog(c) ==
  /\ MayRetire(c)
  /\ retiring' = c
  /\ UNCHANGED <<offered, submitting, request, toasts, wallet>>

(* The cross and the backdrop close it at any time, Cancel while it is not *)
(* submitting.                                                             *)
CloseDialog ==
  /\ retiring # None
  /\ retiring' = None
  /\ submitting' = FALSE
  /\ request' = Disown(request, TRUE)
  /\ UNCHANGED <<offered, toasts, wallet>>

(* The notification that a request is pending comes and goes.              *)
Toast(k) == toasts' = toasts \cup {k}
Dismissed(k) == toasts' = toasts \ {k}

(* A request that ends releases the dialog that sent it.                   *)
Locked(k) == submitting /\ ~request[k].mine

MayConfirm == retiring # None /\ ~submitting

Confirm(k) ==
  /\ MayConfirm
  /\ request[k] = None
  /\ submitting' = TRUE
  /\ request' = [request EXCEPT ![k] =
       [certificate |-> retiring, address |-> hook["page"].address,
        mine |-> TRUE, here |-> TRUE]]
  /\ Toast(k)
  /\ UNCHANGED <<offered, retiring, wallet>>

(* A dialog that is made free by a success alone.                          *)
MutantRejected(k) ==
  /\ request[k] # None
  /\ request' = [request EXCEPT ![k] = None]
  /\ Dismissed(k)
  /\ UNCHANGED <<offered, retiring, submitting, wallet>>

(* A notification that is taken back when the route answers and left when  *)
(* the network fails.                                                      *)
MutantSpinning(k) ==
  /\ request[k] # None
  /\ request' = [request EXCEPT ![k] = None]
  /\ submitting' = Locked(k)
  /\ UNCHANGED <<offered, retiring, toasts, wallet>>

(* An error of the route or of the network: the dialog stays as it is.     *)
Rejected(k) ==
  /\ request[k] # None
  /\ request' = [request EXCEPT ![k] = None]
  /\ submitting' = Locked(k)
  /\ Dismissed(k)
  /\ UNCHANGED <<offered, retiring, wallet>>

(* A success closes the dialog of its page, whichever it is by then.       *)
Retired(k) ==
  /\ request[k] # None
  /\ IF request[k].here
     THEN /\ retiring' = None
          /\ submitting' = FALSE
          /\ request' = Disown([request EXCEPT ![k] = None], TRUE)
     ELSE /\ request' = [request EXCEPT ![k] = None]
          /\ UNCHANGED <<retiring, submitting>>
  /\ Dismissed(k)
  /\ UNCHANGED <<offered, wallet>>

(* The cross of a notification.                                            *)
Dismiss(k) ==
  /\ k \in toasts
  /\ Dismissed(k)
  /\ UNCHANGED <<offered, retiring, submitting, request, wallet>>

Leave ==
  /\ retiring' = None
  /\ submitting' = FALSE
  /\ request' = Disown(request, FALSE)
  /\ offered' = {}
  /\ UNCHANGED toasts

OnCertificates ==
  \/ List \/ PushParams
  \/ \E c \in Certificate : OpenDialog(c)
  \/ CloseDialog
  \/ \E k \in Request : Confirm(k)

InBackground ==
  \/ \E k \in Request : Rejected(k) \/ Retired(k)
  \/ \E k \in Request : Dismiss(k)

==============================================================================
