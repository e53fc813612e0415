------------------------------ MODULE MetersPage ------------------------------
(***************************************************************************)
(* The meters page (app/meters/page.tsx): its list, the form that          *)
(* registers a meter and the dialog that revokes one.  The routes are      *)
(* external: they answer with the meters that are active, and a            *)
(* registration or a revocation with success or an error.                  *)
(***************************************************************************)
EXTENDS BrowserWallet

CONSTANT Meter

ASSUME MetersAssumption == None \notin Meter

VARIABLES listed,       \* query cache: the meters shown as active
          revokeTarget, \* the meter the dialog is about, if it is open
          revoking,     \* the meter of the revocation in flight
          filled,       \* whether the form has its fields filled in
          registering   \* whether a registration is in flight

metersPage == <<listed, revokeTarget, revoking, filled, registering>>

MetersTypeOK ==
  /\ listed \in SUBSET Meter
  /\ revokeTarget \in Meter \cup {None}
  /\ revoking \in Meter \cup {None}
  /\ filled \in BOOLEAN
  /\ registering \in BOOLEAN

MetersInit ==
  /\ listed = {}
  /\ revokeTarget = None
  /\ revoking = None
  /\ filled = FALSE
  /\ registering = FALSE

FetchMeters ==
  /\ listed' \in SUBSET Meter
  /\ UNCHANGED <<revokeTarget, revoking, filled, registering>>

(* The list has a button for a meter that is active.                       *)
AskRevoke(m) ==
  /\ GateOpen
  /\ m \in listed
  /\ revokeTarget' = m
  /\ UNCHANGED <<listed, revoking, filled, registering>>

(* Both buttons of the dialog are disabled while a revocation is pending.  *)
DialogFree == revokeTarget # None /\ revoking = None

ConfirmRevoke ==
  /\ DialogFree
  /\ revoking' = revokeTarget
  /\ UNCHANGED <<listed, revokeTarget, filled, registering>>

CancelRevoke ==
  /\ DialogFree
  /\ revokeTarget' = None
  /\ UNCHANGED <<listed, revoking, filled, registering>>

(* A response that is not ok is an error, like one that never comes.       *)
Outcome == {TRUE, FALSE}

RevokeEnds(succeeds) ==
  /\ revoking # None
  /\ revoking' = None
  /\ revokeTarget' = IF succeeds THEN None ELSE revokeTarget
  /\ UNCHANGED <<listed, filled, registering>>

Fill ==
  /\ GateOpen
  /\ filled' = TRUE
  /\ UNCHANGED <<listed, revokeTarget, revoking, registering>>

MayRegister == filled /\ ~registering

Register ==
  /\ MayRegister
  /\ registering' = TRUE
  /\ UNCHANGED <<listed, revokeTarget, revoking, filled>>

(* A success empties the form, also of what was typed since.               *)
RegisterEnds(succeeds) ==
  /\ registering
  /\ registering' = FALSE
  /\ filled' = (filled /\ ~succeeds)
  /\ UNCHANGED <<listed, revokeTarget, revoking>>

LeaveMeters ==
  /\ revokeTarget' = None
  /\ revoking' = None
  /\ filled' = FALSE
  /\ registering' = FALSE
  /\ listed' = {}

OnMeters ==
  \/ FetchMeters
  \/ \E m \in Meter : AskRevoke(m)
  \/ ConfirmRevoke \/ CancelRevoke
  \/ Fill \/ Register
  \/ \E succeeds \in Outcome : RevokeEnds(succeeds) \/ RegisterEnds(succeeds)

==============================================================================
