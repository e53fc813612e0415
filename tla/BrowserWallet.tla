---------------------------- MODULE BrowserWallet ----------------------------
(***************************************************************************)
(* The wallet hook of the web application (hooks/useWallet.ts).  Every     *)
(* component that calls useWallet() has a state of its own; what they      *)
(* share is one entry of sessionStorage.  The navigation bar, the gate of  *)
(* a protected page, the page and the proposal form call it.               *)
(*                                                                         *)
(* The Freighter extension is external: it answers isAllowed and a request *)
(* for access as the user decides, and with any of the user's accounts.    *)
(***************************************************************************)
EXTENDS Naturals

CONSTANTS Address, None

Component == {"navbar", "gate", "page", "form"}

ASSUME WalletAssumption == None \notin Address \cup Component

VARIABLES hook,      \* component -> the state of its useWallet()
          storage,   \* sessionStorage: the wallet last connected
          tasks,     \* restorations and connections in flight
          installed  \* whether the extension is there

wallet == <<hook, storage, tasks, installed>>

Unmounted == [mounted |-> FALSE, address |-> None, loading |-> FALSE]
Task == [kind: {"restore", "connect"}, of: Component \cup {None},
         address: Address \cup {None}]

WalletTypeOK ==
  /\ hook \in [Component -> [mounted: BOOLEAN, address: Address \cup {None},
                             loading: BOOLEAN]]
  /\ storage \in Address \cup {None}
  /\ tasks \in SUBSET Task
  /\ installed \in BOOLEAN

Connected(i) == hook[i].address # None
Ready(i) == hook[i].mounted /\ ~hook[i].loading

(* A gate shows its page while its own hook is connected.                  *)
GateOpen == Ready("gate") /\ Connected("gate")

(* A connection whose component is gone.                                   *)
Orphan == [kind |-> "connect", of |-> None, address |-> None]

(* Components leave and others come, the same ones perhaps.  One that      *)
(* comes begins to restore what is stored; what one that left has in       *)
(* flight goes on without it, and so do the other connections it awaits.   *)
Swap(leaving, coming, connecting) ==
  LET restoring == storage # None /\ installed
  IN /\ hook' = [i \in Component |->
                   IF i \in coming
                   THEN [mounted |-> TRUE, address |-> None, loading |-> restoring]
                   ELSE IF i \in leaving THEN Unmounted ELSE hook[i]]
     /\ tasks' = (IF connecting THEN {Orphan} ELSE {})
                   \cup {IF t.of \in leaving THEN [t EXCEPT !.of = None] ELSE t : t \in tasks}
                   \cup {[kind |-> "restore", of |-> i, address |-> storage] :
                           i \in IF restoring THEN coming ELSE {}}
     /\ UNCHANGED <<storage, installed>>

WalletInit ==
  /\ storage \in Address \cup {None}
  /\ installed \in BOOLEAN
  /\ LET restoring == storage # None /\ installed
     IN /\ hook = [i \in Component |->
                     IF i = "navbar" THEN [Unmounted EXCEPT !.mounted = TRUE, !.loading = restoring]
                     ELSE Unmounted]
        /\ tasks = {[kind |-> "restore", of |-> i, address |-> storage] :
                      i \in IF restoring THEN {"navbar"} ELSE {}}

Establish(i, address) ==
  hook' = IF i = None THEN hook ELSE [hook EXCEPT ![i].address = address]

(* isAllowed answers yes; or it answers no or throws.                      *)
Restored(t) ==
  /\ t.kind = "restore"
  /\ hook' = IF t.of = None THEN hook
             ELSE [hook EXCEPT ![t.of] =
                     [mounted |-> TRUE, address |-> t.address, loading |-> FALSE]]
  /\ tasks' = tasks \ {t}
  /\ UNCHANGED <<storage, installed>>

NotAllowed(t) ==
  /\ t.kind = "restore"
  /\ hook' = IF t.of = None THEN hook ELSE [hook EXCEPT ![t.of].loading = FALSE]
  /\ tasks' = tasks \ {t}
  /\ storage' = None
  /\ UNCHANGED installed

(* The buttons of the navigation bar and of the gate.                      *)
Connect(i) ==
  /\ i \in {"navbar", "gate"}
  /\ installed
  /\ Ready(i) /\ ~Connected(i)
  /\ tasks' = tasks \cup {[kind |-> "connect", of |-> i, address |-> None]}
  /\ UNCHANGED <<hook, storage, installed>>

AccessGiven(t, address) ==
  /\ t.kind = "connect"
  /\ Establish(t.of, address)
  /\ storage' = address
  /\ tasks' = tasks \ {t}
  /\ UNCHANGED installed

AccessRefused(t) ==
  /\ t.kind = "connect"
  /\ tasks' = tasks \ {t}
  /\ UNCHANGED <<hook, storage, installed>>

(* Only the navigation bar has a button for it.                            *)
Disconnect ==
  /\ Ready("navbar") /\ Connected("navbar")
  /\ hook' = [hook EXCEPT !["navbar"].address = None]
  /\ storage' = None
  /\ UNCHANGED <<tasks, installed>>

WalletNext ==
  \/ \E t \in tasks : \/ Restored(t) \/ NotAllowed(t) \/ AccessRefused(t)
                      \/ \E address \in Address : AccessGiven(t, address)
  \/ \E i \in Component : Connect(i)
  \/ Disconnect

==============================================================================
