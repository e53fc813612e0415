---------------------------- MODULE MeterRegistry ----------------------------
(***************************************************************************)
(* The meters table as its routes and the batch route use it: registration *)
(* (app/api/meters/route.ts), revocation (app/api/meters/[id]/revoke) and  *)
(* the lookup that decides whose readings a batch stores.                  *)
(*                                                                         *)
(* serial_number is unique, pubkey_hex is not: a registration selects the  *)
(* row of its key and then inserts, in two calls.  A row is named by its   *)
(* serial number, the fields no route looks at are left out.               *)
(*                                                                         *)
(* The table keeps a key as the text it was sent as, of any 64 characters, *)
(* and compares that text; the batch route decodes it as hexadecimal, in   *)
(* which upper and lower case are one, and other characters are no key.    *)
(*                                                                         *)
(* Who is an operator is the answer of Supabase Auth, which is external,   *)
(* as is the database: a call of it may fail.                              *)
(***************************************************************************)
EXTENDS Naturals, FiniteSets

CONSTANTS Serial, Pubkey,
          Text,           \* what a key may be sent as
          KeyOf,          \* the key that a text decodes to, or None
          Registration,   \* registrations in progress together
          Batch,          \* batches in progress together
          None

Row == [pubkey_hex: Text, active: BOOLEAN]

ASSUME Assumption ==
  /\ None \notin Row
  /\ KeyOf \in [Text -> Pubkey \cup {None}]

VARIABLES meters,        \* the table
          registration,
          batch,
          answered,      \* history: meters whose revocation was answered
          blind          \* history: texts that a check could not judge

vars == <<meters, registration, batch, answered, blind>>

Rows == {s \in Serial : meters[s] # None}
RowsOf(text) == {s \in Rows : meters[s].pubkey_hex = text}

TypeOK ==
  /\ meters \in [Serial -> Row \cup {None}]
  /\ registration \in [Registration ->
       [stage: {"authorising", "checking", "inserting"}, serial: Serial, pubkey_hex: Text]
         \cup {None}]
  /\ batch \in [Batch -> [looked: BOOLEAN, out: SUBSET Serial,
                          found: SUBSET Serial, stored: SUBSET Serial] \cup {None}]
  /\ answered \in SUBSET Rows
  /\ blind \in SUBSET Text

Init ==
  /\ meters = [s \in Serial |-> None]
  /\ registration = [k \in Registration |-> None]
  /\ batch = [b \in Batch |-> None]
  /\ answered = {}
  /\ blind = {}

At(k, stage) == registration[k] # None /\ registration[k].stage = stage
Goto(k, stage) == registration' = [registration EXCEPT ![k].stage = stage]
Ends(k) == registration' = [registration EXCEPT ![k] = None]

------------------------------------------------------------------------------
(* POST meters, with a Bearer token; one without it is refused at once.    *)
Post(k, s, text) ==
  /\ registration[k] = None
  /\ registration' = [registration EXCEPT ![k] =
                        [stage |-> "authorising", serial |-> s, pubkey_hex |-> text]]
  /\ UNCHANGED <<meters, batch, answered, blind>>

(* getUser knows the token and the body parses; or one of them is refused. *)
RequireAuth(k) ==
  /\ At(k, "authorising")
  /\ Goto(k, "checking") \/ Ends(k)
  /\ UNCHANGED <<meters, batch, answered, blind>>

(* A check that looks for meters in use only.                              *)
MutantDuplicate(text) ==
  Cardinality(RowsOf(text)) = 1 /\ \A s \in RowsOf(text) : meters[s].active

(* maybeSingle answers the row if there is one, and no row if there are    *)
(* several: that is an error, and the error is not looked at.              *)
Duplicate(text) == Cardinality(RowsOf(text)) = 1

(* A check is blind when another registration of the text has passed its   *)
(* own and not inserted yet.                                               *)
Check(k) ==
  LET text == registration[k].pubkey_hex IN
  /\ At(k, "checking")
  /\ IF Duplicate(text) THEN Ends(k) ELSE Goto(k, "inserting")
  /\ blind' = IF \E l \in Registration :
                   At(l, "inserting") /\ registration[l].pubkey_hex = text
              THEN blind \cup {text} ELSE blind
  /\ UNCHANGED <<meters, batch, answered>>

(* A select that fails answers no row either.                              *)
CheckFails(k) ==
  /\ At(k, "checking")
  /\ Goto(k, "inserting")
  /\ blind' = blind \cup {registration[k].pubkey_hex}
  /\ UNCHANGED <<meters, batch, answered>>

(* A row without the fields of the request.                                *)
MutantNewRow(text) == [pubkey_hex |-> None, active |-> TRUE]
NewRow(text) == [pubkey_hex |-> text, active |-> TRUE]

Insert(k) ==
  LET r == registration[k] IN
  /\ At(k, "inserting")
  /\ meters[r.serial] = None
  /\ meters' = [meters EXCEPT ![r.serial] = NewRow(r.pubkey_hex)]
  /\ Ends(k)
  /\ UNCHANGED <<batch, answered, blind>>

(* The serial number is taken, or the database fails.                      *)
InsertFails(k) ==
  /\ At(k, "inserting")
  /\ Ends(k)
  /\ UNCHANGED <<meters, batch, answered, blind>>

------------------------------------------------------------------------------
(* PATCH revoke: the update, of a revoked meter too, and its answer, which *)
(* may never arrive.                                                       *)
Revoke(s) ==
  /\ s \in Rows
  /\ meters' = [meters EXCEPT ![s].active = FALSE]
  /\ UNCHANGED <<registration, batch, answered, blind>>

RevokeAnswered(s) ==
  /\ s \in Rows /\ ~meters[s].active
  /\ answered' = answered \cup {s}
  /\ UNCHANGED <<meters, registration, batch, blind>>

------------------------------------------------------------------------------
(* POST readings/batch: a batch begins, looks up its meters once, and      *)
(* stores the readings of those it found that their keys have signed.      *)
Begin(b) ==
  /\ batch[b] = None
  /\ batch' = [batch EXCEPT ![b] =
                 [looked |-> FALSE, out |-> answered, found |-> {},
                  stored |-> {}]]
  /\ UNCHANGED <<meters, registration, answered, blind>>

(* A lookup without the condition on `active`.                             *)
MutantInUse == Rows
InUse == {s \in Rows : meters[s].active}

(* What it finds of the meters it names; nothing when the select fails.    *)
Lookup(b) ==
  /\ batch[b] # None /\ ~batch[b].looked
  /\ \E named \in SUBSET Serial :
       batch' = [batch EXCEPT ![b] =
                   [looked |-> TRUE, out |-> @.out,
                    found |-> named \cap InUse, stored |-> @.stored]]
  /\ UNCHANGED <<meters, registration, answered, blind>>

(* verifyAsync refuses every signature for a text that is no key.          *)
Key(s) == KeyOf[meters[s].pubkey_hex]

Store(b, s) ==
  /\ batch[b] # None
  /\ s \in batch[b].found
  /\ Key(s) # None
  /\ batch' = [batch EXCEPT ![b].stored = @ \cup {s}]
  /\ UNCHANGED <<meters, registration, answered, blind>>

BatchEnds(b) ==
  /\ batch[b] # None
  /\ batch' = [batch EXCEPT ![b] = None]
  /\ UNCHANGED <<meters, registration, answered, blind>>

Next ==
  \/ \E k \in Registration, s \in Serial, text \in Text : Post(k, s, text)
  \/ \E k \in Registration :
       RequireAuth(k) \/ Check(k) \/ CheckFails(k) \/ Insert(k) \/ InsertFails(k)
  \/ \E s \in Serial : Revoke(s) \/ RevokeAnswered(s)
  \/ \E b \in Batch : Begin(b) \/ Lookup(b) \/ BatchEnds(b)
  \/ \E b \in Batch, s \in Serial : Store(b, s)

Spec == Init /\ [][Next]_vars

------------------------------------------------------------------------------
(* Two meters have one key only if they spell it differently, or if a      *)
(* check could not judge its text: two registrations overlapped between    *)
(* check and insert, or a select failed.  (That it takes no overlap to     *)
(* register a key twice is the code's doing: the check compares texts.)  A *)
(* revoked meter keeps its text out as one in use does.                    *)
OtherwiseRegistered(s, t) ==
  \/ meters[s].pubkey_hex # meters[t].pubkey_hex
  \/ meters[s].pubkey_hex \in blind
DuplicatesExplained ==
  \A s, t \in Rows :
    s # t /\ Key(s) = Key(t) /\ Key(s) # None => OtherwiseRegistered(s, t)

(* Once the revocation of a meter is answered, a batch that begins later   *)
(* stores no reading of that meter, however its steps and those of other   *)
(* requests interleave; and it stores one signed with its key only as a    *)
(* reading of another meter, where the key is spelled differently or was   *)
(* let in by a blind check.  A batch that began earlier may still store.   *)
RevokedKeyIsOut ==
  \A b \in Batch : batch[b] # None =>
    \A s \in batch[b].stored, t \in batch[b].out :
      s # t /\ (Key(s) = Key(t) => OtherwiseRegistered(s, t))

==============================================================================
