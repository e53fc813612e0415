-------------------------- MODULE MeterRegistryProofs --------------------------
(***************************************************************************)
(* Theorems about MeterRegistry, for every set of serial numbers, of keys  *)
(* and of texts, finite or not, and every way to decode them.  That a text *)
(* has at most one row is said of its rows and not of their number.        *)
(***************************************************************************)
EXTENDS MeterRegistry, FiniteSetTheorems, TLAPS

(* A text that every check could judge has one row at most.                *)
OneRow(p) == \A s, t \in RowsOf(p) : s = t

(* One registration at a time comes to insert it, and only while it has    *)
(* no row.                                                                 *)
InsertsAlone(p) ==
  \A k \in Registration :
    At(k, "inserting") /\ registration[k].pubkey_hex = p =>
      /\ RowsOf(p) = {}
      /\ \A l \in Registration :
           At(l, "inserting") /\ registration[l].pubkey_hex = p => l = k

(* A revocation that was answered was made, and is never taken back.       *)
AnsweredAreRevoked == \A s \in answered : s \in Rows /\ ~meters[s].active

(* What a batch knows: the meters that were out when it began are those of *)
(* answered revocations, and of what it found, none is out and each has a  *)
(* row, of another text than those that are out unless that text was       *)
(* registered twice.                                                       *)
BatchKnows(b) ==
  /\ batch[b].out \subseteq answered
  /\ batch[b].stored \subseteq batch[b].found
  /\ ~batch[b].looked => batch[b].found = {}
  /\ \A s \in batch[b].found, t \in batch[b].out :
       s \in Rows /\ s # t /\ OtherwiseRegistered(s, t)

Inv ==
  /\ TypeOK
  /\ \A p \in Text \ blind : OneRow(p) /\ InsertsAlone(p)
  /\ AnsweredAreRevoked
  /\ \A b \in Batch : batch[b] # None => BatchKnows(b)

------------------------------------------------------------------------------
(* A text with one row at most is a duplicate exactly when it has a row:   *)
(* what maybeSingle answers is right for it.                               *)
LEMMA OneRowIsDuplicate ==
  ASSUME NEW p, OneRow(p)
  PROVE  ~Duplicate(p) => RowsOf(p) = {}
<1>1. CASE RowsOf(p) = {}
  BY <1>1
<1>2. CASE RowsOf(p) # {}
  <2>1. PICK s : RowsOf(p) = {s}
    BY <1>2 DEF OneRow
  <2>2. QED
    BY <2>1, FS_Singleton DEF Duplicate
<1>3. QED
  BY <1>1, <1>2

LEMMA InvImplies == Inv => DuplicatesExplained /\ RevokedKeyIsOut
<1>1. ASSUME Inv, NEW s \in Rows, NEW t \in Rows, s # t
      PROVE  OtherwiseRegistered(s, t)
  <2>1. meters[s].pubkey_hex \in Text
    BY <1>1, Assumption DEF Assumption, Inv, TypeOK, Rows, Row
  <2>2. QED
    BY <1>1, <2>1 DEF Inv, OneRow, RowsOf, OtherwiseRegistered
<1>2. Inv => RevokedKeyIsOut
  BY DEF Inv, RevokedKeyIsOut, BatchKnows
<1>3. QED
  BY <1>1, <1>2 DEF DuplicatesExplained

LEMMA InitInv == Init => Inv
BY Assumption DEF Assumption, Init, Inv, TypeOK, OneRow, InsertsAlone, AnsweredAreRevoked,
   Rows, RowsOf, At

LEMMA NextType == Inv /\ [Next]_vars => TypeOK'
<1> SUFFICES ASSUME Inv, [Next]_vars PROVE TypeOK'
  OBVIOUS
<1> USE Assumption DEF Assumption
<1>1. TypeOK
  BY DEF Inv
<1>2. ASSUME NEW k \in Registration, NEW s \in Serial, NEW text \in Text, Post(k, s, text)
      PROVE  TypeOK'
  BY <1>1, <1>2 DEF Post, TypeOK, Rows
<1>3. ASSUME NEW k \in Registration, RequireAuth(k) PROVE TypeOK'
  BY <1>1, <1>3 DEF RequireAuth, TypeOK, Rows, At, Goto, Ends
<1>4. ASSUME NEW k \in Registration, Check(k) PROVE TypeOK'
  BY <1>1, <1>4 DEF Check, TypeOK, Rows, At, Goto, Ends
<1>5. ASSUME NEW k \in Registration, CheckFails(k) PROVE TypeOK'
  BY <1>1, <1>5 DEF CheckFails, TypeOK, Rows, At, Goto
<1>6. ASSUME NEW k \in Registration, Insert(k) PROVE TypeOK'
  BY <1>1, <1>6 DEF Insert, TypeOK, Rows, Row, NewRow, At, Ends
<1>7. ASSUME NEW k \in Registration, InsertFails(k) PROVE TypeOK'
  BY <1>1, <1>7 DEF InsertFails, TypeOK, Rows, At, Ends
<1>8. ASSUME NEW s \in Serial, Revoke(s) PROVE TypeOK'
  BY <1>1, <1>8 DEF Revoke, TypeOK, Rows, Row
<1>9. ASSUME NEW s \in Serial, RevokeAnswered(s) PROVE TypeOK'
  BY <1>1, <1>9 DEF RevokeAnswered, TypeOK, Rows
<1>10. ASSUME NEW b \in Batch, Begin(b) PROVE TypeOK'
  BY <1>1, <1>10 DEF Begin, TypeOK, Rows
<1>11. ASSUME NEW b \in Batch, Lookup(b) PROVE TypeOK'
  <2>1. PICK named \in SUBSET Serial :
          batch' = [batch EXCEPT ![b] =
                      [looked |-> TRUE, out |-> batch[b].out,
                       found |-> named \cap InUse, stored |-> batch[b].stored]]
    BY <1>11 DEF Lookup
  <2>2. named \cap InUse \in SUBSET Serial
    BY DEF InUse, Rows
  <2>3. batch[b].out \in SUBSET Serial /\ batch[b].stored \in SUBSET Serial
    BY <1>1, <1>11 DEF Lookup, TypeOK
  <2>4. batch' \in [Batch -> [looked: BOOLEAN, out: SUBSET Serial,
                             found: SUBSET Serial, stored: SUBSET Serial] \cup {None}]
    BY <1>1, <2>1, <2>2, <2>3 DEF TypeOK
  <2>5. QED
    BY <1>1, <1>11, <2>4 DEF Lookup, TypeOK, Rows
<1>12. ASSUME NEW b \in Batch, NEW s \in Serial, Store(b, s) PROVE TypeOK'
  BY <1>1, <1>12 DEF Store, TypeOK, Rows
<1>13. ASSUME NEW b \in Batch, BatchEnds(b) PROVE TypeOK'
  BY <1>1, <1>13 DEF BatchEnds, TypeOK, Rows
<1>14. CASE UNCHANGED vars
  BY <1>1, <1>14 DEF vars, TypeOK, Rows
<1>15. QED
  BY <1>2, <1>3, <1>4, <1>5, <1>6, <1>7, <1>8, <1>9, <1>10, <1>11, <1>12, <1>13, <1>14
  DEF Next


------------------------------------------------------------------------------
(* What an insertion and a revocation do to the rows.                      *)
LEMMA InsertRows ==
  ASSUME TypeOK, NEW k \in Registration, Insert(k)
  PROVE  /\ registration[k].serial \in Serial \ Rows
         /\ registration[k].pubkey_hex \in Text
         /\ Rows' = Rows \cup {registration[k].serial}
         /\ \A s \in Rows : meters'[s] = meters[s]
         /\ \A p : RowsOf(p)' = RowsOf(p) \cup IF p = registration[k].pubkey_hex
                                               THEN {registration[k].serial} ELSE {}
<1> DEFINE s == registration[k].serial
           p == registration[k].pubkey_hex
<1>1. s \in Serial \ Rows /\ p \in Text
  BY DEF Insert, TypeOK, At, Rows
<1>2. NewRow(p) \in Row /\ NewRow(p).pubkey_hex = p
  BY <1>1 DEF NewRow, Row
<1>3. meters' = [meters EXCEPT ![s] = NewRow(p)] /\ meters'[s] = NewRow(p)
  BY <1>1 DEF Insert, TypeOK
<1>4. Rows' = Rows \cup {s} /\ \A t \in Rows : meters'[t] = meters[t]
  BY <1>1, <1>2, <1>3, Assumption DEF Assumption, Rows, TypeOK
<1>5. ASSUME NEW q
      PROVE  RowsOf(q)' = RowsOf(q) \cup IF q = p THEN {s} ELSE {}
  <2>1. ASSUME NEW t
        PROVE  t \in RowsOf(q)' <=> t \in RowsOf(q) \/ (t = s /\ q = p)
    <3>1. CASE t = s
      BY <1>1, <1>2, <1>3, <1>4, <3>1 DEF RowsOf
    <3>2. CASE t # s
      BY <1>4, <3>2 DEF RowsOf
    <3>3. QED
      BY <3>1, <3>2
  <2>2. QED
    BY <2>1
<1>6. QED
  BY <1>1, <1>4, <1>5

LEMMA RevokeRows ==
  ASSUME TypeOK, NEW s \in Serial, Revoke(s)
  PROVE  /\ Rows' = Rows
         /\ \A t \in Rows : /\ meters'[t].pubkey_hex = meters[t].pubkey_hex
                            /\ ~meters[t].active => ~meters'[t].active
         /\ \A p : RowsOf(p)' = RowsOf(p)
<1>1. PICK row \in Row : meters[s] = row
  BY Assumption DEF Assumption, Revoke, Rows, TypeOK
<1>2. meters' = [meters EXCEPT ![s] = [row EXCEPT !.active = FALSE]]
  BY <1>1 DEF Revoke
<1>3. /\ [row EXCEPT !.active = FALSE] \in Row
      /\ [row EXCEPT !.active = FALSE].pubkey_hex = row.pubkey_hex
      /\ [row EXCEPT !.active = FALSE].active = FALSE
  BY <1>1 DEF Row
<1>4. Rows' = Rows
  BY <1>1, <1>2, <1>3, Assumption DEF Assumption, Rows, TypeOK
<1>5. \A t \in Rows : /\ meters'[t].pubkey_hex = meters[t].pubkey_hex
                      /\ ~meters[t].active => ~meters'[t].active
  BY <1>1, <1>2, <1>3 DEF Rows, TypeOK
<1>6. QED
  BY <1>4, <1>5 DEF RowsOf

(* The steps that leave the table alone and let no registration insert.    *)
Quiet ==
  /\ UNCHANGED meters
  /\ blind \subseteq blind'
  /\ \A l \in Registration :
       At(l, "inserting")' => At(l, "inserting") /\ registration'[l] = registration[l]

LEMMA QuietKeepsKeys ==
  ASSUME Inv, Quiet
  PROVE  \A p \in Text \ blind' : OneRow(p)' /\ InsertsAlone(p)'
BY DEF Inv, Quiet, OneRow, InsertsAlone, RowsOf, Rows

LEMMA NextKeys ==
  ASSUME Inv, [Next]_vars
  PROVE  \A p \in Text \ blind' : OneRow(p)' /\ InsertsAlone(p)'
<1>0. TypeOK
  BY DEF Inv
<1>1. ASSUME NEW k \in Registration, NEW s \in Serial, NEW text \in Text, Post(k, s, text)
      PROVE  Quiet
  BY <1>0, <1>1 DEF Post, Quiet, At, TypeOK
<1>2. ASSUME NEW k \in Registration, RequireAuth(k) PROVE Quiet
  BY <1>0, <1>2 DEF RequireAuth, Quiet, At, Goto, Ends, TypeOK
<1>3. ASSUME NEW k \in Registration, Check(k)
      PROVE  \A p \in Text \ blind' : OneRow(p)' /\ InsertsAlone(p)'
  <2>1. CASE Duplicate(registration[k].pubkey_hex)
    <3>1. Quiet
      BY <1>0, <1>3, <2>1 DEF Check, Quiet, At, Ends, TypeOK
    <3>2. QED
      BY <3>1, QuietKeepsKeys
  <2>2. CASE ~Duplicate(registration[k].pubkey_hex)
    <3> TAKE p \in Text \ blind'
    <3>1. p \notin blind /\ OneRow(p) /\ InsertsAlone(p) /\ RowsOf(p)' = RowsOf(p)
      BY <1>3 DEF Check, Inv, RowsOf, Rows
    <3>2. OneRow(p)'
      BY <3>1 DEF OneRow
    <3>3. CASE registration[k].pubkey_hex # p
      <4>1. /\ \A l \in Registration : l # k => registration'[l] = registration[l]
            /\ registration'[k].pubkey_hex = registration[k].pubkey_hex
        BY <1>0, <1>3, <2>2 DEF Check, Goto, At, TypeOK
      <4>2. QED
        BY <3>1, <3>2, <3>3, <4>1 DEF InsertsAlone, At
    <3>4. CASE registration[k].pubkey_hex = p
      <4>1. RowsOf(p) = {}
        BY <2>2, <3>1, <3>4, OneRowIsDuplicate
      <4>2. \A l \in Registration :
              ~(At(l, "inserting") /\ registration[l].pubkey_hex = p)
        BY <1>3, <3>4 DEF Check
      <4>3. \A l \in Registration : l # k => registration'[l] = registration[l]
        BY <1>0, <1>3, <2>2 DEF Check, Goto, TypeOK
      <4>4. QED
        BY <3>1, <3>2, <4>1, <4>2, <4>3 DEF InsertsAlone, At
    <3>5. QED
      BY <3>2, <3>3, <3>4
  <2>3. QED
    BY <2>1, <2>2
<1>4. ASSUME NEW k \in Registration, CheckFails(k)
      PROVE  \A p \in Text \ blind' : OneRow(p)' /\ InsertsAlone(p)'
  <2> TAKE p \in Text \ blind'
  <2>1. /\ p \notin blind /\ registration[k].pubkey_hex # p
        /\ OneRow(p) /\ InsertsAlone(p) /\ RowsOf(p)' = RowsOf(p)
    BY <1>4 DEF CheckFails, Inv, RowsOf, Rows
  <2>2. /\ \A l \in Registration : l # k => registration'[l] = registration[l]
        /\ registration'[k].pubkey_hex # p
    BY <1>0, <1>4, <2>1 DEF CheckFails, Goto, At, TypeOK
  <2>3. QED
    BY <2>1, <2>2 DEF OneRow, InsertsAlone, At
<1>5. ASSUME NEW k \in Registration, Insert(k)
      PROVE  \A p \in Text \ blind' : OneRow(p)' /\ InsertsAlone(p)'
  <2> TAKE p \in Text \ blind'
  <2>1. p \notin blind /\ OneRow(p) /\ InsertsAlone(p)
    BY <1>5 DEF Insert, Inv
  <2>2. /\ \A l \in Registration : l # k => registration'[l] = registration[l]
        /\ registration'[k] = None
        /\ At(k, "inserting")
    BY <1>0, <1>5 DEF Insert, Ends, TypeOK
  <2>3. CASE registration[k].pubkey_hex # p
    BY <1>0, <1>5, <2>1, <2>2, <2>3, InsertRows DEF OneRow, InsertsAlone, At
  <2>4. CASE registration[k].pubkey_hex = p
    <3>1. RowsOf(p) = {}
      BY <2>1, <2>2, <2>4 DEF InsertsAlone
    <3>2. RowsOf(p)' = RowsOf(p) \cup {registration[k].serial}
      BY <1>0, <1>5, <2>4, InsertRows
    <3>3. \A l \in Registration : ~(At(l, "inserting")' /\ registration'[l].pubkey_hex = p)
      BY <2>1, <2>2, <2>4 DEF InsertsAlone, At
    <3>4. QED
      BY <3>1, <3>2, <3>3 DEF OneRow, InsertsAlone
  <2>5. QED
    BY <2>3, <2>4
<1>6. ASSUME NEW k \in Registration, InsertFails(k) PROVE Quiet
  BY <1>0, <1>6 DEF InsertFails, Quiet, At, Ends, TypeOK
<1>7. ASSUME NEW s \in Serial, Revoke(s)
      PROVE  \A p \in Text \ blind' : OneRow(p)' /\ InsertsAlone(p)'
  <2>1. UNCHANGED <<registration, blind>> /\ \A p : RowsOf(p)' = RowsOf(p)
    BY <1>0, <1>7, RevokeRows DEF Revoke
  <2>2. QED
    BY <2>1 DEF Inv, OneRow, InsertsAlone, At
<1>8. ASSUME NEW s \in Serial, RevokeAnswered(s) PROVE Quiet
  BY <1>8 DEF RevokeAnswered, Quiet, At
<1>9. ASSUME NEW b \in Batch, \/ Begin(b) \/ Lookup(b) \/ BatchEnds(b)
                             \/ \E s \in Serial : Store(b, s)
      PROVE  Quiet
  BY <1>9 DEF Begin, Lookup, BatchEnds, Store, Quiet, At
<1>10. CASE UNCHANGED vars
  <2>1. Quiet
    BY <1>10 DEF vars, Quiet, At
  <2>2. QED
    BY <2>1, QuietKeepsKeys
<1>11. QED
  BY <1>1, <1>2, <1>3, <1>4, <1>5, <1>6, <1>7, <1>8, <1>9, <1>10, QuietKeepsKeys DEF Next

------------------------------------------------------------------------------
(* What the steps of registrations and revocations keep of the table: rows *)
(* stay, with their keys, and what is revoked stays revoked.               *)
TableGrows ==
  /\ Rows \subseteq Rows'
  /\ \A s \in Rows : /\ meters'[s].pubkey_hex = meters[s].pubkey_hex
                     /\ ~meters[s].active => ~meters'[s].active
  /\ blind \subseteq blind'

LEMMA NextTableGrows ==
  ASSUME Inv, [Next]_vars
  PROVE  TableGrows
<1>0. TypeOK
  BY DEF Inv
<1>1. ASSUME NEW k \in Registration, Insert(k) PROVE TableGrows
  <2>1. blind' = blind
    BY <1>1 DEF Insert
  <2>2. QED
    BY <1>0, <1>1, <2>1, InsertRows DEF TableGrows
<1>2. ASSUME NEW s \in Serial, Revoke(s) PROVE TableGrows
  <2>1. blind' = blind
    BY <1>2 DEF Revoke
  <2>2. QED
    BY <1>0, <1>2, <2>1, RevokeRows DEF TableGrows
<1>3. ASSUME UNCHANGED meters, blind \subseteq blind' PROVE TableGrows
  BY <1>3 DEF TableGrows, Rows
<1>4. ASSUME NEW k \in Registration,
             \/ RequireAuth(k) \/ Check(k) \/ CheckFails(k) \/ InsertFails(k)
             \/ \E s \in Serial, text \in Text : Post(k, s, text)
      PROVE  UNCHANGED meters /\ blind \subseteq blind'
  BY <1>4 DEF RequireAuth, Check, CheckFails, InsertFails, Post
<1>5. ASSUME NEW s \in Serial, RevokeAnswered(s)
      PROVE  UNCHANGED meters /\ blind \subseteq blind'
  BY <1>5 DEF RevokeAnswered
<1>6. ASSUME NEW b \in Batch, \/ Begin(b) \/ Lookup(b) \/ BatchEnds(b)
                             \/ \E s \in Serial : Store(b, s)
      PROVE  UNCHANGED meters /\ blind \subseteq blind'
  BY <1>6 DEF Begin, Lookup, BatchEnds, Store
<1>7. CASE UNCHANGED vars
  BY <1>3, <1>7 DEF vars
<1>8. QED
  BY <1>1, <1>2, <1>3, <1>4, <1>5, <1>6, <1>7 DEF Next

LEMMA NextAnswered ==
  ASSUME Inv, [Next]_vars
  PROVE  AnsweredAreRevoked' /\ answered \subseteq answered'
<1>1. TableGrows /\ AnsweredAreRevoked
  BY NextTableGrows DEF Inv
<1>2. CASE UNCHANGED answered
  BY <1>1, <1>2 DEF TableGrows, AnsweredAreRevoked
<1>3. ASSUME NEW s \in Serial, RevokeAnswered(s)
      PROVE  AnsweredAreRevoked' /\ answered \subseteq answered'
  BY <1>1, <1>3 DEF RevokeAnswered, AnsweredAreRevoked, Rows
<1>4. (\E s \in Serial : RevokeAnswered(s)) \/ UNCHANGED answered
  BY DEF Next, vars, Post, RequireAuth, Check, CheckFails, Insert, InsertFails, Revoke,
         Begin, Lookup, BatchEnds, Store
<1>5. QED
  BY <1>2, <1>3, <1>4

(* A batch that does not move goes on knowing what it knew.                *)
LEMMA StillKnows ==
  ASSUME Inv, [Next]_vars, NEW b \in Batch, batch[b] # None, batch'[b] = batch[b]
  PROVE  BatchKnows(b)'
<1>1. /\ TableGrows /\ answered \subseteq answered' /\ AnsweredAreRevoked
      /\ BatchKnows(b)
  BY NextTableGrows, NextAnswered DEF Inv
<1>2. ASSUME NEW s \in batch'[b].found, NEW t \in batch'[b].out
      PROVE  s \in Rows' /\ s # t /\ OtherwiseRegistered(s, t)'
  <2>1. s \in Rows /\ t \in Rows /\ s # t /\ OtherwiseRegistered(s, t)
    BY <1>1, <1>2 DEF BatchKnows, AnsweredAreRevoked
  <2>2. QED
    BY <1>1, <2>1 DEF TableGrows, OtherwiseRegistered
<1>3. QED
  BY <1>1, <1>2 DEF BatchKnows

LEMMA NextBatches ==
  ASSUME Inv, [Next]_vars
  PROVE  \A b \in Batch : batch'[b] # None => BatchKnows(b)'
<1> TAKE b \in Batch
<1> HAVE batch'[b] # None
<1>0. /\ TypeOK /\ AnsweredAreRevoked
      /\ \A p \in Text \ blind : OneRow(p)
      /\ batch[b] # None => BatchKnows(b)
  BY DEF Inv
<1>1. ASSUME NEW c \in Batch, Begin(c) PROVE BatchKnows(b)'
  <2>1. CASE b = c
    <3>1. /\ batch'[b] = [looked |-> FALSE, out |-> answered, found |-> {},
                          stored |-> {}]
          /\ UNCHANGED <<meters, answered>>
      BY <1>0, <1>1, <2>1 DEF Begin, TypeOK
    <3>2. QED
      BY <3>1 DEF BatchKnows
  <2>2. CASE b # c
    BY <1>0, <1>1, <2>2, StillKnows DEF Begin, TypeOK
  <2>3. QED
    BY <2>1, <2>2
<1>2. ASSUME NEW c \in Batch, Lookup(c) PROVE BatchKnows(b)'
  <2>1. CASE b = c
    <3>1. PICK named \in SUBSET Serial :
            batch'[b] = [looked |-> TRUE, out |-> batch[b].out,
                         found |-> named \cap InUse, stored |-> batch[b].stored]
      BY <1>0, <1>2, <2>1 DEF Lookup, TypeOK
    <3>2. /\ batch[b] # None /\ batch[b].stored = {} /\ BatchKnows(b)
          /\ UNCHANGED <<meters, answered, blind>>
      BY <1>0, <1>2, <2>1 DEF Lookup, BatchKnows
    <3>3. ASSUME NEW s \in InUse, NEW t \in batch[b].out
          PROVE  s \in Rows /\ s # t /\ OtherwiseRegistered(s, t)
      <4>1. s \in Rows /\ t \in Rows /\ s # t
        BY <1>0, <3>2, <3>3 DEF BatchKnows, AnsweredAreRevoked, InUse
      <4>2. meters[s].pubkey_hex \in Text
        BY <1>0, <4>1, Assumption DEF Assumption, TypeOK, Rows, Row
      <4>3. QED
        BY <1>0, <4>1, <4>2 DEF OneRow, RowsOf, OtherwiseRegistered
    <3>4. Rows' = Rows
      BY <3>2 DEF Rows
    <3>5. QED
      BY <3>1, <3>2, <3>3, <3>4 DEF BatchKnows, OtherwiseRegistered
  <2>2. CASE b # c
    BY <1>0, <1>2, <2>2, StillKnows DEF Lookup, TypeOK
  <2>3. QED
    BY <2>1, <2>2
<1>3. ASSUME NEW c \in Batch, NEW s \in Serial, Store(c, s) PROVE BatchKnows(b)'
  <2>1. CASE b = c
    <3>1. /\ batch'[b] = [batch[b] EXCEPT !.stored = @ \cup {s}]
          /\ batch[b] # None /\ s \in batch[b].found
          /\ UNCHANGED <<meters, answered, blind>>
      BY <1>0, <1>3, <2>1 DEF Store, TypeOK
    <3>2. batch[b] \in [looked: BOOLEAN, out: SUBSET Serial,
                        found: SUBSET Serial, stored: SUBSET Serial]
      BY <1>0, <3>1 DEF TypeOK
    <3>3. /\ batch'[b].out = batch[b].out /\ batch'[b].found = batch[b].found
          /\ batch'[b].looked = batch[b].looked
          /\ batch'[b].stored = batch[b].stored \cup {s}
      BY <3>1, <3>2
    <3>4. QED
      BY <1>0, <3>1, <3>3 DEF BatchKnows, Rows, OtherwiseRegistered
  <2>2. CASE b # c
    BY <1>0, <1>3, <2>2, StillKnows DEF Store, TypeOK
  <2>3. QED
    BY <2>1, <2>2
<1>4. ASSUME NEW c \in Batch, BatchEnds(c) PROVE BatchKnows(b)'
  <2>1. b # c /\ batch'[b] = batch[b]
    BY <1>0, <1>4 DEF BatchEnds, TypeOK
  <2>2. QED
    BY <2>1, StillKnows
<1>5. CASE UNCHANGED batch
  BY <1>5, StillKnows
<1>6. QED
  BY <1>1, <1>2, <1>3, <1>4, <1>5
  DEF Next, vars, Post, RequireAuth, Check, CheckFails, Insert, InsertFails, Revoke,
      RevokeAnswered

------------------------------------------------------------------------------
LEMMA SpecInv == Spec => []Inv
<1>1. Inv /\ [Next]_vars => Inv'
  BY NextType, NextKeys, NextAnswered, NextBatches DEF Inv
<1>2. QED
  BY <1>1, InitInv, PTL DEF Spec

(* TypeOK holds of every reachable state: the table has at most one row    *)
(* per serial number, and an answered revocation is of a meter in it.      *)
THEOREM TypeCorrect == Spec => []TypeOK
<1>1. Inv => TypeOK
  BY DEF Inv
<1>2. QED
  BY <1>1, SpecInv, PTL

(* Two meters share a key only by another spelling of it or behind a blind *)
(* check: the select and the insert of POST meters let nothing else through.*)
THEOREM DuplicatesAreExplained == Spec => []DuplicatesExplained
BY InvImplies, SpecInv, PTL

(* A batch that begins after a revocation was answered stores no reading   *)
(* of that meter, and one that its key signed only as the reading of       *)
(* another meter, which spells the key differently or that a blind check   *)
(* let in.                                                                 *)
THEOREM RevokedKeysAreOut == Spec => []RevokedKeyIsOut
BY InvImplies, SpecInv, PTL

==============================================================================
