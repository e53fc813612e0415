-------------------------- MODULE CertificatesProofs --------------------------
(***************************************************************************)
(* Theorems about Certificates, for any number of certificates, wallets,   *)
(* lookups and requests in flight together.                                *)
(***************************************************************************)
EXTENDS Certificates, TLAPS

(* What is shown of a certificate, by its row, by a request that loaded it, *)
(* and by the cache.                                                       *)
MarkedWasBurned ==
  \A c \in Certificate : row[c] \in Wallet => burns[c][row[c]] > 0

Burned(id, chain) == chain \in Wallet => burns[CertificateOf[id]][chain] > 0
LoadedWasBurned ==
  \A r \in Reader :
    reader[r] # None /\ reader[r].at = "loaded" => Burned(reader[r].id, reader[r].chain)
CachedWasBurned ==
  \A id \in Lookup : cache[id] # None => Burned(id, cache[id].value)

(* A request that is about to mark a certificate has had its retirement    *)
(* handed over.                                                            *)
UpdatingWasBurned ==
  \A k \in Call : At(k, "updating") => burns[call[k].certificate][call[k].wallet] > 0

(* A request that has marked its certificate, and answers and tells.       *)
Told(k, c) ==
  /\ call[k] # None
  /\ call[k].certificate = c
  /\ call[k].stage \notin {"received", "submitting", "updating"}

(* What holds of a certificate while nothing has parted its row from the   *)
(* network: one request at a time retires it, while it is active; the      *)
(* network has that request's retirement once it was handed over; and the  *)
(* requests that are done with it have its row right.                      *)
Orderly(c) ==
  /\ \A k, l \in Retiring(c) : k = l
  /\ Retiring(c) # {} => row[c] = "active"
  /\ \A k \in Retiring(c), w \in Wallet :
       burns[c][w] = IF At(k, "updating") /\ call[k].wallet = w THEN 1 ELSE 0
  /\ Retiring(c) = {} =>
       \A w \in Wallet : burns[c][w] = IF row[c] = w THEN 1 ELSE 0
  /\ \A k \in Call : Told(k, c) => row[c] = call[k].wallet
  /\ heard[c] \in {None, row[c]}

Inv ==
  /\ TypeOK
  /\ MarkedWasBurned
  /\ LoadedWasBurned
  /\ CachedWasBurned
  /\ UpdatingWasBurned
  /\ \A c \in Certificate \ disturbed : Orderly(c)

LEMMA InvImplies == Inv => TypeOK /\ ShownWasBurned /\ BurnsMatchRows
<1> SUFFICES ASSUME Inv PROVE TypeOK /\ ShownWasBurned /\ BurnsMatchRows
  OBVIOUS
<1>1. ASSUME NEW c \in Certificate, NEW w \in Wallet, w \in Shown(c)
      PROVE  burns[c][w] > 0
  BY <1>1 DEF Inv, Shown, MarkedWasBurned, LoadedWasBurned, CachedWasBurned, Burned
<1>2. QED
  BY <1>1 DEF Inv, ShownWasBurned, BurnsMatchRows, Orderly

LEMMA InitInv == Init => Inv
<1> SUFFICES ASSUME Init PROVE Inv
  OBVIOUS
<1>1. TypeOK
  BY Assumption DEF Assumption, Init, TypeOK, Row
<1>2. \A c \in Certificate : row[c] \notin Wallet
  BY Assumption DEF Assumption, Init
<1>3. \A stage : \A k \in Call : ~At(k, stage)
  BY DEF Init, At
<1>4. \A c \in Certificate : Retiring(c) = {}
  BY <1>3 DEF Retiring
<1>5. \A c \in Certificate : Orderly(c)
  BY <1>2, <1>4 DEF Init, Orderly, Told
<1>6. QED
  BY <1>1, <1>2, <1>3, <1>5
  DEF Inv, Init, MarkedWasBurned, LoadedWasBurned, CachedWasBurned, UpdatingWasBurned

------------------------------------------------------------------------------
(* The attempts of a delivery are stages of their own.                     *)
LEMMA AttemptStages ==
  /\ Len(Attempt) = 3
  /\ DOMAIN Attempt = 1..3
  /\ \A i \in 1..3 : Attempt[i] \in Stage \ {"received", "submitting", "updating", "ok"}
<1>1. Len(Attempt) = 3 /\ DOMAIN Attempt = 1..3
  BY DEF Attempt
<1>2. Attempt[1] = "first" /\ Attempt[2] = "second" /\ Attempt[3] = "third"
  BY DEF Attempt
<1>3. \A i \in 1..3 : Attempt[i] \in Stage
  BY <1>1 DEF Stage
<1>4. \A i \in 1..3 : i = 1 \/ i = 2 \/ i = 3
  OBVIOUS
<1>5. QED
  BY <1>1, <1>2, <1>3, <1>4

(* A request moves on, or ends.                                            *)
LEMMA GotoMoves ==
  ASSUME TypeOK, NEW k \in Call, call[k] # None, NEW stage \in Stage, Goto(k, stage)
  PROVE  /\ call' \in [Call -> Request \cup {None}]
         /\ call'[k] # None
         /\ call'[k].stage = stage
         /\ call'[k].certificate = call[k].certificate
         /\ call'[k].wallet = call[k].wallet
         /\ \A l \in Call : l # k => call'[l] = call[l]
<1>1. call[k] \in Request
  BY DEF TypeOK
<1>2. call'[k] = [call[k] EXCEPT !.stage = stage]
  BY DEF Goto, TypeOK
<1>3. /\ call'[k] \in Request
      /\ call'[k].stage = stage
      /\ call'[k].certificate = call[k].certificate
      /\ call'[k].wallet = call[k].wallet
  BY <1>1, <1>2 DEF Request
<1>4. /\ call' \in [Call -> Request \cup {None}]
      /\ \A l \in Call : l # k => call'[l] = call[l]
  BY <1>3 DEF Goto, TypeOK
<1>5. QED
  BY <1>3, <1>4, Assumption DEF Assumption

LEMMA EndsEnds ==
  ASSUME TypeOK, NEW k \in Call, Ends(k)
  PROVE  /\ call' \in [Call -> Request \cup {None}]
         /\ call'[k] = None
         /\ \A l \in Call : l # k => call'[l] = call[l]
BY DEF Ends, TypeOK

------------------------------------------------------------------------------
(* Types.                                                                  *)
LEMMA CacheType ==
  ASSUME TypeOK, [Next]_vars
  PROVE  /\ cache' \in [Lookup -> Entry \cup {None}]
         /\ reader' \in [Reader -> Lookups \cup {None}]
         /\ minting' \in SUBSET Certificate
<1> USE Assumption DEF Assumption
<1>1. ASSUME NEW r \in Reader, NEW id \in Lookup, AnswerFromCache(r, id) \/ Miss(r, id)
      PROVE  /\ cache' \in [Lookup -> Entry \cup {None}]
             /\ reader' \in [Reader -> Lookups \cup {None}]
             /\ minting' \in SUBSET Certificate
  BY <1>1 DEF AnswerFromCache, Miss, TypeOK, Lookups
<1>2. ASSUME NEW r \in Reader, Load(r)
      PROVE  /\ cache' \in [Lookup -> Entry \cup {None}]
             /\ reader' \in [Reader -> Lookups \cup {None}]
             /\ minting' \in SUBSET Certificate
  <2>1. reader[r].id \in Lookup /\ Chain(CertificateOf[reader[r].id]) \in Row
    BY <1>2 DEF Load, TypeOK, Lookups, Chain
  <2>2. QED
    BY <1>2, <2>1 DEF Load, Found, TypeOK, Lookups
<1>3. ASSUME NEW r \in Reader, Store(r)
      PROVE  /\ cache' \in [Lookup -> Entry \cup {None}]
             /\ reader' \in [Reader -> Lookups \cup {None}]
             /\ minting' \in SUBSET Certificate
  <2>1. reader[r].chain \in Row \ {"absent"}
    BY <1>3 DEF Store, TypeOK, Lookups
  <2>2. [value |-> reader[r].chain, ex |-> CERT_TTL] \in Entry
    BY <2>1 DEF Entry
  <2>3. QED
    BY <1>3, <2>2 DEF Store, SetCached, TypeOK
<1>4. ASSUME NEW r \in Reader, RedisFails(r)
      PROVE  /\ cache' \in [Lookup -> Entry \cup {None}]
             /\ reader' \in [Reader -> Lookups \cup {None}]
             /\ minting' \in SUBSET Certificate
  BY <1>4 DEF RedisFails, TypeOK
<1>5. ASSUME NEW c \in Certificate, Mint(c) \/ InvalidateMinted(c)
      PROVE  /\ cache' \in [Lookup -> Entry \cup {None}]
             /\ reader' \in [Reader -> Lookups \cup {None}]
             /\ minting' \in SUBSET Certificate
  BY <1>5 DEF Mint, InvalidateMinted, InvalidateCert, TypeOK
<1>6. CASE UNCHANGED <<cache, reader, minting>>
  BY <1>6 DEF TypeOK
<1>7. ASSUME NEW k \in Call, \/ Serve(k) \/ Reply(k) \/ FireWebhook(k)
                            \/ \E c \in Certificate, w \in Wallet : Retire(k, c, w)
      PROVE  UNCHANGED <<cache, reader, minting>>
  BY <1>7 DEF Serve, Reply, FireWebhook, Retire, SelectFails, Refuse, Accept, Submit,
     SubmitFails, AnswerLost, Update, UpdateFails, otherVars
<1>8. ASSUME NEW k \in Call, NEW i \in DOMAIN Attempt, NEW received \in BOOLEAN,
             NEW delivered \in BOOLEAN, Deliver(k, i, received, delivered)
      PROVE  UNCHANGED <<cache, reader, minting>>
  BY <1>8 DEF Deliver
<1>9. QED
  BY <1>1, <1>2, <1>3, <1>4, <1>5, <1>6, <1>7, <1>8 DEF Next, vars

(* The variables of the retire route, as a step on a request leaves them.  *)
RetireType ==
  /\ row' \in [Certificate -> Row]
  /\ call' \in [Call -> Request \cup {None}]
  /\ burns' \in [Certificate -> [Wallet -> 0..Many]]
  /\ heard' \in [Certificate -> Wallet \cup {None}]
  /\ disturbed' \in SUBSET Certificate

LEMMA BurnCounts ==
  ASSUME TypeOK, NEW c \in Certificate, NEW w \in Wallet, Burn(c, w)
  PROVE  /\ burns' \in [Certificate -> [Wallet -> 0..Many]]
         /\ burns'[c][w] > 0
         /\ burns[c][w] = 0 => burns'[c][w] = 1
         /\ \A d \in Certificate, v \in Wallet :
              ~(d = c /\ v = w) => burns'[d][v] = burns[d][v]
<1> DEFINE next == IF burns[c][w] = Many THEN Many ELSE burns[c][w] + 1
<1>1. burns[c] \in [Wallet -> 0..Many] /\ burns[c][w] \in 0..Many
  BY DEF TypeOK
<1>2. next \in 0..Many /\ next > 0 /\ (burns[c][w] = 0 => next = 1)
  BY <1>1, Assumption DEF Assumption
<1>3. burns' = [burns EXCEPT ![c] = [burns[c] EXCEPT ![w] = next]]
  BY DEF Burn
<1> HIDE DEF next
<1>4. [burns[c] EXCEPT ![w] = next] \in [Wallet -> 0..Many]
  BY <1>1, <1>2
<1>5. QED
  BY <1>1, <1>2, <1>3, <1>4 DEF TypeOK

------------------------------------------------------------------------------
(* What a step of a request keeps.                                         *)
Kept ==
  /\ RetireType
  /\ MarkedWasBurned'
  /\ UpdatingWasBurned'
  /\ \A c \in Certificate \ disturbed' : Orderly(c)'

(* A step that concerns another certificate, or no retirement of this one. *)
LEMMA StaysOrderly ==
  ASSUME NEW c \in Certificate, Orderly(c),
         row'[c] = row[c], burns'[c] = burns[c], heard'[c] \in {None, row[c]},
         Retiring(c)' = Retiring(c),
         \A k \in Retiring(c) : call'[k] = call[k],
         \A k \in Call : Told(k, c)' => Told(k, c) /\ call'[k].wallet = call[k].wallet
  PROVE  Orderly(c)'
<1>1. \A k \in Retiring(c) : At(k, "updating")' <=> At(k, "updating")
  BY DEF At
<1>2. \A k \in Retiring(c)', w \in Wallet :
        burns'[c][w] = IF At(k, "updating")' /\ call'[k].wallet = w THEN 1 ELSE 0
  BY <1>1 DEF Orderly
<1>3. QED
  BY <1>2 DEF Orderly

(* A step in which request k does not retire anything, before or after.    *)
LEMMA Idle ==
  ASSUME Inv, NEW k \in Call,
         UNCHANGED <<row, burns, disturbed>>,
         heard' \in [Certificate -> Wallet \cup {None}],
         \A c \in Certificate \ disturbed : heard'[c] \in {None, row[c]},
         call' \in [Call -> Request \cup {None}],
         \A l \in Call : l # k => call'[l] = call[l],
         ~At(k, "submitting"), ~At(k, "updating"),
         ~At(k, "submitting")', ~At(k, "updating")',
         \A c \in Certificate : Told(k, c)' => Told(k, c) /\ call'[k].wallet = call[k].wallet
  PROVE  Kept
<1>1. RetireType
  BY DEF Inv, TypeOK, RetireType
<1>2. \A c \in Certificate : Retiring(c)' = Retiring(c) /\ k \notin Retiring(c)
  BY DEF Retiring, At
<1>3. ASSUME NEW c \in Certificate \ disturbed' PROVE Orderly(c)'
  <2>1. Orderly(c) /\ c \in Certificate
    BY DEF Inv
  <2>2. \A l \in Call : Told(l, c)' => Told(l, c) /\ call'[l].wallet = call[l].wallet
    BY DEF Told
  <2>3. \A l \in Retiring(c) : call'[l] = call[l]
    BY <1>2 DEF Retiring
  <2>4. QED
    BY <1>2, <2>1, <2>2, <2>3, StaysOrderly
<1>4. MarkedWasBurned' /\ UpdatingWasBurned'
  BY DEF Inv, MarkedWasBurned, UpdatingWasBurned, At
<1>5. QED
  BY <1>1, <1>3, <1>4 DEF Kept

LEMMA RetireKeeps ==
  ASSUME Inv, NEW k \in Call, NEW c \in Certificate, NEW w \in Wallet, Retire(k, c, w)
  PROVE  Kept
<1> DEFINE new == [stage |-> "received", certificate |-> c, wallet |-> w]
<1>1. new \in Request /\ new.stage = "received"
  BY DEF Request, Stage
<1>2. /\ call[k] = None /\ call' = [call EXCEPT ![k] = new]
      /\ UNCHANGED <<row, burns, heard, disturbed>>
  BY DEF Retire, otherVars
<1> HIDE DEF new
<1>3. /\ call' \in [Call -> Request \cup {None}]
      /\ call'[k] = new
      /\ \A l \in Call : l # k => call'[l] = call[l]
  BY <1>1, <1>2 DEF Inv, TypeOK
<1>4. /\ heard' \in [Certificate -> Wallet \cup {None}]
      /\ \A d \in Certificate \ disturbed : heard'[d] \in {None, row[d]}
  BY <1>2 DEF Inv, TypeOK, Orderly
<1>5. /\ ~At(k, "submitting") /\ ~At(k, "updating")
      /\ ~At(k, "submitting")' /\ ~At(k, "updating")'
      /\ \A d \in Certificate : ~Told(k, d)'
  BY <1>1, <1>2, <1>3 DEF At, Told
<1>6. QED
  BY <1>2, <1>3, <1>4, <1>5, Idle

(* The steps before a retirement is accepted and after it is done.         *)
LEMMA QuietCallKeeps ==
  ASSUME Inv, NEW k \in Call,
         SelectFails(k) \/ Refuse(k) \/ Reply(k) \/ FireWebhook(k)
  PROVE  Kept
<1>1. /\ TypeOK /\ call[k] # None
      /\ ~At(k, "submitting") /\ ~At(k, "updating")
      /\ UNCHANGED <<row, burns, heard, disturbed>>
      /\ Ends(k) \/ (At(k, "ok") /\ Goto(k, Attempt[1]))
  BY DEF Inv, SelectFails, Refuse, Reply, FireWebhook, At, otherVars
<1>2. /\ heard' \in [Certificate -> Wallet \cup {None}]
      /\ \A d \in Certificate \ disturbed : heard'[d] \in {None, row[d]}
  BY <1>1 DEF Inv, TypeOK, Orderly
<1>3. CASE Ends(k)
  <2>1. /\ ~At(k, "submitting")' /\ ~At(k, "updating")'
        /\ \A d \in Certificate : ~Told(k, d)'
    BY <1>1, <1>3, EndsEnds DEF At, Told
  <2>2. QED
    BY <1>1, <1>2, <1>3, <2>1, EndsEnds, Idle
<1>4. CASE At(k, "ok") /\ Goto(k, Attempt[1])
  <2>1. Attempt[1] \in Stage \ {"received", "submitting", "updating", "ok"}
    BY AttemptStages
  <2>2. /\ call'[k].stage = Attempt[1]
        /\ call'[k].certificate = call[k].certificate
        /\ call'[k].wallet = call[k].wallet
    BY <1>1, <1>4, <2>1, GotoMoves
  <2>3. /\ ~At(k, "submitting")' /\ ~At(k, "updating")'
        /\ \A d \in Certificate : Told(k, d)' => Told(k, d)
    BY <1>1, <1>4, <2>1, <2>2 DEF At, Told
  <2>4. QED
    BY <1>1, <1>2, <1>4, <2>1, <2>2, <2>3, GotoMoves, Idle
<1>5. QED
  BY <1>1, <1>3, <1>4

LEMMA DeliverKeeps ==
  ASSUME Inv, NEW k \in Call, NEW i \in DOMAIN Attempt, NEW received \in BOOLEAN,
         NEW delivered \in BOOLEAN, Deliver(k, i, received, delivered)
  PROVE  Kept
<1> DEFINE c == call[k].certificate
<1>1. /\ TypeOK /\ call[k] # None /\ c \in Certificate
      /\ call[k].stage = Attempt[i]
      /\ UNCHANGED <<row, burns, disturbed>>
  BY DEF Inv, Deliver, At, TypeOK, Request
<1>2. i \in 1..3 /\ Attempt[i] \in Stage \ {"received", "submitting", "updating", "ok"}
  BY AttemptStages
<1>3. ~At(k, "submitting") /\ ~At(k, "updating") /\ Told(k, c)
  BY <1>1, <1>2 DEF At, Told
<1>4. /\ heard' \in [Certificate -> Wallet \cup {None}]
      /\ \A d \in Certificate \ disturbed : heard'[d] \in {None, row[d]}
  <2>1. call[k].wallet \in Wallet
    BY <1>1 DEF TypeOK, Request
  <2>2. c \notin disturbed => row[c] = call[k].wallet
    BY <1>1, <1>3 DEF Inv, Orderly
  <2>3. \A d \in Certificate \ disturbed : heard[d] \in {None, row[d]}
    BY DEF Inv, Orderly
  <2>4. QED
    BY <1>1, <2>1, <2>2, <2>3 DEF Deliver, TypeOK
<1>5. CASE Ends(k)
  <2>1. /\ ~At(k, "submitting")' /\ ~At(k, "updating")'
        /\ \A d \in Certificate : ~Told(k, d)'
    BY <1>1, <1>5, EndsEnds DEF At, Told
  <2>2. QED
    BY <1>1, <1>3, <1>4, <1>5, <2>1, EndsEnds, Idle
<1>6. CASE i # 3 /\ Goto(k, Attempt[i + 1])
  <2>1. Attempt[i + 1] \in Stage \ {"received", "submitting", "updating", "ok"}
    <3>1. i + 1 \in 1..3
      BY <1>2, <1>6
    <3>2. QED
      BY <3>1, AttemptStages
  <2>2. /\ call'[k].stage = Attempt[i + 1]
        /\ call'[k].certificate = call[k].certificate
        /\ call'[k].wallet = call[k].wallet
    BY <1>1, <1>6, <2>1, GotoMoves
  <2>3. /\ ~At(k, "submitting")' /\ ~At(k, "updating")'
        /\ \A d \in Certificate : Told(k, d)' => Told(k, d)
    BY <1>1, <1>2, <2>1, <2>2 DEF At, Told
  <2>4. QED
    BY <1>1, <1>3, <1>4, <1>6, <2>1, <2>2, <2>3, GotoMoves, Idle
<1>7. QED
  BY <1>5, <1>6, AttemptStages DEF Deliver

------------------------------------------------------------------------------
(* The steps of a retirement: what they leave alone.                       *)
LEMMA ElsewhereOrderly ==
  ASSUME Inv, NEW k \in Call, call[k] # None,
         \A l \in Call : l # k => call'[l] = call[l],
         call'[k] # None => call'[k].certificate = call[k].certificate,
         disturbed \subseteq disturbed',
         NEW c \in Certificate \ disturbed', c # call[k].certificate,
         row'[c] = row[c], burns'[c] = burns[c], heard'[c] = heard[c]
  PROVE  Orderly(c)'
<1>1. Orderly(c)
  BY DEF Inv
<1>2. Retiring(c)' = Retiring(c) /\ k \notin Retiring(c)
  BY DEF Retiring, At
<1>3. \A l \in Retiring(c) : call'[l] = call[l]
  BY <1>2 DEF Retiring
<1>4. \A l \in Call : Told(l, c)' => Told(l, c) /\ call'[l].wallet = call[l].wallet
  BY DEF Told
<1>5. heard'[c] \in {None, row[c]}
  BY <1>1 DEF Orderly
<1>6. QED
  BY <1>1, <1>2, <1>3, <1>4, <1>5, StaysOrderly

(* The request for certificate c is the one that retires it, and c is      *)
(* still active.                                                           *)
LEMMA TheRetiring ==
  ASSUME Inv, NEW k \in Call, At(k, "submitting") \/ At(k, "updating"),
         call[k].certificate \notin disturbed
  PROVE  LET c == call[k].certificate IN
         /\ c \in Certificate /\ call[k].wallet \in Wallet
         /\ Orderly(c)
         /\ Retiring(c) = {k}
         /\ row[c] = "active" /\ row[c] \notin Wallet
         /\ heard[c] = None
         /\ \A l \in Call : ~Told(l, c)
<1> DEFINE c == call[k].certificate
<1>1. c \in Certificate /\ call[k].wallet \in Wallet /\ k \in Retiring(c)
  BY DEF Inv, TypeOK, At, Request, Retiring
<1>2. Orderly(c)
  BY <1>1 DEF Inv
<1>3. row[c] = "active" /\ Retiring(c) = {k}
  BY <1>1, <1>2 DEF Orderly
<1>4. row[c] \notin Wallet
  BY <1>3, Assumption DEF Assumption
<1>5. heard[c] = None
  <2>1. heard[c] \in Wallet \cup {None}
    BY <1>1 DEF Inv, TypeOK
  <2>2. QED
    BY <1>2, <1>4, <2>1 DEF Orderly
<1>6. \A l \in Call : ~Told(l, c)
  <2>1. \A l \in Call : call[l] # None => call[l].wallet \in Wallet
    BY DEF Inv, TypeOK, Request
  <2>2. QED
    BY <1>2, <1>4, <2>1 DEF Orderly, Told
<1>7. QED
  BY <1>1, <1>2, <1>3, <1>4, <1>5, <1>6

LEMMA AcceptKeeps ==
  ASSUME Inv, NEW k \in Call, Accept(k)
  PROVE  Kept
<1> DEFINE c == call[k].certificate
<1>1. /\ TypeOK /\ call[k] # None /\ c \in Certificate /\ call[k].wallet \in Wallet
      /\ call[k].stage = "received" /\ row[c] = "active"
      /\ UNCHANGED <<row, burns, heard>>
      /\ Goto(k, "submitting")
      /\ disturbed' = disturbed \cup (IF Retiring(c) = {} THEN {} ELSE {c})
  BY DEF Inv, Accept, At, TypeOK, Request, Retirable, Disturb, otherVars
<1>2. /\ call' \in [Call -> Request \cup {None}]
      /\ call'[k] # None
      /\ call'[k].stage = "submitting"
      /\ call'[k].certificate = c
      /\ call'[k].wallet = call[k].wallet
      /\ \A l \in Call : l # k => call'[l] = call[l]
  BY <1>1, GotoMoves DEF Stage
<1>3. RetireType
  BY <1>1, <1>2 DEF RetireType, TypeOK
<1>4. MarkedWasBurned' /\ UpdatingWasBurned'
  BY <1>1, <1>2 DEF Inv, MarkedWasBurned, UpdatingWasBurned, At
<1>5. ASSUME NEW d \in Certificate \ disturbed' PROVE Orderly(d)'
  <2>1. CASE d # c
    BY <1>1, <1>2, <2>1, ElsewhereOrderly
  <2>2. CASE d = c
    <3>1. Retiring(d) = {} /\ Orderly(d) /\ d \notin disturbed
      BY <1>1, <2>2 DEF Inv
    <3>2. row[d] = "active" /\ \A w \in Wallet : burns[d][w] = 0
      BY <1>1, <2>2, <3>1, Assumption DEF Orderly, Assumption
    <3>3. Retiring(d)' = {k} /\ ~At(k, "updating")'
      <4>1. k \in Retiring(d)'
        BY <1>2, <2>2 DEF Retiring, At
      <4>2. \A l \in Call : l # k => l \notin Retiring(d)'
        BY <1>2, <3>1 DEF Retiring, At
      <4>3. QED
        BY <1>2, <4>1, <4>2 DEF Retiring, At
    <3>4. \A l \in Call : Told(l, d)' => Told(l, d) /\ call'[l].wallet = call[l].wallet
      BY <1>2 DEF Told
    <3>5. QED
      BY <1>1, <3>1, <3>2, <3>3, <3>4 DEF Orderly
  <2>3. QED
    BY <2>1, <2>2
<1>6. QED
  BY <1>3, <1>4, <1>5 DEF Kept

LEMMA SubmitKeeps ==
  ASSUME Inv, NEW k \in Call, Submit(k)
  PROVE  Kept
<1> DEFINE c == call[k].certificate
           w == call[k].wallet
<1>1. /\ TypeOK /\ call[k] # None /\ c \in Certificate /\ w \in Wallet
      /\ At(k, "submitting") /\ ~At(k, "updating")
      /\ UNCHANGED <<row, heard, disturbed>>
      /\ Burn(c, w) /\ Goto(k, "updating")
  BY DEF Inv, Submit, At, TypeOK, Request, otherVars
<1>2. /\ call' \in [Call -> Request \cup {None}]
      /\ call'[k] # None
      /\ call'[k].stage = "updating"
      /\ call'[k].certificate = c
      /\ call'[k].wallet = w
      /\ \A l \in Call : l # k => call'[l] = call[l]
  BY <1>1, GotoMoves DEF Stage
<1>3. /\ burns' \in [Certificate -> [Wallet -> 0..Many]]
      /\ burns'[c][w] > 0
      /\ burns[c][w] = 0 => burns'[c][w] = 1
      /\ \A d \in Certificate, v \in Wallet :
           ~(d = c /\ v = w) => burns'[d][v] = burns[d][v]
  BY <1>1, BurnCounts
<1>4. RetireType
  BY <1>1, <1>2, <1>3 DEF RetireType, TypeOK
<1>5. MarkedWasBurned' /\ UpdatingWasBurned'
  <2>1. \A d \in Certificate, v \in Wallet : burns[d][v] > 0 => burns'[d][v] > 0
    BY <1>3
  <2>2. MarkedWasBurned'
    BY <1>1, <2>1 DEF Inv, MarkedWasBurned
  <2>3. ASSUME NEW l \in Call, At(l, "updating")'
        PROVE  burns'[call'[l].certificate][call'[l].wallet] > 0
    <3>1. CASE l = k
      BY <1>2, <1>3, <3>1
    <3>2. CASE l # k
      <4>1. /\ At(l, "updating") /\ call'[l] = call[l]
            /\ call[l].certificate \in Certificate /\ call[l].wallet \in Wallet
        BY <1>1, <1>2, <2>3, <3>2 DEF At, TypeOK, Request
      <4>2. QED
        BY <2>1, <4>1 DEF Inv, UpdatingWasBurned
    <3>3. QED
      BY <3>1, <3>2
  <2>4. QED
    BY <2>2, <2>3 DEF UpdatingWasBurned
<1>6. ASSUME NEW d \in Certificate \ disturbed' PROVE Orderly(d)'
  <2>1. CASE d # c
    <3>1. burns'[d] = burns[d]
      BY <1>1, <1>3, <2>1 DEF TypeOK
    <3>2. QED
      BY <1>1, <1>2, <2>1, <3>1, ElsewhereOrderly
  <2>2. CASE d = c
    <3>1. /\ Orderly(d) /\ Retiring(d) = {k} /\ row[d] = "active"
          /\ heard[d] = None /\ \A l \in Call : ~Told(l, d)
      BY <1>1, <2>2, TheRetiring
    <3>2. \A v \in Wallet : burns[d][v] = 0
      BY <1>1, <3>1 DEF Orderly
    <3>3. \A v \in Wallet : burns'[d][v] = IF v = w THEN 1 ELSE 0
      BY <1>1, <1>3, <2>2, <3>2
    <3>4. Retiring(d)' = {k} /\ At(k, "updating")'
      <4>1. At(k, "updating")' /\ k \in Retiring(d)'
        BY <1>2, <2>2 DEF Retiring, At
      <4>2. \A l \in Call : l # k => l \notin Retiring(d)'
        BY <1>2, <3>1 DEF Retiring, At
      <4>3. QED
        BY <4>1, <4>2 DEF Retiring
    <3>5. \A l \in Call : ~Told(l, d)'
      BY <1>2, <3>1 DEF Told
    <3>6. QED
      BY <1>1, <1>2, <3>1, <3>3, <3>4, <3>5 DEF Orderly
  <2>3. QED
    BY <2>1, <2>2
<1>7. QED
  BY <1>4, <1>5, <1>6 DEF Kept

(* A request that ends in its retirement, before its transaction was       *)
(* handed over or, of a certificate that is disturbed by it, after.        *)
LEMMA FailureKeeps ==
  ASSUME Inv, NEW k \in Call, SubmitFails(k) \/ AnswerLost(k) \/ UpdateFails(k)
  PROVE  Kept
<1> DEFINE c == call[k].certificate
           w == call[k].wallet
<1>1. /\ TypeOK /\ call[k] # None /\ c \in Certificate /\ w \in Wallet
      /\ At(k, "submitting") \/ At(k, "updating")
      /\ UNCHANGED <<row, heard>>
      /\ Ends(k)
      /\ disturbed \subseteq disturbed' /\ disturbed' \subseteq disturbed \cup {c}
  BY DEF Inv, SubmitFails, AnswerLost, UpdateFails, At, TypeOK, Request, Disturb, otherVars
<1>2. /\ call' \in [Call -> Request \cup {None}]
      /\ call'[k] = None
      /\ \A l \in Call : l # k => call'[l] = call[l]
  BY <1>1, EndsEnds
<1>3. /\ burns' \in [Certificate -> [Wallet -> 0..Many]]
      /\ \A d \in Certificate, v \in Wallet : burns[d][v] > 0 => burns'[d][v] > 0
      /\ \A d \in Certificate : d # c => burns'[d] = burns[d]
  <2>1. CASE UNCHANGED burns
    BY <1>1, <2>1 DEF TypeOK
  <2>2. CASE Burn(c, w)
    <3>1. /\ burns' \in [Certificate -> [Wallet -> 0..Many]]
          /\ burns'[c][w] > 0
          /\ \A d \in Certificate, v \in Wallet :
               ~(d = c /\ v = w) => burns'[d][v] = burns[d][v]
      BY <1>1, <2>2, BurnCounts
    <3>2. \A d \in Certificate : d # c => burns'[d] = burns[d]
      BY <1>1, <3>1 DEF TypeOK
    <3>3. QED
      BY <3>1, <3>2
  <2>3. QED
    BY <2>1, <2>2 DEF SubmitFails, AnswerLost, UpdateFails, otherVars
<1>4. RetireType
  BY <1>1, <1>2, <1>3 DEF RetireType, TypeOK
<1>5. MarkedWasBurned' /\ UpdatingWasBurned'
  <2>1. MarkedWasBurned'
    BY <1>1, <1>3 DEF Inv, MarkedWasBurned
  <2>2. \A l \in Call : At(l, "updating")' =>
          /\ At(l, "updating") /\ call'[l] = call[l]
          /\ call[l].certificate \in Certificate /\ call[l].wallet \in Wallet
    BY <1>1, <1>2 DEF At, TypeOK, Request
  <2>3. QED
    BY <1>3, <2>1, <2>2 DEF Inv, UpdatingWasBurned
<1>6. ASSUME NEW d \in Certificate \ disturbed' PROVE Orderly(d)'
  <2>1. CASE d # c
    BY <1>1, <1>2, <1>3, <2>1, ElsewhereOrderly
  <2>2. CASE d = c
    <3>1. SubmitFails(k) /\ UNCHANGED burns /\ ~At(k, "updating")
      BY <2>2 DEF SubmitFails, AnswerLost, UpdateFails, Disturb, At
    <3>2. /\ Orderly(d) /\ Retiring(d) = {k} /\ row[d] = "active" /\ row[d] \notin Wallet
          /\ heard[d] = None /\ \A l \in Call : ~Told(l, d)
      BY <1>1, <2>2, TheRetiring
    <3>3. \A v \in Wallet : burns[d][v] = 0 /\ row[d] # v
      BY <3>1, <3>2 DEF Orderly
    <3>4. Retiring(d)' = {}
      BY <1>2, <3>2 DEF Retiring, At
    <3>5. \A l \in Call : ~Told(l, d)'
      BY <1>2, <3>2 DEF Told
    <3>6. QED
      BY <1>1, <3>1, <3>2, <3>3, <3>4, <3>5 DEF Orderly
  <2>3. QED
    BY <2>1, <2>2
<1>7. QED
  BY <1>4, <1>5, <1>6 DEF Kept

LEMMA UpdateKeeps ==
  ASSUME Inv, NEW k \in Call, Update(k)
  PROVE  Kept
<1> DEFINE c == call[k].certificate
           w == call[k].wallet
<1>1. /\ TypeOK /\ call[k] # None /\ c \in Certificate /\ w \in Wallet
      /\ At(k, "updating")
      /\ row' = [row EXCEPT ![c] = w]
      /\ UNCHANGED <<burns, heard, disturbed>>
      /\ Goto(k, "ok")
  BY DEF Inv, Update, At, TypeOK, Request, otherVars
<1>2. /\ call' \in [Call -> Request \cup {None}]
      /\ call'[k] # None
      /\ call'[k].stage = "ok"
      /\ call'[k].certificate = c
      /\ call'[k].wallet = w
      /\ \A l \in Call : l # k => call'[l] = call[l]
  BY <1>1, GotoMoves DEF Stage
<1>3. RetireType
  BY <1>1, <1>2 DEF RetireType, TypeOK, Row
<1>4. MarkedWasBurned' /\ UpdatingWasBurned'
  <2>1. burns[c][w] > 0
    BY <1>1 DEF Inv, UpdatingWasBurned
  <2>2. MarkedWasBurned'
    BY <1>1, <2>1 DEF Inv, MarkedWasBurned, TypeOK
  <2>3. \A l \in Call : At(l, "updating")' => At(l, "updating") /\ call'[l] = call[l]
    BY <1>2 DEF At
  <2>4. QED
    BY <1>1, <2>2, <2>3 DEF Inv, UpdatingWasBurned
<1>5. ASSUME NEW d \in Certificate \ disturbed' PROVE Orderly(d)'
  <2>1. CASE d # c
    <3>1. row'[d] = row[d]
      BY <1>1, <2>1 DEF TypeOK
    <3>2. QED
      BY <1>1, <1>2, <2>1, <3>1, ElsewhereOrderly
  <2>2. CASE d = c
    <3>1. /\ Orderly(d) /\ Retiring(d) = {k}
          /\ heard[d] = None /\ \A l \in Call : ~Told(l, d)
      BY <1>1, <2>2, TheRetiring
    <3>2. row'[d] = w /\ \A v \in Wallet : burns[d][v] = IF w = v THEN 1 ELSE 0
      BY <1>1, <2>2, <3>1 DEF Orderly, TypeOK
    <3>3. Retiring(d)' = {}
      BY <1>2, <3>1 DEF Retiring, At
    <3>4. \A l \in Call : Told(l, d)' => l = k
      BY <1>2, <3>1 DEF Told
    <3>5. QED
      BY <1>1, <1>2, <3>1, <3>2, <3>3, <3>4 DEF Orderly
  <2>3. QED
    BY <2>1, <2>2
<1>6. QED
  BY <1>3, <1>4, <1>5 DEF Kept

(* A certificate that is inserted was not there to be retired.             *)
LEMMA MintKeeps ==
  ASSUME Inv, NEW c \in Certificate, Mint(c)
  PROVE  Kept
<1>1. /\ TypeOK /\ row[c] = "absent" /\ row' = [row EXCEPT ![c] = "active"]
      /\ UNCHANGED <<call, burns, heard, disturbed>>
  BY DEF Inv, Mint, retireVars
<1>2. "active" \notin Wallet /\ "absent" \notin Wallet
  BY Assumption DEF Assumption
<1>3. RetireType
  BY <1>1 DEF RetireType, TypeOK, Row
<1>4. MarkedWasBurned' /\ UpdatingWasBurned'
  BY <1>1, <1>2 DEF Inv, MarkedWasBurned, UpdatingWasBurned, At, TypeOK
<1>5. ASSUME NEW d \in Certificate \ disturbed' PROVE Orderly(d)'
  <2>1. Orderly(d) /\ Retiring(d)' = Retiring(d)
    BY <1>1 DEF Inv, Retiring, At
  <2>2. CASE d # c
    <3>1. row'[d] = row[d] /\ heard'[d] \in {None, row[d]}
      BY <1>1, <2>1, <2>2 DEF TypeOK, Orderly
    <3>2. \A l \in Call : Told(l, d)' => Told(l, d) /\ call'[l].wallet = call[l].wallet
      BY <1>1 DEF Told
    <3>3. QED
      BY <1>1, <2>1, <3>1, <3>2, StaysOrderly
  <2>3. CASE d = c
    <3>1. Retiring(d) = {}
      BY <1>1, <2>1, <2>3 DEF Orderly
    <3>2. row'[d] = "active" /\ \A w \in Wallet : burns[d][w] = 0
      BY <1>1, <1>2, <2>1, <2>3, <3>1 DEF Orderly, TypeOK
    <3>3. heard[d] = None
      BY <1>1, <1>2, <2>1, <2>3 DEF Orderly, TypeOK
    <3>4. \A l \in Call : ~Told(l, d)'
      BY <1>1, <1>2, <2>1, <2>3 DEF Orderly, Told, TypeOK, Request
    <3>5. QED
      BY <1>1, <1>2, <2>1, <3>1, <3>2, <3>3, <3>4 DEF Orderly
  <2>4. QED
    BY <2>2, <2>3
<1>6. QED
  BY <1>3, <1>4, <1>5 DEF Kept

(* The cache and its readers keep to themselves.                           *)
LEMMA CacheKeeps ==
  ASSUME Inv, UNCHANGED <<row, retireVars>>
  PROVE  Kept
<1>1. RetireType
  BY DEF Inv, RetireType, TypeOK, retireVars
<1>2. MarkedWasBurned' /\ UpdatingWasBurned'
  BY DEF Inv, MarkedWasBurned, UpdatingWasBurned, At, retireVars
<1>3. ASSUME NEW c \in Certificate \ disturbed' PROVE Orderly(c)'
  BY <1>3 DEF Inv, Orderly, Retiring, Told, At, retireVars
<1>4. QED
  BY <1>1, <1>2, <1>3 DEF Kept

(* What the network was handed over stays handed over, so what was loaded  *)
(* and what is cached stay burned.                                         *)
LEMMA BurnsStay ==
  ASSUME Inv, [Next]_vars, NEW c \in Certificate, NEW w \in Wallet, burns[c][w] > 0
  PROVE  burns'[c][w] > 0
<1>1. ASSUME NEW k \in Call, Submit(k) \/ AnswerLost(k) PROVE burns'[c][w] > 0
  <2>1. /\ TypeOK /\ call[k].certificate \in Certificate /\ call[k].wallet \in Wallet
        /\ Burn(call[k].certificate, call[k].wallet)
    BY <1>1 DEF Inv, TypeOK, Submit, AnswerLost, At, Request
  <2>2. QED
    BY <2>1, BurnCounts
<1>2. ASSUME NEW k \in Call, \/ SelectFails(k) \/ Refuse(k) \/ Accept(k) \/ SubmitFails(k)
                            \/ Update(k) \/ UpdateFails(k) \/ Reply(k) \/ FireWebhook(k)
                            \/ \E d \in Certificate, v \in Wallet : Retire(k, d, v)
      PROVE  UNCHANGED burns
  BY <1>2 DEF SelectFails, Refuse, Accept, SubmitFails, Update, UpdateFails, Reply, FireWebhook,
     Retire
<1>3. ASSUME NEW k \in Call, NEW i \in DOMAIN Attempt, NEW received \in BOOLEAN,
             NEW delivered \in BOOLEAN, Deliver(k, i, received, delivered)
      PROVE  UNCHANGED burns
  BY <1>3 DEF Deliver
<1>4. ASSUME NEW r \in Reader, \/ Load(r) \/ Store(r) \/ RedisFails(r)
                              \/ \E id \in Lookup : AnswerFromCache(r, id) \/ Miss(r, id)
      PROVE  UNCHANGED burns
  BY <1>4 DEF Load, Store, RedisFails, AnswerFromCache, Miss, retireVars
<1>5. ASSUME UNCHANGED vars \/ \E d \in Certificate : Mint(d) \/ InvalidateMinted(d)
      PROVE  UNCHANGED burns
  BY <1>5 DEF Mint, InvalidateMinted, vars, retireVars
<1>6. QED
  BY <1>1, <1>2, <1>3, <1>4, <1>5 DEF Next, Serve

LEMMA ReadersKeep ==
  ASSUME Inv, [Next]_vars
  PROVE  LoadedWasBurned' /\ CachedWasBurned'
<1>1. \A id \in Lookup : \A chain : Burned(id, chain) => Burned(id, chain)'
  BY BurnsStay, Assumption DEF Burned, Assumption
<1>2. ASSUME NEW r \in Reader, Load(r) PROVE LoadedWasBurned' /\ UNCHANGED cache
  <2>1. /\ reader[r].id \in Lookup
        /\ Burned(reader[r].id, Chain(CertificateOf[reader[r].id]))
    BY <1>2, Assumption DEF Assumption, Load, Inv, TypeOK, Lookups, MarkedWasBurned, Burned, Chain
  <2>2. \/ reader'[r] = None
        \/ /\ reader'[r].id = reader[r].id
           /\ reader'[r].chain = Chain(CertificateOf[reader[r].id])
    BY <1>2 DEF Load, Inv, TypeOK
  <2>3. \A q \in Reader \ {r} : reader'[q] = reader[q]
    BY <1>2 DEF Load, Inv, TypeOK
  <2>4. \A q \in Reader : reader[q] # None => reader[q].id \in Lookup
    BY DEF Inv, TypeOK, Lookups
  <2>5. QED
    BY <1>1, <1>2, <2>1, <2>2, <2>3, <2>4 DEF Inv, LoadedWasBurned, Load
<1>3. ASSUME NEW r \in Reader, Store(r) PROVE CachedWasBurned' /\ LoadedWasBurned'
  <2>1. reader[r].id \in Lookup /\ Burned(reader[r].id, reader[r].chain)
    BY <1>3 DEF Store, Inv, TypeOK, Lookups, LoadedWasBurned
  <2>2. /\ cache'[reader[r].id].value = reader[r].chain
        /\ \A id \in Lookup \ {reader[r].id} : cache'[id] = cache[id]
    BY <1>3, <2>1 DEF Store, SetCached, Inv, TypeOK
  <2>3. CachedWasBurned'
    BY <1>1, <2>1, <2>2 DEF Inv, CachedWasBurned
  <2>4. \A q \in Reader : reader'[q] = None \/ reader'[q] = reader[q]
    BY <1>3 DEF Store, Inv, TypeOK
  <2>5. \A q \in Reader : reader[q] # None => reader[q].id \in Lookup
    BY DEF Inv, TypeOK, Lookups
  <2>6. QED
    BY <1>1, <2>3, <2>4, <2>5 DEF Inv, LoadedWasBurned
<1>4. ASSUME NEW r \in Reader, NEW id \in Lookup, Miss(r, id) PROVE LoadedWasBurned' /\ UNCHANGED cache
  <2>1. \A q \in Reader : reader'[q] = reader[q] \/ reader'[q].at = "missed"
    BY <1>4 DEF Miss, Inv, TypeOK
  <2>2. \A q \in Reader : reader[q] # None => reader[q].id \in Lookup
    BY DEF Inv, TypeOK, Lookups
  <2>3. QED
    BY <1>1, <1>4, <2>1, <2>2 DEF Inv, LoadedWasBurned, Miss
<1>5. ASSUME NEW r \in Reader, RedisFails(r) PROVE LoadedWasBurned' /\ UNCHANGED cache
  <2>1. \A q \in Reader : reader'[q] = None \/ reader'[q] = reader[q]
    BY <1>5 DEF RedisFails, Inv, TypeOK
  <2>2. \A q \in Reader : reader[q] # None => reader[q].id \in Lookup
    BY DEF Inv, TypeOK, Lookups
  <2>3. QED
    BY <1>1, <1>5, <2>1, <2>2 DEF Inv, LoadedWasBurned, RedisFails
<1>6. ASSUME UNCHANGED reader PROVE LoadedWasBurned'
  <2>1. \A q \in Reader : reader[q] # None => reader[q].id \in Lookup
    BY DEF Inv, TypeOK, Lookups
  <2>2. QED
    BY <1>1, <1>6, <2>1 DEF Inv, LoadedWasBurned
<1>7. ASSUME \A id \in Lookup : cache'[id] = None \/ cache'[id] = cache[id]
      PROVE  CachedWasBurned'
  BY <1>1, <1>7 DEF Inv, CachedWasBurned
<1>8. ASSUME NEW c \in Certificate, Mint(c) \/ InvalidateMinted(c)
      PROVE  /\ UNCHANGED reader
             /\ \A id \in Lookup : cache'[id] = None \/ cache'[id] = cache[id]
  BY <1>8 DEF Mint, InvalidateMinted, InvalidateCert
<1>9. ASSUME NEW k \in Call, \/ Serve(k) \/ Reply(k) \/ FireWebhook(k)
                            \/ \E c \in Certificate, w \in Wallet : Retire(k, c, w)
      PROVE  UNCHANGED <<cache, reader>>
  BY <1>9 DEF Serve, Reply, FireWebhook, Retire, SelectFails, Refuse, Accept, Submit,
     SubmitFails, AnswerLost, Update, UpdateFails, otherVars
<1>10. ASSUME NEW k \in Call, NEW i \in DOMAIN Attempt, NEW received \in BOOLEAN,
             NEW delivered \in BOOLEAN, Deliver(k, i, received, delivered)
      PROVE  UNCHANGED <<cache, reader>>
  BY <1>10 DEF Deliver
<1>11. ASSUME UNCHANGED vars \/ \E r \in Reader, id \in Lookup : AnswerFromCache(r, id)
      PROVE  UNCHANGED <<cache, reader>>
  BY <1>11 DEF AnswerFromCache, vars
<1>12. ASSUME UNCHANGED cache PROVE CachedWasBurned'
  BY <1>7, <1>12
<1>13. QED
  BY <1>2, <1>3, <1>4, <1>5, <1>6, <1>7, <1>8, <1>9, <1>10, <1>11, <1>12 DEF Next

LEMMA NextInv == Inv /\ [Next]_vars => Inv'
<1> SUFFICES ASSUME Inv, [Next]_vars PROVE Inv'
  OBVIOUS
<1>1. ASSUME NEW k \in Call, Serve(k) \/ Reply(k) \/ FireWebhook(k) PROVE Kept
  BY <1>1, QuietCallKeeps, AcceptKeeps, SubmitKeeps, FailureKeeps, UpdateKeeps DEF Serve
<1>2. ASSUME NEW r \in Reader, \/ Load(r) \/ Store(r) \/ RedisFails(r)
                              \/ \E id \in Lookup : AnswerFromCache(r, id) \/ Miss(r, id)
      PROVE  UNCHANGED <<row, retireVars>>
  BY <1>2 DEF Load, Store, RedisFails, AnswerFromCache, Miss
<1>3. ASSUME NEW c \in Certificate, InvalidateMinted(c) PROVE UNCHANGED <<row, retireVars>>
  BY <1>3 DEF InvalidateMinted
<1>4. ASSUME UNCHANGED vars PROVE UNCHANGED <<row, retireVars>>
  BY <1>4 DEF vars, retireVars
<1>5. Kept
  BY <1>1, <1>2, <1>3, <1>4, CacheKeeps, MintKeeps, RetireKeeps, DeliverKeeps DEF Next
<1>6. TypeOK'
  BY <1>5, CacheType DEF Inv, Kept, RetireType, TypeOK
<1>7. QED
  BY <1>5, <1>6, ReadersKeep DEF Inv, Kept

LEMMA SpecInv == Spec => []Inv
BY InitInv, NextInv, PTL DEF Spec

(* TypeOK holds of every reachable state: cached chains are those of rows  *)
(* that exist, and requests have a stage, a certificate and a wallet.      *)
THEOREM TypeCorrect == Spec => []TypeOK
BY InvImplies, SpecInv, PTL

(* Neither a row, nor a chain that a verify request has loaded, nor one in *)
(* the cache is of a retirement that was not handed over to the network,   *)
(* for any number of overlapping requests.                                 *)
THEOREM ShownWereBurned == Spec => []ShownWasBurned
BY InvImplies, SpecInv, PTL

(* But for overlapping requests and lost answers, the rows, the network    *)
(* and what the cooperative was told agree once a retirement is over.      *)
THEOREM BurnsAndRowsMatch == Spec => []BurnsMatchRows
BY InvImplies, SpecInv, PTL

==============================================================================
