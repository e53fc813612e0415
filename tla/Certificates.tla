----------------------------- MODULE Certificates -----------------------------
(***************************************************************************)
(* Certificates on the server: the route that retires one, the two routes  *)
(* that show its chain of custody through a cache (lib/cache.ts), and the  *)
(* certificate page, which reads the database itself.                      *)
(*                                                                         *)
(* A certificate is known by several lookups (its id, its reading hash,    *)
(* its mint transaction), and the cache has an entry per lookup.  Of a     *)
(* chain of custody only the row of the certificate ever changes, so the   *)
(* chain is that row: "absent", "active" or the wallet that retired it.    *)
(* The network, Redis and the database are external, and so is the         *)
(* endpoint of the cooperative that a webhook tells of a retirement        *)
(* (lib/webhooks.ts).                                                      *)
(***************************************************************************)
EXTENDS Naturals, Sequences

CONSTANTS Certificate, Wallet,
          Lookup,        \* what a caller may look a certificate up by
          Reader,        \* requests to the verify routes, in flight together
          Call,          \* requests to the retire route, in flight together
          CERT_TTL,
          Many,          \* burns are counted up to this number
          None,
          CertificateOf, \* the certificate a lookup names
          MintLookups    \* the lookups a mint deletes from the cache

Row == {"absent", "active"} \cup Wallet
Entry == [value: Row \ {"absent"}, ex: {CERT_TTL}]
Attempt == <<"first", "second", "third">>   \* MAX_ATTEMPTS of a delivery
Stage == {"received", "submitting", "updating", "ok"}
           \cup {Attempt[i] : i \in DOMAIN Attempt}
Request == [stage: Stage, certificate: Certificate, wallet: Wallet]
Lookups == [at: {"missed"}, id: Lookup]
             \cup [at: {"loaded"}, id: Lookup, chain: Row \ {"absent"}]

ASSUME Assumption ==
  /\ CERT_TTL \in Nat \ {0}
  /\ Many \in Nat \ {0, 1}
  /\ CertificateOf \in [Lookup -> Certificate]
  /\ MintLookups \subseteq Lookup
  /\ Wallet \cap {"absent", "active", None} = {}
  /\ None \notin Request

VARIABLES row,       \* certificates: the row of each
          cache,     \* Redis: lookup -> an entry, or None
          reader,    \* the requests to the verify routes
          call,      \* the requests to the retire route
          minting,   \* certificates inserted whose invalidation is to come
          burns,     \* network: retirements handed over, per wallet
          heard,     \* endpoint: the wallet it last heard of, or None
          disturbed  \* history: certificates whose retirements overlapped, or
                     \* one of which met an error after it was handed over

vars == <<row, cache, reader, call, minting, burns, heard, disturbed>>

TypeOK ==
  /\ row \in [Certificate -> Row]
  /\ cache \in [Lookup -> Entry \cup {None}]
  /\ reader \in [Reader -> Lookups \cup {None}]
  /\ call \in [Call -> Request \cup {None}]
  /\ minting \in SUBSET Certificate
  /\ burns \in [Certificate -> [Wallet -> 0..Many]]
  /\ heard \in [Certificate -> Wallet \cup {None}]
  /\ disturbed \in SUBSET Certificate

Init ==
  /\ row \in [Certificate -> {"absent", "active"}]
  /\ cache = [id \in Lookup |-> None]
  /\ reader = [r \in Reader |-> None]
  /\ call = [k \in Call |-> None]
  /\ minting = {}
  /\ burns = [c \in Certificate |-> [w \in Wallet |-> 0]]
  /\ heard = [c \in Certificate |-> None]
  /\ disturbed = {}

retireVars == <<call, burns, heard, disturbed>>

------------------------------------------------------------------------------
(* The cache.                                                              *)

(* redisSet posts the chain together with its time to live as the body of  *)
(* /set/<key>, and Redis stores a body as it is: the entry is both of them, *)
(* and it has no time to live.                                             *)
SetCached(id, chain) ==
  cache' = [cache EXCEPT ![id] = [value |-> chain, ex |-> CERT_TTL]]

InvalidateCert(ids) ==
  cache' = [id \in Lookup |-> IF id \in ids THEN None ELSE cache[id]]

------------------------------------------------------------------------------
(* GET verify and GET verify/[id]: look in the cache, load, store, answer. *)
(* A hit is answered with the entry itself, the chain and its `ex`.        *)

Chain(c) == row[c]

(* The steps of a chain of custody.  A certificate has its reading, its    *)
(* signature, its anchor and its mint from the start.                      *)
Custody(chain) ==
  [step \in {"meter", "signature", "anchor", "minted", "retirement"} |->
     IF step = "retirement" /\ chain \notin Wallet THEN "pending" ELSE "done"]

(* What is shown of the steps.                                             *)
CertificateChain(steps) ==
  [step \in DOMAIN steps |->
     IF steps[step] = "done" THEN "Confirmed" ELSE "Pending"]

(* The certificate page asks the database every time.                      *)
CertificatePage(c) == CertificateChain(Custody(Chain(c)))

AnswerFromCache(r, id) ==
  /\ reader[r] = None
  /\ cache[id] # None
  /\ UNCHANGED <<row, cache, reader, minting, retireVars>>

Miss(r, id) ==
  /\ reader[r] = None
  /\ cache[id] = None
  /\ reader' = [reader EXCEPT ![r] = [at |-> "missed", id |-> id]]
  /\ UNCHANGED <<row, cache, minting, retireVars>>

(* A route that does not ask whether a row was found.                      *)
MutantFound(chain) == TRUE
Found(chain) == chain # "absent"

Load(r) ==
  /\ reader[r] # None
  /\ reader[r].at = "missed"
  /\ LET id == reader[r].id
         chain == Chain(CertificateOf[id])
     IN reader' = [reader EXCEPT ![r] =
          IF Found(chain) THEN [at |-> "loaded", id |-> id, chain |-> chain]
          ELSE None]
  /\ UNCHANGED <<row, cache, minting, retireVars>>

Store(r) ==
  /\ reader[r] # None
  /\ reader[r].at = "loaded"
  /\ SetCached(reader[r].id, reader[r].chain)
  /\ reader' = [reader EXCEPT ![r] = None]
  /\ UNCHANGED <<row, minting, retireVars>>

(* redisFetch throws, and so does the route; or the database answers with  *)
(* an error, which the route takes for no such certificate.                *)
RedisFails(r) ==
  /\ reader[r] # None
  /\ reader' = [reader EXCEPT ![r] = None]
  /\ UNCHANGED <<row, cache, minting, retireVars>>

(* The certificate of a minted reading is inserted and the cache asked to  *)
(* forget its hash and its transaction.                                    *)
Mint(c) ==
  /\ row[c] = "absent"
  /\ row' = [row EXCEPT ![c] = "active"]
  /\ minting' = minting \cup {c}
  /\ UNCHANGED <<cache, reader, retireVars>>

InvalidateMinted(c) ==
  /\ c \in minting
  /\ minting' = minting \ {c}
  /\ InvalidateCert({id \in MintLookups : CertificateOf[id] = c})
  /\ UNCHANGED <<row, reader, retireVars>>

------------------------------------------------------------------------------
(* POST certificates/[id]/retire.                                          *)

otherVars == <<cache, reader, minting, heard>>

At(k, stage) == call[k] # None /\ call[k].stage = stage
Goto(k, stage) == call' = [call EXCEPT ![k].stage = stage]
Ends(k) == call' = [call EXCEPT ![k] = None]
Retiring(c) ==
  {k \in Call : /\ At(k, "submitting") \/ At(k, "updating")
                /\ call[k].certificate = c}
Disturb(c) == disturbed' = disturbed \cup {c}

Retire(k, c, w) ==
  /\ call[k] = None
  /\ call' = [call EXCEPT ![k] =
                [stage |-> "received", certificate |-> c, wallet |-> w]]
  /\ UNCHANGED <<row, otherVars, burns, disturbed>>

SelectFails(k) ==
  /\ At(k, "received")
  /\ Ends(k)
  /\ UNCHANGED <<row, otherVars, burns, disturbed>>

Refuse(k) ==
  /\ At(k, "received")
  /\ row[call[k].certificate] # "active"
  /\ Ends(k)
  /\ UNCHANGED <<row, otherVars, burns, disturbed>>

(* A check that asks for the row and not whether it is retired.            *)
MutantRetirable(c) == row[c] # "absent"
Retirable(c) == row[c] = "active"

Accept(k) ==
  /\ At(k, "received")
  /\ LET c == call[k].certificate
     IN /\ Retirable(c)
        /\ IF Retiring(c) = {} THEN UNCHANGED disturbed ELSE Disturb(c)
  /\ Goto(k, "submitting")
  /\ UNCHANGED <<row, otherVars, burns>>

(* retireCertificate hands the transaction over.                           *)
Burn(c, w) ==
  burns' = [burns EXCEPT ![c][w] = IF @ = Many THEN Many ELSE @ + 1]

Submit(k) ==
  /\ At(k, "submitting")
  /\ Burn(call[k].certificate, call[k].wallet)
  /\ Goto(k, "updating")
  /\ UNCHANGED <<row, otherVars, disturbed>>

(* An error of retireCertificate that is caught and not answered.          *)
MutantSubmitFails(k) ==
  /\ At(k, "submitting")
  /\ Goto(k, "updating")
  /\ UNCHANGED <<row, otherVars, burns, disturbed>>

(* It throws before it handed anything over, or after.                     *)
SubmitFails(k) ==
  /\ At(k, "submitting")
  /\ Ends(k)
  /\ UNCHANGED <<row, otherVars, burns, disturbed>>

AnswerLost(k) ==
  /\ At(k, "submitting")
  /\ Burn(call[k].certificate, call[k].wallet)
  /\ Disturb(call[k].certificate)
  /\ Ends(k)
  /\ UNCHANGED <<row, otherVars>>

Update(k) ==
  /\ At(k, "updating")
  /\ row' = [row EXCEPT ![call[k].certificate] = call[k].wallet]
  /\ Goto(k, "ok")
  /\ UNCHANGED <<otherVars, burns, disturbed>>

UpdateFails(k) ==
  /\ At(k, "updating")
  /\ Disturb(call[k].certificate)
  /\ Ends(k)
  /\ UNCHANGED <<row, otherVars, burns>>

(* The answer, and no webhook: the cooperative has no endpoint, or the     *)
(* instance was stopped.                                                   *)
Reply(k) ==
  /\ At(k, "ok")
  /\ Ends(k)
  /\ UNCHANGED <<row, otherVars, burns, disturbed>>

(* A delivery goes on behind the answer, in up to three attempts.          *)
FireWebhook(k) ==
  /\ At(k, "ok")
  /\ Goto(k, Attempt[1])
  /\ UNCHANGED <<row, otherVars, burns, disturbed>>

(* The endpoint receives an attempt or not, and one it received may still  *)
(* end in an error or a timeout.                                           *)
Deliver(k, i, received, delivered) ==
  /\ At(k, Attempt[i])
  /\ delivered => received
  /\ heard' = IF received
              THEN [heard EXCEPT ![call[k].certificate] = call[k].wallet]
              ELSE heard
  /\ IF delivered \/ i = Len(Attempt) THEN Ends(k) ELSE Goto(k, Attempt[i + 1])
  /\ UNCHANGED <<row, cache, reader, minting, burns, disturbed>>

Serve(k) ==
  \/ SelectFails(k) \/ Refuse(k) \/ Accept(k)
  \/ Submit(k) \/ SubmitFails(k) \/ AnswerLost(k)
  \/ Update(k) \/ UpdateFails(k)

Next ==
  \/ \E r \in Reader, id \in Lookup : AnswerFromCache(r, id) \/ Miss(r, id)
  \/ \E r \in Reader : Load(r) \/ Store(r) \/ RedisFails(r)
  \/ \E c \in Certificate : Mint(c) \/ InvalidateMinted(c)
  \/ \E k \in Call, c \in Certificate, w \in Wallet : Retire(k, c, w)
  \/ \E k \in Call : Serve(k) \/ Reply(k) \/ FireWebhook(k)
  \/ \E k \in Call, i \in DOMAIN Attempt, received, delivered \in BOOLEAN :
       Deliver(k, i, received, delivered)

(* The awaits of a verify request end.                                     *)
Fairness == \A r \in Reader : WF_vars(Load(r) \/ Store(r) \/ RedisFails(r))

Spec == Init /\ [][Next]_vars /\ Fairness

------------------------------------------------------------------------------
(* What a visitor may be shown of a certificate: its row, on its page and  *)
(* by the next request to load it, what requests have loaded, and what the *)
(* cache holds.                                                            *)
Shown(c) ==
  {row[c]}
    \cup {reader[r].chain : r \in {q \in Reader :
            /\ reader[q] # None
            /\ reader[q].at = "loaded"
            /\ CertificateOf[reader[q].id] = c}}
    \cup {cache[id].value : id \in {i \in Lookup :
            cache[i] # None /\ CertificateOf[i] = c}}

(* Whatever the interleaving of requests, a certificate is shown as retired *)
(* by a wallet - by its page, by the verify routes, out of the cache - only *)
(* when a retirement of that wallet was handed over: the order of lines 58 *)
(* and 64 of the retire route.  (The other way round, what they show may   *)
(* be out of date for ever: see RetirementShows.)                          *)
ShownWasBurned ==
  \A c \in Certificate : \A w \in Wallet \cap Shown(c) : burns[c][w] > 0

(* The database and the chain agree once the requests for a certificate    *)
(* are over: one retirement if it is marked, by that wallet, and none if   *)
(* it is not; and the endpoint heard of that wallet or of none.  Only two  *)
(* requests that pass the check of line 52 together, an answer lost after  *)
(* the transaction was handed over, and a failing update of line 64 can    *)
(* part them.                                                              *)
BurnsMatchRows ==
  \A c \in Certificate :
    c \notin disturbed /\ Retiring(c) = {} =>
      /\ \A w \in Wallet : burns[c][w] = IF row[c] = w THEN 1 ELSE 0
      /\ heard[c] \in {None, row[c]}

(* The chain of custody that the verify routes answer a lookup with.       *)
Answer(id) ==
  IF cache[id] = None THEN Chain(CertificateOf[id]) ELSE cache[id].value

(* "Responses are cached in Redis for 60 seconds" (docs/VERIFIER_API.md,   *)
(* line 141), and the cache is cleared "after a mint or retirement to      *)
(* prevent stale data being served" (cache.ts, line 93): a lookup of a     *)
(* retired certificate comes to be answered as the certificate page shows  *)
(* it.  The code does not do so: the retire route clears nothing, and no   *)
(* entry expires.                                                          *)
RetirementShows ==
  \A id \in Lookup :
    row[CertificateOf[id]] \in Wallet ~>
      CertificateChain(Custody(Answer(id))) = CertificatePage(CertificateOf[id])

==============================================================================
