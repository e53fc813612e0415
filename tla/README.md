# SolarProof in TLA+

A verification development kept beside the SolarProof repository: TLA+ modules
of its four Soroban contracts, of the service that writes to them and of the
web application in front of it, TLC configurations that check them on small
instances, and TLAPS proofs of the properties that matter most for every value
of the constants.

## 1. The system

A meter signs a reading; the service checks the signature, stores the reading,
anchors its hash in one contract and mints tokens for it in another, and writes
a certificate; anybody may look a certificate up; a holder may retire it. Two
more contracts hold the rules about who may change what.

| component | state | operations |
|---|---|---|
| `multisig_admin` | three signer slots, threshold, operations with a flag and a bitmap, stored rotations | `initialize`, `propose`, `approve`, `propose_rotate`, `execute_rotate` |
| `energy_token` | admin, minter, balances, allowances, minted and burned totals | `initialize`, `set_minter`, `mint`, `transfer`, `approve`, `transfer_from`, `burn`, `burn_from` |
| `audit_registry` | admin, API signer, version, buckets of anchors, nonces (temporary), a counter | `initialize`, `migrate`, `set_api_signer`, `anchor`, `verify`, `is_anchored` |
| `community_governance` | parameters, proposals, voter indices, vote bitmap, pending upgrade | `initialize`, `migrate`, three setters, `propose`, `vote`, `finalize`, `execute`, three upgrade calls |
| batch route (`api/readings/batch`) | rows of `readings` and `certificates`, per-element progress | one chain of awaits per reading, run with `Promise.all` |
| Stellar client (`lib/stellar.ts`) | circuit breaker | `anchorReading`, `mintCertificates`, `retireCertificate`, `submitTx` |
| job queue (`lib/queue.ts`) | rows of `jobs`, timers | `enqueue`, `processJob` |
| certificate reads and retirement | rows of `certificates`, Redis entries | two verify routes, the certificate page, the retire route, its webhook |
| meter registry (`api/meters`) | rows of `meters` | register, revoke, the lookup of a batch |
| web application | per component a wallet, per page its lists, dialogs and requests in flight; one entry of `sessionStorage` | connect, disconnect, navigate, retire, propose, vote, register, revoke |
| single reading route, idempotency, rate limits | keys and counters | `POST /api/readings` |
| sessions, CSRF, secrets | sessions, tokens | checks per request |
| I-REC bridge, audit log, tracer simulation, health | none that is read back | fire and forget |

How they interact. The contracts do not call one another: `multisig_admin`
only records that an operation is approved, and nothing in the repository makes
it the admin of the others. The service calls `anchor` and `mint` with a single
account (`MINTER_SECRET_KEY`), so its requests share the account's sequence
number. Routes share the database and the Redis cache; nothing spans two of
these in one transaction, and the service may be stopped between any two
awaits. The database keeps requests apart by its unique columns,
`readings.reading_hash`, `certificates.mint_tx_hash`, `meters.serial_number`.
Components of the web application share nothing but `sessionStorage` and the
list of notifications.

What is hard here:

* a contract call is atomic, but sequences of calls are not: a rotation between
  two approvals, a parameter change between a vote and its count, a nonce that
  expires between two anchors, an upgrade cancelled and proposed again;
* fixed-width arithmetic: `i128` totals, `u32` products, 128-bit bitmap words;
* the service interleaves awaits of concurrent requests, reads before it
  writes, learns of a transaction that it was handed over and never that it was
  applied, and does not look at the answers of most of its updates;
* caches and retries outlive what they were started for: an entry of Redis that
  nothing deletes, a job's timer, a webhook's second attempt, a request whose
  dialog is closed.

`PROJECT.json` lists the hazards one by one, at their lines.

What makes each component correct, in a sentence, and as far as the code goes:
signers change only with the approvals the threshold asks for, and while the
three slots hold three keys a pending operation can still be approved; the books
of the token balance (but for what is sent to oneself) and nobody spends more
than was approved; a hash is anchored once, where it is looked up; one ballot per
voter, outcomes that follow the ballots, and waiting times that are waited for;
the batch route mints a reading once or never, whatever fails; the job queue may
mint one more than once, but once its anchor is on the ledger at most one time
more, and a job comes to rest if its attempts are counted; a certificate shown as
retired was retired, by that wallet; two meters have one key only if it was
spelled differently or a check was blind, and once a meter is revoked later
batches store nothing of it, nor of its key but through such a second meter; a
request of the browser names a wallet and locks no dialog but its own.

## 2. The modules

| module | what it is |
|---|---|
| `MultisigAdmin`, `EnergyToken`, `AuditRegistry`, `CommunityGovernance` | one module per contract, one action per function that writes |
| `Accounts` | the addresses the token and the registry have in common |
| `AnchorLog` | the abstract log; `AuditRegistry!ImplementsLog` is the refinement |
| `BallotBox` | the abstract vote; `CommunityGovernance!ImplementsBallotBox` is the refinement |
| `ReadingPipeline` | the batch route, the Stellar client it calls, the database rows and the network they meet |
| `Issuance` | the abstract life of a reading; `ReadingPipeline!ImplementsIssuance` is the refinement |
| `JobQueue`, `CircuitBreaker` | the job queue, and the breaker of the Stellar client that its calls share with other requests |
| `Certificates` | the retire route with its webhook, the verify routes with their cache, the certificate page |
| `MeterRegistry` | registration, revocation, and the batches that look meters up |
| `BrowserWallet` | the wallet hook, once per component |
| `CertificatesPage`, `GovernancePage`, `MetersPage` | a page each, over `BrowserWallet` |
| `Browser` | the tab that composes the three pages, the navigation and a reload |
| `MC...` | the instances TLC checks |
| `...Proofs` | the theorems |

**Contracts.** A call that panics or returns `Err` is rolled back, so an action
is a successful call and a failing guard disables it. `require_auth` makes the
caller the address that is passed; where the code goes on to compare that
address with a stored one there is a guard `caller = admin`, and where it does
not there is none. The variables are the storage keys, an absent key being a
value of its own (`NoAddress`, `NoRotation`, `"absent"`, `Unregistered`). A
bitmap is the set of its bits. Overflow panics (`overflow-checks = true` in the
workspace), so a width is a guard. `CloseLedger` advances the ledger sequence.
Variables commented `history` are written and never read: they remember who
approved, what was granted, who voted, so that properties can speak of it.

* `MultisigAdmin`: `SignerIndex` finds the first slot of an address, so the
  same key in two slots has one bit. `ProposeRotate` does not mark the
  operation executed and `ExecuteRotate` neither checks nor sets the flag:
  both as in the code.
* `EnergyToken`: `MoveBalance` evaluates both old balances before it writes,
  the recipient's last, which is what `move_balance` does when they are one
  account. `Paused` and `Retired` have no state, because no call can make
  either guard fail. Its definitions and those of `AuditRegistry` carry the
  contract's name (`TokenInit`, `RegistryNext`), so that one module can extend
  both.
* `AuditRegistry`: `Anchor` is the whole call - the nonce, the bucket, the
  counter. `ExpireNonce` is the network dropping a temporary entry.
* `CommunityGovernance`: `IndexOf` and `BitAt` are the voter index and the
  bitmap addressing with `WordBits` bits to a word; `FinalizeFits` says when
  the `u32` arithmetic of `finalize` does not panic and `Carries` is the
  comparison it makes. `VoteLock` is set and cleared in one call and is left
  out. `BallotBox` is what a voter is promised: per proposal a set of those who
  voted and two counts, with no indices, words or ledgers; a ballot of a voter
  who has none while the proposal is active, a verdict the ballots allow
  (expired without any, passed only with a yes), an execution of what passed.
  `HasVoted` is what `bitmap_get` answers, and the box's voters are read
  through it.

**ReadingPipeline.** A request is one element of a batch, and `pc` is the await
it has reached: `Receive` (the meters are read, once for the batch), `Verify`,
`Insert`, `BuildAnchor`, `Prepare`, `Send`, `MarkAnchored`, then the same for
the mint, `MarkMinted`, `Certify`. `RpcFails` is any RPC call that throws,
`Crash` stops the instance of a batch, and database writes whose answer the
route ignores may fail without stopping it. A transaction is its content (call,
sequence number, second), because that is what its hash is made of. The network
is external and does what the client can see: it may keep or lose what it was
handed (`Send`, `Drop`), applies a transaction whose sequence number is next,
and may apply it as a failure (`Apply`). The client of this commit passes two
arguments to an `anchor` that takes three; the model lets anchors succeed as
well as fail, so it covers the deployment the client was written for.
`Issuance` is what the route promises of a reading without requests, awaits and
transactions in flight: it is stored once, anchored only if stored, its amount is
minted at most as often as readings of that amount are stored, and its one
certificate names a mint no other certificate names. The columns `anchored` and
`minted` of the row are not in it: a lost update leaves them behind.

**JobQueue and CircuitBreaker.** `JobQueue` extends `CircuitBreaker`, which
keeps `openUntil` as the three cases `checkCircuit` tells apart. `pc` is the
await of `processJob`; an RPC call is two steps, `Call` (the check of the
breaker) and `Answer` (a success, an error, a timeout), so that calls in flight
meet a breaker that others have changed: `OtherCall` and `OtherAnswer` are the
other requests of the process. A write whose answer the queue ignores is made
or lost, as often as it likes, and `interrupted` remembers the jobs that lost
one, or their process. When the lost write is the one that counts the attempt,
the row keeps its count and the next run has the same number: a job whose counts
keep being lost is retried for ever. `run` counts the runs up to `MaxRun`, and
`late` the mints that leave once the registry has the reading.
`Crash` ends every chain and timer; nothing in the code takes such a job up
again, so it is at rest in the database state it was left in.

**Certificates.** Of a chain of custody only the certificate's row ever
changes, so a cached chain is the row it was loaded from. `SetCached` stores what
`redisSet` posts: the chain together with its `ex`, as one value that has no
expiry, because the body of Upstash's `/set/<key>` is the value and an expiry
would have to stand in the path or the query. So an entry goes only when
something deletes it. A request to a verify route is three steps (`Miss`, `Load`,
`Store`; a hit is one, `AnswerFromCache`). `InvalidateMinted` deletes what a mint
deletes, the entries under the reading's hash and the transaction, not the one
under the certificate's id. A request to the retire route is `Retire` (it is received), `Accept` or `Refuse` (the row is
read), `Submit`, `SubmitFails` or `AnswerLost` (the transaction is handed over,
is not, or is and an error is answered), `Update` or `UpdateFails`, then
`Reply` or the webhook's `Deliver`, up to three times and behind the answer.
`Shown` is all that a visitor may be told of a certificate: its row, what
requests have loaded, and what the cache holds.
`disturbed` remembers the certificates on which two requests were past the
check together, an error came after the transaction was handed over, or the
update of the row failed.

**MeterRegistry.** `POST` is authentication, `Check` (the select by public
key) and `Insert`, each of which may fail; `Check` answers as `maybeSingle`
does, with a row only when exactly one matches. A key is kept, and compared, as
the text it was sent as (the route asks for 64 characters and no more); `KeyOf`
is what `Buffer.from(pubkey_hex, 'hex')` makes of it in the batch route, one key
of several spellings, and none of a text that is not hexadecimal, for which
`verifyAsync` refuses every signature. `Revoke` is the update and
`RevokeAnswered` the moment the operator has been told. A batch looks its
meters up once (`Lookup`) and stores readings of those it found (`Store`).
`blind` remembers the texts that a check could not judge, because a select
failed or another request was between its check and its insert.

**The browser.** `hook[i]` is the `useWallet()` of component `i` (navigation
bar, gate, page, proposal form); a restoration or a connection in flight is a
member of `tasks`, and goes on without its component when that is unmounted.
The pages keep what their React state keeps: the certificate or meter a dialog
is about, whether it is locked, the requests in flight, and for each request
whether the dialog (`mine`) and the page (`here`) that sent it are still there.
Routes answer at any moment with success or an error. `Navigate` mounts and
unmounts, `Reload` leaves nothing but `sessionStorage`. Votes and proposals of
the governance page are local to it, seeded by `SEED`.

Definitions named `Mutant...` are wrong variants of the definition below them,
used by no action: each breaks one property, which shows that the property
notices that mistake.

## 3. What TLC checks

| run | instance | shows |
|---|---|---|
| `multisig` | 4 accounts, 3 signer triples (one with a key in two slots), 2 operations | `PendingCanComplete`, `OneBitPerKey`, `RotationIsApproved`, `ExecutedIsFinal` |
| `contracts` | the token with 3 accounts, `MaxI128 = 2`, 2 approving pairs; the registry with 3 hashes in 2 buckets, 2 nonces, `MaxU32 = 2` | `HeldIsSupply`, `SpentWithinGrants`, `TotalCountsAnchors`, `ImplementsLog` |
| `governance` | 3 voters, 2 bits to a word, 2 proposals, 4 basis points, ledgers 0 to 2, `MaxU32 = 11`, 2 wasm hashes | `BitmapRecordsVoters`, `TallyCountsBallots`, `OutcomeMatchesTally`, `ExecutionIsDelayed`, `FinalizeFitsVoters`, `DecidedIsFrozen`, `UpgradeIsAnnounced`, `ImplementsBallotBox` |
| `pipeline` | 2 readings of one amount, 3 requests in 2 batches, 4 applied transactions | `NeverOverMinted`, `SubmittedByOne`, `ImplementsIssuance` |
| `job_queue` | 1 job with 3 attempts, runs counted to 4, a breaker that opens after 2 timeouts | `BreakerMatchesCount`, `RestIsSettled`, `OneMintOnceAnchored`, `ComesToRest` |
| `certificates` | 1 certificate under 2 lookups, 2 wallets, 2 readers, 2 requests | `ShownWasBurned`, `BurnsMatchRows` |
| `meters` | 3 meters, 1 key in 2 spellings and a text that is none, 2 registrations and 1 batch in progress | `DuplicatesExplained`, `RevokedKeyIsOut` |
| `browser` | 1 account, 1 certificate with 2 requests, 2 proposals, 2 submissions, 1 meter | `RequestsNameWallet`, `BusyMatchesRequests`, `SpinnersEnd` |

Each module's type invariant is checked with them (`TypeOK`; `TokenTypeOK` and
`RegistryTypeOK` in the two contracts that share `Accounts`).

Why the bounds are enough.

* Two operations let a rotation happen while another operation is pending, and
  three triples let a key leave, return and change its slot; slots are three in
  the code.
* Amounts up to 2 reach the overflow guards of balances and totals and leave
  room for a partial spending. The two contracts of `MCContracts` share nothing
  but their addresses, so `OneContractAtATime` explores each while the other was
  not called: a state in which both were is a pair of two that are visited, and
  every property is about one contract.
* With two bits to a word the first two voters share one and the third begins
  the next, as the 129th does in the code, and two proposals let bits of one be
  taken for bits of the other. Two ledgers and periods of 0 and 1 hold a vote,
  its last ledger, its finalisation and an execution's waiting time; with an
  upgrade timelock of 1 and two hashes an upgrade can be announced, wait, be
  cancelled and be replaced by the other one, which has then not waited itself.
  The quorum is one that any vote meets, and the threshold is half of the votes
  or three quarters. `MaxU32 = 11` lets two votes through the
  products of `finalize` and not three; the theorems cover any number of voters
  and any width. Proposals and upgrades have the admin and the ledger in common
  and no action reads both, so `OneHalfAtATime` explores each while the other
  was not begun.
* Two anchors fill the registry's counter.
* Three requests are the fewest with a duplicate across batches and a shared
  mint within one; with four applied transactions both readings may be anchored
  and both minted.
* Jobs meet only in the breaker, where the other requests stand for them; three
  attempts are the code's own, and `MaxRun` is one more, so that a run that no
  row has counted can be told from one that was. It bounds what is counted, not
  how often a job runs.
* Certificates meet nowhere, and two requests are the fewest that overlap; one
  lookup is deleted by a mint and the other is not; two readers let one load
  before a retirement and the other after it. Counters of burns stop at `Many`,
  which is "more than one".
* The third meter is there to register a text again after it was registered
  twice, when `maybeSingle` finds no row. The text that is no key is sent once
  (`GarbledOnce`): its rows take part in no property.
* A second account would double the browser's state and change nothing it
  tests; two requests let a dialog be closed and opened again while the first
  is in flight.

`MaxOps`, `MaxRun`, `MaxFailures`, `MaxGranted`, `MaxProposals`, `MaxLedger`,
`MaxSequence`, `Many` bound counters and stand in guards or in the step of the
counter; `MaxI128`, `MaxU32`, `Scale` and `WordBits` are the code's own numbers made
small. The governance, certificates and meters runs use symmetry, and check no
liveness under it: no definition distinguishes voters, hashes, wallets, requests,
meters, registrations or the spellings of one key. The pipeline run has a view
without the columns `anchored` and `minted`, which the route writes and never
reads: no guard and no property but their types depends on them, and these are
proved. Deadlock is not checked: at their bounds the ledger and the counters
stop, and a contract that nobody calls, or a browser that nobody uses, rests.

Fairness.

* `JobQueue`: each job's own steps are weakly fair. `rpcCall` races every call
  against a timer of ten seconds, the database client answers or fails, and
  timers fire while the process runs. Nothing is assumed of the network, of
  other requests, of the breaker's deadline or against a crash. `ComesToRest`
  says that the retries of a job end if, from some time on, the updates that
  count its attempts are made: an assumption about the database that the code,
  which does not look at their answers, needs and does not check.
* `Certificates`: a verify request that missed the cache loads and stores, or
  fails. Nothing is assumed of retirements, of new requests or of whether anybody
  asks; in the counterexample to `RetirementShows` every request has ended.
* `Browser`: a retirement that was sent is answered or fails, as `fetch` does.
  No click is assumed.

No other specification states fairness: the contracts promise nothing about
progress, the batch route never retries, and a registration that stops half-way
is no one's to finish.

Four runs check a statement of the repository that the code does not keep:

| run | the statement | what happens |
|---|---|---|
| `multisig_distinct` | header of `multisig_admin`, line 6: `threshold` *distinct* signers | a key that a rotation moved to another slot approves again |
| `token_self_transfer` | `test_transfer_self`: 40 of 100 sent to oneself leaves 100 | the second write wins and the account gains 40 |
| `pipeline_anchor_first` | `docs/verify.md`, line 107: anchored before minted | the mint starts when the anchor is handed over |
| `certificates_stale` | `docs/VERIFIER_API.md`, line 141, cached for 60 seconds; `lib/cache.ts`, line 93, cleared after a retirement | a lookup cached before the retirement is answered as active for good |

`HeldIsSupply` is written with the self-transfer in it (`selfMoved`), so that
the run shows it is the *only* call that breaks the books.

Smaller disagreements, seen while modelling, modelled as the code has them and
given no run of their own:

* `set_quorum_bps` and `set_threshold_bps` are "Admin-only" in their comments
  (`community_governance`, lines 245 and 260); the address that is passed is
  authenticated and never compared with the stored admin.
* `docs/governance_tuning_guide.md`, line 8, speaks of a share of the
  registered voters; `finalize` compares 10 000 times the number of votes with
  the basis points, so one vote meets any quorum.
* `lib/cache.ts`, lines 3 and 74, call the cache optional; with Redis not
  configured it throws.
* The two verify routes share cache keys, and their chains differ in shape; a
  hit is answered with the stored object, `{ value, ex }`, and a miss with the
  chain.
* `lib/queue.ts`, lines 45 to 48, limits the retries to `MAX_ATTEMPTS`; a job
  whose attempts fail to be counted has no limit.
* `api/meters/route.ts`, line 41, checks "for duplicate public key" and compares
  the text it was sent: a key in upper case passes beside the same one in lower
  case.
* The meters page sends no `Authorization` header and its form no `name`, which
  the routes refuse; they may answer with success in `Browser`, which covers
  the page as it was meant too. `RevokeAnswered` likewise: the page's `PATCH` is
  redirected to a v1 module that re-exports a handler that does not exist.
* `retireCertificate` calls a `retire` that no contract of the repository has;
  the answer is the network's choice in `Certificates`.

## 4. What is proved

Every safety property and every refinement that a run checks, for all values of
the constants that satisfy the modules' assumptions (which TLC evaluates in the
runs):

| module | theorems |
|---|---|
| `MultisigAdminProofs` | `TypeCorrect`, `PendingAlwaysCanComplete`, `BitsCountKeys`, `RotationAlwaysApproved`, `ExecutedStaysFinal` |
| `ContractsProofs` (token) | `TokenTypeCorrect`, `SpendingIsGranted`, `MovesAreExact`, `BooksBalance` |
| `ContractsProofs` (registry) | `RegistryTypeCorrect`, `TotalIsExact`, `AnchorsArePlaced`, `RegistryImplementsLog`, `AnchorsArePermanent` |
| `CommunityGovernanceProofs` | `TypeCorrect`, `VotersKeepTheirBits`, `BitmapIsExact`, `TalliesAreExact`, `OutcomesMatch`, `ExecutionsWait`, `FinalizeNeverOverflows`, `DecisionsAreFinal`, `UpgradesAreAnnounced`, `GovernanceImplementsBallotBox` |
| `ReadingPipelineProofs` | `TypeCorrect`, `NeverMintsTwice`, `CertificatesAreDistinct`, `OneSubmits`, `ReadingsAreAccepted`, `CertificatesNameTheirMint`, `PipelineImplementsIssuance` |
| `JobQueueProofs` | `TypeCorrect`, `BreakerAlwaysMatches`, `JobsRestSettled`, `AnchoredMintsOnce` |
| `CertificatesProofs` | `TypeCorrect`, `ShownWereBurned`, `BurnsAndRowsMatch` |
| `MeterRegistryProofs` | `TypeCorrect`, `DuplicatesAreExplained`, `RevokedKeysAreOut` |
| `BrowserProofs` | `TypeCorrect`, `RequestsAreSigned`, `LocksAreExact`, `TalliesCountTheUser` |

Some theorems are stated by no run, because a reader may want them by
themselves: `MovesAreExact` (a call that changes a balance and neither mints nor
burns moves one amount that the sender held, to another account or, sent to
oneself, onto the sender's own, and within an allowance unless it is the sender's
call), `AnchorsArePlaced` (a hash is in its own bucket only),
`AnchorsArePermanent` (what `verify` answers of an anchored hash never changes),
`VotersKeepTheirBits` (no two voters share an index), `CertificatesAreDistinct`
(no two certificates share a reading or a mint), `ReadingsAreAccepted` (a
row, and an anchor on the ledger, is of a reading that was submitted signed and
whose meter was active when its batch looked), `CertificatesNameTheirMint` (a
certificate is of a stored reading and names a mint of that reading's recipient
and amount), `TalliesCountTheUser` (beyond the seed, the governance page counts
the user's vote once).

What is assumed of the constants: finitely many accounts, voters and requests,
of which a program run has no more; bounds and widths are naturals; the meaning
the modules give to maps between constants (the meter of a reading, the bucket
of a hash); and that values standing for "nothing" are not among the values they
are told from.

The arguments.

* *Multisig.* `Inv` adds that before `initialize` there are no signers and no
  operations, that ids not yet allocated have empty keys, and that before the
  first rotation every key that approved still resolves to a slot whose bit is
  set (`KeysHoldTheirBits`). With it a new bit belongs to a new key and
  `OneBitPerKey` survives `approve`; without it the two sides could grow apart.
  `PendingCanComplete` needs that `approve` marks an operation whose bits meet the
  threshold, and three bits always do (`PendingHasFreeSlot`); that slots are
  filled once there is an operation; and its own condition, that the three keys
  differ, by which the key of the free slot resolves to it.
* *Token.* `SpentWithinGrants` and the types are inductive by themselves. The
  sum of all balances is stated without a fold: `Held` is the number of tokens
  `<<account, k>>` with `k` up to the account's balance, so a call that credits
  or debits an account adds or takes a set of tokens of the size of the amount
  (`CreditAddsTokens`, `DebitTakesTokens`), and a move between two accounts
  takes away as many as it adds (`MoveKeepsTokens`). `BooksInv` adds to
  `HeldIsSupply` that nothing is held or counted before `initialize`, which
  would otherwise reset the totals under the balances.
* *Registry.* `TotalIsExact` needs that anchors sit in their own buckets, so
  that a new entry is a new element of `Anchored`. The refinement maps
  `anchoredAt` to `verify`; every call but `anchor` and `CloseLedger` is a
  stutter. `AnchorsArePermanent` is a property of the abstract log, carried
  over by the refinement.
* *Governance.* `VotingInv` says that the bitmap is exactly the image of the
  ballots under the stored indices. Since indices are distinct, a clear bit
  means a voter without a ballot, which makes each counter the size of the set
  of ballots. That the addressing `<<id, idx \div WordBits, idx % WordBits>>`
  separates indices is a lemma on division. `PendingIsLastAnnounced` carries
  the waiting time of an upgrade. The refinement of `BallotBox` needs the same
  invariant before and after the step: with it the voters read through the
  bitmap are those of the ballots, so `vote` puts exactly its caller into
  exactly one box (`VoteFillsBox`), and `finalize`, which tests the counters,
  finds zero exactly when the box is empty (`EmptyBoxes`). `initialize` writes
  proposals and counters and is a stutter all the same, because nothing is
  there before it.
* *Pipeline.* A request *owns* its reading once it has stored it, and the
  unique hash makes owners of one reading one request (`OwnersDistinct`): that
  is `SubmittedByOne`. Every mint on its way or on the ledger is held by an
  owner (`MintsOwned`). Requests map onto the mints they hold and one-to-one
  into the rows they own, so the mints of one call are no more than its stored
  readings: `NeverOverMinted` is that inequality of cardinalities. A
  certificate is of an owner that ended (`CertificatesOwned`), whoever inserts
  the next one is another. `ReadingsAreAccepted` adds `Provenance`: a request
  past the checks was accepted on the meters its batch read, and these stay
  what they were, since only `Receive` writes them, while the whole batch is
  idle. For the refinement of `Issuance`, a mint uses up its sequence number
  (`MintsSpent`), so an applied one is new, and `NeverOverMinted` after the step
  means that a stored reading was without a mint before it (`MintHasRow`);
  `OwnersDistinct` makes a certificate the first of its reading
  (`CertifyIsFirst`), as the unique hash makes it the first of its mint.
* *Job queue.* While nothing was lost, the columns of a job's row follow the
  run that is under way: what a run at some await has marked, and how often it
  was tried (`Faithful`); with writes lost, the row counts no more attempts than
  the process does (`Counts`). For `OneMintOnceAnchored`, a job that has sent a
  mint since its anchor was applied has no run between a simulation and a mint
  (`LateOnce`): that run ended with the mint it sent, and another one would have
  to pass a simulation that refuses it.
* *Certificates.* What is shown is the row or was copied from it, rows never go
  back, and neither do burns: so it is enough that a request that is about to
  mark a row has its retirement handed over (`UpdatingWasBurned`). A certificate
  that was not disturbed is `Orderly`: at most one request is past the check, and
  then the certificate is active; the network has that request's retirement if
  it was handed over and none otherwise; requests that are done, deliveries among
  them, carry the wallet of the row. Each step either keeps it or disturbs the
  certificate.
* *Meters.* The same with texts: of a text that is not blind there is one row at
  most, and a registration that has passed its check is alone and finds none.
  `OneRowIsDuplicate` connects this to what `maybeSingle` answers. Keys follow,
  whatever `KeyOf` is: two rows of one key have two texts or a blind one. A batch
  that begins after an answered revocation reads a table in which that row is
  inactive, and rows never become active again (`BatchKnows`); what it finds is
  other rows.
* *Browser.* `TabInv` joins one invariant per page to the wallet's. A request
  whose dialog is still open (`mine`) is of the page that is still there, and
  the dialog is locked exactly while there is one; a dialog is open only while
  the page's own hook has an address, and nothing takes that address away while
  the page is mounted: only the navigation bar disconnects, itself alone, and
  what a restoration brings is an address (`RestoresKnown`). Each page's steps
  keep the invariants of the others because a page that is left has nothing of
  its own any more.

Only model-checked: the liveness properties `ComesToRest` and `SpinnersEnd`, which
rest on fairness and with it on `ENABLED`, out of the provers' reach. The four
statements the code does not keep are refuted by TLC's counterexamples; there is
nothing to prove about them.

## 5. Plan

1. (done) the four contracts, the anchor log, their proofs.
2. (done) the pipeline and the job queue with the circuit breaker, checked and
   proved.
3. (done) certificates, meters and the browser, checked and proved.
4. (done) the vote as the ballot box it implements, the batch route as the
   issuance it implements; the sums of the token.
5. `AuditRegistry` and `EnergyToken` behind the pipeline in place of its external
   ledger: they share `Accounts` and no names, so one module can extend both.
6. The single reading route and the dashboard, once they compile; sessions.

## 6. Not modelled, and why

* The single reading route (`api/readings`) cannot run at this commit: it uses
  identifiers that are not declared, so every valid request throws before it
  reaches the database. Idempotency keys and rate limits are used by it alone.
* The dashboard and the public verify page do not parse at this commit, and
  with the dashboard goes the hook that listens for new readings.
* `/api/webhooks`, `/api/docs`, `/api/csrf`, `/api/ready` and `/api/ws` are
  redirected to v1 routes that do not exist, so no endpoint can be registered
  through them; `Certificates` starts where one is registered already.
* The I-REC bridge is simulated and its answer unused; no route calls
  `auditLog`; nothing reads `webhook_logs`. Tracer simulation, health, logging
  and metrics keep no state anything else depends on.
* Sessions, CSRF tokens and secrets are checks of one request each; who a
  caller is, is an input of the models.
* Hashing and unit conversion are functions on bytes and decimals; the pipeline
  keeps what matters of them, which readings and which mints are the same.
* Row-level security restricts the browser's own database client, which the
  pages modelled here do not use to write.
* Theme, language, layout, toasts that a timer removes; scripts, workflows and
  the fuzz crates: no state of the system.

`packages/stellar/src/index.ts` declares `SorobanRpc` twice (lines 4 and 12), which
its bundler refuses; the routes that import the package are modelled as they
run with one of the two imports removed, which changes nothing they do.

Assumed of what is external: the REST API of Redis (Upstash) stores the body of a
`/set/<key>` as the value, and takes options from the path or the query only; a
database error is what the routes take it for (mostly "not found"); proposals
created in one millisecond, which share an id in the governance page, are taken
to be distinct.
