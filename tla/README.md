# A TLA+ model of PramaanChain

PramaanChain anchors certificates on Ethereum. A Solidity contract keeps, for the
SHA-256 digest of a document, who issued it, when, and whether it was revoked. Two
servers stand beside it: the *application backend* (`app-backend/`), which signs users
in, runs the private workflow of citizens, institutions and certificate requests, and
only ever *watches* the chain while users' wallets sign; and the *gateway* (`backend/`),
an API that signs with a key of its own, remembers what it did under an idempotency key,
and answers verifications, event queries and lists. The *frontend* (`__frontend/`) keeps
state of its own in each tab, and the *deployment scripts* (`scripts/`) decide which
contract everything else runs on.

This directory models these parts, checks them with TLC on small instances and proves
the most important results with TLAPS for every instance. `PROJECT.json` links every
definition to the lines it models, every run to its properties, and every hazard of the
code to the property that watches it.

## Inventory

| part | state | operations | talks to | hard behaviour | correct when |
|---|---|---|---|---|---|
| registry contract, `contracts/PramaanChain.sol` | roles, `_certificates`, event log | authorize, remove, issue, revoke | everybody reads, wallets write | long histories of role changes and revocations | storage and log agree; one issue, one later revocation; rights at the time of the act |
| application backend, `app-backend/src` | SQLite tables of institutions, citizens, requests, certificates; handlers in flight | register, connect, request, reject, prepare and confirm issuance and revocation | asks the contract at every step; wallets submit in between | checks before an `await`, writes after it; two calls at once; pages and processes that vanish between prepare and confirm | roles exclusive; one request per hash; every private record backed by a public event; nothing mined is lost |
| authorization per request, `auth.js` | none: derived from tables and chain each time | `deriveAuthorization`, role guards | tables, contract | stale by the time it is used | same as above |
| sign-in, `auth.js`, `database.js`, `AuthContext.jsx`, `api.js` | nonces, sessions, CSRF tokens; a cookie for all tabs; a token and a session in each tab | challenge, verify, session, logout, account change | backend, wallet | late answers, repeated requests, a second tab, another account | a write is accepted only for the account its tab shows; one session per signature |
| wallet pages, `__frontend/src/pages` | attempt ids and transaction hashes in component state | issue, reconcile, revoke, provision | backend, wallet | closing a page loses its state | what was mined can still be confirmed |
| public verification, `HeroVerifier.jsx`, `VerifyDocument.jsx`, `verificationHistory.js` | two forms, the path, the history in localStorage | choose, hash, verify, move on, clear | gateway | digests and answers that arrive on another page | a status shown or kept belongs to its hash, and to its file |
| gateway journal, `services/idempotency.js` | a Map and a JSON file | admit, replay, settle, prune, load | file system, write queue | crash, unreadable or unwritable file, full journal | one transaction per key and body; unresolved work is never forgotten |
| gateway writes, `services/certificate.js` | promise chain, signer nonce | check, send, wait, check again | contract, mempool, index | time-outs, late mining, errors after the broadcast | one at a time; success means applied; every write answered |
| gateway reads, `routes/read.js`, `routes/events*.js`, `services/events.js` | none | verify, query events | RPC | an answer made of several RPC calls while blocks come | status and record agree; each confirmed event once |
| certificate index and lists, `services/certificateIndex.js`, `routes/certificates.js` | Map, checkpoint, `indexReady`, `syncPromise` | synchronize, rebuild, poll, record own writes, list | RPC, gateway writes | reorganizations, failures between chunks, two writers, shared synchronizations | lists only what is on chain; no holes; catches up; a list that waited is fresh |
| deployment, `scripts/`, start-up of both services | evidence file, runtime file, the contract each service runs on | deploy, resume, import, start | RPC, file system | a stop between broadcast and record; pending, replaced and unknown transactions | one contract; true evidence; services agree |
| configuration, authentication and rate limits, encryption at rest, routing and rendering, containers | none that outlives a call | parsing, library middleware, pure functions, markup | | | not modelled, see below |

## Modules

* `PramaanChain`: the contract. One action per external function; its guards are the
  checks that revert, and a reverted transaction, which leaves no trace, is no step.
  `grantRole`, `revokeRole` and `renounceRole` always revert and have no action. `log`
  is the event log; a successful transaction emits one domain event, so a position in
  the log is also a transaction hash. `now` is the block's timestamp.
* `CertificateLifecycle`: what the registry promises of every hash, `NOT_FOUND` to
  `ACTIVE` to `REVOKED`. The contract implements it.
* `AppWorkflow`: extends the contract with the private tables and `Calls` handlers, so
  both run in one state. better-sqlite3 is synchronous: a database method (or its
  transaction) is one step, and a handler is cut at each `await` of the chain: `Begin`
  (session, memberships), `DeriveAuthorization` (the chain's half), the route's own
  question (`CheckIssuerWallet`, `CheckSelf`, `CheckInstitution`, `CheckUnissued`,
  `CheckRevocable`, `ValidateIssuance`, `ValidateRevocation`), then the database method
  under its own name. Between any two, other calls, any transaction, `Restart` or
  `ClosePage` may happen. `drafts` are the revocation attempts that open pages hold;
  `readableAttempts` those a page can read back from the backend.
* `IssuanceWorkflow`: the same workflow told as if each route were atomic and looked at
  database and chain together. `AppWorkflow` implements it.
* `AppLiveness`: the fairness of the application and what must eventually happen.
* `SignIn`: the backend's `challenges`, `sessions` and `tokens`; the browser's `cookie`
  and selected `account`, shared by all tabs; in `tab` the CSRF token and the session
  each tab keeps; in `calls` its requests, cut at their awaits, which may fail or be
  answered late (`ReadSession`, `AnswerSession`, `ReceiveSession`, and so on). A repeated
  `POST /auth/verify` is `Verify` taken again.
* `GatewayWrites`: `operations` (the Map, as a sequence in insertion order), `store` (the
  file), `loaded` (`loadedStorePath`), `queue` (`writeQueue`), the transactions the
  signer broadcast with what the gateway has `seen` of each, and the registry that other
  wallets also change. `Crash` empties the memory and keeps file, mempool and registry.
* `GatewayReads`: verifications and event queries in flight over a growing chain;
  `verifyCertificate` is its two RPC calls in order, `queryEvents` one `getLogs` chunk.
* `Verification`: extends `GatewayReads` with the two verifiers, the path and the
  history. `Orphaned` is what becomes of a request when its page is left.
* `CertificateIndex`: the chain as the RPC shows it, with reorganizations, and
  `synchronize` cut at its awaits: `Start` (head), `Compare` (checkpoint), `Fetch` (one
  `getLogs` chunk), `Close` (new checkpoint), `Fail` at any of them. `ReadOwn` and
  `RecordOwn` are the gateway's own writes, which update the same Map from another
  promise chain; `refreshIndex` and `queryIfDone` are a list request that waits.
* `Deployment`: the administrator's transactions and nonce, the two files, the script
  under way with its in-memory `state`, and the two services. `Crash` loses the state and
  keeps the files; `Fail` is a rejected await with the catch block that follows.
* `Selection`: what is left of a sequence when some of its places are kept, which is both
  a deletion from the journal's Map and the filter of a `getLogs` call.
* `PramaanChain_proofs`, `AppWorkflow_proofs`, `SignIn_proofs`, `GatewayWrites_proofs`,
  `CertificateIndex_proofs`, `Verification_proofs` and `Deployment_proofs`: theorems and
  proofs; `Selection_proofs`: the lemmas about selections that two of them share.
* `MC*`: symmetry sets for the configurations of the same name. In each module the
  operators introduced as "defective variants" are never used by its specification; they
  are the mistakes the properties are measured against.

`GatewayWrites`, `CertificateIndex` and `GatewayReads` each carry the smallest registry
that answers their questions, which leaves room for crashes, reorganizations and slow
answers in small instances.

### What is abstracted

* A wallet and its blind index are one value; document types, names, ciphertexts and
  timestamps of the private rows are left out. Hashes are already normalized; the zero
  hash is kept where the contract tests for it.
* Reads whose answers cannot change between them are one step, said at the definition:
  a registered institution, a request's hash once set, a mined receipt.
* `AppWorkflow` has no reorganizations, and its routes accept any mined receipt, as the
  code does; nor has `GatewayReads`, which leaves out role events and timestamps too.
  The provider's cache of repeated calls (250 ms) is left out everywhere.
* A signature is the wallet's consent: only the challenged account can produce it. Roles
  are no part of `SignIn`, a session is the same whatever its account may do. Which tabs
  hear of a change of account (those with a wallet provider) is left free.
* A file is identified with its digest, which also stands for its name; a verification by
  hash or link has no name. The browser's Back button, malformed links and a second tab
  are left out of `Verification`.
* A block of the chain modules carries at most one event, and a transaction dropped by a
  reorganization does not come back in another block.
* Transactions replaced by a wallet, and the signer's nonce beyond the order of
  broadcast, are not in `GatewayWrites`. `Deployment` does have replaced transactions.
* `Deployment` runs one script at a time, as the operator and the one-shot container do.
  A run refused for a source commit that does not match leaves no trace and is no step.
  `DEPLOYMENT_INCONSISTENT`, a success without a contract address, cannot be shown of a
  transaction that was sent to create a contract and is left out.

## Hazards and properties

* `RegistryMatchesLog`, `RoleMatchesLog`, `IssuedUnderAuthority`,
  `RevokedByIssuerOrAdmin`, `IssuedOnceRevokedOnceAfter`: relate the contract's state to
  its whole history, so an event with the wrong account, a check dropped or a right kept
  too long shows up only after several transactions.
* `RolesExclusive`, `NoSelfIssuance`: two overlapping calls, the administrator's
  registration and the wallet's own connection, each checked before an `await`.
* `OneRequestPerHash`, `AssignmentsBacked`, `RefinesWorkflow`: no stale answer of the
  chain is ever written. The converse of `AssignmentsBacked` is false by design: the
  registry may be ahead of the private tables. `MinedIsRecordable` is what remains of it:
  what is ahead passes every check of its confirmation and meets no UNIQUE column that
  another request has taken.
* `ActsAsShown`, `OneSessionPerSignature`: the requests of two tabs cross each other. A
  late answer can make a tab show a session it no longer has, or sign out a newer one;
  what it cannot do is turn a page of one account into actions of another.
* `UnresolvedRemembered`, `OneTransactionIfReadable`, `WritesSerialized`,
  `CompletedWasApplied`, `WritesAnswered`: the journal and the queue under crashes,
  time-outs, failed reads and writes of the file and a full journal.
* `ListedUnlessDeep`, `ReadyCoversCheckpoint`, `ListingIsFresh`, `IndexCatchesUp`: the
  index is neither ahead of the chain nor holed, a list that waited is fresh, and the
  index recovers, also when its checkpoint's block has been replaced.
* `AnswersAgree`, `EventsExact`: an answer made of several reads is one the chain could
  have given. `ProofsAreTrue`, `ProofsAreNamed`: so is what the page makes of it.
* `DeployedOnce`, `EvidenceIsTrue`, `RecordKept`, `ServicesAgree`, `RecordedIsConfigured`:
  wherever the scripts stop and whichever runs next.

Three hazards have no property; `PROJECT.json` gives the reason with each: a revocation
past the application (the private status follows only its own confirmations, by design),
a reorganization after a confirmation, and two deployment scripts at once. A fourth, a
checkpoint hash read after a reorganization, needs one deeper than the confirmations: the
index then keeps what it fetched of the old branch, and the new hash vouches for it.

The model also fixes the exact reach of some properties:

* In `index`, the property is conditioned on `shallow`: no reorganization took back
  `Confirmations` blocks or more. The bound is sharp because `transaction.wait(n)`
  returns when the block is at `latest - n + 1` while the index's confirmed head is
  `latest - n`: a write of the gateway is listed one block before the index would
  have read it.
* `IndexCatchesUp` is about the checkpoint: from some point on the index is ready, its
  checkpoint is the confirmed head for good, and the checkpoint's hash is that of the
  block there now. A checkpoint whose block was missing when its hash was read has none,
  and the code skips the comparison; that one exception is stated in the property.
* If somebody else revokes a certificate before the gateway recorded its own issuance,
  the older record wins until the next rebuild (`RevokedBehindOurBack`).
* Between two polls `refreshIndex` serves the index as it is, because `nextRetryAt` is set
  after every poll and not only after a failed one; `ListingIsFresh` is about lists that
  do wait. While a range is fetched again after a failure, a certificate issued and
  revoked within it is briefly listed `ACTIVE`.
* On the landing page, a file chosen while another is hashed can end with the other
  file's digest under its own name; `ProofsAreNamed` says this is the only way.
* Evidence of status `FAILED` may hide a transaction that was broadcast, when the
  submission reported an error; that is why only `DEPLOYMENT_FAILED` is claimed to be
  final in `EvidenceIsTrue`, and why a second deployment needs an override.

## Runs

| run | instance | what it shows |
|---|---|---|
| `contract` | 3 accounts, 2 documents, 6 transactions, 3 timestamps | the six contract invariants and the refinement of the life cycle. Six transactions authorize two issuers, issue, revoke, remove and try again |
| `app` | 2 wallets, 2 institutions, 2 requests, 2 hashes, 2 overlapping calls, 3 transactions | exclusive roles, no self-issuance, exclusive hashes, backed records, mined transactions recordable, refinement of `IssuanceWorkflow`. Two calls are enough for every overlap the properties relate; the administrator's own wallet is the second user |
| `liveness` | 2 wallets, 1 request, 1 call, 4 transactions | a mined issuance is confirmed, through closed pages and restarts. The fourth transaction lets the issuer be removed or the certificate revoked |
| `reservation`, `revocation` | the same, 3 transactions | two documented promises the code does not keep, below |
| `signin` | 2 tabs, 2 accounts, 2 sign-ins, 1 rotation, 3 requests in flight | writes act as shown, one session per signature. Two sign-ins are the least for a cookie to change hands; three requests let both tabs reset while another is on the way |
| `gateway` | 2 key names for issue and revoke, 1 hash, journal of 2, 2 broadcasts, a file that may fail | the journal never forgets unresolved work, one transaction per request while the file can be read, serialization, honest success, every write answered. A journal of two is full after two keys, so pruning and refusal both happen |
| `reload` | 1 key name, 1 hash | an unreadable file breaks one-transaction-per-key |
| `index` | 1 hash, 4 blocks, 2 confirmations, chunks of 1, 2 reorganizations of up to 3 blocks each | soundness and completeness of the index while reorganizations are shallow; beyond that, confirmed blocks only and lasting recovery; fresh lists. Four blocks give two confirmed ones: two chunks and a checkpoint to compare. A reorganization of three replaces the checkpoint's block, so the comparison fails and the index is rebuilt, perhaps while the second one happens; without the comparison `IndexCatchesUp` is violated |
| `verification` | 2 documents, 3 blocks, 2 requests in flight, chunks of 1, ranges of 2, history of 1 | reads agree, events exact, proofs true and named. Two requests are one on the page and one left behind |
| `audit_log` | 6 blocks, ranges of 3 | a query without bounds is refused on a long chain |
| `deployment` | 1 contract deployed from elsewhere, 3 nonces | one deployment, true evidence, agreeing services, every recorded success configured. Three nonces leave room for the deployment, a foreign transaction and an override |

Bounds: `MaxTime`, `MaxEvents` (timestamps, successful transactions), `MaxAttempts`
(attempt ids), `MaxSignIns`, `MaxRotations`, `MaxCalls` (sign-ins begun, tokens rotated,
requests in flight), `MaxTransactions` (broadcasts), `MaxBlocks`, `MaxForks`,
`ReorgDepth` (length, branches and depth of the chain's changes), `Slots` (requests in
flight), `MaxNonce`, `Existing`; `MaxOperations`, `MaxEntries`, `EventChunkSize` and
`EventMaxRange` are the code's own limits made small. The contract's and the
application's instances stop when their bounds are spent, so those configurations do not
check for deadlock; all others do. Symmetry is used over values the model treats alike,
never with a liveness property.

### Findings

* **`reservation`**: `validateIssuance` wants the certificate `ACTIVE`. Revoked before it
  was confirmed, it leaves its request `PROCESSING` for good, although a `PROCESSING`
  request is documented as "a recoverable reservation".
* **`revocation`**: the revocation attempt is known to one page only, `prepare-revocation`
  refuses once the chain says `REVOKED`, and no query returns the attempt. A page that
  closes between the transaction and the confirmation leaves the private record `ACTIVE`,
  although revocation "follows the same prepare/confirm pattern" as issuance, which does
  survive this (`liveness`).
* **`reload`**: `loadOperations` sets `loadedStorePath` before it reads. One failed read
  and the next request works on an empty Map and overwrites the file, so a used key sends
  again.
* **`audit_log`**: an event query without bounds is held to `EVENT_MAX_RANGE` from the
  deployment block on, instead of to "its configured bounded event range". Once the chain
  is longer, the audit log, which asks without bounds, is refused for good.

## Fairness

Safety runs assume none.

* `AppFairSpec`: a handler in flight ends (weak fairness: RPC calls settle and the
  database is synchronous) and users keep coming back (strong fairness of the sign-in, of
  the issuer's Reconcile and Revoke buttons, because any attempt may be refused and
  repeated). No transaction is forced, and nothing prevents restarts and closed pages
  from happening again and again.
* `GatewayFairSpec`: the operation at the head of the queue goes on; its RPC calls and
  its wait for the receipt are bounded by time-outs.
* `IndexFairSpec`: polling never stops (the timer is rescheduled in a `finally`) and an
  RPC call repeated forever succeeds at last, for each chunk. `IndexCatchesUp` speaks of
  behaviours in which the network and the process are eventually quiet (calls may go on
  failing), and claims the goal from some point on, not once.
* `DeploymentFairSpec`: a script goes on or fails; an operator whose recorded deployment
  has no runtime file resumes it again and again, and neither the RPC nor the volume
  fails every time.

## Proofs

The assumptions are the constants' own: the deployer is an account, the zero address and
the zero hash are not, absent rows are not rows, bounds are naturals. Everything below
holds for any number of accounts, documents, requests, overlapping calls, tabs, sessions,
blocks, transactions and keys, and any capacity of the journal.

**The contract** (`PramaanChain_proofs`).
* `ChainTypeCorrect`: the type invariant is inductive as it stands.
* `RegistryIsReplayOfLog`, `IssuedAndRevokedOnce`: proved together. Neither is inductive
  alone, because a step has to know that no event lies in the future and none carries the
  zero hash; `RegistryInv` adds these two facts (`PastAndZero`). `EventsAppend` says what
  one more event does to the sets `Events(name, hash)`; then there is one lemma for steps
  that touch no certificate, one for issuing and one for revoking.
* `RolesFollowLog`, `IssuersWereAuthorized`, `RevokersWereEntitled`: `AuthorityInv` states
  roles and rights as functions of a log (`RolesIn`, `IssuancesIn`, `AuthorizedIn`), for
  which `AuthorityAppend` says that one more event does not change the past. It adds that
  the deployer is the only administrator, and `RegistryInv`, which ties the stored issuer
  of a revoked certificate to the event that issued it.
* `ContractImplementsLifecycle`: every contract step is a step of the life cycle or a
  stutter, from the type invariant.

**The application** (`AppWorkflow_proofs`).
* `AppTypeCorrect`: includes what a handler in each stage holds (`HandlerOK`), since a
  database step uses what an earlier step put there. `StepCases` and `HandlerCases` split
  a step into handlers that only ask, handlers that write, and the environment.
* `AppKeepsContract`: `AppSpec => ChainSpec`, so the contract's theorems hold of the
  composed system.
* `RolesStayExclusive`: inductive over the typed state. Registration deactivates,
  connection re-checks inside its transaction, everything else leaves both tables alone
  or, at a restart, only deactivates.
* `NobodyIssuesToHimself`: `SelfInv` adds `Connected`, what a handler that goes on to
  write a request or a relationship still knows of the membership table, which no step
  but registration changes (`MembershipStable`).
* `ReservationsAreExclusive`: `RowSteps` sums up what any step does to a request and its
  certificate in seven cases; `RowsCoherent` says which columns each status fills.
* `DatabaseIsBacked`: the heart of prepare and confirm. A handler that has validated a
  transaction writes only several steps later, so `HandlersBacked` says that the evidence
  it holds is still evidence, for the row it will write: the log only grows and a
  certificate keeps its issuer and dates (`ChainMoves`), and the row cannot change hands
  under a waiting confirmation (`WorkStable`).
* `MinedStaysRecordable`: from the agreement of storage and log (`RegistryInv`) and the
  backed rows, plus `Filled`: a row without a certificate takes no UNIQUE value, and a
  reservation has its hash and attempt. `EvidenceApart` says that the events two requests
  rest on carry different hashes. It is the safety half of `IssuanceReconciled`, for any
  number of requests and transactions; three transactions in the `app` run reach its
  second half, on revocations, with one certificate only.
* `BackendImplementsWorkflow`: with those invariants, every step of the overlapping
  handlers is a step of `IssuanceWorkflow`, which looks at database and chain at once, or
  a stutter: whatever a handler learnt before its await still holds when it is used.

**Signing in** (`SignIn_proofs`).
* `SignInTypeCorrect`, `SignatureOpensOneSession`: `TableInv` adds what a request in each
  stage holds (`CallsCoherent`) and that every session was opened by a consumed challenge
  of its account (`SessionsSigned`).
* `WritesActAsShown`: `OwnedInv`. `ActsAsShown` compares a tab and the session of the
  cookie only when their tokens agree, so the invariant follows tokens instead of cookies:
  wherever a CSRF token is kept beside an account, in a session, a tab or an answer still
  on its way, it is always the same account (`TokensOwned`).

**The gateway's writes** (`GatewayWrites_proofs`).
* `WritesAreSerialized`: `QueueInv` needs nothing of the journal. The head of the queue
  waits for the only transaction still awaited (`WaitingKnows`); one whose checks have
  passed knows that no earlier transaction for its document and kind succeeded or may be
  awaited (`SendingKnows`), because what was applied shows in the registry for good
  (`AppliedShows`) and the checks would have refused.
* `JournalRemembers`, `RequestsAreSentOnce`, `CompletedIsApplied`, `GatewayTypeCorrect`:
  one invariant, `JournalInv`. A request is not sent twice because its key is remembered,
  and its key is remembered because completing an operation removes only its own record:
  an operation under way is recorded in memory and in the file under a key no other
  operation under way has (`QueueRecorded`), and no other transaction of that key may
  still be mined (`KeysFree`), since the key was absent when it was admitted.
  `SelectedFacts` says what a deletion from the Map keeps: each operation that is not
  deleted, once.

**Selections** (`Selection_proofs`). The n-th place that is kept is the one with n places
kept up to it. Those positions are different and no more than the places, so each number
up to their count is a position (`PositionsAreNumbers`, a counting argument that stands in
for an induction on sequences). From there, a selection is made of the elements selected,
each once (`SelectedFacts`), looks at no others (`SelectedSame`), and selections of places
that follow one another are concatenated (`SelectedUnion`).

**The certificate index** (`CertificateIndex_proofs`).
* `FoldReplays`: what processing a range of blocks does to the record of each hash. The
  fold of `apply` is shown to be a run of single applications (`FoldExists`, `FoldRuns`);
  `Climb`, an induction over a set of numbers, follows one record along that run.
* `ListedOnChain`: `BelowInv` says that whatever is listed as active or revoked has its
  event in a block no shallow reorganization takes back: a confirmed one, or one that the
  gateway's own write has waited for (`OwnInv`).
* `ReadyIsComplete`: `CoverInv` says that the event of every processed block is in the
  index. It cannot speak of the checkpoint alone: the blocks fetched by a synchronization
  that has not closed count too (`Processed`), and what it has still to fetch begins where
  they end (`SyncInv`), so a failure between two chunks or a rebuild leaves no hole.
* `ListingServedFresh`: an action property. `FreshInv` says that a synchronization on which
  a list waits goes at least as far as what was confirmed when the list was asked for,
  whichever of the two came first; it ends by moving the checkpoint there.
* `IndexTypeCorrect`: the type invariant.

**The verification pages** (`Verification_proofs`).
* `AnswersAreWhole`: the status and the record are read one after the other.
  `RequestsInv` says of each request in flight that what it has read so far is a status
  its hash has had, and a status only grows with the chain (`StatusGrows`).
* `ProofsStayTrue`, `ProofsBearTheirNames`: `ProofsInv` is the two properties over what is
  shown and kept; `RequestsInv` adds that a request's name, when it has one, is its hash,
  from the moment it is made; `HeroInv` that the landing page's digest is the selected
  file's, because no more than one digest is awaited there at a time.
* `EventsAreExact`: `EventsInv` says of a query under way that it holds the events of its
  range up to the block where it goes on (`ReadUpTo`), and that the range ends at a block
  that is confirmed. A chunk is a selection that comes after the one before (`LogsUnion`),
  blocks that come later change no range that ended before them (`LogsStay`), and a range
  is answered without a call only when it is empty (`FetchStep`).
* `VerificationTypeCorrect`: the type invariant and that of the chain underneath.

**The deployment** (`Deployment_proofs`).
* `DeploymentTypeCorrect`: with `ProcessInv`, what the script holds in each of its stages.
  That a nonce chosen as the next one exists is the pigeonhole principle: finitely many
  transactions leave a nonce free (`SomeNonceIsFree`).
* `OneContractIsDeployed`: `OnceInv` adds that a script about to broadcast, and an empty
  evidence file, mean that nothing was broadcast before.
* `EvidenceStaysTrue`, `RecordsAreKept`: `TruthInv` claims of the script's memory what is
  claimed of the file, because a later step, or the catch block, writes it. A transaction
  whose outcome is decided keeps it (`Settled`).
* `ServicesRunOnOneContract`: `ServicesInv` goes through the runtime file: a service runs
  on the contract that file names, and without an override the file keeps it.

Every invariant and every safety action property of the passing runs is proved. Only
model-checked is liveness (`IssuanceReconciled`, `WritesAnswered`, `IndexCatchesUp`,
`RecordedIsConfigured`), as fairness and ENABLED are outside the prover's reach. The
`reservation`, `revocation`, `reload` and `audit_log` runs are counterexamples.

## Not modelled

* Rate limits, API keys, CORS and parsing of settings: library middleware and functions
  run once, with no behaviour over several steps.
* Encryption at rest and blind indexes: pure functions over node:crypto.
* The filter, sorting and paging of lists: a synchronous pure function of the index.
* The frontend's routing, rendering, animation and wallet discovery: a page shown to the
  wrong role shows nothing the backend would not refuse. The order in which the wallet
  pages call the backend is free in `AppWorkflow`, which is more than the pages do.
* Signals and the order of shutdown of the services; containers and proxy.

## Plan

1. *(done)* contract and life cycle; application workflow, its abstraction and liveness;
   sign-in; gateway writes, reads, index and lists; public verification; deployment.
2. *(done)* proofs of the contract's, the application's and the sign-in's invariants, of
   both refinements, of the gateway's writes and journal, of the certificate index,
   of the verification pages, of event queries and of the deployment.
3. Wallet pages as actors of their own, step by step, with what each page keeps and
   loses; the application over a chain that can be reorganized.
