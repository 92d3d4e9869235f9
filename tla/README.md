# Formal model of the capability demo

The repository shows one idea in three strengths: a mutation happens only
against a signed, single-use *grant*, only on the state the issuer was shown,
and leaves signed evidence that cannot be detached from it. This directory
holds TLA+ models of that machinery, the TLC runs that check them on small
instances, and proofs that hold for any number of sessions, grants and rows.

## 1. Inventory

| component | state it keeps | operations | what makes it correct |
|---|---|---|---|
| Postgres executor (`demo/src/atomic.js`, `demo/sql/gate.sql`, `seal.sql`, `db.js`) | `articles`, `state_challenges`, `consumed_grants`, `attestations`; a pool of 20 clients; one open transaction per request | `atomicExecute`: connect, BEGIN, `cr_execute_grant`, sign, `cap_seal`, `cap_persist_attestation`, COMMIT | one commit per grant and per nonce; evidence exactly when a mutation committed, over that mutation; no lock cycle; true answers; every request answered |
| Sidecar routes (`server.js`, `authorize-issue.js`, `server-grant.js`) | configuration, the keyring | `/state-challenge`, the article, git and http routes, health | what the caller is told is so |
| Roles (`roles.sql`) | grants of the database | – | only the table owner can write past the gate |
| Adapter SPI (`adapter-spi.js`) | – | `consumeOnce` reports with a strength | a report never claims more than its adapter does |
| Git executor (`git-atomic.js`, `ledger-hook.js`, `hooks/pre-receive`) | refs, reflogs, ledger refs `refs/coderifts/consumed/*` | `gitAtomicExecute`, push through the hook, `reconcileLedger`, reclaim eligibility | single use on one serialising repository; a move without evidence is always found |
| HTTP executor (`http-atomic.js`) | none; the origin's resource and ETag are external | canary, observe, conditional PUT, sign | never claims more than the origin did |
| Reconciliation (`reconcile.js`, `reconcile-cli.js`) | – (reads stores) | per-adapter outcome of a jti | CONFIRMED only with proof; never REJECTED for what happened |
| Audit export (`audit-export.js`) | – (reads `attestations`) | windowed export | nothing that could be seen is missing; when a window is final |
| Posture receipt (`posture.js`) | – (reads the catalog, the key manifest) | six queries, sign, verify | what a verdict says although the queries share no snapshot |
| Grant middleware (`packages/middleware/src`) | keyring loaded at start | `verifyExecutionGrant` (two versions), `requireExecutionGrant`, deny remedies | admits exactly the authorized grants; the remedy helps |
| Metrics (`metrics.js`) | counters | count | – |
| Git target, observer, transition (`git-target.js`, `git-observer.js`, `target-state-transition.js`) | a repository of its own per run | build, authorize, deny, execute, replay, observe, grade | PROVEN only for the executor's own move |
| Continuity and correlation (`authorization-continuity.js`, `contract-correlation.js`, `governed-contract.js`) | – | pure classification | what is correlated is what was authorized |
| Offline verification (`offline-reverify.js`, `verify-transcript.js`, …) | – | re-verify recorded steps | – |
| `packages/verifier-core` | – | vendored from another repository | not this program's logic |
| Proof scripts (`prove-all.js`, `e2e-chain.js`, `prove.js`) | the steps of one run | target, panels, nine points, offline check, verdict | PASS is about one live authorization |
| examples, CI integrations, release scripts | – | drive and print | – |

How they interact: the middleware verifies the grant and calls the route
handler; the handler measures nothing itself but hands the grant to one
executor; the executor's store is the only shared state of concurrent
requests, of several sidecars and of the owner; reconciliation and audit export
read that store while it changes, and compare it with keys that come and go;
posture reads the catalog that gives the gate its meaning. A proof run drives
all of it: it asks the authorize service, lets the executors act, observes the
result with a process that cannot write, and judges what it collected.

What is hard in this code: concurrent transactions that read under different
locks and snapshots; a process that dies between two statements or between a
ref move and its signature; an answer that is lost although the commit took
place; a resource with no ledger at all behind a server that may ignore
`If-Match`; readers that assemble one answer from several queries; windows of
keys, grants and challenges on different clocks; and a chain of steps each of
which may fall back to another grant while its own check still holds.
`PROJECT.json` lists each at its line.

## 2. Plan, and where it stands

| step | modules | state |
|---|---|---|
| 1. The promise and the Postgres executor | `OneUseLedger`, `PgAtomic`, `PgAtomicProofs`, `PgReplyProofs` | modelled, checked, every safety property proved |
| 2. The git executor and its reconciliation | `GitAtomic`, `GitReconcile`, `GitAtomicProofs` | modelled, checked, proved |
| 3. The HTTP executor and its reconciliation | `HttpAtomic`, `HttpReconcile`, `HttpAtomicProofs`, `Attestation` | modelled, checked, proved |
| 4. Readers of the Postgres store | `PgReaders` (on `PgAtomic` and `Attestation`), `PgReadersProofs` | modelled, checked, every property proved |
| 5. The middleware, with reclaim | `Guard`, `GuardProofs` | modelled, checked, proved |
| 6. The posture receipt | `Posture`, `PostureProofs` | modelled, checked, proved |
| 7. A proof run | `Issuance`, `GitTarget`, `EvidenceChain`, `EvidenceChainProofs` | modelled, checked, proved |

Every safety property, action property and refinement that a passing run checks
is also a theorem, and so are the invariants that support them; the one liveness property is not. What would come next: the
legacy attestation verifier; the evidence root and the recovery section of a
proof run.

## 3. Modules

Each module is a component; `MC*` modules give the constants values for TLC.
`Mutant:` marks an operator that is no part of the model: it is a plausible bug
in the definition after it, kept to show that a property notices.

Two conventions hold everywhere. Digests, signatures and hashes are records of
what they are computed over, or the key that signed, so equality of records is
equality of inputs; a collision or a forged signature that verifies is outside
the model. And variables called *history* are read by properties only.

### OneUseLedger – the promise

`applied[k]` is what grant `k` did, `evidence[k]` what signed evidence says it
did. A key is applied at most once; evidence speaks only of applied effects.
`AtomicEvidence` is the difference between the strengths of
`docs/adapter-spi.md`: TRUE (`ATOMIC_TRANSACTION`) means effect and evidence
appear in one step, FALSE (`EXCLUSIVE_REF_CAS`) allows evidence later or never.
The HTTP adapter promises no single use, so it implements neither.

### PgAtomic – the Postgres executor

| TLA+ | code |
|---|---|
| `articles`, `challenges`, `ledger`, `attestations` | the four tables, as committed |
| `drafts` | the digest `POST /state-challenge` holds between its SELECT and its INSERT |
| `pc`, `req`, `seen`, `locks`, `row`, `mut`, `paper` | one request: next statement, grant and target, the `ch` record, row and index locks, and its uncommitted ledger row, mutation and token |
| `reply` | the last answer sent |
| `effects`, `spentBy` | history |
| `MeasureState`, `IssueChallenge` | the two statements of `POST /state-challenge` |
| `ChallengeExpires` | the clock passes `expires_at` |
| `OwnerWrite` | an edit or delete by the table owner, past the gate |
| `Receive` | middleware passed; `atomicExecute` up to `pool.connect` (deployment and v2 nonce checks) |
| `Connect` | `pool.connect()` and BEGIN |
| `LockChallenge` | SELECT … FOR UPDATE, and unknown / expired / target checks |
| `CompareState` | digest SELECT (no lock), drift and token checks |
| `ClaimGrant` | INSERT INTO consumed_grants, unique violation, then the stamp |
| `Mutate` | INSERT or DELETE of the article, the stamp's UPDATE, the preimage |
| `Seal`, `Persist`, `Commit` | `cap_seal`, `cap_persist_attestation`, COMMIT with the deferred trigger |
| `CommitUnacknowledged` | COMMIT took effect, its answer did not arrive |
| `Rollback`, `StatementFails`, `ProcessDies` | ROLLBACK after a refusal, the catch block, a crash |

Each SQL statement is one action because READ COMMITTED gives each statement a
snapshot of its own; between two of them anything may commit. What a
transaction wrote is private to it until COMMIT. Statements that cannot be told
apart from outside (the stamp's UPDATE and the ledger row's UPDATE, on rows
already locked) are part of the action before them.

### PgReaders – reconciliation and audit export over Postgres

Extends `PgAtomic`: `Work` is any step of it together with `Columns`, which
gives `attestations` its `created_at` (now() of BEGIN, not of the INSERT), its
serial id (taken at the INSERT, never rolled back) and its kid.

| TLA+ | code |
|---|---|
| `clock`, `began`, `serial`, `nextId`, `stored`, `retired` | the database's clock, the columns of open and committed rows, when the executor key was rotated |
| `reader` | one reconciliation or one export, between its two statements |
| `ReadLedger`, `ReadAttestation`, `PgEntry` | `reconcilePostgres`: the row, then its token, then the entry |
| `BeginExport`, `QueryExport`, `InWindow`, `Before`, `First` | `exportAttestations`: `as_of`, then `cap_export_attestations` with window, order and limit |
| `Rotate`, `Tick` | a new executor key with every sidecar restarted, the clock |

The reader's answer is forgotten before anything else happens (`Finish`), so an
answered state is judged as it was when it was answered.

### Attestation – the verifier of stored tokens

Operators only, instantiated by `PgReaders` and `HttpReconcile`:
`ResolveKeyManifest`, `CheckKeyWindow`, `KeyInForce`,
`VerifyAtomicExecutionAttestation`, `CompareTarget`,
`VerifyStoredAttestation` with its order of statuses, `PreimageDivergence` and
the gate `EnforceNoUnprovenConfirmed`.

### GitAtomic – the git executor

| TLA+ | code |
|---|---|
| `refs`, `claims`, `reflog` | the repository: refs, ledger refs (named by the jti's hash, so one per jti), jtis named by reflog markers |
| `hook` | `hooks/pre-receive`: none, somebody else's, or ours |
| `pc`, `req`, `reply` | one request: next git command, grant and body, the answer |
| `evidence`, `applied` | attestations handed out, moves made (history; the first two of each jti) |
| `Receive` | guard passed; the refusals of `gitAtomicExecute` before its first command |
| `CheckReplay` | `git reflog show`, the marker of this jti |
| `RunBatch` | `git update-ref --stdin`: claim and move together; it may land unheard, or fail for any reason |
| `Explain` | after a failed batch: `readRef` of the ledger ref decides between GRANT_CONSUMED and STATE_DRIFT |
| `Sign` | the attestation, over the caller's pin |
| `Crash` | the process dies, or `signPreimage` throws |
| `Push` | anybody's push through the hook: one refused line refuses all |
| `InstallHook` | `installLedgerHook`, with and without `force` |

A git command is one action: git holds its locks only while it runs. That one
batch is atomic is what the code's own comments measured and rest on
(`git-atomic.js` 346-349, 488-489); the storage is trusted, as they say too
(76-77, 95). `Readings` is what a command that only reads may print: with
`ReadsFail` also nothing, which the code takes for an empty answer. `Peeled` is
`readRef`'s `^{commit}`. A ref in `Branch` holds commits only, a ref in
`Logged` gets a reflog; both are git's rules, not this code's. `Absent` as a
new value is the all-zero sha, which `isSha` accepts and git reads as "delete".

### GitReconcile – reconciliation of a repository

Extends `GitAtomic` with one reconciliation, which lists the ledger and then
reads the reflogs one by one (`Begin`, `ListLedger`, `ReadMarkers`, `Finish`)
while requests and pushes go on. `MissingLedger`, `Unattested`,
`LedgerWithoutMove`, `Outcome` are what `reconcileLedger` returns, `MoveOutcome`
what `reconcileGit` makes of a move, `Verifies` what `verifyStoredAttestation`
compares. `audit.spent` and `audit.marked` are history: what was true when the
operator asked. The operator asks about every ref and gives any of the
attestations handed out so far, all genuine.

### HttpAtomic – the HTTP executor

| TLA+ | code |
|---|---|
| `rep`, `judges`, `memory`, `others` | the origin (external): what it holds, whether it evaluates `If-Match` on a GET and on a write, which idempotency keys it has answered, other writers |
| `pc`, `req`, `seen`, `verdict`, `reply`, `signed` | one call of `httpAtomicExecute`: what it awaits, its request, the tag it saw, the canary's verdict, what it returned, whether it signed |
| `wire`, `back` | the conditional write on its way, and the answer to it |
| `wrote` | history: what the origin replaced when it applied the call's write |
| `Receive` | the checks before any request leaves |
| `CanaryObserve`, `CanaryProbe`, `PassGate` | `providerCanary` and `canaryGateRefusal` |
| `Observe`, `ObserveFails` | `observeEtag` and the fail-closed checks on it; the write leaves without an await in between |
| `Serve`, `Lose` | the origin gets the write, or never does; it may apply, refuse, replay or break |
| `Hear`, `GiveUp` | the answer arrives, or `fetch` rejects while the write may still land |
| `Seal`, `Crash` | the attestation, or the process dies (`crashBeforeSeal` among other places) |
| `OtherWrite`, `OriginChanges` | another client, and a deploy or hop that judges preconditions differently |

A representation stands for its ETag; a weak one is not in `StrongRep`. There
is no ledger, so a retry is just another call with the same grant.

### HttpReconcile – reconciliation of HTTP writes

`reconcileHttp` reads the origin once per item, so `HttpOutcome` is a function
of the state, judged in every state of `HttpAtomic`. The operator may offer the
tokens calls signed and the `Stray` ones: made-up signatures, keys of neither
status, things that are no tokens.

### Guard – the middleware of one sidecar over time

| TLA+ | code |
|---|---|
| `file`, `ring`, `loaded` | the keys file, the keyring the process built from it at its start (`loadKeyring`), and which file that was (history) |
| `inflight`, `answer` | an admitted request on its way to its executor, the last answer |
| `ledger`, `executed`, `straddled` | consumed grants with expiry and outcome; how often a grant was executed, and which were in flight when reclaimed (history) |
| `AuthenticityChecks`, `BindingChecks`, `BindingChecksV2`, `Verdict` | `verifyExecutionGrant` and its v2, check by check, in order |
| `DenyErrorForReason`, `RemedyOf`, `GuardAnswer` | `deny-remedy.js` and `executionGrantGuard` |
| `HandlerStatus` | profile and deployment checks of `server.js`; the git and http routes read a v1 payload |
| `Present`, `Execute` | a request through the guard, on a clock that may lag; the executor's claim and mutation |
| `EditFile`, `Restart` | the operator replaces the keys; the process starts again and loads them, or does not come up |
| `Reconcile`, `CleanupEligible`, `Reclaim` | an entry is closed; `cleanupEligibleAt`; a compaction takes it out |

Nothing in the repository performs the compaction yet: `Reclaim` is what the
rule is written for, any time it says yes.

### Posture – the receipt

`catalog` is what the objects of each of the six queries look like against
`BASELINE`; `Query` reads one of them with a snapshot of its own, `QueryFails`
ends the reading, `Change` is an administrator in between, `Sign` dates and
signs, `Retire` rotates a key out of the manifest, and `VerifyPosture` is
`verifyPostureReceipt` at any later time. `DiffFacts`, `FactOf` and `DriftName`
are the comparison. `was` and `begun` are history.

### Issuance, GitTarget, EvidenceChain – a proof run

`Issuance` is what the authorize service may answer and what is taken from it
(`server-grant.js`, `authorize-issue.js`): nothing usable, exactly what was
asked, or a document in which one thing is not as asked; without an API key,
the recorded answer of an earlier run.

`GitTarget` is `runGitTarget` step by step: `Build`, `Issue`, `Verify`,
`HostTries`, `Restore`, `Execute`, `Replay`, then the readings of the observer
one by one (`ReadLedger`, `ReadTip`, `ReadBefore`, `ReadObjects`, each of which
may fail) and `Grade` (`gradeStateTransition`). `TargetThrows` is an exception
at any command; every way out without a result is `NotRun`, which removes the
repository. Around it another process of the same user moves the ref
(`OtherMoves`) and someone edits the contract file (`EditFile`), which the run
reads again at every step that needs it.

`EvidenceChain` is the rest of `prove-all.js`: `Prove` (the panels of
`prove.js`, on the target's grant, on one the service issued, or on one minted
locally), `Chain` (the nine points, the correlation and continuity of
`e2e-chain.js`), `Offline` (POINT 10) and `Verdict`. Which panel fails is a
choice; the executors the panels exercise have modules of their own.

## 4. Runs

| run | instance | what it shows |
|---|---|---|
| `pg_deploys` | 2 sessions, 3 grants (two over one nonce, the third over another nonce for the same article, with a signed digest), 1 article, 2 contents, owner writes, the expiry of the shared challenge | types, single use of grants and nonces, evidence bound to effect, rows touched once, lock order, refinement of `OneUseLedger` |
| `pg_live` | 3 sessions of 2 deployments, 2 clients, one jti in two deployments and another, all over one challenge; two articles to be, so that a second publish could commit | replies are true, from when on a grant without a row has none for good, every request ends |
| `pg_readers` | 2 sessions, 2 grants over a nonce each, 1 tick, 1 rotation, 1 reader, challenges that do not expire; sessions are symmetric | a reconciliation and an export tell the truth about what they read in two statements; when a window is final |
| `git_use` | 2 sidecars of 2 deployments with a common jti, 6 pushes, a branch and a tag, blobs, reads that fail | types, single use, true answers, claims are final, refinement of `OneUseLedger` in its weaker form |
| `git_audit` | 2 sidecars, a branch that keeps a reflog and a tag that keeps none, pushes that delete or restore the branch, 1 reconciliation at a time, commits only | confirmed is proven, every use is accounted for, released bears no marker, unproven is INDETERMINATE, STATE_DRIFT only of an unspent grant |
| `http_use` | 2 calls, 5 requests (a retry, another grant, a create, another deployment's; with the canary and without), 1 other write, an origin that changes its mind and remembers keys, 3 stray tokens | "not applied" is final, the canary keeps writes away, an attestation is a swap, the inductive invariant, reconciliation confirms what was done and nothing else |
| `guard` | 2 requests at once, 15 grants that are good or wrong in one way, 3 key files, a clock to 5 with grants that expire at 1, lag 1 | exactly the authorized are admitted, remedies fit, no replay after a reclaim, the inductive invariant |
| `posture` | 2 keys, 2 ticks, 2 changes of the catalog, every single deviation at the start | the verdict is of the reading; receipts outlive their keys |
| `chain` | 2 versions of the contract, 2 edits, 2 moves by another, every answer of the service, every panel and reading that may fail | proven transitions are the executor's, PASS is one live authorization, a readback is of the grant, an honest run passes |
| `pg_cas_race` | 2 grants, each over its own challenge of one article | *violation*: the comparison is not a compare-and-swap between challenges |
| `git_drift_reply` | 2 sessions of 1 sidecar, a branch and a tag, blobs | *violation*: STATE_DRIFT for a spent grant |
| `chain_scope` | as `chain` | *violation*: the correlated scope is not the grant's |

Why these bounds are enough to be interesting. Two sessions are the smallest
number that race, three with two clients the smallest where one queues for a
client while two queue for a lock; the three grants give every pair of
(same / different jti) × (same / different nonce); two contents let a row
change and change back. For git, one jti suffices to be used twice and a second
one shows that nothing leaks between them; a branch and a tag are the two kinds
of ref git treats differently; two commits let a branch go back to a pin it has
left; the pushes are one of each kind the hook tells apart, and one that mixes
them. `Noted` keeps the first two moves and attestations of a jti: no property
asks more than whether there was a second. For HTTP, two calls are a write and
its retry, or two writers; three strong representations let the resource leave
a pin and come back; the second path holds what the grants of the first write.
For the readers, one tick separates before from after, one rotation the two
keys; limits 1 and 5 truncate and do not. For the guard, the clock passes
`exp`, `exp` plus leeway, and the moment of reclaim. For the chain, two edits
are needed to edit back, two moves to put the ref back before the replay.

The named bounds are `OtherWrites` (HTTP), `MaxClock`, `MaxId`, `MaxChanges`
(readers, guard, posture), `MaxMoves`, `MaxEdits` (chain), and two constraints
on what the clock does to challenges: `OneExpires` (`pg_deploys`: a state in
which the unshared challenge has expired is not followed further) and
`ChallengesLast` (`pg_readers`: nor is one in which any has). An expiry only
adds refusals, which leave nothing behind, `pg_live` follows every one of them,
and the theorems have no such bound. Everything else is finite because
sessions, grants and rows are. `CHECK_DEADLOCK FALSE` stands in
four runs, for that reason and only there: in `http_use` each call returns
once, in `posture` one receipt is made, in `pg_readers` ids run out, and in
`guard` the clock does and a process whose keys file does not load serves
nothing. Everywhere else a next step exists in every state.

Fairness (`pg_live` only): strong fairness of each session's own next
statement. Express runs a handler to its end, Postgres queues waiters of a
lock and the pool queues waiters of a client in arrival order, so a statement
that is possible again and again is executed. Nothing is assumed of clients,
owner, clocks, failures. The property would fail if a path returned a client to
the pool with its transaction open; that mutant is in `PROJECT.json`. No other
component promises that something happens: a git, HTTP or proof run that dies
is reported by the next reading, not resumed.

### Findings

`pg_cas_race`: `db.js:100-101` says the executor can compare-and-swap against
the challenged digest at commit time, and the README that a mutation is refused
when the state is no longer the one the issuer authorised. The gate reads the
digest without a lock (`gate.sql:96-108`); only requests over the *same*
challenge are serialised by its row lock. Two grants over two challenges of one
article both pass; the second DELETE finds no row and is still committed,
sealed and attested – truthfully, as a mutation that touched no row. What does
hold, and is proved, is `EvidenceBindsEffect` and `RowsTouchedOnce`: the second
attestation does not claim the removal.

`git_drift_reply`: after a failed batch the ledger ref is read with
`readRef`, which asks for a commit. A claim points at the new sha, and outside
`refs/heads` that may be a blob or a tree. If git dies after such a batch
landed, the caller is told STATE_DRIFT with `grant_spent: false`, "This grant
was NOT consumed" (561), though it was. With commits only, `git_audit` shows
the answer is right, and `DriftIsUnspent` proves it.

`chain_scope`: where the git target ran, continuity is handed the grant without
its `scope_hash` (`e2e-chain.js:684`), so "the correlation must bind the
SERVER's scope" (`authorization-continuity.js:123`) is not compared. An edit of
the contract after the grade changes what is correlated, POINT 10 recomputes
the edited bytes, and the run passes. What does hold, and is proved, is that the
grant behind the PASS was issued live, consumed, and acted upon.

### Also seen

What follows has no run of its own: it is no statement of the repository that is
violated, or the model shows it in a few steps and states its properties around
it. Each was met while modelling or showed up when a property was too strong.

* git: forty zeros pass `isSha` as a new sha, and the batch writes the same sha to
  the claim and to the target. To git that is "must not exist afterwards": the
  claim's line does nothing and the target's deletes the ref, so the claim and
  the move do not "land together or not at all" (`git-atomic.js` 488-489, 697),
  and the grant is as unspent as before. Single use, true answers, the
  refinement and the reconciliation are therefore stated and proved for a
  `Protected` repository: hook from the start, and no request for a deletion.
* git: a claim without a marker is RELEASED, "the grant is spent and nothing
  mutated" (`reconcile.js:40`) or the move is on "a ref outside the set given"
  (461). A tag keeps no reflog, so a tag that moved is reported so even when it
  is in the set; a branch deleted since, with its reflog, is another way there.
  What does hold, and is proved: the use is in the report
  (`EveryUseIsAccounted`), and no ref of the report bears a marker of what is
  called released, whatever lands between the readings (`ReleasedIsUnmarked`).
* git: `reflogMarkers` takes a command that fails for an empty reflog (416), a
  reflog longer than `execFile` buffers by default among them. A ref that moved
  without attestation is then RECONCILED, where `git-atomic.js:602` promises
  INDETERMINATE. (A ledger that cannot be read errs on the other side: every move
  then lacks its claim.) The promise is checked and proved where reads succeed.
* git: `consumeOnce` takes `readRef`'s `absent:<ref>` for a claim and reports
  every jti as already consumed (`git-atomic.js:706`, `docs/adapter-spi.md:62`).
  Nothing in the executor calls it.
* middleware: a request in flight while its claim is reclaimed is executed
  again, and the built-in leeway does not cover a verifier whose clock lags.
  `NoReplayAfterReclaim` excepts the first and asks for a leeway that covers
  the lag, which a cleanup can request.
* HTTP: `IF_MATCH_NOT_HONORED` says the origin still wrote; an origin that
  replays a remembered answer, or that came back to the pinned tag before the
  write, did not ignore anything.
* HTTP: REJECTED is to mean that the target did not move (`reconcile.js:38`) and
  that the origin says the write "did NOT land" (603). The origin says what it
  holds now: a write that was applied, whose answer was lost and which another
  client replaced, is REJECTED; so is one still on its way. What does hold, and
  is proved, is what the adapter itself says of its write (`UntouchedIsFinal`)
  and that CONFIRMED is proven.
* keys: `reconcile.js:282-283` says that a retired key still verifies evidence
  from inside its window. The window is compared with the time of the question
  (286, 335), and the time of the evidence is not read, so evidence of a good key
  becomes INDETERMINATE with time. (`attest.js` of the middleware compares the
  time of the commit.) `DoubtIsOnlyAboutKeys` says that nothing else makes a
  Postgres entry doubtful.
* posture: a receipt is judged by its key's window at the time of the
  measurement; the signing key's status is checked, its window is not. Without
  a key manifest the verifier uses the one key it is given and compares the kid
  on the envelope with nothing, not even with the `executor_kid` that is signed
  (`posture.js` 570-588); `ReceiptsOutliveTheirKeys` therefore says of that case
  which key signed and nothing of the label.
* Postgres: a reconciliation that finds no row says REJECTED, and a transaction
  open at that moment may still commit, even after its challenge has expired,
  which is compared once, under the lock. `RejectionIsFinal` says from when on
  it cannot: when the nonces bear their stamps.
* posture: the six queries share no snapshot, so a PASS may be of a catalog
  that never was; `VerdictIsOfTheReading` says what it is worth.
* audit export: `as_of` is taken before the rows are read, so the bundle may
  hold rows committed after it; and a row may appear in a window that was
  exported, unless no transaction older than the window's end was open
  (`QuietWindowIsFinal`). The export says as much of itself.
* proof run: with two edits of the contract, a transition may be PROVEN though
  the landed bytes are not the grant's, because the grader compares with the
  file as it is then. When the target gave up with `ran: false`, a second live
  grant is asked for (`prove.js` 235-241, although the comment calls for one
  per run), and the comment at `prove-all.js` 301-303 announces a local mint
  that `runGitTarget` does not make. `ledger_consumed_jti || grant_id`
  (`e2e-chain.js:687`) compares a grant with itself where the ledger has none;
  POINT 2 still fails there, which is why `PassIsOneAuthorization` holds.

## 5. Proofs

TLC checks the instances of section 4; the theorems below hold for any sets of
sessions, sidecars, grants, nonces, refs, objects, paths, representations and
contract versions (`PgReadersProofs` asks that the ledger keys be finitely many).
Every invariant whose name ends in `Inv` is an inductive strengthening or a
conjunct of one; the text says what it adds to the property and why the property
alone is not enough.

### `PgAtomicProofs`

Assumptions: `PgConstants` (grants have the fields of `GrantType`, sentinel
values are not data) and `NullIsNoRow` (NULL is no record).

`Inductive` proves `Spec => []IInv`. The properties alone are not inductive:
`OneUse` at COMMIT needs that no other transaction committed the same key since
the INSERT. `IInv` therefore adds

* `LocksExclusive`: a row or key is held by one session;
* `SessionInv`: past its first statement a session holds its challenge, and what
  it read under that lock is still committed; past the INSERT it holds its key
  and the committed ledger has no such row; its own row goes from consumed to
  sealed over the preimage of its own write, and the token carries both;
* `StageLocks`: what a session may hold at each stage;
* `SessionRow`, `CommittedRows`: an uncommitted mutation's row is as it was
  found, and committed creations and removals are final;
* `NoStrayEvidence`: no token without a ledger row.

The proof has one lemma per group of conjuncts (`TypeStep`, `SessionStep`,
`LedgerStep`, `StageStep`, `RowStep`), each with one step per action;
`SessionFrame` and `OthersKept` say once why the sessions that do not move keep
what they know, and `CommitFacts` what a commit makes visible. From `Inductive`
follow `TypeCorrect`, `GrantsAreSingleUse`, `NoncesAreSingleUse`,
`EvidenceIsBound`, `RowsAreTouchedOnce`, `NoDeadlockedTransactions`, and
`ExecutorKeepsPromise`: every step of `PgAtomic` is a step of `OneUseLedger` or
leaves its variables alone, so consumption, mutation and evidence become
visible together.

### `PgReplyProofs`

`RepliesAreTrue` proves `ReplyTruthful` on top of `IInv`. The answer that needs
an argument is STATE_CHALLENGE_CONSUMED: that the nonce was spent by *another*
grant, which has a row. `ReplyInv` adds `SpentHasRow` (what stamped a nonce has
its committed row), and `LedgerGrows` shows that rows, stamps and what is
attested for a spent grant are final, so an answer once true stays true while
others work; `RejectionsAreFinal` follows from it and from `NonceSingleUse`, by
which a stamped nonce is a spent one (`StampsStay`). The other lemmas, one per kind of answer, show that a step answers
nothing, or a refusal that promises nothing, or the truth.

### `PgReadersProofs`

Assumptions: those of `PgAtomicProofs` and `ReadersConstants` (finitely many
keys, limits at least 1, the windows and the targets of the issued challenges
have their types, sentinels are not data). Sessions, articles, nonces, windows
and limits are any sets, and the executor goes on working between any two
statements of a reader.

`ReadersInductive` adds to `IInv` and `SpentHasRow` what a reader relies on: a
committed row is whole and its token bears the kid of a known key (`WholeRows`),
a key is retired at a time that has come (`RetiredThen`), and a row an audit
holds between its two statements is still the committed one (`HeldRow`, by
`RowsAreFinal`). `StoredVerdict` works out what the verifier says of a stored
token under any manifest, and `EntryTells` what the entry says then; from it
follow `AuditsTellTheTruth` and `DoubtsAreAboutKeys`.

`QuietWindowsAreFinal` needs that a row becomes visible only by a commit whose
transaction was open before (`BeganInv`, `OneMoves`): once no open transaction
began before the end of a window, the window can get no more rows.
`ExportsMissNothing` needs that rows visible at `as_of` stay visible
(`ColumnsAreFinal`) and that the LIMIT cuts at a row of one total order:
`Numbered` and `RowsNumbered` say that ids are distinct and below the sequence,
`FirstIsAPrefix` that what is left out comes after all that is kept,
and `FirstIsFull` that nothing is left out of an export that is not full
(the first row left out exists, `SmallestSet`, and has exactly the kept ones
before it).

### `GitAtomicProofs`

Assumptions: `GitConstants` (grants, bodies and pushes have their types, git
lets branches hold commits only) and `NoneIsNoValue`. Sessions, deployments,
jtis, refs, objects and pushes are any sets; commands may fail as they like.

`Inductive` proves `Spec => []IInv`, where `IInv` is `TypeOK`, `Busy` (a busy
session has a request with a pin) and, on a `Protected` repository, `Guarded`.
`OneUse` is not inductive alone: a batch that lands knows only that the claim is
absent. `LedgerInv` makes that mean "has moved nothing"; the hook makes it
last; `MarkersAreClaims` makes the reflog's early refusal true; `SignerInv` and
`OneSigner` say that a session about to sign is the only one that knows of its
move and that nobody has signed it, so that evidence is of the one move there
was. `GuardedStep` has one step per action, resting on `QuietStep` (steps that
leave ledger, moves and evidence alone), `LandStep`, `SignStep` and `PushStep`.
From it follow `TypeCorrect`, `GrantsAreSingleUse`, `AnswersAreTrue`,
`ClaimsStay` (with any hook at the start, where the run begins with ours) and
`ExecutorKeepsPromise`: landing is `Execute`, signing is `Attest`.

`DriftIsUnspent` proves `DriftMeansUnspent`. Its hypotheses are what the finding
`git_drift_reply` and the reading of `readRef` leave over: the repository is
`Protected`, every request moves its ref to a commit (`MovesToCommits`; what the
repository holds otherwise, and what others push, may be anything), and reads do
not fail. `Unanswered` (a session that runs commands has not answered) shows
that only `Explain` can give this answer, and `ClaimsAreCommits` (the claim of a
grant that moved something is a commit) that `Explain` then sees the claim.
`AuditLooksOn` carries this and the invariant over to an audited executor, on
which the run checks it.

Reconciliation: for a `Protected` repository whose reads succeed, `AuditInv` is inductive with
`IInv`: what was spent or marked when the question was asked has a claim, for
good; once the ledger is listed it lists them; and a marker that is there
throughout has been read once its ref has (`MarkersSeen`; it cannot have been
gone in between, because a marker only appears with a new claim). `ListedIsRead` is the other direction: a claim that was listed stays, so a marker
of it on a ref that was read was there when the ref was read. From it follow
`UsesAreAccounted`, `ConfirmationsAreProven`, `ReleasedClaimsAreUnmarked` and
`UnprovenIsReported`.

### `HttpAtomicProofs`

Assumptions: `HttpConstants` and `NullIsNoCall` (no sentinel is a value). Calls,
paths, grants, requests and representations are any sets; the origin does as it
likes.

`CallInv` says what each stage of a call has established: before the write
leaves there is no trace of it; once it left, the pin was there and strong, a
probe had said HONORS_IF_MATCH, and what was seen fits the kind of pin; an
applied write that was judged replaced the pinned state; a call about to sign
saw the pinned state and heard a 2xx, which is its own write or a remembered
one. `MemoryIsEarned` says that the origin remembers only what it once applied;
without it the replayed answer of a retry would prove nothing. `LastWriteStands`
says that without another client a path that calls wrote holds what one of them
wrote. From `Inductive`
follow `UntouchedStaysSo`, `CanaryIsObeyed` and `AttestationsAreSwaps`.

Reconciliation. `ConfirmationsAreProven`: CONFIRMED means a write of that grant to that resource
was applied. `ValidSays` and `ValidIsSigned` read from the verifier that a valid
token is one a call signed, for the deployment asked about, this grant and this
resource; the rest is `AttestedIsSwap`. `SealsAreConfirmed` is the other
direction (`SealedIsConfirmed`): the token of a call that sealed, put to the
verifier for the sidecar's deployment, is CONFIRMED as long as no other client
wrote and no other call wrote anything else. `SignerResolves` and `SealedTokenVerifies` take the
token through every check of the verifier in order, and `LastWriteStands`
supplies what the origin holds now.

Assumptions: `StrayAssumption` (no key in force, or ever, signed a token a call
did not), `ManifestNamesTheSigner` (the manifest is the sidecar's: its first
entry for the kid the sidecar signs under is its active key; with a manifest of
somebody else a good token is rightly INDETERMINATE) and `NoneIsNothing` (no
sentinel is a target or a token).

### `PostureProofs`

Assumptions: `PostureAssumption` (times are natural numbers). Keys, their
windows, the leeway and the number of commits during a reading are arbitrary.

`PostureInductive`: what a query answered was so of an object that was there
during the reading (`CatalogInv`, `FactsInv`); a signed receipt is of the whole
reading or of its failure, and later commits change nothing of it
(`ReceiptInv`); the key that signs was active when the reading began, so its
window can only have been closed since (`KeysInv`). `PinnedByFact`, over the
kinds of change the six queries look at, says that only objects as pinned give
the baseline's facts; with it `VerdictsAreOfTheReading` goes from the drift of
a receipt back to the objects. `RotationIsNotRevocation` proves
`ReceiptsOutliveTheirKeys`: `VerifyKey` is the key a label leads to, which is the
manifest's or the one key in hand, and a signature verifies under its own key
only.

### `GuardProofs`

`GuardInvariant` and `ReclaimIsSafe` (`NoReplayAfterReclaim`). That a grant runs
once while its claim is there is the executor's matter; that it is too late
once the claim is gone needs the chain the invariant spells out: an admitted
grant was signed and has an expiry (`InflightIsSigned`), the ledger carries
that very expiry (`LedgerCarriesExp`, because an issuer gives a jti to one
grant), a claim that is gone is past expiry, leeway and lag (`GoneIsPast`), and
what was in flight just then is known (`GoneInflightStraddled`). `GuardAssumption`
asks that the leeway of a cleanup covers the verifier's leeway and the lag of
its clock; with the built-in leeway alone the theorem holds without lag only.

`GuardAdmitsTheAuthorized` proves `GuardIsExact` for any keys file, grants and
requests, in both directions: that whatever the guard admits is authorized, and
that it refuses nothing that is. `AnswerInv` says that an answer is
`GuardAnswer` of the ring the process holds; the rest is about the operators.
A kid resolves to the last entry the file has for it, unless that one is
retired (`Vouches`; other statuses are as good as active there); each list of checks is
taken apart once, for what passes and for what fails. `RemediesFit` proves
`RemedyFits`: the check that fails first decides the reason (`RefusalIsOf`),
what fails before the request is looked at asks for another grant
(`InauthenticIsInvalid`), and what fails on the request asks for a grant for
this one (`UnboundIsMismatch`). Assumption: `GrantShapes` (a parsed
grant has a version, an operation, and times that are dates or are not; a keys
file is a list; None is none of these).

### `EvidenceChainProofs`

Assumptions: `NoneAssumption` and `NoneIsNothing` (no value is no grade and no
verdict, no bytes and no grant).
`ProvenTransitionsHappened` proves `ProvenMeansMoved`: `RefInv` keeps the ledger
empty and the log free of the executor until it acts, and from then on the claim
refuses the replay, so its move stays the only one, from base; `ObsInv` ties the
bytes observed to the commit observed, although they are read one after the
other; `FileInv` follows the contract through at most one edit, and `GradeInv`
keeps what was graded. `PassesAreAuthorized` proves `PassIsOneAuthorization`:
`ReportInv` says on which grant the panels ran (a bearer or the record is never
the grant minted locally, so continuity fails there), `PointInv` what points 1
and 2 and continuity stand for between the chain and the verdict.

`ReadbacksAreOfTheGrant` proves `ReadbackIsOfTheGrant`: `ScopeInv` says that what
an executor wrote under a grant is the version that grant was asked for, and
`BindInv` what a correlation names where the target did not run. `HonestRunsPass`
proves `HonestRunPasses`, that an undisturbed run with an API key ends in PASS:
`CalmTarget` and `CalmChain` follow it from stage to stage (nobody but the
executor moves the ref, the replay is refused, the move grades PROVEN, every
panel holds, every point is made), so it is also shown that no check of the
chain is one an honest run cannot meet.

### Only model-checked

* `EveryRequestEnds`: liveness and ENABLED are outside the prover's reach.
* The three violations; section 4 says for each what is proved beside it.

No module declares a RECURSIVE operator.

## 6. Not modelled, and why

* Cryptography and encodings: hashes and signatures are injective records; the
  wire format of tokens is a shape.
* Isolation levels other than READ COMMITTED: the code never sets one.
* The sequence of articles burning ids of rolled-back inserts: nobody observes
  an id that never became a row. (That of attestations is in `PgReaders`, where
  it orders an export.)
* The schema migration, `gen-keys.js`, health, readiness and configuration at
  start-up: no two steps of them interleave with anything.
* SPI `consumeOnce` and its argument checks: reads or constants without a caller
  in the executors.
* git: writers with access to the repository's files (the code excludes them,
  `git-atomic.js` 95), gc, clones that claim before they push, requests whose
  target is itself a ledger ref, the checkpoint of reclaimed claims (a shape
  that nothing writes).
* HTTP: the shapes of URLs and headers, and PATCH apart from PUT.
* Reconciliation's headline over many entries and the CLI's exit codes: they
  count outcomes.
* `attest.js`, `offline-check.js`, the bundle assembler: pure re-verification
  of recorded artefacts behind command lines.
* A proof run: the evidence root, the layout of artefacts, the recovery
  section, and a network error that throws out of `prove.js` and ends the run
  without a verdict.
* `metrics.js`: two counters without readers; every statement about them would
  restate an increment.
* Vendored `verifier-core` (except what the chain asks of a readback), examples,
  CI templates, release scripts: not the program's own state.
