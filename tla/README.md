# TLA+ verification of the Mucyora Auth service

This directory holds TLA+ models of the Auth service in `src/`, TLC
configurations that check them on small instances, and proofs, checked by
TLAPS, that the most important properties hold for every instance.  All paths
below are relative to the repository (`src/src/...` is the service's code,
`src/docs/...` its documentation).

The service is a NestJS application that runs as several identical replicas on
one PostgreSQL database and one Redis.  It keeps no state in memory that
matters across requests except the circuit breaker, the citizen requests in
flight, the cursor of the orphan reconciliation and two semaphores.
What makes it hard is therefore not its data but its interleavings: every
request is a chain of reads, slow calls (argon2, HTTP, S3) and a transaction,
and any other request on any replica can run between two links.

## 1. Inventory

| Component (code) | State it keeps | Operations | Interacts with | What makes it hard; what makes it correct |
|---|---|---|---|---|
| **Refresh rotation and reuse detection** (`modules/auth/authentication.service.ts` 231-415, `common/security/token.service.ts`) | `authSession` rows (status, expiresAt), `refreshToken` rows (generation, usedAt, revokedAt, reuseDetectedAt, replacedByTokenId), Redis key `...lock:refresh:<sessionId>` | `refresh`, `revokeForReuse` | sessions are ended by logout, password calls, upgrade and the expiry job | rows read before the lock, a lock that expires under its owner, two lock orders; one exchangeable token, an intact chain, ended sessions stay ended |
| **Login, failure lock, rehash** (`authentication.service.ts` 77-229, 443-547) | `userCredential` row (passwordHash, failedLoginCount, lockedUntil), new `authSession` and `refreshToken` rows | `login`, `recordFailedCredential` | password calls write the same credential; rate limiter and risk service are asked first | argon2 runs between the read and the transaction, and the transaction inserts the session before it waits for the credential; guesses are bounded, no session or rehash of a replaced password |
| **Password recovery, reset, change** (`modules/password/password.service.ts`) | `passwordResetRequest` rows, credential, sessions, tokens, outbox | `forgot`, `reset`, `change`, `revokeSessions` | login, upgrade, sessions, mail outbox | multi-statement transactions under READ COMMITTED; a request decides once, a change is compare-and-set, all sessions end |
| **Session management** (`modules/sessions/session-management.service.ts`) | sessions, tokens | `list`, `logout`, `logoutAll`, `revoke` | rotation | at most 100 sessions per `logoutAll`; nothing exchangeable afterwards |
| **Session upgrade** (`modules/auth/session-upgrade.service.ts`, `session-upgrade.guard.ts`) | sessions, tokens, idempotency record with sealed tokens | `upgrade` | password calls, identity verification | SERIALIZABLE transaction, retries with one key; one full session per limited one |
| **Access tokens and guards** (`modules/auth/access-token.service.ts`, `access-auth.guard.ts`, `session-level.guard.ts`) | none (the guard reads the session row) | `issue`, `verify`, `canActivate` | everything authenticated | a session checked and then used |
| **Identity verification** (`modules/identity-verification/identity-verification.service.ts`) | `identityVerificationAttempt` rows, the user's `identityVerificationStatus` and `isIdVerified`, `verificationMedia` rows | `createAttempt`, `createUploadPolicy`, `confirmUpload`, `createLivenessSession`, `submit`, `completeAttempt`, `recordUnavailable`, `status` | verification engine (HTTP), S3, stale-attempt job | long external call between PROCESSING and the outcome; one outcome per attempt, no approval of an expired one |
| **Verification media cleanup** (`modules/identity-verification/verification-cleanup.service.ts`, `integrations/verification-storage/verification-storage.service.ts`) | `verificationMedia` rows, S3 objects, a continuation token in memory | `reconcileExpiredMedia` (`deleteExpiredMediaBatch`), `deleteAttemptMedia`, `reconcileOrphanedObjects` | identity verification, stale-attempt job | delete the object, then mark the row; list, then read the rows that track; no tracked object lost, no orphan kept |
| **Step-up verification** (`modules/step-up-verification/step-up-verification.service.ts`) | challenges and single-use assertions | `createChallenge`, `challenge`, `issueAssertion`, `consumeAssertion`, `expireDue` | other services consume assertions | a lost claim starts over, an expiry runs inside every call; one assertion per challenge, accepted once and after a pass |
| **Registration and citizen lookup** (`modules/registration/citizen-lookup.service.ts`, `registration.service.ts`, `registration-challenge-lifecycle.service.ts`) | `registrationChallenge` rows, users, identities, credentials, idempotency records | `initiate`, `register`, `recordAttempt`, `consume` | citizen adapter, outbox | a transaction of unique inserts and row locks, a retry that meets the first request half done; a challenge makes one account, of its own identity and address |
| **Email verification** (`modules/email-verification/email-verification.service.ts`) | verification tokens, account status | `verify`, `resend` | outbox | resends that do not see each other; one activation, a used token is never superseded |
| **Passkeys and recovery codes** (`modules/passkeys/passkey.service.ts`) | WebAuthn challenges (Redis), passkeys with counters, recovery codes | `registrationOptions`, `verifyRegistration`, `authenticationOptions`, `verifyAuthentication`, `revoke`, `consumeRecoveryCode`, `rotateRecoveryCodes` | issues sessions, opens recovery requests | counters from an earlier read; a flow makes one session, a code opens one request |
| **Mail outbox** (`integrations/mail/mail-outbox.worker.ts`, `http-mail.adapter.ts`) | outbox rows (`publishedAt`, `deadLetteredAt`, `attemptCount`, lease and its owner), Redis batch lock | `dispatchBatch`, `dispatchAvailableEvents`, `dispatchEvent` | every component enqueues | batch lock not renewed, crash between send and record; every mail is sent or has had its attempts |
| **Operational jobs and job lock** (`modules/operations/operational-jobs.service.ts`, `common/operations/distributed-job-lock.service.ts`) | Redis job lease | `runCycle`: `deleteByIds`, `expireSessions`, `deleteRetainedSessions`, `expireStaleAttempts`, `deleteRetainedSecurityEvents` | all tables | rows selected before they are written; the cycle outlives its lease |
| **Citizen provider adapter and circuit breaker** (`integrations/citizen-api/nida-citizen.adapter.ts`, `citizen-circuit-breaker.ts`, `citizen-cache.service.ts`) | in-flight requests, encrypted cache (Redis), breaker state, failures, openedAt, probe flag | `findByNationalId`, `assertRequestAllowed`, `recordSuccess`, `recordFailure` | registration | results of requests admitted in an earlier state; one request per id, a probe that always ends |
| **Semaphores** (`common/security/password-policy.service.ts`, `integrations/engine/engine.service.ts`) | active count and waiter queue | `acquire`, `release` | login, registration, verification | a woken waiter counts itself late; nobody waits for ever |
| **Idempotency records** (used by registration and upgrade) | `idempotencyRecord` rows with the request's digest and its result | look up, insert, replay, purge | upgrade, registration | record read before it is inserted |
| **Rate limiters, login risk** (the four `*-rate-limiter.service.ts`, `login-risk.service.ts`) | one Redis counter per window | `assert...Allowed`, `assess` | login, registration, ... | INCR and EXPIRE are one script; fixed windows |
| **Configuration, security utilities, health, HTTP shell** | none | - | - | stateless |

`PROJECT.json` lists the same components with their sources and status, and
under `hazards` every spot where this code can go wrong in a way a test would
hardly reach, with the property that watches it or the reason none does yet.

## 2. Modules and their order

The order is by what a failure would cost: first what decides who holds a
session, then what decides who a user is, then delivery and housekeeping.
Each row was built as model, run, and proof where the last column names one.

| # | Module | Question | Abstract specification | Composed in | Proofs |
|---|---|---|---|---|---|
| 1 | `RefreshRotation` | rotation, reuse, revocation, crashes, the expiring lock | `SessionFamily` | `MCSessions`, `MCAccountFlows` | `RefreshRotationProofs` |
| 2 | `CredentialLifecycle` | login, forgot, reset, change, upgrade on one user | - | `MCSessions` | `CredentialLifecycleProofs` |
| 3 | `IdentityVerification` | several attempts of one user, the engine, the stale-attempt job | `EnrollmentLedger` | `MCDeferredWork` | `IdentityVerificationProofs` |
| 4 | `StepUpVerification` | challenge, assertion, consumption, expiry by every call | `SingleUseTicket` | `MCAccountFlows` | `AccountFlowsProofs` |
| 5 | `SessionUpgrade` | idempotency key, replay, serialization failure | - | `MCAccountFlows` | `AccountFlowsProofs` |
| 6 | `Registration` | lookup, transaction, unique indexes, retries | `AccountLedger` | `MCAccountFlows` | `RegistrationProofs` |
| 7 | `EmailVerification` | verify and resend beside each other, deadlock | - | `MCAccountFlows` | `AccountFlowsProofs` |
| 8 | `Passkeys` | flows, counters, revocation, recovery codes | - | `MCAccountFlows` | `PasskeysProofs` |
| 9 | `MailOutbox` | replicas, lock, leases, crashes | - | `MCDeferredWork` | `DeferredWorkProofs` |
| 10 | `CitizenProvider` | shared requests, retries, circuit breaker | - | `MCBackground` | `BackgroundProofs` |
| 11 | `RetentionJobs` | cycles that outlive their lease, writes by stale ids | - | `MCBackground` | `BackgroundProofs` |
| 12 | `MediaCleanup` | rows and objects, orphan reconciliation | - | `MCBackground` | `BackgroundProofs` |
| 13 | `CallSlots`, `RateLimiter` | late waiters, windows | - | `MCBackground` | `BackgroundProofs` |

Components meet where they write the same rows, and there a module models all
of them: rotation with logout, expiry and password change in 1, login with the
password calls and the upgrade in 2, evaluation with the job in 3, the upgrade
with rotation, logout and the purge of its record in 5, codes with rotation of
codes in 8, media with decisions and stale attempts in 12.  What would be left
to add is under "Not modelled".

## 3. How the database is modelled

The modules that write PostgreSQL rows use one discipline, stated in their
headers:

* A transaction is run **statement by statement**.  An `UPDATE` fixes its
  candidate rows when it starts (its snapshot: `ScanFamily`, `ScanTokens`,
  `ForgotScan`, `ScanResets`, `ScanSessions`), locks them one by one in any
  order, waits for a row another transaction holds, and tests its `WHERE`
  clause again on the row as committed then.  This is PostgreSQL's READ
  COMMITTED, the default that Prisma's `$transaction` uses here when no
  isolation level is given.
* Effects become visible **at the commit**, in one step that also returns the
  row locks.  A transaction's own uncommitted writes are never read back by the
  modelled code, so they need no variables of their own.
* A transaction can **fail at any statement** (`FailTx`, `Abandon`): a lost
  connection, a deadlock that PostgreSQL breaks, a serialization failure, or
  Prisma's interactive-transaction timeout.  Everything is rolled back.
* Reads that the code does before a transaction are stored in `seen`, with the
  columns later code looks at, and may be stale when used.

`SessionUpgrade` is SERIALIZABLE in the code and so in the model: it sees the
rows as they were at its first read (`snap`), and an insert or update that waited
for a row fails when the other transaction commits.  `EmailVerification` finds
its deadlocks itself (`Deadlocked`: two calls that wait for each other) and
`EndDeadlock` ends one, as PostgreSQL does.

The schema itself (`@mucyora/db`) is not in the repository.  Where an index the
schema may have matters (`(sessionId, generation)` unique), it is a constant
and the runs take the weaker choice.

## 4. The modules

### `RefreshRotation`

One session, its token family and its Redis lock; any number of refresh calls
(`Request`) and of transactions that end the session otherwise (`Revoker`:
logout/logout-all/revoke, password change, expiry job).

| Model | Code (`authentication.service.ts` unless named) |
|---|---|
| `Present` | the digest lookup of `refresh`; `seen` holds the token and session columns it returned |
| `AcquireLock`, `LockBusy`, `ReleaseLock` | `SET NX EX 5`, 409, and the compare-and-delete in `finally` |
| `Reject`, `StartReuse`, `StartRotation` | the decision inside the lock: conflict within grace, reuse after it, unusable or expired, or the rotation |
| `TouchSession`, `InsertReplacement`, `ConsumeToken`, `CommitRotation` | the rotation transaction, statement by statement |
| `ScanFamily`, `LockTokenRow`, `MarkCompromised`, `CommitReuse` | `revokeForReuse` |
| `FindSession`, `EndSession`, `ScanTokens`, `CommitRevocation` | `session-management.service.ts`, `password.service.ts` (`revokeSessions`), `operational-jobs.service.ts` (`expireSessions`) |
| `FailTx`, `Crash`, `LockTtl`, `Tick` | failures, a dying replica, the Redis TTL, time |

Abstracted: the digests (a token is its row), the risk and security events, the
sealing of the response, tokens' own `expiresAt` (equal to the session's).

### `SessionFamily`

What rotation promises, in five lines: while the session is ACTIVE exactly one
generation can be exchanged; an exchange moves to the next; an ended session
exchanges nothing and never revives.  `RefreshRotation!ImplementsFamily` is the
refinement, with `spendable` the generations of live tokens of an ACTIVE
session.

### `CredentialLifecycle`

One user: the credential row, its recovery requests and its sessions; any
number of login and password calls (`Call`) and session upgrades (`Upgrader`).

| Model | Code |
|---|---|
| `LoginRead`, `Decide` | `login`: the user is read, argon2 verifies, lock and result decide |
| `RecordFailedCredential` | `recordFailedCredential`: `failedLoginCount: { increment: 1 }`, the lock from the count *read* |
| `InsertSession` | the transaction of `login`, up to its wait: session and token are inserted and seen by nobody |
| `CommitSession` | its `UPDATE` of the credential by id, which waits for a change that holds the row: cleared counters, rehash; and the commit |
| `ForgotScan`, `LockReset`, `ForgotCommit` | `forgot` |
| `ResetRead`, `ResetConsume`/`ResetRefused`, `ResetCredential` | `reset` up to the shared tail |
| `ChangeAdmit`, `ChangeRead`, `ChangeCas`/`ChangeConflict` | `AccessAuthGuard` and `change` |
| `ScanResets` ... `PasswordCommit` | the tail both share: revoke requests, revoke sessions, commit |
| `UpgradeRevoke`, `UpgradeCommit` | `SessionUpgradeService`, as far as it replaces a limited session |
| `Abandon`, `ExpireReset`, `Tick` | failures, expiry, time |

`hash` is a record: the password it encodes, the number of the write (two
hashes of one password differ by their salt) and whether its profile is a
legacy one that login rehashes.  `epoch` and `since` are history
variables: how many password changes there have been, and in which epoch a
login inserted its session.  No action's guard reads `since`, and `epoch` only
appears in the bound `epoch < MaxHash`.

Abstracted: the rate limits and the risk assessment before a login (an issue
may have either level whatever the risk), refusals that change nothing, the
outbox and security events the transactions also insert, the fact that
`accountStatus` and email verification can refuse a login.  Passkey login and
recovery codes are in `Passkeys`, without the password: the sessions of a passkey
login, which takes no notice of the credential row, are not among these.

### `IdentityVerification`

One user's enrollment attempts: any number of requests (`Call`) that create,
feed and submit attempts, and of cycles of the job (`Job`) that expires stale
ones.

| Model | Code (`identity-verification.service.ts` unless named) |
|---|---|
| `StartRead`, `StartCount`, `StartActive`, `StartLatest` | the reads of `createAttempt`, each of which sees what is committed by then |
| `StartInsert`, `StartTouchUser`, `StartCommit` | its writes: the attempt, then the user's row, `PENDING` |
| `EvidenceRead`, `StoreLiveness`, `StoreMedia`, `MediaDeleted` | the liveness session and the confirmed document, and the media worker that deletes it |
| `SubmitRead`, `SubmitClaim` | `submit` up to the conditional update to `PROCESSING`, committed before the engine is asked |
| `Evaluate` | the engine's answer, or any of the ways there is none |
| `RecordUnavailable` | `recordUnavailable`: an update by id, whatever the attempt has become |
| `CompleteAttempt`, `DecideUser`, `CommitDecision` | `completeAttempt` statement by statement, `mapDecision` |
| `JobSelect`, `JobScan`, `JobLock`, `JobCommit` | `expireStaleAttempts` (`operational-jobs.service.ts`) |
| `Abandon`, `JobFails`, `Tick` | a dead replica or an error, a failed cycle, time |

`local` is what a call has in its variables: the attempt, the status it read,
the `now` it took at its start, the number it will insert, the verdict.  A
crash between `SubmitClaim` and the outcome leaves the attempt `PROCESSING`
with nobody working on it, which is what the job is for.

Abstracted: the evidence (whether there is a session and a document), the
engine's scores and reasons, audit events, the media rows' own columns.  Left
out: step-up attempts, and the preconditions that stay true throughout (active
account, linked citizen, consent).

### `EnrollmentLedger`

What the detailed model implements: an attempt is settled at most once and for
good, and the user's status is that of the latest event, the start of an
attempt or a settlement.  The status is deliberately allowed to go from
`VERIFIED` back to `PENDING`, since the code lets it (section 7).

### `StepUpVerification`

The challenges of one user for one purpose and target, and any number of calls
about them.

| Model | Code (`step-up-verification.service.ts`) |
|---|---|
| `Begin` | `const now = new Date()` of the four operations; "look" is `challenge()` |
| `ExpireScan`, `ExpireCommit` | `expireDue`, which every call runs first |
| `CreateFind`, `CreateCommit` | the transaction of `createChallenge`: its reads, then its inserts |
| `IssueRead`, `IssueClaim`, `IssueCommit`, `Deliver` | `issueAssertion`: the replay of a sealed assertion, or the conditional claim; `IssueClaim` starts over when it changes no row |
| `ConsumeRead`, `ConsumeUpdate` | `consumeAssertion` |
| `AttemptEnds` | the linked attempt is decided or expires (`IdentityVerification`) |
| `Abandon`, `Tick` | failures, time |

Abstracted: digests and the envelope (`sealed` says whether it can be opened),
other users' and purposes' presentations (they end after the lazy expiry, as
"look" does), which service may consume what, security events.  Two creations
may overlap and leave two open challenges; nothing in the documentation
excludes it.

### `SingleUseTicket`

What the detailed model implements: a ticket gets one proof of its own, no
other is ever shown, it is accepted at most once, and never after its death.

### `SessionUpgrade`

The exchange of one limited session for a full one; any number of upgrade calls
with keys and request contents, and what writes the same rows beside them.

| Model | Code (`modules/auth/session-upgrade.service.ts` unless named) |
|---|---|
| `Upgrade` | `SessionUpgradeGuard`: an ACTIVE or UPGRADED session that has not expired |
| `Begin` | the first read of the SERIALIZABLE transaction: a record is replayed or refused, else the rows are as now |
| `InsertKey`, `Eligible` | the insert under the unique index of scope and key; the reads of session, user and attempt |
| `Revoke`, `Commit` | the conditional update of the limited session; the rest, and the sealed result |
| `Check`, `Issue` | after the transaction, replayed or not: the full session must be active; the access token |
| `RotateLimited`, `CommitRotation`, `Logout`, `EndFull`, `Decide`, `Purge` | rotation, logout, the end of the full session, identity verification, the deletion of expired records |

The requests' contents differ in their transport only, and each names the user's
one attempt: that is what the request's digest covers.

### `Registration` and `AccountLedger`

| Model | Code (`modules/registration/`) |
|---|---|
| `FindCitizen`, `ReadIdentity`, `CreateChallenge` | `citizen-lookup.service.ts` after its rate limit; the citizen it finds is an input |
| `Register`, `Replay`, `ReadChallenge`, `HashPassword` | `register` before its transaction: the idempotency record, the challenge, argon2 |
| `InsertKey`, `RecordAttempt`, `ReadOwners`, `InsertUser`, `InsertIdentity`, `Consume`, `Commit` | the transaction, statement by statement, with its unique indexes |
| `Rollback`, `Fail` | an error in it, a lost connection or process |

`AccountLedger` is what this promises without calls or rows: a challenge yields
one account or none, of the identity and address it was opened for, and no two
accounts share either.  `ImplementsLedger` is the refinement.

### `EmailVerification`

`Verify`, `ReadToken`, `Consume`, `Activate`, `CommitVerify` are `verify`;
`Resend`, `ReadUser`, `StartSupersede`, `LockToken`, `CommitResend` are `resend`,
whose update of the older tokens takes their rows one by one.  A verification
holds the token and waits for the account where a resend holds another token, so
that deadlocks are real (`Deadlocked`) and are ended (`EndDeadlock`).

### `Passkeys`

One user's passkeys, authentication flows and recovery codes.

| Model | Code (`modules/passkeys/passkey.service.ts`) |
|---|---|
| `AuthenticationOptions`, `VerifyAuthentication`, `TakeFlow`, `ReadCredential`, `Verify`, `StoreSession` | the flow: challenge, GETDEL, the credential with its counter, the assertion, the counter and the session in one transaction |
| `RegistrationOptions`, `VerifyRegistration`, `TakeChallenge`, `CreateCredential`, `RevokeCredential` | registration under the user's one challenge, revocation |
| `ConsumeRecoveryCode` | the conditional update of a code and the request it opens |
| `RotateRecoveryCodes`, `CommitRotation` | the update that revokes the codes it finds, the new codes |
| `Sign`, `ExpireFlow`, `Fail` | authenticators, the TTL, errors and crashes |

An assertion may be presented to its own flow or another's, once or more, by any
calls.  `VerifyAuthentication` remembers which passkeys were revoked when it
began (`revoked`, a history variable).

### `MailOutbox`

| Model | Code (`integrations/mail/mail-outbox.worker.ts`) |
|---|---|
| `AcquireLock`, `LockExpires`, `ReleaseLock` | the poll under `runExclusive`: SET NX EX, no renewal, compare-and-delete |
| `SelectBatch`, `StartChunk`, `EndBatch` | the oldest `OUTBOX_BATCH_SIZE` events with the attempt counts read with them, and their slices of `OUTBOX_DELIVERY_CONCURRENCY` |
| `Claim`, `Send`, `RecordSuccess`, `RecordFailure` | `dispatchEvent`; a provider that accepted may have its answer lost |
| `AbandonBatch`, `Crash` | a failure that cannot be recorded, a replica that dies |
| `FallsDue`, `LeaseRunsOut` | time |

Simplified: a replica that gave up a batch (`AbandonBatch`) while some of its
deliveries are still in work does not take these events into its next batch.

`PidsDiffer` is a constant because the worker's id is `mail-<pid>`: in
containers the pids of two replicas are mostly equal, so a lease does not tell
them apart, and the runs take that case.

### `CitizenProvider`

One process: actions are what runs between two awaits.  `FindByNationalId`,
`ReadHit`, `Join`, `Fetch` are `findByNationalId` with its cache and in-flight
map; `Found`, `NotFound`, `Retry`, `EndDelay`, `Fail`, `Settle` a request with
its attempts; `AssertRequestAllowed`, `RecordSuccess`, `RecordFailure` the
breaker (`citizen-circuit-breaker.ts`), which a request meets once before its
first attempt and once with its outcome.  The reset interval, the cache's TTL
and delays pass as events (`Elapse`, `ExpireCached`, `EndDelay`), so a request
can be slower than any of them.

### `MediaCleanup`

Objects of the bucket, the rows that track them and the three ways of deletion.

| Model | Code (`verification-cleanup.service.ts` unless named) |
|---|---|
| `Upload`, `EndPolicy`, `ConfirmUpload`, `HeadObject`, `CreateRow`, `FailConfirm` | a client, `createUploadPolicy` and `confirmUpload` (`identity-verification.service.ts`, `verification-storage.service.ts`) |
| `Decide`, `Hold`, `Expire`, `ExpireStale`, `Age` | decisions, legal holds, deadlines, `expireStaleAttempts` |
| `DeleteExpiredMediaBatch`, `DeleteAttemptMedia`, `DeleteObject`, `MarkRow`, `Retry` | selection, object, row, and the deadline of the next attempt |
| `ListObjects`, `ReadLegacy`, `ReadTracked`, `DeleteOrphan`, `SkipOrphan`, `EndReconciliation`, `Restart` | the reconciliation page by page, with rows an earlier version wrote without a digest |

Simplified: an upload policy is valid for less than the orphan grace, as in the
default configuration; the stale-attempt job is one action (`IdentityVerification` has it
statement by statement); a pass that is cut short is one that skips or
restarts.  Passes that delete expired media are not serialised by their leases,
which only adds behaviours; of the reconciliation there is one pass at a time,
which leaves out one that overlaps it on another replica once its lease has lapsed.

### `RetentionJobs`

The operational cycle on several replicas under the lease of
`distributed-job-lock.service.ts`: `RunCycle`, `Lapse`, `Release`/`EndCycle`,
`FailCycle`, `Crash`; and one job of each sort, `Select` and then `DeleteByIds` or
`ExpireSessions`.  The five tables that are deleted by their expiry alone are
one.  `Hold` puts an event under a legal hold; `safe` remembers the events that came
under it while no cycle had selected them.

### `CallSlots`, `RateLimiter`

`CallSlots` is the semaphore that the engine client and the password hashing
each have: `release` lowers the count and wakes the first waiter, which counts
itself in when its continuation runs, so a newcomer may enter between and more
calls than the maximum run.  `RateLimiter`
has the counters of all four limiters, asked in parallel and judged together.

### Composing modules, proof modules

`MCSessions` (rotation and credential), `MCAccountFlows` (seven flows of an
account), `MCDeferredWork` (mails and attempts) and `MCBackground` (jobs and in-process limits) instantiate several
components and choose in their initial state, by `scenario`, the one a behaviour
is of.  The components of one composition share no rows; what they share is the
question: is what may be spent once spent once, does every call end, does what
must stay stay.  The other components' variables keep their initial values, so the state
space is the sum and not the product, and the composition restates each
component's fairness under its scenario: in a behaviour of one scenario the
conditions of all others never hold and their fairness is vacuous.

Each composition extends one component and instantiates the others, with the
variables renamed where two components use one name.  The lifetimes and clocks of
the parts are its constants or small numbers.

`MCCredentialLifecycle` and `MCIdentityVerification` add symmetry sets, the former
also a specification without upgrades, time and rehashing for the run with liveness.

Proofs of a component that stands alone, or has a module of proofs to itself, are
in `RefreshRotationProofs`, `CredentialLifecycleProofs`,
`IdentityVerificationProofs`, `PasskeysProofs` and `RegistrationProofs`; each
extends the component.  A composition that wants to cite them instantiates the
module of proofs in place of the component (`R`, `T`, `P` and `C` of
`MCAccountFlows`, `I` of `MCDeferredWork`): it has the same definitions and
brings the theorems, each of which then has to be given its assumptions.
`AccountFlowsProofs`, `DeferredWorkProofs` and `BackgroundProofs` hold the proofs
about the other components, stated of the instance (`E!`, `U!`, `Nida!`,
`Media!`, `Slots!`, `Limiter!`), and about the composition.

## 5. Runs

| Run | Instance | Shows |
|---|---|---|
| `rotation` | 2 refresh calls, 1 revoker, 3 token rows, grace 1, session lifetime 3, clock to 3 (so a replay can be late and the session can expire), no unique index; or 2 calls of logins and changes, 1 upgrader, 2 sessions, threshold 2, up to 3 failures, lock of 1 tick | `OneLiveToken`, `FamilyIsChain`, `EndHolds`, `OnlyLateReplayCompromises`, `ImplementsFamily`; `LockoutBound` (the bound is 2 here and 3 failures can be counted, so the run could exceed it), `ChangesHold` |
| `rotation_reuse` | 2 refresh calls, 3 token rows, unique index | **violation** of `CompromisedFamilyIsRevoked` |
| `credential` | 2 calls, 2 recovery requests (the least that deadlocks), 1 session, 2 passwords, 2 hash writes, fairness; no upgrade, no passing of time and no hash of an older profile (`CallsSpec`), which are in `rotation` | `ChangesStand`, `ChangeEndsSessions`, `CallsEnd` |
| `credential_survivor` | 2 calls, 1 session | **violation** of `SessionsEndWithPassword` |
| `credential_rehash` | 2 calls | **violation** of `OnlyChangesChangePassword` |
| `identity` | 2 requests, 1 job, 2 attempts, clock to 1 with every delay 1 tick, no unique attempt number | `OneEvaluator`, `VerifiedByPass`, `OutcomeIsFinal`, `ImplementsLedger` |
| `identity_expired`, `identity_downgrade` | 1 request, with and without the job | **violations**, section 7 |
| `account_flows` | in every flow 2 calls: 1 lookup, 1 identity, 2 addresses, 2 keys, 2 challenges; 5 e-mail tokens (a call that died kept one reserved); rotation with 2 token rows; 1 step-up challenge, 3 assertions; upgrades with 2 contents and 2 full sessions; 1 passkey, 2 flows, counter to 2; 3 recovery codes, 2 rotations | `SpentOnce`, `AnswersHold`, `PasskeysHold`, `OlderEnd`, `ImplementsLedger`, `ImplementsTickets`, `LockRecovers`, `EveryCallEnds` |
| `deferred_work` | 2 replicas with one pid, 2 mails, 2 attempts each, batches of 2 in slices of 1, 1 crash; 1 request and 1 job over 2 identity attempts, clock to 2 | `SettledTruly`, `MailsSettle`, `StuckAttemptsEnd` |
| `outbox_exhausted` | 2 replicas with one pid, batches of 1 | **violation** of `ExhaustedIsDead` |
| `background` | 2 objects, 1 of them legacy, batches of 1; 2 replicas, 2 tokens, a session, an event, 1 failure; 2 lookups of 2 ids, 1 retry, threshold 2; 4 callers of 2 slots; 2 requests on 2 counters | `HeldStay`, `DeletesWhatMayGo`, `OneCycleUnlessLapsed`, `BreakerHolds`, `LookupsShare`, `LimitsHold`, `SlotsComeFree`, `BacklogEnds`, `Recovers` |

**Why these bounds are enough.**  Every race in this code is between two
transactions, or two replicas, and one reader; with two calls each pair meets at
each statement.  Three token rows allow a rotation, a replay of the consumed
token after the grace period and a further rotation.  Two hash writes allow a
rehash and a change, or two changes, in either order.  Two attempts are what it
takes for one to overtake the other.  One step-up challenge suffices, whose
calls meet only on its row; the lifetimes let the assertion end before the
challenge and with it.  Two attempts per mail are the least that lets a count
read with the batch be stale; four callers of two slots let a newcomer pass a
woken waiter; a batch of one makes every backlog longer than a batch.  Beyond these
the theorems speak for every bound; only liveness rests on the instances.

The bounds are constants and guards: `MaxToken`, `MaxClock`, `MaxHash`,
`MaxFailed`, `MaxAttempt`, `MaxStart`, `MaxChallenge`, `MaxVersion`, `MaxCounter`,
`MaxCrash`, `MaxFailures`, `EmailClock`, `UpgradeClock` and the finite sets of
rows.  They guard clocks, inserts and faults, never the code's own decisions.  All
runs check for deadlock except those of `IdentityVerification` and
`deferred_work`, where a bounded number of attempts is decided in the end and
nothing is left to do.

**Symmetry** permutes interchangeable calls and rows, in runs without liveness.

**Properties.**  Besides one type invariant per run:

* Rotation: `OneLiveToken` (at most one exchangeable token, none in an ended
  session), `FamilyIsChain` (generations distinct; a consumed token, its link and
  its successor stand or fall together), `EndHolds` (no token is issued after the end, and ends are
  final, though the expiry job and logout selected the session before),
  `OnlyLateReplayCompromises`, `ImplementsFamily`, `LockRecovers`.
* Credential: `ChangeEndsSessions` (what a reset or change finds ends with it:
  no session is active when it takes effect, since a login cannot show one
  while the change holds the credential row; beside an upgrade no limited
  session is.  It does not say that none appears afterwards, which is what
  `SessionsEndWithPassword` claims and the code breaks), `ChangesStand` (a
  change writes over the hash it verified, a recovery request is decided once),
  `ChangesHold` (the former two where logins rehash and a session upgrade runs),
  `LockoutBound`.
* Identity: `OneEvaluator` (retried submits, and an expiry in between),
  `OutcomeIsFinal`, `VerifiedByPass`, `ImplementsLedger`, `StuckAttemptsEnd`.
* Account flows: `SpentOnce` collects what each flow may spend once and the rows
  that must agree about it; `AnswersHold` says that a replayed answer is the
  answer to the same request and, of an upgrade, names no session that had
  ended before the request; `OlderEnd` that resends and rotations of codes end what
  they found; `EveryCallEnds` covers retries, waits and deadlocks of five flows.
* Deferred work and background: `SettledTruly`, `MailsSettle`; `BreakerHolds`
  and `Recovers` (no order of late outcomes leaves the circuit half-open without a
  probe); `LookupsShare`; `HeldStay`, `DeletesWhatMayGo`, `BacklogEnds` (jobs
  that crash, overlap and restart neither delete too much nor leave a backlog);
  `OneCycleUnlessLapsed`; `LimitsHold` (rate limits); `SlotsComeFree` (whoever
  passes whom, the count is that of the calls under way, so no slot is lost, and
  nobody waits for a release that will not come.  It does not say that the
  maximum is kept, which it is not).

## 6. Fairness

Weak fairness on the steps of a call **that has begun** (Node goes on with a
promise that has settled), on the abort of a transaction (PostgreSQL detects
deadlocks, Prisma times interactive transactions out) and on Redis TTLs.
Nothing obliges clients to call, replicas to crash or, except where said, time
to pass.  The abort is essential: rotation locks the session row before the token row and
`revokeForReuse` the other way round, and two resets lock their own request
before each other's, so both modules reach genuine deadlocks, which the
mutants that remove the abort turn into liveness violations.

Strong fairness for steps that wait for a row or a lease somebody else takes and
returns again and again: PostgreSQL queues the waiters (registration, e-mail,
upgrade, step-up); the poll of a mail replica finds the batch lock free in the
end, since its lifetime ends and other replicas poll at other times.

In `IdentityVerification` the job's timer fires, it does not fail for ever
(`<>[][~JobFails]`: it runs every few minutes on every replica, and an outage of
the database ends), and time passes.  In `CitizenProvider` lookups go on: without
one nothing would probe.  `Recovers` is stated for a provider that stays up.
In the reconciliation of `MediaCleanup`, deletions and the listing after the
first page are strongly fair: a pass is restarted by failures, which do not
follow every page and every deletion for ever.  In `RetentionJobs` the failures
are counted (`MaxFailures`), so that the cycles fail any number of times up to
it.  In `CredentialLifecycle` the abort also stands for the answer of a call that
can do nothing else: a `change` whose new password equals the current one is
refused, hence `TimesOut` includes `"admitted"`.

## 7. What the runs found

1. `rotation_reuse` - **reuse handling can leave a family token unrevoked.**
   `revokeForReuse` updates the tokens, then the session; rotation holds the
   session and inserts a token.  When the 5 s Redis lock expires under the
   rotation, the replacement is committed after the reuse UPDATE took its
   snapshot.  The documentation promises that all family tokens are revoked.  The
   session is COMPROMISED, so the token cannot be exchanged
   (`ImplementsFamily` holds): a divergence from the documentation, not a way in.
2. `credential_survivor` - **a session outlives the change of its password.**
   `login` inserts the session first and only then waits, at its `UPDATE` of the
   credential, for a reset or change that holds the row.  The `UPDATE` of that
   change which revokes the sessions does not see the uncommitted row; after the
   change the login commits an ACTIVE session for the old password.  The
   documentation promises that all sessions are revoked.
3. `credential_rehash` - **a lost update**: the transparent rehash is written by
   credential id alone.  A login with a legacy hash that overlaps a reset or
   change writes the *old* password back over the new one.
4. `identity_expired` - an attempt that the job expired while the engine was
   being asked comes back as `PROVIDER_UNAVAILABLE`, because that update is by
   id alone, and can be submitted again.
5. `identity_downgrade` - `createAttempt` does not count an attempt whose
   provider was unavailable as active.  Once a second attempt exists beside it,
   the first can pass and the other fail afterwards: the user with a passed
   attempt is set to `RETRY_REQUIRED`.
6. `outbox_exhausted` - a mail that two overlapping replicas fail to send is
   counted twice but dead-lettered by neither, since each decides by the count it
   read: it has no attempts left and is not in the dead letters.

Each finding quotes the documentation line it disagrees with in
`PROJECT.json`.  The models also reach these states, which no run is spent on:

* a session that a login which verified the old password *inserts* only after the
  reset or change (`SessionsEndWithPassword` counts those inserted before), and
  two concurrent recovery requests that both stay open;
* a full session inserted by an upgrade behind the back of a password change's
  `UPDATE` (the reason why `ChangeEndsSessions` speaks of limited sessions where
  upgrades run; a passkey login, which the model of passwords leaves out, inserts
  its session in the same way);
* two concurrent creations that leave two active attempts, or two open step-up
  challenges;
* the attempt limit of a registration challenge never bites: a refused attempt
  rolls its own count back, while `src/docs/configuration-and-operations.md:158`
  lists the limit and `src/docs/registration-challenges.md:54-55` has attempts
  recorded below it;
* a second half-open probe, when a request admitted before the circuit opened
  reports its failure during the first (`src/docs/citizen-provider-integration.md:52`
  speaks of one);
* a legacy row whose key can no longer be opened blocks the deletion of orphans
  for good (`BacklogEnds` is stated for readable ones); an object uploaded again
  under a policy that is still valid, after its row was marked deleted, stays; a
  hold that comes after a pass has selected the row is not honoured by that pass; a
  row confirmed after `ReadTracked` may lose its object;
* a newcomer takes the slot before the waiter that `release` woke for it, and the
  waiter counts itself in all the same: more calls run than the maximum, which
  `src/docs/password-lifecycle.md:72` calls a bound per process.

## 8. Proofs

TLAPS proves, for every set of calls, every number of rows and every bound:

| Theorem | Statement |
|---|---|
| `RefreshRotationProofs!TypeCorrect`, `LiveTokens`, `Chain` | `TypeOK`, `OneLiveToken`, `FamilyIsChain` |
| `EndsHold`, `GraceIsHonoured` | `EndHolds`, `OnlyLateReplayCompromises` |
| `Refinement` | `Spec => ImplementsFamily` |
| `CredentialLifecycleProofs!TypeCorrect`, `GuessesBounded` | `TypeOK`, `LockoutBound` |
| `ChangesAreDecided` | `ChangesStand` |
| `ChangesEndSessions` | `ChangeEndsSessions` |
| `IdentityVerificationProofs!TypeCorrect`, `SingleEvaluation`, `VerifiedOnlyByPass` | `TypeOK`, `OneEvaluator`, `VerifiedByPass` |
| `OutcomesAreFinal`, `Refinement` | `OutcomeIsFinal`, `ImplementsLedger` |
| `PasskeysProofs!TypeCorrect`, `FlowMakesOne`, `CodesOpenOnce` | `TypeOK`, `OneSessionPerFlow`, `CodeOpensOnce` |
| `PasskeysKept`, `RotationEndsOlder` | `PasskeysHold`, `OlderCodesEnd` |
| `RegistrationProofs!TypeCorrect`, `Distinct`, `SpentOnOne` | `TypeOK`, `AccountsDistinct`, `ChallengeSpentOnce` |
| `AnswersOwn` | `AnswersOwnAccount` |
| `LedgerRefinement` | `Spec => ImplementsLedger` |
| `AccountFlowsProofs!TypeCorrect`, `PassBeforeConsumption`, `SealedExactlyWhileUsable` | step-up: `TypeOK`, `ConsumedByPass`, `SealedWhileUsable` |
| `Refinement` | step-up: `Spec => ImplementsTickets` |
| `FlowTypes`, `FlowsSpendOnce` | `FlowSpec` has `TypesHold`, `SpentOnce` |
| `FlowsAnswerTruly`, `FlowsKeepPasskeys`, `FlowsEndOlder`, `FlowsKeepLedger`, `FlowsKeepTickets` | `FlowSpec` has `AnswersHold`, `PasskeysHold`, `OlderEnd`, `ImplementsLedger`, `ImplementsTickets` |
| `DeferredWorkProofs!TypeCorrect`, `MailsSettledTruly` | outbox: `TypeOK`, `SettledTruly` |
| `DeferredTypes`, `DeferredMailsSettle` | `DeferredSpec` has `TypesHold`, `SettledTruly` |
| `BackgroundProofs!TypeCorrect`, `CyclesExclude`, `HoldsAreKept`, `SessionsEnd` | jobs: `TypeOK`, `OneCycleUnlessLapsed`, `HeldEventsStay`, `SessionsEndOnce` |
| `CitizenTypeCorrect`, `BreakerKeeps`, `RequestsShared` | `Nida!TypeOK`, `Nida!BreakerHolds`, `Nida!LookupsShare` |
| `SlotsHold`, `WindowsKept` | `Slots!ActiveIsCalling`, `NobodyStranded`; `Limiter!WindowsHold`, `CountersExpire` |
| `MediaStays`, `TrackedStays` | `Media!ProtectedStays`, `MarkedWasErased`, `TrackedIsNoOrphan` |
| `BackgroundTypes`, `BackgroundHolds`, `BackgroundDeletes`, `BackgroundCycles` | `BackgroundSpec` has `TypesHold`, `HeldStay`, `DeletesWhatMayGo`, `OneCycleUnlessLapsed` |
| `BackgroundBreaker`, `BackgroundLookups`, `BackgroundLimits`, `BackgroundSlots` | `BackgroundSpec` has `BreakerHolds`, `LookupsShare`, `LimitsHold`, `SlotsComeFree` |

With these every invariant, every action property and every refinement that a
passing run checks is proved, those of `MCSessions` of the component each is about.

**Compositions.**  `Composition` says that a behaviour of the composition is one
of every component: each step is a step of the component whose scenario it is
and leaves the variables of all others (`EachFlow`, `EachSteps`).  What is proved of
the components then carries over.  `Passkeys` has two instances on the same
variables, told apart by the scenario, so that theorem yields the one or the
other; for the instance without recovery codes `OlderEnd` needs that nobody
rotates them there (`NobodyRotates`).  `MCAccountFlows` gives some parts numbers
where the code has configuration (`Grace <- 1`, say); the theorems about those
parts in their own modules have no such restriction.

**Assumptions.**  Only the named assumptions of the modules: slots are
disjoint, null markers are outside the sets they mark, bounds are natural
numbers, `Grace`, the lifetimes and the maximum of slots are positive where the
configuration schema demands it, the threshold of the lockout is at least 2 and that
of the breaker at least 1 (the configuration schema demands both), sets whose
cardinality is taken are finite.  A module that a composition instantiates states
them as definitions, which the composition assumes of its instance and the
theorems name in their `ASSUME`.

**The inductive invariants.**  Hardly any of the properties is inductive alone,
since a violation is prepared many steps before it shows.

* *Rotation.*  `IInv` adds to the type and the invariants: rows exist
  before anything refers to them (`KnownTokens`); an unused token carries the
  highest generation (`UnusedIsNewest`, from which uniqueness follows); a
  rotation past its first statement owns the row of an ACTIVE session and,
  before its commit, an exchangeable token (`RotationOwnsRows`); reuse handling
  owns the session row when it commits and was begun late (`ReuseIsLate`); the
  token statement of a revocation has every exchangeable token on its list or
  under its lock (`SweepIsComplete`); an ACTIVE session has a live token
  (`ActiveHasHead`, which the refinement needs for its `Rotate` step).  The
  session row, not the Redis lock, serialises rotations: no part of the
  invariant mentions `redisLock`, which is why losing it does no harm to these
  properties.
* *Credential.*  `RowsHeld` and `ResetHolds` tie labels to held rows and
  targets, `ChangeHolds` says that between a change's compare-and-set and its
  commit the hash is the one it read, `SessionsHeld` says that the sessions a
  password change is bound to find (all active ones, or with upgrades the
  limited ones) are on the change's list or under its lock once it has scanned
  them, so that none becomes active behind the scan,
  and `FailuresBounded` counts the failures stored together with the
  logins that will still record one without setting the lock; its steps use the
  library's theorems on cardinalities.
* *Identity.*  `ClaimsOK`: the attempt a call works on is `PROCESSING`, or the
  job has expired it since, so nobody else can claim it; `RowsOK`: a call that
  decides holds the attempt's row and finds it still `PROCESSING` at its commit,
  and the job holds only rows it may expire.  `OneEvaluator` is needed beside
  them: without it one call's outcome could fall on another call's attempt.
* *Step-up.*  `RowOK` ties a challenge's columns to its attempt; `CallOK` says
  what a call relies on from one step to the next: the assertion it minted is
  known to nobody (`Fresh`), the row it claimed is its own and still PENDING,
  what it returns is what is stored, what it consumes the client has seen;
  `InsertsOK` keeps concurrent creations apart.  The step is proved in two
  halves: what can happen to a challenge (`RowEffect`) and what that leaves of
  the invariant of the calls that did not move (`BystanderOK`) and of the one
  that did (`MoverOK`).
* *Passkeys.*  `FlowSpent`: a flow's challenge is untaken, in the hands of one
  call, or spent, and neither an untaken one nor one in hand has made a session;
  `Checked`: a call past its read of the passkey did not find it among those revoked when
  it began, and a call past `Verify` will write a counter above the one it read;
  `OlderMade`: what a rotation means to revoke is never what another inserts.
* *Registration.*  `RequestsOK`: a call past its reads of challenge, address and
  identity owns those rows and what it read is still so, which is where two
  registrations of one address are kept apart; `RecordsOK`: a completed
  idempotency record names the account of its content, so a replay does; with them
  the three properties are inductive together.  For the refinement, a commit maps to
  the ledger's opening of an account, everything else to a challenge or a stutter.
* *E-mail.*  `EmailCallOK`: a verification past its update owns a token that is
  neither used nor superseded; a token a resend found live is still on its list, under
  its lock, or ended by another; no two resends make the same token.  `AccountOK`:
  the account is as its one used token left it.
* *Upgrade.*  `UpgradeCallOK`: a snapshot is of the session's version or an older
  one, and from the conditional update on of this one and ACTIVE, so the exchange
  happens once though a key may be purged between two uses; what a call answers was
  made for it (`MadeFor`) and had not ended when it asked; `ReplaysOK` says so of
  the records.
* *Mail outbox.*  `Budget` bounds the attempts stored **plus** the replicas that
  are busy with the event below the maximum, which is what two replicas with a
  stale count each may still add; `CountsBehind` says that the count read with the
  batch is never above the row's; `DeadUnowned` that a dead event has no owner left
  who could publish or count it.
* *Citizen provider.*  `ProbingHalfOpen`: the probe flag is only up in the
  half-open state; `ResultsTrue`: a request about to settle as found, or not
  found, is of somebody the provider knows, or does not; `DelaysEnd`: a delay has
  attempts left.
* *Retention jobs.*  `OwnerLeased`: a replica that has not seen its lease lapse
  holds it, so a late release never returns somebody else's; `PickedOK`: what
  a cycle holds is of the job it is at, and the sessions among it have ended for good
  (`EndedStays`), which is why deleting by ids selected earlier does no harm;
  `SafeOK`.
* *Slots.*  `SlotInv`: the queue holds each waiting caller once, the count is that
  of the calls under way, and a queue is never without somebody whose release
  wakes it.
* *Limiters.*  `Accounted`: the requests of a window that were let through **and**
  those that will be, as they counted within the limit but have not been judged,
  stay within the limit together.
* *Media.*  `RowsOK`: rows and objects a pass is at exist, an erased object of an
  earlier version does not come back, and rows without a digest are of that version;
  `KnownOK`: what the reconciliation must spare is known when it begins to delete;
  `SafeMediaOK`: what came under a hold in nobody's hands is stored, still protected
  and in no pass.

The strengthenings were first checked by TLC on the instances of the runs.

**Only model-checked:** liveness (`LockRecovers`, `CallsEnd`, `EveryCallEnds`,
`StuckAttemptsEnd`, `MailsSettle`, `BacklogEnds`, `Recovers`), which with
fairness and ENABLED is outside the prover's reach, and the six violations.  No
module has a recursive operator, and nothing is claimed by induction over data.

## 9. Not modelled

* `logout-all` takes at most 100 sessions; the models follow one session, which
  is always in the batch.  (One that is not in it stays active, and the call reports
  success: a property would restate the limit.)
* A login that read the credential before the failure lock fell clears the lock
  on success; `LockoutBound` bounds the guesses all the same, and nothing the
  documentation says excludes it.
* `IdempotencyService` (`common/security`) is provided but injected nowhere; the
  records are modelled where registration and upgrade use them.
* The risk assessment of a login only reads; its level is arbitrary here.
* Listing and renaming of passkeys and sessions, and the refusals that change nothing.
* The deletion of expired media is checked for what it may delete, not for ending:
  its retries depend on an object store that answers.
* Cryptography (argon2, AES-GCM, HMAC, JWT signatures, WebAuthn verification) is
  an input: its outcome, not its computation.
* The HTTP shell (controllers, DTOs, filters, logging, OpenAPI), configuration
  parsing, health checks, mappers and infrastructure files keep no state of their
  own; the schema package `@mucyora/db` is not in the repository.

## 10. Running it

    tlc -workers 2 -config Sessions.cfg MCSessions
    tlc -workers 2 -config AccountFlows.cfg MCAccountFlows
    tlapm RefreshRotationProofs.tla

and likewise for the other runs of `PROJECT.json` and the eight `...Proofs` modules.  The
longest runs are `account_flows`, `background`, `credential` and `deferred_work`, with
about three minutes each on two workers.
