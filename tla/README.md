# A TLA+ verification of the multi-user TODO platform

The repository is a TypeScript monorepo of three services (Gateway, Account
Service, Todo Service), each with background workers, two PostgreSQL databases,
RabbitMQ and Redis. This directory holds TLA+ models of its core logic, the TLC
configurations that check them on small instances, and TLAPS proofs of the
properties that matter most, for every value of the constants.

    tlc -config saga_faults.cfg MCSaga        # check a run
    tlapm SessionsProofs.tla                  # check the proofs of a module

`PROJECT.json` is the index: components, runs, which definition stands for
which lines of code, the mutant that each property catches, the hazards, and the
places where code and documentation disagree.

| Module | What it is |
|---|---|
| `ProvisioningSpec` | what workspace provisioning promises, without workers or messages |
| `WorkflowSaga` | the leased workflow that implements it, statement by statement |
| `WorkflowSagaProofs` | eight safety theorems and the refinement of `ProvisioningSpec` |
| `Membership` | one workspace, its membership operations, its events and their projection |
| `MembershipProofs` | its five theorems |
| `Sessions` | one account's sessions, refresh tokens, reset links and Gateway's revocation keys |
| `SessionsProofs` | its six theorems |
| `OwnerProjection` | one account's address, its events, Todo Service's copy, the rebuild, the erasure |
| `AccountDeletion` | the leased deletion workers beside everything `OwnerProjection` does |
| `AccountDeletionProofs` | five theorems about the owner projection, six about the deletion, among them the refinement of `OwnerProjection` |
| `TodoCommands` | one owner's TODOs, idempotency records, versions and shares |
| `TodoCache` | the owner's reads through Redis beside the commands |
| `TodoProofs` | six theorems about the two |
| `Broker` | the queues of RabbitMQ and their bindings |
| `TodoOutbox`, `AccountOutbox` | the outboxes and their publishers |
| `TodoHistory` | the consumers of the history and of the owner projection, as far as their queues go |
| `Notification` | the mail consumer, its retries, its dead letters and the replay command |
| `EventDelivery` | the five modules above composed: an event from its commit to where it is meant for |
| `EventProofs` | six theorems about the composition |
| `Chain` | the blockchain as the RPC node shows it: blocks, mempool, reorganisations (external) |
| `ChainSubmission` | the workers that anchor TODO events |
| `TaskHistoryIndexer` | the projection of the contract's events |
| `ChainAnchor` | the two on one chain |
| `ChainProofs` | five theorems about them |
| `Gateway` | a request under rate limits, a timeout and a signed identity |
| `GatewayProofs` | six theorems about it |
| `MCSaga`, `MCMembership`, `MCSessions`, `MCOwner`, `MCDeletion`, `MCTodo`, `MCEvents`, `MCChain`, `MCGateway` | symmetry sets, values of constants and state constraints for TLC |

Paths below are relative to `src/`; `account`, `todo` and `gateway` stand for
`apps/account-service/src`, `apps/todo-service/src`, `apps/gateway/src`.

## 1. Inventory

### 1.1 Components

**Workspace-provisioning workflow** (`account/workflow`, `todo/workflow`,
`gateway/workflow`). *State:* a `workflows` row (status, lease, next attempt), its
`workflow_steps` rows (status, two attempt counters), one reservation at each of
three participants (a table in Account, a table in Todo, a Redis hash in
Gateway). *Operations:* POST with an idempotency key; a worker's poll: `claimNext`,
`run`, `compensate`, `beginStep`, `finishStep`, `recordFailure`, `setStatus`.
*Interacts with:* Todo Service and Gateway over HTTP with a 2 s timeout. *Hard:*
crashes between statements, a lease nobody renews, updates without a condition
on the lease, answers lost and requests served late. *Correct when:* all three
reservations or none exist at a terminal status, undo runs backwards, no outcome
is reopened, every workflow ends.

**Workspace membership** (`account/modules/workspace`, and
`prepareWorkspaceDeletion` in `account/modules/account/deletion`). *State:*
`workspaces`, `workspace_members`, outbox rows. *Operations:* create, add, change
role, remove, leave by account deletion; each locks the workspace row. *Hard:* two
administrators acting on each other; time stamps taken before the lock.
*Correct when:* a live workspace always has an administrator and every change has
its event.

**Workspace projection and authorization** (`gateway/security/workspace-membership.*`,
`gateway/middleware/authorize-workspace.middleware.ts`; the same script and
consumer in `todo/events`, `todo/middleware`). *State:* three Redis keys per
(workspace, user): role, version, revoked-before. *Operations:* the consumer's Lua
script, the middleware's decision. *Hard:* events out of order and repeated, keys
that expire. *Correct when:* a removal the projection was told of holds against
older events and older tokens, and the projection converges.

**Sessions** (`account/modules/account/{login,refresh,logout,password-reset}`).
*State:* `sessions`, `refresh_tokens`, `password_reset_tokens`, `users.password_hash`.
*Operations:* login, refresh with rotation and reuse detection, logout, logout-all,
reset request and confirmation. *Hard:* every operation reads a password, a clock or
a token before its transaction, and signs its token before or after it.
*Correct when:* a revoked session stays revoked, a link resets once, a reset shuts
the old password out.

**E-mail change** (`account/modules/account/email-change`). Sets a new address, inserts its
event and revokes every session of the account. *Hard:* the stamp that orders the
changes is read before the account is locked; a password reset writes the same stamp
column and sends the projection nothing.

**Session-revocation projection and authentication**
(`gateway/security/session-revocation.*`, `access-token-claims.ts`,
`gateway/middleware/authenticate.middleware.ts`). *State:* one Redis key per revoked
session and one per account. *Correct when:* tokens of revoked sessions are refused
and the others are not.

**Account deletion** (`account/modules/account/deletion`,
`account/worker/account-deletion.worker.ts`, `todo/account-deletion`,
`gateway/security/account-deletion.routes.ts`). *State:* an
`account_deletion_requests` row with status and lease, tombstones in Todo.
*Operations:* request, claim, leave workspaces, erase Todo data, look for unpublished
events, purge queues and caches, complete, retry. *Hard:* a lease that is not renewed,
steps repeated by another worker, events of the account still on their way,
tombstones read without a lock. *Correct when:* a completed deletion leaves no copy
and none comes back.

**Outboxes** (`account/outbox`, `account/worker`; `todo/outbox`, `todo/workers`).
*State:* outbox rows with status, attempts, lock. *Operations:* claim a batch,
publish with confirm, mark published or failed, release locks. *Hard:* a slow
publisher's lock times out, a stop between publication and mark, a connection that
closes. *Correct when:* every committed event is delivered at least once; no order is
promised.

**Notifications** (`account/notifications`). *State:* delivery rows, address quota
reservations, retry and dead-letter queues. *Operations:* claim, guard the recipient,
reserve, send, mark, retry, bury, replay, clean up. *Hard:* a lease of 300 s around a mail
provider, repeated messages, a replay beside a consumer. *Correct when:* a mail goes
out at least once and, without a fault, at most once; none goes to an account that is
being deleted; every delivery that is not at its end has a message that drives it.

**TODO history** (`todo/history`). *State:* append-only `todo_history`, retry queue.
*Correct when:* each event is recorded once, or dead-lettered, after finitely many
retries.

**Owner projection** (`todo/messaging`). *State:* `todo_owners`, pending e-mail
changes, processed events, a rebuild in progress, tombstones. *Hard:* e-mail changes
before registrations, rebuild batches beside live events. *Correct when:* it agrees
with the users after a rebuild, and erased owners do not return.

**TODO commands** (`todo/modules/todo`). *State:* `todos`, idempotency records,
versions, shares, `todo_owners.cache_version`. *Operations:* create, update, change of
state, delete, share, withdraw. *Hard:* what a command reads before it takes a lock; the
sweep of records by whichever request comes. *Correct when:* one key creates one TODO,
completions and their events agree, a withdrawn recipient changes nothing.

**TODO read cache** (`todo/modules/todo/cache`). *State:* versions in PostgreSQL
and in Redis, entries keyed by version. *Hard:* a fill racing an invalidation, pages
read at different times. *Correct when:* no read is older than its request, and a walk
over the pages misses nothing.

**Chain submission and indexer** (`todo/blockchain`, `contracts/onchain`). *State:*
`chain_submissions`, `chain_writer_nonces`; checkpoint, block marks and events of the
projection. *Hard:* claims that lapse, stops around a broadcast, nonces with gaps,
reorganisations between any two calls. *Correct when:* an event is anchored at most once,
nonces are dense, a final status is true of the chain, the projection is what the
contract emitted.

**Gateway proxying and rate limits** (`gateway/clients`, `gateway/rate-limit`;
`account/security`, `todo/middleware`). *State:* counters with a window in Redis, a
signed identity that lives for seconds. *Hard:* a Redis that stops or loses a reply, two
clocks, a call that goes on after its timeout. *Correct when:* limits hold, the time to
wait is honest, no operation begins on a dead identity, by the clock of the service, and
no live one is refused.

**Registration, profile, lookup; retention; HTTP plumbing; operator scripts, legacy
monolith.** Registration's rows and events are part of `OwnerProjection` and
`AccountOutbox`; the deletions of the retention that others can notice are actions of
`TodoOutbox` and `Notification`; the replay commands are actions of `Notification`,
`TodoHistory` and `EventDelivery`. The rest reads, forwards or formats.

### 1.2 How they interact

Clients talk to Gateway only. Gateway verifies the access token, asks its own Redis
keys (never Account Service) whether the session or the membership was revoked, and
forwards with a signed identity. Account and Todo Service write each change together
with an outbox row; publishers move the rows to RabbitMQ; consumers keep projections
(Redis keys in Gateway and Todo Service, `todo_owners`, history) and acknowledge after
they have applied an event. The workflow and account deletion call the other services
over HTTP from leased workers.

### 1.3 Hazards

`PROJECT.json` lists forty, each at its line. They fall in five families:

1. *a stamp, password or snapshot read before the lock it is used under*
   (membership `changedAt`, revocation time, access-token `iat`, password hash);
2. *leases without fencing* (workflow, account deletion, notifications, chain,
   outbox): nobody renews them and the writes that follow do not test them;
3. *a remote effect between two database statements* (participant calls, mails,
   broadcasts, publications): lost answers, late requests, repeated effects;
4. *events applied out of order, repeatedly or after their guard has expired*
   (membership, revocation, owners, history, cache versions);
5. *keys with a lifetime* that must outlive what they refuse.

The models cover all five. Hazards without a property are listed with the reason.

## 2. Plan

| # | Modules | Question | State |
|---|---|---|---|
| 1 | `WorkflowSaga`, `ProvisioningSpec` | Is provisioning all-or-nothing under crashes, lapsed leases, late requests? | proved |
| 2 | `Membership` | Who administers a workspace, whom do the services let in? | proved |
| 3 | `Sessions` | Which access tokens does Gateway accept? | proved |
| 4 | `OwnerProjection` | What does Todo Service take for an account's address? | proved |
| 5 | `AccountDeletion` | Is a completed deletion complete? Is it completed at all? | safety proved |
| 6 | `TodoCommands`, `TodoCache` | Do commands and reads of one owner agree, whatever overlaps? | proved |
| 7 | `Broker`, outboxes, `TodoHistory`, `Notification`, `EventDelivery` | Is an event lost, a retry endless, a mail repeated or misdirected? | safety proved |
| 8 | `Gateway` | What do limits and identities let through, under outages and two clocks? | proved |
| 9 | `Chain`, `ChainSubmission`, `TaskHistoryIndexer`, `ChainAnchor` | Is an event anchored once, and is what is said of the chain true? | proved |

Every safety invariant and action property of the passing runs is stated by a theorem,
and so are the two refinements. Left: a refinement that ties the channel which modules
2 to 4 assume to `EventDelivery`; the purge of Gateway's Redis keys by the deletion.

Module 7 shares one broker and one bound of the faults. `AccountDeletion` extends
`OwnerProjection`, `TodoCache` extends `TodoCommands`, `ChainAnchor` composes writers and
indexer on one chain. The others share no state and are checked on their own. The
channel that `Membership`, `Sessions` and `OwnerProjection` assume (any order, at least
once) is weaker than what `EventDelivery` shows for the same publishers and queues: an
event is never lost (`NothingLost`), and repeated and reordered deliveries happen.

Places where the code does less than a document says are listed in `PROJECT.json` under
`findings`; two of them have a run that ends in a counterexample, for the others the
property of a passing run names the exception.

## 3. Workflow saga

### 3.1 Model

One workflow, any number of workers. Every SQL statement is an action, so another
worker, a crash or a late request may come between any two.

| Code | Model |
|---|---|
| `workflows` row | `status`, `due` (`next_attempt_at` has passed), `lease` (owner of the unexpired lease) |
| `workflow_steps` rows | `step`, `attempts`, `undoAttempts` |
| reservations of the participants | `reserved` |
| requests whose caller timed out | `stray` |
| position and snapshot of a worker in `run()`/`compensate()` | `pc`, `mode`, `plan`, `seen` |
| POST | `Trigger` |
| `claimNext` and its two SELECTs | `Claim`, `ReadRow`, `ReadSteps` |
| loop body | `BeginStep`, `CallReturns` / `CallFails` / `CallTimesOut`, `FinishStep` / `FinishFails` |
| catch block | `RecordFailure`, `Schedule` |
| after the loop | `Close` |
| the process stops, or a statement outside the `try` throws | `Abandon` |
| clocks | `BackoffElapses`, `LeaseExpires`, `LeaseOverrun` |
| a request served after its caller gave up | `StrayLands` |

Time is reduced to "the lease has lapsed" and "the next attempt is due". Left out:
`current_step`, `last_error`, time stamps, which the program shows but never reads.
`overruns`, `orphans` and `abandons` count the faults against `MaxOverruns`,
`MaxOrphans`, `MaxAbandons`; each property says under which of them it holds.

### 3.2 Checks

| Run | Properties | Instance |
|---|---|---|
| `saga_clean` | `ImplementsProvisioning`, `Terminates` | 2 workers, 3 steps (2 remote), 3 attempts (the default of the settings), 2 POSTs, 2 runs cut short |
| `saga_faults` | `TypeOK`, `SoleRunner`, `CompletedHoldsAll`, `CompensatedHoldsNone` | 2 workers, 2 steps (1 remote), 2 attempts, one crash, one overrun, one orphaned request in any combination |

*Bounds.* Two workers suffice for one to overtake the other. Two steps give a first
and a last one, one local and one remote; three, as in `STEP_ORDER`, add a middle one.
Two attempts distinguish "retry" from "used up". One fault of each kind is enough for
each violation found and for the crossing of any two kinds.

*Fairness* (`FairSpec`, used by `Terminates` only). `WF(Claim(w) \/ RunStep(w))` for
each worker: `poll()` loops for ever, the container restarts a stopped process and no
statement waits for another worker. `WF(BackoffElapses)` and `WF(LeaseExpires)`: the
clock advances. Nothing is assumed of a participant: a call may fail every time, and
then the attempts run out. A run is cut short only finitely often (`MaxAbandons`); a
process that stops in every run forever does not terminate.

*Why the conditions.* `setStatus`, `beginStep` and `finishStep` have no condition on the
lease, and `SoleRunner` and `CompletedHoldsAll` except an overrun. With `WORKFLOW_STEP_DELAY_MS` above
`WORKFLOW_LEASE_MS`, or a slow database, two workers run one workflow and it can end
`completed` although one of them has dropped a reservation. `CompensatedHoldsNone` is
conditional for a related reason: a PUT that outlives its 2 s timeout can land after the
DELETE that compensated it.

### 3.3 Proofs (`WorkflowSagaProofs`)

For any set of workers, any number of steps, attempts and faults:

- `TypeCorrect`: the type invariant.
- `SoleRunnerHolds` rests on `LeaseInv`: without an overrun a worker inside a run
  owns the lease. `SoleRunner` itself is not inductive, for `Claim` tests the lease
  and not the other workers' positions. `StatusForwardHolds` adds that the snapshot
  `mode` of the one runner is still the row's status.
- `CompletedHoldsAllHolds` rests on `StepInv`: what a step row and the runner's
  position allow one to conclude about the reservation (an `applied` step has one; a
  step the loop has passed is applied).
- `HeldInOrderHolds` and `CompensatedHoldsNoneHolds` rest on `OrderInv`: where the
  one runner stands in the order, everything before is held, everything behind it
  untouched, or the reverse while undoing.
- `GivesUpForCauseHolds` rests on `CauseInv`: a worker about to turn the status has
  seen a count that is at most the one in the row. It needs no condition on faults.
- `AttemptsBoundedHolds` rests on `AttemptsInv`: the excess over `MaxAttempts` is paid
  for by runs cut short between `recordFailure` and `setStatus`.
- `ProvisioningImplemented`: with `MaxOverruns = MaxOrphans = 0`, `Spec` implements
  `ProvisioningSpec` under `phase <- status`, `held <- {i : reserved[i]}`; each of the
  actions is a step of the promise or stutters.

`StatusForward`, `HeldInOrder`, `AttemptsBounded` and `GivesUpForCause` are proved and in
no run; only model-checked: `Terminates`.

## 4. Membership

### 4.1 Model

One workspace and one projection of it (Gateway and Todo Service run copies of one
script). A request reads the clock in `workspace.service.ts` when it arrives
(`Receive`) and is executed under the row lock later (`Execute`); the transaction
under the lock is one action.

| Code | Model |
|---|---|
| `workspaces`, `workspace_members` | `workspace`, `role` |
| requests between service and repository | `pending` |
| outbox, publishers, queue | `events`: delivered in any order, at least once |
| the three Redis keys of a user | `shown`, `version`, `revoked` |
| `createWorkspace`; `addMember`, `changeMemberRole`, `removeMember` | `CreateWorkspace`; `Receive`, `Execute` |
| `prepareWorkspaceDeletion`, for this workspace | `Depart` |
| the consumer and its Lua script | `Deliver`, with `Current`, `Apply` |
| TTLs | `ExpireRole`, `ExpireMark` |
| `authorizeWorkspace` | `Accepts` |

The channel is unordered because `claimPendingEvents` returns a batch in no order and
several publishers, failed publications and unacknowledged messages overtake each
other. `latest` and `barred` are history variables: the stamp of a user's last commit,
and the last removal the projection was told of. `skews` counts commits whose stamp is
not later than the one before (possible because the clock is read before the lock);
`expiries` counts role keys that reached their TTL. The eleven actions of the
permission table are taken as three (read, write, manage): the others agree with one
of them for every role.

### 4.2 Checks

| Run | Properties | Instance |
|---|---|---|
| `membership` | `AlwaysAdministered`, `ProjectionAgrees`, `RemovedStaysOut`, `OldTokensStayOut` | 2 users, 4 moments in 2 seconds, 3 requests for any mix of administrator, viewer and removal, 1 account deletion, 1 repeated delivery, 1 expiry |

*Bounds.* Two users are two administrators who act on each other, or an actor and a
target; the code refuses a change of one's own membership without any effect, so
`Receive` leaves it out.
Three requests give add, remove and re-add; with one repeated delivery any of their
events can come last. Two moments to a second make stamps of one second differ.
`Ttl = 1`, `TokenLife = 1` let keys and tokens die within the clock. No liveness is
claimed: nothing forces a request or a delivery.

*Why the conditions.* A removal that read the clock before and got the lock after a
re-add or role change sends the older version; the script drops it and the removed
member keeps access after every event was handled. So `ProjectionAgrees` excepts stamps
out of commit order (`MaxSkews = 0` in the run, any number in the proofs). It also excepts users whose role key expired: it has a lifetime (3600 s by
default) and is written by membership events only, so a member is refused until the
next change.

### 4.3 Proofs (`MembershipProofs`)

For any users, clock, requests and repeats:

- `TypeCorrect`.
- `AlwaysAdministeredHolds`: inductive with the type invariant; the two lemmas say why
  `Execute` and `Depart` keep an administrator.
- `ProjectionAgreesHolds`, `RemovedStaysOutHolds` rest on `LagInv`: as long as no stamp
  was skewed and no role key expired, no version is ahead of the last commit, a
  version equal to it shows its role, and one behind it still has the event of the
  last commit in the channel. Without the last part convergence is not inductive.
- `OldTokensStayOutHolds` rests on `BarInv`: as long as tokens from before an applied
  removal may live, the revoked-before key is at least that removal and the version
  key is not older, so no event that could lower the mark passes the version test.
  It holds under skewed stamps and expiring keys, and needs `TokenLife <= Ttl` (the
  assumption of the module: by default 905 s with the verifier's tolerance, against
  3600 s; the extreme of the settings, 3605 s against 3600 s, falls short of it).

## 5. Sessions

### 5.1 Model

One account and Gateway's keys for it.

| Code | Model |
|---|---|
| `sessions` | `state`, `revokedAt` |
| `refresh_tokens` of a session | `chain` (how many; all but the newest are used), `stale` (how many expired) |
| `password_reset_tokens`, `users.password_hash` | `link`, `linkLive`, `password` (how often reset) |
| requests that took their stamp and wait | `pending` |
| rotations whose access token is not signed yet | `rotated` |
| access tokens handed out | `tokens` |
| session-revoked events | `events`: any order, at least once |
| Gateway's Redis keys | `sessionKey`, `accountKey` |
| login: verify, sign, `createSession` | `VerifyPassword`, `Sign`, `OpenSession` |
| refresh: `rotateRefreshToken`, sign | `AskRefresh`, `Rotate`, `SignRotated` |
| `revokeSession`, `revokeAllSessions` | `AskLogout`, `Logout`, `AskLogoutAll`, `LogoutAll` |
| `requestReset`, `confirmReset` | `SendLink`, `AskReset`, `Reset`, `LinkExpires` |
| consumer, keys, their TTLs | `Deliver`, `Cache`, `ExpireSessionKey`, `ExpireAccountKey` |
| `verifyAccessTokenClaims`, `isSessionRevoked`, `authenticateRequest` | `Alive`, `Revoked`, `Accepted` |

E-mail change and the request to delete the account revoke with the statement of
logout-all and are taken for it. `opened`, `late`, `lastAll` and `lowered` are history
variables: the password a session was opened with, the logins that a reset found
under way, the latest account-wide stamp, and whether an account-wide event replaced a
later key (the key is a plain `SET`).

### 5.2 Checks

| Run | Properties | Instance |
|---|---|---|
| `sessions` | `RevokedRefused`, `ActiveAccepted`, `OldPasswordOut`, `OneResetPerLink`, `RevokedForGood` | 2 sessions, 5 moments in 3 seconds, 4 requests, 2 links, chains of 2, 1 repeated delivery |

*Bounds.* Two sessions are the victim's and the thief's, or the one revoked and the
one opened meanwhile. Four requests are, for instance, two logins, a refresh and a
reset; two links are an old one and its replacement; a chain of two has a used token to
present again. Two moments to a second, and `Ttl = TokenLife = 2` seconds in a clock of
three, put revocation, issue and expiry in the same second and in different ones.
Deadlock is not checked in any run: the bounded requests run out.

*Conditions in the properties.* `RevokedRefused` is about revocations that Gateway has
been told of, until the keys may expire, and excepts an account key that an older event
lowered. `ActiveAccepted` excepts the second of an account-wide revocation, in which
Gateway also refuses tokens issued after it. `OldPasswordOut` excepts logins that had
verified the old password when the reset committed.

*The stamp of a revocation* is the start of its transaction or earlier, which then waits for its locks: in `changeEmail` for the
advisory lock that a notification holds while it talks to the mail provider. A
session opened meanwhile is revoked with a stamp older than its access token, and
Gateway's account key lets the token pass until it expires. `RevokedRefused` speaks of tokens issued
up to the stamp, and so does not promise that an accepted token has an active session.

### 5.3 Proofs (`SessionsProofs`)

For any sessions, clock, requests, links, rotations and repeats:

- `TypeCorrect`.
- `RevokedForGoodHolds` rests on `RowsInv`: a login under way has a session id no
  other request has and that is in no row yet; who refreshes or logs out has a row; a
  session is revoked exactly if it has a time of revocation. Without the first part
  `OpenSession` could reopen a session.
- `OneResetPerLinkHolds`: inductive with the type invariant.
- `OldPasswordOutHolds` rests on `LoginsCurrent`: a login under way verified the
  current password or is one of the excepted.
- `ActiveAcceptedHolds` rests on `EventsInv`: a session's event and key tell of a
  revocation that took place, with its time; an account-wide one is not later than
  the latest revocation.
- `RevokedRefusedHolds` rests on `RevokedCovered`: a revocation is in the channel, or
  a key at least as late holds, or the keys may have expired.

## 6. Owner projection

### 6.1 Model

One account. A row of `users`, of `todo_owners` or of the pending e-mail changes is
`[mail, at]`: which address, and under which stamp; the event of a commit is the row
it wrote. `at = 0` is "no row", so the upserts with `WHERE ... <` are one comparison.

| Code | Model |
|---|---|
| `users` (address, `updated_at`) | `user` |
| e-mail changes between service and commit | `asked` |
| outbox rows, messages, deliveries whose transaction has begun | `outbox`, `queue`, `taken` |
| registrations that have found no pending change | `looked` |
| `todo_owners`: row, `deactivated_at IS NULL` | `owner`, `active` |
| `todo_owner_pending_email_changes`, `processed_events`, tombstone | `pending`, `processed`, `tombstone` |
| rebuild: position, batch that was read, member row | `rebuild` |
| registration, e-mail change, password reset | `Register`, `AskEmailChange`, `ChangeEmail`, `ResetPassword` |
| outbox publisher | `Publish`, with or without the mark |
| `processMessage`, `retryOrDeadLetter` | `Take` (the tombstone test), `LookUpPending` (the SELECT of `insertOwner`), `Apply` (the rest), `Fail` |
| `applyAccountRegistered`, `applyAccountEmailChanged` and their helpers | the operators of the same names, `Upsert`, `DropAppliedPending` |
| rebuild worker and its three endpoints | `StartRebuild`, `ReadUsers`, `ApplyRebuildBatch`, `CompleteRebuild`, `AbandonRebuild` |
| `eraseAccountData`, `purgeQueueMessages`, `DELETE FROM users` | `EraseAccountData`, `PurgeQueue`, `DeleteUser` |

The queue, its retry queue and its dead-letter queue are one set: a message in any of
them may be delivered next (a dead letter by replay). A set also stands for repeated
deliveries, for the consumer may put a message back after it was applied. `processed`
only grows, and `Apply` may ignore it: retention deletes receipts. The statements of a
delivery lock the owner row or the pending row, and so are one action, but for a
registration that finds neither: its SELECT locks nothing, and a change handled beside it
may write its pending row before or after (`LookUpPending` is an action of its own).
`skewed`, `overtaken`, `stranded` and `missed` are history variables: a commit carried a
stamp not later than the row's; a delivery or rebuild was past its last look when the
erasure committed; a registration left behind the pending change it had looked for too
early; the last rebuild found no account.

### 6.2 Checks

| Run | Properties | Instance |
|---|---|---|
| `owner` | `ProjectionAgrees`, `InactiveForCause`, `ErasedStaysErased` | 4 stamps, 2 e-mail changes, any resets in order, 1 rebuild, the deletion |

*Bounds.* Registration and two changes give three events: one may wait in `pending`, one
be overtaken. Four stamps leave room for a reset between them, whose stamp only a
rebuild carries; it may be the stamp of the same millisecond as the row's. One rebuild is enough: it starts at any time, is read and applied at any
later time, and its completion leaves nothing behind but `active`. `Skews = FALSE` keeps
commits in stamp order, which two of the three properties ask for; the
deletion runs allow the other order. Nothing forces a delivery, so no liveness is
claimed.

*Conditions in the properties.* `ProjectionAgrees` has two ways to hold: the owner has the
address, or a registration and a change overlapped before there was an owner, and the
address is in the pending change, which nothing applies until another event or a rebuild
comes (`stranded`; a finding). The second way is reached only by that overlap: a pending
change that is lost, or left behind otherwise, violates the property.
`ProjectionAgrees` and `InactiveForCause` (and
`AddressForward`, which is proved and in no run) except commits out of stamp order: `updated_at` and the event carry
the time at which the service read the clock, and the lock is taken later, so the later
of two commits may lose in the projection for good. `ErasedStaysErased` excepts
deliveries that had read no tombstone before the erasure committed (the SELECT takes no
lock), and rebuilds, whose endpoint does not read the tombstone: the owner can come back
by either.

### 6.3 Proofs (`AccountDeletionProofs`)

For any number of stamps, changes and rebuilds, and stamps in or out of order:

- `TypeCorrect`.
- `ErasedForGood` rests on `NothingUnderWay`: unless overtaken, the erased copy has
  neither a delivery past the test nor a batch that was read.
- `AddressesForward` rests on `StampsInv`: with stamps in order a stamp names a row,
  wherever a copy of it is, and the account's row is the latest. `StepCopies` is the
  lemma behind it: only Account Service makes a row.
- `ProjectionsAgree` adds `AgreementInv`: some event that was sent carries the
  account's address and no later copy contradicts it (the reset gives the row a stamp
  no event has); what was applied has reached the owner or waits for the registration;
  the registration, once applied, leaves an owner and no pending change but a stranded one.
- `DeactivatedForCause` rests on `ActivityInv`: an owner later than the batch that was
  read is active, and a listing without the account is on record.

## 7. Account deletion

### 7.1 Model

`AccountDeletion` extends `OwnerProjection`: the workers' erasure, purge and final DELETE
are its actions, and everything else it does goes on beside them.

| Code | Model |
|---|---|
| `account_deletion_requests` | `status`, `step`, `lease` (owner of the unexpired lease), `due` |
| `workspace_members` and `workspaces.created_by` that refer to the account | `ties`: a workspace it joined, founded, or founded and left |
| unpublished events of its sessions, memberships, passwords | `notices` |
| position of a worker in `processNextAccountDeletion` | `pc` |
| an erasure whose caller timed out | `stray` |
| `requestDeletion` | `RequestDeletion` |
| `claimNext`, `prepareWorkspaceDeletion`, `advance` | `ClaimNext`, `PrepareWorkspaceDeletion`, `Advance` |
| `eraseTodoCopies` | `EraseTodoCopies`, `EraseAnswerLost`, `EraseTimesOut` and `StrayLands` |
| `findDeletionEmail`, `hasUnpublishedIdentityEvents` | `CheckEvents` |
| `purgeAccountMessages` and the cache purges | `Purge` |
| `complete` | `LockAccount` (locks, last look for events), `Complete` (DELETEs and UPDATE) |
| catch block, `retry` | `CallFails`, `Retry` |
| the process stops | `Stop` |
| `createWorkspace`, `addMember`, `removeMember`, `completePasswordReset` | `CreateWorkspace`, `JoinWorkspace`, `LeaveWorkspace`, `NewPassword` |
| the last member of a workspace it founded and left deletes their account | `LeftWorkspaceEnds` |

`complete` is two actions because its statements see what others commit in between.
While it is under way (`Completing`) it holds the row locks of the request and of the
user, so claims, the other updates of the request, e-mail changes, resets and the foreign
key of a new membership wait; the removal of a membership does not.

### 7.2 Checks

| Run | Properties | Instance |
|---|---|---|
| `deletion` | `CompletedMeansErased`, `NeverReopened`, `KeepsProjection`, `Completes` | 2 workers, 1 mishap of any kind, and 1 e-mail change (with the stamp of the registration) or 2 of: a workspace founded or joined, a new password |
| `deletion_schema` | `Completes` (violated) | the row of the anonymous owner as the code writes it |

*Bounds.* Two workers are one whose lease lapsed and its successor, and one mishap is
what separates them. Two of the other things are what founding a workspace and joining one,
or being removed and added again, takes. `Mixed = FALSE` keeps them apart from e-mail
changes: both meet only in `complete`, which waits for either. The rebuild beside the
deletion is checked in `owner`.
`PlaceholderFits` says whether the row that the erasure inserts for the anonymous owner
satisfies the table; it does not (see below), and `deletion` assumes that it did, for
otherwise nothing behind the erasure would be reached. The proofs have no bound on
workers, mishaps and changes.

*Fairness* (`FairDeletionSpec`, for `Completes`). `WF(ClaimNext(w) \/ RunStep(w))`:
the worker polls for ever and no statement waits for another for ever.
`WF(PublishNotices)` and `WF` of a publication that is marked, for each event: the outbox
worker does the same. `WF(BackoffElapses)`, `WF(LeaseExpires)`: the clock advances.
Nothing is assumed of the mishaps but that there are finitely many.

*What the violation shows.* `deletion_schema`: the erasure inserts an owner without
`projection_occurred_at`, which is `NOT NULL` without a default. PostgreSQL tests that
before `ON CONFLICT`, so every erasure rolls back and no deletion completes; the unit
tests mock the database.

*Why the conditions.* An administrator may remove the account from a workspace after
`complete` has looked for unpublished events and before it deletes the user: the event of
the removal is deleted unpublished, or published after the account is gone, and
`CompletedMeansErased` does not count it. `Completes` is conditional for two reasons.
`addMember` does not ask whether a deletion is under way: a membership given after the
workspaces were left blocks the DELETE by its foreign key until somebody removes it. And
`removeMember` leaves `workspaces.created_by`, which is `ON DELETE RESTRICT` as well, while
`prepareWorkspaceDeletion` looks only at workspaces the account is still a member of: who
founded a workspace and was removed from it is never deleted, unless the workspace goes
(a finding). What `Completes` says is that nothing else stops the deletion, and that it
goes on as soon as the workspace lets go.

### 7.3 Proofs (`AccountDeletionProofs`)

For any number of workers, mishaps and workspaces:

- `DeletionTypeCorrect`.
- `CompletionErases`, `DeletionIsLast` rest on `DeletionInv`: nobody is past the erasure
  without its tombstone (`ErasedBefore`); who is in the final transaction is alone there
  and no change of address is unpublished (`AccountHeld`); a completed request has
  nothing left (`NothingLeft`). Leases are not mentioned: these hold however many
  workers run the request.
- `CompletionIsFinal`: from the type invariant, action by action.
- `DeletionKeepsProjection`: `DeletionSpec` implements the specification of
  `OwnerProjection`; `ErasedBefore` and `AccountHeld` give the guards of its `Deletion`.
  `DeletionErasesForGood` carries `ErasedForGood` over by it.

`DeletedOnlyWhenCompleted` (`DeletionIsLast`) is proved and in no run; only
model-checked: `Completes`.

## 8. TODO commands and read cache

### 8.1 Model

One owner, the accounts the owner may share with, any number of clients. The number of a
TODO is its place in the order of `(created_at, id)`. A transaction is one action; a
command that reads before it takes the row lock is one action for each part.

| Code | Model |
|---|---|
| `todos` | `todo`: phase, title, `done`, version |
| `todo_idempotency_records`, their `expires_at` | `record`, `lapsed` |
| `todo_shares`, `todo_owners.cache_version` | `share`, `cacheVersion` |
| request under way | `command` |
| `PostgresTodoRepository.create` | `AskCreate` (id and clock; the state the request asks for), `CreateTodo`, `Replay`, `CreateRefused`; its DELETE of lapsed records in `Swept` |
| `createRequestHash` | `Made` |
| another owner's create, the 24 hours | `SweepByOthers`, `Lapse` |
| update | `BeginUpdate` (SELECT), `UpdateOwnedTodo`, `UpdateRefused` |
| change of state | `BeginState` (SELECT), `CheckState` (snapshot of the UPDATE, which then waits), `WriteState` |
| soft delete, share, withdraw | `SoftDeleteOwnedTodo`, `BeginShare` and `CreateShare`, `Withdraw` |
| `invalidateOwner` after the commit | `Invalidate` |
| version key, entries in Redis | `copy`, `entries` |
| a read | `BeginRead` or `NextPage`, `Resolve` (version in PostgreSQL), `Lookup`, `Load`, `Store` |
| TTL, restart of Redis | `Expire`; a failing Redis is an alternative of `Resolve`, `Lookup`, `Store`, `Invalidate` |

The trigger that counts `cache_version` is part of the commit (`Committed`). `late` marks
the UPDATE of a recipient that had taken its snapshot when the share was withdrawn: the
row is not changed by `Withdraw`, so PostgreSQL does not evaluate the condition on
`todo_shares` again. `answers` and `completed` record what was answered and which
events were appended; an image carries the `cacheVersion` it was read at (`asOf`).

### 8.2 Checks

| Run | Properties | Instance |
|---|---|---|
| `todo` | `KeyAnswersOnce`, `CompletionsCounted`, `WithdrawnStaysOut`, `FreshReads`, `WalkComplete` | 4 TODOs (2 at first), 3 titles, 1 key, 1 recipient, 2 clients and 2 readers with 3 requests together, pages of 1 |

*Bounds.* Three requests are two that overlap and one before or after: two creates under
one key and a sweep, two updates of one version, an update and a withdrawal, a read of two
pages and a change. Pages of one TODO make two TODOs a walk. One key is enough, as keys do
not interact but by the titles. Nothing forces a request to end; no liveness is claimed.

*What is left out.* Reads of recipients, which do not use the cache; filters and
search of a list (each has cache keys of its own); the limit on the number of shares;
normalisation of titles (a title is its normal form). Shares and withdrawals do not
count `cache_version`: an entry that shows the shares is served until it expires. That is
among the findings and outside `FreshReads`, whose image has no shares.

*A TODO may be created completed*, and the creation writes `todo.created` only.
`CompletionsCounted` is about changes of a TODO that exists, from open to completed: it
does not say that every completed TODO had an event (a finding).

### 8.3 Proofs (`TodoProofs`)

For any numbers of TODOs, keys, recipients, clients, readers and requests and any page
size, from the inductive invariant `CacheIInv`:

- `CacheTypes`: the type invariant.
- `KeyAnswered` rests on `IdempotencyInv`: a record is that of an answer, an answer has
  its record until its TODO has lapsed (`RecordsMatch`), the TODO of an answer is the
  answer's alone, and the id that a create has drawn is nobody else's (`DrawnApart`). The
  property alone is not inductive: it does not say that an answered key still blocks.
- `CompletionsCorrect` rests on `ReadCurrent`: while a TODO has the version a command has
  read it is as the command has read it. So the event may be decided from the old read.
- `WithdrawalHolds` rests on `AccessKept`: who is about to write has the share or is late.
- `ReadsFresh` rests on `FreshInv`: what is stored under a version was read when the
  owner's version was at least that, and a reader looks under a version that is not
  older than its request.
- `WalksComplete` rests on `WalkInv`: an entry that a reader may find lacks none of the
  TODOs its walk has to return, because a TODO that was live when the walk began can
  only have been deleted since; and the walk has returned those up to its cursor.

## 9. Events from outbox to mail

### 9.1 Model

`Broker` has the queues as bags, because a message may wait twice and no order is relied
on. `EventDelivery` composes the two outboxes, the consumers and the replay; all faults
share one count.

| Code | Model |
|---|---|
| exchange bindings; retry exchange, whose history queue is bound with `#` | `BoundTo`, `RetryBoundTo`, `Routed` |
| TTL of a retry queue | `RetryDue` |
| routing key of a history message: the type of its event, or the name of the queue it was sent to | places `history` and `historySent`, their retries `historyRetry` and `historyRetrySent` |
| what the exchange has no queue for | `dropped` (history) |
| `outbox_events`, workers, their channel | `todoRow`, `todoPublisher`, `connected`; `accountRow`, `accountPublisher`, `ready` |
| claim with `SKIP LOCKED`, publish with confirm, marks | `ClaimPendingEvents`, `Publish`, `ConfirmLost`, `MarkPublished`, `MarkFailed` and their counterparts |
| lock timeout, stop, closed connection, shutdown, retention | `LockLapses`, `PublisherStops`, `ConnectionCloses` and `PublisherCloses`, `ReleaseWorkerLocks`, `CleanUpRow` |
| history and owner consumer: apply, retry, dead letter, stop before the ack | `AppendHistory`, `AppendFails`, `AppendUnacked`, `RetryUnacked`, `ApplyOwnerEvent`, ... |
| `notification_event_deliveries`, lease and token | `delivery`: status, attempts, `holder`, `fresh` |
| `withRecipientGuard`, the deletion request's lock | `guard`, `EnterGuard`, `RequestDeletion` |
| `reserveAddress` | `reserved`, `Quota` |
| `claim`, mail, `markSent`, `markFailed`, `scheduleRetry`, `finishDeadLetter` | `Deliver`, `SendMail`, `MarkSent`, `MarkDeliveryFailed`, `ScheduleRetry`, `Bury`, `MarkDeadLetter` |
| a mail that is sent after `withTimeout` gave up | `SendTimesOut`, `LateMail` |
| lease of 300 s, stop, retention | `LeaseLapses`, `MailerStops`, `CleanUpDelivery` |
| `operateDlq`; the replay of events | `ReplayReset`, `ReplayPublish`, `ReplayMark`, `ReplayStops`, `ReplayDead`; `ReplayEvent`, `ReplayOwnerEvent` |

A consumer takes a mail message off the queue when it gets it and puts it back when it
stops: one message is with one consumer. History and owner consumers are one action for
a message, for between two statements of theirs nothing but a stop matters (`Unacked`).
One kind of mail (of a share, under `TodoEvent`) stands for three. The day of the quota
does not end. A time between attempts is any time.

### 9.2 Checks

| Run | Properties | Instance |
|---|---|---|
| `events` | `NothingLost`, `RetriesBounded`, `MailDriven`, `OneMail`, `NoMailToDeleted` | 2 TODO events, 1 that the history cannot append, 1 account event that the owner consumer cannot apply, 2 publishers, 2 mailers, 2 attempts, 1 retry, a quota of 1, 2 faults, 1 replay |
| `outbox_reconnect` | `CommittedPublished` (violated) | 1 event, 1 worker, 1 closed connection |

*Bounds.* `Explored` in `MCEvents` takes two TODO events with one fault or one replay, or
one with two faults and a replay, and the account event by itself: account and TODO
events share the broker and the count of faults and nothing else. The TODO event whose
append always fails is by itself, too, with one fault or one replay: it gets through its
retries to the dead letter without a fault, and from there through the replay. Two events are two
rows of a batch and two mails under a quota of one. Two attempts distinguish "again"
from "given up". Two mailers suffice for one to overtake the other.

`MailDriven` asks for the message of a dead letter up to one replay only. With two TLC
finds it gone: two consumers finish the dead letter of one delivery (a repeated
message), one of them is slow between its publication and `markDeadLetter`; the letter
is replayed and fails again; the slow one now marks the later failure, since the UPDATE
asks for the status only; the consumer of that failure stops before its own
publication. The delivery is a `dead_letter` without a message. The finding is listed.
That a dead letter which retention has deleted cannot be replayed is outside the
property, too.

`NothingLost` has one exception, after a replay. The replay commands send a history
message to the queue itself, so that its routing key is the name of the queue. When its
append fails, `retryOrDeadLetter` publishes it to the retry exchange under the key it came
with; the retry queue has no dead-letter routing key and returns it under the same key to
the topic exchange, where the history is bound to the types of events only. The broker
drops it (`dropped`), and the dead letter, if it was replayed from one, is gone by then. Without
the exception TLC finds the loss; it is a finding. The retries of the owner consumer go by
the type of the event and come back.

*Fairness* (`FairDelivery`, for `CommittedPublished`). `WF` of a step of each publisher:
`run()` polls for ever. `WF` of the expiry of a lock. Nothing is assumed of the consumers.

*What the violation shows.* The TODO outbox worker is started again only when `run()`
throws, `run()` catches everything, and the handler of "close" only logs: a row committed
after the broker closed the connection is never published until the process is
restarted. The publisher of Account Service connects again (`Connect`).

`RetriesBounded` counts the messages of an event together with all that they may
`Becoming`: a message becomes `Growth` messages with each retry, one for a TODO event and
two for an event of the owner consumer, because a message in the shared retry exchange
reaches the retry queue of the history as well as that of the owner consumer. The
`Allowance` is what one first publication becomes; every fault and every replay has one
more.

### 9.3 Proofs (`EventProofs`)

For any number of events, publishers, consumers, attempts, faults and replays:

- `DeliveryTypes`, from `TypeInv`: the types, the kinds of messages that a queue may hold
  (`Fits`), and that no attempt counts beyond the last (`AttemptInv`).
- `NothingIsLost` rests on `SafeInv`: a worker that is about to mark a row published has
  published it. `SafetyIsKept` is the lemma behind it: a step that takes an event from
  a queue puts it into another or where it is meant for. `DroppedInv` says that nothing is
  sent to the history's queue itself, and so nothing dropped, without a replay.
- `DeletedGetNoMail` rests on `GuardInv`: who is at the mail server has the guard and the
  account is active.
- `MailedOnce` rests on `OnceInv`: unless the event is among the careless, a consumer
  between claim and mark holds the claim and is alone, its mail has gone out at most
  once, and if it has the row is sent or the consumer is at its mark.

- `MailIsDriven`, for any number of replays, from three invariants. `DrivenInv`: the message
  of a delivery that goes on is in a queue or with a consumer that is past its claim and
  will pass it on; which places count depends on the status (`TakenOn`, `GivingUp`,
  `Handling`). `SentInv`: who is at the mark has sent the mail or found the account being
  deleted. `LettersInv`, up to one replay: a dead letter is in its queue, and there are two
  of it where a consumer is yet to mark it and a replay takes one away. A second replay
  takes the other, which is the counterexample above.
- `RetriesAreBounded`, for any limits. `RetriesBounded` is not inductive: a row that is
  still to be published is no copy yet. `RetryInv` therefore takes off the allowance of
  what is `Due`, the batches that hold the event and the row that waits while no worker
  has it in hand; a publication then moves one allowance from `Due` to the queues, and a
  lapsed lock, a lost confirmation or a stop is paid for by the fault that it counts as
  (`Settled`). Retries keep `Becoming` as it is; `Tidy` and `FewBatches` say that a worker at
  rest has no batch and that batches can be counted.

Only model-checked: `CommittedPublished`, a liveness property.

## 10. Chain submission and indexer

### 10.1 Model

`Chain` is external: the node, of which the repository has only the calls. Blocks carry
transactions of one writer account with consecutive nonces; a block's hash is its number
and the reorganisation it came in. `Reorganise(n)` replaces the last `n` blocks; what only
they held waits again, and what the node forgets (`Forget`) is a fault.

| Code | Model |
|---|---|
| `chain_submissions`, `chain_writer_nonces` | `status`, `nonce`, `attempts`, `claimed`, `erased`, `nextNonce` |
| advisory lock of a submission | `lock` |
| `enqueue`, erasure, two minutes of a claim | `Enqueue`, `Erase`, `ClaimLapses` |
| `claimPendingSubmissions`, `processSubmission` | `ClaimPendingSubmissions`, `Lock`, `Receipt`, `Depth`, `MarkFinal`, `ReleaseClaim`, `Reserve`, `Broadcast`, `MarkSubmitted`, `Unlock` |
| catch block | `RecordFailure` |
| failing calls, lost answers, a stop | `CallFails`, `AnswerLost`, `Stop` |
| checkpoint, block marks, events of the projection | `checkpoint`, `marks`, `events` |
| `pollOnce` | `PollOnce`, `Compare`, `Search`, `ReadHead`, `GetLogs`, `CommitScannedRange` |
| rebuild command; a poll that fails | `Rebuild`, `PollFails` |

`Search` makes all its calls and its transaction in one action, `CommitScannedRange` its
`getBlock` and its transaction. `deep`, `overtaken` and `torn` are history variables: a
reorganisation replaced blocks that had their confirmations; one fell between a worker's
receipt and height; a deep one fell into a scan.

### 10.2 Checks

| Run | Properties | Instance |
|---|---|---|
| `chain` | `AnchoredOnce`, `NoncesDense`, `FinalIsMined`, `ProjectionFaithful` | 2 submissions (one may be erased and its call reverts), 2 writers, 2 confirmations, up to 2 reorganisations of up to 2 blocks, 1 fault, 1 failed poll, 1 rebuild, 3 events of these kinds together |

*Bounds.* `MaxEvents` bounds submissions and mishaps together: two submissions and any one
mishap, or one and any two. Two confirmations and a depth of two make a reorganisation
that is deep and one that is not. `Explored` in `MCChain` lets polls run while no writer
is at work and with one submission: writers and indexer meet only on the chain, which
the indexer does not change. Empty blocks are mined until everything has its
confirmations and one more; after that the chain stands still.

*Conditions in the properties.* `FinalIsMined` excepts reorganisations as deep as the
confirmations, and those between the two calls of one check: the worker reads the receipt
and then the height. `ProjectionFaithful` excepts, while a poll scans, a deep one in the
middle of the scan: the events are then of the old branch and the mark of the new, which
the next poll finds canonical, so that only a rebuild repairs it (a finding).
`NoncesDense` says that the nonces were
given out without a gap. It does not say that each is sent: a row with a nonce that
becomes a dead letter before its broadcast, or is erased, holds up the writer's later
transactions (a finding).

Liveness is not stated: with a gap the later transactions never confirm, and the
documents list the repair as missing.

Left out: fees and their replacement, several contracts and chains, the ABI; and that the
indexer searches the latest 100 block marks for the common ancestor
(`task-history-indexer.ts:253`), and starts again from the deployment when none of them is
canonical: the model searches all of them first.

### 10.3 Proofs (`ChainProofs`)

For any number of submissions, writers, confirmations, faults, polls and reorganisations
of any depth:

- `TypeCorrect`, `AnchoredOnceHolds` and `NoncesDenseHolds` come from one invariant, `BaseInv`.
  `AnchoredOnce` needs that what was ever broadcast carries the nonce of its row
  (`SentInv`) and that a nonce, once written, stays (`NonceKept`). `NoncesDense` needs that
  the node's count is never ahead of the table, for `Reserve` takes the larger of the two:
  the blocks hold the first nonces without a gap (`ChainInv`), each belongs to a row
  (`SentInv`), so they are no more than were given out. A worker past its lock holds it
  (`LockInv`), and what it read of its row still holds (`WorkerInv`): only then does the row
  of a worker at `mark` still have the status it is about to change.
- `FinalIsMinedHolds` rests on `FinalInv`: without the two exceptions a worker that is about
  to mark a row final has a receipt that is as deep as the confirmations, and no
  shallower reorganisation takes it away.
- `ProjectionFaithfulHolds` rests on `ProjectionInv`, of which `MarksVouch` is the idea: a mark
  that is canonical vouches for every event up to it, whatever happened above it. It is
  why a rollback to a canonical mark leaves the truth, and it is what a torn scan
  breaks. Hashes name a block by its number and its branch (`ForksPast`), so that a block
  of a new branch is never taken for a marked one.

## 11. Gateway

### 11.1 Model

Requests on their way through the rate limits, the call and the service's look at the
identity. Time goes in ticks, several to a second; the service's clock is `skew` ticks
ahead of Gateway's.

| Code | Model |
|---|---|
| counters of a policy and their TTL | `key`, `window` (which counter it is) |
| `RateLimiter.consume`, the script | `Consume`, `Incremented`, `ResetAfterSeconds` |
| no reply, not ready; `handleUnavailable` | `ConsumeFails`, `Unlimited`, `FailClosed` |
| Redis stops; returns with or without keys | `RedisStops`, `RedisReturns` |
| `createIdentityHeaders` and `fetch` | `Call` |
| `verifyIdentityMetadata`, `validateIdentityMetadata` | the operators of the same names |
| service with identity; with the service key | `ArriveWithIdentity`, `ArriveWithKey` |
| answer, 504, 503 | `Answer`, `TimesOut`, `Unreachable` |

The authentication policy is fail-closed, the general one fail-open. A request that timed out may still arrive.
`through` is a history variable. Left out are the policies of the password reset, which
count as the authentication policy does, and the 502 for a body that cannot be read to
its end because the call was aborted meanwhile: the model has one answer for a timeout.

### 11.2 Checks

| Run | Properties | Instance |
|---|---|---|
| `gateway` | `WithinLimit`, `HonestRetryAfter`, `BegunInTime`, `RefusedForCause` | 2 requests under both limits, 1 under the general one, limits of 1, windows of 3 ticks, 2 ticks to a second, clocks up to 3 ticks apart, 4 ticks, 1 fault |

*Bounds.* A limit of one makes the second request one too many, a window that is no whole
number of seconds and seconds of two ticks make rounding matter, four ticks are more than
a window. `Skews` has one value beyond the tolerance, one at it, one ahead.

`GatewayAssumption` has `Ttl <= MaxAge`: the settings are read by two programs and checked
by neither, and were a lifetime longer than the accepted age every identity would be
refused. The defaults are equal.

`BegunInTime` compares the service's clock (`seen + skew`) with the end that Gateway stamped
on the identity by its own (`sent` and `Ttl`). By Gateway's clock an operation may begin
later than that, by what the service's clock is behind.

### 11.3 Proofs (`GatewayProofs`)

For any requests, limits, windows, clocks, tolerances and faults:

- `VerifiersAgree`: the two services accept the same identities.
- `GatewayTypes`.
- `LimitsHold` rests on `CountedInv`: a living counter has counted those it let through.
- `RetryAfterHonest` rests on `RetryInv`: who was refused was told an end that is not
  before that of the counter, as long as it is the same counter.
- `BeginsInTime`, `RefusalsHaveCause` rest on `IdentityInv` and on two lemmas that carry the
  comparisons in whole seconds over to ticks (`GenuineInTime`, `RefusedWithCause`).

## 12. What the results assume

- PostgreSQL transactions under a row lock are atomic and serialised by it; Redis
  commands and scripts are atomic; clocks of the processes agree, but for section 11.
- The broker delivers an event until it is acknowledged, and keeps its queues when it
  restarts.
- For `Membership` and `Sessions` Redis answers. With fail-open settings an outage lets
  tokens and members pass that the keys would refuse; the documents say so, and no
  property speaks of it.
- The verifier's tolerance of 5 s is part of `TokenLife`. With the defaults (token
  900 s, session-revocation key 900 s) `TokenLife` exceeds `Ttl` in `Sessions`:
  `RevokedRefused` therefore speaks of the time until the keys may expire, not of
  the life of the token.
- `createPasswordReset` and `completePasswordReset` lock user and token in opposite
  orders; PostgreSQL aborts one of them, which is a request that had no effect.
- `EventAssumption`: the events of the two services have different ids.

Type invariants are theorems of their modules. But for `TypeOK` of the saga they are in no
run that is kept, for there the time goes to the other properties. Definitions that state a sentence of
a document which the code does not keep (`CompletedAlwaysHoldsAll`,
`DeliveredMeansRemoved`, `AcceptedWhileActive`, `NoEventOutlivesAccount`) stay in their
modules beside the property that has the exception; no run checks them.

Induction over data and liveness are out of reach of the prover: `Terminates`,
`Completes`, `CommittedPublished` and the bounds of the runs stay with TLC. No module uses
a recursive operator.

## 13. Not modelled

- The purge of Gateway's Redis keys by the deletion, and of what the erasure deletes
  beside the owner (TODOs, shares, history; rows of chain submissions are in `Erase`).
- Todo Service's own copy of the membership consumer: the script is the one of
  `Membership`, which stands for both.
- The lifetime of the role key (`workspace-membership.cache.ts:36`) as a promise of
  availability: `ProjectionAgrees` excepts it.
- Reads that change nothing: lists, profile, lookup, history, audits, inspection.
- Hashing and signatures (a token is a record, a credential its place in the chain),
  validation, envelopes, logging, settings, health, HTTP routing.
- Retention, beyond what it shares with expiry and the two clean-ups named above.
- The legacy monolith, the verification scripts, restore rehearsals.
