# Verification of the authentication service

This directory holds a TLA+ model of the session and account protocol of the
NestJS authentication service in `src/`, the TLC configurations that check it on
small instances, and proofs of its central properties for instances of every
size. Paths below are relative to the repository, where the application itself
lives in `src/src`.

## 1. The system

### Parts, their state and their operations

| Part | State | Operations that change it | What makes it correct |
|---|---|---|---|
| AuthService (`modules/auth/auth.service.ts`), AuthController | none of its own | sign-up, credential check with lockout, login, refresh, logout | a token is exchanged once in its session and never accepted afterwards; failures lock the account |
| SessionsService (`modules/sessions/sessions.service.ts`) | none | create, rotate with reuse detection, revoke all | reuse is detected, punished and audited, and nobody is accused wrongly |
| Session repositories (`in-memory`, `postgres`, `redis`) | a record per session: user, hash of the current token, previous hash, jti, previous jti, revocation; Redis also a set of session ids per user | create, compare-and-swap, revoke | the contract of `sessions.repository.ts` |
| Refresh-token store (`modules/tokens/in-memory.tokens.repository.ts`) | a set of accepted tokens per user, in the process | add, remove, exists | agrees with the sessions; logout is final |
| Users (`modules/users`) | a Map of accounts | create, save (whole account), counters, activation, role | one account per address; no lost update |
| VerificationService and the verification records | a Map of records | delete the older tokens, then store a new one (two awaits); check and mark used; expire | single use; asking for another ends the ones before; a token works until then |
| Admin (`modules/admin`), SessionsController | none | activate, deactivate, role, force-logout, logout-all | revocation reaches every session |
| Audit (`modules/audit`) | a log | append | reuse and admin changes are logged |
| Key management (`utils/key.manager.ts`, `kms.provider.ts`, `token.util.ts`) | none: every hash reads the keys anew | operators reorder the keys; Vault does not answer | stored hashes still match after a rotation |
| Store selection (`auth.module.ts`) | the backend, once per process | probe at start | the backend supports rotation |
| Rate limiter (`rate-limit.middleware.ts`, `rate-limit.util.ts`) | per address and per account, the times of recent requests: a sorted set in Redis that expires, or a list in the process | count a request, and let it pass or refuse it | never more than the limit in a window, and nobody refused without cause |
| Mail (`mail.service.ts`, `mail.provider.ts`, `mail.worker.ts`) | a Redis list, and the mail the worker has popped | push; pop and hand over; send directly when there is no Redis | mails keep the order of their tokens, unless the Redis client repeats a push; a lost mail costs a token, not the account |
| Migrations (`scripts/run-migrations.js`, `db/migrations`) | the schema; which files were applied is recorded nowhere | apply every file, each in a transaction, in the order of the names | the order works, and so does a second run |
| Guards, filters, configuration, health, bootstrap | none | none | - |

### How they interact

Every HTTP request is an asynchronous handler in one Node process. A handler runs
without interruption until it awaits something; then other handlers run. The
waits that matter are the commands to Redis and Postgres (network), the inserts
of the audit log, and bcrypt (bcryptjs, which yields through `setImmediate` between
its rounds). Calls into the in-memory repositories are awaited too, but have taken
effect by then; only handlers that run in the same turn of the event loop alternate at
such awaits.

A refresh visits two stores: the token store (is the token accepted?), and, when
the request names a session, the session repository (is it the current token of
the session? if so swap it, else did it precede the current one?). The two are
updated in separate steps: swap the session, remove the old token, add the new
one, answer. Revoking every session of a user, after a reuse or for force-logout
and logout-all, touches the session repository only.

The token store is a Map in the process. Beside Redis or Postgres the sessions
survive a restart and the tokens do not.

A verification or reset token is stored first and then travels by mail: the
service pushes the mail into a Redis list, which a worker process pops, or sends it
itself. The code tries nothing again: a mail is lost when the push is refused, when the
connection breaks after the pop, when the worker stops, or when the provider throws.
ioredis, with the defaults the client is built with, sends commands that have no reply
once more after a reconnect, so a push may be executed twice.

The rate limiter runs before the login and forgot-password handlers. A request is
counted for its address and then, when its body has an email, for the account. In
Redis this is one transaction per key (add, trim, count, expire), sent after the
process has read its clock; several processes share the keys. When Redis fails the
request goes on.

### What is hard

- overlapping refreshes of one token, and refreshes that overlap a logout or a
  revocation of everything;
- the compare-and-swap of Postgres is followed by a second query when it fails;
  Redis creates a session with three commands and revokes with two, and other
  handlers run between them;
- refused commands, applied commands whose reply is lost, pipeline commands that
  fail alone, sessions that expire, a process that restarts;
- accounts are read before bcrypt runs and saved after it, as a whole;
- a chain of legal calls in which the evidence of a reuse (previous hash, previous
  jti) is overwritten before it is needed;
- transactions of the rate limiter reach Redis late and in another order than the
  times they carry, at the edges of the window and of the key's time to live;
- mails get lost on their way, or are pushed twice, and their tokens are superseded
  meanwhile;
- older verification tokens are deleted in one step and the new one is stored in another,
  and two requests for one user may both delete before either stores.

`PROJECT.json` lists each of these under `hazards`, at its line.

## 2. Modules

| Module | Contents |
|---|---|
| `SessionContract` | the abstract specification of a session repository: open, rotate, revoke, expire |
| `RefreshRotation` | login, refresh, logout and revocation over the token store, one of three session repositories, and the audit log; the properties |
| `RefreshRotationInv` | the inductive invariant of `RefreshRotation`, in layers |
| `VerificationContract` | the abstract specification of verification and reset tokens: withdraw, grant, accept, lapse |
| `UserAccounts` | sign-up, credential check with lockout, verification and reset tokens, admin operations |
| `MailQueue` | the way of a mail; `UserAccounts` instantiates it with the tokens as mails |
| `RateLimiter` | the middleware over its two limiters, with a clock |
| `MCRefreshRotation`, `MCUserAccounts`, `MCRateLimiter` | instances for TLC |
| `SessionContractProofs`, `VerificationContractProofs` | theorems about the contracts |
| `RefreshRotationTokens` | proof that types and handlers' locals are kept, of where tokens may be, and the theorems about the token store |
| `RefreshRotationSessions` | proof of how sessions agree with exchanges and with the index, hence of `IInv`, and the theorems about sessions |
| `RefreshRotationTheorems` | what follows: the repositories implement `SessionContract`, sessions stay with their users, reuse is audited, and what named refreshes make of a revocation |
| `VerificationProofs` | theorems about tokens and the order of mails, and that the service implements `VerificationContract` |
| `UserAccountsProofs` | theorems about counters, locks, verified addresses, types, and about the two races |
| `RateLimiterProofs` | theorems about the limiter |

`RefreshRotation` instantiates `SessionContract` with a refinement mapping:
the current token of a session is the token its hash was computed from, a session
is revoked when its record says so, and the exchanges are those the repository
made. `UserAccounts` instantiates `VerificationContract`: an ask under way is a request
between deletion and storage, an open offer is a record that is neither used nor expired,
each carries which tokens had been stored when the older ones were deleted for it, and
the rest is history (what was generated, how often each token was accepted).

### `RefreshRotation`

A request slot holds one handler: its phase (the await it is in) and its locals.
One action is the code between two awaits, whole; the response is part of the
last one.

| Phases | Code | Actions |
|---|---|---|
| `create`, `index`, `expire` | `AuthService.login` after the credentials, `SessionsService.createSession`, `create` of the repositories | `Login`, `CreateSession`, `IndexSession`, `SetSessionTtl`, `CreateSessionFails` |
| `early` | `AuthService.refresh`, the early jti check | `BeginRefresh`, `EarlyReuseCheck` |
| `validate`, `mint` | `validateRefreshToken`, signing of the successor | `ValidateRefreshToken`, `RotateInTokenStore` (no session named), `MintForSession` |
| `cas`, `inspect` | `rotateRefreshToken` of the repositories, and the second query of Postgres | `RotateSession`, `RotateSessionFails`, `InspectSession` |
| `retire`, `store` | `revokeRefreshToken(old)`, `storeRefreshToken(new)`, the response | `RetireOldToken`, `StoreNewToken` |
| `revoke`, `pipeline`, `audit`, `respond` | `revokeAllForUser`, the audit event, the admin's response | `LogoutAll`, `RevokeAllForUser`, `ReadMembers`, `RevokeMembers`, `AuditReuse`, `RespondLogoutAll` |
| any with a command | an exception from the driver | `CommandRefused` |

`Logout`, `RotateKey`, `ExpireSession` and `Restart` happen around the handlers. `Backend`
is the choice of the factory in `auth.module.ts` and `Faults` the kinds of failure
that may happen: `refused` (a command is not executed), `reply_lost` (it is, and
throws all the same), `pipeline_error` (single commands of a pipeline fail and
`exec` resolves), `audit_refused`, `restart` (the process stops: its handlers are
gone and the token store is empty, the sessions stay).

What is abstracted:

- A token is a value. Its jti, a uuid, makes it unique, so a fresh value stands
  for a signature; `owner` is the `userId` claim. A forged token, or one of
  another user, changes no state and is left out.
- A hash is the pair of a key and a token: HMAC without collisions. Only the
  first key of the provider is ever used by `hashWithKeys`, so a key rotation is a
  change of `primary`.
- Where the code awaits an in-memory call, the model may interleave other
  handlers. With an in-memory backend the event loop often runs such awaits back to
  back, so the model has at least the interleavings of the program. The
  properties that pass hold under all of them, and each violation run on this
  module has one request at a time, so none of them relies on such an
  interleaving.
- The in-memory swap happens one microtask after the successor is signed; the
  model has an await there as for the other backends.
- A record that `revokeAllForUser` writes into an expired Redis key has two fields
  and no token hash, which rotation treats as a missing session: `Absent`.
- `expiresAt` and the expiry of JWTs: there is no clock. The TTL of Redis is
  `ExpireSession`, which may strike any session that is listed and no longer being
  created. That includes one whose `EXPIRE` failed: the model has more behaviours here,
  never fewer.
- A login reads the primary key when it hashes its token, which is before the session is
  written (`Login` and `CreateSession`).
- One element of `LogoutReasons` stands for the reasons of force-logout and
  logout-all.

`tokensOut`, `sidsOut`, `lineage` and `loggedOut` are history: what was returned to
clients, which token was exchanged for which, what was logged out or lost
in a restart. No guard of the
code's own actions depends on them but those of clients (who can only send what
they were given) and the uniqueness of tokens.

### `UserAccounts`

Here the repositories are in memory whatever the configuration (no module provides
another one for users), and the waits in which other handlers run are bcrypt
and the audit insert. An action is what a handler does from one such wait to the
next, with one exception, the issue of a token: `createVerificationToken` deletes the
older tokens (`BeginIssue`) and after an await stores the new one (`FinishIssue`).
Handlers that are resumed in one turn of the event loop alternate at that await.
Requests for a reset link are, when one chunk from Redis carries the replies to the
limiter transactions of several of them. The others are not: no limiter stands before
`resend-verification`, and each request Node reads from a socket runs until it waits for
something. `MayIssue` says so: beside a request between the two steps there may
be another one only when there is a Redis client and both are for reset links. Other handlers may come in
between all the same; the model has more interleavings here than the program, and what
passes holds under all of them.

| Code | Actions |
|---|---|
| `UsersService.create` | `BeginSignup`, `CreateUser` |
| `AuthService.validateUser` | `BeginLogin`, `RejectLogin`, `AdmitLogin` |
| `createVerificationToken`, resend-verification, forgot-password | `BeginIssue`, `FinishIssue` |
| `verifyToken`, verify-email | `VerifyEmail` |
| `verifyToken`, reset-password, `updatePassword` | `BeginReset`, `FinishReset` |
| `AdminService` and its audit events | `SetActive`, `SetRole`, `AuditAdmin` |
| dates that pass | `LockLapses`, `TokenExpires` |

Accounts, tokens and counters are Maps in the process, and a restart begins anew with none of
them; it is not modelled. A user id is a position in the Map; `Owner` and `Taken` are
`findByEmail`. `copy` is the object `findById` or `findByEmail` handed out before
the wait: `updatePassword` saves it as a whole afterwards (`FinishReset`), whereas
the failure counter is read again (`RejectLogin`). Locks last equally long, so they
lapse in the order they were set: `locks` numbers them and `lapsed` says how far
the clock got. A token is known to clients once its mail is in the `mailbox` of
`MailQueue`. Sessions are those of `RefreshRotation` and have no part here. Of the
audit log there is the wait: the event of an admin operation has no other effect.

No module registers `VerificationController`, so the application as it is assembled
does not serve its endpoints; the model includes them.

### `MailQueue`

| Code | Actions |
|---|---|
| `MailService.enqueue` | `Enqueue`, part of `FinishIssue`; `Push` (Redis executes the `LPUSH`, or refuses it) and `Reply` |
| the client of `redis.provider.ts`, which is ioredis with its defaults | `Resend` (the connection breaks, and pushes without a reply go over the next one), `GiveUp` (no connection comes about, and they fail) |
| `startMailWorker` | `Pop` (the list forgets the mail; the worker may not get it), `HandOver`, `WorkerStops` |
| `SmtpMailProvider.send` | `Sent`: without Redis, in any order |

Whether there is a Redis client is chosen at the start (`redis`) and never changes.
What the worker hands over is in `mailbox`; the code only logs it there, and says that
production hands it to a provider. What Redis has received over a connection that broke
it executes before it sees the next one; `again` names the mails whose push was executed
and then sent again, and `MaxResends` bounds how often that happens.

### `RateLimiter`

A request slot holds one run of the middleware: `count` (waiting for the transaction
of `key`) and `refuse` (over the limit, waiting for `ZRANGE`). `Arrive` computes the
key and reads the clock, `Admit` and `Refuse` are the transaction and what follows it,
`Answer` is the 429 (or, when `ZRANGE` fails, the handler: for the limiter it makes no
difference), `RedisFails` the `catch` around it all. A sorted set is the set of its
members, a member is key and time; in memory a list has an element per request. `Ttl`
is the whole number of seconds, `deadline` when Redis drops the key.

`MaxDelay` bounds the time from reading the clock to the transaction, and so how
far the transactions can overtake each other; the clocks of processes differ
in the same way. Refused requests stay recorded, as in the code.

## 3. Properties and runs

Runs on `RefreshRotation` (`MCRefreshRotation`), with three tokens, so that a
token can be exchanged and its successor exchanged again, and two overlapping
requests, which is what it takes for one to change what the other has read; two
session ids, so that a login can happen beside a refresh. `rotation_postgres` has
two users, so that a session can be named that belongs to another user.

| Run | Instance | Checks |
|---|---|---|
| `rotation_memory` | memory, two keys | `TypeOK`, `IInv`, `SuccessorReplacesPredecessor`, `LogoutIsFinal`, `DeliveredCurrentTokenIsStored`, `AccusationIsFounded`, `ImplementsContract` |
| `rotation_postgres` | two users; refused, lost reply, audit refused, restart | `IInv`, `SuccessorReplacesPredecessor`, `DeliveredCurrentTokenIsStored`, `RevokeAllIsComplete`, `AccusationIsFounded`, `SessionsStayWithTheirUser`, `ImplementsContract` |
| `rotation_redis` | refused, lost reply, pipeline errors, restart, expiry | `IInv`, `LogoutIsFinal`, `DeliveredCurrentTokenIsStored`, `RevokeAllIsComplete`, `ImplementsContract` |
| `reuse_redis` | one session, no failures, expiry, `FairSpec` | `ReuseIsAudited`, `OnlyReplacedTokensAreAccused`, `ExchangeIsDelivered`, `DetectedReuseIsPunished` |
| `accounts` | one account, two requests, two tokens of two purposes, threshold 2, at most 2 wrong logins, one repeated push, with and without Redis for mails | `TypeOK`, `FailuresAreCounted`, `LockMatchesCounter`, `TokenUsedOnce`, `VerifiedByMail`, `AskingEndsEarlier`, `TokenWorksUntilReplaced`, `MailsKeepTheirOrder`, `KeepsPromise` |
| `limiter` | an address (limit 2) and an account (limit 1), two requests at a time, four in all; Redis with failures, and memory | `TypeOK`, `SpanIsBounded`, `RefusalIsFounded` |

What they show:

- `SuccessorReplacesPredecessor`: once a client holds the successor of a token,
  the token store does not accept the predecessor, although two handlers may hold
  the predecessor and both write to the store.
- `LogoutIsFinal`: no refresh that was in flight puts a logged-out token back, nor one
  that a restart took from the store.
- `DeliveredCurrentTokenIsStored`: the session repository and the token store, which
  no transaction ties together, agree on what a client can use.
- `RevokeAllIsComplete`: when the revocation of everything returns, no session the
  user could name at its start is live, even on Redis where the set of
  sessions is read first and written to later.
- `AccusationIsFounded`, `OnlyReplacedTokensAreAccused`: a reuse verdict is only
  reached on a token that was exchanged in that very session; without lost
  replies, only when the successor was delivered or is about to be. On Postgres the
  verdict uses a second query. The early check in memory is not what they are about: it
  revokes, and its exception is caught.
- `SessionsStayWithTheirUser`: a session exchanges tokens of its own user only.
  `SessionsService.rotate` is told no user and compares hashes alone, so a client may
  name whatever session it likes.
- `ReuseIsAudited`: when a session was revoked for reuse, the event of its user is in
  the audit log, or a handler of that user is about to write it, however often the
  reason was overwritten since. The log is kept as the set of users with such an event,
  so an event of an earlier reuse by the same user counts.
- `ImplementsContract`: every backend refines `SessionContract`.
- `ExchangeIsDelivered`, `DetectedReuseIsPunished`: an exchange reaches its client,
  and a detected reuse ends with the session revoked.
- `FailuresAreCounted`: concurrent failed logins each count, and the threshold
  locks. `LockMatchesCounter` is the part of it that survives password resets: a reset
  may restore an older counter and lock, but always of one moment.
- `TokenUsedOnce`: a verification or reset token works once.
- `AskingEndsEarlier`: a request for a token ends, for good, every token of the user for
  that purpose that was stored before it came to the deletion.
- `TokenWorksUntilReplaced` is the converse: a token works until it is used, expires, or
  another is asked for, whatever happened to the tokens of the other purpose and
  to the mails.
- `KeepsPromise`: the service refines `VerificationContract`. Asking withdraws the offers
  before it and no others, accepting closes the offer accepted, and nothing but these and
  the end of its time changes an offer, whatever becomes of mails, accounts and the
  requests around it. The contract has two steps for an ask, as the code has: two asks
  that overlap may each miss the token of the other. That only the latest token is usable
  (`OnlyLatestIsUsable`) is not a promise the code keeps; see below.
- `VerifiedByMail`: an address counts as verified only after a mail to verify that
  account was answered. A reset saves a whole account from a stale copy, and one
  store holds the tokens of both purposes.
- `MailsKeepTheirOrder`: what was handed over, what the worker holds and what waits in
  the list are in the order in which the tokens were stored, each once, but for mails
  whose push was repeated over another connection. So the mail a user got last has the
  token that works, unless a later mail is still under way or lost.
- `SpanIsBounded`: in a stretch as long as the window less the longest delay of a
  transaction, which ends with a request found within the limit, there are no more such
  requests than the limit. In memory there is no delay, and the stretch is the window. In
  Redis requests of one millisecond count once (`limiter_redis`), and the stretch cannot
  be the window (`WindowIsBounded`, below): a transaction removes what is older than the
  window by its own time, and one from before it that executes later would still have
  counted that. A request that passes because Redis failed is not a request found within
  the limit.
- `RefusalIsFounded`: a refused request has more requests than the limit recorded in the
  window that ends with it; in Redis requests with later times count as well, when their
  transactions overtook it, up to `MaxDelay` after its own time.

`IInv` was checked before it was proved: it is the inductive invariant of the proofs.

Runs whose property the code does not have. Each is a statement of the
repository's own documents or messages, quoted in `PROJECT.json`:

| Run | Property | What happens |
|---|---|---|
| `replay_redis` | `ReplayRevokesSession` | the token store refuses a replayed token before `SessionsService.rotate` can recognise it; nothing is revoked |
| `logout_all_memory` | `RevokedSessionBuysNothing` | after logout-all the refresh token still buys a successor, if the request names no session |
| `key_rotation_memory` | `CurrentTokenIsAccepted` | after another key comes first, the current token of a live session is refused |
| `signup_race` | `EmailsAreUnique` | two sign-ups for one address overlap in bcrypt and both succeed |
| `deactivation_undone` | `DeactivationSticks` | a password reset saves the account it read before a deactivation |
| `limiter_redis` | `LimitHolds` | without failures or delays, requests of one key in one millisecond are one member of the sorted set, and more than the limit pass |

Two more are stated in the modules, and TLC finds them violated when they
are added to the `INVARIANTS` of a run:

- `OnlyLatestIsUsable`, in `accounts`: `verification.service.ts:27` says "delete any
  previous tokens for this user/type so resend invalidates old tokens". Two requests for a
  reset link that are resumed together both delete (`verification.service.ts:29`) before
  either stores (`:37`), and both tokens work.
- `WindowIsBounded`, in `limiter`: the time is read (`rate-limit.util.ts:14`) before the
  transaction is sent. Where a request is late and the one that overtakes it is from the
  next window, what the second removed is missing in the count of the first,
  and one window holds more admitted requests than the limit.

Other disagreements met while modelling, which no run records: the early reuse check
in memory sees a replay after the first rotation only, since `rotate` stores no new
jti, and writes no audit event (`auth.service.ts:131-172`); its exception is caught by
the `try` around it; two overlapping refreshes of one token that name no session both
get a successor (`auth.service.ts:217-222`); `revokeAllForUser` on Redis ignores the results of its pipeline
(`redis.sessions.repository.ts:168`); `revokeAllSessions` after a password reset is
a no-op (`users.service.ts:91`), although `verification.controller.ts:86` says that the reset revokes all sessions;
a reset uses up its token before the password is hashed and
saved (`verification.controller.ts:85`), and a failure in between takes the token with it;
nobody asks at login whether an account is active; with a Redis client `MAIL_DIRECT` is
ignored (`mail.service.ts:19`), while `changelog.md:124` offers it for immediate sends; no
module starts the mail worker; `/auth/reset-password` is among the paths of the rate
limiter (`rate-limit.middleware.ts:26`) and not among the routes it is applied to
(`auth.module.ts:117`); its `Retry-After` is when the oldest request leaves the window, and
as refused requests count too, a client that comes back then may be refused again; its
log message says "falling back" where the request is let through
(`rate-limit.middleware.ts:105`). The migrations run in the order of their names, in which
`20260124_99_add_previous_refresh_token_jti.sql` creates an index on `sessions` before
`20260124_add_sessions_and_verification_tokens.sql` creates the table, so that on an empty
database the run stops there; and no migration adds the column
`previous_refresh_token_hash` the factory probes for, so Postgres is not chosen on a
migrated database.

### Bounds

The sets in the `.cfg` files bound tokens, sessions and requests; a request slot is
reused, so the number of requests is bounded by the tokens they consume. Symmetry is
used in runs without liveness properties; the sets of model values are only compared
for equality.

In `UserAccounts`, `MaxUsers` bounds accounts and `MaxWrong` failed logins. In `accounts`
there is one account, as nothing there relates two; two failures, which reach the threshold
while they overlap; two tokens, so that one is superseded by another while its mail is on
its way, or both are asked for at once; and one repeated push. `LoginsOrMails` keeps the
two halves apart: a behaviour has wrong passwords and one token, or any tokens and
mails. What both of them touch is an account that a reset saves, which one token does.

In `RateLimiter`, `MaxTime` bounds the clock and `MaxArrivals` the requests. In `limiter`
windows last 4 ticks and `Second` is 3, so that the time to live of a key (6) is not
the window, as it need not be in the code; 5 ticks are enough for a request to leave
its window and one to be admitted for it, and `MaxDelay` is 2, so that two
transactions can overtake each other at either edge. Four requests are
twice the larger limit. `limiter_redis` has neither failures nor delays.

### Fairness

`FairSpec` asks for weak fairness of `Handle(r)` alone: the event loop resumes a
handler whose await has settled, and a driver answers or throws. Nothing is asked of
clients (`Arrive`), operators, or the clock.

## 4. Proofs

All proofs are for constants of any size: sets of users, tokens, sessions, requests,
keys, addresses and accounts, any backend, any set of faults (but for the two theorems
that name theirs), any limits and windows. They rest on the named assumptions of the
modules: the backend is one of three, the faults are among the five kinds, bounds and
durations are natural numbers, and the null values are not members of the sets they
stand beside. No theorem assumes a bound to be small.

### `RefreshRotation`

`IInv` has three layers, each inductive only beside the ones before it.

- `Typed`. `TypeOK` is not inductive: that a handler's `user` is a user in the phases
  that use it follows from the phase (`PhaseOK`), and that a refresh gets a user from
  `owner` follows from delivered tokens being signed (`SignedForUser`). `NextTyped` has
  a step per action. Theorem `TypeCorrect`.
- `TokensPlaced`. A token a handler has signed is its own (`HeldIsPrivate`) and not in the
  store until it is delivered (`HeldInStore`); a refresh works on delivered tokens
  (`RefreshesDelivered`); exchanges start from delivered tokens and end in distinct
  ones (`ExchangesDelivered`); and a handler about to store a successor has removed
  the predecessor (`HeldInLineage`). So only tokens no client holds enter the store, and
  a token that left it for good never returns: theorems `SuccessorReplaces` and
  `LogoutIsFinalAlways`. `NeutralStep` covers the actions that place no token; each of
  the others has a lemma.
- `SessionsAgree` and `IndexAgrees`. The current token of a session belongs to its user, is
  no other session's, and was not exchanged (`CurrentIsCurrent`); its previous hash is of
  a token exchanged in it (`PreviousWasExchanged`); what a client can name is in the
  index (`NamedIsIndexed`); what a revocation must reach is among what it reads
  (`RevocationReaches`). The proof does not go through the actions once per conjunct:
  `SlotMoves` says what a step may do to any handler, in nine kinds, and `SessionMoves` what
  it may do to the sessions, in three (they keep all but their revocation or end by
  their TTL, a login writes one, an exchange swaps one). What is left is a case
  for each kind. Theorem `RotationInvariant`.

From `IInv`:

- `AccusationFounded`: the verdict compares with the previous hash, which
  `PreviousWasExchanged` turns into an exchange; later steps keep whom it is about.
- `DeliveredCurrentStored`: a token leaves the token store by an exchange in a session,
  and then is not current (`CurrentIsCurrent`), or by one of the three ways the
  property names; and a token is delivered when it is stored.
- `RevokeAllComplete`: `RevocationReaches` says that nothing is missed, `DeadStaysDead`
  that no refresh in flight revives what was revoked.
- `RepositoriesImplementContract`: `Spec => ImplementsContract`. A login that writes its
  session maps to `Open`, a swap to `Rotate`, the TTL to `Expire`, and every other
  step to `Revoke` of the sessions it ends, which may be none.
- `LoginsNeverFork`: `Contract!NoFork` for the repositories themselves.
- `SessionsStay`: a refresh names a session that some client was given
  (`RefreshesNamed`), and so was every session with an exchange (`EdgesNamed`). Such a
  session was written before, so no login takes over its id for another user
  (`UserKeepsSession`); and an exchange is of the current token, which
  `CurrentIsCurrent` gives to the user of the session.
- `ReplacedTokensAccused`, where replies are not lost and the process does not restart: an
  exchange is delivered or its handler still holds it (`ExchangeIsHeld`).
- `ReuseAudited`, beside a database, without lost replies, refused audit inserts and
  restarts: those three cut a handler off between the revocation and the event, and the
  early check in memory writes no event. On Redis the sessions to punish are read in one
  step and marked in another, so the proof needs the converse of `NamedIsIndexed`: a
  session is listed for nobody but its user (`IndexIsOwn`), and what a revocation has
  read is still listed (`TargetsListed`). `ReuseMarks` says that a step that marks a
  session leaves a handler of its user that will write the event, `AuditStays` that such
  a handler goes only by writing it.

### The contracts

`ContractForbidsForks` and `ContractFreezesRevoked`: under the contract a token is exchanged
at most once, and a revoked session keeps its token while its record exists.
`PromiseIsSound`: under the contract of verification tokens two open tokens of a user for one
purpose come of requests that overlapped, neither of which deleted after the other had
stored (`WithdrawnStaysOut`), and a token is accepted at most once and not open afterwards
(`AcceptedOnce`). With `PromiseIsKept` this holds of the service.

### `UserAccounts` and `MailQueue`

- `TokensUsedOnce`, `AskingEnds`, `TokenWorks` follow from the ledger of tokens
  (`TokenInv`): a token after whose storage another request deleted has no record, any
  other has one, and it is marked used exactly when the token was accepted.
- `LocksMatch` and `FailuresCounted` follow from `AccountInv`: each account, and each copy that
  a password reset holds over bcrypt, has a lock exactly if its counter is at the
  threshold; and the counter of an account that was never reset is the number of its
  failures, where a reset in flight has already used its token.
- `PromiseIsKept`: `Spec => KeepsPromise`. Deleting records maps to `Withdraw`, storing one to
  `Grant`, using it to `Accept`, its date to `Lapse`, and every other step is a stutter
  (`PromiseSteps`).
- `AddressesAreVerified`: `VerifiedInv` says of accounts, and of the copies that resets hold,
  that they are verified only after a mail was answered. `Moves` lists what a step may do
  to the accounts: an account is appended, or one is changed in a field, or saved from
  a copy. Each of the theorems about accounts below is a case for each kind.
- `AccountTypes`: that the counters stay within their bounds is an invariant of its own
  (`BoundsInv`). No counter, lock, or copy of one exceeds the number of wrong passwords sent
  but those still being compared; the cardinality of these changes by one when a
  comparison starts or ends.
- `MailsInOrder`: what was handed over comes before what the worker holds, and that before
  what waits, and that before what Redis has yet to execute, in the order of issues and but
  for repeated mails; a mail is enqueued by the very step that stores its token.

### `RateLimiter`

`SpanBounded` and `RefusalFounded` follow from `LimiterInv`: what is under a key was asked
for and is dated no later than the clock, a key outlives the window of what is under
it (`TtlCovers`: rounding up to seconds never cuts a window), a transaction on its way
is at most `MaxDelay` late, and an admitted request stays under its key until its
window is over. `LimiterTypes` is its type correctness.

Whole windows need more, `InTime`: when a transaction executes, no request with a later time
is recorded before it, and its key has not run out since it read its time. Then what was granted
stays under its key until a request is recorded that was made when its window was over
(`Kept`), and the transaction finds all that was made less than a window before
it (`CountedInTime`): `WindowBoundedInTime`.

### For what reason a property fails

A property the code does not have mostly fails for one cause. A theorem says so: it
assumes of the behaviour that the cause does not occur, and proves the property.
The assumptions are about what clients and admins send and when, and, for the limiter,
about when transactions reach Redis; none is about what the code does with it: faults,
restarts and every other overlap stay.

| Property | Where | Theorem |
|---|---|---|
| `RevokedSessionBuysNothing` (`logout_all_memory`) | every refresh names its session (`RefreshesNameTheirSession`) | `NamedRefreshesRespectRevocation` |
| `EmailsAreUnique` (`signup_race`) | no two sign-ups for one address hash at the same time (`SignupsApart`) | `ApartSignupsAreUnique` |
| `DeactivationSticks` (`deactivation_undone`) | no admin changes an account whose reset is under way (`ResetsApart`) | `ApartResetsRespectDeactivation` |
| `OnlyLatestIsUsable` | no two requests for one user and purpose are between deletion and storage (`AsksApart`) | `ApartAsksSupersede` |
| `WindowIsBounded` | no transaction is overtaken by a later one, and no key expires while one is on its way (`InTime`; asked of Redis only) | `WindowBoundedInTime` |
| `LimitHolds` (`limiter_redis`) | the same, and no two requests of a key are granted in one millisecond (`GrantsApart`; asked of Redis only): two reasons | `LimitHoldsApartInTime` |

The last follows from the one before: where the times of granted requests differ, their
members do, so that the two cardinalities are the same; for this the granted requests
must be finitely many (`EndedInvariant`).

### Model-checked only

The liveness properties `ExchangeIsDelivered` and `DetectedReuseIsPunished`, as fairness and
`ENABLED` are not within reach of the prover. Everything else the passing runs check is
proved. The properties the code does not have are shown by runs, as section 3 says.

## 5. Plan

What would come next: a theorem of the kind above for `ReplayRevokesSession` (the token
store asked after the session repository); an abstract channel, ordered and lossy, that
`MailQueue` refines; a refresh-token store outside the process, once one is wired, with
its own commands between the steps of a refresh; and a worker of the mail queue that
hands over to a provider, once there is one.

## 6. Not modelled

Migrations are one sequential process over a fixed list of files, with no state but the
schema: reading them is enough, and what it shows is under "Other disagreements". The
choice of the session store is modelled by its outcome (`Backend`). Guards and roles
are pure functions of a request. `postgres.tokens.repository.ts` is constructed by
nobody, and `sliding_window.lua` is loaded by nobody; `TokensService.revokeAll`,
`SessionsService.revoke` and `deleteExpiredVerificationTokens` have no callers.
Configuration parsing, the Vault request, health, error formatting and bootstrap keep no
state of the protocol.
