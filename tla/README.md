# Verification of the Bittensor wallet API

TLA+ models of the wallet API in this repository, the TLC runs that check them on
small instances, and TLAPS proofs of the properties that matter most. Paths below
are relative to the root of the repository.

```
tlc -config MCWalletApi_safety.cfg MCWalletApi    # a run
tlapm WalletApi_proofs.tla                        # a proof
```

`PROJECT.json` lists the components, the runs, the mutants (a plausible bug for
each property, which TLC finds), the lines of source behind each definition, the
findings, the hazards and the theorems.

## 1. Inventory

One Node.js process serves HTTP over one PostgreSQL database. There are three
routes with logic: `POST /wallets`, `GET /wallets/:id/balance`, `GET /health`.

| Component | State | Operations | What makes it correct |
|---|---|---|---|
| Request pipeline: `ExpressServer`, `WalletRouter`, validators, `ClientErrorHandler` | where each request stands, its answer | parse, limit, sanitize, validate header, authenticate, validate, handle, map error | every request is answered once; an answer agrees with the tables |
| Authentication: `ApiKeyMiddleware`, `ApiKeyService`, `ApiKeyRepository` | table `ApiKey`, `req.apiKey` | create, deactivate, find active, compare secret, test scope | no work without an active key, its secret and the scope |
| Wallets: `WalletController`, `WalletService`, `WalletRepository` | table `Wallet` | create, query balance | a success stands for a stored row; a failure leaves none behind |
| Audit log: `AuditLogger`, `AuditService`, `AuditRepository` | table `AuditLog` | one write per authentication, operation and 429 | entries agree with what happened and with the answer, and name the key |
| Rate limiter: `RateLimitMiddleware` over `RateLimiterMemory`, `rateLimits.ts` | a counter per client and limiter, in memory | consume, race with a timer, refuse with Retry-After | bounded admission, bounded and fixed blocks, no request stuck |
| `CryptoService` | the buffers of a call | encrypt, decrypt, verify | a stored wallet opens with its password and no other; nothing but its seed comes out of damaged texts; buffers are cleared |
| `BittensorBalanceService` | none | validate address, health, hash, balance | values in range at every hash, the most negative included |
| Process, container | memory of the above | crash, restart | tables survive, memory does not |
| Input sanitizer: `InputSanitizerMiddleware` | none | rewrite headers, query, body | what the limiter read and what the authentication reads name the same key |
| Health endpoint | none | limit, answer | its limiter is its own |
| API documentation: `docs/` | none | | what it lists is what clients meet |
| Operational logging: Pino, console | none | | |

**How they interact.** The middlewares of a route call each other through
`next()`, in the order of `WalletRouter.ts:24-47`: limiter, sanitizer, header
validator, authentication, body validator, controller. The authentication and the
controllers call `auditLogger` and await it; the limiter calls it without awaiting.
A controller calls `WalletService`, which calls the repositories, `CryptoService`
and `BittensorBalanceService`. A thrown error is logged by the controller, thrown
again and turned into a status by `ClientErrorHandler`. Requests share the three
tables and the limiter's counters, nothing else.

**What is hard.**
- *Interleaving at awaits.* Code between two awaits runs alone; a key can be
  deactivated while its secret is compared, and creations take turns.
- *Partial failure.* A write can be committed and reported as failed; an audit
  entry can be lost while the operation succeeds.
- *Crashes.* Between a commit, its audit entry and the answer.
- *Order.* `req.apiKey` before the first audit entry; entries before answers; the
  limiter before the sanitizer, and both before the authentication.
- *Identity.* Limiter, authentication and audit log each name the client of a request
  from its headers, in their own way. Nothing tells a header that a proxy set from one
  that a client sent.
- *Boundaries.* A 32-bit hash and its absolute value; bcrypt's 72 bytes against the
  64 characters of the validator; texts that decode to fewer bytes than were written.
- *Time.* Fixed windows, blocks, a delayed promise raced against a timer, rounding.

`PROJECT.json` "hazards" lists each at its line, with the properties that cover it.

## 2. Modules

| Module | What it is | Small instance | Theorems |
|---|---|---|---|
| `WalletApi` | both wallet routes over the three tables, await by await | `MCWalletApi` | `WalletApi_proofs`, `WalletAudit_proofs`, `WalletLedger_proofs` |
| `WalletLedger` | what the API promises its clients, without middlewares, awaits or a log | through `WalletApi` | |
| `RateLimiter` | the limiter's counters, the timer, and time | `MCRateLimiter` | `RateLimiter_proofs`, `RateWindow_proofs` |
| `AdmissionLimiter` | what a limiter promises, without clocks | through `RateLimiter` | |
| `LimitedApi` | who a request counts as: limiter, sanitizer, authentication and audit log on the three routes | `MCLimitedApi` | `LimitedApi_proofs` |
| `WalletCrypto` | from a password and a keypair to the columns of a wallet, and back | `MCWalletCrypto` | `WalletCrypto_proofs` |
| `Keystore` | what that promises, without keys, tags, texts or buffers | through `WalletCrypto` | |
| `MockBalance` | the hash of an address and the balance made from it | `MCMockBalance` | `MockBalance_proofs` |

How they compose:
- `WalletApi` refines `WalletLedger` (`Ledger`, `ImplementsLedger`).
- `RateLimiter` refines `AdmissionLimiter` (`Promise`, `ImplementsPromise`), and
  `LimitedApi` is built over an instance of `AdmissionLimiter` (`Limiter`), one counter
  for each client of each named limiter. What `LimitedApi` shows rests on what
  `RateLimiter` is proved to implement.
- `WalletCrypto` refines `Keystore` (`Store`, `ImplementsKeystore`).
- In `WalletApi` the verdict of the limiter is a choice, which includes every verdict
  `RateLimiter` gives; `LimitedApi` stops where an authorised request goes on as in
  `WalletApi`.
- `WalletCrypto` and `MockBalance` open two steps that are single actions in
  `WalletApi` (`EncryptKey` and `InsertWallet`; `FetchBalance`).

### WalletApi

| Variable | In the code |
|---|---|
| `apiKeys`, `wallets`, `auditLog` | the tables of `prisma/schema.prisma` |
| `pc` | the await at which a request stands |
| `input` | route, `x-api-key` header, `:id` |
| `authKey` | `req.apiKey` |
| `err`, `status` | the error being rethrown, the status of the response |
| `logging` | 429 entries whose write is pending |
| `crashes` | bounds `Crash` |
| `lostRows`, `unsure`, `revoked` | observers: entries whose write failed, insertions committed but reported as failed, requests that came with a deactivated key. No step reads them |

An action is what one request does from one await to the next.

| Actions | Code |
|---|---|
| `Arrive`, `ParseBody` | `ExpressServer.ts`; malformed JSON has no case in `ClientErrorHandler`: 500 |
| `RateLimit`, `LogRateLimitExceeded` | `RateLimitMiddleware.ts:30-86`, the unawaited entry of a 429 |
| `ValidateHeader`, `ValidateRequest` | the validators; an absent header is 400, an empty one goes on to the 401 |
| `LookupApiKey`, `CompareSecret` | `ApiKeyService.validateApiKey`; the row read is the row used |
| `LogAuthenticationFailure`, `LogScopeFailure`, `LogApiKeyUsage` | `ApiKeyMiddleware.auth` |
| `EncryptKey`, `InsertWallet` | `WalletService.createWallet` |
| `FindWallet`, `CheckNetwork`, `FetchBalance` | `WalletService.getWalletBalance` |
| `LogOperation`, `LogFailure`, `Respond` | the controllers and `ClientErrorHandler` |
| `CreateApiKey`, `DeactivateApiKey` | `ApiKeyService`, `ApiKeyRepository`, by an operator |
| `Crash` | the process dies and `docker-compose.yml:25` restarts it |

Abstracted: wording, names, key material, the balance. A wallet is named by the
request that made it, since its uuid is fresh. A header is absent, unusable, or
names a key with a right or a wrong secret. `WALLET_TRANSFER` is left out: no
route asks for it. A client can name the wallet ids it was given by a 201, or one
that does not exist.

### WalletLedger

Four variables: the requests that have a wallet (`stored`), those of them whose
insertion the database reported as failed (`doubted`), what a request asks for
(`asked`), and what its client was told (`outcome`). A client is told `created` only
of a stored and undoubted wallet, `refused` only without one or with a doubted one,
`missing` only of an id no one was told of; a crash loses the answers of any requests.
In the refinement `Arrive` with an id is `Ask`, the commit in `InsertWallet` is
`Store`, an early answer is `Refused`, `Respond` is the telling, `Crash` is `Lose`;
every other step is a stutter.

### RateLimiter

A counter belongs to a client of a named limiter, so it carries that limiter's
configuration (`Config`). `Consume` is everything the library and the middleware do
when a request comes: add a point to the live window or open a new one, refuse and
block at the first point too many, delay by `execEvenly`. `Resolve` and
`TimeoutFires` are the two ends of `Promise.race`; `Restart` clears the memory. The
library's part (`Live`, `Incremented`, `Blocked`, `Delay`) is external, modelled
from how the middleware uses it. A tick is a third of a second in the runs, so that
rounding to seconds shows. A timer never fires early, but up to `Hold` late: another
request may hold the event loop that long (`pbkdf2Sync`, `CryptoService.ts:39`). When
both timers of a race are then due, either may run first, save that of two equal timers
the one set first does.

### LimitedApi

| Variable | In the code |
|---|---|
| `granted`, `verdict` | the counters of the three named limiters, through `AdmissionLimiter` |
| `input` | route, `x-api-key`, `cf-connecting-ip`, `x-real-ip`, `x-forwarded-for`, socket address; its field `origin`, the address the request set out from, is for the properties: the server cannot see it and no step reads it |
| `header` | `x-api-key` as the next middleware reads it, after the sanitizer |
| `authKey`, `status`, `auditLog` | `req.apiKey.id`, the answer, the entries with their key id and address |
| `counter`, `served`, `blamed` | observers: the counter a request used, whom it admitted since it was renewed, and whom a refusal is due to |

`Counter` is `createUserLimiter` for balance queries and `getClientKey` for the rest
(`RateLimitMiddleware.ts:107-149`); `AuditAddress` and `AuditRow` are
`extractIpAddress` and `extractApiKeyId` of `AuditService.ts`. `Or` is JavaScript's
`||`, with the empty string and undefined; the first element of `x-forwarded-for` may
carry a blank, which one side trims and the other does not. `RateLimit` takes a point
or refuses and logs, `ValidateHeader` is the sanitizer and the validator after it,
`Authenticate` has the four ends of `ApiKeyMiddleware.auth`, `GetHealth` is the health
route, `Expire` and `Restart` renew counters. The sanitizer is any function of texts
(`Sanitized`), because the library that does the rewriting is not in the repository.

**Who set the headers.** `getClientKey` believes `cf-connecting-ip`, then `x-real-ip`,
then the first element of `x-forwarded-for`, and only then the socket. No trusted proxy
is configured, and no code checks who set a header. A request whose headers name another
address than its own is charged to that address, and the points it uses there are gone
for whoever really has it. So what the server promises about addresses it promises only
under an assumption on the deployment: that it can be reached through proxies alone that
set, or remove, all three headers, or by clients that send none of them.
`TrueHeaders` states it for one request: every address in its headers is its origin,
and if there is none the socket is. `RefusalIsEarned` and `OneBudgetPerOrigin` have it
as a premise, and say nothing of requests that do not meet it.

### WalletCrypto

| Variable | In the code |
|---|---|
| `pc`, `password`, `keypair` | a call of `WalletService.createWallet` and its locals |
| `sealed` | what `encryptData` makes: IV, ciphertext, tag and salt |
| `dirty` | its buffers that hold a secret |
| `rows` | table `Wallet` |
| `opened` | one call of `decryptData`, with what it was given and its end; its field `whole`, an observer, says that the texts were one row's, damaged at most by characters after them |

`GenerateKeypair`, `Encrypt`, `HashReturns` or `HashThrows`, and `Insert` are the
stretches of `createWallet` between awaits. `Decrypt` takes the four texts of any rows,
damaged in the ways `Buffer.from(text, 'hex')` and `setAuthTag` tell apart (`Forms`):
characters that are no byte at the end, a text that breaks off, another byte. The
primitives are ideal: a tag is right for one key, IV and ciphertext; bcrypt compares
the first 72 bytes.

### Keystore

Two variables: the seeds that are locked away, each with its password (`safes`), and
the one attempt to open one (`answer`). A seed is locked once, under a password that
was accepted. What comes back whole opens to its password, always; what comes back
damaged or mixed may be refused; another password opens nothing. In the refinement
`Insert` is `Lock`, `Decrypt` is `Open` of the safe that the ciphertext came from, and
every other step is a stutter.

### MockBalance

`Mix` is one iteration of the loop of `simpleHash`, with the conversions to 32 bits
that `<<` and `&` make and the ones `-` and `+` do not; `Answer` is
`getMockBalanceForAddress`. The width is a constant (`Half`).

## 3. Properties and runs

`wallet_api_safety`: two requests, two keys that an operator creates and
deactivates at any time, one crash (3.6 million states up to the order of requests).
- `SuccessIsDurable`: a 201, or an entry of a created wallet, stands for a row.
- `NoOrphanWithoutFault`: a client that is refused a wallet has none, unless the
  database reported a committed insertion as failed. So the loss of an audit entry
  never fails a creation: `docs/IMPROVEMENTS.md:56` says it can, which
  `AuditLogger.ts:98` prevents.
- `OnlyAuthorisedWork`: the secret, the scope, and a key active on arrival.
- `AuditBeforeAnswer`, `AuditAgreesWithAnswer`, `AttributedToKey`: the log is
  written before the answer, never contradicts it, and names the key. No two entries of
  an event of a request disagree; an entry of an operation tells success just if the
  answer was 200 or 201, an entry of an accepted key just if it was none of 401, 403 and
  429, and an entry of an exceeded limit goes with a 429.
- `CreatedWalletIsUsable`: an id learnt from a 201 never gives a 404, and its
  address is accepted.
- `UndocumentedAnswers`: the statuses a client can meet and the OpenAPI paths do not
  list are a 403 for want of the scope, and on a balance query a 400 for a missing
  header, an unknown id or a database error. Nothing else.

`wallet_api_liveness`: two requests, one key, one crash, no symmetry (480,000 states).
`EveryRequestSettles` and `RejectionIsLogged` under fairness, and `ImplementsLedger`.

`rate_limiter_wallet`: wallet creation in miniature, one counter, five requests,
two points per window of 6 ticks, timer 1 tick, event loop held up to 1 tick, 11 ticks
of time (667,000 states up to the order of requests).
- `TwoWindowBound`: at most 2 * points - 1 in any stretch of one duration. It
  assumes a block no shorter than the window, true of every entry of
  `rateLimits.ts`; a shorter block would replace the rest of the window and reopen it early.
- `LockoutIsBounded`, `BlockIsNotExtended`: blocks end, at a fixed time.
- `PacingLosesTheRace`: where `duration / points` exceeds the timer (720 s and 6 s
  against 5 s for the two limiters with `execEvenly`), pacing never takes effect.
  Every request but the first of a window is let through by the timer, without
  headers. It explains the request that "hangs" in the comment at
  `RateLimitMiddleware.ts:40`. Only an event loop held for as long as the difference
  could change that.
- `RetryAfterIsNearlyEnough`: a refused client that waits half a second longer than
  Retry-After says is refused again only if the counter was used in the meantime. The
  run `retry_after` below shows that without the half second this fails.
- `ImplementsPromise`: the refinement of `AdmissionLimiter`.

`rate_limiter_others`: a limiter without pacing and with the default block, and one
whose pacing may win the race; three requests, 10 ticks (516,000 states).
`TwoWindowBound` with the block that falls back to the window, `ImplementsPromise`,
`EveryRequestIsDecided`, and
- `RefusalIsRecent`: whoever is refused, all points of the counter were taken in the
  stretch that one window and one block span, up to the refusal. So no client pays for
  what it did long ago, whatever it sends while it is blocked. The stretch is exact:
  one tick shorter and TLC finds a refusal outside it.

`limited_api`: three requests, one point per limiter (1 million states up to the order
of requests).
- `RefusalIsEarned`: whoever is refused, its limiter's points were used by requests to
  the same route: with the same key header where that is what counts, else from the
  same origin, for requests whose headers are true (`TrueHeaders`). So clients behind
  one proxy do not pay for each other. Where headers are not true the code gives no such
  guarantee.
- `OneBudgetPerOrigin`: under the same assumption an address has one budget on each
  route, directly or by whichever proxy, with whichever keys ("5 requests per hour per
  IP address", `src/docs/paths/wallets.ts:21`, up to the windows of `TwoWindowBound`).
  A blank after the first element of `x-forwarded-for`, which `getClientKey` does not
  trim, gives it a second one, so requests with a blank are left out.
- `OneBudgetPerKey`: a key has one budget of balance queries, from whatever addresses
  it is used, for each text that the sanitizer turns into the key. The counter is named
  by the raw header, since `createUserLimiter` runs before the authentication
  (`RateLimitMiddleware.ts:136`). That is not the one budget per user that
  `WalletRouter.ts:39` speaks of: see `per_user` below.
- `EntryNamesTheCounter`: the address in the entry of a 429 is the one whose counter
  was used up, where a proxy forwards plainly (`PlainForwarding`). Limiter and log read
  the headers in different orders, so elsewhere it may differ.
- `EntriesOfAKey`: searched by a key's id, the log gives that key's accepted uses.
  Refusals of a valid key carry the raw header, also where only the scope was missing.

`wallet_crypto`: three creations that interleave, one decryption (2,704 states up to
the order of creations). The passwords are of 7, 8, 64 and 80 characters, with pairs
that agree in their first 72 bytes, and a list that passes the validator.
- `OnlyTheSeed`: whatever texts it is given, of whatever rows, `decryptData` returns the
  seed behind the ciphertext, to its own password, or refuses.
- `WalletHoldsItsKey`: a row opens, with its password, to the seed of its own address.
- `ChecksAgree`: `verifyPassword` and `decryptData` accept the same passwords, though
  bcrypt looks at 72 bytes only: the validator's 64 characters see to it.
- `SecretsCleared`: a secret outlives `bcrypt.hash` in a buffer only if it threw, which
  takes a password that is no string (`CryptoService.ts:55`). In that case the code does
  not do what the comment at `CryptoService.ts:34` says, "Clears sensitive buffers after
  use"; the property permits the case, and excludes every other.
- `ImplementsKeystore`: the refinement of `Keystore`. It adds to `OnlyTheSeed` that
  nothing whole is ever refused to its password.

`mock_balance`: all addresses of up to five of the characters `5aez`, at 16 bits (9,102
states). `BalanceInRange`, and `HashIsPolynomial`: the steps that wrap lose nothing.

The other runs each show a statement of the documentation that the code does not keep:

| Run | The documentation | The code |
|---|---|---|
| `network_503` | `src/docs/paths/wallets.ts:111`: 503 | 500, no case in `ClientErrorHandler` |
| `operations_logged` | `src/docs/paths/wallets.ts:13`: all operations are logged | a failed write is swallowed |
| `per_user` | `src/routes/WalletRouter.ts:39`: 100 per minute per user (`README.md:20` too) | one budget for each text that is sanitized to the key |
| `points_per_duration` | `src/docs/paths/wallets.ts:21`: 5 per hour | fixed windows: up to 9 in an hour |
| `retry_after` | `src/docs/swagger.config.ts:136`: seconds to wait | rounded, may be half a second short (and no more: `RetryAfterSuffices`) |

`per_user` depends on the sanitizer turning two texts into one: what it rewrites is up to
the library (`perfect-express-sanitizer`), and one such pair of texts is enough. The
repository's documents disagree with the code in one more place, which needs no model: a
request without `x-api-key` is answered 400 by the header validator, not the 401 of
`src/docs/swagger.config.ts:57`; `UndocumentedAnswers` lists it for balance queries.

**Why the bounds are enough.** Two requests are what the properties of `WalletApi`
relate: each speaks of one request, or of a query and the creation it refers to; two
keys separate the key presented from any other; one crash hits every pair of awaits. In
`RateLimiter` five requests fill a window, overflow it, and fill the next; 11 ticks hold
a window, and the block or the window after it. In `LimitedApi` one point makes the
second request of a counter the refused one, and the third may be anyone else; the
inputs name a key by itself, by a text that sanitizes to it, by its bare id, and
addresses by every header; one origin comes both directly and through the proxy, and
two origins come through the same one, so a counter by socket would join what is apart
and part what is one. In `WalletCrypto` two texts of four may be foreign or damaged
(`MaxAltered`), which includes a ciphertext with its tag, and a tag with its IV, of
another row. At 16 bits five characters wrap several times, and `5aeza` hashes to
exactly -2^15, the number whose absolute value does not fit. The theorems of section 4
hold without any of these bounds.

**Fairness.** `WalletApi`: each request's next step, and each pending entry, weakly
fair, because Node.js runs every callback that is due and each awaited call settles
(a query fails or returns, bcrypt ends). Clients, operators and crashes owe nothing.
`RateLimiter`: time passes and timers fire; no client has to come. Deadlock is
checked in every run: `Idle` and `TheEnd` stutter only where all is done, so a request
that could take no step would show.

## 4. Proofs

All theorems hold for every value of the constants under the named assumptions:
`NoKey` and `NoWallet` are no key and no request, scope lists are lists of scopes,
`MaxCrashes` is a natural number; a configuration has positive points and duration;
the texts of keys differ from each other and from ids; passwords that bcrypt cannot
tell apart have at least 72 bytes; an address with a blank is no address. Every
invariant and every action property that the passing runs check is proved, and so are
the three refinements.

**WalletApi_proofs.** `SuccessIsDurable` is not inductive: it speaks of answers, and
says nothing of a request on its way to one. `IInv` adds what holds on the way.
- `AuthInv`: a request past the comparison presented the secret of a known key that
  was active when it was read, hence active on arrival, and past the scope test has
  the scope (the scopes of a key never change). Everything stored or logged for an
  operation comes from such a request.
- `WalletInv`: a creation standing after the insertion has its row; one that has
  not reached it, or whose insertion failed cleanly, has none; the one with a row
  and an error is in `unsure`; an entry of success has its row.

`IInv` is preserved action by action (`TypeStep`, `AuthStep`, `WalletStep`). It gives
`TypeCorrect`, `DurableSuccess`, `NoOrphans` and `AuthorisedWork`.

**WalletAudit_proofs.** `AuditInv` says what a request owes the log at each place it may
stand at (`DebtInv`), what each entry says of its request (`Truthful`), and that only a
request whose key was not accepted is answered 401, 403 or 429 (`RefusalInv`). With
`IInv` it is inductive, and gives `AuditFirst`, `AuditAgrees` and `Attribution`.

**WalletLedger_proofs.** `QueryInv` adds what is known of queries: an id a client has
asked for is stored, a 404 and a `NotFoundError` belong to an id that no one was told
of, a 200 to a stored wallet, a request in `unsure` is on its way to an error. It gives
`UsableWallets`. `LedgerImplementation` then maps each step: a step of the middlewares
is a stutter or `Refused` (`ServeStep`), the insertion is `Store` (`InsertStep`), the
answer is one of the four tellings (`RespondStep`), a crash is `Lose`. `CauseInv`, on
top of it, follows why a status was chosen, and gives `AnswersAreDocumented`.

**RateLimiter_proofs.** Lemmas bound the arithmetic (`CeilDivNat`, `DelayIsSpaced`: a
delay is at least the even share) and describe `Consume` once (`ConsumeFacts`). `IInv`
is `TypeOK`, `LockoutIsBounded` and `WaitingInv` (the timer of a waiting request is
past by no more than `Hold`, and its promise is an even share away). It gives `TypeCorrect`,
`BoundedLockout`, `FixedBlock` and `PacingNeverWins`. `Implementation` maps every step
to a step or a stutter of `AdmissionLimiter`: `Consume` to `Admit` or `Refuse`, `Tick` and
`Restart` to `Renew` of the counters whose window ends.

**RateWindow_proofs.** `TwoWindowBound` speaks of every stretch of the past, and is
inductive only with counts of the requests of late (`WindowInv`): fewer than the points,
and fewer than were counted, came after the first request of the current window; fewer
than the points and the count together came since the window before could have begun.
A request that opens a window meets the first count, one that joins it the second. The
counter keeps its record after it expired, so the first count still holds then; a
restart leaves nothing to count. Only requests that have arrived are counted, finitely
many, so `Requests` may be infinite. It gives `WindowBound`. `RetryInv` compares the
end of a counter's block with what each refused client was told: until someone is let
through after it, the counter is still in the block of that refusal, or in none, so no
later refusal can fall after the end. `Rounding` bounds what Retry-After loses. They
give `RetryAfterSuffices`. `RecentInv` knows of each record when its window began: since
then as many were let through as it counts, up to the points, and it ends with that
window or with a block that began in it. As decisions stay (`DecidedStays`), counts of
the past only grow (`CountsGrow`), which gives `RefusalsAreRecent`.

**LimitedApi_proofs.** `CountInv`: a counter has granted exactly as many points as there
are requests it served, and no more than it has. `RequestInv` follows the header from
the client through the sanitizer to the key, `BlameInv` keeps what a refusal was due to,
`LogInv` says of an entry where its request stands. A counter is tied to an origin by
`CounterOfOrigin` alone: true headers lead `getClientKey` to the origin, perhaps with a
blank. It is where the premise `TrueHeaders` is used, and where every order of precedence
among true headers is seen to be right. From it `SameCounterSameSource`: two requests
share a counter only if they share the route, and the key header or the origin. The
theorems are `TypeCorrect`, `RefusalsAreEarned`, `OneBudgetOfOrigin`, `OneBudget`,
`EntriesNameCounters` and `KeyEntries`, for any sanitizer.

**WalletCrypto_proofs.** Lemmas say what `decryptData` can do with texts of wallets
(`OnlyItsPassword`, `OpensWithItsPassword`): damage does not change what a text was
made from, and a tag belongs to one ciphertext, IV and key. `IInv` adds that each call
has its own keypair, password and texts (`CallInv`), and each row those of its call
(`RowInv`). The theorems are `TypeCorrect`, `Confidential`, `Usable`, `Agreement` and
`Clearing`. For the refinement, `DecryptOutcome` shows that each end of `decryptData` is
one that `Keystore` allows for the safe, `LocksOnInsert` that an insertion locks a new
safe under the password of its own call, `SafesStay` that no other step touches one:
`Implementation`.

**MockBalance_proofs.** `WrapType` and `BalanceType` bound the arithmetic for any width;
`TypeCorrect` and `InRange` follow for all addresses, hence at the program's 32 bits.
`HashIsExact` states `HashIsPolynomial`. `MixedIsHorner` says that one iteration wraps
what it would give on the number that was not wrapped. `PolynomialInv` says that some
function satisfies the recursion for the prefix read so far, and that the hash is the
wrapped value of any such; `Mix` extends the function by one character. So the steps of
the loop carry the induction, and none over data is needed.

**Only model-checked.** The liveness properties (`EveryRequestSettles`,
`RejectionIsLogged`, `EveryRequestIsDecided`) take fairness and `ENABLED`, which are
beyond the prover.

## 5. Not modelled, and why

- *Pino and the console* only print. *Swagger* serves documents: the statuses they list
  for the wallet routes are compared with the answers (`UndocumentedAnswers`), and what
  they say of 503, the log, the limits and Retry-After is what the violation runs
  check; schemas and examples say nothing of behaviour.
- *The sanitizer* is a function of the header; what it does to bodies is left out, since
  a wallet's name and a password are opaque here. `detectThreats` has no caller.
- *The libraries* (rate-limiter-flexible, bcrypt, PBKDF2, AES-GCM, Prisma) are modelled
  from how `src/` uses them, and marked external. Passwords with a NUL character, which
  bcrypt libraries treat in their own ways, are excluded.
- `generateSalt`, `generateIV` and `findByPublicAddress` have no caller. The key pair's
  own private key string is not among the buffers `encryptData` clears, nor could it be.
- The user agent and the metadata of an audit entry are data nothing depends on.
- The container's health check asks for `/health`, while the route is `/api/v1/health`
  (`docker-compose.yml:27`, `ExpressServer.ts:52`); no model is needed to see it.

What could still be done: one module in which `WalletApi` runs over `LimitedApi`'s
counters instead of a choice, which today's split makes unnecessary for every property
stated.
