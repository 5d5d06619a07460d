# A model of the IAM gateway

This directory holds TLA+ specifications of the API gateway in `src/`, the TLC
configurations that check them on small instances, and proofs about all the
modelled components. The gateway is a Go process (gin over HTTP in front, gRPC behind) that
authenticates, authorises and rate-limits requests, forwards them to the *auth*
and *user* services, and serves the browser side of the OIDC Authorization Code
flow. It stores nothing except the counters of its rate limiter, so what can go
wrong lies in the order of things: stale clocks under a lock, answers of calls
that are out of date when used, errors that are dropped, pages that come back
after the world has changed.

## Inventory

| Component | Source | State | Operations |
|---|---|---|---|
| In-memory rate limiter | `internal/middleware/ratelimit.go` | table IP -> (count, reset), time of the last sweep, a mutex | construct, limit a request, sweep |
| Redis rate limiter | `internal/middleware/ratelimit_redis.go` | counters in Redis shared by replicas, an in-memory limiter as fallback | choose a limiter, INCR + EXPIRE, limit, fall back |
| Authentication | `internal/middleware/auth.go` | the identity of one request | Require (token or API key), RequirePermission |
| Routes and handlers | `internal/router/router.go`, `m4.go`, `tenant.go`, `oidc.go` | none; one to two calls per request | some fifty routes, error mapping |
| OIDC browser flow | `internal/router/authorize.go` | a signed cookie and hidden form fields, both kept by the browser | authorize, login, TOTP, consent, issue a code, logout; token, userinfo, client registration |
| Request id, log, metrics, headers | `internal/middleware/observability.go`, `headers.go` | a histogram | once per request |
| gRPC clients | `internal/client/client.go` | two connections | dial, inject the internal token, close |
| Process | `cmd/main.go` | HTTP server, signal context | start, serve, shut down |
| Documentation, packaging | `embed.go`, `openapi.yaml`, `swaggerui`, `Dockerfile`, ... | none | static |

How they interact. Every request runs in a goroutine of its own through a chain
of middlewares, each of which passes it on (`c.Next()`) or answers in its place.
The login pages, the public auth endpoints and the change of password share one
limiter; `activateTotp`, `disableTotp` and `/token`, which test codes and client
secrets too, are registered without one. `Require` asks the auth service who the
caller is and leaves a snapshot in the request, from which permissions are
checked and which is forwarded with every later call. Handlers make their calls
one after another and without deadlines. The browser carries the OIDC flow from
page to page.

What is hard, and what has to hold:

- *Limiter.* Requests read the clock before they take the lock, so the limiter
  counts, opens and sweeps windows with times out of order. No window may admit
  more than its limit, no client may be refused unjustly or told nonsense, and
  the table must stay small although the sweep is lazy.
- *Pipeline.* Tokens are revoked and roles change while a request is between its
  steps. Every call must be one its caller was entitled to; the routes that share
  the limiter may, in whatever mix, make no more calls than it admits; an error
  gives no detail of the services away, and the one told is the one that was met
  first.
- *OIDC flow.* Tabs share a session, sessions expire between two pages, a client
  gives up a redirect URI in mid-flow, calls fail and some failures are ignored.
  Redirects must go to validated URIs, codes must rest on a consent, sessions on
  a login, and the chain of redirects and forms must end, or where it does not
  (a code asked for with a token that has expired) that must be the only place.
- *Redis limiter.* Replicas whose clocks differ count under keys that expire by
  Redis's time; a request may be late for its own key, an answer may be lost after
  the hit was counted, and the fallback counts separately on each replica. The
  limit has to hold across replicas, keys must not be left behind, and an outage
  must not open a window for guessing.
- *Profiles and directory.* `getMe`, `getUser` and `listUsers` put together the
  answers of two calls, between which accounts, memberships and profiles change,
  the profiles by events that are late, repeated or lost. An answer must stay in
  the tenant, tell nothing of strangers and pair each user with the right profile;
  a profile that is missing must be healed, and one of a purged user must not be.
- *Lifecycle.* A signal may come at any moment of the start, start-up steps fail
  one by one, and `main` returns while `Shutdown` still waits for requests.
  Nothing may stay open, nobody may be served by a gateway that is not ready, and
  the signal must end the process.

`PROJECT.json` lists the hazards line by line, with the property that would
catch each or the reason why none does.

## Modules

| Module | What it is |
|---|---|
| `LimiterCore` | the limiter's pure part: sweep, count a hit, Retry-After |
| `RateLimiter` | one limiter under concurrent requests; EXTENDS `LimiterCore` |
| `FixedWindow` | what a fixed-window limiter promises; abstract, no code in it |
| `SlidingWindow` | `RateLimiter` with a history of what was admitted; `MCRateLimiter` instantiates both |
| `RateLimiterProofs` | theorems about `RateLimiter` |
| `RedisLimiter` | the limiter of several replicas and their fallbacks; EXTENDS `LimiterCore` |
| `RequestPipeline` | the route table, the middlewares and the handlers' calls |
| `OidcFlow` | the browser flow, tabs included |
| `Directory` | the two-call handlers between the auth and the user service |
| `Lifecycle` | `main`, `Dial`, the signal and the end of the process |
| `SlidingWindowProofs` | the sliding bound; EXTENDS `RateLimiterProofs` |
| `RedisLimiterProofs`, `OidcFlowProofs`, `DirectoryProofs`, `LifecycleProofs` | theorems about the modules they are named after |
| `RouteTableProofs` | what each route of the table guarantees, whatever the requests |
| `RequestPipelineProofs` | theorems about `RequestPipeline`; EXTENDS `RouteTableProofs` |
| `MC*` | instances for TLC: constants and symmetry |

Definitions named "a mutated form of ..." are plausible slips in the code.
Substituting one for its original must break the property it is paired with in
`PROJECT.json`; nothing else uses them.

### RateLimiter

`hits` and `lastSwip` are the fields of the Go struct, `limit` its configured
limit, `clock` real time in ticks. `Receive` is `Limit()` up to `mu.Lock()` (the
request keeps `ip` and `now`), `Count` everything from there to the answer: it is
one action because the struct's fields are touched only under the lock, and what
follows the unlock uses local variables. `Bypass` is the disabled limiter. The
zero `time.Time` of `lastSwip` is represented by `-Window`, the latest value with
which the first sweep is due. `MaxDelay` bounds how long a request may wait
between reading the clock and holding the lock; Go's clock readings are
monotonic, so nothing else makes `now` wrong.

`ImplementsFixedWindow` is refinement: `hits` maps to windows with an end and the
number of requests passed (the counter capped at the limit, since refused hits
are counted on). In `FixedWindow` a window opens only after the last one of its IP
has ended, passes at most `limit`, and refuses only when spent; `Slack` allows
what stale clocks cost: a window up to that much shorter, and a refusal up to that
much after the end. `MemoryBound` is the purpose of the sweep. `SlidingBound`
states what "`limit` requests per `window`" means over arbitrary stretches: twice
the limit, less one, is the most and is reached. `SlidingWindow` keeps the times of
the latest `2 * limit` admissions of each address, and the bound says that the first
of them is always too old to be in one stretch with the last. (The same could be said
with a sum over the last window's ticks; times in order need no sum, hence no induction.)

### RedisLimiter

`counters` is what Redis keeps, by IP and bucket; `local` is each replica's
in-memory limiter, on the table operations of `LimiterCore`; `skew` is how far a
replica's wall clock, which numbers the buckets, is ahead. `Receive` is `Limit()`
up to the call of the script, `Run` the script with its answer, `Fail` a call that
returns an error, whether or not the script ran, with the fallback's decision.
The script is atomic in Redis, hence one step (`Ran`, what the scripts of any set of
requests leave); `Tick` also drops the keys whose
time has come. `Restart` is a replica that dies and comes back: its table is
empty, its requests are lost, and any of their scripts may have run. The fallback
reads the clock and takes its lock within one tick: what a wait there costs is
`RateLimiter`'s subject. Not modelled: that go-redis
may send the script again after a broken connection, which counts one hit twice
and only makes the limit tighter; that Redis loses its data; and `NewAuthLimiter`'s
choice by `REDIS_URL`, made once, which leaves either this or a `RateLimiter`.

`passed`, `byRedis` and `byReplica` are histories: how many requests of a bucket Redis
admitted, and what Redis and what the fallbacks let through in the last window's time.
The latter two are sets, so that they can be counted in a proof: an admission is named
after the counter that counted it (a key and its beginning, or a replica's window and
the life of the replica it belongs to) and the count it was given.

### RequestPipeline

The route table of `New` is data: each route has its middlewares, whether it
decodes a body, its calls in order, the status of its success. Each middleware
and each answer of a call is an action of a request, and `AuthChanges` (the auth
service, external) comes between any two. A handler's calls differ in what
follows an error (`writeGRPCError`, or a text of the gateway's own) and in
whether a success may end the handler (`getUser` on a stranger) or a failure
continues it (`getMe` on a missing profile). The limiter is here only a budget
per window; that it keeps one is `RateLimiter`'s subject. `held`, `valid` and
`dead` record what was true of the request's token while it was being served.

`guesses` counts the calls in `Throttled`: those of the login pages, of the public
auth endpoints and of the change of password, which is what the comments in `New`
promise a limit for ("rate-limited like the JSON auth endpoints", "rate limited per
IP to slow brute-force"). `SharedBudget` is about these and nothing else. Left out,
because `New` leaves them without the limiter and no comment says otherwise:
`ActivateTotp` and `DisableTotp` (`router.go` lines 104-105), which test a TOTP or
recovery code of a caller with a token; `ExchangeAuthorizationCode` (`/token`, line 69,
"not a per-IP brute target"), which tests a client's secret and a code; and `Refresh`,
which `/auth/refresh` makes behind the limiter and `/token` without it. How often these
may be tried is not bounded by the gateway, and the model agrees.

`getMe` goes on after a `NotFound` and keeps that error (`err`), since it is the one to
answer with if the profile cannot be made either, whatever that second call said:
`Told`, and `FirstErrorTold` as its property.

`Licences` is the permission each call demands, written per call and not per route, so
that the table and the property can disagree. `openapi.yaml` documents it for users,
profiles, roles, clients and the audit log. For tenants, projects, members and role
assignments it says nothing; there `Licences` repeats the router's table, and
`AuthorizedCalls` shows only that the check stands before the call.

### OidcFlow

Browser and gateway in one module. `req[t]` is the request a tab waits for, with
the cookie it was sent with and the step its handler is at; there is a step for
each call to the auth service. `Send`, `Receive`, `Lose` are the browser's; the
handlers are `Authorize` to `SaveConsent`. Whether a redirect ends in the relying
party or an error page in the gateway, the tab is blank again. A TOTP page
carries in a hidden field the `mfa_token` that `Login` answered with, here the time
until which the auth service takes it (`MfaToken`; `openapi.yaml` line 66 calls it
short-lived). `authorizeTotp` answers every error with the same page and the same
token, so once the token has expired no code is right and the form comes back for as
long as the user fills it in; `Leave` is the user who gives up. What the auth
service's `SaveConsent` does to scopes granted earlier is not in this repository:
both adding and replacing are allowed. A consent post counts as the consent of
the user whose cookie it carries; it may be a page that another user was shown,
which `CodesApproved` cannot see (the page carries no user).

### Directory

`account`, `members` and `events` are the auth service's, `profile` is the user
service's; both are external and kept as simple as the handlers' comments allow.
`request[r]` is what a handler holds in local variables: the ids of its first
answer, then its status and rows. `Register`, `DeleteUser`, `RestoreUser`,
`AddMember` and `RemoveMember` are the one-call handlers at the moment the auth
service does what they ask, `Deliver` the user service taking an event (again,
perhaps: the events of a user are kept in order but at least once), and there is
one action per call of `getMe`, `getUser` and `listUsers`, plus `Break` for a call
that fails. `CreateProfile` may be carried out although its answer is lost.

Every caller has an active tenant. An API key's identity has none (`auth.go` lines
43-47); what `ListMembers` answers to such a caller is the auth service's business and
is not modelled.

Assumed of the services, since their code is elsewhere: tokens end with the account
(`Accepted`); `ListMembers` answers for the caller's tenant, as the comment at
`router.go` line 385 says; `CreateProfile` is idempotent (line 343) and asks nobody
whether the user exists; `GetProfile` and `GetProfiles` know a soft-deleted user's
profile no more; purging removes it. The histories `ever`, `kept` and `softly` say
what has been true since a request arrived. With them "tenant-scoped" can be stated
of an answer made at two moments: `TenantScoped` takes a user who was a member at
some moment since the request came (one who leaves between the two calls may still be
told of: an answer made at two moments can promise no more), `DirectoryJoined` demands a profile only for
one who was a member with a profile throughout.

### Lifecycle

`pc` is where `main` is, `deferred` its stack of deferred calls: each return runs
exactly those pushed so far, so that `Released` depends on what happens before and
what after each `defer`. `Signal` may come at any moment; before `NotifyContext` and
after `stop()` it ends the process itself. The goroutine waits for the context and
calls `Shutdown`, which closes the listener at once: `ListenAndServe` returns then,
`main` unwinds and the process ends whether or not `Shutdown` has drained. Requests
inside at that moment are cut, or refused because their connections are closed
(`Require` answers 401 to them, as to any failed call). So the five seconds of line
64 are never granted; no document of the repository promises them, hence there is
no violated run about it, and `ServedWhenReady` says only what holds: nobody is cut
or refused before `main` returns.

## Runs

| Run | Instance | Shows |
|---|---|---|
| `rate_limiter` | 2 IPs, 2 waiting requests, limit 0 to 2, window 3, delay 1, 8 ticks | `TypeOK`, `MemoryBound`, `SlidingBound`, `ImplementsFixedWindow` |
| `redis_limiter` | 2 replicas, 1 IP, 2 waiting requests, limit 0 or 1, window 2, delay 1, skew 1, 3 failed calls, 1 restart, 4 ticks | `TypeOK`, `SharedBound`, `KeysExpire`, `OutageBound` |
| `late_request` | the same, limit 1, no skew, no failures, no restart, 5 ticks | `BucketLimit` is violated |
| `pipeline_shared` | 2 requests, 1 token, 5 routes, 4 sets of permissions, limit 1, 2 windows | `TypeOK`, `AuthorizedCalls`, `SharedBudget` |
| `all_routes` | 1 request, every route, every permission | `AuthorizedCalls`, `NoDetailLeaks`, `FirstErrorTold` |
| `unauthorized` | 1 request, 1 route | `RefusedForCause` is violated |
| `oidc_flow` | 2 tabs, 2 users with 2FA, links with and without a scope, sessions and mfa_tokens that last for the tick they begin in, 2 ticks, 1 mishap | `TypeOK`, `RedirectsValidated`, `CodesApproved`, `SessionsEarned` |
| `flow_ends` | 1 tab, 2 users (one with 2FA), 3 links, mfa_tokens that last a tick longer, 3 ticks, 3 mishaps | `FlowEnds` |
| `directory` | 2 users, 2 tenants, 1 request, 2 administrative changes, 1 failed call | `TypeOK`, `TenantScoped`, `NothingTold`, `DirectoryJoined`, `GoneForGood`, `Healed` |
| `hard_deletion` | 1 user, 1 tenant, 1 request, 2 changes | `PurgedLeavesNoProfile` is violated |
| `deleted_filter` | the same | `DeletedListed` is violated |
| `lifecycle` | 2 requests, every configuration, failures and a signal anywhere | `TypeOK`, `Released`, `ServedWhenReady`, `Stops` |

Why the bounds are enough. Eight ticks hold more than two windows of three ticks,
so windows end, are swept and are opened again; two requests suffice for one to
overtake another, and a delay of one tick for its clock to be stale; a count of
three is one more than the limit. The Redis limiter's four ticks are two buckets of
two, and skewed clocks reach a third; one tick of delay lets a request miss its
key's life, and three failures spend a replica's fallback and part of the other's,
or lose answers on both. One restart is enough for `OutageBound` to need its last
term; what Redis admits in a window's time shows its full extent only with a limit of
two and a longer window, which is what the theorem `OutageLimited` is for. Four keys at a
time, which `KeysExpire` denies besides keys without an expiry, do not occur within the
run's ticks: that part rests on the theorem `KeysDoExpire`. A limit of one is the smallest that can be exceeded, and the counts go to
three. In the pipeline the five routes of
`pipeline_shared` are the ones that combine the shared limiter with `Require`,
use the limiter from a login page, make two calls, or check permissions
themselves; all others have the shape of one of these and pass through
`all_routes`. In the OIDC flow a tick is a session's length, rounded down: a
session made in the first of two ticks is used in it and has expired in the
second (`flow_ends` has a longer one, used at its very end too), and so it is with an
`mfa_token`; a mishap is a failed call, a mistyped secret,
a lost reply, a logout or a URI given up, and one of them suffices to break each
property when the code is changed. In the directory two changes fit between a handler's calls
(leave one tenant and join another, be deleted and restored), two users are what it
takes to mix up rows, and two tenants to leak. One request is enough although many
run at once: handlers share nothing in the gateway, and another `getMe`, the only one
that writes, makes no profile that its own steps could not. `Lifecycle` has no bound
but its two requests. Requests, tabs, addresses and users are
symmetric in the safety runs.

No run needs deadlock checking switched off: `Horizon` in the limiter stutters
when its bounds are reached, `Over` when the process has ended, and browsers and clients can always
go on.

The violated runs. `Require` turns every error of the auth service into a 401, and
`openapi.yaml` line 124 describes that answer as "Missing/invalid/expired token or
bad credentials": a client with a valid token is told that it is not while the
auth service is down. And `ratelimit_redis.go` lines 40-41 say that the limit "is
enforced consistently no matter which replica serves a request", but a key lives
as long as its bucket, counted from its first hit: a request that reads the clock
in the last moment of a bucket and reaches Redis when the key has expired is
counted from one again, so a bucket may admit more than the limit. `SharedBound`
shows that it is never more than twice, provided that delay and skew together are
no longer than a bucket (`BucketAssumption`; the gateway sets neither bound).
`router.go` lines 495-497 say that a hard deletion removes the identity permanently
and that the profile follows by an event; but `getMe` heals for whoever its snapshot
names, so a request let in before the deletion can make the profile again after the
event, and nothing removes it any more. `GoneForGood` shows that no request but one
already under way can do so. And `openapi.yaml` line 291 lets `GET /users` list
"soft-deleted users instead (for restore)", a parameter that `listUsers` does not read
(nor `page`, `page_size` and `query`).

### Fairness

That handlers are scheduled and their calls end is assumed wherever something must
happen. The gateway sets no deadline of its own; a call ends because the service
answers, the connection breaks, or the client leaves, which cancels the request's
context. `FlowEnds` assumes weak fairness of handlers, of
replies and of the user in front of a form, who fills it in rightly except for
finitely many mishaps. It makes one exception, `Outlived`: on a TOTP page whose
`mfa_token` has expired the same steps lead back to the same page, and only a user who
leaves it, of which nothing is assumed, ends the flow. Without the exception TLC finds
that cycle; with it, it finds no other. No fairness is assumed of expiry, revocations,
logouts or failures. Time stops at `MaxTime`, so sessions expire only finitely often: with a
session of an hour nobody types that slowly for ever. `Healed` assumes that calls end
(weak fairness of a request's step) and that users come back to their page (strong
fairness, since their request may be under way or another's in its place); it assumes
nothing of events, which may never be delivered. `Stops` assumes that `main` and the
goroutine are scheduled and that the library calls they make return, and nothing of
requests: one that never ends does not keep the process alive.

## Proofs

`RateLimiterProofs` proves, for all sets of addresses and requests, all limits,
every positive window, every unit of seconds and every delay up to a window:

- `TypeCorrect`: `Spec => []TypeOK`, with Retry-After a natural number;
- `MemoryBounded`: `Spec => []MemoryBound`;
- `LimiterImplementsPromise`: `Spec => ImplementsFixedWindow`.

The first two are not inductive. The invariant `IInv` adds how old a waiting
request's clock can be (`FreshReadings`), that entries have counted something and
end within a window from now (`LiveEntries`), that the last sweep left nothing
that had ended by then (`SweptClean`), and that a decision has just swept or was
preceded by a sweep less than a window before (`SweptRecently`). `SweptClean` is
where the order of the lock meets the order of the clocks: a request older than
the last sweep must not create a window that sweep would have dropped, which
needs `MaxDelay <= Window`, the assumption on delays. `Invariance` proves
`Spec => []IInv`, one lemma per action. For the refinement, `CountBecomes` shows
that the table after a hit is the promised one with some ended windows forgotten,
and `CountRefines` splits a hit into a new window, a hit admitted and a hit
refused; every other step is a tick or a stutter. `RetryAfterBounds` puts the
number the client is told between 0 and a window.

`SlidingWindowProofs` proves `SlidingLimit` (`[]SlidingBound`) and `HistoryOnly`
(`HSpec => Spec`: the history only watches, so what is proved of `RateLimiter` holds
with it). The bound alone is not inductive. The invariant adds to that of the limiter
what the latest admissions have to do with the window that is remembered
(`OfWindow`): the one that came with the window's first hit is no later than its
opening can have been, `reset - Span`, and all but `limit - 1` of those before it are
already too old; without a window (`OfNone`) all but `limit - 1` are. A hit that
opens a window shifts the second into the first (`NewWindow`), one that is admitted to
a window that is there shifts both counts (`SameWindow`), and a window is swept or
replaced only by a clock past its end, when its first admission is too old, and with
it all but `limit - 1` of the latest (`Ended`): the window has lasted since, less the
delay of that request, which is what `Span` is.

`RedisLimiterProofs` proves, for any number of replicas, addresses, waiting requests,
failures and restarts, `TypeCorrect`, `SharedLimit` (`[]SharedBound`), `KeysDoExpire`
(`[]KeysExpire`) and `HistoryComplete`, which says that the history `SharedBound` reads
forgets a bucket only when no waiting request can be counted in it. The argument is about
when a key may come to be. Bucket `b` can be read from `Base(b)` on, for a bucket and a
skew; a request reaches Redis a delay later at most (`Fresh`); so every key of the bucket
is set within two of its lengths (`Living`), in which there is time for two keys, one
after the other, and not for a third. `Shared` is the count: `Cap(k)` is what may have
been admitted under the keys that have gone by now, plus what the present key has let
through. This is where `BucketAssumption` is needed. That an address has at most three
keys follows from `Living` alone: three numbers of buckets are in reach (`NearBuckets`).

The second argument counts. `OutageLimited` (`[]OutageBound`) bounds what passes of an
address in a window's time, whatever calls fail and whichever replicas are started anew.
A sum over time would need induction; a set of named admissions needs an injection
(`SlotsOfTheirOwn`) from names to slots. Names tell admissions apart because counters of
one kind follow one another: a key of a bucket begins when the one before has expired
(`RedisNames`), a window of a limiter after the end of the last, and the limiter of a
later life of a replica after everything its forerunner let through (`ReplicaNames`).
So of the keys of one bucket at most one began in the last window's time and at most one
before (`SameKey`), whose first hit is too old to be counted; three buckets are in reach
(`RecentBucket`), and the newest of them has no earlier key: `5 * limit - 2` slots. For a
replica's present limiter the same argument gives `2 * limit - 1`, and each restart adds
one window of `limit` (`SameWindow`, `PresentRoom`, `EndedRoom`). That a bucket is
as long as the window needs a window of whole seconds (`WindowInSeconds`), which is how
`AUTH_RATE_WINDOW_SECONDS` is given. `EveryAdmissionNamed` says that counting names
loses nothing: each admission adds a name that was not there.

Trying to prove this showed that the bound had been too low. It allowed Redis
`4 * limit - 1`, on the ground that at most four keys, one of them begun before, can
admit in a window's time; the case that did not go through was a second key begun before.
TLC finds it with one replica, a limit of 2, a window of 3 ticks and requests that take up
to 3 to reach Redis: `5 * limit - 2`, which is 8, in 3 ticks. With the run's limit of 1 the
two bounds are equal. `OutageBound` states the right one now.

`RouteTableProofs` proves `TableFit`: every route of the table has `Require` and a
permission before the calls that require one and the limiter before its first call if
that is in `Throttled` (and no later call is); of calls outside `Throttled` it does not
say that they are limited, and some are not. It is a fact about data, one lemma per kind of route,
and all that the proofs about the pipeline use of the table.
`RequestPipelineProofs` proves, for any number of requests, tokens, permissions and
routes exercised, every positive limit and number of windows, `TypeCorrect`, `CallsAuthorized`
(`[]AuthorizedCalls`), `GuessesBounded` (`[]SharedBudget`), `DetailsKept`
(`[]NoDetailLeaks`) and `KeptErrorTold` (`[]FirstErrorTold`). What a request knows on its way is that its remaining chain and
calls are of its route, and that each middleware of the route that is gone has been
passed, with a token and a permission that its histories have seen (`OnItsWay`,
`UpToDate`). `SharedBudget` alone says nothing about a request between the limiter and
its call: `Budget` counts such requests as tickets, and guesses and tickets together
never exceed what the windows have admitted. A handler makes at most one call in
`Throttled`, its first, which `TableFit` shows of each route. For `FirstErrorTold` the
invariant says who may have kept an error (`Kept`): a handler with only `CreateProfile`
left, which answers 200 if that succeeds; only `getMe` is such, which again is `TableFit`. Trying to prove this showed that
`Wanted` had been written with a CASE whose guards overlapped, which TLC resolves by
order and the language does not; it is written without now.

`OidcFlowProofs` proves, for any number of tabs, users, clients, redirect URIs and
scopes, `TypeCorrect`, `OnlyRegisteredUris` (`[]RedirectsValidated`),
`OnlyApprovedCodes` (`[]CodesApproved`) and `OnlyEarnedSessions` (`SessionsEarned`, an
action property). What a tab's request may rely on at each step of its handler is
`Sound`: whose it is (`Owned`), that the session it was sent with ends within a
session's length of a login (`Earned`), that its URI was registered since it was sent
(`Checked`), and which consent it rests on (`Approved`). The world moves in one
direction only: URIs are given up, consents added, logins follow one another
(`Onward`), so that what is sound stays so while other tabs act (`Lasting`), and each
handler's step need only be looked at in its own tab (`TabMoves`). Two parts are about
what tabs share: the auth service holds no scope its user has not allowed
(`Consented`), and the cookie is earned and no login is of the future (`Punctual`).

`DirectoryProofs` proves, for all sets of requests, users and tenants and all
bounds, `TypeCorrect`, `AnswersScoped` (`Spec => []TenantScoped`), `StrangersUntold`
(`[]NothingTold`) and `JoinCorrect` (`[]DirectoryJoined`). The three properties speak of
answered requests only. The invariant `IInv` adds what a handler between its calls may
know (`OnItsWay`): that the members of the tenant at this moment are among `ever`, that
`kept` are members with a live profile now, that the user whose profile is asked for
has been on the list, and that the ids asked for lie between `kept` and `ever`. A step
of the services moves the histories of all requests at once (`Observing`); a step of a
handler concerns one request and either answers with what fits its histories
(`Answering`), fails (`Breaking`) or goes on (`Continuing`). The assumptions about the
services are in the actions, as above; the bounds on changes and failures play no part.

`NoneAgain` (`Spec => GoneForGood`) is about one user: when the purged account, the spent
events, the missing profile and the absence of a `getMe` of that user hold together they
hold for ever (`StaysGone`). No handler starts to ask for another user (`CallsSame`), only
one in its step "create" writes a profile, and the invariant says that this is a `getMe`,
hence of somebody else. Without the last conjunct it is false, as `hard_deletion` shows.

`LifecycleProofs` proves `TypeCorrect`, `NothingLeft` (`[]Released`) and
`ReadyWhenServing` (`[]ServedWhenReady`) for any number of requests. The invariant says
what is deferred at each step of `main` (`Deferred`), that what is open is what a
deferred call will release (`Accounted`), and that nobody is inside before `main`
serves (`Ready`).

Each of these inductive invariants was model-checked on the runs' instances before it was
proved. The assumptions are those of the modules: positive windows and units of seconds,
delays up to a window (`RateLimiter`), delay and skew together up to a bucket,
finitely many replicas and a window of whole seconds (`RedisLimiter`; only `OutageLimited`
uses the last two), at least one window (`RequestPipeline`), at least one link to follow
(`OidcFlow`), and names for nobody that are nobody's.

Only model-checked is liveness (`FlowEnds`, `Healed`, `Stops`): it rests on
fairness, which is out of the proof system's reach. Every other property of a passing run
is a theorem.

## Not modelled

Log lines, metrics, headers and the wording of answers; the HTML of the pages;
signatures and encodings of cookies and tokens (a cookie is the session it was
made for); static routes; `postLogoutDest`; the fields that handlers of one call
copy into their replies; `tokenInjector`; time limits, since calls have none of the
gateway's own and the one of `Shutdown` is cut short by the end of the process.
