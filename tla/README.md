# TLA+ models of py_common

`py_common` is a library that services import: HTTP middleware, a Redis cache
with a distributed lock, rate limiters, a circuit breaker, server runtimes that
drain, token providers and persistence helpers. Most of its state is small, but
it is touched by many asyncio tasks, and often by several processes through
Redis, and every `await` is a point where another of them runs, a command fails
or the task is cancelled. That is what the modules here model and check.

File names below are relative to `src/py_common/` in the repository.

## 1. Inventory

| Component | State | Operations | What makes it hard | What makes it correct |
|---|---|---|---|---|
| Idempotency middleware (`http/middleware/idempotency.py`) | one Redis key per caller, method, path and Idempotency-Key: absent, in-flight marker, record; per request the buffered body, status, kept chunks | buffer the body, `SET NX`, `GET`, run, record, release, replay, 409/503 | requests of several processes on one key; lost replies; cancellation; TTL | one run at a time; a replay is the whole first response; a marker belongs to a live request; a 409 tells the truth |
| Body limit, timeout, request context, metrics (`http/middleware/`) | bytes received, the cancel scope, "started" flags, status variables, a gauge | reject, count, cancel, render 413/500/504, log, measure | the deadline races the first byte; exceptions cross several layers | one status line per request; metric and log name it; no request is held for ever |
| Redis client (`cache/redis.py`) | connection pool | `create_redis` | socket timeout plus `retry_on_timeout`: a command may be executed twice | (seen through its users) |
| Circuit breaker (`utils/circuit_breaker.py`) and transport (`http/client.py`) | state, failure count, time opened, half-open slots | `before_call`, `on_success`, `on_failure`, `call`, context manager, `reset` | results of calls admitted in an earlier state; cancelled calls | the number of probes; a recovered upstream is used again |
| Distributed lock (`cache/lock.py`) | Redis key with a token and TTL, the extension task | acquire, extend, release | TTL against a slow holder, lost replies, cancelled release | no release of someone else's lock; exclusion while the TTL holds |
| Cache-aside (`cache/cached.py`) | one Redis key per entry, lock per entry | get, set, delete, clear, `get_or_set` | invalidation between computation and store, lock timeouts | what a reader may be served; one computation at a time |
| Rate limiters (`cache/rate_limit.py`, `http/middleware/rate_limit.py`) | counter or sorted set per key, an LRU of deques in process | hit (two Lua scripts), prune, fail open | window boundaries, clocks, eviction | admitted requests per window; a truthful Retry-After |
| Draining server (`runtime/uvicorn.py`, `lifecycle.py`), health (`http/health.py`) | drain flag and callbacks, a pending exit task, probe results | signal, schedule exit, `ready` | signals during the delay, probes that time out | traffic leaves before sockets close; a second signal stops at once |
| Lifespan (`runtime/lifespan.py`) | started resources | start in order, stop in reverse | a failure on the way up or down | what started is stopped, once |
| gRPC server and client pool (`runtime/grpc*.py`) | server, channel per target | start, stop, `get_channel`, `aclose` | use after close | one channel per target, all closed |
| Service tokens (`security/service_token.py`) | token and expiry | `get_token`, `invalidate` | callers that refresh at once; invalidation during a refresh | no expired token is handed out |
| Keycloak (`security/keycloak.py`) | JWKS client and its age | `decode` | key rotation | a rotated key is accepted in bounded time |
| Requirements and wiring (`security/requirements.py`, `auth.py`) | per request: FastAPI's cache of solved dependencies | rules, nested routers, guards | rules that flatten and simplify, guards from several places in one list | no handler runs unguarded; the text of a 403 is the rule that was enforced |
| Problems (`errors/`, `http/problem.py`) | the tables of codes, types and statuses | an exception handler for each kind, documentation pages | two tables in opposite directions, responses that are rebuilt | a problem's type leads to its page; a challenge survives |
| Correlation (`http/middleware/request_context.py`, `http/client.py`, `runtime/grpc_interceptors.py`, `grpc_metrics.py`) | the id in the context, the scope and the headers; the duration of an RPC | look up, bind, propagate, restore, record | suspended streams, contexts that are used again, cancellation, calls that end before their handler starts | one id along a chain of calls, none left behind; each RPC that started recorded once |
| uuid7 (`utils/ids.py`), pagination (`persistence/pagination.py`) | last timestamp; none | new id; encode, decode, page | the clock goes back; rows change between pages | ids increase; no row is skipped or repeated |
| Unit of work (`persistence/*uow.py`), storage (`storage/`) | session, client | enter, commit, rollback, exit; open, close | reuse, nested use, a failing close | commit or roll back, once; nothing leaks |

The rest (settings, security headers, telemetry, logging, migrations, test
helpers) maps values to values or configures another library and keeps no state
that changes over time. `PROJECT.json` lists every part with its status, and
under `hazards` each thing that can go wrong, at its line.

The components meet in few places: the middleware stack is one chain of ASGI
calls (the inner layer's messages and exceptions pass through every outer
layer); the cache uses the lock; cache, lock, limiters and idempotency share the
Redis client; readiness reads the drain flag; the lifespan stops the gRPC server before the
resources it uses; a route's rule reads the claims that the validator decoded,
and its refusal becomes a problem; the HTTP transport drives the breaker.
Elsewhere they are independent, and the modules are too.

## 2. Plan

1. `Idempotency`, and `RequestStack` on top of it (done, with proofs).
2. `CircuitBreaker` with its transport (done, with proofs).
3. `RedisLock`, and `Cache` composed with it (done, with proofs).
4. `RateLimit`: the three limiters, and `RateWindow`, what they promise (done,
   with proofs).
5. `Shutdown`: lifespan, gRPC server, draining server, readiness, and the load
   balancer that watches it (done, with proofs).
6. `Tokens`: the token provider and the key set of the validator (done, with
   proofs).
7. `Requirements`, `Problems`, and `Endpoint`, which composes them with the
   routers (done, with proofs).
8. `Correlation`: the request id and the RPC metrics (done, with proofs).
9. Left: uuid7 with its counter and a clock that goes back; the gRPC channel
   pool; cursors over a changing table; the unit of work; the storage client.

Each module has one passing run that asks everything of it (`Idempotency` two:
one with failures and one without, because different bounds make the cases
happen), and one run shows a finding. Six more configurations, beside the runs of
`PROJECT.json`, each show another disagreement between the code and what it says
of itself (section 12).

Every invariant and every action property that a passing run checks is stated by
a theorem (section 13), some under a hypothesis that has a name. What no theorem
can state here is liveness.

## 3. Idempotency

`Idempotency` has one action per step between two awaits of
`IdempotencyMiddleware`. All requests of the model share the key: the Redis key
is a digest of caller, method, path and Idempotency-Key, so different keys do
not interact. `pc` says where a request is:

| `pc` | in the code |
|---|---|
| `arrive`, `buffer` | `__call__`, `_buffer_body` |
| `set`, `get` | waiting for `SET NX` or `GET` in `_claim` |
| `run` | the application under `_run_and_record` |
| `open` | the application called directly: no key, or `fail_open` |
| `record`, `release`, `raising` | waiting for the final `SET` or for `DELETE`; `raising` re-raises after it |
| `returned`, `raised`, `cancelled` | how the call ended |

`store` is the Redis key. A body is the sequence of its ASGI messages and the
fingerprint is that sequence, so sha256 is taken as injective; a stored response
is its number of bytes and (history, not in Redis) the request it came from.

Failures are actions: `LoseReply` (Redis executed the command, the reply timed
out; with `RetryOnTimeout` redis-py sends it again, as `create_redis` asks),
`RedisDown`, `Stop` (CancelledError at any await), `Disconnect`, `Expire`. A
cancelled command is executed or not; its effect is placed at the cancellation.
`MaxFaults` bounds each kind. An application that returns without having sent a
start message breaks ASGI and is left out (`HandlerReturn` needs a status); the
code would record status 0 for it.

| Run | What it shows |
|---|---|
| `MCIdempotency` | without failures: `ReplayFaithful` (a replay is the whole response that was sent), `MarkerHasRequest`, `ConflictMeansDifferentBody` (behind a 409 "different body" is another request that sent a different body), and every marker is settled (`MarkerResolved`) |
| `MCIdempotencyFaults` | one failure of every kind, `fail_open`, no retry: `OneRun`, `RecordIsFinal` |

`OneRun` and `RecordIsFinal` are conditional on `Undisturbed`: no marker lapsed
under its request, no command was executed twice, and no request found the key
gone between `SET NX` and `GET`. Each of the three conditions is necessary: the
final `SET` and the `DELETE` have no condition on who holds the key.

Bounds. Three requests are one that holds the key, one that meets it and one
that arrives after it was released; two of them send the same two-message body,
the third differs in its last message. Sizes 1 and 2 against
`MaxStoredBytes = 1` give a response that fits, one that does not, and one where
a later chunk would fit again. The run with failures keeps one status and no
response body, because each kind of failure happens at every point of it; its
fail-open, no-retry configuration complements the stack's run, which fails
closed and retries, and the proofs cover every combination. Symmetry swaps the
two equal requests in that run only, which has no liveness property.

Fairness (`FairSpec`): the server's own steps, and that the application ends.
`MarkerResolved` is checked without failures, because a cancelled request leaves
its marker until the TTL.

## 4. Request stack

`RequestStack` extends `Idempotency` with the layers around it that keep state.
Every action is written as an action of `Idempotency` seen through the send and
receive wrappers, or leaves the inner variables alone; that it implements the
middleware follows from this form alone and is a lemma (`StackRunsMiddleware`),
which carries the middleware's theorems into the stack.
`Unwind` is what the outer layers do once the inner call has ended: 413, 504 or
500 if nothing has been sent, then the metric and the access log; nothing is
shared there and it is one step. The timeout is a scope that is `armed`,
`lifted` by the first byte, or `fired`; between firing and the delivery of
CancelledError the application may still run code that does not wait, so a
start message can slip out.

| Run | What it shows |
|---|---|
| `MCRequestStack` | `AnsweredOnce` (types, and one status line per request), `ObservedStatus` (metric and access log name the status that was sent), `OversizedRefused` (an oversized body is told so and claims no key), `DeadlineHolds` (a first byte or an end in time though client, handler and Redis may hang, and no deadline for a stream that has begun) |
| `MCRequestStackTimeout` | a divergence of section 12: `TimeoutReleases` fails |

Bounds. A keyed request that fits, a keyed one and an unkeyed one that are one
message over `MaxBodyBytes`; `ContentLength` gives the lengths a request may
declare, here the true one or none (0). `AnyCancelled` lets each of the three
requests be cancelled once, by the timeout or a shutdown, beside an outage and a
disconnect.

Fairness: only the layers' own clock, the delivery of a cancellation and the
unwinding. Nothing is assumed of the client, the application or Redis, but that
the application can be cancelled: a synchronous handler in a worker thread
cannot, and is outside `DeadlineHolds`.

Left out: gzip, CORS and security headers rewrite messages and keep their number
and status. When an application without a key reads a body that is too large,
FastAPI may turn the exception into its own 400; the model keeps the exception.

## 5. Circuit breaker

`CircuitBreaker` has the fields of `AsyncCircuitBreaker` as variables and its
methods as operators (`Become` is `_transition`, `Seen` the property `state`).
The methods never wait, so a call of a task is two steps: `Admit` (`before_call`)
and one of `Succeed`, `Fail`, `Cancel`; other tasks run between them. `call()`
and the HTTP transport book outcomes in the same way (`Mode[c] = "call"`), the
context manager differs in that it books a cancellation as a failure
(`"block"`). `fresh`, `quiet` and `burst` are history: which calls under way were
admitted in the present half-open round, how long ago a call was last admitted
half-open, and how many were since the circuit was closed or paused for
`recovery_timeout`.

Time is in ticks. The code compares the time since the circuit opened with
`recovery_timeout` and nothing else, so `age` stops there, and `failures` stops
at the threshold: no other bound is needed. A call may take any time: neither
`call()` nor the block has a timeout, and the HTTP client's is per operation.

| Run | What it shows |
|---|---|
| `MCCircuitBreaker` | cancellations in the context manager, calls of any length, two slots: `Spared` (unless the circuit closes, calls pass in bursts of `half_open_max_calls`, with `recovery_timeout` between, whatever late results are booked), `ProbeInFlight`, `Recovers` |
| `MCCircuitBreakerLeak`, `MCCircuitBreakerLate` | section 12: `ProbeInFlight` fails for a probe cancelled inside `call()`, `ProbeDecides` for a call that was under way before the circuit opened |

Bounds. Three callers are two calls admitted before the circuit opens, of which
one reports late, and a probe; with two slots a second probe may end after the
first has decided; the threshold of 2 lets failures and successes mix.
Fairness in `Recovers`: tasks keep calling, calls end, time passes; the property
then asks only what follows once no call fails or is cancelled.

## 6. Distributed lock

`RedisLock` is `redis_lock` with its extension task. `key` is the token in Redis
(a task is its own token), `ttl` what remains of it; `pc` says where a task is:
`outside`, `waiting` (the attempts of `Lock.acquire`), `holding` (the block),
`reaping` (`_stop_extend_task`), `releasing`, and how it ended: `refused`
(LockAcquireError), `error` (RedisError out of acquire) or `out`. `extender` is
the task of `_auto_extend_loop`: `on` until it is cancelled (`off`) or has given
up (`over`). redis-py's `SET NX PX` and its two token-checked scripts are the
external operators `TakeKey`, `DropKey` and `ExtendKey`.

Failures: a `SET NX` executed and sent again (`SetTwice`), an outage that leaves
open whether the command was executed (`RedisFails`), a cancellation or the end
of the process (`Stop`), and an extension that is late. `Tick` is the passing of
time: it waits `MaxDelay` for a due extension, and longer only at the price of a
`late` fault (an event loop or a Redis that is held up), after which the key may
lapse under its holder and `ExtendTooLate` ends the extension task.

`MCRedisLock` checks `LockHeld` (with auto_extend a task in the block has the
key, for as long as its extension task lives and is in time), `OthersUntouched` (nobody but the
task itself and the TTL takes a key away), `NothingLeaks` (without failures other than lateness no
key is left behind) and `Freed` (with failures, a key of a task that is gone
becomes free, and everyone who waits gets an answer).

Bounds. Three tasks: a holder, the one that gets the key after it, and one that
waits meanwhile. A TTL of 4 ticks with `MaxDelay = 1` puts an extension at and
after its time, and one late tick lets the key lapse; `BlockingTimeout = 2` lets
a waiter give up before the TTL ends and outlast a short block. Fairness: tasks, Redis and time make
progress; a block may run for ever, so nothing is assumed of `Leave`. `blocking=False` is
`BlockingTimeout = 0`; `blocking_timeout=None` (wait for ever) is left out. A cancellation that
arrives while the extension task is awaited is swallowed by `contextlib.suppress` (`lock.py:61`):
the model's `Reap` continues to the release in either case.

## 7. Cache

`Cache` extends `RedisLock` with `get_or_set`: a task makes one call, `at` is
its place in it (`look`, `lock`, `relook`, `compute`, `store`, `leave`, and how
it ended), and while it is in `async with redis_lock` its place in the lock is
`pc`. The lock's actions are used as they are, so every failure of section 6
happens under a cache too. A value is the version of the `source` it was made
from; `Poisoned` is an entry that does not decode. `Write` and `Invalidate` are
the writer, who may use `delete`, `clear` or the decorator's `invalidate`: one
key is modelled, and they do the same to it.

`MCCache` checks `OneFill` (types; one task computes at a time, and one in all
when nothing computed was lost), `CallerServed` (a call runs its factory once,
and fails only with what the factory raised, `threw`, or with its own
cancellation: a store, a release or a lookup that fails never reaches the caller,
before the factory ran or after), `ServedFresh` and, with
fairness, `Answered`. `past` records what excuses them: `shared` (a lock was
given up, not reachable, or lapsed under its holder), `again` (a value was lost:
a failed lookup or store, an expiry, an invalidation, a factory that raised) and
`raced`: an invalidation that found a computed value on its way to Redis. The
code has no guard against that race, and an older value then stays for a TTL.

Bounds. Two tasks and one write: one task computes while the other waits for
the lock or finds it lapsed, before or after the invalidation. Version 1 does
not serialize. `HalfTTL = 1` against `BlockingTimeout = 2` lets the lock lapse
under a slow factory and a waiter outlast it. One outage, one `SET NX` sent
twice and one cancellation or death, at any point. `AutoExtend` is off, as in
`get_or_set`. The factory raises an error of its own or a RedisError;
LockAcquireError is left out (section 12). Fairness: tasks, their factories,
Redis and time make progress. The run has 960,000 states.

## 8. Rate limiters

`RateLimit` has the three limiters, of which `Init` picks one with one of the
rates that `parse_rate` accepts. A hit is one step, because it is one Lua script
or one method without an await. `count`, `age`, `log` and `lru` are what Redis
or the process keeps; `credit`, `retry` and `reset` are what each client was
last told in the headers, counted down with the time; `granted` is history.
Time is in ticks with `phase` their place in the second, so that rounding a
Retry-After up to whole seconds is visible. A RedisError (`Unreachable`) leaves open whether the script ran. With
`failOpen` the request passes uncounted and is told that all of `times` remain
(`Degraded`); `guess` remembers that this number was read from no count. Without
it the error reaches the client (`Failed`), who was told nothing.

`RateWindow` is what a limiter promises, in a page: at most `bound` grants in
any stretch of one window, unless a `forgetful` limiter gives up the account of
a key. `RateLimit` implements it (`WithinLimit`, by `INSTANCE ... WITH`): the
sliding window with `bound = times`; the fixed windows with twice that, because
the end of one and the start of the next fit in one stretch; and only the
in-memory one is forgetful (`max_keys`).

`MCRateLimit` also checks `HeadersHold` (who was promised more, by a count, is
not refused; who waited as told by Retry-After, or until the second of X-RateLimit-Reset is
over, is not told to wait on) and `ServedAgain`. `RemainingIsTrue` asks the first
of degraded answers too, which do not keep it: `MCRateLimitOutage` (section 12).

Bounds. Two keys with `MaxKeys = 1`, so that each evicts the other; windows of
one, one and a half and two seconds of two ticks each; one and two requests per
window; and three rates that `parse_rate` refuses. Fairness: time passes and a
caller comes back.

## 9. Shutdown

`Shutdown` is the life of a process: `phase` is what uvicorn is at (`starting`,
`serving`, `closing`, `unwinding`, and `down` or `killed` at the end), `res` and `grpc` what the lifespan
has started, `draining`, `timer`, `exit` and `force` the fields of
`DrainingServer` and of uvicorn, which is external. A load balancer probes
`/ready` once a tick and routes by the answer; a probe that was begun before the
signal may still answer 200 after it.

uvicorn (0.52.3 in `uv.lock`) decides whether the lifespan unwinds at all. Its
`serve` keeps the signals it handled (`captured`), and raises them again with the
handlers it found when it returns. After a graceful shutdown, which includes
the lifespan's, that changes nothing. When `should_exit` was set before it
listened, or the exit is forced, it returns without the lifespan's shutdown
(`Abandon`): a SIGTERM then kills the process (`Kills`), a SIGINT alone becomes
the end of `asyncio.run`, which cancels the lifespan, whose `finally` runs. Its
source is not in the repository: `Abandon`, `Kills` and `UvicornExit` are mapped as
external. A signal after the unwinding has begun is left out.

`MCShutdown` checks `GracefulOnce` (after one signal no request meets a closed
socket, and the exit is not forced), `NotUnderfoot` (no resource goes while a
request or an RPC may use it, unless the exit is forced), `CleanUnwind` (types;
resources stop in reverse; a process that ends by itself has stopped all that
started and have a hook; once it served, one is killed only by a second signal)
and `Ends`. Starts fail half way, hooks and `GrpcServer.stop` raise, a second and
third signal arrive at any time. `MCShutdownKilled` shows what the hooks may not
count on (section 12).

Bounds. Three resources, of which the middle one has no hook; `Delay = 2` is the
shortest delay that works, because a probe under way at the signal and the next
one each take a tick: with 1, `GracefulOnce` fails, and `Delay >= 2` is the
condition of its theorem. Fairness: startup, hooks, uvicorn's loop, the balancer's clock and
requests in flight make progress.

## 10. Tokens

`Tokens` has callers that share a `ClientCredentialsTokenProvider` and present
its token to a service with a `KeycloakTokenValidator`; Keycloak, which rotates
its key, is external. A token is a number with its key (`kid`) and what is left
of its life; `cached` and `usable` are `_token` and `_expires_at`, `jwks` and
`jwksAge` the validator's client. A caller that is refused calls `invalidate`
and tries once more.

`MCTokens` checks `ProviderSound` (types; no expired token is handed out,
however late the answer that brought it; no token is fetched while there is a
good one; an invalidated token is not handed out again), `ValidatorSound` (a
live token of the current key is accepted whatever key set is cached; a retired
key is trusted for the TTL and no longer) and `Served`.

Bounds. Two callers, three tokens, one rotation, one outage of either endpoint;
`Life = 3`, `Leeway = 1 = MaxDelay`: the leeway covers the answer's delay, as
the assumption of the module says (30 s against a timeout of 10 s). Fairness is
strong for a caller's steps: the lock is contended, and asyncio's lock is fair.

## 11. Endpoint and correlation

`Requirements` has the rules (`HasRole`, `HasScope`, `Custom`, `AnyOf`,
`AllOf`), their evaluation and their text; `Problems` the codes, tables,
handlers and pages; `Endpoint` a request on its way through them.

A rule is made of values or of rules that exist already, so the rules of a
service come in heights: `Ranked` lists those of height 1, of height 2 and so on,
and `RulesAssumption` says that each has at least one part and parts of smaller
heights only, which is what the constructors enforce (`requirements.py:90`,
`113`, `151`, `169`). `check` and `describe` recurse over the parts; here they
are recursive functions over `Rules`, with the body of each class in `Checks` and
`Describes`. `Reads` is an independent reader of the text of a rule: it knows
"and", "or" and brackets, and finds a text that has both on one level ambiguous.
The description of a `Custom` is free text that nobody checks, so what is said of
a text that contains one has a hypothesis, `Honest`: it is balanced, not empty,
and read by itself says what the predicate does. `HonestCustoms` asks that of all
rules and tokens, and `MCEndpoint` evaluates it on its rules.

`Effective` are the dependencies of each level, from the outermost router to the
route; FastAPI's solver, external, takes them in order (`todo`) and caches by
callable (`solved`). Then the handler runs and returns or raises, and `Answer`
makes a problem of whatever was raised.

`MCEndpoint` checks `Admission` (no handler runs before every guard around it
was satisfied; what a 403 quotes is a rule of this route that the claims of a
good token did not meet; the token is decoded once by each callable; a route of
the OpenAPI document that serves without credentials is one that
`assert_routes_protected` reports, unless it is listed or asks for
`optional_user`),
`RuleAsStated` (the text of a 403 denies these claims, and would have admitted
those that were admitted) and `ProblemsTrue` (types; the type of a problem leads
to the page of its code, and its status is the one on that page, or a 422 of
INPUT, or another 5xx of SERVER; `WWW-Authenticate` and `Retry-After` come
through). The audit reads `app.openapi()`, so a route has `inSchema`: one with
`include_in_schema=False` is never reported, which `MCEndpointHidden` shows
(section 12). There is nothing concurrent here: the state space is the product of what may
come, 1.5 million states. Two families keep it at that: every rule of depth two
against all claims, and eight routes against every token, key, body and setting.

`Correlation` has tasks in contexts that outlive requests: they serve HTTP
requests, unary and streaming RPCs and spawned tasks, and call each other. An
id may come with a request or is made. An RPC takes two steps to run: both
interceptors look its handler up and wrap it (`ServeRpc`), unless there is no
handler or it has no behavior, and the wrapper starts (`StartRpc`) once gRPC has
read the request; until then it may end, unbound and unrecorded (`Drop`). A
stream may be suspended while a message is written and be abandoned there.
`origin`, `found` and `last` are history: the request at the head of the chain,
what an RPC found bound, and how far the last RPC came.

`MCCorrelation` checks `Correlated` (a task has the id of the head of its chain
and of no other, in context, scope and header alike), `LeavesNoTrace` (an RPC
gives back what it found) and `RecordedOnce` (the duration of an RPC whose
wrapped handler started is recorded once, however it ends, and that of any other
never). That "every inbound call" is recorded does not hold
(`MCCorrelationDropped`, section 12). Bounds: three tasks make chains of three,
four ids let a chain meet a request and a worker's id of its own; tasks are
symmetric; 1.7 million states. The run may stop when the ids are used up and
nobody serves, so it does not check deadlock. No fairness is needed: all three
are safety properties.

## 12. Findings, and divergences seen on the way

`MCCircuitBreakerLeak` is the finding: a run that ends with a counterexample to
what the code says of itself. The other rows are configurations that anybody can
run in the same way (`tlc -config <name>.cfg <module>`) and that end with one too;
they are kept beside the regular runs, whose properties carry the condition that
excludes them.

| Configuration, property | What happens |
|---|---|
| `MCCircuitBreakerLeak`, `ProbeInFlight` | a probe cancelled inside `call()` or the transport books nothing and keeps its slot; the breaker then answers "probe in flight" (`circuit_breaker.py:101`) until it is reset by hand |
| `MCCircuitBreakerLate`, `ProbeDecides` | a call that was under way before the circuit opened decides the half-open round (`circuit_breaker.py:37`, "one probe call is allowed; success closes, failure re-opens") |
| `MCRequestStackTimeout`, `TimeoutReleases` | a handler that times out is cancelled, which `except Exception` does not see: the reservation stays although it "must go" (`idempotency.py:214`), and retries get 409 until the TTL |
| `MCRateLimitOutage`, `RemainingIsTrue` | while Redis fails, X-RateLimit-Remaining says `times`; who trusts it "to pace themselves" (`http/middleware/rate_limit.py:57`) meets the old count when Redis is back |
| `MCShutdownKilled`, `UnwindsOnShutdown` | SIGTERM during startup, or a forced exit after one, kills the process with its resources up, though the lifespan "unwinds on failure/shutdown" (`lifespan.py:41`) |
| `MCEndpointHidden`, `AuditSeesEveryRoute` | an open route outside the OpenAPI document (`include_in_schema=False`; mounts and websockets alike) passes an audit that is to "prove that no route was left unauthenticated" (`testing/routes.py:1`); `/problems` and `/metrics`, which it lists as public, are such routes |
| `MCCorrelationDropped`, `EveryCallRecorded` | an RPC without a handler, or that ends before it starts, is not measured, though "every inbound call" is (`grpc_metrics.py:43`) |

Reading and modelling the code showed other differences from its documentation.
The models have the behaviour of the code, and the properties carry the
condition that excludes it:

- idempotency: "exactly one wins the reservation and runs"
  (`idempotency.py:137`) fails when the key vanishes between `SET NX` and `GET`,
  and when the TTL ends under a slow request (`Undisturbed`);
- a `SET NX` that `retry_on_timeout` sends again finds its own marker, and its
  request is answered "still in progress" (`idempotency.py:142`, `179`);
- a 503's "retry with the same key" (`idempotency.py:103`) may leave a marker that
  answers the retry with 409 until the TTL;
- a disconnect in the middle of the body claims the key with what had come
  (`idempotency.py:279`), and the client's honest retry is told that its body
  differs;
- X-RateLimit-Reset names a second in which the window may still be closed
  (`http/middleware/rate_limit.py:85`);
- a factory that raises LockAcquireError runs twice (`cached.py:204`);
- `Cache.get` returns the internal marker of an entry that does not decode, where
  its docstring says "``None`` on miss" (`cached.py:127`);
- a resource that fails half way through its own start is not shut down, and a
  second health check of the same name replaces the first (`http/health.py:53`);
- a valid token without `sub` is a KeyError and hence a 500 (`keycloak.py`), and
  a non-ASCII X-API-Key a TypeError;
- a malformed JSON body is answered 422 before authentication; a route with both
  `optional_user` and a guard decodes the token twice; the audit takes
  `optional_user` for protection;
- a stream that is abandoned while its message is written is recorded when the
  garbage collector closes it.

## 13. Proofs

Proved for all values of the constants that the modules' assumptions allow: the
safety of sections 3 to 11. That is every invariant and every action property of
a passing run, and that `RateLimit` refines `RateWindow`. Each proof has the same
shape: the properties of the runs are not inductive, so a stronger invariant is defined, proved of `Init` and of each
action, and shown to imply them. TLC checked each of these invariants on the
run's instance first.

`RequestStackProofs` has four invariants for the middleware and one for the
stack.

- `TInv` is `TypeOK` with the bookkeeping between `pc`, `status`, `kept`, `sent`
  and `answer`: how much was kept and when `tooLarge` must be set, that a
  request that has not claimed has no status, and that `buf` is a prefix of the
  body. Each step preserves it (`StepTInv`), which gives `TypeCorrect`.
- `OInv` adds `KeyHeld`: while undisturbed, whoever executes holds the in-flight
  marker, so two executing requests are one (`OneRunAtATime`); and since only
  the holder records or deletes, a record is not touched (`RecordStays`).
  `MarkersAreServed` is the converse, for runs without faults.
- `RInv` says that every stored record and every replay describe a response
  that was sent whole (`StoredTrue`, `ReplayedTrue`). It needs no proviso about
  failures: a record is written only after its request returned, and nothing
  changes `status` and `sent` of a request that has returned.
- `CInv` adds that whatever is stored was put there by a request that had read
  its whole body and claimed the key, as far as no reply was lost and nobody was
  cancelled (`StoreReserved`); so a 409 for a different body, sent while no
  client had gone, names a real conflict (`ConflictsAreReal`). With a lost reply
  the other request may not know that its claim succeeded, which is why the
  property asks for the claim only without one.
- The stack: every action is an action of the middleware or a stutter on its
  variables (`LayerStep`), so the theorems above hold inside it, as
  `StackReplaysAreFaithful`. `SInv` is about the layers themselves. A layer's
  step concerns one request alone, so its main part, `RequestInv`, is stated and
  preserved per request: nothing was sent while there is no answer (`Silent`), the
  status that went out is the one that will be reported (`OnWire`, `Observed`),
  the scope is armed only before the first byte (`Clock`), an over-long body was
  told so (`Told`). Only the gauge counts all requests (`Gauge`), by the theorems
  about finite sets. It gives `OneAnswerEach`, `StatusIsObserved`,
  `OversizedIsRefused`, and the safety half of `DeadlineHolds`
  (`StreamsAreSpared`).

`CircuitBreakerProofs`: `BInv` adds to the types that slots exist only
half-open and cover the probes under way (`SlotsTaken`), and that the last probe
is at least as long ago as the circuit is open, so that probes admitted without a
pause since have slots of one round (`Rested`). Nothing is assumed of how long a
call takes. From it follow `TypeCorrect`, `ClosedCircuitBelowThreshold` and
`ProbesAreSpaced` (`Spared`) without conditions, and `SlotsAreProbes` when no
cancellable call uses `call()` (`Booked`). `MCCircuitBreakerLeak` shows that this
condition is needed.

`CacheProofs` has the lock and the cache. `LInv`, the lock's invariant, adds to the types that an extension task lives only
while its task is in the block or reaping it (`ExtendersServe`), and that the
key it extends is its own and was reset at most half of the TTL and `MaxDelay`
ago, unless one was late (`ExtendersOwn`). The latter needs `Prompt`: `MaxDelay < HalfTTL`, without
which the key lapses between two extensions. `LockIsHeld` rests on it; `LockTypeCorrect`, `NoLeak`
and `TokensProtect` hold without it. A step of `get_or_set` is one of the lock's,
or counts a failure of a command of its own and leaves the lock alone
(`LockMoves`), so `NothingLeaks` and `OthersUntouched` hold inside the cache
(`LockInCache`). `LockHeld` says nothing there: the cache takes its lock without
auto_extend.

`KInv` is the cache's. It says that whoever
computes owns the lock's key until somebody goes on without it (`Guarded`); that
until a value is lost the one that was computed is in Redis or on its way
(`Filled`); that who raises was cancelled or raises what its factory threw (`Excused`);
and that no value stored, on its way or about to be served is older than it may
be, unless an invalidation found one on its way (`Fresh`). It gives `OneFillOnly`,
`NoStaleService` and `CacheIsOptional`: whatever fails in Redis, in the lock and in
the serializer, before the factory ran or after, a call fails with what its own
factory raised or its own cancellation only. That it also runs
its factory once (`ServedOnce`) is proved for factories that raise no
LockAcquireError of their own (`NotBusy`), because `get_or_set` would take that
for the lock's and compute again (section 12).

`RateLimitProofs`: `AInv` says of each key how the store bounds what it granted
in the last window. For the sliding window, every grant has a member of the log
that is no older (`Covers`). For a counter the proof is about the grants it does
not know of, those of the window before: there are at most `times`, and all of
them are at least as old as the counter's window, so that they are over before
it can start again (`Balances`). This is where "twice as many" comes from. The
other half is about the client: who was promised more by a count would not be
refused (`Promised`), and who was refused was told to wait for no less than what is left
(`Warned`). It gives `StoreIsBounded`, `LimitIsKept` (the refinement of
`RateWindow`, step by step) and `HeadersAreTrue`. What a log loses when it is cut
at the window is a lemma (`CutIs`) proved from the least element of a set of
numbers, because induction itself is out of the provers' reach; `Live` and
`RateWindow` name that element with CHOOSE for the same reason.

`ShutdownProofs`: `UInv` says what the phases have in common: nothing is stopped
before the unwinding (`NothingStopsEarly`), what is in flight was let in by a
listener or a gRPC server that is up (`LetIn`), a resource stops after the
gRPC server, or after that failed to (`GrpcWentFirst`), and a process that served
is killed only when its exit is forced (`ServedFirst`). It gives
`UnwindsCleanly` and `NothingClosedUnderfoot`, for any number of resources and
any failures. `DInv` follows the balancer through the drain: one tick after the signal
a probe answers 503 (`ProbeSees`), one later nothing is routed here any more
(`BalancerFollows`), and with one signal the loop exits after that (`ExitsLate`).
Hence one signal is graceful (`OneSignalIsGraceful`) when the drain delay covers
both probes (`Covered`: `Delay >= 2` ticks), the shortest delay that TLC finds to
work.

`TokensProofs`: `PInv` says who holds the provider's lock, that a request is
made only for want of a good token, and that the token in flight has lost as
much of its life as its answer took; with the module's assumption that the
leeway covers this delay it gives `ProviderIsSound`, for any number of callers.
`KeysAge` (a cached key set without the current key is no younger than that key)
gives `ValidatorIsSound`.

`CorrelationProofs`: `CInv` is the types, `Correlated`, `RecordedOnce`,
`SavedIsFound`, which says that what an RPC will restore is what it found, and
`CarriesId`, which says that an RPC waits for its start with the id of its request
and an untouched context. Without them the steps that start and end an RPC prove
nothing about `Correlated` and `LeavesNoTrace`. `StartedAreRecorded` is
`RecordedOnce`.

`EndpointProofs` has three parts.

- Recursion. `Check`, `Describe`, `Join` and `Reads` choose a function that
  satisfies its own equation; nothing can be said of them before such a function
  is known to exist. `Recursion` proves it for any equation that asks for values
  at smaller heights only (in numbers: `Heights` of rules, lengths of texts), from
  the least element of a set of numbers (`Smallest`), which takes the place of an
  induction. `CheckIs`, `DescribeIs`, `JoinIs` and `ReadsIs` are the equations.
  `OperatorsMean` says that `|` and `&` are the disjunction and conjunction of
  their operands however `_flatten` splices their parts ("the nested form
  evaluates the same"), `RequireRolesMeans` what `require_roles` demands.
- The request. `IInv` says what it means that a dependency is in FastAPI's cache
  (`Met`: `current_user` that the token is good and `user` are its claims, a rule
  that these claims meet it), that each declared one is solved or still to be
  solved at its level (`Progress`), that decodings are counted by the callables
  solved (`Counted`), and what can have been raised and why (`Raisable`,
  `Reported`). It is needed because none of the properties says anything of a
  request that is half way: that a handler is guarded follows from the cache only
  if the cache was earned. It gives `AdmissionHolds` and `ProblemsHold`, for routers
  nested to any depth.
- The text. A text in brackets or without operators is `Closed`: at its top level
  nothing can be cut. A text that joins closed ones has their operator alone at
  its top level and them as its pieces (`JoinShape`, from how the depth moves
  through a text that is put together), so its reader makes of it what its
  operator makes of them (`JoinReads`); `_wrap` closes whatever is balanced
  (`WrapCloses`). Over the heights of rules this gives `DescriptionsTrue`: the
  description of every rule says what `check` says. `RuleAsStatedHolds` follows.
  Both have the hypothesis that custom predicates are described as what they are
  (`HonestCustoms`, `Honest`): the code cannot know, and without it neither holds.

Only model-checked: liveness, which needs ENABLED: `MarkerResolved`, the half of
`DeadlineHolds` that says a first byte or an end comes in time, `Recovers`,
`Freed`, `Answered`, `ServedAgain`, `Ends` and `Served`.

## 14. Not modelled

`PROJECT.json` gives the reason for each part. In short: step 9 of the plan is
still to be written; settings, security headers, telemetry, logging, retry
policies, migrations and test helpers configure other libraries or have no
behaviour over time worth a model. `Cache.get` and `clear` on their own,
`blocking_timeout=None`, the choice of a rate limiter's key and the response
envelope are left out of parts that are modelled.
