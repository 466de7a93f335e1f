# NeuralMesh: a TLA+ verification project

NeuralMesh is a mesh of eleven small services that is meant to heal itself: a
health monitor polls them, an aggregator has an AI service score their
telemetry, a healing orchestrator trips circuit breakers and restarts or
reroutes, a notification service tells people, and a dashboard shows it all.
This directory holds TLA+ models of the services that keep state, TLC runs that
check them on small instances, and TLAPS proofs for every instance.

Paths below are relative to the repository; services live in `services/`.

## 1. The system

Every service keeps its state in memory. Kafka, Redis, Postgres and the
container runtime are outside the repository; only the notification service,
the gateway's socket hub (consumers) and the auth service (audit producer)
talk to Kafka at all, and the health monitor and the aggregator put their
"events" into HTTP answers and in-memory lists only.

| Component | State | Operations | Talks to | Hard behaviour | What makes it correct |
|---|---|---|---|---|---|
| healing-orchestrator (Python) | a circuit breaker and a reroute flag per service, event history, circuit gauge | anomaly, scale, circuit success / failure / read | called over HTTP | state spread over four fields, two clocks, no timer, bounded history | the fields agree; a circuit opens, waits and closes as promised; incidents in the history are complete |
| worker-service (Python) | three FIFO queues, completed and failed lists, depth gauge | submit, tick, status, get | called over HTTP | retry inside an except block, strict priority, arithmetic on dates | each job is in exactly one place; attempts and outcome agree; every job ends |
| health-monitor (Go) | registered addresses, latency rings, counters, scores, events, one RWMutex | register, loop, check, four readers | polls every service over HTTP | overlapping checks, stale addresses, readers that hold the lock while a client reads | scores and events agree; percentiles are of the last samples; outages get noticed |
| notification-service (Node) | dedupe map, history, Kafka position | two POST handlers, eachMessage | Kafka, SMTP, webhooks | mark-then-await, failing sends, crash with uncommitted offsets | one send per window; no message lost |
| auth-service (Node) | users, refresh tokens in memory and Redis, blacklist | register, login, refresh, logout | Redis, Kafka audit | check-then-await, two replicas, partial failure of revoke | a token is exchanged once; a revoked one is dead |
| api-gateway (Node) | sliding window per caller in Redis, routing table, public key of the auth service, dashboard sockets and their Kafka consumer | start, limit, verify, proxy, put routes, emit | Redis, auth service, Kafka, every service | pipeline without a transaction, several gateways, table and key read once, rejected promises that end the process, rebalances | at most *limit* requests per window; a gateway comes up, gets its key and sends where it says; no event is passed over |
| data-service (Python) | idempotency records with an expiry, write / read / event models | command, queries, replay | called over HTTP | replays, expiry, tenants | a replay writes nothing; the three models agree |
| metrics-aggregator (Python) | a window of 60 points per service | ingest | AI service over HTTP | await in the middle of ingest, failing AI calls | windows hold the last points; what is scored is what was received |
| ai-service (Python) | none after start | score, predict-scale, root-cause, drift | called over HTTP and gRPC | thresholds, rounding | decisions follow their thresholds |
| user-service (Node) | profiles | CRUD with soft delete | called over HTTP | PATCH may assign any field | a deleted profile stays deleted; only its tenant changes a profile |
| chaos-service (Python), chaos/ CLI | bounded list of runs | run | docker (CLI) | - | - |
| frontend (React) | event buffers, snapshot | connect, push, refetch, merge | gateway over Socket.io and HTTP | events reach one gateway's browsers only; newest first, merged by overwriting | events arrive; the newest event of a service is shown |

The handlers of the Python services are `async def` functions that never await
(metrics-aggregator's `ingest` excepted), run on one event loop, and are
therefore atomic: one action each. In the Node services an action is what runs
between two awaits, in the Go service what runs under the lock.

The list `hazards` in `PROJECT.json` names, line by line, what is hard to test
in this code and which property covers it.

## 2. Modules

| Module | What it is |
|---|---|
| `BoundedLog` | the newest-first list cut to a length that three services keep (`events[:250]`, `history.splice(200)`) |
| `CircuitBreaker` | the class of the orchestrator as a record and functions on it |
| `HealingOrchestrator` | the orchestrator: handlers as actions, time as an action |
| `BreakerContract` | abstract: what a breaker promises its callers, without its three states |
| `WorkerService` | the worker service |
| `JobLifecycle` | abstract: what happens to a job, without queues |
| `RWMutex` | Go's `sync.RWMutex`: pending writer, readers inside, readers turned away (external) |
| `RingBuffer` | the latency ring and the percentiles |
| `HealthMonitor` | loop, concurrent checks, registrations and readers around the lock; uses the two above and `BoundedLog` |
| `NotificationService` | deliver, the HTTP handlers, the Kafka consumer, crashes |
| `RateLimiter` | the gateways' sliding window for one caller, over Redis or in memory |
| `AuthSessions` | users, refresh tokens and revocation over two replicas and Redis |
| `GatewayEdge` | gateways through start, crash and outage: routing table, public key, whom they let in |
| `Dashboard` | the gateways' hubs as one Kafka consumer group, sockets, the browsers' buffers and what they show |
| `UserService` | profiles under POST, PATCH and DELETE of several tenants |
| `DataService` | commands, idempotency records, the three lists |
| `CommandLog` | abstract: a log of accepted commands, without records and lists |
| `MCPlatform` | the four modules before `CommandLog` in one instance, see below |
| `MC*` | instances for TLC |
| `BoundedLogLemmas`, `*_proofs` | theorems |

Definitions whose comment begins with *Slip* are not part of a model. Each is
a changed form of the definition below it, the kind of mistake the code could
contain; `PROJECT.json` (`mutants`) pairs every checked property with the slip
that breaks it.

### HealingOrchestrator

`breakers`, `reroute` and `events` are the dictionaries and the list of
`main.py` and `state.py`, `gauge` the last value set on `CIRCUIT_STATE`.
`HandleAnomaly`, `Scale`, `CircuitSuccess`, `CircuitFailure` and `Circuit` are
the handlers of the same names; reading a circuit is an action because it
ticks the breaker and drops an expired flag. `opened_at` and `expires_at` are
kept as ages, which `Advance` lets grow until no comparison can tell them from
larger ones. A missing breaker is a new one: `breaker_for` creates exactly
that. The two action counters are left out.

### WorkerService

`jobs` maps ids to the job dictionaries, `queues`, `failed` and `completed`
hold ids. `process_one` is one action with three ways to end (`Complete`,
`Reschedule`, `DeadLetter`), and sets the gauge last as the `finally` clause
does. `force_fail` stands for whatever makes a job raise. `delayed` holds the
jobs whose `next_run_at` lies ahead: `Reschedule` writes it, nothing in the
service reads it, and `Due` is the time coming. `Reschedule` also has the path
on which `2 ** attempts` seconds overflow a `datetime`: `DateLimit` is the
first attempt for which they do (38 on any date of this century).

### HealthMonitor

`Tick` and `Snapshot` are `Loop`; `Answer`, `LockToRecord` and `Record` are
`Check` before, at and under the lock, for one goroutine `p`; `LockToRegister`
and `Register` are the registration; `Read` and `Sent` a handler that holds the
read lock while its client takes the answer. `health` is what each address
would answer and changes at will (`Shift`). The history variable `samples` holds
the last `RingSize` latencies of a service, against which the ring is checked.
`checks` and `failures` are left out, and with them the error and uptime rates
and the health score, which are computed from them and rounded to two decimals
(after 200 good checks a first failure still shows an error rate of 0.00, so the
figures say less than the status beside them). No property is about those
figures, and without the counters the state is finite with no bound on the number
of checks, so that the liveness property is about a loop that really runs for
ever. The percentiles of a score are rounded as well; rounding keeps the order of
values, so that a percentile of rounded latencies is the rounded percentile, and
`Latencies` are the rounded ones. The rank of a percentile is computed in floating point in
the code; for the percentiles used (50, 95, 99) and up to 120 samples that is
the exact rank.

### NotificationService

A request is `idle`, `sending` (the channel is awaited), `sent` (201), `deduped`
(202) or `broken` (the process died). `Consume` is `eachMessage` up to the
await, `ConsumeSent` and `ConsumeFailed` after it. `PostFailed` ends the
process: express 4 does not catch a rejected handler and node exits on an
unhandled rejection. `dedupe` holds the keys younger than five minutes in the
order they were marked, which is the order they expire in. `Start`, `Commit`
and the rule that one message is delivered at a time are kafkajs defaults
(external). `Boot(FALSE)` is the caught connection error that leaves the
service running without a consumer. `outcome` and `begun` are history
variables. Kept abstract: an alert is its dedupe key; a channel that answers an
HTTP error status counts as sent, since `fetch` does not reject it.

### RateLimiter

One caller, that is one Redis key. A request reads the clock (`Begin`), its
four commands `Remove`, `Add`, `Count` and `Expire` run one at a time between
those of other gateways, and `Break` is the connection lost in between: a count
that never came back is `undefined`, and `undefined <= limit` is false, so the
request is rejected (`failed`). A sorted set without members is no key any
more and has no expiry (`Remove`); the key expires with the clock (`Advance`).
`store` is what `createRedis` returned: with `MemoryRedis` the four commands
are one action (`Exec`) and nothing expires. `MaxDelay` is how long a request
may take from its clock read to its answer; it enters the property, and TLC
finds a counterexample for any wider window. `lost` are the requests whose entry
was in the set between its `zadd` and its `expire` when the key expired: a
handful of requests may pass uncounted at that instant, which is why
`AllowedWithinLimit` excepts them and `CompletedEntriesLast` says that it can
happen to no others. Clocks of gateways and Redis are one clock; one that is
behind is a longer delay.

### AuthSessions

A request is at the await it is named for: `hashing`, `comparing` (bcrypt),
`getting`, `deleting`, `saving` (Redis); `got` is Redis' answer on its way back,
which may be stale when it arrives. A token is a number, `issued` the history
of who got it where. Tokens expire in Redis only (`Expire`): nothing compares
`expiresAt`. The key `blacklist:<token>` is set and never read, so it is no
variable. A Redis command that fails ends the process (`RedisFails`), as in the
notification service. Signing and the audit event come after the last change
of state and are part of `Save`. The mode without Redis (tests, development) is
left out: there a refresh is one action and a second replica knows nothing.

### GatewayEdge

`phase` is `starting` from the launch of a gateway to `attachProxyRoutes`, which
attaches the table of that moment for the life of the process (`Serves`), and
`serving` from then on; whatever rejects `createApp` ends the process (`Exits`).
`key` is `publicKeyPromise`: `Fetch` is one round of the loop in
`loadPublicKey`, `GivesUp` the rejection (or `null`, where unsigned tokens are
allowed) after `Attempts` of them. A rejection that nobody handles ends the
process, one that a request has awaited does not (`Await`, `Survives`): the
gateway then lives on without a key. The auth service makes a key pair at every
start (`AuthStarts`), and several of its processes may run (`signing`), each
with a pair of its own. `routes` is the key `gateway:routes` in Redis, or in
each gateway's own memory (`inMemory`), which expires after an hour.
`RoutesRejected` is a handler that meets a dead Redis. `accepted` and `moved`
are history. Public paths, roles and the proxied request itself keep no state.

The documentation calls the routes "hot-reloadable without restart"
(`docs/source-documentation.md:230`): what is put is read by the next start only.
`TableAsReported` says when the table in use is the one that is reported.

### Dashboard

All gateways use one `groupId`, so Kafka assigns a topic to one of them
(`Rebalance`), and an event reaches only the browsers of that gateway. `Emit`
is `eachMessage`; a message that is not JSON makes it raise and is delivered
again, for ever, so it enables nothing. `next` and `resolved` are the position
and what is to be committed, `offset` what is. A hub whose consumer could not
connect is `deaf` for the rest of its life. In the browser, `Emit` pushes into
the buffer its listener fills (`Buffer`), and `Shown` is what `App` makes of
buffer and snapshot. The event `snapshot` that a hub sends on connection has no
listener; `notification.sent` has none either. `contracts/topics.md` also lists
`healing.failed` and `service.down` for the dashboard; no hub subscribes to
them.

### UserService, DataService

One action per handler that changes something; restarts begin with nothing. A
PATCH body is any set of fields with any values (`Body`), as the handler assigns
what it gets: a profile may be handed to another tenant, deleted or given the
id of another by it. `keys` and `caller` are history. Replicas share nothing:
another one is another instance. The events of the data service are `CommandLog`'s log, the keys its lists were written under its
`under`, the records that have not expired what it has `remembered`.

### MCPlatform

These four parts of the system share no state, so an interleaving of them is,
for the variables of each part and its properties, a behaviour of that part with
stuttering (`EachPartByItself` proves it). `MCPlatform` therefore picks one part at the start (`part`) and lets
only that one take steps: the states add up instead of multiplying, and nothing
any property could see is lost. The liveness properties of the gateways speak of
the runs in which that part was picked; the others hold trivially where their
part stands still.

## 3. Runs

| Run | Shows | States |
|---|---|---|
| `healing` | all invariants of the orchestrator, `ContractSpec` (it implements `BreakerContract`), `Recovers` | 290 000 |
| `worker` | all invariants of the worker service, `LifecycleSpec` (it implements `JobLifecycle`), `EveryJobEnds` | 106 000 |
| `worker_overflow` | **violated**: a job with 40 retries vanishes at attempt 38 | - |
| `health_monitor` | scores, events and rings of two services agree under every interleaving | 871 000 |
| `health_verdicts` | the score of a service settles on what its current address answers | 231 000 |
| `notification` | deduplication, crash safety and progress of the consumer | 161 000 |
| `rate_limiter` | limit, rejections and entries of the sliding window under interleaved and broken pipelines | 1 770 000 |
| `auth_sessions` | where and when a refresh token is accepted and refused | 1 240 000 |
| `auth_rotation` | **violated**: one refresh token exchanged for two | - |
| `notification_lost` | **violated**: a failed alert is committed and gone | - |
| `platform` | gateways: who is let in, where requests go, that they come up and get their key; hubs and browser: nothing passed over, events arrive; profiles stay deleted and at home; `CommandLogSpec` (the data service implements `CommandLog`) | 411 000 |
| `dashboard_stale` | **violated**: a service whose newest event is red is shown by its oldest | - |

The four violated properties are claims of the repository's own documents that
the code does not keep; `findings` in `PROJECT.json` quotes them.

**Bounds, and why they are enough.**
*healing*: two services, so that one may act between two steps of the other;
threshold, successes and history length 2 (first, last, and one past the
last), cooldown and flag lifetime 1, so that every stamp can be fresh, just
due and overdue; at most `MaxFailures` = 3 failures are counted in a row, one
past the threshold, after which a breaker only repeats states. *worker*: three
jobs, one for each priority or all in one queue; `max_retries` -1 (accepted by
the code) and 2. *health_monitor*: two services, two goroutines, two latencies,
a ring of 2 (wraps, and p50 differs from p95), 3 events (a pair and half of the
next). Goroutines and services are symmetric. *health_verdicts*: one service,
two addresses, two overlapping checks, one reader; rings do not matter to it and
have one slot. *notification*: two alerts, two requests, two messages (one
committed, one not), one crash from outside besides those the requests cause.
The bound on goroutines (`Tick` waits for enough idle ones) is the only one
that keeps the system from doing something; in the code it takes longer for
checks to pile up, nothing else.

*rate_limiter*: four requests against a limit of 2, so that both sides of
the limit and an old entry occur; a window of 3, a delay of 1, and time up to 5,
so that a key set at 0 or 1 expires and another window begins. *auth_sessions*:
two replicas that start twice each, one email, two users (the second registers
the same email), two tokens, two requests at a time; *auth_rotation* has a third
token and no restart.

*platform*, gateways: two of them, so that tables and keys of different ages
meet; two key pairs; one usable and one unusable table, of which one is put; one
attempt for the key (ten in the code: only the first and the last differ); one
crash from outside besides those the code causes. Hubs: two, with one crash, two
messages on a topic that is shown and one that is not, a browser with buffers of
one event, so that the second message replaces the first. Two tenants besides a
`Limbo` no request comes from, two profiles. Two tenants, two idempotency keys and
three commands, so that a key expires and comes back with another key's command
in between. *dashboard_stale*: two scores, two messages, a buffer of two.

`CHECK_DEADLOCK FALSE` is set for the notification, limiter and session runs:
with their requests, messages, tokens or time used up nothing is left to do. It
is set for *platform* because two serving gateways that gave up their keys may
be left with no auth service to start and no crash to suffer.

**Fairness.** *healing*: time goes on (`Advance`), and a service that works goes
on reporting successes; `Recovers` assumes its failures stop. *worker*: somebody
keeps calling `POST /workers/tick`, as a scheduler has to (weak fairness of
`process_one`; nothing in the service does it). *health_verdicts*: the loop's
ticker fires, a GET ends (the client has a 2 s timeout), a registration or
check that has the lock runs, a waiter on the mutex is served in turn (strong
fairness of `LockToRecord`; Go's mutex hands over in FIFO order to starving
waiters), and a client takes its answer or its connection breaks (`Sent`). The
last one is an assumption on the environment, not the code: the server sets no
write timeout, and with a client that stops reading for ever the monitor
stalls. *notification*: the consumer polls and a channel answers or fails;
`EveryMessageHandled` only speaks of runs in which the process stays up and
subscribed from some time on. *platform*: the runtime starts a gateway that is
down (the chart makes every service a Deployment, whose pods are restarted), the loop of
`loadPublicKey` and a start that cannot succeed go on, a key in Redis expires.
`Serves` has strong fairness: of infinitely many starts during which Redis
answers at some moment, some start reaches it at such a moment; weak fairness
would allow the loop to give up first every time. An owner of a topic polls
(weak fairness of `Emit`). Nothing is assumed of the auth service, Redis,
rebalances or browsers beyond what each property says before its arrow.

## 4. Proofs

All theorems hold for every value of the constants that satisfies the modules'
assumptions (`BreakerAssumption`, `HealingAssumption`, `WorkerAssumption`,
`LimiterAssumption`, `AuthAssumption`, `NotificationAssumption`,
`MonitorAssumption`, `EdgeAssumption`, `DashboardAssumption`,
`MalformedAssumption`, `UserAssumption`, `DataAssumption`). The last seven mostly
say that placeholders such as `None` are not among the values they stand beside.

*HealingOrchestrator_proofs.* `IInv` is the conjunction of the type invariant
and the three safety invariants; they are inductive only together with types,
and `BreakerConsistent` carries the rest: a half-open breaker still has its
failures, so any failure re-opens it with a fresh stamp, which is why a flag
set in the same step is never younger than the circuit (`RestartsCooldown`) and
why every failure of a tripped circuit is a `Trip` of the contract
(`ImplementsContract`). `HealingAssumption` asks that a flag lasts at least a
cooldown (60 s and 30 s in the code). The history invariant rests on
`PushProperties` (`BoundedLogLemmas`): a push onto a log whose newest entry is
no unfinished start, and a push of a pair, keep pairs together through the cut.

*WorkerService_proofs.* `IInv` says, list by list, that no job occurs twice
(`Apart`), that a job on a list has a status and priority that belong there,
that the gauge is exact and that attempts tell. The converse, from a job's
status to its list, is `PlaceOfStatus`, which excepts a job whose backoff no
datetime can hold (`Overflown`), and with that exception is inductive for every
`max_retries`. Two theorems follow without any assumption: `OverflowLoses`, that
a job is lost exactly when it is `Overflown`, and `EndsForGood`, that a completed,
buried or lost job keeps its status, attempts and place. `Placed` and
`ImplementsLifecycle` assume that no job can overflow (`NoOverflow`, every allowed
`max_retries` is below `DateLimit`; `NoneOverflown`), and the run
`worker_overflow` shows that they must. `ImplementsLifecycle` reads the phase of
a job off the lists, so it says that no job is ever lost or run again after it
ended.

*RateLimiter_proofs.* `IInv` needs no order on the counts. At the moment a
request is counted, every request let through so far whose clock is less than a
window old still has its entry (`Present`), unless it is in `lost`; so the count
is at least their number, and if the request is let through, that number is at
most `Limit` (`CountKeepsBoth`, for Redis and memory alike). Conversely the
entries counted are all younger than the window (`Young`: those left by the
request's own removal, and those added since by requests that read the clock at
most `MaxDelay`, less than a window, ago), so a rejected request has `Limit`
others in its window. `KeyHeld` bounds the key's expiry from below by every
completed entry and from above by the present, so that `expire` only ever puts
it off.

*AuthSessions_proofs.* Why is a token accepted by the one process that issued it?
Not because of sessions, which Redis has for everybody, but because of users.
`OneHome` says that there is a map from user ids to processes (a replica and the
number of its start) such that every user known to a replica, every request
under way and every token issued agrees with it. It is an existential, and the
proof of each step gives the map or its extension by a new id (`RegisterKeeps`).
`AcceptedAtHome` follows, since `Accept` looks the user up. `RevokedAtHome` says
that while its home runs, a token the home began to revoke is on its blacklist,
and one that left its memory was revoked by somebody; a request that came in
after that is nowhere near the home any more (`Away`), and so cannot be accepted
(`RevokedFinal`); conversely the home refuses only what was revoked, or what it
lost the user of (`RefusedJustly`). `OnlyAccept` and `OnlyRefuse` show that no
other step looks like these two. `ExchangesAtHome` is what remains true beside
the finding of *auth_rotation*: two refreshes may both hand out a token for the
same one, but each of them ran in the process that issued it, for its user, and
had begun to revoke it there before (`Carries` says so of a request on its way).

*NotificationService_proofs.* `TypeCorrect` needs `TInv`, that no offset or
position is beyond the topic's end. `SentOnce` rests on `OnceMarked`: a key is
marked at most once, and exactly one send was begun for each key that is marked.
`CrashesKeepMessages` rests on `HandledBehind`: everything before the consumer's
position has an outcome, and no more than that is resolved, so no commit can pass
over a message.

*HealthMonitor_proofs.* A check changes scores and events at once, and
its lemmas say what it does to the log (`EmittedUp`, `EmittedDown`: a push of one
and a push of two, each cut at the length): pairs stay pairs
(`AnnouncedKept`), and the first event of a service in the log is its last check's
(`AgreementKept`); a service whose last event the cut takes leaves a full log
behind. `WriterAnswered`, that a goroutine with the lock has its
answer, is what makes the recorded status one.

`LockAlwaysGoesOn` says that nobody is stuck in or before the RWMutex: readers
wait for a writer only, a writer whose turn it is has what it needs, and the loop
finds an idle goroutine for each service of its snapshot although a registration
and checks may come between its tick and its turn. `LoopInv` carries that: the
services that a waiting loop may find (`Expected`) fit into the idle goroutines
(`Fits`), and no step lets more in or takes one of them away. It assumes
finitely many services and goroutines, which the counting in `Tick` needs to
mean anything.

`ScoresShowLastSamples` has three parts. `WindowInv`: the ring, read from `next`
on when it is full, is the window `samples`, wherever it wrapped. Sorting:
`Values` in `Ascending` order are chosen as a permutation, so there has to be
one; it exists because one more value can be inserted into an ordered sequence,
and the shortest window without an order would be one longer than one that has
it (a least counterexample, since induction over data is out of reach). Counting:
in an ascending permutation those below the value at the rank stand before it,
and those up to the rank are not above it, which is the definition `IsPercentile`.

*Platform_proofs.* The user service: a PATCH keeps a profile a profile, and needs
one that is not deleted (`DeletedForGood`); every handler compares the tenant
first (`ChangedAtHome`). The data service implements `CommandLog`
(`ImplementsCommandLog`): records point into the lists, whose lengths are equal
(`DataTypeCorrect`). `ListsAgree` says that events, metrics and the tenants'
read models are three views of one list, and that a record answers with the last
metric written under its key, through expiry and reuse of keys.
The gateways: a key that is loaded, or given up for `null`, is never replaced
(`AcceptedStays`); a table that was not touched since a gateway attached it is
the one its store gives (`AttachedAsReported`). The hubs: what is resolved or
committed lies before the position, and everything before the position was
emitted (`NothingPassedOver`). The four modules have no variable in common, so
every step of the instance of `MCPlatform` is a step or a stutter of each
(`EachPartByItself`); with the four type theorems that gives `PlatformTypeCorrect`.

Left to TLC: the liveness properties (`Recovers`, `EveryJobEnds`,
`VerdictsConverge`, `EveryMessageHandled`, `GatewaysComeUp`, `KeysArrive`,
`EventsArrive`), which TLAPS cannot prove. Every other property of a passing run
is a theorem.
The four findings are counterexamples of TLC's. The abstract specifications
have no proofs of their own.

## 5. Not modelled, and why

- *metrics-aggregator*: `ingest` appends one point to a bounded window and copies
  it into the request before it awaits the AI service, so concurrent requests
  share nothing afterwards that a property could relate; that a failed AI call
  leaves the point in the window contradicts nothing the repository says.
- *ai-service*: a trained forest and statistics over floats; what is left without
  them are thresholds, one comparison each. The orchestrator's model takes every
  severity and recommendation as input.
- *chaos-service and chaos CLI*: one list in the shape of `BoundedLog`, and shell
  commands on containers.
- *frontend*: the pages render. The chaos button sends no token, so the gateway
  answers 401 and the page shows a result of its own making.
- *auth-service*: the contents of JWTs, the audit event, the mode without Redis
  (tests, development), in which every handler past bcrypt is one action.
- *deployment, observability, contracts, load tests, training*: no behaviour of
  their own. What they configure (one replica of the orchestrator, monitor and
  notification service, two of the auth service and the gateway; two of the worker,
  data and user services, each replica with a memory of its own) is what the
  models assume.
- *the system as one loop*: no service calls the orchestrator, whose
  `/events/anomaly` is left to a caller outside, and nothing in the repository
  publishes the events that the hubs and the notification service consume; a
  composition would have to invent those links. Parts that really share
  something are composed: checks, readers and loop around one lock; gateways
  around one Redis; auth replicas around one Redis; hubs, group and browsers;
  requests and consumer around one `dedupe`.
- Two divergences are described above but have no run: routes are not
  hot-reloadable (`GatewayEdge`), and `next_run_at`, the backoff of a retried job
  (`docs/source-documentation.md:273`), is read by nobody (`WorkerService`).
