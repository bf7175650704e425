# MyPalace in TLA+

Models of MyPalace (the memory service under `src/mypalace`, its Python clients
and its migrations), their TLC configurations, and theorems about them proved
with TLAPS.

MyPalace is a FastAPI server with a second, gRPC door, and a worker program.
They share Postgres, a Qdrant vector store and, when configured, Redis. Several
API processes and several workers may run at the same time. Within a process,
requests are coroutines that interleave at every `await`; nothing in the
process locks anything. No transaction spans two of the stores. That is where
the program is hard, and what the models are about: each action is one stretch
of a coroutine up to its next `await`, with the one statement or store call in
it.

| Component | Code | Modules | State of work |
|---|---|---|---|
| Job queue | `workers/queue.py`, `workers/runner.py`, `job_service.py` | `JobQueue`, `JobLedger`, `JobQueueProofs` | checked, safety proved |
| Memory store | `memory_service.py`, `vector.py`, `cache/` | `MemoryStore`, `MemoryStoreProofs` | checked and proved |
| Event broker | `events/broker.py`, `api/events.py` | `EventBroker`, `EventBrokerProofs` | checked, safety proved |
| Tenancy | `tenancy.py`, `database.py`, `auth/`, `api/tenants.py`, `workers/runner.py` | `Tenancy`, `TenancyProofs` | checked and proved |
| Routes, clients, gRPC servicers | `api/`, `grpc/`, `auth/scopes.py`, `mypalace_client/` | `Surface`, `SurfaceProofs` | checked and proved |
| Gateway: keys, scopes, rate limit, audit | `auth/`, `ratelimit/`, `audit/` | `Gateway`, `RequestsProofs` | checked and proved |
| Memory dynamics | `dynamics/`, `api/dynamics.py` | `Dynamics`, `RequestsProofs` | checked and proved |
| Intentions | `intentions/service.py`, `api/intentions.py` | `Intentions`, `RequestsProofs` | checked and proved |
| Smart ingestion | `retrieval/ingestion.py` | `Ingestion`, `IngestionProofs` | checked and proved |
| Entity aliases | `entity_service.py`, `api/entities.py` | `Aliases`, `RequestsProofs` | checked and proved |
| Start-up and migrations | `main.py`, `database.py`, `alembic/` | `Startup`, `OperationsProofs` | checked and proved |
| Re-embedding | `workers/handlers.py`, `api/reembed.py` | `Reembed`, `OperationsProofs` | checked and proved |
| Export, import, backup | `workers/backup.py`, `api/portability.py` | `Backups`, `OperationsProofs` | checked and proved |
| Sessions, messages, personality | `session_service.py`, `personality_service.py` | `Exchanges`, `OperationsProofs` | checked and proved |
| Episodes and arcs | `episode_service.py`, `arc_service.py` | `Narratives`, `OperationsProofs` | checked and proved |
| Everything else | see *Not modelled* | none | |

`MC<Module>.tla` gives modules their constants for TLC; the `.cfg` files are the
runs. `PROJECT.json` maps every definition to the lines it translates.

The four large parts have instances of their own: `MCJobQueue`, `MCMemoryStore`,
`MCEventBroker`, `MCTenancy`. The others are instantiated together:
`MCRequests` holds those that answer requests, `MCOperations` those that run
behind them; `MCNarratives` has one of them alone. They have no state in common, so a behaviour there is one of a
single part, chosen in the first state by the variable `part`; the other parts
stay as they began. What the parts do to each other in the program is modelled
within the part it matters to (deletions beside an ingestion, revocations beside
calls, requests beside the re-embedding job), and what a call asks for in
`Gateway` is computed by `Surface`.

Definitions whose comment begins with *A slip* (or *Slips*) are plausible
mistakes in the definition that follows them (a dropped guard, a missing reset).
No action uses them; each belongs to a property that must fail when the slip
replaces the definition, so that a property which no mistake could break is
noticed.

A hazard of `PROJECT.json` without a property has a note: the model shows the
behaviour and the code promises nothing about it. Many a hazard with a property
has one too: what is feared does happen in the code, the property excepts just
that (in an auxiliary variable such as `raced` or `cut`, or in a constant such as
`Timely` or `Apart`) and says that nothing else leads there. The note says which
of the two a property is.


## Inventory

### Job queue

* State: rows of `reflection_jobs` (`status`, `attempts`, `leased_until`,
  `created_at`, `payload`); in each worker, where its loop stands and which row
  it claimed; in the API process, the tasks of `job_service.run_async`.
* Operations: `enqueue`, `run_async` (insert and execute in the API process),
  `claim_next`, the reload after it, the handler, `complete_job`, `fail_job`,
  `complete`/`fail` of `job_service`, SIGTERM.
* Interaction: API processes and workers meet only in the table.
* Hard: leases that run out under a handler, a clock read before the claim
  waits, workers killed at any point, statements that raise before or after
  they committed, rows run in the API process that look claimable.
* Correct when: a row is tried at most `worker_max_attempts` times, an attempt
  belongs to one worker, an early failure is retried, the last one is final,
  what is settled stays settled, and everything is settled some day.

### Memory store

* State: rows of `memories`, one Qdrant point per row, `memory_versions`, the
  tenant's events, the cached answers in Redis.
* Operations: create, update, delete, `delete_for_user`, `cleanup_expired`,
  search through the read-through cache.
* Hard: the stores are written one after the other, requests on one memory
  overlap, a process dies between two stores, best-effort writes are lost.
* Correct when: a row can be found, a vector has a row, the trail of versions
  and events tells what happened, and a deleted memory stays deleted.

### Event broker

* State: per process a list of subscriber queues; per websocket a queue, a
  forward task and its Redis subscription.
* Operations: publish, subscribe, forward, send, disconnect.
* Hard: two paths to one client, publications that overtake each other, full
  queues, forward tasks that die, clients that leave unnoticed.
* Correct when: events of a process reach its clients in order, nothing is lost
  but what the design gives up, and a slow client slows nobody.

### Tenancy

* State: `public.tenants`, the schemas, a context variable per task, the tenant
  bound to its key.
* Operations: authentication sets the variable, `resolve_tenant` sets it again,
  `create_task` copies it, a worker never sets it; create, import and delete of
  tenants.
* Hard: the search path falls through to `public` when a schema is missing;
  tenant row and schema are created and deleted in separate transactions.
* Correct when: a tenant's rows are in its schema and nobody else's are, and
  deletion takes only what it was told to take.

### The surface: routes, clients, gRPC

* State: none but the call under way.
* Operations: every method of `PalaceClient`, `PalaceGrpcClient` and
  `mypalace-admin`; every route; every RPC.
* Hard: the same default is written in client signatures, request models,
  servicers and services; scopes are guessed from verb and path in one place
  and listed by RPC in another; routes are matched in the order of inclusion.
* Correct when: a call means the same at both doors, and neither lets a key do
  more than its scopes.

### Gateway

* State: `api_keys`, a sorted set per key in Redis, `audit_logs` and the tasks
  that write them.
* Operations: look up a key, check its scope, check the limit, serve, record.
* Hard: the clock is read before Redis is reached, calls of one key meet in
  several processes, Redis fails before or after it ran the block, keys are
  revoked under way, audit rows are written after the answer.
* Correct when: no more calls pass in a window than the limit, nobody is turned
  away without cause, and an admin call that was answered is in the log.

### Memory dynamics

* State: one row of `memory_dynamics` per memory (review counter, retrieval and
  storage strength), rows of `memory_access_logs`.
* Operations: promote, demote, score (which inserts a missing row), prune.
* Hard: the row is looked up by memory and user although the memory alone is
  its key; requests read it, compute and write it back without a lock.
* Correct when: the counter is what the log says, a memory has one reviewer,
  the strengths are fractions.

### Intentions

* State: rows of `intentions` (fired, fire_once, expires_at).
* Operations: set, check (read, match, mark or delete, publish), delete,
  cleanup of expired ones.
* Hard: two messages checked at once; an intention deleted between the read
  and the commit of a check; an answer that never reaches the caller.
* Correct when: an intention fires once, all matches of a check fire or none,
  and what fired is published.

### Smart ingestion

* State: memories with their vectors, `memory_supersessions`, the "superseded"
  versions and events.
* Operations: `create_batch` with and without inference, `dedup_and_write`
  (skip, write, supersede), the explicit supersede.
* Hard: overlapping requests decide on the same reading; the nearest vector may
  belong to a row that is gone; a request cut short between row, vector and
  supersession; its retry.
* Correct when: nothing is remembered twice or forgotten as a duplicate of what
  was never kept, and of two contradicting memories the older is retired.

### Entity aliases

* State: rows of `entity_aliases`, a map of them in each process.
* Operations: register, resolve, load, delete, invalidate.
* Hard: the map is read, and set, on either side of an `await`; other processes
  never hear of a write.
* Correct when: the map is the table, as far as the design keeps it so.

### Start-up and migrations

* State: tables, columns and indexes in `public`, `alembic_version`, the
  tenants' schemas, the admin keys, where each process's lifespan stands.
* Operations: `init_db`, default tenant, bootstrap key; `alembic stamp` and
  `upgrade`; creating tenants and writing rows meanwhile.
* Hard: processes start together, an image starts before the upgrade, a
  database is from before Alembic.
* Correct when: a version in `alembic_version` is true and upgrades go through.

### Re-embedding

* State: the job's page, offset and count of failures; rows and vectors.
* Hard: pages by offset while rows come and go; objects the session still
  holds; vectors of two models in one collection.
* Correct when: every memory that was there has a vector under the new model or
  is counted, and no vector belongs to another text.

### Export, import, backup

* State: rows, files with their ages, where a pass stands.
* Hard: an export reads table after table while rows change; a pass that dies;
  pruning after exports that failed.
* Correct when: a file has all that was there throughout and nothing of others,
  and pruning leaves a tenant with a backup.

### Sessions, messages, personality

* State: sessions, messages, queued `personality_evolve` jobs, traits.
* Hard: messages added beside a deletion; the other half of an exchange looked
  up after the reply is stored.
* Correct when: no message outlives its session, a job quotes an exchange.

### Episodes and arcs

* State: episodes (Qdrant points, in a collection for each tenant), arcs (rows),
  the jobs that write them.
* Hard: jobs that break off half-way and are run again; overlapping syntheses;
  a bounded scroll in the order of ids; a collection chosen in two places.
* Correct when: nothing is written twice without cause, synthesis sees what is
  recent.


## JobQueue

`JobQueue.tla` has one action per committed statement. `Enqueue`, `RunAsync`
and the `Inline*` actions are the API process. A worker goes
`Poll` -> `Claim` (or `ClaimNothing`) -> `Load` -> `Complete` or `Raise` ->
`Fail`, which is `process_one`. Faults are actions: `LoadLost` and `FailLost`
(a statement raised), `CompleteUnacknowledged` and
`InlineCompleteUnacknowledged` (it committed and raised), `Crash`, `ApiCrash`.

Time is relative. `left[j]` is the rest of the lease; a lease that ran out so
long ago that no clock value in use lies before it equals no lease, `Free`.
`lag[w]` is the age of the clock value a worker read before its claim statement
waited for a connection. `Timely` says that no handler outlasts its lease; it
is an assumption about handlers, not about the code, which never extends a
lease. Handlers are not idempotent in the model: it says nothing of what a
handler did.

`JobLedger.tla` is what a caller may expect: submitted, taken by one worker at a
time, at most `MaxAttempts` times, settled once. `JobQueue!LedgerSpec` states
that the queue implements it under the mapping `Ticket`.

| Run | Instance | Shows |
|---|---|---|
| `JobQueueSafety` | 2 workers, 3 rows (queued, inline, unknown kind), 2 attempts, lease 1, lag 1, 1 fault of any kind, overruns | `TypeOK`, `AttemptsAreCharged`, `FailureMeansExhausted` (`LastAttemptIsFinal`, `FailedOnlyWhenExhausted`), `RowsTellTheWorker` (`LeaseMarksLatestClaim`, `StrandedOnlyByFault`), `SettledNeverReopens` |
| `JobQueueLedger` | 2 workers, 2 rows, lease 2, `Timely`, 2 crashes or lost statements | `OneWorkerPerJob`, the refinement of `JobLedger`, `EveryJobSettles` |
| `JobQueueInline` | an inline row | violated: a worker claims a row the API process is running (api/episodes.py:54-56) |

What the model shows although no run is about it: without `Timely`, a second
worker takes the row of a handler that outlasts its lease, where
docs/deployment.md:152-154 says "no two workers ever process the same job"; and
a worker killed on its last attempt leaves a row that stays pending for ever,
where docs/deployment.md:334-336 says another worker picks it up.
`StrandedOnlyByFault` and `OneWorkerPerJob` say how far the two promises hold.

Two workers are enough for every conflict over one row; two attempts give a
first, a last and the boundary between; a lease of one tick can be over, ending
or running. Two queued rows are needed for one to starve behind the other.

Fairness (`FairSpec`): weak fairness of each worker's own steps, because
`run()` loops for ever, catches what `process_one` raises and every `await` in
it returns; of restarts, because the compose file says `restart:
unless-stopped`; and of time. Nothing is assumed of the API or of faults.

Proved for all constants (`JobQueueProofs.tla`): the five properties of
`JobQueueSafety`; under `Punctual` (handlers are timely, nothing is
acknowledged wrongly, no inline rows) also `OneWorkerPerJob`, `LedgerSpec` and
`SettledIsFinal`. The inductive invariant `IInv` adds `Bookkeeping` to the
properties: an absent row has no attempts, only inline rows are executed
inline, and a worker that takes a failure as permanent has a row out of attempts
or of unknown kind. It is needed because `Load` reads `attempts` after the
claim: the value only ever grows, so what was the last attempt stays so. For
`OneWorkerPerJob` the invariant adds that a holder's lease runs, which `Tick`
keeps under `Timely`.


## MemoryStore

`row`, `expiry`, `point`, `history`, `told` and `cache` are the stores; `task[t]`
is the request in progress: what it is about to do (`at`) and its locals.
`Create`, `Update`, `Delete`, `Clear`, `Cleanup` and `Miss` begin a request, the
actions under `Continue` carry it on in the order of the code. A vector is
named by the content it was computed from, so that `point[i] = row[i]` says the
vector belongs to the text. Faults: `Abort` ends one request (a store raised),
`Crash` ends all, `BustLost`, `NumberLost`, `RecordLost` are failures that the
code swallows. A deletion of a row that is already gone only makes SQLAlchemy
warn; an update of it raises (`UpdateStale`).

The auxiliary `raced` holds the memories on which two write requests overlapped
and `cut` those that a fault hit. The properties that need it exempt these
memories and no others: a request elsewhere, a bulk delete included, must not
disturb them.

| Run | Instance | Shows |
|---|---|---|
| `MemoryStoreSafety` | 2 memories, 2 contents, 2 requests at once, 3 writes, chunks of 1, 1 fault | `TypeOK`, `RowsAreSearchable`, `StoresAgree`, `TrailIsComplete`, `DeletedStaysDeleted` |
| `MemoryStoreCleanup` | batch of 1, 2 expired rows, no fault | violated: vectors without rows (memory_service.py:189-193) |
| `MemoryStoreCache` | 2 requests, no fault | violated: an answer from before a write is cached after it (README.md:347) |

Two requests suffice for every overlap of two, three writes let a third act on
what two left behind; a chunk of one gives the loop over chunks two rounds. In
`MemoryStoreSafety` the batch is as large as the set of memories, which is what
the code's default is in normal use; `MemoryStoreCleanup` is the other case.

What the model shows although no run is about it: two overlapping updates of a
memory can leave the vector of one with the text of the other, and the same
version number twice. That is why `StoresAgree` and `TrailIsComplete` exempt
`raced`.

Proved (`MemoryStoreProofs.tla`): `TypeOK`, `DeletedStaysDeleted`,
`RowsAreSearchable`, `StoresAgree` and `TrailIsComplete`. The inductive
invariant `TInv` adds to `TypeOK` what each stage of a request implies of its
locals (`ShapeOf`), among it that a request about to remove vectors works on
rows that are gone: with "gone is for ever", this is why no row loses its
vector. The last two say something only of memories at rest, so their invariant
(`MInv`) says of every memory outside `raced` and `cut` how far the one request
at work on it has got (`Midway`: what a creation, an update or a deletion has
written at each stage), and that it is the only one (`Fine`). `StoresAgree` is
proved under `Whole`, a batch at least as large as the set of memories, and
`MemoryStoreCleanup` shows that it fails without. The invariant itself needs no
such assumption, since the vectors that a cleanup leaves behind belong to rows
that are gone; what is left of `StoresAgree` when the batch is small is
`LiveRowsAgree`: a live row at rest, outside `raced` and `cut`, has the vector
of its text.


## EventBroker

One tenant, whose events never mix with another's: channels and subscriber lists are
keyed by tenant. `Publish` is `publish` up to its first `await`; `PublishRedis`
the rest. `Subscribe` registers a queue, `Listen` is Redis' acknowledgement,
`Forward` the forward task, `Send` the websocket handler. `Disconnect` is
noticed only at the next send (`Unsubscribe`). External: Redis hands a
publication at most once to every connection that listens, in one order per
connection; the client library does not retry.

| Run | Instance | Shows |
|---|---|---|
| `EventBroker` | 1 websocket, 2 processes, 2 events here and 1 filtered there, queues of 2, 2 faults | `TypeOK`, `OneCopyPerPath`, `OwnEventsInOrder`, `NothingSlipsAway`, `EventuallySeen` |

What `OneCopyPerPath` allows does happen: with Redis the publishing process hears
its own publication again, and its clients get every event twice, where
broker.py:60 says "publish to Redis if configured, otherwise to in-process
subscribers", and broker.py:76 and CHANGELOG.md:657 "At-most-once delivery".

One subscriber is enough because subscribers share nothing: publishing looks at
each on its own. Three events on two paths overfill a queue of two.

Fairness: `Send` and `Forward` are weakly fair: the handler and the forward
task are coroutines that go on as long as the client takes its frames and Redis
delivers. Nothing is assumed of publishing, connecting or leaving.

Proved (`EventBrokerProofs.tla`): every invariant of the run. A lemma says what
a step may do to one websocket (`Turns`), so that each part of the invariant
looks at a publication, a message from Redis, and eight turns. `Counted` bounds
the copies by what was sent so far on each path, which needs that nothing is
under way that was not announced (`Announced`). `Ordered` says of whole
sequences that an earlier event is before every copy of a later one; it is kept
because, when a copy of the later one comes back through Redis, the earlier one is
in the queue or sent (`NearHeld`): the local queues are filled before `publish` first
awaits. `NearHeld` and `FarHeld` are what `NothingSlipsAway` says, path by path;
they need that a websocket was announced nothing before it registered (`Outside`).


## Tenancy

`ctx[a]` is the context variable of a task and `aim[a]` the `tenant_id` its code
passes on; `Path` is where `SET LOCAL search_path "<tenant>", public` leads.
`Arrive` is the auth middleware, `Resolve` is `resolve_tenant`, `Spawn`
`asyncio.create_task`, `Claim` the worker. `Create`, `Import`, `Provision`,
`CheckDelete`, `Unlist` and `Drop` are the transactions of `api/tenants.py`
and `api/portability.py`.

`Apart` says that operators do not create or import while they delete. Without
it `ReadyHaveSchemas` does not hold: a tenant created between another delete's
row and its drop loses its new schema.

| Run | Instance | Shows |
|---|---|---|
| `Tenancy` | 2 tenants, 2 requests, 1 worker, 2 rows, one in a checked table, 1 fault, `Apart` | `TypeOK`, `RowsInOwnSchema`, `ReadyHaveSchemas`, `RequestsReachTheSchema`, `OnlyForceDropsData` |
| `TenancyWorker` | 1 tenant, 1 request, 1 worker | violated: a worker writes to `public` (docs/per-tenant-schemas-design.md:101) |

`OnlyForceDropsData` is about what is lost: a row of a checked table goes only
with the schema that a delete drops, and that delete was forced, or the row was
written to the tenant after it had looked. The auxiliary `may[a]` holds the rows
that deletion `a` may take; it starts empty without force, whatever the check has
found, and grows only with what is written. A check on the wrong search path, a
drop of another schema or one without a check all break it. The exception is
real: what is written between check and drop is lost without force.

Two tenants are needed for one to get another's row; two requests for a task
spawned by one that goes on for another tenant, and for two deletes at once.

Proved (`TenancyProofs.tla`): `TypeOK`, `RowsInOwnSchema` and
`OnlyForceDropsData` for all constants; `ReadyHaveSchemas` and
`RequestsReachTheSchema` under `Apart`. The invariants: a resolved request's
context is its aim and a worker's is unset (`InContext`), and no delete that has
removed a tenant's row is left over for a tenant that is ready (`ApartInv`). For
`OnlyForceDropsData`: of the checked rows in the schema that a delete is about to
drop there is none that it may not take (`Looked`). When it looks, that holds because a
schema that has rows is there (`Housed`), so that the search path of the check
leads to it, and because the rows in it are all the tenant's (`RowsInOwnSchema`);
afterwards, because rows only come by `Write`. It does not need `Apart`.

In the model, and nobody's property: a drop that failed or never ran leaves the
data for the next tenant of that name; a create that failed half-way is refused
with 409 when repeated, and an import mends it; a delete without force looks at
five tables only.


## The parts that answer requests: MCRequests

The run `Requests` checks six modules, each in behaviours of its own.

| Part | Instance | Shows |
|---|---|---|
| `Surface` | every call of every client, each parameter whose default is written down twice, every combination of scopes, the object there or not | `DoorsHold` |
| `Gateway` | 3 calls of a limited key over HTTP and 1 over gRPC, 1 of an unlimited key over gRPC and 1 that revokes the first key; limit 1, window 2, delay 1, 4 instants, 1 fault | `LimitIsExact`, `AuditedOrLost` |
| `Dynamics` | 1 memory, 2 users, 3 requests at once, 4 in all, 1 fault | `ReviewsHold`, `OnlyFailuresOverfill` |
| `Intentions` | 2 intentions, 2 requests at once, 3 in all, 1 fault | `FiresOnce`, `EventsMatchFires` |
| `Ingestion` | 2 requests, 2 memories, 3 facts of which two contradict, batches of 2, 1 cut | `DuplicatesAreDropped`, `SupersessionsHold` |
| `Aliases` | 2 processes, 2 requests at once, 2 identifiers, 1 name | `MapsAgree` |

### Surface

`call` is one call with one argument of interest, `http` and `rpc` what becomes
of it at either door, which go their ways independently. The tables are
transcribed from the code: the requests the client methods send
(`MemoryCalls`, ... `AdminCalls`) and their gRPC counterparts (`Rpcs`), the
routes in the order of inclusion (`KeyRoutes`, ...), the request models' defaults
(`Bodies`), the servicers' (`Servicers`), `RequiredScope` and `RpcScope`. `Admit`
is the authentication middleware, `Handle` the matched route, `Intercept` the
gRPC interceptor, `HandleRpc` the servicer.

`DoorsHold` has two halves. `KeysHold`: a call reaches the handler it is meant
for, a reading key changes nothing, an administration call needs the admin scope,
and over HTTP a reading key may do all that only reads; `Administers`, `Changes`
and `Reads` sort the calls by what they do, independently of the code's rules.
`DoorsAgree`: both doors answer the same, unless proto3 cannot carry what was
given or the list is cut (`Lossy`).

The instance is the whole surface, so there is no bound to speak of.

Proved (`SurfaceProofs.tla`): types, `DoorsHold`, and what the tables say of
inputs that no client sends. `CallsReachTheirHandlers` rests on `OneRowFits`:
no route fits the path of another with the same verb, within a router or across
them, so the order of inclusion decides nothing, and what is matched first is
what was meant (`Reached`). `ScopesFollowThePath` is `required_scope` in closed form, for every verb and every path of any length,
routes or not: the rules overlap, so their order decides (`ScopeInClosedForm`). `AllServed` follows each call through client signature,
request model, route and servicer, and finds the handler the same and each
default alike, operation by operation (`Alike`, `ArgumentsAgree`). The invariant
`Staged` says that each door has come some way towards the answer that the call
alone determines, so that when both have answered the lemmas apply.

What the model shows besides: the interceptor's table is keyed by the package
`palace.v1` while the stubs call `mypalace.v1`, so that every RPC demands the
scope "write", also those that only read, where README.md:375 says "Scope rules
are identical to HTTP" (tests/test_grpc_scope_map.py looks the table up under the
old name); over gRPC an importance of 0 becomes 1, a limit of 0 the default, a
title "" is not set and a grade of 0 becomes 3 where HTTP answers 400; a list is cut at 500
over HTTP only; `add_message` for a session that does not exist fails with a
server error at both doors. gRPC searches bypass the cache, and neither the
rate limit nor the audit log applies to RPCs. `intentions/check` fires
intentions with a reading key; README.md:105-112 has it so.

### Gateway

A call goes `Arrive` (key and scope) -> `ReadClock` -> `CheckLimit` -> `Serve`
-> answered, over gRPC from `Arrive` to `Serve`. `CheckLimit` is the MULTI block
in Redis: drop what is older than a window, count, add, expire. `FailOpen` is
Redis failing, before or after it ran the block. `Persist` is the task that
writes the audit row after the answer. Faults: `FailOpen`, `ServeFails`,
`PersistFails`. External: Redis runs a MULTI block atomically and expires keys.
Timestamps are taken to differ: they are members of the sorted set, and two
equal ones would count as one.

`LimitIsExact` is `NeverOverLimit` (within a window, less the time a call may
take from reading the clock to Redis, no more than `Limit` calls pass) and
`DeniedForCause`. Three calls and a limit of one let a denied call count
against a third; four instants let a window pass; a delay of one lets two calls reach
Redis in the other order than they read the clock.

Proved for all constants (`RequestsProofs.tla`): types, `AuditedOrLost` and
`LimitIsExact`. The invariant `Exact` says that what is in the set of a key has
been stamped no later than now (`Timed`), that whoever passed within the window
is still in it (`Recent`, `Counted`), that the calls there which passed are within the
limit (`Under`), and that every denied call had others to blame (`Blamed`).

In the model, and nobody's property: calls that are refused with 403 or 429 and
handlers that raise leave no audit row, where audit/middleware.py:1 and
CHANGELOG.md:496 speak of every admin call.

### Dynamics

`dynamics` is `memory_dynamics`, `log` the access log (`pruned` counts what is
deleted of it), `doing[t]` a request with the row it read (`seen`). `Promote` is
the read, `Insert` the flush of a new row, `CommitRequest` the review with its log
entry; `demote` is a promote with the grade AGAIN. `Score` and `Ensure` are the
read and the insert of `score`. A row of another user is not found, so the
request inserts, and the primary key refuses it (`Conflict`). `CommitRequest` writes
the columns that differ from what was read (`Written`), as the session does.

Strengths are thousandths. How far retrieval strength has decayed at a review
depends on the time; the model takes all of it or nothing, the extremes of the
exponential. Stability and difficulty are left out: they are floating-point
powers, read and written together with the strengths.

`ReviewsHold` is `ReviewsAreLogged` and `OneReviewer`. Memories share nothing,
so one is enough; the third request lets one commit between the reads and the
writes of two others; four reviews, some of them failures, go past a storage
strength of 1.

Proved (`RequestsProofs.tla`): types and all properties for all constants. The
invariants: a request knows what it read (`Shape`); nobody but one inserter is
at work on a memory without a row (`Reviewer`); a review in progress has read a
counter and a storage strength that the log covers (`Tally`), which is why one
that overwrites another still leaves a row the log covers.

In the model, and nobody's property: a memory first scored or promoted by one
user answers every promote and score of another with a server error
(README.md:662 says the row is created), and a score that loses the race to
insert fails, with the retrieval that called it.

### Intentions

`intention[i]` is an intention of one user and agent: armed, fired, or gone. `Check`
is the read and the matching, `Commit` the one transaction that marks or
deletes the matches, `Publish` one event. Which triggers match is the
environment's choice. READ COMMITTED locks nothing at the read, so two checks
may hold one intention; the auxiliary `raced` holds those, and `cut` those
whose check ended between commit and answer. A commit that updates a row
deleted meanwhile raises when it updates one row (`Stale`) and may or may not
when it updates several: the drivers differ in whether they count.

Two intentions make a check with a match that is kept and one that is deleted;
the third request acts on what two overlapping ones left.

Proved (`RequestsProofs.tla`): types, `FiresOnce`, `EventsMatchFires` and
`FiredIsTold` for all constants. For `FiresOnce` the invariant says that an
intention outside `raced` is held by one check at most, and after it has fired
is no longer armed and held by none (`Once`); for `EventsMatchFires` that each
firing is with its check, on its way out, or told (`Accounted`). `FiredIsTold` is
about what a reader of the table may infer: an intention shown as fired was
published or is about to be, and once unless two checks raced for it; not so
when the request ended between its commit and the event (`cut`), among which is
a commit whose acknowledgement was lost. It follows from the two and from
`Tallied`: the table says fired only of what a check has counted.

In the model, and nobody's property: two overlapping checks fire one intention
twice, and an intention with `fire_once` false fires no more often than one
with `fire_once` true; it only stays in the table.

### Ingestion

A request with inference goes `Infer` -> `Extract` -> for each fact `Look`
(the nearest vector) -> skip, or `Judge` (a contradiction?) -> `Write` ->
`Embed` -> and, when a memory is replaced, `Link`, `Note`, `Tell`
(`_record_supersession`); `Verbatim` is `create_batch` without inference,
`Replace` the explicit supersede. `Forget` and `Unindex` are deletions beside
it, `Cut` ends a request at any `await`, `Retry` sends it again. `Likeness`
names the bands that the two thresholds cut out of the scores; `Contrary` the
pairs that the word lists take for contradictions. Which facts the language
model extracts is arbitrary.

`DuplicatesAreDropped` is `NoTwins` (a memory it wrote says the same as no other
live, searchable one, unless the other became searchable while the request was
at work) and `SkippedIsKnown` (what is dropped is known, or was).
`SupersessionsHold` is `RetiredForAnother` (who is retired has a successor that
search finds) and `ResolvedOrCut` (who has a successor is retired, or the request
was cut short).

Two facts that contradict one another and a third make all three bands; a batch
with a fact twice, and one of a contradicting pair beside another, make one
request its own neighbour; a cut with a retry takes the same batch up again.

Proved for all constants (`IngestionProofs.tla`): types, `SupersessionsHold` and
`DuplicatesAreDropped`. The invariant has three layers. `Typed`: what each phase
implies of the request's locals. `Recorded`: who writes a memory, for what, and
what of its supersession is on record. `Distinct`: what was searchable when a
request began is unlike the fact it is about to write, and so are the memories
it wrote before; for that, a vector once seen says for ever the same.

Left out: a `PUT` of a memory beside the requests. Its own interleavings with
writes and deletions of the memory are `MemoryStore`'s. Here it would change what a
memory says after it was compared with, so both halves of `DuplicatesAreDropped` would
have to except every edited memory: an edit may make any memory a twin of
another, and between its row and its vector a fact may be dropped on the
strength of what the memory said before. `SupersessionsHold` says nothing of texts.

In the model, and nobody's property: a fact is dropped as a duplicate of a memory
whose row is deleted or superseded and whose vector is still there; above the
upper threshold nothing looks for a contradiction; only the nearest memory is
examined; a request cut between the new memory and its supersession leaves both
live, and its retry, which takes the fact for a duplicate, does not mend it. A
demotion that fails is suppressed without a word, where the docstring
(ingestion.py:312) says it is logged; and the comment at ingestion.py:172-173
has negations stripped before the overlap is measured, when the stemmer has
already made `stopped` into a word that is not among them.

### Aliases

`aliases` is the table, `slot[p]` the map of process p. `Resolve`, `LoadTenant`
and `Loaded` are a first lookup: read in one step, put in place in another;
`Register` and `Registered`, `DeleteAlias` and `Invalidate` a write and what it
does to the map. `excuse[p]` says why a map may be wrong: `partial` (something
was registered before the map was loaded, entity_service.py:62-64, which makes
a map of that one name, and later lookups take it for all), `overlap` (a write
while another request of the process was under way), `elsewhere` (another
process wrote). `MapsAgree` says that there is no fourth reason. Two processes
and two requests make every overlap of two; two identifiers let a partial map
lack one.

Proved for all constants (`RequestsProofs.tla`): types and `MapsAgree`. The invariant, of
every process that nothing excuses: what a lookup has read is the table, one
request at most has written to the table and not yet to the map, and the map
differs from the table by that one write (`Faithful`).


## The parts behind them: MCOperations

The run `Operations` checks five modules, each in behaviours of its own.

| Part | Instance | Shows |
|---|---|---|
| `Startup` | 2 processes, 2 tenants, releases 0 (before Alembic) and 13, 1 fault or revoked key | `OrderlyUpgradesWork` |
| `Reembed` | 3 places, pages of 2, 2 versions of a text, 2 writes beside the job, 1 fault | `ReembeddingHolds` |
| `Backups` | 2 tenants, 1 row in the last of 2 tables, 3 days, files kept for 1, 1 fault | `BackupsHold` |
| `Exchanges` | 1 session, 3 messages, 2 deletions, 1 trait, 1 evolution run, 1 edit | `ExchangesHold` |
| `Narratives` | a user of one of 2 tenants, 1 reflection, 2 syntheses, 3 episodes, 2 stories, 2 arcs, a scroll of 2, 1 break | `NarrativesHold` |

### Startup

`things` is what there is in `public`, by name: the tables of the baseline (of
the tenants' tables "memories" stands for all) and what each revision makes
(`Makes`, `Ensures`), copies, or leaves to the image. A process goes
`FindTables` -> `CreateTables` -> `EnsureTenant` -> `FindKeys` -> (`MintBootKey`)
-> up, or down; `create_all` looks first and creates afterwards, so two processes
can find the same tables missing. `Deploy`, `StampBaseline` and `Upgrade` are the
operator's. `UpgradeFails` is a revision that finds what it is to make, or the
copy of revision 10 failing. The auxiliary `early` says that a process started
on a database older than itself: something of its release was missing in a
database in use, or there was no version although the release stamps one
(`MeetsOlder`).

`OrderlyUpgradesWork`: unless `early`, a version in `alembic_version` is true as
far as tables and columns go, and no upgrade finds what it is to make. Two
processes start beside one another; the two releases are the ends of the history.

Proved for all constants (`OperationsProofs.tla`): types and
`OrderlyUpgradesWork`, for any number of processes and releases. The invariant:
a process about to create tables found those missing, and what else its release
declares is there (`PlansCover`; tables are never dropped, so it stays true
while others create and upgrade); and unless `early`, what the version promises is
there and nothing of a later revision is (`VersionTells`). The second is
why `Upgrade` never finds what it is to make. It needs the first when a process
creates its tables and stamps the version of its release: only then is all of
the release there.

In the model, and nobody's property: the order of docs/deployment.md:253-262,
image first and upgrade after, makes the upgrade find tables that the new image
created; a fresh database is stamped without the indexes that only the
revisions make; revision 10 copies rows without their `tenant_id`, which is NOT
NULL, and fails when there are any; the schemas of old tenants lack the tables
of later releases, whose rows go to `public`; when the bootstrap key was revoked and
no other admin key is active, no process starts any more; two processes that
start together on an empty database may both fail until they are restarted.

### Reembed

`text` is the row, `point` the vector: of which version, under which model.
`WriteRow`, `DeleteRow` and `Settle` are the API, which goes on under the old
model; `ReadPage`, `EmbedPage`, `WritePoint` the job. `held` are the objects of
the last page, which the session does not read again. `fits` says whether the
new model's vectors are as long as the collection's: `ensure_collection` leaves
an existing collection as it is, and then every write is refused and counted,
though the comment at handlers.py:88-91 speaks of writing alongside.

`ReembeddingHolds`: `EveryoneReembedded` exempts jobs beside which a memory was
deleted (the offset skips a row then) and memories that the API wrote since;
`VectorsFollowRows` exempts memories that the API wrote while the job held an
older copy. Three places and pages of two make two pages and a row to skip; any id may be
new, as with uuid4. 

Proved for all constants (`OperationsProofs.tla`): types and `ReembeddingHolds`.
The invariant gives every row its rank in the order of the ids: as long as none
is deleted, ranks only grow, so every memory that was there all along and whose
rank is below the end of the page at work has been dealt with or is on the page
(`Progress`). `NoGap` is the reason that an empty page means the end: were there a row
beyond it, the first of those would have a predecessor one rank below.

### Backups

`ReadTable` reads one table at the time (`nextTable`), while `Store`, `RemoveRow`,
`Evict` and `Import` go on; `PublishFile` is the rename, `PruneFiles` the pruning
at the end of a pass, `Crash` ends a pass anywhere. `whole` and `ever` hold the
rows that were there throughout the export, and at some time.

`BackupsHold`: `PublishedAreSound` and `PruneLeavesOne` (a tenant that ever had a
backup has one unless no export of the last `Retain` days succeeded). Two tenants
let one export fail beside another's; three days let a file expire.

Proved for all constants (`OperationsProofs.tla`): types and `BackupsHold`. The
invariant: what was there throughout in the tables already read is in the dump,
and what is in the dump was there (`Covers`), and the last published file of a
tenant is there as long as it is young enough (`Dated`).

In the model, and nobody's property: one record that the database refuses fails
a whole import, although portability.py:199-219 catches errors record by record,
because the flush comes later. Temporary files are never pruned, and messages,
episodes, versions, aliases and traits are not exported.

### Exchanges

`InsertMessage` flushes the row and holds a key-share lock on the session's
(external: Postgres' foreign keys), `CommitMessage` ends the transaction, `Ask`
is the look for the user's half and the queueing of a job. `BeginRemoval`,
`RemoveMessages` and `RemoveSession` are the deletion, which waits for the
holders and is rolled back when a message came in between. `Evaluate` and `Apply`
are an evolution job on either side of the language model; it may be run again.

`ExchangesHold`: `NoOrphans` and `JobsQuoteTheExchange` (the user's message
quoted is the last one before the reply, or one that came while the reply was
being stored). Three messages make an exchange and a third between its halves;
two deletions wait for each other.

Proved for all constants (`OperationsProofs.tla`): types and `ExchangesHold`.
The invariant: a session is there while its messages are, and goes with them
(`Housed`), every message has one place in the order of the insertions (`Ordered`), and a job
quotes messages of one session (`Quoted`).

### Narratives

`Reflect`, `WriteEpisode`, `TellEpisodes` are `reflect_session`; `ReadEpisodes`,
`ReadArcs`, `PutArc`, `TellArcs` are `synthesize_narratives`; `Break...` ends an
attempt anywhere, and the queue runs it again. Of the language model it is
assumed that it tells no story twice in one answer and refers to the arc of a
story that it is shown.

Every tenant has a collection in Qdrant, and `tenantId` is the tenant of the user
whose episodes these are. `WriteEpisode` fills the collection of that tenant
(episode_service.py:114-119, vector.py:70-73). `Recent` looks in `Collection`, that of
the default tenant: `get_recent` scrolls `episode_vector_store.collection`
(episode_service.py:182, vector.py:25-32). So the synthesis of a user of any
other tenant is given no episode, and makes no arc; `search` (:157) has the same
collection, and the context that a client asks for (retrieval/layered.py:121) is
without episodes too.

| Run | Instance | Shows |
|---|---|---|
| `NarrativesTenants` | 2 tenants, 1 reflection, 1 synthesis, 3 points, a scroll that takes all there is | violated: `RecentAreNewest`, what episode_service.py:178 and README.md:648 say of every user |

`NarrativesHold`: `EpisodesOnce`, `OneArcPerStory` and `FewAreRecent`, which is
`RecentAreNewest` of the users of the default tenant. The user of the instance may be of
either tenant. A scroll of two with three episodes makes `get_recent` pass over one; two syntheses
overlap; one arc shown of two hides the other. Ids of points and of arcs are taken to
differ (both are uuid4).

Proved for all constants (`OperationsProofs.tla`): types and `NarrativesHold`,
for any number of jobs, episodes, stories and arcs. The invariant: what is
written has a story and a moment that was (`Told`); an attempt at a reflection
has written just the episodes that bear its moment, announced none of them yet,
and, if the job never broke off, written none about what it has left
(`Attempts`, from which `EpisodesOnce` follows); an arc that a synthesis does
not know of, though it is about to write about that story, is of a story marked
doubtful (`Overlaps`, which is what `OneArcPerStory` needs when the arc is put); the
episodes are all in the collection of the user's tenant (`Shelved`).
`FewAreRecent` counts: an episode passed over lies outside the points that the
scroll took, so there are more of them than it takes.

Qdrant refuses an upsert into a collection that is not there. A worker
never calls `episode_service.init`, which runs in the API process
(episode_service.py:42-51), so it does not make the collection of a tenant that has
none; a job of such a tenant fails at its first episode (`BreakReflection`).

In the model, and nobody's property: a reflection that broke off and is run
again writes its episodes twice; `get_recent` takes the first max(4 * limit, 50)
points in the order of their random ids and sorts those, where its docstring
(episode_service.py:178) says "Recent episodes, newest first"; a story whose
arc is closed, or out of the first ten, gets another arc.


## What is proved, and how

Each proof module extends the modules it is about: `JobQueueProofs`,
`MemoryStoreProofs`, `EventBrokerProofs` and `TenancyProofs` a large part each,
`SurfaceProofs` and `IngestionProofs` one of the others, `RequestsProofs` and
`OperationsProofs` the compositions and what else they are composed of. A safety
invariant of a run is proved from an inductive invariant that is named above
with its reason; the proof that a step preserves it has one step per action.

That the parts of a composition share no state is itself proved:
`RequestsAreParts` and `OperationsAreParts` say that the specification TLC runs
implements that of each part, so whatever is proved of a part holds of the
composition; `TypeOK` of both follows.

The assumptions are the named assumptions of the modules (`...Assumption`), which
TLC evaluates on every run, and nothing else, except where a theorem says so
(`Punctual` for the ledger, `Apart` for two properties of tenancy, `Whole` for
`StoresAgree`). The bounds that keep TLC's state spaces finite (`MaxFaults`,
`MaxClock` and the like) are arbitrary naturals in the theorems. The constants of
`Surface` are its tables, which the theorems are about as they stand.

## Only model-checked

Two properties of passing runs, `EveryJobSettles` and `EventuallySeen`: liveness
under fairness, which needs ENABLED and is out of the prover's reach. Every
other property of a passing run is a theorem. The runs that expect a violation
exhibit a behaviour, and there is nothing to prove.


## Not modelled

* **Trigger evaluation** (`intentions/triggers.py`): pure matching of texts,
  topics and times. Its outcome is arbitrary in `Intentions`, which is what the
  properties there need.
* **Topics and emotional context**: single-row inserts after a call to a language
  model, with no step of another actor between their read and their write.
* **Retrieval and context**: they read, rank and cut texts.
* **Graph**: a best-effort mirror in an external store, off by default; no other
  component reads it back into a decision.
* **Health, observability, statistics**: they report; nothing reads what they
  write.
* **Embeddings and language models**: clients of external services. Their
  answers are arbitrary wherever a module depends on them.
* **Configuration and data models**: settings and table definitions; the columns
  that matter are variables of the modules.
* **Admin UI, examples**: consumers of the HTTP API.

Left out of the parts that are modelled: `extend_lease`, which has no caller; in
the memory store the access counters of `get`, graph triples, the cross-tenant
search and list; in tenancy the default tenant, whose schema is made before the
first request; in dynamics stability and difficulty; rows inserted by an import
into dynamics and intentions; listings of keys and audit rows, and the usage
counter, which nothing reads back; the stripping of channel prefixes of aliases,
and two functions there without a caller; listing and search of sessions and
episodes; the encoding of exported rows; column types and downgrades of
migrations; response models and generated code.


## Plan

What is left, in the order in which it would add most:

1. Dynamics and ingestion composed: the demotion of a superseded memory as a
   review.
2. Trigger evaluation and budget allocation as operators against reference
   definitions.
3. An abstract memory store (a map from ids to contents) and a proof that
   `MemoryStore` implements it as far as rows go.
