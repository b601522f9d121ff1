# TLA+ specifications of LumiCity

LumiCity scores the lighting of street segments. A Go server (`src/backend`,
built on the masterfabric-go platform) keeps segments in PostgreSQL, caches
permissions and counts requests in Redis, and passes domain events through an
in-process bus or Kafka. A Python tier (`src/ai`) produces the seed data and
analyzes points on demand; a web dashboard and a mobile app are its clients.

This directory holds TLA+ modules of the server's stateful parts and of its scoring
model, TLC configurations that check them on small instances, and TLAPS proofs of their
main safety properties. `PROJECT.json` links every definition to the source lines
it models and lists the runs, the mutants, the findings, the hazards and the
theorems.

    tlc -workers 2 -config SegmentsBoot.cfg MCLightingSegments.tla
    tlapm LightingSegments_proofs.tla

A definition whose comment starts with "Fault:" is not part of any specification.
It is a plausible bug in the definition that follows it; substituting it must make
the property named in `PROJECT.json` fail, which shows that the property depends
on the code being as it is.

## 1. The system

Paths without a directory are below `src/backend/internal`.

| Component | State | Operations | Hard behaviour |
|---|---|---|---|
| Segment store: `application/lighting/usecase`, `infrastructure/postgres/lighting` | tables `street_segments`, `light_fixtures`, `lighting_analyses`; the struct each goroutine holds | autoseed at boot, analyze a point, rescore, queries | no transaction anywhere; several processes seed one database; crashes while seeding; read-modify-write of whole rows |
| Rate limiter: `gateway/pipeline.go` `checkRateLimit` | a Redis counter per endpoint and its TTL | INCR, EXPIRE, compare | two round trips shared by all processes; lost calls |
| Permission cache: `infrastructure/auth/rbac_service.go`, `application/iam/usecase/assign_role.go` | `user_roles`, a Redis entry per user and organization | look up, fill, assign a role, invalidate | a fill that races an invalidation; ignored failures; a query that breaks off unnoticed |
| In-process bus: `shared/events/inprocess.go`, `cmd/server/main.go` | a bounded channel, the dispatcher, the life of the server | publish, dispatch, close | publishers that outlive the channel; a handler that hangs |
| Kafka bus: `infrastructure/kafka` | partition logs, committed offsets, readers | publish, fetch, handle, commit, rebalance, close | redelivery, commits by former owners, failing handlers, start-up order |
| Endpoints and policies: `application/apimanagement` | `app_endpoints`, `app_endpoint_policies` | define, activate, retire, set a policy | read, check, write without version; no unique policy row |
| Gateway pipeline: `gateway/pipeline.go` | none of its own | lookup, status, policy, permission, limiter, interceptors, backend | values read once and used after they changed; errors read as "absent" |
| Dynamic backend: `gateway/dynamic_handler.go`, `infrastructure/gateway/interceptors` | the tables endpoints name | validate, mask, proxy, list, get, create, update, delete | column names that come from the body; two statements per list; bodies read and put back |
| Identity: `application/iam`, `shared/middleware/auth.go` | `users`, tokens | register, login, authenticate | check-then-insert |
| Tenants: `application/tenant`, `shared/middleware/tenant.go` | `organizations`, `workspaces`, `apps`, `app_api_keys` | create, update, list, revoke | check-then-insert, lost updates |
| Scoring: `domain/lighting/model`, `src/ai/pipeline/scoring.py` | none | score, recommend, simulate | two implementations, rounding, clamping; advice that is followed in any order |
| AI pipeline and worker: `src/ai`, `infrastructure/aiworker` | a lazily loaded model | batch, analyze a point | fallback when the worker is away |
| Audit: `shared/middleware/audit.go` | `audit_logs` | write after the response | none: no route mounts the middleware |
| Web: `src/web`, mobile: `src/mobile` | inputs and late answers | preview, apply | answers out of order |
| Config, logging, telemetry, health, scripts | none | | |

How they interact: the router runs the middleware and the gateway pipeline, which
asks the permission cache and the rate limiter before a handler runs; use cases
write PostgreSQL and then publish on the bus main chose (`initEventBus`); main
owns the start-up order (bus, dependencies, autoseed, server) and the shutdown
order (server, then bus). Instances share nothing but PostgreSQL, Redis and Kafka.

What makes each correct: the store never mixes scores and features of different
states, keeps identities, and loads a seed once and whole; the limiter bounds what
gets through and reopens; the cache never invents a permission and converges; a bus
delivers in order what it accepted and shuts down without hurting requests; a
consumer group calls its handlers for everything it commits; a managed request is let
in by a status and a policy that held while it was under way; answers, records and
workspaces stay within their tenant (for records with the exceptions that section 2
names); names are unique; both scoring implementations agree, and advice that is
followed helps and comes to an end.

## 2. Modules

| Module | What it is |
|---|---|
| `LightingSegments` | segment store: boot, autoseed, analyze and rescore, one action per SQL statement |
| `SegmentCatalog` | abstract: an atomic catalog of segments; `LightingSegments` implements it |
| `RateLimiter` | the Redis counter of one endpoint |
| `PermissionCache` | the permission cache and role assignment, one action per round trip |
| `InProcessBus` | channel, dispatcher, requests and main's shutdown |
| `EventFeed` | abstract: an ordered feed of events; `InProcessBus` implements it |
| `KafkaBus` | producers, consumer loops, offsets and the consumer group |
| `EndpointAdmin` | the tables of endpoints and policies and the operations that write them |
| `Gateway` | extends `EndpointAdmin`: requests through `Pipeline.Enforce`, one action per query or call |
| `DynamicBackend` | the interceptors and the handler behind the pipeline |
| `Tenancy` | users, organizations, apps, workspaces and keys |
| `Rational` | fractions |
| `Scoring`, `PythonScoring` | the scoring model as the server and as the pipeline compute it |
| `Upgrades` | recommendations, interventions and the network simulation |
| `MC...` | constants and symmetry for TLC |
| `..._proofs` | theorems and TLAPS proofs; `RedisKeys_proofs` those of `RateLimiter` and `PermissionCache` |

### LightingSegments

`row`, `fixtures` and `analyses` are the three tables. A row keeps its id, its
features and its scores. Features are reduced to what a request can change (lamps,
how often the canopy was trimmed, brightness), and a score set is represented by
the features `ScoreEnv` computed it from, so two score sets are equal exactly when
the features behind them are. `Upsert` is the `INSERT ... ON CONFLICT` of
`segment_repository.go`: a row that exists keeps its id, and the caller's struct is
not told. Each instance has a program counter through `IngestSeed`'s five
statements; each request holds what its goroutine read (`analyzed`, `located`,
`resolved`) until it writes. With `Faults`, any statement may fail; `Crash` drops an
instance's goroutines and keeps the tables. `reply` and `outcome` are history: the
ids sent in responses, how an autoseed ended.

### RateLimiter

`count` and `ttl` are the Redis key, `pc` tells which goroutines stand between
their INCR and their EXPIRE. A tick is a unit of the window. `recent` counts the
requests let through by age, `life` those since the key was created. `LoseTtl` is an
EXPIRE whose result nobody reads, `LoseReply` an INCR that was executed and whose
reply was lost, `Crash` a process that dies in between; `faults` counts the three, so
that a property can speak of the time before the first.

### PermissionCache

`granted` is `user_roles`, `cache` and `ttl` the Redis entries. A reader goes
through GET, query and SET, an assigner through INSERT and DEL, and between any two
of them anything may happen. Roles are only ever added: no use case removes one.

The query has three ends. `Fetch` yields everything the roles give; `FetchFault` is a
query that cannot be sent or a row that cannot be scanned, and fails the lookup;
`FetchCut` is a query that breaks off while its rows are read. `role_repository.go:203-211`
does not ask `rows.Err()`, so the last one looks like a shorter answer: if nothing was
read, the lookup returns no permissions and caches nothing; otherwise the part that was
read is cached for the TTL like any other answer. `cut` is history: the keys whose entry
is such a part. An INSERT that was executed and whose reply is lost is `Assign` followed
by `InvalidateFault`: the request ends without its DEL.

### InProcessBus

`queue` is the channel, `disp` and `current` and `next` the dispatcher goroutine,
`server` what main is doing, `pub` the request goroutines. `Send` is the
non-blocking send with its default branch. Main closes the bus after a clean
shutdown (`CloseDrained`), after `srv.Shutdown` gave up (`CloseTimedOut`), or when
`ListenAndServe` failed (`CloseFailed`), and exits when the dispatcher has drained
the channel. `accepted` and `at` are history: the events that entered the channel
and the last one each handler was called for.

### KafkaBus

`log`, `committed`, `owner` and `balanced` belong to the broker and the group
coordinator, which are external: `Rebalance` gives every partition to some member,
whose reader starts from the committed offset, and `Commit` sets the offset to the
one after the message, whoever owns the partition by then, as kafka-go does. `cur`
is the message `consumeLoop` is busy with. A value that does not parse goes straight
to its commit; a message whose handler failed is left without a commit, and the loop
goes on. `tried` and `handled` are history: the messages the handlers were called
with, and those on which all of them succeeded. The handlers main registers only log
and never fail; `HandlersFail = TRUE` is what the bus does for one that can.
`SubscribeFirst` chooses between the order the documentation gives and main's.

### EndpointAdmin and Gateway

`endpoints` and `policies` are the two tables; `admin` is what an administrator's
goroutine holds between its SELECT and its write: the row of a new endpoint, the whole
row a status change read and writes back, the row of a policy. `Create` obeys
`UNIQUE(app_id, method, path, version)`; policies have no such constraint, so
`CreatePolicy` may add a second row for an endpoint, and `PolicyRowsOf` returns any of
them. `closed` is history: the endpoints retired while nobody was activating them.

`req` is a request's position in `Enforce` and what it has read. The header checks of
`JWTAuth` and `TenantResolver` are `Unauthenticated`, `Malformed` and `Unmanaged`; then
come `Lookup`, `Policy`, the permission, `Count` and the backend. A failed endpoint query
is read as "not managed" (`LookupMisses`), a failed policy query as "no policy"
(`PolicyFails`), a failed INCR as "over the limit" (`CountFails`), as in the code.
`count` is the counter of a window, which other processes raise and Redis drops.
`counted`, `called` and `seen` are history: who was counted, who reached a backend, and
what the tables said while a request was under way.

### DynamicBackend

`Intercept` is the chain `main` builds, schema validator then masker; `Proxy` hands the
request to a service; the other actions are the five operations on a table, the list in
two statements. A request is served again and again, with any endpoint and body, so that
later updates meet the rows earlier ones left. Statements fail, or are executed and lose
their reply (`ReplyOrLose`).

The keys of a body become column names of the statement as they are
(`dynamic_handler.go:401, 444`), and the model says what they may name:

- a column the masker knows. The masker looks for it in any letters, and its value is in
  the clear, masked or absent;
- the owner's columns or `id` in other letters than those of the filter, which compares
  exactly (400, 443) where PostgreSQL does not tell `ORGANIZATION_ID` from
  `organization_id`. An INSERT then names a column twice and fails (`Insertable`); an UPDATE
  gives the record to another owner or another id (`UpdateRow`), and its answer shows
  it there. A body's `owner` is the pair of organization and application that results;
- nothing but text of the statement. What that does is not modelled and not restricted:
  `RunText` replaces the tables and the answer by any element of `TextEffects`, which the
  proofs leave arbitrary, and sets `textual`. Every property of this module ends there.

A table keys its rows by `id`, so a new id must be free, and an id drawn by `uuid.New()`
is one nobody has used. `born` is history, the id a row was inserted with, so that a
property can follow a record that was renamed; `used`, `plain` and `deletions` are history
too.

### Tenancy

One row type stands for the five tables; `owner` is the organization of an app or a
workspace and the app of a key. `Begin` is the look for the name, which a failed query
passes; `Insert` obeys the unique constraints. `Tenant` is the resolution order of the
middleware, and `Placed` what `CreateApp` makes of it. `UpdateWorkspace` reads, looks for
the new slug, and writes the whole row; `alone` is history: no other update of the
workspace wrote in between.

### Scoring, PythonScoring and Upgrades

The scoring functions translate `scoring.go` and `scoring.py` line by line, in exact
fractions where the programs use float64; the rounding the programs do themselves
(`math.Round`, `round`) is kept. `Upgrades` lets a planner ask for recommendations, follow them in
any order and change segments by hand; `Follow` and `Adjust` are `RescoreSegment` with
`persist`. With `Panel = FALSE` the client asks anew before it follows advice and leaves
the brightness alone unless it means it; with `Panel = TRUE` it is the dashboard's segment
panel, which keeps the advice of the last answer and always sends its slider.
`Simulate` is the network simulation.

## 3. Runs

Deadlock is checked except in `SegmentsBoot`, `Bus` and the Kafka runs, where bounds
on crashes, messages and stops, or the end of the process, end the behaviour.

| Run (`.cfg`) | Instance | Shows |
|---|---|---|
| `SegmentsBoot` | two instances, a two-entry seed, a rescoring client, two crashes, failing statements | children once, the loaded prefix whole; without failures the seed gets in |
| `SegmentsRequests` | two requests and a seeding instance, failing statements | scores match features, the tables implement the catalog |
| `Limiter` | three requests, lost calls and crashes | twice the limit per window; before the first loss no early refusal and the window ends |
| `Cache` | two readers, an assigner, two keys, two roles, failing calls | answers were granted, only a query that broke off hides a first role, the cache becomes and stays current once none breaks off |
| `Bus` | publishers, three topics, a small channel, every way of shutting down | one order, nothing accepted lost, clean shutdowns panic nobody, the feed is implemented, requests and shutdowns end |
| `Kafka` | two instances, a partition of two messages, two stops or crashes, failing handlers, malformed messages, failed commits | committed means tried, in order, nothing blocks, every event reaches its handlers if subscriptions come first |
| `KafkaStartup` | `main`'s order | counterexample, section 5 |
| `Gateway` | two administrators, two endpoint ids for one route, two policy rows, two policies, a request, failing queries | a retired endpoint stays retired; status and policy are those of the request's time; refused requests are not counted |
| `Backend` | two requests of two applications, two record ids, a table and a missing one, bodies of each kind, lost replies | until a body's text gets into a statement: answers and writes stay in the application, except for an update whose body names the owner; what is masked stays masked; one deletion per record |
| `Tenancy` | two clients, three ids, two slugs, foreign tokens, failing statements | names are unique, updates change what was given |
| `Upgrades` | a segment of many shapes and one of two, one adjustment by hand, three policies | the implementations agree, advice keeps its promise and ends, upgrades do not raise the risk |
| `UpgradesPanel` | the first segment alone, with the panel | counterexample, section 5 |

Why the bounds are enough. The races in this code need two actors that overlap
and at most one crash or failure between two statements; every run has both, and
queues, windows and logs are long enough to wrap the interesting case (a full
channel, a window across an expiry, a second message behind a failed one). `Gateway` has
one request, because requests meet only in the counter, and that one is raised by
`CountElsewhere`. `Backend` draws two record ids, one for each application or both for
one; it has one statement with text from a body, with one effect, and draws no id
after it, as nothing is claimed of the tables then (`RunText`). `Tenancy` has three rows: an organization and two of its workspaces, or two
organizations with an app. `MaxLamps`, `MaxTrims`, `MaxCrashes`, `MaxFaults`, `MaxCount`,
`MaxRequests`, `MaxMessages`, `MaxStops`, `Elsewhere` and `MaxAdjust` cap counters that the
code leaves unbounded; `Ids`, `PolicyIds` and `Records` cap the uuids that can be drawn;
`MaxLimit` and `DefaultLimit` scale down the code's 100 and 20. The theorems of section 6
hold for all of their values.

Fairness. `LightingSegments.FairSpec`: the supervisor restarts instances, goroutines
are scheduled; nothing is asked of clients. `RateLimiter.LimiterFairSpec`: the clock runs
and a goroutine waiting for Redis goes on. `PermissionCache.FairSpec`: the clock
runs, so TTLs pass, and a lookup that began ends; assigners need not invalidate.
`InProcessBus.FairSpec`: requests and main's shutdown go on; nothing is asked of the
dispatcher, whose handlers may hang, so `RequestsEnd` holds behind a hanging handler,
and `ShutdownEnds` has the fairness of the dispatcher as its premise.
`KafkaBus.FairSpec`: instances are restarted, the coordinator rebalances, the
consumer loop runs; strong fairness of `Fetch` says that a reader does not serve one
partition forever while another has messages. `EventuallySeeded` and `WindowEnds`
have the absence of failures as their premise, not as a setting of the run;
`EventuallyCurrent` has as its premise only that queries stop breaking off (each one that
does may spoil the cache anew), while every other failure may go on. `Gateway`,
`DynamicBackend`, `Tenancy` and `Upgrades` state no fairness: a request ends when its
queries do.

## 4. Properties

Each module with proofs has one inductive invariant, `IndInv` (`LimiterInv` for the
limiter), whose first conjunct is the type invariant; a run checks it as a whole. That of
`Upgrades` stands with its proofs (`UpgradesInv`). The others state what can really go wrong:

- Segments: `ScoresMatchFeatures`, `ChildrenOnce`, `SeedPrefixWhole`, `EventuallySeeded`,
  and `ImplementsCatalog`, which covers that a stored segment keeps its id and its
  children.
- Limiter: `TwiceLimit`, `NoEarlyRefusal`, `WindowEnds`.
- Permissions: `AnswersGranted`; `FirstRoleNeverStale`, from which entries of queries that
  broke off are excepted; `EventuallyCurrent`, once no more queries break off. Without the
  exception and without the premise TLC refutes both.
- Bus: `CleanShutdownSafe`, `ImplementsFeed`, `ShutdownEnds`, `RequestsEnd`.
- Kafka: `CommittedTried`, `TriedInOrder`, `NothingBlocks`, `EventuallyTried`.
- Gateway: `ClosedIsRetired`: overlapping status changes write whole rows back, and still
  none of them revives an endpoint nobody asked to activate. `StatusIsCurrent` and
  `PermissionEnforced`: what the pipeline reads may be out of date when it is used, but
  never older than the request; the second names the two ways in without a permission,
  a failed policy query and a moment at which the endpoint was open.
  `RefusedIsNotCounted`: the order of the checks.
- Backend, as long as no statement with text from a body has run: `IsolatedReads`, an
  answer shows what the table held for the request's own application when the statement
  ran, or the row the request has just written; `IsolatedWrites`, a record is changed by
  its own application only, and passes to another only by an update whose body names the
  owner in other letters; `MaskedAtRest`, the values of a body do not bring a known column
  into a record in the clear through a masking endpoint, whatever the record is called
  later. Isolation in the stronger sense of the code's comments does not hold: section 5.
- Tenants: `ChangesWhatWasGiven`, and unique names within `IndInv`.
- Scoring: `PythonAgrees`, on every row that any history of interventions produces;
  `AdviceKept`, the projection shown is the score stored, if the advice still fits the
  row; `AdviceEnds`, of a client that asks anew before each step; it counts three prunings
  and so speaks of segments with at most 24 trees and a vegetation ratio of at most 1; `InstallReachesTarget`, rounding included;
  `UpgradesReduceRisk`, for policies that upgrade high and critical segments of a known
  length to two fifths of the recommended density or more. Below that target, or for
  lower levels, the simulation can report a higher risk than the network has: section 5.

Further definitions are proved and not repeated in a run, most of them conjuncts of
`IndInv`: `CompleteMeansWhole`, `IdentityStable`, `ChildrenNeverRemoved`, `LifeLimit`,
`ResetsApart`, `CloseDrains`, `CommitsHandled`, `AtLeastOnce`, `OneEndpointPerRoute`,
`DeletedOnce`, `UniqueNames`, `RowsEndure`, `OnlyOwnWorkspaces`.

Seeding deserves a remark. An ingest works under a new uuid that the upsert ignores
when the row exists, so its inserts then break the foreign key and the ingest stops.
That makes re-ingesting impossible, and it is also the only thing that
keeps two racing instances from storing children twice: the mutant that adopts the
row's id, the obvious repair, breaks `ChildrenOnce`. A repair needs a transaction.

## 5. Where code and documentation disagree

| Property | Documentation | Code |
|---|---|---|
| `EventuallyTried` in main's order | started "after subscriptions are registered" (`main.go:184`) | started before (`main.go:186`), so nothing is consumed |
| `AdviceImproves` in the panel | a recommendation comes "with the projected improvement" (`recommendations.go:5-6`) | the panel sends its slider's brightness with it (`SegmentPanel.tsx:167`), which takes back an earlier brightening, and the score can fall |

Seen while modelling, and not run:

- Segments. Of two first analyses of a point, one answers with an id no row has
  (`analyze_and_persist.go:80`), although the response names the persisted segment
  (`analyze_dto.go:51`). Ingesting a stored entry again fails at the foreign key
  (`ingest_seed.go:139`), although the ingest is called idempotent (`:14`). Rescore writes
  every column from the row it read (`rescore_segment.go:30`), so of two overlapping
  persisted rescores one is lost. A boot that dies while seeding leaves rows behind,
  and no later boot loads the rest (`main.go:312`). Seed entries keep scores computed
  before the features were rounded; `ScoresOf` accepts the seed file's own pair.
- Limiter. A lost EXPIRE is never repeated, and the endpoint refuses for good once the
  limit is reached (`pipeline.go:262`). The comment speaks of a sliding window
  (`pipeline.go:251`); the code counts fixed windows, and `TwiceLimit` is the bound that
  holds.
- Permissions. A slow lookup stores the old permissions after the invalidation of an
  assignment (`assign_role.go:40`, `rbac_service.go:52`); they stay for the TTL. A query
  that breaks off while it is read is taken for a complete one, as `rows.Err()` is asked
  neither here (`role_repository.go:203`) nor in most other lists (`workspace_repository.go:140`
  and `dynamic_handler.go:346` ask it); here the part is cached for the TTL.
- Events. A handler that fails loses its message when the next one is committed
  (`consumer.go:111` says at least once). A request that outlives a shutdown that timed
  out, or a failed `ListenAndServe`, panics when it publishes on the closed channel;
  `CleanShutdownSafe` says when it cannot.
- Gateway. Two first settings of a policy leave two rows, and reads see either
  (`update_policy.go:24`, migration 00010). The backend's `README.md:213-220` lists the
  checks in another order than `Enforce` makes them.
- Dynamic backend. The filter that keeps `id` and the owner out of an update compares
  letters (`dynamic_handler.go:443`), the database does not, so an update can move or rename
  a record, although the statement names the tenant and the list is commented "with
  multi-tenant isolation" (313, 323). The keys of a body are put into the statement as
  text (401, 444), while the masker rewrites values only; taking only the columns the
  endpoint's schema names would settle both. `dynamic_handler.go:361` gives `/orders/{id}`
  as an example of a path; `extractIDFromPath` (499-513) looks for the singular,
  `/order/{id}`.
- Tenants. `create_workspace.go:41` takes the organization of the token, and login issues
  tokens without one, so only a token of another issuer can name it. In `create_app` the
  organization header wins over the one in the URL.
- Scoring. A rescore answers with recommendations for the row as it was
  (`rescore_segment.go:34`), which the panel shows (`SegmentPanel.tsx:171`), so an
  installation can be followed twice. `LampsToReachTarget` ignores brightness, so dimmed
  lamps stay below the target. The simulation scores upgraded segments without their
  environment (`simulation.go:116`); with a small target or low levels it can report
  more risk than before. The level is computed from the unrounded risk.

## 6. Proofs

All theorems hold for arbitrary constants that satisfy the module's named
assumptions, and are checked by `tlapm` to the last leaf. Each module's inductive
invariant is a theorem of its own (`...Inductive`), its type invariant another
(`...TypeCorrect`; `TypeCorrect` for the segments).

- `LightingSegments_proofs`: `ScoresCorrect`, `ChildrenCorrect`,
  `PrefixCorrect`, `CompleteCorrect`, `IdentityCorrect`, `ChildrenKept`,
  `CatalogCorrect`. The inductive invariant adds that segment ids are distinct, that
  children belong to a stored seed segment, and, phase by phase, which id a seeder
  works under and what it has attached to it (`SeederPhase`). That no two seeders
  share an id is what makes `ChildrenOnce` inductive, and that a seeder goes on only
  if it inserted the row itself is what makes the prefix whole.
- `RedisKeys_proofs`, limiter: `LimitCorrect`, `ResetsCorrect`, `TwiceLimitCorrect`,
  `RefusalCorrect`. At most one goroutine is between INCR and EXPIRE (`OneSetter`), its
  place is counted and not yet used (`PlaceKept`), and the key cannot expire under it,
  having no TTL. `recent[k]` is what got through in the last k ticks; it belongs to the
  key's present life and to one earlier life at most (`RecentKept`), because a TTL runs
  through a whole window (`TtlRuns`). That a refusal is never early counts places: before
  the first loss, every unit of the counter is a request let through or the one about to be.
- `RedisKeys_proofs`, permission cache: `AnswersCorrect`, `FirstRoleCorrect`.
  Every entry, and every value about to be stored, is a part of what the granted roles give
  and never empty (`Part`); unless it comes from a query that broke off, it is all that
  some subset of the roles gives (`Snapshot`). Since roles are only added, both survive any
  delay. The first is enough for answers; for a first role the second leaves one value.
- `InProcessBus_proofs`: `CleanShutdownCorrect`, `DrainCorrect`, `FeedCorrect`. The queue
  holds the last accepted events in order (`QueueInOrder`), everything before them was
  delivered (`HandlersCalled`) except that the dispatcher is part way through one event
  (`CallsInOrder`), and the channel is closed exactly when main has begun to close
  (`ClosedLast`). The refinement maps a successful send to `Accept`, a handler call to
  `Call`, everything else to a stutter.
- `KafkaBus_proofs`: `CommitsCorrect`, `DeliveryCorrect`,
  `OrderCorrect`, and, for handlers that never fail, `AtLeastOnceCorrect`. A reader is
  at most one message ahead of what its handlers were called with (`ReadersInOrder`),
  so no commit, by whomever and however late, can pass an event they never saw.
- `Gateway_proofs`: `RouteCorrect`, `ClosedCorrect`, `StatusCorrect`,
  `PermissionCorrect`, `CountedCorrect`. A request under way has always seen the tables as
  they are now (`UnderWay`), so whatever a query returns is in `seen`; the endpoint it
  found keeps its route, because nothing deletes a row and an administrator who writes
  one back holds the route it read (`UpdatesKnowRow`). That an activation under way
  takes the endpoint out of `closed` makes `ClosedIsRetired` inductive.
- `DynamicBackend_proofs`: `ReadsCorrect`, `WritesCorrect`, `MaskingCorrect`,
  `DeletesCorrect`. What a masking endpoint is about to write is not in the clear
  (`MaskedOnTheWay`); an id that was neither drawn nor named in a body belongs to no row and
  no deletion (`FreshIds`); and no record is there twice, under whatever ids (`OneRow`), so
  one that was deleted never comes back. Bodies that move or rename records are among the
  cases of every proof. Of a statement with text from a body nothing is assumed but that
  the database still holds rows; what is proved beyond it is the types, and that masking
  endpoints still hold masked values (`MaskedOnTheWay`).
- `Tenancy_proofs`: `NamesCorrect`, `RowsCorrect`, `OwnWorkspacesCorrect`, `GivenCorrect`.
  An update under way holds a copy of a row that still exists, of the organization of its
  token, and equal to it but for the fields it was given as long as nobody overtook
  it (`HoldsCopy`).
- `Upgrades_proofs`: `PythonAgreesCorrect`, `AdviceKeptCorrect`,
  `InstallReachesTargetCorrect`, `AdviceEndsCorrect`, `UpgradesReduceRiskCorrect`. They
  hold for any set of segments, features, policies and brightness factors: counts are any
  numbers, ratios and lengths any fractions, roads any strings. What they do not
  cover is the rounding of float64, which could tip a comparison at a boundary. The
  argument has four layers, in this order in the module.
  - Fractions. Euclid's algorithm is defined and returns a common divisor that is a
    combination of its arguments (`GcdDivides`), so a fraction has one form in lowest terms.
    `Value(p, n, d)` says that p is n / d, whatever form n / d has; one lemma per
    operation (`ValuePlus`, `ValueTimes`, ...) turns a calculation with fractions into one
    with whole numbers, and `ValueLeq` a comparison.
  - Scores. `ScoresAgree`: both implementations give the same scores for all features.
    `MoreIsBetter`: more lamps and poles and less vegetation never lower the overall score.
  - Recommendations. `UpgradesInv` says that every row is stored with the scores of its
    features (`RowInv`), that lamps are advised by installations alone and are all
    the row lacks at least, and that the advice of a client that asks anew was computed
    from the row as it is (`AdviceInv`). `AdviceKept` holds in the panel as well, for advice
    that still fits the row (`StillFits`). Only `AdviceEndsCorrect` assumes `~Panel`: the
    panel resets what was brightened, so its advice need not end. `EndsInv` is the measure behind `AdviceEnds`: after k of three prunings
    the trees and the vegetation are bounded by what pruning leaves of 24 and 1 (`Pruned`), and what
    was followed and what is still to follow (`Pending`) sum up to five at most.
  - Simulation. An upgraded segment is scored by its lamps and road alone (`Bare`). With
    two fifths of the recommended lamps its overall score is at least 52.6 and its risk at
    most 50, and no segment at a high or critical level is stored with a risk below 50.
    The sums over the network are monotone in each segment, and so is the rounding of
    their average.

Induction. The prover cannot apply the induction theorems of the library, which take a
predicate as a parameter. Where a proof needs induction it takes a least counterexample
instead: inclusion is well founded on finite sets (`FS_StrictSubsetOrderingWellFounded`),
so a set of numbers has a least one (`LeastNumber`) and a set of finite sets a smallest one.
A recursive function is shown to satisfy its equation by building it up to n for every n
(`GcdUpTo`, and `SumsUpTo` for the fold of `Total`). No theorem is about a RECURSIVE
operator; the modules have none.

Only model-checked: the liveness properties and everything under fairness, which are
beyond the provers (`EventuallySeeded`, `WindowEnds`, `EventuallyCurrent`, `ShutdownEnds`,
`RequestsEnd`, `NothingBlocks`, `EventuallyTried`). Every invariant that a run checks is a theorem.

`UpgradesInv` and `EndsInv` were checked by TLC on the instances of `Upgrades` (and the
former on that of `UpgradesPanel`) before they were proved; runs do not repeat them.

## 7. Not modelled

- Queries that only read, pagination and the other routes of the router: they change
  nothing. A detail of a segment is three queries without a snapshot
  (`get_segment.go:46`), so it may show a segment before an ingest and its children after.
- The dashboard's previews, which are debounced and may answer out of order
  (`SegmentPanel.tsx:150`), change only what the panel shows. The rest of the dashboard
  and the mobile app are rendering.
- The pipeline's detection, anonymization and projection and the analysis worker: image
  models and numeric libraries. What a live analysis yields is an input of
  `LightingSegments`.
- The audit log: the router never mounts its middleware.
- `resolver.go`, the transformers, the response interceptors, the example handlers and
  service configurations, which `main` does not wire.
- Configuration, logging, telemetry, health checks, deployment files and the one-off
  scripts have no state of their own.

What could come next: an abstract gate that decides on one snapshot, which `Gateway`
implements except where a request is overtaken; the analysis worker's lazy start and the
client's fallback; the panel's previews beside a persisted rescore.
