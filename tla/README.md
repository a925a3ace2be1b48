# n0 in TLA+

n0 lets agents and users query databases through one platform: an agent gateway
accepts REST and MCP calls, a query engine runs jobs asynchronously, a connection
manager speaks to the databases through built-in and external adapters, and a
meta service keeps the catalogue, watches the plugins and stores the audit trail.
The services are separate Go processes, replicated, that talk gRPC, NATS core,
NATS JetStream, Redis, an object store and PostgreSQL. What is hard about n0 is
what happens between them, and that is what these modules are about.

Paths below are relative to the repository; `QE` stands for
`services/query-engine`, `MS` for `services/meta-service`, `CM` for
`services/connection-manager`, `GW` for `services/agent-gateway`.

## 1. Inventory

### Components, their state and their operations

| component | state | operations |
|---|---|---|
| Query submission (`QE/internal/server`) | none of its own | `SubmitQuery` creates the record, publishes a message, marks the job failed when the publish fails; `GetJobStatus`, `GetJobResult` read; `SuggestChartConfig` is constant |
| Job store (`QE/internal/job/store.go`) | Redis key `n0:job:<id>` with a TTL, object `results/<id>.json` | `Create`, `MarkRunning`, `MarkSucceeded`, `MarkFailed` (a GET followed by a SET), `Get`, `GetResultPage` |
| Worker pool and processor (`QE/internal/worker`) | per goroutine: the message it holds; at the server: durable consumer `query-workers` | fetch, `Process` with its deferred audit publish, Ack, Nak, Term |
| SQL sandbox (`QE/internal/sandbox`) | none | `ValidatePolicy`: allow-list of statements and tables, limit, tenant predicate; returns the statement to execute |
| Audit publisher and sink (`pkg/shared/audit`, `MS/internal/auditsink`) | stream `AUDIT`, durable consumer `postgres-audit-sink`, table `audit_events` | `Publish` waits for the acknowledgement of JetStream; the sink fetches, inserts, acknowledges |
| Plugin lifecycle manager (`MS/internal/pluginlifecycle`) | rows of `plugin_definitions` | every 15 s: list, probe, record, publish a route |
| Catalogue (`MS/internal/app`, `MS/internal/repository`) | users, workspaces, agents, connections, schema snapshots, plugins | single-statement CRUD; `RegisterUser` and `RegisterPlugin` take two statements; `GetSchema` fills a cache |
| Parameters of a connection (`pkg/shared/crypto`, `CM/internal/dsn`) | the row in `connections`, sealed under `ENCRYPTION_KEY` | seal, read again, build the DSN or the parameters of a plugin, introspect |
| Adapter registry and calls (`CM/internal/registry`, `CM/internal/server`) | map of adapters by type, set of external types | route subscription; `ExecuteQuery`, `TestConnection`, `GetSchema` |
| Built-in adapters (`CM/internal/adapter/*.go`) | a pool per connection ID, in a plain map | `Prepare`, `ExecuteQuery`, `Release` |
| Agent gateway (`GW`) | none; the tokens it issues are with the clients | JWT check, tenant from the token, one forwarded call per request, MCP tools |
| The four mains, discovery, shutdown (`*/cmd/main.go`, `pkg/shared/discovery`, `graceful`, `natsclient`) | what a process has set up so far; the responder of each service | set up in order, ask NATS for an address, serve, release in reverse |
| Other shared packages | none | configuration, logging, HTTP server |
| Example plugin, web admin, site, deployments | - | an adapter with demo rows; user interface; container configuration |

### How they interact

```
 client -> gateway -> SubmitQuery --SET--> Redis  <--GET/SET-- worker --gRPC--> connection manager -> database
                          |                                     ^  |                    ^
                          +--core publish--> JetStream QUERIES --+  +--> JetStream AUDIT |  events.plugin.route
                                                                          |              |  (core NATS)
                                                                     audit sink     lifecycle manager -> plugins
                                                                          +--> PostgreSQL <--+
```

* The submitter and the workers share the job record. Neither locks it: each
  update is a GET and a later SET.
* The worker learns of a job from a message with at-least-once delivery
  (`AckWait` 90 s, `MaxDeliver` 3) and answers only after `Process` returned.
* `Process` publishes one audit event per delivery, all of them under the ID of
  the job; its failure is the failure of the delivery.
* The sink has a consumer of its own on the audit stream, with its own redelivery.
* The lifecycle manager and the registry share nothing but messages that core
  NATS delivers at most once.
* `ExecuteQuery` asks the registry twice, under two separate locks.
* A service asks NATS for the address of another one once, while it starts, and
  keeps the answer. The question has no deadline but the signal that ends `main`.
* A query meets four readers of the same connection: the user who tested it, the
  introspection, the worker that reads its policy, and the adapter that dials it.

### What is hard, and what correct means

| part | hard behaviour | what makes it correct |
|---|---|---|
| submission | publish without confirmation, crash before and after it, failed failure path | a query whose client was told of an error never runs |
| store | lost and falsely refused writes, read-then-write | a terminal record is final; rows and flags of one execution; a success stands on an execution |
| workers | redelivery, timed-out acknowledgement, crash, SIGTERM | one worker per message; acknowledged only when over and audited; a finished query is not run again; every delivery whose calls return ends |
| audit | events of several deliveries under one ID, redelivery of each | no event acknowledged without its row; a row tells how the job ended; an acknowledged job gets a row |
| plugins | lost messages, restarts of either side, two versions of a plugin under one name | three failures degrade; only probed plugins are routed; a healthy plugin gets its route back; a degraded one loses it |
| registry | routes that change during a call | a call uses the contract of its adapter, and a replaced connection only until it is closed |
| paging and sessions | int32 arithmetic, exact last pages, tokens that change between submission and reading, records that expire | no row lost or repeated; a job whose record can be loaded is found under every token of its owner, and by nobody else; every session ends |
| listings | offsets into a list that changes between two pages, a page that fails as a whole for one row, limits replaced in two places | what is there all the time is listed once, and nobody else's rows ever |
| sandbox and answers | a predicate spliced into text by position, tables found by scanning, limits added twice, six dialects | an answer holds the rows of the tenant that the client's own statement would give; tables behind FROM and JOIN are on the list; plain queries are answered |
| connection parameters | another key after a restart, defaults that take the place of missing fields, same-named tables | every reader dials the database that was tested; a schema lists tables as they are |
| start-up and shutdown | failures and signals at every step, questions to services that leave, work that is still running | who is waited for keeps what it works with; an advertised address accepts calls; starting, and stopping when the calls in progress return, come to an end |
| catalogue | two-statement registrations, a cache without invalidation, requests that outlive what they read | an answer without an error is true; no snapshot without its connection; a schema is shown to its owner only; the cache does not grow |
| adapters | maps shared without a lock, pools that outlive their connection | a prepared call finds its pool; a pool is shared, not dialled per query |

Every hazard is listed with its line in `PROJECT.json`.

## 2. Modules

| module | models |
|---|---|
| `QueryJobs` | submission, job store, consumer, worker pool, `Process`, audit stream |
| `JobLifecycle` | the promise to a client: status, number of runs, and whether the message is done with |
| `QueryJobsRefinement` | `QueryJobs` as an implementation of `JobLifecycle` |
| `AuditTrail` | `QueryJobs` composed with the sink and the table |
| `PluginRouting` | plugins, lifecycle managers, route messages, the registry and its calls |
| `ResultPages` | `GetResultPage` and clients that walk through the pages |
| `AgentSession` | a user and its agent at the gateway, composed of `ResultPages`, tokens, the TTL of records, and `JobLifecycle` as the query engine |
| `Listings` | a client that lists connections or workspaces page by page while connections come and go; composed with `AgentSession`, whose tokens it uses |
| `Sandbox` | `ValidatePolicy` on statements as sequences of tokens |
| `ConnectionParams` | parameters given, sealed, read under the present key, made into what an adapter dials; introspection |
| `QueryAnswers` | `Sandbox` and `ConnectionParams` composed with the databases: from the client's statement to its answer |
| `Services` | start-up, discovery, use and shutdown of the four processes |
| `Catalog` | the tables of the meta service and the statements of its requests |
| `AdapterPools` | `Catalog` composed with the queries that run on the pools of an adapter |
| `QueryJobsProofs` | the theorems about `QueryJobs` |
| `JobLifecycleProofs` | the theorems about `QueryJobsRefinement`: that `QueryJobs` implements `JobLifecycle`, and what this rests on |
| `AuditTrailProofs` | the theorems about `AuditTrail` |
| `QueryAnswersProofs` | the theorems about `Sandbox`, `ConnectionParams` and `QueryAnswers` |
| `CatalogProofs` | the theorems about `Catalog` and `AdapterPools` |
| `ServicesProofs` | the theorems about `Services` |
| `PluginRoutingProofs` | the theorems about `PluginRouting` |
| `AgentSessionProofs` | the theorems about `AgentSession`, `ResultPages` and `Listings` |
| `MC...` | the instances for TLC |

Operators marked *Slip* stand next to the definition they vary. Each is a
plausible mistake in the code of that definition (a dropped error, a missing
reset, an off-by-one), is used by no specification, and shows that a property
would notice the mistake.

### QueryJobs

| variable | in the code |
|---|---|
| `sub[j]` | where `SubmitQuery` stands (`QE/internal/server/grpc.go`) |
| `store[j]`, `object[j]` | the Redis record and the object of a large result |
| `msg[m]` | delivery state of a message at `query-workers` |
| `pc[w]`, `task[w]` | program counter and locals of `Pool.run` / `Process` |
| `executed[j]` | deliveries whose SQL reached the database (seen by nobody in the code) |
| `audit[j]` | the success flags of the job's events in the audit stream |

`Create`, `Publish`, `MarkPublishFailed`, `Answer` and `CrashSubmit` are the submitter.
Between `Publish` and `Answer` the message is out and the client knows nothing: it is
told "accepted", or the process dies or the reply is lost and it never hears. Such a
client may have its query run, so `RefusedNeverRuns` speaks of those that were told of
an error.
`Fetch`, `Terminate` (invalid JSON) and `Settle` are `Pool.run`. `Check`,
`MarkRunningGet/Set`, `Prepare`, `Execute`, `MarkSucceededGet`, `PutObject`,
`MarkSucceededSet`, `MarkFailedGet/Set` and `PublishAudit` are the steps of
`Process`, with each early return going through the deferred audit publish.
`AckWait` is the server's timer, `Crash` loses a worker, `Shutdown` cancels its
context.

A result is represented by the number of the delivery that produced it; this is
all that the properties can tell apart. The constant `Faults` says which failures
may happen, since some promises hold only without some of them:

| fault | meaning |
|---|---|
| `publish` | the core publish fails, or is accepted and lost |
| `load`, `save`, `reply` | a GET fails; a SET fails; a SET succeeds and is reported as failed |
| `object`, `audit`, `ack` | the object store, the audit publish, an acknowledgement fails |
| `ackwait` | `AckWait` runs out under a worker that is still busy |
| `crash`, `shutdown` | a process dies; SIGTERM |

Records do not expire in `QueryJobs`: the TTL (24 h by default) is longer than all
deliveries of a message together. They do in `AgentSession`.

### AuditTrail

Event `<<j, i>>` is the i-th event of job `j`. `SinkFetch` adds an event to the
batch that `Fetch(32)` streams in, `SinkSave` is the `INSERT ... ON CONFLICT DO
NOTHING`, `SinkSettle` acknowledges or refuses, `SinkAckWait` and `SinkCrash`
bring an event back. The sink is one goroutine: it settles an event before it
saves the next.

### PluginRouting

`ListPlugins`, `Probe`, `RecordPluginHealth`, `PublishRoute`, `CycleEnds` are
`Manager.check`; `Deliver` runs `RouteExternal` in the subscription of the
connection manager; `Get`, `ConnectionConfig`, `ExecuteQuery` are the steps of a
call. `RouteExternal` of the model also stands for `RemoveExternal`. Both change the route
under the lock of the registry and close the replaced connection after they released it
(`CM/internal/registry/registry.go:49-56, 63-70`): `closing` names the
type whose old connection is still open, `CloseOld` closes it, and until then the next
message waits in the subscription. `call[c].conn` says whether the connection of a call
is that of the present route, a replaced one, or one that was closed under it.
Failures are counted against `MaxFaults`, so "once the failures are over" is
something that every behaviour comes to. Failure counters above three are not
told apart.

### ResultPages

The integers are those of the code with `Width` bits instead of 32, wrapping
around. Slicing with a negative bound panics, as it does in Go. A client follows
the next-page token or counts pages itself; it chooses its page size and its first
page when it begins to read, and `step` says where it is.

### AgentSession

One job is followed. `SubmitQuery` asks the engine, which is `JobLifecycle` seen
from outside (`Backend`): it may run the query, fail, succeed, give up or do nothing
at all. `LogIn`, `GenerateAgentToken` and `TokenExpires` change the token that the
client holds; `Tenant` is what `jwtMiddleware` makes of it, and `Visible` is what
`GetForTenant` lets through: it calls every record that cannot be loaded "not found"
(`QE/internal/job/store.go:186-188`), and `redisUp` says whether one can. `RedisTurns`
changes it at any time after the submission. `ForeignQuery` is a client with the ID of a job of
somebody else. `RecordExpires` is Redis; every save renews the TTL, so it may come
at any time and is owed in the end.

### Listings

`table` holds the rows of connections and workspaces, `walk` what a client has asked
for and seen. `ListPage` is one request through gateway, meta-service and statement:
each of the three has a say in the limit (`GatewayLimit`, `MetaLimit`) and two in the
offset (`GatewayOffset`), and the gateway narrows both to int32. `ByCreation` is the
`ORDER BY created_at DESC`, which leaves rows of one instant in any order.
`ConnectionComes` and `ConnectionGoes` may happen between any two pages.
`StartListing` settles how the client asks: by REST or MCP, with which limit and first
offset, and whether it stops at an empty page or at a short one. A client that lists
follows no job; one that does not, behaves as in `AgentSession`.

### Sandbox, ConnectionParams and QueryAnswers

A statement is a sequence of tokens, and lexing is left out. `Names` are the identifiers,
with `Lower` for their lower case; `Quote` puts a word in double quotes, a token of its
own that `Unquote` takes apart. The operators of `Sandbox` are the parts of
`ValidatePolicy` in the order of the code: `ScanAccepts`, `ExtractAccepts`,
`EnforceAllowlist`, `TenantAccepts`, `LimitAccepts`, and `Sanitized` with
`InjectPredicate` for the statement it returns.

Case and quotes go the way of the code. The name of a table loses both (`Folded`); an
alias keeps its case, loses its quotes behind AS, and is no alias at all when it is in
quotes without AS (`AliasAt`); the list of allowed tables is put in lower case only
(`InLowerCase`); the predicate has the alias or the name, and the column, in quotes.
`Denoted` is how the databases read this: PostgreSQL takes a name without quotes for
lower case, ClickHouse as it is, SQLite without regard to case. So `FROM orders O` with
a tenant column becomes `"O"."tenant"`, which PostgreSQL does not know: `KeepsItsName`
says of which names this cannot happen, and `PlainIsAnswered` speaks of those.

`ConnectionParams` keeps the row of one connection. `EncryptJSON` makes a sealed
value that only `DecryptJSON` under the same key opens; without a key both are the
identity, as in the code. `Restart` gives meta-service another key.
`ConnectionConfig` is what an adapter dials: the fields of its DSN with their
defaults, or a plugin's parameters as they are. `Introspect` groups the columns of
the database by the bare name of their table, within the schemas the adapter's
query lets through.

`QueryAnswers` runs one statement: the job is stored, a worker loads the
connection, reads the policy out of its parameters, validates, and executes on the
adapter with the limit of the request. `Evaluate` is an external definition of what
a statement means to a database (precedence of AND and OR, ORDER BY, LIMIT), over
a table of a few rows of two tenants. `Meaning` says what a condition means if the
meaning of its parts is known; `Holds` is the function that agrees with it. A
statement with two conditions, or with one behind its limit, is no SQL, and one that
qualifies a column by a name that denotes no table of it fails (`Understands`). `AnswerIsRight` compares the answer with the
statement the client wrote, evaluated over the rows of its tenant.

### Services

| variable | in the code |
|---|---|
| `proc[s]` | how far `main` of service `s` has got: the steps of `Boot[s]` done, waiting for an answer of discovery, serving, or on its way back; and whether SIGTERM came |
| `use` | one activity in flight: a call, an HTTP request, a worker, the audit sink |

`Boot` is the order in which each `main` sets up what it uses, and the deferred
calls take it down in reverse (`Release`), waiting where the code waits
(`GracefulStop`, `Pool.Stop`, `sink.Wait`). `Step`, `Fatal`, `Ask`, `Answer` and
`Unresolved` are the steps of start-up; `Leaves` is what becomes of a question when
the service that received it goes. Activities do not meet except in the resources,
so one at a time shows what happens to each.

### Catalog and AdapterPools

| variable | in the code |
|---|---|
| `users`, `workspaces`, `live`, `snaps`, `defined`, `enabled` | rows of the tables of `MS/migrations` |
| `owner[c]` | the tenant a connection ID was created for; IDs are never used twice |
| `schema[c]` | the version of the customer's own schema (outside n0) |
| `req[r]` | the statement handler `r` comes to next, with its user and its target |
| `told` | what the answers without an error said, by kind |
| `pool`, `opened`, `damaged` | the pool map of an adapter; pools dialled, by connection; two calls have met in the map |

Each action of `Catalog` is one SQL statement (or one call to the connection
manager) with its outcome: it is refused, it fails, it takes effect and the
handler goes on, or it takes effect and the handler is told of an error. No route
opens a transaction, so handlers interleave between statements, and one that dies
leaves what its earlier statements did. `Register`, `LogIn`, `Connect`,
`GetSchema`, `Delete` and `RegisterPlugin` start a handler; all but the first two
need a token.

`AdapterPools` adds the worker's query: `GetConnection` at the meta service, then
`LookUp`, `Dial`, `WriteBegins`, `WriteEnds` (`Prepare`) and `Execute`. gRPC runs
calls concurrently and the map has no lock. An access that meets a write is a
data race (`Race`): the runtime may stop the process (`ManagerRestarts`), or the
map is in an unknown state, and from then on `LookUp` finds what it likes.

| fault | meaning |
|---|---|
| `db` | a statement fails and changes nothing |
| `reply` | a statement takes effect and is reported as failed |
| `cm` | the connection manager, or the database behind it, fails |
| `crash` | the connection manager dies and restarts |

## 3. Runs

| run | instance | shows |
|---|---|---|
| `jobs_no_overlap` (1,065,246 states) | 1 job, 1 invalid message, 2 workers, 3 deliveries, all faults but `ackwait` | acknowledged means over and audited; one worker per message; a success stands on an execution; a query whose client was told of an error never runs |
| `jobs_honest_store` (51,456) | the same with 2 deliveries, also without `load` and `reply` | a terminal job is final, does not run again and serves its last result; the refinement of `JobLifecycle`; every delivery ends if calls return |
| `audit_rows` (57,560) | 1 job, 2 workers, 2 deliveries on either consumer, all faults of the sink | the row tells the outcome; acknowledged events are in the table and get rows; jobs end if calls return |
| `plugin_routes` (1,502,868) | 2 versions of one plugin, a built-in adapter, 1 call, up to 2 faults of any kind | the four route properties, and that a healthy plugin gets its route back |
| `catalog` | 2 users, 2 requests at a time, 1 connection, 1 plugin, 2 schema versions, all faults | the answers are true; the cache belongs to live connections and their owners and stays small; prepared calls find their pool and share it |
| `services_life` (130,004) | meta-service, connection manager and query engine, 3 starts, failures and crashes at every step, SIGTERM at any time | who is waited for keeps its resources; an advertised address accepts calls; starts end, and stops do if the calls being served return |
| `agent_session` | 5-bit integers, 0 to 7 rows, every kind of page size and first page, an agent token, a token and a record that expire, a Redis that fails and recovers, foreign jobs; or five connections and a workspace, one change during a walk | pages in order and complete; a job is found by its owner under each token while its record can be loaded, and by nobody else; a list has what was there all the time, once; the session ends whatever the engine does |
| `query_answers` (1,262,232) | 479 statements over 2 tables: every clause, names in both cases and in quotes, lists of tables, every refused kind; policies, adapters, keys that change | answers are right and tenant-scoped, tables behind FROM, JOIN or a comma next to one are on the list, plain queries answered, one database for all readers, schemas whole |

Four more runs end in a counterexample, each against a sentence of the repository:

| run | the sentence | what happens |
|---|---|---|
| `jobs_reexecuted` | a redelivery "must not execute a terminal query twice" (`QE/internal/worker/processor.go:74`) | the audit publish fails, the redelivery's `Get` fails, the error counts as "not terminal", and the query runs again |
| `audit_first_wins` | "Every terminal query execution publishes ... an event", "idempotent through the table's primary key" (`README.md:326`) | a delivery that will be retried publishes a failure under the ID of the job; the success that follows conflicts with it and is dropped |
| `plugin_route_stale` | "degraded or disabled routes are removed immediately" (`README.md:318`) | the degraded message is published once and lost; later cycles see no change and publish nothing |
| `services_not_drained` | "graceful shutdown" (`README.md:98`) | `main` of the gateway returns on SIGTERM while a request is being served: `Shutdown` runs in a goroutine that nobody waits for |

Some more disagreements have no run of their own and are listed as hazards:

* `README.md:338` says that the execution timeout is propagated to the driver. The worker
  sends `TimeoutSeconds` (`QE/internal/worker/processor.go:131`) and the connection
  manager never reads it (`CM/internal/server/grpc.go:55-69`): a query that hangs holds
  its worker. The liveness properties say "if calls return" for this reason.
* `README.md:340` says that every base table is extracted and checked. A comma is looked
  for only right behind a table's name or alias (`QE/internal/sandbox/sandbox.go:235`), so
  `SELECT id FROM t JOIN t ON p, u` is accepted and reads `u`, and so does
  `FROM t "x", u`, as an alias in quotes without AS is not taken for one. Both statements
  are in the run, and `Reads` leaves this `u` out.
* The MCP tool calls its pages zero-based (`GW/internal/gateway/mcp.go:29`) and the store
  counts from one.
* A registration whose second statement fails leaves a user without the workspace that
  `README.md:157` promises.
* `MarkFailed` "stores a terminal failure" (`QE/internal/job/store.go:198`) that an
  overlapping delivery can take back.
* `GetJobStatus` has an answer for records that cannot be loaded
  (`QE/internal/server/grpc.go:99`) that it never gives: `GetForTenant` turns every such
  error into "not found".

### Bounds

Jobs do not share state other than the workers, so one job shows all there is
between a job and its two deliveries; the invalid message is the second customer
of the workers. Two workers are enough for two deliveries to overlap, and
`MaxDeliver` of 2 or 3 lets a delivery fail, be repeated and be given up (3 is
the value of the code). In the theorems all of these are arbitrary. Two plugins of
the same name are the smallest case of a shared route, and three failed probes
with the default limit of three happen within it; two faults cover a lost message
followed by a restart. More than one message in flight per manager only delays
what the next cycle repeats. With five bits the integers are -16 to 15 (`Half` is 16);
the sizes asked for are -1 to 4 and 34, which wraps around, the first pages -1 to 16,
and results of up to three pages have every shape of last page. In the catalogue, requests meet only in
the rows of one connection, one plugin or one user: two requests at a time are the
smallest interleaving, a second user is the stranger whom the filters keep out, and
a second schema version makes a cached schema differ from the current one. One
connection suffices because no statement reads two. The theorems have none of
these bounds.

In `services_life` three processes are the smallest cycle-free chain in which one asks
two others that may leave, and three starts allow each of them one life, or one of
them a second one after a crash; the gateway, which only asks, is in
`services_not_drained`. In `agent_session` one expiry puts a new token between any two
requests, one row that comes or goes shows what a shifted page boundary repeats or
loses, and three readable rows of one user make lists of up to three pages of the
limit 1; two rows of one instant, a row that cannot be decrypted, a row of somebody
else and a limit that wraps around are one row or limit each. In `query_answers` the
statements are built from every combination of their clauses, rather than from all
sequences of tokens, and two names that differ in case, with and without quotes, are all
that quoting tells apart; six rows of two tenants per table and a limit of three make the
added limit bite.

Deadlock checking is off where the system comes to rest: all messages settled,
or the walk over.

### Fairness

* A submitter and a worker that can go on do so (`Submit`, `Answer`, `Proceed`): what
  they wait for is n0's own NATS, Redis, object store and PostgreSQL, which are assumed to
  answer or to fail.
* Calls to other services are owed no end. `GetConnection` and `ExecuteQuery` have no
  deadline (`QE/internal/worker/processor.go:97, 127-134`), and a query takes as long as
  the customer's database does. A worker that waits for one of them (`Waits`) goes on only if the
  call returns, or if SIGTERM has cancelled its context (`Interrupted`). `DeliveryEnds`
  and `StoredJobEnds` are implications from `CallsReturn`, that no worker waits for good.
* A ready message is fetched: the pools loop over `Fetch`.
* `AckWait` and `SinkAckWait` happen: they are timers of the NATS server.
* The manager's ticker keeps firing and a route message is handed on or lost.
* A client at the gateway logs in when it needs to, submits, polls and asks for the
  next page; Redis expires keys. Nothing is owed about the engine, so a session ends
  even when its job never does. One that has begun to list gets its pages or an error;
  no client owes a listing, and connections need not change.
* A `main` that can take its next step takes it, up or down (`BootStep`,
  `StopStep`), and a responder that is there answers. Of the work in flight only workers
  and the sink come to an end by themselves, once SIGTERM has cancelled their context
  (`Cancelled`). A call that a process serves is owed none, and `GracefulStop` of the
  connection manager waits for it (`CM/cmd/main.go:76`): `StopEnds` is an implication from
  `CallsReturn(s)`, that `s` is not busy with a call for good. A process whose question
  was left behind has no step: this is the exception in `StartEnds`, and the reason
  why `StopEnds` speaks of SIGTERM.
* A replaced connection is closed (`CloseOld`): the handler does it next.

Nothing is owed about failures, health changes, registrations or the choice
`SubmitQuery` makes. In particular no fairness says that a failure ever stops;
where a property needs that, failures are bounded (by `MaxDeliver`, `MaxFaults`)
or excluded by name.

## 4. Proofs

### Query jobs

`QueryJobsProofs` proves, for all finite or infinite sets of jobs, invalid
messages and workers, every `MaxDeliver` and every set of faults (up to the
exclusion named), from the three assumptions on the constants in `QueryJobs`:

| theorem | property | fails to hold under |
|---|---|---|
| `TypeCorrect` | `TypeOK` | - |
| `AcknowledgedIsTerminal` | `AckedIsTerminal` | `ackwait` |
| `AcknowledgedIsAudited` | `AckedIsAudited` | `ackwait` |
| `WorkersAreAlone` | `OneWorkerPerMessage` | `ackwait` |
| `SuccessfulWasExecuted` | `SuccessWasExecuted` | - |
| `RefusedDoesNotRun` | `RefusedNeverRuns` | - |

The run of the last two leaves `ackwait` out; their theorems do not.

There are three inductive invariants.

* `TypeInv` adds to the types that a busy worker holds a message, that it holds a
  job unless it terminates an invalid message, that a ready message has a delivery left
  and that there is no message of a submitter that did not get past `Publish`.
  Without these the number of a delivery is not bounded by `MaxDeliver`.
* `AloneInv` says that the message of a busy worker is in flight and held by no
  other, and what the worker already knows at each step (`Verdict`): after `Check`
  or the last write, the record is terminal unless the delivery will be refused,
  and the event that was published tells the same outcome. `AckedIsTerminal` and
  `AckedIsAudited` are about the instant after `Settle`, where the worker has
  forgotten all this; that is why they are not inductive.
* `HonestInv` holds under every fault. A worker that is about to store a result
  has one that its own delivery produced, and a message that was not published
  left no trace. `RefusedNeverRuns` follows, as a client is told of an error only where
  nothing was published; of one that got no answer it says nothing.

One lemma per invariant proves that each action keeps it; frame lemmas say what
the actions of a worker leave alone.

### The promise to a client

`JobLifecycleProofs` proves, for all sets of jobs, invalid messages and workers and
every `MaxDeliver`, under the assumption `HonestStore`: `Faults` has none of `ackwait`,
`load` and `reply`. Writes, publishes, the object store, acknowledgements and processes
may still fail. This is the instance of the run; what happens without the
assumption is what `jobs_reexecuted` shows.

| theorem | property |
|---|---|
| `EngineKeepsPromise` | `KeepsPromise`: `QueryJobs` implements `JobLifecycle` |
| `TerminalRecordIsFinal` | `TerminalIsFinal` |
| `TerminalDoesNotExecute` | `TerminalIsNotExecuted` |
| `LastResultIsServed` | `ServesLastResult` |

`OpenInv` says what is true of a record while a worker is at it: the worker works on an
open record only, holds it as it is in the store between a Get and the Set (`Open`),
has not run the query in this delivery before it comes to `Execute` (`Fresh`), and
has put the object that the reference will name. It needs `AloneInv` of
`QueryJobsProofs`: with two workers on one message the record in hand is stale. The
refinement maps each action to one of `JobLifecycle`, or to none, by cases on the
actions of `Next`; the number of executions is the cardinality of `executed`, which
grows by one because a delivery is fresh.

### Audit trail

`AuditTrailProofs` proves, for all sets of jobs and workers and both delivery limits:

| theorem | property | assumes |
|---|---|---|
| `AcknowledgedIsInTable` | `AckedIsInTable` | nothing about failures |
| `RowTellsOutcome` | `RowMatchesRecord` | `SavingStore`: `HonestStore`, and no `save` |
| `EventsAreNumbered` | a job has at most `MaxDeliver` events | no `ackwait` |

`SinkInv` is about the sink alone: an event that is about to be acknowledged has its
row. For the outcome, `Consistent` says that all events of a job in the stream tell the
same outcome, that of its record. This needs more than an honest store: an event after a
failed write says "failure" while the record is still open, and a redelivery may
succeed. The run has the same assumption; `audit_first_wins` shows what happens
otherwise. `EventsAreNumbered` says that the pairs of `Events` leave no event out.

### Catalogue and pools

`CatalogProofs` proves, for all sets of users, connections, plugins and requests,
every number of schema versions and every set of faults, from the assumption on
the constants in `Catalog`:

| theorem | property |
|---|---|
| `CatalogTypes` | `TypeOK` |
| `AnswersAreTrue` | `ToldMeansDone` |
| `NoOrphanSnapshots` | `SnapshotsHaveConnection` |
| `NoForeignSchemas` | `SchemasAreOwn` |
| `PreparedIsFound` | `PreparedFindsPool` |
| `SnapshotsStayFew` | `SnapshotsAreBounded`, for finitely many requests at a time |
| `PoolsStayFew` | `PoolsAreShared`, for finitely many requests at a time |

* `TypeInv` adds what a request carries at each step: a user unless it is idle, a
  connection or a plugin where a statement is about one, a version where a
  snapshot is about to be saved.
* `TruthInv` is the invariant behind the first four. The properties speak of
  answers, but an answer is true because of what the handler did statements ago:
  that the user was inserted (`AccountsInv`), the plugin defined (`PluginsInv`),
  that the connection was the user's when it was read and that the fetched version
  is not newer than the schema (`FetchInv`). `RowsInv` adds that live and deleted
  connections have owners, so an ID that was deleted is not given out again and
  what was told stays told; `SnapsInv` bounds the versions in the cache, and
  `ShownInv` says that a schema that was shown stays in the cache while its
  connection lives.
* Each lemma about a writing statement shows the part of the invariant that it
  disturbs and that it keeps the others (`AccountsKept`, `PluginsKept`,
  `ConnsKept`); one lemma each covers all steps that only fail, start or go on.
* `PreparedFindsPool` is inductive on top of `TypeInv`.
* The bounds count: snapshots in the cache and requests that may still add one are
  together no more than requests (`SnapBound`); pools dialled and calls that looked
  before there was one likewise (`PoolBound`). Each step moves a request from the second
  number to the first or takes it out.

### Services

`ServicesProofs` proves, for all sets of deployed services, faults and fallbacks and
every number of starts, from the assumption on the constants in `Services`:

| theorem | property |
|---|---|
| `UsersHaveResources` | `ResourcesOutliveUsers` |
| `AdvertisedIsServed` | `AdvertisedAccepts` |

What an activity works with is there because its service has got as far as the step
that lets it begin, its `Gate`: the listener for a call, the pool for a worker, the
sink. `LifeInv` says that the activity in flight is past its gate. It is kept
because the deferred call at the gate waits for the activity (`GateHolds`), and, for
the sink, because a service that is still using its sink has not begun to stop:
that needs `StoppingWasTold`, since the sink looks at the context before it fetches.
`AskersHaveMore` says that a process that asks has a step to come, without which an
answer could lead beyond the end of `main`. `GateIsAfterNeeds` and
`AdvertisedIsAccepted` read the properties off the order of the steps.

### Plugin routes

`PluginRoutingProofs` proves, for all sets of plugins, managers, built-in adapters and
calls, every bound on failures and messages in flight, and every set of faults:

| theorem | property |
|---|---|
| `DegradedAfterThree` | `ThreeFailuresDegrade` |
| `RoutesAreProbed` | `RoutedWasHealthy` |
| `CallsEndWithRoute` | `NoCallOutlivesRoute` |
| `ContractsAreKept` | `EachItsOwnContract` |

`RoutingInv` has three layers. `RowsInv` is the first property with the shape of rows
and sweeps: a failure counter moves only by one judged probe (`JudgedRow`). `RouteInv`
follows the word "active" on its way from the row through the manager that is about to
publish it and the message in flight to the route (`ActiveWasHealthy`,
`AnnouncedWasHealthy`, `SentWasHealthy`); `RoutedWasHealthy` is its end and not
inductive without the rest. `CallInv` adds that a call which has its adapter has the
built-in one exactly for built-in types (`BuiltinsGoFirst`), which is what the second
question to the registry may contradict. `NoCallOutlivesRoute` is inductive: a call whose
connection is replaced is on the one that `closing` names, and no message is handled
before that is closed, so it cannot be forgotten.

### Agent sessions

`AgentSessionProofs` proves, for every width of the integers, all numbers of rows,
pages, listed rows, runs and expiries, with and without a `jwt_secret`:

| theorem | property |
|---|---|
| `NobodyElsesJob` | `AnswersAreOwn` |
| `OwnJobIsFound` | `OwnIsFound` |
| `VisitsAreSessions` | every behaviour of `VisitSpec` is one of `SessionSpec`, so all but the last of these hold of clients that list as well |
| `PagesFollow` | `PagesInOrder`, under `RowsFit` |
| `WalkReadsAll` | `DoneReadsAll`, under `RowsFit` |
| `ListingIsWhole` | `ListsWhatIsThere`, under `TableFits` |

`AnswersAreOwn` speaks of the instant of an answer, and `OwnIsFound` of the step to it:
the owner is told "not found" only when the record is gone or Redis does not answer at
that moment. `SessionInv` says what leads
up to it: a token acts for its user although its subject is an agent (`TokenInv`), a job
that is asked for was accepted from somebody (`AskedWasAccepted`), and a gateway without
a secret submits for nobody (`OwnerHasToken`).

`RowsFit` says that a result has fewer rows than an int32 counts, `TableFits` the same
of the rows of a table, of which there are finitely many. A result is read from one
object or one Redis value (`QE/internal/job/store.go:249-265`) and holds at most what
the sandbox's limit lets through, far below 2^31. `Half` is `2 ^ (Width - 1)`; the
assumption of `ResultPages` that it is a positive number stands in for arithmetic of
powers, which the provers do not have.

* `PageInv` says where a reader is (`WalkInv`): its next page begins where the rows it
  has end, or before that if it counts from zero; the rows it has are the piece of the
  result between its first page and there; and it never comes to a page that does not
  fit. `SizeServed` and `PageOffset` compute what is left of a page number and a size
  after int32 and the replacements of the store. Where the first page does not fit,
  `Fits` is false and neither property says anything.
* `ListInv` relates the offset of a walk to the rows that come before a row in the
  order by creation (`Before`). While nothing is deleted, a row that is not listed has
  at least as many before it as the offset; while nothing is added, a row that is
  listed has fewer. Both are needed at each page: `PlaceInOrder` says that
  the row at a place of the order has as many before it as the place says, so that the
  page begins with the first row that is not listed. `RowComes` and `RowGoes` are the
  two changes that the respective half survives.

### Query answers

`QueryAnswersProofs` proves, for all statements, policies, adapters, keys and columns,
all sets of names and any number of restarts, from these assumptions: the default limit is
one that the model has a numeral for (`LimitAssumption` in `Sandbox`); names are no
keywords or symbols, lower case has no other lower case, and quotes make new words,
different ones of different words (`WordsAssumption`); and the columns of `Data` are named
(`ColumnAssumption` in `QueryAnswers`). The
rows are those of `Data`, as in the run; only `NoRowOfAnotherTenant` speaks of any row:

| theorem | property | assumes |
|---|---|---|
| `NoRowOfAnotherTenant` | `TenantIsBound`: the condition of what is sent holds for rows of the tenant only | `Named(query)`, `NamesTenant` |
| `AnswersAreRight` | `AnswerIsRight` | `Proper(query)`, `ColumnOfTable` |
| `PlainQueriesAreAnswered` | `PlainIsAnswered` | `Ordinary(query)`, `TenantIsWord` |
| `TablesAreOnTheList` | `ReadsOnlyAllowed` | `Regular(query)` |
| `QueryReachesItsDatabase` | `OneDatabase` | `PlainParams` |
| `SchemaTellsTables` | `SchemaIsWhole` | `PlainParams` |

* `Regular` says that the parts of a query are what they are called, whatever tokens they
  consist of: a name is followed by no dot, the last part names a table behind FROM or
  JOIN without its schema, and quotes are around names only. Unions, nested selects and
  second statements are among them, and lists of tables: all 479 statements of the run
  are `Regular`. `NameIsRead` is the heart: the scan from a word to the end of a name,
  which alternates parts and dots, yields the whole name and nothing more, wherever it
  stands; `NameStays` and `NameIsTrimmed` carry it through the text. A table behind a
  comma counts as read if the comma is right behind another table (`Introduces`), and
  then the statement is never let through (`ListIsRefused`). One further on is not found by the code, and not
  counted.
* The three theorems about tenants and answers are about what `injectPredicate` makes of
  a statement by counting brackets. The length of a statement is free: columns, names,
  joins and conditions are sequences of any words, in any case and with or without quotes.
  `Named` says that a statement is made of words; `NamesTenant` that the tenant's value
  is a word and no keyword, a literal that the code writes in single quotes. The column
  may be any identifier, as the code puts it in double quotes. All 479 statements of the
  run are `Named`.
  What follows the table is free: joins, nested selects, second conditions, brackets
  that close nothing. So no statement that is accepted and understood shows a row of
  another tenant in the table that it names. This is said of statements as sequences of
  tokens. Whatever makes a database see other tokens than the sandbox is outside it: a
  comment glued to a word (`FROM t x--`) would take the predicate away, and a form of
  LIMIT that the tokens do not have (`LIMIT 5, 100000`) gives more rows.
* `Proper` says that the parts of a query end where they are said to: names hold no
  keyword, brackets in joins and conditions balance, a limit is one word, and nothing
  but a semicolon follows. `ColumnOfTable` lets the column be absent, malformed or that
  of the table. `Ordinary` adds that an alias and a join have the form of one, an alias in
  quotes standing behind AS, and
  that a dot in the condition follows the name of the table. 461 of the 479 statements
  of the run are `Proper`; the other 18 have an ending that nobody should get an answer
  to, a list that the scan does not see among them. 441 are `Ordinary`: the 20 others have
  an alias in quotes without AS.
* `PlainIsAnswered` is about PostgreSQL, SQLite and ClickHouse, and, if there is a tenant
  column, about tables that keep their name: `KeepsItsName` asks of a table without an
  alias that its name is in lower case, of an alias that it is, and of one in quotes that
  it stands behind AS. Of other names it cannot be said: `FROM orders O` fails on
  PostgreSQL and on no other of the three, `FROM Orders` on ClickHouse, and of
  `FROM orders "o"` the alias is overlooked and the qualifier is a table that the
  statement no longer has.
* The invariants are small. `SentInv`: what was sent is `Sanitized` of an allowed
  statement, an answer is what the database made of it. `TurnedInv`: what was refused
  was not allowed, what failed was not understood. The work is in the text.
  `Depth` is a number of brackets, so the depth in a text put together of two is a sum
  (`Turn`, `Level`, `Balanced`, `AtTop`). The text is `Start`, then the condition, then
  `TailPart`; the first closing word outside brackets is where the tail starts
  and the last WHERE before it is that of the condition. The predicate therefore makes a
  `Frame` whose condition is `Both` of the old one in brackets and the predicate, or the
  predicate alone.
* That `Both` means "and" is no textual fact: it needs what a condition means. `Holds`
  is defined by recursion over a condition that gets shorter. `MeaningExists` and
  `MeaningsAgree` show by the least length without a meaning, or with two, that there is
  exactly one function that satisfies the recursion for conditions up to each
  length, and `HoldsMeans` that `Holds` does. The step from length to length is a
  minimal counterexample among numbers (`WFMin`), so no induction theorem has to be
  instantiated. With the equation of `Holds`, the first AND outside brackets is the
  one that the rewrite wrote, and no OR is outside them.
* For plain queries the scan must accept the text and find no table but those of
  FROM and JOIN (`PlainIsAllowed`), and the database must read what is sent
  (`PlainIsRead`): one condition, before one limit, with its dots behind the name of the
  table, by cases on whether there is a policy column and a condition.
* `PlainParams` says that nobody gives a connection a field `_enc`, which is how
  `DecryptJSON` tells sealed parameters from others (`pkg/shared/crypto/aes.go:61`).
* `PathInv` says that the row holds what was given, as it is or sealed under some key,
  and that what a worker has read is either what was given or something without a
  policy, which `Check` refuses. This is why a query cannot reach the default host of
  an adapter although a schema can (`Bare`).

### What is only model-checked

* Everything under fairness (`DeliveryEnds`, `StoredJobEnds`, `AckedGetsRow`,
  `HealthyIsRouted`, `AgentFinishes`, `StartEnds`, `StopEnds`): the prover treats
  neither liveness nor ENABLED.
* `AnswerIsRight` for the statements that are not `Proper`, and `PlainIsAnswered` for those
  that are not `Ordinary`: the few of the run.
* The runs that end in a counterexample.

Every invariant and every action property of a passing run is stated by a theorem,
under the hypotheses named above.

Type invariants are no properties of the runs where they are proved: `TypeOK` of
`QueryJobs` and of `Catalog` are theorems.

## 5. Not modelled

* Configuration, logging, HTTP plumbing, generated code, user interface,
  deployments: no protocol state. Ciphers and signatures are assumed to do what
  they are for; what the code does around them is in `ConnectionParams` and
  `AgentSession`.
* Lexing of SQL: `Sandbox` starts from tokens. Strings, comments, backquotes and names
  that are keywords are left out with it; case and double quotes are not. The text
  of a DSN and its quoting, for the same reason.
* The agent gateway's CORS and error texts; agents and policies in the
  catalogue: single-statement reads and writes without an invariant between them.
* The release of pools: `Release` has no caller, so no model has it as an action.
* `TestConnection` and `SuggestChartConfig`: they change nothing and read nothing
  that changes.
* The in-memory job store that development falls back to, beyond the fact that
  start-up goes on with it.

## 6. Plan

Done, in this order: `QueryJobs` with `JobLifecycle`, `AuditTrail`, `PluginRouting`,
`ResultPages`, the proofs about `QueryJobs`, `Catalog` with `AdapterPools` and the
proofs about them, `Services` and its proofs, `AgentSession`, `Sandbox`,
`ConnectionParams` and `QueryAnswers`, the proofs about `PluginRouting` and
`AgentSession`, `Listings`, the refinement and its companions for an honest store, the
proofs about `AuditTrail`, `ResultPages` and `Listings`, the bounds of `Catalog` and
`AdapterPools`, the tables and databases of `QueryAnswers`, and the meaning of its
rewritten statements.

Next:

1. Several queries at once in `QueryAnswers`, to compose it with `AdapterPools`.
2. A query that hangs, as a state of its own in `QueryJobs` and `Services`, to say what
   the other workers may still do.
