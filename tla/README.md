# A TLA+ verification of the Protobuf Runtime

The repository is a workspace of Rust crates that generated services run on:
`cache`, `database`, `grpc`, `agents`, `network` and `telemetry`. This project
models what they do where it is hard to test: code that coordinates tasks,
callers, processes and a backend, where a unit test reaches one interleaving and
the program meets all of them; and code that translates between interfaces, where
a test tries the inputs somebody thought of.

Contents: [the system](#the-system), [the modules](#the-modules),
[the runs](#the-runs), [findings](#findings), [fairness](#fairness),
[proofs](#proofs), [what is left out](#what-is-left-out), [plan](#plan).

To repeat the checks, in this directory:

    tlc -workers 2 -config MCFlight.cfg MCFlight
    for m in *Proofs.tla; do tlapm $m; done

## The system

Paths are relative to the repository. `PROJECT.json` lists every component with
its status, every definition with the lines it models, and every hazard at the
line where it bites.

### cache

A `Driver` is one backend (Redis, Dragonfly, Memcached or memory). Optional
capabilities (`Sets`, `Fenced`, `BulkDriver`, `Scanner`, `Leases`) sit beside it.
A provider opens databases over a client; strategies build operations with
guarantees out of driver calls, each of which is one atomic update of one key and
an await. A `DB` is a selected database: it hands out strategies, and owns what
has to be drained when it is closed.

| component | state | operations | hard part |
|---|---|---|---|
| single flight, `strategies/flight.rs` | map of joinable executions, semaphore, one detached task and watch channel per execution | `run` | lookup against removal, publication and permit; cancellation, timeout, panic |
| refresher, `strategies/refresher.rs` | closed flag, running count, semaphore, notification | `go`, `drain` | admission against drain; completion between check and await |
| read-through, `strategies/aside.rs` | per view: the IDs being refreshed; in the backend: entry and ownership key | `get_or_load`, `refresh`, `invalidate` | processes sharing a backend, leases, lost answers, a load dropped at any await; two deadlines per entry |
| database, `core/database.rs` | close state, release callback, refresher | `close` | concurrent and cancelled callers, drain timeout, failing or panicking release |
| document, `strategies/document.rs`, `batch.rs` | entry keys and an enumeration set | `create`, `update`, `delete`, `keys`, `get`, `list`, `ttl` | two keys that cannot be updated together; sweeping what is stale |
| indexed, `strategies/indexed.rs`, `retry.rs` | membership sets and an inverse record per entry | the same, and lookup by field | three kinds of key; encoded memberships; retries of half-done work |
| keyspace, drop, `core/` | names | open, select, drop | separators inside names; a scan that is not atomic |
| drivers, `drivers/`, `core/memory_driver.rs` | connection, map with leases | the `Driver` calls, connect, close | TTLs in wire units, several servers, lost connections, close against running calls |

`DB` shares one `Refresher` between its read-through views. A view runs every
load through its `Flight`; a stale hit asks the `Refresher` to admit a refresh,
which then goes through the same flight. `DB::close` drains the refresher and
calls the release callback.

Correct means: one execution per ID; capacity neither lost nor invented; nobody
waits for ever; a drain that returns left nothing running; ownership of a load
ends only by its release or its lease; stored values are found by enumeration and
by the fields they were filed under; databases do not share keys; an entry lives as
long as its writer was promised, on every backend.

### grpc

A `HybridServer` is assembled from options, environment and builder calls. A start
binds gRPC, HTTP and HTTP/3 listeners and starts the agents; a stop cancels,
drains and, at a timeout, cuts. A call passes telemetry, the metadata chain and one of
two more: the message chain, if a registered descriptor says that its method is unary,
and else the stream chain. Among the interceptors are error translation, hints and
`idempotency/`, the AIP-155 guard: a call claims its `request_id` in a
store shared by replicas, runs its handler and records the response, which retries
are answered with. REST gateways and MCP tools call the same services through a
loopback. CORS decorates what browsers get.

Correct means: one handler per `request_id` at a time, one recorded response, no
id wedged; a stop that reports success left nothing running, and a stop always
ends; a call passes every layer that its method's shape calls for on the routes of this
start, is counted once and ends with one verdict; an error is told by what it is, and
never better for having been flattened to text; CORS admits the
policy's origins and no others, caches in between included.

### agents

The runtime groups services by address, binds, mounts them one after the other
and serves. An MCP service is built, grouped, combined with others behind one
endpoint and hosted under layers; its clients have sessions, its tools ask
questions and stream. An A2A service has bindings, a card and tasks run by an
executor. Listeners may be Unix sockets.

Correct means: what is served is mounted and what is announced is served; a failed
start leaves nothing; a listed tool is reached at its own service, and a question
is put once; a caller's headers are that caller's; a task ends once.

### database

`ingest/` is a continuous writer: a bounded queue, one worker, batches in flight; a
`flush` is a barrier in that queue. `buffered` and `mirror` put stores together over
it. `arrow/` keeps segments on disk with sidecars and indexes, written under a lock
and read without it. `influxdb/` talks to a server in chunks and pages. `store/` has
the filter language and validation.

Correct means: an acknowledged barrier, close or release covers every record
admitted before it, in both stores; a failure is reported to everybody and hides
nothing; the bounds hold; every call ends; pages miss and repeat nothing while the
table grows; values come back as they were given or are refused.

### network, telemetry, tools

`network` has HTTP, GraphQL and WebSocket clients: requests with retries, a
subscription task with a bounded channel, a connection shared by clones through three
locks, two of which are held while a frame is written or awaited. `telemetry`
configures OpenTelemetry, `tools/docgen` is a build-time generator.

## The modules

| module | models | properties |
|---|---|---|
| `SingleFlight` | the promise of single flight, abstractly | |
| `Flight` | `cache/src/strategies/flight.rs` | `SingleExecution`, `BudgetConserved`, `CallsAreJoinable`, `LostIsClosed`, implements `SingleFlight` |
| `Refresher` | `cache/src/strategies/refresher.rs` | `Ledgers`, `NoMissedWakeup`, `DrainedStaysQuiet` |
| `Database` | `refresh_in_background` of `aside.rs`, `DB::close` of `core/database.rs`; composes `Refresher` | `OneRemover`, `OneRefreshPerId`, `CleanCloseIsQuiet`, `CallersAgree` |
| `Aside` | the read-through strategy over a shared backend; uses the promise of `SingleFlight` | `OwnershipHolds`, `WaitersHaveLoad` |
| `Expiry` | the options of a call, the TTLs the strategies resolve, the two deadlines of an entry | `LifetimesKept` |
| `Document` | the document strategy and the sweep of `batch.rs` | `InvisibleOnlyIfShared`, `KeysComplete` |
| `Indexed` | `indexed.rs` with `batch.rs`, `sets.rs` and `retry.rs` | `FiledIsFound`, `DeletedIsGone` |
| `Driver` | the contract of a driver, abstractly: one atomic map with leases | |
| `Drivers` | the memory, RESP and memcached drivers | implements `Driver` |
| `Provider` | key names, opening, selecting and dropping databases | `DatabasesApart`, `DropStaysInside`, `DropComplete` |
| `Connect` | configuration, dialling, probing, routing and close of the network drivers | `ConnectHonest` |
| `Idempotency` | `grpc/src/idempotency` | `SingleHandler`, `DoneIsFinal` |
| `Server` | start, stop and restart of a `HybridServer`, listeners and connections | `StopOkIsQuiet`, `NoOrphan`, `SlotsConserved` (`StopsClean`), `StoppedGrpcEnds` |
| `Assembly` | options, environment, builder, routes, layers, loopback | `CallPassesAll`, `FreshRoutes`, `ToolsServed`, `BannerTrue`, `ClaimedIsServed` |
| `Calls` | one call through the layers | `CallAccounted`, `VerdictShown`, `CallEnds` |
| `Errors` | from a handler's error to what its caller sees | `ErrorReachesCaller` |
| `Cors` | the CORS layer, with browsers and a shared cache | `CorsExact` |
| `AgentRuntime` | `start.rs`, `placement.rs`, `lifecycle.rs`, `mux.rs` of `agents` | `ServedIsMounted`, `FailedStartIsClean`, `RuntimeWaitsEnd` |
| `Hosting` | building, grouping and hosting an MCP service | `CallerIsCaller`, `ServedAsDeclared`, `EndpointReached` |
| `Mcp` | the combined server, SSE sessions, hosted calls with questions | `ListedIsReached`, `AskedOnce`, `CancelEndsSessions` |
| `Tools` | one tool call: missing fields, stream, progress, error | `ToolCallHonest`, `PumpEnds` |
| `A2a` | A2A configuration, endpoints, cards, mounting | `AnnouncedIsServed` |
| `Tasks` | the A2A request handler, executors, cancellation | `TasksHonest` |
| `LocalSocket` | binding and dropping a Unix socket, by several processes | `ReachableUnlessRaced` |
| `BatchWriter` | `database/src/ingest` | `BarrierIsDurable`, `CloseIsDurable`, `FailureIsReported`, `RecordsConserved`, `Backpressure` |
| `Stores` | `buffered(mirror(influx, copy))`, pages and streams; takes `BatchWriter` at its promise | `DurableInBoth`, `PagesCover` |
| `Arrow` | segments, sidecars, indexes and readers | `PagesComplete`, `AckedVisible` |
| `Records` | filters, columns, reductions, widths | `FilterExact`, `ValuesExact` |
| `Network` | HTTP and GraphQL clients, the subscription task | `RequestHonest`, `UpdatesInOrder`, `SubscriptionStops` |
| `WebSocket` | the WebSocket client, lock by lock and frame by frame | `PartsAgree`, `OperationsEnd` |
| `*Proofs` | theorems about the module of that name, about modules that the same run composes with it, and about the run itself (see Proofs) | |

`MC*` modules instantiate them. A definition commented "Mutant:" is a plausible
wrong version of the definition that follows it; no specification uses it, and
substituting it shows that a property can fail.

The unit of atomicity is the same everywhere. Code between two awaits under one
lock is one action. A backend call is one action of its own, which is an await
before and after it. Where the code has no await but other threads see the
intermediate state (the tail of a flight's task, of a refresh task and of the
ingestion worker), each step is an action too.

**Flight.** `calls` and `permits` are the struct's fields. `task`, `key`,
`outcome` and `channel` belong to a spawned task, `joined` and `answer` to a
caller. `Join`, `Start` and `Reject` are the three ways out of the locked
section of `run`; `Finish`, `Remove`, `Send` and `Release` are the task in order;
`Panic` is the unwinding of its work, which drops the sender and the permit and
skips everything between; `Receive` and `Cancel` end the wait. A task name
stands for a task and its channel, and is reused when nobody holds either.

**Refresher.** `Go`, `WorkEnds`, `Account`, `ReturnSlot` and `Notify` follow
`go` and the task it spawns; `DrainBegin`, `Register`, `Check`, `Await` and
`Wake` follow `drain`, `DrainTimeout` is its limit. `Notify` reaches every
`Notified` future that has been created, polled or not, as tokio documents for
`notify_waiters`: the loop depends on it. Declined work changes nothing here, so
it is an action of `Database` only.

**Database.** `Claim` inserts an ID in the view's `refreshing` set; `Admit` and
`Decline` are the answers of `go`; `EndRefresh` ends the work and drops its
`RefreshClaim`; `Cleanup` is the detached removal. `Close`, `BeginDrain`,
`Release`, `Publish`, `CloseReturns` and `CancelClose` follow `DB::close`.

**Aside.** One ID, several processes. An entry is gone, void (a remembered
absence), fresh or stale and has the version of the source it was loaded from. The
ownership key holds a token. Because `Flight` collapses the loads of a process,
a process has at most one load (`load[p]`), which all its callers join. Every
driver call of `load_and_store` is an action, with failure before or after its
effect, `Timeout` at every await and `Crash` of a process anywhere. The refusal
of a load for want of permits is not here: `Flight` has it.

**Expiry.** One entry and a clock in ticks finer than a millisecond, so that what
truncates does. The width of a `Duration`, of a `SystemTime` and of an i64 of
milliseconds are three constants, small enough to be passed.

**Document.** One action per backend call of `create`, `update`, `delete` and
`keys`; the checks of `classify_members` are answered in any order; `Stop` ends
an operation at any point between its calls, `Expire` is the lease of an entry.
A page of `keys` is any non-empty part of the set, which covers `set_members`
and each page of `set_scan`. `steady` and `shared` are history.

**Indexed.** An operation is the list of backend commands it has still to send
(`file`, `unfile` and `refile` build it), and each is a step that may fail before
or after its effect, also for good. Field names and values are token sequences, and
one token is `=`: `pair` joins and `split_pair` takes apart what the code does.

**Driver and Drivers.** `Driver` has the requests and answers of the trait and one
atomic step per key. `Drivers` has the three backends: a call begins, takes a
snapshot of the connection, runs its commands at the servers, and ends; a
connection may fail before or after each. The clock is finer than the
milliseconds of RESP and the seconds of memcached, whose servers are modelled from
how the code uses them.

**Provider and Connect.** Names, prefixes, keys and addresses are token sequences
with the separators among the tokens, built and split as the code does. A drop
scans in pages while others write and deletes in batches that may fail. A server
is up, refusing or silent, and may change at any time.

**Idempotency.** One `(method, request_id)`. `key` is the record in the store.
Every store call may fail before or after its effect, and a call may be dropped
at any await. `AgeClaim` is the clock; it respects what `Options::stale_after`
documents, that a claim this old does not belong to a handler still working.

**Server.** A task is a component and the number of the start that spawned it,
because tasks of an earlier start may still drain when the next begins. Sockets,
tokens, connections and slots are state; a start binds one component after the
other and may fail at each, a stop takes the handles, cancels, joins or times out.
`Assembly` has what is served and through which layers; `Calls` follows one call
through them, with the slot through which the response of a stream leaves while the
chain still runs. In `Assembly` a method is its shape and the descriptor set that
describes it, by which each chain decides whether to run; the server's own sets are
known, any other only if `with_reflection` was given it.

**Errors.** A handler may return its error, which crosses tonic as a status that the
interceptor translates, or render it itself with `to_status`. An error is a chain of
sources: the text of its links, which of them show the text of the next, and which link
has a type that somebody looks for (a problem, a status, a problem that travels as a
status, or a store's own error). `to_status` goes along the whole chain for a problem or
its carrier, then asks the handlers in their order, then classifies the text of each
link by the first registered sentinel any of them wraps, and only then takes a status it
finds. The handlers are the user's: one looks for a store's error anywhere in the chain,
one at a status itself.

**AgentRuntime, Hosting, Mcp, Tools, A2a, Tasks.** The SDKs (`rmcp`, the A2A SDK)
are not in the repository and are modelled from how they are used: marked external
in the map where they have a definition of their own. A header value is whose it
is, a tool the list of fields it needs, a path the sequence of what stands between
its slashes. In `AgentRuntime` a service that is mounted may report, let the timeout
pass, return, or drop its handle and run on; in the last two cases the start awaits its
task, without a timeout, before it gives up. In `A2a` a mount takes the
router out of its mux and puts back what it made of it: an overlap of two routes of one
transport panics in between, under the lock, and leaves the mux empty and poisoned
(`lost`), as a second registration of the same gRPC service does to the registry.

**LocalSocket.** Every system call of `bind_unix` and of the drop of its `File` is a
step, with its failure: bind, the look-up of the inode, the change of mode.

**BatchWriter.** Commands in `queue`, the worker's `pending` and `inflight`, the
stored `failure`, and the callers of `write` and `flush`. Records are numbered
in the order of their admission, which is all the properties need. `Close` covers
`close` and dropping the writer; both need the writer itself, so no call borrows
it.

**Stores.** Every caller holds a clone of the database and may create, read and close.
`rel[c]` is the close of caller c: it closes the buffer, takes the writer that is in
the map under the map's lock, flushes it and closes what is inside, which may fail.
Closes may overlap, follow a failed one, or be dropped while they wait. `entered` keeps
which points a writer took, and with a close goes what it vouches for: the points of the
writer it took itself.

**Records.** Integers and floats have widths: `W64` and `W32` values, and every integer
up to `F53` is a float; `Nearest` is the float an integer becomes, in a float column, as
a sum that left its width, and as every result that a caller is given. The start of a
bucket is an i64, and where it would be less than the least it wraps or panics, as the
build has it.

**Arrow.** A row is its time, its key `<<time, segment, row>>`. A segment is
created aside, renamed, appended to, flushed, acknowledged, closed; every one of
these may fail, tear a block, or be the last step before a crash. Readers take no
lock: they list, read metadata, extend the shared index, search and scan. An index
grows over the batches that are new to it, and a search goes over its blocks, as
recursive functions of the position reached.

`MCBatchWriter` EXTENDS `BatchWriter`, `Arrow`, `Stores` and `Records`, whose names are
distinct for that: the absent value is `None` in the first, `Absent` in `Arrow`,
`Nothing` in `Stores`, and the callers of a store are its `Users`.

**Network and WebSocket.** Each lock, each send and each receive is a step. The lock of
the sending half is held until a frame is written, by `send`, by the close frame and by
the ping task (`sending`), and that of the receiving half while a receiver waits. The
server and the peer do what they like, including nothing, and not reading what is sent.

## The runs

Seven runs pass and five show a violation. A passing run stands for an area of the
system and for one question asked of all of it. Some areas have several parts that
share no state; there the run has a variable `part`, chosen initially and never
changed, and a behaviour is a behaviour of that part with the others standing
still. That checks what separate runs would check, without the product of their
states, and properties that say the same of several parts are stated once.

| run | checks | shows |
|---|---|---|
| `flight` | `BudgetConserved`, `SingleExecution`, `CallsAreJoinable`, `ImplementsSingleFlight`, `PanicsContained` | three callers of two keys and two permits, work that does not panic: executions never overlap, capacity is conserved, and every behaviour is one that `SingleFlight` allows. Beside it a concurrency of zero with work that may panic: the panic costs its own key only |
| `database` | `Ledgers`, `NoMissedWakeup`, `DrainedStaysQuiet`, `OneRemover`, `OneRefreshPerId`, `CleanCloseIsQuiet`, `CallersAgree`, `WaitsEnd` | two slots, two readers of two IDs, two callers of close, everything interleaved; beside it a flight whose work may panic with a concurrency of zero (raised to one), and two processes that read through. Every wait ends: of claims, drains, close, callers of a flight, permits, reads, and ownership without its lease |
| `aside` | `OwnershipHolds`, `WaitersHaveLoad`, `LifetimesKept`, `BackendsHonest` | two fenced processes with failures, crashes, leases and late releases; lifetimes at the limits of three widths; databases opened, written and dropped; clients that connect, route and close |
| `idempotency` | `SingleHandler`, `DoneIsFinal`, `AnswersHonest`, `AgentsHonest`, `AssemblyHonest`, `TasksHonest`, `ClientsHonest` | what a request meets: three callers retrying one id for ever, at most one of them at a time clearing a stale claim; errors and CORS; agents as declared, assembled and at work; network clients and the socket file |
| `document` | `InvisibleOnlyIfShared`, `KeysComplete`, `IndexAgrees`, `ImplementsDriver` | two callers and two IDs with failures and expiry; indexes under retries; three backends that implement one contract |
| `batch_writer` | `BarrierIsDurable`, `CloseIsDurable`, `FailureIsReported`, `RecordsConserved`, `Backpressure`, `StoresHonest`, `RecordsExact` | ingestion with two callers, a queue of two, batches of two, two in flight, three records; segments and pages; the buffered mirrored store, closed by any caller, again and at once; filters and values |
| `services` | `StopsClean`, `AgentsServe`, `CallsHonest`, `StopEnds`, `OperationsEnd` | servers with TLS, HTTP/3, agents, clashing ports and more clients than slots; the runtime; sessions and tools; a call through the layers; WebSockets with silent peers; retries; the writer. A stop leaves nothing and ends, and every operation ends, or is for ever in the hands of a party that need not act |
| `flight_poisoned`, `aside_invalidate`, `idempotency_reclaim`, `document_sweep`, `network_stop` | one property each, violated | see [findings](#findings) |

**Bounds.** They are the smallest at which each hazard happens. Flight: three callers
give one that starts, one that joins and one that arrives between the removal and the
publication; `Budget + Cardinality(Callers) - 1` task names never block a start, and
one more than that where a stale entry may keep a receiver. Database: with two slots
and two task names a refresh is admitted while another has returned its slot and still
has to notify. Aside: two tokens let a claim lapse and be taken by a successor while
its release is pending; one change of the source tells old from new (liveness needs
none). Idempotency: a dead claimant and two retries. BatchWriter: three records fill
one batch and leave a partial one in front of a barrier, with commands enough to fill
the queue (two for liveness, which fill a batch or leave two). Server: two starts, two
connections and two stoppers besides the cleanup of a failed start. Arrow: batches
whose times are out of order, segments whose names sort against the order they were
made in, one fault. Widths in `Expiry`, `Records` and `Drivers` are small numbers that
the inputs exceed: in `Records` three bits of i64, floats exact up to four, rows at
the least time there is. `Assembly`: a method is described by the server, by a set
that may be registered or not, unary or streaming. `Stores`: nothing is read any more
once a close has begun, since readers and closes share only the stores. Every `Max...`
constant caps a counter in a guard and is named so; `Cors` allows two visits, one that
fills the cache and one that is served from it. Symmetry is used in safety runs only.
In the liveness runs a property is stated for one of several actors that are
interchangeable, because the number of conditions multiplies the work of the check and
the answer is the same.

Nothing is claimed of a WebSocket client after two operations raced (see
observations): `raced` marks that, and in the combined runs such a behaviour is
not followed further.

**Deadlock** is checked in `flight` and `database`. The other passing runs have
parts that end: a writer whose worker ended, a server that has used its starts.

## Findings

1. **A panicking load poisons its ID** (`flight_poisoned`, `flight.rs:93`). The
   map entry is removed after the await of the work. When that panics, the entry
   stays, and every later call of the ID joins a closed channel and gets an
   internal error without a load being tried.
2. **A load that overlaps `invalidate` undoes it** (`aside_invalidate`,
   `aside.rs:268`). The load read the source before the invalidation and stores
   after it; reads that begin later see the old value or absence, where
   `core/aside.rs:91` promises that the next read loads again.
3. **Clearing a stale claim may clear its successor** (`idempotency_reclaim`,
   `idempotency/mod.rs:243`). The delete is by name, so a retry that judged one
   claim stale may delete the fresh claim made since, and two handlers run.
4. **A stored value may be invisible** (`document_sweep`, `document.rs:252`). A
   delete, or a sweep, of an ID that is being created removes the member of a
   value that is then stored. `InvisibleOnlyIfShared` is what holds: failures
   alone never hide a value, two operations on one ID at one time may.
5. **A subscription that waits for its reader cannot be stopped** (`network_stop`,
   `network/src/graphql/subscription_task.rs:78`). The task awaits room in the
   channel without its cancellation; `stop` consumes the receiver's owner and awaits
   the task, so it never returns, and the connection stays open.

### Observations

Behaviours met while modelling that no run is about; the properties are stated so
that they hold, and say where these are excepted.

- cache: the drain of a database gives up after 5 s while a refresh may take 30 s,
  and close then reports it; a refresh that loses its claim returns the entry it
  finds, which a test pins; on memcached the named database `db0` has the keys of
  the database of index 0 (`keyspace.rs:29`); connecting to several memcached
  servers probes only the one the probe key is routed to (`memcached.rs:340`); an
  IPv6 address without brackets is split at its last colon (`redis.rs:985`).
- grpc: a handler whose settlement fails runs again after `stale_after`, as
  documented; when a stop times out, connections other than gRPC's are not cut
  (`lifecycle.rs:155` says that anything still running is); an origin written with its
  default port never matches (`cors.rs`); the doc of `Translator::to_status` puts
  statuses before sentinels, the code looks at sentinels first
  (`problem/mod.rs:367-390`); an error whose meaning is in a source its text leaves
  out, or in a type a handler looks for, is told by `to_status` and lost when it is
  returned with `?`, which keeps only the text (`PathsAgree` says for which errors the
  two agree, and that returning is never the better told); agents listen before the
  loopback they call through is set, and a stop does not clear it (`server.rs:65`,
  `:92`).
- agents: a combined MCP server lists only the first page of each member
  (`combine.rs`); the inbox of an SSE client that has gone stays until its session
  ends (`sse.rs:91`); an A2A service with the gRPC binding only announces a card
  that is not mounted; a second service with the same transport at the same path of a
  shared mux panics under the mux's lock with the router taken out, so that the services
  announced before are no longer served and the mux is poisoned, although the card's path
  is probed instead of letting "the second agent kill[s] the process" (`mux.rs:47`,
  `serve.rs:171`), and
  the same goes for a second A2A registration on one gRPC registry; the start awaits the
  task of a service that dropped its handle without a timeout (`start.rs:86`), and a stop
  waits behind it; the pump of a tool's stream awaits room without its cancellation,
  although "a tool that stops reading does not leave the producer running"
  (`stream.rs:105`, `:85`); a member's header mappings are used although its group has
  some (`hosted.rs:71`, where `service.rs:305` says that the group's override); an MCP
  endpoint is announced with the slash of its base path and mounted without
  (`serve.rs:155`, `:56`); two processes that bind one socket path at the same time
  may remove each other's file (`unix.rs:66`).
- database: `drop_schema` is three steps, and a segment opened between them is removed
  under its writer, which goes on acknowledging rows (`crud.rs:91`; `AckedVisible`
  excepts these); a create that overlaps `release` may get a writer that nobody
  flushes (`buffered.rs:67`); a second close, documented as idempotent
  (`store/provider.rs:97`), finds the map empty and returns Ok while the first still
  flushes, or after it failed or was dropped, with points unsent or lost
  (`buffered.rs:124`; `DurableInBoth` claims of a close what the writer it took had
  admitted); a row within a bucket's width of the least time gets the start of a
  bucket that wrapped, or a panic (`aggregate.rs:138`); an integer beyond 2^53 in a
  float column is stored as the float nearest to it (`codec.rs:36`, where
  `record.rs:47` accepts it); the rename of a new segment is not followed by a sync of
  its directory (`segment.rs:72`).
- network: a receiver reads its token before it holds the stream, so a close may
  wait for a receiver that does not hear of it (`websocket/io.rs:28`); connecting
  over a live connection blocks on the receiver (`websocket/mod.rs:109`); a frame to a
  peer that does not read holds the lock of the sending half, behind which connect,
  close, send and the pings wait for ever (`websocket/mod.rs:126`, `io.rs:16`); a close
  may be overtaken by the automatic reconnect (`io.rs:103`).

## Fairness

Weak fairness is assumed for steps of detached tasks, which the tokio scheduler
runs while they are ready, and only where the awaits inside are bounded: by
`FLIGHT_TIMEOUT` (the work of a flight, the load of `Aside`), by the refresh's
timeout, by `write_timeout`, by the runtime's ready timeout, by the shutdown
timeout, or by locks whose critical sections do not await. A caller that is not
dropped is polled when it is woken. Handlers, interceptors, clients and peers are never
assumed to do anything: a server stops although its connections are busy for ever, a
WebSocket operation ends although the peer is silent. What waits for one of them for
ever is the exception of the property, written `<>[]`: `OperationsEnd` holds unless from
some point on a frame waits for a peer that does not read (`Blocked`), it is the turn of
a handler, an interceptor or a caller with a call in its hands (`Awaiting`), or a
cancelled pump waits for room (`Full`), all of them `Waits` in the run. `StopEnds`
excepts a start that awaits the task of a service that dropped its handle: that wait has
no timeout. No timer that the code does
not need is assumed: `WaitsEnd` holds without the drain's timeout and without the
lease of an ownership key, `OperationsEnd` without the flush interval.

Strong fairness is assumed where several parties wait for one thing that is handed
out in order: in `BatchWriter` for a sender that waits for a slot and in
`WebSocket` for the holder-to-be of a lock, because tokio's semaphores and mutexes
are served in order. And in `Idempotency`, for the retries that look at and clear
a stale claim: any await may be the last, so the id recovers only if some retry
gets through. That retries come at all is the one thing assumed of a caller, there.

`MCDatabase` and `MCServices` restate the fairness of the modules as numbered
formulas (`Due(n)`, `InTurn(n)`): a behaviour has the steps of one part only, so
the n-th fair step of one part and that of another can be one formula, and there
are as many conditions as the largest part has rather than their sum. Some steps of one
part share a formula too, where an actor has one of them to take at a time: a stop joins
or times out, a connection is cut or goes away, a task quits or ends.

That the cleanup of a close happens assumes that the release callback returns.

## Proofs

`FlightProofs` proves, for every set of callers and keys, every finite set of
task names and every concurrency (`FlightAssumption`, the only assumption):

| theorem | states |
|---|---|
| `TypeCorrect` | `Spec => []TypeOK` |
| `SingleExecutionHolds` | `Spec => []SingleExecution`, panics included |
| `BudgetConservation` | `Spec => []BudgetConserved`, panics included |
| `CallsStayJoinable` | `Spec => []CallsAreJoinable`, if work does not panic |
| `LostIsClosedHolds` | `Spec => []LostIsClosed`, panics included |
| `Refinement` | `Spec => Abstract!Spec`, if work does not panic |

None of the invariants is inductive alone. `SingleExecution` follows from
`Registered`: a task that can be joined is the one the map names for its key, so
two of them with one key are the same. `Registered` is preserved because `Start`
needs an empty entry and `Remove` moves its task out of the joinable states in
the same step. `TypeOK` bounds the permits by the budget, which is no matter of
types: it follows from `BudgetConserved`, so the induction carries `WeakType`,
without the bound, and `BudgetConserved`, whose step is about the cardinality of
the set of holders. `Ready` gives `Send` a result to publish. Together they are
`IInv`.

`CallsAreJoinable` is false when work panics, as the finding says, so its theorem
assumes `~MayPanic`, and so does the refinement. `CalmInv` adds to `IInv` that
channels are as the task's progress says and that a caller waits only for a task
of its own key that has not been forgotten. The refinement maps a key to loading
while its task is joinable, and a call to waiting or served; `Remove` is the
step that serves the waiters, and every other step of a task stutters.

`IdempotencyProofs` proves, for every set of callers (`IdempotencyAssumption`):

| theorem | states |
|---|---|
| `TypeCorrect` | `Spec => []TypeOK` |
| `SingleHandlerHolds` | `Spec => []SingleHandler`, if retries clear a stale claim one at a time |
| `ResponseIsFinal` | `Spec => DoneIsFinal`, under the same condition |

`SingleHandler` says nothing of the key, whose unique name is what keeps two
calls apart. The invariant carries that: an owner of the right to run is the one
the claim names and the claim is not stale (`OwnersHoldKey`), a call about to
clear a claim still faces a stale one (`ReclaimersFaceStale`), and it is alone
(`LoneReclaimer`). An absent or settled key then has neither owner nor reclaimer,
so a claim is made alone and a recorded response has nobody left to touch it.
Without `OneReclaimer` the second conjunct fails at the second reclaimer, which is
finding 3: a delete that compares the claim it read would restore it.

The same module extends `MCIdempotency` and proves, for every value of its constants, the
run's own properties, and on the way those of the modules that run beside `Idempotency`:

| theorem | states |
|---|---|
| `AnswersHonestHolds` | `MCSpec => []AnswersHonest`, from `CorsExactHolds` and `ErrorsReachTheirCallers` |
| `ClientsHonestHolds` | `MCSpec => []ClientsHonest`, from the network, WebSocket and socket parts |
| `TasksHonestHolds` | `MCSpec => []TasksHonest` |
| `AgentsHonestHolds` | `MCSpec => []AgentsHonest`, of `Hosting` and `A2a` |
| `AssemblyHonestHolds` | `MCSpec => []AssemblyHonest` |
| `PartsAgreeHolds` | `WebSocket`: `Spec => []PartsAgree` |
| `ReachableHolds` | `LocalSocket`: `Spec => []ReachableUnlessRaced` |
| `CorsExactHolds` | `Cors`: `Spec => []CorsExact` |
| `NetworkHolds` | `Network`: `Spec => [](RequestHonest /\ UpdatesInOrder)` |
| `ErrorsReachTheirCallers` | `Errors`: `Spec => []ErrorReachesCaller` |

`WebInv` says that no
connection that is about to be installed is anybody else's (`Fresh`) and, as long as
nothing raced, that at most one operation is between two of its locks and what it has
done so far explains every difference between the parts (`InStep`); `Frames` adds that
a ping that is being written is for the connection whose half is stored. `SockInv` says
that no two processes hold one inode (`Inodes`) and that without a race nobody stands
before the removal of a path on which another listens, and the inode that was looked up
is the one that was made (`Undisturbed`). `Grants` says of every
response a cache keeps that it is what the layer makes of the policy and the origin it
was for, and that its `Vary` names the origin, which is what `CorsExact` needs of a
response it did not see made. `TaskInv` says that a server keeps its tasks in the store it
was built with (`Keeps`), and carries `OneOutcome`: how often a task ended is counted
against the stores in which it is final, and only a put into a store where it is not final
yet adds to either. That a caller can tell every code (`CodeSurvives`) needs that the
events differ for different codes (`EventsDiffer`). A second invariant, `LayerInv`, says
what a built service is, as a function of what was declared: its layers in reverse around
the card and the SDK (`AroundIs`, by the least number of layers for which it would fail).

`Tries` says that every attempt of a request that has ended reached the server at most
once and that no client is given a connection while a request is in progress.
`FlowInv` joins a subscription's parts: what the consumer took, what waits in the
channel and what the task holds, in this order, are the server's updates from the
first on (`Ordered`), and while the task runs the updates still on the wire are those
that come after them, in order (`Follow`); only a task that goes away adds the notice
that the stream stopped. `ErrInv` says what the status is at every stage of an error's
way as a function of the error and the request (`Pipeline`). What it takes to conclude
from it is about the functions: a status that carries a problem gives the same problem
back (`CarrierKeeps`); an error that hides none of its sources is classified by its
own text as by all of its links', each of which is a suffix of it (`ChainIs`); what
crossed tonic as text is Internal whenever the error itself is (`NeverWorse`); no
handler knows an error that is neither typed nor a status (`HandlerKnows`); what the
translator makes is no carrier for the next one (`Translated`), and hints keep code,
message and the details that were there (`RewriteIs`).

`HostInv` says of a hosted service what its builders may have left in it (`Built`),
that what is mounted, announced and mapped is what they say (`Mounts`), and of a
request, at each stage of its way, outside the group, at the member and at the end,
who has seen it and which headers it carries (`Requested`). `CardInv` says of an A2A
service what has been registered and mounted at each stage of its start (`Stage`), so
that what is announced is what was mounted for the configuration that was resolved, or
stood on a mux that is lost; and of a mux that is lost that two services wanted one
place on it (`Losses`). Its lemmas are about `clean_rooted`: what it leaves has no
empty, `.` or `..` segment, and such a path is cleaned to itself.

`AsmInv` has three parts. `BuildInv`: the registrations of a kind are numbered in the
order in which they were made. `RunInv`: the loopback slot holds the stack of the
builders, and, once a run is far enough, that of this run and not of an earlier one, and
what is mounted and shown is this run's. `CallInv`: what a call has passed is the stack of
the way it came in. `CallPassesAll` then needs what the stacks are: `Layered` puts the
layers around the rest, the first added outermost (`LayeredIs`); the lists of each kind
name each registration once and in turn (`Chain`), and concatenated by the rank of their
kind they still do.

`DatabaseProofs` proves, for every set of readers, IDs and callers of close, every
finite set of task names and every limit (`RefresherAssumption`,
`DatabaseAssumption`): `TypeCorrect`, `LedgersAgree`, `WakeupsAreNotMissed`,
`DrainedStaysQuietHolds`, `OneRemoverHolds`, `OneRefreshPerIdHolds`, `CleanCloseHolds`
and `CallersAgreeHolds`, each `Spec => []P` for the property of that name. The
invariant has three parts, disturbed by different steps. `RefresherInv`: the ledgers,
that a drain closes admission before anything else, and that a sleeping drain has a
wake-up coming; the last rests on the first, because a non-zero count is an admitted
task and an accounting that leaves a non-zero count leaves one too. `ClaimInv`: who
removes an ID finds it claimed, is alone, and exists; `OneRemover` counts, which is
hard to carry over a step, so the induction is about the parties and `RemoversCount`
counts them afterwards. `CloseInv`: the result is published once and is Ok only after
an Ok drain. `DrainedStaysQuiet` and `OneRefreshPerId` follow from the first two: a
drain that returned Ok has closed admission, after which the count only falls; two
tasks that refresh one ID would be two removers of it.

`MCFlightProofs` proves the run's own `PanicsContained`, which is three of these
properties of the flight beside, with a concurrency of zero and work that may panic
(`PanicsContainedHolds`).

`AsideProofs` proves, for any processes, callers and tokens, fenced or not, with
failures (`AsideAssumption`): `TypeCorrect`, `OwnershipIsKept` and
`WaitersKeepLoad`. `OwnershipHolds` is not inductive: a release by token is harmless
only because no two parties remember one token, so `OwnInv` adds that loads have
different tokens and that no detached release has a load's. Most steps at most
forget a token (`Fades`) and are treated together.

`LifetimesAreKept`, in the same module, is `Spec => []LifetimesKept` for `Expiry`, for any
TTLs, stale windows, rounding steps, widths and clock (`ExpiryAssumption`). An entry in
the store `Fits` the promise its writer made: its hard deadline is the life and the stale
window after it, its soft one the end of the life in whole milliseconds. The invariant
carries this for the entry and what follows of it for the last answer (`Kept`, `Told`);
the arithmetic is in the packing of a value and in a lemma on truncation (`WholeMillis`).

`ConnectHonestHolds`, in the same module, is `Spec => []ConnectHonest` for `Connect`, for
any lists of servers, addresses and keys (`ConnectAssumption`). The invariant says what the
checks established of the configuration (`Checked`), who has answered (`Answered`) and
where running calls go (`Routed`). The rest is about three functions. The slots of a plan
lead to the servers of the list as it was written, and those that are dialled are all of
them (`PlanIs`), because the first occurrences are numbered by their ranks, which are all
the numbers up to how many they are (`RanksCount`); and an address is put together again
from the parts it was split into (`PartsOfAddress`).

`SpacesKept`, in the same module, is `Spec => [](DatabasesApart /\ DropStaysInside /\
DropComplete)` for `Provider`, for any applications, names, databases and keys
(`ProviderAssumption`). A key begins with the segments of its database, and a name holds
no separator, so two keys that are the same were built for one database (`SameName`); that
another application's prefix neither begins with ours nor ours with it is the assumption.
What a drop scans for is its head with the glob's characters escaped, which matches exactly
the keys that begin with that head (`PatternMatches`): both the escape and the match are
defined character by character, and the lemma is about each of the prefixes of the pattern,
proved by looking at the least for which it would fail. `SpaceInv` adds that a writer of
a key is a database whose key it is (`Holders`) and where a drop is (`Dropping`): what it
found begins with its head, and what was there throughout and is not deleted is found or
still to be scanned.

`LifetimesKeptHolds` and `BackendsHonestHolds` are the run's own properties
`LifetimesKept` and `BackendsHonest`: `MCSpec => []P`, whatever part a behaviour runs.

`DocumentProofs` proves, for any callers and IDs: `TypeCorrect`,
`InvisibleOnlyIfSharedHolds` and `KeysAreComplete`. The first needs the order of the
two writes as an invariant (`StoresListed` for `create`, `RemovesGone` for `delete`
and the sweep) and that operations on one ID at one time have made it shared
(`Apart`), which is how the removal of a member is kept away from a value that
another operation stores. The second needs that an ID that stays listed is
unchecked or was found live (`Covered`).

`IndexHolds`, in the same module, is `Spec => [](FiledIsFound /\ DeletedIsGone)` for
`Indexed`, for any callers, IDs, pairs and number of attempts (`IndexedAssumption`). Both
properties are about IDs at rest, so what has to be carried is what an operation still
owes: `Work` says of its ID what holds now and will hold once the commands that are left
are sent, for each kind of operation. The part that all kinds share is `Named`, that every
membership, present or to come, is named by the inverse record, present or to come; it is
why memberships are filed before they are recorded and undone before they are forgotten.
That a command may be sent first among those left is a matter of which may follow which
(`Late`): no plan undoes a membership after it has filed one, or reads after it has
written. What the lists are is reduced to which commands they have (`Elems`), so the
plans, whose order is partly that of a hash map, are handled as sets. A delete that fails
and starts over needs nothing but `Named`; an operation that stops for good leaves its IDs
to `cut`, of which nothing is claimed. `UndoIs` is the arithmetic of the encoding: a pair
whose field does not hold `=` is cut at the separator that `pair` put there. The
assumption on fields is needed, since the key of a pair is its field, a colon and its
value: a field name with both a colon and `=` could share a key with one that
`split_pair` cuts rightly.

`BatchWriterProofs` proves, for any callers, records, batch size, capacity and number
of batches in flight (`BatchWriterAssumption`): `TypeCorrect`, `BarrierIsDurableHolds`,
`CloseIsDurableHolds`, `FailureIsReportedHolds`, `RecordsConservedHolds` and
`BackpressureHolds`. The heart of the invariant is the order of the queue (`Order`,
`Barriers`): a record that is queued behind a barrier was admitted after it, so when
the worker has drained for a barrier, with the pending batch and the batches in flight
empty, `RecordsConserved` leaves every record admitted before it in the store. Around
it are `Progress` and `Released`, which say where the worker is in a drain and which
slots it holds, and `Known`, that a failure is not forgotten by anyone who will still
be told. The callers need not be finitely many: `Offered` bounds what is admitted by
what the bound on records lets callers offer.

`DurableHolds`, in the same module, is `SSpec => []DurableInBoth` for `Stores`, for any
callers, points, writers and failures (`StoresAssumption`), and any number of closes, at
once, again or dropped. A create is answered before anything is stored, so the promise is
that of the close, and `EnteredKept` is what it rests on: every point a writer took is in
its queue, in the batch it is sending or in both stores, unless that writer has failed,
which the close that flushes it reports; and what a close vouches for are points of the
writer it took, in both stores once it has flushed. `Creating` says that who is creating
has a writer that exists. `TrueAnswers` keeps what each store answered beside what it
holds.

`PagesCoverHolds` is `SSpec => []PagesCover`, for any finite set of points and any page
size but zero, which the code refuses. `Paged` says what a reader of all pages has: its
rows ascend and end at the cursor, every token it saw is the cursor or before it, and a
point that was there at the start is among its rows or beyond the cursor; so the token
of the next page, which is beyond the cursor, is a new one. A stream has rows that
ascend, and what is pending comes after them. Under it is `Queried`, what one query
answers: rows beyond the cursor in order, and every other row beyond it only after as
many as were asked for. That the clauses of the cursor (`After`) and the order of the
query (`OrderBy`) are one total order is `BeforeIsTotal`; that a finite set in a total
order has one element at each rank, so the query's rows are a sequence, is `RankOnto`.

`AckedVisibleHolds` is `ASpec => []AckedVisible` for the writing side of `Arrow`, for any
batches that have a row (the code returns at once for one that has none), segments,
columns and faults (`ArrowAssumption`). `Kept` says of an acknowledged row that its
segment is listed and holds it, that a sidecar of the segment holds its time, and that
the bounds of the segment do while it is open, which is why closing it writes a sidecar
that hides nothing. `Opened` says that an open segment has no sidecar yet, `Fresh` that
nothing is known of a segment before it has its name, and `Holds` that at the sync the
batch is the last of the file, so that what is acknowledged there is its rows and no
other. Rows are numbered through the file, and `KeysGrow` says that a batch added to it
numbers none anew; it rests on `RowsOf`, what flattening a longer sequence gives.

`PagesCompleteHolds` is `ASpec => []PagesComplete` for its readers. `ReadInv` adds three
things to what holds of the files. An index is `Tiled`: its blocks follow one another
from the first batch, each numbers its rows from those before it and its times are within
its bounds, so a batch is in one block and no block that is skipped holds a row of the
window. A reader that is between two steps has an index of the file as it was, which
reaches beyond every row the first page must show (`LocalOk`); that other readers
replace the shared one meanwhile does not matter, because both are prefixes of what the
file has become (`SegmentStays`). And of a row that must be shown, while its page is
made, `Passed` says that it was on an earlier page, or is among the kept, or is behind
as many kept rows as there may be, and `Following` that what is not behind the cursor is
on the pages; a segment still to be searched may hold others, which is why `PageOk`
leaves them out. `Counts` is the total: a finite set of rows, all of them stored and
among them those that were there before. That the bounded heap keeps the smallest is
`SmallestOf`, that its rows in order are a sequence `KeysListed`, and that an index
grown by batches equals one made of all of them `ExtendedIndex`.

`StoresHonestHolds` is the run's own property, from these four invariants for whichever
part runs (`HonestInv`).

`ServerProofs` proves, for any options, clients, stoppers, number of starts and
connection limit (`ServerAssumption`): `TypeCorrect`, `StopOkIsQuietHolds`,
`NoOrphanHolds`, `SlotsConservedHolds` and the three together, `StopsCleanHolds`. The
invariant says where a start is (`Progress`: components come up in order, each once,
and a task that is bound is in the hand of the present start), what a stop would find
(`Found`: `Running` holds exactly the tasks that serve and were not told), that stops
hold disjoint sets of told tasks (`Held`), that who listens or has a queued
connection is a task that listens (`Listening`), and that a task found by a stop that
has not cut it ends without connections (`Drained`). `StopOkIsQuiet` needs `Held`
because the timeout of one stop ends tasks abruptly, which must not be tasks another
stop reports as drained. `SlotsConserved` is carried by itself: its step counts the
open connections of one start, every other start being untouched.

`AgentsAreServed`, in the same module, is `Spec => [](ServedIsMounted /\
FailedStartIsClean)` for `AgentRuntime`, for any finite set of services, any addresses and
requirements (`RuntimeAssumption`): mounting goes through the services in an order that
names each, so a service is mounted or still to do and at the end all are mounted
(`Complete`, `OrdersNameAll`), and whatever a failed start had bound or mounted is undone
before it answers, also when it had to wait for a task (`Clean`).

`CallsHonestHolds`, also there, is the services run's own `MCSpec => []CallsHonest`,
for chains and responses of any length. `CallInv` follows a call through its chain:
the observers that are armed are exactly those that the chain has entered and not left
(`Position`), so what they counted plus what is armed is what was entered (`Counted`);
the telemetry has one code once the caller has been answered or has left (`Metered`);
who may still answer depends on whether the response went ahead through the slot
(`Responded`); and what the caller was told is what the outermost interceptor returned
(`Verdicts`).

`Implementation`, in the same module as `IndexHolds`, is `Spec => ImplementsDriver` for
`Drivers`: for any keys, callers, leases and clock units (`DriversAssumption`) the three
backends implement `Driver`. The refinement mapping hides the slots that have expired,
which the memory driver still has in its map. Every command, run on an entry as its
backend sees it, yields an entry and an answer that the contract allows (`MemYields`,
`RespYields`, `McYields`), and a step that settles some keys this way is one `Apply`
(`SettleRefines`). What is arithmetic in it is that no lease is lost in a wire format:
milliseconds are rounded up (`MillisLease`), and a memcached stamp stays within a
second of what was asked in all its three forms, relative, absolute and the whole
second below a second (`StampLease`). The invariant it rests on is small (`Asked`): a
call asks for what its backend can do, and the memory driver answers about all its
keys at once. `IndexAgreesHolds` and `ImplementsDriverHolds` are the document run's own
properties of that name.

`AgentsServeHolds`, in the same module, is the services run's own `MCSpec =>
[]AgentsServe`: it adds to `AgentsAreServed` the two modules of the MCP side. `McpInv`
says of a combined server that its inventories are those of its first members and that
what is served is routed by inventories in which no name of a kind stands twice
(`Inventoried`), so a name has one place, and the member that lists it is the one it
leads to; and of a call that what was asked are fields of its tool, no two the same,
each with its answer (`Asks`), so the next question is a new one (`QuestionIsNew`) and a
tool never asks more often than it has fields (`EnoughFields`). `ToolInv` follows a tool
call: what is missing when the backend is called was asked for and answered in the
proto's words (`Elicited`, `MappedIs`); what was taken, is on its way and is still to
come is one of the backend's streams, cut short only by an error, which is then the last
thing sent, or a cancellation (`Pumped`); each item taken was told once (`Notified`); and
a failure is told by the first status of its chain (`Answered`). The first of several
places, for a choice, a missing field or a status, is where a CHOOSE stands for a search
from the front, and that there is one is `LeastOf`.

A run that composes several modules has the constants of each as constants of its MC
module, which the cfg gives values. So a proof module that EXTENDS an MC module
(`MCFlightProofs`, `AsideProofs`, `BatchWriterProofs`, `DocumentProofs`,
`IdempotencyProofs`, `ServerProofs`) speaks of the run for every value of them. The
assumptions of the composed modules are operators, which are hypotheses of the
theorems about them, and the MC module assumes them, so TLC evaluates each:
`MCServices` those of `Server`, `Calls`, `AgentRuntime`, `Mcp` and `Tools`,
`MCDocument` those of `Drivers` and `Indexed`, `MCAside` those of `Expiry`, `Provider`
and `Connect`, `MCIdempotency` those of `WebSocket`, `LocalSocket`, `Cors`, `Tasks`,
`Network`, `Errors`, `Hosting`, `A2a` and `Assembly`, `MCBatchWriter` those of `Arrow`
and `Stores`, `MCFlight` that of its second flight. But for the fields of `Indexed`,
the prefixes of `Provider` and the fields of `Tools` (names of their own, and choices
only for an enum, none of them empty) they say only that sets are finite, that bounds
are numbers, what data is made of, and that `None` (`Absent`, `Nothing`) is none of
the values it stands beside.

Only model-checked: liveness and what rests on ENABLED, which are beyond the prover; and
`RecordsExact`, which is about what recursive definitions compute (a tokeniser, a
grammar, folds over rows) and so would take an induction over data. Every other
invariant of a passing run is a theorem.

## What is left out

- Formatting, serialisation, logging, metrics and the text of errors; the banner's
  rendering, typed views, telemetry and the documentation generator.
- Time, except in `Expiry` and `Drivers`: deadlines, leases and timeouts are actions
  that may happen at any point at which the code allows them.
- A panic in the work given to the refresher: its one caller awaits a flight,
  where a panic surfaces as an error.
- In `BatchWriter`, a `Batcher` that panics, and the instant inside tokio between
  taking a permit of the channel and filling the slot.
- In `Aside`, more than one ID: IDs share only the permits of `Flight`, which
  `Flight` models with several keys.
- In `WebSocket`, an operation that is dropped between two of its locks.
- In `Errors`, a chain with several links of types that somebody looks for; in
  `Records`, the mean, and reductions of float columns, whose sums depend on the order
  of the rows.
- Steps that are one action although another party may come between: in `Arrow` the
  reading of a sidecar, the size of the file and the index (so an index that is longer
  than its file is not met), and the end of the stream and its sidecar; in `Drivers` the
  memory driver's reading of the clock and its lock. In `LocalSocket` a mode that cannot
  be set ends like a drop, which closes the listener before it looks at the file; there
  the code looks first.
- The protocols themselves: HTTP, HTTP/3, gRPC framing, MCP and A2A belong to
  libraries, RESP, memcached and InfluxDB servers are external; they are modelled
  from how this code uses them.
- What a file system keeps of its directories in a crash; Windows named pipes; the
  administration of InfluxDB; MCP resources and completion; the chunking of bulk
  reads.
- The components listed as not modelled in `PROJECT.json`, each with its reason.

## Plan

1. Theorems: the parts of `Records` that need no induction over its inputs.
2. Abstract specifications: a durable log for `BatchWriter`, shared by the arrow
   store.
3. Larger compositions: `Aside` over `Drivers`, and `Server` with `AgentRuntime` in
   place of its two agent listeners.
