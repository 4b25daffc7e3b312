# A TLA+ verification of go-observability-lab

The repository is a small HTTP service (`cmd/api`) with PostgreSQL, Redis and
Kafka behind it, a Kafka consumer (`cmd/consumer`), a webhook sink (`cmd/sink`)
and the monitoring stack that watches them. This directory holds TLA+ modules
translated from the Go code, TLC runs over small instances of them, and TLAPS
proofs of their most important properties for every instance.

## 1. The system

| Component | Code | State it keeps | Operations | What makes it hard | What makes it correct |
|---|---|---|---|---|---|
| order creation | `internal/api/handlers.go`, `internal/store/store.go` | the handler of each request, three counters, table `orders` | decode, `ProductExists`, `CreateOrder`, count, `PublishOrder`, answer | a cancelled context leaves the INSERT to the database; crash anywhere | answers agree with the table; Kafka never fails a request |
| event producer | `internal/events/producer.go` | `enabled`, one goroutine per event, the writer's batch | `NewProducerIfAvailable`, `PublishOrder`, `Close` | 2 s deadline against late acknowledgements, retries, exit with goroutines running | every created order is counted published or failed exactly once; events only of committed rows |
| api process | `cmd/api/main.go` | what is open, the deferred calls, listener, signal, exit status | open tracer, store, cache, producer; listen; bounded drain; deferred closes; the exits that skip them | a signal at any moment, a listener that fails while requests run, a drain against handlers that wait for the database for ever | the drain ends; handlers never use what is closed; no signal cuts a request off; spans are flushed |
| consumer | `cmd/consumer/main.go` | reader position, committed offset, `orders_consumed_total` | `ReadMessage` (fetch, commit), process, signal, exit | the offset is committed before the work; failures in every phase | at most once, in order, bounded loss; goes on while up |
| chaos control | `internal/api/chaos.go` | an atomic pointer to the setting, gauge `chaos_enabled` | GET/POST `/admin/chaos`, the middleware | the setting changes while requests sleep by it; store and gauge are two steps | one setting per request; gauge agrees; off means off |
| request middleware | `internal/api/router.go`, `internal/obs/middleware.go`, `internal/metrics/middleware.go` | a recorder of the status in each of four layers, in-progress gauge, counter, span, canonical line | three wrappings of every route but `/metrics` | panics through five layers, two of which recover and panic again; the order of deferred functions; four recorders that must agree | gauge exact, signals agree, panics reported |
| admin guard | `internal/api/chaos.go` | none | `requireAdmin` | a header counts instead of the query | refused requests reach no control |
| products cache | `internal/cache/cache.go` | Redis key `products` with a TTL, `enabled` | read-through `Products`, `Flush` | outage, slow Redis, overwriting with older data | an outage never fails a request; staleness bounded by the TTL |
| store and pool | `internal/store/store.go` | 10 connections | `Users`, `Products`, `ProductExists`, `CreateOrder` | no deadline on any query; two queries per order | every way out of a query gives its connection back; one waits for good only behind queries that hang |
| load endpoints | `internal/api/chaos.go`, `handlers.go` | leaked buffers under a mutex | `/leak`, `/leak/reset`, `/cpu`, `/slow`, `/error` | concurrent leak and reset; bounds that are equal, zero, swapped or too wide | the total told is that of one atomic step; answers within bounds |
| trace context | `internal/obs/propagation.go`, `tracing.go`, `internal/metrics/exemplar.go` | spans, messages in the topic, exemplars, the exporter's batch | start and end of spans in both binaries, `traceparent` to text and back, export | the goroutine that publishes outlives its request; messages of other writers; sampling decided in one process and obeyed in another | traces are one tree across Kafka; exemplars lead to traces that were sent |
| metrics, config, logging | `internal/metrics`, `internal/config`, `internal/obs` | registry, settings read once | registration, `Load`, the canonical line | texts that are no numbers | values in range |
| alert sink, deployment | `cmd/sink`, compose and dashboards | none of its own | - | - | - |

How they interact: every request but `GET /metrics` passes the middleware, which
shares only the gauge between requests; business routes also pass the chaos
middleware, whose setting the control routes replace. Handlers share the
connections of the store and the leaked buffers. `handleCreateOrder` calls the
store and waits, then calls the producer and does not wait. The producer's
goroutines outlive their handlers and meet `main`'s deferred `Close`. The two
binaries share the Kafka topic `orders` and nothing else.

## 2. Modules

| Module | Models | Extended by |
|---|---|---|
| `OrderApi` | order creation, event producer, life of the api process, database and broker as seen from it | `MCOrderApi`, `OrderPipeline` |
| `OrderConsumer` | the consumer process | `MCOrderConsumer`, `OrderConsumerProofs`; an instance in `OrderPipeline` |
| `ProcessLife` | abstract: how the api process ends, whatever it serves | an instance in `OrderApi` and in `ApiLifecycle` |
| `OrderLedger` | abstract: what both binaries promise about an order | an instance in `OrderPipeline` |
| `OrderPipeline` | `OrderApi` and `OrderConsumer` over one topic, and the refinement of `OrderLedger` | `MCOrderPipeline`, `OrderPipelineProofs` (which has the theorems about `OrderApi` too) |
| `ChaosControl` | `Chaos`: POSTs, the gauge, the middleware | `MCChaosControl`, `ChaosControlProofs` |
| `ProductsCache` | `Cache.Products`, Redis, the TTL, the table products, restarts | `MCProductsCache`, `ProductsCacheProofs` |
| `RequestChain` | the layers of `NewRouter` | `MCRequestChain`, `RequestChainProofs` |
| `DbPool` | the handlers' queries and the connections they share | `ApiLifecycle` |
| `ApiLifecycle` | `main` of the api around the handlers of `DbPool` | `MCApiLifecycle`, `ApiLifecycleProofs` |
| `InputBounds` | operators: `config.Load` and what handlers make of query texts | `LoadEndpoints` |
| `LoadEndpoints` | `/slow`, `/error`, `/cpu`, `/leak`, `/leak/reset`, and the refinement of `LeakLedger` | `MCLoadEndpoints`, `LoadEndpointsProofs` |
| `LeakLedger` | abstract: leak and reset as one step each | an instance in `LoadEndpoints` |
| `TraceContext` | spans of both binaries, the header in Kafka, exemplars, export | `MCTraceContext`, `TraceContextProofs` |

Definitions named `Faulty...` are seeded faults: alternatives of the definition
after them, of the kind a plausible edit would introduce. No specification uses
one. Each is substituted for its original to see that the property it is paired
with (`PROJECT.json`, "mutants") notices.

### OrderApi

A request is named by the order it would insert, so the same element of
`Orders` is a request in `req` and `resp`, a statement in `stmts`, a row in
`rows`, a publication in `job` and an event in `batch`, `wire` and `log`.

| State | Code |
|---|---|
| `proc`, `producer` | `main` (`cmd/api/main.go:28-114`), `Producer.enabled` |
| `req` | the statement of `handleCreateOrder` the request has reached |
| `created`, `published`, `publishErrors` | the three counters, zero again after a restart |
| `job` | the publishing of the order by `PublishOrder`: not begun, its goroutine `spawned` (before `WriteMessages`) or `writing`, ended `ok` or `failed`, or `killed` with its process; `failed` at once if the producer is disabled |
| `batch`, `attempts`, `wire` | kafka-go's writer: events it holds, requests sent, requests on their way |
| `stmts`, `rows`, `log` | PostgreSQL and Kafka, which outlive the process |

An INSERT whose context is cancelled or whose connection breaks is answered 500
while its statement stays in `stmts`; the database commits or drops it at any
later time. A goroutine whose 2 s are over counts an error while its event stays
in `batch` and may still be delivered, and delivered again by a retry. `Drained`
waits for handlers and not for goroutines; `Exit` waits for those inside
`WriteMessages` (kafka-go's `Close` does) and not for those about to enter.

### ProcessLife

The one thing `OrderApi` and `ApiLifecycle` both model is how the process ends,
each at its own grain. `ProcessLife` states what they have in common: requests
come and go while the process is up or drains, the deferred calls begin only
when none is left, and only an end that skips them cuts any off. In `OrderApi`
the requests are the handlers of `Orders` in progress; in `ApiLifecycle` they
are the handlers in flight, and the phases of `main` before the listener and
after the end count as being down. Both are shown to implement it
(`ImplementsProcessLife`), so the coarse process of `OrderApi` and the detailed
`main` cannot disagree about when `producer.Close` may run.

### OrderPipeline

A step is one of the api, which leaves the consumer alone, or one of the
consumer, which leaves everything but its own state alone. `Consumer` is an
instance of `OrderConsumer` whose producer is the api. `FeedsConsumer` says that
this is no different from the producer which `OrderConsumer` assumes, bound on
the topic included. `ProcessedPerAttempt` relates the two ends: how often an
order is processed, over all lives of the consumer, and how often the api's
writer tried to produce it.

### OrderConsumer

`reader.ReadMessage` commits with a group id before it returns; it is split into
`Fetch`, `CommitOffset` (the broker has it) and `ReturnMessage`, and `ReadFails`
or `LoopEnds` can take the place of each. `Process` is the configured delay, the
log line and the counter. `handled` and `starts` are history. The model has the
one consumer `docker-compose.yml` runs, hence no rebalancing.

### ChaosControl

`Post` decodes and clamps; `Store` and `SetGauge` are the two statements of
`Chaos.set`. A request is `arrived`, has loaded its setting (`Load`), waits tick
by tick, and draws. `during` and `raced` are history. The first load and the
branch it decides are one step, since the setting is in a local variable.

### RequestChain

`Layers` is the order in which `NewRouter` composes the layers for its three
kinds of route. `depth` is the layer in control, `mode` the direction:
`calling`, `returning` or `panicking`. `deferred` holds what each layer has
deferred, in the order of its `defer` statements, and `RunDeferred` takes the
last one first, so that `Instrument` counting before it lowers the gauge, and
`TraceHTTP` marking the span before it ends it, is a consequence of the order of
the statements and not a guard.

`heard` has a status for each of the four recorders (`PanicGuard`, `TraceHTTP`,
`RequestLogger`, `Instrument`), 0 as long as it was told none; `Status` is what
it then reports, 200 by default. `Around` says which recorders a writer finds
around it, and `WriteHeader` tells exactly those: all of them when a handler,
the chaos layer or the admin guard writes, and the one of the guard when
`PanicGuard` answers for a handler that panicked. The counter, the line, the
span and the guard each read their own. A recorder is `heard` the first header
only, as net/http sends only the first (`sent`).

`logFrom` is the least status whose line the log level lets through: 2xx and 3xx
are logged at info, 4xx at warn and 5xx at error. A panicking handler is a
choice of the model: no handler of the repository is known to panic, but the
middleware and its tests are about handlers that do.

### ProductsCache

A request is `looking` (GET), `loading` (the store's query), `storing` (SET) or
`done`. Every way out of the lookup but a hit leads to the store. `wire` holds
SETs that Redis has not executed; they outlive the `StoreReturns` of their
request, which may have timed out, and even the process, and each is lost or
executed later. `Tick` is the clock: `entry` expires after `TTL` ticks.
`enabled` is chosen by each start, as the `Ping` in `main` does. The api never
writes the table products, so `ChangeTable` is a hand on the database; `Garble`
is another writer of the key. `quiet`, `overtaken` and `failed` are history.
Prices are `NUMERIC`, which may be NaN and then cannot be encoded; `Loaded` has
that branch too.

### DbPool and ApiLifecycle

A handler is `asking` for a connection, `querying` or `replying`; `queries` is
how many queries it has left, two for `POST /orders`. `conns` are the holders of
connections and `hung` those whose query PostgreSQL never answers. Every way out
of a query is an action: rows read, an error of the query or of a scan, a client
that leaves; and so are a connection that cannot be opened and a client that
leaves before it has one. `DbPool` has the actions and no specification of its
own; `ApiLifecycle` says when requests come in and what ends them.

`phase` is the statement of `main`, `opened` what is open and `defers` the
deferred calls, pushed and popped as Go does. `Exit` is `os.Exit` and the
default action of a signal: it runs no deferred call. `ListenFails` and `Signal`
may both have happened when the `select` chooses, and the model chooses freely,
as Go does. `Kill` is a signal outside the time between `NotifyContext` and the
deferred `stop`. `unsent` are the spans the batcher still holds; the deferred
shutdown of the tracer exports them or logs that it could not. `OrderApi` has
the restarts and crashes, and folds what is told apart here into `Start`,
`Crash` and `Exit`; this module has one life of the process.

### InputBounds, LoadEndpoints and LeakLedger

A text is a record of what `strconv` makes of it: unset, junk, NaN or a number.
Rates are in percent. `IntN` is the set of what `rand.IntN` can draw, or its
panic if its argument is not positive; `SlowDelays` has the guard of
`handleSlow` before it, and a panic that got past it would be an answer
(`SlowAnswer`) which `AnswersInBounds` refuses. `AsDuration` is the product with
`time.Millisecond` in the width of a `time.Duration`. `LoadEndpoints` chooses an
environment and passes it through `Load` once; its stateless routes answer in
one step, since they share nothing. A leak is `Allocate`, `Lock`, `Keep`, `Sum`,
`Unlock`, `TellTotal`; a reset is `AskReset`, `Lock`, `Clear`, `Unlock`,
`TellTotal`. In the refinement mapping a leak takes effect with `Keep`, and the
total it has not read yet is the one the books have, which is right because of
the mutex.

### TraceContext

A context is a trace id, a span id and whether it is sampled. `NewContexts` is
the sampler as `InitTracer` configures it: a child follows its parent, a root
the ratio, or is always sampled if there is no endpoint. `exporting` says for
each binary whether it has one. The header is the sequence of its four fields;
`ParseTraceparent` refuses and accepts what the code does, the two characters of
the flags included, of which `Sscanf` reads as many as are hex digits. Ids are
numbers derived from what starts the span instead of drawn, so that different
spans never share one, as random ids do not: request `r` has `10 * r` to `10 * r
+ 4`, the consumption of the `n`-th foreign message `10 * n + 5`. The traces of
others have numbers that are no multiple of 5, so they are told apart from every
trace that begins here. `cause` is history: the publishing that led to a
consumption, whatever the header says.

A histogram is observed before the span it points at has ended: `Query` starts
the span of a query and observes it, `EndQuery` is the deferred `End`; `Return`
is the observation of `Instrument`, `EndServer` the deferred `End` of
`TraceHTTP`, two layers further out. A scrape, an export or any other request
may come between the two, and `Seen` names the exemplars of that gap. Only the
exporter of the api is modelled: exemplars are the api's, and which spans the
consumer sends bears on no property.

## 3. Runs

| Run | Question | Bounds |
|---|---|---|
| `order_api` | Do answers, table, topic and counters agree through crashes, drains, lost and late messages, and do answers, goroutines and drain end? Do the deferred calls run beside no handler? | two orders, two attempts per event |
| `order_consumer` | At most once, in order, with bounded loss; goes on while up | one kind of event, three in the topic, three starts |
| `consumer_lag` | Does the lag of the committed offset count what is not consumed? No (see section 6) | the same |
| `order_pipeline` | Do the two binaries implement `OrderLedger`? Is an order processed no more often than it was sent, and is the api the producer that `OrderConsumer` assumes? | two orders, two attempts for one of them and one for the other, two starts of the consumer |
| `products_cache` | Does Redis fail or miscount no request, and how long can products be stale? | two clients, two contents, TTL of two ticks, one SET of each content on the wire |
| `chaos_control` | One setting per request, gauge, off means off | two admins, one client, latency up to 2 ticks, ratio 0, 1/2 and 1, four settings to post, two of them out of range |
| `chaos_gauge` | Does the gauge tell the setting whenever no POST is in progress? No | the same |
| `request_chain` | Gauge, counter, span, line and client agree for returns and panics, although each has its own recorder | two requests, each on any of three routes of the three kinds, codes 200, 404, 500, three thresholds of the log level |
| `request_line` | One canonical line per request? Not after a panic | the same |
| `api_lifecycle` | Are resources open, connections returned, spans flushed and requests spared by signals, whatever comes first; does `main` live the process life; does anybody wait for good but behind hung queries? | three handlers, two connections |
| `load_endpoints` | Are answers in bounds, and leak and reset atomic to their callers? | two clients, four environments, two buffers before a leak is asked for, eight values of a Duration per millisecond and 64 in all |
| `trace_context` | Do traces stay whole across Kafka, and do exemplars, at every moment and in the end, lead to traces that are sent? | two requests, two upstream traces, one foreign message with either of two headers, each binary exporting or not |

Why the bounds are enough. *Orders*: requests interact through the process, the
counters, the drain and the order of the topic; two of them give every pair of
overlapping steps. `MaxAttempts` is 2 so that an event can be delivered twice,
once after the goroutine has given up (the code sets no number, and kafka-go's
default is 10; the proofs hold for any). The number of starts of the api needs
no bound, because counters are reset and requests are used up. *Pipeline*: the
constraint `OneRetried` keeps the second order to one attempt, so that a
duplicate of the first meets an event of the second before, between and after
its two deliveries; two starts of the consumer put an end of its process
anywhere among them. *Consumer*: two ends of the process can each lose an event
and a third life still has one; `MaxLog` and `MaxStarts` bound the two counters
of the model. Payloads play no part, so there is one kind of event. *Chaos*: a
race needs two POSTs; requests share nothing but the setting, so one client that
comes again and again is enough; two ticks of latency let a setting change
during the wait and not only around it. *Cache*: staleness takes one change and
one request it overtakes; the second client hits, or overwrites, meanwhile. With
two contents a stale entry can only be the other one, and changing back gives
every order of old and new. `MaxWire` bounds what is on the wire; two SETs at a
time are enough for a late one to arrive after a newer one. *Chain*: requests
share only the gauge of their route. *Lifecycle*: with two connections two
handlers can hold all there is, by hanging or between the two queries of an
order, while a third waits. A handler that left may come again, so there are as
many requests as one likes. *Load*: two clients give every pair of a leak and a
reset; the texts lie below, at and beyond each bound, and 4 ms is the first
delay that wraps around in the scaled Duration. Of the real one (2^64 values of
10^6 per millisecond) the proofs hold as well. *Traces*: traces meet only in the
upstream one two requests share and in the topic; the foreign message comes
anywhere between those of the api.

The type invariant of `ChaosControl` is checked in its run, since the bounds of
the setting are the property of interest there; those of the other modules are
proved (section 4) and not checked a second time.

Deadlock is checked except where the system stops: the consumer when it has used
its `MaxStarts` starts, the chain and the traces when every request is over, the
lifecycle when the process has exited.

### Fairness

Weak fairness is assumed of steps that nothing outside the program can hold up,
and, where said so, of steps of a broker or a Redis client without which there
is nothing to say:

- `OrderApi`: `CountCreated`, `PublishOrder`, `ReplyCreated` (plain code after
  the INSERT has answered), `EnterWrite` (the goroutine is scheduled),
  `WriteTimeout` (its 2 s context), `Drained` and `DrainTimeout` (`srv.Shutdown`
  with `SHUTDOWN_TIMEOUT`). Nothing is assumed of clients, signals, crashes,
  restarts, the database, the broker or the writer. In particular a query may
  hang for ever, since none has a deadline of its own.
- `OrderConsumer`: the loop as long as the process is up. Two of its steps,
  `Fetch` and `CommitOffset`, are answers of the broker: `ProcessedWhileUp` is
  about a broker that delivers what it has and records commits, or else makes
  the read fail. Reads that fail and ends of the process may always happen
  instead.
- `ChaosControl`: a request in the middleware goes on. Requests, POSTs and the
  two steps of a POST merely may come.
- `ProductsCache`: a SET returns, with a failure if nothing else. That is the
  doing of go-redis, whose default timeouts the client is created with
  (`internal/cache/cache.go:28-30`), not of this code. Time passes. Nothing is
  assumed of the lookup or of queries.
- `RequestChain`: the way out of a request. A handler need never return.
- `ApiLifecycle`: weak fairness of a query that is not hung being answered.
  Strong fairness of a waiting handler getting a connection: others may take
  each one that comes free, but `database/sql` hands it to one of the waiters at
  random and so passes nobody over for ever. Nothing is assumed of clients,
  signals, the drain, or hung queries.
- `TraceContext`: the batcher of the api exports periodically, and the deferred
  `End` of a query or of a request that has returned is not held up. Handlers,
  the publishing goroutine, the broker and the consumer may stop anywhere.
- `LoadEndpoints` has none.

## 4. Proofs

`tlapm` proves these for every value of the constants that satisfies the named
assumption of its module: `OrderApiAssumption` (`Orders` finite, at least one
attempt), `OrderConsumerAssumption` and `OrderPipelineAssumption` (bounds are
naturals), `TraceContextAssumption` (upstream contexts are valid, sampled alike
within a trace, and of traces that do not begin here), `ChaosAssumption` (posts
are records of a Boolean and two integers), `ProductsCacheAssumption` (a
positive TTL; contents are told apart from the words for none),
`RequestChainAssumption` (finitely many requests, every route of one of three
kinds, codes in 100..599), `DbPoolAssumption` (finitely many handlers, at least
one connection), `InputBoundsAssumption` (defaults and scales are naturals) and
`LoadEndpointsAssumption` (texts are of the four kinds). TLC evaluates them on
every run.

- **`OrderPipelineProofs`, about `OrderApi`.** `OrdersInv` says for each order
  which combinations of handler, answer, statement, row, goroutine and event
  occur together: `TypeOK` and the properties alone are not inductive, since
  nothing in them says, for example, that a handler past its INSERT has its row,
  or that a goroutine is started once. `EventsHaveRows`, `AnswersMatchTable` and
  `PublishingFailsNoRequest` follow from it. `CountersBalance` adds the equation
  of the counters, whose right side changes by a cardinality: `CountedSet` and
  `AccountingAtEndJob` say how it changes when one order moves.
  `PublishedNeverOverstated` counts the goroutines that ended `ok`
  (`PublishedInv`), each with its order in the topic. `ApiLivesAProcessLife`
  needs the guard of `Drained` to last: `QuietInv`, no handler while the
  deferred calls run, without which the end of the process from there could cut
  one off and the abstract life would have no step for it.
- **`OrderConsumerProofs`.** `ReaderInv` ties position and committed offset to
  the phase of the loop, `WorkInv` says that nothing above the committed offset,
  nor the event in hand, has been processed. From both follow
  `AtMostOnceInOrder` and `LossIsBounded`.
- **`OrderPipelineProofs`, about the pipeline.** `PipelineInv` is the invariant
  of either part. `ApiView` shows that a step of the pipeline is a step of the
  api or leaves it alone, so the invariant of the api carries over; `TopicGrows`
  shows that what the api does to the topic is what the consumer expects of it.
  `PipelineImplementsLedger` maps the steps: `DecideInsert` to `Commit`,
  `ReplyCreated` to `Confirm`, `DeliverProduce` to `Notify`, `Process` to
  `Handle`, and all others to stuttering. `ProcessedNoMoreThanAttempted` counts
  twice: `AttemptsInv` says that the places of an order in the topic and its
  requests on the wire are together at most its attempts, and `HandledAreFewer`
  injects what was processed into those places, which is where at-most-once of
  the consumer comes in. `PipelineKeepsApi` is `ApiView` for behaviours, and
  `PipelineKeepsConsumer` its counterpart for the consumer: its `Produce` has a
  bound on the topic, so `TopicBounded` injects the places of the topic into the
  pairs of an order and an attempt. With `PipelineProcessesAtMostOnce` what was
  proved of each binary alone holds of the two together.
- **`ChaosControlProofs`.** `RequestsInv` says that the setting a request has
  loaded was in force during its stay and accounts for its place and wait;
  `GaugeInv` follows the POSTs between store and gauge. They give
  `OneSettingPerRequest`, `GaugeFollowsSerialPosts` and, with the bound on every
  wait, `ChaosTypeCorrect`.
- **`ProductsCacheProofs`.** `RequestsInv` follows the books of a request from
  lookup to answer and gives `RedisFailsNoRequest` and
  `HitsAndMissesAreRequests`. `EntryInv` compares two clocks: an entry that was
  right when it was set and is wrong now is at least as old as the last change,
  and it is younger than the TTL, hence `StalenessIsBounded`.
- **`RequestChainProofs`.** `RequestsInv` describes a request layer by layer:
  what has been deferred, counted, opened or logged by the time the control is
  there, and that the four recorders have been told the same, but for the 500
  the guard writes itself. `SignalsAlwaysAgree` and `PanicsAreReported` are its
  values at the end. `GaugeIsExact` is the sum over requests: `GaugeStep` shows
  that a step moves one request across `Instrument` exactly when it moves the
  gauge. `NothingOffTheBooks` compares two cardinalities: the requests not yet
  counted are among those the gauge counts, because the stack of deferred
  functions still holds the count when it holds the decrement.
  `ChainTypeCorrect` comes last, since that the gauge is never negative follows
  from its being exact.
- **`ApiLifecycleProofs`.** `Inv` relates four parts. `DefersInv` and
  `OpenedInv` read the stack: the tracer is at its bottom, and what the phase
  has passed is open until its deferred call runs. `QuietInv`: no handler
  outside the serving phases, so the stack unwinds only after them. `FlushInv`
  says when spans can still be unsent. `PoolInv` adds to the properties of the
  pool that a handler inside a query has a query left. They give
  `ConnectionsReturned`, `HandlersHaveResources`, `CleanExitFlushes` and, as a
  property of steps, `SignalCutsNobody`. `MainLivesAProcessLife` maps each step
  of `main` to the life of the process; `QuietOutside` (no handler in flight
  outside the serving phases) is why `Return`, and a second signal that ends the
  deferred calls, map to an end that cuts nobody off.
- **`LoadEndpointsProofs`.** `LeakInv` is the mutex (`MutexInv`) with what its
  holder has read and allocated. `NextRefines` maps `Keep` to `Leak`, `Clear` to
  `Reset`, `TellTotal` to `Tell`, the beginning of any request to `Ask` and all
  else to stuttering; only `Sum` needs the mutex, to find the total that was
  promised. `AnswersStayInBounds` rests on `CfgInv` (what `Load` returns) and on
  lemmas for each route; `SlowWithin` is the one which shows that no bounds lead
  to a panic of `rand.IntN`, and `DurationShrinks` is the one about overflow.
- **`TraceContextProofs`.** `TracesAreWhole` is not inductive, for two reasons.
  That a consumption hangs from its publishing needs to be known while the
  message waits: `TopicInv` says that every message of the api carries the text
  of a context in use, `HeaderRoundTrip` that the text is read back as that
  context, and `HandlersInv` that a handler which may start children has its
  span. That spans of a trace are sampled alike needs a new root never to get an
  id in use: `DrawnInv` says from which request or foreign message an id was
  drawn, and `WaitingInv` that the ids of waiting messages are still free.
  `AlikeInv` extends the agreement to the contexts of others, so that a trace
  continued twice, from a request and from a foreign message, agrees too.
  `ExemplarsLead` proves what can be said of exemplars at every moment: whoever
  scrapes one while its span is still open finds a request that is about to end
  it, and none is forgotten between that end and the export.

Only model-checked: the liveness properties (`CreatedIsAnswered`, `JobSettles`,
`DrainEnds`, `ProcessedWhileUp`, `OffStopsInjection`, `EventuallyFresh`,
`UnwindingEnds`, `WaitsOnlyBehindHung`, `ExemplarsResolve`), because liveness
under fairness and ENABLED are beyond the prover; and the three disagreements,
which are about one behaviour each. Every safety property of a passing run is
the subject of a theorem.

## 5. What is outside the models

- PostgreSQL, Redis, Kafka, kafka-go, go-redis, database/sql, OpenTelemetry and
  net/http are external: the models say what the code relies on (a commit
  answered is durable; the writer retries up to its attempts; `Close` flushes;
  `ReadMessage` commits; a cancelled query gives its connection back; the
  batcher sends what it holds). The batcher's limit of spans, idle connections
  and their lifetimes belong to those libraries.
- Wording, buckets of histograms, the format of log lines and all lines but the
  canonical one, and the strings and durations of the configuration have no part
  in any property. The log level has, by what it drops (`logFrom`).
- That a Redis which hangs holds a lookup up for a bounded time only is
  go-redis's promise (its timeouts); the code sets none, and nothing is checked
  about it.
- `main` does not wait for the goroutines that publish. A goroutine that has not
  entered `WriteMessages` when the process ends dies with its event and its
  span: `OrderApi` has that (`killed`), `PublishAccounting` counts it as
  unsettled until the end, and `CleanExitFlushes` is about the spans of requests
  only.
- `POST /orders` passes `RequestChain` and, as a business route, `ChaosControl`.
  Both may answer before `handleCreateOrder` runs; such a request never gets to
  `OrderApi`. Its two queries are counted in `DbPool`; what they do to the table
  is in `OrderApi`.
- `GET /metrics` is mounted without any middleware and is no route of
  `RequestChain`. GET `/admin/chaos` and refused or malformed POSTs change
  nothing and have no action. That `requireAdmin` compares in constant time is
  not modelled.
- Marshalling an `OrderEvent`, a struct of numbers and a time, cannot fail, so
  that branch of `PublishOrder` is left out.
- `Cache.Flush` is called by tests only.
- The alert sink logs what it receives. Dashboards, rules and compose files
  configure other programs.

## 6. Where code and documents disagree

- **Lag.** `docs/phases/phase-8.md:35-36` takes the lag for "messages produced -
  messages consumed". `ReadMessage` commits before the work
  (`cmd/consumer/main.go:94`), so an event cut off by the end of the process is
  neither lag nor consumed (`consumer_lag`). `LossBoundedByEnds` bounds how
  many.
- **Gauge.** `chaos_enabled` is described as telling whether chaos is enabled
  (`internal/metrics/metrics.go:86`). Two overlapping POSTs can store in one
  order and set the gauge in the other (`internal/api/chaos.go:47-52`), and the
  gauge stays wrong until the next POST (`chaos_gauge`).
- **Canonical line.** `docs/09-structured-logging.md:13-14` promises exactly one
  line per request, and a test (`internal/obs/middleware_test.go:129`) says the
  guard is inside the logger "exactly as the router wires it". The router has it
  outside, and a panicking handler leaves no line (`request_line`). The run
  looks at the default log level, which drops no line. The comment of
  `PanicGuard` (`internal/obs/middleware.go:50-51`) also has it inside
  `Instrument`.

These were met while modelling and have no run of their own:

- Without an endpoint `InitTracer` samples every root
  (`internal/obs/tracing.go`) and exports nothing, so exemplars name traces that
  Tempo never recorded, which `internal/metrics/exemplar.go:10-15` rules out.
  `ExemplarsResolve` is therefore about an api that exports.
- `ParseTraceparent` is said to refuse anything that is not exactly the format
  (`internal/obs/propagation.go:25-28`), but `Sscanf` is content with one hex
  digit: the flags `1z` are accepted and mean sampled. `trace_context` has such
  a header among its foreign ones.
- `API_ERROR_RATE=NaN` passes the clamp that is to keep out-of-range values out
  (`internal/config/config.go:74-77`), and then never fails a request.
- `GET /slow` with a `max_ms` beyond the range of a Duration returns early and
  tells a `slept_ms` it did not sleep. `AnswersInBounds` says only that it is
  never the other way round.
- A comment says that `handleSlow` respects the server's shutdown
  (`internal/api/handlers.go:102`). `srv.Shutdown` cancels no request; a long
  sleep is cut off only when the drain times out.

## 7. Plan

1. *done* `OrderApi`, `OrderConsumer`, `OrderLedger`, `OrderPipeline` with their
   proofs: the path of an order.
2. *done* `ChaosControl`, `RequestChain` with their proofs: what every request
   passes.
3. *done* `ProductsCache` with its proofs.
4. *done* `DbPool` and `ApiLifecycle` with their proofs.
5. *done* `InputBounds`, `LoadEndpoints`, `LeakLedger` with their proofs.
6. *done* `TraceContext` with its proofs.
7. *done* `ProcessLife`, implemented by `OrderApi` and by `ApiLifecycle`; the
   pipeline shown to keep the specifications of both its parts.

Left: an abstract specification of what a reader of the cache sees, with
`ProductsCache` shown to implement it; the same for the way out of the chain,
where the five layers could be stated as one step that tells gauge, counter,
span and client.
