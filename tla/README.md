# xeno-js in TLA+

A verification project for xeno-js, a dependency-injected application framework
in TypeScript: TLA+ modules translated from `src/src/`, TLC runs over small
instances of them, and TLAPS proofs of what holds for every instance. Paths below
are relative to `src/src/`. `PROJECT.json` is the machine-readable index: which
lines each definition models (`map`), what each run checks (`runs`), a slip in the
code that each property notices (`mutants`), what the runs show against the docs
(`findings`), and the hazards the properties were chosen for.

- [The system](#the-system)
- [Plan](#plan)
- [Modules](#modules)
- [Runs](#runs)
- [Proofs](#proofs)
- [What stays with TLC, and what is not modelled](#limits)

## The system

An HTTP adapter turns a platform's request into the framework's own, extractors
read it, and it runs through a chain of middlewares inside a request context; a
controller sends a command or a query through the mediator, whose pipeline
behaviours wrap the handler. Everything is wired by a container that a builder
fills module by module. JavaScript runs one callback at a time: the interleavings
are those at `await`, and, for what lives in Redis, those of several processes.

| Component | State | Operations | Meets |
|---|---|---|---|
| `IdempotencyPipeline`, `IdempotencyStore` (`application/cqrs/pipelines/idempotency.pipeline.ts`, `infrastructure/idempotency/`) | a lock and a processed entry per request, in the shared cache, both with a time to live | `handle`, `acquireLock`, `markAsProcessed`, `hasBeenProcessed`, `getPayload`, `releaseLock` | cache, request context, the behaviours and handler inside it |
| `Mediator` and the other behaviours (`application/cqrs/`, `modules/cqrs.module.ts`) | none | `send`, `query`; exception, logging, performance, authorization, validation, in a fixed order | scopes, strategies, handlers |
| `QueryCachingPipeline` | the cache | cache-aside read | cache, handler |
| `ConcurrencyRetryPipeline` | attempts of one command | retry on a conflict | idempotency outside, handler inside |
| `ServiceContainer`, `ContainerScope` (`infrastructure/container/`) | registrations, singletons, per scope its instances and what it must dispose, the resolution context | `register`, `resolve`, `createScope`, `dispose` | factories, which call back into it |
| `AppBuilder` (`infrastructure/builder/`) | the module queue and its flags, the build promise, the container | the `add...` methods, `build`, reset after a failure | modules, container |
| `UnitOfWork`, `TransactionState`, DB context proxy (`infrastructure/transaction/`, `modules/db.module.ts`) | the transaction in force, one per scope | `runInTransaction`, `dispose`, every access of the proxy | database driver, container scope |
| `NodeRequestContext` (`infrastructure/context/`) | per request: scope, network and user context | `runAsync`, `updateIdentity`, getters | container scope, middlewares |
| caches, `RateLimitMiddleware` | counters with a time to live | `increment`, `get`, `set`, `setIfAbsent`, `remove` | rate limiter, both caching behaviours |
| HTTP middleware chain (`presentation/middlewares/`, `modules/middleware.module.ts`) | response headers, request context | request, origin, options, CORS, method, authentication, rate limit, CSRF | adapter, context |
| extractors and registries (`infrastructure/services/`) | the routes and origins of the configuration | bearer token from a header, a cookie or the pieces of a session, client address, method and origin checks | middlewares |
| adapters and cookies (`infrastructure/http/`, `services/cookies/`, `factories/supabase.factory.ts`) | the reply of the host framework, the cookies of the response | adapt, repeat header changes on the reply, `getAll`, `setAll` | browser, authentication client |
| resilience (`factories/cockatiel-resilience.factory.ts`, `services/resiliences/`, `datasources/remote.datasource.ts`) | breaker, bulkhead (cockatiel) | `execute` | remote sources |
| crypto, loggers, repositories, controllers, mappers, domain contracts | none | pure functions, formatting, delegation | |

What is hard, and what makes each part correct:

- *Idempotency.* Calls of one request race from the processed check to the
  acquisition, on several machines; entries expire while a call is between two
  awaits; a store call can reject and a process can die at any of them. Correct
  means: one execution of a request at a time, none while its result is stored,
  replies that carry a result that was really produced, and no lock that outlives
  its use.
- *Commands and queries.* Up to seven behaviours nest around a handler, each with
  answers of its own; cached reads race writes, conflicts are retried, the scope of
  a call may end under it. Correct means: nobody gets anywhere, the cache included,
  without the permission and a valid request; a caller can tell from an answer what
  was committed; a cached answer belongs to whom it is given; a failure has a cause.
- *Container.* Factories call back into the container, throw halfway, and form
  chains and cycles, catch each other's errors and return instances that are tracked
  already; `dispose()` awaits between instances while other scopes go on
  resolving. Correct means: no singleton holds a scoped instance through any chain,
  dependents go before dependencies, a disposal leaves nothing behind and disposes
  nothing twice that it can recognise, scopes do not leak into each other.
- *Builder.* `build()` may be called by several callers and again after a failure,
  and modules may be added meanwhile. Correct means: concurrent callers share an
  attempt; a retry starts over; what is handed out is complete, in dependency
  order, and not disposed; every caller gets an answer.
- *Transactions.* The DB context is looked up on every access, so a statement goes
  wherever the state of the scope points at that moment. Correct means: a run is
  atomic, and no write goes into a transaction whose callback is over.
- *Middlewares and limiter.* Ten middlewares, most of them optional, nest around a
  handler, refuse or throw at any of their awaits, and count requests in a shared
  cache that expires, loses hits or does not answer. Correct means: a handler runs
  only behind every middleware that is switched on and with the identity the
  service vouches for; the limit holds over any window, and a refusal ends when it
  says so; answers leave with the headers the page needs to read them.
- *Requests and sessions.* Routes overlap, a session comes in one cookie or in
  pieces in any order and beside leftovers of another, answers that renew it get
  lost, and headers are repeated on a reply as they come. Correct means: what the
  middlewares see is what was sent, and the session that is read is the last one
  that was handed out, or one of another project, but never an older one.
- *Resilience.* A bulkhead, a breaker and a retry are wrapped into one another;
  late failures open the circuit under a probe, and callers give up meanwhile.
  Correct means: nothing is sent more often than it may be, a dead service is soon
  left alone, and nobody waits for a probe that is over.

## Plan

In the order of importance; all eight are modelled and checked.

1. `Idempotency` with the abstract `CommandLedger` it implements.
2. `ServiceContainer`: resolution, scopes, disposal.
3. `AppBuilder`: the build and its retries.
4. `Transactions`: unit of work, state, DB context, within request scopes.
5. `RateLimit` and `HttpChain`: the counter over both caches (atomic in Redis,
   read-await-write in memory), and the middlewares around a handler, which use it.
6. `CqrsChain`: mediator and behaviours, retries of conflicts, cached queries.
7. `Resilience`: bulkhead around breaker around retry, with cockatiel external.
8. `HttpRequests` and `HttpTransport`: how a request is read, and the adapters and
   cookies between a browser and the middlewares.

Every safety property of the passing runs is proved. Left to model: `Idempotency`
composed with the retry inside it, which needs its store as a part of `CqrsChain`.

## Modules

Each model keeps every state change, guard, early return and error path between
two awaits in one action, in the order of the code, and abstracts values: a
payload is named by the call that produced it, a transaction by its run, an
instance by its number. An operator with a telling name beside a definition
(`OldestFirst`, `Unsorted`, `StoreFailureThrown`) is that definition with a
plausible mistake; no action of `Next` uses them.

### Idempotency, CommandLedger

A call is one invocation of `handle()`; `pc[c]` is the store operation it is
awaiting and every store operation is one step. `lock` and `processed` hold, per
request (the key derived from `network.requestId`), who wrote the entry and the
time it has left; `Tick` ages them, which is Redis' `EX`. `acquireLock` is one
atomic `SET NX`; `releaseLock` deletes the entry whoever wrote it. `committed` is a
history variable. The constant `Faults` chooses the environment: `"crash"` (the
process of a call dies), `"store"` (any store call rejects, a write with or without
having been applied; the catch block and a second rejection in it included),
`"slow"` (the handler may outlast the lock) and `"gap"` (time may pass between the
processed check and the acquisition).

`CommandLedger` is what the class comments promise: per request a slot that is
empty, running or stored, and an answer per call. `SlotOf` maps the entries to it: a
live processed entry hides the expiring lock under it, and a lock whose call is no
longer in flight counts for nothing.

### CqrsChain

A call is one `send` or `query`; `place` is the await it is at, and a step goes from
one to the next. The `Into...` operators follow the nest of behaviours inwards, in the
order `CqrsModule` lists them; `OutOfHandler` is the way back through the retry and the
cache, and `Leave` the exception behaviour, which turns what is thrown into a failure.
What the mediator does before the pipeline is in `Send`: an aborted signal, the want
of a scope, and the resolution of the pipeline, which rejects the call when the
scope is closed. `setup` is the set of features of the deployment. Data are a
version: a command commits against the version its handler has read, or meets a
conflict, returned or thrown; a query answers with the version it has read. A
handler may be `nested`: after it has committed it sends another command, whose
conflict it returns. A policy demands a user or a tenant when its flag is defined, be
it `false`, while the strategies are chosen by the flags that are not empty: what
`Guards.isNullOrEmpty` of the shared library, which is external, takes for empty is the
constant `EmptyFlags`. A call may be `detached`: its request may end, and its scope
with it, at any time. `from`, `since`, `saw` and `commits` are history: whose entry
answered a call, the version when it was sent, the version it shows, and what it has
committed. Idempotency, which wraps the retry, is not in this module: its calls are
those of `Idempotency`, with this chain as the handler.

### ServiceContainer

A resolution has no await, so nothing interleaves with it: `frames` is the stack of
running factories, `active` the lifetime the resolution context carries, and every
other operation waits until the stack is empty. `Enter` pushes a factory, `Construct`
is its return (store by lifetime, track, restore the context, hand over),
`Reuse` is a cache hit, `Refuse` each reason to throw, `FactoryThrows` an error of a
factory. `Unwind(n)` is the way of an error: every factory above depth `n` is left and
restores the lifetime it found, and the `n`-th catches it and goes on, or with `n` = 0
the caller gets it. A factory makes a new instance or returns one again that was
returned before, its own or another's (`Reuses`), disposed or not: `objects` has an
entry for each run of a factory, `same` says which run was the first to return the
instance, and `Inst` compares. `Tracks` is `trackInstance`, which looks whether the
scope tracks the instance already, and `setScopedInstance`, which does not. `dispose()` awaits once per tracked
instance: `Dispose` and `DisposeNext` are its pieces between awaits (`left` is the
loop index), interleaved with whole resolutions and other disposals;
`ClearContainer` is the rest of the container's own `dispose()`, which a second
call reaches before the first. `log` is a history of disposals. Factories are
synchronous, as their type in the contracts says.

### AppBuilder

`queue` is `_modules`; a module's queued-flag is its membership there. `Add` queues
a module behind the ones its method queues first (`Missing`). `build()` is `Join`
(there is a promise) or `Start` (sort in place, first await). Each module takes two
steps, because its code is imported with an await before it reads the container:
`Configure` reads it, `Register` ends with what it registered. The loop runs over
the live array, so `Register` looks at the length of the moment. `Recover`, `Clear`
and `Renew` are the rejection handler: drop the promise, await the disposal of the
container, replace it. `Answer` is the continuation of a caller. `Prompt` says that
a reset is over before a retry gets past its first import: this is so when nothing in
the failed container has a slow `dispose()`, since the reset then takes two
microtasks; without it the model allows any overlap. `PrioritiesAssumption` is what the
`add...` methods keep to: a method queues all that its module needs, and gives it the
higher number (0 to 2 for context, logger and cache, 3 for what middlewares only use,
4 and 5 for middlewares and pipelines, which alone queue others).

### Transactions

A request is born and ends with its scope (`runAsync`). A run is one call of
`runInTransaction` and names its transaction; its steps are the call, the database
calling back (`EnterCallback` sets the state), statements (`Write`, routed by
`Route` at the moment they are made), the end of the callback (`finally` clears the
state in either case) and the database's commit or rollback (external: modelled by
what the interface promises). `EndRequest` and `DisposeEnds` are `UnitOfWork.dispose`
on both sides of its await. A request in `Overlapping` may nest runs or run them
concurrently, one in `Detached` may end before they settle; the others are
`Careful`: they await each run before they go on.

### RateLimit, HttpChain

`RateLimit` is the counter of the rate limiter over the kind of cache that
`Caches` allows, chosen once: `"redis"` increments and renews the expiry in one
transaction, `"flaky"` is a Redis whose transactions may come back without a result
(the code takes it for a first hit), `"memory"` reads, awaits and writes. A request
is counted once, under a key, and judged. `age` is a history variable: how long ago,
up to a window.

`HttpChain` extends it by the chain that `MiddlewareModule` puts together from the
features in `setup`. The chain is a nest of functions; the `Into...` operators follow
it inwards, each from the entry of a middleware to the next await or answer, and the
`Leaving...` operators outwards; a step goes from one await to the next. An exception
(`Thrown`) by-passes every middleware but the request context. A visit is a request as
the extractors understand it: where it comes from, whether the registry has its
method, what the authentication service knows of it, the subjects of its CSRF
tokens. `HttpChain` implements `RateLimit` (`ChainImplementsLimiter`), which therefore
has no run of its own.

### HttpRequests, HttpTransport

`HttpRequests` is pure: from a raw request (a record of what its headers say) to the
visit `HttpChain` works on. `FindMethods` is the route registry, literal routes before
those with a parameter; `SsrToken` takes the last cookie of any project that keeps a
session whole, or puts one together from the pieces of all projects, the last of each
number, sorted by it (`Picked` takes the members of a sequence at some places, in order);
`ClientIp` believes headers from trusted peers, or where there is no socket to look
at; `Visit` is the header extractor with the context mapper. The visits of
`MC_HttpChain` are made with it, from raw requests.

`HttpTransport` has one browser send one request after another (`RequestOf`: its
cookies, in either order, and the rest of a `head`). It may have cookies of other
projects (`Foreign`), which nothing in the model sets or removes. `Adapted` is what an adapter makes
of it, `Appended`, `Replaced` and `Deleted` what `handleHeaderChange`
repeats on the reply, `SetAll` the cookie handler, which takes the cookies off the
response and sets them again behind it. The authentication client is external:
`Renew` sets a session in one piece or in several and removes the cookies of the one
before that the request bore, as the Supabase client does. `Deliver` and `Lose` are
the answer that arrives and the one that does not; `Keeping` is a browser that keeps
the last cookie of each name.

### Resilience

`ServiceResilience.execute` runs a request inside bulkhead, breaker and retry. A
call is `sending` (the request is out), `delaying` (between two attempts), `waiting`
(for the probe of a circuit that is half open) or `released` (the probe it waited for
has ended, its continuation has yet to run). The policies are cockatiel's and marked
external; the errors each of them handles, their limits and their nesting are the
factory's (`IsTransientError` for the breaker, `IsTransientAndIdempotent` for the
retry, `Checked` for a limit that may be left out or be zero; a half-open timeout of
zero has the circuit cool the moment it opens). That a caller who waits for a probe runs
under its own signal afterwards is the library's and cannot be read here. `failed` is history: how
many requests in a row the service has failed with the circuit closed.

## Runs

| Run | Shows |
|---|---|
| `IdempotencySafe` | four calls in two requests, crashes at any step: no execution while a result is stored, and the whole implements `CommandLedger` |
| `IdempotencyFaults` | three calls of one request with every fault: ok replies are results of commands that succeeded; a failed command and a dead owner give their lock up and every call is answered, under fairness |
| `IdempotencyStoreRejects` | **violation**: a rejecting store call makes the catch block remove another call's lock |
| `CqrsChain` | three commands and queries of nine mixes in four deployments, over a cache and handlers that fail: who gets to a handler or the cache, what an answer says of what was committed, whose answer the cache gives, why calls fail, and an answer for each |
| `ContainerScopes` | two scopes and the root over all lifetimes and a captive chain, factories that throw, catch and return an instance again, disposals interleaved: one instance of each per scope, nothing captive, dependents first, no answer that is disposed |
| `ContainerTeardown` | a cyclic registry, a late registration, a transient and a scoped service that share instances, the container itself disposed, possibly twice: what is released twice, that nothing is left behind, and that disposals end under fairness |
| `ContainerSingletonDeps` | **violation**: a singleton first resolved in a request keeps transients that die with the request |
| `BuilderRetries` | two callers, three attempts, four modules, failures anywhere, modules added at any time; liveness of callers and recovery |
| `TransactionsMixed` | a careful request beside one that nests, overlaps and leaves runs behind: the runs of the first are atomic, and no state names a transaction that is over |
| `HttpChain` | two concurrent requests, each any of eight, in four deployments (all features; a public API; one without CORS and limit; routes alone) over three caches: the window, the refusals, what handlers rely on, what answers carry, and an answer for everyone |
| `HttpTransport` | a browser handed two sessions in one piece or two, beside leftovers of a third and a session of another project, through three adapters and two extractors, with answers that get lost: requests are read as sent, replies follow the response, the last session is the one that is read unless another project's takes its place |
| `Resilience` | three callers of a failing service in four deployments: how often a request is sent, how many failures come before the circuit opens, that nobody waits for a probe that is over, and that every call ends |

**Bounds.** Idempotency: three calls of one request suffice for one to execute, one
to be between check and acquisition and one to retry; a fourth in another request
shows that entries do not mix. Lifetimes of 2 ticks separate "just written", "about
to expire" and "gone". CqrsChain: three calls let two commands conflict beside a
third that is nested, or a write come between the read of a query and its store while
another query reads the cache; with `MaxRetries` = 3 two conflicts in a row still
leave an attempt. `MaxObjects` = 4 runs of factories: the scoped service
and the transient it needs are two, so that both scopes can have theirs, or one scope
would have it twice if the code let it, and a captive chain or a singleton with two
transients beside it fits as well; the bound also cuts frames, as a factory that runs
counts. `ContainerScopes` identifies its two scopes by symmetry; `ContainerTeardown`,
which checks liveness, has one and the root. Builder: `MaxAttempts` = 3 is a
failure, a failure of the retry, and a success; two callers race each other. The
queue has four modules: one that every build has, one prerequisite, one optional
dependency and one that has both. Transactions: two runs of each of two requests, as
the properties relate two runs of a scope, beside another scope. HttpChain: with a maximum of 1 the
second request is the one to be refused, and a window of 2 ticks lets a counter be
renewed before it expires. HttpTransport: sessions of one piece and of two suffice
for either kind to leave something behind for the other, and another project has a
whole session or the first piece of one; `MaxCookies` bounds what
one response sets, so that a renewal has room beside a cookie of the application.
Resilience: of three callers one is the probe, one waits and one is left from before
the circuit opened; one deployment has all its limits at zero or one, one takes a
default, one has a half-open timeout of zero.

**Fairness.** `Idempotency!Fairness`: time passes and promises settle, the
handler's included; nothing makes a call start, a store reject or a process die.
`ServiceContainer!FairSpec`: a synchronous resolution runs to its end; a `dispose()`
that has begun is resumed when what it awaits settles. That resumption is only
enabled between resolutions, which come and go, hence strong fairness: the event
loop cannot put off a settled promise for ever. `AppBuilder!Fairness`: imports,
configurations and disposals settle; nobody has to call `build()`.
`HttpChain!FairChainSpec`: the services, the cache and the handler answer or reject a
request that has come in; nobody has to send one. `CqrsChain!FairSpec`: strategies,
cache, timers and handlers settle for a call that was made.
`Resilience!FairSpec`: the service answers or times out and delays end, per caller;
the circuit need not cool down. `EveryCallSettles` exempts a half-open timeout of zero,
where callers that come later can be the probe each time. `HttpTransport` states no liveness.

**Deadlock** is checked except in the builder, the transactions and `CqrsChain`, where
every caller may have its answer, every attempt and every run is used up, and nothing
more happens; in Idempotency time goes on, in the container scopes can be asked, and
browsers and callers of services come back.

## Proofs

TLAPS proves, for every value of the constants that satisfies the named assumptions
(`CallsAssumption`, `TtlAssumption`, `RegistryAssumption`, `BuilderAssumption`,
`TransactionAssumption`, `LimiterAssumption`, `ChainAssumption`, `KeyAssumption`,
`CqrsAssumption`, `ResilienceAssumption`, `PrioritiesAssumption`, `RequestsAssumption`,
`TransportAssumption`; TLC evaluates each of them in the runs), every safety property
that a passing run checks:

- Type correctness of all eight components (`TypeCorrect` in the `...Proofs` modules,
  `VisitsAreTyped` in `HttpTransportProofs`).
- *Idempotency.* `ReplaysAreCommitted`, under every fault, from the inductive
  `Provenance` (where each entry comes from). When only crashes happen
  (`CrashesOnly`), `LocksAreDisciplined`: the inductive invariant `LockDiscipline`
  says that a call in flight owns a live lock and has no stored result, and that a
  result stored since a call's check is still behind its lock. The second part is
  what makes the stale read harmless, and exclusion alone is not inductive without
  it for `NoReprocessing`. `ExecutionsAreExclusive` follows, and
  `PipelineImplementsLedger`: each step is a step of the ledger or a stutter.
- *Commands and queries.* All four safety properties, from one inductive
  invariant, `ChainInv`. Of each call it says what it has passed at each await
  (`Passed`), how its commits relate to its attempts there (`Effects`: fewer before a
  handler answers, so that an attempt adds at most one), and what it knows of the data
  (`Sees`). `CacheSound` and `SourceSound` say of every entry, and of every answer that
  came from one, that a cleared query under the same key stored it, no older than
  itself; the answers are not inductive without the entries. That a policy lets pass
  whom the strategies let pass (`VerdictIsPolicy`) needs the last of the policies
  listed for an intent to exist, which `LastListed` gets from the well-foundedness
  of the naturals. The lemmas named `...Arrives` follow a call inwards, one behaviour
  each, and `MoveKeeps` is the one place where the invariant is shown to be kept.
- *Container.* `NoCaptiveDependencies` for every registry, cyclic ones included:
  `CaptiveFree` is not inductive, as it says nothing of the factories still
  running; `StackDiscipline` adds that the lifetime in force at each depth (`ActiveAt`)
  is passed down through transients, comes back on the way up and to whoever catches an
  error, and that a factory below a singleton has been given nothing scoped. `OneOfEach` rests on `ResolutionDiscipline` (a factory runs only
  for what its scope does not have, never twice at a time, and all factories of a
  resolution run for one scope) and on `InstancesKept` (what was made stays in the map
  it would be looked up in). Its hypothesis, that the container is not disposed or
  nothing is registered late, cannot be left out: a container whose disposal has begun
  forgets its singletons, and constructs one again whose token is registered
  afterwards. `DependentsDisposedFirst` and `EverythingReleasedOnce` follow from
  `DisposalDiscipline`: a scope tracks what factories returned in the order in which
  they did, a disposal has been down to its index, and what is above it is disposed or
  late. That an instance refers only to older ones makes that order the one of the
  dependencies. `TrackedAgain` says which instances are on a list twice, those a
  scoped factory returned again, and `TrackedUntilClosed` that every disposable one is
  there for some run that returned it; so a disposal disposes each, and only those
  twice. `AnswersNotDisposed` needs both, and `EntriesOwned`: a cached instance is of the scope
  it is cached in, so that it is not disposed while that scope still answers.
- *Builder.* `RetriesStartOver` proves `BuildDiscipline` under `Prompt`: whose the
  promise is (`PromiseHeld`), that a reset ends in a container nobody has used
  (`ContainersFresh`), and that the current container holds exactly the modules
  configured so far (`Progress`, `CleanSlate`). `BuildsAreComplete` follows. Without
  `Prompt`, `BuildsAreShared` still holds (one attempt at a time). `ModulesInOrder`: an
  attempt finds its queue in order. That the queue is closed under prerequisites and has
  no module twice is the invariant (`QueueSound`); with `PrioritiesAssumption` it makes
  any order by priority one of dependency.
- *Transactions.* `StatesNameRunning` for any overlap, from `OwnRunningState`
  (the state names a running callback of its own request). `RunsAreAtomic`: from
  `OneAtATime`, which says of careful requests that their state names exactly the
  run whose callback is running, in an open scope, and that nothing of theirs was
  killed; the other requests cannot disturb it.
- *Middlewares and limiter.* `ChainKeepsLimit`: `SlidingWindow` is not inductive, since
  it does not mention the counter. `CounterCovers` (in `HttpChainProofs`) says that
  the entry of a key counts every hit let through in the last window, outlives it,
  and lives no longer than some hit justifies. It is about Redis, as the property is:
  a cache that loses hits lets more through. `RefusalsAreEarned` holds of every cache:
  `CountsAreEarned` shows that no count runs ahead of the number of requests that were
  counted, since whatever raises a count decides a request. `HandlersAreGuarded`, for any set of
  features, from `ChainInv`: what a request has passed when it waits at each await;
  `AnswersCarryWhatIsNeeded` from what each place of the chain puts on an answer.
  `ChainStep` shows both that the invariant is kept and that each step is one of the
  limiter's or leaves it alone.
- *Resilience.* `BudgetIsKept` and `NobodyWaitsInVain` from `ResilienceInv`. That a
  request which was aborted is sent at most once more is not inductive without the
  places: only a call that was not aborted when its attempt failed gets to
  `"delaying"`. That waiters have a probe needs the two parts of it apart: a late
  failure opens the circuit under its probe, and the next half has another, while
  those who wait for the first still do. `FewFailuresBeforeOpen` from `FailureBudget`:
  the failures since the last success are at most those of the calls the breaker has
  counted, each with all its attempts, and the attempts spent by the calls under way.
  The latter are the cardinality of a set of pairs (`Pending`), which makes the sum
  over callers a matter of adding and removing members. A breaker that a probe has
  closed without a success keeps its count, hence `CountedCalls`.
- *Requests and transport.* `TheSessionIsRead`, for any number of pieces, of projects
  and of pieces of theirs, from `JarKept` (the browser has the cookies of the last
  session and no others of their names) and
  `FlightKept` (the request bears the cookies of the jar, and the answer leaves the
  session it hands out). The second is what a renewal keeps: what it does not set
  again it removes, if the request bore it (`RenewKeeps`). `SsrReads` then takes the
  extractor through the pieces, in whatever order the header lists them, when no cookie
  of another project is in their way; when one is, what is read is a session of
  theirs, this one or none, since pieces that do not belong together are no session.
  `RepliesFollowTheResponse` needs what the fold in `SetAll` yields (`AppendedOneByOne`),
  which is shown by the least length that would be a counterexample, as induction is
  not to be had; `RequestsReadAsSent` and `VisitsAreTyped` are about `Visit`.

<a name="limits"></a>
## What stays with TLC, and what is not modelled

Model-checked only: liveness (`LocksAreGivenUp`, `EveryCallAnswers`, `DisposalEnds`,
`BuildsSettle`, `EveryRequestAnswered`, `EveryCallAnswered`, `EveryCallSettles`), which
needs fairness and `ENABLED`, and the two violations. Proved under a hypothesis, which
the run that checks it satisfies: `BuiltIsComplete` (under `Prompt`), `NoReprocessing`
and the refinement of `CommandLedger` (under `CrashesOnly`) and `OneInstanceEach`
(no late registration in a container that is disposed). Each fails without it; the
proofs above and the list below say how.

What the code does, where a reader may expect more:

- `NoReprocessing` assumes `CrashesOnly`. With `"gap"` it does not hold: a call that
  read "not processed" and whose acquisition is delayed past the expiry of the first
  call's lock executes the command again, since the processed entry is not read again
  after `acquireLock` (`idempotency.pipeline.ts:88` and `:103`).
- The key of a command is the identifier of its request alone: a second command of
  one request is answered with the result of the first.
- Runs of one scope that nest, overlap or outlive their request share one state, and
  the end of the first, or the disposal of the scope, clears it: what the others write
  then goes outside any transaction (`unit-of-work.ts:40`). `TransactionsMixed` has such
  a request; what holds is that the state names no transaction that is over, and
  atomicity for careful requests. That no statement gets into the transaction of another
  request is taken over from the registration of the state as a scoped service.
- A scoped service whose factory returns an instance that its scope tracks already is
  disposed twice by that scope: `trackInstance` looks (`service-container.ts:119`, and
  `ServiceContainer.test.ts:149` for transients), `setScopedInstance` does not (line
  113). An instance that factories share across scopes is disposed by each of them, so
  that a scope may hand out what another has disposed. `ReleasedOnce`, `DependentsFirst`
  and `NoDisposedAnswer` are stated within these limits. `ContextModule` shares one
  instance over five singletons (`context.module.ts:23`), which has no `dispose()`.
- A singleton that a request scope is the first to resolve while the container is being
  disposed is tracked behind the disposal's index and never disposed; the properties
  call such instances `late`.
- The cookies of any project count as a session (`extract-ssr-bearer.extractor.ts:33`):
  a whole one that is listed last wins over the pieces, and over the whole one, of this
  application; and pieces are collected by their number alone, so that those of several
  projects take each other's place and mix. `SessionIsRead` says when this does no harm:
  when there are no cookies of others, or only pieces beside a session kept whole. In
  every case a session of this application that is read is the last one.
- A policy whose `userId` or `tenantId` is `false` demands a user or a tenant where its
  strategies run (`user-authorization.strategy.ts:43`); whoever is refused for it is
  `"unauthorized"`, which `FailuresAreDeserved` allows for any flag that is defined.
- A reset of the builder that waits for a slow disposal overlaps the retry, which
  then configures the container that is thrown away (`app.builder.ts:498`);
  `BuilderRetries` sets `Prompt`.
- The limiter refuses more than its description suggests ("within a specified time
  window", `rate-limiter.middleware.ts:21`): the expiry is renewed by every hit
  (`redis.cache.ts:31`), so the counter of a client that never pauses for a whole window
  only grows, however slow the client is. `RefusalsAreDeserved` is what does hold. The
  key has the path as it was sent, while routes are compared without their slashes:
  `/a` and `/a/` are counted apart.
- A deployment that gives routes but neither the options nor the CORS middleware
  answers every request with a system error (`middleware.module.ts:94` and `:113`); the
  run includes one.
- A query cached "by user" whose identity has no user shares the entry of its tenant;
  `AnswersAreSound` speaks of users that there are.
- A cached answer may be older than a write that the same client made before it
  (`query-caching.pipeline.ts:80`): the property bounds it by the query that stored it.
- The threshold of the breaker counts calls, not requests: a dead service sees every
  attempt of each of them, and of those under way. `FailuresBeforeOpen` gives the number.
- The requests of the built-in adapters have no socket, so that the addresses in
  headers are believed whatever the list of trusted proxies says; only an adapter of
  the application, or the native one, brings a peer to compare it with.
- A header that is appended, other than `Set-Cookie`, replaces the one on the reply; and
  setting cookies deletes those the host framework had set itself.

Findings are listed in `PROJECT.json`, each with the run that shows it. Hazards
without a property have a note.

Out of the models: idempotency composed with the retry inside it; sessions renewed by
two requests at once; URLs and query parameters, and how `CookieHandler.getAll` decodes
values; empty payloads (a replay of one is a conflict); asynchronous factories, and
scoped services whose factory returns `undefined`, which runs again each time; what
callers do with a container they were given; the options of the `add...` methods; user
contexts. Not modelled at all: `PLimitConcurrencyService` (one call of its library), the
configuration service, loggers, repositories and read DAOs, specifications,
controllers, which delegate, format or do input and output; cryptographic primitives,
taken for what they promise; domain contracts and configuration types, which execute
nothing; build files.
