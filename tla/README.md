# Formal model of pristine-ts

TLA+ modules, TLC runs and TLAPS proofs for the packages of pristine-ts, a
TypeScript framework in which an application is a tree of modules, a kernel
turns raw events into typed ones and dispatches them to handlers, and runtime
servers (HTTP, scheduler) feed the kernel. Everything runs on one JavaScript
event loop. What is hard about it is therefore what happens between two
`await`s: state kept on a singleton, promises that nobody settles, timers that
race with what they guard, and shutdown in the middle of all that.

`PROJECT.json` lists the components, the runs, the definitions with the source
lines they stand for, the hazards and the theorems. Check a run with
`tlc -config X.cfg M`, a proof with `tlapm M.tla`.

## 1. Inventory

### Components that carry state and concurrency

| Component | State | Operations | Hard behaviour | Model |
|---|---|---|---|---|
| local-scheduling, `LocalSchedulerManager` | registrations, one timer each, in-flight invocations | `schedule`, `unschedule`, `reschedule`, `start`, `stop`, the timer callback | tasks that call back synchronously, chunked delays, clock changes, draining | `LocalScheduler` |
| core, `Kernel.handle` with `EventPipeline` and `EventDispatcher` | the root trace, event contexts, batches in progress | `handle`, interceptors, mappers, dispatch, listeners | concurrent and nested calls on shared tracing state, failures in one batch of several | `EventPipeline` |
| core, `Kernel.start/stop` | instantiated modules, `stopped`, hook timeouts | `initModule`, `afterInitModule`, `stop` | shared imports, hooks that fail or hang, two callers of `stop` | `KernelLifecycle` |
| core, `Kernel.verifyInstantiation` | the report | seven phases | what runs and what is skipped after a failure | `KernelVerification` |
| http, `KernelHttpServer` | Node server, connections, drain timer | `start`, `stop`, request handling | keep-alive sockets, restart, bodies of unknown length | `HttpServer` |
| cli, `StartCommand` and `bin.ts` | started servers, exit code | start with rollback, signals, hooks, exit | a signal at any time, hooks that hang, which instance a hook gets | `GracefulShutdown` |
| networking, `Router.execute` with security's managers | route and argument cache, authenticator context | lookup, authenticate, guards, interceptors, arguments, controller | concurrent requests over one cache and one authenticator; a failure in every step | `Router` |
| networking, route tree | nodes | `add`, `find`, `getRouteParameters` | overlapping literals, parameters and catch-alls in any order | `RouteTree` |
| http, exchange | none between requests | host and origin checks, decoding, answer | every error path has to carry the policy's headers | `HttpExchange` |
| http, `HttpClient` | retry and redirect counters | `request`, retry, redirect | a retry that rejects; retries that start over after a redirect | `HttpClient` |
| mcp, dispatcher and transports | requests in flight, abort controllers | `dispatch`, `serve`, cancel, end of input | answer against cancellation, headers against body | `Mcp` |
| observability, store | JSONL files, generations, partitions, budgets | append, rotate, sweep, read, tail | rotation and sweeps under readers and other processes, renames that fail | `ObservabilityStore`, `JsonlReader` |
| mysql-cli, migrations | records and the schema | `migrate`, `verify`, `status` | crash between executing and recording, two processes, drift | `Migrations` |
| mysql, sqlite clients | pools and handles | `getPool`, `getDatabase`, `close`, statements | check-then-await races | `DatabaseHandles`, `SqlStatements` |
| aws, `CloudformationClient`, `DynamodbClient` | stacks, change sets, items | `deployStack`, paging, `create` | other deployers and writers between two calls | `CloudFormation`, `DynamoDb` |
| auth0, aws-cognito, gcp-identity-platform | cached keys, route context | `setContext`, `authenticate` | rotation of keys, failed fetches, concurrent requests | `TokenAuthentication`, `Router` |
| logging | stacked records, throttle | log, stack, flush, throttle, truncate | loggers that throw, error logs that flush | `Logging` |
| telemetry, `TracingManager` | traces and the tree of spans | start and end of traces and spans, markers | parents found by name, ends in any order | `Tracing`, `EventPipeline` |
| configuration | definitions and values | `register`, `load` | precedence, resolvers, types of what the environment holds | `Configuration` |
| cli, loader and `p:build` | source, output, manifest | load, gate, prompt, rebuild, compile | edits at any moment, rebuilds inside rebuilds | `AppBuild` |
| cli, command line | none | parse, prompt, coerce, validate | spellings that should mean the same | `CommandLine` |

### Pure algorithms

`CronExpression` (next date), `Authorization` (voting strategies, guards, JWT),
`DataMapping` (mapping trees and their cache), `EventMappers` (which platform
event is whose), `RouteTree` (lookup), `SqlStatements` (rows and pages),
`JsonlReader` (lines in chunks from both ends). They are operators, checked
against a reference definition over every input of a bounded set.

### How the parts interact

```
StartCommand --start/stop--> runtime servers (KernelHttpServer, LocalSchedulerManager)
KernelHttpServer --raw event--> Kernel.handle --> EventPipeline --> EventDispatcher
EventDispatcher --Request--> RequestEventHandler --> Router.execute
Router --> AuthenticationManager --> authenticator;  --> AuthorizerManager --> guards
Router <--> RouterCache (one per process)
signal --> StartCommand --> Kernel.stop --> onShutdown hooks --> servers' stop()
pristine <command> --> AppModuleLoader (--> p:build) --> Kernel --> CommandEventMapper --> command
Kernel --> ConfigurationManager;  everything --> LogHandler, TracingManager --> ObservabilityStore
```

Shared state: the root container's `TracingManager` (all calls of
`handle`), the `RouterCache` and the singleton authenticators (all requests),
the container that decides which instance a hook gets.

## 2. The modules

In every module an action is what the event loop runs without interruption:
from one `await` (or callback) to the next. Payloads are model values; logging
and message texts are left out. Mutants of definitions stand next to the
definition they change and are used by nothing else.

**`LocalScheduler`** (`MCLocalScheduler`). One action per public method and
one for the timer callback. `fire()` calls the task synchronously, and the
task may call the scheduler back before its first `await`: that window is
the phase `"sync"` of an invocation. `now` is the wall clock, which may be
set; a pending timer counts its own monotonic delay and may run a tick early or
arbitrarily late. A registration is named by id and generation because an
invocation may outlive the registration it belongs to. Cron arithmetic is the
parameter `NextExecutionDate`, of which nothing is assumed but its type: the
interface promises a date later than the given one, and a cron expression breaks
that inside a repeated hour (section 6), so that the run has a schedule that does.

**`EventPipeline`** (`MCEventPipeline`). `handle()` calls with their
interceptors, the batches the mappers return (`Plans`), the events in them, the
dispatcher and its listeners. `trace` is the root manager's current trace,
`ctxTrace` what each event's context was given. `NestedHandles` lets a handler
call `handle()`, as the REPL does.

**`KernelLifecycle`, `KernelVerification`** (`MCHost`). The two walks over
the import graph are an explicit call stack; the graph is chosen in `Init`.
`stop()` may be called by several callers; a call walks the recorded modules by
index (`visited`), and a hook that timed out goes on running. `verifyInstantiation()` runs on a Kernel that is not started.

**`HttpServer`** (`MCHost`). Each `start()` creates a Node server (a generation);
`connections` is one set for all of them, as in the code. Bodies are counted in
chunks.

**`GracefulShutdown`** (`MCHost`). Composes what the two servers
promise about `stop()` with the start command and the kernel's hooks.
`Singletons` says which server classes the container keeps one instance of,
`SelfCutting` which `stop()` cuts work off after a timeout.

**`RuntimeServer`** is the abstract specification of `RuntimeServerInterface`:
work begins only between `start()` and `stop()`, `stop()` accepts nothing from
the moment it is called and resolves when nothing is left, either because the
work ended by itself or, for a server that `CutsOff`, because the rest was ended at
once. It is instantiated three times. `LocalScheduler` (work: invocations;
awaiting: outside callers of `stop()` with no `start()` since) and `HttpServer`
(work: open sockets; awaiting: Node servers that close; cuts off) implement it,
and `GracefulShutdown` assumes no more of each of its servers, so that what is
shown of the process is about the two servers as they are. An implementation's
other steps (timers, requests, binding) stutter.

**`Router`** (`MCNetworking`). One label per `await` of `execute()`.
`AuthenticationManager` and `AuthorizerManager` are part of the request's
control flow. The shared state is `routes` and `cached` (the RouterCache) and
`context`, per authenticator instance. Interceptors are a sequence with the set
of hooks each implements. Every call into application code may return or throw
where the code distinguishes the two. A request whose url cannot be parsed
(`Malformed`) is one that never settles, as in the code.

**`RouteTree`** (`MCNetworking`). `add`, `findIn` and `getRouteParameters` as
recursive operators on nodes named by their path from the root. The reference
is a search of the plain list of registered routes. Its operators are
RECURSIVE, so it is for TLC only.

**`Mcp`** (`MCHost`). A call is a message with the transport it came by; over
HTTP it also has headers. `inFlight` maps an id to the call whose controller is
registered, as the code's map does. A tool settles in a step of its own, so
cancellations, other answers and the end of the input come before or after it;
what it returns may be impossible to serialize.

**`HttpClient`** (`MCHost`). One exchange with its counters. Servers answer
anything at every request; the network may fail, and so may an interceptor
before or after a request. `"forgotten"` is the promise
of a retry that was rejected: nobody can settle it.

**`ObservabilityStore`** (`MCObservabilityStore`). Processes start, write,
rotate, sweep and stop; a partition is what one process owns. Lines are numbers
in the order they were written, so that losing, repeating and reordering can be
told apart. Each rename, unlink and step of a sweep may fail while readers hold
files open, and a sweep of one process interleaves with the writes of another.
Which directory was modified after which is the relation `newer`; a sweep
carries what it read (sizes, order, survivors, candidates) as sets. The number of
a trace comes before the one of its summary.

**`Migrations`, `DatabaseHandles`**, together `Databases` (`MCServices`). Several commands in several
processes share one table of records, and a process may die between any two
steps. A migration is a script of several statements that is sent at once and that
the server does not undo: `execute` may reject with nothing run, after a part
or after all of it, and a process may die meanwhile (`DieExecuting`).
`executions` remembers of each time whether the whole script ran, and
`unrecorded` which migrations have effects without a record. Migrations are
numbers, taken in their order; `up()` throws outside the `try` of the runner. The two clients share one
module: MySQL keeps a pool, SQLite closes the previous database before it opens
another.

**`TokenAuthentication`**, with the operators of `Authorization` together
`Security` (`MCServices`). The three authenticators differ in
what they check and in what they cache. The issuer adds and withdraws keys, and
its key server may answer with an error; the keys are those of the moment it
answers (`SendKeys`), which is earlier than their arrival. A signature is the key
that made it.

**`Logging`, `Tracing`** (`MCServices`). `stackedLogs` per trace, the throttle
of the console logger and what each logger was handed; `Tracing` has the tree
of spans, the search for a parent by keyname and what the tracers receive.

**`CloudFormation`, `DynamoDb`**, together `Aws` (`MCServices`). The provider is external: it
runs what was executed and completes or rolls it back. Deployers, and the
callers of the table, act between any two requests of one call; a request may
be thrown, a write also after it took effect. The table is only eventually
consistent, as the client never asks for more (`dynamodb.client.ts:85`, `:141`,
`:193`, `:379`): after a write a key is in `lagging` until the replicas have caught
up (`CatchUp`), and meanwhile each reader may be shown the old state of it or the
new. Of the stack it is assumed that the status shows an accepted execution at
once.

**`AppBuild`** (`MCServices`). The last of `processes` runs, the others wait for
the rebuild they spawned. tsc reads the source in one step and writes in
another, or writes nothing; the developer edits in between. `undisturbed`
remembers whether the build that wrote the manifest ran without an edit and wrote
the output the manifest names, with no other tsc since: without it the gate may
call a stale output fresh, which is the hazard of section 6.

**`CronExpression`, `SqlStatements`, `JsonlReader`, `EventMappers`,
`HttpExchange`, `Configuration`, `DataMapping`, `CommandLine`,
`Authorization`** (`MCServices`). Operators with the names of the source.
Values are tagged tuples (`<<"string", "1">>`), texts are members of small sets
for which the conversions (`parseFloat`, `Number`, `Boolean`) are tables of what
JavaScript does. `Configuration` has the definitions of all modules of the
repository. `CronExpression` has its own calendar and a zone whose clock changes
once, forwards or backwards.

## 3. The runs

| Run | What it shows | Instance, and why it is enough |
|---|---|---|
| `scheduler` | `NoSelfOverlap`, `OccurrencesInOrder`, `TimerDiscipline`; `SchedulerKeepsContract` (the scheduler implements `RuntimeServer`) | One id with three occurrences or one, two concurrent invocations (an old and a new registration, or an overlap), delays of up to twice the timer limit, clock jumps in both directions, an external and a task's own `stop()`. A second id shares only `stop()` with the first. |
| `scheduler_liveness` | `StopResolves`, `OccurrenceHandled` | The same without malformed input and clock jumps: see the divergences in section 6. |
| `pipeline_concurrent` | `TraceEndsOnce`, `SequentialBatchesInOrder`, `ResponseMeansAllDone` | Two calls, nested or concurrent, a typed event or a sequential and a parallel batch. |
| `pipeline_serial` | `TracesAreOwn` (every event is on the trace of its own call, which ends with the call), `HandleSettles` | One call at a time, twice: what a serverless host does. Batches of no, one and two events. |
| `pipeline_traces` (violation) | `TraceIsolation` fails with two calls in progress | |
| `pipeline_hang` (violation) | `HandleSettles` fails when the dispatcher cannot be resolved | |
| `host` | kernel: `ImportsFirst`, `StopIsOrderly` (each hook once, none left out, outer modules first), `ReportIsFaithful`; server: `ConnectionsAreTracked`; process: `ShutdownIsClean` (drained before success, rolled back before an error); `McpIsSound`; `RequestsAreBounded`; `HttpServerKeepsContract` and `ServersKeepContract` (the HTTP server implements, and the process assumes, `RuntimeServer`); `PromisesSettle` (what is stopped or awaited ends) | `part` chooses the component that moves; the others stay in an initial state. Four modules, three trees and three graphs with shared imports, two callers of `stop()`; up to two instantiation tests. Three sockets and two generations of the server. Two servers, one of which cuts its work off, four hooks (so that 3 × 10 s reaches the 30 s hard exit), three pieces of work. Two messages over both transports. Up to two retries and two redirects. |
| `shutdown_http` (violation) | `DrainBeforeExit` fails for the HTTP server, which is not a singleton | |
| `networking` | `ControllerIsGuarded`, `ArgumentsFitRequest`, `AnswerIsRight` (intercepted, and naming the reason), `EveryRequestSettles`; `TreeAgreesWithList` (lookup, refusal and parameters as a search of the list of routes gives them) | Two requests suffice to read what another has cached. Pairs of paths and hashes up to renaming; an open, an authenticated and a guarded route, one that is missing, one whose controller cannot be built and one whose url cannot be parsed. Trees of up to three routes out of eleven overlapping patterns and two methods, looked up with every path of up to three segments. Authenticators are created per request, as the documentation says. |
| `auth_options` (violation) | `OptionsAreOwn` fails for a singleton authenticator | The same instance with `SingletonAuthenticator = TRUE`. |
| `store` | `LogsAreKept` (a running process keeps its file; readers and the tailer see stored lines once and in order), `SpaceIsBounded` (partitions keep their limits, a sweep leaves the store in its budget) | Two processes, three writes, files of one line, two generations, one trace file, one retained instance, a store of two: every limit is crossed, by a writer beside the other's sweep. |
| `services` | `CronFindsTheFirst`, `DatabasesAreSound`, `EventsAreMappedOnce`, `AnswersFollowPolicy`, `ConfigurationIsFaithful`, `MappingsAgree`, `CommandsGetTheirOptions`, `BuildsAreCurrent`, `AuthorizationIsStrict`, `TelemetryIsWhole`, `AwsIsSound` | One behaviour is of one part; see below. |

### The services run

Operators: every input of a set, one initial state each.

| Property | Reference | Inputs |
|---|---|---|
| `CronFindsTheFirst` | the first instant, one by one, at which every field matches | 14 expressions, 10 changes of the clock, 83 starting points; minutes of 2 seconds, hours of 2 minutes, days of 3 hours, months of 3 and 2 days and leap days, so that every carry happens in a few dozen instants |
| `MappingsAgree` (rows, pages) | an element reads back as it was written and others are untouched; the pages of a search are its matches, in order | 34 classes (keys, names, JSON columns), all pairs of elements; two searchable fields, filters, pages of 1 and 2 |
| `EventsAreMappedOnce` | exactly one mapper of the platform's modules claims an event, and it makes one event per record | every kind of event of Lambda, Cloud Functions, Cloud Run, Express and the command line, complete and incomplete |
| `AnswersFollowPolicy` | who may read an answer depends on the policy and on the origin alone, not on whether the kernel answered, threw or refused | all policies over one origin and one host, all methods, bodies and outcomes |
| `ConfigurationIsFaithful` | overrides, config file, modules, resolvers, default, in this order; a value of the environment has the type of the default | two keys over all combinations of sources; all definitions of the repository with ten texts |
| `MappingsAgree` (data mapping) | the exported and imported tree, and the cached one, map every source alike | trees of three members with normalizers, exclusions and interceptors; two classes in either order |
| `CommandsGetTheirOptions` | each spelling of an option gives the same options; a command runs only with options its class accepts, and never after a prompt was cancelled | commands of two parameters, five texts, interactive or not, answered or cancelled |
| `AuthorizationIsStrict` (votes, guards, jwt) | the strategies counted over the votes; a guard passes only on what the claims contain | up to three voters of five kinds; all claims over two names; all headers |
| `TelemetryIsWhole` (lines, logs) | the lines of a file split at once; a truncated log loses what is too deep and nothing else | files of up to five bytes in chunks of 1 to 3; values nested twice |

State machines: `DatabasesAreSound` for two runners, two migrations in two
versions and two commands, and for three callers of one handle;
`AuthorizationIsStrict` for two requests, three keys and eight tokens;
`TelemetryIsWhole` for four logs over three ticks and for three spans in two
traces; `AwsIsSound` for two deployers of two templates and for three calls on
two keys with pages of one; `BuildsAreCurrent` for two edits and up to three
processes that wait for each other. Each bound admits the race the property is
about: two actors between any two steps of each other, one retry after it.

Properties that hold only with an exception name it: the excuses
(`Undisturbed`, `replaced`, `unrecorded`, `overlap`, `undisturbed`, `lagging`) are history
variables or predicates that say which race happened, and section 6 says
what the code does then.

`TypeOK` is checked for the scheduler; the types of the server and of the process
are part of their invariants, those of the kernel and the pipeline are proved. All runs but the scheduler's switch
deadlock checking off, because the systems stop: requests are answered, the
process exits, the number of calls is bounded. In the scheduler time can
always be set, or a caller can always call, so deadlock stays checked.

The bounds are `MaxTime`, `MaxInFlight` (scheduler), `MaxConcurrent` and
`Handles` (pipeline), `MaxTests` (verification), `MaxGenerations`,
`MaxBodySize`, `Sockets` (server), `Work` (shutdown), `MaxMessages` (MCP),
`MaxSent` (HTTP client), `Requests`, `MaxRoutes` (networking), `MaxWrites`
(store), `MaxStarts` (migrations), `MaxHandles` (handles), `MaxKey`, `MaxTime`
(tokens), `MaxLogs`, `MaxClock` (logging), `MaxSpans`, `MaxTraces`, `MaxNow`
(tracing), `MaxDeployments`, `MaxCalls` (AWS), `MaxEdits`, `MaxProcesses`
(builds), `Years` (cron).

### Fairness

Weak fairness stands for the event loop, which runs every continuation that is
ready and every timer that is due, and for nothing else:

* scheduler: time passes, timers run, and tasks settle (`stop()` awaits them
  without a limit, so no shutdown promise holds without that);
* pipeline: interceptors, handlers and listeners settle, one way or the other;
* kernel, shutdown: timers fire and `stop()` goes on; hooks need **not**
  settle, work need not complete;
* server: timers fire and Node reports closes; clients need neither send nor
  hang up, and `kernel.handle()` need not settle;
* router: what a request awaits settles;
* MCP: tools settle, and the transport notices that all have; tools that were
  cancelled settle too, as they are given the signal;
* HTTP client: timers fire, and a server answers or the connection fails.

The store and the services are checked for safety only.

Nobody has to call anything: no fairness on requests, signals or `stop()`.

## 4. The proofs

Proved for every value of the constants that satisfies the named assumptions
of the modules: any number of ids, calls, requests, guards, interceptors,
batches of any size, any plans, any time bound.

**`LocalSchedulerProofs`** (assumes `SchedulerAssumption`,
`NextExecutionDateAssumption`, which is the type of that function,
`CallersAssumption`).
`TypeCorrect` is inductive as it stands once the timer functions
(`clearTimer`, `setChunkedTimeout`, `arm`, `armFrom`) have their lemmas.
`TimerDisciplineHolds` and `OccurrencesInOrderHolds` follow from `TimerInv`:
per state object the handle holds the only timer, a timer exists only while
the object is registered in a started scheduler, and its target is later than
`lastFire` as long as the schedule keeps its promise for that one date
(`KeepsItsPromise`). The three have to be one invariant, because re-arming is only
later than the last occurrence if the timer that fired was the object's own.
`NoSelfOverlapHolds` needs `SerialInv`: the running flag is up for as long as
the only invocation of a non-overlapping object is unfinished, which is what
the overlap check reads. `StopDrainsHolds`, an action property, uses
`DrainInv`: while an outside `stop()` is pending and nobody called `start()`,
the scheduler is stopped and the caller awaits everything that is unfinished.
The same invariant carries `SchedulerImplementsContract`: a step that invokes a
task maps to `Begin` (the timer that fired belongs to a started scheduler, by
`TimerInv`), a `stop()` that resolves to `StopIsOver`, everything else to a
call or a stutter.

**`EventPipelineProofs`** (assumes `PlansAssumption`, `NamesAssumption`,
`SwitchesAssumption`). `PipelineInv` is the type invariant with
`NothingStarted` (before a call is mapped none of its events ran),
`TraceStarted` and `ListenersOfDispatched`, and the three properties
`TraceEndsOnce`, `SequentialBatchesInOrder`, `ResponseMeansAllDone`.
`NothingStarted` is what makes the second inductive when a plan is chosen;
the listeners' invariant is what makes the third one go through when a call
leaves its executions. The theorems cover nested and concurrent calls and a
resolver that throws.
`TracesAreOwnOneAtATime` has three conditions (`OneAtATime`): one call at a
time, no nested call, at most one batch per event. Under them `OwnInv` is
inductive: one call is in progress at most, its contexts are on its own trace,
and a rejected call has nothing running. The first two conditions are what
finding 1 and the REPL lack; TLC shows that the third cannot be dropped either
(section 6).

**`RouterProofs`** (assumes `RouterAssumption`, `InterceptorsAssumption`).
`ControllersAreGuarded` rests on `GuardInv`: where a request is says what has
been checked (`Stage`), and every cached route is the one the tree gives
(`RoutesAreFound`), without which a cache hit could skip the checks of the right
route. `ArgumentsAlwaysFit` rests on `FitInv`: what the cache holds for a path
and a hash was made from a request with that path and hash. `AnswersAreRight`
adds `AnswerInv`: the interceptors that saw the response, followed by those still
to be called, are all that implement the hook (`Progress`), and the error a
request carries is the one of the step that failed first (`Reason`). That
filtering the interceptors by hook yields a sequence is an assumption because
`SelectSeq` is recursive; TLC evaluates it. The three hold with singleton
authenticators too. `OwnAuthenticatorsReadOwnOptions` is the converse of finding
4: with an authenticator per request (`OwnContexts`) no request reads the
options of another.

**`HttpProofs`** (assumes `ServerAssumption`, `ClientAssumption`,
`McpAssumption`, `ExchangeAssumption`).
`ServerTracksConnections` needs `ServerInv`: one Node server is active at a time
(`OneAtATime`), open sockets belong to it (`OwnersAreActive`) and destroyed ones
are closed. It has the hypothesis `~RestartWhileDraining`, which is what keeps
two servers from sharing the set of connections (section 6); the types need no
such hypothesis. `HttpServerImplementsContract`
has the same hypothesis: without it a drain timer cuts off connections while
a new server accepts. With `ServerInv` a drain that expires maps to
`CutsOffTheRest`, since every open socket is tracked, and the close callback to
`StopIsOver`. `ClientRequestsAreBounded` needs `ClientInv`: the requests to one
URL are the retries and one more, and all requests are at most that many for every
redirect, a product of two variables that the lemma `NextHop` takes apart.
`McpIsSoundHolds` rests on `McpInv`: what was checked of a call before it got
where it is, what its answer must be, and that the table of controllers has
exactly the requests in flight. The last part, and the answers over stdio, are
for clients that do not reuse an id in flight (section 6); that tools run only
when listed, allowed and named by the headers holds for all clients.
`AnswersFollowPolicyHolds` covers every policy, request and outcome of the kernel
over any sets of origins and hosts; it goes through the headers one by one, as
each branch (preflight, answer, error, refused host) sets them in its own order.

**`CliProofs`** (assumes `ShutdownAssumption`, `BuildAssumption`). `ShutdownInv`
says what runs at every position of the three loops: starting, rolling back, and
the hooks of `Kernel.stop()` (`DoneBefore`: what the hooks so far reach is
stopped or timed out). `RollbackCompletes` and `StopDrainsWhatItReaches` hold
without further conditions. `ShutdownOfSingletonsIsClean` assumes that every
server is a singleton and has a hook: finding 3 is a server that is not.
`ProcessAssumesTheContract` needs, besides `ShutdownInv`, that the `stop()` which is
awaited was called (`AwaitedDrains`); it holds for any servers, singletons or
not, since a hook that stops a fresh instance is no step of the started one.
`BuildsAreCurrentHolds` is about any number of edits and of processes that wait
for each other. `BuildInv` says that all but the last process wait
(`OthersWait`), that the manifest describes the output as long as it is `undisturbed`
(`ManifestIsFaithful`), and of each process what its gate saw (`GateIsKept`) and
that what it compiled is the source it read, as long as nobody edited since
(`BuildIsCurrent`). Without the first, what a process found at its gate could be
overwritten before it is imported; without the second, a gate that finds the
manifest fresh would say nothing of the output. The theorem has the exceptions of
the property: it promises nothing for a manifest whose build was disturbed.

**`KernelProofs`** (assumes `KernelAssumption`: finitely many modules and
graphs without cycles, as `afterInitModule()` does not return on a cycle). The
walks are proved on their stacks: imports a frame has gone past are done, or are
what the frame above is about (`FramesAreSound`), and ranks decrease along
the stack (`StackDescends`), so that a module met twice cannot be one that is
still being initialised. `RecordOrder` (each module once, after one that imports
it) gives `StopIsOrderlyHolds` together with `StopInv`: one call runs the loop and
has called exactly the hooks of the records it is past. In a tree the first
record whose importer came late is found as a least number (`LeastNatural`).
`ReportIsFaithfulHolds` needs `VerifyInv`: the phases so far are in boot order and
all passed, unless the report already says Failed.

**`StorageProofs`** (assumes `MigrationsAssumption`, `HandlesAssumption`,
`StoreAssumption`).
`MigrationsInv`: every record belongs to a complete execution, a runner's plan was made
from its code and what it found recorded stays so, what it did lies before what
it has to do. Where commands never overlapped, `SerialInv` adds that a migration of
which anything was executed is recorded, about to be, or was left without a record,
be it by a script that failed after a part of it. `HandlesInv` counts: the
handles that exist and those about to be created are not more than the callers.
`DatabasesAreSoundHolds` puts the two together, as the run checks them.

`LogsAreKeptHolds`, for any number of processes, generations and sizes, rests on
`StoreInv`. `Claimed` says that a process that writes has claimed its partition,
which is what a sweep looks at before it deletes. `LinesInOrder` says that the
generations, oldest first, hold increasing numbers across failed renames and
generations that were trimmed out of the middle, and that a trace whose summary is
not yet written is newer than all summaries. The readers are recursive functions;
`ReadIsLast` (what `read(limit)` gives is the last lines of the whole) is shown by
unfolding them and taking the least generation at which it would fail
(`LeastNumber`).

`SpaceIsBoundedHolds` is an action property and rests on `SpaceInv`, which adds:
the size a writer remembers is the length of the live file (`FilesInv`), or the
rotation would come late; the traces it registered are in the list it retains
(`TracesInv`), or the retention would miss one; `newer` is an order
(`OrderInv`), so that among the candidates of a sweep there is an oldest; and what
an undisturbed sweep knows is still so (`AloneInv`). The last one gives the
conclusion: where such a sweep ends over its budget, everything that may be
deleted is gone.

**`ProviderProofs`** (assumes `CloudFormationAssumption`, `DynamoAssumption`,
`TokenAssumption`, `SecurityAssumption`).
`DeploymentsTellTheTruthHolds`: any number of deployers of one stack.
`CloudFormationInv` ties the status of the stack to the last execution
(`StatusTellsOutcome`) and a deployer's report to the execution it watched
(`DeployerIsSound`). `TableIsSoundHolds`: any number of calls on any keys, pages of
any size, writes that fail after they took effect, and replicas that lag behind for
as long as they like. `DynamoInv` says of a call that the keys every reader was
shown all along (`always`) are still shown to all, and of a listing in
progress that each of them is on a page already or lies after the position it
resumes from (`ListsAll`), which needs that a page is a least part of what is left
(`LeastNatural`). `AwsIsSoundHolds` puts the two together.
`TokensAreVerifiedHolds` rests on `TokenInv`: cached keys are keys the issuer made,
and a request waits with its token and without an answer. `VotesDecideAlways` shows
what each voting strategy decides for a sequence of voters of any length, where TLC
takes up to three.
`AuthorizationIsStrictHolds` puts them together with the guards and the headers.

Only model-checked:

* all liveness properties, because fairness is beyond the prover;
* `TreeAgreesWithList`, `TelemetryIsWhole` (the ends of nested spans, the lines an
  error brings along, cut logs), `MappingsAgree` and `CommandsGetTheirOptions`:
  the code recurses over trees, texts and lists, and so do the operators, which
  are RECURSIVE or folds; what they compute is known by induction over data only.
  The store's readers are the case in which a recursive function could be
  unfolded and a least counterexample taken;
* `CronFindsTheFirst`: the search for the next instant is such a recursion, over a
  calendar;
* `EventsAreMappedOnce` and `ConfigurationIsFaithful`: tables of the repository's
  own mappers and definitions. TLC goes through all of them, so that a
  proof for other values of the constants would add nothing.

## 5. Findings

Four runs show the code disagreeing with what the repository says of it; the
details, with the quoted lines, are in `PROJECT.json`.

1. `pipeline_traces`: with two calls in progress the events of one are
   recorded on the trace of the other.
2. `pipeline_hang`: an exception while the dispatcher is resolved leaves
   `handle()` pending for ever.
3. `shutdown_http`: the shutdown hook of `HttpModule` stops a fresh instance of
   the server and the process exits in the middle of requests.
4. `auth_options`: a singleton authenticator checks a request with the options
   of another route.

## 6. Divergences met while modelling

The model follows the code in each of these; the passing runs avoid them by a
named switch or state the exception in the property.

* `reschedule()` with a malformed cron string cancels the timer before it
  throws (`local-scheduler.manager.ts:121`), while
  `schedule-descriptor.interface.ts:22` calls the date it goes on reporting
  the armed one. `InvalidInput = FALSE` in `scheduler_liveness`.
* `isRunning` is cleared by the first of two overlapping invocations
  (`local-scheduler.manager.ts:367`, `schedule-descriptor.interface.ts:18`).
* A `handle()` called inside an event context (REPL) gives its events the root
  trace, the outer call's (`event.pipeline.ts:44`, comment at 38-40).
* When one of several batches rejects, `handle()` rejects while the loop of a
  sequential batch goes on (`event.pipeline.ts:203`): the events it
  still starts are on the trace of the next call, also when calls come one at
  a time.
* When `execute()` rejects, `endTrace()` is not reached (`kernel.ts:421`): the
  trace of a failed call is never exported.
* With shared imports `stop()` may run a hook before the hook of a module that
  imports it (`kernel.ts:341`, against `module.interface.ts:78` and
  `docs/getting-started/12-production/02.graceful-shutdown.md:163`).
* A failed boot probe does not stop at the first failure
  (`kernel.ts:247`, against line 139); failed instantiation tests make the
  report `Failed`, not `PassedWithWarnings` (`instantiation-report.ts:35`,
  against 26-28).
* An import cycle that `initModule()` tolerates overflows the stack in
  `afterInitModule()` (`kernel.ts:636`); the graphs of the run have no cycle.
* `start()` during a drain loses the connections of the new server
  (`kernel.http-server.ts:169`, against 62); `RestartWhileDraining = FALSE`.
* A signal before the last server was started kills the process without any
  hook (`start.command.ts:142`).
* A controller that cannot be constructed, and a url that cannot be parsed, leave
  `execute()` pending (`router.ts:282` and `:204`, against "This method cannot
  throw" at 185): `EveryRequestSettles` excepts the two, and only them. `execute()` rejects when an interceptor
  throws on the error path.
* All guards are asked although the documentation
  (`03-controllers/07.guards.md`) says that the first `false` ends it.
* The argument hash leaves the identity out, so a cached `@identity` argument
  is the one of the first equal request; a relative url makes `hashRequest()`
  throw, which answers 500 when the cache is active.
* `getRouteParameters()` is out of step when a catch-all covers several
  segments (`path-router.node.ts:139-166`); `ParametersAreInPlace` is stated
  for routes that match segment by segment. A catch-all in the middle of a path
  ties with a literal.
* A duplicate route makes `setup()` fail, and `execute()` calls it again for
  every request.
* Cron: from an instant in a repeated hour the next date may not be later than
  `from` (`cron-expression.model.ts:152`, "strictly after"), and a repeated
  local time may fire twice (against 34-36). `CronFindsTheFirst` is stated for
  instants outside a repeated hour. When the scheduler re-arms inside one, as
  `59 * * * *` makes it, the date may lie in the past: the timer is armed with
  delay 0 again and again and the same occurrence is selected until the hour has
  passed. `OccurrencesInOrder` excepts exactly the schedule that does not keep its
  promise for the date it was asked from (`KeepsItsPromise`).
* Two first uses of a database at a time: the SQLite handle the first was given
  is closed under it (`sqlite.client.ts:56`), the MySQL pool is never ended.
* A migration whose record was lost, or that two processes run, is executed
  twice; `mysql:verify` succeeds with migrations pending. A script that fails
  after some of its statements took effect (`multipleStatements`,
  `mysql-migration-runner.manager.ts:37-51`) has no record either, and the next
  `mysql:migrate` runs all of it again from its first statement; a connection
  that is lost after the last one does the same. `OnceUnlessInterrupted` names
  these as `unrecorded`.
* A search over several fields applies the filters to the last field only, for
  AND binds tighter than OR (`mysql.client.ts:515`, `sqlite.client.ts:544`,
  against `search-query.model.ts:31`); the constructor of `SearchQuery` ignores
  `filters`; without a field to search the statement is malformed.
* A structured CloudEvent is claimed by the mappers of both generations of
  Cloud Functions; an event without records makes the AWS mappers throw; the id
  of an HTTP API event may be undefined (`http-api-event.mapper.ts:121`).
* HTTP client: a maximum of 0 is no maximum; a retry that cannot be sent leaves
  the promise pending (`http.client.ts:168`), which `PromisesSettle` excepts; a
  Location that is a path keeps the old query; the caller's request is mutated.
* MCP: an id that is reused while in flight loses its controller
  (`mcp-stdio.transport.ts:120`); `ReuseIds = FALSE` in the run.
* A key rotated away stays trusted, and one rotated in stays unknown, until the
  process ends; Identity Platform keeps the body of an error answer for ever.
* Stacked logs are not flushed after an error (`base.logger.ts:181`, `201`,
  `217`, against `docs/getting-started/07-logging/02.loggers.md:59-60`); the
  throttle compares `getSeconds()`, which wraps every minute.
* A span with the root's keyname that is not the root ends the trace
  (`tracing.manager.ts:357`, against 322); a span started under an ended one is
  never ended (326).
* Configuration: `core.module.ts:65-69` gives a boolean as text; an empty
  environment variable is the number 0; a `load()` that fails has already
  deleted definitions.
* Data mapping: the cache is keyed by class only
  (`auto-data-mapping.builder.ts:40`); a leaf caches its effective normalizers
  (`data-mapping.leaf.ts:134`); extraneous keys are dropped at the top and kept
  below (`data.mapper.ts:156`, `data-mapping.node.ts:157`); an export loses
  `destinationType`; a scalar array that is null throws.
* Command line: `--name 3d`, `1.10` and `TRUE` are read differently from
  `--name=3d` (`command-event.mapper.ts:115`); `--force=yes` is false while the
  answer "yes" to a prompt is true.
* Builds: the source is hashed after tsc read it
  (`build-manifest-writer.ts:32`), so an edit during the compilation is taken
  for built; the rebuild that a stale gate offers meets the same gate and asks
  again (`build-runner.ts:25`).
* `monitorStack()` reports the operation another deployer started
  (`cloudformation.client.ts:508`); a first creation that failed can only be
  updated, which the provider refuses (413 against 384); a rollback is reported
  before it is final (540).
* `DynamodbClient.create()` looks and then puts: what another caller wrote in
  between is replaced (`dynamodb.client.ts:193`, against 183). The look-up has the
  default consistency, so an item that was written shortly before the call may be
  replaced as well, and `list()` and `findBySecondaryIndex()` (141, 379) may miss an
  item that was there all along or return one that is gone. `TableIsSound` promises
  nothing for keys in `lagging`.

## 7. Not modelled

Wrappers that forward one request to a provider's SDK (S3, SNS, SQS, the
single-call methods of CloudFormation, Firestore, Cloud Storage, OpenSearch,
Redis, Stripe), tracers and loggers that only send (Cloud Trace, Sentry),
conversions of responses, file-system and terminal I/O (`file`, the file
server, `pristine init`, the REPL), the pages of the observability server,
decorators, which only write metadata, the file logger, the migration
scaffold, and the lint rule. In `AppBuild` the file of the source always
exists. `PROJECT.json` names each package with its reason.

Assumed, where the code would behave otherwise:

* `GracefulShutdown`: neither server's `stop()` rejects. That holds for the two of
  the repository; of a third one `start.command.ts:80` and the shutdown hooks
  (`http.module.ts:234`, `local-scheduling.module.ts:56`) would swallow the error.
* `Router`: a guard returns a boolean, as its interface declares; `router.ts:346`
  compares with `=== false`, so that `undefined` would let the request in. Route
  parameters are taken from the path as they are and not decoded, which cannot
  throw.
* `ObservabilityStore`: the processes run as one user. `process.kill(pid, 0)` on the
  process of another user fails with EPERM, and `isLive()`
  (`partition-index.ts:110`) then takes its partition for abandoned. Making the
  directory of a partition and writing its pid are one step.
* `CloudFormation`: the status of the stack shows an execution as soon as the
  provider has accepted it.

## 8. Plan

Components: the resolvers and interceptors of networking, the file logger, the
providers' scheduling triggers.

Refinements: `LocalScheduler` implements "each occurrence is selected at most
once, in order"; the router with its cache implements the router without;
`ObservabilityStore` implements a log from which prefixes disappear.

Theorems: the step simulations of these refinements.
