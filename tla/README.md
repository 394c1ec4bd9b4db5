# VeloGate: TLA+ models and proofs

VeloGate is a declarative API gateway: a `.gate` file describes endpoints, the
steps each endpoint runs (values, shell commands, outgoing HTTP, gRPC and
database calls, pipes) and the response; the Rust program parses the file,
validates it, plans each endpoint as layers of steps, and serves it with
axum/tokio. This directory models that program. Paths below are relative to the
repository root, so the planner is `src/planner.rs` there.

## Inventory

| Component | Source | State it keeps | Operations | What makes it correct |
| --- | --- | --- | --- | --- |
| Lexer, parser, grammar | `src/lexer.rs`, `src/parser.rs`, `src/grammar.lalrpop` | none | text to AST; `sync` blocks become boundary indices | boundaries part exactly the steps a block separates |
| Validator | `src/validator.rs` | none | semantic checks before planning | an accepted file never makes the router panic |
| Planner | `src/planner.rs` | none (one call per endpoint) | name resolution, cycle detection, layers, sync boundaries | every step after what it reads; cycles rejected, nothing else; sync parts steps |
| Endpoint execution | `src/runtime/mod.rs` (`execute`) | variables of one request, the tasks of one layer | run a layer, join, abort, respond | a step sees what it reads; no step of a later layer early; one outcome; nothing survives a failure unobserved |
| Expressions, pipes, built-ins | `src/runtime/mod.rs`, `functions.rs`, `traits.rs` | none | evaluate values | total on JSON; documented operator semantics |
| Command runner | `src/runtime/mod.rs` (`execute_command`) | a semaphore of command slots, child processes | acquire, spawn, read, wait, time out, kill | at most `command_max_concurrency` children; no slot is lost; nobody starves |
| Outgoing calls | `src/runtime/mod.rs` (`fetch_http`, `query_db`, `call_grpc`) | connection and descriptor pools | request, retry, delay, time out, fall back | bounded attempts; fallback used where documented |
| Rate limiter | `src/runtime/rate_limit/` | a concurrent map client -> window, two atomic counters | admit or reject, clean up | at most `limit` per window; bounded storage; a full table recovers |
| Security | `src/runtime/security/` | none | JWT and Basic rules, checks | a request passes only if every rule does |
| Router, HTTP edge | `src/runtime/mod.rs` (`router`, `handle`, CORS, operational routes) | metrics counters | dispatch, authorise, execute, map errors | every request is answered once and counted once |
| Dev server | `src/dev.rs` | one mutex-held runner: source text, running gateway | start, stop, restart, save, edit ranges of the source | one gateway at a time; file and gateway agree |
| Linter, export, CLI | `src/linter.rs`, `src/export.rs`, `src/main.rs` | none | report, convert, parse options | the collectors read the names the planner reads |
| Visual editor | `editor/` | browser state | edit the graph, call the dev API | text written back parses to the graph shown |

How they interact: the CLI or the dev server parses, validates and plans the
file, then builds a `Runtime`; the router puts the rate limiter in front of each
endpoint handler, the handler authorises and calls `execute`, which runs the
planned layers; steps share the command slots, the pools and the metrics of the
runtime. The dev server owns a runtime task and talks to it through a one-shot
shutdown channel.

Hard behaviours: concurrent requests on the rate limiter's map and counters,
which are not updated together; parallel steps of a layer that fail while their
siblings run; a client that disconnects mid-step; timeouts racing answers;
waiting for a command slot; a dev server whose stop waits for requests in
progress.

## Modules

| Module | Extends | Models |
| --- | --- | --- |
| `PlanDefs` | community `FiniteSetsExt` | what a plan is: graphs, boundaries, `PlanOf`, the contract between planner and runtime |
| `PlanLayers` | `PlanDefs` | `build_layers` step by step |
| `PlanLayersProofs` | `PlanLayers`, `TLAPS` | its proofs |
| `Values` | | JSON values, their conversions and comparisons |
| `Expressions` | `Values` | `eval_expr`: operators, built-in functions, methods |
| `PipeOps` | `Expressions` | pipe steps and the laws between their operations |
| `NameResolution` | `PipeOps`, instances of `PlanDefs` | the reads of steps, `build_endpoint_plan`, unused constants, what the planned layers compute |
| `Exports` | `NameResolution` | the edges of the exported graph |
| `Dataflow` | `PlanDefs` | the abstract promise of running an endpoint |
| `EndpointExecution` | `PlanDefs`, instance of `Dataflow` | `EndpointRuntime::execute` |
| `EndpointExecutionProofs` | `EndpointExecution`, `TLAPS` | its proofs |
| `FixedWindow` | | the abstract promise of the rate limiter |
| `RateLimiter` | instance of `FixedWindow` | `rate_limited` |
| `RateLimiterProofs` | `RateLimiter`, `TLAPS` | its proofs |
| `CommandSlots` | | `execute_command` |
| `CommandSlotsProofs` | `CommandSlots`, `TLAPS` | its proofs |
| `UpstreamCalls` | | `fetch_http`, `query_db`, `call_grpc` and their caches |
| `UpstreamCallsProofs` | `UpstreamCalls`, `TLAPS` | its proofs |
| `SecureRules` | `Expressions` | the variables of a request, `authorize_endpoint` |
| `RequestPipeline` | instance of `FixedWindow` | a request from the rate limit layer to its answer, the counters of `/metrics` |
| `RequestPipelineProofs` | `RequestPipeline`, `TLAPS` | its proofs |
| `SecuredRequests` | `RequestPipeline`, `SecureRules` | the composition of the two |
| `RouteTable` | | the validator, `Runtime::router`, dispatch |
| `RouteLaws` | `RouteTable` | the operations of the OpenAPI document; the laws of the routes of a file, for every file of a family |
| `RouteTableProofs` | `RouteLaws`, `TLAPS` | the proofs of both |
| `DevRunner` | | `ProjectRunner` of the dev server, and the gateways it starts |
| `DevRunnerProofs` | `DevRunner`, `TLAPS` | its proofs |
| `EditorText` | `Values` | the text edits of the dev server, the two formatters |
| `LanguageLaws` | `Exports`, `RouteLaws`, instance of `EditorText` | the pure parts, applied to every input of a bounded family |
| `MCEndpointExecution`, `MCRateLimiter`, `MCUpstreamCalls`, `MCRequestPipeline` | | constants for TLC |

Operators written as `Mutant of X` next to an operator `X` are plausible wrong
versions of it. They are in no next-state relation; replacing `X` by one shows
that a property does depend on the code `X` stands for.

### The planner: `PlanDefs`, `PlanLayers`

A step is its index in source order. The recursion of `step_depth` becomes an
explicit stack of frames `[step, todo, depth]`: the step the call is for, the
dependencies its fold has not consumed, the depth folded so far. `VisitRoot` is
the loop of `build_layers`; `Recurse`, `FoldDependency`, `Return` and `FindCycle`
are the call, the fold, the return and the error of `step_depth`;
`ApplyBoundary` is an iteration of `apply_sync_boundaries` with its locals
`floor` and `previous_max`; `PlaceStep` is an iteration of the loop that fills the
layers. `dependencies` ranges over every graph, cyclic ones and `let a = a`
included, because names are resolved without regard to their order.
`sync_boundaries` ranges over every subset of `1..N`: the parser records a
boundary before, inside and after a `sync` block, and an empty block yields any
single index.

`PlanOf` defines the same plan without search or loops (longest chains of reads,
lifted past boundaries), and `PlanContract` is what the runtime needs of a plan.
`EndpointExecution` takes the contract as an assumption on its endpoints; the
planner is proved to establish it, so the two compose without sharing state.

### Endpoint execution: `Dataflow`, `EndpointExecution`

`execute` runs a layer of one step inline (`RunInline`, `FinishInline`,
`FailInline`) and spawns any other into a `JoinSet` on a clone of the variables
(`SpawnLayer`); tasks start, end and are joined in any order (`StartTask`,
`EndTask`, `JoinTask`). The first error joined leaves `execute` and drops the set
(`JoinError`, `AbortTasks`); so does a client that disconnects (`DropRequest`). A
task that is being polled at that moment runs on to its next await
(`aborting`, `TaskAborted`). The sync pass can leave a layer empty
(`SkipEmptyLayer`). `vars` and `snapshot` are the request's `ScopedVars` and the
clone the tasks of the layer evaluate on; the value of a step is the set of steps
it was computed from, which is all that ordering properties can tell apart. What a
step does is abstracted to a value or an error.

`Dataflow` knows no layers and no tasks: a step runs at most once, on the values
of everything it reads, a failure needs a step that had all it reads, and an
answer needs all the values. `EndpointExecution` implements it on every plan that
carries the reads.

### The rate limiter: `FixedWindow`, `RateLimiter`

One action per shared access of `rate_limited`: the atomic counters
(`CountCall`, `CheckFull`, `Subtract`, `Reserve`, `Undo`), the shards of the
`DashMap` visited one by one by `len`, `retain`, `len` (`CountBefore`, `Retain`,
`CountAfter`) and the entry (`Hit`, `Insert`). A vacant entry keeps its shard
locked from `Reserve` to `Insert` or `Undo`; an occupied one is decided under the
lock in one step. The clock is read once, at `Call`, and can be old when it is used:
`MaxStall` bounds how old. `tracked_clients` is a machine word of `Word` values:
`fetch_add` and `fetch_sub` wrap, `saturating_sub` stops at zero. `table` is
`present`, `started_at` and `used`.

`FixedWindow` admits a client at most `Limit` times in a window of `Window` time
units. The mapping is the identity on the table: the shards, the counters and the
clean-ups are invisible, and every step of them is a stutter or a `Forget`.

### The command runner: `CommandSlots`

The semaphore of command slots is `available`, `queue` and `granted`: a released
permit is assigned to the first waiter at once, before that waiter is polled. A
step goes through `Acquire`, `Acquired`, `Spawn` and one of `CommandDone`,
`CommandFailed` (too much output, or a read error) and `TimedOut`; `timeout` polls
the work before the clock, so a command that is done is not timed out. The future
of the work is dropped before the permit (`EndWork`, then `DropPermit`): the
child is killed first. `DropWaiting`, `DropGranted` and `DropRunning` are the
awaits at which the request can be dropped; a drop between two awaits does not exist.
A process is a shell and the program it runs; `kill_on_drop` reaches the shell
only. Both keep the output streams open until they exit, so a command is done
when both have.

### Outgoing calls: `UpstreamCalls`

`pc` is the await a call is at. A fetch is a loop of `Send`, the status
(`Responded`, `Refused`, `AttemptTimedOut`) and the body; `AttemptFailed` decides
between the next attempt, the pause before it and giving up, and only giving up
looks at the fallback (`FallBackOr`). The body is read after the attempts: its
errors are returned as they are. A query or a gRPC call has no attempts; one timeout
covers the connection, the pool and the answer, and is returned before the
fallback is looked at (`WorkTimedOut`). `db_pools` and `proto_pools` are `cache`:
an entry is looked up (`LookUp`), built without a lock held and inserted with
`or_insert_with` (`Built`), so calls that race to build one must agree on
the first. What is sent and what comes back is success or failure.

### Requests: `RequestPipeline`, `SecureRules`, `SecuredRequests`

A request is the place of its contents in `Contents`; requests are numbered as they
arrive. `Arrive` is the dispatch, `Admitted` and `Refused` the layer in front of a limited
endpoint, `ExtractorRejects` axum turning down a body, a path or a query (400 and
413 are one here), `Handle` everything `EndpointRuntime::handle` does before the first step
(the number, the variables, the rules: one poll), `ExecuteSucceeds` and
`ExecuteFails` what `EndpointExecution` ends with, `Drop` a client that leaves. The
limiter is an instance of the promise `FixedWindow` that `RateLimiter` implements, plus
its refusal when the table is full, which is left to chance: `Refused` may refuse any
client without an entry. `client_ip_key` believes headers only from a trusted
proxy, and of `x-forwarded-for` the first entry. (The program's README, `README.md:255`, lists
the three sources of the address without that condition.)

Whom a request is really from is `from` in its contents, which no action reads.
`ClientsKeepTheirBudgets` speaks of it through `Named`: the request comes from the client itself,
or through trusted proxies that put the client first in `x-forwarded-for`, or no address there
and the client in `x-real-ip`. Nothing is claimed of the budget of other requests: a
proxy that appends the address it sees to the list it was sent leaves the first entry
to the client, which can then have a window per request. `admitted_at` is a history variable:
when the limiter let each request past. The budget is a sliding one: in any stretch as long as a
window a client gets fewer than `2 * Limit` requests past the limiter, the end of one window
and the beginning of the next, and is refused only for what itself, or an unnamed request, spent
in that length, or for want of room.

Whether the rules let a request in is the parameter `Verdict`, and what a rule asks,
which only the property `UnauthorisedRunsNothing` speaks of, the parameter `RuleHolds`.
`SecuredRequests` gives `Verdict` the code's meaning, `RuleVerdict`: the variables of the
gateway and of the request, then each rule in its order, which binds `jwt` or `basic`
and evaluates its own checks by `eval_expr` (`SecureRules`); `requests.cfg` gives
`RuleHolds` the rule's own words, `Holds`. A token is the text it is signed with, its claims and
whether the library finds it current.

### Values, names and what the layers compute: `Values` to `NameResolution`

These are functions of their arguments and are written as operators named like the
program's. A scope is a function from names to values. `eval_expr` is total: an
evaluation is a value, `Undefined` (a name that is not bound) or a `Failure`.
`PipeLaws` ties the pipe operations to one another (a stable permutation, groups are
filters, pages add up, statistics are reductions), `SortedByATotalOrder` says when
`compare_json` is an order at all.

`NameResolution` has the collectors of the planner (`collect_expr_reads` and its
relatives), `build_endpoint_plan` up to the dependency graph, whose layers are
`PlanDefs`, the collector of the linter, `gateway_vars` with the `env_file` it loads, and `execute` once more, this time on
values: layers are evaluated on snapshots and joined (`RunLayers`). What it should
compute is defined without layers: the steps as a set of mutually referring definitions.
`EndpointExecution` knows every interleaving and no values, this module the values and one
order of joins; both run on the layers of `PlanOf`.

### Routes: `RouteTable`, `RouteLaws`

A path is a sequence of segments, a text or a parameter. `validate_file` is what the
validator asks of a file's port, CORS block, names of constants and databases, and
endpoints; `router` is how `Runtime::router` ends
for it: with a router, an error of its own, or a panic of axum or tower-http. It begins by binding
the variables of the gateway; whether that succeeds is the parameter `VarsBound`, any operator
for the proofs and `gateway_vars` of `NameResolution` for the run (`GatewayBinds`): an `env_file` that
cannot be read or a constant that cannot be evaluated ends it. `Dispatched` is
the endpoint axum runs for a request: the best path is chosen before the
method. `AcceptedFilesStart` relates the validator to the router: for an accepted file the
router is built exactly when the variables are bound, each pattern is spelled one way, no
credentials meet a wildcard the validator does not know of, and the operational paths are static
paths of their own.
`AcceptedRoutesAreServed` relates the router to the requests. `RouteLaws` adds what `export_openapi`
writes for each path and method, `EveryRouteIsExported`, and states the three of a family of
files and operational paths, `RouterCalls`, which may be infinite.

### The editor's text: `EditorText`

A text is a sequence of codes: characters, white space, quotes, braces, and above them
words the code looks for as a whole (`gateway`, `endpoint`, the steps) and the contents of a
header's quotes. `Modes` and `Depths` read a text as the lexer does, with strings and comments;
the edits find their places as the code does, by searching. What is claimed of them
is claimed of plain texts (`Plain`, `StepsBeginLines`): with a brace in a comment or
the header of an endpoint in a string the edits do go wrong, and the conditions say
exactly what they take for granted. `FormattingSettles` says of every text that saving twice is
saving once, that the fmt command has nothing to say about what was saved, that nothing but
white space is added or lost, in strings and comments too, and that the code between them is the
same. That the parser gets the same tokens (`Tokens`, strings with what they hold) it says
only of texts whose strings end on the line they begin on (`StringsOnOneLine`). A string may go over several
lines (`src/lexer.rs:111`), and `format_gate_source` of the dev server takes each of its lines for
code: it is trimmed and indented, or dropped when blank (`src/dev.rs:704`), so that saving
changes what such a string stands for.
Parentheses and brackets, which the formatters count like braces, and carriage
returns are left out.

### The dev server: `DevRunner`

The runner is `file`, `running` and `last_error`; its mutex is held by the call
that awaits a gateway (`Awaits`), everything else in a call happens between two
awaits and is one action. `EnterStart`, `EnterStop`, `EnterRestart` and
`EnterSave` are a call from the mutex to its only await, in `stop`; `Joined` is the rest. Every edit of the
editor ends in `save_source` and is a save of some source. `Dropped` is a handler
dropped because its client has gone, waiting for the mutex or for a gateway.
A gateway is spawned, then binds (`Bind`) or fails (`BindFails`, `RouterPanics`),
and once told it gives up its port (`Shutdown`) and waits for its requests
(`Drained`). A source is what the runner tells apart: it parses or not, and the
router accepts its routes or panics.

## Runs

| Run | What it shows | Instance |
| --- | --- | --- |
| `plan_sync` | the layers are `PlanOf` of the input; `sync` parts steps; a cycle is found exactly when there is one; the search ends; `PlanInv` holds | all graphs over 3 steps (cyclic included) with all boundary sets |
| `plan_sync_order` (violated) | with a `sync` block the layers need not carry the reads | the same |
| `execution` | `sync` holds at run time, each variable holds the value the endpoint alone determines, nothing happens after the outcome, every request settles, refinement of `Dataflow` | all acyclic graphs over 4 steps with all boundary sets, planned by `PlanOf` |
| `rate_limit` | refinement of `FixedWindow`; the client counter; storage while clean-ups do not overlap | 2 calls at once, 2 clients on 2 shards, table of 1, limit 2, window 2, 4 time units, clock readings up to 2 old |
| `rate_limit_storage` (violated) | storage is not bounded when clean-ups overlap | 2 calls at once, 4 clients on one shard, table of 2 |
| `command_slots` | slots are conserved, shells are bounded, every step ends | 4 steps, 2 slots, 3 processes |
| `command_orphans` (violated) | commands are not bounded | 3 steps, 2 slots, 3 processes |
| `upstream_calls` | one entry per source, queries bounded by the pool, every attempt made before giving up, fallbacks, calls end | 3 calls chosen from 7 sorts (2 fetches, 3 queries on 2 databases, 2 gRPC calls), pools of 1 connection |
| `upstream_fallback` (violated) | a fallback does not cover a timeout | the same |
| `requests` | no steps run unless every rule holds of the variables they run with; the counters add up; a client keeps its budget and is not refused for what others spend; every request is answered | 3 requests of 4 kinds (direct with a forged header, two through the proxy that name the client in one header or the other, one direct behind Basic), a limited endpoint with a token rule, one with two Basic rules, limit 1, window 2, 3 moments, 1 error of the steps |
| `language_laws` | pipes obey their laws; reads are all there is; layers compute what the file means; accepted is computable; unused constants can go; accepted routers start; routes are served and exported; edits stay inside; formats settle | arrays of up to 3 of 11 items with 5 closures; endpoints of 2 steps of 14 sorts with 4 names, and of 3 steps of 6 sorts with 3; up to 3 constants; files of 2 endpoints with 10 paths, 4 methods, 6 CORS blocks, 4 sets of operational paths, of 3 with 7 paths, and of 1 with up to 2 constants, an `env_file` that is none, read or unreadable, and a database or none; texts of up to 3 of 10 pieces between 4 surroundings |
| `dev_runner` | no gateway out of reach, one at a time, it serves the file, its error is shown, editor calls end | 2 editor calls at once, 2 gateways, 4 sources: two good ones, one that does not parse, one the router refuses |

Why the bounds are enough. Three steps give the planner every shape its loops can
meet: a chain, a fork, a join, a self-read, cycles of two and three, a reader
before its dependency in source order, and a boundary between any two of them; the proofs
take the rest. Four steps are the fewest for which a layer of two runs between
two others and for which the sync pass can leave a layer empty in the middle.
Two calls are what the rate limiter's races need, and two shards make the lengths
of a clean-up come from different moments; a stall as long as a window lets a call
decide on a window that has run out meanwhile. Four command steps on two slots
keep two waiters in the queue, so that overtaking, a waiter that leaves and
a permit already assigned to a leaver all happen; `command_slots` has more steps
than processes, so spawning also fails for want of a process. Three outgoing
calls are two that race to build an entry and one that comes after them; two
retries give a first, a middle and a last attempt. Two editor calls are one
that holds the runner's mutex and one that waits for it, and two gateways the
one a dropped call has left behind and the next; three gateways are
needed only for two abandoned stops in a row, which differ from one in how many
gateways drain. Three requests are one that spends the window of a client, one that is
refused by it and one that overlaps both; their contents are chosen
so that a client comes directly and through the proxy, under headers that name another. Two
time units to a window and three moments let a window begin before the one it follows on
has left the sliding length. All requests of the instance are `Named`; the part that unnamed
requests play in a refusal is left to the proof. In `language_laws` the inputs are
built from pieces that differ in what the code asks of them: each sort of step, callee,
item, path and character stands for all of its kind, and pairs and triples let any two or
three meet; each behaviour is one call.

Symmetry is used on the calls of the rate limiter only, in runs without liveness
properties.

What the four violated runs show:

- `plan_sync_order`. `apply_sync_boundaries` lifts a step past a boundary but not
  the steps that read it. After `sync { let a = 1; } let c = 2; let d = c;` both `c`
  and `d` have depth 1, so `d` is evaluated on a snapshot without `c`. The README of
  the program says that independent steps share a layer. `SyncKeepsLooseOrder` and
  `DagRespectedWithoutSync` are what does hold.
- `rate_limit_storage`. Two clean-ups that overlap can each see the
  larger length before and the smaller one after, and subtract the same removals
  twice; the counter then stands below the table's size and lets it outgrow
  `rate_limit_max_clients`. `BoundedUnlessOverlap` is what does hold.
- `command_orphans`. A timeout kills the shell and frees the slot; the program
  the shell was running goes on beside the command that gets the slot.
  `ShellsBounded` is what does hold.
- `upstream_fallback`. The timeout of a query or a gRPC call is turned into an error
  with `?` before the fallback is looked at, whereas the linter warns of a gRPC
  fallback without a timeout, as if the one covered the other. The fallback does
  stand in for the other errors: `FallbackStands`.

Two properties of `dev_runner` hold only while no call was dropped at its await
(`abandoned`). A dropped stop has told its gateway to shut down, so the gateway
ends, but the runner has already let go of it: the next start does not
wait, two gateways exist, and the one that drains may write its error over that of the
new one. `NoGatewayOutOfReach` holds always.

## Fairness

- The planner is a synchronous call: weak fairness of its next step.
- The executor polls every task that was woken, and each step ends (its calls
  answer or time out): weak fairness of every step's actions. Nothing makes a client
  leave, so `DropRequest` is not fair.
- Command steps: the executor polls what is ready and the timer fires, so
  `Runtime` and `TimeoutExpires` are weakly fair. That a command ever exits is not
  assumed, nor is a drop. Being served in turn is not assumed but modelled:
  tokio's semaphore is first come, first served.
- Outgoing calls: timers fire, and a pool gives up on a connection after a
  timeout of its own (sqlx's default). Nothing makes an upstream answer: calls with a timeout
  end all the same, those without may not, and `CallsSettle` claims nothing of them.
- The dev server: tokio's mutex is first come, first served, so a call that
  waits gets it if it is free again and again, which is strong fairness of `Enter`;
  gateways are polled, and the requests in progress end (`RequestsEnd`). The last is
  a condition on the endpoints, not a promise of the dev server: `stop` has no
  timeout, and with a request that never ends no editor call would return.
- Requests: handlers are polled, bodies end or are cut off, and steps end
  (`EndpointExecution`): weak fairness of `Serve`. Nothing makes a request arrive, a client
  leave or a clean-up happen.
- The rate limiter has no liveness property: its calls take a bounded number of
  steps under locks that are released within the same call.

## Proofs

`tlapm` checks every theorem for all values of the constants.

`PlanLayersProofs`, from `N \in Nat`: types (`TypeCorrect`), a reported cycle is
one (`CycleErrorsAreReal`), `sync` parts steps (`SyncBoundariesPart`), loose order
(`SyncKeepsOrder`), without sync the layers carry the reads (`LayersCarryTheDag`),
and the contract (`PlansMeetTheContract`). The invariant is `PlanInv`
(`PlanInvariant`). The properties are about the final layers only, so it says what is
true on the way: the frames on the stack are exactly the steps being visited
and follow a chain of reads (a step met again closes a cycle); what a frame has
folded is visited and below its depth; and in the sync pass `floor` separates
the passed steps a boundary cuts off from those none does, which is what makes
lifting one step at a time keep the order of those before it.
That no cycle goes unreported (`CyclesAreDetected`) and that the layers are the ones
`PlanOf` defines (`PlanIsDefined`) take a second invariant, `ExactInv`: a finished depth is
the longest chain of reads below its step, a passed step is lifted to exactly the
floor its boundary sets, and there are no more layers than steps need. A depth
below the number of steps would grow without end along a cycle, so a plan
that finishes had none. `PlanOf` is defined by equations over the graph, not by computing, so
the proof shows that they have one solution: the planner's own depths solve
them, and two solutions would differ at some step first, below which they agree.
That there is a solution at all, for every acyclic graph and all boundaries, is
`AcyclicEndpointsHavePlans`: the recursive functions `PlanOf` is written with are defined, and
the plan meets the contract. So `EndpointsAssumption`, what the execution is proved from, is
met by every endpoint the planner lets through. Depths exist because some step without one reads only steps
that have one, until all have (`ChainsExist`); lifted depths because a floor looks at the steps
before a boundary only (`FloorExists`, `LiftsExist`).
`PlanningIsProgress` is the safety half of the planner's termination: every step of it
enters a step of the endpoint for the first time, folds in a read, leaves a step for
good or moves its loops on (`EveryStepIsProgress`), and none undoes any of these, of
which there are finitely many. That the planner does take its steps, `Terminates`
under fairness, is checked by `plan_sync`.

`EndpointExecutionProofs`, from `EndpointsAssumption` (acyclic reads, and
a plan that meets `PlanContract`): types, `LayersInOrder`, `SyncStepsWait`,
`ReadsAreBound`, `NothingAfterTheEnd` and the refinement of `Dataflow`
(`Implementation`: initial states map to initial states, every step to a step or a
stutter). The invariant is `ExecInv`: `LayerInv` (steps above the
current layer are joined, steps below are idle), `SnapshotInv` (the snapshot agrees
with the variables and holds every earlier layer) and `EndInv` (no task of an
ended request has a result left to hand over). The contract is what
`PlansMeetTheContract` proves of the planner's results.
`ValuesAreTheEndpoints` says that concurrency cannot be seen in the values, also on
plans whose layers do not carry the reads: a variable holds the steps `Origins`
names, a set defined from the reads and the layers alone. `ReadsAreBound` is silent
about those plans. The invariant is `DeterminedInv`, of which the snapshot is the
heart: it holds exactly the steps of the layers above (`SnapshotIsAbove`), so a task
that runs late, or after its siblings were joined, evaluates on what one that runs
early does. `Origins` is the least set closed under reads from above; that what a step
evaluates to is that set again is `OriginsUnfold`.
`RequestsMoveOn` is `EveryStepIsProgress`: no action takes back what another has done.

`CommandSlotsProofs`, from `CommandAssumption` (finitely many steps, any process
table, any maximum): types, `SlotsConserved`, `ShellsBounded`. `SlotsConserved` is
inductive together with the types because it also says who is in the queue, each
once; `ChildInv` (every live shell belongs to a running step) turns the bound on
holders into a bound on shells.
`WaitersAreServedInOrder` is `FirstComeFirstServed`, an action property: who is assigned a
permit was ahead of everybody who goes on waiting, and nobody comes to be ahead of a
step that waits already, newcomers that find a permit free included. It rests on
`SlotsConserved` (while there is a queue no permit is free) and on `NobodyCutsIn`, kept by each of
the ways the queue changes: a step joins, the head is served, a waiter leaves from anywhere.

`RateLimiterProofs`, from `LimiterAssumption` (finitely many clients and calls, any number
of shards, any limit, window and word): types, the refinement of `FixedWindow`
(`Refinement`), and, from `WordIsWide` (the counter has a value for every call that can
be counting a client in), the bound on the table (`StorageBounded`) and that the
counter does not wrap (`CounterDoesNotWrap`), both unless two clean-ups have
overlapped. For the refinement the invariant is `LockInv` (a call that holds a lock has a
client without an entry, and no other call holds it) and `TimeInv` (readings of the
clock are at most `MaxStall` old). For the bound it is `BoundInv`: the table is no
larger than what the counter counts without reservations, the counter exceeds the maximum
by no more than the calls about to take their reservation back, and the one clean-up there is
would not subtract too much at any point of its two lengths (`Covered`): what it misses
in the second has been counted in since. While calls come one after another
(`alone`), a client is refused for want of room only when the table is full
(`RefusalsOnlyWhenFull`) and the counter is the size of the table between calls
(`CounterIsExact`); `SoloInv` says what the counter, the reservation and the sum of a
clean-up are at every point of the only call there is.

`RequestPipelineProofs`, from `PipelineAssumption`: types, `ClientsLimited`, and, from
`PlainStatuses` (no endpoint answers with a status of its own that is one of an error's, or
429), `CountersTrue`. `Verdict` is any operator, so this holds whatever the rules are. `CountInv`
names the sets the counters count, and each step adds one member to one of them.
`ClientsLimited` is `ClientsKeepTheirBudgets`. What a window has spent and what was let past
are different things: a window may be forgotten or begin anew while requests it
counted are still recent. So the invariant, `WindowInv`, parts the requests charged to a key:
those let past since its window began, one at its very beginning, are as many as it has spent and
none is a window's length after that; those in the length of a window before it are
fewer than `Limit`, because the window they belong to began with a request that is older than
that. Together they are fewer than `2 * Limit`. A request that names its client is charged to
that client's key (`NamedKey`), so a client's recent requests are among those of one key, and a refusal by a spent window
shows `Limit` recent requests of that key, each the client's own or unnamed (`ChargedAreOwn`).
`RulesAreObeyed` is `UnauthorisedRunsNothing` from one hypothesis on the rules,
`VerdictsAreSound`: a verdict that lets a request in has variables on which every rule of
its endpoint holds. `VerdictInv` carries that through the handling, the answers, the drops and the
other requests: a request with a number has the variables its own verdict was given on.
The theorem is the pipeline's half of the property. The hypothesis, the rules' half, is about
`eval_expr`, a recursion over expressions; `requests` checks the property with both
halves together, for the contents there.

`UpstreamCallsProofs`, from `UpstreamAssumption` (finitely many calls): types,
`OneEntry`, `AttemptsUsedUp`, `Bounded`, `FallbacksStand`. `CallInv` ties the await a call is at
to its kind, to the pool it holds and to the attempts it has made; `PoolInv` bounds the connections
of each pool, and one entry per source makes that a bound per source.
`CallsMoveOn` is `EveryStepIsProgress`: a call comes to no place twice but for its next attempt,
of which it has a bounded number, and moves no other call.

`DevRunnerProofs`, from `DevAssumption`: types, `InReach`, `Alone`, `Fresh`, `ErrorOfItsOwn`, for any
number of callers and gateways. The properties are inductive together with the types and
`AwaitInv`: the call that awaits a gateway is alone and has taken it out of the runner, and
unless a call was dropped there, every gateway that was told to end is the one awaited.

`RouteTableProofs`: for every accepted file with any number of endpoints the router is built or fails
for one of four known reasons (`AcceptedFilesOnlyFailKnowingly`), whatever `VarsBound` says of
files. The operational
paths are paths (`IsPath`: a lone colon is a parameter without a name). If it is built, every
endpoint is the one that runs for a request of its own, all its parameters are bound, no
request has two endpoints, and a request that fits an endpoint but runs none has a
more specific path without its method (`AcceptedRoutesReachTheirEndpoints`). The argument: of two
paths a request fits, the one with a text at the leftmost place where only one of them has
a text is the more specific; for paths the router accepts together this is a strict total
order, and every set of places has a least one, so there is a first path. `FreshIsNew` only says that the text the
formula puts in the place of a parameter occurs nowhere in the file. `RoutersStart`
and `RoutesServed` are the two invariants `language_laws` checks of routes, from
`RouterCallsAssumption` (declarations, and paths as they are read) for any family of files and
operational paths. They are about `RouterSpec`, in which the router is called with a member
of the family; the next-state relation of `LanguageLaws` is that one with the other
families' calls for `CallAnother`. `RoutesServed` adds the OpenAPI document
(`AcceptedRoutesAreExported`): no operation is written over and each lists the parameters its
endpoint binds, each once. `path_parameters` is a recursive function, so the proof shows that it
is defined at every length (`ListingExists`) and lists the parameters of each prefix (`Lists`) by
looking at the least length for which it would not.

Some properties are proved and no run checks them: every `TypeOK`, `PlanInv`,
`DagRespectedWithoutSync`, `ExecInv`, `LayersInOrder`, `ReadsAreBound`, `FirstComeFirstServed`, and
`EveryStepIsProgress` of `PlanLayers`, `EndpointExecution` and `UpstreamCalls`. TLC finds no
violation of any on the instances of the runs of their modules.

Only model-checked, and why:

- every liveness property: `tlapm` has no rules for `ENABLED`. The three theorems on
  `EveryStepIsProgress` are what can be proved of termination without it;
- `VerdictsAreSound`, the rules' half of `UnauthorisedRunsNothing`, and, of `language_laws`,
  everything but the routes (`PipesObeyTheirLaws`, `ReadsAreAllThereIs`,
  `LayersComputeWhatIsMeant`, `AcceptedIsComputable`, `UnusedConstantsAreUnused`,
  `EditsStayInside`, `FormatsSettle`): values, expressions, pipes and texts are
  evaluated by recursion over their data, and the library's induction theorems
  cannot be instantiated.

## Abstractions

- Metrics of `/metrics` that nothing reads back, logging and texts are left out.
- The rate limiter is modelled for windows of at least one time unit. The validator accepts a
  window of zero, for which every call begins a new window and nothing is limited.
- `allow_commands = false` makes every command step fail at once; only the
  enabled runner is modelled.
- `usize` counters of the command runner and of requests cannot come near
  overflow and are not words.
- The URL, the parameters and the payload of an outgoing call either evaluate or do
  not; every pool has one size, and the conversion of gRPC messages is part
  of the answer.
- Numbers are counted in tenths, quotients are rounded to them, and nothing overflows;
  a number is an integer or a float, as serde_json keeps them. Texts are short sequences of
  character codes.
- What an upstream or a command answers is a function of what it was sent
  (`CallValue`), or it fails.
- The dev server's port is the same for every source, and formatting a source on saving
  changes neither whether it parses nor whether the router accepts it: the sources of `DevRunner`
  have no string over several lines, which a save would change.
- Tokio's semaphore, `JoinSet` and timers and the `DashMap` are modelled from how the code
  uses them, and marked external in the map of definitions.

## Not modelled

- The generated parser and the grammar: the models begin at the syntax tree, but for
  where strings, comments and braces are, which the editor's edits depend on.
- The validator's checks of files that must exist (env file, proto), of duplicate names of
  protos, and of the syntax of CORS origins, methods and header names, which validator and
  router check alike.
- The linter's warnings other than unused constants, the report formats, the wording of
  `export` and the layout of its documents.
- Cookies, headers, query strings and bodies as bytes: they are values already when the models
  see them. Two names that differ in `-` and `_` only fall together in the code.
- Signatures, base64 and expiry of tokens; TLS; the conversion between gRPC messages and JSON.
- Argument parsing and start-up in `src/main.rs`, and the browser side of the visual editor, beyond
  the calls and edits it makes.

What could come next: a window of zero and mixed-type sorting as violated runs, once a
document of the program says what is expected of them; more of the validator in `RouteTable`.
