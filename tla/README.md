# Verification of wand

TLA+ models of wand (a Go router, its middlewares, its log ring buffer and its
graceful server), the TLC runs that check them on small instances, and TLAPS
proofs of what matters most. Line numbers refer to the Go sources in `src/`.

## 1. The system

| part | source | state it keeps | operations | what makes it correct |
|---|---|---|---|---|
| Log ring buffer | `logger/ringbuffer.go` | `head`, `tail`, `closed`, per slot a state word and an event; all atomics except the event | `TryWrite` (any number of goroutines), `Consume` (one goroutine), `Close` | events are neither lost, repeated nor torn; no producer waits for another goroutine; the buffer drains after `Close`; a panicking handler loses nothing silently |
| Router | `router/router.go`, `trie.go`, `serve.go` | per host a table: one trie per method, a map of static routes, cached Allow headers, `hasTrailing`, methods with parameters; middlewares; the case mode | `Handle`, `Use`, groups and hosts; `ServeHTTP` | the route with the highest priority answers, with its own parameters; redirects, HEAD, OPTIONS and 405 tell the truth; registrations never break what worked |
| Router under concurrency | the same, `Router.mu` | an RWMutex, taken several times by one operation | registration, `Use` and requests at the same time | a request sees what was registered before it; handlers run without the lock; no data race; every operation returns |
| Route groups | `router/group.go`, `pprof.go` | prefixes and middleware slices, whose arrays callers may share | `Use`, `Group`, `Host`, `Handle`, `RegisterPprofWith` | a group has the middlewares it was given, whatever others append; its routes lie under its prefixes |
| Frozen router | `router/frozen.go` | an immutable copy of the tables with compressed static chains | `Freeze`, `ServeHTTP` | answers every request as the router it was made from |
| Graceful server | `server/graceful.go` | the select of `Run`, a buffered error channel, the listening goroutine | `Run`, `SignalContext` | a clean return means nothing is running; `Run` ends; no goroutine is left behind |
| Soak generator | `cmd/soak/main.go` | workers, a bounded token channel, a ticker | `runSoakWithClient` | exact report, bounded overrun, termination |
| Access log and logger | `middleware/access_log.go`, `logger.go` | pooled response writers, a mutex round the output | wrap a handler, log when it returns or panics | every request is logged once; a panic passes on; the mutex is released |
| Recovery, timeout, request ID, body limit | `middleware/recovery.go`, `timeout.go`, `request_id.go`, `body_limit.go` | none across requests | wrap a handler | one answer per request; no use of pooled state after the answer |
| CORS, trusted proxies | `middleware/cors.go`, `trusted_proxy.go` | options | pure functions of headers | headers allowed only for configured origins; the client address is the last hop that is not trusted |
| Static files, auth interfaces | `middleware/static.go`, `auth/interfaces.go` | none | file serving | paths outside the prefix are refused |

How they interact. `AccessLog` calls `TryWrite` from the goroutine of each
request, a goroutine of the program sits in `Consume`, and whoever runs the
server calls `Close` after `Run` has returned. The router composes middlewares
and handler once, at registration, and calls the result with its lock released;
a handler may therefore register routes. `FrozenRouter` shares handlers with its
router and nothing else. Routers take their parameter slices, part slices and
writer wrappers from `sync.Pool`s and put them back when the handler returns, and
so do the logs with theirs. A chain of middlewares is a stack of writers: each
layer passes on the writer it got, or a wrapper of it. `Timeout` cuts the stack:
what is behind it runs in a goroutine of its own with a writer of its own, and may
go on when the request has been answered.

Where it is hard:

* the ring buffer is lock-free: every atomic access of any goroutine may fall
  between any two of another one, and its capacity check uses two loads made at
  different moments;
* one request is several lock sections, with unlocked reads between them, and so
  is one registration;
* lookups combine a map, a trie with backtracking, two slash forms, two tables
  and method fallbacks, all of which have to agree for every set of routes;
* shutting down means two racing events in one select, a timeout that races
  handlers that may never finish, and channels nobody may receive from any more;
* panics leave loops half done, and pass layers that have to clean up;
* what a layer may rely on depends on the layers around it, whose order is the
  program's choice;
* Go's `append` writes in place when there is room, so that two owners of a slice
  may overwrite each other.

`PROJECT.json` lists each of these hazards at its line, with the properties that
would show it going wrong.

## 2. Modules

| module | models | how it corresponds to the code |
|---|---|---|
| `LogQueue` | what the ring buffer promises: a bounded FIFO queue with at-least-once delivery after a panic | an abstract specification, no slots and no steps inside an operation |
| `RingBuffer` | `TryWrite`, `Consume`, `consumeBatch`, `Close` | one action per atomic access; `pc`, `cpc` are places in the code, `h`, `t`, `curr`, `avail`, `done` the locals `head`, `tail`, `curr`, `available`, `i`; `log`, `start`, `handed`, `accounted` are history |
| `RingBufferInv` | the inductive invariant, in parts | |
| `Paths` | `cleanPath`, `getParts`, `indices`, `alternatePath`, `lowerASCII` | a path is the sequence of pieces between its slashes |
| `RouteTrie` | `insert` and `search` of `trie.go` | a node is the sequence of parts from the root to it, a trie a function of nodes |
| `Serve` | the answers of `ServeHTTP`, `serveInTable`, the slash rules, 405 and OPTIONS | operators over tables; the search is a parameter, since `frozen.go` repeats this logic over its own trie |
| `Router` | registration, and `Serve` over the live tables | one action for the whole of `handle`, failures included |
| `FrozenRouter` | `Freeze`, chain compression and the frozen search | extends `Router`; `Freeze` may happen between any two registrations |
| `RWMutex` | `sync.RWMutex` (external), with writers that hold new readers off | |
| `RouterLocks` | the lock sections of `handle`, `Use` and `ServeHTTP` | one action per section or unlocked read |
| `Groups` | `Use`, `Group`, `Host`, `Handle`, `RegisterPprofWith` | a slice is an array of `heap` and a length, `Appended` is `append`; `asked`, `under`, `given`, `globals` are history |
| `Policies` | the decisions of `CORS`, and `ClientIP` | operators over options and lists |
| `Chain` | `AccessLog`, `LoggerWith`, `RecoveryWith`, `Timeout`, `RequestID`, `CORS`, `ClientIP`, the router's `paramRW`, its `PanicHandler` and the pools | a goroutine is at a layer, going in, out or up (a panic); one action per layer and direction; `writer` holds the writers on its stack |
| `GracefulServer` | `Run`, with the parts of `http.Server` it relies on (external) | one action per step of the goroutine, of `Run` and of the clients |
| `Service` | a program with `Run`, `AccessLog` and the ring buffer | `GracefulServer` with handlers that log into `LogQueue`, and the program's `Close` after `Run` |
| `Soak` | `runSoakWithClient` | one action per channel or counter operation |
| `RingBufferProofs`, `OperatorProofs`, `RouterProofs`, `RouterLocksProofs`, `GroupsProofs`, `ChainProofs`, `ServiceProofs`, `SoakProofs` | proofs, see section 5 | |
| `MC...` | instances for TLC | |

`Service` composes `GracefulServer` with an instance of `LogQueue`, which
`RingBuffer` is proved to implement; `FrozenRouter` composes `Router` and two instances of `Serve`; `RouterLocks`
composes `RWMutex` with the operations of the router, with the computation of a
section reduced to static routes of one path; `RingBuffer` instantiates
`LogQueue` for the refinement.

Definitions whose comment begins with "mutant" are variants of the definition
that follows them, with a plausible bug: each property of a passing run is
violated by at least one of them (`mutants` in `PROJECT.json`). They are part of
no specification.

### Abstractions worth knowing

* **Ring buffer.** Positions are unbounded naturals, the unsigned subtraction
  `head-tail` is `UintSub` with `WordSize` for 2^64: 2^64 events are out of any
  program's reach, `tail > head` is not. Sequentially consistent atomics are what
  Go guarantees. The back-off delays change no state. Loads of variables that
  only their reader writes (the consumer's own `tail`) are not steps.
* **Paths.** A text is a model value; only equality, the empty text, `.`, `..`
  and the lower-case form are visible, which is all the code looks at.
* **Router.** Between operations the tables are what registrations made of them,
  so `ServeHTTP` is a function of the state (`Answer`). Requests are a constant
  set that the invariants quantify over. The storage of static children (slice
  or map) is left out.
* **Locks.** A section of the mutex is one step, because nothing can change under
  a reader; the unlocked reads of `hasTrailing` are steps of their own. All
  routes are static routes of one path in both slash forms: what matters is which
  section sees which registration.
* **net/http** is modelled by what `Run` relies on: `ListenAndServe` fails or
  serves, `Shutdown` closes the listener and waits for busy connections. In
  `Chain`, an informational status is sent at once and the first other one with
  the header as it is then. `http.TimeoutHandler` has a buffer as its writer, which
  cannot be unwrapped and refuses writes when the time is up; it passes header and
  status on at the end, raises a panic again in the request's goroutine, and may
  choose either when the end and the time limit come together.
* **Chain.** A response is its header (of CORS and the request id) and its status;
  bodies, byte counts and the text of log lines are left out. A writer is the name
  of an object, so that an object that went back to its pool and out again is seen
  by whoever still holds it. A pool hands out the smallest free name: the objects
  are interchangeable, and so the next request gets what the last one left behind.
  A path value is the request it belongs to. The mutex is held for one step, or for
  ever. The router, the logs and `Timeout` are given their own layer; a program that
  passes them to `Router.Use` has the router outermost. The user code that a
  recovered panic is handed to, `RecoveryOptions.Logger` and `Handler` and
  `Router.PanicHandler`, is a set of outcomes: a status, or none, and then a return
  or a panic (`Rescue`). The handler may flush. `X-Forwarded-For` is a list of
  lines, each a list of addresses, of which `ClientIP` reads the first.
* **Groups.** A middleware is a name, or broken (nil, or returning nil). A new
  array may have room beyond its content, as Go's growth leaves it. Only refusals
  for the form of a pattern, a taken pattern and broken middlewares are there;
  `Router` has the rest.
* **Service.** The queue stands for the ring buffer; a `TryWrite` checks `closed`,
  and then takes room or refuses, for the reasons that the proved
  `RefusedOnlyFullOrOvertaken` allows.

## 3. Runs

| run | instance | shows |
|---|---|---|
| `RingBufferSafety` | 2 producers, 2 slots, 3 calls each, a panic, `Close` at any moment; only one producer is scheduled fairly | no slot race, no waiting `TryWrite`, order, refinement of `LogQueue`; the fair producer's `TryWrite` ends though the others may stop anywhere |
| `RingBufferPanic` | 2 slots, 2 panics out of `Consume`, fair | nothing lost silently, everything delivered, drained on return, `Consume` returns |
| `Router` | four programs: up to 4 of 15 patterns and all paths of up to 3 parts; `StrictSlash`, 3 methods, up to 3 of 9 patterns; two hosts, two cases, escaped paths, `IgnoreCase` reassigned; up to 3 of 11 patterns with static chains cut at every level, and `Freeze` at any moment | search and static map find the best route and every route is reachable; Allow headers are true, routes are found in two redirects, failed registrations are invisible, a request changes hands only to a new route that beats the old one; one case mode; parity of router and frozen router |
| `RouterLoop` | 2 routes | **violation**: a redirect loop |
| `FrozenRawSlashes` | an escaped path with an empty segment | **violation** of parity |
| `RouterLocks` | 2 goroutines, 3 operations, `StrictSlash` on and off, fair | what was registered before a request answers it; no lock held in handlers; every operation returns, registrations from handlers included |
| `RouterLocksRace` | 2 goroutines, 2 operations | **violation**: `hasTrailing` is read without the lock |
| `Groups` | three programs of 4 or 5 calls: shared slices with and without room, broken middlewares, prefixes and patterns of all forms | groups and routes have the middlewares asked for; routes lie under their prefixes |
| `Chain` | 2 requests through 4 chains; 1 through all orders of a log, `Recovery`, `Timeout` and the router; Recovery's `Handler` and the `PanicHandler` answering 500, 418, nothing, or panicking, with and without `Flush`; options of `CORS`, `RequestID`, `ClientIP`; proxies that append to one line or add their own; fair | pooled objects show no other request's data; the client is the last hop not trusted when the proxies keep to one line; the log says what was sent, but for the cases in section 4; origins are allowed ones; `Timeout` bounds its request |
| `ChainParams` | the README's quick start, 1 request | **violation**: the handler cannot read its parameter |
| `Service` | 3 requests, 2 slots, with and without `Timeout`, fair | a clean return is clean, producers have stopped before `Close` then and the log is complete; the program ends, its goroutine too |
| `Soak` | 3 workers, 3 requests before the time is up, with and without limiter | exact report, at most one late request per worker, termination |

### Bounds, and why they are enough

* `RingBuffer`: with 2 slots and 3 calls each, head laps the ring twice, every
  slot is reused, a batch starts at each slot and ends before, at and past the end
  of `data`, and a producer can hold a `head` or `tail` that is a lap old.
  `WordSize = 1000` exceeds every position reached. The bound on calls carries
  `TryWriteEnds`: `TryWrite` is lock-free, not wait-free, and a producer that the
  others overtake again and again may try again for ever. What the run shows is that
  it ends however the others stop, between any two of their steps, when there are
  finitely many calls of theirs. Batches shorter than the
  buffer (`MaxBatch < Cap`) are left to the proofs, which hold for all values.
* `Router`: conflicts and shadowing are between two routes at one node and
  backtracking needs three; up to 4 routes of depth 3 contain the combinations
  of abandoned static and parameter branches over two levels. `MaxDepth` (50 in
  the code) is small, and patterns or paths of that depth occur. `MaxRoutes`
  bounds accepted registrations; failed ones are unbounded. `HEAD` is registered and
  requested besides `GET`, since it falls back on `GET`'s routes.
* `RouterLocks`: a registration or `Use` between two sections of one operation
  needs two goroutines and two operations; the third lets one of them come back
  and see what the other left.
* `Groups`: two groups from one slice and an append to each, or a group, a nested
  group and an append to either, take four calls; the fifth registers a route.
* `Chain`: state leaks between two requests, one that uses an object and one that
  used it before or uses it next; `Objects` has one object for each. The orders of
  layers and the options of one request do not interact with a second one and are
  checked with one. Three outcomes of user code are told apart: 500, which is what
  the logs note of a panic, another status or none, and a panic.
* `Service`: three requests and two slots let the buffer fill, refuse and be
  overtaken.
* `Soak`: `MaxRequests` bounds the requests started before the time is up, which
  time does anyway.

No run uses symmetry. Deadlock is checked in every run; the specifications
have an explicit stuttering step for their end (`Finished`, `Done`, `Stopped`,
`Exit`, `Quiet`).

### Fairness

* `RingBuffer!FairSpec`: weak fairness of each `TryWrite` in progress, of the
  consumer's loop (its handler returns or panics), and of the caller that calls
  `Consume` again: the Go scheduler is preemptive and runs every runnable
  goroutine. Nobody has to call `TryWrite` or `Close`. `RingBufferSafety` assumes
  the fairness of one producer only (`Alone`).
* `RouterLocks!FairSpec`: goroutines run and handlers return. The RWMutex hands
  over by its own queueing rules, which `RWMutex` has as state.
* `Service!Spec`: the goroutine, `Run` and its timer proceed; `Serve` returns once
  its listener is closed; the program calls `Close`, and the consumer goes on, as
  `RingBuffer` does under its own fairness. Handlers need not finish and the
  context need not be cancelled.
* `Chain!Spec`: layers proceed and timers expire. Nothing makes a handler end.
* `Soak!FairSpec`: strong fairness where a goroutine waits at a channel
  others also use (Go's channels queue their receivers, and a select over ready
  cases picks at random), weak fairness elsewhere.

## 4. Findings

Each is a run whose one property quotes a line of the repository and is
violated; `PROJECT.json` has the quotation.

1. `RouterLoop`: with `StrictSlash`, `GET /a` and `POST /a/`, a `PUT /a` is
   redirected to `/a/` and from there back to `/a`. `RegisteredIsServed` shows
   that it only concerns methods without a route.
2. `FrozenRawSlashes`: with `UseRawPath`, an escaped path with an empty segment
   inside a compressed chain is found by the router and not by its frozen copy.
3. `RouterLocksRace`: `hasTrailing` is read outside the lock.
4. `ChainParams`: behind `middleware.Timeout` a handler reads no route parameter.
   The quick start puts `Timeout` on all routes and reads one.

Other behaviours the models contain, which no property excludes:

* `TryWrite` loads `head` before `tail`; when the consumer passes that old head in
  between, `head-tail` wraps and the event is dropped by a buffer that may be
  empty. `RefusedOnlyFullOrOvertaken`, which is proved, allows exactly this.
* With `StrictSlash` a parameter route answers both slash forms, no redirect.
* A route registered between two sections of a request gives 405 with an Allow
  header that names the request's own method. (`AllowIsTrue` of `Router` excludes
  it between operations.)
* A `Use` between the sections of a registration is accepted and not applied to
  its route. (`UsedBeforeIsApplied` is what holds.)
* The comment of `PprofOptions.Allow` says "If nil, all requests are allowed."
  (`router/pprof.go:21`); `RegisterPprofWith` returns an error then (line 32).
* When an endpoint of `RegisterPprofWith` is taken, those before it stay registered,
  and a second call fails at the first of them.
* A handler's informational status (103) is logged in place of the final one.
* A panic that passes a log is logged as 500 (`access_log.go:37`). When the `Handler` of a
  `Recovery` outside it, or the `PanicHandler`, answers with another status, as the
  418 of `TestRecovery_WithOptions`, or with none, the client gets that one, or 200.
  `LoggedAsSent` names the case (`Overruled`).
* `Flush` before a status is written sends 200 and is not noted by the logs
  (`access_log.go:99`): a status written after it, or a panic, is logged instead.
* `ClientIP` reads the first line of `X-Forwarded-For` only (`trusted_proxy.go:48`).
  Behind a trusted proxy that adds a line of its own, in place of appending to the one it
  got, the client's own line is believed. `HandlerSeesItsRequest` assumes that
  proxies keep to one line (`KeepsOneLine`), and needs no assumption when the peer is
  not trusted.
* A `Logger` whose writer panics leaves its mutex locked, and every later request
  that it logs waits for ever (`WriterPanics`, which `TimeoutBounds` excludes).
* A log behind a `Timeout`, as in the quick start, logs the handler's status and
  not the 503, perhaps after the request has been answered, after `Run` has
  returned or after `Close`, when the event is dropped or stays in the buffer.
* A response to an origin that is not allowed has no `Vary: Origin`.
* `Run` returns a listen error at once, also when handlers are running.
* The header that `http.TimeoutHandler` passes on replaces equal keys set outside.
* The select of `Run` may prefer a cancelled context to a server error that came
  first; the error is then not returned.

## 5. Proofs

Each theorem holds for every value of the constants that satisfies the `ASSUME`s,
any number of calls, requests and registrations, and paths, patterns and tries of
any size. "property" names the property that a run checks on an instance.

| module | theorem | property | says |
|---|---|---|---|
| `RingBufferProofs` | `TypeCorrect` | `TypeOK` | type correctness |
| | `RaceFree` | `NoSlotRace` | no two goroutines access one slot's event at once |
| | `NeverBlocks` | `SlotWaitNeverBlocks` | the loop on the slot's state never waits |
| | `HandedInOrder` | `InOrder` | events come out in reservation order, without gaps or repetitions |
| | `NothingLostSilently` | `NoSilentLoss` | a slot is reused only for an event that was handled or whose panic was reported |
| | `Drained` | `DrainedOnReturn` | producers stopped before `Close`: nothing left behind |
| | `RefusalExplained` | `RefusedOnlyFullOrOvertaken` | an event is refused only when the buffer is full or the loaded head is out of date |
| | `Refines` | `ImplementsLogQueue` | the ring buffer implements `LogQueue` |
| `RouterProofs` | `BestFound` | `SearchFindsBest` | the search finds the best matching route, with its own parameters |
| | `MapAgrees` | `StaticMapAgrees` | static map and trie agree |
| | `Reachable` | `AcceptedIsReachable` | every accepted route answers its own path |
| | `AllowTrue` | `AllowIsTrue` | a 405 tells the truth |
| | `Registered` | `RegisteredIsServed` | a matching route is found after at most two redirects |
| | `OneCaseMode` | `CaseModeUniform` | one case mode for patterns and requests |
| | `FailedInvisible` | `FailedRegistrationInvisible` | a failed registration changes no answer |
| | `StaysServed` | `ServedStaysServed` | after a registration the same route answers, or the new one if it beats that, or, for `HEAD`, one of the other of `HEAD` and `GET` |
| | `FrozenIsRouter` | | with `Freeze` between its operations the router is still one |
| | `Parity` | `FrozenParity` | a frozen router answers as its router until a route is registered, if escaped paths that are matched as they came have no empty segment inside |
| | `FrozenReached` | `FrozenReachable` | a frozen router serves every route it was made from and nothing else, whatever is registered after |
| `RouterLocksProofs` | `Exclusive` | | a writer excludes readers |
| | `Typed` | | type correctness |
| | `NothingHeld` | `HandlersUnlocked` | handlers run without the mutex |
| | `Served` | `RegisteredBeforeIsServed` | what was registered before a request answers it |
| | `Applied` | `UsedBeforeIsApplied` | a registration applies the middlewares that were there when it began |
| `GroupsProofs` | `Separated` | | no two lists share an array, nor a list and the program's slice |
| | `AsAsked` | `MiddlewaresAsAsked` | lists and chains are what was asked for |
| | `RoutesUnder` | `RoutesUnderPrefix` | routes lie under their prefixes |
| `ChainProofs` | `SeesItsRequest` | `HandlerSeesItsRequest` | a handler reads its own request's path values or none, and takes as its client the last hop that is not trusted, if the peer is not trusted or the proxies keep to one line |
| | `OnlyAllowedOrigins` | `OriginsAreAllowed` | no response lets in an origin that the options do not name |
| | `LogsAsSent` | `LoggedAsSent` | each request is logged once, with the id that its client gets, and with its status but for the cases of section 4 |
| `ServiceProofs` | `Typed` | `TypeOK` | type correctness |
| | `CleanShutdown` | `CleanMeansDrained` | `Run` returns nil only when no handler runs and none can start |
| | `CloseContract` | `ProducersStopBeforeClose` | then nobody is in `TryWrite` when the buffer is closed, without `Timeout` |
| | `CompleteLog` | `LogIsComplete` | then the log is complete when `Consume` returns |
| | `UsesQueue` | | the service takes steps of `LogQueue` only |
| `SoakProofs` | `Exact` | `ReportIsExact` | the report is exact |
| | `LateBounded` | `LateAtMostOneEach` | at most one late request per worker |

The modules of a specification also have `Inductive`, `Spec => []IInv` (`RouterInv`
in `RouterProofs`, which has `FrozenAlways` for the frozen router). `OperatorProofs` has
the lemmas about paths and tries that `GroupsProofs` and `RouterProofs` share.

### The arguments

**Ring buffer.** `WindowInv` says that the unreleased positions are
`tail .. head-1` and never more than `Cap`. It needs `LocalsInv`: the
compare-and-swap compares `head` only, but the `tail` the producer checked can
only have grown since, so the check is still good when the swap succeeds. (When
`tail` was ahead of the loaded head, the wrapped difference is refused:
`WordSize > Cap`.) `OwnerInv` says that each position has one owner; two
positions of the window live in different slots (`SlotInjective`, the one
arithmetic fact, from the uniqueness of division with remainder). From both
follow `SlotInv` (the slot of a position to come is empty, hence no waiting) and
`BatchInv` (a batch consists of positions whose owners have committed: a slot
that is ready cannot be that of an earlier or a later lap). `DataInv` and
`HandedInv` then say what is in the slots and how far the handler has got.
None of the properties is inductive alone: order needs the data, the data need
the slots, the slots need the owners, the owners need the window. The refinement
also needs `FreshInv` (an offered event is not yet in the log) and `ContractInv`
(nobody is inside `TryWrite` after `Close`, when callers keep to that contract).
Each step is then one of `LogQueue` or a stutter: reserving accepts, the end of a
handler call hands over, the store of `tail` releases, a restart resumes.

**Router.** `RouterInv` ties each table to the routes that were accepted for its
host. `RootOK`: the nodes that carry a route are exactly the ends of the accepted
patterns, a wildcard node carries one, and (`TrieOK`) no node has two parameter
or two wildcard children. `StaticOK` and `CacheOK` do the same for the static map
and the cached Allow headers, `AcceptedOK` for the case mode. That `insert`
preserves this is `InsertKeeps`, from `InsertResult` of `OperatorProofs`, which says
what the walk of `insert` leaves behind. A refused one fails at a node that was
there before and so leaves nothing; the proof only needs that it adds no route.

`SearchBest` is the theorem about the search: in any trie that is `TrieOK`, for any
path, it finds the route that beats all others that match, and binds that route's
parameters to the parts of the path. It goes by descending induction over the
height of a node (`Downward`): what is found under a node is the best of those
under its static child, else of those under its parameter, else its wildcard,
and a branch that finds nothing leaves nothing. The properties follow by the
cases of `ServeHTTP`: a 405 names a method only if a search for it succeeds
(`AllowTrue`); a refused registration adds no route (`FailedInvisible`). For
`StaysServed`, an answer is always that of the best route of some method
(`AnswersBest`, for the static map, the two slash forms and the fallbacks). An
accepted registration adds one route, so that the best one after it is the best one
before or the new one, which then beats it (`BestTakesOver`; `BeatsOnce` says that
of two routes only one beats the other), and a search that succeeds in a trie
succeeds in a larger one (`SearchExtended`). `Registered` also needs what the two slash forms of a
path have in common: their parts (`OtherSlash`, `AlternateLower`), and that
`cleanPath` is idempotent and commutes with lower-casing (`CleanIsClean`,
`LowerClean`).

Functions such as `Parts`, `Bindings` and `cleanPath` are recursive functions over
naturals. The induction they need is had without the library's induction theorems,
which take an operator as a parameter: a set of naturals that has 0 and the
successor of each of its members has all (`UpTo`, from the least element outside
it), and a function defined by recursion exists and is unique (`Iteration`); the
induction hypothesis is then a set, not an operator.

**Frozen router.** `FrozenInv` says of a frozen router that there are tables, those
`Freeze` saw, of which it has the compressed copy, which are in order (`TableOK`)
for the routes that were accepted then, and which still answer as the router unless
a route was accepted since, as a registration that fails changes no answer. The work is in `FrozenFinds`: the search of a compressed trie
finds what the search of the trie finds. Every node the trie has and the copy has
not is on one chain to a kept node (`ChainEnds`); on a chain the search can only go
on or fail, so that what it finds at the start is what it finds at the end, or
nothing when the path leaves the chain (`ChainStep`). The copy compares the span of
a chain with the path as one string; without an empty segment inside the path, the
pieces of that string are the parts the trie compares one by one (`SpanOnWay`), and
with one they are not. That is the hypothesis of `Parity`, `RawPathsPlain`: a path
that is cleaned first satisfies it (`CleanGapless`), an escaped one need not, and
finding 2 is the counterexample. `FrozenReached` needs no hypothesis: the routes'
own paths are clean, and what the copy finds by any comparison is a route of the
trie (`FrozenFound`).

**Router locks.** `MutexInv`: a writer is alone, nobody has two places in the
mutex, and who has one is at a section. `ServeInv` says what each place of a
request means: it has looked in vain for what its earlier sections would have
found, among the routes that were there when it came; and routes only grow. A
request that is answered without a route was therefore not registered before.

**Groups.** `Separate` is the invariant that makes `append` in place harmless:
every list has an array of its own, which no other list shares and the program
does not hold. It is what the copy in `newGroup` is for; without it `MiddlewaresAsAsked` is not inductive. `RoutesUnder` needs that the text
of a prefix that is `join`ed is a prefix of the result, whatever slashes are at its
ends (`PrefixOfText`, `JoinedUnder`).

**Chain.** The chain is any sequence of layers, with at most one `Timeout` and one
router, and any number of requests. `Structure` says who has which object. The
goroutines of a request are on one stack of levels, up to where each of them is; the
writer at a level is what its layer gave it (`LinkOK`, `StatusOK`, `ParamOK`): the one
outside, the buffer, or a wrapper that is in no pool and wraps the writer one level out.
No two levels have one object (`OwnStatus`), and a `Params` object in use is in no
pool and has the values of the request that took it (`OwnParams`). Without the part
about pools the rest is not inductive: an object that is in its pool and
in use at once would be handed out again. The walk along `Unwrap` then stays on the request's own
stack and ends at its own connection or buffer (`EndsAt`), from which `SeesItsRequest`
follows: whatever `Param` finds on the way was put there by this request's router.

`HeadersOK` says of every header, of a connection or of a buffer, that it allows at
most the origin of its request, that this one is allowed, and that `Vary` goes with it.
It is stronger than the property, which is about the header that was sent: the header
may be sent at any later step, and that of a buffer may be copied over another one.

`LogsAsSent` relates an entry to a response that is often not there yet when the entry
is written: the log may be far inside, with layers around it that still answer. The
status that a wrapper keeps is that of the response, or neither has one (`Wrappers`):
the wrappers on the way to the connection hear all that the connection hears, and a
fresh one is made before anything was written. An entry then agrees with the response
if there is one, and else with what it will be, 200 when the goroutine is returning
and 500 when it is panicking (`Agreed`, in `Accounts`). A layer that ends a panic
answers with 500, which is what the logs inside have noted, or user code has decided
otherwise, and then the logs inside are those the property leaves out (`Overruled`); so
are those of a response that was flushed or had an informational status. Each entry's layer has been
passed on the way back, and no layer twice (`LoggedOnce`); a layer that was passed has
its entry, unless a layer outside it turned the request back (`Full`). When the Logger's writer may panic,
entries may be missing and their statuses differ; behind a `Timeout` they may too, and the property leaves those logs out.

**Service.** `RunInv` relates the server's flags to the place of `Run`; `WorkInv` a
request's place in its handler to its place in the log; `ConsumerInv` says that
what came out is the beginning of what was accepted, and all of it at the end when
nobody could still write. `ProducersStopBeforeClose` gives the ring buffer the
contract under which `Drained` is proved of it.

**Soak.** `CountInv`: the two counters add up to what was sent, and after
`wg.Wait` no worker is left. `LateInv` counts the workers that have passed the check
of the time together with the requests that came late.

TLC checked each invariant on an instance before it was proved, but for `FrozenInv`,
which asks for tables that no variable holds any more; its consequences `FrozenParity`
and `FrozenReachable` were. The `ASSUME`s are
about types and about what the names stand for: `Cap` and the batch limit are
positive (`NewRingBuffer` refuses 0, the limit is the capacity or 128), the word is larger than the capacity, `Lower`
maps a text to one that has no other lower-case form (as `lowerASCII` does), a text
passed to a group has at least one segment, `NoRoute` is no route, and the text
`Fresh` that fills parameters in `AcceptedIsReachable` occurs in no pattern. In `Chain`
a setup has at most one `Timeout` and one router (a goroutine is named by its request
and its side of the `Timeout`), a connection has an address, and no request has the
origin `*`, which no browser sends; nothing is assumed of `Handler` and `PanicHandler`. The names of pooled objects, `Objects`, are any
set of naturals. On an instance it is finite, and a step that needs an object waits for
a free one, where `sync.Pool` would make it; the theorems hold for infinite sets too,
with which no step waits.

### Only model-checked

* Liveness (`TryWriteEnds`, `AcceptedIsDelivered`, `ConsumeReturns`,
  `OperationsReturn`, `ServiceEnds`, `ListenerEnds`, `RunEnds`, `TimeoutBounds`): fairness
  is beyond the proof system.
* `RedirectSettles`, which is refuted (finding 1), and `FrozenParity` for escaped paths
  with an empty segment (finding 2).
* `ParamReachesHandler` of `Chain`, which is refuted (finding 4): what is proved is that
  a handler never reads another request's values, not that it reads its own.

## 6. Not modelled

* `MaxPathLength`, `normalizeHost`: checks and string functions in front of what is
  modelled;
* of the middlewares: formatting and sanitizing of log lines, byte counts,
  `BodySizeLimit`, the header lists of CORS preflights, the parsing of CIDRs, the
  `X-Forwarded-*` getters: pure functions of text, with no state;
* `Hijack`, `Push` and `ReadFrom` of the writer wrappers, which pass calls on to
  `net/http`;
* static files and auth interfaces: file I/O behind a prefix check, declarations;
* flag parsing and the choice of the client in the soak generator.

## 7. Plan

Done, in order of importance:

1. `LogQueue`, `RingBuffer`, its invariant, proofs and refinement.
2. `Paths`, `RouteTrie`, `Serve`, `Router`: registration and answers.
3. `FrozenRouter`: parity.
4. `RWMutex`, `RouterLocks`: interleavings of sections.
5. `GracefulServer`, `Soak`.
6. `Policies`, `Chain`: requests through middlewares, with pooled objects, panics
   and timeouts.
7. `Service`: server, access log and ring buffer.
8. `Groups`: middleware slices and prefixes.
9. Proofs of the safety of `Router`, `RouterLocks`, `Groups`, `Service` and `Soak`.
10. Proofs about the frozen router.
11. Proofs of the safety of `Chain`.

Every safety property that a passing run checks is proved; what is left of it is
liveness (section 5). Next would be the parts of section 6 with state of their own:
`BodySizeLimit`, and `Hijack` and `ReadFrom` of the writer wrappers.
