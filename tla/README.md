# netp2: TLA+ models, checks and proofs

netp2 is an L7 gateway in C++20 on Boost.Asio: one `io_context`, one acceptor
and one thread per worker, coroutines per connection, a route table that can be
replaced while traffic flows, and a set of resilience components that the
request path will use. This directory models its core logic. Every definition
is translated from the code; `PROJECT.json` gives the lines of each one.

## 1. Inventory

| Component | State | Operations | Interacts with | What makes it correct |
|---|---|---|---|---|
| `GatewayRuntime` (`src/runtime/gateway_runtime.cpp`) | `workers_` (io, spine, shard, thread), `started_` | constructor, `start`, `stop`, destructor | closes each spine's acceptor and stops each `io_context` from the owner's thread while the workers run | no joinable thread is ever destroyed; a successful start serves; shutdown ends and leaves nothing alive |
| `RuntimeSpine` (`src/runtime/spine.cpp`) | `acceptor_`, one coroutine per connection, `route_config_` | `start`, `stop`, `reload_route_config`, `accept_loop`, `handle_connection` | codec, route snapshot, metrics | one answer per request, from one snapshot, counted truthfully |
| `ConfigSnapshotManager` (`include/netp2/config/config_snapshot.h`) | `mutex_`, `current_` | `publish`, `load` | publisher threads, worker threads | an atomic register without dangling or leaked snapshots |
| `CircuitBreaker` (`src/resilience/circuit_breaker.cpp`) | state, two counters, `open_start_time_` | `allow_request`, `record_success`, `record_failure`, `reset` | requests whose results arrive later | transitions follow the thresholds and the cool-down; it recovers |
| `RateLimiter` (`src/resilience/rate_limiter.cpp`) | `tokens_`, `last_refill_time_` | `check_allow`, `reset` | the clock | never more than burst + rate x time; polling never starves, both up to rounding |
| `ConnectionPool` (`src/upstream/connection_pool.cpp`) | `pools_`: idle connections by host and port | `borrow_connection`, `return_connection`, `cleanup_idle_connections` | coroutines that hold connections, upstream peers | one owner per connection, bounded idle lists, reuse before connect |
| `MetricsRegistry` (`src/observability/metrics.cpp`) | weak list of shards, thread-local shard pointer | `create_worker_shard`, bind, unbind, `record_*`, `render_prometheus` | every worker thread | totals neither lost nor invented |
| `Http1Codec` (`src/protocol/http1_codec.cpp`) | llhttp parser, current header, error | `parse`, `reset`, callbacks | spine | a request is told as it was sent, whatever was parsed before; header limits hold exactly; a cut body is noticed |
| `RouteSnapshot` (`src/routing/route_snapshot.cpp`) | `rules_`, the trie of pointers into it | `add_rule`, `finalize`, `match` | spine, config manager | the best rule of the longest prefix is taken; no pointer dangles |
| `main` (`src/app/main.cpp`) | the runtime, a signal set | start, stop on a signal | runtime | covered as the owner in `GatewayRuntime` |

What is hard here: the owner's thread against the workers' threads in start and
stop; coroutines that interleave at every `co_await`; routes that change in the
middle of a request; requests that arrive in pieces, or several in one piece, at
a codec that is used again; a trie of pointers into a vector that may move;
reports that reach the breaker after its state has changed;
connections that age or die while they are pooled; a scrape that reads while
others write. The `hazards` of `PROJECT.json` list these at their lines.

The resilience components, the pool and the limiter are not yet called from
`handle_connection`, which uses `mock_upstream_call`. They are modelled on their
own, with the most general caller that their interface allows.

## 2. Modules

| Module | Models | Notes on the correspondence |
|---|---|---|
| `GatewayRuntime` | runtime, worker threads, accept loops | `pc` and `i` are the owner's position in `start`/`stop`; the three loops of `stop` and of the catch block are `CloseAcceptor`, `StopIo`, `JoinWorker`. A worker thread's steps are `RunThread`, `LoopBegin`, `Accept`, `AcceptError`, `LoopEnd`, `Finish`, `RunReturns`. |
| `Spine`, `MCSpine` | one spine | the coroutines run while `io` is `"running"`; `Stop` is `RuntimeSpine::stop`, `StopIo` the owner stopping the `io_context` after it. Each action is the stretch of a coroutine between two `co_await`s. `Dispatch` is everything from the completed read to the next suspension: counting, parsing, method check, `/metrics`, loading the snapshot and matching. Routes are rules of `Routing`, beginning with the constructor's `DefaultRules`, and are matched by `Match`. |
| `Http1Codec`, `MCHttp1Codec` | the codec | a call of `parse` is `Parse`, one action per llhttp callback, `Return`. Trailers come after the last chunk through the callbacks of headers, without a second `OnHeadersComplete`. `lex` is what llhttp, which is external, remembers between buffers; each callback is guarded by the position that its grammar requires. |
| `Routing` | the functions of `route_snapshot.cpp` | operators only: `SplitPath`, `HostMatches`, `IpInCidr`, the tries that `finalize` may build (`Tries`, with the lists that `std::sort` may leave, `SortedLists`), the walk (`FindLongestPrefixRules`), `Filter` and `Match`. A trie maps the names of its nodes, which are segment sequences, to lists of pointers. |
| `RouteSnapshot`, `MCRouteSnapshot` | building a snapshot | `AddRule` and `Finalize` in any order; the vector's buffers are numbered, a pointer names the buffer it points into. `match` changes nothing, so its property quantifies over all requests in every state. |
| `ConfigSnapshot` | `publish` and `load` | the two words of a `shared_ptr` are written and copied separately; a reference count is the set of its owners. |
| `SnapshotRegister` | what the manager promises | the abstract specification that `ConfigSnapshot` implements. |
| `CircuitBreaker` | the breaker and requests in flight | a request remembers the kind of admission it got, so late reports are visible. |
| `RateLimiter` | the bucket | tokens are counted in units, `Grain` to a tick at rate 1; a refill that adds something yields any number of units within `Rounding` of the exact sum. `OpenWindow` is an observer, not code. |
| `BreakerErrorRate` | an observer of the breaker | counts the reports that a closed breaker gets, window after window. |
| `ConnectionPool`, `MCConnectionPool` | pools and borrowing coroutines | the loop of `borrow_connection` is `BorrowConnection`, one `PopHealthy` or `PopUnhealthy` per turn, `StartConnect` on an empty pool. It does not suspend, so no other task moves meanwhile (`InLoop`), but the clock does and peers close. |
| `Metrics` | the registry | each `fetch_add` and each relaxed load is a step. |
| `Subsequences` | what `erase`/`remove_if` and filtering loops keep of a vector | `At(seq, positions)`: the elements at a set of positions, in order. |
| `MCServing`, `MCRequest`, `MCWorker` | two or three components checked in one run | the components share no state: the variable `part`, chosen at the start, says which of them moves, and the others stay as they began. So the behaviours are those of each component alone, with its own fairness; names such as `BucketSpec` and `PoolSpec` keep them apart. |
| `*Proofs` | theorems about the module of that name; `LedgerProofs` is about `RateLimiter` and `Metrics` | see section 5. |

Definitions whose name holds an underscore, such as `JoinWorker_Skipped`, are
mutations: the same operation with a plausible bug. They take no part in any
specification; each is used to see that a property fails when the code is wrong.

Abstractions worth knowing:

* `acceptor_.close()` from the owner's thread is one atomic step between two
  accepts. In the code the acceptor is not synchronised, so a concurrent
  `async_accept` is a data race inside Asio's socket. Asio is external and this
  race is not modelled: no property here speaks for what it may do.
* `io_context` is external: `run()` returns when it was stopped or has no work
  left, and a `co_spawn` on a stopped context runs nothing.
* In `Spine` a request is what the codec makes of the first segment read; how it
  comes to that is `Http1Codec`. End of stream without a byte is `EmptyRequest`: llhttp reports no error and method 0.
* The executor affinity checks compare the context of a socket or coroutine with
  `io_`, on which all of them are created; they cannot fail.
* Times: the breaker's clock is relative to `open_start_time_` and saturates at
  the timeout; the pool counts idle time in units that stop one above the
  timeout. Beyond these points the code cannot tell two times apart.
* The limiter's doubles: rounding to nearest is monotone, so a refill never takes
  tokens away; each refill of a positive interval may be off by `Rounding` units
  either way (interval, product and sum are each rounded); adding 0.0, the cap and
  subtracting 1.0 from at least 1.0 are exact. In the program the error of
  a refill is a few units in the last place of a double; in the run it is a quarter
  of what a tick yields, so that it decides.
* A text is a sequence of pieces. In the codec all pieces have length one, so
  that limits of a few pieces stand for limits in bytes; in `Routing` texts are
  cut at every position at which the code can cut them, so that prefix, suffix
  and equality of pieces agree with those of the characters.
* llhttp makes no further callback after an error and repeats the error until
  `llhttp_reset`; it rejects a second or non-numeric Content-Length and one beside
  a Transfer-Encoding. Upgrades are left out. It matches
  the framing names itself, across buffers; in the model a framing name is one
  piece, and a name that goes on in the next buffer is an ordinary one.
* A `RouteRule` stands for its own target. `finalize` may leave rules of equal
  priority in any order, as `std::sort` promises no more.
* Calling `add_rule` after the last `finalize` and then `match` reads freed memory
  when the vector has moved. The header confines `add_rule` to the build phase;
  the properties are stated for snapshots that keep to it (`Ready`).
* Byte counters count one unit per record; the Prometheus text is its totals.

## 3. Runs

| Run | Question | Bounds | Distinct states |
|---|---|---|---|
| `gateway_runtime` | do start, failed start, stop, restart and destruction keep their promises against running workers? | 2 workers on machines with 1 or 2 cores, 2 clients, 2 starts, 1 accept error | 166,630 |
| `serving` | `Spine`: is every request answered once, from one snapshot, and counted truthfully, until the `io_context` is stopped? | 2 connections, 2 snapshots that differ both ways, 5 kinds of request | 155,369 in all |
| | `ConfigSnapshot`: is the manager an atomic register that never exposes or leaks freed memory? | 2 publishers, 2 readers, 4 blocks | |
| | `CircuitBreaker`: do the transitions follow thresholds and cool-down, and does the breaker recover? | 3 requests, thresholds 3 and 2, timeout 2 s of 2 ticks | |
| `request` | `Http1Codec`: is a request told as it was sent, are the limits exact, is a cut body noticed? | at most 9 callbacks per call, any number of calls; 3 ordinary and 2 framing spellings of names, 5 pieces and 2 headers allowed, bodies of 0 or 2 | 3,940,735 in all |
| | `RouteSnapshot`: is the best rule taken whatever the build sequence, and does no pointer dangle? | 3 rules out of 6 at 4 nodes, 3 hosts, 7 paths, 4 addresses | |
| `worker` | `RateLimiter`: does the bucket conform in every window and keep what a patient caller has earned? | rate 2, burst 3, 5 ticks per second, 10 ticks, 2 units to a tick at rate 1, refills off by up to 1 unit | 604,711 in all |
| | `ConnectionPool`: does every connection have one owner, and is none wasted? | 3 coroutines, 2 keys, 3 connections, limit 2, idle timeout 2 | |
| | `Metrics`: is a scrape right that runs beside the workers? | 2 workers, 1 further thread, 2 records of 4 kinds | |

The bounds are the smallest at which each case happens. Two workers give a
failure at the first and at the second worker, and one core gives the refusal of
`start`; two connections give every interleaving of a pair of coroutines, which
share only the routes and the counters; two starts give the restart. Two
publishers and two readers exercise both exclusions of the lock, and four blocks
let memory be used again while a reader still holds the old one. A rate of 2 with
5 ticks per second makes every refill a fraction of a token, and one unit of
rounding lets two refills of a tick fall short of, or exceed, what they earn by
half a tick. Three borrowers and three connections fill a pool of two and leave
one to be refused, and let the loop meet fit and unfit connections in either
order. Two records let one fall in the shard already read and one in the shard
still to be read; of the three status classes two are taken, as they are alike to
the rendering. Nine callbacks hold a message with three headers, which exceeds
either limit, one with a header and a chunked body or trailers, and the end of
one message with the beginning of the next. Three rules put two on one node,
with equal and different priorities, beside a deeper one whose parent has none.

Deadlock is checked in the passing runs. `GatewayRuntime` stutters explicitly once
the runtime has been destroyed, and the spine in `MCServing` may stutter, because
its finite set of connections comes to an end. `worker` uses the symmetry of tasks
and of connections; it checks safety only.

Eight runs show where the code and its documents disagree, each by the violation
of what the document says:

* `circuit_breaker_stale_reports`: the state diagram of
  `docs/architecture/05-upstream-and-resilience.md` lets probes decide the
  half-open state; the code lets any late report decide it.
* `breaker_error_rate`: the same diagram opens the breaker when the error rate
  exceeds a threshold, and line 36 forbids to degrade to a single threshold. The
  code opens after `failure_threshold` failures in a row, and one success between
  them starts the count anew. `OpensOnlyAfterStreak` states what the code does.
* `connection_pool_limit`: `max_connections_per_host` is documented as the
  maximum number of connections of a host; the code limits the idle ones.
* `connection_pool_dead_peer`: dead connections are to be dropped before reuse;
  the check only sees the local end of the socket.
* `route_host_first`: `docs/architecture/04`, line 35, gives the order host, path,
  address. The code compares hosts after the path has chosen a trie node, so a rule
  for the host at a shorter prefix is not tried. `MatchIsBest` states what the code
  does.
* `route_cidr16`: the comment in `ip_in_cidr` promises to match two segments;
  `10.1.0.0/16` is a test of the text's beginning and accepts `10.11.0.1`.
* `codec_limit_status`: line 37 of `docs/architecture/14-phase-c-implementation-guide.md`
  asks for 400 or 431 when a header limit is exceeded. The callback returns -1,
  llhttp reports a user error, and `parse` checks that before `parse_error_`: it
  returns `kInternalError`, which is answered 500. `LimitsExact` says only that
  the call stops exactly at the limit and does not accept.
* `codec_headers_told`: `request_context.h` speaks of all headers. A name that
  follows an empty value is appended to the name before it, so a whole and accepted
  message may be told wrongly.

Further observations about the codec and the router are not the subject of a run:

* `kNeedMoreData` is never returned, although line 29 of the phase C guide asks for
  it. A request cut before the end of its headers is reported `kSuccess` with what
  has arrived (or `kMissingHost`), and a following call starts with an empty
  context; only a cut body of announced length is noticed.
* The limits hold for each call: a request spread over several calls may exceed
  them in sum.
* Trailers after the last chunk are merged into the headers, a trailer `Host`
  overwrites the request's, the last trailer is not saved, and none is counted
  against `max_headers`. Two requests in one buffer come out as one: targets are
  appended, headers merged, the method is that of the last. A chunked body keeps
  its last chunk. `ContextFaithful` does not speak of these messages (`Plain`,
  `WholeMessage`), nor of names after an empty value, for which see
  `codec_headers_told`.
* `*.x.org` is a test of the text's end and accepts `badx.org`. The root rule `/`
  covers the root path only, not the paths below it.

Another concerns the runtime: `start()` after `stop()` returns normally and
sets `started_`, but the acceptors stay closed and the `io_context`s stay
stopped, so the second generation of threads ends at once. `FirstStartServes` is
therefore about the first start; that the second one is still joined and cleaned
up is part of `NoTerminate` and `QuietAfterShutdown`.

## 4. Fairness

* `GatewayRuntime`: weak fairness of each thread's steps, because the operating
  system schedules every thread, and of each accept that is ready. No fairness
  for clients, for `Finish` (a client may stay silent for ever), or for the calls
  of `start`, `stop` and the destructor.
* `Spine`: weak fairness of the handlers that are ready on the worker's
  `io_context` while it is not stopped: `io->run()` executes them, and after
  `io->stop()` nothing resumes a coroutine. `RequestAnswered` therefore ends with
  an answer, a reset or the stopped context. None for clients, `stop` and reload.
* `ConfigSnapshot`: weak fairness of the steps of a thread that has begun its
  call. `std::shared_mutex` promises nothing to those who wait for it, and
  `RetiredIsReclaimed` does not need it.
* `CircuitBreaker`: time passes, admitted requests report, and requests keep
  coming. The last one is the claim that the gateway has traffic: without it an
  open breaker stays open, since only `allow_request` ends that state.

`RateLimiter`, `ConnectionPool`, `Metrics`, `Http1Codec` and `RouteSnapshot` have
no liveness property and no fairness.

## 5. Proofs

TLAPS checks the following for every value of the constants. In each case the
invariant of interest is not inductive, and the module's `IInv` strengthens it.

* `GatewayRuntimeProofs`: `TypeOK`, `NoTerminate`, `FirstStartServes`,
  `QuietAfterShutdown`, for every number of workers and machine. `IInv` says
  which threads can be joinable at each position of the owner's loops
  (`ThreadsAccounted`), that before any shutdown each existing thread has its
  accept loop to run (`AliveBeforeShutdown`), how far a shutdown has come
  (`ShutdownProgress`), and that only open acceptors have a backlog.
* `ConfigSnapshotProofs`: `SnapshotTypeOK`, `LoadedIsProtected`, `CurrentIsAlive` and the
  refinement `IsAtomicRegister`, for any number of threads. `IInv` ties program
  counters to the lock (`LockState`), says that the words of `current_` differ
  only in the middle of a swap (`WordsAgree`), and what each thread's own
  `shared_ptr` holds at each point. The register's value changes at `SwapPtr`;
  a load takes effect at `CopyCtl`; all other steps are stutters.
* `CircuitBreakerProofs`: `BreakerTypeOK`, `CountersBelongToState`,
  `OpensOnlyAfterStreak`, `ClosesOnlyAfterSuccesses`, `CoolDownRespected`, for
  all thresholds (0 included), timeouts and clock resolutions. `IInv` relates the
  counters to the streaks of reports, and the code's clock to the time since the
  breaker really opened; `TruncatedElapsed` is the fact about `duration_cast`.
* `LedgerProofs`, the limiter: `BucketTypeOK`, `WindowConformance`,
  `ReadyAfterRefill`, for every rate, burst, resolution and bound on the rounding.
  `BucketIInv` is a ledger: granted tokens plus those in the bucket never exceed a
  burst plus the yield up to the last refill plus one rounding error per refill,
  and the bucket holds all that was earned since the last grant but one such error
  per refill. The margin in both is needed: ten refills of a hundredth of a second
  at rate 10 make 0.9999999999999999, which the code rejects.
* `LedgerProofs`, the registry: `RegistryTypeOK` and `RenderedTotalsAreBounded`,
  for any number of workers, observers and records. `RegistryIInv` says that each
  worker has one shard (`ShardsApart`), that the additions made and those still
  owed by a running `record_` call are never more than the calls
  (`RecordsCounted`), and that the bounds on the printed totals hold in the middle
  of a rendering for the shards passed so far, which are one more for a field
  already loaded than for one still to be loaded (`SumBounded`, `Passed`).
  An expired shard adds nothing to the lower bound, and counting only raises the
  upper one.
* `ConnectionPoolProofs`: `PoolTypeOK`, `SoleOwner`, `IdleWithinLimit`, and the action
  properties `ReuseBeforeConnect` and `HealthyNeverDiscarded`, for every set of
  tasks, keys and connections and all limits. `IInv` adds what a task at each
  point holds. `LoopInv` is the invariant of the loop of `borrow_connection`: what
  was fit at the call and has stayed so is still in the pool while the loop runs;
  that `StartConnect` finds the pool empty then gives `ReuseBeforeConnect`. The first half is about `At`: what `remove_if` keeps of a pool of
  any length has its order, its distinctness and nothing else.
* `SpineProofs`: `TypeOK`, `MetricsMatchConnections`, `AnswerFollowsRoutes`, for
  every finite set of connections, all requests and every sequence of reloads.
  `IInv` says what each position of a coroutine implies for its request, its
  status and the snapshots that it may have met (`ConnectionState`); the counters
  are cardinalities, so each action needs one fact about a set that gains a member.
* `RouteSnapshotProofs`: `RoutesTypeOK`, `TrieIsCurrent`, `MatchIsBest`, for all rules,
  priorities, paths, hosts and clients. The invariant is that a current trie is
  one of `Tries(rules, gen)`; the work is in the operators: that a sorted list
  holds each rule of its node once and no other, that the walk ends at the longest
  prefix that has rules, and that the first rule accepted in a sorted list has the
  best priority.
* `Http1CodecProofs`: `TypeOK`, `LimitsExact`, `CutBodyRefused`,
  `ContextFaithful`, for every limit, all texts and calls of any number of
  callbacks. `IInv` ties the current header, its counters and llhttp's position to
  the callbacks heard in this call. `ContextFaithful` compares the context with
  `Read`, which reads the callbacks from left to right; as that is a recursive
  function, the invariant `MessageTold` says instead what line, headers and body
  are after each callback, and `MessageGoesOn` shows that one more callback takes
  both one step further.

Facts about a recursive function (the sums of `Metrics`, the reader of
`Http1Codec`) and about positions are proved by induction in the form of a set:
`NatSetInduction` says that a set of naturals that holds 0 and every successor is
`Nat`, which follows from the well-foundedness of `<`, so that no theorem with an
operator as its parameter is needed.

The assumptions are the named `ASSUME`s of the modules: natural thresholds, rates,
limits and bounds, at least one worker, a positive clock resolution; a positive grain and any bound for rounded tokens; distinct
names for threads and for `None` or `NoThread`; finitely many connections; requests whose
parse result is one that `parse` returns; rules whose path is a text and whose
priority is a number; lengths that `std::stoull` returns natural. The code gives
all of them by its types.

With these, every invariant and every action property of the passing runs is a
theorem, and so is the refinement. Only model-checked are the liveness
properties (`ShutdownCompletes`, `BacklogAccepted`, `RequestAnswered`,
`RetiredIsReclaimed`, `Recovers`), since the
prover does not reason about fairness and `ENABLED`.

## 6. Not modelled, and the plan

Done so far: runtime, spine, snapshot manager, breaker, limiter, pool, metrics,
codec and router, with the spine matching by the router's operators. Next:

1. Proofs of what the models promise beyond the checked properties: that a
   rendering alone (no step of another thread in between) prints exactly the
   counts of the live shards, and that the spine's counters are those of a
   registry with one shard.
2. `Spine` over `ConfigSnapshot`'s register rather than a version number, and the
   runtime's shutdown, with its loops, falling into its connections.

Not planned: response formatting and the Prometheus text (layout only), the
getters, build files and scripts, llhttp and Asio themselves (external), and the
subsystems that exist only in `docs/architecture` (TLS, HTTP/2, active probing,
tracing, timeouts). The code has no timeout on reads and applies none to
connects, ignores `route_key` in the limiter, and forgets the counts of destroyed
workers; the hazards that follow from this are listed without a property.
