# Smart-Provider: a TLA+ model

Smart-Provider is a rate-limiting proxy for chat completion APIs.  HTTP
handlers put requests into a bounded queue; one worker takes them out one by
one, asks a circuit breaker and a sliding-window rate limiter, calls the
upstream through litellm and answers each client through a Future (plain
requests) or a channel of chunks (streams).  This directory holds TLA+ models
of that program, TLC runs that check them and TLAPS proofs about them.
Paths below are relative to `src/src/`; `docs/` and `openspec/` are in `src/`.

## 1. Inventory

| component | state | operations | correct when |
|---|---|---|---|
| rate limiter, `limiter/rate_limiter.py` | `_timestamps`, `_last_sent_at` | `acquire`, `is_allowed` | no window holds more than `rpm` permits; permits are `min_interval_ms` apart; a computed sleep is long enough; everybody gets a permit in the end |
| circuit breaker, `circuit_breaker/circuit_breaker.py` | state, failure count, opening time, probe flag | `can_execute`, `record_success`, `record_failure`, `record_exception` | no call while open, one probe while half open, recovery after the timeout, only upstream failures count |
| request queue, `queue/queue.py` | bounded FIFO | `enqueue`, `dequeue` | bounded; what is accepted is taken |
| stream handle, `ingress/stream_handle.py` | unbounded item queue, closed, cancelled | `put_chunk`, `put_error`, `close`, `cancel`, iteration | exactly one end, after all chunks; a reader is released |
| request processor, `processor.py` | `_futures`, the worker task | `submit`, `submit_stream`, the worker loop, `drain`, `stop` | one answer per request, no answer lost, every path back to the loop |
| forwarder, `forwarder/forwarder.py` | none (one coroutine per call) | `forward_async` with retries, `stream_async` | attempts bounded in time and number; upstream rate; every upstream error counted |
| shutdown, `shutdown.py` and the lifespan of `ingress/app.py` | a flag | start, drain with a deadline, stop | nothing admitted afterwards; established work finishes |
| ingress, `ingress/app.py` | none beyond the suspended handlers | `create_app`, the middleware, `chat_completions`, `_sse_generator`, probes | a client is answered once, with the status that tells what became of its request; every handler returns; nothing enters after the shutdown was announced; a disconnect reaches the worker |
| metrics, `observability/metrics.py` | gauges and counters | `record_*`, `snapshot` | gauges equal the state they describe; counters equal what happened |
| configuration, `config/` | immutable | `load_config` | bounds; which env file and which source of a setting wins; a bad start fails |
| adapter and models, `ingress/adapters`, `ingress/models.py` | none | `adapt` | a body that is not well-formed never reaches the queue |

**How they interact.**  The handlers call `RequestProcessor.submit*`, which
checks the shutdown flag and enqueues.  The worker (`_run`) dequeues, checks
the age of the request, asks `can_execute()`, sleeps in `acquire()`, awaits the
forwarder, and records the outcome in the breaker, the metrics and the Future or
handle.  A handler waits on its Future with `wait_for`; the SSE generator waits
on the handle's queue and cancels the handle when the client leaves.  The
lifespan sets the flag, drains and cancels the worker.

**What is hard.**  There are no threads; the interleavings are those of
coroutines at the awaits that really suspend.  Several checks are made before
such an await and used after it: the breaker's permission and the age of the
request before the limiter's sleep, the breaker state used for the metrics, the
limiter's own wait.  A client gives up while the worker holds its request; a
stream is cancelled while the worker waits for a chunk; the shutdown cancels the
worker wherever it is.  `PROJECT.json` lists these hazards line by line with the
properties that cover them.

## 2. Modules

| module | models |
|---|---|
| `Optional` | `None` |
| `Limiter` | the limiter's decisions as operators on its two fields |
| `RateLimiter` | the limiter used by several coroutines: `Attempt` (one iteration of `acquire`), `Cancel`, `IsAllowed`, `Tick` |
| `SlidingWindow` | abstract: what a rate limiter promises |
| `Breaker` | the breaker as operators on a record of its four fields |
| `Handle` | the stream handle as operators on a record |
| `Metrics` | the gauges and counters of `MetricsCollector` that the pipeline updates, as operators on a record |
| `RequestService` | abstract: what the processor promises its callers |
| `Pipeline` | handlers, queue, worker, forwarder, SSE generators and shutdown together, with `Limiter`, `Breaker`, `Handle` and `Metrics` as parts; it implements `RequestService` |
| `EnvFile` | `config/loader.py` and the sources of a setting, as operators |
| `Ingress` | the HTTP edge before `RequestService`: start, middleware, body checks, handlers, statuses, probe |
| `MCRateLimiter`, `MCPipeline`, `MCIngress` | what TLC needs: symmetry, the command lines to try |
| `LineProofs` | lemmas about a line: its tail, a newcomer, the least of a set of positions |
| `LimiterProofs` | lemmas about the operators of `Limiter` |
| `PartsProofs` | lemmas about the operators of `Breaker`, `Handle` and `Metrics` |
| `RateLimiterProofs` | the theorems about `RateLimiter` |
| `PipelineProofs` | the forms a step of `Pipeline` takes; the worker and the breaker |
| `OutcomeProofs` | what becomes of a request of `Pipeline`: Futures, handles, gauges, age, rate |
| `ServiceProofs` | `Pipeline` implements `RequestService` |
| `IngressProofs` | the theorems about `Ingress` |

`Limiter`, `Breaker`, `Handle` and `Metrics` hold no variables, so that the same
definitions serve a component on its own and the pipeline that uses it.  Some
definitions headed "Defects" are wrong variants of the definition they precede
(an off-by-one, a forgotten reset, a dropped guard); no specification uses them.
They are substituted for the real ones, one at a time, to confirm that each
property notices.

### What is one step

A step is what runs between two awaits that can really suspend.  The
`asyncio.Lock`s of the limiter and of the metrics are never held across such an
await (`rate_limiter.py:61-90` leaves the lock before it sleeps;
`metrics.py:154-224` only assigns under it), hence they are never contended and
acquiring one does not suspend.  The suspension points are the queue's `get`,
the sleep in `acquire()`, the upstream call, the backoff sleep, the next chunk,
the handler's `wait_for`, the generator's `get`, and the sleep in `drain()`.  In
`Pipeline` the variable `worker` is the suspended coroutine: where it is
(`idle`, `sleeping`, `calling`, `backoff`, `connecting`, `streaming`,
`stopped`), for which request, after how many attempts or chunks, until when,
and `prev`, the local `previous_breaker_state`.

| action of `Pipeline` | code |
|---|---|
| `Submit`, `SubmitStream` | `processor.py:64-160`, `queue.py:37-43` |
| `ClientTimeout` | `ingress/app.py:291-303` |
| `Dequeue` (three outcomes: too old, denied, on to the limiter) | `processor.py:226-296` |
| `WakeUp` | next iteration of `rate_limiter.py:59-90` |
| `Reply`, `AttemptTimesOut`, `UpstreamRaises`, `Retry` | `forwarder.py:204-250, 299-323`, `processor.py:312-338, 382-410` |
| `Connect`, `ConnectTimesOut`, `StreamRaises`, `Chunk`, `ChunkForNobody`, `StreamEnds` | `forwarder.py:273-297`, `processor.py:340-380` |
| `StartReading`, `Read`, `Disconnect`, `DisconnectEarly` | `ingress/app.py:284-289, 342-369` |
| `StartShutdown`, `FinishDrain` | `ingress/app.py:126-137`, `processor.py:190-224` |
| `ClockStep` | a fault: the wall clock is set |

Exceptions are the litellm classes the code names, and `Other`.  Three lists in
the source sort them, each for itself: what the forwarder retries and counts
(`RetryableExceptions`, `RecordUpstreamError`), what the breaker calls a failure
(`FailureExceptions`), and which status the client is given (`StatusOf`).  The
constant `Faults` is the set the upstream raises in an instance.

| action of `Ingress` | code |
|---|---|
| `Build`, `Start` | `config/loader.py`, `ingress/app.py:91-129` |
| `Arrive` | the middleware, `app.py:146-162` |
| `TurnAway`, `Enter` | the body is in: `app.py:233-292`, `adapters/openai.py` |
| `Respond`, `Timeout` | `app.py:291-322, 372-390` |
| `EndStream`, `Disconnect` | `app.py:342-369` |
| `Serve`, `Lifespan` | the worker and the shutdown, as `RequestService` has them |
| `Ready` | `/ready`, `app.py:207-220` |

`Arrive` and `TurnAway` or `Enter` are two steps because `await request.json()`
lies between them; `Enter` looks at the shutdown flag again because `submit` does.
What the body turned out to be is kept in `form`, for `StatusTellsTheTruth`: text
that is no JSON (`garbled`), JSON that is no object (`array`), or an object.
`Timeout` has two cases.  As a rule the Future is pending and `wait_for` cancels it;
since Python 3.12 `wait_for` may also give up in the iteration of the loop in which
the Future was done, and then the client is told 504 of an answer that was there.

### The abstract service

`RequestService` is the contract between the processor and the edge, on one page:
a bounded line, one request in hand, an answer for each client.  It has no clock,
limiter, breaker, retry or chunk.  `Pipeline` maps its state to it
(`Service == INSTANCE RequestService WITH ...`): the line is the queue, the
request in hand is the worker's, `sent` is whether the worker is past the limiter,
a plain client's answer is its Future, a stream's answer is what its handle and
its reader make of it.  `ServiceRefined` says that every step of the pipeline is a
step of the service or none at all; `ServiceServes` says that it keeps the
service's liveness.  `Ingress` EXTENDS `RequestService`, so what it shows of the
edge holds for the pipeline behind it.

### Time

Instants are integers.  In `RateLimiter` nothing is assumed about scheduling
except a bound: the event loop may resume a sleeper up to `MaxLag` late, and the
clock may move by up to `MaxSlip` between the two reads of one iteration (which
is what the "clock skew" branch is for).  The proofs hold for all values of both.
In `Pipeline` the loop is prompt at the granularity of a time unit: the clock
moves only when no task is ready and no timer is due (`Ready`).  All orders of
the steps of one instant are still explored.  `enqueued_at` is wall-clock time in
the code, and so it is here: `now + skew`.  `ClockStep` sets `skew` once, to
anything within `MaxSkew`; every other deadline is monotonic.

## 3. Runs

| run | shows |
|---|---|
| `limiter_shared` | three callers, rpm 2, window 5, interval 2, slip 1, lag 1: `WindowRespected`, `MinIntervalRespected`, `RemembersTheWindow`, the inductive invariant `IInv`, `IsAllowedAgrees`, `ResleepsOnlyIfOvertaken`, the refinement `PromiseKept`, and `EveryAcquireReturns` |
| `pipeline_plain` | three plain requests, queue of two, rpm 1, a clock step: `InFlightIsPermitted`, `BreakerConsistent`, `FuturesMatchWork`, `MetricsTellTheTruth`, `UpstreamWithinRpm`, `ForwardedBeforeStale`, `AnswerIsFinal`, `ServiceRefined` |
| `pipeline_streams` | two streams and a plain request, disconnections and shutdown anywhere: `TypeOK`, `InFlightIsPermitted`, `MetricsTellTheTruth`, `HandlesEndOnce`, `NoAdmissionInShutdown`, `HalfOpenIsLeft`, `ServiceRefined` |
| `pipeline_fair` | `AcceptedIsTaken`, `ReadersAreReleased`, `ServiceServes`, `AttemptsAreBounded`, `AnswerIsFinal`, with two retries, a doubling backoff and an opening breaker |
| `ingress` | two plain requests and a stream at the edge, after any start: `HandlersAreOwed`, `StatusTellsTheTruth`, `UnreadyMeansClosed`, `BootHonoursTheRequest`, `EveryHandlerReturns` |
| `pipeline_retries`, `_queue_timeout`, `_recovery`, `_shutdown`, `_disconnect`, `_openings`, `_uncounted` | the first seven disagreements of section 6; each must be violated |

**Bounds and why they suffice.**  The limiter's run has room for six permits,
more than two windows' worth, so that permits expire, are overtaken, and the
stale branch is taken.  The plain run has a queue of two, a forwarder that takes
up to 3 units and requests that may wait 2: refusals, queue timeouts, denials by
an open breaker, a probe, and a request that waits in the limiter while the
breaker's state matters all occur, and `ForwardedBeforeStale` is tight there (its
bound lowered by one is violated).  `pipeline_fair` has two retries because the
second backoff is the first that has doubled: a request is tried three times, with
backoffs of 1 and 2 units, while its client leaves after 1, and its clock ends when
the last of these attempts must have ended.  `HalfOpenIsLeft` needs the three requests
of `pipeline_streams`: one that opens the breaker, a probe whose client leaves, and
the one behind it.  Every action fires in some run.  `LastArrival`
is the last instant at which a request may arrive and `MaxTime` lies far enough
behind it for all deadlines (client, forwarder, recovery, drain) to pass.
The edge's run starts from every command line of up to two arguments (a flag and
its value, or two glued flags), with two files besides the default: that is every
branch of the scan, since it looks at an argument and its successor only.  A line
of one and a worker's hand for three requests is the least with which a refusal,
a wait and a request in service meet.
`MaxChunks` bounds the chunks of a stream; one is enough for a chunk before an
error, an end or a disconnection.  `LastStart` and `MaxGrants` bound how many
`acquire()` calls are started.  `SYMMETRY` permutes callers or requests, which
the specifications never distinguish, and is used only with invariants and
properties of single steps, never with liveness.  Deadlock is checked: the
pipeline may stop only in `Quiet` (nothing waits, the clock is at its bound); in
the limiter, `IsAllowed` is always enabled, as the method is.

**Fairness.**  `LoopFairness` says what asyncio does: a ready task runs and a due
timer fires (`Dequeue`, `WakeUp`, `Retry`, the deadline of `wait_for`,
`ClientTimeout`, `FinishDrain`), a response generator is driven, and time
passes.  It does not oblige the upstream to answer, nor a client to stay or to
leave.  `UpstreamFairness` is an assumption about the environment, not about the
code: an upstream stream comes to an end.  `AcceptedIsTaken` and
`ReadersAreReleased` need it, because no timeout applies between chunks
(`forwarder.py:258-260`); `pipeline_disconnect` shows what happens without it.
In `Ingress` the same is said of the handlers (`Respond`, `Timeout`,
`EndStream`) and, of the worker, that it comes back to its line (`Serve`), which is
what `ServiceServes` shows of the pipeline; nobody is obliged to call, to send a
body, to probe or to shut down.
In the limiter, sleepers are served in no order, and an endless supply of
newcomers could overtake one for ever.  `EveryAcquireReturns` is about a finite
burst (`MaxGrants` calls), which is its honest content: once arrivals pause,
nobody is left behind.

## 4. Proofs

### The limiter

`RateLimiterProofs` proves, for any set of callers and any values of `Rpm`,
`Window`, `MinInterval` and of the bounds, within the assumptions of
`Optional`, `Limiter` and `RateLimiter`:

| theorem | statement |
|---|---|
| `Invariant` | `Spec => []IInv` |
| `TypeCorrect` | `Spec => []TypeOK` |
| `DequeIsTheWindow` | `Spec => []RemembersTheWindow` |
| `Spacing` | `Spec => []MinIntervalRespected` |
| `WindowBound` | `Spec => []WindowRespected` |
| `KeepsPromise` | `Spec => PromiseKept`: the limiter implements `SlidingWindow` |
| `WaitsSuffice` | `Spec => []SleepersAreRested`: the sleep that `acquire` computes is long enough |
| `NeverResleepsAlone` | `Spec => ResleepsOnlyIfOvertaken` |
| `AllowedAgrees` | `Spec => []IsAllowedAgrees` |

`WindowRespected` counts permits in a window and is not inductive: the code
never counts, it compares the oldest entry of a deque.  `IInv` says why that is
enough.  The deque is the suffix of the history of all permits and holds at most
`Rpm`; what it has dropped lies outside the window (`RemembersTheWindow`); the
history is ordered (`Ordered`); a permit comes at least `Window` after the one
`Rpm` places before it (`RpmApart`); and `_last_sent_at` is the last permit, also
after the deque has forgotten it (`LastIsLatest`).  The operators come first:
`CleanupPops` and `CleanupLeaves` say what `_cleanup` does to any deque (the
existence of its stopping point is `LeastElement`, from well-founded induction),
`TryAcquireEffect` what an iteration does.  Then `DropKeeps` and `PermitKeeps`
show that dropping expired entries and appending a permit keep `IInv`, and
`AttemptKeeps`, `ElseKeeps` and `NextKeeps` follow for the actions.
`InvariantBoundsWindows` derives the count: by `RpmApart`, the indices of the
permits in one window span fewer than `Rpm` places (`SpanBound`).
`PermitIsGrantable` is the step of the refinement.

`ResleepsOnlyIfOvertaken` needs a second invariant on top of `IInv`.
`SleepersAreRested` says of each sleeper that nobody has overtaken that, as soon
as its sleep is over, an iteration of `acquire` would grant: the computed wait
covers the window and the interval (`SleepIsLongEnough`), popping expired entries
does not undo that (`CleanupKeepsRested`), and a permit for somebody else marks
every sleeper as overtaken.  `AllowedIsGranted` compares `is_allowed` with an
iteration that reads the clock once.

Assumptions: the bounds that `config/schema.py` puts on the parameters, and that
`None` is not a number.

### The edge

`IngressProofs` proves, for any plain requests and streams, any capacity of the
line, any errors, files and command lines of any length, within the assumptions
of `Optional`, `RequestService`, `EnvFile` and `Ingress` (the two kinds of requests
are disjoint, the capacity is positive, an error is not the name of a state of
waiting, `None` and the empty string are not paths, nor `None` the content of a
file or the form of a body, and a command line is a sequence of arguments):

| theorem | statement |
|---|---|
| `Invariant` | `Spec => []IInv` (the `IInv` of that module) |
| `TypeCorrect` | `Spec => []TypeOK` |
| `HandlersOwed` | `Spec => []HandlersAreOwed` |
| `StatusTrue` | `Spec => []StatusTellsTheTruth` |
| `ClosedStaysClosed` | `Spec => UnreadyMeansClosed` |
| `BootHonours` | `Spec => BootHonoursTheRequest` |

`StatusTellsTheTruth` says nothing of the status of a body that is no JSON or no
object: the documents want 400 and the code answers 500 (section 6).  Of a client
that never entered it says 503 when the flag turned it away and 400 or 404 when its
body was an object.  It speaks of handlers that have ended, while the worker goes on
with their requests; it is kept because the worker changes an answer only while it
is pending (`LeavesClients`), and no ended handler's client is pending.  That last
part is what `Honest` adds to it, together with what an open handler may expect: it
is pending only while its request is in the line or in the worker's hand, or the
worker was stopped, and a stream's status is already 200.  `WorkerKeeps` covers all
steps of the worker and of the lifespan at once by `LeavesClients`; each step of
the edge concerns one request, so `OthersKeep` leaves one client to look at.
`ClosedStaysClosed` needs of the invariant that a flag a probe was told of is still
set (`ProbeIsTrue`), and that who leaves had entered.

`BootHonoursTheRequest` is about `_env_file_from_argv`, a scan that looks at an
argument, takes the next one for its value, or goes on.  The model writes it as a
recursive function on positions, and the library's induction rules are out of the
provers' reach.  A least element does instead: the scan returns at the first flag, so `Found` writes down its value at each position without
recursion, from the least position that holds a flag (`LeastElement`), and `FoundAt`
shows that this function satisfies the equation of the scan.  So an `f` with
`IsScan` exists (`ScanExists`), and whatever satisfies the equation agrees with
what is found at the first flag, along the positions before it (`ScanFinds`, a least
counterexample, `FirstFlagDecides`).  From there `AskedAndFound` and
`ResolvedHonours` compare the file that is read with the one that the
documents promise, case by case of the sources.

### The pipeline

The theorems about `Pipeline` hold for any requests, capacity, rate, window,
timeouts, thresholds, retries, chunks and clock step, within the assumptions of
`Optional`, `Limiter`, `Breaker` and `Pipeline`.

| theorem | statement |
|---|---|
| `CoreInvariant` | `Spec => []Core` |
| `TypeCorrect` | `Spec => []TypeOK` |
| `BreakerInvariant` | `Spec => []BreakerInv` |
| `InFlightAlwaysPermitted` | `Spec => []InFlightIsPermitted` |
| `BreakerAlwaysConsistent` | `Spec => []BreakerConsistent` |
| `HalfOpenAlwaysLeft` | `Spec => HalfOpenIsLeft` |
| `AnswersAreFinal` | `Spec => AnswerIsFinal` |
| `LineInvariant` | `Spec => []LineInv` |
| `NothingAdmittedInShutdown` | `Spec => NoAdmissionInShutdown` |
| `FuturesInvariant`, `FuturesAlwaysMatchWork` | `Spec => []FuturesInv`, `Spec => []FuturesMatchWork` |
| `HandleInvariant`, `HandlesAlwaysEndOnce` | `Spec => []HandleInv`, `Spec => []HandlesEndOnce` |
| `MetricsInvariant`, `MetricsAlwaysTellTheTruth` | `Spec => []MetricsInv`, `Spec => []MetricsTellTheTruth` |
| `AgeInvariant`, `AlwaysForwardedBeforeStale` | `Spec => []AgeInv`, `Spec => []ForwardedBeforeStale` |
| `AttemptInvariant`, `AttemptsAlwaysBounded` | `Spec => []AttemptInv`, `Spec => []AttemptsAreBounded` |
| `UpstreamAlwaysWithinRpm` | `MaxRetries = 0` implies `Spec => []UpstreamWithinRpm` |
| `PipelineImplementsService` | `Spec => ServiceRefined` |

**Steps first.**  The worker's actions share their endings: an attempt, a stream,
a dequeue may each end in several ways that differ in the exception only.
`Steps` (`PipelineProofs`) lists the forms that matter to a proof: `Drop` and `Take`
for what becomes of the head of the queue, `AttemptRepeats`, `AttemptEnds` and
`StreamOver` for how an upstream call ends, `BeginDrain` and `Halt` for the
shutdown.  `StepCases` shows that every step is one of them.  The frame lemmas
(`WorkerFrame`, `BreakerFrame`, `QueueFrame`, `OutcomeFrame`, `MetricsFrame`) say which
part of the state the remaining steps leave alone, so that a proof about
the breaker, say, looks at five forms and not at twenty-five actions.

**Then layers.**  There is no single inductive invariant; each layer uses those
below it.

- `Core`: types, which request the worker has at each of its suspensions
  (`WorkerAt`), and that the deque holds at most `Rpm` permits.
- `BreakerInv`: an engaged worker, asleep in the limiter or upstream, has the
  breaker's permission, because nobody but the worker touches the breaker.
  `InFlightIsPermitted` and `BreakerConsistent` are inductive only together: a
  success recorded while the breaker is open would leave it half reset.  A half open
  breaker has sent its probe (`Sound`), so that the worker can take no request then:
  that is `HalfOpenIsLeft`.
- `LineInv`: a request is in the queue or in hand, never in both and never twice,
  and its admission is on record.  It fixes the set `Owed`.
- `FuturesInv`: `_futures` holds exactly the owed plain requests until the worker
  is stopped.  Popping an entry and resolving the Future are one step, which is why
  it can be an equation.
- `HandleInv`: the end of a handle is its last item, and while its stream is owed an
  answer only the reader's cancellation can have closed it.  That is the part
  `HandlesEndOnce` does not say and needs: the worker may end a handle because
  nobody has ended it before.
- `MetricsInv`: `MetricsTellTheTruth` looks at the gauges while the worker is idle.  In
  between, the breaker's gauge equals `prev`, the state that the worker remembers,
  and the streams that are started and not completed are those owed an answer,
  counted as a finite set.
- `AgeInv`: a sleeper wakes when its permit is sure to be granted (`Rested`, as in the
  limiter's own proof: nobody else calls the pipeline's limiter), so a request
  sleeps once, for at most `LongestSleep`.
- `AttemptInv`: the deadline of an attempt or of a backoff is not past, which is why
  each retry begins on time and the times add up.  `TimesAddUp` is the arithmetic: one
  more retry costs its backoff and one more attempt.  The first attempt begins no
  later than `AgeInv` allows.
- `CallsInv`, for `MaxRetries = 0` only: the calls still in the window are the last of
  the permits, one by one.  Above 0 the property is false (section 6).

TLC checked each layer as an invariant of the instances of `pipeline_plain` and
`pipeline_streams` before it was proved.

**The refinement** (`ServiceProofs`).  A client's answer is a function of its Future,
or of its handle and what its reader was told (`Says`).  The lemmas before
`Ground` show how that answer moves: an end appended to a handle is the
answer at once, even before it is read (`EndReaches`); a chunk, and a reader that
reads, change nothing (`ChunkIsHidden`, `ReadAgrees`).  `Ground` collects the layers
that are needed.  Then there is a case for each group of steps: `SubmitCase`,
`SubmitStreamCase`, `TimeoutCase` and `ReaderCase` for the clients, `LineCase`
(dequeue, drop), `WorkCase`, `FinishCase` and `ShutdownCase` for the worker, and
`ServiceStep` joins them.  Together with `IngressProofs`, which is about the edge
over the same abstract service, this covers a request from its HTTP arrival to its
status.

**Assumptions.**  `PipelineAssumption` bounds the parameters as `config/schema.py`
does and keeps the two kinds of requests apart.  `PowersAssumption` says that
`2^0` is 1 and that, for each `n` that a backoff may use, `2^n` is a natural number
and `2^(n + 1)` its double: facts of arithmetic that the provers lack, stated as an
assumption so that TLC evaluates them.
`calls` is a history of upstream calls, trimmed to a window; `Fresh` writes the
trimming without recursion so that it can be proved about.

### Only model-checked

- Liveness, which is out of reach of the installed provers: `EveryAcquireReturns`,
  `AcceptedIsTaken`, `ReadersAreReleased`, `ServiceServes`, `EveryHandlerReturns`.
- The first seven disagreements of section 6, which are counterexamples.

Every other property of a passing run is stated by a theorem.
The one with a hypothesis is `UpstreamWithinRpm`.

## 5. Not modelled

- What is passed through as data: `extra_body`, request headers, the API key, the
  keyword arguments for litellm, the shape of tools and functions (one verdict,
  good or bad).
- `/health`, `/metrics` and `/metrics/prometheus`, which change nothing; the
  wait-time statistics and the Prometheus registry and histograms, which repeat
  what the counters say; `reset()`, which only tests call.
- `result.error` (`app.py:305-315`): no forwarder of this repository sets it.
- The bound of each field of `Config`.  They are the assumptions on the constants;
  that one is broken is the value `unsound` of a setting.  Keyword overrides of
  `load_config` are for tests.
- `try_dequeue` and `is_full` of the queue, which nothing calls.
- litellm, FastAPI, pydantic and asyncio, except through what this code observes of
  them.  Whether litellm can route a model name is a free choice (`Bodies`); with
  the configured provider in front of it nearly every name can be.
- A chunk that `json.dumps` cannot encode (`app.py:352`): the generator would send an
  error event and cancel the handle.  The chunks are litellm's own and are plain data.
- Logging and its fields.
- The versions of Python in which `wait_for` may swallow a cancellation: the
  upstream call is taken to end when it is cancelled.

Hazards listed without a property: an unread handle grows without a bound when the
client leaves before the generator starts (`DisconnectEarly` is modelled, no
document promises a bound); and the breaker does not count an `APIError` that the
forwarder counts as a 5xx (both lists are modelled; the documents name statuses and
litellm decides which class a status becomes).

## 6. Disagreements between the code and its documents

1. **Retries are not rate-limited** (`pipeline_retries`): one permit covers all
   attempts of a request, so with `max_retries` above 0 a window may contain more
   than `rpm` upstream calls.  With 0 retries the bound holds
   (`UpstreamWithinRpm` in `pipeline_plain`).
2. **An open breaker prolongs itself** (`pipeline_recovery`): each denial is
   recorded as a failure and restarts the recovery timeout.
3. **Queue timeouts open the breaker** (`pipeline_queue_timeout`), although
   nothing has failed upstream.
4. **Shutdown cuts a stream in progress** (`pipeline_shutdown`) when the queue is
   empty, and its reader sees a normal end.  Servers that run the lifespan's
   shutdown only after the connections have ended hide this.
5. **A disconnect does not free the worker** (`pipeline_disconnect`) until the
   next chunk arrives.
6. **A failed probe is not counted as an opening** (`pipeline_openings`): the
   breaker state the worker compares with is the OPEN it read at dequeue.
7. **A 429 that ends a stream is counted nowhere** (`pipeline_uncounted`): only
   `forward_async` records upstream errors.  With plain requests alone the property
   holds.

Three more are visible in a definition of the model and have no run of their own.

8. **A body that is no JSON or no object is answered with 500** (`Verdict` in
   `Ingress`): `request.json()` is outside the `try` that maps errors (`app.py:233`),
   and the adapter raises `TypeError` where it unpacks an array
   (`adapters/openai.py:32`).  `openspec/specs/request-ingress/spec.md:85-88` and
   `client-request-adaptation/spec.md:46-49` want a `BadRequestError`, that is 400.
   `StatusTellsTheTruth` therefore leaves the status of these bodies open, and of no
   others.
9. **A request is taken before the limiter permits it** (`Dequeue`): the worker
   dequeues (`processor.py:229`) and then sleeps in `acquire()` (`processor.py:292`).
   `request-queue/spec.md:46-51`, `request-pipeline/spec.md:16-19` and
   `streaming-support/spec.md:29-32` say that the request stays in the queue
   until the limiter permits.  It shows in two ways: the queue has room for one more
   request, and a request may be older than its limit when it is sent, by one sleep.
   `ForwardedBeforeStale` says how much, and is tight.
10. **A probe may be left undecided** (`ChunkForNobody`): a stream that is left by
   `break` because its client is gone (`processor.py:353-354`) records no outcome, so
   the breaker stays half open with its probe sent and nothing under way.
   `circuit_breaker.py:33-36` and `docs/configuration.md:119` say that the probe's
   result decides.  The next request is rejected, and only because that rejection is
   recorded as a failure (the same line as item 2) does the breaker open and recover.
   `HalfOpenIsLeft` states this; it fails once denials are no longer recorded, so the
   two must be repaired together.

## 7. Plan

Order of work, the most important behaviour first; all eight are done.

1. `Limiter`, `RateLimiter`, `SlidingWindow`, with the refinement and its proof.
2. `Breaker`, `Handle`, `Pipeline`: the composition and its invariants.
3. Liveness of both, and the disagreements.
4. `RequestService`, the refinement from `Pipeline`, and the step of the wall clock.
5. `Ingress` and `EnvFile`, on top of `RequestService`; the counters of upstream
   errors and of openings.
6. Proofs about `RequestService` and `Ingress`: type correctness, `HandlersAreOwed`,
   `StatusTellsTheTruth`, `UnreadyMeansClosed`, `BootHonoursTheRequest`.
7. Proofs about the pipeline: the layers of section 4 and the refinement.
8. The time that the attempts of a request take and the way out of an undecided
   probe, with their proofs.

What could come next, in this order:

9. A bound that holds with retries: the calls of a window in terms of `Rpm`,
   `MaxRetries` and the backoffs, found with TLC first.
10. That what is proved of the limiter alone carries over to the pipeline: a mapping
   from `Pipeline` to `SlidingWindow` for the permits, apart from the calls.
11. That the counters of upstream errors count what happened when only plain
    requests are made (`pipeline_uncounted` shows that streams break it).
