------------------------------ MODULE Pipeline ------------------------------
(***************************************************************************)
(* The request pipeline: the HTTP handlers that submit requests, the       *)
(* bounded queue, the single worker of RequestProcessor with the rate      *)
(* limiter, the circuit breaker and the forwarder it calls, the stream     *)
(* handles, the metrics the worker keeps, and the shutdown.                *)
(*                                                                         *)
(* Everything runs in one event loop, so a step is what happens between    *)
(* two suspensions that can really suspend: the queue, the sleep of the    *)
(* limiter, the upstream call, the backoff, the chunks of a stream.  The   *)
(* locks of the limiter and of the metrics are never held across one.      *)
(***************************************************************************)
EXTENDS Limiter, Breaker, Handle, Metrics, FiniteSets

CONSTANTS
  Plain,          \* the non-streaming requests
  Streams,        \* the streaming requests
  QueueMax,       \* queue.max_size
  MaxWait,        \* queue_max_wait_ms, the max_wait_time_ms of every request
  BreakerEnabled, \* circuit_breaker.enabled
  ForwardTimeout, \* forwarder.timeout_ms
  MaxRetries,     \* forwarder.max_retries
  Backoff,        \* forwarder.retry_backoff_ms
  DrainTimeout,   \* shutdown_drain_timeout_ms
  Faults,         \* the exceptions the upstream raises in this instance
  MaxSkew,        \* fault: how far the wall clock may be stepped, once
  MaxChunks,      \* bound: chunks of one upstream stream
  LastArrival,    \* bound: no request arrives later
  MaxTime         \* bound: the clock stops here

Requests == Plain \cup Streams

ASSUME PipelineAssumption ==
  /\ Plain \cap Streams = {} /\ None \notin Requests
  /\ QueueMax \in Nat \ {0} /\ BreakerEnabled \in BOOLEAN
  /\ {MaxWait, ForwardTimeout} \subseteq Nat \ {0}
  /\ {MaxRetries, Backoff, DrainTimeout} \subseteq Nat
  /\ {MaxChunks, LastArrival, MaxTime, MaxSkew} \subseteq Nat
  /\ Faults \subseteq Exceptions

\* Arithmetic that the provers lack, for the exponential backoff.
ASSUME PowersAssumption ==
  /\ 2^0 = 1
  /\ \A n \in 0..MaxRetries : 2^n \in Nat /\ 2^(n + 1) = 2 * 2^n

VARIABLES
  now,         \* the monotonic clock: of the loop, the limiter, the breaker
  skew,        \* what the wall clock shows more than the monotonic one
  queue,       \* RequestQueue: the contexts waiting, oldest first
  submittedAt, \* the monotonic instant of a submission: its wait_for begins
  enqueuedAt,  \* context.enqueued_at, by the wall clock
  future,      \* the Future of each plain request
  registered,  \* the keys of RequestProcessor._futures
  handle,      \* the StreamHandle of each accepted stream
  reader,      \* what the response generator of each stream is doing
  worker,      \* the suspended coroutine RequestProcessor._run
  limiter,     \* the fields of SlidingWindowRateLimiter
  breaker,     \* the fields of CircuitBreaker
  phase,       \* of the lifespan: serving, draining, stopped
  metrics,     \* the part of MetricsCollector that the worker keeps
  calls,       \* history: the upstream calls of the last Window
  opening      \* history: how often, and when last, the breaker left for OPEN

vars == <<now, skew, queue, submittedAt, enqueuedAt, future, registered, handle,
          reader, worker, limiter, breaker, phase, metrics, calls, opening>>

clocks       == <<now, skew>>
ingressVars  == <<queue, submittedAt, enqueuedAt, reader>>
breakerVars  == <<breaker, opening>>
outcomeVars  == <<future, registered, handle>>
-----------------------------------------------------------------------------
(* The worker: where it is suspended, for which request, after how many
   attempts (or chunks), until when, and the breaker state it read first. *)

Idle == [pc |-> "idle", req |-> None, count |-> 0, wakeAt |-> 0, prev |-> None]

Busy(c, pc, n, until, prev) ==
  [pc |-> pc, req |-> c, count |-> n, wakeAt |-> until, prev |-> prev]

Init ==
  /\ now = 0 /\ skew = 0
  /\ queue = << >>
  /\ submittedAt = [r \in Requests |-> None]
  /\ enqueuedAt = [r \in Requests |-> None]
  /\ future = [r \in Plain |-> "none"]
  /\ registered = {}
  /\ handle = [r \in Streams |-> NewHandle]
  /\ reader = [r \in Streams |-> "none"]
  /\ worker = Idle
  /\ limiter = [timestamps |-> << >>, last |-> None]
  /\ breaker = Closed
  /\ phase = [name |-> "serving", until |-> None]
  /\ metrics = NoMetrics
  /\ calls = << >>
  /\ opening = [count |-> 0, at |-> None]

\* The breaker after a step of the worker, and the history of its openings.
SetBreaker(b) ==
  /\ breaker' = b
  /\ opening' = IF breaker.state # "OPEN" /\ b.state = "OPEN"
                THEN [count |-> opening.count + 1, at |-> now]
                ELSE opening

\* Defect: a breaker does not record its own denials.
DenialUnrecorded(b, e) ==
  IF BreakerEnabled /\ e # "ServiceUnavailableError" THEN RecordException(b, e, now) ELSE b

Recorded(b, e) == IF BreakerEnabled THEN RecordException(b, e, now) ELSE b
Succeeded(b)   == IF BreakerEnabled THEN RecordSuccess(b) ELSE b

\* Defect: only openings reach the gauge.
WithOpenings(m, prev, b) ==
  IF b.state = "OPEN" /\ prev # "OPEN"
  THEN RecordBreakerState(m, b.state, TRUE) ELSE m

\* _update_circuit_breaker_metrics: b is compared with the state that the
\* worker read when it took the request.
WithState(m, prev, b) ==
  IF ~ BreakerEnabled \/ b.state = prev THEN m
  ELSE RecordBreakerState(m, b.state, b.state = "OPEN" /\ prev # "OPEN")
-----------------------------------------------------------------------------
(* Submission. *)

\* Defect: the newest is taken first.
AcceptInFront(r) ==
  /\ queue' = << r >> \o queue
  /\ submittedAt' = [submittedAt EXCEPT ![r] = now]
  /\ enqueuedAt' = [enqueuedAt EXCEPT ![r] = now + skew]

Accept(r) ==
  /\ queue' = Append(queue, r)
  /\ submittedAt' = [submittedAt EXCEPT ![r] = now]
  /\ enqueuedAt' = [enqueuedAt EXCEPT ![r] = now + skew]

\* The flag of ShutdownManager: once set it stays set.
ShuttingDown == phase.name # "serving"

\* Defects: one place too many; the shutdown flag forgotten.
AcceptingOneMore    == ~ ShuttingDown /\ Len(queue) <= QueueMax
AcceptingInShutdown == Len(queue) < QueueMax

Accepting == ~ ShuttingDown /\ Len(queue) < QueueMax

\* submit(): a refused request gets a failed Future, an accepted one waits for
\* its Future in the handler.
Submit(r) ==
  /\ future[r] = "none" /\ now <= LastArrival
  /\ \/ /\ Accepting
        /\ Accept(r)
        /\ future' = [future EXCEPT ![r] = "pending"]
        /\ registered' = registered \cup {r}
        /\ metrics' = RecordEnqueue(metrics)
     \/ /\ ~ Accepting
        /\ future' = [future EXCEPT ![r] = "refused"]
        /\ UNCHANGED <<queue, submittedAt, enqueuedAt, registered, metrics>>
  /\ UNCHANGED <<clocks, handle, reader, worker, limiter, breakerVars, phase, calls>>

\* submit_stream(): a refused stream gets no handle.
SubmitStream(r) ==
  /\ reader[r] = "none" /\ now <= LastArrival
  /\ \/ /\ Accepting
        /\ Accept(r)
        /\ reader' = [reader EXCEPT ![r] = "unread"]
        /\ metrics' = RecordStreamStarted(RecordEnqueue(metrics))
     \/ /\ ~ Accepting
        /\ reader' = [reader EXCEPT ![r] = "refused"]
        /\ UNCHANGED <<queue, submittedAt, enqueuedAt, metrics>>
  /\ UNCHANGED <<clocks, outcomeVars, worker, limiter, breakerVars, phase, calls>>

\* The wait_for of chat_completions gives up: it cancels the Future, and the
\* client gets a 504.  The entry in _futures stays until the worker pops it.
ClientTimeout(r) ==
  /\ future[r] = "pending" /\ now >= submittedAt[r] + MaxWait
  /\ future' = [future EXCEPT ![r] = "cancelled"]
  /\ UNCHANGED <<clocks, ingressVars, registered, handle, worker, limiter,
                 breakerVars, phase, metrics, calls>>
-----------------------------------------------------------------------------
(* The outcome of a request. *)

\* Defects: the entry is not popped; a done Future is set again.
ResolveWithoutPop(r, outcome) ==
  /\ UNCHANGED registered
  /\ future' = IF r \in registered /\ future[r] = "pending"
               THEN [future EXCEPT ![r] = outcome] ELSE future
ResolveTwice(r, outcome) ==
  /\ registered' = registered \ {r}
  /\ future' = [future EXCEPT ![r] = outcome]

\* _set_result and _set_exception: no effect on a Future that is done.
Resolve(r, outcome) ==
  /\ registered' = registered \ {r}
  /\ future' = IF r \in registered /\ future[r] = "pending"
               THEN [future EXCEPT ![r] = outcome]
               ELSE future

\* _reject: m and b are the metrics and the breaker so far in this step.
Reject(r, e, m, b, prev) ==
  LET after == Recorded(b, e)
  IN  /\ SetBreaker(after)
      /\ IF r \in Streams
         THEN /\ handle' = [handle EXCEPT ![r] = Close(PutError(@, e))]
              /\ metrics' = RecordStreamCompleted(WithState(m, prev, after))
              /\ UNCHANGED <<future, registered>>
         ELSE /\ Resolve(r, e)
              /\ metrics' = WithState(m, prev, after)
              /\ UNCHANGED handle
-----------------------------------------------------------------------------
(* The main loop of the worker. *)

\* What is left of cs, which is in order, in a window that ends at clock.
Fresh(cs, clock) ==
  SubSeq(cs, Cardinality({i \in DOMAIN cs : cs[i] <= clock - Window}) + 1, Len(cs))

Recent(cs) == Fresh(cs, now)

\* Defect: no wait_for around the upstream call.
CallUnbounded(r, n, prev) ==
  /\ worker' = Busy(r, IF r \in Streams THEN "connecting" ELSE "calling",
                    n, MaxTime + 1, prev)
  /\ calls' = Append(Recent(calls), now)

\* A step into the upstream call: forward_async or stream_async begins.
Call(r, n, prev) ==
  /\ worker' = Busy(r, IF r \in Streams THEN "connecting" ELSE "calling",
                    n, now + ForwardTimeout, prev)
  /\ calls' = Append(Recent(calls), now)

\* One iteration of acquire(): the call begins, or the worker sleeps.
Acquire(r, prev) ==
  LET p == TryAcquire(limiter.timestamps, limiter.last, now, now)
  IN  /\ limiter' = [timestamps |-> p.timestamps, last |-> p.last]
      /\ IF p.granted THEN Call(r, 0, prev)
         ELSE worker' = Busy(r, "sleeping", 0, now + p.wait, prev)
              /\ UNCHANGED calls

\* Defect: the instant of arrival is taken when the request is dequeued.
WaitedSinceDequeue(r) == 0

Waited(r) == (now + skew) - enqueuedAt[r]

Dequeue ==
  /\ worker.pc = "idle" /\ queue # << >>
  /\ LET r    == Head(queue)
         prev == breaker.state
         m    == RecordDequeue(metrics)
     IN \/ \* too old
           /\ Waited(r) > MaxWait
           /\ Reject(r, "Timeout", m, breaker, prev)
           /\ UNCHANGED <<worker, limiter, calls>>
        \/ \* denied by the breaker
           /\ Waited(r) <= MaxWait
           /\ BreakerEnabled /\ ~ CanExecute(breaker, now)
           /\ LET b == AfterCanExecute(breaker, now)
              IN  Reject(r, "ServiceUnavailableError", WithState(m, prev, b), b, prev)
           /\ UNCHANGED <<worker, limiter, calls>>
        \/ \* on to the limiter
           /\ Waited(r) <= MaxWait
           /\ BreakerEnabled => CanExecute(breaker, now)
           /\ SetBreaker(IF BreakerEnabled THEN AfterCanExecute(breaker, now)
                         ELSE breaker)
           /\ metrics' = m
           /\ Acquire(r, prev)
           /\ UNCHANGED outcomeVars
  /\ queue' = Tail(queue)
  /\ UNCHANGED <<clocks, submittedAt, enqueuedAt, reader, phase>>

\* The sleep in acquire() is over.
WakeUp ==
  /\ worker.pc = "sleeping" /\ now >= worker.wakeAt
  /\ Acquire(worker.req, worker.prev)
  /\ UNCHANGED <<clocks, ingressVars, outcomeVars, breakerVars, phase, metrics>>
-----------------------------------------------------------------------------
(* A plain request upstream: forward_async and _process_request. *)

\* The result arrives.
Reply ==
  /\ worker.pc = "calling"
  /\ LET b == Succeeded(breaker)
     IN  SetBreaker(b) /\ metrics' = WithState(metrics, worker.prev, b)
  /\ Resolve(worker.req, "result")
  /\ worker' = Idle
  /\ UNCHANGED <<clocks, ingressVars, handle, limiter, phase, calls>>

RetryableExceptions == {"APIConnectionError", "RateLimitError",
                        "ServiceUnavailableError", "InternalServerError"}

\* _record_upstream_error: what the two counters of upstream errors count.
RecordUpstreamError(m, e) ==
  CASE e = "RateLimitError" -> RecordUpstream429(m)
    [] e \in RetryableExceptions \cup {"APIError"} -> RecordUpstream5xx(m)
    [] OTHER -> m

\* The attempt ends in e, m being the metrics so far: it is repeated after the
\* backoff, or e reaches the main loop.
AttemptFails(e, retryable, m) ==
  /\ worker.pc = "calling"
  /\ IF retryable /\ worker.count < MaxRetries
     THEN /\ worker' = Busy(worker.req, "backoff", worker.count,
                            now + Backoff * 2^worker.count, worker.prev)
          /\ metrics' = m
          /\ UNCHANGED <<outcomeVars, breakerVars>>
     ELSE /\ Reject(worker.req, e, m, breaker, worker.prev)
          /\ worker' = Idle
  /\ UNCHANGED <<clocks, ingressVars, limiter, phase, calls>>

\* wait_for gives up at its deadline; the forwarder's own Timeout is retried.
AttemptTimesOut == now >= worker.wakeAt /\ AttemptFails("Timeout", TRUE, metrics)

\* The upstream raises; a Timeout of its own is not retried.
UpstreamRaises(e) ==
  AttemptFails(e, e \in RetryableExceptions, RecordUpstreamError(metrics, e))

\* Defect: the attempt is not counted.
RetryUncounted ==
  /\ worker.pc = "backoff" /\ now >= worker.wakeAt
  /\ Call(worker.req, worker.count, worker.prev)
  /\ UNCHANGED <<clocks, ingressVars, outcomeVars, limiter, breakerVars, phase, metrics>>

\* The backoff is over: the same request is sent again.
Retry ==
  /\ worker.pc = "backoff" /\ now >= worker.wakeAt
  /\ Call(worker.req, worker.count + 1, worker.prev)
  /\ UNCHANGED <<clocks, ingressVars, outcomeVars, limiter, breakerVars, phase, metrics>>
-----------------------------------------------------------------------------
(* A stream upstream: stream_async and _process_stream. *)

Connect ==
  /\ worker.pc = "connecting"
  /\ worker' = Busy(worker.req, "streaming", 0, 0, worker.prev)
  /\ UNCHANGED <<clocks, ingressVars, outcomeVars, limiter, breakerVars, phase,
                 metrics, calls>>

\* Defect: no close() in the finally clause.
FinishStreamUnclosed(h, b) ==
  /\ SetBreaker(b)
  /\ handle' = [handle EXCEPT ![worker.req] = h]
  /\ metrics' = RecordStreamCompleted(WithState(metrics, worker.prev, b))
  /\ worker' = Idle
  /\ UNCHANGED <<clocks, ingressVars, future, registered, limiter, phase, calls>>

\* The finally clause, after b was recorded and h put.
FinishStream(h, b) ==
  /\ SetBreaker(b)
  /\ handle' = [handle EXCEPT ![worker.req] = Close(h)]
  /\ metrics' = RecordStreamCompleted(WithState(metrics, worker.prev, b))
  /\ worker' = Idle
  /\ UNCHANGED <<clocks, ingressVars, future, registered, limiter, phase, calls>>

\* Neither counter of upstream errors is touched.
StreamFails(e) ==
  FinishStream(PutError(handle[worker.req], e), Recorded(breaker, e))

ConnectTimesOut ==
  worker.pc = "connecting" /\ now >= worker.wakeAt /\ StreamFails("Timeout")

StreamRaises(e) ==
  worker.pc \in {"connecting", "streaming"} /\ StreamFails(e)

\* A chunk arrives: it is passed on, or the loop is left because the client has
\* gone, and then nothing is recorded in the breaker.
Chunk ==
  /\ worker.pc = "streaming" /\ worker.count < MaxChunks
  /\ ~ handle[worker.req].cancelled
  /\ handle' = [handle EXCEPT ![worker.req] = PutChunk(@)]
  /\ worker' = [worker EXCEPT !.count = @ + 1]
  /\ UNCHANGED <<clocks, ingressVars, future, registered, limiter, breakerVars,
                 phase, metrics, calls>>

ChunkForNobody ==
  /\ worker.pc = "streaming" /\ worker.count < MaxChunks
  /\ handle[worker.req].cancelled
  /\ FinishStream(handle[worker.req], breaker)

\* The upstream stream ends.
StreamEnds ==
  /\ worker.pc = "streaming"
  /\ FinishStream(handle[worker.req], Succeeded(breaker))
-----------------------------------------------------------------------------
(* The response generator of a stream, _sse_generator. *)

readerStep == <<clocks, queue, submittedAt, enqueuedAt, future, registered, worker, limiter,
                breakerVars, phase, metrics, calls>>

StartReading(r) ==
  /\ reader[r] = "unread"
  /\ reader' = [reader EXCEPT ![r] = "reading"]
  /\ UNCHANGED <<handle, readerStep>>

\* An end or an error ends the response; the handle is closed by then, so the
\* finally clause does not cancel it.
Read(r) ==
  /\ reader[r] = "reading" /\ handle[r].items # << >>
  /\ handle' = [handle EXCEPT ![r].items = Tail(@)]
  /\ reader' = [reader EXCEPT ![r] =
                  CASE Head(handle[r].items) = "chunk" -> @
                    [] Head(handle[r].items) = "end"   -> "done"
                    [] OTHER -> Head(handle[r].items)]
  /\ UNCHANGED readerStep

\* The client disconnects while the generator is suspended: CancelledError in
\* it cancels the handle, GeneratorExit only a handle that is not closed.
Disconnect(r) ==
  /\ reader[r] = "reading"
  /\ reader' = [reader EXCEPT ![r] = "gone"]
  /\ \/ handle' = [handle EXCEPT ![r] = Cancel(@)]
     \/ handle[r].closed /\ UNCHANGED handle
  /\ UNCHANGED readerStep

\* The client disconnects before the generator has started: nothing in it runs.
DisconnectEarly(r) ==
  /\ reader[r] = "unread"
  /\ reader' = [reader EXCEPT ![r] = "gone"]
  /\ UNCHANGED <<handle, readerStep>>
-----------------------------------------------------------------------------
(* Shutdown: the second half of the lifespan. *)

\* stop(): CancelledError where the worker is suspended.  It is no Exception,
\* so only the finally clause of _process_stream runs.
StopWorker ==
  /\ worker' = [Idle EXCEPT !.pc = "stopped"]
  /\ IF worker.pc \in {"connecting", "streaming"}
     THEN /\ handle' = [handle EXCEPT ![worker.req] = Close(@)]
          /\ metrics' = RecordStreamCompleted(
                           WithState(metrics, worker.prev, breaker))
     ELSE UNCHANGED <<handle, metrics>>
  /\ UNCHANGED <<clocks, ingressVars, future, registered, limiter, breakerVars, calls>>

\* drain() returns at once when the queue is empty, whatever is in flight.
StartShutdown ==
  /\ phase.name = "serving"
  /\ \/ /\ queue # << >>
        /\ phase' = [name |-> "draining", until |-> now + DrainTimeout]
        /\ UNCHANGED <<clocks, ingressVars, outcomeVars, worker, limiter,
                       breakerVars, metrics, calls>>
     \/ /\ queue = << >>
        /\ phase' = [name |-> "stopped", until |-> now + DrainTimeout]
        /\ StopWorker

FinishDrain ==
  /\ phase.name = "draining"
  /\ queue = << >> \/ now >= phase.until
  /\ phase' = [phase EXCEPT !.name = "stopped"]
  /\ StopWorker
-----------------------------------------------------------------------------
(* Time.  The loop runs whatever is ready before the clock moves a unit. *)

Ready ==
  \/ worker.pc = "idle" /\ queue # << >>
  \/ worker.pc \in {"sleeping", "calling", "backoff", "connecting"}
       /\ now >= worker.wakeAt
  \/ \E r \in Plain : future[r] = "pending" /\ now >= submittedAt[r] + MaxWait
  \/ phase.name = "draining" /\ now >= phase.until

Tick == /\ now < MaxTime /\ ~ Ready
        /\ now' = now + 1
        /\ UNCHANGED <<skew, ingressVars, outcomeVars, worker, limiter, breakerVars,
                       phase, metrics, calls>>

\* Fault: the wall clock is stepped, once.
ClockStep ==
  /\ skew = 0
  /\ skew' \in (-MaxSkew)..MaxSkew \ {0}
  /\ UNCHANGED <<now, ingressVars, outcomeVars, worker, limiter, breakerVars,
                 phase, metrics, calls>>

\* Everything has been said: the only state in which nothing more must happen.
Quiet ==
  /\ worker.pc \in {"idle", "stopped"} /\ now = MaxTime
  /\ queue = << >> \/ worker.pc = "stopped"
  /\ \A r \in Plain : future[r] # "pending"
  /\ UNCHANGED vars

Work == \/ Dequeue \/ WakeUp
        \/ Reply \/ Retry \/ AttemptTimesOut \/ (\E e \in Faults : UpstreamRaises(e))
        \/ Connect \/ Chunk \/ ChunkForNobody \/ StreamEnds
        \/ ConnectTimesOut \/ (\E e \in Faults : StreamRaises(e))

Next == \/ \E r \in Plain : Submit(r) \/ ClientTimeout(r)
        \/ \E r \in Streams : \/ SubmitStream(r) \/ StartReading(r) \/ Read(r)
                              \/ Disconnect(r) \/ DisconnectEarly(r)
        \/ Work
        \/ StartShutdown \/ FinishDrain
        \/ Tick \/ ClockStep \/ Quiet

Spec == Init /\ [][Next]_vars

(* The loop and the timers are never neglected: a waiting request is taken, a
   sleep ends, wait_for ends an attempt or a connection at its deadline, a due
   timeout and a due drain are served, and the clock moves.  Nothing obliges
   the upstream to answer, or a client to stay. *)
LoopFairness ==
  /\ WF_vars(Dequeue) /\ WF_vars(WakeUp) /\ WF_vars(Retry)
  /\ WF_vars(AttemptTimesOut) /\ WF_vars(ConnectTimesOut)
  /\ \A r \in Plain : WF_vars(ClientTimeout(r))
  /\ WF_vars(FinishDrain) /\ WF_vars(Tick)
  /\ \A r \in Streams : WF_vars(StartReading(r)) /\ WF_vars(Read(r))

\* An upstream stream that has begun comes to an end: the code does not force
\* it to, because no timeout applies between chunks.
UpstreamFairness == WF_vars(StreamEnds \/ Chunk \/ ChunkForNobody)

LoopFairSpec == Spec /\ LoopFairness
FairSpec == Spec /\ LoopFairness /\ UpstreamFairness
-----------------------------------------------------------------------------
(* Properties. *)

TypeOK ==
  /\ now \in 0..MaxTime /\ skew \in (-MaxSkew)..MaxSkew
  /\ queue \in Seq(Requests) /\ Len(queue) <= QueueMax
  /\ submittedAt \in [Requests -> Nat \cup {None}]
  /\ enqueuedAt \in [Requests -> Int \cup {None}]
  /\ future \in [Plain -> {"none", "refused", "pending", "cancelled", "result"}
                         \cup Exceptions]
  /\ registered \subseteq Plain
  /\ handle \in [Streams -> Handles({"chunk", "end"} \cup Exceptions)]
  /\ reader \in [Streams -> {"none", "refused", "unread", "reading", "done", "gone"}
                            \cup Exceptions]
  /\ worker \in [pc : {"idle", "sleeping", "calling", "backoff", "connecting",
                       "streaming", "stopped"},
                 req : Requests \cup {None}, count : Nat, wakeAt : Nat,
                 prev : {"CLOSED", "OPEN", "HALF_OPEN", None}]
  /\ limiter \in [timestamps : Seq(Nat), last : Nat \cup {None}]
  /\ breaker \in Breakers
  /\ phase \in [name : {"serving", "draining", "stopped"}, until : Nat \cup {None}]
  /\ metrics \in Snapshots
  /\ calls \in Seq(Nat)
  /\ opening \in [count : Nat, at : Nat \cup {None}]

Upstream == {"calling", "backoff", "connecting", "streaming"}
InQueue(r) == \E i \in DOMAIN queue : queue[i] = r
InHand(r)  == worker.req = r
Done(r)    == future[r] \notin {"none", "pending"}
Heard(r)   == reader[r] \in {"done"} \cup Exceptions

\* A request that passed can_execute() before the limiter's sleep still has the
\* permission of the breaker when its call is made, however long it slept: no
\* call while OPEN, and in HALF_OPEN only the probe (processor.py:265-296).
InFlightIsPermitted ==
  BreakerEnabled /\ worker.pc \in Upstream \cup {"sleeping"} =>
    /\ breaker.state # "OPEN"
    /\ breaker.state = "HALF_OPEN" => breaker.probeSent

\* An open breaker can recover (circuit_breaker.py:146-150 answers False for
\* ever without _opened_at), and a closed one has fewer failures than allowed.
BreakerConsistent ==
  /\ breaker.state = "OPEN" => breaker.openedAt # None
  /\ breaker.state = "CLOSED" => breaker.failures < Threshold

\* A Future is pending only while somebody will resolve it or the worker was
\* stopped, and _futures holds exactly the requests the worker owes an answer.
FuturesMatchWork ==
  /\ \A r \in Plain : future[r] = "pending" => r \in registered
  /\ worker.pc # "stopped" =>
       registered = {r \in Plain : InQueue(r) \/ InHand(r)}
  /\ \A r \in Plain : future[r] \in {"result"} \cup Exceptions => r \notin registered

\* What the metrics say of the queue, the streams and the breaker is true
\* whenever the worker is back in its loop, whatever path it took there.
MetricsTellTheTruth ==
  /\ metrics.queueSize = Len(queue)
  /\ metrics.enqueued - metrics.processed = Len(queue)
  /\ worker.pc = "idle" =>
       /\ metrics.state = breaker.state
       /\ metrics.started - metrics.completed
            = Cardinality({r \in Streams : InQueue(r)})

\* The upstream sees at most Rpm calls in any window (a request is one call
\* when nothing is retried).
UpstreamWithinRpm == Len(Recent(calls)) <= Rpm

\* The age of a request is checked once, before the limiter: when it goes
\* upstream it may be older than MaxWait, but by one limiter sleep at most, and
\* by what the wall clock was set back while it waited.
ForwardedBeforeStale ==
  worker.pc \in {"calling", "connecting"} /\ worker.count = 0 =>
    (worker.wakeAt - ForwardTimeout) - submittedAt[worker.req]
      <= MaxWait + Later(Window, MinInterval) + MaxSkew

\* How long n retries may take with the attempt they follow: their backoffs
\* double, and each attempt has its own timeout.
TimeOfAttempts(n) == (n + 1) * ForwardTimeout + Backoff * (2^n - 1)

\* A plain request that fails again and again holds the only worker for the time
\* of its attempts and no longer, counted from its arrival: the next backoff, too,
\* ends early enough for the attempt behind it (forwarder.py:188-245).
AttemptsAreBounded ==
  LET age    == worker.wakeAt - submittedAt[worker.req]
      oldest == MaxWait + Later(Window, MinInterval) + MaxSkew
  IN  /\ worker.pc = "calling" =>
           worker.count <= MaxRetries /\ age <= oldest + TimeOfAttempts(worker.count)
      /\ worker.pc = "backoff" =>
           /\ worker.count < MaxRetries
           /\ age + ForwardTimeout <= oldest + TimeOfAttempts(worker.count + 1)

\* A stream handle is told the end exactly once, after everything else: it is
\* closed as soon as its request has left the worker, and nothing follows.
HandlesEndOnce ==
  \A r \in Streams :
    /\ \A i \in 1..(Len(handle[r].items) - 1) : handle[r].items[i] = "chunk"
    /\ handle[r].closed <=> (Heard(r) \/ handle[r].cancelled
                             \/ (handle[r].items # << >>
                                 /\ handle[r].items[Len(handle[r].items)] # "chunk"))
    /\ enqueuedAt[r] # None /\ worker.pc # "stopped" /\ ~ InQueue(r) /\ ~ InHand(r)
         => handle[r].closed

(* The abstract service that the pipeline implements: limiter, breaker,
   retries, clocks and chunks are hidden.  A client of a stream is told the
   end only when its reader has taken it from the handle. *)
StreamAnswer(r) ==
  LET h == handle[r]
  IN  CASE reader[r] \in {"none", "refused", "gone"} -> reader[r]
        [] reader[r] = "done"                        -> "ok"
        [] reader[r] \in Exceptions                  -> reader[r]
        [] reader[r] \in {"unread", "reading"} ->
             IF ~ h.closed THEN "pending"
             ELSE IF h.items[Len(h.items)] = "end" THEN "ok"
             ELSE h.items[Len(h.items)]

PlainAnswer(r) ==
  CASE future[r] = "result"    -> "ok"
    [] future[r] = "cancelled" -> "gone"
    [] OTHER                   -> future[r]

Answer(r) == IF r \in Plain THEN PlainAnswer(r) ELSE StreamAnswer(r)

Service == INSTANCE RequestService WITH
  Capacity <- QueueMax,
  Errors   <- Exceptions,
  phase    <- phase.name,
  waiting  <- queue,
  inHand   <- worker.req,
  sent     <- worker.pc \in Upstream,
  answer   <- [r \in Requests |-> Answer(r)],
  heard    <- {r \in Streams : Heard(r)}

\* Whatever the timers, the limiter, the breaker and the retries do, the
\* clients see the service of RequestService: first come first served, one at a
\* time, one answer each, and no answer of the upstream's without a request to it.
ServiceRefined == Service!ServiceSpec

\* Every client that waits is given an answer or leaves, unless the worker is
\* stopped: what Ingress assumes of the service.
ServiceServes == Service!Served

\* A client is answered once: what the worker does with a request whose handler
\* has given up changes nothing for it.
AnswerIsFinal ==
  [][\A r \in Plain : Done(r) => future'[r] = future[r]]_vars

\* After the shutdown has begun nothing is admitted, on either path.
NoAdmissionInShutdown ==
  [][phase.name # "serving" => Len(queue') <= Len(queue)]_vars

\* A probe that ends without an outcome (its stream was left by break,
\* processor.py:353-354) does not block the breaker for ever: whatever becomes of
\* the next request, it reopens a breaker that is half open with no probe under
\* way, and so the recovery begins anew (processor.py:389-390).
HalfOpenIsLeft ==
  [][breaker.state = "HALF_OPEN" /\ worker.pc = "idle" /\ Len(queue') < Len(queue)
     => breaker'.state = "OPEN"]_vars

\* Every accepted request leaves the queue, unless the worker is stopped.
AcceptedIsTaken ==
  \A r \in Requests : InQueue(r) ~> ~ InQueue(r) \/ worker.pc = "stopped"

\* Every stream that is being read is ended for its reader, unless the worker
\* is stopped.
ReadersAreReleased ==
  \A r \in Streams :
    reader[r] = "reading" ~> reader[r] # "reading" \/ worker.pc = "stopped"
-----------------------------------------------------------------------------
(* What the documents say and the code does not do. *)

\* circuit_breaker.py:38, "Only upstream/network-level errors count as
\* failures": a closed breaker counts a failure only when an upstream call fails.
OnlyUpstreamFailuresCount ==
  [][breaker.state = "CLOSED" /\ breaker'.failures > breaker.failures
     => worker.pc \in Upstream]_vars

\* circuit_breaker.py:33-36, "After the configured recovery timeout it moves to
\* HALF_OPEN and allows a single probe request".
RejectsOnlyWhileRecovering ==
  [][Dequeue /\ breaker.state = "OPEN" /\ Waited(Head(queue)) <= MaxWait
       /\ now - opening.at >= Recovery
     => breaker'.state # "OPEN"]_vars

\* metrics.py:191-192, the counter of openings is incremented "when the breaker
\* transitions to OPEN": between two requests it is the number of transitions.
OpeningsAreCounted ==
  worker.pc = "idle" => metrics.opens = opening.count

\* metrics.py:93, "Total number of upstream 429 responses": a client is told of
\* one only if it was counted.
UpstreamErrorsAreCounted ==
  [][\A r \in Requests :
       Answer(r) = "pending" /\ Answer(r)' = "RateLimitError"
         => metrics'.upstream429 > metrics.upstream429]_vars

\* openspec graceful-shutdown: streams that are established when the shutdown
\* begins go on until they end; at least the drain timeout is theirs.
EstablishedStreamsFinish ==
  [][phase.name # "stopped" /\ phase'.name = "stopped" /\ now < phase'.until
     => worker.pc # "streaming"]_vars

\* openspec streaming-support: once the client has disconnected, the worker
\* stops calling the upstream.
DisconnectReleasesWorker ==
  \A r \in Streams :
    handle[r].cancelled /\ InHand(r) ~> ~ InHand(r)
=============================================================================
