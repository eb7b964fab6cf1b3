--------------------------- MODULE PipelineProofs ---------------------------
(***************************************************************************)
(* What every step of Pipeline amounts to, for every value of the          *)
(* constants: the steps in the few forms that the proofs distinguish, the  *)
(* variables each of them leaves alone, and the first invariants, of the   *)
(* worker and of the circuit breaker.                                      *)
(***************************************************************************)
EXTENDS Pipeline, LimiterProofs, LineProofs, PartsProofs, FiniteSetTheorems

-----------------------------------------------------------------------------
(* The steps. *)

\* A step of the worker that gives the head of the queue no place upstream:
\* the request has expired, or the breaker denies it.
Drop ==
  /\ worker.pc = "idle" /\ queue # << >>
  /\ \E e \in FailureExceptions, b \in {breaker, AfterCanExecute(breaker, now)} :
       /\ e \in {"Timeout", "ServiceUnavailableError"}
       /\ b.state = breaker.state
       /\ Reject(Head(queue), e, RecordDequeue(metrics), b, breaker.state)
  /\ queue' = Tail(queue)
  /\ UNCHANGED <<worker, limiter, calls>>
  /\ UNCHANGED <<clocks, submittedAt, enqueuedAt, reader, phase>>

\* A step of the worker that takes it to the limiter.
Take ==
  /\ worker.pc = "idle" /\ queue # << >>
  /\ Waited(Head(queue)) <= MaxWait
  /\ BreakerEnabled => CanExecute(breaker, now)
  /\ SetBreaker(IF BreakerEnabled THEN AfterCanExecute(breaker, now) ELSE breaker)
  /\ metrics' = RecordDequeue(metrics)
  /\ Acquire(Head(queue), breaker.state)
  /\ UNCHANGED outcomeVars
  /\ queue' = Tail(queue)
  /\ UNCHANGED <<clocks, submittedAt, enqueuedAt, reader, phase>>

\* The metrics after what _record_upstream_error may have counted.
Counted == {metrics, RecordUpstream429(metrics), RecordUpstream5xx(metrics)}

AttemptRepeats ==
  /\ worker.pc = "calling" /\ worker.count < MaxRetries
  /\ worker' = Busy(worker.req, "backoff", worker.count,
                    now + Backoff * 2^worker.count, worker.prev)
  /\ metrics' \in Counted
  /\ UNCHANGED <<outcomeVars, breakerVars>>
  /\ UNCHANGED <<clocks, ingressVars, limiter, phase, calls>>

AttemptEnds ==
  /\ worker.pc = "calling"
  /\ \E e \in Exceptions, m \in Counted : Reject(worker.req, e, m, breaker, worker.prev)
  /\ worker' = Idle
  /\ UNCHANGED <<clocks, ingressVars, limiter, phase, calls>>

\* What the end of a stream may leave in the breaker and in the handle.
StreamOutcomes(b) ==
  {breaker, Succeeded(breaker)} \cup {Recorded(breaker, e) : e \in Exceptions}
StreamItems(h) == {h} \cup {PutError(h, e) : e \in Exceptions}

StreamOver ==
  /\ worker.pc \in {"connecting", "streaming"}
  /\ \E h \in StreamItems(handle[worker.req]), b \in StreamOutcomes(breaker) :
       FinishStream(h, b)

\* The shutdown begins while the queue is not empty.
BeginDrain ==
  /\ phase.name = "serving" /\ queue # << >>
  /\ phase' = [name |-> "draining", until |-> now + DrainTimeout]
  /\ UNCHANGED <<clocks, ingressVars, outcomeVars, worker, limiter,
                 breakerVars, metrics, calls>>

\* The shutdown ends: at once when the queue is empty, or after the drain.
Halt ==
  /\ \/ phase.name = "serving" /\ queue = << >>
     \/ phase.name = "draining"
  /\ phase'.name = "stopped" /\ phase'.until \in {phase.until, now + DrainTimeout}
  /\ phase' = [name |-> phase'.name, until |-> phase'.until]
  /\ StopWorker

\* Every step is one of these.
Steps ==
  \/ \E r \in Plain : Submit(r) \/ ClientTimeout(r)
  \/ \E r \in Streams : \/ SubmitStream(r) \/ StartReading(r) \/ Read(r)
                        \/ Disconnect(r) \/ DisconnectEarly(r)
  \/ Drop \/ Take \/ WakeUp
  \/ Reply \/ Retry \/ AttemptRepeats \/ AttemptEnds
  \/ Connect \/ Chunk \/ StreamOver
  \/ BeginDrain \/ Halt
  \/ Tick \/ ClockStep \/ UNCHANGED vars

\* A failed attempt is repeated or ends the request.
LEMMA AttemptCases ==
  ASSUME NEW e \in Exceptions, NEW retryable, NEW m \in Counted,
         AttemptFails(e, retryable, m)
  PROVE  AttemptRepeats \/ AttemptEnds
<1>1. CASE retryable /\ worker.count < MaxRetries
  BY <1>1 DEF AttemptFails, AttemptRepeats
<1>2. CASE ~ (retryable /\ worker.count < MaxRetries)
  BY <1>2 DEF AttemptFails, AttemptEnds
<1> QED
  BY <1>1, <1>2

\* Dequeue drops a request or takes it.
LEMMA DequeueCases ==
  ASSUME breaker \in Breakers, now \in Nat, Dequeue
  PROVE  Drop \/ Take
<1> DEFINE r == Head(queue)
           m == RecordDequeue(metrics)
<1>1. /\ worker.pc = "idle" /\ queue # << >> /\ queue' = Tail(queue)
      /\ UNCHANGED <<clocks, submittedAt, enqueuedAt, reader, phase>>
  BY DEF Dequeue
<1>2. CASE /\ Reject(r, "Timeout", m, breaker, breaker.state)
           /\ UNCHANGED <<worker, limiter, calls>>
  BY <1>1, <1>2 DEF Drop, FailureExceptions
<1>3. CASE /\ BreakerEnabled /\ ~ CanExecute(breaker, now)
           /\ LET b == AfterCanExecute(breaker, now)
              IN  Reject(r, "ServiceUnavailableError", WithState(m, breaker.state, b),
                         b, breaker.state)
           /\ UNCHANGED <<worker, limiter, calls>>
  <2> DEFINE b == AfterCanExecute(breaker, now)
  <2>1. b.state = breaker.state
    BY <1>3, CanExecuteEffect
  <2>2. WithState(m, breaker.state, b) = m
    BY <2>1 DEF WithState
  <2> QED BY <1>1, <1>3, <2>1, <2>2 DEF Drop, FailureExceptions
<1>4. CASE /\ Waited(r) <= MaxWait
           /\ BreakerEnabled => CanExecute(breaker, now)
           /\ SetBreaker(IF BreakerEnabled THEN AfterCanExecute(breaker, now)
                         ELSE breaker)
           /\ metrics' = m
           /\ Acquire(r, breaker.state)
           /\ UNCHANGED outcomeVars
  BY <1>1, <1>4 DEF Take
<1> QED
  BY <1>2, <1>3, <1>4 DEF Dequeue

\* The four ways the service of a stream ends.
LEMMA StreamCases ==
  ASSUME \/ ConnectTimesOut \/ ChunkForNobody \/ StreamEnds
         \/ \E e \in Faults : StreamRaises(e)
  PROVE  StreamOver
<1> DEFINE h == handle[worker.req]
<1>1. CASE ConnectTimesOut \/ \E e \in Faults : StreamRaises(e)
  <2>1. PICK e \in Exceptions : StreamFails(e)
    BY <1>1, PipelineAssumption DEF ConnectTimesOut, StreamRaises, Exceptions
  <2>2. worker.pc \in {"connecting", "streaming"}
    BY <1>1 DEF ConnectTimesOut, StreamRaises
  <2>3. PutError(h, e) \in StreamItems(h) /\ Recorded(breaker, e) \in StreamOutcomes(breaker)
    BY DEF StreamItems, StreamOutcomes
  <2> QED BY <2>1, <2>2, <2>3 DEF StreamFails, StreamOver
<1>2. CASE ChunkForNobody
  BY <1>2 DEF ChunkForNobody, StreamOver, StreamItems, StreamOutcomes
<1>3. CASE StreamEnds
  BY <1>3 DEF StreamEnds, StreamOver, StreamItems, StreamOutcomes
<1> QED
  BY <1>1, <1>2, <1>3

\* The shutdown: the drain begins, or the worker is stopped.
LEMMA ShutdownCases ==
  ASSUME phase \in [name : {"serving", "draining", "stopped"}, until : Nat \cup {None}],
         StartShutdown \/ FinishDrain
  PROVE  BeginDrain \/ Halt
<1>1. CASE StartShutdown /\ queue # << >>
  BY <1>1 DEF StartShutdown, BeginDrain
<1>2. CASE StartShutdown /\ queue = << >>
  BY <1>2 DEF StartShutdown, Halt
<1>3. CASE FinishDrain
  BY <1>3 DEF FinishDrain, Halt
<1> QED
  BY <1>1, <1>2, <1>3

\* The forms of Steps are all the steps there are.
LEMMA StepCases ==
  ASSUME TypeOK, [Next]_vars
  PROVE  Steps
<1>1. /\ breaker \in Breakers /\ now \in Nat
      /\ phase \in [name : {"serving", "draining", "stopped"}, until : Nat \cup {None}]
  BY PipelineAssumption DEF TypeOK
<1>2. ASSUME AttemptTimesOut \/ \E e \in Faults : UpstreamRaises(e)
      PROVE  AttemptRepeats \/ AttemptEnds
  <2>1. \A e : RecordUpstreamError(metrics, e) \in Counted
    BY DEF RecordUpstreamError, Counted
  <2>2. metrics \in Counted /\ "Timeout" \in Exceptions /\ Faults \subseteq Exceptions
    BY PipelineAssumption DEF Counted, Exceptions
  <2>3. CASE AttemptTimesOut
    BY <2>2, <2>3, AttemptCases DEF AttemptTimesOut
  <2>4. CASE \E e \in Faults : UpstreamRaises(e)
    BY <2>1, <2>2, <2>4, AttemptCases DEF UpstreamRaises
  <2> QED BY <1>2, <2>3, <2>4
<1>3. CASE Work
  BY <1>1, <1>2, <1>3, DequeueCases, StreamCases DEF Work, Steps
<1>4. CASE StartShutdown \/ FinishDrain
  BY <1>1, <1>4, ShutdownCases DEF Steps
<1>5. CASE Quiet
  BY <1>5 DEF Quiet, Steps
<1> QED
  BY <1>3, <1>4, <1>5 DEF Next, Steps

-----------------------------------------------------------------------------
(* What the steps leave alone. *)

WorkerSteps == \/ Take \/ WakeUp \/ Reply \/ Retry \/ AttemptRepeats \/ AttemptEnds
               \/ Connect \/ Chunk \/ StreamOver \/ Halt

BreakerSteps == Drop \/ Take \/ Reply \/ AttemptEnds \/ StreamOver

\* Only the worker and the shutdown move the worker, and the queue is served by
\* the worker only.
LEMMA WorkerFrame ==
  ASSUME Steps
  PROVE  /\ UNCHANGED worker \/ WorkerSteps
         /\ UNCHANGED phase \/ BeginDrain \/ Halt
         /\ UNCHANGED <<now, skew>> \/ Tick \/ ClockStep
         /\ UNCHANGED <<limiter, calls>> \/ Take \/ WakeUp \/ Retry
BY DEF Steps, WorkerSteps, Submit, ClientTimeout, SubmitStream, StartReading, Read,
       Disconnect, DisconnectEarly, Drop, Take, WakeUp, Reply, Retry, AttemptRepeats,
       AttemptEnds, Connect, Chunk, StreamOver, FinishStream, BeginDrain, Halt,
       StopWorker, Tick, ClockStep, vars, clocks, readerStep

\* Only the end of a request, or a look at it, moves the breaker.
LEMMA BreakerFrame ==
  ASSUME Steps
  PROVE  UNCHANGED breakerVars \/ BreakerSteps
BY DEF Steps, BreakerSteps, Submit, ClientTimeout, SubmitStream, StartReading, Read,
       Disconnect, DisconnectEarly, WakeUp, Retry, AttemptRepeats,
       Connect, Chunk, BeginDrain, Halt,
       StopWorker, Tick, ClockStep, vars, breakerVars, readerStep

\* Requests come from the clients, and leave the queue by its head.
LEMMA QueueFrame ==
  ASSUME Steps
  PROVE  /\ \/ UNCHANGED <<queue, submittedAt, enqueuedAt>>
            \/ (\E r \in Plain : Submit(r)) \/ (\E r \in Streams : SubmitStream(r))
            \/ (Drop \/ Take) /\ UNCHANGED <<submittedAt, enqueuedAt>>
         /\ \/ UNCHANGED reader
            \/ \E r \in Streams : \/ SubmitStream(r) \/ StartReading(r) \/ Read(r)
                                  \/ Disconnect(r) \/ DisconnectEarly(r)
BY DEF Steps, Submit, ClientTimeout, SubmitStream, StartReading, Read,
       Disconnect, DisconnectEarly, Drop, Take, WakeUp, Reply, Retry, AttemptRepeats,
       AttemptEnds, Connect, Chunk, StreamOver, FinishStream, BeginDrain, Halt,
       StopWorker, Tick, ClockStep, vars, ingressVars, readerStep

\* Who gives the clients their outcomes.
LEMMA OutcomeFrame ==
  ASSUME Steps
  PROVE  /\ \/ UNCHANGED <<future, registered>>
            \/ \E r \in Plain : Submit(r) \/ ClientTimeout(r)
            \/ Drop \/ Reply \/ AttemptEnds
         /\ \/ UNCHANGED handle
            \/ \E r \in Streams : Read(r) \/ Disconnect(r)
            \/ Drop \/ AttemptEnds \/ Chunk \/ StreamOver \/ Halt
BY DEF Steps, Submit, ClientTimeout, SubmitStream, StartReading, Read,
       Disconnect, DisconnectEarly, Drop, Take, WakeUp, Reply, Retry, AttemptRepeats,
       AttemptEnds, Connect, Chunk, StreamOver, FinishStream, BeginDrain, Halt,
       StopWorker, Tick, ClockStep, vars, outcomeVars, readerStep

\* Which steps the metrics count.
LEMMA MetricsFrame ==
  ASSUME Steps
  PROVE  \/ UNCHANGED metrics
         \/ (\E r \in Plain : Submit(r)) \/ (\E r \in Streams : SubmitStream(r))
         \/ Drop \/ Take \/ Reply \/ AttemptRepeats \/ AttemptEnds \/ StreamOver \/ Halt
BY DEF Steps, Submit, ClientTimeout, SubmitStream, StartReading, Read,
       Disconnect, DisconnectEarly, WakeUp, Retry,
       Connect, Chunk, BeginDrain, Tick, ClockStep, vars, readerStep

-----------------------------------------------------------------------------
(* Types, and where the worker is. *)

\* Which request the worker has at each of its suspensions, and how many of the
\* attempts it may make are behind it.
WorkerAt ==
  /\ worker.pc \in {"idle", "stopped"} <=> worker.req = None
  /\ worker.pc \in {"calling", "backoff"} => worker.req \in Plain
  /\ worker.pc \in {"connecting", "streaming"} => worker.req \in Streams
  /\ worker.pc = "stopped" <=> phase.name = "stopped"
  /\ worker.pc = "calling" => worker.count <= MaxRetries
  /\ worker.pc = "backoff" => worker.count < MaxRetries
  /\ worker.req # None => worker.prev \in States

\* The limiter never remembers more permits than it may grant.
WindowBounded == Len(limiter.timestamps) <= Rpm

Core == TypeOK /\ WorkerAt /\ WindowBounded

Workers == [pc : {"idle", "sleeping", "calling", "backoff", "connecting",
                  "streaming", "stopped"},
            req : Requests \cup {None}, count : Nat, wakeAt : Nat,
            prev : {"CLOSED", "OPEN", "HALF_OPEN", None}]

Limiters == [timestamps : Seq(Nat), last : Nat \cup {None}]

Phases == [name : {"serving", "draining", "stopped"}, until : Nat \cup {None}]

\* The calls still in the window are a part of those before.
LEMMA FreshTypes ==
  ASSUME NEW cs \in Seq(Nat), NEW clock \in Nat
  PROVE  LET n == Cardinality({i \in DOMAIN cs : cs[i] <= clock - Window})
         IN  /\ n \in Nat /\ n <= Len(cs) /\ Len(cs) \in Nat
             /\ Fresh(cs, clock) \in Seq(Nat)
             /\ Len(Fresh(cs, clock)) = Len(cs) - n
             /\ \A i \in 1..(Len(cs) - n) : Fresh(cs, clock)[i] = cs[n + i]
<1> DEFINE old == {i \in DOMAIN cs : cs[i] <= clock - Window}
           n   == Cardinality(old)
           s   == SubSeq(cs, n + 1, Len(cs))
<1>1. DOMAIN cs = 1..Len(cs) /\ Len(cs) \in Nat
  BY LenProperties
<1>2. /\ IsFiniteSet(1..Len(cs))
      /\ Cardinality(1..Len(cs)) = IF 1 > Len(cs) THEN 0 ELSE Len(cs) - 1 + 1
  BY <1>1, FS_Interval
<1>3. old \subseteq 1..Len(cs)
  BY <1>1
<1> HIDE DEF old
<1>4. n \in Nat /\ n <= Cardinality(1..Len(cs))
  BY <1>2, <1>3, FS_Subset, FS_CardinalityType
<1>5. n <= Len(cs)
  BY <1>1, <1>2, <1>4
<1> HIDE DEF n
<1>6. \A i \in (n + 1)..Len(cs) : cs[i] \in Nat
  BY <1>1, <1>4, ElementOfSeq
<1>7. /\ s \in Seq(Nat)
      /\ Len(s) = IF n + 1 <= Len(cs) THEN Len(cs) - (n + 1) + 1 ELSE 0
      /\ \A i \in 1..(Len(cs) - (n + 1) + 1) : s[i] = cs[(n + 1) + i - 1]
  BY <1>1, <1>4, <1>6, SubSeqProperties
<1> HIDE DEF s
<1>8. Len(s) = Len(cs) - n
  BY SMTT(30), <1>1, <1>4, <1>5, <1>7
<1>9. ASSUME NEW i \in 1..(Len(cs) - n) PROVE s[i] = cs[n + i]
  <2>1. i \in 1..(Len(cs) - (n + 1) + 1) /\ (n + 1) + i - 1 = n + i
    BY <1>1, <1>4
  <2> QED BY <1>7, <2>1
<1>10. Fresh(cs, clock) = s
  BY DEF Fresh, s, n, old
<1> QED
  BY <1>1, <1>4, <1>5, <1>7, <1>8, <1>9, <1>10 DEF n, old

\* One iteration of acquire(): the limiter stays within its bounds, and the
\* worker sleeps or makes the first call for r.
LEMMA AcquireEffect ==
  ASSUME limiter \in Limiters, WindowBounded, calls \in Seq(Nat), now \in Nat,
         NEW r, NEW prev, Acquire(r, prev)
  PROVE  /\ limiter' \in Limiters /\ WindowBounded'
         /\ \/ /\ \E wait \in Nat : worker' = Busy(r, "sleeping", 0, now + wait, prev)
               /\ calls' = calls
            \/ /\ worker' = Busy(r, IF r \in Streams THEN "connecting" ELSE "calling",
                                 0, now + ForwardTimeout, prev)
               /\ calls' = Append(Recent(calls), now)
<1> USE LimiterAssumption
<1> DEFINE ts == limiter.timestamps
           p  == TryAcquire(ts, limiter.last, now, now)
<1>1. ts \in Seq(Nat) /\ Len(ts) <= Rpm /\ limiter.last \in Nat \cup {None}
  BY DEF Limiters, WindowBounded
<1>2. /\ p.granted \in BOOLEAN
      /\ p.last = IF p.granted THEN now ELSE limiter.last
      /\ p.wait \in Nat
      /\ \E rest, m :
           /\ Ends(rest, m, ts)
           /\ \A i \in 1..m : ts[i] + Window <= now
           /\ p.timestamps = IF p.granted THEN Append(rest, now) ELSE rest
           /\ p.granted => Len(rest) < Rpm /\ IntervalWait(limiter.last, now) = 0
  <2> HIDE DEF ts
  <2>1. now <= now
    OBVIOUS
  <2> QED BY <1>1, <2>1, TryAcquireEffect
<1>3. limiter' = [timestamps |-> p.timestamps, last |-> p.last]
  BY DEF Acquire
<1>4. IF p.granted THEN Call(r, 0, prev)
      ELSE worker' = Busy(r, "sleeping", 0, now + p.wait, prev) /\ UNCHANGED calls
  BY DEF Acquire
<1>5. p.timestamps \in Seq(Nat) /\ Len(p.timestamps) <= Rpm
  <2> HIDE DEF p
  <2>1. PICK rest, m : /\ Ends(rest, m, ts)
                       /\ p.timestamps = IF p.granted THEN Append(rest, now) ELSE rest
                       /\ p.granted => Len(rest) < Rpm
    BY <1>2
  <2>2. rest \in Seq(Nat) /\ Len(rest) \in Nat /\ Len(rest) <= Rpm
    <3>1. Len(ts) \in Nat /\ rest \in Seq(Nat) /\ m \in 0..Len(ts) /\ Len(rest) = Len(ts) - m
      BY <1>1, <2>1, LenProperties DEF Ends
    <3> HIDE DEF ts
    <3> QED BY <1>1, <3>1
  <2>3. Append(rest, now) \in Seq(Nat) /\ Len(Append(rest, now)) = Len(rest) + 1
    BY <2>2, AppendProperties
  <2> QED BY <2>1, <2>2, <2>3
<1>6. p.last \in Nat \cup {None}
  BY <1>1, <1>2
<1> HIDE DEF p
<1> QED
  BY <1>2, <1>3, <1>4, <1>5, <1>6 DEF Limiters, WindowBounded, Call

\* The worker is started idle.
LEMMA InitCore ==
  ASSUME Init
  PROVE  Core
<1> USE NoneAssumption, PipelineAssumption, LimiterAssumption
<1>1. << >> \in Seq(Requests) /\ Len(<< >>) = 0 /\ << >> \in Seq(Nat)
  BY EmptySeq
<1>2. NewHandle \in Handles({"chunk", "end"} \cup Exceptions)
  BY EmptySeq DEF NewHandle, Handles
<1>3. NoMetrics \in Snapshots /\ Closed \in Breakers /\ Idle \in Workers
  BY DEF NoMetrics, Snapshots, Closed, Breakers, Idle, Workers
<1>4. TypeOK
  BY <1>1, <1>2, <1>3 DEF Init, TypeOK, Workers
<1>5. WorkerAt /\ WindowBounded
  BY <1>1 DEF Init, WorkerAt, WindowBounded, Idle
<1> QED
  BY <1>4, <1>5 DEF Core

\* What the worker records in the breaker and in the metrics keeps their types.
LEMMA RecordTypes ==
  ASSUME NEW b \in Breakers, NEW m \in Snapshots, NEW e, NEW prev, now \in Nat
  PROVE  /\ Recorded(b, e) \in Breakers /\ Succeeded(b) \in Breakers
         /\ WithState(m, prev, b) \in Snapshots
<1>1. Recorded(b, e) \in Breakers /\ Succeeded(b) \in Breakers
  BY BreakerTypes DEF Recorded, Succeeded
<1>2. b.state \in States /\ (b.state = "OPEN" /\ prev # "OPEN") \in BOOLEAN
  BY DEF Breakers, States
<1>3. WithState(m, prev, b) \in Snapshots
  BY <1>2, MetricsTypes DEF WithState
<1> QED
  BY <1>1, <1>3

\* Counting an upstream error keeps the type of the metrics.
LEMMA CountedTypes ==
  ASSUME metrics \in Snapshots
  PROVE  Counted \subseteq Snapshots
<1>1. "OPEN" \in States /\ TRUE \in BOOLEAN
  BY DEF States
<1> QED BY <1>1, MetricsTypes DEF Counted

Futures == {"none", "refused", "pending", "cancelled", "result"} \cup Exceptions

Openings == [count : Nat, at : Nat \cup {None}]

\* A new state of the breaker keeps the types of the breaker and its history.
LEMMA SetBreakerTypes ==
  ASSUME NEW b \in Breakers, opening \in Openings, now \in Nat, SetBreaker(b)
  PROVE  breaker' \in Breakers /\ opening' \in Openings
<1> DEFINE more == opening.count + 1
<1>1. more \in Nat
  BY DEF Openings
<1> HIDE DEF more
<1>2. [count |-> more, at |-> now] \in Openings
  BY <1>1 DEF Openings
<1> QED
  BY <1>2 DEF SetBreaker, more

\* _reject() gives r its outcome and nobody else.
LEMMA RejectTypes ==
  ASSUME NEW r \in Requests, NEW e \in Exceptions, NEW m \in Snapshots,
         NEW b \in Breakers, NEW prev, Reject(r, e, m, b, prev),
         future \in [Plain -> Futures], registered \subseteq Plain,
         handle \in [Streams -> Handles(Items)], opening \in Openings, now \in Nat
  PROVE  /\ breaker' \in Breakers /\ opening' \in Openings /\ metrics' \in Snapshots
         /\ future' \in [Plain -> Futures] /\ registered' \subseteq Plain
         /\ handle' \in [Streams -> Handles(Items)]
<1> DEFINE after == Recorded(b, e)
<1>1. after \in Breakers /\ WithState(m, prev, after) \in Snapshots
  BY RecordTypes
<1>2. SetBreaker(after)
  BY DEF Reject
<1>3. breaker' \in Breakers /\ opening' \in Openings
  BY <1>1, <1>2, SetBreakerTypes
<1>4. "OPEN" \in States /\ TRUE \in BOOLEAN
  BY DEF States
<1>5. RecordStreamCompleted(WithState(m, prev, after)) \in Snapshots
  BY <1>1, <1>4, MetricsTypes
<1>6. CASE r \in Streams
  <2>1. handle[r] \in Handles(Items)
    BY <1>6
  <2>2. Close(PutError(handle[r], e)) \in Handles(Items)
    BY <2>1, CloseEffect
  <2> QED BY <1>3, <1>5, <1>6, <2>2 DEF Reject
<1>7. CASE r \notin Streams
  BY <1>1, <1>3, <1>7 DEF Reject, Resolve, Futures
<1> QED
  BY <1>6, <1>7

\* The readers of the streams.
Readers == {"none", "refused", "unread", "reading", "done", "gone"} \cup Exceptions

\* TypeOK, part by part.
LEMMA TypeParts ==
  TypeOK <=>
    /\ now \in 0..MaxTime /\ skew \in (-MaxSkew)..MaxSkew
    /\ queue \in Seq(Requests) /\ Len(queue) <= QueueMax
    /\ submittedAt \in [Requests -> Nat \cup {None}]
    /\ enqueuedAt \in [Requests -> Int \cup {None}]
    /\ future \in [Plain -> Futures] /\ registered \subseteq Plain
    /\ handle \in [Streams -> Handles(Items)] /\ reader \in [Streams -> Readers]
    /\ worker \in Workers /\ limiter \in Limiters /\ breaker \in Breakers
    /\ phase \in Phases /\ metrics \in Snapshots /\ calls \in Seq(Nat)
    /\ opening \in Openings
BY DEF TypeOK, Futures, Items, Readers, Workers, Limiters, Phases, Openings

\* Clocks, queue and instants keep their types.
LEMMA ArrivalTypes ==
  ASSUME Core, Steps
  PROVE  /\ now' \in 0..MaxTime /\ skew' \in (-MaxSkew)..MaxSkew
         /\ queue' \in Seq(Requests) /\ Len(queue') <= QueueMax
         /\ submittedAt' \in [Requests -> Nat \cup {None}]
         /\ enqueuedAt' \in [Requests -> Int \cup {None}]
<1> USE PipelineAssumption
<1>1. /\ now \in 0..MaxTime /\ skew \in (-MaxSkew)..MaxSkew
      /\ queue \in Seq(Requests) /\ Len(queue) <= QueueMax /\ Len(queue) \in Nat
      /\ submittedAt \in [Requests -> Nat \cup {None}]
      /\ enqueuedAt \in [Requests -> Int \cup {None}]
  BY TypeParts, LenProperties DEF Core
<1>2. now' \in 0..MaxTime /\ skew' \in (-MaxSkew)..MaxSkew
  <2>1. CASE UNCHANGED <<now, skew>>
    BY <1>1, <2>1
  <2>2. CASE Tick
    BY <1>1, <2>2 DEF Tick
  <2>3. CASE ClockStep
    BY <1>1, <2>3 DEF ClockStep
  <2> QED BY <2>1, <2>2, <2>3, WorkerFrame
<1>3. ASSUME NEW r \in Requests, Accepting, Accept(r)
      PROVE  /\ queue' \in Seq(Requests) /\ Len(queue') <= QueueMax
             /\ submittedAt' \in [Requests -> Nat \cup {None}]
             /\ enqueuedAt' \in [Requests -> Int \cup {None}]
  <2>1. queue' \in Seq(Requests) /\ Len(queue') = Len(queue) + 1
    BY <1>1, <1>3, AppendToLine DEF Accept
  <2>2. now \in Nat /\ now + skew \in Int
    BY <1>1
  <2>3. /\ submittedAt' \in [Requests -> Nat \cup {None}]
        /\ enqueuedAt' \in [Requests -> Int \cup {None}]
    BY <1>1, <1>3, <2>2 DEF Accept
  <2> QED BY <1>1, <1>3, <2>1, <2>3 DEF Accepting
<1>4. /\ queue' \in Seq(Requests) /\ Len(queue') <= QueueMax
      /\ submittedAt' \in [Requests -> Nat \cup {None}]
      /\ enqueuedAt' \in [Requests -> Int \cup {None}]
  <2>1. CASE \/ \E r \in Plain : Submit(r)
             \/ \E r \in Streams : SubmitStream(r)
    BY <1>1, <1>3, <2>1 DEF Submit, SubmitStream, Requests
  <2>2. CASE (Drop \/ Take) /\ UNCHANGED <<submittedAt, enqueuedAt>>
    <3>1. queue # << >> /\ queue' = Tail(queue)
      BY <2>2 DEF Drop, Take
    <3>2. Tail(queue) \in Seq(Requests) /\ Len(Tail(queue)) = Len(queue) - 1
      BY <1>1, <3>1, TailOfLine
    <3> QED BY <1>1, <2>2, <3>1, <3>2
  <2>3. CASE UNCHANGED <<queue, submittedAt, enqueuedAt>>
    BY <1>1, <2>3
  <2> QED BY <2>1, <2>2, <2>3, QueueFrame
<1> QED
  BY <1>2, <1>4

\* So do the outcomes of the requests, the breaker and the metrics.
LEMMA OutcomeTypes ==
  ASSUME Core, Steps
  PROVE  /\ future' \in [Plain -> Futures] /\ registered' \subseteq Plain
         /\ handle' \in [Streams -> Handles(Items)] /\ reader' \in [Streams -> Readers]
         /\ breaker' \in Breakers /\ opening' \in Openings /\ metrics' \in Snapshots
<1> DEFINE Done1 == /\ future' \in [Plain -> Futures] /\ registered' \subseteq Plain
           Done2 == handle' \in [Streams -> Handles(Items)]
           Done3 == breaker' \in Breakers /\ opening' \in Openings
           Done4 == metrics' \in Snapshots
<1>1. /\ now \in Nat /\ queue \in Seq(Requests)
      /\ future \in [Plain -> Futures] /\ registered \subseteq Plain
      /\ handle \in [Streams -> Handles(Items)] /\ reader \in [Streams -> Readers]
      /\ worker \in Workers /\ breaker \in Breakers
      /\ metrics \in Snapshots /\ opening \in Openings
  BY TypeParts, PipelineAssumption DEF Core
<1>2. /\ worker.pc \in {"calling", "backoff"} => worker.req \in Plain
      /\ worker.pc \in {"connecting", "streaming"} => worker.req \in Streams
  BY DEF Core, WorkerAt
<1>3. "OPEN" \in States /\ TRUE \in BOOLEAN /\ FailureExceptions \subseteq Exceptions
  BY DEF States, FailureExceptions, Exceptions
<1>4. Counted \subseteq Snapshots
  BY <1>1, CountedTypes
<1>5. RecordEnqueue(metrics) \in Snapshots /\ RecordDequeue(metrics) \in Snapshots
      /\ RecordStreamStarted(RecordEnqueue(metrics)) \in Snapshots
  BY <1>1, <1>3, MetricsTypes
<1>6. AfterCanExecute(breaker, now) \in Breakers
  BY <1>1, BreakerTypes
<1>7. ASSUME Drop PROVE Done1 /\ Done2 /\ Done3 /\ Done4
  <2>1. Head(queue) \in Requests
    BY <1>1, <1>7, TailOfLine DEF Drop
  <2>2. PICK e \in FailureExceptions, b \in {breaker, AfterCanExecute(breaker, now)} :
          Reject(Head(queue), e, RecordDequeue(metrics), b, breaker.state)
    BY <1>7 DEF Drop
  <2>3. e \in Exceptions /\ b \in Breakers
    BY <1>1, <1>3, <1>6
  <2> QED BY <1>1, <1>5, <2>1, <2>2, <2>3, RejectTypes
<1>8. ASSUME AttemptEnds PROVE Done1 /\ Done2 /\ Done3 /\ Done4
  <2>1. worker.req \in Requests
    BY <1>2, <1>8 DEF AttemptEnds, Requests
  <2>2. PICK e \in Exceptions, m \in Counted :
          Reject(worker.req, e, m, breaker, worker.prev)
    BY <1>8 DEF AttemptEnds
  <2> QED BY <1>1, <1>4, <2>1, <2>2, RejectTypes
<1>9. ASSUME Reply PROVE Done1 /\ Done3 /\ Done4
  <2>1. Succeeded(breaker) \in Breakers
        /\ WithState(metrics, worker.prev, Succeeded(breaker)) \in Snapshots
    BY <1>1, RecordTypes
  <2>2. Done3
    BY <1>1, <1>9, <2>1, SetBreakerTypes DEF Reply
  <2>3. Done1
    BY <1>1, <1>9 DEF Reply, Resolve, Futures
  <2>4. Done4
    BY <1>9, <2>1 DEF Reply
  <2> QED BY <2>2, <2>3, <2>4
<1>10. ASSUME StreamOver PROVE Done2 /\ Done3 /\ Done4
  <2>1. handle[worker.req] \in Handles(Items)
    BY <1>1, <1>2, <1>10 DEF StreamOver
  <2>2. PICK h \in StreamItems(handle[worker.req]), b \in StreamOutcomes(breaker) :
          FinishStream(h, b)
    BY <1>10 DEF StreamOver
  <2>3. b \in Breakers
    <3>1. Succeeded(breaker) \in Breakers
      BY <1>1, RecordTypes
    <3>2. \A e : Recorded(breaker, e) \in Breakers
      BY <1>1, RecordTypes
    <3> QED BY Zenon, <1>1, <3>1, <3>2 DEF StreamOutcomes
  <2>4. h \in Handles(Items) /\ "Other" \in Exceptions
    <3>1. "Other" \in Exceptions
      BY DEF Exceptions
    <3>2. \A e \in Exceptions : PutError(handle[worker.req], e) \in Handles(Items)
      BY <2>1, CloseEffect
    <3> QED BY <2>1, <3>1, <3>2 DEF StreamItems
  <2>5. Close(h) \in Handles(Items)
    BY <2>4, CloseEffect
  <2>6. RecordStreamCompleted(WithState(metrics, worker.prev, b)) \in Snapshots
    <3>1. WithState(metrics, worker.prev, b) \in Snapshots
      BY <1>1, <2>3, RecordTypes
    <3> QED BY <1>3, <3>1, MetricsTypes
  <2>7. Done3
    BY <1>1, <2>2, <2>3, SetBreakerTypes DEF FinishStream
  <2> QED BY <1>1, <2>2, <2>5, <2>6, <2>7 DEF FinishStream
<1>11. ASSUME Halt PROVE Done2 /\ Done4
  <2>1. CASE worker.pc \in {"connecting", "streaming"}
    <3>1. handle[worker.req] \in Handles(Items) /\ "Other" \in Exceptions
      BY <1>1, <1>2, <2>1 DEF Exceptions
    <3>2. Close(handle[worker.req]) \in Handles(Items)
      BY <3>1, CloseEffect
    <3>3. WithState(metrics, worker.prev, breaker) \in Snapshots
      BY <1>1, RecordTypes
    <3>4. RecordStreamCompleted(WithState(metrics, worker.prev, breaker)) \in Snapshots
      BY <1>3, <3>3, MetricsTypes
    <3> QED BY <1>1, <1>11, <2>1, <3>2, <3>4 DEF Halt, StopWorker
  <2>2. CASE worker.pc \notin {"connecting", "streaming"}
    BY <1>1, <1>11, <2>2 DEF Halt, StopWorker
  <2> QED BY <2>1, <2>2
<1>12. Done1
  <2>1. CASE \E r \in Plain : Submit(r) \/ ClientTimeout(r)
    BY <1>1, <2>1 DEF Submit, ClientTimeout, Futures
  <2> QED BY <1>1, <1>7, <1>8, <1>9, <2>1, OutcomeFrame
<1>13. Done2 /\ reader' \in [Streams -> Readers]
  <2>1. ASSUME NEW r \in Streams, Read(r)
        PROVE  Done2 /\ reader' \in [Streams -> Readers]
    <3> DEFINE h == handle[r]
               g == [h EXCEPT !.items = Tail(@)]
    <3>1. h \in Handles(Items) /\ h.items \in Seq(Items) /\ h.items # << >>
      BY <1>1, <2>1 DEF Read, Handles
    <3>2. Tail(h.items) \in Seq(Items) /\ Head(h.items) \in Items
      BY <3>1, HeadTailProperties
    <3>3. g \in Handles(Items)
      BY <3>1, <3>2 DEF Handles
    <3>4. handle' = [handle EXCEPT ![r] = g]
      BY <1>1, <2>1 DEF Read
    <3>5. Head(h.items) \notin {"chunk", "end"} => Head(h.items) \in Readers
      BY <3>2 DEF Items, Readers
    <3>6. reader[r] \in Readers /\ "done" \in Readers
      BY <1>1 DEF Readers
    <3> DEFINE told == CASE Head(h.items) = "chunk" -> reader[r]
                         [] Head(h.items) = "end"   -> "done"
                         [] OTHER -> Head(h.items)
    <3>7. reader' = [reader EXCEPT ![r] = told]
      BY <2>1 DEF Read
    <3>8. told \in Readers
      BY <3>5, <3>6
    <3> HIDE DEF told, g
    <3> QED BY <1>1, <3>3, <3>4, <3>7, <3>8
  <2>2. ASSUME NEW r \in Streams, Disconnect(r) PROVE Done2
    <3>1. Cancel(handle[r]) \in Handles(Items)
      BY <1>1, CancelTypes
    <3> QED BY <1>1, <2>2, <3>1 DEF Disconnect
  <2>3. ASSUME Chunk PROVE Done2
    <3>1. handle[worker.req] \in Handles(Items)
      BY <1>1, <1>2, <2>3 DEF Chunk
    <3>2. PutChunk(handle[worker.req]) \in Handles(Items)
      BY <3>1, PutChunkEffect
    <3> QED BY <1>1, <2>3, <3>2 DEF Chunk
  <2>4. ASSUME NEW r \in Streams,
               SubmitStream(r) \/ StartReading(r) \/ Disconnect(r) \/ DisconnectEarly(r)
        PROVE  reader' \in [Streams -> Readers]
    BY <1>1, <2>4 DEF SubmitStream, StartReading, Disconnect, DisconnectEarly, Readers
  <2>5. Done2
    BY <1>1, <1>7, <1>8, <1>10, <1>11, <2>1, <2>2, <2>3, OutcomeFrame
  <2> HIDE DEF Done2
  <2>6. reader' \in [Streams -> Readers]
    BY <1>1, <2>1, <2>4, QueueFrame
  <2> QED BY <2>5, <2>6
<1>14. Done3
  <2>1. CASE Take
    <3>1. (IF BreakerEnabled THEN AfterCanExecute(breaker, now) ELSE breaker) \in Breakers
      BY <1>1, <1>6
    <3> QED BY <1>1, <2>1, <3>1, SetBreakerTypes DEF Take
  <2> QED BY <1>1, <1>7, <1>8, <1>9, <1>10, <2>1, BreakerFrame DEF BreakerSteps, breakerVars
<1>15. Done4
  <2>1. CASE (\E r \in Plain : Submit(r)) \/ (\E r \in Streams : SubmitStream(r))
    BY <1>1, <1>5, <2>1 DEF Submit, SubmitStream
  <2>2. CASE Take \/ AttemptRepeats
    BY <1>4, <1>5, <2>2 DEF Take, AttemptRepeats
  <2> QED BY <1>1, <1>7, <1>8, <1>9, <1>10, <1>11, <2>1, <2>2, MetricsFrame
<1> QED
  BY <1>12, <1>13, <1>14, <1>15

\* A suspended worker: what Busy is given is what it is.
LEMMA BusyFields ==
  ASSUME NEW r, NEW pc, NEW n, NEW until, NEW prev
  PROVE  LET w == Busy(r, pc, n, until, prev)
         IN  /\ w.pc = pc /\ w.req = r /\ w.count = n /\ w.wakeAt = until
             /\ w.prev = prev
             /\ (r \in Requests /\ n \in Nat /\ until \in Nat /\ prev \in States
                  /\ pc \in {"sleeping", "calling", "backoff", "connecting", "streaming"})
                    => w \in Workers
<1> DEFINE w == Busy(r, pc, n, until, prev)
<1>1. /\ w.pc = pc /\ w.req = r /\ w.count = n /\ w.wakeAt = until /\ w.prev = prev
      /\ w = [pc |-> pc, req |-> r, count |-> n, wakeAt |-> until, prev |-> prev]
  BY DEF Busy
<1>2. ASSUME r \in Requests, n \in Nat, until \in Nat, prev \in States,
             pc \in {"sleeping", "calling", "backoff", "connecting", "streaming"}
      PROVE  w \in Workers
  <2>1. prev \in {"CLOSED", "OPEN", "HALF_OPEN", None} /\ r \in Requests \cup {None}
    BY <1>2 DEF States
  <2>2. pc \in {"idle", "sleeping", "calling", "backoff", "connecting", "streaming", "stopped"}
    BY <1>2
  <2> HIDE DEF w
  <2> QED BY <1>1, <1>2, <2>1, <2>2, Zenon DEF Workers
<1> QED
  BY <1>1, <1>2

\* Wherever the worker goes, it has a request of the right kind.
LEMMA CoreStep ==
  ASSUME Core, Steps
  PROVE  Core'
<1> USE PipelineAssumption, NoneAssumption
<1>1. /\ now \in Nat /\ ForwardTimeout \in Nat /\ now + ForwardTimeout \in Nat
      /\ queue \in Seq(Requests) /\ worker \in Workers /\ limiter \in Limiters
      /\ phase \in Phases /\ calls \in Seq(Nat) /\ breaker.state \in States
  BY SMTT(30), TypeParts DEF Core, Breakers, States
<1>2. /\ worker.pc \in {"idle", "stopped"} <=> worker.req = None
      /\ worker.pc \in {"calling", "backoff"} => worker.req \in Plain
      /\ worker.pc \in {"connecting", "streaming"} => worker.req \in Streams
      /\ worker.pc = "stopped" <=> phase.name = "stopped"
      /\ worker.pc = "calling" => worker.count <= MaxRetries
      /\ worker.pc = "backoff" => worker.count < MaxRetries
      /\ worker.req # None => worker.prev \in States
      /\ WindowBounded /\ TypeOK
  BY DEF Core, WorkerAt
<1>3. worker.req # None => worker.req \in Requests /\ worker.prev \in States
  BY <1>1, <1>2 DEF Workers
<1>4. Append(Recent(calls), now) \in Seq(Nat)
  <2>1. Recent(calls) \in Seq(Nat)
    BY <1>1, FreshTypes DEF Recent
  <2> QED BY <1>1, <2>1, AppendProperties
<1> DEFINE Good == /\ worker' \in Workers /\ phase' \in Phases /\ WorkerAt'
           Held == limiter' \in Limiters /\ calls' \in Seq(Nat) /\ WindowBounded'
<1>5. ASSUME NEW r \in Requests, NEW prev \in States, Acquire(r, prev),
             UNCHANGED phase, phase.name # "stopped"
      PROVE  Good /\ Held
  <2>1. /\ limiter' \in Limiters /\ WindowBounded'
        /\ \/ /\ \E wait \in Nat : worker' = Busy(r, "sleeping", 0, now + wait, prev)
              /\ calls' = calls
           \/ /\ worker' = Busy(r, IF r \in Streams THEN "connecting" ELSE "calling",
                                0, now + ForwardTimeout, prev)
              /\ calls' = Append(Recent(calls), now)
    BY <1>1, <1>2, <1>5, AcquireEffect
  <2>2. Held
    BY <1>1, <1>4, <2>1
  <2>3. CASE \E wait \in Nat : worker' = Busy(r, "sleeping", 0, now + wait, prev)
    <3>1. PICK wait \in Nat : worker' = Busy(r, "sleeping", 0, now + wait, prev)
      BY <2>3
    <3>2. now + wait \in Nat
      BY <1>1
    <3>3. /\ worker'.pc = "sleeping" /\ worker'.req = r /\ worker'.prev = prev
          /\ worker' \in Workers
      BY <3>1, <3>2, BusyFields
    <3> HIDE DEF Held
    <3> QED BY <1>1, <1>5, <2>2, <3>3 DEF WorkerAt
  <2>4. CASE worker' = Busy(r, IF r \in Streams THEN "connecting" ELSE "calling",
                            0, now + ForwardTimeout, prev)
    <3>1. /\ worker'.pc = IF r \in Streams THEN "connecting" ELSE "calling"
          /\ worker'.req = r /\ worker'.prev = prev
          /\ worker'.count = 0 /\ worker' \in Workers
      BY SMTT(30), <1>1, <2>4, BusyFields
    <3> HIDE DEF Held
    <3> QED BY <1>1, <1>5, <2>2, <3>1 DEF WorkerAt, Requests
  <2> QED BY <2>1, <2>2, <2>3, <2>4
<1>6. ASSUME Take PROVE Good /\ Held
  <2>1. Head(queue) \in Requests
    BY <1>1, <1>6, TailOfLine DEF Take
  <2>2. phase.name # "stopped" /\ UNCHANGED phase /\ Acquire(Head(queue), breaker.state)
    BY <1>2, <1>6 DEF Take
  <2> QED BY <1>1, <1>5, <2>1, <2>2
<1>7. ASSUME WakeUp PROVE Good /\ Held
  <2>1. phase.name # "stopped" /\ UNCHANGED phase /\ Acquire(worker.req, worker.prev)
        /\ worker.req # None
    BY <1>2, <1>7 DEF WakeUp
  <2> QED BY <1>3, <1>5, <2>1
<1>8. ASSUME Retry PROVE Good /\ Held
  <2> DEFINE more  == worker.count + 1
             until == now + ForwardTimeout
  <2>1. /\ worker.req \in Plain /\ worker.req \notin Streams /\ worker.req # None
        /\ worker.req \in Requests /\ worker.prev \in States
        /\ more <= MaxRetries /\ more \in Nat /\ until \in Nat
    BY <1>1, <1>2, <1>8 DEF Retry, Workers, Requests
  <2>2. /\ worker' = Busy(worker.req, "calling", more, until, worker.prev)
        /\ calls' = Append(Recent(calls), now)
        /\ UNCHANGED <<phase, limiter>> /\ phase.name # "stopped"
    BY <1>2, <1>8, <2>1 DEF Retry, Call
  <2> HIDE DEF more, until
  <2>3. /\ worker'.pc = "calling" /\ worker'.req = worker.req
        /\ worker'.prev = worker.prev /\ worker'.count = more
        /\ worker' \in Workers
    BY <2>1, <2>2, BusyFields
  <2>4. Held
    BY <1>1, <1>2, <1>4, <2>2 DEF WindowBounded
  <2> HIDE DEF Held
  <2> QED BY <1>1, <1>2, <2>1, <2>2, <2>3, <2>4 DEF WorkerAt
<1>9. ASSUME AttemptRepeats PROVE Good /\ Held
  <2>1. /\ worker.req \in Plain /\ worker.req \notin Streams /\ worker.req # None
        /\ worker.count < MaxRetries /\ worker.count \in Nat
    BY <1>1, <1>2, <1>9 DEF AttemptRepeats, Workers, Requests
  <2>2. now + Backoff * 2^worker.count \in Nat
    <3>1. 2^worker.count \in Nat
      BY <2>1, PowersAssumption
    <3> DEFINE power == 2^worker.count
    <3> HIDE DEF power
    <3>2. power \in Nat => now + Backoff * power \in Nat
      BY SMTT(30), <1>1
    <3> QED BY <3>1, <3>2 DEF power
  <2> DEFINE until == now + Backoff * 2^worker.count
  <2>3. /\ worker' = Busy(worker.req, "backoff", worker.count, until, worker.prev)
        /\ UNCHANGED <<phase, limiter, calls>> /\ phase.name # "stopped"
    BY <1>2, <1>9 DEF AttemptRepeats
  <2> HIDE DEF until
  <2>4. until \in Nat
    BY <2>2 DEF until
  <2>5. /\ worker'.pc = "backoff" /\ worker'.req = worker.req
        /\ worker'.prev = worker.prev /\ worker'.count = worker.count
        /\ worker' \in Workers
    BY <1>3, <2>1, <2>3, <2>4, BusyFields
  <2> QED BY <1>1, <1>2, <2>1, <2>3, <2>5 DEF WorkerAt, WindowBounded
<1>10. ASSUME Connect PROVE Good /\ Held
  <2>1. /\ worker.req \in Streams /\ worker.req \in Requests /\ worker.req # None
        /\ 0 \in Nat
    BY <1>2, <1>10 DEF Connect, Requests
  <2>2. /\ worker' = Busy(worker.req, "streaming", 0, 0, worker.prev)
        /\ UNCHANGED <<phase, limiter, calls>> /\ phase.name # "stopped"
    BY <1>2, <1>10 DEF Connect
  <2>3. /\ worker'.pc = "streaming" /\ worker'.req = worker.req
        /\ worker'.prev = worker.prev /\ worker' \in Workers
    BY <1>3, <2>1, <2>2, BusyFields
  <2> QED BY <1>1, <1>2, <2>1, <2>2, <2>3 DEF WorkerAt, WindowBounded
<1>11. ASSUME Chunk PROVE Good /\ Held
  <2> DEFINE more == worker.count + 1
  <2>1. more \in Nat
    BY <1>1 DEF Workers
  <2> HIDE DEF more
  <2>2. /\ worker' = [worker EXCEPT !.count = more] /\ worker.pc = "streaming"
        /\ UNCHANGED <<phase, limiter, calls>>
    BY <1>11 DEF Chunk, more
  <2>3. /\ worker'.pc = worker.pc /\ worker'.req = worker.req /\ worker'.prev = worker.prev
        /\ worker' \in Workers
    BY <1>1, <2>1, <2>2 DEF Workers
  <2> QED BY <1>1, <1>2, <2>2, <2>3 DEF WorkerAt, WindowBounded
<1>12. ASSUME Reply \/ AttemptEnds \/ StreamOver PROVE Good /\ Held
  <2>1. worker' = Idle /\ UNCHANGED <<phase, limiter, calls>> /\ phase.name # "stopped"
    BY <1>2, <1>12 DEF Reply, AttemptEnds, StreamOver, FinishStream
  <2>2. Idle \in Workers /\ Idle.pc = "idle" /\ Idle.req = None
    BY DEF Idle, Workers
  <2> QED BY <1>1, <1>2, <2>1, <2>2 DEF WorkerAt, WindowBounded
<1>13. ASSUME Halt PROVE Good /\ Held
  <2>1. /\ worker' = [Idle EXCEPT !.pc = "stopped"] /\ UNCHANGED <<limiter, calls>>
        /\ phase'.name = "stopped"
    BY <1>13 DEF Halt, StopWorker
  <2>2. /\ worker' \in Workers /\ worker'.pc = "stopped" /\ worker'.req = None
    BY <2>1 DEF Idle, Workers
  <2>3. phase' \in Phases
    <3>1. now + DrainTimeout \in Nat
      BY <1>1
    <3>2. phase'.until \in Nat \cup {None}
      BY <1>1, <1>13, <3>1 DEF Halt, Phases
    <3> QED BY <1>13, <2>1, <3>2 DEF Halt, Phases
  <2> QED BY <1>1, <1>2, <2>1, <2>2, <2>3 DEF WorkerAt, WindowBounded
<1>14. ASSUME BeginDrain PROVE Good /\ Held
  <2>1. /\ worker' = worker /\ UNCHANGED <<limiter, calls>> /\ phase'.name = "draining"
        /\ phase.name = "serving" /\ phase' \in Phases
    <3>1. now + DrainTimeout \in Nat
      BY <1>1
    <3> QED BY <1>14, <3>1 DEF BeginDrain, Phases
  <2> QED BY <1>1, <1>2, <2>1 DEF WorkerAt, WindowBounded
<1>15. ASSUME UNCHANGED <<worker, phase>>, UNCHANGED <<limiter, calls>>
       PROVE  Good /\ Held
  BY <1>1, <1>2, <1>15 DEF WorkerAt, WindowBounded
<1>16. Good /\ Held
  BY <1>6, <1>7, <1>8, <1>9, <1>10, <1>11, <1>12, <1>13, <1>14, <1>15, WorkerFrame
     DEF WorkerSteps
<1>17. TypeOK'
  <2>1. TypeOK' <=>
          /\ now' \in 0..MaxTime /\ skew' \in (-MaxSkew)..MaxSkew
          /\ queue' \in Seq(Requests) /\ Len(queue') <= QueueMax
          /\ submittedAt' \in [Requests -> Nat \cup {None}]
          /\ enqueuedAt' \in [Requests -> Int \cup {None}]
          /\ future' \in [Plain -> Futures] /\ registered' \subseteq Plain
          /\ handle' \in [Streams -> Handles(Items)] /\ reader' \in [Streams -> Readers]
          /\ worker' \in Workers /\ limiter' \in Limiters /\ breaker' \in Breakers
          /\ phase' \in Phases /\ metrics' \in Snapshots /\ calls' \in Seq(Nat)
          /\ opening' \in Openings
    BY DEF TypeOK, Futures, Items, Readers, Workers, Limiters, Phases, Openings
  <2> QED BY <1>16, <2>1, ArrivalTypes, OutcomeTypes
<1> QED
  BY <1>16, <1>17 DEF Core

\* In every state that Pipeline can reach, its variables have their types, the
\* worker has a request of the right kind, and the limiter remembers no more
\* permits than it may grant.
THEOREM CoreInvariant == Spec => []Core
<1>1. Init => Core
  BY InitCore
<1>2. Core /\ [Next]_vars => Core'
  BY CoreStep, StepCases DEF Core
<1> QED
  BY <1>1, <1>2, PTL DEF Spec

\* TypeOK holds in every state that Pipeline can reach.
THEOREM TypeCorrect == Spec => []TypeOK
<1>1. Core => TypeOK
  BY DEF Core
<1> QED
  BY <1>1, CoreInvariant, PTL

-----------------------------------------------------------------------------
(* The circuit breaker. *)

Engaged == worker.pc \in Upstream \cup {"sleeping"}

\* InFlightIsPermitted and BreakerConsistent are inductive only together: a
\* success may not be recorded while the breaker is open.  A disabled breaker is
\* never touched.
BreakerInv ==
  /\ BreakerEnabled \/ breaker = Closed
  /\ Sound(breaker)
  /\ BreakerEnabled /\ Engaged => Permits(breaker)

\* A worker that moves on within a request was engaged before.
LEMMA EngagedFrame ==
  ASSUME Core, Steps
  PROVE  /\ Engaged' => Engaged \/ Take
         /\ Reply \/ AttemptEnds \/ StreamOver => Engaged /\ ~ Engaged'
         /\ Drop => ~ Engaged'
<1> USE DEF Upstream
<1>1. WakeUp \/ Retry \/ AttemptRepeats \/ Connect \/ Chunk => Engaged
  BY DEF WakeUp, Retry, AttemptRepeats, Connect, Chunk, Engaged
<1>2. ASSUME Reply \/ AttemptEnds \/ StreamOver PROVE Engaged /\ ~ Engaged'
  <2>1. worker' = Idle /\ Engaged
    BY <1>2 DEF Reply, AttemptEnds, StreamOver, FinishStream, Engaged
  <2> QED BY <2>1 DEF Engaged, Idle
<1>3. ASSUME Halt PROVE ~ Engaged'
  BY <1>3 DEF Halt, StopWorker, Idle, Engaged
<1>4. ASSUME UNCHANGED worker PROVE Engaged' = Engaged
  BY <1>4 DEF Engaged
<1>5. ASSUME Drop PROVE ~ Engaged'
  BY <1>5 DEF Drop, Engaged
<1>6. Engaged' => Engaged \/ Take
  <2>1. CASE WorkerSteps
    BY <1>1, <1>2, <1>3, <2>1 DEF WorkerSteps
  <2> QED BY <1>4, <2>1, WorkerFrame
<1> QED
  BY <1>2, <1>5, <1>6

\* Every step keeps the breaker sound, and the worker's permission with it.
LEMMA BreakerStep ==
  ASSUME Core, BreakerInv, Steps
  PROVE  BreakerInv'
<1> USE BreakerAssumption, PipelineAssumption
<1>1. breaker \in Breakers /\ now \in Nat /\ FailureExceptions \subseteq Exceptions
  BY TypeParts DEF Core, FailureExceptions, Exceptions
<1>2. /\ BreakerEnabled \/ breaker = Closed
      /\ Sound(breaker)
      /\ BreakerEnabled /\ Engaged => Permits(breaker)
  BY DEF BreakerInv
<1>3. AfterCanExecute(Closed, now) = Closed
  BY DEF AfterCanExecute, HalfOpens, Closed
<1>4. CASE Drop
  <2>1. PICK e \in FailureExceptions, b \in {breaker, AfterCanExecute(breaker, now)} :
          breaker' = Recorded(b, e)
    BY <1>4 DEF Drop, Reject, SetBreaker
  <2>2. Sound(b) /\ b \in Breakers /\ (BreakerEnabled \/ b = Closed)
    BY <1>1, <1>2, <1>3, CanExecuteEffect, BreakerTypes
  <2>3. Sound(breaker') /\ (BreakerEnabled \/ breaker' = Closed)
    BY <1>1, <2>1, <2>2, RecordKeepsSound DEF Recorded
  <2> QED BY <1>4, <2>3, EngagedFrame DEF BreakerInv, Sound, Permits
<1>5. CASE Take
  <2>1. CASE BreakerEnabled
    <3>1. breaker' = AfterCanExecute(breaker, now) /\ CanExecute(breaker, now)
      BY <1>5, <2>1 DEF Take, SetBreaker
    <3>2. Sound(AfterCanExecute(breaker, now)) /\ Permits(AfterCanExecute(breaker, now))
      BY <1>1, <1>2, <3>1, CanExecuteEffect
    <3> QED BY <2>1, <3>1, <3>2 DEF BreakerInv, Sound, Permits
  <2>2. CASE ~ BreakerEnabled
    BY <1>2, <1>5, <2>2 DEF Take, SetBreaker, BreakerInv, Sound
  <2> QED BY <2>1, <2>2
<1>6. CASE Reply \/ AttemptEnds \/ StreamOver
  <2>1. Engaged /\ ~ Engaged'
    BY <1>6, EngagedFrame
  <2>2. BreakerEnabled => breaker.state # "OPEN"
    BY <1>2, <2>1 DEF Permits
  <2>3. breaker' \in StreamOutcomes(breaker)
    BY <1>6 DEF Reply, AttemptEnds, Reject, StreamOver, FinishStream, SetBreaker,
                StreamOutcomes
  <2>4. ASSUME NEW b \in StreamOutcomes(breaker)
        PROVE  Sound(b) /\ (BreakerEnabled \/ b = Closed)
    BY <1>1, <1>2, <2>2, RecordKeepsSound DEF StreamOutcomes, Recorded, Succeeded
  <2>5. Sound(breaker') /\ (BreakerEnabled \/ breaker' = Closed)
    BY <2>3, <2>4
  <2> QED BY <2>1, <2>5 DEF BreakerInv, Sound
<1>7. CASE UNCHANGED breakerVars /\ ~ Take
  <2>1. Engaged' => Engaged
    BY <1>7, EngagedFrame
  <2> QED BY <1>2, <1>7, <2>1 DEF breakerVars, BreakerInv, Sound, Permits
<1> QED
  BY <1>4, <1>5, <1>6, <1>7, BreakerFrame DEF BreakerSteps

\* The breaker invariant holds in every state that Pipeline can reach.
THEOREM BreakerInvariant == Spec => []BreakerInv
<1>1. Init => BreakerInv
  BY BreakerAssumption
     DEF Init, BreakerInv, Closed, Sound, Engaged, Upstream, Idle
<1>2. Core /\ BreakerInv /\ [Next]_vars => BreakerInv'
  BY BreakerStep, StepCases DEF Core
<1> QED
  BY <1>1, <1>2, CoreInvariant, PTL DEF Spec

\* No request is on its way to the upstream, or waiting for the limiter, without
\* the permission of the breaker (processor.py:265-296).
THEOREM InFlightAlwaysPermitted == Spec => []InFlightIsPermitted
<1>1. BreakerInv => InFlightIsPermitted
  BY DEF BreakerInv, InFlightIsPermitted, Engaged, Permits
<1> QED
  BY <1>1, BreakerInvariant, PTL

\* An open breaker can always recover, and a closed one has fewer failures than
\* its threshold (circuit_breaker.py:95-150).
THEOREM BreakerAlwaysConsistent == Spec => []BreakerConsistent
<1>1. BreakerInv => BreakerConsistent
  BY DEF BreakerInv, BreakerConsistent, Sound
<1> QED
  BY <1>1, BreakerInvariant, PTL

\* The request that follows an undecided probe reopens the breaker, whether it has
\* expired or is denied; none is let through (processor.py:254-289, 389-390).
THEOREM HalfOpenAlwaysLeft == Spec => HalfOpenIsLeft
<1>1. ASSUME Core, BreakerInv, Steps, breaker.state = "HALF_OPEN", Len(queue') < Len(queue)
      PROVE  breaker'.state = "OPEN"
  <2>1. /\ breaker \in Breakers /\ now \in Nat /\ breaker.probeSent
        /\ queue \in Seq(Requests) /\ Len(queue) \in Nat
    BY <1>1, PipelineAssumption, TypeParts, LenProperties DEF Core, BreakerInv, Sound
  <2>2. BreakerEnabled
    BY <1>1 DEF BreakerInv, Closed
  <2>3. Drop \/ Take
    <3>1. ASSUME NEW r \in Requests, Accept(r) PROVE FALSE
      <4>1. Len(queue') = Len(queue) + 1
        BY <2>1, <3>1, AppendProperties DEF Accept
      <4> QED BY <1>1, <2>1, <4>1
    <3>2. ASSUME \/ \E r \in Plain : Submit(r)
                 \/ \E r \in Streams : SubmitStream(r)
          PROVE  UNCHANGED queue
      BY <3>1, <3>2 DEF Submit, SubmitStream, Requests
    <3> QED BY <1>1, <2>1, <3>2, QueueFrame
  <2>4. ~ Take
    BY <1>1, <2>1, <2>2 DEF Take, CanExecute, HalfOpens
  <2>5. PICK e \in FailureExceptions, b \in {breaker, AfterCanExecute(breaker, now)} :
          breaker' = Recorded(b, e) /\ b.state = breaker.state
    BY <2>3, <2>4 DEF Drop, Reject, SetBreaker
  <2>6. b \in Breakers /\ breaker' = RecordFailure(b, now)
    BY <2>1, <2>2, <2>5, BreakerTypes DEF Recorded, RecordException
  <2> QED BY <1>1, <2>5, <2>6 DEF RecordFailure, Open, Breakers
<1>2. Core /\ BreakerInv /\ [Next]_vars =>
        [breaker.state = "HALF_OPEN" /\ worker.pc = "idle" /\ Len(queue') < Len(queue)
           => breaker'.state = "OPEN"]_vars
  BY <1>1, StepCases DEF Core
<1> QED
  BY <1>2, CoreInvariant, BreakerInvariant, PTL DEF Spec, HalfOpenIsLeft
=============================================================================
