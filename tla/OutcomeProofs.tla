---------------------------- MODULE OutcomeProofs ----------------------------
(***************************************************************************)
(* What becomes of the requests of Pipeline, for every value of the        *)
(* constants: each is owed an answer from its admission until it leaves    *)
(* the queue and the hands of the worker, its Future is resolved once, its *)
(* stream is ended once, and the metrics count it.                         *)
(***************************************************************************)
EXTENDS PipelineProofs

-----------------------------------------------------------------------------
(* What a step may do to one client. *)

\* A Future is made pending or refused by submit(), and leaves pending once.
LEMMA FutureStep ==
  ASSUME Core, Steps, NEW r \in Plain
  PROVE  \/ future'[r] = future[r]
         \/ /\ future[r] = "none" /\ Submit(r)
            /\ future'[r] = IF Accepting THEN "pending" ELSE "refused"
         \/ /\ future[r] = "pending"
            /\ future'[r] \in {"cancelled", "result"} \cup Exceptions
<1>1. future \in [Plain -> Futures] /\ FailureExceptions \subseteq Exceptions
  BY TypeParts DEF Core, FailureExceptions, Exceptions
<1>2. ASSUME NEW q, NEW o \in {"result"} \cup Exceptions, Resolve(q, o)
      PROVE  future'[r] = future[r] \/ (future[r] = "pending" /\ future'[r] = o)
  BY <1>1, <1>2 DEF Resolve
<1>3. CASE \E q \in Plain : Submit(q)
  <2>1. PICK q \in Plain : Submit(q)
    BY <1>3
  <2>2. future[q] = "none"
        /\ future' = [future EXCEPT ![q] = IF Accepting THEN "pending" ELSE "refused"]
    BY <2>1 DEF Submit
  <2> QED BY <1>1, <2>1, <2>2
<1>4. CASE \E q \in Plain : ClientTimeout(q)
  <2>1. PICK q \in Plain : /\ future[q] = "pending"
                           /\ future' = [future EXCEPT ![q] = "cancelled"]
    BY <1>4 DEF ClientTimeout
  <2> QED BY <1>1, <2>1
<1>5. CASE Drop
  BY <1>1, <1>2, <1>5 DEF Drop, Reject
<1>6. CASE AttemptEnds
  BY <1>2, <1>6 DEF AttemptEnds, Reject
<1>7. CASE Reply
  BY <1>2, <1>7 DEF Reply
<1> QED
  BY <1>3, <1>4, <1>5, <1>6, <1>7, OutcomeFrame

\* The reader of a stream starts, goes on, and ends or goes, in this order.
LEMMA ReaderStep ==
  ASSUME Core, Steps, NEW r \in Streams
  PROVE  \/ reader'[r] = reader[r]
         \/ /\ reader[r] = "none" /\ SubmitStream(r)
            /\ reader'[r] = IF Accepting THEN "unread" ELSE "refused"
         \/ /\ reader[r] \in {"unread", "reading"}
            /\ reader'[r] \in {"reading", "done", "gone"} \cup Exceptions
<1>1. handle \in [Streams -> Handles(Items)] /\ reader \in [Streams -> Readers]
  BY TypeParts DEF Core
<1>2. CASE \E q \in Streams : SubmitStream(q)
  <2>1. PICK q \in Streams : SubmitStream(q)
    BY <1>2
  <2>2. reader[q] = "none"
        /\ reader' = [reader EXCEPT ![q] = IF Accepting THEN "unread" ELSE "refused"]
    BY <2>1 DEF SubmitStream
  <2> QED BY <1>1, <2>1, <2>2
<1>3. CASE \E q \in Streams : Read(q)
  <2>1. PICK q \in Streams : Read(q)
    BY <1>3
  <2> DEFINE top  == Head(handle[q].items)
             told == CASE top = "chunk" -> reader[q] [] top = "end" -> "done" [] OTHER -> top
  <2>2. reader[q] = "reading" /\ handle[q].items # << >>
        /\ reader' = [reader EXCEPT ![q] = told]
    BY <2>1 DEF Read
  <2>3. top \in Items
    <3>1. handle[q].items \in Seq(Items)
      BY <1>1 DEF Handles
    <3> QED BY <2>2, <3>1, HeadTailProperties
  <2>4. told \in {"reading", "done"} \cup Exceptions
    BY <2>2, <2>3 DEF Items
  <2> HIDE DEF told
  <2> QED BY <1>1, <2>2, <2>4
<1>4. CASE \E q \in Streams : StartReading(q) \/ Disconnect(q) \/ DisconnectEarly(q)
  <2>1. PICK q \in Streams :
          /\ reader[q] \in {"unread", "reading"}
          /\ \E s \in {"reading", "gone"} : reader' = [reader EXCEPT ![q] = s]
    BY <1>4 DEF StartReading, Disconnect, DisconnectEarly
  <2> QED BY <1>1, <2>1
<1> QED
  BY <1>2, <1>3, <1>4, QueueFrame

\* A client is answered once: whatever the worker does later with a request whose
\* handler has given up, its Future stays as it is.
THEOREM AnswersAreFinal == Spec => AnswerIsFinal
<1>1. Core /\ [Next]_vars => [\A r \in Plain : Done(r) => future'[r] = future[r]]_vars
  BY FutureStep, StepCases DEF Core, Done
<1> QED
  BY <1>1, CoreInvariant, PTL DEF Spec, AnswerIsFinal

-----------------------------------------------------------------------------
(* The requests that are owed an answer. *)

Owed == {r \in Requests : InQueue(r) \/ InHand(r)}

\* A request is in one place, and its admission is on record.
LineInv ==
  /\ NoRepeat(queue)
  /\ \A r \in Requests : ~ (InQueue(r) /\ InHand(r))
  /\ \A r \in Owed : enqueuedAt[r] # None
  /\ \A r \in Plain : enqueuedAt[r] = None <=> future[r] \in {"none", "refused"}
  /\ \A r \in Streams : enqueuedAt[r] = None <=> reader[r] \in {"none", "refused"}

\* submit() or submit_stream() accepts r.
Admits(r) ==
  /\ \/ r \in Plain /\ Submit(r)
     \/ r \in Streams /\ SubmitStream(r)
  /\ Accepting /\ Accept(r) /\ UNCHANGED worker

\* The steps after which the same requests are owed.
KeepsOwed ==
  \/ \E r \in Plain : (Submit(r) /\ ~ Accepting) \/ ClientTimeout(r)
  \/ \E r \in Streams : \/ SubmitStream(r) /\ ~ Accepting
                        \/ StartReading(r) \/ Read(r)
                        \/ Disconnect(r) \/ DisconnectEarly(r)
  \/ Take \/ WakeUp \/ Retry \/ AttemptRepeats \/ Connect \/ Chunk
  \/ BeginDrain \/ Tick \/ ClockStep \/ UNCHANGED vars

\* Who is admitted was not owed an answer before.
LEMMA AdmittedIsNew ==
  ASSUME LineInv, NEW r \in Requests, Admits(r)
  PROVE  r \notin Owed
<1> USE PipelineAssumption
<1>1. r \in Plain => future[r] = "none"
  BY DEF Admits, Submit, Requests
<1>2. r \in Streams => reader[r] = "none"
  BY DEF Admits, SubmitStream, Requests
<1>3. enqueuedAt[r] = None
  BY <1>1, <1>2 DEF LineInv, Requests
<1> QED
  BY <1>3 DEF LineInv

\* Admission, the end of a request and the halt are the steps that change who is
\* owed an answer, and each concerns one request.
LEMMA OwedStep ==
  ASSUME Core, LineInv, Steps
  PROVE  \/ \E r \in Requests : Admits(r) /\ Owed' = Owed \cup {r} /\ r \notin Owed
         \/ Drop /\ Owed' = Owed \ {Head(queue)} /\ Head(queue) \in Owed
         \/ /\ Reply \/ AttemptEnds \/ StreamOver
            /\ Owed' = Owed \ {worker.req} /\ worker.req \in Owed
         \/ Halt /\ Owed' = Owed \ {worker.req}
         \/ KeepsOwed /\ Owed' = Owed
<1> USE PipelineAssumption
<1>1. /\ queue \in Seq(Requests) /\ worker \in Workers
      /\ worker.pc \in {"idle", "stopped"} <=> worker.req = None
      /\ worker.pc \in {"calling", "backoff"} => worker.req \in Plain
      /\ worker.pc \in {"connecting", "streaming"} => worker.req \in Streams
  BY TypeParts DEF Core, WorkerAt
<1>2. \A r : InQueue(r) <=> Within(queue, r)
  BY DEF InQueue, Within
<1>3. \A r : InQueue(r)' <=> Within(queue', r)
  BY DEF InQueue, Within
<1>4. ASSUME UNCHANGED queue, worker'.req = worker.req PROVE Owed' = Owed
  BY <1>4 DEF Owed, InQueue, InHand
<1>5. ASSUME NEW r \in Requests, Accept(r), UNCHANGED worker
      PROVE  Owed' = Owed \cup {r}
  <2>1. queue' = Append(queue, r)
    BY <1>5 DEF Accept
  <2>2. \A q : Within(queue', q) <=> q = r \/ Within(queue, q)
    BY <1>1, <2>1, AppendToLine
  <2> QED BY <1>2, <1>3, <1>5, <2>2 DEF Owed, InHand
<1>6. \A r \in Requests : Admits(r) => r \notin Owed
  BY AdmittedIsNew
<1>7. CASE \E r \in Plain : Submit(r)
  <2>1. PICK r \in Plain : Submit(r)
    BY <1>7
  <2>2. CASE Accepting
    <3>1. r \in Requests /\ Admits(r) /\ Accept(r) /\ UNCHANGED worker
      BY <2>1, <2>2 DEF Submit, Admits, Requests
    <3> QED BY <1>5, <1>6, <3>1
  <2>3. CASE ~ Accepting
    <3>1. KeepsOwed /\ UNCHANGED queue /\ worker'.req = worker.req
      BY <2>1, <2>3 DEF Submit, KeepsOwed
    <3> QED BY <1>4, <3>1
  <2> QED BY <2>2, <2>3
<1>8. CASE \E r \in Streams : SubmitStream(r)
  <2>1. PICK r \in Streams : SubmitStream(r)
    BY <1>8
  <2>2. CASE Accepting
    <3>1. r \in Requests /\ Admits(r) /\ Accept(r) /\ UNCHANGED worker
      BY <2>1, <2>2 DEF SubmitStream, Admits, Requests
    <3> QED BY <1>5, <1>6, <3>1
  <2>3. CASE ~ Accepting
    <3>1. KeepsOwed /\ UNCHANGED queue /\ worker'.req = worker.req
      BY <2>1, <2>3 DEF SubmitStream, KeepsOwed
    <3> QED BY <1>4, <3>1
  <2> QED BY <2>2, <2>3
<1>9. CASE Drop \/ Take
  <2>1. /\ queue # << >> /\ queue' = Tail(queue) /\ worker.req = None
        /\ Drop => worker'.req = None
        /\ Take => worker'.req = Head(queue)
    <3>1. Acquire(Head(queue), breaker.state) => worker'.req = Head(queue)
      BY BusyFields DEF Acquire, Call
    <3> QED BY <1>1, <1>9, <3>1 DEF Drop, Take
  <2>2. /\ Head(queue) \in Requests
        /\ \A q : Within(queue, q) <=> q = Head(queue) \/ Within(queue', q)
        /\ ~ Within(queue', Head(queue))
    BY <1>1, <2>1, TailOfLine DEF LineInv
  <2>3. Head(queue) \in Owed
    BY <1>2, <2>2 DEF Owed
  <2>4. Drop => Owed' = Owed \ {Head(queue)}
    BY <1>2, <1>3, <2>1, <2>2 DEF Owed, InHand
  <2>5. Take => Owed' = Owed
    BY <1>2, <1>3, <2>1, <2>2 DEF Owed, InHand
  <2> QED BY <1>9, <2>3, <2>4, <2>5 DEF KeepsOwed
<1>10. CASE Reply \/ AttemptEnds \/ StreamOver \/ Halt
  <2>1. worker'.req = None /\ UNCHANGED queue
    BY <1>10 DEF Reply, AttemptEnds, StreamOver, FinishStream, Halt, StopWorker, Idle,
                 ingressVars
  <2>2. Reply \/ AttemptEnds \/ StreamOver => worker.req \in Requests
    BY <1>1 DEF Reply, AttemptEnds, StreamOver, Requests
  <2>3. Owed' = Owed \ {worker.req}
    BY <2>1 DEF Owed, InQueue, InHand, LineInv
  <2>4. worker.req \in Requests => worker.req \in Owed
    BY DEF Owed, InHand
  <2> QED BY <1>10, <2>2, <2>3, <2>4
<1>11. CASE WakeUp \/ Retry \/ AttemptRepeats \/ Connect \/ Chunk
  <2>1. worker'.req = worker.req /\ UNCHANGED queue
    <3>1. WakeUp => worker'.req = worker.req
      BY BusyFields DEF WakeUp, Acquire, Call
    <3>2. Retry \/ AttemptRepeats \/ Connect => worker'.req = worker.req
      BY BusyFields DEF Retry, Call, AttemptRepeats, Connect
    <3>3. Chunk => worker'.req = worker.req
      BY <1>1 DEF Chunk, Workers
    <3> QED BY <1>11, <3>1, <3>2, <3>3
            DEF WakeUp, Retry, AttemptRepeats, Connect, Chunk, ingressVars
  <2> QED BY <1>4, <1>11, <2>1 DEF KeepsOwed
<1>12. CASE \/ \E r \in Plain : ClientTimeout(r)
            \/ \E r \in Streams : \/ StartReading(r) \/ Read(r)
                                  \/ Disconnect(r) \/ DisconnectEarly(r)
            \/ BeginDrain \/ Tick \/ ClockStep \/ UNCHANGED vars
  <2>1. worker' = worker /\ UNCHANGED queue
    BY <1>12 DEF ClientTimeout, StartReading, Read, Disconnect, DisconnectEarly,
                 BeginDrain, Tick, ClockStep, vars, readerStep, ingressVars
  <2> QED BY <1>4, <1>12, <2>1 DEF KeepsOwed
<1> QED
  BY <1>7, <1>8, <1>9, <1>10, <1>11, <1>12 DEF Steps

\* enqueued_at is set when a request is admitted, and then only.
LEMMA AdmissionStep ==
  ASSUME Core, Steps, NEW r \in Requests
  PROVE  \/ /\ enqueuedAt'[r] = enqueuedAt[r] /\ submittedAt'[r] = submittedAt[r]
            /\ ~ Admits(r)
         \/ /\ Admits(r) /\ enqueuedAt'[r] = now + skew /\ submittedAt'[r] = now
            /\ enqueuedAt'[r] # None
<1> USE PipelineAssumption, NoneAssumption
<1>1. /\ enqueuedAt \in [Requests -> Int \cup {None}]
      /\ submittedAt \in [Requests -> Nat \cup {None}]
      /\ now + skew \in Int
  BY TypeParts DEF Core
<1>2. CASE Admits(r)
  BY <1>1, <1>2 DEF Admits, Accept
<1>3. CASE ~ Admits(r)
  <2>1. CASE \E q \in Plain : Submit(q)
    BY <1>1, <1>3, <2>1 DEF Submit, Admits, Accept, Requests
  <2>2. CASE \E q \in Streams : SubmitStream(q)
    BY <1>1, <1>3, <2>2 DEF SubmitStream, Admits, Accept, Requests
  <2> QED BY <1>3, <2>1, <2>2, QueueFrame
<1> QED
  BY <1>2, <1>3

\* Every step keeps each request in one place, with its admission on record.
LEMMA LineStep ==
  ASSUME Core, LineInv, Steps
  PROVE  LineInv'
<1> USE PipelineAssumption
<1>1. /\ queue \in Seq(Requests) /\ NoRepeat(queue)
      /\ \A r : InQueue(r) <=> Within(queue, r)
      /\ \A r : InQueue(r)' <=> Within(queue', r)
  BY TypeParts DEF Core, LineInv, InQueue, Within
<1>2. /\ NoRepeat(queue')
      /\ \A r \in Requests : ~ (InQueue(r)' /\ InHand(r)')
  <2>1. CASE \E r \in Requests : Admits(r) /\ r \notin Owed
    <3>1. PICK r \in Requests : Admits(r) /\ r \notin Owed
      BY <2>1
    <3>2. queue' = Append(queue, r) /\ worker' = worker
      BY <3>1 DEF Admits, Accept
    <3>3. ~ Within(queue, r) /\ ~ InHand(r)
      BY <1>1, <3>1 DEF Owed
    <3>4. NoRepeat(queue') /\ \A q : Within(queue', q) <=> q = r \/ Within(queue, q)
      BY <1>1, <3>2, <3>3, AppendToLine
    <3> QED BY <1>1, <3>2, <3>3, <3>4 DEF LineInv, InHand
  <2>2. CASE Drop \/ Take
    <3>1. /\ queue # << >> /\ queue' = Tail(queue) /\ worker.req = None
          /\ worker'.req \in {None, Head(queue)}
      <4>1. Acquire(Head(queue), breaker.state) => worker'.req = Head(queue)
        BY BusyFields DEF Acquire, Call
      <4> QED BY <2>2, <4>1 DEF Drop, Take, Core, WorkerAt
    <3>2. /\ NoRepeat(queue') /\ ~ Within(queue', Head(queue))
      BY <1>1, <3>1, TailOfLine
    <3> QED BY <1>1, <3>1, <3>2 DEF InHand
  <2>3. CASE UNCHANGED queue /\ worker'.req \in {worker.req, None}
    BY <1>1, <2>3 DEF LineInv, InQueue, InHand
  <2>4. UNCHANGED worker \/ Take \/ worker'.req \in {worker.req, None}
    <3>1. WakeUp => worker'.req = worker.req
      BY BusyFields DEF WakeUp, Acquire, Call
    <3>2. Retry \/ AttemptRepeats \/ Connect => worker'.req = worker.req
      BY BusyFields DEF Retry, Call, AttemptRepeats, Connect
    <3>3. Chunk => worker'.req = worker.req
      BY TypeParts DEF Core, Chunk, Workers
    <3>4. Reply \/ AttemptEnds \/ StreamOver \/ Halt => worker'.req = None
      BY DEF Reply, AttemptEnds, StreamOver, FinishStream, Halt, StopWorker, Idle
    <3> QED BY <3>1, <3>2, <3>3, <3>4, WorkerFrame DEF WorkerSteps
  <2>5. \/ Drop \/ Take \/ UNCHANGED queue
        \/ \E r \in Requests : Admits(r) /\ r \notin Owed
    <3>1. KeepsOwed => UNCHANGED queue \/ Take
      BY DEF KeepsOwed, Submit, ClientTimeout, SubmitStream, StartReading, Read,
             Disconnect, DisconnectEarly, WakeUp, Retry, AttemptRepeats, Connect, Chunk,
             BeginDrain, Tick, ClockStep, vars, readerStep, ingressVars
    <3>2. Reply \/ AttemptEnds \/ StreamOver \/ Halt => UNCHANGED queue
      BY DEF Reply, AttemptEnds, StreamOver, FinishStream, Halt, StopWorker, ingressVars
    <3> QED BY <3>1, <3>2, OwedStep
  <2> QED BY <2>1, <2>2, <2>3, <2>4, <2>5
<1>3. ASSUME NEW r \in Owed' PROVE enqueuedAt'[r] # None
  <2>1. r \in Requests /\ (r \in Owed \/ Admits(r))
    BY OwedStep DEF Owed
  <2>2. r \in Owed => enqueuedAt[r] # None
    BY DEF LineInv
  <2> QED BY <2>1, <2>2, AdmissionStep
<1>4. ASSUME NEW r \in Plain
      PROVE  enqueuedAt'[r] = None <=> future'[r] \in {"none", "refused"}
  <2>1. /\ r \in Requests /\ r \notin Streams
        /\ enqueuedAt[r] = None <=> future[r] \in {"none", "refused"}
    BY DEF LineInv, Requests
  <2>2. "none" \notin Exceptions /\ "refused" \notin Exceptions
    BY DEF Exceptions
  <2>3. Admits(r) <=> Submit(r) /\ Accepting
    BY <2>1 DEF Admits, Submit
  <2>4. CASE Submit(r)
    <3>1. future'[r] = IF Accepting THEN "pending" ELSE "refused"
      BY <2>4, TypeParts DEF Core, Submit
    <3>2. future[r] = "none"
      BY <2>4 DEF Submit
    <3> QED BY <2>1, <2>3, <2>4, <3>1, <3>2, AdmissionStep
  <2>5. CASE ~ Submit(r)
    <3>1. enqueuedAt'[r] = enqueuedAt[r]
      BY <2>1, <2>3, <2>5, AdmissionStep
    <3>2. \/ future'[r] = future[r]
          \/ future[r] = "pending" /\ future'[r] \in {"cancelled", "result"} \cup Exceptions
      BY <2>5, FutureStep
    <3> QED BY <2>1, <2>2, <3>1, <3>2
  <2> QED BY <2>4, <2>5
<1>5. ASSUME NEW r \in Streams
      PROVE  enqueuedAt'[r] = None <=> reader'[r] \in {"none", "refused"}
  <2>1. /\ r \in Requests /\ r \notin Plain
        /\ enqueuedAt[r] = None <=> reader[r] \in {"none", "refused"}
    BY DEF LineInv, Requests
  <2>2. "none" \notin Exceptions /\ "refused" \notin Exceptions
    BY DEF Exceptions
  <2>3. Admits(r) <=> SubmitStream(r) /\ Accepting
    BY <2>1 DEF Admits, SubmitStream
  <2>4. CASE SubmitStream(r)
    <3>1. reader'[r] = IF Accepting THEN "unread" ELSE "refused"
      BY <2>4, TypeParts DEF Core, SubmitStream
    <3>2. reader[r] = "none"
      BY <2>4 DEF SubmitStream
    <3> QED BY <2>1, <2>3, <2>4, <3>1, <3>2, AdmissionStep
  <2>5. CASE ~ SubmitStream(r)
    <3>1. enqueuedAt'[r] = enqueuedAt[r]
      BY <2>1, <2>3, <2>5, AdmissionStep
    <3>2. \/ reader'[r] = reader[r]
          \/ /\ reader[r] \in {"unread", "reading"}
             /\ reader'[r] \in {"reading", "done", "gone"} \cup Exceptions
      BY <2>5, ReaderStep
    <3> QED BY <2>1, <2>2, <3>1, <3>2
  <2> QED BY <2>4, <2>5
<1> QED
  BY <1>2, <1>3, <1>4, <1>5 DEF LineInv

\* Each request is in one place in every state that Pipeline can reach.
THEOREM LineInvariant == Spec => []LineInv
<1>1. Init => LineInv
  <2>1. ASSUME Init PROVE LineInv
    <3>1. \A r \in Requests : r # None /\ ~ InQueue(r) /\ ~ InHand(r)
      BY <2>1, PipelineAssumption, EmptyLine DEF Init, InQueue, Within, InHand, Idle
    <3>2. NoRepeat(queue)
      BY <2>1, EmptyLine DEF Init
    <3> QED BY <2>1, <3>1, <3>2 DEF Init, LineInv, Owed, Requests
  <2> QED BY <2>1
<1>2. Core /\ LineInv /\ [Next]_vars => LineInv'
  BY LineStep, StepCases DEF Core
<1> QED
  BY <1>1, <1>2, CoreInvariant, PTL DEF Spec

\* After the shutdown has begun nothing is admitted, on either path
\* (processor.py:98-104, 141-147).
THEOREM NothingAdmittedInShutdown == Spec => NoAdmissionInShutdown
<1>1. ASSUME Core, Steps, phase.name # "serving" PROVE Len(queue') <= Len(queue)
  <2>1. queue \in Seq(Requests) /\ Len(queue) \in Nat
    BY <1>1, TypeParts, LenProperties DEF Core
  <2>2. ~ Accepting
    BY <1>1 DEF Accepting, ShuttingDown
  <2>3. CASE \/ (\E r \in Plain : Submit(r)) \/ (\E r \in Streams : SubmitStream(r))
    BY <2>1, <2>2, <2>3 DEF Submit, SubmitStream
  <2>4. CASE Drop \/ Take
    <3>1. queue # << >> /\ queue' = Tail(queue)
      BY <2>4 DEF Drop, Take
    <3>2. Len(queue') = Len(queue) - 1
      BY <2>1, <3>1, TailOfLine
    <3> QED BY <2>1, <3>2
  <2>5. CASE UNCHANGED queue
    BY <2>1, <2>5
  <2> QED BY <1>1, <2>3, <2>4, <2>5, QueueFrame
<1>2. Core /\ [Next]_vars => [phase.name # "serving" => Len(queue') <= Len(queue)]_vars
  BY <1>1, StepCases DEF Core
<1> QED
  BY <1>2, CoreInvariant, PTL DEF Spec, NoAdmissionInShutdown

-----------------------------------------------------------------------------
(* The Futures of the plain requests. *)

FuturesInv ==
  /\ \A r \in Plain : future[r] = "pending" => r \in registered
  /\ worker.pc # "stopped" => registered = Owed \cap Plain
  /\ \A r \in Plain : future[r] \in {"result"} \cup Exceptions => r \notin registered

\* Every step keeps the entries of _futures in line with the work.
LEMMA FuturesStep ==
  ASSUME Core, LineInv, FuturesInv, Steps
  PROVE  FuturesInv'
<1> USE PipelineAssumption
<1>1. /\ future \in [Plain -> Futures] /\ registered \subseteq Plain
      /\ worker.pc = "stopped" => worker.req = None
      /\ FailureExceptions \subseteq Exceptions /\ "pending" \notin Exceptions
      /\ "refused" \notin Exceptions /\ "cancelled" \notin Exceptions
  BY TypeParts DEF Core, WorkerAt, FailureExceptions, Exceptions
<1>2. /\ \A r \in Plain : future[r] = "pending" => r \in registered
      /\ worker.pc # "stopped" => registered = Owed \cap Plain
      /\ \A r \in Plain : future[r] \in {"result"} \cup Exceptions => r \notin registered
  BY DEF FuturesInv
<1>3. ASSUME NEW q \in Requests, NEW o \in {"result"} \cup Exceptions,
             \/ q \in Plain /\ Resolve(q, o)
             \/ q \notin Plain /\ UNCHANGED <<future, registered>>,
             Owed' = Owed \ {q}, worker.pc # "stopped"
      PROVE  FuturesInv'
  <2>1. CASE q \in Plain /\ Resolve(q, o)
    <3>1. /\ registered' = registered \ {q}
          /\ future' = IF q \in registered /\ future[q] = "pending"
                       THEN [future EXCEPT ![q] = o] ELSE future
      BY <2>1 DEF Resolve
    <3>2. registered' = Owed' \cap Plain
      BY <1>2, <1>3, <3>1
    <3>3. o # "pending"
      BY <1>1
    <3>4. ASSUME NEW r \in Plain, future'[r] = "pending" PROVE r \in registered'
      BY <1>1, <1>2, <3>1, <3>3, <3>4
    <3>5. ASSUME NEW r \in Plain, future'[r] \in {"result"} \cup Exceptions
          PROVE  r \notin registered'
      BY <1>1, <1>2, <3>1, <3>5
    <3> QED BY <3>2, <3>4, <3>5 DEF FuturesInv
  <2>2. CASE q \notin Plain /\ UNCHANGED <<future, registered>>
    <3>1. registered' = Owed' \cap Plain
      BY <1>2, <1>3, <2>2
    <3> QED BY <1>2, <2>2, <3>1 DEF FuturesInv
  <2> QED BY <1>3, <2>1, <2>2
<1>4. CASE \E r \in Requests : Admits(r) /\ Owed' = Owed \cup {r}
  <2>1. PICK r \in Requests : Admits(r) /\ Owed' = Owed \cup {r}
    BY <1>4
  <2>2. worker' = worker
    BY <2>1 DEF Admits
  <2>3. CASE r \in Plain
    <3>1. /\ future' = [future EXCEPT ![r] = "pending"] /\ registered' = registered \cup {r}
          /\ future[r] = "none"
      BY <2>1, <2>3 DEF Admits, Submit, SubmitStream
    <3> QED BY <1>1, <1>2, <2>1, <2>2, <2>3, <3>1 DEF FuturesInv
  <2>4. CASE r \notin Plain
    <3>1. UNCHANGED <<future, registered>>
      BY <2>1, <2>4 DEF Admits, SubmitStream, outcomeVars
    <3> QED BY <1>2, <2>1, <2>2, <2>4, <3>1 DEF FuturesInv
  <2> QED BY <2>3, <2>4
<1>5. CASE Drop /\ Owed' = Owed \ {Head(queue)} /\ Head(queue) \in Owed
  <2>1. PICK e \in FailureExceptions :
          \/ Head(queue) \notin Streams /\ Resolve(Head(queue), e)
          \/ Head(queue) \in Streams /\ UNCHANGED <<future, registered>>
    BY <1>5 DEF Drop, Reject
  <2>2. Head(queue) \in Requests /\ worker.pc # "stopped"
    BY <1>5 DEF Owed, Drop
  <2> QED BY <1>1, <1>3, <1>5, <2>1, <2>2 DEF Requests
<1>6. CASE /\ Reply \/ AttemptEnds \/ StreamOver
           /\ Owed' = Owed \ {worker.req} /\ worker.req \in Owed
  <2>1. worker.pc # "stopped" /\ worker.req \in Requests
    BY <1>6 DEF Reply, AttemptEnds, StreamOver, Owed
  <2>2. CASE Reply
    <3>1. worker.req \in Plain /\ Resolve(worker.req, "result")
      BY <2>2 DEF Reply, Core, WorkerAt
    <3> QED BY <1>3, <1>6, <2>1, <3>1
  <2>3. CASE AttemptEnds
    <3>1. worker.req \in Plain /\ \E e \in Exceptions : Resolve(worker.req, e)
      BY <2>3 DEF AttemptEnds, Reject, Core, WorkerAt
    <3> QED BY <1>3, <1>6, <2>1, <3>1
  <2>4. CASE StreamOver
    <3>1. worker.req \notin Plain /\ UNCHANGED <<future, registered>>
      BY <2>4 DEF StreamOver, FinishStream, Core, WorkerAt
    <3> QED BY <1>3, <1>6, <2>1, <3>1
  <2> QED BY <1>6, <2>2, <2>3, <2>4
<1>7. CASE Halt
  <2>1. UNCHANGED <<future, registered>> /\ worker'.pc = "stopped"
    BY <1>7 DEF Halt, StopWorker, Idle
  <2> QED BY <1>2, <2>1 DEF FuturesInv
<1>8. CASE KeepsOwed /\ Owed' = Owed
  <2>1. worker'.pc = "stopped" <=> worker.pc = "stopped"
    <3>1. UNCHANGED worker \/ Take \/ WakeUp \/ Retry \/ AttemptRepeats \/ Connect \/ Chunk
      BY <1>8 DEF KeepsOwed, Submit, ClientTimeout, SubmitStream, StartReading, Read,
           Disconnect, DisconnectEarly, BeginDrain, Tick, ClockStep, vars, readerStep
    <3>2. Take \/ WakeUp => worker.pc # "stopped" /\ worker'.pc # "stopped"
      BY BusyFields DEF Take, WakeUp, Acquire, Call
    <3>3. Retry \/ AttemptRepeats \/ Connect => worker.pc # "stopped" /\ worker'.pc # "stopped"
      BY BusyFields DEF Retry, Call, AttemptRepeats, Connect
    <3>4. Chunk => worker.pc # "stopped" /\ worker'.pc # "stopped"
      BY TypeParts DEF Core, Chunk, Workers
    <3> QED BY <3>1, <3>2, <3>3, <3>4
  <2>2. CASE \E r \in Plain : (Submit(r) /\ ~ Accepting) \/ ClientTimeout(r)
    <3>1. PICK r \in Plain, o \in {"refused", "cancelled"} :
            /\ future' = [future EXCEPT ![r] = o] /\ UNCHANGED registered
      BY <2>2 DEF Submit, ClientTimeout
    <3> QED BY <1>1, <1>2, <1>8, <2>1, <3>1 DEF FuturesInv
  <2>3. CASE UNCHANGED <<future, registered>>
    BY <1>2, <1>8, <2>1, <2>3 DEF FuturesInv
  <2>4. \/ UNCHANGED <<future, registered>>
        \/ \E r \in Plain : (Submit(r) /\ ~ Accepting) \/ ClientTimeout(r)
    BY <1>8 DEF KeepsOwed, SubmitStream, StartReading, Read, Disconnect, DisconnectEarly,
         Take, WakeUp, Retry, AttemptRepeats, Connect, Chunk, BeginDrain, Tick, ClockStep,
         vars, readerStep, outcomeVars
  <2> QED BY <2>2, <2>3, <2>4
<1> QED
  BY <1>4, <1>5, <1>6, <1>7, <1>8, OwedStep

\* In every state that Pipeline can reach, who is registered is owed an answer.
THEOREM FuturesInvariant == Spec => []FuturesInv
<1>1. Init => FuturesInv
  <2>1. ASSUME Init PROVE FuturesInv
    <3>1. \A r \in Requests : ~ InQueue(r) /\ ~ InHand(r)
      BY <2>1, PipelineAssumption, EmptyLine DEF Init, InQueue, Within, InHand, Idle
    <3>2. \A r \in Plain : future[r] = "none" /\ "none" \notin Exceptions
      BY <2>1 DEF Init, Exceptions
    <3> QED BY <2>1, <3>1, <3>2 DEF Init, FuturesInv, Owed
  <2> QED BY <2>1
<1>2. Core /\ LineInv /\ FuturesInv /\ [Next]_vars => FuturesInv'
  BY FuturesStep, StepCases DEF Core
<1> QED
  BY <1>1, <1>2, CoreInvariant, LineInvariant, PTL DEF Spec

\* A Future is pending only while its request is registered, _futures holds just
\* the plain requests that wait or are in hand until the worker is stopped, and
\* who has an answer of the worker's is no longer registered
\* (processor.py:433-457).
THEOREM FuturesAlwaysMatchWork == Spec => []FuturesMatchWork
<1>1. FuturesInv => FuturesMatchWork
  BY DEF FuturesInv, FuturesMatchWork, Owed, Requests
<1> QED
  BY <1>1, FuturesInvariant, PTL

-----------------------------------------------------------------------------
(* The handles of the streams. *)

\* A handle, and what its reader has been told.  While the stream is owed an
\* answer only the cancellation of the reader, who is gone then, closes it.
HandleSound(h, told, owed) ==
  /\ EndsLast(h)
  /\ h.closed <=> told \in {"done"} \cup Exceptions \/ h.cancelled \/ Ended(h)
  /\ h.cancelled => told = "gone"
  /\ owed /\ h.closed => h.cancelled

HandleInv ==
  \A r \in Streams :
    /\ HandleSound(handle[r], reader[r], r \in Owed)
    /\ enqueuedAt[r] = None => handle[r] = NewHandle
    /\ enqueuedAt[r] # None /\ worker.pc # "stopped" /\ r \notin Owed => handle[r].closed

\* A worker that is stopped stays so.
LEMMA StoppedStays ==
  ASSUME Core, Steps, worker.pc = "stopped"
  PROVE  worker'.pc = "stopped"
<1>1. phase.name = "stopped"
  BY DEF Core, WorkerAt
<1> QED
  BY <1>1, WorkerFrame
     DEF WorkerSteps, Take, WakeUp, Reply, Retry, AttemptRepeats, AttemptEnds, Connect,
         Chunk, StreamOver, Halt

\* What one step does to the handle of one stream: nothing, and then the step
\* does not end the request; its end, which it is owed; a chunk; an item taken by
\* the reader; or its cancellation.
LEMMA HandleStep ==
  ASSUME Core, LineInv, Steps, NEW r \in Streams
  PROVE  \/ /\ handle'[r] = handle[r]
            /\ \/ reader'[r] = reader[r]
               \/ /\ reader[r] \in {"none", "unread", "reading"}
                  /\ reader'[r] \in {"unread", "refused", "reading", "gone"}
            /\ r \in Owed => r \in Owed' \/ worker'.pc = "stopped"
         \/ /\ \E h \in StreamItems(handle[r]) : handle'[r] = Close(h)
            /\ reader'[r] = reader[r] /\ r \in Owed /\ r \notin Owed'
         \/ /\ handle'[r] = PutChunk(handle[r])
            /\ reader'[r] = reader[r] /\ r \in Owed /\ Owed' = Owed
         \/ Read(r) /\ Owed' = Owed
         \/ /\ handle'[r] = Cancel(handle[r]) /\ Owed' = Owed
            /\ reader[r] = "reading" /\ reader'[r] = "gone"
<1> USE PipelineAssumption
<1>1. /\ handle \in [Streams -> Handles(Items)] /\ reader \in [Streams -> Readers]
      /\ worker.pc \in {"idle", "stopped"} <=> worker.req = None
      /\ worker.pc \in {"calling", "backoff"} => worker.req \in Plain
      /\ worker.pc \in {"connecting", "streaming"} => worker.req \in Streams
      /\ r \in Requests /\ r \notin Plain /\ FailureExceptions \subseteq Exceptions
  BY TypeParts DEF Core, WorkerAt, Requests, FailureExceptions, Exceptions
<1>2. handle[r] \in Handles(Items)
  BY <1>1
<1>3. CASE \E q \in Requests : Admits(q) /\ Owed' = Owed \cup {q}
  <2>1. PICK q \in Requests : Admits(q) /\ Owed' = Owed \cup {q}
    BY <1>3
  <2>2. /\ UNCHANGED handle
        /\ \/ UNCHANGED reader
           \/ reader[q] = "none" /\ reader' = [reader EXCEPT ![q] = "unread"]
    BY <2>1 DEF Admits, Submit, SubmitStream, ingressVars, outcomeVars
  <2> QED BY <1>1, <2>1, <2>2
<1>4. CASE Drop /\ Owed' = Owed \ {Head(queue)} /\ Head(queue) \in Owed
  <2>1. UNCHANGED reader
    BY <1>4 DEF Drop
  <2>2. PICK e \in FailureExceptions :
          IF Head(queue) \in Streams
          THEN handle' = [handle EXCEPT ![Head(queue)] = Close(PutError(@, e))]
          ELSE UNCHANGED handle
    BY <1>4 DEF Drop, Reject
  <2>3. CASE Head(queue) = r
    <3>1. handle'[r] = Close(PutError(handle[r], e))
      BY <1>1, <2>2, <2>3
    <3>2. PutError(handle[r], e) \in StreamItems(handle[r])
      BY <1>1 DEF StreamItems
    <3> QED BY <1>4, <2>1, <2>3, <3>1, <3>2
  <2>4. CASE Head(queue) # r
    BY <1>1, <1>4, <2>1, <2>2, <2>4
  <2> QED BY <2>3, <2>4
<1>5. CASE /\ Reply \/ AttemptEnds \/ StreamOver
           /\ Owed' = Owed \ {worker.req} /\ worker.req \in Owed
  <2>1. UNCHANGED reader
    BY <1>5 DEF Reply, AttemptEnds, StreamOver, FinishStream, ingressVars
  <2>2. CASE Reply \/ AttemptEnds
    <3>1. UNCHANGED handle /\ worker.req # r
      BY <1>1, <2>2 DEF Reply, AttemptEnds, Reject
    <3> QED BY <1>5, <2>1, <3>1
  <2>3. CASE StreamOver
    <3>1. PICK h \in StreamItems(handle[worker.req]) :
            handle' = [handle EXCEPT ![worker.req] = Close(h)]
      BY <2>3 DEF StreamOver, FinishStream
    <3>2. CASE worker.req = r
      BY <1>1, <1>5, <2>1, <3>1, <3>2
    <3>3. CASE worker.req # r
      BY <1>1, <1>5, <2>1, <3>1, <3>3
    <3> QED BY <3>2, <3>3
  <2> QED BY <1>5, <2>2, <2>3
<1>6. CASE Halt /\ Owed' = Owed \ {worker.req}
  <2>1. UNCHANGED reader /\ worker'.pc = "stopped"
    BY <1>6 DEF Halt, StopWorker, ingressVars, Idle
  <2>2. CASE worker.pc \in {"connecting", "streaming"} /\ worker.req = r
    <3>1. handle'[r] = Close(handle[r]) /\ r \in Owed
      BY <1>1, <1>6, <2>2 DEF Halt, StopWorker, Owed, InHand
    <3>2. handle[r] \in StreamItems(handle[r])
      BY DEF StreamItems
    <3> QED BY <1>6, <2>1, <2>2, <3>1, <3>2
  <2>3. CASE ~ (worker.pc \in {"connecting", "streaming"} /\ worker.req = r)
    <3>1. handle'[r] = handle[r]
      BY <1>1, <1>6, <2>3 DEF Halt, StopWorker
    <3> QED BY <2>1, <3>1
  <2> QED BY <2>2, <2>3
<1>7. CASE KeepsOwed /\ Owed' = Owed
  <2>1. CASE Chunk
    <3>1. handle' = [handle EXCEPT ![worker.req] = PutChunk(@)] /\ UNCHANGED reader
      BY <2>1 DEF Chunk, ingressVars
    <3>2. \/ handle'[r] = handle[r]
          \/ handle'[r] = PutChunk(handle[r]) /\ r \in Owed
      BY <1>1, <3>1 DEF Owed, InHand
    <3> QED BY <1>7, <3>1, <3>2
  <2>2. CASE \E q \in Streams : Read(q)
    <3>1. PICK q \in Streams : Read(q)
      BY <2>2
    <3>2. CASE q = r
      BY <1>7, <3>1, <3>2
    <3>3. CASE q # r
      BY <1>1, <1>7, <3>1, <3>3 DEF Read
    <3> QED BY <3>2, <3>3
  <2>3. CASE \E q \in Streams : Disconnect(q)
    <3>1. PICK q \in Streams : Disconnect(q)
      BY <2>3
    <3>2. /\ reader[q] = "reading" /\ reader' = [reader EXCEPT ![q] = "gone"]
          /\ handle' = handle \/ handle' = [handle EXCEPT ![q] = Cancel(@)]
      BY <3>1 DEF Disconnect
    <3>3. CASE q = r
      BY <1>1, <1>7, <3>2, <3>3
    <3>4. CASE q # r
      BY <1>1, <1>7, <3>2, <3>4
    <3> QED BY <3>3, <3>4
  <2>4. CASE \E q \in Streams : (SubmitStream(q) /\ ~ Accepting) \/ StartReading(q)
                                 \/ DisconnectEarly(q)
    <3>1. PICK q \in Streams, s \in {"refused", "reading", "gone"} :
            /\ reader[q] \in {"none", "unread"} /\ UNCHANGED handle
            /\ reader' = [reader EXCEPT ![q] = s]
      BY <2>4 DEF SubmitStream, StartReading, DisconnectEarly, outcomeVars
    <3>2. reader'[r] = reader[r] \/ (reader[r] \in {"none", "unread"} /\ reader'[r] = s)
      BY <1>1, <3>1
    <3> QED BY <1>7, <3>1, <3>2
  <2>5. CASE UNCHANGED <<handle, reader>>
    BY <1>7, <2>5
  <2>6. \/ UNCHANGED <<handle, reader>> \/ Chunk
        \/ \E q \in Streams : \/ SubmitStream(q) /\ ~ Accepting
                              \/ StartReading(q) \/ Read(q)
                              \/ Disconnect(q) \/ DisconnectEarly(q)
    BY <1>7 DEF KeepsOwed, Submit, ClientTimeout, Take, WakeUp, Retry, AttemptRepeats,
         Connect, BeginDrain, Tick, ClockStep, vars, ingressVars, outcomeVars
  <2> QED BY <2>1, <2>2, <2>3, <2>4, <2>5, <2>6
<1> QED
  BY <1>3, <1>4, <1>5, <1>6, <1>7, OwedStep

\* Every step keeps the handle of a stream sound.
LEMMA HandleSoundStep ==
  ASSUME Core, LineInv, HandleInv, Steps, NEW r \in Streams
  PROVE  /\ HandleSound(handle'[r], reader'[r], r \in Owed')
         /\ enqueuedAt'[r] = None => handle'[r] = NewHandle
         /\ enqueuedAt'[r] # None /\ worker'.pc # "stopped" /\ r \notin Owed'
              => handle'[r].closed
<1> USE PipelineAssumption
<1> DEFINE h == handle[r]
           g == handle'[r]
           Told == {"done"} \cup Exceptions
<1>1. /\ h \in Handles(Items) /\ h.closed \in BOOLEAN /\ r \in Requests /\ r \notin Plain
      /\ "none" \notin Told /\ "unread" \notin Told /\ "refused" \notin Told
      /\ "reading" \notin Told /\ "gone" \notin Told /\ "Other" \in Exceptions
  BY TypeParts DEF Core, Requests, Exceptions, Handles
<1>2. /\ EndsLast(h)
      /\ h.closed <=> reader[r] \in Told \/ h.cancelled \/ Ended(h)
      /\ h.cancelled => reader[r] = "gone"
      /\ r \in Owed /\ h.closed => h.cancelled
      /\ enqueuedAt[r] = None => h = NewHandle
      /\ enqueuedAt[r] # None /\ worker.pc # "stopped" /\ r \notin Owed => h.closed
      /\ r \in Owed => enqueuedAt[r] # None
      /\ enqueuedAt[r] = None <=> reader[r] \in {"none", "refused"}
  BY DEF HandleInv, HandleSound, LineInv
<1>3. \/ enqueuedAt'[r] = enqueuedAt[r] /\ ~ Admits(r)
      \/ /\ enqueuedAt[r] = None /\ enqueuedAt'[r] # None
         /\ Owed' = Owed \cup {r} /\ reader'[r] = "unread"
         /\ Admits(r)
  <2>1. CASE ~ Admits(r)
    BY <1>1, <2>1, AdmissionStep
  <2>2. CASE Admits(r)
    <3>1. enqueuedAt'[r] # None
      BY <1>1, <2>2, AdmissionStep
    <3>2. reader[r] = "none" /\ Accepting /\ SubmitStream(r)
      BY <1>1, <2>2 DEF Admits, SubmitStream
    <3>3. reader'[r] = "unread"
      BY <3>2, TypeParts DEF Core, SubmitStream
    <3>4. r \in Owed'
      <4>1. queue' = Append(queue, r) /\ queue \in Seq(Requests)
        BY <2>2, TypeParts DEF Core, Admits, Accept
      <4>2. Within(queue', r)
        BY <1>1, <4>1, AppendToLine
      <4> QED BY <1>1, <4>2 DEF Owed, InQueue, Within
    <3>5. Owed' = Owed \cup {r}
      <4>1. r \notin Owed
        BY <1>2, <3>2
      <4> QED BY <3>4, <4>1, OwedStep
    <3> QED BY <1>2, <2>2, <3>1, <3>2, <3>3, <3>5
  <2> QED BY <2>1, <2>2
<1>4. worker'.pc # "stopped" => worker.pc # "stopped"
  BY StoppedStays
<1>5. r \in Owed' => r \in Owed \/ (enqueuedAt[r] = None /\ enqueuedAt'[r] # None)
  <2>1. ASSUME r \in Owed', r \notin Owed PROVE Admits(r)
    BY <2>1, OwedStep
  <2> QED BY <1>3, <2>1
<1>6. NewHandle.closed = FALSE /\ NewHandle.items = << >>
  BY DEF NewHandle
<1>7. CASE /\ g = h
           /\ \/ reader'[r] = reader[r]
              \/ /\ reader[r] \in {"none", "unread", "reading"}
                 /\ reader'[r] \in {"unread", "refused", "reading", "gone"}
           /\ r \in Owed => r \in Owed' \/ worker'.pc = "stopped"
  <2>1. /\ reader'[r] \in Told <=> reader[r] \in Told
        /\ h.cancelled => reader'[r] = "gone"
    BY <1>1, <1>2, <1>7
  <2>2. r \in Owed' /\ h.closed => h.cancelled
    BY <1>2, <1>5, <1>6
  <2>3. enqueuedAt'[r] = None => h = NewHandle
    BY <1>2, <1>3
  <2>4. enqueuedAt'[r] # None /\ worker'.pc # "stopped" /\ r \notin Owed' => h.closed
    BY <1>2, <1>3, <1>4, <1>7
  <2> QED BY <1>2, <1>7, <2>1, <2>2, <2>3, <2>4 DEF HandleSound
<1>8. CASE /\ \E i \in StreamItems(h) : g = Close(i)
           /\ reader'[r] = reader[r] /\ r \in Owed /\ r \notin Owed'
  <2>1. PICK e \in Exceptions : g = Close(h) \/ g = Close(PutError(h, e))
    BY <1>1, <1>8 DEF StreamItems
  <2> HIDE DEF h, g
  <2>8. /\ Close(h).closed = TRUE /\ Close(h).cancelled = h.cancelled
        /\ PutError(h, e).closed = TRUE /\ PutError(h, e).cancelled = h.cancelled
    BY <1>1, CloseEffect
  <2>2. Close(PutError(h, e)) = PutError(h, e)
    BY <2>8 DEF Close
  <2>9. h.closed => Close(h) = h /\ PutError(h, e) = h
    BY <1>1, CloseEffect
  <2>7. ~ h.closed =>
          /\ EndsLast(Close(h)) /\ Ended(Close(h))
          /\ EndsLast(PutError(h, e)) /\ Ended(PutError(h, e))
    BY <1>1, <1>2, CloseEffect
  <2>3. g.closed = TRUE /\ g.cancelled = h.cancelled
    BY <2>1, <2>2, <2>8
  <2>4. enqueuedAt'[r] # None
    BY <1>2, <1>3, <1>8
  <2>5. CASE h.closed
    <3>1. g = h
      BY <2>1, <2>2, <2>5, <2>9
    <3> QED BY <1>2, <1>8, <2>4, <2>5, <3>1 DEF HandleSound, g
  <2>6. CASE ~ h.closed
    <3>1. EndsLast(g) /\ Ended(g)
      BY <2>1, <2>2, <2>6, <2>7
    <3> QED BY <1>2, <1>8, <2>3, <2>4, <3>1 DEF HandleSound, g
  <2> QED BY <2>5, <2>6
<1>9. CASE g = PutChunk(h) /\ reader'[r] = reader[r] /\ r \in Owed /\ Owed' = Owed
  <2>1. enqueuedAt'[r] # None
    BY <1>2, <1>3, <1>9
  <2>2. CASE h.closed
    <3>1. g = h
      BY <1>1, <1>9, <2>2, PutChunkEffect
    <3> QED BY <1>2, <1>9, <2>1, <2>2, <3>1 DEF HandleSound
  <2>3. CASE ~ h.closed
    <3>1. /\ EndsLast(g) /\ ~ Ended(g) /\ g.closed = h.closed
          /\ g.cancelled = h.cancelled
      BY <1>1, <1>2, <1>9, <2>3, PutChunkEffect
    <3> QED BY <1>2, <1>9, <2>1, <2>3, <3>1 DEF HandleSound
  <2> QED BY <2>2, <2>3
<1>10. CASE Read(r) /\ Owed' = Owed
  <2> DEFINE top  == Head(h.items)
             t    == [h EXCEPT !.items = Tail(@)]
             told == CASE top = "chunk" -> reader[r] [] top = "end" -> "done" [] OTHER -> top
  <2>1. /\ reader[r] = "reading" /\ h.items # << >>
        /\ g = t /\ reader'[r] = told /\ worker' = worker
    BY <1>10, TypeParts DEF Core, Read, readerStep
  <2>2. /\ top \in Items /\ EndsLast(t)
        /\ t.closed = h.closed /\ t.cancelled = h.cancelled
        /\ top = "chunk" => (Ended(t) <=> Ended(h))
        /\ top # "chunk" => ~ Ended(t) /\ Ended(h)
    BY <1>1, <1>2, <2>1, TakeItem
  <2>3. /\ top = "chunk" => told = "reading"
        /\ top # "chunk" => told \in Told
    BY <2>1, <2>2 DEF Items
  <2> HIDE DEF top, t, told
  <2>4. enqueuedAt'[r] # None /\ enqueuedAt[r] # None
    BY <1>2, <1>3, <2>1
  <2>5. ~ h.cancelled /\ (h.closed <=> Ended(h))
    BY <1>1, <1>2, <2>1
  <2> HIDE DEF h, g
  <2>6. HandleSound(g, reader'[r], r \in Owed')
    BY <1>1, <1>2, <1>10, <2>1, <2>2, <2>3, <2>5 DEF HandleSound
  <2>7. worker'.pc # "stopped" /\ r \notin Owed' => g.closed
    BY <1>2, <1>10, <2>1, <2>2, <2>4
  <2> QED BY <2>4, <2>6, <2>7 DEF g
<1>11. CASE /\ g = Cancel(h) /\ Owed' = Owed
            /\ reader[r] = "reading" /\ reader'[r] = "gone"
  <2>1. enqueuedAt'[r] # None
    BY <1>2, <1>3, <1>11
  <2>2. /\ g.closed = TRUE /\ g.cancelled = TRUE /\ ~ h.cancelled
        /\ h.closed => g.items = h.items
        /\ ~ h.closed => EndsLast(g) /\ Ended(g)
    BY <1>1, <1>2, <1>11, CancelEffect
  <2>3. EndsLast(g)
    BY <1>2, <2>2 DEF EndsLast
  <2> QED BY <1>11, <2>1, <2>2, <2>3 DEF HandleSound
<1> QED
  BY <1>7, <1>8, <1>9, <1>10, <1>11, HandleStep

\* Every handle is sound in every state that Pipeline can reach.
THEOREM HandleInvariant == Spec => []HandleInv
<1>1. Init => HandleInv
  <2>1. ASSUME Init, NEW r \in Streams
        PROVE  /\ HandleSound(handle[r], reader[r], r \in Owed)
               /\ enqueuedAt[r] = None /\ handle[r] = NewHandle
    <3>1. /\ handle[r] = NewHandle /\ reader[r] = "none" /\ "none" \notin Exceptions
          /\ NewHandle.items = << >> /\ NewHandle.closed = FALSE
          /\ NewHandle.cancelled = FALSE /\ enqueuedAt[r] = None
      BY <2>1 DEF Init, NewHandle, Exceptions, Requests
    <3>2. EndsLast(NewHandle) /\ ~ Ended(NewHandle)
      <4>1. Len(<< >>) = 0
        BY EmptySeq
      <4> QED BY <3>1, <4>1 DEF EndsLast, Ended
    <3> QED BY <3>1, <3>2 DEF HandleSound
  <2> QED BY <2>1 DEF HandleInv
<1>2. Core /\ LineInv /\ HandleInv /\ [Next]_vars => HandleInv'
  <2>1. ASSUME Core, LineInv, HandleInv, Steps PROVE HandleInv'
    BY <2>1, HandleSoundStep DEF HandleInv
  <2> QED BY <2>1, StepCases DEF Core
<1> QED
  BY <1>1, <1>2, CoreInvariant, LineInvariant, PTL DEF Spec

\* A stream handle is told the end exactly once and after everything else, and it
\* is closed as soon as its request has left the worker, whatever path it took
\* (stream_handle.py:39-84, processor.py:405-431).
THEOREM HandlesAlwaysEndOnce == Spec => []HandlesEndOnce
<1>1. LineInv /\ HandleInv => HandlesEndOnce
  BY DEF HandleInv, HandleSound, HandlesEndOnce, EndsLast, Ended, Heard, Owed, Requests
<1> QED
  BY <1>1, LineInvariant, HandleInvariant, PTL

-----------------------------------------------------------------------------
(* The metrics. *)

\* The fields of the metrics after each of the updates.
LEMMA MetricsFields ==
  ASSUME NEW m \in Snapshots
  PROVE  /\ RecordEnqueue(m).queueSize = m.queueSize + 1
         /\ RecordEnqueue(m).enqueued = m.enqueued + 1
         /\ RecordEnqueue(m).processed = m.processed
         /\ RecordEnqueue(m).state = m.state
         /\ RecordEnqueue(m).started = m.started
         /\ RecordEnqueue(m).completed = m.completed
         /\ RecordDequeue(m).queueSize = IF m.queueSize > 0 THEN m.queueSize - 1 ELSE 0
         /\ RecordDequeue(m).enqueued = m.enqueued
         /\ RecordDequeue(m).processed = m.processed + 1
         /\ RecordDequeue(m).state = m.state
         /\ RecordDequeue(m).started = m.started
         /\ RecordDequeue(m).completed = m.completed
BY DEF RecordEnqueue, RecordDequeue, Snapshots

\* Two snapshots that count the same requests.
SameQueue(m, n) ==
  m.queueSize = n.queueSize /\ m.enqueued = n.enqueued /\ m.processed = n.processed

SameStreams(m, n) == m.started = n.started /\ m.completed = n.completed

\* The breaker's state, the errors and the streams are counted apart.
LEMMA MetricsApart ==
  ASSUME NEW m \in Snapshots, NEW b, NEW prev
  PROVE  /\ SameQueue(WithState(m, prev, b), m) /\ SameStreams(WithState(m, prev, b), m)
         /\ WithState(m, prev, b).state
              = IF ~ BreakerEnabled \/ b.state = prev THEN m.state ELSE b.state
         /\ SameQueue(RecordStreamStarted(m), m)
         /\ RecordStreamStarted(m).started = m.started + 1
         /\ RecordStreamStarted(m).completed = m.completed
         /\ RecordStreamStarted(m).state = m.state
         /\ SameQueue(RecordStreamCompleted(m), m)
         /\ RecordStreamCompleted(m).started = m.started
         /\ RecordStreamCompleted(m).completed = m.completed + 1
         /\ RecordStreamCompleted(m).state = m.state
BY DEF WithState, RecordBreakerState, RecordStreamStarted, RecordStreamCompleted,
       SameQueue, SameStreams, Snapshots

\* An upstream error counts neither for the queue, the streams nor the breaker.
LEMMA CountedApart ==
  ASSUME metrics \in Snapshots, NEW m \in Counted
  PROVE  SameQueue(m, metrics) /\ SameStreams(m, metrics) /\ m.state = metrics.state
BY DEF Counted, RecordUpstream429, RecordUpstream5xx, SameQueue, SameStreams, Snapshots

\* Until it is stopped the worker knows how many streams are owed an answer, and
\* the gauge of the breaker shows the state that the worker read last.
MetricsInv ==
  /\ metrics.queueSize = Len(queue)
  /\ metrics.enqueued - metrics.processed = Len(queue)
  /\ ~ BreakerEnabled => metrics.state = "CLOSED"
  /\ BreakerEnabled /\ worker.pc = "idle" => metrics.state = breaker.state
  /\ BreakerEnabled /\ worker.req # None => metrics.state = worker.prev
  /\ worker.pc # "stopped" =>
       /\ IsFiniteSet(Owed \cap Streams)
       /\ metrics.started - metrics.completed = Cardinality(Owed \cap Streams)

\* How the gauge of the queue follows the queue.
LEMMA QueueGaugeStep ==
  ASSUME Core, LineInv, MetricsInv, Steps
  PROVE  /\ metrics'.queueSize = Len(queue')
         /\ metrics'.enqueued - metrics'.processed = Len(queue')
<1>1. /\ queue \in Seq(Requests) /\ Len(queue) \in Nat /\ metrics \in Snapshots
      /\ metrics.queueSize \in Nat /\ metrics.enqueued \in Nat /\ metrics.processed \in Nat
      /\ now \in Nat /\ breaker \in Breakers
  BY TypeParts, LenProperties, PipelineAssumption DEF Core, Snapshots
<1>2. /\ metrics.queueSize = Len(queue)
      /\ metrics.enqueued - metrics.processed = Len(queue)
  BY DEF MetricsInv
<1>3. RecordEnqueue(metrics) \in Snapshots /\ RecordDequeue(metrics) \in Snapshots
  <2>1. "OPEN" \in States /\ TRUE \in BOOLEAN
    BY DEF States
  <2> QED BY <1>1, <2>1, MetricsTypes
<1>4. CASE \E r \in Requests : Admits(r)
  <2>1. PICK r \in Requests : Admits(r)
    BY <1>4
  <2>2. queue' = Append(queue, r)
    BY <2>1 DEF Admits, Accept
  <2>3. Len(queue') = Len(queue) + 1
    BY <1>1, <2>2, AppendToLine
  <2>4. \/ metrics' = RecordEnqueue(metrics)
        \/ metrics' = RecordStreamStarted(RecordEnqueue(metrics))
    BY <2>1 DEF Admits, Submit, SubmitStream
  <2>5. SameQueue(metrics', RecordEnqueue(metrics))
    BY <1>3, <2>4, MetricsApart DEF SameQueue
  <2>6. /\ metrics'.queueSize = metrics.queueSize + 1
        /\ metrics'.enqueued = metrics.enqueued + 1 /\ metrics'.processed = metrics.processed
    BY <1>1, <2>5, MetricsFields DEF SameQueue
  <2> QED BY <1>1, <1>2, <2>3, <2>6
<1>5. CASE Drop \/ Take
  <2>1. queue # << >> /\ queue' = Tail(queue)
    BY <1>5 DEF Drop, Take
  <2>2. Len(queue') = Len(queue) - 1 /\ Len(queue) > 0
    <3>1. Len(queue) # 0
      BY <1>1, <2>1, EmptySeq
    <3> QED BY <1>1, <2>1, <3>1, TailOfLine
  <2>3. SameQueue(metrics', RecordDequeue(metrics))
    <3>1. CASE Take
      BY <3>1 DEF Take, SameQueue
    <3>2. CASE Drop
      <4>1. PICK b, prev : LET m == WithState(RecordDequeue(metrics), prev, b)
                           IN  metrics' = m \/ metrics' = RecordStreamCompleted(m)
        BY <3>2 DEF Drop, Reject
      <4> DEFINE m == WithState(RecordDequeue(metrics), prev, b)
      <4>2. SameQueue(m, RecordDequeue(metrics))
        BY <1>3, MetricsApart
      <4>3. SameQueue(RecordStreamCompleted(m), m)
        BY DEF RecordStreamCompleted, SameQueue, Snapshots
      <4> QED BY <4>1, <4>2, <4>3 DEF SameQueue
    <3> QED BY <1>5, <3>1, <3>2
  <2>4. /\ metrics'.queueSize = IF metrics.queueSize > 0 THEN metrics.queueSize - 1 ELSE 0
        /\ metrics'.enqueued = metrics.enqueued
        /\ metrics'.processed = metrics.processed + 1
    BY <1>1, <2>3, MetricsFields DEF SameQueue
  <2> QED BY <1>1, <1>2, <2>2, <2>4
<1>6. CASE Reply \/ AttemptEnds \/ StreamOver \/ Halt \/ AttemptRepeats
  <2>1. UNCHANGED queue
    BY <1>6 DEF Reply, AttemptEnds, StreamOver, FinishStream, Halt, StopWorker,
                AttemptRepeats, ingressVars
  <2>2. SameQueue(metrics', metrics)
    <3>1. ASSUME NEW m \in Snapshots, NEW b, NEW prev
          PROVE  /\ SameQueue(WithState(m, prev, b), m)
                 /\ SameQueue(RecordStreamCompleted(WithState(m, prev, b)), m)
      <4>1. SameQueue(WithState(m, prev, b), m)
        BY MetricsApart
      <4>2. ASSUME NEW n PROVE SameQueue(RecordStreamCompleted(n), n)
        BY DEF RecordStreamCompleted, SameQueue
      <4> QED BY <4>1, <4>2 DEF SameQueue
    <3>2. Counted \subseteq Snapshots
      BY <1>1, CountedTypes
    <3>3. CASE Reply
      BY <1>1, <3>1, <3>3 DEF Reply
    <3>4. CASE AttemptEnds
      <4>1. PICK m \in Counted : \E b :
              \/ metrics' = WithState(m, worker.prev, b)
              \/ metrics' = RecordStreamCompleted(WithState(m, worker.prev, b))
        BY <3>4 DEF AttemptEnds, Reject
      <4>2. SameQueue(metrics', m)
        BY <3>1, <3>2, <4>1
      <4> QED BY <1>1, <4>2, CountedApart DEF SameQueue
    <3>5. CASE StreamOver
      BY <1>1, <3>1, <3>5 DEF StreamOver, FinishStream
    <3>6. CASE Halt
      BY <1>1, <3>1, <3>6 DEF Halt, StopWorker, SameQueue
    <3>7. CASE AttemptRepeats
      BY <1>1, <3>7, CountedApart DEF AttemptRepeats
    <3> QED BY <1>6, <3>3, <3>4, <3>5, <3>6, <3>7
  <2> QED BY <1>2, <2>1, <2>2 DEF SameQueue
<1>7. CASE UNCHANGED <<queue, metrics>>
  BY <1>2, <1>7
<1>8. KeepsOwed => UNCHANGED <<queue, metrics>> \/ Take \/ AttemptRepeats
  BY DEF KeepsOwed, Submit, ClientTimeout, SubmitStream, StartReading, Read,
     Disconnect, DisconnectEarly, WakeUp, Retry, Connect, Chunk, BeginDrain, Tick,
     ClockStep, vars, readerStep, ingressVars
<1> QED
  BY <1>4, <1>5, <1>6, <1>7, <1>8, OwedStep

\* How the gauge of the breaker follows the breaker.
LEMMA BreakerGaugeStep ==
  ASSUME Core, BreakerInv, BreakerInv', MetricsInv, Steps
  PROVE  /\ ~ BreakerEnabled => metrics'.state = "CLOSED"
         /\ BreakerEnabled /\ worker'.pc = "idle" => metrics'.state = breaker'.state
         /\ BreakerEnabled /\ worker'.req # None => metrics'.state = worker'.prev
<1>1. /\ metrics \in Snapshots /\ now \in Nat /\ breaker \in Breakers
      /\ worker.pc \in {"idle", "stopped"} <=> worker.req = None
      /\ worker.pc \in {"calling", "backoff"} => worker.req \in Plain
      /\ worker \in Workers /\ None \notin Requests /\ Idle.pc = "idle" /\ Idle.req = None
  BY TypeParts, PipelineAssumption DEF Core, WorkerAt, Idle
<1>2. /\ ~ BreakerEnabled => metrics.state = "CLOSED"
      /\ BreakerEnabled /\ worker.pc = "idle" => metrics.state = breaker.state
      /\ BreakerEnabled /\ worker.req # None => metrics.state = worker.prev
  BY DEF MetricsInv
<1>3. RecordEnqueue(metrics) \in Snapshots /\ RecordDequeue(metrics) \in Snapshots
  <2>1. "OPEN" \in States /\ TRUE \in BOOLEAN
    BY DEF States
  <2> QED BY <1>1, <2>1, MetricsTypes
<1>4. /\ RecordEnqueue(metrics).state = metrics.state
      /\ RecordDequeue(metrics).state = metrics.state
  BY <1>1, MetricsFields
<1>5. \A m : /\ RecordStreamStarted(m).state = m.state
             /\ RecordStreamCompleted(m).state = m.state
  BY DEF RecordStreamStarted, RecordStreamCompleted
<1>6. ASSUME NEW m \in Snapshots, NEW prev, metrics' = WithState(m, prev, breaker')
               \/ metrics' = RecordStreamCompleted(WithState(m, prev, breaker')),
             m.state = metrics.state, BreakerEnabled => metrics.state = prev
      PROVE  metrics'.state = IF BreakerEnabled THEN breaker'.state ELSE metrics.state
  <2>1. metrics'.state = WithState(m, prev, breaker').state
    BY <1>5, <1>6
  <2>2. WithState(m, prev, breaker').state
          = IF ~ BreakerEnabled \/ breaker'.state = prev THEN m.state ELSE breaker'.state
    BY MetricsApart
  <2> QED BY <1>6, <2>1, <2>2
<1>7. CASE (\E r \in Plain : Submit(r)) \/ (\E r \in Streams : SubmitStream(r))
  <2>1. UNCHANGED <<worker, breaker>>
    BY <1>7 DEF Submit, SubmitStream, breakerVars
  <2>2. metrics'.state = metrics.state
    BY <1>4, <1>5, <1>7 DEF Submit, SubmitStream
  <2> QED BY <1>2, <2>1, <2>2
<1>8. CASE Drop
  <2>1. UNCHANGED worker /\ worker.pc = "idle"
    BY <1>8 DEF Drop
  <2>2. \/ metrics' = WithState(RecordDequeue(metrics), breaker.state, breaker')
        \/ metrics' = RecordStreamCompleted(
                        WithState(RecordDequeue(metrics), breaker.state, breaker'))
    BY <1>8 DEF Drop, Reject, SetBreaker
  <2>3. metrics'.state = IF BreakerEnabled THEN breaker'.state ELSE metrics.state
    BY <1>2, <1>3, <1>4, <1>6, <2>1, <2>2
  <2> QED BY <1>1, <1>2, <2>1, <2>3
<1>9. CASE Take
  <2>1. worker'.pc # "idle" /\ worker'.prev = breaker.state /\ worker.pc = "idle"
    <3>1. Acquire(Head(queue), breaker.state)
            => worker'.pc # "idle" /\ worker'.prev = breaker.state
      BY BusyFields DEF Acquire, Call
    <3> QED BY <1>9, <3>1 DEF Take
  <2>2. metrics'.state = metrics.state
    BY <1>4, <1>9 DEF Take
  <2> QED BY <1>2, <2>1, <2>2
<1>10. CASE Reply \/ AttemptEnds \/ StreamOver
  <2>1. worker' = Idle /\ worker.req # None
    BY <1>1, <1>10 DEF Reply, AttemptEnds, StreamOver, FinishStream
  <2>2. PICK m \in Snapshots :
          /\ m.state = metrics.state
          /\ \/ metrics' = WithState(m, worker.prev, breaker')
             \/ metrics' = RecordStreamCompleted(WithState(m, worker.prev, breaker'))
    <3>1. CASE Reply
      BY <1>1, <3>1 DEF Reply, SetBreaker
    <3>2. CASE AttemptEnds
      <4>1. PICK m \in Counted :
              \/ metrics' = WithState(m, worker.prev, breaker')
              \/ metrics' = RecordStreamCompleted(WithState(m, worker.prev, breaker'))
        BY <3>2 DEF AttemptEnds, Reject, SetBreaker
      <4>2. m \in Snapshots /\ m.state = metrics.state
        BY <1>1, CountedTypes, CountedApart
      <4> QED BY <4>1, <4>2
    <3>3. CASE StreamOver
      BY <1>1, <3>3 DEF StreamOver, FinishStream, SetBreaker
    <3> QED BY <1>10, <3>1, <3>2, <3>3
  <2>3. metrics'.state = IF BreakerEnabled THEN breaker'.state ELSE metrics.state
    BY <1>2, <1>6, <2>1, <2>2
  <2> QED BY <1>1, <1>2, <2>1, <2>3
<1>11. CASE AttemptRepeats
  <2>1. worker'.pc = "backoff" /\ worker'.prev = worker.prev /\ worker.req # None
    BY <1>1, <1>11, BusyFields DEF AttemptRepeats, Requests
  <2>2. metrics'.state = metrics.state
    BY <1>1, <1>11, CountedApart DEF AttemptRepeats
  <2> QED BY <1>2, <2>1, <2>2
<1>12. CASE Halt
  <2>1. worker'.pc = "stopped" /\ worker'.req = None
    BY <1>12 DEF Halt, StopWorker, Idle
  <2>2. ~ BreakerEnabled => metrics'.state = metrics.state
    BY <1>1, <1>5, <1>12, MetricsApart DEF Halt, StopWorker
  <2> QED BY <1>2, <2>1, <2>2
<1>13. CASE UNCHANGED metrics /\ ~ Take /\ ~ BreakerSteps /\ ~ Halt
  <2>1. UNCHANGED breaker
    BY <1>13, BreakerFrame DEF breakerVars
  <2>2. \/ UNCHANGED worker
        \/ worker'.pc # "idle" /\ worker'.prev = worker.prev /\ worker.req # None
    <3>1. WakeUp => worker'.pc # "idle" /\ worker'.prev = worker.prev /\ worker.req # None
      BY <1>1, BusyFields DEF WakeUp, Acquire, Call
    <3>2. Retry \/ AttemptRepeats \/ Connect
            => worker'.pc # "idle" /\ worker'.prev = worker.prev /\ worker.req # None
      BY <1>1, BusyFields DEF Retry, Call, AttemptRepeats, Connect
    <3>3. Chunk => worker'.pc # "idle" /\ worker'.prev = worker.prev /\ worker.req # None
      BY <1>1 DEF Chunk, Workers
    <3> QED BY <1>13, <3>1, <3>2, <3>3, WorkerFrame DEF WorkerSteps, BreakerSteps
  <2> QED BY <1>2, <1>13, <2>1, <2>2
<1> QED
  BY <1>7, <1>8, <1>9, <1>10, <1>11, <1>12, <1>13, MetricsFrame DEF BreakerSteps

\* How the counts of streams follow the streams that are owed an answer.
LEMMA StreamCountStep ==
  ASSUME Core, LineInv, MetricsInv, Steps, worker'.pc # "stopped"
  PROVE  /\ IsFiniteSet(Owed' \cap Streams)
         /\ metrics'.started - metrics'.completed = Cardinality(Owed' \cap Streams)
<1> USE PipelineAssumption
<1> DEFINE S == Owed \cap Streams
           N == metrics.started - metrics.completed
<1>1. /\ metrics \in Snapshots /\ metrics.started \in Nat /\ metrics.completed \in Nat
      /\ worker.pc \in {"calling", "backoff"} => worker.req \in Plain
      /\ worker.pc \in {"connecting", "streaming"} => worker.req \in Streams
  BY TypeParts DEF Core, WorkerAt, Snapshots
<1>2. IsFiniteSet(S) /\ N = Cardinality(S) /\ Cardinality(S) \in Nat
  BY StoppedStays, FS_CardinalityType DEF MetricsInv
<1>3. /\ RecordEnqueue(metrics) \in Snapshots /\ RecordDequeue(metrics) \in Snapshots
      /\ Counted \subseteq Snapshots
  <2>1. "OPEN" \in States /\ TRUE \in BOOLEAN
    BY DEF States
  <2> QED BY <1>1, <2>1, MetricsTypes, CountedTypes
<1>4. /\ SameStreams(RecordEnqueue(metrics), metrics)
      /\ SameStreams(RecordDequeue(metrics), metrics)
      /\ \A m \in Counted : SameStreams(m, metrics)
  BY <1>1, MetricsFields, CountedApart DEF SameStreams
<1>5. ASSUME NEW m \in Snapshots, NEW b, NEW prev
      PROVE  /\ SameStreams(WithState(m, prev, b), m)
             /\ RecordStreamCompleted(WithState(m, prev, b)).started = m.started
             /\ RecordStreamCompleted(WithState(m, prev, b)).completed = m.completed + 1
  BY DEF WithState, RecordBreakerState, RecordStreamCompleted, SameStreams, Snapshots
\* The end of request q, which m is the metrics before.
<1>6. ASSUME NEW q \in Owed, NEW m \in Snapshots, SameStreams(m, metrics),
             NEW b, NEW prev, Owed' = Owed \ {q},
             \/ q \in Plain /\ metrics' = WithState(m, prev, b)
             \/ /\ q \in Streams
                /\ metrics' = RecordStreamCompleted(WithState(m, prev, b))
      PROVE  /\ IsFiniteSet(Owed' \cap Streams)
             /\ metrics'.started - metrics'.completed = Cardinality(Owed' \cap Streams)
  <2>1. CASE q \in Plain /\ metrics' = WithState(m, prev, b)
    <3>1. Owed' \cap Streams = S
      BY <1>6, <2>1
    <3>2. metrics'.started = metrics.started /\ metrics'.completed = metrics.completed
      BY <1>5, <1>6, <2>1 DEF SameStreams
    <3> QED BY <1>2, <3>1, <3>2
  <2>2. CASE q \in Streams /\ metrics' = RecordStreamCompleted(WithState(m, prev, b))
    <3>1. Owed' \cap Streams = S \ {q} /\ q \in S
      BY <1>6, <2>2
    <3>2. metrics'.started = metrics.started /\ metrics'.completed = metrics.completed + 1
      BY <1>5, <1>6, <2>2 DEF SameStreams
    <3> HIDE DEF S
    <3>3. IsFiniteSet(S \ {q}) /\ Cardinality(S \ {q}) = Cardinality(S) - 1
      BY <1>2, <3>1, FS_RemoveElement
    <3>4. metrics'.started - metrics'.completed = Cardinality(S) - 1
      BY <1>1, <1>2, <3>2
    <3> QED BY <3>1, <3>3, <3>4
  <2> QED BY <1>6, <2>1, <2>2
<1>7. CASE \E r \in Requests : Admits(r) /\ Owed' = Owed \cup {r} /\ r \notin Owed
  <2>1. PICK r \in Requests : Admits(r) /\ Owed' = Owed \cup {r} /\ r \notin Owed
    BY <1>7
  <2>2. CASE r \in Plain
    <3>1. metrics' = RecordEnqueue(metrics)
      BY <2>1, <2>2 DEF Admits, Submit, SubmitStream
    <3>2. Owed' \cap Streams = S
      BY <2>1, <2>2
    <3> QED BY <1>2, <1>4, <3>1, <3>2 DEF SameStreams
  <2>3. CASE r \in Streams
    <3>1. metrics' = RecordStreamStarted(RecordEnqueue(metrics))
      BY <2>1, <2>3 DEF Admits, Submit, SubmitStream
    <3>2. metrics'.started = metrics.started + 1 /\ metrics'.completed = metrics.completed
      BY <1>3, <1>4, <3>1, MetricsApart DEF SameStreams
    <3>3. Owed' \cap Streams = S \cup {r} /\ r \notin S
      BY <2>1, <2>3
    <3> HIDE DEF S
    <3>4. IsFiniteSet(S \cup {r}) /\ Cardinality(S \cup {r}) = Cardinality(S) + 1
      BY <1>2, <3>3, FS_AddElement
    <3>5. metrics'.started - metrics'.completed = Cardinality(S) + 1
      BY <1>1, <1>2, <3>2
    <3> QED BY <3>3, <3>4, <3>5
  <2> QED BY <2>1, <2>2, <2>3 DEF Requests
<1>8. CASE Drop /\ Owed' = Owed \ {Head(queue)} /\ Head(queue) \in Owed
  <2> DEFINE q == Head(queue)
  <2>1. PICK b : \/ /\ q \in Plain
                    /\ metrics' = WithState(RecordDequeue(metrics), breaker.state, b)
                 \/ /\ q \in Streams
                    /\ metrics' = RecordStreamCompleted(
                                    WithState(RecordDequeue(metrics), breaker.state, b))
    BY <1>8 DEF Drop, Reject, Owed, Requests
  <2> HIDE DEF q
  <2> QED BY <1>3, <1>4, <1>6, <1>8, <2>1 DEF q
<1>9. CASE /\ Reply \/ AttemptEnds \/ StreamOver
           /\ Owed' = Owed \ {worker.req} /\ worker.req \in Owed
  <2>1. CASE Reply
    <3>1. worker.req \in Plain /\ \E b : metrics' = WithState(metrics, worker.prev, b)
      BY <1>1, <2>1 DEF Reply
    <3> QED BY <1>1, <1>6, <1>9, <3>1 DEF SameStreams
  <2>2. CASE AttemptEnds
    <3>1. worker.req \in Plain /\ worker.req \notin Streams
      BY <1>1, <2>2 DEF AttemptEnds
    <3>2. PICK e \in Exceptions, m \in Counted : Reject(worker.req, e, m, breaker, worker.prev)
      BY <2>2 DEF AttemptEnds
    <3>3. metrics' = WithState(m, worker.prev, Recorded(breaker, e))
      BY <3>1, <3>2 DEF Reject
    <3> QED BY <1>3, <1>4, <1>6, <1>9, <3>1, <3>3
  <2>3. CASE StreamOver
    <3>1. /\ worker.req \in Streams
          /\ \E b : metrics' = RecordStreamCompleted(WithState(metrics, worker.prev, b))
      BY <1>1, <2>3 DEF StreamOver, FinishStream
    <3> QED BY <1>1, <1>6, <1>9, <3>1 DEF SameStreams
  <2> QED BY <1>9, <2>1, <2>2, <2>3
<1>10. ~ Halt
  BY DEF Halt, StopWorker, Idle
<1>11. CASE KeepsOwed /\ Owed' = Owed
  <2>1. UNCHANGED metrics \/ Take \/ AttemptRepeats
    BY <1>11 DEF KeepsOwed, Submit, ClientTimeout, SubmitStream, StartReading, Read,
       Disconnect, DisconnectEarly, WakeUp, Retry, Connect, Chunk, BeginDrain, Tick,
       ClockStep, vars, readerStep
  <2>2. metrics'.started = metrics.started /\ metrics'.completed = metrics.completed
    BY <1>4, <2>1 DEF Take, AttemptRepeats, SameStreams
  <2> QED BY <1>2, <1>11, <2>2
<1> QED
  BY <1>7, <1>8, <1>9, <1>10, <1>11, OwedStep

\* The metrics invariant holds in every state that Pipeline can reach.
THEOREM MetricsInvariant == Spec => []MetricsInv
<1>1. Init => MetricsInv
  <2>1. ASSUME Init PROVE MetricsInv
    <3>1. \A r \in Requests : ~ InQueue(r) /\ ~ InHand(r)
      BY <2>1, PipelineAssumption, EmptyLine DEF Init, InQueue, Within, InHand, Idle
    <3>2. Owed \cap Streams = {}
      BY <3>1 DEF Owed
    <3>3. /\ metrics = NoMetrics /\ breaker = Closed /\ worker.req = None
          /\ queue = << >> /\ Len(queue) = 0
      BY <2>1, EmptySeq DEF Init, Idle
    <3>4. IsFiniteSet({}) /\ Cardinality({}) = 0
      BY FS_EmptySet
    <3>5. /\ NoMetrics.queueSize = 0 /\ NoMetrics.enqueued = 0 /\ NoMetrics.processed = 0
          /\ NoMetrics.started = 0 /\ NoMetrics.completed = 0
          /\ NoMetrics.state = "CLOSED" /\ Closed.state = "CLOSED"
      BY DEF NoMetrics, Closed
    <3>6. /\ metrics.queueSize = Len(queue)
          /\ metrics.enqueued - metrics.processed = Len(queue)
          /\ metrics.started - metrics.completed = 0
          /\ metrics.state = "CLOSED" /\ metrics.state = breaker.state
      BY <3>3, <3>5
    <3> QED BY <3>2, <3>3, <3>4, <3>6 DEF MetricsInv
  <2> QED BY <2>1
<1>2. Core /\ BreakerInv /\ BreakerInv' /\ LineInv /\ MetricsInv /\ [Next]_vars
        => MetricsInv'
  <2>1. ASSUME Core, BreakerInv, BreakerInv', LineInv, MetricsInv, Steps
        PROVE  MetricsInv'
    BY <2>1, QueueGaugeStep, BreakerGaugeStep, StreamCountStep DEF MetricsInv
  <2> QED BY <2>1, StepCases DEF Core
<1> QED
  BY <1>1, <1>2, CoreInvariant, BreakerInvariant, LineInvariant, PTL DEF Spec

\* Whenever the worker is back in its loop the gauges tell the truth of the
\* queue, of the breaker and of the streams that wait, whatever path it took
\* there (metrics.py:162-279, processor.py:212-260).
THEOREM MetricsAlwaysTellTheTruth == Spec => []MetricsTellTheTruth
<1>1. Core /\ BreakerInv /\ MetricsInv => MetricsTellTheTruth
  <2>1. ASSUME Core, BreakerInv, MetricsInv, worker.pc = "idle"
        PROVE  Owed \cap Streams = {r \in Streams : InQueue(r)}
    <3>1. worker.req = None /\ None \notin Requests
      BY <2>1, PipelineAssumption DEF Core, WorkerAt
    <3> QED BY <3>1 DEF Owed, InHand, Requests
  <2>2. ASSUME Core, BreakerInv, MetricsInv, worker.pc = "idle"
        PROVE  metrics.state = breaker.state
    BY <2>2 DEF BreakerInv, MetricsInv, Closed
  <2> QED BY <2>1, <2>2 DEF MetricsInv, MetricsTellTheTruth
<1> QED
  BY <1>1, CoreInvariant, BreakerInvariant, MetricsInvariant, PTL
-----------------------------------------------------------------------------
(* How old the requests are that go upstream. *)

\* The limiter remembers only permits that it has granted.
PermitsArePast ==
  /\ \A i \in 1..Len(limiter.timestamps) : limiter.timestamps[i] <= now
  /\ limiter.last # None => limiter.last <= now

LongestSleep == Later(Window, MinInterval)

\* One iteration of acquire(), in time: the sleep is bounded, and long enough; who
\* is rested does not sleep.
LEMMA AcquireTiming ==
  ASSUME limiter \in Limiters, WindowBounded, PermitsArePast, now \in Nat,
         NEW r, NEW prev, Acquire(r, prev)
  PROVE  /\ \A i \in 1..Len(limiter'.timestamps) : limiter'.timestamps[i] <= now
         /\ limiter'.last # None => limiter'.last <= now
         /\ \/ Call(r, 0, prev)
            \/ /\ ~ Rested(limiter.timestamps, limiter.last, now)
               /\ \E wait \in Nat :
                    /\ worker' = Busy(r, "sleeping", 0, now + wait, prev)
                    /\ wait <= LongestSleep
                    /\ Rested(limiter'.timestamps, limiter'.last, now + wait)
<1> USE LimiterAssumption, NoneAssumption
<1> DEFINE ts == limiter.timestamps
           p  == TryAcquire(ts, limiter.last, now, now)
<1>1. /\ ts \in Seq(Nat) /\ Len(ts) <= Rpm /\ limiter.last \in Nat \cup {None}
      /\ \A i \in 1..Len(ts) : ts[i] <= now
      /\ limiter.last # None => limiter.last <= now
      /\ now <= now
  BY DEF Limiters, WindowBounded, PermitsArePast
<1>2. /\ limiter' = [timestamps |-> p.timestamps, last |-> p.last]
      /\ IF p.granted THEN Call(r, 0, prev)
         ELSE worker' = Busy(r, "sleeping", 0, now + p.wait, prev)
  BY DEF Acquire
<1>3. limiter'.timestamps = p.timestamps /\ limiter'.last = p.last
  BY <1>2
<1> HIDE DEF ts
<1>4. /\ p.granted \in BOOLEAN
      /\ p.last = IF p.granted THEN now ELSE limiter.last
      /\ p.wait \in Nat
      /\ \E rest, m :
           /\ Ends(rest, m, ts)
           /\ \A i \in 1..m : ts[i] + Window <= now
           /\ p.timestamps = IF p.granted THEN Append(rest, now) ELSE rest
           /\ p.granted => Len(rest) < Rpm /\ IntervalWait(limiter.last, now) = 0
  BY <1>1, TryAcquireEffect
<1>5. p.wait <= LongestSleep
  BY <1>1, SleepIsBounded DEF LongestSleep
<1>6. ~ p.granted => Rested(p.timestamps, limiter.last, now + p.wait)
  BY <1>1, SleepIsLongEnough
<1>7. Rested(ts, limiter.last, now) => p.granted
  BY <1>1, RestedIsGranted
<1> HIDE DEF p
<1>8. \A i \in 1..Len(p.timestamps) : p.timestamps[i] <= now
  <2>1. PICK rest, m : /\ Ends(rest, m, ts)
                       /\ p.timestamps = IF p.granted THEN Append(rest, now) ELSE rest
    BY <1>4
  <2>2. /\ rest \in Seq(Nat) /\ m \in 0..Len(ts) /\ Len(ts) \in Nat /\ Len(rest) \in Nat
        /\ Len(rest) = Len(ts) - m /\ \A i \in 1..Len(rest) : rest[i] = ts[m + i]
    BY <1>1, <2>1, LenProperties DEF Ends
  <2>3. \A i \in 1..Len(rest) : rest[i] <= now
    <3> SUFFICES ASSUME NEW i \in 1..Len(rest) PROVE rest[i] <= now
      OBVIOUS
    <3>1. /\ m \in Nat /\ Len(ts) \in Nat /\ Len(rest) = Len(ts) - m
          /\ i \in Nat /\ 1 <= i /\ i <= Len(rest)
      BY <2>2
    <3>2. m + i \in 1..Len(ts)
      BY <3>1
    <3> QED BY <1>1, <2>2, <3>2
  <2>4. /\ Len(Append(rest, now)) = Len(rest) + 1
        /\ \A i \in 1..Len(rest) : Append(rest, now)[i] = rest[i]
        /\ Append(rest, now)[Len(rest) + 1] = now
    BY <2>2, AppendProperties
  <2>5. \A i \in 1..(Len(rest) + 1) : i \in 1..Len(rest) \/ i = Len(rest) + 1
    <3>1. Len(rest) \in Nat
      BY <2>2
    <3> QED BY <3>1
  <2> QED BY <1>1, <2>1, <2>3, <2>4, <2>5
<1>9. p.last # None => p.last <= now
  BY <1>1, <1>4
<1>10. ~ p.granted => p.last = limiter.last
  BY <1>4
<1> QED
  BY <1>2, <1>3, <1>4, <1>5, <1>6, <1>7, <1>8, <1>9, <1>10 DEF ts

\* The worst age of a request that the worker has let through is the longest wait
\* in the queue and one sleep; a step of the wall clock can hide some of it.
Limit == MaxWait + LongestSleep + MaxSkew

\* Both instants of an admission are on record, and differ by what the wall clock
\* showed then.  The worker sleeps until it is sure of its permit, and no longer.
AgeInv ==
  /\ \A r \in Requests : enqueuedAt[r] # None =>
       /\ submittedAt[r] \in Nat
       /\ enqueuedAt[r] = submittedAt[r] \/ enqueuedAt[r] = submittedAt[r] + skew
  /\ PermitsArePast
  /\ worker.pc = "sleeping" =>
       /\ Rested(limiter.timestamps, limiter.last, worker.wakeAt)
       /\ now <= worker.wakeAt
       /\ worker.wakeAt - submittedAt[worker.req] <= Limit
  /\ worker.pc \in {"calling", "connecting"} /\ worker.count = 0 =>
       (worker.wakeAt - ForwardTimeout) - submittedAt[worker.req] <= Limit

\* Neither a step of the clocks nor one of the worker makes a request older.
LEMMA AgeStep ==
  ASSUME Core, LineInv, AgeInv, Steps
  PROVE  AgeInv'
<1> USE PipelineAssumption, NoneAssumption, LimiterAssumption
<1> DEFINE Instants == \A r \in Requests : enqueuedAt[r] # None =>
              /\ submittedAt[r] \in Nat
              /\ enqueuedAt[r] = submittedAt[r] \/ enqueuedAt[r] = submittedAt[r] + skew
           Asleep == worker.pc = "sleeping" =>
              /\ Rested(limiter.timestamps, limiter.last, worker.wakeAt)
              /\ now <= worker.wakeAt
              /\ worker.wakeAt - submittedAt[worker.req] <= Limit
           Sent == worker.pc \in {"calling", "connecting"} /\ worker.count = 0 =>
              (worker.wakeAt - ForwardTimeout) - submittedAt[worker.req] <= Limit
<1>1. /\ now \in Nat /\ skew \in (-MaxSkew)..MaxSkew /\ skew \in Int
      /\ enqueuedAt \in [Requests -> Int \cup {None}]
      /\ submittedAt \in [Requests -> Nat \cup {None}]
      /\ queue \in Seq(Requests) /\ worker \in Workers /\ limiter \in Limiters
      /\ worker.wakeAt \in Nat /\ worker.count \in Nat /\ WindowBounded
      /\ worker.pc \in {"idle", "stopped"} <=> worker.req = None
      /\ worker.req # None => worker.req \in Requests
      /\ worker.pc \in {"connecting", "streaming"} => worker.req \in Streams
      /\ ForwardTimeout \in Nat /\ LongestSleep \in Nat /\ Limit \in Nat
      /\ MaxWait \in Nat /\ MaxSkew \in Nat
      /\ Limit = MaxWait + LongestSleep + MaxSkew
  <2>1. /\ now \in Nat /\ skew \in (-MaxSkew)..MaxSkew /\ skew \in Int
        /\ enqueuedAt \in [Requests -> Int \cup {None}]
        /\ submittedAt \in [Requests -> Nat \cup {None}]
        /\ queue \in Seq(Requests) /\ worker \in Workers /\ limiter \in Limiters
        /\ WindowBounded
    BY SMTT(30), TypeParts DEF Core
  <2>2. /\ worker.wakeAt \in Nat /\ worker.count \in Nat
        /\ worker.req # None => worker.req \in Requests
    BY <2>1 DEF Workers
  <2>3. ForwardTimeout \in Nat /\ MaxWait \in Nat /\ MaxSkew \in Nat
    OBVIOUS
  <2>4. LongestSleep \in Nat
    BY DEF LongestSleep, Later
  <2>5. Limit \in Nat /\ Limit = MaxWait + LongestSleep + MaxSkew
    BY <2>3, <2>4 DEF Limit
  <2>6. /\ worker.pc \in {"idle", "stopped"} <=> worker.req = None
        /\ worker.pc \in {"connecting", "streaming"} => worker.req \in Streams
    BY Zenon DEF Core, WorkerAt
  <2> QED BY <2>1, <2>2, <2>3, <2>4, <2>5, <2>6
<1>2. Instants /\ PermitsArePast /\ Asleep /\ Sent
  BY DEF AgeInv
<1>3. /\ now' \in Nat /\ now <= now'
      /\ skew' = skew \/ skew = 0
  <2>1. CASE UNCHANGED <<now, skew>>
    BY <1>1, <2>1
  <2>2. CASE Tick
    BY <1>1, <2>2 DEF Tick
  <2>3. CASE ClockStep
    BY <1>1, <2>3 DEF ClockStep
  <2> QED BY <2>1, <2>2, <2>3, WorkerFrame
<1>past. ASSUME UNCHANGED limiter PROVE PermitsArePast'
  <2>1. \A i \in 1..Len(limiter.timestamps) :
          limiter.timestamps[i] \in Nat /\ limiter.timestamps[i] <= now
    BY <1>1, <1>2, ElementOfSeq DEF Limiters, PermitsArePast
  <2>2. limiter.last # None => limiter.last \in Nat /\ limiter.last <= now
    BY <1>1, <1>2 DEF Limiters, PermitsArePast
  <2>3. \A i \in 1..Len(limiter.timestamps) : limiter.timestamps[i] <= now'
    BY SMTT(30), <1>1, <1>3, <2>1
  <2>4. limiter.last # None => limiter.last <= now'
    BY <1>1, <1>3, <2>2
  <2> QED BY <1>past, <2>3, <2>4 DEF PermitsArePast
<1>4. ASSUME NEW r \in Requests
      PROVE  \/ enqueuedAt'[r] = enqueuedAt[r] /\ submittedAt'[r] = submittedAt[r]
             \/ /\ r \notin Owed /\ submittedAt'[r] = now
                /\ enqueuedAt'[r] = now + skew /\ skew' = skew
  <2>1. Admits(r) => skew' = skew
    BY DEF Admits, Submit, SubmitStream, clocks
  <2> QED BY <2>1, AdmissionStep, AdmittedIsNew
<1>5. Instants'
  <2> SUFFICES ASSUME NEW r \in Requests, enqueuedAt'[r] # None
               PROVE  /\ submittedAt'[r] \in Nat
                      /\ \/ enqueuedAt'[r] = submittedAt'[r]
                         \/ enqueuedAt'[r] = submittedAt'[r] + skew'
    OBVIOUS
  <2>1. CASE enqueuedAt'[r] = enqueuedAt[r] /\ submittedAt'[r] = submittedAt[r]
    <3>1. /\ submittedAt[r] \in Nat
          /\ enqueuedAt[r] = submittedAt[r] \/ enqueuedAt[r] = submittedAt[r] + skew
      BY <1>2, <2>1
    <3> QED BY <1>3, <2>1, <3>1
  <2>2. CASE submittedAt'[r] = now /\ enqueuedAt'[r] = now + skew /\ skew' = skew
    BY <1>1, <2>2
  <2> QED BY <1>4, <2>1, <2>2
<1>6. ASSUME NEW r \in Requests, r \in Owed
      PROVE  submittedAt'[r] = submittedAt[r] /\ submittedAt[r] \in Nat
  <2>1. enqueuedAt[r] # None
    BY <1>6 DEF LineInv
  <2> QED BY <1>2, <1>4, <1>6, <2>1
<1>7. worker.req # None => worker.req \in Owed
  BY <1>1 DEF Owed, InHand
\* One iteration of acquire() for a request that may wait so long.
<1>8. ASSUME NEW r \in Requests, NEW prev, Acquire(r, prev), UNCHANGED now,
             submittedAt'[r] \in Nat,
             \/ now - submittedAt'[r] <= MaxWait + MaxSkew
             \/ /\ Rested(limiter.timestamps, limiter.last, now)
                /\ now - submittedAt'[r] <= Limit
      PROVE  PermitsArePast' /\ Asleep' /\ Sent'
  <2>1. /\ \A i \in 1..Len(limiter'.timestamps) : limiter'.timestamps[i] <= now
        /\ limiter'.last # None => limiter'.last <= now
        /\ \/ Call(r, 0, prev)
           \/ /\ ~ Rested(limiter.timestamps, limiter.last, now)
              /\ \E wait \in Nat :
                   /\ worker' = Busy(r, "sleeping", 0, now + wait, prev)
                   /\ wait <= LongestSleep
                   /\ Rested(limiter'.timestamps, limiter'.last, now + wait)
    BY <1>1, <1>2, <1>8, AcquireTiming
  <2>2. PermitsArePast'
    BY <1>8, <2>1 DEF PermitsArePast
  <2>3. CASE Call(r, 0, prev)
    <3>1. /\ worker'.pc \in {"calling", "connecting"} /\ worker'.req = r
          /\ worker'.wakeAt = now + ForwardTimeout
      BY <2>3, BusyFields DEF Call
    <3>2. (worker'.wakeAt - ForwardTimeout) - submittedAt'[r] <= Limit
      BY SMTT(30), <1>1, <1>8, <3>1
    <3> QED BY <2>2, <3>1, <3>2
  <2>4. CASE /\ ~ Rested(limiter.timestamps, limiter.last, now)
             /\ \E wait \in Nat :
                  /\ worker' = Busy(r, "sleeping", 0, now + wait, prev)
                  /\ wait <= LongestSleep
                  /\ Rested(limiter'.timestamps, limiter'.last, now + wait)
    <3>1. PICK wait \in Nat :
                  /\ worker' = Busy(r, "sleeping", 0, now + wait, prev)
                  /\ wait <= LongestSleep
                  /\ Rested(limiter'.timestamps, limiter'.last, now + wait)
      BY <2>4
    <3>2. /\ worker'.pc = "sleeping" /\ worker'.req = r /\ worker'.wakeAt = now + wait
      BY <3>1, BusyFields
    <3>3. (now + wait) - submittedAt'[r] <= Limit /\ now <= now + wait
      BY SMTT(30), <1>1, <1>8, <2>4, <3>1
    <3> QED BY <1>8, <2>2, <3>1, <3>2, <3>3
  <2> QED BY <2>1, <2>3, <2>4
<1>9. CASE Take
  <2> DEFINE r == Head(queue)
  <2>1. /\ r \in Requests /\ r \in Owed
    BY <1>1, <1>9, TailOfLine DEF Take, Owed, InQueue, Within
  <2>2. /\ (now + skew) - enqueuedAt[r] <= MaxWait /\ Acquire(r, breaker.state)
        /\ UNCHANGED <<now, submittedAt>>
    BY <1>9 DEF Take, Waited, clocks
  <2>3. /\ submittedAt[r] \in Nat
        /\ enqueuedAt[r] = submittedAt[r] \/ enqueuedAt[r] = submittedAt[r] + skew
    BY <1>2, <2>1 DEF LineInv
  <2> HIDE DEF r
  <2>4. now - submittedAt[r] <= MaxWait + MaxSkew
    <3>1. now \in Nat /\ skew \in Int /\ -MaxSkew <= skew /\ MaxSkew \in Nat
          /\ MaxWait \in Nat
      BY <1>1
    <3> QED BY <2>2, <2>3, <3>1
  <2>5. submittedAt'[r] = submittedAt[r]
    BY <2>2
  <2> QED BY <1>5, <1>8, <2>1, <2>2, <2>3, <2>4, <2>5 DEF AgeInv
<1>10. CASE WakeUp
  <2>1. /\ worker.req \in Requests /\ worker.req \in Owed
        /\ Acquire(worker.req, worker.prev) /\ UNCHANGED now
        /\ worker.pc = "sleeping" /\ now >= worker.wakeAt
    BY <1>1, <1>7, <1>10 DEF WakeUp, clocks
  <2>2. now = worker.wakeAt
    BY <1>1, <1>2, <2>1
  <2>3. /\ Rested(limiter.timestamps, limiter.last, now)
        /\ now - submittedAt[worker.req] <= Limit
    BY <1>2, <2>1, <2>2
  <2>4. submittedAt'[worker.req] = submittedAt[worker.req] /\ submittedAt[worker.req] \in Nat
    BY <1>6, <2>1
  <2>5. PermitsArePast' /\ Asleep' /\ Sent'
    BY <1>8, <2>1, <2>3, <2>4
  <2> QED BY <1>5, <2>5 DEF AgeInv
<1>11. CASE Retry
  <2>1. worker'.pc \in {"calling", "connecting"} /\ worker'.count = worker.count + 1
    BY <1>11, BusyFields DEF Retry, Call
  <2>2. UNCHANGED <<limiter, now>>
    BY <1>11 DEF Retry, clocks
  <2>3. PermitsArePast'
    BY <1>2, <2>2 DEF PermitsArePast
  <2> QED BY <1>1, <1>5, <2>1, <2>3 DEF AgeInv
<1>12. CASE WorkerSteps /\ ~ Take /\ ~ WakeUp /\ ~ Retry
  <2>1. worker'.pc \notin {"sleeping", "calling", "connecting"}
    <3>1. Reply \/ AttemptEnds \/ StreamOver \/ Halt => worker'.pc \in {"idle", "stopped"}
      BY DEF Reply, AttemptEnds, StreamOver, FinishStream, Halt, StopWorker, Idle
    <3>2. AttemptRepeats \/ Connect => worker'.pc \in {"backoff", "streaming"}
      BY BusyFields DEF AttemptRepeats, Connect
    <3>3. Chunk => worker'.pc = "streaming"
      BY <1>1 DEF Chunk, Workers
    <3> QED BY <1>12, <3>1, <3>2, <3>3 DEF WorkerSteps
  <2>2. UNCHANGED limiter
    BY <1>12, WorkerFrame
  <2>3. PermitsArePast'
    BY <1>past, <2>2
  <2> QED BY <1>5, <2>1, <2>3 DEF AgeInv
<1>13. CASE UNCHANGED worker /\ ~ Take /\ ~ WakeUp /\ ~ Retry
  <2>1. UNCHANGED limiter
    BY <1>13, WorkerFrame
  <2>2. PermitsArePast'
    BY <1>past, <2>1
  <2>3. worker.req # None => submittedAt'[worker.req] = submittedAt[worker.req]
    BY <1>1, <1>6, <1>7
  <2>4. worker.pc = "sleeping" => now' <= worker.wakeAt
    <3>1. Tick /\ worker.pc = "sleeping" => now' = now + 1 /\ ~ (now >= worker.wakeAt)
      BY DEF Tick, Ready
    <3>2. Tick \/ now' = now
      BY WorkerFrame DEF ClockStep
    <3> QED BY <1>1, <1>2, <3>1, <3>2
  <2>5. Asleep'
    BY <1>1, <1>2, <1>13, <2>1, <2>3, <2>4
  <2>6. Sent'
    BY <1>1, <1>2, <1>13, <2>3
  <2> QED BY <1>5, <2>2, <2>5, <2>6 DEF AgeInv
<1> QED
  BY <1>9, <1>10, <1>11, <1>12, <1>13, WorkerFrame

\* In every state that Pipeline can reach the age of a request is known.
THEOREM AgeInvariant == Spec => []AgeInv
<1>1. Init => AgeInv
  <2>1. ASSUME Init PROVE AgeInv
    <3>1. Len(<< >>) = 0 /\ 1..0 = {}
      BY EmptySeq
    <3> QED BY <2>1, <3>1 DEF Init, AgeInv, PermitsArePast, Idle
  <2> QED BY <2>1
<1>2. Core /\ LineInv /\ AgeInv /\ [Next]_vars => AgeInv'
  BY AgeStep, StepCases DEF Core
<1> QED
  BY <1>1, <1>2, CoreInvariant, LineInvariant, PTL DEF Spec

\* The age of a request is checked once, before the limiter: when its first call
\* is made it may be older than the longest wait, but by one sleep of the limiter
\* at most, and by what the wall clock was set back (processor.py:265-296).
THEOREM AlwaysForwardedBeforeStale == Spec => []ForwardedBeforeStale
<1>1. AgeInv => ForwardedBeforeStale
  BY DEF AgeInv, ForwardedBeforeStale, Limit, LongestSleep
<1> QED
  BY <1>1, AgeInvariant, PTL
-----------------------------------------------------------------------------
(* How long the attempts of one request take. *)

\* While an attempt or a backoff is under way its deadline is not past, and there
\* is time left for the attempt that follows the backoff.
AttemptInv ==
  /\ worker.pc = "calling" =>
       /\ now <= worker.wakeAt
       /\ worker.wakeAt - submittedAt[worker.req]
            <= Limit + TimeOfAttempts(worker.count)
  /\ worker.pc = "backoff" =>
       /\ now <= worker.wakeAt
       /\ (worker.wakeAt - submittedAt[worker.req]) + ForwardTimeout
            <= Limit + TimeOfAttempts(worker.count + 1)

\* Each retry adds its backoff and one more attempt.
LEMMA TimesAddUp ==
  /\ TimeOfAttempts(0) = ForwardTimeout
  /\ \A n \in 0..MaxRetries :
       /\ TimeOfAttempts(n) \in Int /\ Backoff * 2^n \in Nat
       /\ TimeOfAttempts(n + 1) = TimeOfAttempts(n) + Backoff * 2^n + ForwardTimeout
<1>1. ForwardTimeout \in Nat /\ Backoff \in Nat /\ MaxRetries \in Nat
  BY PipelineAssumption
<1>2. TimeOfAttempts(0) = ForwardTimeout
  <2>1. TimeOfAttempts(0) = (0 + 1) * ForwardTimeout + Backoff * (1 - 1)
    BY PowersAssumption DEF TimeOfAttempts
  <2> QED BY <1>1, <2>1
<1>3. ASSUME NEW n \in 0..MaxRetries
      PROVE  /\ TimeOfAttempts(n) \in Int /\ Backoff * 2^n \in Nat
             /\ TimeOfAttempts(n + 1) = TimeOfAttempts(n) + Backoff * 2^n + ForwardTimeout
  <2> DEFINE power == 2^n
  <2>1. power \in Nat /\ 2^(n + 1) = 2 * power
    BY PowersAssumption
  <2>2. /\ TimeOfAttempts(n) = (n + 1) * ForwardTimeout + Backoff * (power - 1)
        /\ TimeOfAttempts(n + 1) = ((n + 1) + 1) * ForwardTimeout + Backoff * (2 * power - 1)
        /\ Backoff * 2^n = Backoff * power
    BY <2>1 DEF TimeOfAttempts
  <2> HIDE DEF power
  <2>3. n \in Nat
    BY <1>1
  <2>4. /\ (n + 1) * ForwardTimeout + Backoff * (power - 1) \in Int
        /\ Backoff * power \in Nat
    BY <1>1, <2>1, <2>3
  <2>5. ((n + 1) + 1) * ForwardTimeout + Backoff * (2 * power - 1)
          = ((n + 1) * ForwardTimeout + Backoff * (power - 1))
              + Backoff * power + ForwardTimeout
    <3>1. ((n + 1) + 1) * ForwardTimeout = (n + 1) * ForwardTimeout + ForwardTimeout
      BY <1>1, <2>3
    <3>2. Backoff * (2 * power - 1) = Backoff * (power - 1) + Backoff * power
      BY <1>1, <2>1
    <3>3. /\ (n + 1) * ForwardTimeout \in Int /\ Backoff * (power - 1) \in Int
          /\ Backoff * power \in Int
      BY <1>1, <2>1, <2>3
    <3> QED BY <1>1, <3>1, <3>2, <3>3
  <2> QED BY <2>2, <2>4, <2>5
<1> QED
  BY <1>2, <1>3

\* A step of the worker keeps the time that its attempts may take.
LEMMA AttemptStep ==
  ASSUME Core, LineInv, AgeInv, AttemptInv, Core', LineInv', AgeInv', Steps
  PROVE  AttemptInv'
<1> USE PipelineAssumption
<1>1. /\ now \in Nat /\ worker \in Workers /\ worker.wakeAt \in Nat
      /\ worker.count \in Nat /\ MaxRetries \in Nat
      /\ worker.pc \in {"calling", "backoff"} =>
           /\ worker.req \in Requests /\ worker.req \in Owed
           /\ worker.count \in 0..MaxRetries
      /\ worker.pc = "backoff" => worker.count < MaxRetries
      /\ ForwardTimeout \in Nat /\ MaxRetries \in Nat
      /\ Limit \in Nat
  <2>1. /\ now \in Nat /\ worker \in Workers
    BY SMTT(30), TypeParts DEF Core
  <2>2. /\ worker.wakeAt \in Nat /\ worker.count \in Nat
    BY <2>1 DEF Workers
  <2>3. /\ worker.pc \in {"calling", "backoff"} => worker.req \in Plain
        /\ worker.pc = "calling" => worker.count <= MaxRetries
        /\ worker.pc = "backoff" => worker.count < MaxRetries
    BY DEF Core, WorkerAt
  <2>4. ForwardTimeout \in Nat /\ MaxRetries \in Nat /\ MaxWait \in Nat /\ MaxSkew \in Nat
    OBVIOUS
  <2>5. LongestSleep \in Nat
    BY LimiterAssumption DEF LongestSleep, Later
  <2>6. Limit \in Nat
    BY <2>4, <2>5 DEF Limit
  <2>7. worker.pc \in {"calling", "backoff"} => worker.req \in Requests /\ worker.req \in Owed
    BY <2>3 DEF Requests, Owed, InHand
  <2>8. worker.pc \in {"calling", "backoff"} => worker.count \in 0..MaxRetries
    BY <2>2, <2>3, <2>4
  <2> QED BY <2>1, <2>2, <2>3, <2>4, <2>6, <2>7, <2>8
<1>2. worker.pc \in {"calling", "backoff"} =>
        /\ submittedAt'[worker.req] = submittedAt[worker.req]
        /\ submittedAt[worker.req] \in Nat
  <2> SUFFICES ASSUME worker.pc \in {"calling", "backoff"}
               PROVE  /\ submittedAt'[worker.req] = submittedAt[worker.req]
                      /\ submittedAt[worker.req] \in Nat
    OBVIOUS
  <2>1. worker.req \in Requests /\ worker.req \in Owed
    BY <1>1
  <2>2. submittedAt'[worker.req] = submittedAt[worker.req]
    BY <2>1, AdmissionStep, AdmittedIsNew
  <2>3. submittedAt[worker.req] \in Nat
    BY <2>1 DEF LineInv, AgeInv
  <2> QED BY <2>2, <2>3
\* The first attempt: the limiter has let the request through just now.
<1>3. CASE Take \/ WakeUp
  <2>1. UNCHANGED now /\ \E r, prev : Acquire(r, prev)
    BY <1>3 DEF Take, WakeUp, clocks
  <2>2. \/ worker'.pc = "sleeping"
        \/ worker'.wakeAt = now + ForwardTimeout /\ worker'.count = 0
           /\ worker'.pc \in {"calling", "connecting"}
    BY <2>1, BusyFields DEF Acquire, Call
  <2>3. worker'.pc = "calling" =>
          /\ worker'.count = 0 /\ worker'.wakeAt = now + ForwardTimeout
          /\ (worker'.wakeAt - ForwardTimeout) - submittedAt'[worker'.req] <= Limit
    BY <2>2 DEF AgeInv, Limit
  <2>4. worker'.pc = "calling" => submittedAt'[worker'.req] \in Nat
    <3> SUFFICES ASSUME worker'.pc = "calling" PROVE submittedAt'[worker'.req] \in Nat
      OBVIOUS
    <3>1. worker'.req \in Plain
      BY DEF Core, WorkerAt
    <3>2. worker'.req \in Requests /\ enqueuedAt'[worker'.req] # None
      BY <3>1 DEF Requests, Owed, InHand, LineInv
    <3> QED BY <3>2 DEF AgeInv
  <2> QED BY <1>1, <2>1, <2>2, <2>3, <2>4, TimesAddUp DEF AttemptInv
<1>4. CASE AttemptRepeats
  <2>1. /\ worker.pc = "calling" /\ UNCHANGED now
        /\ worker'.pc = "backoff" /\ worker'.req = worker.req
        /\ worker'.count = worker.count
        /\ worker'.wakeAt = now + Backoff * 2^worker.count
    BY <1>4, BusyFields DEF AttemptRepeats, clocks
  <2> DEFINE n == worker.count
             wait == Backoff * 2^n
             before == TimeOfAttempts(n)
             after == TimeOfAttempts(n + 1)
  <2>2. /\ before \in Int /\ wait \in Nat /\ after = before + wait + ForwardTimeout
    BY <1>1, <2>1, TimesAddUp
  <2>3. /\ worker'.wakeAt = now + wait /\ now <= worker.wakeAt
        /\ worker.wakeAt - submittedAt[worker.req] <= Limit + before
        /\ submittedAt[worker.req] \in Nat
        /\ submittedAt'[worker.req] = submittedAt[worker.req]
    BY <1>2, <2>1 DEF AttemptInv
  <2> HIDE DEF wait, before, after
  <2>4. /\ now <= worker'.wakeAt
        /\ (worker'.wakeAt - submittedAt[worker.req]) + ForwardTimeout <= Limit + after
    BY <1>1, <2>2, <2>3
  <2> QED BY <2>1, <2>3, <2>4 DEF AttemptInv, after
<1>5. CASE Retry
  <2>1. /\ worker.pc = "backoff" /\ now >= worker.wakeAt /\ UNCHANGED now
        /\ worker'.pc \in {"calling", "connecting"} /\ worker'.req = worker.req
        /\ worker'.count = worker.count + 1
        /\ worker'.wakeAt = now + ForwardTimeout
    BY <1>5, BusyFields DEF Retry, Call, clocks
  <2> DEFINE after == TimeOfAttempts(worker.count + 1)
  <2>2. /\ now <= worker.wakeAt
        /\ (worker.wakeAt - submittedAt[worker.req]) + ForwardTimeout <= Limit + after
        /\ submittedAt[worker.req] \in Nat
        /\ submittedAt'[worker.req] = submittedAt[worker.req]
    BY <1>2, <2>1 DEF AttemptInv
  <2>3. after \in Int
    <3>1. worker.count + 1 \in 0..MaxRetries
      BY <1>1, <2>1
    <3> QED BY <3>1, TimesAddUp
  <2> HIDE DEF after
  <2>4. /\ now <= worker'.wakeAt
        /\ worker'.wakeAt - submittedAt[worker.req] <= Limit + after
    BY <1>1, <2>1, <2>2, <2>3
  <2> QED BY <2>1, <2>2, <2>4 DEF AttemptInv, after
<1>6. CASE Reply \/ AttemptEnds \/ Connect \/ Chunk \/ StreamOver \/ Halt
  <2>1. Reply \/ AttemptEnds \/ StreamOver \/ Halt => worker'.pc \in {"idle", "stopped"}
    BY DEF Reply, AttemptEnds, StreamOver, FinishStream, Halt, StopWorker, Idle
  <2>2. Connect \/ Chunk => worker'.pc = "streaming"
    BY <1>1, BusyFields DEF Connect, Chunk, Workers
  <2> QED BY <1>6, <2>1, <2>2 DEF AttemptInv
<1>7. CASE UNCHANGED worker
  <2>1. worker.pc \in {"calling", "backoff"} /\ now <= worker.wakeAt => now' <= worker.wakeAt
    <3>1. Tick /\ worker.pc \in {"calling", "backoff"} =>
            now' = now + 1 /\ ~ (now >= worker.wakeAt)
      BY DEF Tick, Ready
    <3>2. Tick \/ now' = now
      BY WorkerFrame DEF ClockStep
    <3> QED BY <1>1, <3>1, <3>2
  <2> QED BY <1>2, <1>7, <2>1 DEF AttemptInv
<1> QED
  BY <1>3, <1>4, <1>5, <1>6, <1>7, WorkerFrame DEF WorkerSteps

\* In every state that Pipeline can reach the attempts are in time.
THEOREM AttemptInvariant == Spec => []AttemptInv
<1>1. Init => AttemptInv
  BY DEF Init, AttemptInv, Idle
<1>2. /\ Core /\ LineInv /\ AgeInv /\ AttemptInv
      /\ Core' /\ LineInv' /\ AgeInv' /\ [Next]_vars
      => AttemptInv'
  BY AttemptStep, StepCases DEF Core
<1> QED
  BY <1>1, <1>2, CoreInvariant, LineInvariant, AgeInvariant, PTL DEF Spec

\* A plain request that fails again and again holds the only worker no longer than
\* its attempts and their doubling backoffs last (forwarder.py:188-245).
THEOREM AttemptsAlwaysBounded == Spec => []AttemptsAreBounded
<1>1. Core /\ AttemptInv => AttemptsAreBounded
  BY DEF Core, WorkerAt, AttemptInv, AttemptsAreBounded, Limit, LongestSleep
<1> QED
  BY <1>1, CoreInvariant, AttemptInvariant, PTL
-----------------------------------------------------------------------------
(* How many calls the upstream sees. *)

InOrder(cs) == \A i, j \in 1..Len(cs) : i <= j => cs[i] <= cs[j]

\* The calls still in the window are the last of the permits, one by one.
Covered(cs, ts, clock) ==
  \A k \in 0..(Len(cs) - 1) :
    cs[Len(cs) - k] > clock - Window =>
      k < Len(ts) /\ ts[Len(ts) - k] = cs[Len(cs) - k]

\* Positions counted from the end, in a sequence of length n and in what is left
\* of it without its first m elements.
LEMMA FromTheEnd ==
  \A m, n, rest \in Nat : \A k \in 0..(rest - 1) : rest = n - m =>
    rest - k \in 1..rest /\ m + (rest - k) = n - k /\ k \in 0..(n - 1)
OBVIOUS

\* The limiter may forget the permits that have left the window.
LEMMA ForgottenPermits ==
  ASSUME NEW cs \in Seq(Nat), NEW ts \in Seq(Nat), NEW clock \in Nat,
         NEW rest, NEW m, Ends(rest, m, ts), \A i \in 1..m : ts[i] + Window <= clock,
         Covered(cs, ts, clock)
  PROVE  Covered(cs, rest, clock)
<1> USE LimiterAssumption
<1>1. /\ m \in Nat /\ m <= Len(ts) /\ Len(ts) \in Nat /\ Len(rest) = Len(ts) - m
      /\ Len(cs) \in Nat
  BY LenProperties DEF Ends
<1>2. \A i \in 1..Len(rest) : rest[i] = ts[m + i]
  BY DEF Ends
<1> SUFFICES ASSUME NEW k \in 0..(Len(cs) - 1), cs[Len(cs) - k] > clock - Window
             PROVE  k < Len(rest) /\ rest[Len(rest) - k] = cs[Len(cs) - k]
  BY DEF Covered
<1> DEFINE at == cs[Len(cs) - k]
           n  == Len(ts)
<1>3. at \in Nat
  <2>1. Len(cs) - k \in 1..Len(cs)
    BY <1>1
  <2> QED BY <2>1, ElementOfSeq
<1>4. k < n /\ ts[n - k] = at
  BY DEF Covered
<1>5. k < Len(rest)
  <2> SUFFICES ASSUME n - k <= m PROVE FALSE
    BY <1>1
  <2>1. n - k \in 1..m
    BY <1>1, <1>4
  <2>2. ts[n - k] + Window <= clock
    BY <2>1
  <2> HIDE DEF at
  <2>3. at + Window <= clock
    BY <1>4, <2>2
  <2>4. at > clock - Window
    BY DEF at
  <2> QED BY <1>3, <2>3, <2>4
<1>6. Len(rest) - k \in 1..Len(rest) /\ m + (Len(rest) - k) = n - k
  <2> DEFINE left == Len(rest)
  <2>1. left \in Nat /\ left = n - m /\ n \in Nat /\ m \in Nat
    BY <1>1
  <2>2. k \in 0..(left - 1)
    BY <1>1, <1>5, <2>1
  <2> HIDE DEF left, n
  <2>3. left - k \in 1..left /\ m + (left - k) = n - k
    BY <2>1, <2>2, FromTheEnd
  <2> QED BY <2>3 DEF left
<1> QED
  BY <1>2, <1>4, <1>5, <1>6

\* A call and its permit are made at the same time.
LEMMA GrantedCall ==
  ASSUME NEW cs \in Seq(Nat), NEW ts \in Seq(Nat), NEW clock \in Nat,
         Covered(cs, ts, clock)
  PROVE  Covered(Append(cs, clock), Append(ts, clock), clock)
<1> DEFINE ds == Append(cs, clock)
           us == Append(ts, clock)
<1>1. /\ Len(cs) \in Nat /\ Len(ts) \in Nat
      /\ Len(ds) = Len(cs) + 1 /\ Len(us) = Len(ts) + 1
      /\ ds[Len(cs) + 1] = clock /\ us[Len(ts) + 1] = clock
      /\ \A i \in 1..Len(cs) : ds[i] = cs[i]
      /\ \A i \in 1..Len(ts) : us[i] = ts[i]
  BY AppendProperties, LenProperties
<1> HIDE DEF ds, us
<1> SUFFICES ASSUME NEW k \in 0..(Len(ds) - 1), ds[Len(ds) - k] > clock - Window
             PROVE  k < Len(us) /\ us[Len(us) - k] = ds[Len(ds) - k]
  BY DEF Covered, ds, us
<1>2. CASE k = 0
  BY <1>1, <1>2
<1>3. CASE k # 0
  <2> DEFINE j == k - 1
  <2>1. /\ j \in 0..(Len(cs) - 1) /\ Len(ds) - k = Len(cs) - j
        /\ Len(cs) - j \in 1..Len(cs) /\ Len(us) - k = Len(ts) - j
    BY <1>1, <1>3
  <2>2. ds[Len(ds) - k] = cs[Len(cs) - j]
    BY <1>1, <2>1
  <2>3. j < Len(ts) /\ ts[Len(ts) - j] = cs[Len(cs) - j]
    BY <2>1, <2>2 DEF Covered
  <2>4. k < Len(us) /\ Len(ts) - j \in 1..Len(ts)
    BY SMTT(60), <1>1, <2>1, <2>3
  <2> QED BY <1>1, <2>1, <2>2, <2>3, <2>4
<1> QED
  BY <1>2, <1>3

\* What Fresh leaves is the end of the calls, in order; all of it is in the window,
\* so there are no more of them than permits.
LEMMA FreshCalls ==
  ASSUME NEW cs \in Seq(Nat), NEW ts \in Seq(Nat), NEW clock \in Nat,
         InOrder(cs), Covered(cs, ts, clock)
  PROVE  /\ InOrder(Fresh(cs, clock)) /\ Covered(Fresh(cs, clock), ts, clock)
         /\ \A i \in 1..Len(Fresh(cs, clock)) : \E j \in 1..Len(cs) : Fresh(cs, clock)[i] = cs[j]
         /\ Len(Fresh(cs, clock)) <= Len(ts)
<1> USE LimiterAssumption
<1> DEFINE old == {i \in DOMAIN cs : cs[i] <= clock - Window}
           n   == Cardinality(old)
           s   == Fresh(cs, clock)
<1>1. /\ n \in Nat /\ n <= Len(cs) /\ Len(cs) \in Nat /\ s \in Seq(Nat)
      /\ Len(s) = Len(cs) - n /\ \A i \in 1..(Len(cs) - n) : s[i] = cs[n + i]
  BY FreshTypes
<1>2. Len(ts) \in Nat /\ DOMAIN cs = 1..Len(cs)
  BY LenProperties
<1>3. ASSUME n < Len(cs) PROVE cs[n + 1] > clock - Window
  <2> SUFFICES ASSUME cs[n + 1] <= clock - Window PROVE FALSE
    <3>1. n + 1 \in 1..Len(cs)
      BY <1>1, <1>3
    <3>2. cs[n + 1] \in Nat
      BY <3>1, ElementOfSeq
    <3> QED BY <3>2
  <2>1. 1..(n + 1) \subseteq old
    <3> SUFFICES ASSUME NEW i \in 1..(n + 1) PROVE i \in old
      OBVIOUS
    <3>1. i \in 1..Len(cs) /\ n + 1 \in 1..Len(cs) /\ i <= n + 1
      BY SMTT(30), <1>1, <1>3
    <3>2. cs[i] <= cs[n + 1] /\ cs[i] \in Nat /\ cs[n + 1] \in Nat
      BY <3>1, ElementOfSeq DEF InOrder
    <3>3. cs[i] <= clock - Window
      BY <3>2
    <3> QED BY <1>2, <3>1, <3>3
  <2>2. IsFiniteSet(old)
    <3>1. IsFiniteSet(1..Len(cs)) /\ old \subseteq 1..Len(cs)
      BY <1>1, <1>2, FS_Interval
    <3> QED BY <3>1, FS_Subset
  <2>3. Cardinality(1..(n + 1)) = n + 1
    <3> HIDE DEF n
    <3>1. 1 \in Int /\ n + 1 \in Int /\ ~ (1 > n + 1) /\ n + 1 - 1 + 1 = n + 1
      BY <1>1
    <3> QED BY <3>1, FS_Interval
  <2>4. Cardinality(1..(n + 1)) <= n
    BY <2>1, <2>2, FS_Subset
  <2> QED BY <1>1, <2>3, <2>4
<1> HIDE DEF n, s, old
<1>4. InOrder(s)
  <2> SUFFICES ASSUME NEW i \in 1..Len(s), NEW j \in 1..Len(s), i <= j
               PROVE  s[i] <= s[j]
    BY DEF InOrder
  <2>1. /\ i \in 1..(Len(cs) - n) /\ j \in 1..(Len(cs) - n)
        /\ n + i \in 1..Len(cs) /\ n + j \in 1..Len(cs) /\ n + i <= n + j
    BY <1>1
  <2> QED BY <1>1, <2>1 DEF InOrder
<1>5. Covered(s, ts, clock)
  <2> SUFFICES ASSUME NEW k \in 0..(Len(s) - 1), s[Len(s) - k] > clock - Window
               PROVE  k < Len(ts) /\ ts[Len(ts) - k] = s[Len(s) - k]
    BY DEF Covered
  <2>1. /\ Len(s) - k \in 1..(Len(cs) - n) /\ n + (Len(s) - k) = Len(cs) - k
        /\ k \in 0..(Len(cs) - 1)
    BY SMTT(30), <1>1, FromTheEnd
  <2>2. s[Len(s) - k] = cs[Len(cs) - k]
    BY <1>1, <2>1
  <2> QED BY <2>1, <2>2 DEF Covered
<1>6. \A i \in 1..Len(s) : \E j \in 1..Len(cs) : s[i] = cs[j]
  <2> SUFFICES ASSUME NEW i \in 1..Len(s) PROVE \E j \in 1..Len(cs) : s[i] = cs[j]
    OBVIOUS
  <2>1. i \in 1..(Len(cs) - n) /\ n + i \in 1..Len(cs)
    BY <1>1
  <2> QED BY <1>1, <2>1
<1>7. Len(s) <= Len(ts)
  <2>1. CASE n = Len(cs)
    BY <1>1, <1>2, <2>1
  <2>2. CASE n < Len(cs)
    <3> DEFINE k == Len(cs) - n - 1
    <3>1. k \in 0..(Len(cs) - 1) /\ Len(cs) - k = n + 1
      BY <1>1, <2>2
    <3>2. cs[Len(cs) - k] > clock - Window
      BY <1>3, <2>2, <3>1
    <3>3. k < Len(ts)
      BY <3>1, <3>2 DEF Covered
    <3> QED BY <1>1, <1>2, <3>3
  <2> QED BY <1>1, <2>1, <2>2
<1> QED
  BY <1>4, <1>5, <1>6, <1>7 DEF s

\* When nothing is retried every call has a permit of its own.
CallsInv ==
  /\ InOrder(calls)
  /\ \A i \in 1..Len(calls) : calls[i] <= now
  /\ Covered(calls, limiter.timestamps, now)

\* A request that is granted a permit makes one call with it.
LEMMA CallsStep ==
  ASSUME Core, CallsInv, MaxRetries = 0, Steps
  PROVE  CallsInv'
<1> USE LimiterAssumption, NoneAssumption
<1> DEFINE ts == limiter.timestamps
<1>1. /\ now \in Nat /\ calls \in Seq(Nat) /\ limiter \in Limiters
      /\ ts \in Seq(Nat) /\ Len(ts) <= Rpm /\ limiter.last \in Nat \cup {None}
      /\ Len(calls) \in Nat /\ now <= now
  BY TypeParts, PipelineAssumption, LenProperties DEF Core, Limiters, WindowBounded
<1>2. InOrder(calls) /\ (\A i \in 1..Len(calls) : calls[i] <= now) /\ Covered(calls, ts, now)
  BY DEF CallsInv
<1>3. ~ Retry
  <2>1. worker.pc = "backoff" => worker.count < MaxRetries /\ worker.count \in Nat
    BY TypeParts DEF Core, WorkerAt, Workers
  <2> QED BY <2>1 DEF Retry
<1>4. ASSUME NEW r, NEW prev, Acquire(r, prev), UNCHANGED now PROVE CallsInv'
  <2> DEFINE p == TryAcquire(ts, limiter.last, now, now)
  <2>1. limiter'.timestamps = p.timestamps
    BY <1>4 DEF Acquire
  <2>2. IF p.granted THEN calls' = Append(Fresh(calls, now), now) ELSE calls' = calls
    BY <1>4 DEF Acquire, Call, Recent
  <2> HIDE DEF ts
  <2>3. /\ p.granted \in BOOLEAN
        /\ p.last = IF p.granted THEN now ELSE limiter.last
        /\ p.wait \in Nat
        /\ \E rest, m :
             /\ Ends(rest, m, ts)
             /\ \A i \in 1..m : ts[i] + Window <= now
             /\ p.timestamps = IF p.granted THEN Append(rest, now) ELSE rest
             /\ p.granted => Len(rest) < Rpm /\ IntervalWait(limiter.last, now) = 0
    BY <1>1, TryAcquireEffect
  <2> HIDE DEF p
  <2>4. PICK rest, m :
             /\ Ends(rest, m, ts)
             /\ \A i \in 1..m : ts[i] + Window <= now
             /\ p.timestamps = IF p.granted THEN Append(rest, now) ELSE rest
    BY <2>3
  <2>5. Covered(calls, rest, now) /\ rest \in Seq(Nat)
    BY <1>1, <1>2, <2>4, ForgottenPermits DEF Ends
  <2>6. CASE ~ p.granted
    <3>1. limiter'.timestamps = rest /\ calls' = calls
      BY <2>1, <2>2, <2>4, <2>6
    <3> QED BY <1>2, <1>4, <2>5, <3>1 DEF CallsInv
  <2>7. CASE p.granted
    <3> DEFINE s == Fresh(calls, now)
    <3>1. limiter'.timestamps = Append(rest, now) /\ calls' = Append(s, now)
      BY <2>1, <2>2, <2>4, <2>7
    <3>2. s \in Seq(Nat)
      BY <1>1, FreshTypes
    <3>3. /\ InOrder(s) /\ Covered(s, rest, now)
          /\ \A i \in 1..Len(s) : \E j \in 1..Len(calls) : s[i] = calls[j]
      BY <1>1, <1>2, <2>5, FreshCalls
    <3> HIDE DEF s
    <3>4. \A i \in 1..Len(s) : s[i] <= now
      BY <1>2, <3>3
    <3>5. Covered(Append(s, now), Append(rest, now), now)
      BY <1>1, <2>5, <3>2, <3>3, GrantedCall
    <3>6. /\ Len(s) \in Nat /\ Len(Append(s, now)) = Len(s) + 1
          /\ \A i \in 1..Len(s) : Append(s, now)[i] = s[i]
          /\ Append(s, now)[Len(s) + 1] = now
      BY <1>1, <3>2, AppendProperties, LenProperties
    <3>7. ASSUME NEW i \in 1..(Len(s) + 1)
          PROVE  /\ Append(s, now)[i] <= now
                 /\ (i \in 1..Len(s) /\ Append(s, now)[i] = s[i]) \/ i = Len(s) + 1
      <4>1. i \in 1..Len(s) \/ i = Len(s) + 1
        <5>1. Len(s) \in Nat
          BY <3>6
        <5> QED BY <5>1
      <4> QED BY <1>1, <3>4, <3>6, <4>1
    <3>8. InOrder(Append(s, now))
      <4> SUFFICES ASSUME NEW i \in 1..(Len(s) + 1), NEW j \in 1..(Len(s) + 1), i <= j
                   PROVE  Append(s, now)[i] <= Append(s, now)[j]
        BY <3>6 DEF InOrder
      <4>1. CASE j = Len(s) + 1
        BY <3>6, <3>7, <4>1
      <4>2. CASE j # Len(s) + 1
        <5>1. j \in 1..Len(s) /\ Append(s, now)[j] = s[j]
          BY <3>7, <4>2
        <5>2. i # Len(s) + 1
          BY <3>6, <5>1
        <5>3. i \in 1..Len(s) /\ Append(s, now)[i] = s[i]
          BY <3>7, <5>2
        <5> QED BY <3>3, <5>1, <5>3 DEF InOrder
      <4> QED BY <4>1, <4>2
    <3>9. \A i \in 1..Len(Append(s, now)) : Append(s, now)[i] <= now
      BY <3>6, <3>7
    <3> QED BY <1>4, <3>1, <3>5, <3>8, <3>9 DEF CallsInv
  <2> QED BY <2>6, <2>7
<1>5. CASE Take \/ WakeUp
  BY <1>4, <1>5 DEF Take, WakeUp, clocks
<1>6. CASE UNCHANGED <<limiter, calls>>
  <2>1. now' \in Nat /\ now <= now'
    <3>1. CASE Tick
      BY <1>1, <3>1 DEF Tick
    <3>2. CASE now' = now
      BY <1>1, <3>2
    <3> QED BY <3>1, <3>2, WorkerFrame DEF ClockStep
  <2>2. ASSUME NEW i \in 1..Len(calls) PROVE calls[i] \in Nat /\ calls[i] <= now'
    <3>1. calls[i] \in Nat /\ calls[i] <= now
      BY <1>1, <1>2, ElementOfSeq
    <3> QED BY <1>1, <2>1, <3>1
  <2>3. Covered(calls, ts, now')
    <3> SUFFICES ASSUME NEW k \in 0..(Len(calls) - 1), calls[Len(calls) - k] > now' - Window
                 PROVE  k < Len(ts) /\ ts[Len(ts) - k] = calls[Len(calls) - k]
      BY DEF Covered
    <3>1. Len(calls) - k \in 1..Len(calls)
      BY <1>1
    <3>2. calls[Len(calls) - k] \in Nat
      BY <2>2, <3>1
    <3>3. calls[Len(calls) - k] > now - Window
      BY <1>1, <2>1, <3>2
    <3> QED BY <1>2, <3>3 DEF Covered
  <2> QED BY <1>2, <1>6, <2>2, <2>3 DEF CallsInv
<1> QED
  BY <1>3, <1>5, <1>6, WorkerFrame

\* When nothing is retried the upstream sees at most Rpm calls in any window
\* (rate_limiter.py:38-89, processor.py:288-296).
THEOREM UpstreamAlwaysWithinRpm ==
  ASSUME MaxRetries = 0
  PROVE  Spec => []UpstreamWithinRpm
<1>1. Init => CallsInv
  <2>1. ASSUME Init PROVE CallsInv
    <3>1. Len(<< >>) = 0 /\ 1..0 = {} /\ 0..(0 - 1) = {}
      BY EmptySeq
    <3> QED BY <2>1, <3>1 DEF Init, CallsInv, InOrder, Covered
  <2> QED BY <2>1
<1>2. Core /\ CallsInv /\ [Next]_vars => CallsInv'
  BY CallsStep, StepCases DEF Core
<1>3. Core /\ CallsInv => UpstreamWithinRpm
  <2> SUFFICES ASSUME Core, CallsInv PROVE Len(Recent(calls)) <= Rpm
    BY DEF UpstreamWithinRpm
  <2>1. /\ now \in Nat /\ calls \in Seq(Nat) /\ limiter.timestamps \in Seq(Nat)
        /\ Len(limiter.timestamps) <= Rpm
    BY TypeParts, PipelineAssumption DEF Core, Limiters, WindowBounded
  <2>2. Len(Fresh(calls, now)) <= Len(limiter.timestamps)
    BY <2>1, FreshCalls DEF CallsInv
  <2>3. Len(Fresh(calls, now)) \in Nat /\ Len(limiter.timestamps) \in Nat
    <3>1. Fresh(calls, now) \in Seq(Nat)
      BY <2>1, FreshTypes
    <3> QED BY <2>1, <3>1, LenProperties
  <2> QED BY <2>1, <2>2, <2>3, LimiterAssumption DEF Recent
<1> QED
  BY <1>1, <1>2, <1>3, CoreInvariant, PTL DEF Spec
=============================================================================
