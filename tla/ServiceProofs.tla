---------------------------- MODULE ServiceProofs ----------------------------
(***************************************************************************)
(* Pipeline implements RequestService, for every value of the constants:   *)
(* whatever the timers, the limiter, the breaker and the retries do, every *)
(* step is a step of the service, or changes nothing that a client of the  *)
(* service can see.                                                        *)
(***************************************************************************)
EXTENDS OutcomeProofs

-----------------------------------------------------------------------------
(* What a client sees of a stream. *)

Told == {"done"} \cup Exceptions

\* The answer of a stream whose reader is in state told, and whose handle is h.
Says(told, h) ==
  CASE told \in {"none", "refused", "gone"} -> told
    [] told = "done"                        -> "ok"
    [] told \in Exceptions                  -> told
    [] told \in {"unread", "reading"} ->
         IF ~ h.closed THEN "pending" ELSE IF LastItem(h) = "end" THEN "ok" ELSE LastItem(h)

\* The cases of Says apart.
LEMMA SaysCases ==
  ASSUME NEW told, NEW h
  PROVE  /\ told \in {"none", "refused", "gone"} => Says(told, h) = told
         /\ told = "done" => Says(told, h) = "ok"
         /\ told \in Exceptions => Says(told, h) = told
         /\ told \in {"unread", "reading"} =>
              Says(told, h) = IF ~ h.closed THEN "pending"
                              ELSE IF LastItem(h) = "end" THEN "ok" ELSE LastItem(h)
<1>1. /\ "none" \notin Exceptions /\ "refused" \notin Exceptions
      /\ "gone" \notin Exceptions /\ "done" \notin Exceptions
      /\ "unread" \notin Exceptions /\ "reading" \notin Exceptions
  BY DEF Exceptions
<1> QED
  BY <1>1 DEF Says

\* The end that the worker gives a stream reaches the client that waits for it.
LEMMA EndReaches ==
  ASSUME NEW h \in Handles(Items), NEW told, HandleSound(h, told, TRUE),
         told \in Readers \ {"none", "refused"}, NEW e \in Exceptions
  PROVE  /\ Says(told, Close(h)) = IF Says(told, h) = "pending" THEN "ok" ELSE Says(told, h)
         /\ Says(told, Close(PutError(h, e)))
              = IF Says(told, h) = "pending" THEN e ELSE Says(told, h)
<1>1. /\ EndsLast(h)
      /\ h.closed => h.cancelled
      /\ h.cancelled => told = "gone"
      /\ h.closed <=> told \in Told \/ h.cancelled \/ Ended(h)
      /\ h.closed \in BOOLEAN /\ h.cancelled \in BOOLEAN
  BY DEF HandleSound, Told, Handles
<1>2. told \in {"unread", "reading", "gone"}
  <2>1. "gone" \notin Told
    BY DEF Told, Exceptions
  <2>2. told \notin Told
    BY <1>1, <2>1
  <2> QED BY <2>2 DEF Told, Readers
<1>3. CASE told = "gone"
  BY <1>3, SaysCases
<1>4. CASE told \in {"unread", "reading"}
  <2>1. ~ h.closed /\ ~ Ended(h) /\ EndsLast(h)
    BY <1>1, <1>4 DEF HandleSound
  <2>2. /\ Close(h).closed = TRUE /\ LastItem(Close(h)) = "end"
        /\ PutError(h, e).closed = TRUE /\ LastItem(PutError(h, e)) = e
        /\ Close(PutError(h, e)) = PutError(h, e)
    <3>1. /\ Close(h).closed = TRUE /\ PutError(h, e).closed = TRUE
          /\ Close(PutError(h, e)) = PutError(h, e)
      BY CloseEffect
    <3>2. LastItem(Close(h)) = "end" /\ LastItem(PutError(h, e)) = e
      BY <2>1, CloseEffect, ErrorIsLast
    <3> QED BY <3>1, <3>2
  <2>3. e # "end"
    BY DEF Exceptions
  <2> QED BY <1>4, <2>1, <2>2, <2>3, SaysCases
<1> QED
  BY <1>2, <1>3, <1>4

\* A chunk tells the client nothing that the service speaks of.
LEMMA ChunkIsHidden ==
  ASSUME NEW h \in Handles(Items), NEW told \in Readers
  PROVE  Says(told, PutChunk(h)) = Says(told, h)
<1>1. PutChunk(h).closed = h.closed /\ (h.closed => PutChunk(h) = h)
  BY PutChunkEffect
<1>2. told \in {"none", "refused", "gone", "done"} \cup Exceptions \cup {"unread", "reading"}
  BY DEF Readers
<1> QED
  BY <1>1, <1>2, SaysCases

\* What the reader takes from the handle is what the service has answered.
LEMMA ReadAgrees ==
  ASSUME NEW h \in Handles(Items), HandleSound(h, "reading", FALSE) \/ HandleSound(h, "reading", TRUE),
         h.items # << >>
  PROVE  LET g == [h EXCEPT !.items = Tail(@)]
             top == Head(h.items)
         IN  /\ top = "chunk" => Says("reading", g) = Says("reading", h)
             /\ top = "end"   => Says("reading", h) = "ok"
             /\ top \notin {"chunk", "end"} => top \in Exceptions /\ Says("reading", h) = top
<1> DEFINE g == [h EXCEPT !.items = Tail(@)]
           top == Head(h.items)
<1>1. /\ EndsLast(h) /\ ~ h.cancelled /\ (h.closed <=> Ended(h))
      /\ h.closed \in BOOLEAN
  BY DEF HandleSound, Handles, Exceptions
<1>2. /\ top \in Items /\ g.closed = h.closed
      /\ top = "chunk" => (Ended(g) <=> Ended(h))
      /\ top # "chunk" => Ended(h)
      /\ Ended(g) => LastItem(g) = LastItem(h)
      /\ top # "chunk" => LastItem(h) = top
  BY <1>1, TakeItem
<1> HIDE DEF g, top
<1>3. top = "chunk" => Says("reading", g) = Says("reading", h)
  BY <1>1, <1>2, SaysCases
<1>4. top \notin {"chunk", "end"} => top \in Exceptions
  BY <1>2 DEF Items
<1>5. top # "chunk" => Says("reading", h) = IF top = "end" THEN "ok" ELSE top
  BY <1>1, <1>2, SaysCases
<1> QED
  BY <1>3, <1>4, <1>5 DEF g, top

\* Whose end has not been read yet waits for it, or has an outcome to read.
LEMMA UnreadSays ==
  ASSUME NEW h \in Handles(Items), NEW owed, NEW told \in {"unread", "reading"},
         HandleSound(h, told, owed)
  PROVE  Says(told, h) \in {"pending", "ok"} \cup Exceptions
<1>1. told \notin Told /\ ~ h.cancelled /\ told # "gone"
  BY DEF HandleSound, Told, Exceptions
<1>2. CASE h.closed
  <2>1. Ended(h)
    BY <1>1, <1>2 DEF HandleSound, Told
  <2>2. h.items \in Seq(Items) /\ h.items # << >>
    BY <2>1 DEF Handles, Ended
  <2>3. LastItem(h) \in Items
    <3>1. Len(h.items) \in Nat /\ Len(h.items) # 0
      BY <2>2, LenProperties, EmptySeq
    <3>2. Len(h.items) \in 1..Len(h.items)
      BY <3>1
    <3> QED BY <2>2, <3>2, ElementOfSeq DEF LastItem
  <2>4. LastItem(h) # "chunk"
    BY <2>1 DEF Ended, LastItem
  <2> QED BY <1>2, <2>3, <2>4, SaysCases DEF Items
<1>3. CASE ~ h.closed
  BY <1>3, SaysCases
<1> QED
  BY <1>2, <1>3

-----------------------------------------------------------------------------
(* The state of the service. *)

answers == [r \in Requests |-> Answer(r)]
hearers == {r \in Streams : Heard(r)}

Outcomes == {"ok"} \cup Exceptions

\* What a client has been given depends on its own Future, or its own stream.
LEMMA AnswerOf ==
  ASSUME NEW r \in Requests
  PROVE  /\ r \in Plain => Answer(r) = PlainAnswer(r) /\ Answer(r)' = PlainAnswer(r)'
         /\ r \in Streams =>
              /\ Answer(r) = Says(reader[r], handle[r])
              /\ Answer(r)' = Says(reader'[r], handle'[r])
<1>1. ~ (r \in Plain /\ r \in Streams)
  BY PipelineAssumption
<1> QED
  BY <1>1 DEF Answer, StreamAnswer, Says, LastItem

\* A client whose Future, or whose stream, is left alone has the answer it had.
LEMMA AnswerStays ==
  ASSUME NEW r \in Requests,
         r \in Plain => future'[r] = future[r],
         r \in Streams => reader'[r] = reader[r] /\ handle'[r] = handle[r]
  PROVE  Answer(r)' = Answer(r)
BY AnswerOf DEF PlainAnswer, Requests

\* One answer changes, or none.
LEMMA AnswersMove ==
  ASSUME NEW q \in Requests, NEW v, Answer(q)' = v,
         \A r \in Requests \ {q} : Answer(r)' = Answer(r)
  PROVE  answers' = [answers EXCEPT ![q] = v]
BY DEF answers

\* When the answer of every client is what it was, so are all of them together.
LEMMA AnswersStay ==
  ASSUME \A r \in Requests : Answer(r)' = Answer(r)
  PROVE  answers' = answers
BY DEF answers

\* What the worker decides for a request reaches the client that still waits
\* for it, and changes nothing for a client that has left.
LEMMA OutcomeReaches ==
  ASSUME Core, LineInv, FuturesInv, HandleInv, worker.pc # "stopped",
         NEW q \in Owed, NEW o \in Outcomes, UNCHANGED reader,
         \/ /\ q \in Plain /\ Resolve(q, IF o = "ok" THEN "result" ELSE o)
            /\ UNCHANGED handle
         \/ /\ q \in Streams /\ UNCHANGED future
            /\ \/ o = "ok" /\ handle' = [handle EXCEPT ![q] = Close(@)]
               \/ o \in Exceptions /\ handle' = [handle EXCEPT ![q] = Close(PutError(@, o))]
  PROVE  answers' = IF answers[q] = "pending" THEN [answers EXCEPT ![q] = o] ELSE answers
<1> USE PipelineAssumption
<1>1. /\ q \in Requests /\ answers[q] = Answer(q)
      /\ future \in [Plain -> Futures] /\ handle \in [Streams -> Handles(Items)]
      /\ reader \in [Streams -> Readers]
  BY TypeParts DEF Core, Owed, answers
<1>2. ASSUME NEW r \in Requests \ {q} PROVE Answer(r)' = Answer(r)
  <2>1. r \in Plain => future'[r] = future[r]
    BY <1>1, <1>2 DEF Resolve
  <2>2. r \in Streams => reader'[r] = reader[r] /\ handle'[r] = handle[r]
    BY <1>1, <1>2
  <2> QED BY <2>1, <2>2, AnswerStays
<1>3. Answer(q)' = IF Answer(q) = "pending" THEN o ELSE Answer(q)
  <2>1. CASE q \in Plain
    <3>1. q \in registered /\ q \notin Streams
      BY <2>1 DEF FuturesInv
    <3>2. future' = IF future[q] = "pending"
                    THEN [future EXCEPT ![q] = IF o = "ok" THEN "result" ELSE o]
                    ELSE future
      BY <2>1, <3>1 DEF Resolve
    <3>3. o \notin {"cancelled", "result"}
      BY DEF Outcomes, Exceptions
    <3>4. PlainAnswer(q)' = IF PlainAnswer(q) = "pending" THEN o ELSE PlainAnswer(q)
      BY <1>1, <2>1, <3>2, <3>3 DEF PlainAnswer
    <3> QED BY <1>1, <2>1, <3>4, AnswerOf
  <2>2. CASE q \in Streams
    <3> DEFINE h == handle[q]
               told == reader[q]
    <3>1. h \in Handles(Items) /\ told \in Readers \ {"none", "refused"} /\ q \notin Plain
      BY <1>1, <2>2 DEF LineInv
    <3>2. HandleSound(h, told, TRUE)
      BY <2>2 DEF HandleInv, HandleSound
    <3> HIDE DEF h, told
    <3>3. "Other" \in Exceptions
      BY DEF Exceptions
    <3>4. CASE o = "ok" /\ handle' = [handle EXCEPT ![q] = Close(@)]
      <4>1. handle'[q] = Close(h) /\ reader'[q] = told
        BY <1>1, <2>2, <3>4 DEF h, told
      <4>2. Says(told, Close(h)) = IF Says(told, h) = "pending" THEN "ok" ELSE Says(told, h)
        BY <3>1, <3>2, <3>3, EndReaches
      <4> QED BY <1>1, <2>2, <3>4, <4>1, <4>2, AnswerOf DEF h, told
    <3>5. CASE o \in Exceptions /\ handle' = [handle EXCEPT ![q] = Close(PutError(@, o))]
      <4>1. handle'[q] = Close(PutError(h, o)) /\ reader'[q] = told
        BY <1>1, <2>2, <3>5 DEF h, told
      <4>2. Says(told, Close(PutError(h, o)))
              = IF Says(told, h) = "pending" THEN o ELSE Says(told, h)
        BY <3>1, <3>2, <3>5, EndReaches
      <4> QED BY <1>1, <2>2, <4>1, <4>2, AnswerOf DEF h, told
    <3> QED BY <3>1, <3>4, <3>5
  <2> QED BY <1>1, <2>1, <2>2 DEF Requests
<1>4. CASE Answer(q) = "pending"
  BY <1>1, <1>2, <1>3, <1>4, AnswersMove
<1>5. CASE Answer(q) # "pending"
  <2>1. \A r \in Requests : Answer(r)' = Answer(r)
    BY <1>2, <1>3, <1>5
  <2> QED BY <1>1, <1>5, <2>1, AnswersStay
<1> QED
  BY <1>4, <1>5

-----------------------------------------------------------------------------
(* The steps of the service. *)

\* What must hold of the pipeline for its steps to be steps of the service.
Ground == Core /\ LineInv /\ FuturesInv /\ HandleInv

\* The mapped variables that the worker moves.
serviceWork == <<phase.name, queue, worker.req, worker.pc \in Upstream>>

\* A step that changes nothing that the service speaks of.
LEMMA StutterCase ==
  ASSUME UNCHANGED serviceWork, answers' = answers, hearers' = hearers
  PROVE  UNCHANGED Service!serviceVars
BY DEF serviceWork, answers, hearers, Service!serviceVars

\* submit() admits or refuses.
LEMMA SubmitCase ==
  ASSUME Ground, NEW r \in Plain, Submit(r)
  PROVE  Service!ServiceNext
<1> USE PipelineAssumption
<1>1. /\ r \in Requests /\ r \notin Streams /\ answers[r] = Answer(r)
      /\ future \in [Plain -> Futures]
  BY TypeParts DEF Ground, Core, Requests, answers
<1>2. future[r] = "none" /\ UNCHANGED <<handle, reader>>
      /\ UNCHANGED <<phase, worker>>
  BY DEF Submit, Accept
<1>3. answers[r] = "none"
  BY <1>1, <1>2, AnswerOf DEF PlainAnswer
<1>4. hearers' = hearers
  BY <1>2 DEF hearers, Heard
<1>5. ASSUME NEW v \in {"pending", "refused"}, future' = [future EXCEPT ![r] = v]
      PROVE  answers' = [answers EXCEPT ![r] = v]
  <2>1. \A q \in Requests \ {r} : Answer(q)' = Answer(q)
    BY <1>1, <1>2, <1>5, AnswerStays
  <2>2. Answer(r)' = v
    BY <1>1, <1>5, AnswerOf DEF PlainAnswer
  <2> QED BY <1>1, <2>1, <2>2, AnswersMove
<1>6. CASE Accepting
  <2>1. /\ queue' = Append(queue, r) /\ future' = [future EXCEPT ![r] = "pending"]
        /\ phase.name = "serving" /\ Len(queue) < QueueMax
    BY <1>6 DEF Submit, Accept, Accepting, ShuttingDown
  <2>2. answers' = [answers EXCEPT ![r] = "pending"]
    BY <1>5, <2>1
  <2>3. Service!Admit(r)
    BY <1>2, <1>3, <1>4, <2>1, <2>2 DEF Service!Admit, Service!Open, answers, hearers
  <2> QED BY <1>1, <2>3 DEF Service!ServiceNext, Service!Requests, Requests
<1>7. CASE ~ Accepting
  <2>1. /\ UNCHANGED queue /\ future' = [future EXCEPT ![r] = "refused"]
        /\ ~ (phase.name = "serving" /\ Len(queue) < QueueMax)
    BY <1>7 DEF Submit, Accepting, ShuttingDown
  <2>2. answers' = [answers EXCEPT ![r] = "refused"]
    BY <1>5, <2>1
  <2>3. Service!Refuse(r)
    BY <1>2, <1>3, <1>4, <2>1, <2>2 DEF Service!Refuse, Service!Open, answers, hearers
  <2> QED BY <1>1, <2>3 DEF Service!ServiceNext, Service!Requests, Requests
<1> QED
  BY <1>6, <1>7

\* submit_stream() admits or refuses.
LEMMA SubmitStreamCase ==
  ASSUME Ground, NEW r \in Streams, SubmitStream(r)
  PROVE  Service!ServiceNext
<1> USE PipelineAssumption
<1>1. /\ r \in Requests /\ r \notin Plain /\ answers[r] = Answer(r)
      /\ reader \in [Streams -> Readers]
  BY TypeParts DEF Ground, Core, Requests, answers
<1>2. reader[r] = "none" /\ UNCHANGED <<future, handle>>
      /\ UNCHANGED <<phase, worker>>
  BY DEF SubmitStream, Accept, outcomeVars
<1>3. answers[r] = "none"
  BY <1>1, <1>2, AnswerOf, SaysCases
<1>4. handle[r].closed = FALSE
  BY <1>2 DEF Ground, HandleInv, LineInv, NewHandle
<1>5. ASSUME NEW v \in {"unread", "refused"}, reader' = [reader EXCEPT ![r] = v]
      PROVE  /\ answers' = [answers EXCEPT ![r] = IF v = "unread" THEN "pending" ELSE v]
             /\ hearers' = hearers
  <2>1. \A q \in Requests \ {r} : Answer(q)' = Answer(q)
    BY <1>1, <1>2, <1>5, AnswerStays
  <2>2. Answer(r)' = IF v = "unread" THEN "pending" ELSE v
    <3>1. reader'[r] = v /\ handle'[r] = handle[r]
      BY <1>1, <1>2, <1>5
    <3>2. Answer(r)' = Says(v, handle[r])
      BY <1>1, <3>1, AnswerOf
    <3> QED BY <1>4, <3>2, SaysCases
  <2>3. "none" \notin Exceptions /\ "unread" \notin Exceptions /\ "refused" \notin Exceptions
    BY DEF Exceptions
  <2>4. hearers' = hearers
    BY <1>1, <1>2, <1>5, <2>3 DEF hearers, Heard
  <2> QED BY <1>1, <2>1, <2>2, <2>4, AnswersMove
<1>6. CASE Accepting
  <2>1. /\ queue' = Append(queue, r) /\ reader' = [reader EXCEPT ![r] = "unread"]
        /\ phase.name = "serving" /\ Len(queue) < QueueMax
    BY <1>6 DEF SubmitStream, Accept, Accepting, ShuttingDown
  <2>2. answers' = [answers EXCEPT ![r] = "pending"] /\ hearers' = hearers
    BY <1>5, <2>1
  <2>3. Service!Admit(r)
    BY <1>2, <1>3, <2>1, <2>2 DEF Service!Admit, Service!Open, answers, hearers
  <2> QED BY <1>1, <2>3 DEF Service!ServiceNext, Service!Requests, Requests
<1>7. CASE ~ Accepting
  <2>1. /\ UNCHANGED queue /\ reader' = [reader EXCEPT ![r] = "refused"]
        /\ ~ (phase.name = "serving" /\ Len(queue) < QueueMax)
    BY <1>7 DEF SubmitStream, Accepting, ShuttingDown
  <2>2. answers' = [answers EXCEPT ![r] = "refused"] /\ hearers' = hearers
    BY <1>5, <2>1
  <2>3. Service!Refuse(r)
    BY <1>2, <1>3, <2>1, <2>2 DEF Service!Refuse, Service!Open, answers, hearers
  <2> QED BY <1>1, <2>3 DEF Service!ServiceNext, Service!Requests, Requests
<1> QED
  BY <1>6, <1>7

\* The handler of a plain request gives up.
LEMMA TimeoutCase ==
  ASSUME Ground, NEW r \in Plain, ClientTimeout(r)
  PROVE  Service!ServiceNext
<1> USE PipelineAssumption
<1>1. /\ r \in Requests /\ r \notin Streams /\ answers[r] = Answer(r)
      /\ future \in [Plain -> Futures]
  BY TypeParts DEF Ground, Core, Requests, answers
<1>2. /\ future[r] = "pending" /\ future' = [future EXCEPT ![r] = "cancelled"]
      /\ UNCHANGED <<handle, reader, phase, worker, queue>>
  BY DEF ClientTimeout, ingressVars
<1>3. answers[r] = "pending" /\ Answer(r)' = "gone"
  BY <1>1, <1>2, AnswerOf DEF PlainAnswer
<1>4. \A q \in Requests \ {r} : Answer(q)' = Answer(q)
  BY <1>1, <1>2, AnswerStays
<1>5. answers' = [answers EXCEPT ![r] = "gone"]
  BY <1>1, <1>3, <1>4, AnswersMove
<1>6. hearers' = hearers
  BY <1>2 DEF hearers, Heard
<1>7. Service!Abandon(r)
  BY <1>2, <1>3, <1>5, <1>6 DEF Service!Abandon, answers, hearers
<1> QED
  BY <1>1, <1>7 DEF Service!ServiceNext, Service!Requests, Requests

\* What the generator of one response does: it starts, reads, or is abandoned.
LEMMA ReaderCase ==
  ASSUME Ground, NEW r \in Streams,
         StartReading(r) \/ Read(r) \/ Disconnect(r) \/ DisconnectEarly(r)
  PROVE  Service!ServiceNext \/ UNCHANGED Service!serviceVars
<1> USE PipelineAssumption
<1> DEFINE h == handle[r]
<1>1. /\ r \in Requests /\ r \notin Plain /\ answers[r] = Answer(r)
      /\ handle \in [Streams -> Handles(Items)] /\ reader \in [Streams -> Readers]
      /\ h \in Handles(Items) /\ answers[r] = Says(reader[r], h)
  BY TypeParts, AnswerOf DEF Ground, Core, Requests, answers
<1>2. /\ UNCHANGED <<future, phase, worker, queue>> /\ UNCHANGED serviceWork
      /\ reader[r] \in {"unread", "reading"}
  BY DEF StartReading, Read, Disconnect, DisconnectEarly, readerStep, serviceWork
<1>3. HandleSound(h, reader[r], FALSE) \/ HandleSound(h, reader[r], TRUE)
  BY DEF Ground, HandleInv, HandleSound
<1>4. "unread" \notin Told /\ "reading" \notin Told /\ "gone" \notin Told
  BY DEF Told, Exceptions
<1>5. r \notin hearers /\ \A q : q \in hearers <=> q \in Streams /\ reader[q] \in Told
  BY <1>2, <1>4 DEF hearers, Heard, Told
<1>6. \A q : q \in hearers' <=> q \in Streams /\ reader'[q] \in Told
  BY DEF hearers, Heard, Told
<1> HIDE DEF h
<1>7. answers[r] \in {"pending", "ok"} \cup Exceptions
  <2>1. Says(reader[r], h) \in {"pending", "ok"} \cup Exceptions
    BY <1>1, <1>2, <1>3, UnreadSays
  <2> QED BY <1>1, <2>1
<1>8. ASSUME NEW g, NEW told, handle' = [handle EXCEPT ![r] = g],
             reader' = [reader EXCEPT ![r] = told]
      PROVE  /\ \A q \in Requests \ {r} : Answer(q)' = Answer(q)
             /\ Answer(r)' = Says(told, g)
             /\ told \notin Told => hearers' = hearers
             /\ told \in Told => hearers' = hearers \cup {r}
  <2>1. \A q \in Requests \ {r} : Answer(q)' = Answer(q)
    BY <1>1, <1>2, <1>8, AnswerStays
  <2>2. Answer(r)' = Says(told, g)
    <3>1. handle'[r] = g /\ reader'[r] = told
      BY <1>1, <1>8
    <3> QED BY <1>1, <3>1, AnswerOf
  <2>3. reader'[r] = told /\ \A q \in Streams \ {r} : reader'[q] = reader[q]
    BY <1>1, <1>8
  <2> QED BY <1>1, <1>5, <1>6, <2>1, <2>2, <2>3
<1>9. UNCHANGED handle => handle' = [handle EXCEPT ![r] = h]
  BY <1>1 DEF h
<1>10. CASE StartReading(r)
  <2>1. /\ reader[r] = "unread" /\ handle' = [handle EXCEPT ![r] = h]
        /\ reader' = [reader EXCEPT ![r] = "reading"]
    BY <1>9, <1>10 DEF StartReading
  <2>2. Says("reading", h) = Says("unread", h)
    BY SaysCases
  <2>3. answers' = answers /\ hearers' = hearers
    BY <1>1, <1>4, <1>8, <2>1, <2>2, AnswersStay
  <2> QED BY <1>2, <2>3, StutterCase
<1>11. CASE Disconnect(r) \/ DisconnectEarly(r)
  <2>1. PICK g : /\ handle' = [handle EXCEPT ![r] = g]
                 /\ reader' = [reader EXCEPT ![r] = "gone"]
    BY <1>9, <1>11 DEF Disconnect, DisconnectEarly
  <2>2. Says("gone", g) = "gone"
    BY SaysCases
  <2>3. answers' = [answers EXCEPT ![r] = "gone"] /\ hearers' = hearers
    BY <1>1, <1>4, <1>8, <2>1, <2>2, AnswersMove
  <2>4. Service!Abandon(r)
    BY <1>2, <1>5, <1>7, <2>3
       DEF Service!Abandon, Service!Outcomes, answers, hearers
  <2> QED BY <1>1, <2>4 DEF Service!ServiceNext, Service!Requests, Requests
<1>12. CASE Read(r)
  <2> DEFINE top == Head(h.items)
             g   == [h EXCEPT !.items = Tail(@)]
             told == CASE top = "chunk" -> "reading" [] top = "end" -> "done" [] OTHER -> top
  <2>1. /\ reader[r] = "reading" /\ h.items # << >>
        /\ reader' = [reader EXCEPT ![r] = told]
    BY <1>12 DEF Read, h
  <2>2. handle' = [handle EXCEPT ![r] = g]
    BY <1>1, <1>12 DEF Read, h
  <2>3. /\ top = "chunk" => Says("reading", g) = Says("reading", h)
        /\ top = "end" => Says("reading", h) = "ok"
        /\ top \notin {"chunk", "end"} => top \in Exceptions /\ Says("reading", h) = top
    BY <1>1, <1>3, <2>1, ReadAgrees
  <2>4. /\ top = "chunk" => told = "reading"
        /\ top # "chunk" => told \in Told
        /\ top = "end" => told = "done"
        /\ top \notin {"chunk", "end"} => told = top
    BY <2>3 DEF Told
  <2> HIDE DEF top, g, told
  <2>5. Says(told, g) = answers[r]
    BY <1>1, <2>1, <2>3, <2>4, SaysCases
  <2>6. answers' = answers
    BY <1>1, <1>8, <2>1, <2>2, <2>5, AnswersStay
  <2>7. CASE top = "chunk"
    <3>1. hearers' = hearers
      BY <1>4, <1>8, <2>1, <2>2, <2>4, <2>7
    <3> QED BY <1>2, <2>6, <3>1, StutterCase
  <2>8. CASE top # "chunk"
    <3>1. hearers' = hearers \cup {r}
      BY <1>8, <2>1, <2>2, <2>4, <2>8
    <3>2. answers[r] \in Outcomes
      BY <1>1, <2>1, <2>3, <2>8 DEF Outcomes
    <3>3. Service!Hear(r)
      BY <1>2, <1>5, <2>6, <3>1, <3>2
         DEF Service!Hear, Service!Outcomes, Outcomes, answers, hearers
    <3> QED BY <3>3 DEF Service!ServiceNext
  <2> QED BY <2>7, <2>8
<1> QED
  BY <1>10, <1>11, <1>12

\* The worker drops the head of the line, or takes it in hand.
LEMMA LineCase ==
  ASSUME Ground, Drop \/ Take
  PROVE  Service!ServiceNext
<1> USE PipelineAssumption
<1>1. /\ worker.pc = "idle" /\ worker.req = None /\ phase.name # "stopped"
      /\ queue # << >> /\ queue' = Tail(queue) /\ UNCHANGED <<reader, phase>>
      /\ queue \in Seq(Requests)
  BY TypeParts DEF Ground, Core, WorkerAt, Drop, Take
<1>2. hearers' = hearers
  BY <1>1 DEF hearers, Heard
<1>3. CASE Drop
  <2>1. PICK e \in Exceptions :
          /\ e \in {"Timeout", "ServiceUnavailableError"}
          /\ IF Head(queue) \in Streams
             THEN /\ handle' = [handle EXCEPT ![Head(queue)] = Close(PutError(@, e))]
                  /\ UNCHANGED <<future, registered>>
             ELSE Resolve(Head(queue), e) /\ UNCHANGED handle
    <3>1. FailureExceptions \subseteq Exceptions
      BY DEF FailureExceptions, Exceptions
    <3> QED BY <1>3, <3>1 DEF Drop, Reject
  <2>2. Head(queue) \in Owed
    <3>1. Head(queue) \in Requests /\ Within(queue, Head(queue))
      BY <1>1, TailOfLine DEF Ground, LineInv
    <3> QED BY <3>1 DEF Owed, InQueue, Within
  <2>3. e # "ok" /\ e \in Outcomes
    BY DEF Outcomes, Exceptions
  <2>4. answers' = IF answers[Head(queue)] = "pending"
                   THEN [answers EXCEPT ![Head(queue)] = e] ELSE answers
    BY <1>1, <2>1, <2>2, <2>3, OutcomeReaches DEF Ground, Owed, Requests
  <2>5. worker' = worker
    BY <1>3 DEF Drop
  <2>6. Service!Take
    BY <1>1, <1>2, <2>1, <2>4, <2>5
       DEF Service!Take, Service!Answered, Service!LocalErrors, answers, hearers
  <2> QED BY <2>6 DEF Service!ServiceNext
<1>4. CASE Take
  <2>1. UNCHANGED <<future, handle>>
    BY <1>4 DEF Take, outcomeVars
  <2>2. answers' = answers
    BY <1>1, <2>1, AnswerStays, AnswersStay
  <2>3. worker'.req = Head(queue)
    BY <1>4, BusyFields DEF Take, Acquire, Call
  <2>4. (worker'.pc \in Upstream) \in BOOLEAN
    OBVIOUS
  <2>5. Service!Take
    BY <1>1, <1>2, <2>2, <2>3, <2>4 DEF Service!Take, answers, hearers
  <2> QED BY <2>5 DEF Service!ServiceNext
<1> QED
  BY <1>3, <1>4

\* The worker goes on with the request in hand: only the end of the limiter's
\* sleep shows, when the request is sent.
LEMMA WorkCase ==
  ASSUME Ground, WakeUp \/ Retry \/ AttemptRepeats \/ Connect \/ Chunk
  PROVE  Service!ServiceNext \/ UNCHANGED Service!serviceVars
<1> USE PipelineAssumption
<1>1. /\ worker \in Workers /\ handle \in [Streams -> Handles(Items)]
      /\ reader \in [Streams -> Readers]
      /\ worker.pc \in {"connecting", "streaming"} => worker.req \in Streams
      /\ worker.pc \in {"idle", "stopped"} <=> worker.req = None
  BY TypeParts DEF Ground, Core, WorkerAt
<1>2. UNCHANGED <<queue, phase, reader, future>>
  BY DEF WakeUp, Retry, AttemptRepeats, Connect, Chunk, ingressVars, outcomeVars
<1>3. hearers' = hearers
  BY <1>2 DEF hearers, Heard
<1>4. answers' = answers
  <2>1. CASE UNCHANGED handle
    BY <1>2, <2>1, AnswerStays, AnswersStay
  <2>2. CASE Chunk
    <3>1. /\ worker.req \in Streams
          /\ handle' = [handle EXCEPT ![worker.req] = PutChunk(@)]
      BY <1>1, <2>2 DEF Chunk
    <3>2. ASSUME NEW r \in Requests PROVE Answer(r)' = Answer(r)
      <4>1. CASE r \in Streams /\ r = worker.req
        <5>1. handle'[r] = PutChunk(handle[r]) /\ reader'[r] = reader[r]
          BY <1>1, <1>2, <3>1, <4>1
        <5>2. Says(reader[r], PutChunk(handle[r])) = Says(reader[r], handle[r])
          BY <1>1, <4>1, ChunkIsHidden
        <5> QED BY <4>1, <5>1, <5>2, AnswerOf
      <4>2. CASE ~ (r \in Streams /\ r = worker.req)
        BY <1>1, <1>2, <3>1, <4>2, AnswerStays
      <4> QED BY <4>1, <4>2
    <3> QED BY <3>2, AnswersStay
  <2>3. UNCHANGED handle \/ Chunk
    BY DEF WakeUp, Retry, AttemptRepeats, Connect, outcomeVars
  <2> QED BY <2>1, <2>2, <2>3
<1>5. CASE WakeUp
  <2>1. worker.pc = "sleeping" /\ worker.req # None /\ worker'.req = worker.req
    BY <1>1, <1>5, BusyFields DEF WakeUp, Acquire, Call
  <2>2. CASE worker'.pc \in Upstream
    <3>1. Service!Send
      BY <1>2, <1>3, <1>4, <2>1, <2>2 DEF Service!Send, Upstream, answers, hearers
    <3> QED BY <3>1 DEF Service!ServiceNext
  <2>3. CASE worker'.pc \notin Upstream
    <3>1. UNCHANGED serviceWork
      BY <1>2, <2>1, <2>3 DEF serviceWork, Upstream
    <3> QED BY <1>3, <1>4, <3>1, StutterCase
  <2> QED BY <2>2, <2>3
<1>6. CASE Retry \/ AttemptRepeats \/ Connect \/ Chunk
  <2>1. worker.pc \in Upstream /\ worker'.pc \in Upstream /\ worker'.req = worker.req
    <3>1. CASE Retry \/ AttemptRepeats \/ Connect
      BY <3>1, BusyFields DEF Retry, Call, AttemptRepeats, Connect, Upstream
    <3>2. CASE Chunk
      BY <1>1, <3>2 DEF Chunk, Upstream, Workers
    <3> QED BY <1>6, <3>1, <3>2
  <2>2. UNCHANGED serviceWork
    BY <1>2, <2>1 DEF serviceWork
  <2> QED BY <1>3, <1>4, <2>2, StutterCase
<1> QED
  BY <1>5, <1>6

\* The worker is done with the request in hand.
LEMMA FinishCase ==
  ASSUME Ground, Reply \/ AttemptEnds \/ StreamOver
  PROVE  Service!ServiceNext
<1> USE PipelineAssumption
<1>1. /\ worker.pc \in {"calling", "connecting", "streaming"} /\ worker.req # None
      /\ worker.pc = "calling" => worker.req \in Plain
      /\ worker.pc # "calling" => worker.req \in Streams
      /\ worker' = Idle /\ UNCHANGED <<reader, queue, phase>>
  BY DEF Ground, Core, WorkerAt, Reply, AttemptEnds, StreamOver, FinishStream, ingressVars
<1>2. hearers' = hearers
  BY <1>1 DEF hearers, Heard
<1>3. worker.req \in Owed /\ worker.req \in Requests
  BY <1>1 DEF Owed, InHand, Requests
<1>4. PICK o \in Outcomes :
        \/ /\ worker.req \in Plain /\ UNCHANGED handle
           /\ Resolve(worker.req, IF o = "ok" THEN "result" ELSE o)
        \/ /\ worker.req \in Streams /\ UNCHANGED future
           /\ \/ /\ o = "ok"
                 /\ handle' = [handle EXCEPT ![worker.req] = Close(@)]
              \/ /\ o \in Exceptions
                 /\ handle' = [handle EXCEPT ![worker.req] = Close(PutError(@, o))]
  <2>1. CASE Reply
    BY <1>1, <2>1 DEF Reply, Outcomes
  <2>2. CASE AttemptEnds
    <3>1. worker.pc = "calling" /\ worker.req \notin Streams
      BY <1>1, <2>2 DEF AttemptEnds
    <3>2. PICK e \in Exceptions : Resolve(worker.req, e) /\ UNCHANGED handle
      BY <2>2, <3>1 DEF AttemptEnds, Reject
    <3>3. e # "ok" /\ e \in Outcomes
      BY DEF Outcomes, Exceptions
    <3> QED BY <1>1, <3>1, <3>2, <3>3
  <2>3. CASE StreamOver
    <3>1. worker.req \in Streams
      BY <2>3 DEF StreamOver, Ground, Core, WorkerAt
    <3>2. PICK h \in StreamItems(handle[worker.req]) :
            handle' = [handle EXCEPT ![worker.req] = Close(h)] /\ UNCHANGED future
      BY <2>3 DEF StreamOver, FinishStream
    <3>3. CASE h = handle[worker.req]
      BY <3>1, <3>2, <3>3 DEF Outcomes
    <3>4. CASE \E e \in Exceptions : h = PutError(handle[worker.req], e)
      BY <3>1, <3>2, <3>4 DEF Outcomes
    <3> QED BY <3>2, <3>3, <3>4 DEF StreamItems
  <2> QED BY <2>1, <2>2, <2>3
<1>5. answers' = IF answers[worker.req] = "pending"
                 THEN [answers EXCEPT ![worker.req] = o] ELSE answers
  BY <1>1, <1>3, <1>4, OutcomeReaches DEF Ground
<1>6. Service!Finish(o)
  BY <1>1, <1>2, <1>5
     DEF Service!Finish, Service!Answered, Idle, Upstream, answers, hearers
<1> QED
  BY <1>6 DEF Service!ServiceNext, Service!Outcomes, Outcomes

\* The shutdown begins, or ends.
LEMMA ShutdownCase ==
  ASSUME Ground, BeginDrain \/ Halt
  PROVE  Service!ServiceNext
<1> USE PipelineAssumption
<1>1. CASE BeginDrain
  <2>1. /\ phase.name = "serving" /\ queue # << >> /\ phase'.name = "draining"
        /\ UNCHANGED <<queue, worker, reader, future, handle>>
    BY <1>1 DEF BeginDrain, ingressVars, outcomeVars
  <2>2. answers' = answers /\ hearers' = hearers
    BY <2>1, AnswerStays, AnswersStay DEF hearers, Heard
  <2>3. Service!CloseDoor
    BY <2>1, <2>2 DEF Service!CloseDoor, answers, hearers
  <2> QED BY <2>3 DEF Service!ServiceNext
<1>2. CASE Halt
  <2>1. /\ phase.name = "draining" \/ (phase.name = "serving" /\ queue = << >>)
        /\ phase'.name = "stopped" /\ worker'.req = None /\ worker'.pc = "stopped"
        /\ UNCHANGED <<queue, reader, future>> /\ worker.pc # "stopped"
    BY <1>2 DEF Halt, StopWorker, Idle, ingressVars, Ground, Core, WorkerAt
  <2>2. hearers' = hearers
    BY <2>1 DEF hearers, Heard
  <2>3. worker.req \in Streams /\ worker.pc \in Upstream
          <=> worker.pc \in {"connecting", "streaming"}
    BY DEF Ground, Core, WorkerAt, Upstream
  <2>4. CASE worker.pc \in {"connecting", "streaming"}
    <3>1. /\ worker.req \in Streams /\ worker.req \in Owed /\ "ok" \in Outcomes
          /\ handle' = [handle EXCEPT ![worker.req] = Close(@)]
      BY <1>2, <2>3, <2>4 DEF Halt, StopWorker, Owed, InHand, Requests, Outcomes
    <3>2. answers' = IF answers[worker.req] = "pending"
                     THEN [answers EXCEPT ![worker.req] = "ok"] ELSE answers
      BY <2>1, <3>1, OutcomeReaches DEF Ground
    <3>3. Service!Halt
      BY <2>1, <2>2, <2>3, <2>4, <3>2
         DEF Service!Halt, Service!Answered, Upstream, answers, hearers
    <3> QED BY <3>3 DEF Service!ServiceNext
  <2>5. CASE worker.pc \notin {"connecting", "streaming"}
    <3>1. UNCHANGED handle
      BY <1>2, <2>5 DEF Halt, StopWorker
    <3>2. answers' = answers
      BY <2>1, <3>1, AnswerStays, AnswersStay
    <3>3. Service!Halt
      BY <2>1, <2>2, <2>3, <2>5, <3>2 DEF Service!Halt, Upstream, answers, hearers
    <3> QED BY <3>3 DEF Service!ServiceNext
  <2> QED BY <2>4, <2>5
<1> QED
  BY <1>1, <1>2

\* Every step of the pipeline is a step of the service, or changes nothing that
\* it speaks of.
LEMMA ServiceStep ==
  ASSUME Ground, Steps
  PROVE  Service!ServiceNext \/ UNCHANGED Service!serviceVars
<1>1. CASE \E r \in Plain : Submit(r) \/ ClientTimeout(r)
  BY <1>1, SubmitCase, TimeoutCase
<1>2. CASE \E r \in Streams : SubmitStream(r)
  BY <1>2, SubmitStreamCase
<1>3. CASE \E r \in Streams : \/ StartReading(r) \/ Read(r)
                              \/ Disconnect(r) \/ DisconnectEarly(r)
  BY <1>3, ReaderCase
<1>4. CASE Drop \/ Take
  BY <1>4, LineCase
<1>5. CASE WakeUp \/ Retry \/ AttemptRepeats \/ Connect \/ Chunk
  BY <1>5, WorkCase
<1>6. CASE Reply \/ AttemptEnds \/ StreamOver
  BY <1>6, FinishCase
<1>7. CASE BeginDrain \/ Halt
  BY <1>7, ShutdownCase
<1>8. CASE Tick \/ ClockStep \/ UNCHANGED vars
  <2>1. UNCHANGED <<queue, worker, phase, reader, future, handle>>
    BY <1>8 DEF Tick, ClockStep, vars, ingressVars, outcomeVars
  <2>2. answers' = answers /\ hearers' = hearers
    BY <2>1, AnswerStays, AnswersStay DEF hearers, Heard
  <2>3. UNCHANGED serviceWork
    BY <2>1 DEF serviceWork
  <2> QED BY <2>2, <2>3, StutterCase
<1> QED
  BY <1>1, <1>2, <1>3, <1>4, <1>5, <1>6, <1>7, <1>8 DEF Steps

\* Pipeline implements RequestService: whatever the timers, the limiter, the
\* breaker and the retries of the worker do (processor.py:78-431), its clients see
\* a service that takes them first come first served, one at a time, and gives
\* each one answer.
THEOREM PipelineImplementsService == Spec => ServiceRefined
<1>1. Init => Service!ServiceInit
  BY DEF Init, Idle, Upstream, Answer, PlainAnswer, StreamAnswer, Heard, Exceptions,
         Requests, Service!ServiceInit, Service!Requests
<1>2. Core /\ LineInv /\ FuturesInv /\ HandleInv /\ [Next]_vars
        => [Service!ServiceNext]_(Service!serviceVars)
  BY ServiceStep, StepCases DEF Ground, Core
<1> QED
  BY <1>1, <1>2, CoreInvariant, LineInvariant, FuturesInvariant, HandleInvariant, PTL
     DEF Spec, ServiceRefined, Service!ServiceSpec
=============================================================================
