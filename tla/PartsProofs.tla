----------------------------- MODULE PartsProofs -----------------------------
(***************************************************************************)
(* What the operators of Breaker, Handle and Metrics return, for any       *)
(* record they may be given.                                               *)
(***************************************************************************)
EXTENDS Breaker, Handle, Metrics, SequenceTheorems, TLAPS

States == {"CLOSED", "OPEN", "HALF_OPEN"}

-----------------------------------------------------------------------------
(* The circuit breaker. *)

\* An open breaker knows when it opened, a closed one has failures to spare, and
\* a half open one has sent its probe.
Sound(b) ==
  /\ b.state = "OPEN" => b.openedAt # None
  /\ b.state = "HALF_OPEN" => b.probeSent
  /\ b.state = "CLOSED" => b.failures < Threshold

\* It lets a call go on: it is closed, or this call is its probe.
Permits(b) == b.state # "OPEN" /\ (b.state = "HALF_OPEN" => b.probeSent)

\* Every operation of the breaker leaves a breaker.
LEMMA BreakerTypes ==
  ASSUME NEW b \in Breakers, NEW clock \in Nat, NEW e
  PROVE  /\ AfterCanExecute(b, clock) \in Breakers
         /\ RecordSuccess(b) \in Breakers
         /\ RecordFailure(b, clock) \in Breakers
         /\ RecordException(b, e, clock) \in Breakers
<1>1. AfterCanExecute(b, clock) \in Breakers
  BY DEF AfterCanExecute, Breakers
<1>2. RecordSuccess(b) \in Breakers
  BY DEF RecordSuccess, Breakers
<1>3. RecordFailure(b, clock) \in Breakers
  <2> DEFINE more    == b.failures + 1
             counted == [b EXCEPT !.failures = more, !.probeSent = FALSE]
  <2>0. more \in Nat
    BY DEF Breakers
  <2> HIDE DEF more
  <2>1. counted \in Breakers
    BY <2>0 DEF Breakers
  <2> HIDE DEF counted
  <2>2. Open(counted, clock) \in Breakers
    BY <2>1 DEF Open, Breakers
  <2> QED BY <2>1, <2>2 DEF RecordFailure, counted, more
<1> QED
  BY <1>1, <1>2, <1>3 DEF RecordException

\* can_execute(): who is let through is permitted, who is not leaves no trace.
LEMMA CanExecuteEffect ==
  ASSUME NEW b \in Breakers, NEW clock \in Nat
  PROVE  /\ CanExecute(b, clock) => Permits(AfterCanExecute(b, clock))
         /\ Sound(b) => Sound(AfterCanExecute(b, clock))
         /\ ~ CanExecute(b, clock) => AfterCanExecute(b, clock).state = b.state
<1>1. CASE b.state = "CLOSED"
  BY <1>1 DEF CanExecute, AfterCanExecute, HalfOpens, Permits
<1>2. CASE b.state = "HALF_OPEN" \/ HalfOpens(b, clock)
  <2>1. AfterCanExecute(b, clock) = [b EXCEPT !.state = "HALF_OPEN", !.probeSent = TRUE]
    BY <1>2 DEF AfterCanExecute
  <2>2. /\ AfterCanExecute(b, clock).state = "HALF_OPEN"
        /\ AfterCanExecute(b, clock).probeSent = TRUE
    BY <2>1 DEF Breakers
  <2>3. b.state = "HALF_OPEN" \/ CanExecute(b, clock)
    BY <1>2 DEF CanExecute
  <2> QED BY <2>2, <2>3 DEF Permits, Sound
<1>3. CASE b.state = "OPEN" /\ ~ HalfOpens(b, clock)
  BY <1>3 DEF CanExecute, AfterCanExecute
<1> QED
  BY <1>1, <1>2, <1>3 DEF Breakers

\* A success or an upstream failure leaves a sound breaker, unless the success
\* were recorded while it is open.
LEMMA RecordKeepsSound ==
  ASSUME NEW b \in Breakers, Sound(b), NEW clock \in Nat, NEW e
  PROVE  /\ b.state # "OPEN" => Sound(RecordSuccess(b))
         /\ Sound(RecordFailure(b, clock))
         /\ b.state # "OPEN" \/ e \in FailureExceptions
              => Sound(RecordException(b, e, clock))
<1> USE BreakerAssumption, NoneAssumption
<1>1. b.state # "OPEN" => Sound(RecordSuccess(b))
  BY DEF RecordSuccess, Sound, Breakers
<1>2. Sound(RecordFailure(b, clock))
  <2> DEFINE counted == [b EXCEPT !.failures = @ + 1, !.probeSent = FALSE]
  <2>1. /\ counted.failures = b.failures + 1 /\ counted.state = b.state
        /\ counted.openedAt = b.openedAt /\ b.failures \in Nat
        /\ b.state \in {"CLOSED", "OPEN", "HALF_OPEN"}
    BY DEF Breakers
  <2>2. CASE b.state = "HALF_OPEN" \/ counted.failures >= Threshold
    <3>1. RecordFailure(b, clock) = [counted EXCEPT !.state = "OPEN", !.openedAt = clock]
      BY <2>2 DEF RecordFailure, Open
    <3>2. /\ RecordFailure(b, clock).state = "OPEN"
          /\ RecordFailure(b, clock).openedAt = clock
      BY <3>1 DEF Breakers
    <3> QED BY <3>2 DEF Sound
  <2>3. CASE ~ (b.state = "HALF_OPEN" \/ counted.failures >= Threshold)
    <3>1. RecordFailure(b, clock) = counted
      BY <2>3 DEF RecordFailure
    <3> HIDE DEF counted
    <3> QED BY <2>1, <2>3, <3>1 DEF Sound
  <2> QED BY <2>2, <2>3
<1> QED
  BY <1>1, <1>2 DEF RecordException
-----------------------------------------------------------------------------
(* The stream handle. *)

Items == {"chunk", "end"} \cup Exceptions

LastItem(h) == h.items[Len(h.items)]

\* Nothing follows an end or an error.
EndsLast(h) == \A i \in 1..(Len(h.items) - 1) : h.items[i] = "chunk"

\* The last item is an end or an error.
Ended(h) == h.items # << >> /\ h.items[Len(h.items)] # "chunk"

\* What an append to the items of an unfinished handle does.
LEMMA AppendItem ==
  ASSUME NEW h \in Handles(Items), NEW x \in Items, EndsLast(h), ~ Ended(h)
  PROVE  LET s == Append(h.items, x)
         IN  /\ s \in Seq(Items) /\ s # << >> /\ s[Len(s)] = x
             /\ \A i \in 1..(Len(s) - 1) : s[i] = "chunk"
<1> DEFINE n == Len(h.items)
           s == Append(h.items, x)
<1>1. h.items \in Seq(Items) /\ n \in Nat
  BY LenProperties DEF Handles
<1>2. /\ s \in Seq(Items) /\ Len(s) = n + 1 /\ s # << >> /\ s[n + 1] = x
      /\ \A i \in 1..n : s[i] = h.items[i]
  BY <1>1, AppendProperties
<1>3. \A i \in 1..n : h.items[i] = "chunk"
  <2>1. n > 0 => h.items # << >>
    BY <1>1, EmptySeq
  <2> QED BY <1>1, <2>1 DEF EndsLast, Ended
<1> HIDE DEF n, s
<1>4. \A i \in 1..(Len(s) - 1) : s[i] = "chunk"
  BY <1>1, <1>2, <1>3
<1> QED
  BY <1>1, <1>2, <1>4 DEF s

\* close() and put_error() close a handle and end it; they do nothing to one
\* that is closed.
LEMMA CloseEffect ==
  ASSUME NEW h \in Handles(Items), NEW e \in Exceptions
  PROVE  /\ Close(h) \in Handles(Items) /\ Close(h).closed = TRUE
         /\ PutError(h, e) \in Handles(Items) /\ PutError(h, e).closed = TRUE
         /\ Close(PutError(h, e)) = PutError(h, e)
         /\ Close(h).cancelled = h.cancelled /\ PutError(h, e).cancelled = h.cancelled
         /\ h.closed => Close(h) = h /\ PutError(h, e) = h
         /\ ~ h.closed /\ EndsLast(h) /\ ~ Ended(h) =>
              /\ EndsLast(Close(h)) /\ Ended(Close(h))
              /\ LastItem(Close(h)) = "end"
              /\ EndsLast(PutError(h, e)) /\ Ended(PutError(h, e))
<1>1. /\ h.items \in Seq(Items) /\ h.closed \in BOOLEAN /\ h.cancelled \in BOOLEAN
      /\ "end" \in Items /\ e \in Items /\ "end" # "chunk" /\ e # "chunk"
  BY DEF Handles, Items, Exceptions
<1>2. CASE h.closed
  BY <1>1, <1>2 DEF Close, PutError
<1>3. CASE ~ h.closed
  <2>1. ASSUME NEW x \in Items
        PROVE  LET g == [h EXCEPT !.closed = TRUE, !.items = Append(@, x)]
               IN  /\ g \in Handles(Items) /\ g.closed = TRUE
                   /\ g.items = Append(h.items, x) /\ g.cancelled = h.cancelled
    <3>1. Append(h.items, x) \in Seq(Items)
      BY <1>1, AppendProperties
    <3> QED BY <1>1, <3>1 DEF Handles
  <2>2. /\ Close(h) = [h EXCEPT !.closed = TRUE, !.items = Append(@, "end")]
        /\ PutError(h, e) = [h EXCEPT !.closed = TRUE, !.items = Append(@, e)]
    BY <1>3 DEF Close, PutError
  <2>3. /\ Close(h) \in Handles(Items) /\ Close(h).closed = TRUE
        /\ Close(h).items = Append(h.items, "end") /\ Close(h).cancelled = h.cancelled
        /\ PutError(h, e) \in Handles(Items) /\ PutError(h, e).closed = TRUE
        /\ PutError(h, e).items = Append(h.items, e)
        /\ PutError(h, e).cancelled = h.cancelled
    BY <1>1, <2>1, <2>2
  <2>4. Close(PutError(h, e)) = PutError(h, e)
    BY <2>3 DEF Close
  <2>5. ASSUME EndsLast(h), ~ Ended(h), NEW g, NEW x \in {"end", e},
               g.items = Append(h.items, x)
        PROVE  EndsLast(g) /\ Ended(g) /\ LastItem(g) = x
    BY <1>1, <2>5, AppendItem DEF EndsLast, Ended, LastItem
  <2> QED BY <1>3, <2>3, <2>4, <2>5
<1> QED
  BY <1>1, <1>2, <1>3

\* The error that ends an unfinished handle is its last item.
LEMMA ErrorIsLast ==
  ASSUME NEW h \in Handles(Items), NEW e \in Exceptions, ~ h.closed
  PROVE  LastItem(PutError(h, e)) = e
<1>1. PutError(h, e).items = Append(h.items, e)
  BY DEF PutError, Handles
<1>2. h.items \in Seq(Items) /\ e \in Items
  BY DEF Handles, Items
<1> QED
  BY <1>1, <1>2, AppendProperties DEF LastItem

\* cancel() closes a handle too.
LEMMA CancelEffect ==
  ASSUME NEW h \in Handles(Items), h.cancelled => h.closed
  PROVE  /\ Cancel(h) \in Handles(Items)
         /\ Cancel(h).closed = TRUE /\ Cancel(h).cancelled = TRUE
         /\ h.closed => Cancel(h).items = h.items
         /\ ~ h.closed /\ EndsLast(h) /\ ~ Ended(h)
              => EndsLast(Cancel(h)) /\ Ended(Cancel(h))
<1> DEFINE g == [h EXCEPT !.cancelled = TRUE]
<1>1. /\ g \in Handles(Items) /\ g.items = h.items /\ g.closed = h.closed
      /\ g.cancelled = TRUE /\ h.closed \in BOOLEAN /\ h.cancelled \in BOOLEAN
      /\ "Other" \in Exceptions
  BY DEF Handles, Exceptions
<1>2. CASE h.cancelled
  BY <1>1, <1>2 DEF Cancel
<1>3. CASE ~ h.cancelled
  <2>1. Cancel(h) = Close(g)
    BY <1>3 DEF Cancel
  <2> HIDE DEF g
  <2>2. /\ Close(g) \in Handles(Items) /\ Close(g).closed = TRUE
        /\ Close(g).cancelled = TRUE /\ (g.closed => Close(g) = g)
        /\ ~ g.closed /\ EndsLast(g) /\ ~ Ended(g) => EndsLast(Close(g)) /\ Ended(Close(g))
    BY <1>1, CloseEffect
  <2>3. (EndsLast(g) <=> EndsLast(h)) /\ (Ended(g) <=> Ended(h))
    BY <1>1 DEF EndsLast, Ended
  <2> QED BY <1>1, <2>1, <2>2, <2>3
<1> QED
  BY <1>2, <1>3

\* Whatever the handle was, it is a handle after cancel().
LEMMA CancelTypes ==
  ASSUME NEW h \in Handles(Items)
  PROVE  Cancel(h) \in Handles(Items)
<1> DEFINE g == [h EXCEPT !.cancelled = TRUE]
<1>1. g \in Handles(Items) /\ "Other" \in Exceptions
  BY DEF Handles, Exceptions
<1> HIDE DEF g
<1>2. Close(g) \in Handles(Items)
  BY <1>1, CloseEffect
<1> QED
  BY <1>2 DEF Cancel, g

\* put_chunk() leaves a closed or cancelled handle alone.
LEMMA PutChunkEffect ==
  ASSUME NEW h \in Handles(Items)
  PROVE  /\ PutChunk(h) \in Handles(Items)
         /\ PutChunk(h).closed = h.closed /\ PutChunk(h).cancelled = h.cancelled
         /\ h.closed => PutChunk(h) = h
         /\ EndsLast(h) /\ ~ Ended(h) => EndsLast(PutChunk(h)) /\ ~ Ended(PutChunk(h))
<1>1. /\ h.items \in Seq(Items) /\ h.closed \in BOOLEAN /\ h.cancelled \in BOOLEAN
      /\ "chunk" \in Items
  BY DEF Handles, Items
<1>2. CASE h.closed \/ h.cancelled
  BY <1>2 DEF PutChunk
<1>3. CASE ~ (h.closed \/ h.cancelled)
  <2>1. PutChunk(h) = [h EXCEPT !.items = Append(@, "chunk")]
    BY <1>3 DEF PutChunk
  <2>2. Append(h.items, "chunk") \in Seq(Items)
    BY <1>1, AppendProperties
  <2>3. /\ PutChunk(h) \in Handles(Items) /\ PutChunk(h).items = Append(h.items, "chunk")
        /\ PutChunk(h).closed = h.closed /\ PutChunk(h).cancelled = h.cancelled
    BY <1>1, <2>1, <2>2 DEF Handles
  <2>4. ASSUME EndsLast(h), ~ Ended(h) PROVE EndsLast(PutChunk(h)) /\ ~ Ended(PutChunk(h))
    BY <1>1, <2>3, <2>4, AppendItem DEF EndsLast, Ended
  <2> QED BY <1>1, <1>3, <2>3, <2>4
<1> QED
  BY <1>2, <1>3

\* The reader takes the first item: before the last one it is a chunk.
LEMMA TakeItem ==
  ASSUME NEW h \in Handles(Items), EndsLast(h), h.items # << >>
  PROVE  LET g == [h EXCEPT !.items = Tail(@)]
         IN  /\ Head(h.items) \in Items
             /\ g \in Handles(Items) /\ EndsLast(g)
             /\ g.closed = h.closed /\ g.cancelled = h.cancelled
             /\ Head(h.items) = "chunk" => (Ended(g) <=> Ended(h))
             /\ Head(h.items) # "chunk" => ~ Ended(g) /\ Ended(h)
             /\ Ended(g) => LastItem(g) = LastItem(h)
             /\ Head(h.items) # "chunk" => LastItem(h) = Head(h.items)
<1> DEFINE t == Tail(h.items)
           n == Len(h.items)
           g == [h EXCEPT !.items = t]
<1>1. /\ h.items \in Seq(Items) /\ n \in Nat \ {0} /\ Head(h.items) = h.items[1]
      /\ t \in Seq(Items) /\ Len(t) = n - 1 /\ Head(h.items) \in Items
      /\ \A i \in 1..(n - 1) : t[i] = h.items[i + 1]
      /\ t = << >> <=> Len(t) = 0
  <2>1. h.items \in Seq(Items)
    BY DEF Handles
  <2>2. n \in Nat /\ n # 0
    BY <2>1, LenProperties, EmptySeq
  <2>3. /\ Head(h.items) = h.items[1] /\ Head(h.items) \in Items
        /\ t \in Seq(Items) /\ Len(t) = n - 1
        /\ \A i \in 1..Len(t) : t[i] = h.items[i + 1]
    BY <2>1, HeadTailProperties
  <2>4. t = << >> <=> Len(t) = 0
    BY <2>3, EmptySeq
  <2> HIDE DEF t, n
  <2> QED BY <2>1, <2>2, <2>3, <2>4
<1> HIDE DEF t, n
<1>2. g \in Handles(Items) /\ g.items = t /\ g.closed = h.closed /\ g.cancelled = h.cancelled
  BY <1>1 DEF Handles
<1> HIDE DEF g
<1>3. \A i \in 1..(n - 1) : h.items[i] = "chunk"
  BY DEF EndsLast, n
<1>4. \A i \in 1..(Len(t) - 1) : t[i] = "chunk"
  <2> SUFFICES ASSUME NEW i \in 1..(Len(t) - 1) PROVE t[i] = "chunk"
    OBVIOUS
  <2>1. i \in 1..(n - 1) /\ i + 1 \in 1..(n - 1)
    BY <1>1
  <2> QED BY <1>1, <1>3, <2>1
<1>5. CASE n = 1
  <2>1. t = << >> /\ h.items[n] = Head(h.items)
    BY <1>1, <1>5
  <2> QED BY <1>1, <1>2, <1>4, <2>1 DEF EndsLast, Ended, LastItem, g, t, n
<1>6. CASE n # 1
  <2>1. n - 1 \in 1..(n - 1) /\ 1 \in 1..(n - 1) /\ (n - 1) + 1 = n
    BY <1>1, <1>6
  <2>2. t # << >> /\ t[Len(t)] = h.items[n] /\ Head(h.items) = "chunk"
    BY <1>1, <1>3, <2>1
  <2> QED BY <1>1, <1>2, <1>4, <2>2 DEF EndsLast, Ended, LastItem, g, t, n
<1> QED
  BY <1>5, <1>6
-----------------------------------------------------------------------------
(* The metrics. *)

\* Every update of the metrics leaves a snapshot.
LEMMA MetricsTypes ==
  ASSUME NEW m \in Snapshots, NEW s \in States, NEW opened \in BOOLEAN
  PROVE  /\ {RecordEnqueue(m), RecordDequeue(m), RecordStreamStarted(m),
             RecordStreamCompleted(m), RecordUpstream429(m),
             RecordUpstream5xx(m)} \subseteq Snapshots
         /\ RecordBreakerState(m, s, opened) \in Snapshots
<1> DEFINE Plus(n) == n + 1
           less == IF m.queueSize > 0 THEN m.queueSize - 1 ELSE 0
<1>1. less \in Nat /\ \A n \in Nat : Plus(n) \in Nat
  BY DEF Snapshots
<1>2. /\ RecordEnqueue(m) = [m EXCEPT !.queueSize = Plus(@), !.enqueued = Plus(@)]
      /\ RecordDequeue(m) = [m EXCEPT !.queueSize = less, !.processed = Plus(@)]
      /\ RecordStreamStarted(m) = [m EXCEPT !.started = Plus(@)]
      /\ RecordStreamCompleted(m) = [m EXCEPT !.completed = Plus(@)]
      /\ RecordUpstream429(m) = [m EXCEPT !.upstream429 = Plus(@)]
      /\ RecordUpstream5xx(m) = [m EXCEPT !.upstream5xx = Plus(@)]
      /\ RecordBreakerState(m, s, opened)
           = [m EXCEPT !.state = s, !.opens = IF opened THEN Plus(@) ELSE @]
  BY DEF RecordEnqueue, RecordDequeue, RecordStreamStarted, RecordStreamCompleted,
         RecordUpstream429, RecordUpstream5xx, RecordBreakerState
<1> HIDE DEF Plus, less
<1>3. /\ m.queueSize \in Nat /\ m.enqueued \in Nat /\ m.processed \in Nat
      /\ m.state \in States /\ m.opens \in Nat /\ m.started \in Nat
      /\ m.completed \in Nat /\ m.upstream429 \in Nat /\ m.upstream5xx \in Nat
  BY DEF Snapshots, States
<1>4. ASSUME NEW a \in Nat, NEW b \in Nat, NEW c \in Nat, NEW d \in Nat,
             NEW state \in States
      PROVE  [queueSize |-> a, enqueued |-> b, processed |-> c, state |-> state,
              opens |-> d, started |-> m.started, completed |-> m.completed,
              upstream429 |-> m.upstream429, upstream5xx |-> m.upstream5xx]
                \in Snapshots
  BY <1>3 DEF Snapshots, States
<1>5. RecordEnqueue(m) \in Snapshots
  <2>1. RecordEnqueue(m)
          = [queueSize |-> Plus(m.queueSize), enqueued |-> Plus(m.enqueued),
             processed |-> m.processed, state |-> m.state, opens |-> m.opens,
             started |-> m.started, completed |-> m.completed,
             upstream429 |-> m.upstream429, upstream5xx |-> m.upstream5xx]
    <3>1. RecordEnqueue(m) = [m EXCEPT !.queueSize = Plus(@), !.enqueued = Plus(@)]
      BY <1>2
    <3> QED BY ZenonT(30), <3>1 DEF Snapshots
  <2>2. Plus(m.queueSize) \in Nat /\ Plus(m.enqueued) \in Nat
    BY <1>1, <1>3
  <2> QED BY SMTT(30), <1>3, <1>4, <2>1, <2>2
<1>6. RecordDequeue(m) \in Snapshots
  <2>1. RecordDequeue(m)
          = [queueSize |-> less, enqueued |-> m.enqueued,
             processed |-> Plus(m.processed), state |-> m.state, opens |-> m.opens,
             started |-> m.started, completed |-> m.completed,
             upstream429 |-> m.upstream429, upstream5xx |-> m.upstream5xx]
    <3>1. RecordDequeue(m) = [m EXCEPT !.queueSize = less, !.processed = Plus(@)]
      BY <1>2
    <3> QED BY ZenonT(30), <3>1 DEF Snapshots
  <2>2. Plus(m.processed) \in Nat
    BY <1>1, <1>3
  <2> QED BY SMTT(30), <1>1, <1>3, <1>4, <2>1, <2>2
<1>7. RecordStreamStarted(m) \in Snapshots /\ RecordStreamCompleted(m) \in Snapshots
  BY <1>1, <1>2 DEF Snapshots
<1>8. RecordUpstream429(m) \in Snapshots /\ RecordUpstream5xx(m) \in Snapshots
  BY <1>1, <1>2 DEF Snapshots
<1>9. RecordBreakerState(m, s, opened) \in Snapshots
  <2> DEFINE opens == IF opened THEN Plus(m.opens) ELSE m.opens
  <2>1. RecordBreakerState(m, s, opened)
          = [queueSize |-> m.queueSize, enqueued |-> m.enqueued,
             processed |-> m.processed, state |-> s,
             opens |-> opens,
             started |-> m.started, completed |-> m.completed,
             upstream429 |-> m.upstream429, upstream5xx |-> m.upstream5xx]
    BY ZenonT(30), <1>2 DEF Snapshots
  <2>2. opens \in Nat
    BY <1>1, <1>3
  <2> HIDE DEF opens
  <2> QED BY SMTT(30), <1>3, <1>4, <2>1, <2>2
<1> QED
  BY <1>5, <1>6, <1>7, <1>8, <1>9
=============================================================================
