---------------------------- MODULE RateLimiter ----------------------------
(***************************************************************************)
(* The limiter used by several coroutines at once, which its docstring     *)
(* promises is safe.  The lock of the code is never awaited while it is    *)
(* held, so an iteration of acquire() is one step; a refused caller sleeps *)
(* with the lock released, and while it sleeps the others may take the     *)
(* permit it was waiting for.                                              *)
(***************************************************************************)
EXTENDS Limiter, FiniteSets

CONSTANTS
  Callers,    \* the coroutines that call the limiter
  MaxSlip,    \* how far the clock may move between two reads in one step
  MaxLag,     \* how late the event loop may resume a sleeper
  MaxTime,    \* bound: the clock stops here
  LastStart,  \* bound: no acquire() is started later than this
  MaxGrants   \* bound: how many acquire() calls are started

ASSUME RateLimiterAssumption ==
  MaxSlip \in Nat /\ MaxLag \in Nat /\ MaxTime \in Nat
  /\ LastStart \in Nat /\ MaxGrants \in Nat

VARIABLES
  now,         \* the monotonic clock
  timestamps,  \* _timestamps
  lastSentAt,  \* _last_sent_at
  pc,          \* where each caller is: outside acquire(), or in its sleep
  wakeAt,      \* when its sleep is over
  seen,        \* history: how many permits there were when it went to sleep
  granted      \* history: the instants of all permits, in order

vars == <<now, timestamps, lastSentAt, pc, wakeAt, seen, granted>>

Sleeping == {c \in Callers : pc[c] = "sleeping"}

Init == /\ now = 0
        /\ timestamps = << >>
        /\ lastSentAt = None
        /\ pc = [c \in Callers |-> "outside"]
        /\ wakeAt = [c \in Callers |-> 0]
        /\ seen = [c \in Callers |-> 0]
        /\ granted = << >>

\* A caller starts acquire(), or its sleep is over and it loops.
MayTry(c) ==
  \/ /\ pc[c] = "outside"
     /\ now <= LastStart /\ Len(granted) + Cardinality(Sleeping) < MaxGrants
  \/ pc[c] = "sleeping" /\ now >= wakeAt[c]

Attempt(c) ==
  /\ MayTry(c)
  /\ \E t \in now..(now + MaxSlip) :
       LET p == TryAcquire(timestamps, lastSentAt, now, t)
       IN  /\ now' = t
           /\ timestamps' = p.timestamps
           /\ lastSentAt' = p.last
           /\ pc' = [pc EXCEPT ![c] = IF p.granted THEN "outside" ELSE "sleeping"]
           /\ wakeAt' = [wakeAt EXCEPT ![c] = IF p.granted THEN 0 ELSE t + p.wait]
           /\ seen' = [seen EXCEPT ![c] = IF p.granted THEN 0 ELSE Len(granted)]
           /\ granted' = IF p.granted THEN Append(granted, t) ELSE granted

\* The task that sleeps in acquire() is cancelled (RequestProcessor.stop).
Cancel(c) ==
  /\ pc[c] = "sleeping"
  /\ pc' = [pc EXCEPT ![c] = "outside"]
  /\ wakeAt' = [wakeAt EXCEPT ![c] = 0]
  /\ seen' = [seen EXCEPT ![c] = 0]
  /\ UNCHANGED <<now, timestamps, lastSentAt, granted>>

\* Defect: is_allowed() makes room like the stale branch of acquire().
IsAllowedPops ==
  /\ timestamps' = IF Len(timestamps) >= Rpm THEN Tail(timestamps)
                   ELSE Cleanup(timestamps, now)
  /\ UNCHANGED <<now, lastSentAt, pc, wakeAt, seen, granted>>

\* is_allowed() consumes nothing, but its _cleanup does drop records.
IsAllowed ==
  /\ timestamps' = Cleanup(timestamps, now)
  /\ UNCHANGED <<now, lastSentAt, pc, wakeAt, seen, granted>>

\* Time passes, but no sleeper is left alone for more than MaxLag after its
\* sleep is over.
Tick == /\ now < MaxTime
        /\ \A c \in Sleeping : now < wakeAt[c] + MaxLag
        /\ now' = now + 1
        /\ UNCHANGED <<timestamps, lastSentAt, pc, wakeAt, seen, granted>>

Next == \/ \E c \in Callers : Attempt(c) \/ Cancel(c)
        \/ IsAllowed
        \/ Tick

Spec == Init /\ [][Next]_vars

\* The event loop resumes every due sleeper, and time does not stop.
Fairness == /\ \A c \in Callers : WF_vars(pc[c] = "sleeping" /\ Attempt(c))
            /\ WF_vars(Tick)

FairSpec == Spec /\ Fairness
-----------------------------------------------------------------------------
TypeOK ==
  /\ now \in Nat
  /\ timestamps \in Seq(Nat)
  /\ lastSentAt \in Nat \cup {None}
  /\ pc \in [Callers -> {"outside", "sleeping"}]
  /\ wakeAt \in [Callers -> Nat]
  /\ seen \in [Callers -> Nat]
  /\ granted \in Seq(Nat)

\* No window of length Window contains more than Rpm permits, whoever took
\* them: what tests/test_concurrency.py:93-104 checks for one schedule.
WindowRespected ==
  \A t \in 0..now :
    Cardinality({i \in DOMAIN granted : t - Window < granted[i] /\ granted[i] <= t})
      <= Rpm

\* Any two permits are MinInterval apart, also when the second was granted to
\* a caller that had gone to sleep before the first.
MinIntervalRespected ==
  \A i, j \in DOMAIN granted : i < j => granted[j] - granted[i] >= MinInterval

Dropped == Len(granted) - Len(timestamps)

\* The deque is exactly the recent past: it holds the last permits, and one it
\* has forgotten can no longer count against a window that ends now.
RemembersTheWindow ==
  /\ Len(timestamps) <= Rpm
  /\ Len(timestamps) <= Len(granted)
  /\ \A i \in DOMAIN timestamps : timestamps[i] = granted[Dropped + i]
  /\ \A i \in 1..Dropped : granted[i] + Window <= now

\* The permits are in the order of the clock, and none is in the future.
Ordered ==
  /\ \A i, j \in DOMAIN granted : i <= j => granted[i] <= granted[j]
  /\ \A i \in DOMAIN granted : granted[i] <= now

\* A permit comes at least Window after the one Rpm places before it.
RpmApart ==
  \A i, j \in DOMAIN granted : j = i + Rpm => granted[i] + Window <= granted[j]

\* _last_sent_at is the instant of the last permit, also once that permit has
\* been dropped from the deque.
LastIsLatest ==
  lastSentAt = IF granted = << >> THEN None ELSE granted[Len(granted)]

\* The inductive invariant from which RateLimiterProofs derives the others.
IInv == /\ TypeOK
        /\ RemembersTheWindow
        /\ Ordered
        /\ RpmApart
        /\ LastIsLatest
        /\ MinIntervalRespected

\* is_allowed() answers what acquire() would do at the same instant.
IsAllowedAgrees ==
  Allowed(timestamps, lastSentAt, now, now)
    <=> TryAcquire(timestamps, lastSentAt, now, now).granted

\* A caller goes back to sleep only because another one was granted a permit
\* meanwhile: the wait that acquire() computes is long enough for the window
\* and for the interval, and the worker, which is alone, sleeps at most once.
ResleepsOnlyIfOvertaken ==
  [][\A c \in Callers :
       pc[c] = "sleeping" /\ pc'[c] = "sleeping" /\ wakeAt'[c] # wakeAt[c]
         => Len(granted) > seen[c]]_vars

\* Every acquire() returns, although newcomers may overtake a sleeper.
EveryAcquireReturns ==
  \A c \in Callers : pc[c] = "sleeping" ~> pc[c] = "outside"

\* What the limiter promises, and the implementation of that promise by the
\* deque, the sleeps and the two clock reads.
Promise == INSTANCE SlidingWindow
PromiseKept == Promise!Spec
=============================================================================
