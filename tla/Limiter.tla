------------------------------ MODULE Limiter ------------------------------
(***************************************************************************)
(* The decisions of SlidingWindowRateLimiter (src/limiter/rate_limiter.py) *)
(* as operators on its two fields: timestamps, the instants of the permits *)
(* it still remembers, oldest first, and lastSentAt, the instant of the    *)
(* last permit.  RateLimiter runs them for several concurrent callers, and *)
(* Pipeline for the single worker of the request processor.  Instants are  *)
(* integers: a unit is whatever the configuration is measured in.          *)
(***************************************************************************)
EXTENDS Optional, Sequences

CONSTANTS
  Rpm,          \* limiter.rpm: permits in any window
  Window,       \* limiter.window_seconds
  MinInterval   \* limiter.min_interval_ms; 0 also stands for None

\* The bounds config/schema.py puts on the three parameters.
ASSUME LimiterAssumption == /\ Rpm \in Nat \ {0}
                            /\ Window \in Nat \ {0}
                            /\ MinInterval \in Nat

Later(a, b) == IF a >= b THEN a ELSE b

-----------------------------------------------------------------------------
(* Defects the runs must notice, each a variant of the operator it precedes
   or of one further down. *)

StaleOneEarly(at, clock) == at <= clock - Window + 1
BackwardsWait(oldest, last, t) == t - (oldest + Window)
WindowOnly(oldest, last, t) == oldest + Window - t
StartedInterval(last, clock) ==
  IF last = None \/ clock - last >= MinInterval - 1
  THEN 0 ELSE MinInterval - (clock - last)
IntervalBackwards(last, clock) ==
  IF last = None THEN 0 ELSE Later(0, MinInterval - (last - clock))
CleanupClears(ts, clock) ==
  IF ts # << >> /\ ts[1] <= clock - Window THEN << >> ELSE ts
AllowedOneMore(ts, last, c, t) == Len(ts) <= Rpm
-----------------------------------------------------------------------------
\* A record at or before the cutoff has left the window.
Stale(at, clock) == at <= clock - Window

\* How many records _cleanup pops: it stops at the first one still fresh.
Expired(ts, clock) ==
  CHOOSE n \in 0..Len(ts) : /\ \A i \in 1..n : Stale(ts[i], clock)
                            /\ n < Len(ts) => ~ Stale(ts[n + 1], clock)

Cleanup(ts, clock) == SubSeq(ts, Expired(ts, clock) + 1, Len(ts))

\* Time left before the minimum interval since the last permit has passed.
IntervalWait(last, clock) ==
  IF last = None THEN 0 ELSE Later(0, MinInterval - (clock - last))

\* Time left before the oldest record leaves and the interval has passed.
FullWait(oldest, last, t) ==
  Later(oldest + Window - t, IntervalWait(last, t))

\* The locked part of one iteration of acquire(): _cleanup reads the clock at
\* c, the iteration itself at t >= c.  A full window whose oldest record has
\* left it between the two reads gives up that record (the "clock skew" branch).
TryAcquire(ts, last, c, t) ==
  LET kept  == Cleanup(ts, c)
      full  == Len(kept) >= Rpm
      stale == full /\ Stale(kept[1], t)
      rest  == IF stale THEN Tail(kept) ELSE kept
      pause == IntervalWait(last, t)
      ok    == (full => stale) /\ pause = 0
  IN  [granted    |-> ok,
       timestamps |-> IF ok THEN Append(rest, t) ELSE rest,
       last       |-> IF ok THEN t ELSE last,
       wait       |-> IF full /\ ~ stale
                      THEN FullWait(kept[1], last, t)
                      ELSE pause]

\* is_allowed(): cleans up at c, measures the interval at t, consumes nothing.
Allowed(ts, last, c, t) ==
  Len(Cleanup(ts, c)) < Rpm /\ IntervalWait(last, t) = 0
=============================================================================
