--------------------------- MODULE LimiterProofs ---------------------------
(***************************************************************************)
(* What the operators of Limiter do, for any deque of instants: facts that *)
(* the proofs about RateLimiter and about Pipeline cite by name.           *)
(***************************************************************************)
EXTENDS Limiter, LineProofs, FiniteSetTheorems

\* _cleanup stops somewhere, and pops only records that have left the window.
LEMMA CleanupPops ==
  ASSUME NEW ts \in Seq(Nat), NEW clock \in Nat
  PROVE  /\ Expired(ts, clock) \in 0..Len(ts)
         /\ \A i \in 1..Expired(ts, clock) : Stale(ts[i], clock)
         /\ Expired(ts, clock) < Len(ts) => ~ Stale(ts[Expired(ts, clock) + 1], clock)
<1> DEFINE Stops == {n \in 0..Len(ts) : n < Len(ts) => ~ Stale(ts[n + 1], clock)}
<1>1. Len(ts) \in Stops /\ Stops \subseteq Nat
  BY LenProperties
<1>2. PICK m \in Stops : \A k \in Stops : m <= k
  <2> HIDE DEF Stops
  <2> QED BY <1>1, LeastElement
<1>3. m \in 0..Len(ts) /\ (m < Len(ts) => ~ Stale(ts[m + 1], clock))
  BY <1>2
<1>4. \A i \in 1..m : Stale(ts[i], clock)
  <2> SUFFICES ASSUME NEW i \in 1..m, ~ Stale(ts[i], clock) PROVE FALSE
    OBVIOUS
  <2>1. i - 1 \in 0..Len(ts) /\ (i - 1) + 1 = i
    BY <1>3, LenProperties
  <2>2. i - 1 \in Stops
    BY <2>1
  <2>3. m <= i - 1
    BY <1>2, <2>2
  <2> QED
    BY <1>3, <2>3, LenProperties
<1> QED
  BY <1>3, <1>4 DEF Expired

\* What _cleanup leaves is the end of the deque.
LEMMA CleanupLeaves ==
  ASSUME NEW ts \in Seq(Nat), NEW clock \in Nat
  PROVE  LET n == Expired(ts, clock)
             kept == Cleanup(ts, clock)
         IN  /\ kept \in Seq(Nat)
             /\ Len(kept) = Len(ts) - n
             /\ \A i \in 1..Len(kept) : kept[i] = ts[n + i]
<1> DEFINE n == Expired(ts, clock)
<1>1. n \in Nat /\ n <= Len(ts) /\ Len(ts) \in Nat
  BY CleanupPops, LenProperties
<1> HIDE DEF n
<1>2. \A i \in (n + 1)..Len(ts) : ts[i] \in Nat
  BY <1>1, ElementOfSeq
<1> DEFINE s == SubSeq(ts, n + 1, Len(ts))
<1>3. /\ s \in Seq(Nat)
      /\ Len(s) = IF n + 1 <= Len(ts) THEN Len(ts) - (n + 1) + 1 ELSE 0
      /\ \A i \in 1..(Len(ts) - (n + 1) + 1) : s[i] = ts[(n + 1) + i - 1]
  BY <1>1, <1>2, SubSeqProperties
<1>4. Cleanup(ts, clock) = s
  BY DEF Cleanup, n
<1> HIDE DEF s
<1>5. Len(s) = Len(ts) - n /\ \A i \in 1..Len(s) : s[i] = ts[n + i]
  <2>1. Len(s) = Len(ts) - n
    BY <1>1, <1>3
  <2>2. ASSUME NEW i \in 1..Len(s) PROVE s[i] = ts[n + i]
    <3>1. i \in 1..(Len(ts) - (n + 1) + 1) /\ (n + 1) + i - 1 = n + i
      BY <1>1, <2>1
    <3> QED BY <1>3, <3>1
  <2> QED BY <2>1, <2>2
<1> QED
  BY <1>3, <1>4, <1>5 DEF n

\* rest is what is left of ts when its first m records are dropped.
Ends(rest, m, ts) ==
  /\ rest \in Seq(Nat) /\ m \in 0..Len(ts)
  /\ Len(rest) = Len(ts) - m
  /\ \A i \in 1..Len(rest) : rest[i] = ts[m + i]

\* One iteration of acquire(): it drops records that have left the window, it
\* grants only when fewer than Rpm are left and the interval has passed, and
\* it never asks for a negative sleep.
LEMMA TryAcquireEffect ==
  ASSUME NEW ts \in Seq(Nat), Len(ts) <= Rpm,
         NEW last \in Nat \cup {None},
         NEW c \in Nat, NEW t \in Nat, c <= t
  PROVE  LET p == TryAcquire(ts, last, c, t)
         IN  /\ p.granted \in BOOLEAN
             /\ p.last = IF p.granted THEN t ELSE last
             /\ p.wait \in Nat
             /\ \E rest, m :
                  /\ Ends(rest, m, ts)
                  /\ \A i \in 1..m : ts[i] + Window <= t
                  /\ p.timestamps = IF p.granted THEN Append(rest, t) ELSE rest
                  /\ p.granted => Len(rest) < Rpm /\ IntervalWait(last, t) = 0
<1> USE LimiterAssumption, NoneAssumption
<1> DEFINE n     == Expired(ts, c)
           kept  == Cleanup(ts, c)
           full  == Len(kept) >= Rpm
           stale == full /\ Stale(kept[1], t)
           rest  == IF stale THEN Tail(kept) ELSE kept
           pause == IntervalWait(last, t)
           ok    == (full => stale) /\ pause = 0
           p     == TryAcquire(ts, last, c, t)
           m     == IF stale THEN n + 1 ELSE n
<1>1. /\ p.granted = ok
      /\ p.timestamps = IF ok THEN Append(rest, t) ELSE rest
      /\ p.last = IF ok THEN t ELSE last
      /\ p.wait = IF full /\ ~ stale THEN FullWait(kept[1], last, t) ELSE pause
  BY DEF TryAcquire
<1>2. /\ n \in Nat /\ n <= Len(ts) /\ Len(ts) \in Nat
      /\ \A i \in 1..n : Stale(ts[i], c)
      /\ kept \in Seq(Nat) /\ Len(kept) = Len(ts) - n
      /\ \A i \in 1..Len(kept) : kept[i] = ts[n + i]
  <2>1. n \in 0..Len(ts) /\ \A i \in 1..n : Stale(ts[i], c)
    BY CleanupPops
  <2>2. /\ kept \in Seq(Nat) /\ Len(kept) = Len(ts) - n
        /\ \A i \in 1..Len(kept) : kept[i] = ts[n + i]
    BY CleanupLeaves
  <2> HIDE DEF n, kept
  <2> QED
    BY <2>1, <2>2, LenProperties
<1> HIDE DEF n, kept, p
<1>3. pause \in Nat
  BY DEF IntervalWait, Later
<1>4. full => kept # << >> /\ 1 \in 1..Len(kept) /\ kept[1] \in Nat
  BY <1>2, ElementOfSeq, EmptySeq
<1>5. p.wait \in Nat
  BY <1>1, <1>3, <1>4 DEF FullWait, Later, Stale
<1>6. \A i \in 1..n : ts[i] \in Nat /\ ts[i] + Window <= t
  BY SMTT(30), <1>2, ElementOfSeq DEF Stale
<1>7. /\ Ends(rest, m, ts)
      /\ \A i \in 1..m : ts[i] + Window <= t
      /\ ok => Len(rest) < Rpm
  <2>1. CASE stale
    <3>1. /\ Tail(kept) \in Seq(Nat) /\ Len(Tail(kept)) = Len(kept) - 1
          /\ \A i \in 1..Len(Tail(kept)) : Tail(kept)[i] = kept[i + 1]
      BY <1>2, <1>4, <2>1, HeadTailProperties
    <3>2. \A i \in 1..Len(Tail(kept)) : Tail(kept)[i] = ts[(n + 1) + i]
      BY SMTT(30), <1>2, <3>1
    <3>3. ts[n + 1] = kept[1] /\ kept[1] + Window <= t
      BY SMTT(30), <1>2, <1>4, <2>1 DEF Stale
    <3>4. \A i \in 1..(n + 1) : i \in 1..n \/ i = n + 1
      BY <1>2
    <3>5. n + 1 \in 0..Len(ts) /\ Len(Tail(kept)) = Len(ts) - (n + 1)
      BY <1>2, <1>4, <2>1, <3>1
    <3>6. rest = Tail(kept) /\ m = n + 1
      BY <2>1
    <3>7. Len(Tail(kept)) < Rpm
      BY <1>2, <3>1
    <3>8. Ends(rest, m, ts)
      BY <3>1, <3>2, <3>5, <3>6 DEF Ends
    <3>9. \A i \in 1..m : ts[i] + Window <= t
      BY <1>6, <3>3, <3>4, <3>6
    <3> QED
      BY <3>6, <3>7, <3>8, <3>9
  <2>2. CASE ~ stale
    <3>1. rest = kept /\ m = n
      BY <2>2
    <3>2. Ends(rest, m, ts)
      BY SMTT(30), <1>2, <3>1 DEF Ends
    <3>3. ok => Len(kept) < Rpm
      BY <1>2, <2>2
    <3> QED
      BY <1>6, <3>1, <3>2, <3>3
  <2> QED
    BY <2>1, <2>2
<1> QED
  <2> HIDE DEF rest, m, full, stale, pause
  <2>1. /\ p.granted \in BOOLEAN
        /\ p.last = IF p.granted THEN t ELSE last
        /\ p.timestamps = IF p.granted THEN Append(rest, t) ELSE rest
        /\ p.granted => Len(rest) < Rpm /\ pause = 0
    BY <1>1, <1>7
  <2> QED
    BY <1>5, <1>7, <2>1 DEF p, pause
-----------------------------------------------------------------------------
(* Sleeping long enough. *)

\* At u neither the window nor the interval is in the way of a permit.
Rested(ts, last, u) ==
  /\ Len(ts) >= Rpm => ts[1] + Window <= u
  /\ last # None => last + MinInterval <= u

\* acquire() sleeps until it is rested, if nobody else takes a permit meanwhile.
LEMMA SleepIsLongEnough ==
  ASSUME NEW ts \in Seq(Nat), Len(ts) <= Rpm,
         NEW last \in Nat \cup {None},
         NEW c \in Nat, NEW t \in Nat, c <= t,
         ~ TryAcquire(ts, last, c, t).granted
  PROVE  LET p == TryAcquire(ts, last, c, t)
         IN  Rested(p.timestamps, last, t + p.wait)
<1> USE LimiterAssumption, NoneAssumption
<1> DEFINE kept  == Cleanup(ts, c)
           full  == Len(kept) >= Rpm
           stale == full /\ Stale(kept[1], t)
           rest  == IF stale THEN Tail(kept) ELSE kept
           pause == IntervalWait(last, t)
           p     == TryAcquire(ts, last, c, t)
<1>1. /\ ~ ((full => stale) /\ pause = 0)
      /\ p.timestamps = rest
      /\ p.wait = IF full /\ ~ stale THEN FullWait(kept[1], last, t) ELSE pause
  BY DEF TryAcquire
<1>2. kept \in Seq(Nat) /\ Len(kept) \in Nat /\ Len(kept) <= Rpm
  <2>1. Expired(ts, c) \in 0..Len(ts)
    BY CleanupPops
  <2>2. kept \in Seq(Nat) /\ Len(kept) = Len(ts) - Expired(ts, c)
    BY CleanupLeaves
  <2> HIDE DEF kept
  <2> QED
    BY <2>1, <2>2, LenProperties
<1> HIDE DEF kept, p
<1>3. full => kept # << >> /\ kept[1] \in Nat
  BY <1>2, ElementOfSeq, EmptySeq
<1>4. pause \in Nat /\ (last # None => last + MinInterval <= t + pause)
  <2>1. CASE last = None
    BY <2>1 DEF IntervalWait
  <2>2. CASE last \in Nat /\ last # None
    BY <2>2 DEF IntervalWait, Later
  <2> QED BY <2>1, <2>2
<1>5. CASE full /\ ~ stale
  <2>1. rest = kept /\ p.wait = Later(kept[1] + Window - t, pause)
    BY <1>1, <1>5 DEF FullWait
  <2> HIDE DEF pause
  <2>2. kept[1] + Window <= t + p.wait /\ pause <= p.wait /\ p.wait \in Int
    BY <1>3, <1>4, <1>5, <2>1 DEF Later
  <2>3. last # None => last + MinInterval <= t + p.wait
    BY <1>4, <2>2
  <2> HIDE DEF rest
  <2> QED
    BY <1>1, <2>1, <2>2, <2>3 DEF Rested, p
<1>6. CASE ~ (full /\ ~ stale)
  <2>1. Len(rest) < Rpm
    <3>1. CASE stale
      <4>1. Len(Tail(kept)) = Len(kept) - 1
        BY <1>2, <1>3, <3>1, HeadTailProperties
      <4> QED BY <1>2, <3>1, <4>1
    <3>2. CASE ~ stale
      BY <1>2, <1>6, <3>2
    <3> QED BY <3>1, <3>2
  <2>2. Len(rest) \in Nat
    BY <1>2, <1>3, HeadTailProperties, LenProperties
  <2>3. p.wait = pause
    BY <1>1, <1>6
  <2> HIDE DEF rest, pause
  <2> QED
    BY <1>1, <1>4, <2>1, <2>2, <2>3 DEF Rested, p
<1> QED
  BY <1>5, <1>6

\* A sleep of acquire() is never longer than the window and the interval are.
LEMMA SleepIsBounded ==
  ASSUME NEW ts \in Seq(Nat), NEW last \in Nat \cup {None},
         NEW c \in Nat, NEW t \in Nat,
         \A i \in 1..Len(ts) : ts[i] <= t, last # None => last <= t
  PROVE  TryAcquire(ts, last, c, t).wait <= Later(Window, MinInterval)
<1> USE LimiterAssumption, NoneAssumption
<1> DEFINE kept  == Cleanup(ts, c)
           n     == Expired(ts, c)
           full  == Len(kept) >= Rpm
           stale == full /\ Stale(kept[1], t)
           pause == IntervalWait(last, t)
<1>1. /\ n \in 0..Len(ts) /\ Len(ts) \in Nat /\ Len(kept) = Len(ts) - n
      /\ \A i \in 1..Len(kept) : kept[i] = ts[n + i]
  BY ZenonT(30), CleanupPops, CleanupLeaves, LenProperties
<1>2. TryAcquire(ts, last, c, t).wait
        = IF full /\ ~ stale THEN FullWait(kept[1], last, t) ELSE pause
  BY DEF TryAcquire
<1> HIDE DEF kept, n
<1>3. pause \in Nat /\ pause <= MinInterval
  BY DEF IntervalWait, Later
<1>4. full => kept[1] \in Nat /\ kept[1] <= t
  <2>1. full => kept[1] = ts[n + 1] /\ n + 1 \in 1..Len(ts)
    BY <1>1
  <2> QED BY <2>1, ElementOfSeq
<1> HIDE DEF pause
<1>5. full /\ ~ stale => FullWait(kept[1], last, t) <= Later(Window, MinInterval)
  BY <1>3, <1>4 DEF FullWait, Later, pause
<1> QED
  BY <1>2, <1>3, <1>5 DEF Later

\* Whoever is rested is granted a permit, then or later.
LEMMA RestedIsGranted ==
  ASSUME NEW ts \in Seq(Nat), Len(ts) <= Rpm,
         NEW last \in Nat \cup {None}, NEW u \in Nat, Rested(ts, last, u),
         NEW c \in Nat, NEW t \in Nat, u <= c, c <= t
  PROVE  TryAcquire(ts, last, c, t).granted
<1> USE LimiterAssumption, NoneAssumption
<1> DEFINE kept == Cleanup(ts, c)
           n    == Expired(ts, c)
<1>1. IntervalWait(last, t) = 0
  BY DEF Rested, IntervalWait, Later
<1>2. /\ n \in 0..Len(ts) /\ Len(ts) \in Nat
      /\ n < Len(ts) => ~ Stale(ts[n + 1], c)
      /\ Len(kept) = Len(ts) - n
  BY CleanupPops, CleanupLeaves, LenProperties
<1> HIDE DEF kept, n
<1>3. Len(kept) < Rpm
  <2>1. CASE Len(ts) < Rpm
    BY <1>2, <2>1
  <2>2. CASE Len(ts) = Rpm
    <3>1. ts[1] + Window <= c /\ ts[1] \in Nat
      BY <1>2, <2>2, ElementOfSeq DEF Rested
    <3>2. n # 0
      BY <1>2, <2>2, <3>1 DEF Stale
    <3> QED BY <1>2, <2>2, <3>2
  <2> QED BY <1>2, <2>1, <2>2
<1>4. ~ (Len(kept) >= Rpm)
  BY <1>2, <1>3
<1> QED
  BY <1>1, <1>4 DEF TryAcquire, kept

\* Dropping records, as is_allowed() does, does not tire anybody.
LEMMA CleanupKeepsRested ==
  ASSUME NEW ts \in Seq(Nat), Len(ts) <= Rpm, NEW last, NEW u, NEW m, NEW rest,
         Ends(rest, m, ts), Rested(ts, last, u)
  PROVE  Rested(rest, last, u)
<1>1. /\ m \in 0..Len(ts) /\ Len(ts) \in Nat /\ Len(rest) = Len(ts) - m
      /\ \A i \in 1..Len(rest) : rest[i] = ts[m + i]
  BY LenProperties DEF Ends
<1>2. CASE m = 0
  <2>1. Len(rest) >= Rpm => rest[1] = ts[1] /\ Len(ts) >= Rpm
    BY <1>1, <1>2, LimiterAssumption
  <2> QED BY <2>1 DEF Rested
<1>3. CASE m # 0
  <2>1. Len(rest) < Rpm /\ Len(rest) \in Nat
    BY <1>1, <1>3, LimiterAssumption
  <2> QED BY <2>1, LimiterAssumption DEF Rested
<1> QED
  BY <1>2, <1>3

\* is_allowed() answers what acquire() would do at the same instant.
LEMMA AllowedIsGranted ==
  ASSUME NEW ts \in Seq(Nat), NEW last, NEW t \in Nat
  PROVE  Allowed(ts, last, t, t) <=> TryAcquire(ts, last, t, t).granted
<1> USE LimiterAssumption
<1> DEFINE kept == Cleanup(ts, t)
           n    == Expired(ts, t)
<1>1. /\ n \in 0..Len(ts) /\ Len(ts) \in Nat
      /\ n < Len(ts) => ~ Stale(ts[n + 1], t)
      /\ Len(kept) = Len(ts) - n
      /\ \A i \in 1..Len(kept) : kept[i] = ts[n + i]
  BY ZenonT(30), CleanupPops, CleanupLeaves, LenProperties
<1> HIDE DEF kept, n
<1>2. Len(kept) >= Rpm => ~ Stale(kept[1], t)
  BY SMTT(30), <1>1
<1>3. Len(kept) >= Rpm <=> ~ (Len(kept) < Rpm)
  BY <1>1
<1> QED
  BY <1>2, <1>3 DEF TryAcquire, Allowed, kept
=============================================================================
