------------------------- MODULE RateLimiterProofs -------------------------
(***************************************************************************)
(* Theorems about RateLimiter, for every Rpm, Window, MinInterval, number  *)
(* of callers, clock slip and lateness.  The argument: whatever acquire()  *)
(* and is_allowed() do, the deque is the end of the list of all permits,   *)
(* and what was dropped from it had left the window; hence a permit is     *)
(* granted Window after the one Rpm places before it, and every window     *)
(* holds at most Rpm of them.                                              *)
(***************************************************************************)
EXTENDS RateLimiter, LimiterProofs
-----------------------------------------------------------------------------
(* The inductive invariant. *)

\* Dropping records that have left the window, without a permit.
LEMMA DropKeeps ==
  ASSUME IInv, NEW rest, NEW m, Ends(rest, m, timestamps),
         now' \in Nat, now <= now',
         \A i \in 1..m : timestamps[i] + Window <= now',
         timestamps' = rest, granted' = granted, lastSentAt' = lastSentAt
  PROVE  /\ RemembersTheWindow' /\ Ordered' /\ RpmApart'
         /\ LastIsLatest' /\ MinIntervalRespected'
<1> USE LimiterAssumption, NoneAssumption
<1> DEFINE d == Dropped
<1>1. /\ now \in Nat /\ timestamps \in Seq(Nat) /\ granted \in Seq(Nat)
      /\ Len(timestamps) \in Nat /\ DOMAIN timestamps = 1..Len(timestamps)
      /\ Len(granted) \in Nat /\ DOMAIN granted = 1..Len(granted)
      /\ \A i \in DOMAIN granted : granted[i] \in Nat
  BY LenProperties, ElementOfSeq DEF IInv, TypeOK
<1>2. /\ rest \in Seq(Nat) /\ m \in 0..Len(timestamps)
      /\ Len(rest) = Len(timestamps) - m /\ Len(rest) \in Nat
      /\ DOMAIN rest = 1..Len(rest)
      /\ \A i \in 1..Len(rest) : rest[i] = timestamps[m + i]
  BY LenProperties DEF Ends
<1>3. /\ Len(timestamps) <= Rpm /\ Len(timestamps) <= Len(granted)
      /\ \A i \in 1..Len(timestamps) : timestamps[i] = granted[d + i]
      /\ \A i \in 1..d : granted[i] + Window <= now
  BY <1>1 DEF IInv, RemembersTheWindow
<1>4. d \in Nat /\ d = Len(granted) - Len(timestamps) /\ Dropped' = d + m
  BY <1>1, <1>2, <1>3 DEF Dropped
<1> DEFINE L == Len(timestamps)
<1>num. /\ d \in Nat /\ m \in Nat /\ L \in Nat /\ m <= L
        /\ Len(rest) = L - m /\ Len(granted) = d + L
  BY <1>1, <1>2, <1>3, <1>4
<1>ts. /\ \A i \in 1..Len(rest) : rest[i] = timestamps[m + i]
       /\ \A i \in 1..L : timestamps[i] = granted[d + i]
       /\ \A i \in 1..m : timestamps[i] + Window <= now'
  BY <1>2, <1>3
<1> HIDE DEF d, L
<1>5. RemembersTheWindow'
  <2>1. \A i \in 1..Len(rest) : rest[i] = granted[(d + m) + i]
    <3> SUFFICES ASSUME NEW i \in 1..Len(rest)
                 PROVE  rest[i] = granted[(d + m) + i]
      OBVIOUS
    <3>1. m + i \in 1..L /\ d + (m + i) = (d + m) + i
      BY <1>num
    <3> QED BY <1>ts, <3>1
  <2>2. \A i \in 1..(d + m) : granted[i] + Window <= now'
    <3> SUFFICES ASSUME NEW i \in 1..(d + m)
                 PROVE  granted[i] + Window <= now'
      OBVIOUS
    <3>1. CASE i <= d
      <4>1. i \in 1..d /\ i \in 1..Len(granted)
        BY <1>num, <3>1
      <4> QED BY <1>1, <1>3, <4>1
    <3>2. CASE i > d
      <4>1. i - d \in 1..m /\ i - d \in 1..L /\ d + (i - d) = i
        BY <1>num, <3>2
      <4> QED BY <1>ts, <4>1
    <3> QED BY <1>2, <1>4, <3>1, <3>2
  <2>3. Len(rest) <= Rpm /\ Len(rest) <= Len(granted)
    BY <1>1, <1>2, <1>3
  <2> QED
    BY <1>2, <1>4, <2>1, <2>2, <2>3 DEF RemembersTheWindow
<1>6. Ordered'
  BY <1>1 DEF IInv, Ordered
<1>7. RpmApart' /\ LastIsLatest' /\ MinIntervalRespected'
  BY DEF IInv, RpmApart, LastIsLatest, MinIntervalRespected
<1> QED
  BY <1>5, <1>6, <1>7

\* Dropping records that have left the window and granting a permit.
LEMMA PermitKeeps ==
  ASSUME IInv, NEW rest, NEW m, Ends(rest, m, timestamps),
         now' \in Nat, now <= now',
         \A i \in 1..m : timestamps[i] + Window <= now',
         Len(rest) < Rpm, IntervalWait(lastSentAt, now') = 0,
         timestamps' = Append(rest, now'), granted' = Append(granted, now'),
         lastSentAt' = now'
  PROVE  /\ RemembersTheWindow' /\ Ordered' /\ RpmApart'
         /\ LastIsLatest' /\ MinIntervalRespected'
<1> USE LimiterAssumption, NoneAssumption
<1> DEFINE d == Dropped
           n == Len(granted)
<1>1. /\ now \in Nat /\ timestamps \in Seq(Nat) /\ granted \in Seq(Nat)
      /\ Len(timestamps) \in Nat /\ DOMAIN timestamps = 1..Len(timestamps)
      /\ n \in Nat /\ DOMAIN granted = 1..n
      /\ \A i \in 1..n : granted[i] \in Nat
  BY LenProperties, ElementOfSeq DEF IInv, TypeOK
<1>2. /\ rest \in Seq(Nat) /\ m \in 0..Len(timestamps)
      /\ Len(rest) = Len(timestamps) - m /\ Len(rest) \in Nat
      /\ \A i \in 1..Len(rest) : rest[i] = timestamps[m + i]
  BY LenProperties DEF Ends
<1>3. /\ Len(timestamps) <= Rpm /\ Len(timestamps) <= n
      /\ \A i \in 1..Len(timestamps) : timestamps[i] = granted[d + i]
      /\ \A i \in 1..d : granted[i] + Window <= now
  BY <1>1 DEF IInv, RemembersTheWindow
<1>app. ASSUME NEW s \in Seq(Nat)
        PROVE  LET a == Append(s, now')
               IN  /\ a \in Seq(Nat) /\ Len(a) = Len(s) + 1
                   /\ DOMAIN a = 1..(Len(s) + 1) /\ a # << >>
                   /\ \A i \in 1..Len(s) : a[i] = s[i]
                   /\ a[Len(s) + 1] = now'
  <2> DEFINE a == Append(s, now')
  <2>1. /\ a \in Seq(Nat) /\ Len(a) = Len(s) + 1 /\ a # << >>
        /\ \A i \in 1..Len(s) : a[i] = s[i]
        /\ a[Len(s) + 1] = now'
    BY AppendProperties
  <2> HIDE DEF a
  <2>2. DOMAIN a = 1..Len(a)
    BY <2>1, LenProperties
  <2> QED BY <2>1, <2>2 DEF a
<1>4. /\ granted' \in Seq(Nat) /\ Len(granted') = n + 1
      /\ DOMAIN granted' = 1..(n + 1) /\ granted' # << >>
      /\ \A i \in 1..n : granted'[i] = granted[i]
      /\ granted'[n + 1] = now'
  BY <1>1, <1>app
<1>5. /\ timestamps' \in Seq(Nat) /\ Len(timestamps') = Len(rest) + 1
      /\ DOMAIN timestamps' = 1..(Len(rest) + 1)
      /\ \A i \in 1..Len(rest) : timestamps'[i] = rest[i]
      /\ timestamps'[Len(rest) + 1] = now'
  BY <1>2, <1>app
<1>6. d \in Nat /\ d = n - Len(timestamps) /\ Dropped' = d + m
  BY <1>1, <1>2, <1>3, <1>4, <1>5 DEF Dropped
<1> DEFINE L == Len(timestamps)
<1>num. /\ d \in Nat /\ m \in Nat /\ L \in Nat /\ m <= L /\ n \in Nat
        /\ Len(rest) = L - m /\ n = d + L
  BY <1>1, <1>2, <1>3, <1>6
<1>ts. /\ \A i \in 1..Len(rest) : rest[i] = timestamps[m + i]
       /\ \A i \in 1..L : timestamps[i] = granted[d + i]
       /\ \A i \in 1..m : timestamps[i] + Window <= now'
  BY <1>2, <1>3
<1>ord. /\ \A i, j \in 1..n : i <= j => granted[i] <= granted[j]
        /\ \A i \in 1..n : granted[i] \in Nat /\ granted[i] <= now'
  <2>1. /\ \A i, j \in 1..n : i <= j => granted[i] <= granted[j]
        /\ \A i \in 1..n : granted[i] <= now
    BY <1>1 DEF IInv, Ordered
  <2> HIDE DEF n
  <2> QED BY <1>1, <2>1
<1> HIDE DEF d, n, L
<1>7. \A i \in 1..(d + m) : i \in 1..n /\ granted[i] + Window <= now'
  <2> SUFFICES ASSUME NEW i \in 1..(d + m)
               PROVE  i \in 1..n /\ granted[i] + Window <= now'
    OBVIOUS
  <2>1. i \in 1..n
    BY <1>num
  <2>2. CASE i <= d
    BY SMTT(30), <1>1, <1>3, <1>6, <2>1, <2>2
  <2>3. CASE i > d
    <3>1. i - d \in 1..m /\ i - d \in 1..L /\ d + (i - d) = i
      BY <1>num, <2>3
    <3> QED BY <1>ts, <2>1, <3>1
  <2> QED BY <1>2, <1>6, <2>2, <2>3
<1>8. RemembersTheWindow'
  <2>1. \A i \in 1..(Len(rest) + 1) : timestamps'[i] = granted'[(d + m) + i]
    <3> SUFFICES ASSUME NEW i \in 1..(Len(rest) + 1)
                 PROVE  timestamps'[i] = granted'[(d + m) + i]
      OBVIOUS
    <3>1. CASE i \in 1..Len(rest)
      <4>1. /\ m + i \in 1..L /\ d + (m + i) = (d + m) + i
            /\ (d + m) + i \in 1..n
        BY <1>num, <3>1
      <4>2. rest[i] = granted[(d + m) + i]
        BY <1>ts, <3>1, <4>1
      <4> QED BY <1>4, <1>5, <3>1, <4>1, <4>2
    <3>2. CASE i = Len(rest) + 1
      <4>1. (d + m) + i = n + 1
        BY <1>num, <3>2
      <4> QED BY <1>4, <1>5, <3>2, <4>1
    <3>3. i \in 1..Len(rest) \/ i = Len(rest) + 1
      BY <1>num
    <3> QED BY <3>1, <3>2, <3>3
  <2>2. \A i \in 1..(d + m) : granted'[i] + Window <= now'
    BY <1>4, <1>7
  <2>3. Len(timestamps') <= Rpm /\ Len(timestamps') <= Len(granted')
    BY SMTT(30), <1>1, <1>2, <1>3, <1>4, <1>5
  <2> QED
    BY <1>5, <1>6, <2>1, <2>2, <2>3 DEF RemembersTheWindow
<1>9. Ordered'
  <2>1. \A i \in 1..(n + 1) : i \in 1..n \/ i = n + 1
    BY <1>num
  <2>2. ASSUME NEW i \in 1..(n + 1) PROVE granted'[i] <= now'
    BY <1>4, <1>ord, <2>1
  <2>3. ASSUME NEW i \in 1..(n + 1), NEW j \in 1..(n + 1), i <= j
        PROVE  granted'[i] <= granted'[j]
    <3>1. CASE j = n + 1
      BY <1>4, <2>2, <3>1
    <3>2. CASE j \in 1..n
      <4>1. i \in 1..n
        BY <1>num, <2>3, <3>2
      <4> QED BY <1>4, <1>ord, <2>3, <3>2, <4>1
    <3> QED BY <2>1, <3>1, <3>2
  <2> QED
    BY <1>4, <2>2, <2>3 DEF Ordered
<1>10. RpmApart'
  <2> SUFFICES ASSUME NEW i \in 1..(n + 1), NEW j \in 1..(n + 1), j = i + Rpm
               PROVE  granted'[i] + Window <= granted'[j]
    BY <1>4 DEF RpmApart
  <2>1. CASE j \in 1..n
    <3>1. i \in 1..n
      BY <1>1, <2>1
    <3> QED BY <1>1, <1>4, <2>1, <3>1 DEF IInv, RpmApart
  <2>2. CASE j = n + 1
    <3>1. i \in 1..(d + m)
      BY <1>num, <2>2
    <3> QED BY <1>4, <1>7, <2>2, <3>1
  <2> QED BY SMTT(30), <1>1, <2>1, <2>2
<1>11. LastIsLatest'
  BY <1>4 DEF LastIsLatest
<1>12. MinIntervalRespected'
  <2> SUFFICES ASSUME NEW i \in 1..(n + 1), NEW j \in 1..(n + 1), i < j
               PROVE  granted'[j] - granted'[i] >= MinInterval
    BY <1>4 DEF MinIntervalRespected
  <2>1. i \in 1..n /\ (j \in 1..n \/ j = n + 1)
    BY <1>num
  <2>2. CASE j \in 1..n
    BY <1>1, <1>4, <2>1, <2>2 DEF IInv, MinIntervalRespected
  <2>3. CASE j = n + 1
    <3>1. n \in 1..n /\ granted # << >>
      BY <1>1, <2>1, EmptySeq
    <3>2. lastSentAt = granted[n] /\ lastSentAt \in Nat
      BY <1>1, <3>1 DEF IInv, LastIsLatest, n
    <3>3. MinInterval - (now' - granted[n]) <= 0
      BY <3>2 DEF IntervalWait, Later
    <3>4. granted[i] <= granted[n]
      BY <1>ord, <1>num, <2>1, <3>1
    <3>5. granted[i] \in Nat /\ granted[n] \in Nat
      BY <1>ord, <2>1, <3>1
    <3>6. now' - granted[i] >= MinInterval
      BY <3>3, <3>4, <3>5
    <3> QED
      BY <1>4, <2>1, <2>3, <3>6
  <2> QED BY <2>1, <2>2, <2>3
<1> QED
  BY <1>8, <1>9, <1>10, <1>11, <1>12

\* A new limiter satisfies the invariant.
LEMMA InitEstablishes == Init => IInv
<1> SUFFICES ASSUME Init PROVE IInv
  OBVIOUS
<1> USE LimiterAssumption, NoneAssumption DEF Init
<1>1. << >> \in Seq(Nat) /\ Len(<< >>) = 0 /\ DOMAIN << >> = {}
  BY EmptySeq
<1>2. TypeOK
  BY <1>1 DEF TypeOK
<1>3. RemembersTheWindow
  BY <1>1 DEF RemembersTheWindow, Dropped
<1>4. Ordered /\ RpmApart /\ LastIsLatest /\ MinIntervalRespected
  BY <1>1 DEF Ordered, RpmApart, LastIsLatest, MinIntervalRespected
<1> QED
  BY <1>2, <1>3, <1>4 DEF IInv

\* What a caller's iteration does to the records.
LEMMA AttemptKeeps ==
  ASSUME IInv, NEW c \in Callers, Attempt(c)
  PROVE  IInv'
<1> USE LimiterAssumption, NoneAssumption, RateLimiterAssumption
<1>1. PICK t \in now..(now + MaxSlip) :
        LET p == TryAcquire(timestamps, lastSentAt, now, t)
        IN  /\ now' = t
            /\ timestamps' = p.timestamps
            /\ lastSentAt' = p.last
            /\ pc' = [pc EXCEPT ![c] = IF p.granted THEN "outside" ELSE "sleeping"]
            /\ wakeAt' = [wakeAt EXCEPT ![c] = IF p.granted THEN 0 ELSE t + p.wait]
            /\ seen' = [seen EXCEPT ![c] = IF p.granted THEN 0 ELSE Len(granted)]
            /\ granted' = IF p.granted THEN Append(granted, t) ELSE granted
  BY DEF Attempt
<1> DEFINE p == TryAcquire(timestamps, lastSentAt, now, t)
<1>2. /\ now \in Nat /\ timestamps \in Seq(Nat) /\ granted \in Seq(Nat)
      /\ Len(timestamps) <= Rpm /\ lastSentAt \in Nat \cup {None}
      /\ Len(granted) \in Nat
      /\ t \in Nat /\ now <= t /\ now' = t
  BY <1>1, LenProperties DEF IInv, TypeOK, RemembersTheWindow
<1>3. /\ p.granted \in BOOLEAN
      /\ p.last = IF p.granted THEN t ELSE lastSentAt
      /\ p.wait \in Nat
      /\ \E rest, m :
           /\ Ends(rest, m, timestamps)
           /\ \A i \in 1..m : timestamps[i] + Window <= t
           /\ p.timestamps = IF p.granted THEN Append(rest, t) ELSE rest
           /\ p.granted => Len(rest) < Rpm /\ IntervalWait(lastSentAt, t) = 0
  BY <1>2, TryAcquireEffect
<1> HIDE DEF p
<1>4. PICK rest, m :
        /\ Ends(rest, m, timestamps)
        /\ \A i \in 1..m : timestamps[i] + Window <= t
        /\ p.timestamps = IF p.granted THEN Append(rest, t) ELSE rest
        /\ p.granted => Len(rest) < Rpm /\ IntervalWait(lastSentAt, t) = 0
  BY <1>3
<1>5. /\ timestamps' = p.timestamps /\ lastSentAt' = p.last
      /\ pc' = [pc EXCEPT ![c] = IF p.granted THEN "outside" ELSE "sleeping"]
      /\ wakeAt' = [wakeAt EXCEPT ![c] = IF p.granted THEN 0 ELSE t + p.wait]
      /\ seen' = [seen EXCEPT ![c] = IF p.granted THEN 0 ELSE Len(granted)]
      /\ granted' = IF p.granted THEN Append(granted, t) ELSE granted
  BY <1>1 DEF p
<1>6. TypeOK'
  <2>1. rest \in Seq(Nat) /\ Append(rest, t) \in Seq(Nat)
        /\ Append(granted, t) \in Seq(Nat)
    BY <1>2, <1>4, AppendProperties DEF Ends
  <2>2. timestamps' \in Seq(Nat) /\ granted' \in Seq(Nat)
    BY <1>2, <1>4, <1>5, <2>1
  <2>3. now' \in Nat /\ lastSentAt' \in Nat \cup {None}
    BY <1>2, <1>3, <1>5
  <2>4. /\ pc' \in [Callers -> {"outside", "sleeping"}]
        /\ wakeAt' \in [Callers -> Nat] /\ seen' \in [Callers -> Nat]
    BY SMTT(30), <1>2, <1>3, <1>5 DEF IInv, TypeOK
  <2> QED BY <2>2, <2>3, <2>4 DEF TypeOK
<1>7. /\ RemembersTheWindow' /\ Ordered' /\ RpmApart'
      /\ LastIsLatest' /\ MinIntervalRespected'
  <2>1. CASE p.granted
    BY <1>2, <1>3, <1>4, <1>5, <2>1, PermitKeeps
  <2>2. CASE ~ p.granted
    BY <1>2, <1>3, <1>4, <1>5, <2>2, DropKeeps
  <2> QED BY <1>3, <2>1, <2>2
<1> QED
  BY <1>6, <1>7 DEF IInv

\* Steps that leave the records and the permits alone.
LEMMA ElseKeeps ==
  ASSUME IInv, UNCHANGED <<timestamps, lastSentAt, granted>>,
         now' \in Nat, now <= now', TypeOK'
  PROVE  IInv'
<1>1. Ends(timestamps, 0, timestamps)
  BY LenProperties DEF IInv, TypeOK, Ends
<1>2. timestamps' = timestamps /\ granted' = granted /\ lastSentAt' = lastSentAt
  OBVIOUS
<1>3. \A i \in 1..0 : timestamps[i] + Window <= now'
  OBVIOUS
<1> QED
  BY <1>1, <1>2, <1>3, DropKeeps DEF IInv

\* Every step keeps the invariant.
LEMMA NextKeeps == IInv /\ [Next]_vars => IInv'
<1> SUFFICES ASSUME IInv, [Next]_vars PROVE IInv'
  OBVIOUS
<1>1. ASSUME NEW c \in Callers, Attempt(c) PROVE IInv'
  BY <1>1, AttemptKeeps
<1>2. ASSUME NEW c \in Callers, Cancel(c) PROVE IInv'
  BY <1>2, ElseKeeps DEF Cancel, IInv, TypeOK
<1>3. CASE IsAllowed
  <2> DEFINE kept == Cleanup(timestamps, now)
             n    == Expired(timestamps, now)
  <2>1. now \in Nat /\ timestamps \in Seq(Nat) /\ Len(timestamps) \in Nat
    BY LenProperties DEF IInv, TypeOK
  <2>2. n \in 0..Len(timestamps) /\ \A i \in 1..n : Stale(timestamps[i], now)
    BY <2>1, CleanupPops
  <2>3. /\ kept \in Seq(Nat) /\ Len(kept) = Len(timestamps) - n
        /\ \A i \in 1..Len(kept) : kept[i] = timestamps[n + i]
    BY <2>1, CleanupLeaves
  <2>4. /\ timestamps' = kept /\ now' = now
        /\ lastSentAt' = lastSentAt /\ granted' = granted
    BY <1>3 DEF IsAllowed
  <2>5. TypeOK'
    BY <1>3, <2>3, <2>4 DEF IInv, TypeOK, IsAllowed
  <2> HIDE DEF kept, n
  <2>6. Ends(kept, n, timestamps)
    BY <2>2, <2>3 DEF Ends
  <2>7. \A i \in 1..n : timestamps[i] \in Nat /\ timestamps[i] + Window <= now'
    <3> SUFFICES ASSUME NEW i \in 1..n
                 PROVE  timestamps[i] \in Nat /\ timestamps[i] + Window <= now'
      OBVIOUS
    <3>1. i \in 1..Len(timestamps)
      BY <2>1, <2>2
    <3>2. timestamps[i] \in Nat
      BY <2>1, <3>1, ElementOfSeq
    <3> QED BY <2>1, <2>2, <2>4, <3>2, LimiterAssumption DEF Stale
  <2> QED
    BY <2>1, <2>4, <2>5, <2>6, <2>7, DropKeeps DEF IInv
<1>4. CASE Tick
  BY <1>4, ElseKeeps DEF Tick, IInv, TypeOK
<1>5. CASE UNCHANGED vars
  BY <1>5, ElseKeeps DEF vars, IInv, TypeOK
<1> QED
  BY <1>1, <1>2, <1>3, <1>4, <1>5 DEF Next

\* Everything the deque, the interval and the history say holds for ever.
THEOREM Invariant == Spec => []IInv
  BY InitEstablishes, NextKeeps, PTL DEF Spec

-----------------------------------------------------------------------------
(* What follows from it. *)

\* The fields of the limiter and of its callers keep their types.
THEOREM TypeCorrect == Spec => []TypeOK
<1>1. IInv => TypeOK
  BY DEF IInv
<1> QED
  BY Invariant, <1>1, PTL

\* _timestamps is the end of the list of permits, never longer than rpm, and a
\* permit it has forgotten has left the window.
THEOREM DequeIsTheWindow == Spec => []RemembersTheWindow
<1>1. IInv => RemembersTheWindow
  BY DEF IInv
<1> QED
  BY Invariant, <1>1, PTL

\* No two permits are closer than min_interval_ms, whoever took them.
THEOREM Spacing == Spec => []MinIntervalRespected
<1>1. IInv => MinIntervalRespected
  BY DEF IInv
<1> QED
  BY Invariant, <1>1, PTL

\* A set of positions that spans less than k places has at most k elements.
LEMMA SpanBound ==
  ASSUME NEW a \in Int, NEW k \in Nat, NEW S, S \subseteq a..(a + k - 1)
  PROVE  Cardinality(S) \in Nat /\ Cardinality(S) <= k
<1> DEFINE b == a + k - 1
<1>1. b \in Int /\ (IF a > b THEN 0 ELSE b - a + 1) = k
  OBVIOUS
<1> HIDE DEF b
<1>2. IsFiniteSet(a..b) /\ Cardinality(a..b) = k
  BY <1>1, FS_Interval
<1>3. S \in SUBSET (a..b)
  BY DEF b
<1>4. IsFiniteSet(S) /\ Cardinality(S) <= Cardinality(a..b)
  BY <1>2, <1>3, FS_Subset
<1> QED
  BY <1>2, <1>4, FS_CardinalityType

\* The spacing of the permits bounds how many a window holds.
LEMMA InvariantBoundsWindows == IInv => WindowRespected
<1> SUFFICES ASSUME IInv, NEW t \in 0..now
             PROVE  Cardinality({i \in DOMAIN granted :
                                   t - Window < granted[i] /\ granted[i] <= t}) <= Rpm
  BY DEF WindowRespected
<1> USE LimiterAssumption, NoneAssumption
<1> DEFINE n == Len(granted)
           W == {i \in DOMAIN granted : t - Window < granted[i] /\ granted[i] <= t}
<1>1. /\ n \in Nat /\ DOMAIN granted = 1..n /\ t \in Nat
      /\ \A i \in 1..n : granted[i] \in Nat
  BY LenProperties, ElementOfSeq DEF IInv, TypeOK
<1>2. CASE W = {}
  BY <1>2, FS_EmptySet
<1>3. CASE W # {}
  <2>1. W \subseteq Nat
    BY <1>1
  <2> HIDE DEF W
  <2>2. PICK m \in W : \A k \in W : m <= k
    BY <1>3, <2>1, LeastElement
  <2>3. ASSUME NEW i \in W PROVE i \in m..(m + Rpm - 1)
    <3>1. m \in 1..n /\ i \in 1..n /\ m <= i
      BY <1>1, <2>2 DEF W
    <3>2. t - Window < granted[m] /\ granted[i] <= t
      BY <2>2 DEF W
    <3>3. CASE i >= m + Rpm
      <4>1. m + Rpm \in 1..n /\ m + Rpm <= i
        BY <3>1, <3>3
      <4>2. granted[m] + Window <= granted[m + Rpm]
        BY <1>1, <3>1, <4>1 DEF IInv, RpmApart
      <4>3. granted[m + Rpm] <= granted[i]
        BY <1>1, <3>1, <4>1 DEF IInv, Ordered
      <4>4. granted[m] \in Nat /\ granted[i] \in Nat /\ granted[m + Rpm] \in Nat
        BY <1>1, <3>1, <4>1
      <4> QED BY <1>1, <3>2, <4>2, <4>3, <4>4
    <3> QED BY <3>1, <3>3
  <2>4. W \subseteq m..(m + Rpm - 1) /\ m \in Int /\ Rpm \in Nat
    BY <2>1, <2>2, <2>3
  <2> QED BY <2>4, SpanBound DEF W
<1> QED
  BY <1>2, <1>3

\* At most rpm permits in any window, for any number of callers, any clock slip
\* between the two reads and any lateness of the event loop.
THEOREM WindowBound == Spec => []WindowRespected
  BY Invariant, InvariantBoundsWindows, PTL

\* A permit that keeps the invariant is one the promise allows.
LEMMA PermitIsGrantable ==
  ASSUME IInv, IInv', granted' = Append(granted, now')
  PROVE  Promise!Grantable(now')
<1> USE LimiterAssumption, NoneAssumption
<1> DEFINE n == Len(granted)
           d == Dropped'
           W == {i \in DOMAIN granted : granted[i] > now' - Window}
<1>1. /\ now' \in Nat /\ granted \in Seq(Nat) /\ n \in Nat
      /\ DOMAIN granted = 1..n /\ timestamps' \in Seq(Nat)
      /\ Len(timestamps') \in Nat
      /\ \A i \in 1..n : granted[i] \in Nat
  BY LenProperties, ElementOfSeq DEF IInv, TypeOK
<1>2. /\ Len(granted') = n + 1 /\ granted'[n + 1] = now'
      /\ \A i \in 1..n : granted'[i] = granted[i]
      /\ DOMAIN granted' = 1..(n + 1)
  <2>1. granted' \in Seq(Nat) /\ Len(granted') = n + 1
        /\ granted'[n + 1] = now' /\ \A i \in 1..n : granted'[i] = granted[i]
    BY <1>1, AppendProperties
  <2> QED BY <2>1, LenProperties
<1>3. /\ d = (n + 1) - Len(timestamps') /\ Len(timestamps') <= Rpm
      /\ Len(timestamps') <= n + 1
      /\ \A i \in 1..d : granted'[i] + Window <= now'
  BY <1>2 DEF IInv, RemembersTheWindow, Dropped
<1>4. d \in Nat /\ n - d < Rpm
  BY <1>1, <1>3
<1> HIDE DEF d
<1>5. Cardinality(W) < Rpm
  <2>0. n \in Nat /\ DOMAIN granted = 1..n
    BY <1>1
  <2>1. ASSUME NEW i \in W PROVE i \in (d + 1)..n
    <3>1. i \in 1..n /\ granted[i] > now' - Window /\ granted[i] \in Nat
      BY <1>1
    <3>2. CASE i <= d
      <4>1. i \in 1..d
        BY <1>4, <3>1, <3>2
      <4>2. granted[i] + Window <= now'
        BY <1>2, <1>3, <3>1, <4>1
      <4> QED BY <1>1, <3>1, <4>2
    <3> QED BY <1>4, <3>1, <3>2
  <2> HIDE DEF W, n
  <2>2. CASE d <= n
    <3>0. n - d \in Nat /\ d + 1 \in Int /\ (d + 1) + (n - d) - 1 = n
      BY <1>4, <2>0, <2>2
    <3>1. W \subseteq (d + 1)..((d + 1) + (n - d) - 1)
      BY <2>1, <3>0
    <3>2. Cardinality(W) \in Nat /\ Cardinality(W) <= n - d
      BY <3>0, <3>1, SpanBound
    <3> QED BY <1>4, <2>0, <3>2
  <2>3. CASE d > n
    <3>1. W = {}
      BY <1>4, <2>0, <2>1, <2>3
    <3> QED BY <3>1, FS_EmptySet
  <2> QED BY <1>4, <2>0, <2>2, <2>3
<1>6. granted # << >> => now' >= granted[n] + MinInterval
  <2> SUFFICES ASSUME granted # << >> PROVE now' >= granted[n] + MinInterval
    OBVIOUS
  <2>1. n \in 1..n /\ n \in 1..(n + 1) /\ n + 1 \in 1..(n + 1) /\ n < n + 1
    BY <1>1, EmptySeq
  <2>2. granted'[n + 1] - granted'[n] >= MinInterval
    BY <1>2, <2>1 DEF IInv, MinIntervalRespected
  <2> QED BY <1>1, <1>2, <2>1, <2>2
<1>6a. \A S : Promise!Cardinality(S) = Cardinality(S)
  BY DEF Cardinality, Promise!Cardinality, IsFiniteSet, Promise!IsFiniteSet
<1>7. W = Promise!InWindow(now')
  BY DEF Promise!InWindow
<1> HIDE DEF W
<1> QED
  BY <1>5, <1>6, <1>6a, <1>7 DEF Promise!Grantable

\* The limiter implements its promise: each step of the code is a permit that
\* the window and the interval allow, or only the passing of time.
THEOREM KeepsPromise == Spec => PromiseKept
<1>1. Init => Promise!Init
  BY DEF Init, Promise!Init
<1>2. IInv /\ IInv' /\ [Next]_vars => [Promise!Next]_<<now, granted>>
  <2> SUFFICES ASSUME IInv, IInv', [Next]_vars
               PROVE  [Promise!Next]_<<now, granted>>
    OBVIOUS
  <2>1. /\ now \in Nat /\ now' \in Nat
    BY DEF IInv, TypeOK
  <2>2. ASSUME NEW c \in Callers, Attempt(c) PROVE Promise!Next
    <3>1. now <= now' /\ (granted' = granted \/ granted' = Append(granted, now'))
      BY <2>1, <2>2, RateLimiterAssumption DEF Attempt
    <3>2. CASE granted' = granted
      BY <2>1, <3>1, <3>2 DEF Promise!Next, Promise!Advance
    <3>3. CASE granted' = Append(granted, now')
      BY <2>1, <3>1, <3>3, PermitIsGrantable DEF Promise!Next, Promise!Grant
    <3> QED BY <3>1, <3>2, <3>3
  <2>3. ASSUME NEW c \in Callers, Cancel(c) PROVE UNCHANGED <<now, granted>>
    BY <2>3 DEF Cancel
  <2>4. CASE IsAllowed
    BY <2>4 DEF IsAllowed
  <2>5. CASE Tick
    BY <2>1, <2>5 DEF Tick, Promise!Next, Promise!Advance
  <2>6. CASE UNCHANGED vars
    BY <2>6 DEF vars
  <2> QED
    BY <2>2, <2>3, <2>4, <2>5, <2>6 DEF Next
<1> QED
  BY <1>1, <1>2, Invariant, PTL DEF Spec, PromiseKept, Promise!Spec
-----------------------------------------------------------------------------
(* Sleepers, and is_allowed(). *)

\* A sleeper that nobody has overtaken finds what it waits for when it wakes.
SleepersAreRested ==
  \A c \in Callers : pc[c] = "sleeping" =>
    /\ seen[c] <= Len(granted)
    /\ seen[c] = Len(granted) => Rested(timestamps, lastSentAt, wakeAt[c])

\* Steps that take no permit, put nobody to sleep and at most drop records.
LEMMA OthersStayRested ==
  ASSUME IInv, SleepersAreRested, NEW rest, NEW m, Ends(rest, m, timestamps),
         timestamps' = rest, UNCHANGED <<lastSentAt, granted>>,
         NEW c \in Callers, pc[c] = "sleeping",
         seen'[c] = seen[c], wakeAt'[c] = wakeAt[c]
  PROVE  /\ seen'[c] <= Len(granted')
         /\ seen'[c] = Len(granted') => Rested(timestamps', lastSentAt', wakeAt'[c])
<1>1. /\ timestamps \in Seq(Nat) /\ Len(timestamps) <= Rpm
      /\ lastSentAt' = lastSentAt /\ granted' = granted
  BY DEF IInv, TypeOK, RemembersTheWindow
<1>2. /\ seen[c] <= Len(granted)
      /\ seen[c] = Len(granted) => Rested(timestamps, lastSentAt, wakeAt[c])
  BY DEF SleepersAreRested
<1> QED
  BY <1>1, <1>2, CleanupKeepsRested

\* An iteration of acquire() leaves every sleeper rested, or overtaken.
LEMMA AttemptKeepsRested ==
  ASSUME IInv, SleepersAreRested, NEW c \in Callers, Attempt(c)
  PROVE  SleepersAreRested'
<1>1. PICK t \in now..(now + MaxSlip) :
        LET p == TryAcquire(timestamps, lastSentAt, now, t)
        IN  /\ timestamps' = p.timestamps
            /\ lastSentAt' = p.last
            /\ pc' = [pc EXCEPT ![c] = IF p.granted THEN "outside" ELSE "sleeping"]
            /\ wakeAt' = [wakeAt EXCEPT ![c] = IF p.granted THEN 0 ELSE t + p.wait]
            /\ seen' = [seen EXCEPT ![c] = IF p.granted THEN 0 ELSE Len(granted)]
            /\ granted' = IF p.granted THEN Append(granted, t) ELSE granted
  BY DEF Attempt
<1> DEFINE p == TryAcquire(timestamps, lastSentAt, now, t)
<1>2. /\ now \in Nat /\ timestamps \in Seq(Nat) /\ granted \in Seq(Nat)
      /\ Len(timestamps) <= Rpm /\ lastSentAt \in Nat \cup {None}
      /\ Len(granted) \in Nat /\ t \in Nat /\ now <= t
      /\ pc \in [Callers -> {"outside", "sleeping"}]
      /\ wakeAt \in [Callers -> Nat] /\ seen \in [Callers -> Nat]
  BY <1>1, LenProperties, RateLimiterAssumption DEF IInv, TypeOK, RemembersTheWindow
<1>3. /\ timestamps' = p.timestamps /\ lastSentAt' = p.last
      /\ pc' = [pc EXCEPT ![c] = IF p.granted THEN "outside" ELSE "sleeping"]
      /\ wakeAt' = [wakeAt EXCEPT ![c] = IF p.granted THEN 0 ELSE t + p.wait]
      /\ seen' = [seen EXCEPT ![c] = IF p.granted THEN 0 ELSE Len(granted)]
      /\ granted' = IF p.granted THEN Append(granted, t) ELSE granted
  BY <1>1 DEF p
<1>4. /\ p.granted \in BOOLEAN
      /\ p.last = IF p.granted THEN t ELSE lastSentAt
      /\ \E rest, m :
           /\ Ends(rest, m, timestamps)
           /\ \A i \in 1..m : timestamps[i] + Window <= t
           /\ p.timestamps = IF p.granted THEN Append(rest, t) ELSE rest
           /\ p.granted => Len(rest) < Rpm /\ IntervalWait(lastSentAt, t) = 0
  BY <1>2, TryAcquireEffect
<1>5. ~ p.granted => Rested(p.timestamps, lastSentAt, t + p.wait)
  BY <1>2, SleepIsLongEnough
<1> HIDE DEF p
<1> SUFFICES ASSUME NEW d \in Callers, pc'[d] = "sleeping"
             PROVE  /\ seen'[d] <= Len(granted')
                    /\ seen'[d] = Len(granted')
                         => Rested(timestamps', lastSentAt', wakeAt'[d])
  BY DEF SleepersAreRested
<1>6. CASE p.granted
  <2>1. d # c /\ pc[d] = "sleeping" /\ seen'[d] = seen[d]
    BY <1>2, <1>3, <1>6
  <2>2. Len(granted') = Len(granted) + 1
    BY <1>2, <1>3, <1>6, AppendProperties
  <2>3. seen[d] \in Nat /\ seen[d] <= Len(granted)
    BY <1>2, <2>1 DEF SleepersAreRested
  <2> QED BY <1>2, <2>1, <2>2, <2>3
<1>7. CASE ~ p.granted
  <2>1. timestamps' = p.timestamps /\ lastSentAt' = lastSentAt /\ granted' = granted
    BY <1>3, <1>4, <1>7
  <2>2. CASE d = c
    <3>1. seen'[d] = Len(granted) /\ wakeAt'[d] = t + p.wait
      BY <1>2, <1>3, <1>7, <2>2
    <3> QED BY <1>2, <1>5, <1>7, <2>1, <3>1
  <2>3. CASE d # c
    <3>1. pc[d] = "sleeping" /\ seen'[d] = seen[d] /\ wakeAt'[d] = wakeAt[d]
      BY <1>2, <1>3, <2>3
    <3>2. PICK rest, m : Ends(rest, m, timestamps) /\ timestamps' = rest
      BY <1>3, <1>4, <1>7
    <3> QED BY <2>1, <3>1, <3>2, OthersStayRested
  <2> QED BY <2>2, <2>3
<1> QED
  BY <1>4, <1>6, <1>7

\* Every step leaves every sleeper rested, or overtaken.
LEMMA NextKeepsRested ==
  IInv /\ SleepersAreRested /\ [Next]_vars => SleepersAreRested'
<1> SUFFICES ASSUME IInv, SleepersAreRested, [Next]_vars PROVE SleepersAreRested'
  OBVIOUS
<1>1. ASSUME NEW c \in Callers, Attempt(c) PROVE SleepersAreRested'
  BY <1>1, AttemptKeepsRested
<1>2. ASSUME NEW rest, NEW m, Ends(rest, m, timestamps), timestamps' = rest,
             UNCHANGED <<lastSentAt, granted>>,
             \A c \in Callers : pc'[c] = "sleeping" =>
               pc[c] = "sleeping" /\ seen'[c] = seen[c] /\ wakeAt'[c] = wakeAt[c]
      PROVE  SleepersAreRested'
  BY <1>2, OthersStayRested DEF SleepersAreRested
<1>3. /\ timestamps \in Seq(Nat) /\ now \in Nat
      /\ pc \in [Callers -> {"outside", "sleeping"}]
      /\ wakeAt \in [Callers -> Nat] /\ seen \in [Callers -> Nat]
      /\ Ends(timestamps, 0, timestamps)
  BY LenProperties DEF IInv, TypeOK, Ends
<1>4. ASSUME NEW c \in Callers, Cancel(c) PROVE SleepersAreRested'
  <2>1. /\ timestamps' = timestamps /\ UNCHANGED <<lastSentAt, granted>>
        /\ \A d \in Callers : pc'[d] = "sleeping" =>
             pc[d] = "sleeping" /\ seen'[d] = seen[d] /\ wakeAt'[d] = wakeAt[d]
    BY <1>3, <1>4 DEF Cancel
  <2> QED BY <1>2, <1>3, <2>1
<1>5. CASE IsAllowed
  <2>1. /\ timestamps' = Cleanup(timestamps, now) /\ UNCHANGED <<lastSentAt, granted>>
        /\ pc' = pc /\ seen' = seen /\ wakeAt' = wakeAt
    BY <1>5 DEF IsAllowed
  <2>2. Ends(timestamps', Expired(timestamps, now), timestamps)
    BY <1>3, <2>1, CleanupPops, CleanupLeaves DEF Ends
  <2> QED BY <1>2, <2>1, <2>2
<1>6. CASE Tick \/ UNCHANGED vars
  <2>1. /\ timestamps' = timestamps /\ UNCHANGED <<lastSentAt, granted>>
        /\ pc' = pc /\ seen' = seen /\ wakeAt' = wakeAt
    BY <1>6 DEF Tick, vars
  <2> QED BY <1>2, <1>3, <2>1
<1> QED
  BY <1>1, <1>4, <1>5, <1>6 DEF Next

\* For as long as nobody overtakes it, a sleeper's wait is long enough.
THEOREM WaitsSuffice == Spec => []SleepersAreRested
<1>1. Init => SleepersAreRested
  BY DEF Init, SleepersAreRested
<1> QED
  BY <1>1, Invariant, NextKeepsRested, PTL DEF Spec

\* A step that sends a sleeper back to sleep.
LEMMA ResleepStep ==
  IInv /\ SleepersAreRested /\ [Next]_vars =>
    [\A c \in Callers :
       pc[c] = "sleeping" /\ pc'[c] = "sleeping" /\ wakeAt'[c] # wakeAt[c]
         => Len(granted) > seen[c]]_vars
<1> SUFFICES ASSUME IInv, SleepersAreRested, [Next]_vars, NEW c \in Callers,
                    pc[c] = "sleeping", pc'[c] = "sleeping", wakeAt'[c] # wakeAt[c]
             PROVE  Len(granted) > seen[c]
  OBVIOUS
<1>1. /\ now \in Nat /\ timestamps \in Seq(Nat) /\ Len(granted) \in Nat
      /\ Len(timestamps) <= Rpm /\ lastSentAt \in Nat \cup {None}
      /\ pc \in [Callers -> {"outside", "sleeping"}]
      /\ wakeAt \in [Callers -> Nat] /\ seen \in [Callers -> Nat]
  BY LenProperties DEF IInv, TypeOK, RemembersTheWindow
<1>2. PICK d \in Callers : Attempt(d)
  BY DEF Next, Cancel, IsAllowed, Tick, vars, IInv, TypeOK
<1>3. PICK t \in now..(now + MaxSlip) :
        LET p == TryAcquire(timestamps, lastSentAt, now, t)
        IN  /\ pc' = [pc EXCEPT ![d] = IF p.granted THEN "outside" ELSE "sleeping"]
            /\ wakeAt' = [wakeAt EXCEPT ![d] = IF p.granted THEN 0 ELSE t + p.wait]
  BY <1>2 DEF Attempt
<1> DEFINE p == TryAcquire(timestamps, lastSentAt, now, t)
<1>4. d = c /\ now >= wakeAt[c] /\ ~ p.granted
  <2>1. d = c
    BY <1>1, <1>3
  <2>2. ~ p.granted
    BY <1>1, <1>3, <2>1
  <2> QED BY <1>2, <2>1, <2>2 DEF Attempt, MayTry
<1>5. t \in Nat /\ now <= t
  BY <1>1, <1>3, RateLimiterAssumption
<1>6. ~ Rested(timestamps, lastSentAt, wakeAt[c])
  <2> SUFFICES ASSUME Rested(timestamps, lastSentAt, wakeAt[c]) PROVE p.granted
    BY <1>4
  <2> QED BY <1>1, <1>4, <1>5, RestedIsGranted
<1>7. seen[c] \in Nat /\ seen[c] <= Len(granted) /\ seen[c] # Len(granted)
  BY <1>1, <1>6 DEF SleepersAreRested
<1> QED
  BY <1>1, <1>7

\* The wait that acquire() computes is long enough: a caller goes back to sleep
\* only when another one has taken its permit (rate_limiter.py:59-90).
THEOREM NeverResleepsAlone == Spec => ResleepsOnlyIfOvertaken
BY Invariant, WaitsSuffice, ResleepStep, PTL DEF Spec, ResleepsOnlyIfOvertaken

\* is_allowed() and acquire() agree at every instant (rate_limiter.py:40-50, 59-90).
THEOREM AllowedAgrees == Spec => []IsAllowedAgrees
<1>1. IInv => IsAllowedAgrees
  BY AllowedIsGranted DEF IInv, TypeOK, IsAllowedAgrees
<1> QED
  BY <1>1, Invariant, PTL
=============================================================================
