----------------------------- MODULE LineProofs -----------------------------
(***************************************************************************)
(* Facts about a line of requests that the proofs about the queue of the   *)
(* pipeline and about the abstract service share: who is in it once its    *)
(* head has left, and once somebody has joined; and the first element of a *)
(* set of positions.                                                       *)
(***************************************************************************)
EXTENDS Sequences, Integers, SequenceTheorems, WellFoundedInduction, TLAPS

\* A set of naturals that is not empty has a least element.
LEMMA LeastElement ==
  ASSUME NEW S, S \subseteq Nat, S # {}
  PROVE  \E m \in S : \A k \in S : m <= k
<1> DEFINE R == OpToRel(<, Nat)
<1>1. \E m \in S : \A k \in S : ~ (<<k, m>> \in R)
  BY NatLessThanWellFounded, WFMin
<1>2. \A k, m \in Nat : <<k, m>> \in R <=> k < m
  BY DEF OpToRel
<1> HIDE DEF R
<1>3. \A k, m \in Nat : ~ (k < m) => m <= k
  OBVIOUS
<1> QED
  BY <1>1, <1>2, <1>3

Within(line, r) == \E i \in DOMAIN line : line[i] = r

NoRepeat(line) == \A i, j \in DOMAIN line : line[i] = line[j] => i = j

\* The line after its head has left.
LEMMA TailOfLine ==
  ASSUME NEW S, NEW line \in Seq(S), line # << >>
  PROVE  /\ Head(line) \in S /\ Tail(line) \in Seq(S)
         /\ Len(Tail(line)) = Len(line) - 1
         /\ \A r : Within(line, r) <=> r = Head(line) \/ Within(Tail(line), r)
         /\ NoRepeat(line) => NoRepeat(Tail(line)) /\ ~ Within(Tail(line), Head(line))
<1>1. /\ Tail(line) \in Seq(S) /\ Head(line) \in S /\ Head(line) = line[1]
      /\ Len(line) \in Nat \ {0} /\ Len(Tail(line)) = Len(line) - 1
      /\ \A i \in 1..Len(Tail(line)) : Tail(line)[i] = line[i + 1]
  BY HeadTailProperties, LenProperties, EmptySeq
<1>2. DOMAIN line = 1..Len(line) /\ DOMAIN Tail(line) = 1..(Len(line) - 1)
  BY <1>1, LenProperties
<1>3. \A i \in 1..Len(line) : i = 1 \/ (i - 1 \in 1..(Len(line) - 1) /\ (i - 1) + 1 = i)
  BY <1>1
<1>4. \A i \in 1..(Len(line) - 1) : i + 1 \in 1..Len(line) /\ i + 1 # 1
  BY <1>1
<1>5. 1 \in DOMAIN line
  BY <1>1, <1>2
<1>6. ASSUME NEW r, Within(line, r) PROVE r = Head(line) \/ Within(Tail(line), r)
  BY ZenonT(60), <1>1, <1>2, <1>3, <1>6 DEF Within
<1>7. ASSUME NEW r, r = Head(line) \/ Within(Tail(line), r) PROVE Within(line, r)
  BY <1>1, <1>2, <1>4, <1>5, <1>7 DEF Within
<1>8. ASSUME NoRepeat(line) PROVE NoRepeat(Tail(line)) /\ ~ Within(Tail(line), Head(line))
  <2>1. ASSUME NEW i \in DOMAIN Tail(line), NEW j \in DOMAIN Tail(line),
               Tail(line)[i] = Tail(line)[j]
        PROVE  i = j
    <3>1. i + 1 = j + 1
      BY <1>1, <1>2, <1>4, <1>8, <2>1 DEF NoRepeat
    <3> QED BY <1>2, <3>1
  <2>2. ASSUME NEW i \in DOMAIN Tail(line), Tail(line)[i] = Head(line) PROVE FALSE
    BY <1>1, <1>2, <1>4, <1>5, <1>8, <2>2 DEF NoRepeat
  <2> QED BY <2>1, <2>2 DEF NoRepeat, Within
<1> QED
  BY <1>1, <1>6, <1>7, <1>8

\* The line after q has joined at its end.
LEMMA AppendToLine ==
  ASSUME NEW S, NEW line \in Seq(S), NEW q \in S
  PROVE  /\ Append(line, q) \in Seq(S)
         /\ Len(Append(line, q)) = Len(line) + 1
         /\ \A r : Within(Append(line, q), r) <=> r = q \/ Within(line, r)
         /\ NoRepeat(line) /\ ~ Within(line, q) => NoRepeat(Append(line, q))
<1> DEFINE s == Append(line, q)
<1>1. /\ s \in Seq(S) /\ Len(line) \in Nat /\ Len(s) = Len(line) + 1
      /\ \A i \in 1..Len(line) : s[i] = line[i]
      /\ s[Len(line) + 1] = q
  BY AppendProperties, LenProperties
<1>2. DOMAIN line = 1..Len(line) /\ DOMAIN s = 1..(Len(line) + 1)
  BY <1>1, LenProperties
<1> HIDE DEF s
<1>3. \A i \in 1..(Len(line) + 1) : i \in 1..Len(line) \/ i = Len(line) + 1
  BY <1>1
<1>4. 1..Len(line) \subseteq 1..(Len(line) + 1) /\ Len(line) + 1 \in 1..(Len(line) + 1)
  BY <1>1
<1>5. ASSUME NEW r, Within(s, r) PROVE r = q \/ Within(line, r)
  BY <1>1, <1>2, <1>3, <1>5 DEF Within
<1>6. ASSUME NEW r, r = q \/ Within(line, r) PROVE Within(s, r)
  BY <1>1, <1>2, <1>4, <1>6 DEF Within
<1>7. ASSUME NoRepeat(line), ~ Within(line, q) PROVE NoRepeat(s)
  BY <1>1, <1>2, <1>3, <1>7 DEF NoRepeat, Within
<1> QED
  BY <1>1, <1>5, <1>6, <1>7 DEF s

\* Nobody is in an empty line.
LEMMA EmptyLine == NoRepeat(<< >>) /\ \A r : ~ Within(<< >>, r)
BY EmptySeq, LenProperties DEF NoRepeat, Within
=============================================================================
