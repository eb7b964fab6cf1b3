--------------------------- MODULE IngressProofs ---------------------------
(***************************************************************************)
(* Theorems about Ingress, for any requests, any capacity of the line, any *)
(* errors and any command lines.  The argument: the worker changes the     *)
(* answer of a client only while it is pending, and a client is pending    *)
(* only while its handler is open; so what an ended handler has told its   *)
(* client stays true.                                                      *)
(***************************************************************************)
EXTENDS Ingress, LineProofs, FiniteSetTheorems

Answers == {"none", "refused", "pending", "gone"} \cup Outcomes

\* What is in the line or in the worker's hand.
Owed(r) == InLine(r) \/ inHand = r
-----------------------------------------------------------------------------
\* An outcome is never mistaken for a state of waiting.
LEMMA AnswersAreDistinct ==
  /\ Outcomes \cap {"none", "refused", "pending", "gone"} = {}
  /\ "ok" \in Outcomes /\ "ok" \notin Errors
  /\ LocalErrors \subseteq Outcomes
BY ServiceAssumption DEF Outcomes

\* Answered reaches a client that waits, and no other.
LEMMA AnsweredEffect ==
  ASSUME answer \in [Requests -> Answers], NEW r \in Requests, NEW o \in Outcomes
  PROVE  /\ Answered(r, o) \in [Requests -> Answers]
         /\ Answered(r, o)[r] # "pending"
         /\ \A q \in Requests : \/ Answered(r, o)[q] = answer[q]
                                \/ answer[q] = "pending" /\ Answered(r, o)[q] \in Outcomes
<1>1. o \in Answers /\ o # "pending"
  BY AnswersAreDistinct DEF Answers
<1>2. CASE answer[r] = "pending"
  <2>1. Answered(r, o) = [answer EXCEPT ![r] = o]
    BY <1>2 DEF Answered
  <2> QED
    BY <1>1, <1>2, <2>1
<1>3. CASE answer[r] # "pending"
  BY <1>3 DEF Answered
<1> QED
  BY <1>2, <1>3

-----------------------------------------------------------------------------
(* What a step of the worker or of the lifespan does to the clients. *)

ServiceTypeOK ==
  /\ phase \in {"serving", "draining", "stopped"}
  /\ waiting \in Seq(Requests) /\ Len(waiting) <= Capacity
  /\ inHand \in Requests \cup {None} /\ sent \in BOOLEAN
  /\ answer \in [Requests -> Answers]
  /\ heard \subseteq Streams

LeavesClients ==
  /\ ServiceTypeOK'
  /\ phase # "serving" => phase' # "serving"
  /\ phase = "stopped" => phase' = "stopped"
  /\ \A r \in Requests : Owed(r)' => Owed(r)
  /\ \A r \in Requests : \/ answer'[r] = answer[r]
                         \/ answer[r] = "pending" /\ answer'[r] \in Outcomes
  /\ \A r \in Requests : answer'[r] = "pending" /\ Owed(r) => Owed(r)' \/ phase' = "stopped"

\* Who leaves the line is in the worker's hand or has been answered.
LEMMA TakeLeavesClients == ServiceTypeOK /\ Take => LeavesClients
<1> SUFFICES ASSUME ServiceTypeOK, Take PROVE LeavesClients
  OBVIOUS
<1>1. /\ Len(waiting) \in Nat /\ waiting \in Seq(Requests) /\ waiting # << >>
      /\ inHand = None /\ phase # "stopped" /\ phase' = phase /\ heard' = heard
      /\ waiting' = Tail(waiting)
  BY LenProperties DEF ServiceTypeOK, Take
<1>2. /\ Head(waiting) \in Requests /\ waiting' \in Seq(Requests)
      /\ Len(waiting') = Len(waiting) - 1
      /\ \A r : InLine(r) <=> r = Head(waiting) \/ InLine(r)'
  <2>1. /\ Head(waiting) \in Requests /\ Tail(waiting) \in Seq(Requests)
        /\ Len(Tail(waiting)) = Len(waiting) - 1
        /\ \A r : Within(waiting, r) <=> r = Head(waiting) \/ Within(Tail(waiting), r)
    BY <1>1, TailOfLine
  <2>2. \A r : (InLine(r) <=> Within(waiting, r)) /\ (InLine(r)' <=> Within(waiting', r))
    BY DEF InLine, Within
  <2> QED
    BY <1>1, <2>1, <2>2
<1>3. Len(waiting') <= Capacity
  BY <1>1, <1>2, ServiceAssumption DEF ServiceTypeOK
<1>4. CASE inHand' = Head(waiting) /\ sent' \in BOOLEAN /\ answer' = answer
  <2>1. ServiceTypeOK'
    BY <1>1, <1>2, <1>3, <1>4 DEF ServiceTypeOK
  <2>2. \A r \in Requests : Owed(r)' <=> Owed(r)
    BY <1>1, <1>2, <1>4, ServiceAssumption DEF Owed
  <2> QED
    BY <1>1, <1>4, <2>1, <2>2 DEF LeavesClients
<1>5. CASE /\ \E e \in LocalErrors : answer' = Answered(Head(waiting), e)
           /\ inHand' = inHand /\ sent' = sent
  <2>1. PICK e \in LocalErrors : answer' = Answered(Head(waiting), e)
    BY <1>5
  <2>2. /\ answer' \in [Requests -> Answers]
        /\ answer'[Head(waiting)] # "pending"
        /\ \A q \in Requests : \/ answer'[q] = answer[q]
                               \/ answer[q] = "pending" /\ answer'[q] \in Outcomes
    BY <1>2, <2>1, AnsweredEffect, AnswersAreDistinct DEF ServiceTypeOK
  <2>3. ServiceTypeOK'
    BY <1>1, <1>2, <1>3, <1>5, <2>2 DEF ServiceTypeOK
  <2>4. \A r \in Requests : /\ Owed(r)' => Owed(r)
                            /\ Owed(r) => Owed(r)' \/ r = Head(waiting)
    BY <1>1, <1>2, <1>5, ServiceAssumption DEF Owed
  <2> QED
    BY <1>1, <2>2, <2>3, <2>4 DEF LeavesClients
<1> QED
  BY <1>4, <1>5 DEF Take

\* Who leaves the worker's hand has been answered, or had left.
LEMMA FinishLeavesClients ==
  ASSUME ServiceTypeOK, NEW o \in Outcomes, Finish(o)
  PROVE  LeavesClients
<1>1. /\ inHand \in Requests /\ answer' = Answered(inHand, o)
      /\ inHand' = None /\ sent' = FALSE
      /\ phase' = phase /\ waiting' = waiting /\ heard' = heard
  BY DEF Finish, ServiceTypeOK
<1>2. /\ answer' \in [Requests -> Answers]
      /\ answer'[inHand] # "pending"
      /\ \A q \in Requests : \/ answer'[q] = answer[q]
                             \/ answer[q] = "pending" /\ answer'[q] \in Outcomes
  BY <1>1, AnsweredEffect DEF ServiceTypeOK
<1>3. \A r : InLine(r)' <=> InLine(r)
  BY <1>1 DEF InLine
<1>4. None \notin Requests
  BY ServiceAssumption
<1> QED
  BY <1>1, <1>2, <1>3, <1>4 DEF LeavesClients, ServiceTypeOK, Owed

\* Stopping the worker forgets the request in hand, and nobody else.
LEMMA HaltLeavesClients == ServiceTypeOK /\ Halt => LeavesClients
<1> SUFFICES ASSUME ServiceTypeOK, Halt PROVE LeavesClients
  OBVIOUS
<1>1. /\ phase' = "stopped" /\ inHand' = None /\ sent' = FALSE
      /\ waiting' = waiting /\ heard' = heard
  BY DEF Halt
<1>2. /\ answer' \in [Requests -> Answers]
      /\ \A q \in Requests : \/ answer'[q] = answer[q]
                             \/ answer[q] = "pending" /\ answer'[q] \in Outcomes
  <2>1. CASE inHand \in Streams /\ sent
    BY <2>1, AnsweredEffect, AnswersAreDistinct DEF Halt, ServiceTypeOK, Requests
  <2>2. CASE ~ (inHand \in Streams /\ sent)
    BY <2>2 DEF Halt, ServiceTypeOK
  <2> QED
    BY <2>1, <2>2
<1>3. \A r : InLine(r)' <=> InLine(r)
  BY <1>1 DEF InLine
<1>4. None \notin Requests
  BY ServiceAssumption
<1> QED
  BY <1>1, <1>2, <1>3, <1>4 DEF LeavesClients, ServiceTypeOK, Owed

\* So does every step of the worker and of the lifespan (processor.py:162-410).
LEMMA WorkerLeavesClients ==
  ASSUME ServiceTypeOK, \/ Take \/ Send \/ CloseDoor \/ Halt
                        \/ \E o \in Outcomes : Finish(o)
  PROVE  LeavesClients
<1>1. ASSUME Send \/ CloseDoor PROVE LeavesClients
  <2>1. /\ inHand' = inHand /\ waiting' = waiting /\ answer' = answer /\ heard' = heard
        /\ sent' \in BOOLEAN
        /\ phase' = phase \/ (phase = "serving" /\ phase' = "draining")
    BY <1>1 DEF Send, CloseDoor, ServiceTypeOK
  <2> \A r : InLine(r)' <=> InLine(r)
    BY <2>1 DEF InLine
  <2>2. \A r \in Requests : Owed(r)' <=> Owed(r)
    BY <2>1 DEF Owed
  <2>3. ServiceTypeOK'
    BY <2>1 DEF ServiceTypeOK
  <2> QED
    BY <2>1, <2>2, <2>3 DEF LeavesClients
<1> QED
  BY <1>1, TakeLeavesClients, FinishLeavesClients, HaltLeavesClients
-----------------------------------------------------------------------------
(* The invariant. *)

\* The edge's part of TypeOK.
EdgeTypeOK ==
  /\ server \in {"down", "built", "up", "failed"}
  /\ server = "down" => launch \in Launches
  /\ envFile \in Paths \cup {DefaultFile, NotFound, None}
  /\ stage \in [Requests -> {"none", "body", "open", "ended"}]
  /\ form \in [Requests -> Forms \cup {None}]
  /\ status \in [Requests -> {0, 200, 400, 404, 429, 500, 502, 503, 504}]
  /\ probe \in {"none", "ready", "shutting_down"}

\* The flag that a probe was told of is still set.
ProbeIsTrue == probe = "shutting_down" => phase # "serving"

\* What every client may rely on, for one request.
Honest(r) ==
  /\ stage[r] \in {"none", "body"} => answer[r] = "none" /\ form[r] = None
  /\ stage[r] = "open" =>
       /\ answer[r] \in {"pending"} \cup Outcomes
       /\ answer[r] = "pending" => Owed(r) \/ phase = "stopped"
       /\ r \in Streams => status[r] = 200
  /\ Owed(r) => answer[r] \notin {"none", "refused"}
  /\ stage[r] = "ended" =>
       /\ answer[r] # "pending"
       /\ answer[r] = "refused" => status[r] = 503
       /\ answer[r] = "none" /\ form[r] = None => status[r] = 503
       /\ answer[r] = "none" /\ form[r] = "object" => status[r] \in {400, 404}
       /\ r \in Streams /\ answer[r] \notin {"none", "refused"} => status[r] = 200
       /\ r \in Plain =>
            /\ status[r] = 200 => answer[r] = "ok"
            /\ status[r] = 429 => answer[r] = "RateLimitError"
            /\ answer[r] \in {"gone", "Timeout"} => status[r] = 504
            /\ answer[r] = "ok" => status[r] \in {200, 504}

IInv == /\ EdgeTypeOK /\ ServiceTypeOK /\ ProbeIsTrue
        /\ \A r \in Requests : Honest(r)

\* The invariant is strong enough.
LEMMA InvariantImplies == IInv => TypeOK /\ HandlersAreOwed /\ StatusTellsTheTruth
<1> SUFFICES ASSUME IInv PROVE TypeOK /\ HandlersAreOwed /\ StatusTellsTheTruth
  OBVIOUS
<1>1. TypeOK
  BY DEF IInv, TypeOK, EdgeTypeOK, ServiceTypeOK, Answers
<1>2. HandlersAreOwed
  BY DEF IInv, HandlersAreOwed, Honest, Owed
<1>3. StatusTellsTheTruth
  BY DEF IInv, StatusTellsTheTruth, Honest
<1> QED
  BY <1>1, <1>2, <1>3

\* The worker's steps keep it: an ended handler's client is never pending.
LEMMA WorkerKeeps ==
  ASSUME IInv, LeavesClients, UNCHANGED edgeVars
  PROVE  IInv'
<1>1. /\ EdgeTypeOK /\ ServiceTypeOK /\ ProbeIsTrue
      /\ \A r \in Requests : Honest(r)
  BY DEF IInv
<1>2. /\ server' = server /\ launch' = launch /\ envFile' = envFile
      /\ stage' = stage /\ form' = form /\ status' = status /\ probe' = probe
  BY DEF edgeVars
<1>3. EdgeTypeOK' /\ ServiceTypeOK' /\ ProbeIsTrue'
  BY <1>1, <1>2 DEF EdgeTypeOK, LeavesClients, ProbeIsTrue
<1>4. ASSUME NEW r \in Requests PROVE Honest(r)'
  <2>1. /\ Honest(r)
        /\ Owed(r)' => Owed(r)
        /\ answer'[r] = answer[r] \/ (answer[r] = "pending" /\ answer'[r] \in Outcomes)
        /\ answer'[r] = "pending" /\ Owed(r) => Owed(r)' \/ phase' = "stopped"
        /\ phase = "stopped" => phase' = "stopped"
    BY <1>1 DEF LeavesClients
  <2>2. CASE answer'[r] = answer[r]
    BY <1>2, <2>1, <2>2 DEF Honest
  <2>3. CASE answer[r] = "pending" /\ answer'[r] \in Outcomes
    <3>1. stage[r] = "open"
      BY <1>1, <2>1, <2>3 DEF Honest, EdgeTypeOK
    <3> QED
      BY <1>2, <2>1, <2>3, <3>1, AnswersAreDistinct DEF Honest
  <2> QED
    BY <2>1, <2>2, <2>3
<1> QED
  BY <1>3, <1>4 DEF IInv
-----------------------------------------------------------------------------
(* The steps of the edge concern one request each. *)

Codes == {200, 400, 404, 429, 500, 502, 503, 504}

OnlyConcerns(r) ==
  /\ EdgeTypeOK' /\ ServiceTypeOK'
  /\ probe' = probe /\ phase' = phase
  /\ \A q \in Requests \ {r} :
       /\ stage'[q] = stage[q] /\ form'[q] = form[q]
       /\ status'[q] = status[q] /\ answer'[q] = answer[q]
       /\ Owed(q)' <=> Owed(q)

\* A step that concerns r alone leaves every other client's part true.
LEMMA OthersKeep ==
  ASSUME IInv, NEW r \in Requests, OnlyConcerns(r), Honest(r)'
  PROVE  IInv'
<1>1. ProbeIsTrue'
  BY DEF IInv, ProbeIsTrue, OnlyConcerns
<1>2. ASSUME NEW q \in Requests \ {r} PROVE Honest(q)'
  <2>1. Honest(q)
    BY DEF IInv
  <2>2. /\ stage'[q] = stage[q] /\ form'[q] = form[q]
        /\ status'[q] = status[q] /\ answer'[q] = answer[q]
        /\ Owed(q)' <=> Owed(q)
        /\ phase' = phase
    BY DEF OnlyConcerns
  <2> QED
    BY <2>1, <2>2 DEF Honest
<1>3. ASSUME NEW q \in Requests PROVE Honest(q)'
  BY <1>2
<1> QED
  BY <1>1, <1>3 DEF IInv, OnlyConcerns

\* What Ends does, and what every status is.
LEMMA EndsEffect ==
  ASSUME EdgeTypeOK, NEW r \in Requests, NEW code \in Codes, Ends(r, code)
  PROVE  /\ stage' \in [Requests -> {"none", "body", "open", "ended"}]
         /\ status' \in [Requests -> {0} \cup Codes]
         /\ stage'[r] = "ended" /\ status'[r] = code
         /\ \A q \in Requests \ {r} : stage'[q] = stage[q] /\ status'[q] = status[q]
BY DEF EdgeTypeOK, Ends, Codes

\* 504, 429 and 503 each stand for one class of errors (app.py:372-390).
LEMMA StatusOfEffect ==
  ASSUME NEW e
  PROVE  /\ StatusOf(e) \in Codes \ {200}
         /\ StatusOf(e) = 504 <=> e = "Timeout"
         /\ StatusOf(e) = 429 <=> e = "RateLimitError"
         /\ e = "ServiceUnavailableError" => StatusOf(e) = 503
BY DEF StatusOf, Codes

\* A body is never turned away with a status that speaks of the service, nor an
\* object with one that speaks of the server.
LEMMA VerdictEffect ==
  ASSUME NEW b \in Bodies
  PROVE  /\ b.form \in Forms
         /\ Verdict(b) \in {200, 400, 404, 500}
         /\ b.form = "object" => Verdict(b) # 500
BY DEF Verdict, StatusOf, Bodies

\* Steps in which the service rests.
LEMMA IdleService ==
  ASSUME ServiceTypeOK, UNCHANGED serviceVars
  PROVE  ServiceTypeOK' /\ \A q : Owed(q)' <=> Owed(q)
<1>1. /\ phase' = phase /\ waiting' = waiting /\ inHand' = inHand /\ sent' = sent
      /\ answer' = answer /\ heard' = heard
  BY DEF serviceVars
<1>2. \A q : InLine(q)' <=> InLine(q)
  BY <1>1 DEF InLine
<1> QED
  BY <1>1, <1>2 DEF ServiceTypeOK, Owed

\* The middleware answers 503 or lets the body be read.
LEMMA ArriveKeeps ==
  ASSUME IInv, NEW r \in Requests, Arrive(r)
  PROVE  IInv'
<1>1. /\ EdgeTypeOK /\ ServiceTypeOK /\ Honest(r) /\ stage[r] = "none"
      /\ server' = server /\ launch' = launch /\ envFile' = envFile /\ probe' = probe
      /\ form' = form
      /\ UNCHANGED serviceVars /\ phase' = phase /\ answer' = answer
  BY DEF IInv, Arrive, serviceVars
<1>2. ServiceTypeOK' /\ \A q : Owed(q)' <=> Owed(q)
  BY <1>1, IdleService
<1>3. CASE ShuttingDown
  <2>1. Ends(r, 503) /\ 503 \in Codes
    BY <1>3 DEF Arrive, Codes
  <2>2. OnlyConcerns(r) /\ stage'[r] = "ended" /\ status'[r] = 503
    BY <1>1, <1>2, <2>1, EndsEffect DEF OnlyConcerns, EdgeTypeOK, Codes
  <2>3. Honest(r)'
    BY <1>1, <1>2, <2>2, AnswersAreDistinct, IngressAssumption DEF Honest, Forms
  <2> QED
    BY <2>2, <2>3, OthersKeep
<1>4. CASE ~ ShuttingDown
  <2>1. stage' = [stage EXCEPT ![r] = "body"] /\ status' = status
    BY <1>4 DEF Arrive
  <2>2. OnlyConcerns(r) /\ stage'[r] = "body"
    BY <1>1, <1>2, <2>1 DEF OnlyConcerns, EdgeTypeOK
  <2>3. Honest(r)'
    BY <1>1, <1>2, <2>2 DEF Honest
  <2> QED
    BY <2>2, <2>3, OthersKeep
<1> QED
  BY <1>3, <1>4

\* A refused body leaves no trace in the service.
LEMMA TurnAwayKeeps ==
  ASSUME IInv, NEW r \in Requests, TurnAway(r)
  PROVE  IInv'
<1>1. /\ EdgeTypeOK /\ ServiceTypeOK /\ Honest(r) /\ stage[r] = "body"
      /\ server' = server /\ launch' = launch /\ envFile' = envFile /\ probe' = probe
      /\ UNCHANGED serviceVars /\ phase' = phase /\ answer' = answer
  BY DEF IInv, TurnAway, serviceVars
<1>2. ServiceTypeOK' /\ \A q : Owed(q)' <=> Owed(q)
  BY <1>1, IdleService
<1>3. PICK b \in Bodies : /\ Verdict(b) # 200 /\ Ends(r, Verdict(b))
                          /\ form' = [form EXCEPT ![r] = b.form]
  BY DEF TurnAway
<1> DEFINE code == Verdict(b)
           what == b.form
<1>4. /\ code \in {400, 404, 500} /\ what \in Forms
      /\ what = "object" => code # 500
      /\ Ends(r, code) /\ form' = [form EXCEPT ![r] = what]
  BY <1>3, VerdictEffect
<1> HIDE DEF code, what
<1>5. /\ OnlyConcerns(r) /\ stage'[r] = "ended" /\ status'[r] = code
      /\ form'[r] = what /\ what # None
  BY <1>1, <1>2, <1>4, EndsEffect, IngressAssumption DEF OnlyConcerns, EdgeTypeOK, Codes
<1>6. Honest(r)'
  BY <1>1, <1>2, <1>4, <1>5, AnswersAreDistinct DEF Honest
<1> QED
  BY <1>5, <1>6, OthersKeep

\* The handler reports the outcome it was woken with.
LEMMA RespondKeeps ==
  ASSUME IInv, NEW r \in Requests, Respond(r)
  PROVE  IInv'
<1> DEFINE code == IF answer[r] = "ok" THEN 200 ELSE StatusOf(answer[r])
<1>1. /\ EdgeTypeOK /\ ServiceTypeOK /\ Honest(r)
      /\ r \in Plain /\ r \notin Streams /\ answer[r] \in Outcomes
      /\ server' = server /\ launch' = launch /\ envFile' = envFile /\ probe' = probe
      /\ form' = form
      /\ UNCHANGED serviceVars /\ phase' = phase /\ answer' = answer
  BY ServiceAssumption DEF IInv, Respond, serviceVars
<1>2. ServiceTypeOK' /\ \A q : Owed(q)' <=> Owed(q)
  BY <1>1, IdleService
<1>3. /\ code \in Codes /\ (code = 200 <=> answer[r] = "ok")
      /\ (code = 504 <=> answer[r] = "Timeout") /\ (code = 429 <=> answer[r] = "RateLimitError")
  BY StatusOfEffect DEF Codes
<1>4. Ends(r, code)
  BY DEF Respond
<1> HIDE DEF code
<1>5. OnlyConcerns(r) /\ stage'[r] = "ended" /\ status'[r] = code
  BY <1>1, <1>2, <1>3, <1>4, EndsEffect DEF OnlyConcerns, EdgeTypeOK, Codes
<1>6. Honest(r)'
  BY <1>1, <1>2, <1>3, <1>5, AnswersAreDistinct DEF Honest
<1> QED
  BY <1>5, <1>6, OthersKeep

\* Whoever enters joins the line, and whoever is refused is told 503.
LEMMA EnterKeeps ==
  ASSUME IInv, NEW r \in Requests, Enter(r)
  PROVE  IInv'
<1>1. /\ EdgeTypeOK /\ ServiceTypeOK /\ Honest(r) /\ stage[r] = "body"
      /\ server' = server /\ launch' = launch /\ envFile' = envFile /\ probe' = probe
      /\ form' = [form EXCEPT ![r] = "object"]
  BY DEF IInv, Enter
<1>2. CASE /\ Admit(r)
           /\ stage' = [stage EXCEPT ![r] = "open"]
           /\ status' = [status EXCEPT ![r] = IF r \in Streams THEN 200 ELSE 0]
  <2>1. /\ waiting' = Append(waiting, r) /\ Len(waiting) < Capacity
        /\ answer' = [answer EXCEPT ![r] = "pending"]
        /\ phase' = phase /\ inHand' = inHand /\ sent' = sent /\ heard' = heard
    BY <1>2 DEF Admit, Open
  <2>2. /\ waiting' \in Seq(Requests) /\ Len(waiting') <= Capacity
        /\ \A q : InLine(q)' <=> q = r \/ InLine(q)
    <3>1. Len(waiting) \in Nat /\ Len(waiting') = Len(waiting) + 1
      BY <1>1, <2>1, AppendToLine, LenProperties DEF ServiceTypeOK
    <3>2. Len(waiting') <= Capacity
      BY <2>1, <3>1, ServiceAssumption
    <3>3. \A q : (InLine(q) <=> Within(waiting, q)) /\ (InLine(q)' <=> Within(waiting', q))
      BY DEF InLine, Within
    <3>4. waiting' \in Seq(Requests) /\ \A q : Within(waiting', q) <=> q = r \/ Within(waiting, q)
      BY <1>1, <2>1, AppendToLine DEF ServiceTypeOK
    <3> QED
      BY <3>2, <3>3, <3>4
  <2>3. ServiceTypeOK'
    BY <1>1, <2>1, <2>2 DEF ServiceTypeOK, Answers
  <2>4. OnlyConcerns(r)
    <3>1. EdgeTypeOK'
      BY <1>1, <1>2 DEF EdgeTypeOK, Forms
    <3>2. \A q \in Requests \ {r} : Owed(q)' <=> Owed(q)
      BY <2>1, <2>2 DEF Owed
    <3> QED
      BY <1>1, <1>2, <2>1, <2>3, <3>1, <3>2
         DEF OnlyConcerns, ServiceTypeOK, EdgeTypeOK
  <2>5. Honest(r)'
    <3>1. stage'[r] = "open" /\ answer'[r] = "pending" /\ (r \in Streams => status'[r] = 200)
      BY <1>1, <1>2, <2>1 DEF ServiceTypeOK, EdgeTypeOK
    <3>2. Owed(r)'
      BY <2>2 DEF Owed
    <3> QED
      BY <3>1, <3>2 DEF Honest
  <2> QED
    BY <2>4, <2>5, OthersKeep
<1>3. CASE Refuse(r) /\ Ends(r, StatusOf("ServiceUnavailableError"))
  <2>1. /\ answer' = [answer EXCEPT ![r] = "refused"] /\ answer[r] = "none"
        /\ phase' = phase /\ waiting' = waiting /\ inHand' = inHand
        /\ sent' = sent /\ heard' = heard
    BY <1>3 DEF Refuse
  <2>2. \A q : Owed(q)' <=> Owed(q)
    <3>1. \A q : InLine(q)' <=> InLine(q)
      BY <2>1 DEF InLine
    <3> QED
      BY <2>1, <3>1 DEF Owed
  <2>3. ServiceTypeOK'
    BY <1>1, <2>1 DEF ServiceTypeOK, Answers
  <2>4. Ends(r, 503) /\ 503 \in Codes
    BY <1>3, StatusOfEffect DEF Codes
  <2>5. OnlyConcerns(r) /\ stage'[r] = "ended" /\ status'[r] = 503
    BY <1>1, <2>1, <2>2, <2>3, <2>4, EndsEffect
       DEF OnlyConcerns, EdgeTypeOK, ServiceTypeOK, Codes, Forms
  <2>6. answer'[r] = "refused" /\ ~ Owed(r)'
    BY <1>1, <2>1, <2>2 DEF ServiceTypeOK, Honest
  <2>7. Honest(r)'
    BY <2>5, <2>6, AnswersAreDistinct DEF Honest
  <2> QED
    BY <2>5, <2>7, OthersKeep
<1> QED
  BY <1>2, <1>3 DEF Enter

\* A client that leaves: the handler of a plain request by its deadline, with
\* 504, even if the answer came at the last moment; the reader of a stream by
\* itself, with the status it has.
LEMMA AbandonKeeps ==
  ASSUME IInv, NEW r \in Requests, Timeout(r) \/ Disconnect(r)
  PROVE  IInv'
<1> DEFINE code == IF r \in Plain THEN 504 ELSE 200
<1>1. /\ EdgeTypeOK /\ ServiceTypeOK /\ Honest(r) /\ stage[r] = "open"
      /\ server' = server /\ launch' = launch /\ envFile' = envFile /\ probe' = probe
      /\ form' = form
      /\ code \in Codes
  BY DEF IInv, Timeout, Disconnect, Codes
<1>2. Ends(r, code)
  <2>1. CASE Timeout(r)
    BY <2>1 DEF Timeout, StatusOf
  <2>2. CASE Disconnect(r)
    <3>1. r \notin Plain /\ status[r] = 200
      BY <1>1, <2>2, ServiceAssumption DEF Disconnect, Honest
    <3> QED
      BY <2>2, <3>1 DEF Disconnect
  <2> QED
    BY <2>1, <2>2
<1>3. /\ \/ answer' = [answer EXCEPT ![r] = "gone"]
         \/ r \in Plain /\ answer' = answer /\ answer[r] \in Outcomes
      /\ phase' = phase /\ waiting' = waiting /\ inHand' = inHand
      /\ sent' = sent /\ heard' = heard
  BY DEF Timeout, Disconnect, Abandon, serviceVars
<1>4. ServiceTypeOK' /\ \A q : Owed(q)' <=> Owed(q)
  <2>1. \A q : InLine(q)' <=> InLine(q)
    BY <1>3 DEF InLine
  <2> QED
    BY <1>1, <1>3, <2>1 DEF ServiceTypeOK, Owed, Answers
<1>5. OnlyConcerns(r) /\ stage'[r] = "ended" /\ status'[r] = code
  BY <1>1, <1>2, <1>3, <1>4, EndsEffect DEF OnlyConcerns, EdgeTypeOK, ServiceTypeOK, Codes
<1>6. answer'[r] = "gone" \/ (r \in Plain /\ answer'[r] \in Outcomes)
  BY <1>1, <1>3 DEF ServiceTypeOK
<1>7. Honest(r)'
  BY <1>5, <1>6, AnswersAreDistinct, ServiceAssumption DEF Honest
<1> QED
  BY <1>5, <1>7, OthersKeep

\* The end of a stream leaves its status as it was.
LEMMA EndStreamKeeps ==
  ASSUME IInv, NEW r \in Requests, EndStream(r)
  PROVE  IInv'
<1>1. /\ EdgeTypeOK /\ ServiceTypeOK /\ Honest(r) /\ stage[r] = "open"
      /\ r \in Streams /\ r \notin Plain /\ status[r] = 200 /\ Ends(r, 200) /\ 200 \in Codes
      /\ server' = server /\ launch' = launch /\ envFile' = envFile /\ probe' = probe
      /\ form' = form
      /\ answer[r] \in Outcomes /\ heard' = heard \cup {r}
      /\ phase' = phase /\ waiting' = waiting /\ inHand' = inHand
      /\ sent' = sent /\ answer' = answer
  BY ServiceAssumption DEF IInv, EndStream, Honest, Hear, Codes
<1>2. ServiceTypeOK' /\ \A q : Owed(q)' <=> Owed(q)
  <2>1. \A q : InLine(q)' <=> InLine(q)
    BY <1>1 DEF InLine
  <2> QED
    BY <1>1, <2>1 DEF ServiceTypeOK, Owed
<1>3. OnlyConcerns(r) /\ stage'[r] = "ended" /\ status'[r] = 200
  BY <1>1, <1>2, EndsEffect DEF OnlyConcerns, EdgeTypeOK, Codes
<1>4. Honest(r)'
  BY <1>1, <1>2, <1>3, AnswersAreDistinct DEF Honest
<1> QED
  BY <1>3, <1>4, OthersKeep
-----------------------------------------------------------------------------
(* The server comes up, and the probe. *)

\* The clients are as before.
LEMMA ClientsUntouched ==
  ASSUME IInv, EdgeTypeOK', ProbeIsTrue', UNCHANGED <<stage, form, status, serviceVars>>
  PROVE  IInv'
<1>1. /\ ServiceTypeOK /\ stage' = stage /\ form' = form /\ status' = status
      /\ answer' = answer /\ phase' = phase
  BY DEF IInv, serviceVars
<1>2. ServiceTypeOK' /\ \A q : Owed(q)' <=> Owed(q)
  BY <1>1, IdleService
<1>3. ASSUME NEW r \in Requests PROVE Honest(r)'
  <2>1. Honest(r)
    BY DEF IInv
  <2> QED
    BY <1>1, <1>2, <2>1 DEF Honest
<1> QED
  BY <1>2, <1>3 DEF IInv

\* Whatever is asked for, the file is one that exists, .env, or none.
LEMMA ResolvedFile ==
  ASSUME NEW l \in Launches
  PROVE  ResolveEnvFile(l.argv, l.variable, Files(l)) \in Paths \cup {DefaultFile, NotFound}
<1>1. Files(l) \subseteq Paths
  BY DEF Files
<1>2. \A file : Existing(file, Files(l)) \in Paths \cup {NotFound}
  BY <1>1 DEF Existing
<1> QED
  BY <1>2 DEF ResolveEnvFile

\* Building and starting the server touch no client.
LEMMA ComingUpKeeps ==
  ASSUME IInv, Build \/ Start
  PROVE  IInv'
<1>1. EdgeTypeOK /\ ProbeIsTrue
  BY DEF IInv
<1>2. /\ stage' = stage /\ form' = form /\ status' = status /\ probe' = probe
      /\ UNCHANGED serviceVars /\ phase' = phase
  BY DEF Build, Start, serviceVars
<1>3. EdgeTypeOK'
  <2>1. CASE Build
    <3>1. server = "down" /\ server' \in {"built", "failed"}
      BY <2>1 DEF Build
    <3>2. envFile' \in Paths \cup {DefaultFile, NotFound}
      BY <1>1, <2>1, <3>1, ResolvedFile DEF Build, EdgeTypeOK
    <3> QED
      BY <1>1, <1>2, <3>1, <3>2 DEF EdgeTypeOK
  <2>2. CASE Start
    BY <1>1, <1>2, <2>2 DEF Start, EdgeTypeOK
  <2> QED
    BY <2>1, <2>2
<1>4. ProbeIsTrue'
  BY <1>1, <1>2 DEF ProbeIsTrue
<1> QED
  BY <1>2, <1>3, <1>4, ClientsUntouched

\* A probe is told what the flag says.
LEMMA ReadyKeeps ==
  ASSUME IInv, Ready
  PROVE  IInv'
<1>1. /\ UNCHANGED serviceVars /\ phase' = phase /\ server' = server /\ launch' = launch
      /\ envFile' = envFile /\ stage' = stage /\ form' = form /\ status' = status
      /\ probe' \in {"ready", "shutting_down"}
      /\ probe' = "shutting_down" => phase # "serving"
  BY DEF Ready, ShuttingDown, serviceVars
<1>2. EdgeTypeOK' /\ ProbeIsTrue'
  BY <1>1 DEF IInv, EdgeTypeOK, ProbeIsTrue
<1> QED
  BY <1>1, <1>2, ClientsUntouched
-----------------------------------------------------------------------------
(* The theorems. *)

\* Nobody waits in the beginning.
LEMMA InitHolds == Init => IInv
<1> SUFFICES ASSUME Init PROVE IInv
  OBVIOUS
<1>1. EdgeTypeOK /\ ProbeIsTrue
  BY DEF Init, EdgeTypeOK, ProbeIsTrue
<1>2. ServiceTypeOK
  <2>1. waiting \in Seq(Requests) /\ Len(waiting) = 0
    BY EmptySeq DEF Init, ServiceInit
  <2>2. Len(waiting) <= Capacity
    BY <2>1, ServiceAssumption
  <2> QED
    BY <2>1, <2>2 DEF Init, ServiceInit, ServiceTypeOK, Answers
<1>3. ASSUME NEW r \in Requests PROVE Honest(r)
  <2>1. ~ Owed(r)
    BY <1>2, EmptySeq, LenProperties, ServiceAssumption
       DEF Init, ServiceInit, Owed, InLine
  <2> QED
    BY <2>1 DEF Init, ServiceInit, Honest
<1> QED
  BY <1>1, <1>2, <1>3 DEF IInv

\* Every step keeps the invariant.
LEMMA NextKeeps == IInv /\ [Next]_vars => IInv'
<1> SUFFICES ASSUME IInv, [Next]_vars PROVE IInv'
  OBVIOUS
<1>1. CASE Build \/ Start
  BY <1>1, ComingUpKeeps
<1>2. CASE Serve \/ Lifespan
  <2>1. LeavesClients
    BY <1>2, WorkerLeavesClients DEF IInv, Serve, Lifespan
  <2> QED
    BY <1>2, <2>1, WorkerKeeps DEF Serve, Lifespan
<1>3. CASE Ready
  BY <1>3, ReadyKeeps
<1>4. CASE UNCHANGED vars
  <2>1. UNCHANGED <<stage, form, status, serviceVars>> /\ EdgeTypeOK' /\ ProbeIsTrue'
    BY <1>4 DEF vars, edgeVars, serviceVars, IInv, EdgeTypeOK, ProbeIsTrue
  <2> QED
    BY <2>1, ClientsUntouched
<1>5. ASSUME NEW r \in Requests,
             \/ Arrive(r) \/ TurnAway(r) \/ Enter(r) \/ Respond(r)
             \/ Timeout(r) \/ EndStream(r) \/ Disconnect(r)
      PROVE  IInv'
  BY <1>5, ArriveKeeps, TurnAwayKeeps, EnterKeeps, RespondKeeps, AbandonKeeps, EndStreamKeeps
<1> QED
  BY <1>1, <1>2, <1>3, <1>4, <1>5 DEF Next, Exited

\* The invariant holds of every behaviour (app.py:149-351 over processor.py).
THEOREM Invariant == Spec => []IInv
BY InitHolds, NextKeeps, PTL DEF Spec

\* Every variable of the edge has its type: no status but those that app.py
\* gives, no file but those that may be chosen.
THEOREM TypeCorrect == Spec => []TypeOK
BY Invariant, InvariantImplies, PTL

\* A handler that waits (app.py:291-303, 351) is owed an answer, for any number
\* of requests and any capacity of the line.
THEOREM HandlersOwed == Spec => []HandlersAreOwed
BY Invariant, InvariantImplies, PTL

\* What an ended handler has told its client (app.py:172-183, 284-322) stays
\* true whatever the worker does later.
THEOREM StatusTrue == Spec => []StatusTellsTheTruth
BY Invariant, InvariantImplies, PTL

\* Only Enter lets a request in, and it looks at the flag that the probe told
\* of (app.py:149-162, 210-214, 233).
LEMMA ClosedStep ==
  IInv /\ [Next]_vars =>
    [probe = "shutting_down" =>
       \A r \in Requests : answer[r] = "none" => answer'[r] \in {"none", "refused"}]_vars
<1> SUFFICES ASSUME IInv, [Next]_vars, probe = "shutting_down",
                    NEW r \in Requests, answer[r] = "none"
             PROVE  answer'[r] \in {"none", "refused"}
  OBVIOUS
<1>1. /\ phase # "serving" /\ ServiceTypeOK /\ answer \in [Requests -> Answers]
      /\ \A q \in Requests : Honest(q)
  BY DEF IInv, ProbeIsTrue, ServiceTypeOK
<1>2. CASE answer' = answer
  BY <1>2
<1>3. CASE Serve \/ Lifespan
  <2>1. LeavesClients
    BY <1>1, <1>3, WorkerLeavesClients DEF Serve, Lifespan
  <2> QED
    BY <2>1 DEF LeavesClients
<1>4. ASSUME NEW q \in Requests, Enter(q) PROVE answer'[r] \in {"none", "refused"}
  <2>1. ~ Admit(q)
    BY <1>1 DEF Admit, Open
  <2>2. answer' = [answer EXCEPT ![q] = "refused"]
    BY <1>4, <2>1 DEF Enter, Refuse
  <2> QED
    BY <1>1, <2>2
<1>5. ASSUME NEW q \in Requests, Timeout(q) \/ Disconnect(q), answer' # answer
      PROVE  answer'[r] \in {"none", "refused"}
  <2>1. answer' = [answer EXCEPT ![q] = "gone"] /\ answer[q] # "none" /\ q # r
    <3>1. stage[q] = "open" /\ Abandon(q) /\ Honest(q)
      BY <1>1, <1>5 DEF Timeout, Disconnect, serviceVars
    <3>2. answer[q] # "none"
      BY <3>1, AnswersAreDistinct DEF Honest
    <3> QED
      BY <3>1, <3>2 DEF Abandon
  <2> QED
    BY <1>1, <2>1
<1>6. ASSUME NEW q \in Requests, Arrive(q) \/ TurnAway(q) \/ Respond(q) \/ EndStream(q)
      PROVE  answer' = answer
  BY <1>6 DEF Arrive, TurnAway, Respond, EndStream, Hear, serviceVars
<1>7. ASSUME Build \/ Start \/ Ready \/ UNCHANGED vars PROVE answer' = answer
  BY <1>7 DEF Build, Start, Ready, vars, edgeVars, serviceVars
<1> QED
  BY <1>2, <1>3, <1>4, <1>5, <1>6, <1>7 DEF Next, Exited

\* Nothing enters once a probe was told of the shutdown.
THEOREM ClosedStaysClosed == Spec => UnreadyMeansClosed
BY Invariant, ClosedStep, PTL DEF Spec, UnreadyMeansClosed
-----------------------------------------------------------------------------
(* The start: which env file a command line asks for. *)

\* What the scan of the command line finds at i, when the rest was found in f.
ScanAt(argv, f, i) ==
  IF i > Len(argv) THEN None
  ELSE IF argv[i].kind = "glued" THEN Named(argv[i].text)
  ELSE IF argv[i].kind = "other" THEN f[i + 1]
  ELSE IF i = Len(argv) THEN None
  ELSE Named(AsValue(argv[i + 1]))

IsScan(argv, f) == f = [i \in 1..(Len(argv) + 1) |-> ScanAt(argv, f, i)]

\* The flag that the scan meets first from i on.
IsNext(argv, i, u) ==
  u \in Uses(argv) /\ i <= u /\ \A v \in Uses(argv) : i <= v => u <= v

\* The value of the flag at u.
ValueOf(argv, u) == ScanAt(argv, << >>, u)

\* What the scan finds at i, said without a scan.
Found(argv, i) ==
  IF \E u : IsNext(argv, i, u)
  THEN ValueOf(argv, CHOOSE u : IsNext(argv, i, u)) ELSE None

\* There is at most one next flag, and there is one unless no flag is left.
LEMMA NextFlag ==
  ASSUME NEW argv \in Seq(Arguments), NEW i \in Nat
  PROVE  /\ \A u, v : IsNext(argv, i, u) /\ IsNext(argv, i, v) => u = v
         /\ (\E u \in Uses(argv) : i <= u) => \E u : IsNext(argv, i, u)
<1> DEFINE S == {u \in Uses(argv) : i <= u}
<1>1. Uses(argv) \subseteq Nat
  BY LenProperties DEF Uses
<1>2. \A u, v : IsNext(argv, i, u) /\ IsNext(argv, i, v) => u = v
  BY <1>1 DEF IsNext
<1>3. ASSUME S # {} PROVE \E u : IsNext(argv, i, u)
  <2>1. PICK u \in S : \A v \in S : u <= v
    BY <1>1, <1>3, LeastElement
  <2> QED BY <2>1 DEF IsNext
<1> QED
  BY <1>2, <1>3

\* At a flag its value is found, elsewhere what is found behind.
LEMMA FoundAt ==
  ASSUME NEW argv \in Seq(Arguments), NEW i \in 1..(Len(argv) + 1)
  PROVE  /\ i = Len(argv) + 1 => Found(argv, i) = None
         /\ i \in Uses(argv) => Found(argv, i) = ValueOf(argv, i)
         /\ i <= Len(argv) /\ i \notin Uses(argv) => Found(argv, i) = Found(argv, i + 1)
<1>1. /\ Len(argv) \in Nat /\ i \in Nat /\ i + 1 \in Nat
      /\ Uses(argv) \subseteq 1..Len(argv)
  BY LenProperties DEF Uses
<1>2. CASE i = Len(argv) + 1
  <2>1. ~ \E u : IsNext(argv, i, u)
    BY <1>1, <1>2 DEF IsNext
  <2> QED BY <1>1, <1>2, <2>1 DEF Found
<1>3. CASE i \in Uses(argv)
  <2>1. IsNext(argv, i, i)
    BY <1>1, <1>3 DEF IsNext
  <2>2. (CHOOSE u : IsNext(argv, i, u)) = i
    BY <1>1, <2>1, NextFlag
  <2>3. Found(argv, i) = ValueOf(argv, CHOOSE u : IsNext(argv, i, u))
    BY <2>1 DEF Found
  <2>4. Found(argv, i) = ValueOf(argv, i)
    BY <2>2, <2>3
  <2> QED BY <1>1, <1>3, <2>4
<1>4. CASE i <= Len(argv) /\ i \notin Uses(argv)
  <2>1. \A u : IsNext(argv, i, u) <=> IsNext(argv, i + 1, u)
    <3>1. \A u \in Uses(argv) : i <= u <=> i + 1 <= u
      BY <1>1, <1>4
    <3> QED BY <3>1 DEF IsNext
  <2>2. CASE \E u : IsNext(argv, i, u)
    <3>1. PICK u : IsNext(argv, i, u) /\ IsNext(argv, i + 1, u)
      BY <2>1, <2>2
    <3>2. (CHOOSE v : IsNext(argv, i, v)) = u /\ (CHOOSE v : IsNext(argv, i + 1, v)) = u
      BY <1>1, <3>1, NextFlag
    <3>3. /\ Found(argv, i) = ValueOf(argv, CHOOSE v : IsNext(argv, i, v))
          /\ Found(argv, i + 1) = ValueOf(argv, CHOOSE v : IsNext(argv, i + 1, v))
      BY <3>1 DEF Found
    <3>4. Found(argv, i) = Found(argv, i + 1)
      BY <3>2, <3>3
    <3> QED BY <1>1, <1>4, <3>4
  <2>3. CASE ~ \E u : IsNext(argv, i, u)
    BY <1>1, <1>4, <2>1, <2>3 DEF Found
  <2> QED BY <2>2, <2>3
<1> QED
  BY <1>1, <1>2, <1>3, <1>4

\* There is a scan of every command line.
LEMMA ScanExists ==
  ASSUME NEW argv \in Seq(Arguments)
  PROVE  \E f : IsScan(argv, f)
<1> DEFINE D == 1..(Len(argv) + 1)
           f == [i \in D |-> Found(argv, i)]
<1>1. Len(argv) \in Nat
  BY LenProperties
<1>2. ASSUME NEW i \in D PROVE Found(argv, i) = ScanAt(argv, f, i)
  <2>1. CASE i = Len(argv) + 1
    BY <1>1, <2>1, FoundAt DEF ScanAt
  <2>2. CASE i \in Uses(argv)
    <3>1. argv[i].kind # "other" /\ i <= Len(argv)
      BY <1>1, <2>2, LenProperties DEF Uses
    <3>2. ValueOf(argv, i) = ScanAt(argv, f, i)
      BY <3>1 DEF ValueOf, ScanAt
    <3> QED BY <1>1, <2>2, <3>2, FoundAt
  <2>3. CASE i <= Len(argv) /\ i \notin Uses(argv)
    <3>1. argv[i].kind = "other" /\ i + 1 \in D /\ i \in Nat
      BY <1>1, <2>3, LenProperties DEF Uses
    <3>2. ScanAt(argv, f, i) = Found(argv, i + 1)
      BY <1>1, <2>3, <3>1 DEF ScanAt
    <3> QED BY <1>1, <2>3, <3>2, FoundAt
  <2> QED BY <1>1, <2>1, <2>2, <2>3
<1>3. f = [i \in D |-> ScanAt(argv, f, i)]
  BY <1>2
<1> QED
  BY <1>3 DEF IsScan

\* Every scan finds the same: going back from the end, there is no position at
\* which it departs from Found.
LEMMA ScanFinds ==
  ASSUME NEW argv \in Seq(Arguments), NEW f, IsScan(argv, f)
  PROVE  f[1] = Found(argv, 1)
<1> DEFINE n == Len(argv) + 1
           Bad == {k \in 0..(n - 1) : f[n - k] # Found(argv, n - k)}
<1>1. Len(argv) \in Nat /\ n \in Nat /\ n >= 1
  BY LenProperties
<1>2. ASSUME NEW i \in 1..n PROVE f[i] = ScanAt(argv, f, i)
  BY DEF IsScan
<1>3. ASSUME Bad # {} PROVE FALSE
  <2>1. Bad \subseteq Nat
    BY <1>1
  <2>2. PICK k \in Bad : \A j \in Bad : k <= j
    BY <1>3, <2>1, LeastElement
  <2> DEFINE i == n - k
  <2>3. i \in 1..n /\ k \in Nat /\ k <= n - 1 /\ f[i] # Found(argv, i)
    BY <1>1, <2>2
  <2>4. CASE i = n
    BY <1>1, <1>2, <2>3, <2>4, FoundAt DEF ScanAt
  <2>5. CASE i \in Uses(argv)
    <3>1. argv[i].kind # "other" /\ i <= Len(argv)
      BY <1>1, <2>5, LenProperties DEF Uses
    <3>2. ScanAt(argv, f, i) = ValueOf(argv, i)
      BY <3>1 DEF ValueOf, ScanAt
    <3> QED BY <1>2, <2>3, <2>5, <3>2, FoundAt
  <2>6. CASE i <= Len(argv) /\ i \notin Uses(argv)
    <3>1. argv[i].kind = "other" /\ ~ (i > Len(argv))
      BY <1>1, <2>3, <2>6, LenProperties DEF Uses
    <3>2. f[i] = f[i + 1] /\ Found(argv, i) = Found(argv, i + 1)
      BY <1>2, <2>3, <2>6, <3>1, FoundAt DEF ScanAt
    <3>3. k - 1 \in 0..(n - 1) /\ n - (k - 1) = i + 1
      BY <1>1, <2>3, <2>6
    <3>4. k - 1 \in Bad
      BY <2>3, <3>2, <3>3
    <3> QED BY <2>2, <2>3, <3>4
  <2> QED BY <1>1, <2>3, <2>4, <2>5, <2>6
<1>4. 0 <= n - 1 /\ n - (n - 1) = 1 /\ n - 1 \in 0..(n - 1)
  BY <1>1
<1> QED
  BY <1>3, <1>4

\* The first flag of a command line decides, whatever its length.
LEMMA FirstFlagDecides ==
  ASSUME NEW argv \in Seq(Arguments)
  PROVE  ParseEnvFile(argv) = Found(argv, 1)
<1> DEFINE f == CHOOSE g : IsScan(argv, g)
<1>1. IsScan(argv, f)
  BY ScanExists
<1>2. ParseEnvFile(argv) = f[1]
  BY DEF ParseEnvFile, IsScan, ScanAt
<1> QED
  BY <1>1, <1>2, ScanFinds

\* A command line that uses the flag at most once asks for nothing, and then
\* none is found, or for one text, which is found.
LEMMA AskedAndFound ==
  ASSUME NEW argv \in Seq(Arguments), Cardinality(Uses(argv)) <= 1
  PROVE  \/ Asked(argv) = {} /\ ParseEnvFile(argv) = None
         \/ \E t \in Texts : Asked(argv) = {t} /\ ParseEnvFile(argv) = Named(t)
<1>1. /\ Len(argv) \in Nat /\ Uses(argv) \subseteq 1..Len(argv)
      /\ 1 \in 1..(Len(argv) + 1) /\ 1 \in Nat
      /\ \A i \in 1..Len(argv) : argv[i] \in Arguments
  BY LenProperties, ElementOfSeq DEF Uses
<1>2. IsFiniteSet(Uses(argv))
  <2>1. IsFiniteSet(1..Len(argv))
    BY <1>1, FS_Interval
  <2> QED BY <1>1, <2>1, FS_Subset
<1>3. Uses(argv) = {} \/ \E u : Uses(argv) = {u}
  <2>1. Cardinality(Uses(argv)) \in Nat
    BY <1>2, FS_CardinalityType
  <2>2. Cardinality(Uses(argv)) = 0 \/ Cardinality(Uses(argv)) = 1
    BY <2>1
  <2> QED BY <1>2, <2>2, FS_EmptySet, FS_Singleton
<1>4. CASE Uses(argv) = {}
  <2>1. Asked(argv) = {}
    BY <1>4 DEF Asked
  <2>2. ~ \E u : IsNext(argv, 1, u)
    BY <1>4 DEF IsNext
  <2>3. ParseEnvFile(argv) = None
    BY <2>2, FirstFlagDecides DEF Found
  <2> QED BY <2>1, <2>3
<1>5. ASSUME NEW u, Uses(argv) = {u}
      PROVE  \/ Asked(argv) = {} /\ ParseEnvFile(argv) = None
             \/ \E t \in Texts : Asked(argv) = {t} /\ ParseEnvFile(argv) = Named(t)
  <2>1. /\ u \in 1..Len(argv) /\ argv[u] \in Arguments
        /\ \A i \in 1..Len(argv) : argv[i].kind # "other" <=> i = u
    BY <1>1, <1>5, LenProperties DEF Uses
  <2>2. ParseEnvFile(argv) = ValueOf(argv, u)
    <3>1. IsNext(argv, 1, u)
      BY <1>5, <2>1 DEF IsNext
    <3>2. (CHOOSE v : IsNext(argv, 1, v)) = u
      BY <1>1, <3>1, NextFlag
    <3>3. Found(argv, 1) = ValueOf(argv, CHOOSE v : IsNext(argv, 1, v))
      BY <3>1 DEF Found
    <3> QED BY <3>2, <3>3, FirstFlagDecides
  <2>3. ~ (u > Len(argv)) /\ argv[u].kind \in {"flag", "glued"}
    BY <1>1, <2>1 DEF Arguments
  <2>4. CASE argv[u].kind = "glued"
    <3>1. Asked(argv) = {argv[u].text} /\ argv[u].text \in Texts
      BY <1>5, <2>1, <2>4 DEF Asked, Arguments
    <3>2. ValueOf(argv, u) = Named(argv[u].text)
      BY <2>3, <2>4 DEF ValueOf, ScanAt
    <3> QED BY <2>2, <3>1, <3>2
  <2>5. CASE argv[u].kind = "flag" /\ u = Len(argv)
    <3>1. Asked(argv) = {}
      BY <1>5, <2>5 DEF Asked
    <3>2. ValueOf(argv, u) = None
      BY <2>3, <2>5 DEF ValueOf, ScanAt
    <3> QED BY <2>2, <3>1, <3>2
  <2>6. CASE argv[u].kind = "flag" /\ u # Len(argv)
    <3>1. u < Len(argv) /\ u + 1 \in 1..Len(argv) /\ u + 1 # u
      BY <1>1, <2>1, <2>6
    <3>2. argv[u + 1] \in Arguments /\ argv[u + 1].kind = "other"
      BY <1>1, <2>1, <3>1
    <3>3. argv[u + 1].text \in Texts
      BY <3>2 DEF Arguments
    <3>4. Asked(argv) = {argv[u + 1].text}
      BY <1>5, <2>6, <3>1 DEF Asked
    <3>5. ValueOf(argv, u) = Named(argv[u + 1].text)
      BY <2>3, <2>6, <3>2 DEF ValueOf, ScanAt, AsValue
    <3> QED BY <2>2, <3>3, <3>4, <3>5
  <2> QED BY <2>3, <2>4, <2>5, <2>6
<1> QED
  BY <1>3, <1>4, <1>5

\* The file that is resolved is the one the documents promise.
LEMMA ResolvedHonours ==
  ASSUME NEW argv \in Seq(Arguments), NEW variable, NEW files
  PROVE  Honours(argv, variable, files, ResolveEnvFile(argv, variable, files))
<1> USE EnvFileAssumption
<1> SUFFICES ASSUME Cardinality(Uses(argv)) <= 1
             PROVE  LET result == ResolveEnvFile(argv, variable, files)
                    IN  /\ \A p \in Paths : p \in Asked(argv) => result = Existing(p, files)
                        /\ Asked(argv) \cap Paths = {} /\ variable \in Paths
                             => result = Existing(variable, files)
                        /\ Asked(argv) \cap Paths = {} /\ variable \in {None, Blank}
                             => result = DefaultFile
  BY DEF Honours
<1>1. CASE Asked(argv) = {} /\ ParseEnvFile(argv) = None
  BY <1>1 DEF ResolveEnvFile
<1>2. ASSUME NEW t \in Texts, Asked(argv) = {t}, ParseEnvFile(argv) = Named(t)
      PROVE  LET result == ResolveEnvFile(argv, variable, files)
             IN  /\ \A p \in Paths : p \in Asked(argv) => result = Existing(p, files)
                 /\ Asked(argv) \cap Paths = {} /\ variable \in Paths
                      => result = Existing(variable, files)
                 /\ Asked(argv) \cap Paths = {} /\ variable \in {None, Blank}
                      => result = DefaultFile
  BY <1>2 DEF ResolveEnvFile, Named, Texts
<1> QED
  BY <1>1, <1>2, AskedAndFound

\* Before the server is up there is no handler.
Asleep == server # "up" => \A r \in Requests : stage[r] = "none"

\* Only a request that arrives gets a handler.
LEMMA AsleepKeeps ==
  ASSUME Asleep, [Next]_vars
  PROVE  Asleep'
<1>1. CASE Build \/ Start \/ Serve \/ Lifespan \/ Ready \/ UNCHANGED vars
  BY <1>1 DEF Asleep, Build, Start, Serve, Lifespan, Ready, vars, edgeVars
<1>2. ASSUME NEW r \in Requests,
             \/ Arrive(r) \/ TurnAway(r) \/ Enter(r) \/ Respond(r)
             \/ Timeout(r) \/ EndStream(r) \/ Disconnect(r)
      PROVE  server = "up" /\ server' = server
  BY <1>2 DEF Asleep, Arrive, TurnAway, Enter, Respond, Timeout, EndStream, Disconnect
<1> QED
  BY <1>1, <1>2 DEF Next, Exited, Asleep

\* The only step of a server that is down is its start.
LEMMA BootStep ==
  ASSUME IInv, Asleep, Next, server = "down"
  PROVE  /\ Honours(launch.argv, launch.variable, Files(launch), envFile')
         /\ server' = "built" <=>
              /\ envFile' # NotFound
              /\ \/ launch.environment = "sound"
                 \/ launch.environment = None /\ launch.content[envFile'] # "unsound"
<1> USE EnvFileAssumption
<1>1. Build
  <2>1. \A r \in Requests : stage[r] = "none"
    BY DEF Asleep
  <2> QED BY <2>1 DEF Next, Start, Serve, Lifespan, Ready, Exited, Arrive, TurnAway,
                      Enter, Respond, Timeout, EndStream, Disconnect
<1> DEFINE file == ResolveEnvFile(launch.argv, launch.variable, Files(launch))
<1>2. /\ launch \in Launches /\ launch.argv \in Seq(Arguments)
      /\ launch.environment \in {None} \cup Values
  BY IngressAssumption DEF IInv, EdgeTypeOK, Launches
<1>3. /\ envFile' = file
      /\ server' = IF file # NotFound
                        /\ InForce(launch.environment, launch.content[file]) = "sound"
                   THEN "built" ELSE "failed"
  BY <1>1 DEF Build
<1>4. Honours(launch.argv, launch.variable, Files(launch), file)
  BY <1>2, ResolvedHonours
<1> HIDE DEF file
<1>5. InForce(launch.environment, launch.content[file]) = "sound" <=>
        \/ launch.environment = "sound"
        \/ launch.environment = None /\ launch.content[file] # "unsound"
  BY <1>2 DEF InForce, Values, Contents
<1> QED
  BY <1>3, <1>4, <1>5

\* A start reads the env file that the documents promise (config/loader.py:13-78),
\* for command lines of every length, and comes up unless that file is missing or
\* the value that wins is unsound.
THEOREM BootHonours == Spec => BootHonoursTheRequest
<1>1. Init => Asleep
  BY DEF Init, Asleep
<1>2. Asleep /\ [Next]_vars => Asleep'
  BY AsleepKeeps
<1>3. IInv /\ Asleep /\ [Next]_vars =>
        [server = "down" =>
           /\ Honours(launch.argv, launch.variable, Files(launch), envFile')
           /\ server' = "built" <=>
                /\ envFile' # NotFound
                /\ \/ launch.environment = "sound"
                   \/ launch.environment = None /\ launch.content[envFile'] # "unsound"]_vars
  BY BootStep
<1> QED
  BY <1>1, <1>2, <1>3, Invariant, PTL DEF Spec, BootHonoursTheRequest
=============================================================================
