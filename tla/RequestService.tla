--------------------------- MODULE RequestService ---------------------------
(***************************************************************************)
(* What the request processor promises its callers, without clocks,        *)
(* limiter, breaker, retries or chunks: requests wait in a bounded line,   *)
(* one at a time is taken from its head and sent upstream, and every       *)
(* client is given one answer or leaves before.  Pipeline implements it    *)
(* (ServiceRefined there), and Ingress is built on it.                     *)
(***************************************************************************)
EXTENDS Optional, Sequences

CONSTANTS
  Plain,     \* requests answered by one response
  Streams,   \* requests answered by a stream
  Capacity,  \* how many requests may wait
  Errors     \* what a request that was sent may fail with

Requests == Plain \cup Streams
Outcomes == {"ok"} \cup Errors

\* What a request fails with that was never sent: it expired in the line, or
\* the circuit breaker denied it.
LocalErrors == {"Timeout", "ServiceUnavailableError"}

ASSUME ServiceAssumption == /\ Plain \cap Streams = {} /\ None \notin Requests
                            /\ Capacity \in Nat \ {0}
                            /\ LocalErrors \subseteq Errors
                            /\ Errors \cap {"none", "refused", "pending", "gone", "ok"} = {}

VARIABLES
  phase,    \* serving, draining, stopped
  waiting,  \* the line, oldest first
  inHand,   \* the request being served
  sent,     \* whether it has been sent upstream
  answer,   \* what each client has been given
  heard     \* the streams whose end the client has read

serviceVars == <<phase, waiting, inHand, sent, answer, heard>>

ServiceInit ==
  /\ phase = "serving"
  /\ waiting = << >>
  /\ inHand = None /\ sent = FALSE
  /\ answer = [r \in Requests |-> "none"]
  /\ heard = {}
-----------------------------------------------------------------------------
(* Defects the runs must notice. *)

OpenWhenDraining == phase # "stopped" /\ Len(waiting) < Capacity
OpenWhenFull     == phase = "serving" /\ Len(waiting) <= Capacity
AnswerDropped(r, o) == answer
-----------------------------------------------------------------------------
Open == phase = "serving" /\ Len(waiting) < Capacity

Admit(r) ==
  /\ answer[r] = "none" /\ Open
  /\ waiting' = Append(waiting, r)
  /\ answer' = [answer EXCEPT ![r] = "pending"]
  /\ UNCHANGED <<phase, inHand, sent, heard>>

Refuse(r) ==
  /\ answer[r] = "none" /\ ~ Open
  /\ answer' = [answer EXCEPT ![r] = "refused"]
  /\ UNCHANGED <<phase, waiting, inHand, sent, heard>>

\* An outcome reaches only a client that still waits for one.
Answered(r, o) ==
  IF answer[r] = "pending" THEN [answer EXCEPT ![r] = o] ELSE answer

\* The head of the line is held back or sent, or fails without being sent.
Take ==
  /\ phase # "stopped" /\ inHand = None /\ waiting # << >>
  /\ waiting' = Tail(waiting)
  /\ \/ /\ inHand' = Head(waiting) /\ sent' \in BOOLEAN
        /\ UNCHANGED answer
     \/ /\ \E e \in LocalErrors : answer' = Answered(Head(waiting), e)
        /\ UNCHANGED <<inHand, sent>>
  /\ UNCHANGED <<phase, heard>>

Send ==
  /\ inHand # None /\ ~ sent
  /\ sent' = TRUE
  /\ UNCHANGED <<phase, waiting, inHand, answer, heard>>

Finish(o) ==
  /\ inHand # None /\ sent
  /\ answer' = Answered(inHand, o)
  /\ inHand' = None /\ sent' = FALSE
  /\ UNCHANGED <<phase, waiting, heard>>

\* The client of a stream has read up to the end.
Hear(r) ==
  /\ answer[r] \in Outcomes /\ r \notin heard
  /\ heard' = heard \cup {r}
  /\ UNCHANGED <<phase, waiting, inHand, sent, answer>>

\* The client leaves before it has its answer.
Abandon(r) ==
  /\ \/ answer[r] = "pending"
     \/ r \in Streams /\ answer[r] \in Outcomes /\ r \notin heard
  /\ answer' = [answer EXCEPT ![r] = "gone"]
  /\ UNCHANGED <<phase, waiting, inHand, sent, heard>>

CloseDoor ==
  /\ phase = "serving" /\ waiting # << >>
  /\ phase' = "draining"
  /\ UNCHANGED <<waiting, inHand, sent, answer, heard>>

\* Who waits now is never served.  A stream that had been sent ends as if it
\* were complete; a plain request in hand is forgotten.
Halt ==
  /\ \/ phase = "draining"
     \/ phase = "serving" /\ waiting = << >>
  /\ phase' = "stopped"
  /\ answer' = IF inHand \in Streams /\ sent THEN Answered(inHand, "ok") ELSE answer
  /\ inHand' = None /\ sent' = FALSE
  /\ UNCHANGED <<waiting, heard>>

ServiceNext ==
  \/ \E r \in Requests : Admit(r) \/ Refuse(r) \/ Abandon(r)
  \/ Take \/ Send \/ (\E o \in Outcomes : Finish(o))
  \/ \E r \in Streams : Hear(r)
  \/ CloseDoor \/ Halt

ServiceSpec == ServiceInit /\ [][ServiceNext]_serviceVars

\* Every client that waits is given an answer or leaves, unless the service
\* has stopped.
Served ==
  \A r \in Requests :
    answer[r] = "pending" ~> answer[r] # "pending" \/ phase = "stopped"
=============================================================================
