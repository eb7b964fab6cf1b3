------------------------------ MODULE Breaker ------------------------------
(***************************************************************************)
(* CircuitBreaker (src/circuit_breaker/circuit_breaker.py) as operators on *)
(* its four fields.  It has no lock and no step of its own: its only       *)
(* caller is the worker, whose steps Pipeline models.                      *)
(***************************************************************************)
EXTENDS Optional

CONSTANTS
  Threshold,  \* circuit_breaker.failure_threshold
  Recovery    \* circuit_breaker.recovery_timeout_ms

\* The bounds config/schema.py puts on the parameters.
ASSUME BreakerAssumption == /\ Threshold \in Nat \ {0}
                            /\ Recovery \in Nat \ {0}

(* The exceptions a request can end with: those of litellm that the code tells
   apart by class.  APIError is litellm's exception for every status it has no
   class for, and not a base of the others; "Other" is all the rest. *)
Exceptions == {"RateLimitError", "ServiceUnavailableError", "InternalServerError",
               "APIConnectionError", "Timeout", "APIError", "BadRequestError",
               "NotFoundError", "Other"}

\* The only ones the breaker counts: a bare APIError is not among them.
FailureExceptions == {"RateLimitError", "ServiceUnavailableError",
                      "InternalServerError", "APIConnectionError", "Timeout"}

Breakers == [state : {"CLOSED", "OPEN", "HALF_OPEN"}, failures : Nat,
             openedAt : Nat \cup {None}, probeSent : BOOLEAN]

Closed == [state |-> "CLOSED", failures |-> 0, openedAt |-> None,
           probeSent |-> FALSE]
-----------------------------------------------------------------------------
(* Defects the runs must notice. *)

StaysOpen(b, clock) == b
ProbeUnmarked(b, clock) ==
  IF b.state = "OPEN" THEN [b EXCEPT !.state = "HALF_OPEN"] ELSE b
OpensLate(b, clock) ==
  LET counted == [b EXCEPT !.failures = @ + 1, !.probeSent = FALSE]
  IN  IF counted.failures > Threshold
      THEN [counted EXCEPT !.state = "OPEN", !.openedAt = clock] ELSE counted
-----------------------------------------------------------------------------
ShouldAttemptReset(b, clock) ==
  b.openedAt # None /\ clock - b.openedAt >= Recovery

\* can_execute(): the answer, and the breaker it leaves behind.  A breaker that
\* goes to HALF_OPEN sends its probe at once.
HalfOpens(b, clock) == b.state = "OPEN" /\ ShouldAttemptReset(b, clock)

CanExecute(b, clock) ==
  \/ b.state = "CLOSED"
  \/ HalfOpens(b, clock)
  \/ b.state = "HALF_OPEN" /\ ~ b.probeSent

AfterCanExecute(b, clock) ==
  IF HalfOpens(b, clock) \/ b.state = "HALF_OPEN"
  THEN [b EXCEPT !.state = "HALF_OPEN", !.probeSent = TRUE]
  ELSE b

RecordSuccess(b) ==
  [b EXCEPT !.failures = 0, !.openedAt = None, !.probeSent = FALSE,
            !.state = IF @ = "HALF_OPEN" THEN "CLOSED" ELSE @]

\* _open() also restarts the recovery timeout of a breaker that is open already.
Open(b, clock) == [b EXCEPT !.state = "OPEN", !.openedAt = clock]

RecordFailure(b, clock) ==
  LET counted == [b EXCEPT !.failures = @ + 1, !.probeSent = FALSE]
  IN  IF b.state = "HALF_OPEN" \/ counted.failures >= Threshold
      THEN Open(counted, clock)
      ELSE counted

RecordException(b, e, clock) ==
  IF e \in FailureExceptions THEN RecordFailure(b, clock) ELSE RecordSuccess(b)
=============================================================================
