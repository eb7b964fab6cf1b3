--------------------------- MODULE SlidingWindow ---------------------------
(***************************************************************************)
(* What a rate limiter promises, without saying how: permits are granted   *)
(* one after the other, at most Rpm of them in any half-open window of     *)
(* length Window, and no two closer than MinInterval.                      *)
(***************************************************************************)
EXTENDS Integers, Sequences, FiniteSets

CONSTANTS Rpm, Window, MinInterval

VARIABLES now,      \* the clock
          granted   \* the instants of the permits, in the order of granting

\* The permits that a window ending at instant t still contains.
InWindow(t) == {i \in DOMAIN granted : granted[i] > t - Window}

Grantable(t) ==
  /\ Cardinality(InWindow(t)) < Rpm
  /\ granted # << >> => t >= granted[Len(granted)] + MinInterval

Init == now = 0 /\ granted = << >>

Advance == UNCHANGED granted

\* A permit bears the instant at which the step that grants it ends.
Grant == Grantable(now') /\ granted' = Append(granted, now')

\* The clock may move in any step, and never backwards.
Next == /\ now' \in Nat
        /\ now' >= now
        /\ Advance \/ Grant

Spec == Init /\ [][Next]_<<now, granted>>
=============================================================================
