--------------------------- MODULE MCRateLimiter ---------------------------
(* Instances of RateLimiter for TLC: the callers are not declared symmetric,
   because one of the properties is a liveness property. *)
EXTENDS RateLimiter
=============================================================================
