----------------------------- MODULE MCIngress -----------------------------
EXTENDS Ingress

\* Command lines of up to two arguments.
ShortArgvs == UNION {[1..n -> Arguments] : n \in 0..2}
=============================================================================
