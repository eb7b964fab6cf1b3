------------------------------ MODULE Metrics ------------------------------
(***************************************************************************)
(* The counters and gauges of MetricsCollector                             *)
(* (src/observability/metrics.py) that the pipeline updates, as operators  *)
(* on a record.  The Prometheus objects set beside them repeat them.       *)
(***************************************************************************)
EXTENDS Integers

Snapshots == [queueSize : Nat, enqueued : Nat, processed : Nat,
              state : {"CLOSED", "OPEN", "HALF_OPEN"}, opens : Nat,
              started : Nat, completed : Nat,
              upstream429 : Nat, upstream5xx : Nat]

NoMetrics == [queueSize |-> 0, enqueued |-> 0, processed |-> 0,
              state |-> "CLOSED", opens |-> 0, started |-> 0, completed |-> 0,
              upstream429 |-> 0, upstream5xx |-> 0]
-----------------------------------------------------------------------------
(* Defect the runs must notice: the gauge is left to the next enqueue. *)

ProcessedOnly(m) == [m EXCEPT !.processed = @ + 1]
-----------------------------------------------------------------------------
RecordEnqueue(m) == [m EXCEPT !.queueSize = @ + 1, !.enqueued = @ + 1]

\* The gauge of the queue never goes below 0.
RecordDequeue(m) ==
  [m EXCEPT !.queueSize = IF @ > 0 THEN @ - 1 ELSE 0, !.processed = @ + 1]

RecordBreakerState(m, state, opened) ==
  [m EXCEPT !.state = state, !.opens = IF opened THEN @ + 1 ELSE @]

RecordStreamStarted(m)   == [m EXCEPT !.started = @ + 1]
RecordStreamCompleted(m) == [m EXCEPT !.completed = @ + 1]
RecordUpstream429(m)     == [m EXCEPT !.upstream429 = @ + 1]
RecordUpstream5xx(m)     == [m EXCEPT !.upstream5xx = @ + 1]
=============================================================================
