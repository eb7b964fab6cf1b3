SPECIFICATION Spec
CONSTANTS
  None = None
  Plain = {p1}
  Streams = {s1, s2}
  QueueMax = 2
  MaxWait = 2
  Rpm = 1
  Window = 2
  MinInterval = 1
  Threshold = 1
  Recovery = 1
  BreakerEnabled = TRUE
  ForwardTimeout = 1
  MaxRetries = 0
  Backoff = 0
  DrainTimeout = 1
  Faults = {"InternalServerError", "Other"}
  MaxSkew = 0
  MaxChunks = 1
  LastArrival = 1
  MaxTime = 7
SYMMETRY Interchangeable
INVARIANTS TypeOK InFlightIsPermitted MetricsTellTheTruth HandlesEndOnce
PROPERTIES NoAdmissionInShutdown HalfOpenIsLeft ServiceRefined
