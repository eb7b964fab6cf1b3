SPECIFICATION Spec
CONSTANTS
  None = None
  Plain = {p1, p2, p3}
  Streams = {}
  QueueMax = 2
  MaxWait = 2
  Rpm = 1
  Window = 2
  MinInterval = 0
  Threshold = 2
  Recovery = 1
  BreakerEnabled = TRUE
  ForwardTimeout = 3
  MaxRetries = 0
  Backoff = 0
  DrainTimeout = 2
  Faults = {"InternalServerError", "Other"}
  MaxSkew = 1
  MaxChunks = 0
  LastArrival = 3
  MaxTime = 14
SYMMETRY Interchangeable
INVARIANTS InFlightIsPermitted BreakerConsistent FuturesMatchWork MetricsTellTheTruth UpstreamWithinRpm ForwardedBeforeStale
PROPERTIES AnswerIsFinal ServiceRefined
