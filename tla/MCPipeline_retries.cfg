SPECIFICATION Spec
CONSTANTS
  None = None
  Plain = {p1}
  Streams = {}
  QueueMax = 1
  MaxWait = 3
  Rpm = 1
  Window = 3
  MinInterval = 0
  Threshold = 1
  Recovery = 2
  BreakerEnabled = FALSE
  ForwardTimeout = 1
  MaxRetries = 1
  Backoff = 0
  DrainTimeout = 1
  Faults = {"InternalServerError", "Other"}
  MaxSkew = 0
  MaxChunks = 0
  LastArrival = 0
  MaxTime = 4

INVARIANTS UpstreamWithinRpm
