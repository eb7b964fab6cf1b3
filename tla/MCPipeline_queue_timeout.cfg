SPECIFICATION Spec
CONSTANTS
  None = None
  Plain = {p1, p2}
  Streams = {}
  QueueMax = 2
  MaxWait = 1
  Rpm = 1
  Window = 1
  MinInterval = 0
  Threshold = 1
  Recovery = 2
  BreakerEnabled = TRUE
  ForwardTimeout = 3
  MaxRetries = 0
  Backoff = 0
  DrainTimeout = 1
  Faults = {"InternalServerError", "Other"}
  MaxSkew = 0
  MaxChunks = 0
  LastArrival = 0
  MaxTime = 6

PROPERTIES OnlyUpstreamFailuresCount
