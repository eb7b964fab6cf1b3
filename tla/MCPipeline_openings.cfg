SPECIFICATION Spec
CONSTANTS
  None = None
  Plain = {p1, p2}
  Streams = {}
  QueueMax = 2
  MaxWait = 3
  Rpm = 1
  Window = 1
  MinInterval = 0
  Threshold = 1
  Recovery = 2
  BreakerEnabled = TRUE
  ForwardTimeout = 1
  MaxRetries = 0
  Backoff = 0
  DrainTimeout = 1
  Faults = {"InternalServerError", "Other"}
  MaxSkew = 0
  MaxChunks = 0
  LastArrival = 3
  MaxTime = 8

INVARIANTS OpeningsAreCounted
