SPECIFICATION LoopFairSpec
CONSTANTS
  None = None
  Plain = {}
  Streams = {s1}
  QueueMax = 2
  MaxWait = 2
  Rpm = 1
  Window = 1
  MinInterval = 0
  Threshold = 1
  Recovery = 2
  BreakerEnabled = FALSE
  ForwardTimeout = 1
  MaxRetries = 0
  Backoff = 0
  DrainTimeout = 1
  Faults = {"InternalServerError", "Other"}
  MaxSkew = 0
  MaxChunks = 2
  LastArrival = 0
  MaxTime = 4

PROPERTIES DisconnectReleasesWorker
