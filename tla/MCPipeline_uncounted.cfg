SPECIFICATION Spec
CONSTANTS
  None = None
  Plain = {p1}
  Streams = {s1}
  QueueMax = 2
  MaxWait = 3
  Rpm = 1
  Window = 1
  MinInterval = 0
  Threshold = 2
  Recovery = 2
  BreakerEnabled = TRUE
  ForwardTimeout = 1
  MaxRetries = 0
  Backoff = 0
  DrainTimeout = 1
  Faults = {"RateLimitError"}
  MaxSkew = 0
  MaxChunks = 1
  LastArrival = 1
  MaxTime = 8

PROPERTIES UpstreamErrorsAreCounted
