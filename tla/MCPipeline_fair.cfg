SPECIFICATION FairSpec
CONSTANTS
  None = None
  Plain = {p1, p2}
  Streams = {s1}
  QueueMax = 2
  MaxWait = 1
  Rpm = 1
  Window = 2
  MinInterval = 0
  Threshold = 1
  Recovery = 1
  BreakerEnabled = TRUE
  ForwardTimeout = 1
  MaxRetries = 2
  Backoff = 1
  DrainTimeout = 1
  Faults = {"RateLimitError"}
  MaxSkew = 0
  MaxChunks = 1
  LastArrival = 0
  MaxTime = 10

INVARIANTS AttemptsAreBounded
PROPERTIES AnswerIsFinal AcceptedIsTaken ReadersAreReleased ServiceServes
