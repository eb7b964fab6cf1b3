SPECIFICATION FairSpec
CONSTANTS
  None = None
  Plain = {p1, p2}
  Streams = {s1}
  Capacity = 1
  Errors = {"RateLimitError", "ServiceUnavailableError", "APIConnectionError", "Timeout", "BadRequestError", "NotFoundError", "Other"}
  Paths = {a, b}
  Blank = Blank
  DefaultFile = DefaultFile
  NotFound = NotFound
  OddName = OddName
  Argvs <- ShortArgvs

INVARIANTS TypeOK HandlersAreOwed StatusTellsTheTruth
PROPERTIES UnreadyMeansClosed BootHonoursTheRequest EveryHandlerReturns
