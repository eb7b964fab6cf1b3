SPECIFICATION FairSpec
CONSTANTS
  Callers = {c1, c2, c3}
  Rpm = 2
  Window = 5
  MinInterval = 2
  None = None
  MaxSlip = 1
  MaxLag = 1
  MaxTime = 24
  LastStart = 10
  MaxGrants = 6
INVARIANTS TypeOK WindowRespected MinIntervalRespected RemembersTheWindow IInv IsAllowedAgrees
PROPERTIES ResleepsOnlyIfOvertaken PromiseKept EveryAcquireReturns
