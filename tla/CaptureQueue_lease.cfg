SPECIFICATION FairSpec
INVARIANTS LeaseConsistent AttemptsBounded
PROPERTIES EveryJobSettles EveryEntryLeaves
CONSTANTS
  Observations = {o1}
  MaxVersion = 1
  NoJob = NoJob
  Runners = {r1, r2}
  Requests = {q1}
  MaxAttempts = 2
  Capacity = 1
  LeaseTicks = 1
  BackoffTicks = 1
  MaxTime = 2
  MaxCrashes = 1
  MaxGateMoves = 0
  RequestCap = 0
  RequestReserve = 0
  DayTicks = 10
  CnyCap = 0
  CnyReserve = 0
  CallReserve = 1
  Costs = {0}
