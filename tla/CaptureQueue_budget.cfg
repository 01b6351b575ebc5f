SPECIFICATION Spec
SYMMETRY Symmetry
INVARIANTS PriorityWellFormed SameDayCaps ReaderReserveKept
CONSTANTS
  Observations = {o1}
  MaxVersion = 2
  NoJob = NoJob
  Runners = {r1}
  Requests = {q1}
  MaxAttempts = 2
  Capacity = 1
  LeaseTicks = 1
  BackoffTicks = 1
  MaxTime = 2
  MaxCrashes = 0
  MaxGateMoves = 1
  RequestCap = 3
  RequestReserve = 1
  DayTicks = 2
  CnyCap = 5
  CnyReserve = 1
  CallReserve = 2
  Costs = {0, 1, 3}
