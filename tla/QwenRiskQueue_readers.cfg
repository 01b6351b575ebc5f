SPECIFICATION FairSpec
INVARIANTS TypeOK OneEntryEach ReadyIsRecorded
PROPERTIES QueuedKeepsTask ReadersServed
CONSTANTS
  Inputs = {i1, i2, i3}
  Asked = {i1, i2}
  Scanned = {i1, i3}
  Revised = {i1}
  Workers = {w1}
  Capacity = 2
  ActivityMax = 3
  AutoRetries = 1
  TopAttempts = 2
  RunLimit = 1
  TtlTicks = 1
  StaleTicks = 1
  BackoffTicks = 1
  BackoffCap = 1
  MaxTime = 3
  MaxCrashes = 1
  NoInput = NoInput
