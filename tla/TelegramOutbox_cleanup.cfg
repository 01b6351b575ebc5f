SPECIFICATION Spec
CHECK_DEADLOCK FALSE
INVARIANTS CleanupKeepsSent
CONSTANTS
  Events = {e1}
  MaxRows = 2
  Deliverers = {d1, d2}
  LeaseTicks = 2
  CallTicks = 1
  MaxAge = 1
  MaxTime = 2
  MaxMessages = 2
  MaxFaults = 0
  Nobody = Nobody
