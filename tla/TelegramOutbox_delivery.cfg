SPECIFICATION FairSpec
CHECK_DEADLOCK FALSE
INVARIANTS OneDeliveryAtATime MessagesOnRecord CleanupKeepsUnshared
PROPERTIES EveryAlertSettles
CONSTANTS
  Events = {e1}
  MaxRows = 2
  Deliverers = {d1, d2}
  LeaseTicks = 2
  CallTicks = 1
  MaxAge = 1
  MaxTime = 2
  MaxMessages = 2
  MaxFaults = 1
  Nobody = Nobody
