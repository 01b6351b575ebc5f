SPECIFICATION FairSpec
INVARIANTS RecoveryNeverConflicts
PROPERTIES EveryConclusionAudited ImplementsAuditedLedger
CONSTANTS
  Events = {e1}
  MaxVersion = 3
  MaxEvidence = 1
  MaxRoughMoves = 1
  Runners = {r1, r2}
  Batches = {b1}
  Latencies = {l1, l2, l3}
  MayCoincide = FALSE
  BatchLimit = 1
  DailyLimit = 1
  MaxDay = 0
  MaxCrashes = 1
  Nothing = Nothing
