SPECIFICATION Spec
SYMMETRY Symmetry
INVARIANTS OneConclusion LimitsKept
CONSTANTS
  Events = {e1, e2}
  MaxVersion = 2
  MaxEvidence = 1
  MaxRoughMoves = 0
  Runners = {r1, r2}
  Batches = {b1, b2}
  Latencies = {l1}
  MayCoincide = TRUE
  BatchLimit = 1
  DailyLimit = 1
  MaxDay = 1
  MaxCrashes = 0
  Nothing = Nothing
