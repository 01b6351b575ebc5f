SPECIFICATION Spec
INVARIANTS Independent NoOverlapFrozen
PROPERTIES RetryReconciles
CONSTANTS
  s1 = s1  s2 = s2  s3 = s3
  r1 = r1  r2 = r2  a1 = a1
  Samples = {s1, s2, s3}
  Order <- MCOrder
  Source <- MCSource
  Overlap <- MCOverlap
  Provisional = {}
  Exposed = {}
  KnownSources = {"court"}
  Principals = {r1, r2, a1}
  Role <- MCRole
  Axes <- MCAxes
  Quota <- MCQuota
  MinSources = 1
  Freezers = {p1}
  MaxApprovals = 2
  MaxCrashes = 1
  None = None
CHECK_DEADLOCK FALSE
