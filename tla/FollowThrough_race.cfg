SPECIFICATION Spec
CONSTANTS
  Metric = {cachemiss, rework}
  HigherIsBetter = {cachemiss}
  Threshold <- MCThreshold
  Proc = {p, q}
  MaxLevel = 2
  MaxRuns = 3
INVARIANT RecordsAreCoherent
PROPERTY SettledBaselineIsKept
CHECK_DEADLOCK FALSE
