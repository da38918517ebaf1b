SPECIFICATION Spec
CONSTANTS
  Metric = {rework}
  HigherIsBetter = {}
  Threshold <- MCThreshold
  Proc = {p}
  MaxLevel = 2
  MaxRuns = 3
PROPERTY SyncUpdatesFormerFindings
CHECK_DEADLOCK FALSE
