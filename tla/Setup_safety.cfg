SPECIFICATION Spec
CONSTANTS
  Job = {backup}
  Entry = collect
  Proc = {one, two}
  MaxRuns = 3
  MaxFaults = 2
INVARIANTS TypeOK OneEntry SharedFingerprintSignsAlone KeyFilesMatch
PROPERTIES SettledIdentityIsKept TheirLinesAreKept ScheduleIsAsReported ConfigIsSound
CHECK_DEADLOCK FALSE
