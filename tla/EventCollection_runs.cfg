SPECIFICATION FairSpec
CONSTANTS
  claude = claude
  copilot = copilot
  Registry <- MCRegistry
  Key = {k1}
  Growing = {copilot}
  Proc = {cron, user}
  Cron = cron
  Nobody = Nobody
  AnySource = AnySource
  MaxVersion = 2
  MaxFaults = 2
INVARIANTS TypeOK NoDuplicateInFlight SuccessMeansStored
PROPERTIES AllOrNothing ImplementsLedger EventuallyCollected
