CONSTANTS
  UnknownJob = ghost
  Jobs = {executor_cycle}
  MaxCommands = 2
  MaxRuns = 2
  MaxFaults = 1
  MaxCrashes = 2
SPECIFICATION FairSpec
INVARIANTS TypeOK NewestCommandRules RunningIsExplained
PROPERTIES CommandsAreSettled ImplementsQueue
