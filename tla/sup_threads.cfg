CONSTANTS
  UnknownJob = ghost
  Jobs = {executor_cycle}
  MaxCommands = 2
  MaxRuns = 2
  MaxFaults = 0
  MaxCrashes = 1
SPECIFICATION RunCmdSpec
PROPERTY ScheduledRunsAreJournaled
