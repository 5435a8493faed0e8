SPECIFICATION Spec
CHECK_DEADLOCK FALSE
CONSTANTS
  p1 = p1
  p2 = p2
  Procs = {p1, p2}
  Divisions <- MCDivisions
  EventDays = {2}
  Surprises = {6, 9}
  MaxDay = 4
  MaxRestatements = 1
  BarDays <- MCBarDays
  MonthStarts <- MCMonthStarts
  Frequency = 2
  SeedThreshold = 5
  Threshold = 5
  MinTrades = 2
  Surprise <- MCSurprise
  Merit <- MCMerit
  EndOf <- MCEnd
  Windows <- MCWindows
  Combos <- MCCombos
  Plans <- MCPlans
  FetchRanges <- MCRanges
  MaxReports = 3
  MaxCrashes = 1
INVARIANTS VersionsTile ReplaysAreRepeatable FamiliesAgree WindowsTile LikeNeverBeatsLike
