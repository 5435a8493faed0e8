CONSTANTS
  p1 = p1  p2 = p2  s1 = s1  s2 = s2  b1 = b1  f1 = f1  f2 = f2  t1 = t1  t2 = t2
  Ceiling = 2
  DaysInMonth = 2
  FirstDay = 2
  MaxDay = 3
  Findings = {f1, f2}
  TickerOf <- TwoTickers
  HighScore = {f1}
  Strategies = {s1, s2, b1}
  CampaignOf <- OneCampaign
  NoCampaign = NoCampaign
  Procs = {p1, p2}
  Divisions <- Divided
  TwinOf <- Twin
  Losers = {1, 2, 3}
  PreCutoff = {1}
  DailyLimit = 1
  Limits = {0, 2}
  MaxCands = 2
  MaxCalls = 4
  MaxFaults = 1
SPECIFICATION Spec
INVARIANTS ProvenanceSound ProvenanceKept NoDoublesPerProcess OverspendBounded PostMortemsLimited
CHECK_DEADLOCK FALSE
