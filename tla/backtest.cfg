SPECIFICATION Spec
CHECK_DEADLOCK FALSE
CONSTANTS
  Tickers <- MCTickers
  Universe <- MCTickers
  Bars <- MCBars
  Candidates <- MCCandidates
  InitialEquity = 1000000
  AtrPeriod = 1
  SurpriseThreshold = 5
  SurpriseWindow = 24
  StopMult = 2
  TargetMult = 3
  MinEdgeBps = 30
  RiskPct = 5
  MaxCapitalPct = 49
  MaxPositions = 2
  MinHoldDays = 2
  MaxHoldDays = 2
  MaxDays = 4
INVARIANTS LossWithinRisk OnlyLossesLeverage HoldsAreBounded
PROPERTIES PositionsAccounted
