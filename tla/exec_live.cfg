CONSTANTS
  c1 = c1  c2 = c2  s1 = s1  s2 = s2  t1 = t1  t2 = t2  p1 = p1  p2 = p2
  None = None
  Cands = {c1}
  Strategies = {s1, s2}
  StratOf <- OneStrategy
  Tickers = {t1}
  TickerOf <- OneTicker
  SideOf <- Long
  Templated = {s1}
  WithData = {c1}
  Procs = {p1}
  FullQty = 2
  DeriskQty = 1
  MinHold = 0
  MaxPositions = 1
  MaxDaily = 1
  MaxExposure = 2
  PolicyModes = {"NORMAL"}
  OperatorModes = {}
  OperatorDisp = {"accepted"}
  MaxDay = 2
SPECIFICATION FairSpec
PROPERTY ExitsAreNotMissed
