CONSTANTS
  pead = pead  first = first  default = default  p1 = p1
  None = None
  Procs = {p1}
  Strats = {pead}
  MaxDepth = 1
  Camps = {first, default}
  First = pead
  FirstCamp = first
  DefaultCamp = default
  Ops = {"approve", "reject", "retire", "promote", "baseline", "setup",
         "pause", "resume"}
  Reported <- Variants
  CampMode <- AllPaper
  CycleMode = "paper"
SPECIFICATION RowsSpec
INVARIANTS TypeOK ApprovedBeforeTrading NothingProposedTrades
PROPERTY RunningPositionsAreListed
