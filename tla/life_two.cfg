CONSTANTS
  pead = pead
  first = first  default = default  desk = desk
  p1 = p1  p2 = p2
  None = None
  Procs = {p1, p2}
  Strats = {pead}
  MaxDepth = 1
  Camps = {first, default, desk}
  First = pead
  FirstCamp = first
  DefaultCamp = default
  Ops = {"approve", "baseline", "setup", "promote", "start", "graduate"}
  Reported = {}
SPECIFICATION Spec
INVARIANTS LogTellsState TwinSharesCampaign SetupIsExclusive
SYMMETRY Symmetry
