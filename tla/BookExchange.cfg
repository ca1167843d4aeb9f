CONSTANTS
  Ids = {p1, p2}
  Markets = {m1, m2}
  NoMarket = NoMarket
  Users = {}
  Modes = {"live"}
  MaxLots = 2
  MaxOpen = 2
  MaxExposure = 3
  ContraryExit = FALSE
  Faults = {"partial", "reject", "lost", "mid", "stop", "db"}
  MaxFaults = 1
SPECIFICATION Spec
INVARIANTS
  BookMatchesExchange
  ExposureWithinCap
