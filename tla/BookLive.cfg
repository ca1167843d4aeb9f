CONSTANTS
  Ids = {p1, p2}
  Markets = {m1}
  NoMarket = NoMarket
  Users = {}
  Modes = {"live", "paper"}
  MaxLots = 2
  MaxOpen = 1
  MaxExposure = 2
  ContraryExit = FALSE
  Faults = {"crash", "partial", "reject", "lost", "mid", "fetch", "glitch"}
  MaxFaults = 2
SPECIFICATION FairSpec
INVARIANT RowsMirrorBook
PROPERTIES
  ImplementsLedger
  DueIsClosed
