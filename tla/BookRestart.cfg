CONSTANTS
  Ids = {p1, p2}
  Markets = {m1}
  NoMarket = NoMarket
  Users = {"ui"}
  Modes = {"live"}
  MaxLots = 1
  MaxOpen = 2
  MaxExposure = 2
  ContraryExit = TRUE
  Faults = {"crash", "glitch"}
  MaxFaults = 2
SPECIFICATION Spec
INVARIANT OneTrackedPerMarket
PROPERTY NeverReconcileLiveExposure
