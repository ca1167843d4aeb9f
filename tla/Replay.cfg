CONSTANTS
  Kinds <- MCKinds
  Markets = {"a", "b", "c"}
  Sides = {"long", "short"}
  Times <- MCTimes
  DayLength = 5
  Refresh = 3
  MemWindow = 4
  Gate = 3
  ConfirmGate = 2
  ContraryMin = 2
  DupWindow = 3
  Cooldown = 2
  Limit = 3
  MaxOpen = 2
  MaxExposure = 7
  MinOrder = 1
  Tiers <- MCTiers
  Lot = 2
  MinHold = 1
  MaxFails = 2
  SaveEvery = 2
  Modes = {"replay", "alone"}
  Faults = {"analysis", "regime", "confirm", "candles", "funding", "crash"}
  MaxFaults = 2
  MaxRuns = 3
  Lengths <- MCLengths
  Lookback = 2
  MaxDelay = 2
  Haircut = 2
  Penalty = 1
  RejectMove = 3
  MaxSpread = 15
  MinDepth = 4
  TopLevels = 2
  Folds = 2
  TrainPercent = 70
  Unsimulated = Unsimulated
SPECIFICATION LabSpec
INVARIANTS
  JudgedInContext
  ResumeConverges
  PortfolioSound
  ReferenceIsLastKnown
  ValidatedOnce
CHECK_DEADLOCK FALSE
