CONSTANTS
  Markets = {m1, m2}
  NoMarket = NoMarket
  Outcomes <- LossOrNothing
  Limit = 2
  Cooldown = 2
  DayLength = 2
  TornWrites = FALSE
  MaxTime = 3
  MaxEntries = 2
  MaxCrashes = 1
SPECIFICATION Spec
SYMMETRY Symmetry
INVARIANTS
  HaltLetsOneThrough
PROPERTIES
  OperatorDecides
  DailyHaltLasts
  CooldownHolds
  CountedOnce
CHECK_DEADLOCK FALSE
