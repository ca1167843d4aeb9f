CONSTANTS
  Prices = {7, 8, 10, 11, 12, 13}
  Entry = 10
  Scale = 10
  Sensitivities = {"immediate", "days"}
  Horizons <- MCHorizons
  Stops <- MCStops
  Trails <- MCTrails
  TakeProfit = 3
  Arm = 2
  Off = 1
  BarLen = 2
  Ratchets <- MCRatchets
  FarTargets = {0, 3}
  Extensions <- MCExtensions
  Faults = {"unfilled", "db", "crash", "blind", "data"}
  MaxTicks = 5
  MaxFaults = 2
SPECIFICATION LabSpec
INVARIANTS
  StopShownIsKept
  LiveLeavesFirst
  VariantMirrorsWalk
CHECK_DEADLOCK FALSE
