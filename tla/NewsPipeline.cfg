CONSTANTS
  Items = {1, 2}
  Window = 1
  MaxPieces = 1
  Concurrency = 1
  MaxPending = 2
  Memory = 2
  MaxDeliveries = 3
  MaxBoots = 1
SPECIFICATION FairSpec
INVARIANTS
  DrainCatchesAll
  BurstChronological
PROPERTIES
  EnteredOnce
  AcceptedIsDecided
CHECK_DEADLOCK FALSE
