CONSTANTS
  MaxMsg = 5
  Blank = {3}
  PollLimit = 2
  MaxFaults = 2
SPECIFICATION FairFeedSpec
INVARIANTS
  NoGap
PROPERTIES
  EventuallyIngested
CHECK_DEADLOCK FALSE
