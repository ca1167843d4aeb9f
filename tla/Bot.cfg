CONSTANTS
  Positions = {p1, p2}
  QueueSize = 2
  MaxMessages = 1
  MaxPresses = 3
  MaxBoots = 2
  BotFaults = {"skip", "edit"}
  MaxBotFaults = 1
  MaxEvents = 5
SPECIFICATION Spec
CONSTRAINT FewEvents
SYMMETRY PositionSymmetry
INVARIANTS
  CaughtUpShowsTheBook
  OnlyConfirmedIsClosed
CHECK_DEADLOCK FALSE
