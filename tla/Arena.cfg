CONSTANTS
  Lanes = {"sonnet", "gpt"}
  Items = {1, 2}
  Story <- MCStory
  Verdicts <- MCVerdicts
  Held = {"sonnet"}
  Gate <- MCGate
  Penalties = {0, 1}
  Floor = 1
  Permits = 1
  MaxPending = 2
  Outcomes <- MCOutcomes
  Limit = 1
  Cooldown = 1
  Window = 2
  DayLength = 2
  MaxEvents = 2
SPECIFICATION Spec
INVARIANT NobodyWaitsForever
PROPERTIES
  HaltIsTheLanesOwn
  StoryTradedOnce
CHECK_DEADLOCK FALSE
