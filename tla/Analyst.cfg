CONSTANTS
  Markets = {"btc", "nvda", "new"}
  Dexes <- MCDexes
  DexOf <- MCDexOf
  Early = {"btc", "nvda"}
  MaxTime = 3
  UniverseFaults = {"dex", "save", "torn", "crash"}
  MaxUniFaults = 2
  Headlines = {h1, h2}
  Options = {"strict"}
  Attempts = 2
  MaxIdle = 1
  MaxCall = 1
  MaxBrief = 1
  Faults = {"transient", "bad", "garbled"}
  MaxFaults = 2
  MaxAnalysis = 3
  MaxChanges = 3
SPECIFICATION Spec
CONSTRAINT FewEvents
SYMMETRY HeadlineSymmetry
INVARIANTS
  NewMeansNew
  ListedStaysTradable
  AnsweredIsJudged
  PrefixIsHot
CHECK_DEADLOCK FALSE
