CONSTANTS
  Timeout = 1
  MaxNow = 9
  MaxFailures = 2
  AllowedDexes <- MCDexes
  Callers = {c1, c2}
  MidTtl = 2
  Interval = 1
  MarketsTtl = 1
  FundingTtl = 2
  Readers = {r1, r2}
  Bar = 2
  Margin = 3
  Slots = 1
  Capacity = 2
  Retries = 2
  Base <- MCBase
  Cap <- MCCap
  Healthy = 1
  Silence = 3
  Least = 1
  Most = 2
  Channels = {"news", "macro"}
  BackfillDays = 3
  Slack = 1
  MinItems = 2
  Refresh = 3
  Warmup = 1
  MaxPosts = 3
  Wallets = {"spot", "perp"}
  NoValue = NoValue
SPECIFICATION Spec
INVARIANTS
  QuotesAreRecent
  PagesAreFinal
  FeedsStayUp
PROPERTIES
  FetchesTakeTurns
  ContextSurvives
CHECK_DEADLOCK FALSE
