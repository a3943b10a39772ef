SPECIFICATION FetcherSpec
CONSTANTS
  Allowlist <- TwoLeagues
  LeagueRows <- Listed
  Cutoff = 2
  AsOf = 8
  Count = 2
  MaxDetails = 2
  MaxAttempts = 2
  MaxRuns = 2
INVARIANTS
  PublishedWhole
  NewestWithinBudget
  OkMeansFetched
PROPERTIES
  RateLimitStops
CHECK_DEADLOCK FALSE
