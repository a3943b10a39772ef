SPECIFICATION PublicSpec
CONSTANTS
  NoTime = NoTime
  NoSide = NoSide
  NoTeam = NoTeam
  TeamSize = 1
  q1 = q1
  q2 = q2
  q3 = q3
  Procs = {q1, q2, q3}
  Feed <- FourVersions
  PageSize = 2
  Since = 2
  Until = 3
  MaxTournaments = 2
  Mixes <- ProvidersOrPages
  NoText = NoText
  Asked <- BothMatches
  MaxRetries = 0
  MaxResources = 3
  t1 = t1
  t2 = t2
  h1 = h1
  h2 = h2
  h3 = h3
INVARIANTS
  SyncedIsStored
  DraftMatchesGame
  RostersAvailable
  ReportedIsWhole
PROPERTIES
  NothingErased
CHECK_DEADLOCK FALSE
