SPECIFICATION ListenerPeerFairSpec
CONSTANTS
  m1 = m1
  f1 = f1
  f2 = f2
  Writers = {listener}
  Listener = listener
  Matches = {m1}
  Times <- TwoTimes
  Features = {f1, f2}
  Lags <- OneLag
  Models = {k1}
  NoModel = NoModel
  Notes <- IgnoreNotes
  NoNote = NoNote
  NoRequest = NoRequest
  Clocks <- GameClocks
  SamplingInterval = 60
  NoMatch = NoMatch
  BadTeams = BadTeams
  Payloads <- GamePayloads
  BadRequest = BadRequest
  MaxPayloads = 2
  IdleTimeout = 1
  MaxRuns = 2
  InterruptsAllowed = TRUE
INVARIANTS
  ToldIsDurable
PROPERTIES
  RunEnds
  FatalWritesNothing
CHECK_DEADLOCK FALSE
