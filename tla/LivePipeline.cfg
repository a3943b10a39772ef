SPECIFICATION PipelineSpec
CONSTANTS
  m1 = m1
  f1 = f1
  f2 = f2
  Writers = {listener, jsonl}
  Listener = listener
  Jsonl = jsonl
  Matches = {m1}
  Times <- TwoTimes
  Features = {f1, f2}
  Lags <- OneLag
  Models = {k1}
  NoModel = NoModel
  Notes <- IgnoreNotes
  NoNote = NoNote
  NoRequest = NoRequest
  Clocks <- GameClocks
  SamplingInterval = 60
  NoMatch = NoMatch
  BadTeams = BadTeams
  Payloads <- GamePayloads
  BadRequest = BadRequest
  MaxPayloads = 2
  IdleTimeout = 1
  MaxRuns = 1
  InterruptsAllowed = FALSE
  Malformed = Malformed
  Lines <- BridgeLines
  MaxLines = 1
  MaxEdits = 0
INVARIANTS
  NothingUndone
  ShownIsOwnOrNewer
CHECK_DEADLOCK FALSE
