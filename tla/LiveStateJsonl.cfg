SPECIFICATION JsonlFairSpec
CONSTANTS
  Writers = {jsonl}
  Jsonl = jsonl
  Matches = {m1}
  Times = {0, 60}
  Features = {f1, f2}
  Lags = {60}
  Models = {k1}
  NoModel = NoModel
  Notes = {n1}
  NoNote = NoNote
  NoRequest = NoRequest
  Malformed = Malformed
  Lines <- AllLines
  MaxLines = 2
  MaxEdits = 1
INVARIANTS
  LinesTakenInOrder
  SuccessIsSummarised
PROPERTIES
  GoodLinesConsumed
