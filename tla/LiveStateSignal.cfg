SPECIFICATION Spec
CONSTANTS
  Writers = {w1}
  Matches = {m1}
  Times = {0, 60, 120, 180}
  Features = {f1, f2}
  Lags = {60, 120, 180}
  Models = {k1, k2}
  NoModel = NoModel
  Notes = {n1}
  NoNote = NoNote
  NoRequest = NoRequest
INVARIANTS
  StoreSound
PROPERTIES
  CommittedNeverLost
  SuccessIsCurrent
  ImplementsBoard
