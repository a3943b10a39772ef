SPECIFICATION Spec
CONSTANTS
  NoDetail = NoDetail
  None = None
  NotANumber = NotANumber
  NoFile = NoFile
  Broken = Broken
  Account <- Seasons
  Server <- Answers
  Unreadable = {2}
  Offers = {0, 2}
  MaxRuns = 2
INVARIANTS
  DecisionsPointInTime
  HoldMatchesWins
  FilesSealed
CHECK_DEADLOCK FALSE
