SPECIFICATION ReplaySpec
CONSTANTS
  w1 = w1
  w2 = w2
  i1 = i1
  i2 = i2
  Exports <- FileNames
  Raw <- Files
  Trajectory <- Contents
  CopyNames = {9}
  PlayersPerTeam = 2
  Importers = {i1, i2}
  Nothing = Nothing
  TrainMatchCounts <- OneFold
  TestMatchCount = 1
  MinimumMatchCount = 2
  Dirs = {"dataset", "training", "baseline", "holdout", "model"}
  Workers = {w1, w2}
  NoSet = NoSet
  Budgets <- Scenarios
  TrainLeagues = {1}
  TestLeagues = {2}
SYMMETRY Sides
INVARIANTS
  NothingLost
  OneBuild
  TrainedAsServed
  EvaluatedOnUnseen
CHECK_DEADLOCK FALSE
