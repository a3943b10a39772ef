SPECIFICATION TrainingSpec
CONSTANTS
  NoTime = NoTime
  NoSide = NoSide
  NoTeam = NoTeam
  TeamSize = 2
  ScopeStart = 1
  FieldsOf <- Names
  Weight <- Ages
  Scale = 1000
  Iterations = 4
  DraftScope = {11, 12, 13, 14}
  MatchRows <- FewMatches
  GameRows <- FewGames
  Sightings <- FewSightings
  Parts <- SeventyFifteen
  Minimum <- Least
  Upcoming <- Asked
  MaxWrites = 5
  NoModel = NoModel
  t1 = t1
  t2 = t2
  t3 = t3
  t4 = t4
  h1 = h1
  h2 = h2
  h3 = h3
  h4 = h4
  k1 = k1
INVARIANTS
  ResultsCounted
  ServedAsTrained
  OutOfSample
  NoLookAhead
PROPERTIES
  DraftNoLookAhead
CHECK_DEADLOCK FALSE
