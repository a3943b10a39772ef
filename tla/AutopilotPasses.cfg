SPECIFICATION AutopilotSpec
CONSTANTS
  s1 = s1
  p1 = p1
  p2 = p2
  Runs = {s1}
  Settlers = {}
  Files <- NoFiles
  Bets <- BetIds
  Fetched <- MatchesOfDay
  OfferList <- FiveOffers
  Offers <- AllFive
  Scores = {100}
  Threshold = 62
  MaxBets = 2
  MlWeight = 50
  NoScore = NoScore
  Transcripts <- Speech
  MaxPasses = 2
INVARIANTS
  RowsJustified
  SelectionSound
  SessionClosed
CHECK_DEADLOCK FALSE
