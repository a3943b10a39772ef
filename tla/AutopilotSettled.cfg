SPECIFICATION AutopilotSpec
CONSTANTS
  s1 = s1
  p1 = p1
  p2 = p2
  Runs = {s1}
  Settlers = {p1, p2}
  Files <- CsvFiles
  Bets <- BetIds
  Fetched <- OneMatch
  OfferList <- TwoOffers
  Offers <- AllTwo
  Scores = {50, 80}
  Threshold = 62
  MaxBets = 2
  MlWeight = 50
  NoScore = NoScore
  Transcripts <- OneSpeech
  MaxPasses = 1
INVARIANTS
  BookSound
PROPERTIES
  ImplementsLedger
CHECK_DEADLOCK FALSE
