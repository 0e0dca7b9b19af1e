SPECIFICATION FairSpec
CONSTANTS
  Tokens <- MCTokens
  StopList <- MCStopList
  Databases <- MCDatabases
  Queries <- MCQueries
  ThreshNum = 1
  ThreshDen = 5
INVARIANTS
  AllWordsFound
CHECK_DEADLOCK FALSE
