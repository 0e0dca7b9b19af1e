SPECIFICATION FairSpec
CONSTANTS
  Tokens <- MCTokens
  StopList <- MCStopList
  Titles <- MCTitles
  Contents <- MCContents
  MaxPages = 2
  MaxCrashes = 2
INVARIANTS
  OnlyKillsLose
PROPERTIES
  ImplementsIndexer
