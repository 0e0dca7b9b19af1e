SPECIFICATION FairSpec
CONSTANTS
  home = home
  people = people
  f2 = f2
  f3 = f3
  f4 = f4
  f5 = f5
  f6 = f6
  f7 = f7
  f8 = f8
  f9 = f9
  Tokens <- MCTokens
  StopList <- MCStopList
  URLs = {home, people}
  Crawled = {home, people}
  Pages <- MCPages
  Documents0 <- NoneYet
  MaxEntries = 2
  MaxCrashes = 0
INVARIANTS
  NoDuplicates
CHECK_DEADLOCK FALSE
