SPECIFICATION StagesSpec
CONSTANTS
  home = home
  people = people
  f2 = f2
  f3 = f3
  f4 = f4
  f5 = f5
  f6 = f6
  f7 = f7
  f8 = f8
  f9 = f9
  Tokens <- MCTokens
  StopList = {"the"}
  SepToken = ";;;"
  URLs = {home, people, f2, f3, f4, f5, f6, f7, f8, f9}
  Crawled = {home, people}
  Pages <- MCPages
  Documents0 <- MCDocuments0
  Crawls <- MCCrawls
  MaxEntries = 4
  MaxCrashes = 1
  MaxRuns = 2
INVARIANTS
  ListedHaveForward
  FrequencyReadable
  QueryReadable
  Listed
  ExactWhenUnchanged
PROPERTIES
  OnlyShadowedTouched
CHECK_DEADLOCK FALSE
