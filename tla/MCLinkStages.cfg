SPECIFICATION StagesSpec
CONSTANTS
  home = home
  people = people
  other = other
  URLs = {home, people, other}
  Crawled = {home, people}
  LinkSets <- MCLinkSets
  MaxEntries = 3
  MaxCrashes = 2
  Scale = 10
  Infinity = 1000
INVARIANTS
  ChildrenHaveParents
  MissingPerCrash
  OnlyKillsBreakRanks
  FiniteWhenMirrored

  
CHECK_DEADLOCK FALSE
