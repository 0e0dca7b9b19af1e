SPECIFICATION FairSpec
CONSTANTS
  home = home
  people = people
  other = other
  URLs <- MCURLs
  Start = home
  CSE = {home, people}
  Webs <- MCWebs
  Stores <- MCStores
  Limits = {0, 1, 2, 3, 5}
  MaxEdits = 2
INVARIANTS
  CountersAgree
PROPERTIES
  EndsOrSpins
CHECK_DEADLOCK FALSE
