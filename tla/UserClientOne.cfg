SPECIFICATION FairSpec
CONSTANTS
  Clients = {1}
  Dummies <- MCDummies
  Bodies <- MCBodies
  Ids = {1, 2, 3, 4}
  NoName = "null"
  CaseFold <- MCCaseFold
  MaxClicks = 2
INVARIANTS PageShowsRegistry SettledPageFresh
PROPERTIES ChangesShown
CHECK_DEADLOCK FALSE
