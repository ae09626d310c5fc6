SPECIFICATION FairSpec
CONSTANTS
  Threads = {1, 2}
  Duties <- MCAll
  Dummies <- MCOneDummy
  Bodies <- MCOneBody
  NoName = "null"
  CaseFold <- MCCaseFold
  Capacity = 2
  MaxRequests = 3
PROPERTIES IdsNeverReused EveryRequestAnswered
CHECK_DEADLOCK FALSE
