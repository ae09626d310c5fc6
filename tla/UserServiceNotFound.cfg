SPECIFICATION Spec
CONSTANTS
  Threads = {1, 2}
  Duties <- MCFirstWrites
  Dummies <- MCDummies
  Bodies <- MCTwoBodies
  NoName = "null"
  CaseFold <- MCCaseFold
  Capacity = 3
  MaxRequests = 2
PROPERTIES NotFoundMeansAbsent
CHECK_DEADLOCK FALSE
