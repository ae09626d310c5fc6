SPECIFICATION Spec
CONSTANTS
  Threads = {1, 2}
  Duties <- MCFirstWrites
  Dummies <- MCTwoDummies
  Bodies <- MCBodies
  NoName = "null"
  CaseFold <- MCCaseFold
  Capacity = 2
  MaxRequests = 3
INVARIANTS ListWellFormed
PROPERTIES ImplementsRegistry QuietReadsExact
CHECK_DEADLOCK FALSE
