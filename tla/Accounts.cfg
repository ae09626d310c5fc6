SPECIFICATION AccountsSpec
CONSTANTS
  Threads = {1, 2}
  Names = {"weibo", "163"}
  OddNames = {"number163"}
  AsString <- MCAsString
  Missing = "missing"
  Values = {"a"}
  Initial <- MCInitial
  MaxRequests = 3
  MaxCrashes = 1
  Pages = {p1, p2}
  Passwords = {"pass", "pass ", "passphrase"}
  Typed = {"pass ", "passphrase"}
  Wide = {"passphrase"}
  Trimmed <- MCTrimmed
  Plain = "pass"
  Hidden = "pass "
  MaxClicks = 3
SYMMETRY MCSymmetry
CONSTRAINT MCWatched
INVARIANTS SpoiltForAReason NothingInvented FlagTellsTruth SealedUntilOpened ListMatchesTable OnePaneShown
PROPERTIES AloneAtomic SpoiltStays
CHECK_DEADLOCK FALSE
