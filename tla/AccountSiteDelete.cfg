SPECIFICATION SiteSpec
CONSTANTS
  Pages = {p1}
  Passwords = {"pass", "pass ", "passphrase"}
  Typed = {"pass ", "passphrase"}
  Wide = {"passphrase"}
  Trimmed <- MCTrimmed
  Plain = "pass"
  Hidden = "pass "
  MaxClicks = 2
PROPERTIES DeletedLeavesList
CHECK_DEADLOCK FALSE
