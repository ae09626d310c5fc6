SPECIFICATION FairSpec
CONSTANTS
  Conns = {c1, c2}
  Bytes <- MCNewLines
  MAX_LINE = 2
  RECV_MAX = 2
  FD_SETSIZE = 3
  NOFILE = 2
  SNDBUF = 1
  MaxSent = 2
  SelectFails = TRUE
  NULL = NULL
PROPERTIES
  LinesAnswered
  EndedConnectionsClosed
CHECK_DEADLOCK FALSE
