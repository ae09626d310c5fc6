SPECIFICATION Spec
CONSTANTS
  Conns = {c1, c2, c3, c4}
  Bytes <- MCNewLines
  MAX_LINE = 2
  RECV_MAX = 1
  FD_SETSIZE = 3
  NOFILE = 5
  SNDBUF = 1
  MaxSent = 1
  SelectFails = FALSE
  NULL = NULL
INVARIANTS
  TableMatchesDescriptors
  HandlersHaveState
SYMMETRY MCSymmetry
CHECK_DEADLOCK FALSE
CONSTRAINT TwoWrite
