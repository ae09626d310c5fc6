SPECIFICATION Spec
CONSTANTS
  Conns = {c1}
  Bytes <- MCBytes
  MAX_LINE = 3
  RECV_MAX = 2
  FD_SETSIZE = 2
  NOFILE = 2
  SNDBUF = 2
  MaxSent = 7
  SelectFails = FALSE
  NULL = NULL
INVARIANTS
  NoStrandedLine
  NoLossWithinBuffer
  PatientClientsLoseNothing
PROPERTIES
  ImplementsLineEcho
CHECK_DEADLOCK FALSE
