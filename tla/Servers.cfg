SPECIFICATION ServersSpec
CONSTANTS
  Connections = {1, 2}
  Letters <- MCLetters
  Longest <- MCLongest
  SNDBUF = 1
  Limits = {2, 3}
  OUTBUF = 2
  ForkFails = TRUE
  MAX_LINE = 2
  FD_SETSIZE = 1
  Inputs <- MCInputs
  LineFeed = 10
  Sizes = {1, 3}
  RIO_BUFSIZE = 2
  MaxCalls = 3
  MaxSignals = 1
  MaxErrors = 1
  MAX_PRINT_STRING_LEN = 8
  Encodable <- MCEncodable
  Rooms <- MCRooms
  Beyond <- MCBeyond
  MaxBreaks = 1
INVARIANTS HalfCloseGetsAll RepliesAreWhatWasRead ReadingGoesOn NoByteLost Base64RoundTrip TextRoundTrip
PROPERTIES ForkImplementsLineEcho LineAnsweredAlone ImplementsStream CallsReturn
CHECK_DEADLOCK FALSE
