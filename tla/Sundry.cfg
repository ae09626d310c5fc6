SPECIFICATION SundrySpec
CONSTANTS
  c1 = c1
  c2 = c2
  c3 = c3
  Clients <- MCClients
  LoopOf <- MCLoopOf
  Talkers = {c1, c3}
  MaxLines = 1
  Unreliable = {c1}
  Sleep <- MCSleep
  WithoutBook = {1, 2, 3}
  AUTHOR_NAME = 4
  CorePool = 4
  Workers = 4
  Patience = 5
  Grace = 100
  Jitter = 1
  MaxDuration = 12
INVARIANTS GreetedFirst ContiguousPerSender AnswersAreExpected ConcurrentIsFastest
PROPERTIES NobodyForgotten ByeCloses
CHECK_DEADLOCK FALSE
