CONSTANTS
  c1 = c1
  c2 = c2
  Clients = {c1, c2}
  MaxServerChunk = 3
  MaxClientChunk = 3
  Pieces = 2
  FdLimits = {1, 2}
  MaxRequests = 2
SPECIFICATION FairSpec
INVARIANTS TypeOK InStep
PROPERTIES OnlyBrokenExchangesCrash AnswerComes
CHECK_DEADLOCK FALSE
