CONSTANTS
  c1 = c1
  c2 = c2
  c3 = c3
  zero = zero
  line = line
  None = None
  Clients = {c1, c2}
  Name <- MCName
  NoName = zero
  LineName = line
  NameOf <- MCNameOf
  Prefix <- MCPrefix
  MaxServerChunk = 2
  MaxClientChunk = 1
  MAXPENDING = 6
  MaxFd = 5
  OperatorStops = TRUE
  MaxInFlight = 2
SPECIFICATION FairSpec
PROPERTIES TurnComes LeaverForgotten NoGhostPartner
CHECK_DEADLOCK FALSE
