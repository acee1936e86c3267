CONSTANTS
  c1 = c1
  c2 = c2
  c3 = c3
  zero = zero
  line = line
  None = None
  Clients = {c1, c2}
  Name <- MCName
  NoName = zero
  LineName = line
  NameOf <- MCNameOf
  Prefix <- MCPrefix
  MaxServerChunk = 1
  MaxClientChunk = 1
  MAXPENDING = 7
  MaxFd = 5
  OperatorStops = TRUE
  MaxInFlight = 2
SPECIFICATION Spec
CHECK_DEADLOCK FALSE
PROPERTY OtherStaysInside
