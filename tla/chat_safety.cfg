CONSTANTS
  c1 = c1
  c2 = c2
  c3 = c3
  zero = zero
  line = line
  None = None
  Clients = {c1, c2, c3}
  Name <- MCName
  NoName = zero
  LineName = line
  NameOf <- MCNameOf
  Prefix <- MCPrefix
  MaxServerChunk = 2
  MaxClientChunk = 1
  MAXPENDING = 7
  MaxFd = 6
  OperatorStops = FALSE
  MaxInFlight = 2
SYMMETRY Perms
SPECIFICATION Spec
INVARIANTS TypeOK PairingSound SlotLifecycle RoundStaysReady ScreenFollowsTable TextsMatchScreen
PROPERTIES NeverStolen Pairing
CHECK_DEADLOCK FALSE
