CONSTANTS
  h1 = h1
  h2 = h2
  h3 = h3
  None = None
  Broadcast = Broadcast
  Switches = {1, 2, 3}
  Orders <- MCBothWays
  Hosts = {h1, h2, h3}
  SwitchOf <- MCSwitchOf
  OnPort1 = {h1, h2}
  Networks <- MCSmallRing
SPECIFICATION Spec
INVARIANT TreeSpansNetwork
CHECK_DEADLOCK FALSE
