CONSTANTS
  h1 = h1
  h2 = h2
  h3 = h3
  None = None
  Broadcast = Broadcast
  Switches = {1, 2, 3}
  Orders <- MCBothWays
  Hosts = {h1, h2, h3}
  SwitchOf <- MCSwitchOf
  OnPort1 = {h1, h2}
  Networks <- MCBoth
SPECIFICATION Spec
INVARIANTS TypeOK TreeIsForest NoStorm LearntPortsLead
PROPERTIES NewTreeSpans
CHECK_DEADLOCK FALSE
