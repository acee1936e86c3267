CONSTANTS
  MaxSent = 3
  MaxInbox = 2
SPECIFICATION Spec
PROPERTY ByeEnds
CHECK_DEADLOCK FALSE
