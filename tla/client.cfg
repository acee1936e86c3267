CONSTANTS
  MaxSent = 3
  MaxInbox = 2
SPECIFICATION Spec
INVARIANTS TypeOK CleanExit OneBadRecv
PROPERTIES LateByeEnds ServerLossEnds LivesAsClientLife
CHECK_DEADLOCK FALSE
