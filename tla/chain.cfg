CONSTANTS
  None = None
  Switches = {1, 2, 3, 4, 5}
  Orders <- MCBothWays
  Networks <- MCNetworks
SPECIFICATION Spec
INVARIANTS TypeOK NothingSkipsTheChain ChainInOrder Unambiguous Served NetworkKnown
CHECK_DEADLOCK FALSE
