SPECIFICATION Spec
CHECK_DEADLOCK FALSE
CONSTANTS
  world_size = 3
  MaxCommunicators = 2
  MaxRepeats = 1
  MAX_RULES = 100
  MAX_CONNECTIONS_NUM = 10
INVARIANT IInv StartInv
