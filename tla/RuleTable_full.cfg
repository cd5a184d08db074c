SPECIFICATION Spec
CONSTANTS
  MAX_RULES = 100
  MAX_CONNECTIONS_NUM = 10
  WorldSizes = {9, 10}
INVARIANT AllOperationsServed
