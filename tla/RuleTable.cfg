SPECIFICATION Spec
CONSTANTS
  MAX_RULES = 100
  MAX_CONNECTIONS_NUM = 10
  WorldSizes = {1, 2, 4, 9, 10}
INVARIANT TypeOK
INVARIANT LookupSound
INVARIANT FittingOperationsServed
