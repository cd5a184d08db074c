SPECIFICATION Spec
CONSTANTS
  fan_in = 2
  N = 8
  Window = 1
  Programs <- ReduceToAnotherRoot
INVARIANT ResultsCorrect
