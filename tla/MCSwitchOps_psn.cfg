SPECIFICATION Spec
CONSTANTS
  fan_in = 2
  N = 8
  Window = 3
  Programs <- BroadcastThenAllReduce
INVARIANT ResultsCorrect
