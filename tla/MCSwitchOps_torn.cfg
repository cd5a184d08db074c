SPECIFICATION Spec
CONSTANTS
  fan_in = 2
  N = 4
  Window = 1
  Programs <- ShortMixed
INVARIANT AlwaysAnswered
