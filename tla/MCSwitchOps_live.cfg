SPECIFICATION FairSpec
CONSTANTS
  fan_in = 2
  N = 4
  Window = 1
  Programs <- ShortMixed
INVARIANT ReceiversReady
INVARIANT PacketsAnswered
INVARIANT OrderInv
PROPERTY AllCallsReturn
