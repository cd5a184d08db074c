SPECIFICATION Spec
CONSTANTS
  fan_in = 2
  N = 4
  Window = 1
  Programs <- SafeSequences
INVARIANT TypeOK
INVARIANT ResultsCorrect
INVARIANT OneSenderPerConnection
INVARIANT SlotHoldsOneChunk
INVARIANT RequestsUsedUp
INVARIANT IInv
PROPERTY ImplementsCollectives
