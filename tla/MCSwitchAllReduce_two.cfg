SPECIFICATION FairSpec
CONSTANTS
  Hosts = {h1, h2}
  N = 3
  Window = 2
  Total = 4
  MaxCtl = 1
INVARIANT TypeOK
INVARIANT OneBroadcaster
INVARIANT ResultsExact
INVARIANT NoSlotCollision
INVARIANT ReceiverReady
INVARIANT SlotsFreeAtEnd
INVARIANT IInv
PROPERTY ImplementsAllReduce
PROPERTY AllReturn
