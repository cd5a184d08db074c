SPECIFICATION FairSpec
CONSTANTS
  a = a
  b = b
  c = c
  r = r
  leaf = leaf
  Hosts = {a, b, c}
  Switches = {r, leaf}
  Root = r
  Parent <- LeafTree
  WINDOW_SIZE = 1
  MsgLen = 1
  Messages = 1
  HostWindow = 1
  Losable = {0}
  MaxLoss = 2
  InFlight = 0
CHECK_DEADLOCK FALSE
INVARIANT FanInWillRetransmit
INVARIANT ResultsExact
INVARIANT TreeInvAt
PROPERTY AllReturn
