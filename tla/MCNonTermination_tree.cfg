SPECIFICATION FairSpec
CONSTANTS
  a = a
  b = b
  c = c
  r = r
  leaf = leaf
  Hosts = {a, b}
  Switches = {r, leaf}
  Root = r
  Parent <- Chain
  WINDOW_SIZE = 2
  MsgLen = 2
  Messages = 1
  HostWindow = 1
  Losable = {1}
  MaxLoss = 1
  InFlight = 0
CHECK_DEADLOCK FALSE
INVARIANT FanInWillRetransmit
INVARIANT ResultsExact
PROPERTY AllReturn
