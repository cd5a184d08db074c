SPECIFICATION Spec
CONSTANTS
  a = a
  b = b
  c = c
  r = r
  leaf = leaf
  Hosts = {a, b, c}
  Switches = {r, leaf}
  Root = r
  Parent <- LeafTree
  WINDOW_SIZE = 1
  MsgLen = 1
  Messages = 3
  HostWindow = 1
  Losable = {}
  MaxLoss = 0
  InFlight = 0
CHECK_DEADLOCK FALSE
INVARIANT RetransmissionsAreOnes
