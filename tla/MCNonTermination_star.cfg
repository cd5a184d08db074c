SPECIFICATION Spec
CONSTANTS
  a = a
  b = b
  c = c
  r = r
  leaf = leaf
  Hosts = {a, b}
  Switches = {r}
  Root = r
  Parent <- Star
  WINDOW_SIZE = 2
  MsgLen = 2
  Messages = 4
  HostWindow = 1
  Losable = {}
  MaxLoss = 0
  InFlight = 0
CHECK_DEADLOCK FALSE
SYMMETRY Symmetry
INVARIANT TypeOK
INVARIANT CompletionIsResult
INVARIANT RetransmissionsAreOnes
INVARIANT AckedIsPlaced
INVARIANT RethIsOfMessage
PROPERTY ClearedIsDone
PROPERTY ImplementsAllReduce
