SPECIFICATION Spec
CONSTANTS
  a = a
  b = b
  c = c
  r = r
  leaf = leaf
  Hosts = {a, b}
  Switches = {r}
  Root = r
  Parent <- Star
  WINDOW_SIZE = 2
  MsgLen = 1
  Messages = 5
  HostWindow = 2
  Losable = {}
  MaxLoss = 0
  InFlight = 0
CHECK_DEADLOCK FALSE
SYMMETRY Symmetry
INVARIANT TypeOK
INVARIANT CompletionIsResult
INVARIANT RetransmissionsAreOnes
INVARIANT AckedIsPlaced
INVARIANT RethIsOfMessage
PROPERTY ClearedIsDone
PROPERTY ImplementsAllReduce
