SPECIFICATION Spec
CONSTANTS
  a = a
  b = b
  c = c
  r = r
  leaf = leaf
  Hosts = {a, b}
  Switches = {r}
  Root = r
  Parent <- Star
  WINDOW_SIZE = 4
  MsgLen = 2
  Messages = 2
  HostWindow = 2
  Losable = {1}
  MaxLoss = 1
  InFlight = 0
CHECK_DEADLOCK FALSE
INVARIANT CompletionIsResult
