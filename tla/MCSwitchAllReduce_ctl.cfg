SPECIFICATION Spec
CONSTANTS
  Hosts = {h1, h2}
  N = 3
  Window = 2
  Total = 3
  MaxCtl = 2
INVARIANT ResultsExact
