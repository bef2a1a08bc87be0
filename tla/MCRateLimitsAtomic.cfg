SPECIFICATION Spec
CONSTANTS
  c1 = c1 h1 = h1 h2 = h2
  Clients = {c1}
  Handlers = {h1, h2}
  AuthMax = 2
  ApiMax = 2
  Window = 2
  NoDeadline = NoDeadline
  MaxTime = 4
  MaxArrivals = 4
  MaxFaults = 1
  MaxRestarts = 0
SYMMETRY Symmetry
INVARIANTS EveryKeyExpires
