SPECIFICATION Spec
CONSTANTS
  c1 = c1 h1 = h1 h2 = h2
  Clients = {c1}
  Handlers = {h1, h2}
  AuthMax = 2
  ApiMax = 2
  Window = 2
  NoDeadline = NoDeadline
  MaxTime = 6
  MaxArrivals = 6
  MaxFaults = 1
  MaxRestarts = 1
SYMMETRY Symmetry
INVARIANTS TypeOK AuthRateHolds ApiRateHolds
