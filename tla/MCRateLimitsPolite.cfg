SPECIFICATION Spec
CONSTANTS
  c1 = c1 h1 = h1 h2 = h2
  Clients = {c1}
  Handlers = {h1, h2}
  AuthMax = 2
  ApiMax = 5
  Window = 2
  NoDeadline = NoDeadline
  MaxTime = 6
  MaxArrivals = 5
  MaxFaults = 0
  MaxRestarts = 0
SYMMETRY Symmetry
PROPERTIES RefusesOnlyAboveRate
