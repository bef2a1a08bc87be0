SPECIFICATION Spec
CONSTANTS
  u1 = u1 u2 = u2 e1 = e1 r1 = r1 r2 = r2 s1 = s1 s2 = s2 h1 = h1 h2 = h2
  Users = {u1, u2}
  Establishments = {e1}
  Reservations = {r1}
  Sessions = {s1, s2}
  Handlers = {h1}
  OwnerOf <- OneOwner
  NoUser = NoUser
  NoSession = NoSession
  Prices = {1}
  Nights = {2}
  MaxFaults = 0
  MaxRestarts = 0
  MaxRedeploys = 0
PROPERTIES PaidIsNotCharged
