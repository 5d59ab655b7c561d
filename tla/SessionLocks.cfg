CONSTANTS
  u = u
  op = op
  w1 = w1
  w2 = w2
  a = a
  Users = {u, op}
  Workspaces = {w1, w2}
  Seats <- MCSeats
  Operators = {op}
  Agents = {a}
  Home <- MCHome
  Keys = {k1, k2}
  KeyOf <- MCKeyOf
  Requests = {r1, r2}
  Ticks = 2
  TTL <- MCTTL
  Horizon = 2
  FewTokens = 2
  FewLocks = 1
SPECIFICATION Spec
SYMMETRY Symmetry
CONSTRAINTS
  TokensAbout
  LocksMeet
  PeopleOrAgent
INVARIANTS
  LockedOutIsOut
  KillIsExact
PROPERTY StampsAreKept
