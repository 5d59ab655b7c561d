CONSTANTS
  People = {p1, p2}
  Workspaces = {w1, w2}
  Invites = {i1, i2}
  Requests = {r1, r2}
  None = None
SPECIFICATION Spec
SYMMETRY Symmetry
CONSTRAINT OneIdentity
INVARIANTS
  TypeOK
  Seated
  SoleSeatCanSignIn
