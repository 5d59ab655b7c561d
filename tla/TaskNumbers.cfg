CONSTANTS
  Tasks = {k1, k2, k3}
  Inbox = {i1}
  Requests = {r1, r2, r3}
  None = None
SPECIFICATION FairSpec
CHECK_DEADLOCK FALSE
INVARIANTS
  TypeOK
  NumbersNeverCollide
  UncontestedFate
PROPERTIES
  UncontestedStaysResolved
  ImplementsNumbering
  EveryCreationGetsItsTurn
