CONSTANTS
  Members = {m1, m2}
  Owners = {m1}
  Admins = {}
  Agents = {m2}
  Teams = {t1}
  Departments = {d1, d2}
  Requests = {r1, r2}
  None = None
  Untouched = Untouched
  Priority <- MCPriority
SPECIFICATION HistorySpec
SYMMETRY Symmetry
INVARIANTS
  TypeOK
  LeadershipIsUnique
  References
  UncrowdedAreCoherent
PROPERTIES
  DemotionKeepsTheTeam
CONSTRAINT Apart
