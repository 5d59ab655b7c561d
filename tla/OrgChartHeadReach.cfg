CONSTANTS
  m1 = m1
  m2 = m2
  m3 = m3
  Members = {m1, m2, m3}
  Owners = {m1}
  Admins = {}
  Agents = {}
  Teams = {t1, t2}
  Departments = {d1, d2}
  Requests = {r1}
  None = None
  Priority <- MCPriority
SPECIFICATION SerialSpec
SYMMETRY Symmetry
PROPERTIES HeadsReachTheirOwnTeams
