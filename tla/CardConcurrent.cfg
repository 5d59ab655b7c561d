CONSTANTS
  manager = manager
  agent = agent
  home = home
  Members = {manager, agent}
  Teams = {home}
  Projects = {}
  Agents = {agent}
  Admins = {}
  Rank <- MCRank
  Home <- MCHome
  Managers = {manager}
  Leads = {}
  Heading <- MCHeading
  Statuses = {"PENDING", "DONE"}
  Priorities = {1, 2}
  Scores = {100}
  Requests = {r1, r2}
  None = None
  Untold = Untold
  Followed = {"status", "blocked", "priority", "assignee", "team", "project"}
SPECIFICATION HistorySpec
CONSTRAINT FewColumns
SYMMETRY Symmetry
INVARIANTS
  TypeOK
  PairsAgree
  UncontestedStream
  References
PROPERTIES
  OnlyAskedColumnsChange
  RatesFinishedWork
