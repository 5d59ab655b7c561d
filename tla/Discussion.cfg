CONSTANTS
  People = {founder, ann, bot}
  Agents = {bot}
  Founder = founder
  Seatings <- MCSeatings
  Mentions <- MCMentions
  Requests = {r1, r2}
  MaxTasks = 3
  MaxLinks = 2
  MaxComments = 1
  MaxMoves = 1
  None = None
SPECIFICATION Spec
SYMMETRY Symmetry
CONSTRAINT Apart
INVARIANTS
  RequestsAreHeard
  BothEndsShow
  SaidOnce
