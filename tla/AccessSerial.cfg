CONSTANTS
  Humans = {h1}
  Agents = {a1}
  Bound = {}
  Priorities = {1, 2}
  Operator = operator
  Requests = {r1}
  Founder = h1
  Keep = Keep
SPECIFICATION SerialSpec
CONSTRAINT FewTokens
INVARIANTS
  TypeOK
  AuditMatchesRole
PROPERTIES
  OwnersLostOnlyWithAgent
  SuspensionSparesActiveOwner
  ActorActiveAtCommit
  RankHoldsAtCommit
  ImplementsAtomic
