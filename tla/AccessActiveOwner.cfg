CONSTANTS
  Humans = {h1, h2}
  Agents = {}
  Bound = {}
  Priorities = {1}
  Operator = operator
  Requests = {r1}
  Founder = h1
  Keep = Keep
SPECIFICATION SerialSpec
INVARIANTS ActiveOwnerExists
