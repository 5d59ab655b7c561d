CONSTANTS
  Humans = {h1}
  Agents = {a1}
  Bound = {}
  Priorities = {1}
  Operator = operator
  Requests = {r1, r2}
  Founder = h1
  Keep = Keep
SPECIFICATION Spec
SYMMETRY Symmetry
CONSTRAINT OneRowChanges
PROPERTIES
  OnlyAskedColumnsChange
