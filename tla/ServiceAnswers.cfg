SPECIFICATION Spec
CONSTANTS
  c1 = c1
  c2 = c2
  n1 = n1
  n2 = n2
  Clients = {c1, c2}
  Nodes = {n1, n2}
  Connections = {k1, k2}
  Targets <- MCTargets
  None = None
  Unencodable = Unencodable
  Backlog = 1
  Requests = {"valid"}
  MaxCalls = 1
INVARIANTS
  AnswersAreReturned
\* When every server is stopped or dead, a caller may wait for ever.
CHECK_DEADLOCK FALSE
