SPECIFICATION Spec
CONSTANTS
  a1 = a1
  a2 = a2
  Apps = {a1}
  Topics = {t1, t2}
  Pubs = {p1, p2}
  Tasks = {k1, k2, k3, k4}
  None = None
  MaxCalls = 2
INVARIANTS
  NextPublishIsUpdated
CHECK_DEADLOCK FALSE
