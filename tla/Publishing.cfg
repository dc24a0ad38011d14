SPECIFICATION FairSpec
CONSTANTS
  a1 = a1
  a2 = a2
  Apps = {a1, a2}
  Topics = {t1, t2}
  Pubs = {p1, p2}
  Tasks = {k1, k2, k3, k4}
  None = None
  MaxCalls = 2
INVARIANTS
  TypeOK
  OneTaskPerTopic
  StopCleansUp
PROPERTIES
  StopEnds
  RatedIsScheduled
\* After stop() nothing is left to do.
CHECK_DEADLOCK FALSE
