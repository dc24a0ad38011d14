SPECIFICATION FairSpec
CONSTANTS
  n1 = n1
  n2 = n2
  n3 = n3
  a = a
  Nodes = {n1, n2, n3}
  NodeName <- MCNodeName
  Observers = {n3}
  Host = n2
  Topics = {t1, t2}
  Leavers = {n1}
  Called = {0}
  None = None
INVARIANTS
  TypeOK
  CallReachesAdvertiser
  TopicsAdvertised
PROPERTIES
  Converges
\* When the nodes have stopped nothing is left to do.
CHECK_DEADLOCK FALSE
