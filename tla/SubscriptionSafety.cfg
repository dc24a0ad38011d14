SPECIFICATION Spec
CONSTANTS
  Listeners = {l1, l2, l3}
  Callers = {c1}
  Browser = browser
  Stopper = stopper
  Endpoints = {e1, e2}
  Sockets = {s1, s2, s3}
  None = None
  MaxRetries = 2
  MaxPending = 1
  MaxRemovals = 1
  MaxFailures = 1
INVARIANTS
  TypeOK
  AtMostOneListener
  ListenersBounded
  ListenerRunsUnlessStopped
  InterfaceKnown
PROPERTIES
  ImplementsFeed
CONSTRAINT CallersOrWithdrawal
SYMMETRY Symmetry
\* After stop() has returned and the threads have ended, nothing is left to do.
CHECK_DEADLOCK FALSE
