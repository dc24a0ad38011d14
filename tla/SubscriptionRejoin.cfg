SPECIFICATION FairSpec
CONSTANTS
  Listeners = {l1, l2}
  Callers = {}
  Browser = browser
  Stopper = stopper
  Endpoints = {e1}
  Sockets = {s1, s2, s3}
  None = None
  MaxRetries = 2
  MaxPending = 2
  MaxRemovals = 1
  MaxFailures = 2
PROPERTIES
  RejoinsAutomatically
\* After stop() has returned and the threads have ended, nothing is left to do.
CHECK_DEADLOCK FALSE
