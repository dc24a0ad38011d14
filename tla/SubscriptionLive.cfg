SPECIFICATION FairSpec
CONSTANTS
  Listeners = {l1, l2}
  Callers = {}
  Browser = browser
  Stopper = stopper
  Endpoints = {e1, e2}
  Sockets = {s1, s2, s3}
  None = None
  MaxRetries = 2
  MaxPending = 1
  MaxRemovals = 0
  MaxFailures = 3
\* Liveness is checked on the whole graph of states, so it is kept small: no
\* second receiver, which DecodedIsDelivered excepts, and no withdrawal.
PROPERTIES
  DecodedIsDelivered
  StopTerminates
  ListenersExit
  SelfHeals
\* After stop() has returned and the threads have ended, nothing is left to do.
CHECK_DEADLOCK FALSE
