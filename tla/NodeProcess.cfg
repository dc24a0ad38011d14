SPECIFICATION FairSpec
CONSTANTS
  t1 = t1
  t2 = t2
  t3 = t3
  Callers = {t1, t2}
  Readers = {t3}
  None = None
  Publications <- MCPublications
  MaxCalls = 3
  MaxVersions = 1
  MaxFailures = 1
INVARIANTS
  TypeOK
  CallersAccountedFor
  OwnAnswer
  OnlyBrokenTopicsKill
  FreshListen
PROPERTIES
  CallsAnswered
  ListenCompletes
  DueIsPublished
\* After stop() nothing is left to do.
CHECK_DEADLOCK FALSE
