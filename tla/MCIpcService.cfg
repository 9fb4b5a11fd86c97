\* Four connections for two places, everything may fail, handlers may hang.
CONSTANTS
  Conns = {c1, c2, c3, c4}
  ActiveLimit = 2
  WaitRetries = 2
  AcceptRetries = 3
  Backlog = 2
  RcExpired = {TRUE, FALSE}
SPECIFICATION FairSpec
INVARIANTS
  LimitRespected
  NoLostSignal
  ServiceStays
PROPERTY QueuedIsTaken
\* The service may give up for good.
CHECK_DEADLOCK FALSE
