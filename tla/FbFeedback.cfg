SPECIFICATION FairSpec
CONSTANTS
  Ports = {p1, p2}
  Timers = {t1, t2}
  QueueSize = 2
  Systems = {TRUE, FALSE}
  NULL = NULL
INVARIANTS
  TypeOK
  RumbleBounded
PROPERTIES
  MuteEnds
CHECK_DEADLOCK FALSE
