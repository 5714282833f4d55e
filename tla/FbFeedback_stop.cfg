SPECIFICATION Spec
CONSTANTS
  Ports = {p1, p2}
  Timers = {t1, t2, t3}
  QueueSize = 2
  Systems = {FALSE}
  NULL = NULL
INVARIANTS
  TimerStoppedByNewData
CHECK_DEADLOCK FALSE
