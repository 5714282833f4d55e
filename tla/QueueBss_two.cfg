SPECIFICATION Spec
CONSTANTS
  ItemNum = 3
  Producers = {wired, fb_timer}
  Payloads = {rumble}
  Garbage = Garbage
INVARIANTS
  ExclusiveUnlessOverlap
  NeverFullUnlessOverlap
CHECK_DEADLOCK FALSE
