SPECIFICATION Spec
CONSTANTS
  ItemNum = 3
  Producers = {wired, fb_timer}
  Payloads = {rumble}
  Garbage = Garbage
INVARIANTS
  SlotsAlwaysExclusive
CHECK_DEADLOCK FALSE
