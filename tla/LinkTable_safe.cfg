SPECIFICATION Spec
CONSTANTS
  NumDevs = 2
  Addrs = {a, b}
  Handles = {1, 2}
  MaxRetry = 2
  InquiryMax = 1
  NoAddr = NoAddr
  MaxPeer = 2
  MaxFail = 2
  MaxSys = 1
INVARIANTS
  TypeOK
  OneSlotEach
  SlotsFollowLinks
  InquiryKept
CHECK_DEADLOCK FALSE
