SPECIFICATION FairSpec
CONSTANTS
  NumDevs = 1
  Addrs = {a, b}
  Handles = {1, 2}
  MaxRetry = 2
  InquiryMax = 1
  NoAddr = NoAddr
  MaxPeer = 3
  MaxFail = 2
  MaxSys = 0
PROPERTIES
  SlotDecided
CHECK_DEADLOCK FALSE
