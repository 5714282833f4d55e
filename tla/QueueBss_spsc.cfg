SPECIFICATION FairSpec
CONSTANTS
  ItemNum = 4
  Producers = {wired}
  Payloads = {rumble, mem_write}
  Garbage = Garbage
INVARIANTS
  TypeOK
PROPERTIES
  PoolRecovers
  ImplementsChannel
