SPECIFICATION FairSpec
CONSTANTS
  NumBlocks = 2
  Writers = {console}
  Data = {new}
  Garbage = Garbage
  Torn = Torn
  MaxFiles = 2
  MaxMsgs = 2
  MaxWrites = 3
  MaxCuts = 1
INVARIANTS
  TypeOK
  DirtyUnlessRaced
  NoOrphanDirty
PROPERTIES
  EventuallyStored
CHECK_DEADLOCK FALSE
