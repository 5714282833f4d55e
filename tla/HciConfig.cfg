SPECIFICATION FairSpec
CONSTANTS
  NumSteps = 7
  ClearStep = 1
  ListStep = 2
  ScanStep = 3
  AdvStep = 5
  Optional = {2, 5}
  NumKeys = 2
  MaxRetry = 1
  MaxLinks = 1
  MaxFail = 3
  MaxPeer = 2
INVARIANTS
  TypeOK
  AllApplied
  AcceptListWhole
  ReachableAlone
PROPERTIES
  SetUpDone
CHECK_DEADLOCK FALSE
