SPECIFICATION Spec
CONSTANTS
  PsFrames = 5
  NsiUpdate = 2 NsiChanges = 2
  MplFrames = 3
  NpBits = 2 NpLoad = 2 NpWrap = 4 NpClocks = 6
  CdFifo = 8
  JvCmds = 2
  KbQueue = 2
  MmReports = 3
  WrCoins = 2 WrLines = 3 WrKeys = 3
INVARIANTS
  TypeOK
  RequestsTakeEffectOnce
  FeedbackFollows
  ReadsAsAsked
  NeverLeftWaiting
  InputKept
  ReportsSettle
PROPERTIES
  ChangesOnlyAsAsked
CHECK_DEADLOCK FALSE
