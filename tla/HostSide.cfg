SPECIFICATION Spec
CONSTANTS
  HlKinds = {"generic", "ps3"}
  HlPeers = 2
  HlConf = 2
  HlRetry = 2
  SwRetry = 2
  SwFlight = 3
  WxChanges = 3
  SpDevs = {0, 1}
  SpDist = {{}, {"enc", "id", "sign"}}
  SpLinks = 3
  SpCap = 4
  AcPeers = {"pad", "keys", "tiny", "full", "many", "long"}
  AcMax = 3
  AcBatch = 3
  AcParts = 2
  AcRoom = 3
  LkPeers = {1, 2, 3}
  LkSize = 2
  LkPairings = 4
  LkCuts = 1
  AfLinks = {1, 2}
  AfParts = 3
  AfPackets = 4
  AfSends = 3
  AfQueue = 2
  CuDevs = 2
  CuKbm = 3
  CuCombos = 1
  CuMax = 4
  CuCuts = 2
  CsvGames = {"A"}
  CsvEdits = 2
  CsvTraced = {1}
  CsvOdds = 1
  CrMtus = {6, 8}
  CrLens = {6, 8, 13, 17}
  CrMax = 8
  CrBlock = 9
  CrWord = 2
  CrCard = 18
  CrClients = 2
  TlBlock = 2
  TlBlocks = 3
  TlHdr = 1
  TlLens = {1, 2}
  TlWriters = {1, 2}
  TlRecords = 3
  PmPorts = 2
  PmDevs = 2
  PmChanges = 1
  SyThres = {1, 2, 3}
  SyErase = 4
  SyInhibit = 2
  SyQueue = 1
  SyChanges = 4
  MpCommands = 1
  RrHeld = 1
  HpHeld = 1
  HpDevices = 2
INVARIANTS
  TypeOK
  SetUpForWhatItIs
  KeysRight
  PiecesPutTogether
  ConfigurationKept
  AnswersWhole
  PlayersAgree
  PowerAsPressed
  AsPlayed
PROPERTIES
  PeersMoveOn
CHECK_DEADLOCK FALSE
