CONSTANTS
  Bodies <- MCNetBodies
  Header = 2
  DataBufferSize = 4
  ReadHighwat = 8
  MaxReqs = 1
  MaxReallocs = 1
  BioSizes = {3, 30}
  RecordSize = 5
  Responses <- MCResponses
  MaxResponses = 2
  IovMax = 3
  UdpMaxPayload = 3
  IovListInitial = 2
  IovHighwat = 2
  BioDrainSize = 2
  SocketSize = 2
  NetConns = {"a", "b"}
  MaxNetBuf = 3
  MaxAccepts = 2
  Packets <- MCPackets
  Sessions <- MCSessions
  MaxPacketSize = 170
  LengthSpan = 1000000
  SaslUser = {"ann", "bob"}
  Passwords = {"x", "y"}
  MechLists <- MCMechLists
  PwFiles <- MCPwFiles
  MaxLoads = 3
  MaxRounds = 2
  SessionConns = {"c1", "c2"}
  Tokens = {1, 2}
  FirstToken = 1
  MaxSessionOps = 4
  StartConfigs <- MCStartConfigs
  EditedConfigs <- MCEditedConfigs
  CmdLines <- MCCmdLines
  MaxEdits = 2
  CheckTime = 4
  MaxRelative = 6
  RelWidth = 256
  Boot = 60
  Jumps <- MCJumps
  MaxJumps = 2
  MaxLate = 1
  MaxUptime = 12
  TopKeysKeys = {1, 2, 3, 4}
  KeyHash <- MCKeyHash
  NumShards = 2
  MaxKeys = 2
  TopKeysCmds = {"GET", "NOOP"}
  MaxUpdates = 4
  MaxReports = 1
SPECIFICATION FrontendSpec
CHECK_DEADLOCK FALSE
INVARIANT LeftOutputKept
