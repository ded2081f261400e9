CONSTANTS
  HashKey <- MCHashKey
  HashOf <- MCHashOf
  FirstSize = 1
  MaxSize = 4
  Inst = {i1, i2, i3}
  IdRange = 2
  NoInst = NoInst
  AuditConfigs <- MCAuditConfigs
  MaxAuditQueue = 2
  RotateInterval = 0
  RotateSize = 0
  UIntRange = 16
  MaxNow = 2
  MaxPuts = 3
  MaxMishaps = 1
  LogThreads = {"p1", "p2"}
  LogTexts = {"a", "b"}
  LineSize <- MCLineSize
  LogBufferSz = 8
  CycleSz = 5
  OldFiles = {0}
  MaxLogs = 4
  MaxOpenFails = 1
  EwbConns = {"c1", "c2"}
  EwbCommands <- MCEwbCommands
  EwbModes <- MCEwbModes
  EwbIds = {7, 8}
  SeqWidth = 2
  RollMax = 2
  MaxEwbCalls = 2
  MaxControls = 3
  TapCookies = {1, 2}
  MaxNotifyThreads = 1
SPECIFICATION ServicesSpec
INVARIANTS
  TableComplete
  QueuedExist
  TrailKept
  LogExact
  NotifiedOncePerBlock
  CookieHeld
PROPERTIES
  PausedNotified
CHECK_DEADLOCK FALSE
