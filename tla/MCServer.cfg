CONSTANTS
  Task = {t1, t2}
  Worker = {w1, w2}
  None = None
  PoolSize = 2
  CounterRange = 2
  MaxBlocks = 1
  s1 = s1
  s2 = s2
  s3 = s3
  p1 = p1
  p2 = p2
  NoSock = NoSock
  Sock = {s1, s2, s3}
  Port = {p1, p2}
  MaxConns <- MCMaxConns
  Addresses = 2
  BindFailures = 1
  FdLimit = 2
  Backoff = 2
  ConnRange = 256
  AllocFails = TRUE
  ClientConns = {"c1", "c2"}
  Slots = {1, 2}
  MaxBucketOps = 4
SPECIFICATION ServerSpec
INVARIANTS
  NeverThrows
  TaskInOnePlace
  PortConnsCounted
  UsedIsAlive
PROPERTIES
  TaskCompletes
  ListenResumes
  ShutdownEnds
CHECK_DEADLOCK FALSE
