CONSTANTS
  Conn = {c1, c2}
  Admin = {c1, c2}
  Name = {d, n}
  Default = d
  NoName = NoName
  None = None
  MaxBuckets = 3
  NumWorkers = 1
  ClientsRange = 3
  ThreadOf <- OneThread
SPECIFICATION TwoBucketsSpec
PROPERTIES
  DyingBucketIsLeft
