CONSTANTS
  Conn = {c1, c2, c3}
  Admin = {c1, c2}
  Name = {d, e}
  Default = d
  NoName = NoName
  None = None
  MaxBuckets = 3
  NumWorkers = 2
  ClientsRange = 4
  ThreadOf <- TwoThreads
SPECIFICATION LiveSpec
PROPERTY DeletionEnds
