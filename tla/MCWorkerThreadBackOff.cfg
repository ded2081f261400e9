SPECIFICATION FairSpec
CONSTANTS
  c1 = c1
  c2 = c2
  None = None
  Conn = {c1}
  Streaming = {c1}
  Tasks = {}
  HeaderParts = 2
  MaxParts = 4
  MaxSends = 2
  MaxReqs = 2
  IdleTimeout = FALSE
  EventFailures = FALSE
PROPERTY BacksOff
CHECK_DEADLOCK FALSE
