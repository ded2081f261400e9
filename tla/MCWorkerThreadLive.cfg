SPECIFICATION CatchUpSpec
CONSTANTS
  c1 = c1
  c2 = c2
  None = None
  Conn = {c1}
  Streaming = {c1}
  Tasks = {c1}
  HeaderParts = 1
  MaxParts = 4
  MaxSends = 2
  MaxReqs = 1
  IdleTimeout = TRUE
  EventFailures = FALSE
PROPERTIES
  RequestsServed
CHECK_DEADLOCK FALSE
