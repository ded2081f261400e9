SPECIFICATION Spec
CONSTANTS
  c1 = c1
  c2 = c2
  None = None
  Conn = {c1, c2}
  Streaming = {c1}
  Tasks = {c2}
  HeaderParts = 2
  MaxParts = 3
  MaxSends = 2
  MaxReqs = 1
  IdleTimeout = TRUE
  EventFailures = TRUE
INVARIANTS
  WakeupOnItsWay
  CookieValid
CHECK_DEADLOCK FALSE
