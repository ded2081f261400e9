SPECIFICATION CommandsSpec
CONSTANTS
  MaxAttempts = 2
  MaxBlocks = 2
  MaxReserved = 2
  Notified = {"SUCCESS", "KEY_ENOENT", "TMPFAIL", "DISCONNECT"}
  Requests <- MCRequests
  Arg <- MCArg
INVARIANTS
  ReferencesExact
  OpsAppliedOnce
  AnsweredAsPromised
PROPERTIES
  RequestCompletes
CHECK_DEADLOCK FALSE
