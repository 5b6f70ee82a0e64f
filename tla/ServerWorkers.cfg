SPECIFICATION Spec
CONSTANTS
  MaxClients = 2
  MaxWorkers = 2
  FD = {3, 4, 5, 6, 7, 8, 9, 10, 11, 12, 13, 14}
  Pid = {1, 2}
  SessionId = {1, 2}
  Lines <- SessionLines
  MaxCommandLen = 2
  PipeCap = 1
  Happens = {"close"}
  MaxConns = 2
  MaxLines = 3
  NULL = NULL
INVARIANTS NoDanglingPointer FDsOwnedOnce PidOwned SessionIdsDiffer
PROPERTY RefinesSessions
CHECK_DEADLOCK FALSE
