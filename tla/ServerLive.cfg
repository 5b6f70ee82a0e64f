SPECIFICATION FairSpec
CONSTANTS
  MaxClients = 1
  MaxWorkers = 1
  FD = {3, 4, 5, 6, 7, 8, 9, 10}
  Pid = {1}
  SessionId = {1}
  Lines <- LifecycleLines
  MaxCommandLen = 2
  PipeCap = 1
  Happens = {"close", "stall"}
  MaxConns = 2
  MaxLines = 3
  NULL = NULL
INVARIANT WritePollArmed
PROPERTIES EndedReaped OutputDrains
CHECK_DEADLOCK FALSE
