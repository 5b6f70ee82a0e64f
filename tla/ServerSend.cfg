SPECIFICATION FairSpec
CONSTANTS
  MaxClients = 2
  MaxWorkers = 1
  FD = {3, 4, 5, 6, 7, 8, 9, 10}
  Pid = {1}
  SessionId = {1}
  Lines <- SendLines
  MaxCommandLen = 2
  PipeCap = 1
  Happens = {"crash"}
  MaxConns = 2
  MaxLines = 3
  NULL = NULL
PROPERTY SendAnswered
CHECK_DEADLOCK FALSE
