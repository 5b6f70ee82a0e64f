SPECIFICATION Spec
CONSTANTS
  MaxClients = 1
  MaxWorkers = 1
  FD = {3, 4, 5, 6, 7, 8, 9, 10}
  Pid = {1}
  SessionId = {1}
  Lines <- StartLines
  MaxCommandLen = 2
  PipeCap = 1
  Happens = {"close"}
  MaxConns = 1
  MaxLines = 1
  NULL = NULL
PROPERTY SessionsPersist
CHECK_DEADLOCK FALSE
