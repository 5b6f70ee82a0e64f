SPECIFICATION Spec
CONSTANTS
  MaxClients = 1
  MaxWorkers = 1
  FD = {3, 4, 5, 6, 7, 8, 9}
  Pid = {1}
  SessionId = {1}
  Lines <- AllLines
  MaxCommandLen = 2
  PipeCap = 1
  Happens = {"close", "reset", "crash", "elapse", "dir", "pipe"}
  MaxConns = 4
  MaxLines = 2
  NULL = NULL
INVARIANTS TypeOK PollTableSound RunningWorkerPolled
PROPERTY RefinesSessions
CHECK_DEADLOCK FALSE
