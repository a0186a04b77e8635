\* fork() fails: xpio__spawn still creates an XPProc, with pid -1, whose
\* __gc then calls kill(-1, SIGKILL) and so kills the other handle's child.
CONSTANTS
  t1 = t1
  t2 = t2
  q1 = q1
  q2 = q2
  None = None
  ProcIds = {h1, h2}
  Sockets = {}
  FdNums = {}
  RLimNoFile <- MCRLimit
  StdFds = {}
  Tasks <- MCTasks
  Queues <- OneQueue
  QueueOf <- AllOnQ1
  Pids <- MCPids
  ExitCodes <- MCExitCodes
  ForkMayFail = TRUE
  ChildMayExitEarly = FALSE
  InitMayFail = FALSE
  PipeCapacity = 2
  RuntimeAvoidsSharedKeys = TRUE
  HostSkipsClosedSockets = TRUE
  CloseWhileWaiting = TRUE
  SpawnActions <- NoFdActions
  TimeoutArgs <- MCTimeoutArgs
  NonBlockArgs = {FALSE, TRUE}

SPECIFICATION Spec
PROPERTY CollectKillsOwnChildOnly
