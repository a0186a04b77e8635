\* The first child exits before xpproc_init has installed the SIGCHLD handler:
\* its signal is discarded, and a task waiting on it is never resumed.
CONSTANTS
  t1 = t1
  t2 = t2
  q1 = q1
  q2 = q2
  None = None
  ProcIds = {h1, h2}
  Sockets = {}
  FdNums = {}
  RLimNoFile <- MCRLimit
  StdFds = {}
  Tasks <- OneTask
  Queues <- OneQueue
  QueueOf <- AllOnQ1
  Pids <- MCPids
  ExitCodes <- MCExitCodes
  ForkMayFail = FALSE
  ChildMayExitEarly = TRUE
  InitMayFail = FALSE
  PipeCapacity = 2
  RuntimeAvoidsSharedKeys = TRUE
  HostSkipsClosedSockets = TRUE
  CloseWhileWaiting = TRUE
  SpawnActions <- NoFdActions
  TimeoutArgs <- MCTimeoutArgs
  NonBlockArgs = {FALSE, TRUE}

SPECIFICATION Spec
PROPERTY ChildWaiterWoken
\* The lost SIGCHLD leaves the program blocked in poll(-1) for good, which TLC
\* would report as a deadlock before the property; the property is the claim.
CHECK_DEADLOCK FALSE
