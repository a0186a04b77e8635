\* A task calls when_read on a socket it has closed: the key is -1, which
\* poll() skips, so the task is never resumed.
CONSTANTS
  t1 = t1
  t2 = t2
  q1 = q1
  q2 = q2
  None = None
  ProcIds = {}
  Pids <- NoPids
  Sockets = {s1}
  FdNums = {0, 1}
  RLimNoFile <- MCRLimit
  StdFds = {0}
  Tasks <- OneTask
  Queues <- OneQueue
  QueueOf <- AllOnQ1
  ExitCodes <- MCExitCodes
  ForkMayFail = FALSE
  ChildMayExitEarly = FALSE
  InitMayFail = FALSE
  PipeCapacity = 2
  RuntimeAvoidsSharedKeys = TRUE
  HostSkipsClosedSockets = FALSE
  CloseWhileWaiting = TRUE
  SpawnActions <- NoFdActions
  TimeoutArgs <- MCTimeoutArgs
  NonBlockArgs = {FALSE, TRUE}

SPECIFICATION Spec
PROPERTY SocketWaiterWoken
\* With nothing else to wait for, wait(nil) blocks in poll(-1) on the fd -1
\* slot for good, which TLC would report as a deadlock before the property.
CHECK_DEADLOCK FALSE
