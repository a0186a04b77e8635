\* Children exit while no task waits on a process, so nothing drains
\* sigchldPipe; the pipe is given room for one byte so that its limit is
\* reached with two children.
CONSTANTS
  t1 = t1
  t2 = t2
  q1 = q1
  q2 = q2
  None = None
  ProcIds = {h1, h2}
  Sockets = {}
  FdNums = {}
  RLimNoFile <- MCRLimit
  StdFds = {}
  Tasks <- MCTasks
  Queues <- OneQueue
  QueueOf <- AllOnQ1
  Pids <- MCPids
  ExitCodes <- MCExitCodes
  ForkMayFail = FALSE
  ChildMayExitEarly = FALSE
  InitMayFail = FALSE
  PipeCapacity = 1
  RuntimeAvoidsSharedKeys = TRUE
  HostSkipsClosedSockets = TRUE
  CloseWhileWaiting = TRUE
  SpawnActions <- NoFdActions
  TimeoutArgs <- MCTimeoutArgs
  NonBlockArgs = {FALSE, TRUE}

SPECIFICATION Spec
INVARIANT SignalHandlerReturns
