\* A task waits on a socket another task closes; the descriptor number is
\* handed to a new socket, on which the second task then waits.
CONSTANTS
  t1 = t1
  t2 = t2
  q1 = q1
  q2 = q2
  None = None
  ProcIds = {}
  Pids <- NoPids
  Sockets = {s1, s2}
  FdNums = {0, 1}
  RLimNoFile <- MCRLimit
  StdFds = {0}
  Tasks <- MCTasks
  Queues <- OneQueue
  QueueOf <- AllOnQ1
  ExitCodes <- MCExitCodes
  ForkMayFail = FALSE
  ChildMayExitEarly = FALSE
  InitMayFail = FALSE
  PipeCapacity = 2
  RuntimeAvoidsSharedKeys = TRUE
  HostSkipsClosedSockets = TRUE
  CloseWhileWaiting = TRUE
  SpawnActions <- NoFdActions
  TimeoutArgs <- MCTimeoutArgs
  NonBlockArgs = {FALSE, TRUE}

SPECIFICATION Spec
INVARIANT WaiterTableConsistent
