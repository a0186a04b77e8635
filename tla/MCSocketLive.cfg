\* Two tasks, one queue: a task waiting on a socket that the other task
\* closes is resumed, POLLNVAL waking it, when the host keeps calling wait.
\* One socket: with a second one the descriptor number is handed out again
\* while the first waiter is registered under it (the fd_reuse run).
CONSTANTS
  t1 = t1
  t2 = t2
  q1 = q1
  q2 = q2
  None = None
  ProcIds = {}
  Pids <- NoPids
  Sockets = {s1}
  FdNums = {0, 1}
  RLimNoFile <- MCRLimit
  StdFds = {0}
  Tasks <- MCTasks
  Queues <- OneQueue
  QueueOf <- AllOnQ1
  ExitCodes <- MCExitCodes
  ForkMayFail = FALSE
  ChildMayExitEarly = FALSE
  InitMayFail = FALSE
  PipeCapacity = 2
  RuntimeAvoidsSharedKeys = TRUE
  HostSkipsClosedSockets = TRUE
  CloseWhileWaiting = TRUE
  SpawnActions <- NoFdActions
  TimeoutArgs <- MCTimeoutArgs
  NonBlockArgs = {FALSE, TRUE}

SPECIFICATION Spec
PROPERTY SocketWaiterWoken
