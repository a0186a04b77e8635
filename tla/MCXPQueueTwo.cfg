\* Two queues, one task on each: a wait on either queue may reap the other
\* queue's child; the SIGCHLD notification is never lost and each child waiter
\* is still resumed once its own queue is waited on.
CONSTANTS
  t1 = t1
  t2 = t2
  q1 = q1
  q2 = q2
  None = None
  ProcIds = {h1}
  Sockets = {}
  FdNums = {}
  RLimNoFile <- MCRLimit
  StdFds = {}
  Tasks <- MCTasks
  Queues <- TwoQueues
  QueueOf <- OnePerQueue
  Pids <- MCOnePid
  ExitCodes <- MCExitCodes
  ForkMayFail = FALSE
  ChildMayExitEarly = FALSE
  InitMayFail = FALSE
  PipeCapacity = 2
  RuntimeAvoidsSharedKeys = TRUE
  HostSkipsClosedSockets = TRUE
  CloseWhileWaiting = TRUE
  SpawnActions <- NoFdActions
  TimeoutArgs <- MCTimeoutArgs
  NonBlockArgs = {FALSE, TRUE}

SPECIFICATION Spec
PROPERTY ChildWaiterWoken
