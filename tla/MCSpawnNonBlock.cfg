\* A task creates a socket and spawns a child whose fdActions name the
\* socket's descriptor (to pass it on, or to keep it): the child clears
\* O_NONBLOCK on the description it shares with the parent's socket.
\* The host itself never clears O_NONBLOCK with setsockopt (NonBlockArgs).
CONSTANTS
  t1 = t1
  t2 = t2
  q1 = q1
  q2 = q2
  None = None
  ProcIds = {h1}
  Sockets = {s1}
  FdNums = {0, 1}
  RLimNoFile <- MCRLimit
  StdFds = {}
  Tasks <- OneTask
  Queues <- OneQueue
  QueueOf <- AllOnQ1
  Pids <- MCPids
  ExitCodes <- MCExitCodes
  ForkMayFail = FALSE
  ChildMayExitEarly = FALSE
  InitMayFail = FALSE
  PipeCapacity = 2
  RuntimeAvoidsSharedKeys = TRUE
  HostSkipsClosedSockets = TRUE
  CloseWhileWaiting = TRUE
  SpawnActions <- OneFdAction
  TimeoutArgs <- MCTimeoutArgs
  NonBlockArgs = {TRUE}

SPECIFICATION Spec
INVARIANT SocketNonBlocking
