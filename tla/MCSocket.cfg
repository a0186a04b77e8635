\* Two tasks, one queue, two sockets over descriptors 0..2 of which 0 is the
\* inherited stdin: sockets are created by every constructor, waited on,
\* closed and collected.  The host closes only sockets nobody waits on.
CONSTANTS
  t1 = t1
  t2 = t2
  q1 = q1
  q2 = q2
  None = None
  ProcIds = {}
  Pids <- NoPids
  Sockets = {s1, s2}
  FdNums = {0, 1, 2}
  RLimNoFile <- MCRLimit
  StdFds = {0}
  Tasks <- MCTasks
  Queues <- OneQueue
  QueueOf <- AllOnQ1
  ExitCodes <- MCExitCodes
  ForkMayFail = FALSE
  ChildMayExitEarly = FALSE
  InitMayFail = FALSE
  PipeCapacity = 2
  RuntimeAvoidsSharedKeys = TRUE
  HostSkipsClosedSockets = TRUE
  CloseWhileWaiting = FALSE
  SpawnActions <- NoFdActions
  TimeoutArgs <- MCTimeoutArgs
  NonBlockArgs = {FALSE, TRUE}

SPECIFICATION Spec
INVARIANT WaiterTableConsistent
INVARIANT WokenAtMostOnce
INVARIANT SocketOwnsFd
PROPERTY ReactorRefined
INVARIANT NextFdListsOpenFds
