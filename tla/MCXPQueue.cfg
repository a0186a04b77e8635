\* One queue, two tasks, two handles over two PIDs, with the process side's
\* fault model: fork() may fail, pipe() or sigaction() may fail in the first
\* xpproc_init, and sigchldPipe holds one byte, so handleSIGCHLD can block on
\* it.  The host never shares a key between tasks and children outlive
\* spawn's parent side.  Each fault can stop the program for good (a waiter
\* on the pid -1 process, a handler never installed, a handler blocked in
\* write()), so deadlock is not checked.
CONSTANTS
  t1 = t1
  t2 = t2
  q1 = q1
  q2 = q2
  None = None
  ProcIds = {h1, h2}
  Sockets = {}
  FdNums = {}
  RLimNoFile <- MCRLimit
  StdFds = {}
  Tasks <- MCTasks
  Queues <- OneQueue
  QueueOf <- AllOnQ1
  Pids <- MCPids
  ExitCodes <- MCExitCodes
  ForkMayFail = TRUE
  ChildMayExitEarly = FALSE
  InitMayFail = TRUE
  PipeCapacity = 1
  RuntimeAvoidsSharedKeys = TRUE
  HostSkipsClosedSockets = TRUE
  CloseWhileWaiting = TRUE
  SpawnActions <- NoFdActions
  TimeoutArgs <- MCTimeoutArgs
  NonBlockArgs = {FALSE, TRUE}

SPECIFICATION Spec
INVARIANT TypeOK
INVARIANT WaiterTableConsistent
INVARIANT WokenAtMostOnce
INVARIANT NoLostSigchld
INVARIANT LivePidsAreChildren
PROPERTY ReactorRefined
CHECK_DEADLOCK FALSE
