------------------------------- MODULE XPQueue ------------------------------
(***************************************************************************)
(* The task queue of src/luau/xpio_c.c (XPQueue) together with the         *)
(* processes it waits for (XPProc, extended here).  A queue's uservalue    *)
(* holds three Lua tables, readers (fd -> task), writers (fd -> task) and  *)
(* child waiters (XPProc -> task); `waiters[q][m]' is table m of queue q.  *)
(* Tasks are the host's coroutines; the core reads and writes the fields   *)
(* _dequeue and _dequeuedata of a task.  The host's scheduler (the Lua     *)
(* code that resumes tasks) is not in src/: it is the environment here,    *)
(* bound by the contract the spec gives it (sec. 5).                       *)
(*                                                                         *)
(* Sockets (XPSocket, extended here) enter the tables through their       *)
(* descriptor: when_read/when_write key readers/writers by me->s, which is *)
(* -1 once the socket is closed, and poll() reports on the descriptors.    *)
(***************************************************************************)
EXTENDS XPProc, XPSocket

CONSTANTS
  Tasks,     \* host tasks (coroutines)
  Queues,    \* XPQueue objects
  QueueOf,   \* task -> its _queue field (set by the host, never changed)
  None,      \* nil
  RuntimeAvoidsSharedKeys, \* the host never enlists a second task on a
                           \* socket or process some task already waits on
  HostSkipsClosedSockets,  \* the host never calls when_read/when_write on a
                           \* socket it has closed
  CloseWhileWaiting,       \* the host may close a socket a task waits on
  SpawnActions,            \* fdActions arrays the host passes to _spawn
  TimeoutArgs,             \* Lua values the host passes to wait (LuaArgs)
  NonBlockArgs             \* values the host passes to setsockopt("O_NONBLOCK")

ASSUME QueueOf \in [Tasks -> Queues]
ASSUME NonBlockArgs \subseteq BOOLEAN
ASSUME {RuntimeAvoidsSharedKeys, HostSkipsClosedSockets, CloseWhileWaiting}
         \subseteq BOOLEAN

Modes == {"R", "W", "C"}          \* XPQUEUE_READ, XPQUEUE_WRITE, XPQUEUE_CHILD
FdKeys == FdNums \cup {-1}        \* the values me->s may have
KeysOf(m) == IF m = "C" THEN ProcIds ELSE FdKeys
INT_MAX == 2147483647
INT_MIN == -INT_MAX - 1
(* The timeout coercion at the top of xpqueue_wait: a false value gives   *)
(* -1; else num = t * 1000.0 is clamped below at 0 and above at INT_MAX   *)
(* and truncated to int.  NaN fails both comparisons and reaches (int)num, *)
(* which C leaves undefined: x86-64 (cvttsd2si) yields INT_MIN, AArch64    *)
(* (fcvtzs) yields 0.  The set holds every value the build may produce.    *)
(* A Lua value: nil, NaN, +-math.huge, or a finite number of seconds kept *)
(* in microseconds (`us').                                                 *)
LuaArgs == [kind : {"nil", "nan", "inf", "-inf"}, us : {0}]
             \cup [kind : {"number"}, us : Int]
CoerceTimeout(arg) ==
  CASE arg.kind = "nil" -> {-1}
    [] arg.kind = "nan" -> {INT_MIN, 0}
    [] arg.kind = "inf" -> {INT_MAX}
    [] arg.kind = "-inf" -> {0}
    [] arg.kind = "number" -> IF arg.us < 0 THEN {0} ELSE {arg.us \div 1000}
ASSUME TimeoutArgs \subseteq LuaArgs

VARIABLES
  waiters,     \* q -> m -> key -> task or None
  tstate,      \* host view of a task: "running" | "suspended" | "done"
  dequeue,     \* task._dequeue: None, or the mode of xpqueue_dequeue[R/W/C]
  dequeuedata, \* task._dequeuedata: the key it was last enqueued under
  wq,          \* the queue whose wait is executing
  timeout,     \* wait's timeout after coercion
  ready,       \* the array wait returns, as a bag: task -> times in it
  waitResult,  \* what the last wait returned: "none" | "nil" | "array"
  onSock,      \* host: the socket a task last called when_read/write on
  childSetup   \* pid -> the forked child's work before execve: pending,
               \* its copy of the descriptor table, the fdActions

queueVars == <<waiters, tstate, dequeue, dequeuedata, wq, timeout, ready,
               waitResult, onSock, childSetup>>
vars == <<procVars, sockVars, queueVars>>

-----------------------------------------------------------------------------
Running == {t \in Tasks : tstate[t] = "running"}

(* Table entries holding task t: <<q, m, k>> triples. *)
EntriesOf(t) ==
  {<<q, m, k>> \in Queues \X Modes \X (FdKeys \cup ProcIds) :
      k \in KeysOf(m) /\ waiters[q][m][k] = t}

(* xpqueue_isEmpty *)
IsEmpty(q) == \A m \in Modes : \A k \in KeysOf(m) : waiters[q][m][k] = None

(* Child waiters of q whose XPProc is exited, and those still pending.     *)
ExitedKeys(q) == {h \in ProcIds : waiters[q]["C"][h] # None /\ IsExited(h)}
PendingKeys(q) == {h \in ProcIds : waiters[q]["C"][h] # None /\ ~IsExited(h)}

(* Descriptors wait puts in pfds[] for reading and for writing. *)
PollIn(q) == {fd \in FdKeys : waiters[q]["R"][fd] # None}
PollOut(q) == {fd \in FdKeys : waiters[q]["W"][fd] # None}

(* poll() ignores a negative fd and sets POLLNVAL on one that is not open; *)
(* whether an open one is readable or writable is up to its peer.          *)
PollNval(fds) == {fd \in fds : fd >= 0 /\ ~fdOpen[fd]}
PollOpen(fds) == {fd \in fds : fd >= 0 /\ fdOpen[fd]}

(* Tasks enlisted on socket s (their table entry is keyed by what s held). *)
EnlistedOn(s) == {t \in Tasks : dequeue[t] \in {"R", "W"} /\ onSock[t] = s}

(* Set the entries `keys' of table m of queue q to nil. *)
ClearKeys(q, m, keys) ==
  [waiters EXCEPT ![q][m] = [k \in KeysOf(m) |->
                               IF k \in keys THEN None ELSE @[k]]]

-----------------------------------------------------------------------------
QueueInit ==
  /\ waiters = [q \in Queues |-> [m \in Modes |-> [k \in KeysOf(m) |-> None]]]
  /\ tstate = [t \in Tasks |-> "running"]
  /\ dequeue = [t \in Tasks |-> None]
  /\ dequeuedata = [t \in Tasks |-> None]
  /\ wq = CHOOSE q \in Queues : TRUE
  /\ timeout = -1
  /\ ready = [t \in Tasks |-> 0]
  /\ waitResult = "none"
  /\ onSock = [t \in Tasks |-> None]
  /\ childSetup = [p \in Pids |-> [pending |-> FALSE,
                                    fds |-> [fd \in FdNums |-> -1],
                                    acts |-> <<>>]]

Init == ProcInit /\ SockInit /\ QueueInit

(* Variant of xpqueue_enqueue that writes the two fields the other way    *)
(* round.                                                                  *)
xpqueue_enqueue_swapped(t, k, m) ==
  /\ dequeue[t] = None
  /\ waiters' = [waiters EXCEPT ![QueueOf[t]][m][k] = t]
  /\ dequeue' = [dequeue EXCEPT ![t] = k]
  /\ dequeuedata' = [dequeuedata EXCEPT ![t] = m]

(* xpqueue_enqueue, reached from when_read / when_write (key = me->s) and  *)
(* when_wait (key = the XPProc).  A task whose _dequeue is set raises      *)
(* "task scheduled twice" and changes nothing.  The table slot is          *)
(* assigned whatever it held before.                                       *)
xpqueue_enqueue(t, k, m) ==
  /\ dequeue[t] = None
  /\ waiters' = [waiters EXCEPT ![QueueOf[t]][m][k] = t]
  /\ dequeue' = [dequeue EXCEPT ![t] = m]
  /\ dequeuedata' = [dequeuedata EXCEPT ![t] = k]

(* A running task calls proc:when_wait(task) (xpproc_when_wait). *)
xpproc_when_wait(t, h) ==
  /\ mpc = "idle"
  /\ t \in Running
  /\ pstate[h] = "live"
  /\ RuntimeAvoidsSharedKeys => waiters[QueueOf[t]]["C"][h] = None
  /\ xpqueue_enqueue(t, h, "C")
  /\ UNCHANGED <<procVars, sockVars, tstate, wq, timeout, ready, waitResult,
                 onSock, childSetup>>

(* A running task calls sock:when_read(task) or sock:when_write(task):    *)
(* xpqueue_enqueue under the socket's current me->s.                       *)
xpsocket_when(t, s, m) ==
  /\ mpc = "idle"
  /\ t \in Running
  /\ s \in HostSockets
  /\ HostSkipsClosedSockets => sfd[s] # -1
  /\ RuntimeAvoidsSharedKeys => \A u \in EnlistedOn(s) : dequeue[u] # m
  /\ xpqueue_enqueue(t, sfd[s], m)
  /\ onSock' = [onSock EXCEPT ![t] = s]
  /\ UNCHANGED <<procVars, sockVars, tstate, wq, timeout, ready, waitResult,
                 childSetup>>

(* Variant of xpqueue_dequeue that clears _dequeue but leaves the entry.  *)
xpqueue_dequeue_keepEntry(t) ==
  /\ mpc = "idle"
  /\ Running # {}
  /\ dequeue[t] # None
  /\ dequeue' = [dequeue EXCEPT ![t] = None]
  /\ tstate' = [tstate EXCEPT ![t] = "running"]
  /\ UNCHANGED <<procVars, sockVars, waiters, dequeuedata, wq, timeout, ready,
                 waitResult, onSock, childSetup>>

(* xpqueue_dequeue[R/W/C], called through task._dequeue by the host to     *)
(* cancel a wait; it clears table[_dequeuedata] and _dequeue, not          *)
(* _dequeuedata.  A suspended task so cancelled is resumed by the host.    *)
xpqueue_dequeue(t) ==
  /\ mpc = "idle"
  /\ Running # {}
  /\ dequeue[t] # None
  /\ waiters' = [waiters EXCEPT ![QueueOf[t]][dequeue[t]][dequeuedata[t]] = None]
  /\ dequeue' = [dequeue EXCEPT ![t] = None]
  /\ tstate' = [tstate EXCEPT ![t] = "running"]
  /\ UNCHANGED <<procVars, sockVars, dequeuedata, wq, timeout, ready,
                 waitResult, onSock, childSetup>>

(* The host suspends a task that has enlisted, or the task finishes. *)
Yield(t) ==
  /\ mpc = "idle"
  /\ t \in Running
  /\ dequeue[t] # None
  /\ tstate' = [tstate EXCEPT ![t] = "suspended"]
  /\ UNCHANGED <<procVars, sockVars, waiters, dequeue, dequeuedata, wq,
                 timeout, ready, waitResult, onSock, childSetup>>

Finish(t) ==
  /\ mpc = "idle"
  /\ t \in Running
  /\ dequeue[t] = None
  /\ tstate' = [tstate EXCEPT ![t] = "done"]
  /\ UNCHANGED <<procVars, sockVars, waiters, dequeue, dequeuedata, wq,
                 timeout, ready, waitResult, onSock, childSetup>>

(* A running task calls xpio._spawn, proc:kill(); the collector runs        *)
(* __gc on a handle no waiter table refers to.                             *)
(* fork() gives the child a copy of the descriptor table and the          *)
(* fdActions argument.                                                     *)
Spawn ==
  /\ Running # {}
  /\ Fork
  /\ \E acts \in SpawnActions :
       childSetup' =
         IF forkPid' > 0
           THEN [childSetup EXCEPT ![forkPid'] =
                   [pending |-> TRUE,
                    fds |-> [fd \in FdNums |-> IF fdOpen[fd] THEN fdDesc[fd]
                                                            ELSE -1],
                    acts |-> acts]]
           ELSE childSetup
  /\ UNCHANGED <<sockVars, waiters, tstate, dequeue, dequeuedata, wq,
                 timeout, ready, waitResult, onSock>>
Kill(h) == Running # {} /\ xpproc_kill(h) /\ UNCHANGED <<sockVars, queueVars>>
Collect(h) ==
  /\ \A q \in Queues : waiters[q]["C"][h] = None
  /\ xpproc_dtor(h)
  /\ UNCHANGED <<sockVars, queueVars>>

(* A running task creates sockets or closes one.  Unless CloseWhileWaiting, *)
(* the host closes only a socket no task is enlisted on.                   *)
SockStep(A) ==
  /\ mpc = "idle"
  /\ Running # {}
  /\ A
  /\ UNCHANGED <<procVars, queueVars>>
CloseSocket(s) ==
  /\ CloseWhileWaiting \/ EnlistedOn(s) = {}
  /\ SockStep(xpsocket_close(s))

(* The collector runs __gc on a failed constructor's object, or on a       *)
(* socket the host has dropped: one no unfinished task still refers to.    *)
CollectSocket(s) ==
  /\ mpc = "idle"
  /\ sstate[s] = "live" =>
       \A t \in Tasks : onSock[t] = s => tstate[t] = "done"
  /\ xpsocket_dtor(s)
  /\ UNCHANGED <<procVars, queueVars>>

-----------------------------------------------------------------------------
(* Variant that keeps the previous call's array instead of a new table.  *)
NoTasksReused == ready

(* The new, empty ready array wait builds (lua_newtable). *)
NoTasks == [t \in Tasks |-> 0]

(* Variant of XPQueue_wakeChildWaiters that clears the entry and _dequeue  *)
(* but never appends the task to the ready array.                          *)
WakeChildWaitersNoReady(q, base) ==
  LET woken == {waiters[q]["C"][h] : h \in ExitedKeys(q)} IN
  /\ waiters' = ClearKeys(q, "C", ExitedKeys(q))
  /\ dequeue' = [t \in Tasks |-> IF t \in woken THEN None ELSE dequeue[t]]
  /\ ready' = base

(* XPQueue_wakeChildWaiters: move the waiter of every exited XPProc of q   *)
(* to the ready array `base', clear its _dequeue and its table entry.      *)
WakeChildWaiters(q, base) ==
  LET woken == {waiters[q]["C"][h] : h \in ExitedKeys(q)} IN
  /\ waiters' = ClearKeys(q, "C", ExitedKeys(q))
  /\ dequeue' = [t \in Tasks |-> IF t \in woken THEN None ELSE dequeue[t]]
  /\ ready' = [t \in Tasks |-> base[t] + Cardinality({h \in ExitedKeys(q) :
                                              waiters[q]["C"][h] = t})]


(* wait returns the ready array; the host resumes every task in it. *)
ReturnArray ==
  /\ mpc' = "idle"
  /\ waitResult' = "array"
  /\ tstate' = [t \in Tasks |-> IF ready'[t] > 0 THEN "running" ELSE tstate[t]]

(* `timeout == -1 && nfdsUsed == 0': blocking with no readers, writers or *)
(* pending child waiters (the pipe slot) in pfds[]; wait returns nil.      *)
NothingToWaitOn(q, tmo) ==
  tmo = -1 /\ PollIn(q) \cup PollOut(q) = {} /\ PendingKeys(q) = {}

(* Variant of xpqueue_wait that skips the sweep before poll() and relies  *)
(* on the one after xpproc_reap alone.                                     *)
xpqueue_wait_noSweep(q, arg) ==
  /\ mpc = "idle"
  /\ Running = {}
  /\ wq' = q
  /\ \E to \in CoerceTimeout(arg) :
     LET tmo == IF ExitedKeys(q) # {} THEN 0 ELSE to IN
     IF NothingToWaitOn(q, tmo)
       THEN /\ waitResult' = "nil"
            /\ ready' = NoTasks
            /\ UNCHANGED <<waiters, dequeue, tstate, timeout, mpc>>
       ELSE /\ timeout' = tmo
            /\ ready' = NoTasks
            /\ mpc' = "poll"
            /\ UNCHANGED <<waiters, dequeue, tstate, waitResult>>
  /\ UNCHANGED <<sockVars, onSock, childSetup, pstate, ppid, pstatus, child, killed,
                 wstatus, sigPending,
                 sigPipe, sigInstalled, initialized, forkPid, numUpdated, dequeuedata>>

(* xpqueue_wait up to poll(): coerce the timeout, build pfds[] from        *)
(* readers then writers, sweep exited child waiters into a new ready       *)
(* array, add sigchldPipe[0] when child waiters are pending, force a zero  *)
(* timeout when something is ready, and return nil when blocking on       *)
(* nothing.  The host calls wait only when no task is runnable.            *)
xpqueue_wait(q, arg) ==
  /\ mpc = "idle"
  /\ Running = {}
  /\ wq' = q
  /\ \E to \in CoerceTimeout(arg) :
     LET tmo == IF ExitedKeys(q) # {} THEN 0 ELSE to IN
     IF NothingToWaitOn(q, tmo)
       THEN /\ waitResult' = "nil"
            /\ ready' = NoTasks
            /\ UNCHANGED <<waiters, dequeue, tstate, timeout, mpc>>
       ELSE /\ timeout' = tmo
            /\ WakeChildWaiters(q, NoTasks)
            /\ mpc' = "poll"
            /\ UNCHANGED <<tstate, waitResult>>
  /\ UNCHANGED <<sockVars, onSock, childSetup, pstate, ppid, pstatus, child, killed,
                 wstatus, sigPending,
                 sigPipe, sigInstalled, initialized, forkPid, numUpdated, dequeuedata>>

(* sigchldPipe[0] is in pfds[] when child waiters are pending, and poll   *)
(* reports it readable iff a byte is in it.                                *)
SigReady(q) == PendingKeys(q) # {} /\ sigPipe > 0

(* Variant of XPQueue_wakeSockets that leaves _dequeue set on the tasks it *)
(* wakes.                                                                  *)
XPQueue_wakeSocketsKeepDequeue(q, rin, rout) ==
  /\ waiters' = [waiters EXCEPT
                   ![q]["R"] = [fd \in FdKeys |-> IF fd \in rin THEN None ELSE @[fd]],
                   ![q]["W"] = [fd \in FdKeys |-> IF fd \in rout THEN None ELSE @[fd]]]
  /\ UNCHANGED dequeue
  /\ ready' = [t \in Tasks |->
                 ready[t] + Cardinality({fd \in rin : waiters[q]["R"][fd] = t})
                          + Cardinality({fd \in rout : waiters[q]["W"][fd] = t})]

(* XPQueue_wakeSockets: a slot reported readable (POLLIN, POLLERR, POLLHUP, *)
(* POLLNVAL) moves readers[fd] to the ready array, clearing its _dequeue   *)
(* and its entry; a slot reported writable does the same for writers[fd].  *)
XPQueue_wakeSockets(q, rin, rout) ==
  LET woken == {waiters[q]["R"][fd] : fd \in rin}
                 \cup {waiters[q]["W"][fd] : fd \in rout}
  IN
  /\ waiters' = [waiters EXCEPT
                   ![q]["R"] = [fd \in FdKeys |-> IF fd \in rin THEN None ELSE @[fd]],
                   ![q]["W"] = [fd \in FdKeys |-> IF fd \in rout THEN None ELSE @[fd]]]
  /\ dequeue' = [t \in Tasks |-> IF t \in woken THEN None ELSE dequeue[t]]
  /\ ready' = [t \in Tasks |->
                 ready[t] + Cardinality({fd \in rin : waiters[q]["R"][fd] = t})
                          + Cardinality({fd \in rout : waiters[q]["W"][fd] = t})]

(* Variant of the revents test in XPQueue_wakeSockets whose mask leaves    *)
(* out POLLNVAL.                                                           *)
ReadersWokenNoNval(q, rin) == rin

(* The pfds[] slots of readers XPQueue_wakeSockets wakes: the revents      *)
(* mask (POLLIN | POLLERR | POLLHUP | POLLNVAL) takes those poll found     *)
(* readable, and those it flagged POLLNVAL.                                *)
ReadersWoken(q, rin) == rin \cup PollNval(PollIn(q))

(* poll() (retried on EINTR) and what wait does with its result.  poll     *)
(* may report any readiness of open sockets, whose peers are outside the   *)
(* model, flags each closed one POLLNVAL and skips fd -1; with a negative *)
(* timeout (infinite, poll(2)) it returns only when something is reported. *)
(* Then xpproc_reap runs if the pipe slot is readable; else wait returns. *)
PollStep ==
  /\ mpc = "poll"
  /\ \E rin \in SUBSET PollOpen(PollIn(wq)),
       rout \in SUBSET PollOpen(PollOut(wq)) :
       LET woutAll == rout \cup PollNval(PollOut(wq)) IN
       /\ timeout < 0 =>
            (rin \cup woutAll \cup PollNval(PollIn(wq)) # {} \/ SigReady(wq))
       /\ XPQueue_wakeSockets(wq, ReadersWoken(wq, rin), woutAll)
       /\ IF SigReady(wq)
            THEN mpc' = "reap" /\ UNCHANGED <<tstate, waitResult>>
            ELSE ReturnArray
  /\ UNCHANGED <<sockVars, onSock, childSetup, pstate, ppid, pstatus, child, killed,
                 wstatus, sigPending, sigPipe, sigInstalled, initialized, forkPid,
                 numUpdated, dequeuedata, wq, timeout>>

(* After xpproc_reap: sweep the child waiters again if it updated any      *)
(* XPProc, then return the ready array.                                    *)
WaitAfterReap ==
  /\ mpc = "reaped"
  /\ IF numUpdated > 0
       THEN WakeChildWaiters(wq, ready)
       ELSE UNCHANGED <<waiters, dequeue, ready>>
  /\ ReturnArray
  /\ UNCHANGED <<sockVars, onSock, childSetup, pstate, ppid, pstatus, child, killed,
                 wstatus, sigPending,
                 sigPipe, sigInstalled, initialized, forkPid, numUpdated, dequeuedata, wq,
                 timeout>>

-----------------------------------------------------------------------------
ProcStep(A) == A /\ UNCHANGED <<sockVars, queueVars>>

(* The forked child, between fork() and execve(): sigprocmask, then the    *)
(* fdActions on its own table; the O_NONBLOCK it clears is cleared on the  *)
(* descriptions it shares with the parent.                                 *)
ChildStart(p) ==
  /\ child[p] = "running"
  /\ childSetup[p].pending
  /\ LET cleared == ApplyFdActions(childSetup[p].fds, childSetup[p].acts, {})[2]
     IN nonblock' = [d \in Descs |-> nonblock[d] /\ d \notin cleared]
  /\ childSetup' = [childSetup EXCEPT ![p].pending = FALSE]
  /\ UNCHANGED <<procVars, sstate, sfd, fdOpen, fdDesc, waiters, tstate,
                 dequeue, dequeuedata, wq, timeout, ready, waitResult, onSock>>

(* A child ends by SIGKILL at any point, or by exit() once execve() has     *)
(* run or failed.                                                          *)
ChildEnds(p) ==
  /\ killed[p] \/ ~childSetup[p].pending
  /\ ProcStep(ChildExit(p))

Next ==
  \/ \E t \in Tasks, h \in ProcIds : xpproc_when_wait(t, h)
  \/ \E t \in Tasks, s \in Sockets, m \in {"R", "W"} : xpsocket_when(t, s, m)
  \/ \E t \in Tasks : xpqueue_dequeue(t) \/ Yield(t) \/ Finish(t)
  \/ Spawn
  \/ ProcStep(SpawnNew)
  \/ \E h \in ProcIds : Kill(h) \/ Collect(h)
  \/ \E s \in Sockets :
       \/ SockStep(xpio_socket(s))
       \/ \E fd \in FdNums : SockStep(xpio_fdopen(s, fd))
       \/ \E l \in HostSockets : SockStep(xpsocket_try_accept(l, s))
       \/ \E b \in Sockets : SockStep(xpio_pair(s, b))
       \/ \E on \in NonBlockArgs : SockStep(xpsocket_setsockopt(s, "O_NONBLOCK", on))
       \/ CloseSocket(s)
       \/ CollectSocket(s)
  \/ \E q \in Queues, arg \in TimeoutArgs : xpqueue_wait(q, arg)
  \/ PollStep
  \/ ProcStep(ReapDrain)
  \/ ProcStep(ReapWaitpid)
  \/ WaitAfterReap
  \/ \E p \in Pids : ChildStart(p) \/ ChildEnds(p)
  \/ ProcStep(handleSIGCHLD)

(* The kernel delivers a pending signal and ends a SIGKILLed child; the    *)
(* program's thread, once inside spawn or wait, runs on; the host calls    *)
(* wait when no task is runnable.  Nothing forces a child to exit unless   *)
(* it was killed, nor a socket to become ready; which queue the host waits *)
(* on is its choice, so liveness is stated for a host that keeps waiting   *)
(* on the queue in question.                                               *)
Fairness ==
  /\ WF_vars(ProcStep(handleSIGCHLD))
  /\ \A p \in Pids : WF_vars(killed[p] /\ ChildEnds(p))
  /\ WF_vars(ProcStep(SpawnNew))
  /\ WF_vars(PollStep)
  /\ WF_vars(ProcStep(ReapDrain))
  /\ WF_vars(ProcStep(ReapWaitpid))
  /\ WF_vars(WaitAfterReap)
  /\ WF_vars(\E q \in Queues, arg \in TimeoutArgs : xpqueue_wait(q, arg))

Spec == Init /\ [][Next]_vars /\ Fairness

-----------------------------------------------------------------------------
TypeOK ==
  /\ ProcTypeOK
  /\ SockTypeOK
  /\ DOMAIN waiters = Queues
  /\ \A q \in Queues : DOMAIN waiters[q] = Modes /\
       \A m \in Modes : waiters[q][m] \in [KeysOf(m) -> Tasks \cup {None}]
  /\ tstate \in [Tasks -> {"running", "suspended", "done"}]
  /\ dequeue \in [Tasks -> Modes \cup {None}]
  /\ dequeuedata \in [Tasks -> FdKeys \cup ProcIds \cup {None}]
  /\ wq \in Queues
  /\ timeout \in UNION {CoerceTimeout(arg) : arg \in TimeoutArgs} \cup {-1, 0}
  /\ ready \in [Tasks -> Nat]
  /\ waitResult \in {"none", "nil", "array"}
  /\ onSock \in [Tasks -> Sockets \cup {None}]
  /\ childSetup \in [Pids -> [pending : BOOLEAN,
                               fds : [FdNums -> Descs \cup {-1}],
                               acts : SpawnActions \cup {<<>>}]]

(* Spec sec. 3 and 8: a task's _dequeue is set exactly when the task sits  *)
(* in one waiter table, and then in the entry its _dequeue/_dequeuedata    *)
(* name; a cleared _dequeue means no table holds it.  Enqueue, cancel,     *)
(* both sweeps and wakeSockets must keep the two sides in step.            *)
WaiterTableConsistent ==
  \A t \in Tasks :
    EntriesOf(t) = IF dequeue[t] = None THEN {}
                   ELSE {<<QueueOf[t], dequeue[t], dequeuedata[t]>>}

(* Spec sec. 5: the array wait returns holds each task at most once, so    *)
(* the host resumes it once (the double-scheduling check in                *)
(* xpqueue_enqueue is what keeps a task out of readers and writers of one  *)
(* fd at the same time).                                                   *)
WokenAtMostOnce == \A t \in Tasks : ready[t] <= 1

(* The self-pipe protocol: once xpproc_init has installed the handler,    *)
(* while a child is a zombie a SIGCHLD is pending or a byte waits in       *)
(* sigchldPipe, or xpproc_reap's waitpid loop is running, so a later reap  *)
(* will collect it (handleSIGCHLD, xpproc_reap).  A handler blocked on a   *)
(* full pipe has left its byte's predecessors there.                       *)
NoLostSigchld ==
  sigInstalled /\ Zombies # {} =>
    (sigPending \/ sigPipe > 0 \/ mpc = "waitpid")

(* Spec sec. 5: the program suspends only in when_read/when_write/when_wait *)
(* and in tqueue:wait.  So handleSIGCHLD always returns: its write() to    *)
(* sigchldPipe never finds the pipe full.  The bytes are drained only by    *)
(* xpproc_reap, which wait reaches only with a child waiter enqueued.      *)
SignalHandlerReturns == mpc # "sigwrite"

(* A PID held by a live XPProc is a child of ours the kernel has not       *)
(* reaped, and no other live XPProc holds it: so proc:kill() and __gc      *)
(* never signal a reused PID (xpproc_reap zeroes pid as it reaps).         *)
LivePidsAreChildren ==
  \A h \in LiveProcs :
    ppid[h] > 0 =>
      /\ child[ppid[h]] # "free"
      /\ \A g \in LiveProcs \ {h} : ppid[g] # ppid[h]

(* Spec sec. 4.3: destroying a Process (__gc, xpproc_dtor) SIGKILLs that   *)
(* process if it is still running, and no other.                           *)
CollectKillsOwnChildOnly ==
  [][\A h \in ProcIds :
       Collect(h) =>
         \A p \in Pids : (killed'[p] /\ ~killed[p]) => p = ppid[h]]_vars

(* The reactor as the host sees it (module Reactor): a task's phase is    *)
(* tstate, it is enlisted while its _dequeue is set, and during wait (from *)
(* poll() to the return) the tasks in the ready array are the woken ones.  *)
InWaitCall == mpc \in {"poll", "reap", "waitpid", "reaped"}
Abstract == INSTANCE Reactor WITH
  phase <- tstate,
  enlisted <- {t \in Tasks : dequeue[t] # None},
  woken <- IF InWaitCall THEN {t \in Tasks : ready[t] > 0} ELSE {},
  current <- IF InWaitCall THEN wq ELSE None,
  NoQueue <- None

(* Spec sec. 4.6 and 8: XPQueue implements Reactor.  Every step of the     *)
(* code (enqueue, _dequeue, the sweeps, wakeSockets, the return of wait)   *)
(* is a step of the abstract reactor or leaves it unchanged: a task is     *)
(* resumed only by a cancel or by the wait on its own queue that took it   *)
(* off a table, it is never resumed twice for one enlistment, and it is   *)
(* never left enlisted once woken.                                         *)
ReactorRefined == Abstract!Spec

(* Spec sec. 8, scenario 5: a task waiting on a process whose child has    *)
(* exited is taken off the table and resumed, provided the host keeps calling wait on the task's   *)
(* queue.  With several queues, another queue's wait may be the one that   *)
(* reaps the child (the comment above xpproc_isExited).                    *)
ChildExited(h) == ppid[h] = 0 \/ (ppid[h] > 0 /\ child[ppid[h]] = "zombie")
WaitsOn(q) == mpc = "poll" /\ wq = q
ChildWaiterWoken ==
  \A t \in Tasks, h \in ProcIds :
    []<>WaitsOn(QueueOf[t]) =>
      ((waiters[QueueOf[t]]["C"][h] = t /\ ChildExited(h))
         ~> (dequeue[t] = None /\ tstate[t] = "running"))

(* Spec sec. 4.6 step 8: a reader or writer whose descriptor is closed is  *)
(* woken, since poll() flags it POLLNVAL and wakeSockets counts POLLNVAL   *)
(* as ready; so a task waiting on a socket that gets closed (by another    *)
(* task, or before when_read) is resumed, unless the descriptor number is  *)
(* meanwhile open again, when the new owner's readiness decides.  Stated   *)
(* for a host that keeps waiting on the task's queue.  The key -1 of a     *)
(* socket closed before when_read counts as closed: poll skips it.         *)
FdClosed(k) == k = -1 \/ ~fdOpen[k]
SocketWaiterWoken ==
  \A t \in Tasks, m \in {"R", "W"}, k \in FdKeys :
    []<>WaitsOn(QueueOf[t]) =>
      ((waiters[QueueOf[t]][m][k] = t /\ FdClosed(k))
         ~> ((dequeue[t] = None /\ tstate[t] = "running") \/ ~FdClosed(k)))
=============================================================================
