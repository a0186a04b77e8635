# TLA+ models of the xpio reactor

This directory holds TLA+ models of `src/luau/xpio_c.c` and the TLC configurations that check them. The models cover:
- the event-loop core: the task queue (TQueue), child processes and the SIGCHLD self-pipe;
- the socket objects and the kernel descriptor table under them;
- `xpio._spawn`, both its parent side and its child side;
- the IPv4 address codec and the mode conversions of `src/luau/xpfs.c`;
- an abstract reactor spec (`Reactor.tla`) that `XPQueue` is shown to implement.

Line numbers refer to `src/luau/xpio_c.c` unless another file is named.

## The system and its parts

| Part | Code | What it does | Module |
|---|---|---|---|
| TQueue | 362-760 | Three Lua tables per queue: readers (fd → task), writers (fd → task) and child waiters (XPProc → task). It provides `enqueue`, `dequeue`, `isEmpty` and `wait`. `wait` runs a child sweep, `poll`, `wakeSockets`, `xpproc_reap`, and a second sweep. | `XPQueue` |
| Process | 767-997 | The XPProc list with `pid`/`status`, plus `kill`, `try_wait`, `when_wait` and `__gc`. | `XPProc` |
| SIGCHLD reactor | 825-974 | `xpproc_init` creates the pipe and installs the handler. `handleSIGCHLD` writes one byte. `xpproc_reap` drains the pipe and loops on `waitpid(-1, WNOHANG)`. | `XPProc` |
| Spawn | 1590-1668 | `fork()`. The parent creates the XPProc. The child resets its signal mask, applies the fd actions (dup2/close, then clears O_NONBLOCK), and calls `execve` or `exit(127)`. | `XPProc`, `XPQueue`, `XPSocket` |
| Socket | 1004-1600 | An int `s` over a non-blocking descriptor. It has its constructors (socket, pipe, socketpair, fdopen, try_accept), `close`, `__gc`, `setsockopt` (whose `O_NONBLOCK` goes through `setNonBlocking`, 72-107), and `when_read`/`when_write`. | `XPSocket` (partly) |
| Address codec | 204-290, 1071-1076 | `scanNum`/`addrFromString` parse addresses. `xpsocket_getXname` formats them. `src/luau/xpio_c_q.c` unit-tests both. | `AddrCodec` |
| xpfs | `src/luau/xpfs.c` | One system call per function. `chmod` computes the new mode from `st_mode` and a mode string; `stat` builds a table (perm string, kind, time) from `struct stat`. | `XPFS` (the two conversions) |
| xlua.h | `src/luau/xlua.h`, `luaopen_xpio` | Each load of the library makes one metatable per type and records `REGISTRY[mt] = &Type_regs`. `XLUA_CAST` accepts a value only when `REGISTRY[getmetatable(v)]` is the type's regs. | `XLua` |
| sha1 | `src/sha1/sha1_lua.c` | `sha1.digest` prints the 20 bytes of an external SHA-1 digest as hex. | `Sha1Lua` |
| sigtest.c | `src/luau/sigtest.c` | A standalone probe of SIGCHLD and waitid, not linked into the library. | not modelled |

How the parts interact:
- A task calls `sock:when_read(task)`, `sock:when_write(task)` or `proc:when_wait(task)`. This enqueues the task under `me->s` or under the handle, and sets `task._dequeue` and `task._dequeuedata`.
- The host's scheduler is not under `src/`. It calls `tq:wait(t)` when no task is runnable, and resumes the tasks that `wait` returns.
- When a child exits, the kernel raises SIGCHLD. The handler writes a byte to the pipe. `wait` polls the read end of the pipe while it has pending child waiters. The reap sets `pid = 0`, and the sweep wakes the waiter.
- Sockets and the queue meet in the descriptor numbers. The waiter tables are keyed by the number a socket held at `when_read` time, and `poll` reports POLLNVAL for a closed number.
- Spawn and sockets meet in the descriptor table. The child gets a copy of it, and O_NONBLOCK belongs to the description that parent and child share.

## Modules

**`XPProc.tla`** models the XPProc list, the kernel's process table and the SIGCHLD path.

State:
- `pstate`, `ppid` and `pstatus` are the XPProc objects.
- `child`, `killed`, `wstatus` and `sigPending` are the kernel.
- `sigPipe` is the number of unread bytes in the pipe, at most `PipeCapacity`.
- `initialized` and `sigInstalled` are the two statics of `xpproc_init`.
- `mpc` is the location of the program's only thread. Spawn and reap are split where a signal can arrive. `"sigwrite"` is the handler blocked in `write()` on a full pipe.

Actions:
- `Fork` and `SpawnNew` are the parent side of `xpio__spawn`.
- `xpproc_init` sets `initialized` before `pipe()`. With `InitMayFail`, `pipe`/`fcntl`/`sigaction` may fail, and the handler then stays uninstalled for good.
- `ChildExit` is the kernel ending a child.
- `handleSIGCHLD` is the signal handler.
- `xpproc_kill` and `xpproc_dtor` are `kill` and `__gc`.
- `ReapDrain` and `ReapWaitpid` are the two loops of `xpproc_reap`.
- `TryWait` is `try_wait` as an operator.

Wait statuses follow the Linux layout, and the `<sys/wait.h>` macros are operators over it.

**`XPSocket.tla`** models the socket objects and the kernel descriptor table.

State:
- `sstate` is one of unborn, live, garbage (a failed constructor's object, which only `__gc` still sees) or gone.
- `sfd` is `me->s`.
- `fdOpen` and `fdDesc` map each descriptor number to its open file description.
- `nonblock` is the O_NONBLOCK flag of each description.

Descriptors are handed out lowest-first. `CloseFd` frees a number and releases a description no number still refers to.

Actions:
- The constructors.
- `xpsocket_close`.
- `xpsocket_dtor`, whose `if (me->s)` skips descriptor 0 and calls `close(-1)` on a closed socket.

`xpsocket_setsockopt` is the one option that changes modelled state: `O_NONBLOCK`, checked against the whitelist `SockOptNames` and written through `setNonBlocking` to the socket's description. It fails on `s = -1`. `NonBlockArgs` is the set of values the host passes.

`ApplyFdActions` is the child's action loop of `xpio__spawn`, as a RECURSIVE operator over a sequence of `{to, from}` pairs. Reads, writes, connect, bind, getsockopt and the SO_*/TCP_* options change no modelled state.

`xpio__nextfd` is `xpio._nextfd` as an operator over the descriptor table. It returns `<<fd>>` or `<<>>` (nil), and scans up to `NextFdMax`. `NextFdMax` is `rlim_max - 1`, truncated to int, or `rlim_cur - 1` when that is negative. The constant `RLimNoFile` is the `getrlimit` result; `RLIM_INFINITY` (all ones) reads as -1. `NextFdWalk` is the Lua loop that calls `_nextfd` from nil until it returns nil.

**`XPQueue.tla`** EXTENDS XPProc and XPSocket, and models the queues.

State:
- `waiters[q][m][k]` holds the tables.
- `dequeue` and `dequeuedata` are the task fields.
- `ready` is the array `wait` returns, kept as a bag.
- `tstate` is the host's view of a task.
- `childSetup[p]` is a spawned child that has not yet run its fd actions. It holds a snapshot of the parent's descriptor table at fork and the actions it was given.

`wait` is split into three steps:
- `xpqueue_wait`: up to `poll`.
- `PollStep`: `poll` and `wakeSockets`.
- `WaitAfterReap`: the second sweep.

These steps interleave with the kernel and the signal handler. The other actions are the host's, plus `ChildStart` (the child applies its fd actions) and `ChildEnds`.

`wait`'s timeout argument is a Lua value from `TimeoutArgs`. `CoerceTimeout` is the conversion at lines 630-641: nil gives -1; otherwise `t*1000` is clamped to [0, INT_MAX] and truncated. NaN passes both clamps and reaches `(int)num`, which is undefined in C. The model therefore gives both values the builds produce: INT_MIN on x86-64 and 0 on AArch64. `NothingToWaitOn` is the test that makes `wait` return nil.

**`Reactor.tla`** is the abstract spec: what the reactor promises about tasks, with sockets, processes and `poll` left out.
- A running task enlists (`when_*`) and then suspends.
- A wait on queue q resumes only enlisted tasks of q, and resumes each of them once, when the wait returns.
- A cancel (`task._dequeue`) withdraws a task and resumes it.

`XPQueue` defines `Abstract == INSTANCE Reactor WITH ...`:
- `phase` is `tstate`;
- `enlisted` is the set of tasks with a `_dequeue`;
- `woken` is the set of tasks in `ready` while a wait call is in progress;
- `current` is the queue being waited on.

`ReactorRefined == Abstract!Spec` is checked as a PROPERTY.

**`XPFS.tla`** models `xpfs.chmod`'s mode computation (`ChmodMode`, with the loop `ApplyModeChars`) and `xpfs.stat`'s table (`StatTable`: `StatFields` per mask character, `PermString` by the loop `PermGroups`, `StatKind`, and time = max(mtime, ctime)). Like AddrCodec, each state holds one input: `stModeIn` and `szmodeIn`.

**`Sha1Lua.tla`** models `sha1.digest` after the hash. `digest_to_string` is RECURSIVE over the 20 bytes. Each byte owns a two-character slot, filled by what `sprintf("%02x")` writes, its terminating NUL included. `sha1_digest` pushes the first 40 characters. SHA1_Init/Update/Final come from the external `sha1.h`, so a state holds one digest.

**`XLua.tla`** models the checks of `xlua.h` over one Lua state. The constants are the library copies, the sequence of loads (each naming its copy) and the types.
- `MTs` holds the metatables that `luaopen_xpio` makes.
- `REGISTRY` is what `xlua_newMT` stores for them.
- `xpio_newObject` is `xlua_newObject` with the metatable read from `xpio._T`. Lua code may have stored anything there: another xpio metatable, a table of its own, or nil (`XpioFieldValues`).
- `xlua_checkudata` is the check behind `XLUA_CAST`.

`Values` lists every kind of Lua argument: xpio objects, other libraries' userdata, light userdata (one at a `Type_regs` address), tables given an xpio metatable by Lua's `setmetatable`, and a number. A state holds one argument and the regs it is checked against.

**`AddrCodec.tla`** models the address codec. `scanNum`, the loop of `addrFromString` and `Decimal` are RECURSIVE operators. An `unsigned` is a pair of 16-bit halves, so its arithmetic stays mod 2^32. The address and port are kept as the bytes `htonl`/`htons` store. `SpecParse` is the grammar of spec sec. 4.1, used as the reference definition.

**`MCXPQueue.tla`, `MCXLua.tla` and `MCCodecs.tla`** give model values and small input sets. `MCCodecs` joins the inputs of AddrCodec, XPFS, Sha1Lua and XLua into one state space. Each state holds the input of one call to one module. Each module defines its mutant variants just before the definition they replace.

## Runs

| Run | cfg | Expect | States | What it shows |
|---|---|---|---|---|
| safety | MCXPQueue.cfg | pass | 548,013 | Two tasks, one queue, two handles over two PIDs, and the timeouts nil, 0.0005 s and math.huge, under the process side's fault model: `fork` may fail, `xpproc_init` may fail, and the pipe holds one byte. Checks `TypeOK`, `WaiterTableConsistent`, `WokenAtMostOnce`, `NoLostSigchld`, `LivePidsAreChildren` and `ReactorRefined`. Each fault can stop the program for good, so deadlock is not checked. |
| two_queues | MCXPQueueTwo.cfg | pass | 4,650 | One task on each of two queues. Checks `ChildWaiterWoken`: the other queue's `wait` may reap the child, and the sweep before `poll` must then wake the waiter. |
| socket_safety | MCSocket.cfg | pass | 152,596 | Two tasks and two sockets over fds {0,1,2}, with 0 inherited, and setsockopt(O_NONBLOCK) with both values. Checks `WaiterTableConsistent`, `WokenAtMostOnce`, `SocketOwnsFd`, `ReactorRefined` and `NextFdListsOpenFds`: walking `xpio._nextfd` from nil lists exactly the open descriptors, in increasing order. The walk reaches the top descriptor only through the `rlim_cur` fallback, because an unlimited hard limit truncates to -2. |
| socket_live | MCSocketLive.cfg | pass | 3,900 | Checks `SocketWaiterWoken`: a task waiting on a socket another task closes is woken through POLLNVAL. |
| codecs | MCCodecs.cfg | pass | 33,692 | Checks `UnitTestCasesHold` (the assertions of `xpio_c_q.c`), `WellFormedAccepted`, `RoundTrip` (parsing what getsockname prints gives the same address back), `ChmodAgreesWithRef` (chmod changes only the user's bits, as the mode string says) and `PermMatchesLs` (stat's perm string is in ls order). Also checks `DigestIsHex` and `CastReturnsXpioBlock`.
- `DigestIsHex`: sha1.digest gives 40 lowercase hex digits that read back as the digest.
- `CastReturnsXpioBlock`: whatever Lua code did with the metatables, `XLUA_CAST` returns only a block that some `XPIO_NEWOBJECT` allocated, never NULL, a light userdata's address or another library's block. Tables carrying an xpio metatable are rejected only by the `me != NULL` test. |
| fork_fails | MCForkFail.cfg | violation | | `fork() = -1` passes `if (pid)` (line 1631). `__gc` of that handle then calls `kill(-1, SIGKILL)` and kills another handle's child. |
| early_exit | MCEarlyExit.cfg | violation | | The first child exits before `xpproc_init` installs the handler (line 1632). Its waiter then blocks forever. |
| closed_wait | MCClosedWait.cfg | violation | | `when_read` on a closed socket enqueues under -1 (line 1363), and `poll` ignores -1. |
| fd_reuse | MCFdReuse.cfg | violation | | A socket closed while its task waits frees its number, and a new socket gets it. A second task's `when_read` on the new socket overwrites the first task's entry (line 457). The first task stays enlisted under no key; the trace ends there. |
| pipe_full | MCPipeFull.cfg | violation | | With no child waiter, nothing drains the pipe. Once it is full, `handleSIGCHLD` blocks in `write()` on the blocking write end (line 940). |
| xlua_mt_swap | MCXLuaSwap.cfg | violation | | `xpio_newObject` takes the metatable from the Lua-writable field `xpio._T` (line 325). An XPQueue block given the XPProc metatable that way is accepted by `XLUA_CAST(XPProc)`, which `CastAcceptsOnlyOwnType` forbids. |
| spawn_nonblock | MCSpawnNonBlock.cfg | violation | | A child whose fd actions name a socket's descriptor clears O_NONBLOCK on the description it shares with the parent (line 1655). The host's own `setsockopt(O_NONBLOCK, false)` is excluded (`NonBlockArgs = {TRUE}`). |

The runs state these properties:

- `WaiterTableConsistent` (spec sec. 8): a task's `_dequeue`/`_dequeuedata` names exactly the one entry that holds it.
- `NoLostSigchld`: while a zombie exists and the handler is installed, a SIGCHLD is pending, a byte is in the pipe, or the `waitpid` loop runs.
- `LivePidsAreChildren`: a live handle's positive PID is an unreaped child that no other handle holds, even with PID reuse.
- `SocketOwnsFd`: an open socket's descriptor is held by no other socket and is not inherited.
- `SocketNonBlocking`: a live socket's description is O_NONBLOCK.
- `ReactorRefined`: every XPQueue step is a Reactor step or leaves the abstract state unchanged. Three things follow:
  - a task is resumed only by a cancel, or by the wait on its own queue that took it off a table;
  - it is resumed at most once per enlistment;
  - it is never left enlisted once woken.
- `ChildWaiterWoken` and `SocketWaiterWoken` (liveness): a task waiting on an exited child or on a closed socket is eventually woken.
- `ChmodAgreesWithRef` and `PermMatchesLs`: the xpfs conversions agree with reference definitions (chmod(1) restricted to the user's bits, and `ls -l` order).

Each property of a passing run has a mutant. A mutant is a plausible slip in the code, which TLC must catch (see `mutants` in PROJECT.json).

## Fault model

- `ForkMayFail`: `fork()` returns -1.
- `InitMayFail`: `pipe`, `fcntl` or `sigaction` fails inside `xpproc_init`. Since `initialized` is already set, the call is never retried.
- `ChildMayExitEarly`: a child exits before the handler is installed.
- `PipeCapacity`: the pipe fills up.
- Constructors fail with EMFILE when no descriptor is free. `fdopen` fails with EBADF on a closed descriptor, and a type other than TCP/UDP is rejected.
- Kernel signals coalesce. A PID is reused after its reap.

## Bounds and why they suffice

- **Tasks and fds.** Two tasks and one fd are enough for double registration and for key collisions.
- **Handles and PIDs.** Two handles and two PIDs give two zombies at once, which is what coalescing needs, and allow a reused PID.
- **Sockets.** Two sockets over three descriptors with 0 inherited cover several things:
  - reuse of a closed number;
  - a pair;
  - an accept;
  - fdopen of an inherited or a socket descriptor.
- **Timeouts.** The timeouts are nil, 0.0005 s and math.huge, which coerce to -1, 0 and INT_MAX. Every finite t behaves the same here, because `poll` may return with nothing ready. NaN is left out of the runs. On the x86-64 outcome, `wait(0/0)` with nothing enqueued gets timeout INT_MIN, passes the nil test and blocks in `poll` for good. Showing that would take a violation run of its own, so it is listed as a hazard.
- **Descriptor 0.** Every socket run inherits fd 0, so no socket holds it, and the `if (me->s)` branch of `__gc` that would leak it is never reached. That case is a hazard.
- **Modes.** The chmod/stat inputs are every combination of user bits, under group/other bits none, 044 or 077, and under no higher bits or S_IFREG|S_ISUID. The mode strings are all strings of up to three characters over + - r w x q. They cover an empty string, a sign alone, a repeated letter and a stray letter.
- **Address inputs.** The inputs are: every string of up to 6 characters over '0', '9', '.', ':' and 'x'; strings of 7 to 9 characters over '1' and '.'; the unit test's strings; and the printed form of 144 sampled addresses. Together they give octets past 255, a fifth group, and an empty group or port.
- **_nextfd.** `RLimNoFile` is `[cur |-> 3, max |-> RLIM_INFINITY]` in every XPQueue run. An unlimited hard limit is the common case that takes the `rlim_cur` fallback. With the three descriptors, that limit makes `NextFdMax` exactly the top descriptor.
- **Digests.** Every byte value 0..255 appears as the first and as the last byte, with 0xab elsewhere. This covers the values below 16 that need the zero pad.
- **xlua.** Two library copies, the first loaded twice, and the three types. This is enough for objects of another load of the same copy (accepted), of another copy (rejected) and of another type (rejected).
- **Small runs.** two_queues and socket_live use one PID or one socket to keep the liveness check within a minute.

## Fairness

All fairness is weak, on these steps:
- the kernel delivering a pending SIGCHLD;
- ending a SIGKILLed child (`ChildEnds` waits for the child to finish its fd actions first);
- the program's thread continuing once it is inside `_spawn`, `wait` or `xpproc_reap`;
- the host calling `wait`.

Nothing in those steps blocks except `poll`, and `poll` is enabled only when something is ready or the timeout is finite.

No fairness is assumed for a child exiting on its own or for a socket becoming ready. The host chooses which queue it waits on, so the liveness properties assume it waits on the task's queue infinitely often.

## Not modelled

Out of scope:
- `waitpid(-1)` reaping children created by other means (a hazard).
- The `poll` error path.
- The growth of `pfds[]`.
- Reads and writes, getsockopt and the SO_*/TCP_* options, which change no modelled state.
- A failing `setNonBlocking` after a successful `socket()`/`accept()`.
- The xpfs system calls themselves, with their stat-then-chmod window (a hazard).
- The SHA-1 hash itself, which lives in the external `sha1.h`.
- `xlua_register`, which only fills a table with C functions.
- sigtest.c, a standalone probe. Its handler misreports waitid when SIGCHLDs coalesce (a hazard); the library's own coalescing is checked by `NoLostSigchld`.

Dropped as runs and kept as hazards in PROJECT.json:
- `try_wait`'s `WSTOPSIG` on a signalled child, which spec sec. 9 already lists, and `try_wait` on the pid -1 handle of a failed fork;
- a program started with stdin closed, where a socket on fd 0 is never closed by `__gc` (see Bounds);
- the packing of addresses with fewer than four groups;
- the lack of syntax checks in `addrFromString`;
- NaN as a `wait` timeout (see Bounds).

What remains open is liveness of the reactor refinement: every woken task eventually runs, under the host's fairness. It would need fairness on `Abstract` steps that the host scheduler, which is not under `src/`, would have to justify.
