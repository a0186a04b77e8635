------------------------------- MODULE XPProc -------------------------------
(***************************************************************************)
(* Child processes of src/luau/xpio_c.c: the XPProc userdata, the parent   *)
(* side of xpio._spawn, the SIGCHLD handler with its self-pipe, and        *)
(* xpproc_reap.  The kernel is part of the model: it hands out PIDs, keeps *)
(* a zombie until waitpid() collects it, delivers SIGKILL and SIGCHLD.     *)
(*                                                                         *)
(* The program is one thread.  `mpc' is where that thread is; the kernel   *)
(* steps (a child exiting, the SIGCHLD handler running) interleave with    *)
(* every step of it, which is why spawn and reap are split into the steps  *)
(* between which a signal can arrive.                                      *)
(***************************************************************************)
EXTENDS Integers, FiniteSets

CONSTANTS
  ProcIds,           \* XPProc handles spawn may create (bounds the spawns)
  Pids,              \* PIDs the kernel may hand out; reused once reaped
  ExitCodes,         \* codes a child may pass to exit() (127: exec failed)
  ForkMayFail,       \* whether fork() may return -1
  ChildMayExitEarly, \* whether a child may exit before the parent has run
                     \* xpproc_new (and so xpproc_init) after fork()
  InitMayFail,       \* whether pipe() or sigaction() in xpproc_init may fail
  PipeCapacity       \* bytes sigchldPipe holds before write() blocks

ASSUME Pids \subseteq Nat \ {0} /\ ExitCodes \subseteq 0..255
ASSUME {ForkMayFail, ChildMayExitEarly, InitMayFail} \subseteq BOOLEAN
ASSUME PipeCapacity \in Nat \ {0}

SIGKILL == 9

VARIABLES
  pstate,       \* handle -> "unborn" | "live" (in gpHeadProc) | "gone" (__gc ran)
  ppid,         \* XPProc.pid: > 0 until reaped, 0 after, -1 if fork() failed
  pstatus,      \* XPProc.status, the wait status stored by xpproc_reap
  child,        \* kernel: pid -> "free" | "running" | "zombie"
  killed,       \* kernel: pid -> a SIGKILL is pending for this running child
  wstatus,      \* kernel: pid -> wait status of a zombie
  sigPending,   \* kernel: a SIGCHLD awaits delivery to handleSIGCHLD
  sigPipe,      \* bytes written to sigchldPipe[1] and not yet read
  sigInstalled, \* xpproc_init has created the pipe and installed the handler
  initialized,  \* xpproc_init's static `initialized' flag
  mpc,          \* control location of the program's thread
  forkPid,      \* the value fork() returned to the parent
  numUpdated    \* xpproc_reap's count of XPProc objects updated

procVars == <<pstate, ppid, pstatus, child, killed, wstatus,
              sigPending, sigPipe, sigInstalled, initialized, mpc, forkPid,
              numUpdated>>

(* Main-thread locations: "idle" runs Lua code; "forked" is inside _spawn  *)
(* after fork(); "sigwrite" is handleSIGCHLD blocked in write() on a full  *)
(* pipe; the rest are inside tqueue:wait (see XPQueue).                    *)
Locations == {"idle", "forked", "poll", "reap", "waitpid", "reaped", "sigwrite"}

-----------------------------------------------------------------------------
(* Linux wait-status layout and the <sys/wait.h> macros.                   *)
ExitStatus(code) == code * 256
SignalStatus(sig) == sig
WTERMSIG(st) == st % 128
WEXITSTATUS(st) == (st \div 256) % 256
WSTOPSIG(st) == WEXITSTATUS(st)
WIFEXITED(st) == WTERMSIG(st) = 0
WIFSIGNALED(st) == WTERMSIG(st) \notin {0, 127}

Statuses == {ExitStatus(c) : c \in ExitCodes} \cup {SignalStatus(SIGKILL)}

Zombies == {p \in Pids : child[p] = "zombie"}
LiveProcs == {h \in ProcIds : pstate[h] = "live"}

(* xpproc_isExited *)
IsExited(h) == ppid[h] = 0

(* xpproc_try_wait: the two values it returns. *)
TryWait(h) ==
  CASE ppid[h] > 0                 -> <<"nil", "retry">>
    [] WIFEXITED(pstatus[h])       -> <<"exit", WEXITSTATUS(pstatus[h])>>
    [] WIFSIGNALED(pstatus[h])     -> <<"signal", WSTOPSIG(pstatus[h])>>
    [] OTHER                       -> <<"nil", "retry">>

(* kill(p, SIGKILL): p = -1 signals every process the caller may signal,  *)
(* which includes every running child.                                     *)
SendKill(p) ==
  killed' = [q \in Pids |-> killed[q] \/ (child[q] = "running" /\ p \in {q, -1})]

-----------------------------------------------------------------------------
ProcInit ==
  /\ pstate = [h \in ProcIds |-> "unborn"]
  /\ ppid = [h \in ProcIds |-> 0]
  /\ pstatus = [h \in ProcIds |-> 0]
  /\ child = [p \in Pids |-> "free"]
  /\ killed = [p \in Pids |-> FALSE]
  /\ wstatus = [p \in Pids |-> 0]
  /\ sigPending = FALSE
  /\ sigPipe = 0
  /\ sigInstalled = FALSE
  /\ initialized = FALSE
  /\ mpc = "idle"
  /\ forkPid = 0
  /\ numUpdated = 0

(* xpio__spawn, first half: fork().  The child side (sigprocmask, the fd   *)
(* actions, execve or exit(127)) is the running child until ChildExit.     *)
(* Only a handle not yet created bounds the number of spawns.              *)
Fork ==
  /\ mpc = "idle"
  /\ \E h \in ProcIds : pstate[h] = "unborn"
  /\ \/ \E p \in Pids :
           /\ child[p] = "free"
           /\ child' = [child EXCEPT ![p] = "running"]
           /\ forkPid' = p
     \/ /\ ForkMayFail
        /\ forkPid' = -1
        /\ UNCHANGED child
  /\ mpc' = "forked"
  /\ UNCHANGED <<pstate, ppid, pstatus, killed, wstatus, sigPending, sigPipe,
                 sigInstalled, initialized, numUpdated>>

(* xpproc_init: only the first call does anything.  It sets initialized   *)
(* before pipe(), fcntl and sigaction; when one of them fails it prints   *)
(* an error and returns, the handler not installed, never to be retried.  *)
xpproc_init ==
  IF initialized
    THEN UNCHANGED <<initialized, sigInstalled>>
    ELSE /\ initialized' = TRUE
         /\ \/ sigInstalled' = TRUE
            \/ InitMayFail /\ UNCHANGED sigInstalled

(* xpproc_new: a fresh XPProc (pid 0, status 0) linked into gpHeadProc,    *)
(* then xpproc_init.                                                       *)
xpproc_new(h, pid) ==
  /\ pstate' = [pstate EXCEPT ![h] = "live"]
  /\ ppid' = [ppid EXCEPT ![h] = pid]
  /\ pstatus' = [pstatus EXCEPT ![h] = 0]
  /\ xpproc_init

(* xpio__spawn, second half: `if (pid)' holds for a child PID and for -1;  *)
(* the parent creates the XPProc and sets pproc->pid = pid.                *)
SpawnNew ==
  /\ mpc = "forked"
  /\ xpproc_new(CHOOSE x \in ProcIds : pstate[x] = "unborn", forkPid)
  /\ mpc' = "idle"
  /\ forkPid' = 0
  /\ UNCHANGED <<child, killed, wstatus, sigPending, sigPipe, numUpdated>>

(* The kernel ends a running child: by SIGKILL if one was sent, else by    *)
(* exit().  SIGCHLD is generated; with the default disposition (before     *)
(* xpproc_init) it is discarded.                                           *)
ChildExit(p) ==
  /\ child[p] = "running"
  /\ ChildMayExitEarly \/ initialized
  /\ child' = [child EXCEPT ![p] = "zombie"]
  /\ \E st \in IF killed[p] THEN {SignalStatus(SIGKILL)}
                           ELSE {ExitStatus(c) : c \in ExitCodes} :
        wstatus' = [wstatus EXCEPT ![p] = st]
  /\ sigPending' = (sigPending \/ sigInstalled)
  /\ UNCHANGED <<pstate, ppid, pstatus, killed, sigPipe, sigInstalled, initialized, mpc,
                 forkPid, numUpdated>>

(* handleSIGCHLD: write one byte to sigchldPipe[1].  Pending SIGCHLDs      *)
(* coalesce into one delivery.  The write end is blocking, so on a full   *)
(* pipe the handler, and with it the program's only thread, blocks: only  *)
(* that thread ever reads the pipe.                                        *)
handleSIGCHLD ==
  /\ sigPending
  /\ sigPending' = FALSE
  /\ IF sigPipe < PipeCapacity
       THEN sigPipe' = sigPipe + 1 /\ UNCHANGED mpc
       ELSE mpc' = "sigwrite" /\ UNCHANGED sigPipe
  /\ UNCHANGED <<pstate, ppid, pstatus, child, killed, wstatus, sigInstalled,
                 initialized, forkPid, numUpdated>>

(* xpproc_kill: the `pid <= 0' branch returns an error and changes nothing. *)
xpproc_kill(h) ==
  /\ mpc = "idle"
  /\ pstate[h] = "live"
  /\ ppid[h] > 0
  /\ SendKill(ppid[h])
  /\ UNCHANGED <<pstate, ppid, pstatus, child, wstatus, sigPending, sigPipe,
                 sigInstalled, initialized, mpc, forkPid, numUpdated>>

(* xpproc_dtor: unlink from gpHeadProc; SIGKILL a PID that is not 0.       *)
xpproc_dtor(h) ==
  /\ mpc = "idle"
  /\ pstate[h] = "live"
  /\ pstate' = [pstate EXCEPT ![h] = "gone"]
  /\ IF ppid[h] # 0
       THEN SendKill(ppid[h]) /\ ppid' = [ppid EXCEPT ![h] = 0]
       ELSE UNCHANGED <<killed, ppid>>
  /\ UNCHANGED <<pstatus, child, wstatus, sigPending, sigPipe, sigInstalled,
                 initialized, mpc, forkPid, numUpdated>>

(* xpproc_reap, first loop: drain sigchldPipe[0]; with no byte read,       *)
(* return 0 at once.                                                       *)
ReapDrain ==
  /\ mpc = "reap"
  /\ numUpdated' = 0
  /\ sigPipe' = 0
  /\ mpc' = IF sigPipe > 0 THEN "waitpid" ELSE "reaped"
  /\ UNCHANGED <<pstate, ppid, pstatus, child, killed, wstatus, sigPending,
                 sigInstalled, initialized, forkPid>>

(* Variants of the waitpid loop with a plausible slip: one that stops      *)
(* after the first reaped child (`if' for `while'), one that stores the     *)
(* status but leaves pid set.                                              *)
ReapWaitpidOnce ==
  /\ mpc = "waitpid"
  /\ \/ \E p \in Zombies :
           LET holders == {h \in LiveProcs : ppid[h] = p} IN
           /\ child' = [child EXCEPT ![p] = "free"]
           /\ killed' = [killed EXCEPT ![p] = FALSE]
           /\ wstatus' = [wstatus EXCEPT ![p] = 0]
           /\ IF holders = {}
                THEN UNCHANGED <<ppid, pstatus, numUpdated>>
                ELSE LET h == CHOOSE x \in holders : TRUE IN
                     /\ ppid' = [ppid EXCEPT ![h] = 0]
                     /\ pstatus' = [pstatus EXCEPT ![h] = wstatus[p]]
                     /\ numUpdated' = numUpdated + 1
           /\ mpc' = "reaped"
     \/ /\ Zombies = {}
        /\ mpc' = "reaped"
        /\ UNCHANGED <<child, killed, wstatus, ppid, pstatus, numUpdated>>
  /\ UNCHANGED <<pstate, sigPending, sigPipe, sigInstalled, initialized,
                 forkPid>>

ReapWaitpidKeepPid ==
  /\ mpc = "waitpid"
  /\ \/ \E p \in Zombies :
           LET holders == {h \in LiveProcs : ppid[h] = p} IN
           /\ child' = [child EXCEPT ![p] = "free"]
           /\ killed' = [killed EXCEPT ![p] = FALSE]
           /\ wstatus' = [wstatus EXCEPT ![p] = 0]
           /\ IF holders = {}
                THEN UNCHANGED <<pstatus, numUpdated>>
                ELSE LET h == CHOOSE x \in holders : TRUE IN
                     /\ pstatus' = [pstatus EXCEPT ![h] = wstatus[p]]
                     /\ numUpdated' = numUpdated + 1
           /\ UNCHANGED <<mpc, ppid>>
     \/ /\ Zombies = {}
        /\ mpc' = "reaped"
        /\ UNCHANGED <<child, killed, wstatus, ppid, pstatus, numUpdated>>
  /\ UNCHANGED <<pstate, sigPending, sigPipe, sigInstalled, initialized,
                 forkPid>>

(* xpproc_reap, second loop: one waitpid(-1, WNOHANG) per step.  A reaped  *)
(* PID is matched against the live XPProc list (at most one live handle    *)
(* holds it); a PID nobody holds any more is reaped all the same.  The     *)
(* loop ends when waitpid returns 0 (or -1, ECHILD).                       *)
ReapWaitpid ==
  /\ mpc = "waitpid"
  /\ \/ \E p \in Zombies :
           LET holders == {h \in LiveProcs : ppid[h] = p} IN
           /\ child' = [child EXCEPT ![p] = "free"]
           /\ killed' = [killed EXCEPT ![p] = FALSE]
           /\ wstatus' = [wstatus EXCEPT ![p] = 0]
           /\ IF holders = {}
                THEN UNCHANGED <<ppid, pstatus, numUpdated>>
                ELSE LET h == CHOOSE x \in holders : TRUE IN
                     /\ ppid' = [ppid EXCEPT ![h] = 0]
                     /\ pstatus' = [pstatus EXCEPT ![h] = wstatus[p]]
                     /\ numUpdated' = numUpdated + 1
           /\ UNCHANGED mpc
     \/ /\ Zombies = {}
        /\ mpc' = "reaped"
        /\ UNCHANGED <<child, killed, wstatus, ppid, pstatus, numUpdated>>
  /\ UNCHANGED <<pstate, sigPending, sigPipe, sigInstalled, initialized,
                 forkPid>>

ProcTypeOK ==
  /\ pstate \in [ProcIds -> {"unborn", "live", "gone"}]
  /\ ppid \in [ProcIds -> Pids \cup {0, -1}]
  /\ pstatus \in [ProcIds -> Statuses \cup {0}]
  /\ child \in [Pids -> {"free", "running", "zombie"}]
  /\ killed \in [Pids -> BOOLEAN]
  /\ wstatus \in [Pids -> Statuses \cup {0}]
  /\ sigPending \in BOOLEAN
  /\ sigPipe \in 0..PipeCapacity
  /\ sigInstalled \in BOOLEAN
  /\ initialized \in BOOLEAN
  /\ mpc \in Locations
  /\ forkPid \in Pids \cup {0, -1}
  /\ numUpdated \in 0..Cardinality(ProcIds)
=============================================================================
