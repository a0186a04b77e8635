------------------------------ MODULE XPSocket ------------------------------
(***************************************************************************)
(* The XPSocket userdata of src/luau/xpio_c.c and the kernel's descriptor  *)
(* table under it.  An XPSocket holds one int, `s': a descriptor or -1.    *)
(* The constructors (xpio.socket, xpio.pipe, xpio.socketpair, xpio.fdopen, *)
(* sock:try_accept) first make the object with s = -1 and then ask the     *)
(* kernel for a descriptor; on failure they return nil, err and the object *)
(* is unreachable garbage that only the collector (__gc) still sees.       *)
(*                                                                         *)
(* The kernel hands out the lowest free descriptor number (POSIX).         *)
(* Descriptors open at start and owned by no socket (stdin, stdout, ...)   *)
(* are StdFds.  Reads, writes, connect, bind, listen and the SO_* / TCP_* *)
(* socket options change no state the model keeps: they act on the peer   *)
(* or on the kernel's socket, whose readiness poll() reports               *)
(* nondeterministically.  The option O_NONBLOCK does (xpsocket_setsockopt).*)
(*                                                                         *)
(* O_NONBLOCK is a flag of the open file description, which dup(), dup2() *)
(* and fork() share between descriptors.  A description is named by the   *)
(* socket whose constructor opened it, or by the inherited descriptor.     *)
(***************************************************************************)
EXTENDS Integers, Sequences, FiniteSets

CONSTANTS
  Sockets,  \* XPSocket objects the constructors may create
  FdNums,   \* descriptor numbers the kernel may hand out
  StdFds,   \* descriptors open when the program starts
  RLimNoFile \* getrlimit(RLIMIT_NOFILE): [cur |-> .., max |-> ..]

ASSUME FdNums \subseteq Nat /\ StdFds \subseteq FdNums
(* An rlim_t (unsigned 64-bit) is kept as the int its low 32 bits read   *)
(* as, which is what `int fdMax = rlim - 1' keeps of it: RLIM_INFINITY,    *)
(* all ones, is -1; finite limits here are below 2^31.                     *)
RLIM_INFINITY == -1
ASSUME RLimNoFile \in [cur : Nat \cup {RLIM_INFINITY}, max : Nat \cup {RLIM_INFINITY}]

VARIABLES
  sstate,   \* socket -> "unborn" | "live" (the host holds it) |
            \*           "garbage" (a failed constructor's object) | "gone"
  sfd,      \* XPSocket.s
  fdOpen,   \* kernel: descriptor number -> open
  fdDesc,   \* kernel: descriptor number -> its open file description
  nonblock  \* kernel: description -> O_NONBLOCK set

sockVars == <<sstate, sfd, fdOpen, fdDesc, nonblock>>

Descs == Sockets \cup StdFds

FreeFds == {fd \in FdNums : ~fdOpen[fd]}
LowestFree == CHOOSE fd \in FreeFds : \A g \in FreeFds : fd <= g
HostSockets == {s \in Sockets : sstate[s] = "live"}

SockInit ==
  /\ sstate = [s \in Sockets |-> "unborn"]
  /\ sfd = [s \in Sockets |-> -1]
  /\ fdOpen = [fd \in FdNums |-> fd \in StdFds]
  /\ fdDesc = [fd \in FdNums |-> IF fd \in StdFds THEN fd ELSE -1]
  /\ \E inherited \in [StdFds -> BOOLEAN] :
       nonblock = [d \in Descs |-> d \in StdFds /\ inherited[d]]

-----------------------------------------------------------------------------
(* xpsocket_new: a new object with s = -1. *)
xpsocket_new(s) == sstate[s] = "unborn"

(* The constructor's kernel call gave descriptor LowestFree, on a new      *)
(* description that setNonBlocking(fd, 1) marks O_NONBLOCK: the object is  *)
(* returned to the host holding it.                                        *)
GotFd(s) ==
  /\ sstate' = [sstate EXCEPT ![s] = "live"]
  /\ sfd' = [sfd EXCEPT ![s] = LowestFree]
  /\ fdOpen' = [fdOpen EXCEPT ![LowestFree] = TRUE]
  /\ fdDesc' = [fdDesc EXCEPT ![LowestFree] = s]
  /\ nonblock' = [nonblock EXCEPT ![s] = TRUE]

(* The constructor returned nil, err: the object, s = -1, is garbage. *)
Failed(s) ==
  /\ sstate' = [sstate EXCEPT ![s] = "garbage"]
  /\ UNCHANGED <<sfd, fdOpen, fdDesc, nonblock>>

(* xpio.socket(typeName): a type other than TCP/UDP returns an error       *)
(* before socket(); socket() fails (EMFILE) when no descriptor is free.    *)
xpio_socket(s) ==
  /\ xpsocket_new(s)
  /\ \E typeName \in {"TCP", "other"} :
       IF typeName = "TCP" /\ FreeFds # {} THEN GotFd(s) ELSE Failed(s)

(* xpio.fdopen(fd): dup(fd), which fails (EBADF) on a descriptor that is   *)
(* not open, and (EMFILE) when none is free.  The copy shares fd's         *)
(* description, and nothing sets O_NONBLOCK on it.                         *)
xpio_fdopen(s, fd) ==
  /\ xpsocket_new(s)
  /\ IF fdOpen[fd] /\ FreeFds # {}
       THEN /\ sstate' = [sstate EXCEPT ![s] = "live"]
            /\ sfd' = [sfd EXCEPT ![s] = LowestFree]
            /\ fdOpen' = [fdOpen EXCEPT ![LowestFree] = TRUE]
            /\ fdDesc' = [fdDesc EXCEPT ![LowestFree] = fdDesc[fd]]
            /\ UNCHANGED nonblock
       ELSE Failed(s)

(* xpio_pair (pipe / socketpair): two objects, then two descriptors on two *)
(* descriptions, the lower for the first, both set O_NONBLOCK; both        *)
(* objects are lost when the call fails.                                   *)
xpio_pair(a, b) ==
  /\ a # b
  /\ xpsocket_new(a) /\ xpsocket_new(b)
  /\ IF Cardinality(FreeFds) >= 2
       THEN LET fa == LowestFree
                fb == CHOOSE fd \in FreeFds \ {fa} :
                        \A g \in FreeFds \ {fa} : fd <= g
            IN /\ sstate' = [sstate EXCEPT ![a] = "live", ![b] = "live"]
               /\ sfd' = [sfd EXCEPT ![a] = fa, ![b] = fb]
               /\ fdOpen' = [fdOpen EXCEPT ![fa] = TRUE, ![fb] = TRUE]
               /\ fdDesc' = [fdDesc EXCEPT ![fa] = a, ![fb] = b]
               /\ nonblock' = [nonblock EXCEPT ![a] = TRUE, ![b] = TRUE]
       ELSE /\ sstate' = [sstate EXCEPT ![a] = "garbage", ![b] = "garbage"]
            /\ UNCHANGED <<sfd, fdOpen, fdDesc, nonblock>>

(* sock:try_accept(): accept(me->s) on the listening socket l, then        *)
(* setNonBlocking on the new descriptor.  accept() fails with "retry" when *)
(* no connection is pending and with EBADF on s = -1.                      *)
xpsocket_try_accept(l, s) ==
  /\ sstate[l] = "live"
  /\ xpsocket_new(s)
  /\ \/ sfd[l] >= 0 /\ FreeFds # {} /\ GotFd(s)
     \/ Failed(s)

(* The whitelist opts[] that findSockOpt searches; a name not in it gets  *)
(* nil, "unknown socket option".  O_NONBLOCK is category SOCKOPT_NB, the   *)
(* others SOCKOPT_SO (setsockopt() on the kernel's socket).                *)
SockOptNames == {"TCP_NODELAY", "SO_KEEPALIVE", "SO_REUSEADDR",
                 "SO_RCVBUF", "SO_SNDBUF", "O_NONBLOCK"}

(* setNonBlocking(fd, bOn): fcntl_mod_FL reads the description's flags    *)
(* and writes them back with O_NONBLOCK added or removed; F_GETFL fails    *)
(* (EBADF) on a descriptor that is not open, and then nothing changes.     *)
setNonBlocking(fd, bOn) ==
  /\ fd # -1 /\ fdOpen[fd]
  /\ nonblock' = [nonblock EXCEPT ![fdDesc[fd]] = bOn]

(* sock:setsockopt(name, value): only a whitelisted O_NONBLOCK that        *)
(* reaches a successful setNonBlocking(me->s, lua_toboolean(value))        *)
(* changes state; an unknown name, an SO_* option, and s = -1 (EBADF)      *)
(* return without a change.                                                *)
xpsocket_setsockopt(s, name, on) ==
  /\ sstate[s] = "live"
  /\ name \in SockOptNames
  /\ name = "O_NONBLOCK"
  /\ setNonBlocking(sfd[s], on)
  /\ UNCHANGED <<sstate, sfd, fdOpen, fdDesc>>

(* close(fd): the descriptor number is free and refers to nothing; a      *)
(* description no descriptor refers to any more is released, and its flag  *)
(* with it (kept as FALSE).                                                *)
CloseFd(fd) ==
  /\ fdOpen' = [fdOpen EXCEPT ![fd] = FALSE]
  /\ fdDesc' = [fdDesc EXCEPT ![fd] = -1]
  /\ nonblock' = [d \in Descs |-> nonblock[d] /\
                                  \E g \in FdNums \ {fd} : fdDesc[g] = d]

(* Variant of xpsocket_close that closes the descriptor but leaves s set. *)
xpsocket_close_keepFd(s) ==
  /\ sstate[s] = "live"
  /\ sfd[s] # -1
  /\ CloseFd(sfd[s])
  /\ UNCHANGED <<sfd, sstate>>

(* sock:close(): close s unless it is -1 ("already closed", no change).  *)
xpsocket_close(s) ==
  /\ sstate[s] = "live"
  /\ sfd[s] # -1
  /\ CloseFd(sfd[s])
  /\ sfd' = [sfd EXCEPT ![s] = -1]
  /\ UNCHANGED sstate

(* __gc (xpsocket_dtor): `if (me->s)' closes and clears any s but 0, so a  *)
(* socket on descriptor 0 keeps it open, and s = -1 goes to close(-1),     *)
(* which fails with EBADF and changes nothing.                             *)
xpsocket_dtor(s) ==
  /\ sstate[s] \in {"live", "garbage"}
  /\ sstate' = [sstate EXCEPT ![s] = "gone"]
  /\ IF sfd[s] # 0
       THEN sfd' = [sfd EXCEPT ![s] = -1]
       ELSE UNCHANGED sfd
  /\ IF sfd[s] > 0
       THEN CloseFd(sfd[s])
       ELSE UNCHANGED <<fdOpen, fdDesc, nonblock>>

(* The child side of xpio__spawn: xpio_getAction reads entries {to, from} *)
(* until one is not a table or has no `to'.  {A, B} with B # A is         *)
(* dup2(B, A), which fails (EBADF) on a closed B; {A, A} leaves A; either  *)
(* then clears O_NONBLOCK on A's description, which fails on a closed A;  *)
(* {A, nil} is close(A).  tbl is the child's descriptor table (a copy of   *)
(* the parent's at fork); the result is the table after the actions and    *)
(* the descriptions whose O_NONBLOCK the child cleared.                    *)
RECURSIVE ApplyFdActions(_, _, _)
ApplyFdActions(tbl, acts, cleared) ==
  IF acts = <<>> \/ Head(acts)[1] = -1
    THEN <<tbl, cleared>>
    ELSE LET to == Head(acts)[1]
             from == Head(acts)[2]
             after == IF from < 0 THEN [tbl EXCEPT ![to] = -1]
                      ELSE IF from # to /\ tbl[from] # -1
                             THEN [tbl EXCEPT ![to] = tbl[from]]
                             ELSE tbl
         IN ApplyFdActions(after, Tail(acts),
                           IF from >= 0 /\ after[to] # -1
                             THEN cleared \cup {after[to]} ELSE cleared)

(* int fdMax = rlim - 1, with rlim kept as above: RLIM_INFINITY gives -2. *)
RlimToFdMax(r) == r - 1

(* Variant of NextFdMax without the fallback to rlim_cur. *)
NextFdMax_noFallback == RlimToFdMax(RLimNoFile.max)

(* xpio__nextfd's bound: rlim_max - 1, or rlim_cur - 1 when that is         *)
(* negative ("rlim_max is negative in OSX").                               *)
NextFdMax ==
  IF RlimToFdMax(RLimNoFile.max) >= 0 THEN RlimToFdMax(RLimNoFile.max)
  ELSE RlimToFdMax(RLimNoFile.cur)

(* xpio._nextfd(_, prev): the first fd from prev + 1 to fdMax for which    *)
(* fcntl(F_GETFD) succeeds (the descriptor is open) without FD_CLOEXEC, as *)
(* <<fd>>, or <<>> for nil.  Nothing in the program sets FD_CLOEXEC, and   *)
(* inherited descriptors have it clear, having survived exec.             *)
xpio__nextfd(prev) ==
  LET found == {fd \in FdNums : prev + 1 <= fd /\ fd <= NextFdMax /\ fdOpen[fd]}
  IN IF found = {} THEN <<>> ELSE <<CHOOSE fd \in found : \A g \in found : fd <= g>>

(* The loop the host writes with it: for fd in xpio._nextfd do ... end. *)
RECURSIVE NextFdWalk(_)
NextFdWalk(prev) ==
  LET r == xpio__nextfd(prev)
  IN IF r = <<>> THEN <<>> ELSE r \o NextFdWalk(r[1])

SockTypeOK ==
  /\ sstate \in [Sockets -> {"unborn", "live", "garbage", "gone"}]
  /\ sfd \in [Sockets -> FdNums \cup {-1}]
  /\ fdOpen \in [FdNums -> BOOLEAN]
  /\ fdDesc \in [FdNums -> Descs \cup {-1}]
  /\ nonblock \in [Descs -> BOOLEAN]

(* Objects that still exist: the host's and the collector's. *)
Existing == {s \in Sockets : sstate[s] \in {"live", "garbage"}}

(* Spec sec. 3 and 5: a Socket owns its descriptor exclusively.  A       *)
(* socket's s, when not -1, is an open descriptor that no other socket and *)
(* none of the program's inherited descriptors hold, so close and __gc     *)
(* never close a descriptor that was handed out again since (close and     *)
(* xpsocket_dtor reset s; dup in fdopen gives the socket its own copy).    *)
SocketOwnsFd ==
  \A s \in Existing :
    sfd[s] # -1 =>
      /\ fdOpen[sfd[s]]
      /\ sfd[s] \notin StdFds
      /\ \A r \in Existing \ {s} : sfd[r] # sfd[s]

(* Spec sec. 3: while a Socket holds a descriptor, that descriptor is      *)
(* non-blocking, so read/write/accept/connect never block the reactor;     *)
(* sec. 9 counts on fdopen's dup() to keep callers from clearing it.  But  *)
(* O_NONBLOCK belongs to the description, which fdopen's dup() and a       *)
(* spawned child's inherited copies share (xpio_fdopen, xpio__spawn).      *)
SocketNonBlocking ==
  \A s \in HostSockets : sfd[s] # -1 => nonblock[fdDesc[sfd[s]]]

(* Spec sec. 6 catalog: _nextfd iterates the open non-CLOEXEC descriptors  *)
(* up to RLIMIT_NOFILE.  Walking it from nil lists every open descriptor  *)
(* once, in increasing order, also when rlim_max is RLIM_INFINITY and its  *)
(* truncation to int sends xpio__nextfd to rlim_cur.                       *)
NextFdListsOpenFds ==
  LET w == NextFdWalk(-1)
  IN /\ {w[i] : i \in DOMAIN w} = {fd \in FdNums : fdOpen[fd]}
     /\ \A i \in 1..Len(w) - 1 : w[i] < w[i + 1]
=============================================================================
