------------------------------ MODULE MCXPQueue -----------------------------
(* Instantiates XPQueue for TLC: one or two tasks and queues; two spawns   *)
(* and two PIDs (so a reaped PID is handed out again) for the process     *)
(* runs; two sockets over a few descriptor numbers for the socket runs.   *)
EXTENDS XPQueue

CONSTANTS t1, t2, q1, q2

MCTasks == {t1, t2}
OneTask == {t1}
OneQueue == {q1}
TwoQueues == {q1, q2}
AllOnQ1 == [t \in Tasks |-> q1]
OnePerQueue == [t \in Tasks |-> IF t = t1 THEN q1 ELSE q2]
MCPids == {1, 2}
MCOnePid == {1}
MCExitCodes == {0}
NoPids == {}
NoFdActions == {<<>>}
(* _spawn with one fdActions entry {to, from} or none, over descriptors 0  *)
(* and 1 (from = -1 is nil).                                               *)
OneFdAction == {<<>>} \cup {<<<<to, from>>>> : to \in {0, 1}, from \in {-1, 0, 1}}
(* wait(nil), wait(0.0005) (under a millisecond: 0) and wait(math.huge)   *)
(* (clamped to INT_MAX).                                                   *)
MCTimeoutArgs == {[kind |-> "nil", us |-> 0], [kind |-> "number", us |-> 500],
                  [kind |-> "inf", us |-> 0]}
WaitNilOrZero == {[kind |-> "nil", us |-> 0], [kind |-> "number", us |-> 0]}
(* RLIMIT_NOFILE as on a system with an unlimited hard limit: the soft    *)
(* limit, one past the highest descriptor number, bounds _nextfd.          *)
MCRLimit == [cur |-> 3, max |-> RLIM_INFINITY]
=============================================================================
