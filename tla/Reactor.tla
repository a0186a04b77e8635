------------------------------- MODULE Reactor ------------------------------
(***************************************************************************)
(* What the reactor promises the host about its tasks (spec sec. 2, 4.6    *)
(* and 8), with sockets, processes, descriptors and poll() left out.  A    *)
(* running task enlists for one event (when_read, when_write, when_wait)   *)
(* and then suspends; a wait on queue q resumes only tasks of q that are   *)
(* enlisted, each at most once, and only once it returns; cancelling      *)
(* (task._dequeue) withdraws a task and resumes it.  The host runs tasks   *)
(* one at a time and calls wait only when none runs.  Which events occur   *)
(* is left open: a wait may resume any enlisted tasks of its queue.        *)
(***************************************************************************)
CONSTANTS
  Tasks,    \* the host's tasks
  Queues,   \* the queues
  QueueOf,  \* task -> the queue it enlists on
  NoQueue   \* `current' outside a wait

VARIABLES
  phase,     \* task -> "running" | "suspended" | "done"
  enlisted,  \* tasks waiting for an event
  woken,     \* tasks the wait in progress will resume
  current    \* the queue being waited on, or NoQueue

rvars == <<phase, enlisted, woken, current>>

InWait == current # NoQueue
Runnable == {t \in Tasks : phase[t] = "running"}

Init ==
  /\ phase = [t \in Tasks |-> "running"]
  /\ enlisted = {}
  /\ woken = {}
  /\ current = NoQueue

(* A running task enlists for an event; it then suspends or cancels. *)
Enlist(t) ==
  /\ ~InWait /\ t \in Runnable /\ t \notin enlisted
  /\ enlisted' = enlisted \cup {t}
  /\ UNCHANGED <<phase, woken, current>>

Suspend(t) ==
  /\ ~InWait /\ t \in Runnable /\ t \in enlisted
  /\ phase' = [phase EXCEPT ![t] = "suspended"]
  /\ UNCHANGED <<enlisted, woken, current>>

Finish(t) ==
  /\ ~InWait /\ t \in Runnable /\ t \notin enlisted
  /\ phase' = [phase EXCEPT ![t] = "done"]
  /\ UNCHANGED <<enlisted, woken, current>>

(* A running task cancels t's wait: t leaves the queue and runs again. *)
Cancel(t) ==
  /\ ~InWait /\ Runnable # {} /\ t \in enlisted
  /\ enlisted' = enlisted \ {t}
  /\ phase' = [phase EXCEPT ![t] = "running"]
  /\ UNCHANGED <<woken, current>>

(* Tasks of the queue being waited on whose event occurred. *)
Eligible(S, q) == S \subseteq {t \in enlisted : QueueOf[t] = q}

(* The host waits on q with no task running, possibly waking some at once. *)
StartWait(q, S) ==
  /\ ~InWait /\ Runnable = {}
  /\ Eligible(S, q)
  /\ current' = q
  /\ woken' = S
  /\ enlisted' = enlisted \ S
  /\ UNCHANGED phase

Wake(S) ==
  /\ InWait /\ Eligible(S, current)
  /\ woken' = woken \cup S
  /\ enlisted' = enlisted \ S
  /\ UNCHANGED <<phase, current>>

(* wait returns, waking S last: every woken task runs again. *)
EndWait(S) ==
  /\ InWait /\ Eligible(S, current)
  /\ phase' = [t \in Tasks |-> IF t \in woken \cup S THEN "running" ELSE phase[t]]
  /\ enlisted' = enlisted \ S
  /\ woken' = {}
  /\ current' = NoQueue

Next ==
  \/ \E t \in Tasks : Enlist(t) \/ Suspend(t) \/ Finish(t) \/ Cancel(t)
  \/ \E q \in Queues, S \in SUBSET Tasks : StartWait(q, S)
  \/ \E S \in SUBSET Tasks : Wake(S) \/ EndWait(S)

Spec == Init /\ [][Next]_rvars
=============================================================================
