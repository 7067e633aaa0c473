------------------------------ MODULE Scheduler ------------------------------
(* What dispatch.c promises: processes wait on one queue per priority and    *)
(* the CPU goes to the successor of the active process at the highest level, *)
(* or to the head of that level when the CPU comes from another one.         *)
(* No pointers, no bit mask: this is the specification Dispatch implements.  *)
EXTENDS ReadyQueue

CONSTANTS
  Boot,      \* the process that runs kernel_main; it never blocks
  Notifier   \* the processes that an interrupt may make ready

VARIABLES
  rq,          \* the ready queues
  active_proc, \* the process that holds the CPU
  exited       \* processes that took themselves off the queue for good

vars == <<rq, active_proc, exited>>

Init ==
  /\ rq = Enqueue(EmptyQueues, Boot)
  /\ active_proc = Boot
  /\ exited = {}

\* A process off the queue becomes ready, and the CPU stays where it is.
Wake(p) ==
  /\ active_proc \notin exited
  /\ p \notin Queued(rq) \cup exited
  /\ rq' = Enqueue(rq, p)
  /\ UNCHANGED <<active_proc, exited>>

\* A process becomes ready and the CPU is given away.
WakeAndResign(p) ==
  /\ active_proc \in exited => p \in Notifier
  /\ p \notin Queued(rq) \cup exited
  /\ rq' = Enqueue(rq, p)
  /\ active_proc' = Elect(rq', active_proc)
  /\ UNCHANGED exited

\* The active process makes another one ready and leaves the queue.
HandOver(p) ==
  /\ active_proc \notin exited \cup {Boot}
  /\ p \notin Queued(rq) \cup exited
  /\ rq' = Dequeue(Enqueue(rq, p), active_proc)
  /\ active_proc' = Elect(rq', active_proc)
  /\ UNCHANGED exited

\* The active process leaves the queue.
Block ==
  /\ active_proc \notin exited \cup {Boot}
  /\ rq' = Dequeue(rq, active_proc)
  /\ active_proc' = Elect(rq', active_proc)
  /\ UNCHANGED exited

\* The CPU is given away: resign(), or an interrupt that makes nobody ready.
Resign ==
  /\ active_proc' = Elect(rq, active_proc)
  /\ UNCHANGED <<rq, exited>>

\* The active process leaves for good but keeps the CPU until it resigns.
Exit ==
  /\ active_proc \notin exited \cup Notifier \cup {Boot}
  /\ rq' = Dequeue(rq, active_proc)
  /\ exited' = exited \cup {active_proc}
  /\ UNCHANGED active_proc

Next ==
  \/ \E p \in Proc : Wake(p) \/ WakeAndResign(p) \/ HandOver(p)
  \/ Block
  \/ Resign
  \/ Exit

Spec == Init /\ [][Next]_vars
=============================================================================
