----------------------------- MODULE ReadyQueue -----------------------------
(* The ready queues of dispatch.c as they are meant to be read: one queue   *)
(* per priority level, a sequence whose head is the process ready_queue[i]  *)
(* points to and whose order is the order of the next pointers.  These are  *)
(* the operators that the models of the kernel are built on; module         *)
(* Dispatch shows that the circular lists of dispatch.c implement them.     *)
EXTENDS Integers, Sequences

CONSTANTS
  Proc,              \* the process control blocks, kernel.h: pcb[]
  MAX_READY_QUEUES,  \* number of priority levels, 8 in kernel.h
  priority           \* pcb->priority: written once, by create_process

Prio == 0 .. MAX_READY_QUEUES - 1

ASSUME PriorityAssumption ==
  /\ MAX_READY_QUEUES \in Nat \ {0}
  /\ priority \in [Proc -> Prio]

Queues == [Prio -> Seq(Proc)]

EmptyQueues == [i \in Prio |-> << >>]

Members(s) == {s[k] : k \in 1 .. Len(s)}

NoRepeats(s) == \A j, k \in 1 .. Len(s) : s[j] = s[k] => j = k

Queued(rq) == {p \in Proc : p \in Members(rq[priority[p]])}

Position(s, p) == CHOOSE k \in 1 .. Len(s) : s[k] = p

\* s without its k-th element, turned so that the successor is the head.
TurnOut(s, k) ==
  [j \in 1 .. Len(s) - 1 |-> IF k + j <= Len(s) THEN s[k + j]
                                                ELSE s[k + j - Len(s)]]

Successor(s, k) == IF k = Len(s) THEN s[1] ELSE s[k + 1]

Enqueue(rq, p) == [rq EXCEPT ![priority[p]] = Append(@, p)]

Dequeue(rq, p) ==
  [rq EXCEPT ![priority[p]] = TurnOut(@, Position(@, p))]

Levels(rq) == {i \in Prio : rq[i] # << >>}

Highest(S) == CHOOSE i \in S : \A j \in S : j <= i

(* The process dispatcher() elects when a is active_proc: the successor of  *)
(* a if a is queued at the highest level, else the head of that level.      *)
Elect(rq, a) ==
  LET i == Highest(Levels(rq))
      s == rq[i]
  IN  IF priority[a] = i /\ a \in Members(s)
      THEN Successor(s, Position(s, a))
      ELSE s[1]
=============================================================================
