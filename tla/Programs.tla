------------------------------- MODULE Programs -------------------------------
(* The kernel under the most general programs that keep to its conventions:  *)
(* a port is used once its owner exists and opened or closed by its owner    *)
(* only, and a process answers only requests that it has received.           *)
EXTENDS Kernel

CONSTANT Casts    \* the systems to look at

\* What the processes of a system do, and the devices that interrupt it:
\* clients call send() and message(), servers receive() and reply(), handlers
\* wait_for_interrupt().
Cast == [clients : SUBSET Proc, servers : SUBSET Proc, handlers : SUBSET Proc,
         irqs : SUBSET Irq]

ASSUME ProgramAssumption ==
  /\ Casts \subseteq Cast
  /\ \A k \in Casts : Boot \notin k.clients \cup k.servers \cup k.handlers

VARIABLE cast

Exists(o) == owner[o] \in cast.servers /\ resume[owner[o]] # "new"

Next ==
  /\ UNCHANGED cast
  /\ \/ \E p \in cast.clients \cup cast.servers \cup cast.handlers : create_process(Boot, p)
     \/ \E p \in cast.clients, o \in Port :
          /\ Exists(o)
          /\ \/ \E y \in Request : send(p, o, y)
             \/ \E y \in Note : message(p, o, y)
     \/ \E p \in cast.servers :
          \/ receive_pending(p)
          \/ receive_wait(p)
          \/ receive_resume(p)
          \/ \E q \in owed[p] : reply(p, q)
          \/ \E o \in Members(ports[p]) : open_port(p, o) \/ close_port(p, o)
     \/ \E p \in cast.handlers :
          \/ \E x \in cast.irqs : wait_for_interrupt(p, x)
          \/ wait_resume(p)
     \/ \E p \in Proc : resign(p)
     \/ \E x \in cast.irqs : interrupt(x)
     \/ halt

CastInit == Init /\ cast \in Casts

Spec == CastInit /\ [][Next]_<<vars, cast>>

-------------------------------------------------------------------------------
(* Refinement: with the scheduler and the PCB fields out of sight, the kernel *)
(* behaves as Rendezvous.  An item handed to a waiting receiver counts as     *)
(* received at once, so that nothing may overwrite it before the receiver     *)
(* runs.                                                                      *)

HandedTo(q) == resume[q] = "receive" /\ state[q] = "READY"

Posted == [o \in Port |-> [k \in 1 .. Len(blocked[o]) |->
             [sender |-> blocked[o][k], data |-> param_data[blocked[o][k]]]]]

Listening == {q \in Proc : state[q] = "RECEIVE_BLOCKED"}

Reached == [q \in Proc |-> IF HandedTo(q)
              THEN [sender |-> param_proc[q], data |-> param_data[q]] ELSE got[q]]

Debts == [q \in Proc |-> IF HandedTo(q) /\ param_data[q] \in Request
            THEN owed[q] \cup {param_proc[q]} ELSE owed[q]]

Contract == INSTANCE Rendezvous WITH
  pending <- Posted, listening <- Listening, got <- Reached, owed <- Debts

\* Every message and request reaches the owner of its port once, unchanged and
\* in the order of posting, and a request holds its sender until the answer:
\* the two-step receive() and the param_proc and param_data fields of the PCBs
\* implement the rendezvous.
ImplementsRendezvous == Contract!Spec

-------------------------------------------------------------------------------
(* Liveness: the timer keeps interrupting whoever has interrupts enabled.    *)

Ticking == Spec /\ \A x \in Irq : WF_vars(isr[x] = "timer" /\ x \in cast.irqs /\ interrupt(x))

Topmost(p) == \A q \in Proc \ {p} : priority[q] < priority[p]

\* A process of the highest priority that is made ready gets the CPU, even
\* though receive() and create_process do not resign when they make it ready.
UrgentRuns ==
  \A p \in Proc : Topmost(p) =>
    (p \in Queued(rq) /\ fault = "none") ~> (active_proc = p \/ fault # "none")
===============================================================================
