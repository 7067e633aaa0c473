-------------------------------- MODULE Kernel --------------------------------
(* ipc.c and the part of intr.c that switches processes: send, message,      *)
(* receive, reply, open_port, close_port, wait_for_interrupt and the ISRs,   *)
(* on the ready queues of ReadyQueue.  Each call disables interrupts from    *)
(* its first line to resign(), so each is one step; receive() and            *)
(* wait_for_interrupt() have a second step after their resign() returns.     *)
(* The actions say nothing of where a program calls them: Programs lets      *)
(* processes call anything at any time, and the modules of the services      *)
(* conjoin the actions with a program counter.                               *)
EXTENDS ReadyQueue, FiniteSets

CONSTANTS
  NULL,
  Boot,      \* the process that runs kernel_main; it calls none of these
  Port,      \* the ports in use
  owner,     \* port->owner
  ports,     \* the list proc->first_port, newest port first
  Request,   \* payloads of send(): the sender wants a reply
  Note,      \* payloads of message(): the sender does not
  Irq,       \* interrupt numbers with an ISR that wakes a process
  isr        \* which of the ISRs of intr.c serves an interrupt

ASSUME KernelAssumption ==
  /\ Boot \in Proc
  /\ NULL \notin Proc \cup Request \cup Note
  /\ owner \in [Port -> Proc]
  /\ ports \in [Proc -> Seq(Port)]
  /\ \A p \in Proc : \A o \in Port : o \in Members(ports[p]) <=> owner[o] = p
  /\ Request \cap Note = {}
  /\ isr \in [Irq -> {"timer", "com1", "keyb", "ne2k"}]
  /\ Irq \cap {"user", "receive", "new"} = {}

VARIABLES
  rq,              \* the ready queues
  active_proc,     \* the process that holds the CPU
  state,           \* proc->state
  param_proc,      \* proc->param_proc
  param_data,      \* proc->param_data
  open,            \* port->open
  blocked,         \* port->blocked_list_head ... blocked_list_tail
  interrupt_table, \* the process that waits for an interrupt
  resume,          \* where a process continues when it gets the CPU:
                   \* "user", in receive(), or in wait_for_interrupt() for
                   \* an element of Irq; "new" if it does not exist yet
  got,             \* what a process's last receive() returned
  owed,            \* the senders a process has received from and not answered
  fault            \* the panic() or assertion that stopped the system

vars == <<rq, active_proc, state, param_proc, param_data, open, blocked,
          interrupt_table, resume, got, owed, fault>>

Data == Request \cup Note

States == {"READY", "SEND_BLOCKED", "REPLY_BLOCKED", "RECEIVE_BLOCKED",
           "MESSAGE_BLOCKED", "INTR_BLOCKED"}

Nothing == [sender |-> NULL, data |-> NULL]

\* The boot process runs; pcb[] is zeroed, so that the state field of a PCB
\* that create_process has not filled in reads STATE_READY.
Init ==
  /\ rq = Enqueue(EmptyQueues, Boot)
  /\ active_proc = Boot
  /\ state = [p \in Proc |-> "READY"]
  /\ param_proc = [p \in Proc |-> NULL]
  /\ param_data = [p \in Proc |-> NULL]
  /\ open = [o \in Port |-> TRUE]
  /\ blocked = [o \in Port |-> << >>]
  /\ interrupt_table = [x \in Irq |-> NULL]
  /\ resume = [p \in Proc |-> IF p = Boot THEN "user" ELSE "new"]
  /\ got = [p \in Proc |-> Nothing]
  /\ owed = [p \in Proc |-> {}]
  /\ fault = "none"

-------------------------------------------------------------------------------
\* The active process runs its own code, with interrupts enabled.
Running(p) == fault = "none" /\ p = active_proc /\ resume[p] = "user"

\* Variant: no preemption.
Switch_cooperative ==
  active_proc' = IF active_proc \in Queued(rq') THEN active_proc
                                                ELSE Elect(rq', active_proc)

\* resign(), or the end of an ISR, once the queues are as they will be.
Switch == active_proc' = Elect(rq', active_proc)

panic(why) ==
  /\ fault' = why
  /\ UNCHANGED <<rq, active_proc, state, param_proc, param_data, open, blocked,
                 interrupt_table, resume, got, owed>>

\* create_process() up to its add_ready_queue; what precedes that call touches
\* only the new PCB and is the subject of module Process.
create_process(p, new) ==
  /\ Running(p)
  /\ resume[new] = "new"
  /\ resume' = [resume EXCEPT ![new] = "user"]
  /\ rq' = Enqueue(rq, new)
  /\ UNCHANGED <<active_proc, state, param_proc, param_data, open, blocked,
                 interrupt_table, got, owed, fault>>

\* Variants: the port or the state of its owner is not looked at.
Receptive_stateless(o) == open[o]
Receptive_closed(o) == state[owner[o]] = "RECEIVE_BLOCKED"

Receptive(o) == open[o] /\ state[owner[o]] = "RECEIVE_BLOCKED"

\* Variant: the head of the list is overwritten.
add_to_send_blocked_list_head(o, p) == blocked' = [blocked EXCEPT ![o] = <<p>>]

add_to_send_blocked_list(o, p) == blocked' = [blocked EXCEPT ![o] = Append(@, p)]

(* send() hands the data to a receiver that waits, or queues the sender.     *)
send(p, o, data) ==
  /\ Running(p)
  /\ \/ /\ Receptive(o)
        /\ param_proc' = [param_proc EXCEPT ![owner[o]] = p]
        /\ param_data' = [param_data EXCEPT ![owner[o]] = data, ![p] = data]
        /\ state' = [state EXCEPT ![p] = "REPLY_BLOCKED", ![owner[o]] = "READY"]
        /\ rq' = Dequeue(Enqueue(rq, owner[o]), p)
        /\ UNCHANGED blocked
     \/ /\ ~Receptive(o)
        /\ add_to_send_blocked_list(o, p)
        /\ state' = [state EXCEPT ![p] = "SEND_BLOCKED"]
        /\ param_data' = [param_data EXCEPT ![p] = data]
        /\ rq' = Dequeue(rq, p)
        /\ UNCHANGED param_proc
  /\ Switch
  /\ UNCHANGED <<open, interrupt_table, resume, got, owed, fault>>

(* message() blocks only when the receiver does not wait.                    *)
message(p, o, data) ==
  /\ Running(p)
  /\ \/ /\ Receptive(o)
        /\ param_proc' = [param_proc EXCEPT ![owner[o]] = p]
        /\ param_data' = [param_data EXCEPT ![owner[o]] = data]
        /\ state' = [state EXCEPT ![owner[o]] = "READY"]
        /\ rq' = Enqueue(rq, owner[o])
        /\ UNCHANGED blocked
     \/ /\ ~Receptive(o)
        /\ add_to_send_blocked_list(o, p)
        /\ rq' = Dequeue(rq, p)
        /\ state' = [state EXCEPT ![p] = "MESSAGE_BLOCKED"]
        /\ param_data' = [param_data EXCEPT ![p] = data]
        /\ UNCHANGED param_proc
  /\ Switch
  /\ UNCHANGED <<open, interrupt_table, resume, got, owed, fault>>

\* Variant: only the newest port is looked at.
Pending_newest(p) == {k \in 1 .. Len(ports[p]) :
                        k = 1 /\ open[ports[p][k]] /\ blocked[ports[p][k]] # << >>}

\* The ports of p that receive() can take from, as positions in ports[p].
Pending(p) == {k \in 1 .. Len(ports[p]) :
                 open[ports[p][k]] /\ blocked[ports[p][k]] # << >>}

FirstPending(p) ==
  ports[p][CHOOSE k \in Pending(p) : \A j \in Pending(p) : k <= j]

\* Variant: the two results are swapped.
Return_swapped(p, x, y) ==
  /\ got' = [got EXCEPT ![p] = [sender |-> y, data |-> x]]
  /\ UNCHANGED owed

\* receive() returns x and y; a request has to be answered.
Return(p, x, y) ==
  /\ got' = [got EXCEPT ![p] = [sender |-> x, data |-> y]]
  /\ owed' = [owed EXCEPT ![p] = IF y \in Request THEN @ \cup {x} ELSE @]

\* Variant: every sender is made ready.
Accept_ready(x) ==
  /\ rq' = Enqueue(rq, x)
  /\ state' = [state EXCEPT ![x] = "READY"]

\* A sender that is received: a message is done, a request awaits its answer.
Accept(x) ==
  \/ /\ state[x] = "MESSAGE_BLOCKED"
     /\ rq' = Enqueue(rq, x)
     /\ state' = [state EXCEPT ![x] = "READY"]
  \/ /\ state[x] = "SEND_BLOCKED"
     /\ state' = [state EXCEPT ![x] = "REPLY_BLOCKED"]
     /\ UNCHANGED rq

(* receive() with a process queued at an open port: no resign().             *)
receive_pending(p) ==
  /\ Running(p)
  /\ Pending(p) # {}
  /\ LET o == FirstPending(p)
         x == Head(blocked[o])
     IN  /\ Return(p, x, param_data[x])
         /\ blocked' = [blocked EXCEPT ![o] = Tail(@)]
         /\ Accept(x)
  /\ UNCHANGED <<active_proc, param_proc, param_data, open, interrupt_table,
                 resume, fault>>

(* receive() with nothing to take.                                           *)
receive_wait(p) ==
  /\ Running(p)
  /\ IF ports[p] = << >>
     THEN panic("receive(): no port created for this process")
     ELSE /\ Pending(p) = {}
          /\ rq' = Dequeue(rq, p)
          /\ param_data' = [param_data EXCEPT ![p] = NULL]
          /\ state' = [state EXCEPT ![p] = "RECEIVE_BLOCKED"]
          /\ resume' = [resume EXCEPT ![p] = "receive"]
          /\ Switch
          /\ UNCHANGED <<param_proc, open, blocked, interrupt_table, got, owed,
                         fault>>

(* receive() after its resign(), interrupts still disabled.                  *)
receive_resume(p) ==
  /\ fault = "none"
  /\ p = active_proc
  /\ resume[p] = "receive"
  /\ Return(p, param_proc[p], param_data[p])
  /\ resume' = [resume EXCEPT ![p] = "user"]
  /\ UNCHANGED <<rq, active_proc, state, param_proc, param_data, open, blocked,
                 interrupt_table, fault>>

(* reply() does not look at who received from sender.                        *)
reply(p, sender) ==
  /\ Running(p)
  /\ IF state[sender] # "REPLY_BLOCKED"
     THEN panic("reply(): Not reply blocked")
     ELSE /\ rq' = Enqueue(rq, sender)
          /\ state' = [state EXCEPT ![sender] = "READY"]
          /\ owed' = [owed EXCEPT ![p] = @ \ {sender}]
          /\ Switch
          /\ UNCHANGED <<param_proc, param_data, open, blocked, interrupt_table,
                         resume, got, fault>>

open_port(p, o) ==
  /\ Running(p)
  /\ open' = [open EXCEPT ![o] = TRUE]
  /\ UNCHANGED <<rq, active_proc, state, param_proc, param_data, blocked,
                 interrupt_table, resume, got, owed, fault>>

close_port(p, o) ==
  /\ Running(p)
  /\ open' = [open EXCEPT ![o] = FALSE]
  /\ UNCHANGED <<rq, active_proc, state, param_proc, param_data, blocked,
                 interrupt_table, resume, got, owed, fault>>

resign(p) ==
  /\ Running(p)
  /\ UNCHANGED <<rq, state, param_proc, param_data, open, blocked,
                 interrupt_table, resume, got, owed, fault>>
  /\ Switch

wait_for_interrupt(p, x) ==
  /\ Running(p)
  /\ IF interrupt_table[x] # NULL
     THEN panic("wait_for_interrupt(): ISR busy")
     ELSE /\ interrupt_table' = [interrupt_table EXCEPT ![x] = p]
          /\ rq' = Dequeue(rq, p)
          /\ state' = [state EXCEPT ![p] = "INTR_BLOCKED"]
          /\ resume' = [resume EXCEPT ![p] = x]
          /\ Switch
          /\ UNCHANGED <<param_proc, param_data, open, blocked, got, owed, fault>>

\* Variant: the slot is not cleared.
wait_resume_uncleared(p) ==
  /\ fault = "none"
  /\ p = active_proc
  /\ resume[p] \in Irq
  /\ resume' = [resume EXCEPT ![p] = "user"]
  /\ UNCHANGED <<rq, active_proc, state, param_proc, param_data, open, blocked,
                 interrupt_table, got, owed, fault>>

(* wait_for_interrupt() after its resign(), interrupts still disabled.       *)
wait_resume(p) ==
  /\ fault = "none"
  /\ p = active_proc
  /\ resume[p] \in Irq
  /\ interrupt_table' = [interrupt_table EXCEPT ![resume[p]] = NULL]
  /\ resume' = [resume EXCEPT ![p] = "user"]
  /\ UNCHANGED <<rq, active_proc, state, param_proc, param_data, open, blocked,
                 got, owed, fault>>

\* Variant: the state of the process in the slot is not looked at.
Waiting_slot(x) == interrupt_table[x] # NULL

Waiting(x) ==
  interrupt_table[x] # NULL /\ state[interrupt_table[x]] = "INTR_BLOCKED"

(* An interrupt arrives while the active process has interrupts enabled.     *)
(* isr_timer_0 ignores one that nobody waits for, isr_ne2k_driver_0 one with *)
(* an empty slot; every other ISR panics.                                    *)
interrupt(x) ==
  /\ Running(active_proc)
  /\ \/ /\ Waiting(x)
        /\ rq' = Enqueue(rq, interrupt_table[x])
        /\ state' = [state EXCEPT ![interrupt_table[x]] = "READY"]
        /\ Switch
        /\ UNCHANGED <<param_proc, param_data, open, blocked, interrupt_table,
                       resume, got, owed, fault>>
     \/ /\ ~Waiting(x)
        /\ isr[x] = "timer" \/ (isr[x] = "ne2k" /\ interrupt_table[x] = NULL)
        /\ UNCHANGED <<rq, state, param_proc, param_data, open, blocked,
                       interrupt_table, resume, got, owed, fault>>
        /\ Switch
     \/ /\ ~Waiting(x)
        /\ isr[x] \in {"com1", "keyb"}
        /\ panic(IF interrupt_table[x] = NULL THEN "service_intr: Spurious interrupt"
                                              ELSE "service_intr: No process waiting")
     \/ /\ ~Waiting(x)
        /\ isr[x] = "ne2k" /\ interrupt_table[x] # NULL
        /\ panic("service_intr: No process waiting")

\* panic() disables interrupts and loops.
halt == fault # "none" /\ UNCHANGED vars

-------------------------------------------------------------------------------
(* Properties.                                                               *)

\* The panics and assertions of ipc.c and intr.c.
Panics == {"message(): not a port",
           "receive(): no port created for this process",
           "reply(): Not reply blocked",
           "wait_for_interrupt(): ISR busy",
           "service_intr: Spurious interrupt",
           "service_intr: No process waiting"}

TypeOK ==
  /\ rq \in Queues
  /\ active_proc \in Proc
  /\ state \in [Proc -> States]
  /\ param_proc \in [Proc -> Proc \cup {NULL}]
  /\ param_data \in [Proc -> Data \cup {NULL}]
  /\ open \in [Port -> BOOLEAN]
  /\ blocked \in [Port -> Seq(Proc)]
  /\ interrupt_table \in [Irq -> Proc \cup {NULL}]
  /\ resume \in [Proc -> {"user", "receive", "new"} \cup Irq]
  /\ got \in [Proc -> [sender : Proc \cup {NULL}, data : Data \cup {NULL}]]
  /\ owed \in [Proc -> SUBSET Proc]
  /\ fault \in Panics \cup {"none"}

\* The state field and the ready queues tell the same story: a process that
\* exists is READY exactly when it is queued, at its own priority and once.
\* Every blocking and waking path of ipc.c and intr.c changes both.
ReadyIffQueued ==
  /\ \A i \in Prio : NoRepeats(rq[i]) /\ \A p \in Members(rq[i]) : priority[p] = i
  /\ \A p \in Proc :
       p \in Queued(rq) <=> state[p] = "READY" /\ resume[p] # "new"

\* A process that waits to be received is on the list of exactly one port, and
\* once; nobody else is on a list.  receive() thus meets only SEND_BLOCKED and
\* MESSAGE_BLOCKED processes, and never falls through to waiting.
BlockedOnOnePort ==
  /\ \A o \in Port : NoRepeats(blocked[o])
  /\ \A o, u \in Port : o # u => Members(blocked[o]) \cap Members(blocked[u]) = {}
  /\ \A p \in Proc : state[p] \in {"SEND_BLOCKED", "MESSAGE_BLOCKED"}
                      <=> \E o \in Port : p \in Members(blocked[o])

\* No lost wakeup: a process that waits in receive() has nobody queued at an
\* open port.
ReceiverNotMissed ==
  \A o \in Port : state[owner[o]] = "RECEIVE_BLOCKED" /\ open[o] => blocked[o] = << >>

\* interrupt_table and the waiting processes match: a process that waits for an
\* interrupt is in the slot of that interrupt and of no other, and a slot holds
\* a process that is waiting or has been woken but has not run since.
SlotsMatchWaiters ==
  /\ \A p \in Proc : state[p] = "INTR_BLOCKED" => resume[p] \in Irq
  /\ \A p \in Proc, x \in Irq : interrupt_table[x] = p <=> resume[p] = x

\* Whoever waits for a reply is owed one by exactly one process: by one that has
\* received the request, or by one to whom it was handed while it waited and
\* that will find it on its return from receive().
Handed(p) == {q \in Proc : /\ resume[q] = "receive"
                           /\ state[q] = "READY"
                           /\ param_proc[q] = p
                           /\ param_data[q] \in Request}

OwedByOne ==
  \A p \in Proc :
    LET debtors == {q \in Proc : p \in owed[q]} \cup Handed(p)
    IN  /\ state[p] = "REPLY_BLOCKED" <=> debtors # {}
        /\ \A q, r \in debtors : q = r
        /\ \A q \in Proc : p \in owed[q] => q \notin Handed(p)

\* reply() never panics for a process that answers what it received.
ReplyAccepted == fault # "reply(): Not reply blocked"
===============================================================================
