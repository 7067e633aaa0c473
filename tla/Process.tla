------------------------------- MODULE Process -------------------------------
(* process.c and the port pool of ipc.c: PCBs and ports are taken from free  *)
(* lists that are linked through the records themselves and never refilled.  *)
(* create_process() disables interrupts only while it takes the PCB, while   *)
(* create_new_port() takes the port and in add_ready_queue(); between these  *)
(* another process may run and create processes and ports of its own.  Any   *)
(* ready process may get the CPU: whom the dispatcher picks is the subject   *)
(* of Dispatch.                                                              *)
EXTENDS Integers, FiniteSets

CONSTANTS MAX_PROCS, MAX_PORTS, MAX_READY_QUEUES, NULL

ASSUME ProcessAssumption ==
  /\ MAX_PROCS \in Nat \ {0, 1} /\ MAX_PORTS \in Nat \ {0}
  /\ MAX_PROCS <= 40   \* the stacks lie below 640 KB
  /\ MAX_READY_QUEUES \in Nat \ {0, 1}
  /\ NULL \notin Nat

pcb == 0 .. MAX_PROCS - 1
port == 1 .. MAX_PORTS

VARIABLES
  active_proc,
  next_free_pcb, next,         \* the free list of PCBs
  used, prio, first_port, esp, \* fields of the PCBs; esp is NULL before the
                               \* stack is laid out
  ready,                       \* the PCBs that add_ready_queue has queued
  next_free_port, next_port,   \* the free list of ports; next_port also links
                               \* the ports of one owner
  owner,
  call,                        \* the call of create_process a process is in
  fault

pool == <<next_free_pcb, next, next_free_port, next_port>>
fields == <<used, prio, first_port, esp, owner>>
process_vars == <<active_proc, pool, fields, ready, call, fault>>

NoCall == [at |-> "user", new |-> NULL, prio |-> NULL]

\* init_process() and init_ipc(): every entry points to the one after it.
Links(first, last) == [k \in first .. last |-> IF k = last THEN NULL ELSE k + 1]

ProcessInit ==
  /\ active_proc = 0
  /\ next = Links(1, MAX_PROCS - 1) /\ next_free_pcb = 1
  /\ next_port = Links(1, MAX_PORTS) /\ next_free_port = 1
  /\ used = [p \in pcb |-> p = 0]
  /\ prio = [p \in pcb |-> IF p = 0 THEN 1 ELSE 0]
  /\ first_port = [p \in pcb |-> NULL]
  /\ esp = [p \in pcb |-> IF p = 0 THEN 0 ELSE NULL]
  /\ owner = [o \in port |-> NULL]
  /\ ready = {0}
  /\ call = [p \in pcb |-> NoCall]
  /\ fault = "none"

-------------------------------------------------------------------------------
At(p, place) == fault = "none" /\ p = active_proc /\ call[p].at = place

Goes(p, place) == call' = [call EXCEPT ![p].at = place]

panic(why) ==
  /\ fault' = why
  /\ UNCHANGED <<active_proc, pool, fields, ready, call>>

\* Variant: the list goes on only once the PCB is filled in.
take_pcb_late(p, x) ==
  /\ call' = [call EXCEPT ![p] = [at |-> "fill", new |-> next_free_pcb, prio |-> x]]
  /\ UNCHANGED next_free_pcb

take_pcb(p, x) ==
  /\ call' = [call EXCEPT ![p] = [at |-> "fill", new |-> next_free_pcb, prio |-> x]]
  /\ next_free_pcb' = next[next_free_pcb]

\* Up to ENABLE_INTR.  The parameter x is not checked from below.
create_process(p, x) ==
  /\ At(p, "user")
  /\ \/ x >= MAX_READY_QUEUES /\ panic("create(): Bad priority")
     \/ x < MAX_READY_QUEUES /\ next_free_pcb = NULL /\ panic("create(): PCB full")
     \/ /\ x < MAX_READY_QUEUES /\ next_free_pcb # NULL
        /\ take_pcb(p, x)
        /\ UNCHANGED <<active_proc, next, next_free_port, next_port, fields, ready,
                       fault>>

\* Variant: the new process is queued at once.
fill_queued(p) ==
  /\ At(p, "fill")
  /\ LET new == call[p].new
     IN  /\ used' = [used EXCEPT ![new] = TRUE]
         /\ prio' = [prio EXCEPT ![new] = call[p].prio]
         /\ first_port' = [first_port EXCEPT ![new] = NULL]
         /\ ready' = ready \cup {new}
  /\ Goes(p, "port")
  /\ UNCHANGED <<active_proc, pool, esp, owner, fault>>

fill(p) ==
  /\ At(p, "fill")
  /\ LET new == call[p].new
     IN  /\ used' = [used EXCEPT ![new] = TRUE]
         /\ prio' = [prio EXCEPT ![new] = call[p].prio]
         /\ first_port' = [first_port EXCEPT ![new] = NULL]
  /\ Goes(p, "port")
  /\ UNCHANGED <<active_proc, pool, esp, owner, ready, fault>>

take_port(q) ==
  LET o == next_free_port
  IN  /\ next_free_port' = next_port[o]
      /\ owner' = [owner EXCEPT ![o] = q]
      /\ next_port' = [next_port EXCEPT ![o] = first_port[q]]
      /\ first_port' = [first_port EXCEPT ![q] = o]

\* create_new_port(q), called by p.
create_new_port(q) ==
  IF next_free_port = NULL
  THEN panic("create_new_port(): PORT full")
  ELSE /\ take_port(q)
       /\ UNCHANGED <<active_proc, next_free_pcb, next, used, prio, esp, ready,
                      fault>>

new_process_port(p) ==
  /\ At(p, "port")
  /\ create_new_port(call[p].new)
  /\ call' = IF fault' = "none" THEN [call EXCEPT ![p].at = "stack"] ELSE call

create_port(p) ==
  /\ At(p, "user")
  /\ create_new_port(p)
  /\ UNCHANGED call

\* The stacks lie one below the other, 16 KB each; esp is given in KB.
stack(p) ==
  /\ At(p, "stack")
  /\ esp' = [esp EXCEPT ![call[p].new] = 640 - 16 * call[p].new]
  /\ Goes(p, "queue")
  /\ UNCHANGED <<active_proc, pool, used, prio, first_port, owner, ready, fault>>

\* add_ready_queue() and the return from create_process().
queue(p) ==
  /\ At(p, "queue")
  /\ ready' = ready \cup {call[p].new}
  /\ call' = [call EXCEPT ![p] = NoCall]
  /\ UNCHANGED <<active_proc, pool, fields, fault>>

\* An interrupt, or resign(): any ready process continues where it was.
switch ==
  /\ fault = "none"
  /\ active_proc' \in ready
  /\ UNCHANGED <<pool, fields, ready, call, fault>>

stopped == fault # "none" /\ UNCHANGED process_vars

ProcessNext ==
  \/ \E p \in pcb :
       \/ \E x \in 0 .. MAX_READY_QUEUES : create_process(p, x)
       \/ fill(p) \/ new_process_port(p) \/ stack(p) \/ queue(p)
       \/ create_port(p)
  \/ switch
  \/ stopped

ProcessSpec == ProcessInit /\ [][ProcessNext]_process_vars

-------------------------------------------------------------------------------
(* Properties.                                                               *)

\* The elements of a list that is linked by link and starts at first; a list
\* that runs in a circle or is longer than bound has none.
ListOf(link, first, bound) ==
  LET walk[n \in 0 .. bound] ==
        IF n = 0 THEN <<first, {}>>
        ELSE LET w == walk[n - 1]
             IN  IF w[1] = NULL THEN <<NULL, w[2]>> ELSE <<link[w[1]], w[2] \cup {w[1]}>>
  IN  IF walk[bound][1] = NULL THEN walk[bound][2] ELSE {}

FreePcbs == ListOf(next, next_free_pcb, MAX_PROCS)
FreePorts == ListOf(next_port, next_free_port, MAX_PORTS)
PortsOf(p) == ListOf(next_port, first_port[p], MAX_PORTS)
UnderConstruction(x) == {p \in pcb : call[p].new = x}

\* Every PCB is in exactly one place: on the free list, in the hands of exactly
\* one create_process(), or a process of its own; so no two calls that
\* overlap ever fill in the same PCB, and none is lost.
PcbInOnePlace ==
  LET free == FreePcbs
  IN  \A x \in pcb :
        /\ x \in ready => x \notin free /\ UnderConstruction(x) = {}
        /\ x \in free => UnderConstruction(x) = {}
        /\ Cardinality(UnderConstruction(x)) <= 1
        /\ x \in ready \cup free \/ UnderConstruction(x) # {}

\* The lists of the owners and the free list, all linked through the same
\* field, stay apart: a port is free or on the list of its owner only.
PortsInOneList ==
  /\ FreePorts = {o \in port : owner[o] = NULL}
  /\ \A p \in pcb : call[p].at # "fill" =>
       \A x \in {p} \cup {y \in pcb : call[p].new = y} :
         PortsOf(x) = {o \in port : owner[o] = x}

\* create_process() and create_new_port() never lose a PCB or a port, or give one
\* away twice, wherever another process interrupts them.
PoolsIntact == PcbInOnePlace /\ PortsInOneList

\* A process that the dispatcher may elect has been filled in, has a priority
\* for which there is a ready queue, a port of its own and a stack that no
\* other process uses.
RunsOnlyComplete ==
  \A x \in ready \ {0} :
    /\ used[x] /\ prio[x] < MAX_READY_QUEUES
    /\ PortsOf(x) # {}
    /\ esp[x] # NULL /\ \A y \in ready \ {x} : esp[y] # esp[x]
===============================================================================
