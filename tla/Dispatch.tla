------------------------------- MODULE Dispatch -------------------------------
(* dispatch.c: every priority level is a circular doubly linked list of      *)
(* PCBs, ready_queue[i] points into it, and bit i of ready_procs tells that  *)
(* level i is not empty.  The operators are the functions of dispatch.c on   *)
(* that memory; the actions are the sequences in which the kernel calls them.*)
EXTENDS ReadyQueue, FiniteSets

CONSTANTS
  NULL,
  Boot,      \* the process that runs kernel_main; it never blocks
  Notifier   \* the processes that an interrupt may make ready

ASSUME DispatchAssumption ==
  /\ NULL \notin Proc
  /\ Boot \in Proc
  /\ Notifier \subseteq Proc \ {Boot}
  /\ \A n \in Notifier, p \in Proc \ Notifier : priority[p] < priority[n]

VARIABLES
  mem,         \* the globals and PCB fields of dispatch.c, a record
  active_proc, \* the process that holds the CPU
  exited       \* processes that took themselves off the queue for good

vars == <<mem, active_proc, exited>>

-------------------------------------------------------------------------------
(* The functions of dispatch.c.  Each disables interrupts for its whole body *)
(* and is therefore one step on mem.                                         *)

\* Variants, each with a mistake: the last element is not told of its new
\* predecessor, and a process is queued first.
add_ready_queue_unlinked(m, p) ==
  LET i == priority[p]
      h == m.ready_queue[i]
  IN  IF h = NULL
      THEN [m EXCEPT !.ready_queue[i] = p, !.ready_procs = @ \cup {i},
                     !.next[p] = p, !.prev[p] = p, !.state[p] = "READY"]
      ELSE [m EXCEPT !.next = [@ EXCEPT ![p] = h, ![m.prev[h]] = p],
                     !.prev[p] = m.prev[h], !.state[p] = "READY"]

add_ready_queue_first(m, p) ==
  LET i == priority[p]
      h == m.ready_queue[i]
  IN  IF h = NULL
      THEN [m EXCEPT !.ready_queue[i] = p, !.ready_procs = @ \cup {i},
                     !.next[p] = p, !.prev[p] = p, !.state[p] = "READY"]
      ELSE [m EXCEPT !.ready_queue[i] = p,
                     !.next = [@ EXCEPT ![p] = h, ![m.prev[h]] = p],
                     !.prev = [@ EXCEPT ![p] = m.prev[h], ![h] = p],
                     !.state[p] = "READY"]

add_ready_queue(m, p) ==
  LET i == priority[p]
      h == m.ready_queue[i]
  IN  IF h = NULL
      THEN [ready_queue |-> [m.ready_queue EXCEPT ![i] = p],
            ready_procs |-> m.ready_procs \cup {i},
            next        |-> [m.next EXCEPT ![p] = p],
            prev        |-> [m.prev EXCEPT ![p] = p],
            state       |-> [m.state EXCEPT ![p] = "READY"]]
      ELSE [ready_queue |-> m.ready_queue,
            ready_procs |-> m.ready_procs,
            next        |-> [m.next EXCEPT ![p] = h, ![m.prev[h]] = p],
            prev        |-> [m.prev EXCEPT ![p] = m.prev[h], ![h] = p],
            state       |-> [m.state EXCEPT ![p] = "READY"]]

\* Variants: the process that leaves forgets its neighbours, and ready_queue
\* keeps pointing to it.
remove_ready_queue_forget(m, p) ==
  IF m.next[p] = p
  THEN [m EXCEPT !.ready_queue[priority[p]] = NULL,
                 !.ready_procs = @ \ {priority[p]}, !.next[p] = NULL]
  ELSE [m EXCEPT !.ready_queue[priority[p]] = m.next[p],
                 !.next = [@ EXCEPT ![m.prev[p]] = m.next[p], ![p] = NULL],
                 !.prev[m.next[p]] = m.prev[p]]

remove_ready_queue_head(m, p) ==
  IF m.next[p] = p
  THEN [m EXCEPT !.ready_queue[priority[p]] = NULL,
                 !.ready_procs = @ \ {priority[p]}]
  ELSE [m EXCEPT !.next[m.prev[p]] = m.next[p], !.prev[m.next[p]] = m.prev[p]]

remove_ready_queue(m, p) ==
  LET i == priority[p]
  IN  IF m.next[p] = p
      THEN [ready_queue |-> [m.ready_queue EXCEPT ![i] = NULL],
            ready_procs |-> m.ready_procs \ {i},
            next        |-> m.next,
            prev        |-> m.prev,
            state       |-> m.state]
      ELSE [ready_queue |-> [m.ready_queue EXCEPT ![i] = m.next[p]],
            ready_procs |-> m.ready_procs,
            next        |-> [m.next EXCEPT ![m.prev[p]] = m.next[p]],
            prev        |-> [m.prev EXCEPT ![m.next[p]] = m.prev[p]],
            state       |-> m.state]

\* Variants: a process is preferred to those above its level, and to those
\* beside it.
dispatcher_level(m, a) ==
  IF priority[a] \in m.ready_procs THEN m.next[a]
                                   ELSE m.ready_queue[Highest(m.ready_procs)]

dispatcher_sticky(m, a) ==
  LET i == Highest(m.ready_procs)
  IN  IF i = priority[a] THEN a ELSE m.ready_queue[i]

\* table[ready_procs] is the number of the highest bit that is set.
dispatcher(m, a) ==
  LET i == Highest(m.ready_procs)
  IN  IF i = priority[a] THEN m.next[a] ELSE m.ready_queue[i]

\* The caller's assignment to proc->state when it takes proc off the queue.
set_blocked(m, p) == [m EXCEPT !.state[p] = "BLOCKED"]

\* pcb[] is zeroed and only the boot process is on a queue; "BLOCKED" also
\* stands for a PCB that create_process has not handed out yet.
init_dispatcher ==
  add_ready_queue([ready_queue |-> [i \in Prio |-> NULL],
                   ready_procs |-> {},
                   next        |-> [p \in Proc |-> NULL],
                   prev        |-> [p \in Proc |-> NULL],
                   state       |-> [p \in Proc |-> "BLOCKED"]], Boot)

-------------------------------------------------------------------------------
Init ==
  /\ mem = init_dispatcher
  /\ active_proc = Boot
  /\ exited = {}

\* create_process, and receive() of a message: ready, but no resign().
Wake(p) ==
  /\ active_proc \notin exited
  /\ mem.state[p] = "BLOCKED"
  /\ mem' = add_ready_queue(mem, p)
  /\ UNCHANGED <<active_proc, exited>>

\* message() and reply(), and every ISR that finds its notifier waiting.
\* Only an ISR runs between the two calls by which a process exits.
WakeAndResign(p) ==
  /\ active_proc \in exited => p \in Notifier
  /\ mem.state[p] = "BLOCKED"
  /\ mem' = add_ready_queue(mem, p)
  /\ active_proc' = dispatcher(mem', active_proc)
  /\ UNCHANGED exited

\* send() to a receiver that waits.
HandOver(p) ==
  /\ active_proc \notin exited \cup {Boot}
  /\ mem.state[p] = "BLOCKED"
  /\ mem' = set_blocked(remove_ready_queue(add_ready_queue(mem, p), active_proc),
                        active_proc)
  /\ active_proc' = dispatcher(mem', active_proc)
  /\ UNCHANGED exited

\* send(), message(), receive() and wait_for_interrupt() that have to wait.
Block ==
  /\ active_proc \notin exited \cup {Boot}
  /\ mem' = set_blocked(remove_ready_queue(mem, active_proc), active_proc)
  /\ active_proc' = dispatcher(mem', active_proc)
  /\ UNCHANGED exited

\* resign() by itself, and an ISR that makes no process ready.
Resign ==
  /\ active_proc' = dispatcher(mem, active_proc)
  /\ UNCHANGED <<mem, exited>>

\* The end of train_process: off the queue with interrupts enabled and the
\* state field left as it is; its resign() is a Resign of its own.
Exit ==
  /\ active_proc \notin exited \cup Notifier \cup {Boot}
  /\ mem' = remove_ready_queue(mem, active_proc)
  /\ exited' = exited \cup {active_proc}
  /\ UNCHANGED active_proc

Next ==
  \/ \E p \in Proc : Wake(p) \/ WakeAndResign(p) \/ HandOver(p)
  \/ Block
  \/ Resign
  \/ Exit

Spec == Init /\ [][Next]_vars

-------------------------------------------------------------------------------
(* Properties.                                                               *)

TypeOK ==
  /\ mem \in [ready_queue : [Prio -> Proc \cup {NULL}],
              ready_procs : SUBSET Prio,
              next        : [Proc -> Proc \cup {NULL}],
              prev        : [Proc -> Proc \cup {NULL}],
              state       : [Proc -> {"READY", "BLOCKED"}]]
  /\ active_proc \in Proc
  /\ exited \subseteq Proc

OnQueue == {p \in Proc : mem.state[p] = "READY"} \ exited

\* The pointers of level i are the circular list of the sequence s.
Ring(m, i, s) ==
  /\ m.ready_queue[i] = IF s = << >> THEN NULL ELSE s[1]
  /\ i \in m.ready_procs <=> s # << >>
  /\ \A k \in 1 .. Len(s) :
       /\ priority[s[k]] = i
       /\ m.next[s[k]] = Successor(s, k)
       /\ m.prev[Successor(s, k)] = s[k]

Level(i) == {p \in OnQueue : priority[p] = i}

\* The orders in which a set of processes can be queued.
Orders(S) == {s \in [1 .. Cardinality(S) -> S] :
                \A j, k \in DOMAIN s : s[j] = s[k] => j = k}

\* At every step the memory is a family of circular lists, one per priority
\* level, that holds exactly the processes that are ready and have not left:
\* add_ready_queue and remove_ready_queue lose nobody, queue nobody twice and
\* keep ready_procs exact in whatever order the kernel calls them.
QueuesIntact ==
  \A i \in Prio : \E s \in Orders(Level(i)) : Ring(mem, i, s)

\* Whoever holds the CPU is on a ready queue, except a process between the
\* two calls by which it exits.
ActiveIsReady == active_proc \in OnQueue \cup exited

IsTop(p) == p \in OnQueue /\ \A q \in OnQueue : priority[q] <= priority[p]

\* The CPU passes only to a process on a queue such that no queue of higher
\* priority has one: the assertion of dispatcher() and its comment.
DispatchesTop == [][active_proc' # active_proc => IsTop(active_proc)']_vars

\* At any moment a resign() would elect such a process.  In particular a
\* process that has left its queue and is interrupted before its resign() is
\* never elected again, although dispatcher() follows its stale next pointer.
ElectsTop == IsTop(dispatcher(mem, active_proc))

-------------------------------------------------------------------------------
(* Refinement: read as sequences, the circular lists behave as Scheduler.     *)

OrderOf(i) == CHOOSE s \in Orders(Level(i)) : Ring(mem, i, s)

Promise == INSTANCE Scheduler WITH rq <- [i \in Prio |-> OrderOf(i)]

\* The pointer manipulation of dispatch.c implements the queues of Scheduler:
\* first come first served within a level, a turn of the queue when a process
\* leaves it, the successor or the head of the highest level on a dispatch.
ImplementsScheduler == Promise!Spec
===============================================================================
