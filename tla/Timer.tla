-------------------------------- MODULE Timer --------------------------------
(* timer.c on the kernel: init_timer(), the notifier that turns interrupts   *)
(* into messages, the timer process that counts ticks_left down, processes   *)
(* that sleep and processes that only compute.  Every action of a process is *)
(* an action of Kernel or a step on the process's own variables, and an      *)
(* interrupt may come between any two.                                       *)
EXTENDS Kernel

CONSTANTS
  timer_process,   \* priority 6
  timer_notifier,  \* priority 7
  Sleeper,         \* processes that call sleep(), all below the notifier
  Busy,            \* processes that compute and call nothing
  timers,          \* the port that create_process returns for timer_process
  TIMER_IRQ,
  pcb,             \* the order of the PCBs in memory
  Ticks            \* arguments of sleep()

NoMessage == << >>
Pointer(n) == <<n>>

ASSUME TimerAssumption ==
  /\ TIMER_IRQ \in Irq /\ isr[TIMER_IRQ] = "timer"
  /\ timers \in Port /\ ports[timer_process] = <<timers>>
  /\ timer_process \in Proc \ {Boot} /\ timer_notifier \in Proc \ {Boot, timer_process}
  /\ Ticks \subseteq Nat /\ \E n \in Ticks : \A k \in Ticks : k <= n
  /\ Request = {Pointer(n) : n \in Ticks} /\ Note = {NoMessage}
  /\ pcb \in Seq(Proc) /\ Members(pcb) = Proc /\ NoRepeats(pcb)
  /\ Sleeper \cup Busy \subseteq Proc \ {Boot, timer_process, timer_notifier}
  /\ Sleeper \cap Busy = {}
  /\ \A p \in Sleeper : priority[p] < priority[timer_notifier]

VARIABLES
  pc,          \* where the boot process, the timer and the notifier are
  timer_port,  \* the global variable that sleep() and the notifier send to
  ticks_left,  \* the array of timer_process, by position in pcb
  i,           \* its loop index
  elapsed      \* timer interrupts since a process called sleep(): history only

locals == <<pc, timer_port, ticks_left, i>>
timer_vars == <<vars, locals, elapsed>>

TimerInit ==
  /\ Init
  /\ pc = [p \in {Boot, timer_process, timer_notifier} |-> "start"]
  /\ timer_port = NULL
  /\ ticks_left = [j \in 1 .. Len(pcb) |-> 0]
  /\ i = 1
  /\ elapsed = [p \in Sleeper |-> 0]

\* Process p is at a, and goes on at b.
Goes(p, a, b) == pc[p] = a /\ pc' = [pc EXCEPT ![p] = b]

-------------------------------------------------------------------------------
(* init_timer(), and the boot process as the creator of everybody else.      *)

init_timer_create ==
  /\ Goes(Boot, "start", "assign")
  /\ create_process(Boot, timer_process)
  /\ UNCHANGED <<timer_port, ticks_left, i, elapsed>>

init_timer_assign ==
  /\ Running(Boot)
  /\ Goes(Boot, "assign", "resign")
  /\ timer_port' = timers
  /\ UNCHANGED <<vars, ticks_left, i, elapsed>>

init_timer_resign ==
  /\ Goes(Boot, "resign", "create")
  /\ resign(Boot)
  /\ UNCHANGED <<timer_port, ticks_left, i, elapsed>>

create(p) ==
  /\ pc[Boot] = "create"
  /\ create_process(Boot, p)
  /\ UNCHANGED <<locals, elapsed>>

-------------------------------------------------------------------------------
(* timer_notifier()                                                          *)

notifier_wait ==
  /\ Goes(timer_notifier, "start", "waiting")
  /\ wait_for_interrupt(timer_notifier, TIMER_IRQ)
  /\ UNCHANGED <<timer_port, ticks_left, i, elapsed>>

notifier_woken ==
  /\ Goes(timer_notifier, "waiting", "tell")
  /\ wait_resume(timer_notifier)
  /\ UNCHANGED <<timer_port, ticks_left, i, elapsed>>

\* message() asserts that its port is one; NULL is none.
notifier_tell ==
  /\ Goes(timer_notifier, "tell", "start")
  /\ IF timer_port = NULL
     THEN Running(timer_notifier) /\ panic("message(): not a port")
     ELSE message(timer_notifier, timer_port, NoMessage)
  /\ UNCHANGED <<timer_port, ticks_left, i, elapsed>>

-------------------------------------------------------------------------------
(* timer_process()                                                           *)

timer_start ==
  /\ Goes(timer_process, "start", "receive")
  /\ create_process(timer_process, timer_notifier)
  /\ UNCHANGED <<timer_port, ticks_left, i, elapsed>>

timer_receive ==
  /\ pc[timer_process] = "receive"
  /\ \/ receive_wait(timer_process) /\ UNCHANGED pc
     \/ /\ receive_pending(timer_process) \/ receive_resume(timer_process)
        /\ Goes(timer_process, "receive", "received")
  /\ UNCHANGED <<timer_port, ticks_left, i, elapsed>>

Received == got[timer_process]

Slot(p) == Position(pcb, p)

\* Variant: the number of ticks is one too small.
timer_request_short ==
  /\ Running(timer_process)
  /\ Received.data # NoMessage
  /\ Goes(timer_process, "received", "receive")
  /\ ticks_left' = [ticks_left EXCEPT ![Slot(Received.sender)] = Received.data[1] - 1]
  /\ UNCHANGED <<vars, timer_port, i, elapsed>>

\* A client's message: remember the number of ticks.
timer_request ==
  /\ Running(timer_process)
  /\ Received.data # NoMessage
  /\ Goes(timer_process, "received", "receive")
  /\ ticks_left' = [ticks_left EXCEPT ![Slot(Received.sender)] = Received.data[1]]
  /\ UNCHANGED <<vars, timer_port, i, elapsed>>

\* Variant: the walk does not start at the first PCB again.
timer_tick_further ==
  /\ Running(timer_process)
  /\ Received.data = NoMessage
  /\ Goes(timer_process, "received", "scan")
  /\ UNCHANGED <<vars, timer_port, ticks_left, i, elapsed>>

\* The notifier's message: walk through ticks_left.
timer_tick ==
  /\ Running(timer_process)
  /\ Received.data = NoMessage
  /\ Goes(timer_process, "received", "scan")
  /\ i' = 1
  /\ UNCHANGED <<vars, timer_port, ticks_left, elapsed>>

\* Variant: the last PCB is left out.
AtEnd_early == i >= Len(pcb)

AtEnd == i > Len(pcb)

timer_scan_end ==
  /\ Running(timer_process)
  /\ AtEnd
  /\ Goes(timer_process, "scan", "receive")
  /\ UNCHANGED <<vars, timer_port, ticks_left, i, elapsed>>

\* Variant: processes that do not sleep are counted too.
Countdown_all(k) == k - 1

Countdown(k) == IF k = 0 THEN 0 ELSE k - 1

\* One iteration.  reply() gives the CPU away in the middle of the walk.
timer_scan ==
  /\ pc[timer_process] = "scan"
  /\ Running(timer_process)
  /\ ~AtEnd
  /\ i' = i + 1
  /\ ticks_left' = [ticks_left EXCEPT ![i] = Countdown(@)]
  /\ IF ticks_left[i] = 1 THEN reply(timer_process, pcb[i]) ELSE UNCHANGED vars
  /\ UNCHANGED <<pc, timer_port, elapsed>>

-------------------------------------------------------------------------------
sleep(p, n) ==
  /\ timer_port # NULL
  /\ send(p, timer_port, Pointer(n))
  /\ elapsed' = [elapsed EXCEPT ![p] = 0]
  /\ UNCHANGED locals

\* elapsed stops counting when it cannot matter any more.
Enough == CHOOSE n \in Ticks : \A k \in Ticks : k <= n

isr_timer ==
  /\ interrupt(TIMER_IRQ)
  /\ elapsed' = [p \in Sleeper |->
                   IF state[p] # "READY" /\ elapsed[p] < Enough
                   THEN elapsed[p] + 1 ELSE elapsed[p]]
  /\ UNCHANGED locals

timer_steps ==
  timer_start \/ timer_receive \/ timer_request \/ timer_tick \/ timer_scan
    \/ timer_scan_end

notifier_steps == notifier_wait \/ notifier_woken \/ notifier_tell

TimerNext ==
  \/ init_timer_create \/ init_timer_assign \/ init_timer_resign
  \/ \E p \in Sleeper \cup Busy : create(p)
  \/ timer_steps
  \/ notifier_steps
  \/ \E p \in Sleeper, n \in Ticks : sleep(p, n)
  \/ isr_timer
  \/ halt /\ UNCHANGED <<locals, elapsed>>

TimerSpec == TimerInit /\ [][TimerNext]_timer_vars

\* Ticks keep coming, and between two of them the services have the time that
\* a few instructions take: the notifier cannot be preempted, the timer only
\* by the notifier.  Nothing is assumed of the other processes.
FairTimer ==
  /\ TimerSpec
  /\ WF_timer_vars(isr_timer)
  /\ WF_timer_vars(notifier_steps)
  /\ SF_timer_vars(timer_steps)

-------------------------------------------------------------------------------
(* Properties.                                                               *)

TimerTypeOK ==
  /\ pc[Boot] \in {"start", "assign", "resign", "create"}
  /\ pc[timer_process] \in {"start", "receive", "received", "scan"}
  /\ pc[timer_notifier] \in {"start", "waiting", "tell"}
  /\ timer_port \in {NULL, timers}
  /\ ticks_left \in [1 .. Len(pcb) -> Nat]
  /\ i \in 1 .. Len(pcb) + 1
  /\ elapsed \in [Sleeper -> Nat]

\* sleep(n) does not return before n timer interrupts have come.
NeverEarly ==
  \A p \in Sleeper :
    state[p] = "READY" /\ param_data[p] # NULL => elapsed[p] >= param_data[p][1]

\* sleep(n) returns, for n > 0: whatever the sleepers do to each other, however
\* many ticks are lost while the notifier is busy, and although the array is
\* walked with interrupts enabled.
SleepEnds ==
  \A p \in Sleeper :
    (state[p] # "READY" /\ param_data[p] # Pointer(0))
      ~> (state[p] = "READY" \/ fault # "none")

\* The request of p has been posted and is not yet in ticks_left.
OnItsWay(p) ==
  \/ state[p] = "SEND_BLOCKED"
  \/ /\ resume[timer_process] = "receive" /\ state[timer_process] = "READY"
     /\ param_proc[timer_process] = p
  \/ /\ pc[timer_process] = "received"
     /\ Received.sender = p

\* The walk has still to come to p.
Ahead(p) == pc[timer_process] = "scan" /\ Slot(p) >= i

Phase(p) ==
  CASE state[p] = "READY"                -> "awake"
    [] state[p] # "READY" /\ OnItsWay(p)  -> "asked"
    [] state[p] # "READY" /\ ~OnItsWay(p) ->
         IF Ahead(p) /\ ticks_left[Slot(p)] = 1 THEN "due" ELSE "asleep"

\* The entry counts as one less as soon as the walk has begun.
Remaining(p) ==
  CASE state[p] = "READY"                -> 0
    [] state[p] # "READY" /\ OnItsWay(p)  -> param_data[p][1]
    [] state[p] # "READY" /\ ~OnItsWay(p) ->
         IF Ahead(p) /\ ticks_left[Slot(p)] > 0
         THEN ticks_left[Slot(p)] - 1 ELSE ticks_left[Slot(p)]

Clock == INSTANCE Alarm WITH
  phase <- [p \in Sleeper |-> Phase(p)],
  left  <- [p \in Sleeper |-> Remaining(p)]

\* The walk, in which sleepers are woken one by one and may ask again, counts
\* as one tick for exactly the requests that were taken before it began.
ImplementsAlarm == Clock!Spec

\* dispatch.c: "Within one priority level round robin is used."  Of two
\* processes on a level that compute for ever, one that is ready is not passed
\* over while the other one gets the CPU again and again.
RoundRobin ==
  \A p, q \in Busy :
    /\ priority[p] = priority[q]
    /\ <>(p \in Queued(rq))
    /\ []<>(active_proc = q)
    => []<>(active_proc = p)

\* ipc.c asserts in message() that the port it is given is one.
PortIsValid == fault # "message(): not a port"
===============================================================================
