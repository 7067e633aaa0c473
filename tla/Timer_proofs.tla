----------------------------- MODULE Timer_proofs -----------------------------
(* Theorems about timer.c: whatever the number of processes and however the   *)
(* ticks, the requests and the walk through ticks_left interleave, nobody     *)
(* wakes too early, and the service implements Alarm.                         *)
EXTENDS Timer, Kernel_proofs

-------------------------------------------------------------------------------
(* The invariant.                                                             *)

T == timer_process
N == timer_notifier

Places ==
  pc \in [{Boot, T, N} -> {"start", "assign", "resign", "create", "receive",
                           "received", "scan", "waiting", "tell"}]

\* Who calls what, and from where.
Roles ==
  /\ \A p \in Proc :
       /\ state[p] \in {"SEND_BLOCKED", "REPLY_BLOCKED"} => p \in Sleeper
       /\ state[p] = "MESSAGE_BLOCKED" => p = N /\ pc[N] = "start"
       /\ resume[p] = "receive" => p = T /\ pc[T] = "receive"
       /\ resume[p] \in Irq => p = N /\ pc[N] = "waiting"
       /\ owed[p] # {} => p = T
  /\ pc[N] = "tell" => state[N] = "READY" /\ resume[N] = "user"
  /\ \A o \in Port : o # timers => blocked[o] = << >>

\* An item has been handed to the timer, which has not run since.
HasItem == resume[T] = "receive" /\ state[T] = "READY"

\* param_data of a sleeper is what it asked for last, at the port, on its way
\* through the parameters of the timer, and as its result of receive().
Requests ==
  /\ \A p \in Sleeper :
       /\ param_data[p] \in Request \cup {NULL}
       /\ state[p] # "READY" => param_data[p] \in Request
  /\ HasItem => IF param_data[T] \in Request
                THEN param_data[param_proc[T]] = param_data[T]
                ELSE param_proc[T] = N
  /\ pc[T] = "received" =>
       /\ Received.data \in Data
       /\ IF Received.data \in Request
          THEN Received.sender \in owed[T] /\ param_data[Received.sender] = Received.data
          ELSE Received.sender = N

\* The request of p has been written to ticks_left.
Taken(p) ==
  p \in owed[T] /\ ~(pc[T] = "received" /\ Received.sender = p)

\* Only the entries of processes whose request was taken are not zero.
Entries == \A p \in Proc : ticks_left[Slot(p)] # 0 => Taken(p)

\* An interrupt has come that the notifier has still to tell of.  Nobody that
\* sleeps runs before it does.
Signalled == (resume[N] \in Irq /\ state[N] = "READY") \/ pc[N] = "tell"

Undelayed == Signalled => active_proc \notin Sleeper

\* A tick that will count for p is at the notifier: not told of, or queued at
\* the port, unless the request of p is queued behind it.
AtNotifier(p) ==
  \/ Signalled
  \/ /\ state[N] = "MESSAGE_BLOCKED"
     /\ state[p] = "SEND_BLOCKED" =>
          \E j, k \in 1 .. Len(blocked[timers]) :
            j < k /\ blocked[timers][j] = p /\ blocked[timers][k] = N

\* A tick that will count for p is at the timer.
AtTimer(p) ==
  /\ Taken(p)
  /\ \/ HasItem /\ param_data[T] \notin Request
     \/ pc[T] = "received" /\ Received.data \notin Request
     \/ Ahead(p)

Coming(p) == (IF AtNotifier(p) THEN 1 ELSE 0) + (IF AtTimer(p) THEN 1 ELSE 0)

\* The ticks that have counted for p, or will, have come since it asked.
Left(p) == IF Taken(p) THEN ticks_left[Slot(p)] ELSE param_data[p][1]

InPace(p) ==
  LET n == param_data[p][1]
  IN  elapsed[p] >= n \/ elapsed[p] >= n - Left(p) + Coming(p)

Pace == \A p \in Sleeper : state[p] # "READY" => InPace(p)

TInv ==
  /\ KInv
  /\ TimerTypeOK
  /\ NeverEarly
  /\ Places
  /\ Roles
  /\ Requests
  /\ Entries
  /\ Undelayed
  /\ Pace

-------------------------------------------------------------------------------
(* What the constants and the invariant say.                                  *)

\* What the assumptions give for the constants.
LEMMA TimerConstants ==
  /\ T \in Proc /\ N \in Proc /\ Boot \in Proc
  /\ T # Boot /\ N # Boot /\ N # T
  /\ timers \in Port /\ owner[timers] = T /\ ports[T] = <<timers>>
  /\ TIMER_IRQ \in Irq /\ isr[TIMER_IRQ] = "timer"
  /\ NoMessage \in Note /\ \A y \in Data : y \notin Request <=> y = NoMessage
  /\ NULL \notin Request /\ NULL \notin Note
  /\ \A n \in Ticks : n \in Nat /\ Pointer(n) \in Request /\ Pointer(n)[1] = n
  /\ \A y \in Request : y[1] \in Ticks /\ y[1] \in Nat /\ y # NoMessage
  /\ \A p \in Sleeper : /\ p \in Proc /\ p \notin {Boot, T, N}
                        /\ priority[p] < priority[N] /\ \A o \in Port : owner[o] = p => o # timers
<1>1. timers \in Members(ports[T])
  BY TimerAssumption DEF T, Members
<1>2. owner[timers] = T
  BY <1>1, TimerAssumption, KernelAssumption DEF T
<1>3. \A y \in Request : y[1] \in Ticks /\ y[1] \in Nat /\ y # NoMessage
  BY TimerAssumption DEF Pointer, NoMessage
<1>4. \A n \in Ticks : n \in Nat /\ Pointer(n) \in Request /\ Pointer(n)[1] = n
  BY TimerAssumption DEF Pointer
<1>5. /\ NoMessage \in Note /\ \A y \in Data : y \notin Request <=> y = NoMessage
      /\ NULL \notin Request /\ NULL \notin Note
  BY <1>3, TimerAssumption, KernelAssumption DEF Data
<1>6. QED
  BY <1>2, <1>3, <1>4, <1>5, TimerAssumption, KernelAssumption DEF T, N

\* The order of the PCBs in memory.
LEMMA SlotFacts ==
  /\ \A p \in Proc : Slot(p) \in 1 .. Len(pcb) /\ pcb[Slot(p)] = p
  /\ \A j \in 1 .. Len(pcb) : pcb[j] \in Proc /\ Slot(pcb[j]) = j
  /\ Len(pcb) \in Nat
<1>1. pcb \in Seq(Proc) /\ Members(pcb) = Proc /\ NoRepeats(pcb)
  BY TimerAssumption
<1>2. ASSUME NEW p \in Proc
      PROVE  Slot(p) \in 1 .. Len(pcb) /\ pcb[Slot(p)] = p
  <2>1. PICK k \in 1 .. Len(pcb) : pcb[k] = p
    BY <1>1 DEF Members
  <2>2. Position(pcb, pcb[k]) = k
    BY <1>1, PositionFacts
  <2>3. QED
    BY <2>1, <2>2 DEF Slot
<1>3. \A j \in 1 .. Len(pcb) : pcb[j] \in Proc
  BY <1>1
<1>4. \A j \in 1 .. Len(pcb) : Slot(pcb[j]) = j
  BY <1>1, <1>2, <1>3 DEF NoRepeats
<1>5. QED
  BY <1>1, <1>2, <1>3, <1>4

\* Where a sleeper, the timer and the notifier can be.
LEMMA PlaceFacts ==
  ASSUME TInv
  PROVE  /\ \A p \in Sleeper :
              /\ state[p] \in {"READY", "SEND_BLOCKED", "REPLY_BLOCKED"}
              /\ resume[p] \in {"new", "user"}
              /\ state[p] = "SEND_BLOCKED" <=> p \in Members(blocked[timers])
              /\ state[p] = "REPLY_BLOCKED" <=>
                   p \in owed[T] \/ (HasItem /\ param_data[T] \in Request /\ param_proc[T] = p)
              /\ ~(p \in owed[T] /\ HasItem /\ param_data[T] \in Request /\ param_proc[T] = p)
         /\ owed[T] \subseteq Sleeper
         /\ HasItem => /\ param_proc[T] \in Sleeper \cup {N} /\ param_data[T] \in Data
                       /\ param_data[T] \in Request <=> param_proc[T] \in Sleeper
         /\ state[T] \in {"READY", "RECEIVE_BLOCKED"}
         /\ state[T] = "RECEIVE_BLOCKED" => resume[T] = "receive" /\ pc[T] = "receive"
         /\ state[N] \in {"READY", "INTR_BLOCKED", "MESSAGE_BLOCKED"}
         /\ state[N] = "MESSAGE_BLOCKED" <=> N \in Members(blocked[timers])
         /\ Members(blocked[timers]) \subseteq Sleeper \cup {N}
         /\ blocked[timers] \in Seq(Proc)
<1> USE TimerConstants
<1>1. /\ TypeOK /\ BlockedOnOnePort /\ OwedByOne /\ PlacesMatch /\ SlotsMatchWaiters
      /\ ParametersMatch /\ Roles /\ Requests
  BY DEF TInv, KInv
<1>2. \A p \in Proc :
        /\ state[p] \in States /\ resume[p] \in {"user", "receive", "new"} \cup Irq
        /\ state[p] = "INTR_BLOCKED" => p = N
        /\ state[p] = "RECEIVE_BLOCKED" => p = T /\ resume[p] = "receive"
  <2>1. \A p \in Proc : state[p] = "INTR_BLOCKED" => resume[p] \in Irq
    BY <1>1 DEF SlotsMatchWaiters
  <2>2. \A p \in Proc : state[p] = "RECEIVE_BLOCKED" => resume[p] = "receive"
    BY <1>1 DEF PlacesMatch
  <2>3. QED
    BY <2>1, <2>2, <1>1 DEF TypeOK, Roles
<1>3. blocked[timers] \in Seq(Proc)
  BY <1>1 DEF TypeOK
<1>4. \A p \in Proc : state[p] \in {"SEND_BLOCKED", "MESSAGE_BLOCKED"} <=> p \in Members(blocked[timers])
  <2>1. \A o \in Port : o # timers => Members(blocked[o]) = {}
    BY <1>1 DEF Roles, Members
  <2>2. QED
    BY <2>1, <1>1 DEF BlockedOnOnePort
<1>5. Members(blocked[timers]) \subseteq Sleeper \cup {N}
  BY <1>1, <1>3, <1>4, MembersFacts DEF Roles
<1>6. ASSUME NEW p \in Proc
      PROVE  /\ state[p] = "REPLY_BLOCKED" <=>
                  p \in owed[T] \/ (HasItem /\ param_data[T] \in Request /\ param_proc[T] = p)
             /\ ~(p \in owed[T] /\ HasItem /\ param_data[T] \in Request /\ param_proc[T] = p)
  <2>1. \A q \in Proc : p \in owed[q] => q = T
    BY <1>1 DEF Roles
  <2>2. \A q \in Handed(p) : q = T
    BY <1>1 DEF Roles, Handed
  <2>3. T \in Handed(p) <=> HasItem /\ param_data[T] \in Request /\ param_proc[T] = p
    BY DEF Handed, HasItem
  <2>4. QED
    BY <2>1, <2>2, <2>3, <1>1 DEF OwedByOne
<1>7. owed[T] \subseteq Sleeper
  BY <1>1, <1>6 DEF Roles, TypeOK
<1>8. ASSUME HasItem
      PROVE  /\ param_proc[T] \in Sleeper \cup {N} /\ param_data[T] \in Data
             /\ param_data[T] \in Request <=> param_proc[T] \in Sleeper
  <2>1. param_proc[T] \in Proc /\ param_data[T] \in Data
    BY <1>8, <1>1 DEF ParametersMatch, HasItem
  <2>2. param_data[T] \in Request => state[param_proc[T]] = "REPLY_BLOCKED"
    BY <1>8, <2>1, <1>6
  <2>3. QED
    BY <2>1, <2>2, <1>8, <1>1 DEF Roles, Requests
<1>9. \A p \in Sleeper : state[p] \in {"READY", "SEND_BLOCKED", "REPLY_BLOCKED"}
                         /\ resume[p] \in {"new", "user"}
  <2>1. SUFFICES ASSUME NEW p \in Sleeper
                 PROVE  /\ state[p] \in {"READY", "SEND_BLOCKED", "REPLY_BLOCKED"}
                        /\ resume[p] \in {"new", "user"}
    OBVIOUS
  <2>2. p \in Proc /\ p # T /\ p # N
    BY <1>1
  <2>3. state[p] \in States /\ state[p] \notin {"RECEIVE_BLOCKED", "MESSAGE_BLOCKED", "INTR_BLOCKED"}
    BY <1>1, <1>2, <2>2 DEF Roles
  <2>4. resume[p] \in {"new", "user"}
    BY <1>1, <1>2, <2>2 DEF Roles
  <2>5. QED
    BY <2>3, <2>4 DEF States
<1>10. /\ state[T] \in {"READY", "RECEIVE_BLOCKED"}
       /\ state[T] = "RECEIVE_BLOCKED" => resume[T] = "receive" /\ pc[T] = "receive"
       /\ state[N] \in {"READY", "INTR_BLOCKED", "MESSAGE_BLOCKED"}
  BY <1>1, <1>2 DEF States, Roles
<1>11. QED
  BY <1>3, <1>4, <1>5, <1>6, <1>7, <1>8, <1>9, <1>10

\* Nobody sleeps while a signal is not told of: the notifier is queued, and the
\* CPU goes to nobody below it.
LEMMA SwitchUndelayed ==
  ASSUME Sound(rq'), N \in Queued(rq'), Switch
  PROVE  active_proc' \notin Sleeper
<1>1. /\ active_proc' \in Queued(rq')
      /\ \A q \in Queued(rq') : priority[q] <= priority[active_proc']
  BY ElectFacts DEF Switch
<1>2. active_proc' \in Proc
  BY <1>1 DEF Queued
<1>3. priority[N] \in Int /\ priority[active_proc'] \in Int
  BY <1>2, TimerConstants, PriorityAssumption DEF Prio
<1>4. QED
  BY <1>1, <1>3, TimerConstants

\* The numbers in Pace.
LEMMA PaceFacts ==
  ASSUME TInv, NEW p \in Sleeper
  PROVE  /\ ticks_left[Slot(p)] \in Nat
         /\ elapsed[p] \in Nat
         /\ state[p] # "READY" => param_data[p] \in Request /\ param_data[p][1] \in Nat
<1>1. Slot(p) \in 1 .. Len(pcb)
  BY TimerConstants, SlotFacts
<1>2. QED
  BY <1>1, TimerConstants DEF TInv, TimerTypeOK, Requests

\* A sleeper stays in pace while what is counted for it does not grow faster
\* than the time since it asked.
LEMMA PaceMoved ==
  ASSUME TInv, NEW p \in Sleeper, state[p] # "READY",
         param_data'[p] = param_data[p],
         elapsed'[p] \in Nat, elapsed'[p] >= elapsed[p],
         Left(p)' \in Nat,
         \/ elapsed[p] >= param_data[p][1]
         \/ Coming(p)' - Left(p)' + elapsed[p] <= Coming(p) - Left(p) + elapsed'[p]
  PROVE  InPace(p)'
<1> DEFINE n == param_data[p][1]
<1>1. n \in Nat /\ Left(p) \in Nat /\ elapsed[p] \in Nat
  BY PaceFacts DEF Left
<1>2. Coming(p) \in Int /\ Coming(p)' \in Int
  BY DEF Coming
<1>3. elapsed[p] >= n \/ elapsed[p] >= n - Left(p) + Coming(p)
  BY DEF TInv, Pace, InPace
<1>4. InPace(p)' <=> elapsed'[p] >= n \/ elapsed'[p] >= n - Left(p)' + Coming(p)'
  BY DEF InPace
<1>5. QED
  BY <1>1, <1>2, <1>3, <1>4

\* It does as long as its entry is left alone and no tick is added.
LEMMA PaceKept ==
  ASSUME TInv, NEW p \in Sleeper, state[p] # "READY",
         param_data'[p] = param_data[p],
         elapsed'[p] = elapsed[p],
         Taken(p)' <=> Taken(p),
         ticks_left'[Slot(p)] = ticks_left[Slot(p)],
         AtNotifier(p)' => AtNotifier(p),
         AtTimer(p)' => AtTimer(p)
  PROVE  InPace(p)'
<1>1. elapsed[p] \in Nat /\ Left(p) \in Nat /\ Left(p)' = Left(p)
  BY PaceFacts DEF Left
<1>2. Coming(p) \in Int /\ Coming(p)' \in Int /\ Coming(p)' <= Coming(p)
  BY DEF Coming
<1>3. QED
  BY <1>1, <1>2, PaceMoved

\* A signal that is not told of is that of a notifier that is queued.
LEMMA SwitchKeepsUndelayed ==
  ASSUME KInv', Roles', Switch
  PROVE  Undelayed'
<1>1. Sound(rq')
  BY DEF KInv, TypeOK, ReadyIffQueued, Sound
<1>2. ASSUME Signalled' PROVE N \in Queued(rq')
  <2>1. state'[N] = "READY" /\ resume'[N] # "new"
    BY <1>2, TimerConstants, KernelAssumption DEF Signalled, Roles
  <2>2. QED
    BY <2>1, TimerConstants DEF KInv, ReadyIffQueued
<1>3. QED
  BY <1>1, <1>2, SwitchUndelayed DEF Undelayed

-------------------------------------------------------------------------------
(* Steps that do not concern the sleepers.                                    *)

Created ==
  /\ UNCHANGED <<state, param_proc, param_data, blocked, got, owed>>
  /\ \A p \in Proc : resume'[p] = resume[p] \/ (resume[p] = "new" /\ resume'[p] = "user")

Quiet ==
  /\ Created
  /\ UNCHANGED <<ticks_left, i, elapsed>>
  /\ pc'[N] = pc[N]
  /\ pc'[T] = pc[T] \/ (pc[T] \in {"start", "scan"} /\ pc'[T] = "receive")

\* The invariant does not look at anything that such a step changes.
LEMMA QuietStep ==
  ASSUME TInv, KInv', TimerTypeOK', Places', Undelayed', Quiet
  PROVE  TInv'
<1> USE TimerConstants DEF T, N, Quiet, Created
<1>1. Roles'
  <2>1. \A p \in Proc : /\ resume'[p] = "receive" => resume[p] = "receive"
                        /\ resume'[p] \in Irq => resume[p] \in Irq
    BY KernelAssumption
  <2>2. pc[T] = "receive" => pc'[T] = "receive"
    OBVIOUS
  <2>3. pc'[N] = "tell" => state'[N] = "READY" /\ resume'[N] = "user"
    BY DEF TInv, Roles
  <2>4. QED
    BY <2>1, <2>2, <2>3 DEF TInv, Roles
<1>2. HasItem' <=> HasItem
  BY DEF HasItem
<1>3. Requests'
  BY <1>2 DEF TInv, Requests, Received
<1>4. /\ \A p \in Proc : Taken(p)' <=> Taken(p)
      /\ pc'[T] = "received" <=> pc[T] = "received"
      /\ \A p \in Proc : Ahead(p)' => Ahead(p)
  BY DEF Taken, Received, Ahead
<1>5. Entries'
  BY <1>4 DEF TInv, Entries
<1>6. Signalled' <=> Signalled
  BY KernelAssumption DEF Signalled
<1>7. ASSUME NEW p \in Sleeper, state[p] # "READY"
      PROVE  InPace(p)'
  <2>1. AtNotifier(p)' => AtNotifier(p)
    BY <1>6 DEF AtNotifier
  <2>2. AtTimer(p)' => AtTimer(p)
    BY <1>2, <1>4 DEF AtTimer, Received
  <2>3. elapsed[p] \in Nat
    BY DEF TInv, TimerTypeOK
  <2>4. QED
    BY <1>4, <1>7, <2>1, <2>2, <2>3, PaceKept
<1>8. Pace'
  BY <1>7 DEF Pace
<1>9. NeverEarly'
  BY DEF TInv, NeverEarly
<1>10. QED
  BY <1>1, <1>3, <1>5, <1>8, <1>9 DEF TInv

\* create_process() is such a step.
LEMMA CreatedFacts ==
  ASSUME TInv, NEW p, NEW q \in Proc, create_process(p, q)
  PROVE  Created /\ active_proc' = active_proc
<1>1. /\ resume[q] = "new" /\ resume' = [resume EXCEPT ![q] = "user"]
      /\ UNCHANGED <<active_proc, state, param_proc, param_data, blocked, got, owed>>
  BY DEF create_process
<1>2. \A r \in Proc : resume'[r] = IF r = q THEN "user" ELSE resume[r]
  BY <1>1 DEF TInv, KInv, TypeOK
<1>3. QED
  BY <1>1, <1>2 DEF Created

\* Nothing new is signalled.
LEMMA StillUndelayed ==
  ASSUME TInv, Created, pc'[N] = pc[N], active_proc' = active_proc
  PROVE  Undelayed'
<1>1. Signalled' => Signalled
  BY TimerConstants, KernelAssumption DEF Signalled, Created
<1>2. QED
  BY <1>1 DEF TInv, Undelayed

\* Where pc goes.
LEMMA PcFacts ==
  ASSUME TInv, NEW p \in {Boot, T, N}, NEW a, NEW b, Goes(p, a, b),
         b \in {"start", "assign", "resign", "create", "receive", "received",
                "scan", "waiting", "tell"}
  PROVE  /\ pc[p] = a /\ pc'[p] = b /\ Places'
         /\ \A q \in {Boot, T, N} : q # p => pc'[q] = pc[q]
BY DEF Goes, TInv, Places

\* The boot process, and the timer when it creates the notifier.
LEMMA CreationStep ==
  ASSUME TInv,
         \/ init_timer_create
         \/ init_timer_assign
         \/ init_timer_resign
         \/ timer_start
         \/ \E p \in Sleeper \cup Busy : create(p)
  PROVE  TInv'
<1> USE TimerConstants DEF T, N
<1>0. KInv /\ TypeOK /\ Places
  BY DEF TInv, KInv
<1>1. CASE init_timer_create
  <2>1. create_process(Boot, T) /\ Goes(Boot, "start", "assign")
        /\ UNCHANGED <<timer_port, ticks_left, i, elapsed>>
    BY <1>1 DEF init_timer_create
  <2>2. KInv'
    BY <2>1, <1>0, CreateStep
  <2>3. /\ pc[Boot] = "start" /\ pc'[Boot] = "assign" /\ Places'
        /\ pc'[T] = pc[T] /\ pc'[N] = pc[N]
    BY <2>1, PcFacts
  <2>4. Quiet /\ Undelayed'
    BY <2>1, <2>3, CreatedFacts, StillUndelayed DEF Quiet
  <2>5. TimerTypeOK'
    BY <2>1, <2>3 DEF TInv, TimerTypeOK
  <2>6. QED
    BY <2>2, <2>3, <2>4, <2>5, QuietStep
<1>2. CASE init_timer_assign
  <2>1. Goes(Boot, "assign", "resign") /\ timer_port' = timers
        /\ UNCHANGED <<vars, ticks_left, i, elapsed>>
    BY <1>2 DEF init_timer_assign
  <2>2. KInv'
    BY <2>1, <1>0, StutterStep
  <2>3. /\ pc[Boot] = "assign" /\ pc'[Boot] = "resign" /\ Places'
        /\ pc'[T] = pc[T] /\ pc'[N] = pc[N]
    BY <2>1, PcFacts
  <2>4. Quiet /\ Undelayed'
    BY <2>1, <2>3, StillUndelayed DEF Quiet, Created, vars
  <2>5. TimerTypeOK'
    BY <2>1, <2>3 DEF TInv, TimerTypeOK
  <2>6. QED
    BY <2>2, <2>3, <2>4, <2>5, QuietStep
<1>3. CASE init_timer_resign
  <2>1. Goes(Boot, "resign", "create") /\ resign(Boot)
        /\ UNCHANGED <<timer_port, ticks_left, i, elapsed>>
    BY <1>3 DEF init_timer_resign
  <2>2. KInv'
    BY <2>1, <1>0, ResignStep
  <2>3. /\ pc[Boot] = "resign" /\ pc'[Boot] = "create" /\ Places'
        /\ pc'[T] = pc[T] /\ pc'[N] = pc[N]
    BY <2>1, PcFacts
  <2>4. Switch /\ UNCHANGED <<rq, state, param_proc, param_data, blocked, resume, got, owed>>
    BY <2>1 DEF resign
  <2>5. Undelayed'
    <3>1. Signalled' => N \in Queued(rq') /\ Sound(rq')
      BY <2>2, <1>0, <2>3, <2>4, QueueFacts, KernelAssumption DEF TInv, Roles, Signalled
    <3>2. QED
      BY <2>4, <3>1, SwitchUndelayed DEF Undelayed
  <2>6. TimerTypeOK'
    BY <2>1, <2>3 DEF TInv, TimerTypeOK
  <2>7. Quiet
    BY <2>1, <2>3, <2>4 DEF Quiet, Created
  <2>8. QED
    BY <2>2, <2>3, <2>5, <2>6, <2>7, QuietStep
<1>4. CASE timer_start
  <2>1. create_process(T, N) /\ Goes(T, "start", "receive")
        /\ UNCHANGED <<timer_port, ticks_left, i, elapsed>>
    BY <1>4 DEF timer_start
  <2>2. KInv'
    BY <2>1, <1>0, CreateStep
  <2>3. /\ pc[T] = "start" /\ pc'[T] = "receive" /\ Places'
        /\ pc'[Boot] = pc[Boot] /\ pc'[N] = pc[N]
    BY <2>1, PcFacts
  <2>4. Quiet /\ Undelayed'
    BY <2>1, <2>3, CreatedFacts, StillUndelayed DEF Quiet
  <2>5. TimerTypeOK'
    BY <2>1, <2>3 DEF TInv, TimerTypeOK
  <2>6. QED
    BY <2>2, <2>3, <2>4, <2>5, QuietStep
<1>5. ASSUME NEW p \in Sleeper \cup Busy, create(p)
      PROVE  TInv'
  <2>1. create_process(Boot, p) /\ UNCHANGED <<pc, timer_port, ticks_left, i, elapsed>>
    BY <1>5 DEF create, locals
  <2>2. p \in Proc
    BY TimerAssumption
  <2>3. KInv'
    BY <2>1, <2>2, <1>0, CreateStep
  <2>4. Quiet /\ Undelayed'
    BY <2>1, <2>2, CreatedFacts, StillUndelayed DEF Quiet
  <2>5. TimerTypeOK' /\ Places'
    BY <2>1 DEF TInv, TimerTypeOK, Places
  <2>6. QED
    BY <2>3, <2>4, <2>5, QuietStep
<1>6. QED
  BY <1>1, <1>2, <1>3, <1>4, <1>5

\* The end of a walk, the end of the system, and no step at all.
LEMMA EndStep ==
  ASSUME TInv,
         \/ timer_scan_end
         \/ halt /\ UNCHANGED <<locals, elapsed>>
         \/ UNCHANGED timer_vars
  PROVE  TInv'
<1> USE TimerConstants DEF T, N
<1>1. UNCHANGED <<vars, timer_port, ticks_left, i, elapsed>>
  BY DEF timer_scan_end, halt, timer_vars, locals
<1>2. /\ Places' /\ pc'[N] = pc[N] /\ pc'[Boot] = pc[Boot]
      /\ pc'[T] = pc[T] \/ (pc[T] = "scan" /\ pc'[T] = "receive")
  <2>1. CASE timer_scan_end
    BY <2>1, PcFacts DEF timer_scan_end
  <2>2. CASE pc' = pc
    BY <2>2 DEF TInv, Places
  <2>3. QED
    BY <2>1, <2>2 DEF halt, timer_vars, locals
<1>3. KInv'
  BY <1>1, StutterStep DEF TInv
<1>4. TimerTypeOK'
  BY <1>1, <1>2 DEF TInv, TimerTypeOK
<1>5. Quiet /\ Undelayed'
  BY <1>1, <1>2, StillUndelayed DEF Quiet, Created, vars
<1>6. QED
  BY <1>2, <1>3, <1>4, <1>5, QuietStep

-------------------------------------------------------------------------------
(* The notifier.                                                              *)

\* The notifier waits for the next tick, or panics; what came before it has
\* told of.
LEMMA NotifierWaitStep ==
  ASSUME TInv, notifier_wait
  PROVE  TInv'
<1> USE TimerConstants DEF T, N
<1>1. /\ Goes(N, "start", "waiting") /\ wait_for_interrupt(N, TIMER_IRQ)
      /\ UNCHANGED <<timer_port, ticks_left, i, elapsed>>
  BY DEF notifier_wait
<1>2. KInv /\ TypeOK /\ KInv'
  BY <1>1, WaitStep DEF TInv, KInv
<1>3. /\ pc[N] = "start" /\ pc'[N] = "waiting" /\ Places'
      /\ pc'[T] = pc[T] /\ pc'[Boot] = pc[Boot]
  BY <1>1, PcFacts
<1>4. N = active_proc /\ state[N] = "READY" /\ resume[N] = "user"
  BY <1>1, <1>2, QueueFacts DEF wait_for_interrupt, Running
<1>5. /\ \/ UNCHANGED <<state, resume>>
         \/ /\ state' = [state EXCEPT ![N] = "INTR_BLOCKED"]
            /\ resume' = [resume EXCEPT ![N] = TIMER_IRQ]
      /\ UNCHANGED <<param_proc, param_data, blocked, got, owed>>
  BY <1>1 DEF wait_for_interrupt, panic
<1>6. /\ \A p \in Proc : p # N => state'[p] = state[p] /\ resume'[p] = resume[p]
      /\ state'[N] \in {"READY", "INTR_BLOCKED"} /\ resume'[N] \in {"user", TIMER_IRQ}
      /\ state'[N] = "READY" => resume'[N] = "user"
  BY <1>2, <1>4, <1>5 DEF TypeOK
<1>7. TimerTypeOK'
  BY <1>1, <1>3 DEF TInv, TimerTypeOK
<1>8. Roles'
  BY <1>3, <1>5, <1>6, KernelAssumption DEF TInv, Roles
<1>9. HasItem' <=> HasItem
  BY <1>6 DEF HasItem
<1>10. Requests'
  BY <1>3, <1>5, <1>6, <1>9 DEF TInv, Requests, Received
<1>11. ~ Signalled'
  BY <1>3, <1>6, KernelAssumption DEF Signalled
<1>12. \A p \in Proc : /\ Taken(p)' <=> Taken(p)
                       /\ AtTimer(p)' <=> AtTimer(p)
                       /\ ~ AtNotifier(p)'
  BY <1>1, <1>3, <1>5, <1>6, <1>9, <1>11 DEF Taken, AtTimer, AtNotifier, Received, Ahead
<1>13. Entries'
  BY <1>1, <1>12 DEF TInv, Entries
<1>14. Pace'
  <2>1. ASSUME NEW p \in Sleeper, state'[p] # "READY"
        PROVE  InPace(p)'
    <3>1. state[p] # "READY" /\ elapsed[p] \in Nat
      BY <2>1, <1>6 DEF TInv, TimerTypeOK
    <3>2. QED
      BY <3>1, <1>1, <1>5, <1>12, PaceKept
  <2>2. QED
    BY <2>1 DEF Pace
<1>15. NeverEarly' /\ Undelayed'
  BY <1>1, <1>5, <1>6, <1>11 DEF TInv, NeverEarly, Undelayed
<1>16. QED
  BY <1>2, <1>3, <1>7, <1>8, <1>10, <1>13, <1>14, <1>15 DEF TInv

\* The notifier runs after its tick, which it has still to tell of.
LEMMA NotifierWokenStep ==
  ASSUME TInv, notifier_woken
  PROVE  TInv'
<1> USE TimerConstants DEF T, N
<1>1. /\ Goes(N, "waiting", "tell") /\ wait_resume(N)
      /\ UNCHANGED <<timer_port, ticks_left, i, elapsed>>
  BY DEF notifier_woken
<1>2. KInv /\ TypeOK /\ KInv'
  BY <1>1, WaitResumeStep DEF TInv, KInv
<1>3. /\ pc[N] = "waiting" /\ pc'[N] = "tell" /\ Places'
      /\ pc'[T] = pc[T] /\ pc'[Boot] = pc[Boot]
  BY <1>1, PcFacts
<1>4. N = active_proc /\ state[N] = "READY" /\ resume[N] \in Irq
  BY <1>1, <1>2, QueueFacts DEF wait_resume
<1>5. /\ resume' = [resume EXCEPT ![N] = "user"]
      /\ UNCHANGED <<active_proc, state, param_proc, param_data, blocked, got, owed>>
  BY <1>1 DEF wait_resume
<1>6. (\A p \in Proc : p # N => resume'[p] = resume[p]) /\ resume'[N] = "user"
  BY <1>2, <1>5 DEF TypeOK
<1>7. TimerTypeOK'
  BY <1>1, <1>3 DEF TInv, TimerTypeOK
<1>8. Roles'
  BY <1>3, <1>4, <1>5, <1>6, KernelAssumption DEF TInv, Roles
<1>9. HasItem' <=> HasItem
  BY <1>5, <1>6 DEF HasItem
<1>10. Requests'
  BY <1>3, <1>5, <1>6, <1>9 DEF TInv, Requests, Received
<1>11. Signalled
  BY <1>4 DEF Signalled
<1>12. \A p \in Proc : /\ Taken(p)' <=> Taken(p)
                       /\ AtTimer(p)' <=> AtTimer(p)
                       /\ AtNotifier(p)
  BY <1>1, <1>3, <1>5, <1>9, <1>11 DEF Taken, AtTimer, AtNotifier, Received, Ahead
<1>13. Entries'
  BY <1>1, <1>12 DEF TInv, Entries
<1>14. Pace'
  <2>1. ASSUME NEW p \in Sleeper, state'[p] # "READY"
        PROVE  InPace(p)'
    <3>1. state[p] # "READY" /\ elapsed[p] \in Nat
      BY <2>1, <1>5 DEF TInv, TimerTypeOK
    <3>2. QED
      BY <3>1, <1>1, <1>5, <1>12, PaceKept
  <2>2. QED
    BY <2>1 DEF Pace
<1>15. NeverEarly' /\ Undelayed'
  BY <1>1, <1>5, <1>11 DEF TInv, NeverEarly, Undelayed
<1>16. QED
  BY <1>2, <1>3, <1>7, <1>8, <1>10, <1>13, <1>14, <1>15 DEF TInv

\* The notifier tells of a tick to a timer that waits.
LEMMA TellHandOver ==
  ASSUME TInv, notifier_tell, timer_port # NULL, Receptive(timers)
  PROVE  TInv'
<1> USE TimerConstants DEF T, N
<1>1. /\ Goes(N, "tell", "start") /\ message(N, timers, NoMessage)
      /\ UNCHANGED <<timer_port, ticks_left, i, elapsed>>
  BY DEF notifier_tell, TInv, TimerTypeOK
<1>2. KInv /\ TypeOK /\ KInv'
  BY <1>1, MessageStep DEF TInv, KInv
<1>3. /\ pc[N] = "tell" /\ pc'[N] = "start" /\ Places'
      /\ pc'[T] = pc[T] /\ pc'[Boot] = pc[Boot]
  BY <1>1, PcFacts
<1>4. N = active_proc /\ state[N] = "READY" /\ resume[N] = "user" /\ state[T] = "RECEIVE_BLOCKED"
  BY <1>1, <1>2, QueueFacts DEF message, Running, Receptive
<1>5. /\ param_proc' = [param_proc EXCEPT ![T] = N]
      /\ param_data' = [param_data EXCEPT ![T] = NoMessage]
      /\ state' = [state EXCEPT ![T] = "READY"]
      /\ Switch
      /\ UNCHANGED <<blocked, resume, got, owed>>
  BY <1>1 DEF message
<1>6. /\ \A p \in Proc : p # T => state'[p] = state[p] /\ param_data'[p] = param_data[p]
      /\ state'[T] = "READY" /\ param_data'[T] = NoMessage /\ param_proc'[T] = N
  BY <1>2, <1>5 DEF TypeOK
<1>7. TimerTypeOK'
  BY <1>1, <1>3 DEF TInv, TimerTypeOK
<1>8. Roles'
  BY <1>3, <1>4, <1>5, <1>6 DEF TInv, Roles
<1>9. ~ HasItem /\ HasItem' /\ pc[T] = "receive"
  BY <1>4, <1>5, <1>6, PlaceFacts DEF HasItem
<1>10. Requests'
  BY <1>3, <1>5, <1>6, <1>9 DEF TInv, Requests
<1>11. Signalled /\ ~ Signalled'
  BY <1>3, <1>4, <1>5, KernelAssumption DEF Signalled
<1>12. \A p \in Proc : Taken(p)' <=> Taken(p)
  BY <1>3, <1>5 DEF Taken, Received
<1>13. Entries'
  BY <1>1, <1>12 DEF TInv, Entries
<1>14. Pace'
  <2>1. ASSUME NEW p \in Sleeper, state'[p] # "READY"
        PROVE  InPace(p)'
    <3>1. state[p] # "READY" /\ param_data'[p] = param_data[p] /\ elapsed[p] \in Nat
      BY <2>1, <1>6 DEF TInv, TimerTypeOK
    <3>2. Left(p) \in Nat /\ Left(p)' = Left(p)
      BY <3>1, <1>1, <1>12, PaceFacts DEF Left
    <3>3. AtNotifier(p) /\ ~ AtNotifier(p)'
      BY <1>4, <1>6, <1>11 DEF AtNotifier
    <3>4. Coming(p) \in Int /\ Coming(p)' \in Int /\ Coming(p)' <= Coming(p)
      BY <3>3 DEF Coming
    <3>5. QED
      BY <3>1, <3>2, <3>4, <1>1, PaceMoved
  <2>2. QED
    BY <2>1 DEF Pace
<1>15. NeverEarly'
  BY <1>1, <1>6 DEF TInv, NeverEarly
<1>16. Undelayed'
  BY <1>11 DEF Undelayed
<1>17. QED
  BY <1>2, <1>3, <1>7, <1>8, <1>10, <1>13, <1>14, <1>15, <1>16 DEF TInv

\* The notifier tells of a tick to a timer that is busy, and waits at its port.
LEMMA TellJoins ==
  ASSUME TInv, notifier_tell, timer_port # NULL, ~ Receptive(timers)
  PROVE  TInv'
<1> USE TimerConstants DEF T, N
<1>1. /\ Goes(N, "tell", "start") /\ message(N, timers, NoMessage)
      /\ UNCHANGED <<timer_port, ticks_left, i, elapsed>>
  BY DEF notifier_tell, TInv, TimerTypeOK
<1>2. KInv /\ TypeOK /\ KInv'
  BY <1>1, MessageStep DEF TInv, KInv
<1>3. /\ pc[N] = "tell" /\ pc'[N] = "start" /\ Places'
      /\ pc'[T] = pc[T] /\ pc'[Boot] = pc[Boot]
  BY <1>1, PcFacts
<1>4. N = active_proc /\ state[N] = "READY" /\ resume[N] = "user"
  BY <1>1, <1>2, QueueFacts DEF message, Running
<1>5. /\ param_data' = [param_data EXCEPT ![N] = NoMessage]
      /\ state' = [state EXCEPT ![N] = "MESSAGE_BLOCKED"]
      /\ blocked' = [blocked EXCEPT ![timers] = Append(@, N)]
      /\ UNCHANGED <<param_proc, resume, got, owed>>
  BY <1>1 DEF message, add_to_send_blocked_list
<1>6. /\ \A p \in Proc : p # N => state'[p] = state[p] /\ param_data'[p] = param_data[p]
      /\ state'[N] = "MESSAGE_BLOCKED"
      /\ \A o \in Port : o # timers => blocked'[o] = blocked[o]
  BY <1>2, <1>5 DEF TypeOK
<1>7. TimerTypeOK'
  BY <1>1, <1>3 DEF TInv, TimerTypeOK
<1>8. Roles'
  BY <1>3, <1>4, <1>5, <1>6 DEF TInv, Roles
<1>9. HasItem' <=> HasItem
  BY <1>5, <1>6 DEF HasItem
<1>10. Requests'
  <2>1. HasItem => /\ param_proc[T] \in Sleeper \cup {N}
                   /\ param_data[T] \in Request <=> param_proc[T] \in Sleeper
    BY PlaceFacts
  <2>2. pc[T] = "received" /\ Received.data \in Request => Received.sender \in Sleeper
    BY PlaceFacts DEF TInv, Requests
  <2>3. QED
    BY <2>1, <2>2, <1>3, <1>5, <1>6, <1>9 DEF TInv, Requests, Received
<1>11. Signalled /\ ~ Signalled'
  BY <1>3, <1>4, <1>5, KernelAssumption DEF Signalled
<1>12. \A p \in Proc : /\ Taken(p)' <=> Taken(p)
                       /\ AtTimer(p)' <=> AtTimer(p)
                       /\ AtNotifier(p)
  BY <1>1, <1>3, <1>5, <1>6, <1>9, <1>11 DEF Taken, AtTimer, AtNotifier, Received, Ahead
<1>13. Entries'
  BY <1>1, <1>12 DEF TInv, Entries
<1>14. Pace'
  <2>1. ASSUME NEW p \in Sleeper, state'[p] # "READY"
        PROVE  InPace(p)'
    <3>1. state[p] # "READY" /\ param_data'[p] = param_data[p] /\ elapsed[p] \in Nat
      BY <2>1, <1>6 DEF TInv, TimerTypeOK
    <3>2. QED
      BY <3>1, <1>1, <1>12, PaceKept
  <2>2. QED
    BY <2>1 DEF Pace
<1>15. NeverEarly'
  BY <1>1, <1>6 DEF TInv, NeverEarly
<1>16. Undelayed'
  BY <1>11 DEF Undelayed
<1>17. QED
  BY <1>2, <1>3, <1>7, <1>8, <1>10, <1>13, <1>14, <1>15, <1>16 DEF TInv

\* The notifier tells of a tick before init_timer() has assigned timer_port.
LEMMA TellPanics ==
  ASSUME TInv, notifier_tell, timer_port = NULL
  PROVE  TInv'
<1> USE TimerConstants DEF T, N
<1>1. /\ Goes(N, "tell", "start") /\ panic("message(): not a port")
      /\ UNCHANGED <<timer_port, ticks_left, i, elapsed>>
  BY DEF notifier_tell
<1>2. KInv'
  BY <1>1, PanicStep DEF TInv, Panics
<1>3. /\ pc[N] = "tell" /\ pc'[N] = "start" /\ Places'
      /\ pc'[T] = pc[T] /\ pc'[Boot] = pc[Boot]
  BY <1>1, PcFacts
<1>4. UNCHANGED <<state, param_proc, param_data, blocked, resume, got, owed>>
  BY <1>1 DEF panic
<1>5. TimerTypeOK' /\ Roles'
  BY <1>1, <1>3, <1>4 DEF TInv, TimerTypeOK, Roles
<1>6. HasItem' <=> HasItem
  BY <1>4 DEF HasItem
<1>7. Requests' /\ NeverEarly'
  BY <1>1, <1>3, <1>4, <1>6 DEF TInv, Requests, Received, NeverEarly
<1>8. Signalled /\ ~ Signalled'
  BY <1>3, <1>4, KernelAssumption DEF Signalled, TInv, Roles
<1>9. \A p \in Proc : /\ Taken(p)' <=> Taken(p)
                      /\ AtTimer(p)' <=> AtTimer(p)
                      /\ AtNotifier(p)
  BY <1>1, <1>3, <1>4, <1>6, <1>8 DEF Taken, AtTimer, AtNotifier, Received, Ahead
<1>10. Entries'
  BY <1>1, <1>9 DEF TInv, Entries
<1>11. Pace'
  <2>1. ASSUME NEW p \in Sleeper, state'[p] # "READY"
        PROVE  InPace(p)'
    BY <2>1, <1>1, <1>4, <1>9, PaceKept
  <2>2. QED
    BY <2>1 DEF Pace
<1>12. Undelayed'
  BY <1>8 DEF Undelayed
<1>13. QED
  BY <1>2, <1>3, <1>5, <1>7, <1>10, <1>11, <1>12 DEF TInv

-------------------------------------------------------------------------------
(* receive() in the timer.                                                    *)

\* receive() with nobody at the port.
LEMMA TimerWaits ==
  ASSUME TInv, timer_receive, receive_wait(T), pc' = pc
  PROVE  TInv'
<1> USE TimerConstants DEF T, N
<1>1. UNCHANGED <<pc, timer_port, ticks_left, i, elapsed>> /\ pc[T] = "receive"
  BY DEF timer_receive
<1>2. KInv /\ TypeOK /\ KInv'
  BY ReceiveWaitStep DEF TInv, KInv
<1>3. /\ param_data' = [param_data EXCEPT ![T] = NULL]
      /\ state' = [state EXCEPT ![T] = "RECEIVE_BLOCKED"]
      /\ resume' = [resume EXCEPT ![T] = "receive"]
      /\ Switch
      /\ UNCHANGED <<param_proc, blocked, got, owed>>
  BY DEF receive_wait
<1>4. state[T] = "READY" /\ resume[T] = "user"
  BY <1>2, QueueFacts DEF receive_wait, Running
<1>5. /\ \A p \in Proc : p # T => /\ state'[p] = state[p] /\ param_data'[p] = param_data[p]
                                  /\ resume'[p] = resume[p]
      /\ state'[T] = "RECEIVE_BLOCKED" /\ resume'[T] = "receive"
  BY <1>2, <1>3 DEF TypeOK
<1>6. TimerTypeOK' /\ Places'
  BY <1>1 DEF TInv, TimerTypeOK, Places
<1>7. Roles'
  BY <1>1, <1>3, <1>5, KernelAssumption DEF TInv, Roles
<1>8. ~ HasItem /\ ~ HasItem'
  BY <1>4, <1>5 DEF HasItem
<1>9. Requests'
  BY <1>1, <1>3, <1>5, <1>8 DEF TInv, Requests
<1>10. Signalled' <=> Signalled
  BY <1>1, <1>5 DEF Signalled
<1>11. \A p \in Sleeper : /\ Taken(p)' <=> Taken(p)
                          /\ AtTimer(p)' <=> AtTimer(p)
                          /\ AtNotifier(p)' <=> AtNotifier(p)
  BY <1>1, <1>3, <1>5, <1>8, <1>10 DEF Taken, AtTimer, AtNotifier, Received, Ahead
<1>12. Entries'
  BY <1>1, <1>3 DEF TInv, Entries, Taken, Received
<1>13. Pace'
  <2>1. ASSUME NEW p \in Sleeper, state'[p] # "READY"
        PROVE  InPace(p)'
    <3>1. state[p] # "READY" /\ param_data'[p] = param_data[p]
      BY <2>1, <1>5
    <3>2. QED
      BY <3>1, <1>1, <1>11, PaceKept
  <2>2. QED
    BY <2>1 DEF Pace
<1>14. NeverEarly'
  BY <1>1, <1>5 DEF TInv, NeverEarly
<1>15. Undelayed'
  BY <1>2, <1>3, <1>7, SwitchKeepsUndelayed
<1>16. QED
  BY <1>2, <1>6, <1>7, <1>9, <1>12, <1>13, <1>14, <1>15 DEF TInv

\* On its return receive() reports what was handed over.
LEMMA TimerReturns ==
  ASSUME TInv, timer_receive, receive_resume(T), Goes(T, "receive", "received")
  PROVE  TInv'
<1> USE TimerConstants DEF T, N
<1> DEFINE x == param_proc[T]
           y == param_data[T]
<1>1. UNCHANGED <<timer_port, ticks_left, i, elapsed>>
  BY DEF timer_receive
<1>2. KInv /\ TypeOK /\ KInv'
  BY ReceiveResumeStep DEF TInv, KInv
<1>3. /\ pc[T] = "receive" /\ pc'[T] = "received" /\ Places'
      /\ pc'[N] = pc[N] /\ pc'[Boot] = pc[Boot]
  BY PcFacts
<1>4. state[T] = "READY" /\ resume[T] = "receive"
  BY <1>2, QueueFacts DEF receive_resume
<1>5. /\ got' = [got EXCEPT ![T] = [sender |-> x, data |-> y]]
      /\ owed' = [owed EXCEPT ![T] = IF y \in Request THEN @ \cup {x} ELSE @]
      /\ resume' = [resume EXCEPT ![T] = "user"]
      /\ UNCHANGED <<active_proc, state, param_proc, param_data, blocked>>
  BY DEF receive_resume, Return
<1>6. /\ got'[T] = [sender |-> x, data |-> y]
      /\ owed'[T] = IF y \in Request THEN owed[T] \cup {x} ELSE owed[T]
      /\ resume'[T] = "user"
      /\ \A p \in Proc : p # T => resume'[p] = resume[p] /\ owed'[p] = owed[p]
  BY <1>2, <1>5 DEF TypeOK
<1>7. HasItem /\ ~ HasItem'
  BY <1>4, <1>6 DEF HasItem
<1>8. /\ x \in Sleeper \cup {N} /\ y \in Data /\ (y \in Request <=> x \in Sleeper)
      /\ y \in Request => x \notin owed[T] /\ param_data[x] = y
      /\ y \notin Request => x = N
      /\ owed[T] \subseteq Sleeper
  BY <1>7, PlaceFacts DEF TInv, Requests
<1> HIDE DEF x, y
<1>9. TimerTypeOK'
  BY <1>1, <1>3 DEF TInv, TimerTypeOK
<1>10. Roles'
  BY <1>3, <1>5, <1>6, KernelAssumption DEF TInv, Roles
<1>11. Requests'
  <2>1. ASSUME NEW p \in Sleeper
        PROVE  /\ param_data'[p] \in Request \cup {NULL}
               /\ state'[p] # "READY" => param_data'[p] \in Request
    BY <1>5 DEF TInv, Requests
  <2>2. got'[T].data = y /\ got'[T].sender = x
    BY <1>6
  <2>3. y \in Request => x \in owed'[T] /\ param_data'[x] = y
    BY <1>5, <1>6, <1>8
  <2>4. IF y \in Request THEN x \in owed'[T] /\ param_data'[x] = y ELSE x = N
    BY <2>3, <1>8
  <2>5. /\ got'[T].data \in Data
        /\ IF got'[T].data \in Request
           THEN got'[T].sender \in owed'[T] /\ param_data'[got'[T].sender] = got'[T].data
           ELSE got'[T].sender = N
    BY <2>2, <2>4, <1>8
  <2>6. QED
    BY <2>1, <2>5, <1>7 DEF Requests, Received
<1>12. Signalled' <=> Signalled
  BY <1>3, <1>5, <1>6 DEF Signalled
<1>13. \A p \in Proc : Taken(p)' <=> Taken(p)
  BY <1>3, <1>6, <1>8 DEF Taken, Received
<1>14. \A p \in Proc : /\ AtTimer(p)' => AtTimer(p)
                       /\ AtNotifier(p)' <=> AtNotifier(p)
  BY <1>3, <1>5, <1>6, <1>7, <1>12, <1>13 DEF AtTimer, AtNotifier, Received, Ahead, y
<1>15. Entries'
  BY <1>1, <1>13 DEF TInv, Entries
<1>16. Pace'
  <2>1. ASSUME NEW p \in Sleeper, state'[p] # "READY"
        PROVE  InPace(p)'
    BY <2>1, <1>1, <1>5, <1>13, <1>14, PaceKept
  <2>2. QED
    BY <2>1 DEF Pace
<1>17. NeverEarly' /\ Undelayed'
  BY <1>1, <1>5, <1>12 DEF TInv, NeverEarly, Undelayed
<1>18. QED
  BY <1>2, <1>3, <1>9, <1>10, <1>11, <1>15, <1>16, <1>17 DEF TInv

\* receive() takes the first in the list of the port.
LEMMA TimerTakes ==
  ASSUME TInv, timer_receive, receive_pending(T), Goes(T, "receive", "received")
  PROVE  TInv'
<1> USE TimerConstants DEF T, N
<1> DEFINE s == blocked[timers]
           x == Head(s)
           y == param_data[x]
<1>1. UNCHANGED <<timer_port, ticks_left, i, elapsed>>
  BY DEF timer_receive
<1>2. KInv /\ TypeOK /\ KInv'
  BY ReceivePendingStep DEF TInv, KInv
<1>3. /\ pc[T] = "receive" /\ pc'[T] = "received" /\ Places'
      /\ pc'[N] = pc[N] /\ pc'[Boot] = pc[Boot]
  BY PcFacts
<1>4. state[T] = "READY" /\ resume[T] = "user" /\ ~ HasItem /\ Pending(T) # {}
  BY <1>2, QueueFacts DEF receive_pending, Running, HasItem
<1>5. FirstPending(T) = timers
  BY <1>2, <1>4, PendingFacts DEF TInv, Roles
<1>6. s # << >> /\ x \in Members(s) /\ s \in Seq(Proc) /\ x \in Proc
  BY <1>2, <1>4, <1>5, PendingFacts, PlaceFacts
<1>7. /\ got' = [got EXCEPT ![T] = [sender |-> x, data |-> y]]
      /\ owed' = [owed EXCEPT ![T] = IF y \in Request THEN @ \cup {x} ELSE @]
      /\ blocked' = [blocked EXCEPT ![timers] = Tail(@)]
      /\ Accept(x)
      /\ UNCHANGED <<active_proc, param_proc, param_data, resume>>
  BY <1>5 DEF receive_pending, Return
<1> HIDE DEF x, y
<1>8. \/ x = N /\ state[N] = "MESSAGE_BLOCKED" /\ state'[N] = "READY" /\ y \in Note /\ y \notin Request
      \/ /\ x \in Sleeper /\ state[x] = "SEND_BLOCKED" /\ state'[x] = "REPLY_BLOCKED"
         /\ y \in Request
  <2>1. x \in Sleeper \cup {N}
    BY <1>6, PlaceFacts
  <2>2. CASE x = N
    <3>1. state[N] = "MESSAGE_BLOCKED"
      BY <2>2, <1>6, PlaceFacts
    <3>2. QED
      BY <2>2, <3>1, <1>2, <1>7, KernelAssumption DEF y, Accept, TypeOK, KInv, ParametersMatch
  <2>3. CASE x \in Sleeper
    <3>1. state[x] = "SEND_BLOCKED"
      BY <2>3, <1>6, PlaceFacts
    <3>2. QED
      BY <2>3, <3>1, <1>2, <1>7 DEF y, Accept, TypeOK, KInv, ParametersMatch
  <2>4. QED
    BY <2>1, <2>2, <2>3
<1>9. /\ got'[T] = [sender |-> x, data |-> y]
      /\ owed'[T] = IF y \in Request THEN owed[T] \cup {x} ELSE owed[T]
      /\ \A p \in Proc : p # T => owed'[p] = owed[p]
      /\ \A p \in Proc : p # x => state'[p] = state[p]
      /\ \A o \in Port : o # timers => blocked'[o] = blocked[o]
      /\ blocked'[timers] = Tail(s)
  BY <1>2, <1>7 DEF TypeOK, Accept
<1>10. y \in Data /\ (x \in Sleeper => x \notin owed[T]) /\ owed[T] \subseteq Sleeper
  BY <1>8, PlaceFacts DEF Data
<1>11. TimerTypeOK'
  BY <1>1, <1>3 DEF TInv, TimerTypeOK
<1>12. Roles'
  <2>1. ASSUME NEW p \in Proc
        PROVE  /\ state'[p] \in {"SEND_BLOCKED", "REPLY_BLOCKED"} => p \in Sleeper
               /\ state'[p] = "MESSAGE_BLOCKED" => p = N /\ pc'[N] = "start"
               /\ resume'[p] = "receive" => p = T /\ pc'[T] = "receive"
               /\ resume'[p] \in Irq => p = N /\ pc'[N] = "waiting"
               /\ owed'[p] # {} => p = T
    <3>1. resume[p] = "receive" => p = T
      BY DEF TInv, Roles
    <3>2. resume[p] # "receive"
      BY <3>1, <1>4
    <3>3. p = x => state'[p] \in {"READY", "REPLY_BLOCKED"}
      BY <1>8
    <3>4. state'[p] = "REPLY_BLOCKED" => p \in Sleeper
      BY <1>8, <1>9 DEF TInv, Roles
    <3>5. p # x => state'[p] = state[p]
      BY <1>9
    <3>6. QED
      BY <3>2, <3>3, <3>4, <3>5, <1>3, <1>7, <1>9 DEF TInv, Roles
  <2>2. pc'[N] = "tell" => state'[N] = "READY" /\ resume'[N] = "user"
    BY <1>3, <1>7, <1>8, <1>9 DEF TInv, Roles
  <2>3. QED
    BY <2>1, <2>2, <1>9 DEF TInv, Roles
<1>13. ~ HasItem'
  BY <1>4, <1>7 DEF HasItem
<1>14. Requests'
  BY <1>3, <1>7, <1>8, <1>9, <1>10, <1>13 DEF TInv, Requests, Received, y
<1>15. Signalled' <=> Signalled
  BY <1>3, <1>7, <1>8, <1>9, KernelAssumption DEF Signalled, TInv, Roles
<1>16. \A p \in Proc : Taken(p)' <=> Taken(p)
  BY <1>3, <1>8, <1>9, <1>10 DEF Taken, Received
<1>17. Entries'
  BY <1>1, <1>16 DEF TInv, Entries
<1>18. ASSUME x = N
       PROVE  \A p \in Sleeper : state[p] # "READY" => Coming(p)' <= Coming(p)
  <2>1. ASSUME NEW p \in Sleeper PROVE Coming(p)' <= Coming(p)
    <3>1. ~ AtTimer(p) /\ (AtTimer(p)' => Taken(p))
      BY <1>3, <1>4, <1>16 DEF AtTimer, Ahead
    <3>2. ~ Signalled' /\ ~ AtNotifier(p)'
      BY <1>18, <1>3, <1>7, <1>8, KernelAssumption DEF Signalled, AtNotifier, TInv, Roles
    <3>3. Taken(p) => AtNotifier(p)
      BY <1>18, <1>8, PlaceFacts DEF Taken, AtNotifier
    <3>4. QED
      BY <3>1, <3>2, <3>3 DEF Coming
  <2>2. QED
    BY <2>1
<1>19. ASSUME x \in Sleeper
       PROVE  \A p \in Sleeper : state[p] # "READY" => Coming(p)' <= Coming(p)
  <2>1. ASSUME NEW p \in Sleeper PROVE Coming(p)' <= Coming(p)
    <3>1. ~ AtTimer(p)'
      BY <1>19, <1>3, <1>8, <1>9, <1>13 DEF AtTimer, Received, Ahead
    <3>2. ASSUME state[N] = "MESSAGE_BLOCKED", p = x
          PROVE  \E j, k \in 1 .. Len(s) : j < k /\ s[j] = p /\ s[k] = N
      <4>1. N \in Members(s)
        BY <3>2, PlaceFacts
      <4>2. PICK k \in 1 .. Len(s) : s[k] = N
        BY <4>1 DEF Members
      <4>3. x = s[1] /\ 1 \in 1 .. Len(s)
        BY <1>6 DEF x
      <4>4. 1 < k
        BY <1>19, <4>2, <4>3
      <4>5. QED
        BY <3>2, <4>2, <4>3, <4>4
    <3>3. ASSUME NEW j \in 1 .. Len(Tail(s)), NEW k \in 1 .. Len(Tail(s)), j < k,
                 Tail(s)[j] = p, Tail(s)[k] = N
          PROVE  \E m, n \in 1 .. Len(s) : m < n /\ s[m] = p /\ s[n] = N
      <4>1. /\ Len(Tail(s)) = Len(s) - 1 /\ Len(s) \in Nat
            /\ \A m \in 1 .. Len(s) - 1 : Tail(s)[m] = s[m + 1]
        BY <1>6, HeadTailProperties
      <4>2. /\ j + 1 \in 1 .. Len(s) /\ k + 1 \in 1 .. Len(s) /\ j + 1 < k + 1
            /\ s[j + 1] = p /\ s[k + 1] = N
        BY <4>1, <3>3
      <4>3. QED
        BY <4>2
    <3>4. state'[N] = state[N]
      BY <1>19, <1>9
    <3>5. AtNotifier(p)' => AtNotifier(p)
      <4>1. CASE p = x
        BY <4>1, <3>2, <3>4, <1>15 DEF AtNotifier
      <4>2. CASE p # x
        BY <4>2, <3>3, <3>4, <1>9, <1>15 DEF AtNotifier
      <4>3. QED
        BY <4>1, <4>2
    <3>6. QED
      BY <3>1, <3>5 DEF Coming
  <2>2. QED
    BY <2>1
<1>20. Pace'
  <2>1. ASSUME NEW p \in Sleeper, state'[p] # "READY"
        PROVE  InPace(p)'
    <3>1. state[p] # "READY" /\ param_data'[p] = param_data[p] /\ elapsed[p] \in Nat
      BY <2>1, <1>7, <1>8, <1>9 DEF TInv, TimerTypeOK
    <3>2. Left(p) \in Nat /\ Left(p)' = Left(p)
      BY <3>1, <1>1, <1>16, PaceFacts DEF Left
    <3>3. Coming(p) \in Int /\ Coming(p)' \in Int /\ Coming(p)' <= Coming(p)
      BY <3>1, <1>8, <1>18, <1>19 DEF Coming
    <3>4. QED
      BY <3>1, <3>2, <3>3, <1>1, PaceMoved
  <2>2. QED
    BY <2>1 DEF Pace
<1>21. NeverEarly'
  BY <1>1, <1>7, <1>8, <1>9 DEF TInv, NeverEarly
<1>22. Undelayed'
  BY <1>7, <1>15 DEF TInv, Undelayed
<1>23. QED
  BY <1>2, <1>3, <1>11, <1>12, <1>14, <1>17, <1>20, <1>21, <1>22 DEF TInv

-------------------------------------------------------------------------------
(* The array of the timer.                                                    *)

\* A request is written to ticks_left, and counts as taken from here on.
LEMMA RequestStep ==
  ASSUME TInv, timer_request
  PROVE  TInv'
<1> USE TimerConstants DEF T, N
<1> DEFINE x == got[T].sender
           y == got[T].data
<1>1. /\ Goes(T, "received", "receive") /\ y # NoMessage
      /\ ticks_left' = [ticks_left EXCEPT ![Slot(x)] = y[1]]
      /\ UNCHANGED <<vars, timer_port, i, elapsed>>
  BY DEF timer_request, Received
<1>2. KInv /\ KInv'
  BY <1>1, StutterStep DEF TInv
<1>3. /\ pc[T] = "received" /\ pc'[T] = "receive" /\ Places'
      /\ pc'[N] = pc[N] /\ pc'[Boot] = pc[Boot]
  BY <1>1, PcFacts
<1>4. UNCHANGED <<active_proc, state, param_proc, param_data, blocked, resume, got, owed>>
  BY <1>1 DEF vars
<1>5. y \in Request /\ x \in owed[T] /\ x \in Sleeper /\ param_data[x] = y /\ y[1] \in Nat
  BY <1>1, <1>3, PlaceFacts DEF TInv, Requests, Received
<1>6. ~ HasItem /\ ~ HasItem'
  BY <1>3, <1>4 DEF HasItem, TInv, Roles
<1>7. /\ ticks_left' \in [1 .. Len(pcb) -> Nat]
      /\ ticks_left'[Slot(x)] = y[1]
      /\ \A p \in Proc : p # x => ticks_left'[Slot(p)] = ticks_left[Slot(p)]
  <2>1. \A p \in Proc : p # x => Slot(p) # Slot(x)
    BY <1>5, SlotFacts
  <2>2. ticks_left \in [1 .. Len(pcb) -> Nat] /\ \A p \in Proc : Slot(p) \in 1 .. Len(pcb)
    BY SlotFacts DEF TInv, TimerTypeOK
  <2>3. QED
    BY <2>1, <2>2, <1>1, <1>5
<1> HIDE DEF y
<1>8. TimerTypeOK'
  BY <1>1, <1>3, <1>7 DEF TInv, TimerTypeOK
<1>9. Roles'
  BY <1>3, <1>4 DEF TInv, Roles
<1>10. Requests'
  BY <1>3, <1>4, <1>6 DEF TInv, Requests
<1>11. \A p \in Proc : p = x => ~ Taken(p) /\ Taken(p)'
  BY <1>3, <1>4, <1>5 DEF Taken, Received
<1>12. \A p \in Proc : p # x => (Taken(p)' <=> Taken(p))
  BY <1>3, <1>4 DEF Taken, Received
<1>13. Signalled' <=> Signalled
  BY <1>3, <1>4 DEF Signalled
<1>14. \A p \in Proc : ~ AtTimer(p)' /\ (AtNotifier(p)' <=> AtNotifier(p))
  BY <1>3, <1>4, <1>6, <1>13 DEF AtTimer, AtNotifier, Ahead
<1>15. Entries'
  <2>1. ASSUME NEW p \in Proc, ticks_left'[Slot(p)] # 0 PROVE Taken(p)'
    <3>1. CASE p = x
      BY <3>1, <1>11
    <3>2. CASE p # x
      <4>1. ticks_left[Slot(p)] # 0
        BY <2>1, <3>2, <1>7
      <4>2. QED
        BY <4>1, <3>2, <1>12 DEF TInv, Entries
    <3>3. QED
      BY <3>1, <3>2
  <2>2. QED
    BY <2>1 DEF Entries
<1>16. Pace'
  <2>1. ASSUME NEW p \in Sleeper, state'[p] # "READY"
        PROVE  InPace(p)'
    <3>1. state[p] # "READY" /\ param_data'[p] = param_data[p] /\ elapsed[p] \in Nat
      BY <2>1, <1>4 DEF TInv, TimerTypeOK
    <3>2. Left(p) \in Nat /\ Left(p)' = Left(p)
      BY <3>1, <1>4, <1>5, <1>7, <1>11, <1>12, PaceFacts DEF Left
    <3>3. Coming(p) \in Int /\ Coming(p)' \in Int /\ Coming(p)' <= Coming(p)
      BY <1>14 DEF Coming
    <3>4. QED
      BY <3>1, <3>2, <3>3, <1>1, PaceMoved
  <2>2. QED
    BY <2>1 DEF Pace
<1>17. NeverEarly' /\ Undelayed'
  BY <1>1, <1>4, <1>13 DEF TInv, NeverEarly, Undelayed
<1>18. QED
  BY <1>2, <1>3, <1>8, <1>9, <1>10, <1>15, <1>16, <1>17 DEF TInv

\* A tick starts a walk from the first PCB, with everybody ahead.
LEMMA TickStep ==
  ASSUME TInv, timer_tick
  PROVE  TInv'
<1> USE TimerConstants DEF T, N
<1>1. /\ Goes(T, "received", "scan") /\ Received.data = NoMessage /\ i' = 1
      /\ UNCHANGED <<vars, timer_port, ticks_left, elapsed>>
  BY DEF timer_tick
<1>2. KInv /\ KInv'
  BY <1>1, StutterStep DEF TInv
<1>3. /\ pc[T] = "received" /\ pc'[T] = "scan" /\ Places'
      /\ pc'[N] = pc[N] /\ pc'[Boot] = pc[Boot]
  BY <1>1, PcFacts
<1>4. UNCHANGED <<active_proc, state, param_proc, param_data, blocked, resume, got, owed>>
  BY <1>1 DEF vars
<1>5. Received.data \notin Request /\ Received.sender = N /\ N \notin owed[T]
  BY <1>1, <1>3, PlaceFacts DEF TInv, Requests
<1>6. ~ HasItem /\ ~ HasItem'
  BY <1>3, <1>4 DEF HasItem, TInv, Roles
<1>7. TimerTypeOK'
  BY <1>1, <1>3, SlotFacts DEF TInv, TimerTypeOK
<1>8. Roles'
  BY <1>3, <1>4 DEF TInv, Roles
<1>9. Requests'
  BY <1>3, <1>4, <1>6 DEF TInv, Requests
<1>10. \A p \in Proc : Taken(p)' <=> Taken(p)
  BY <1>3, <1>4, <1>5 DEF Taken
<1>11. Signalled' <=> Signalled
  BY <1>3, <1>4 DEF Signalled
<1>12. \A p \in Proc : /\ AtTimer(p)' => AtTimer(p)
                       /\ AtNotifier(p)' <=> AtNotifier(p)
  BY <1>3, <1>4, <1>5, <1>10, <1>11 DEF AtTimer, AtNotifier
<1>13. Entries'
  BY <1>1, <1>10 DEF TInv, Entries
<1>14. Pace'
  <2>1. ASSUME NEW p \in Sleeper, state'[p] # "READY"
        PROVE  InPace(p)'
    BY <2>1, <1>1, <1>4, <1>10, <1>12, PaceKept
  <2>2. QED
    BY <2>1 DEF Pace
<1>15. NeverEarly' /\ Undelayed'
  BY <1>1, <1>4, <1>11 DEF TInv, NeverEarly, Undelayed
<1>16. QED
  BY <1>2, <1>3, <1>7, <1>8, <1>9, <1>13, <1>14, <1>15 DEF TInv

\* What one iteration of the walk does to the entry of its process, and to it
\* alone.
LEMMA ScanFacts ==
  ASSUME TInv, timer_scan
  PROVE  /\ i \in 1 .. Len(pcb) /\ pcb[i] \in Proc /\ Slot(pcb[i]) = i
         /\ pc[T] = "scan" /\ ~ HasItem /\ resume[T] = "user"
         /\ pc' = pc /\ timer_port' = timer_port /\ elapsed' = elapsed
         /\ TimerTypeOK' /\ Places'
         /\ ticks_left'[i] = Countdown(ticks_left[i])
         /\ ticks_left[i] \in Nat
         /\ \A p \in Proc : p # pcb[i] => /\ ticks_left'[Slot(p)] = ticks_left[Slot(p)]
                                          /\ Ahead(p)' <=> Ahead(p)
         /\ \A p \in Proc : p = pcb[i] => Ahead(p) /\ ~ Ahead(p)'
<1> USE TimerConstants DEF T, N
<1>1. /\ pc[T] = "scan" /\ ~ AtEnd /\ i' = i + 1 /\ Running(T)
      /\ ticks_left' = [ticks_left EXCEPT ![i] = Countdown(@)]
      /\ UNCHANGED <<pc, timer_port, elapsed>>
  BY DEF timer_scan
<1>2. /\ i \in 1 .. Len(pcb) /\ i' \in 1 .. Len(pcb) + 1
      /\ ticks_left \in [1 .. Len(pcb) -> Nat]
  BY <1>1, SlotFacts DEF TInv, TimerTypeOK, AtEnd
<1>3. pcb[i] \in Proc /\ Slot(pcb[i]) = i
  BY <1>2, SlotFacts
<1>4. ticks_left' \in [1 .. Len(pcb) -> Nat] /\ ticks_left'[i] = Countdown(ticks_left[i])
  BY <1>1, <1>2 DEF Countdown
<1>5. ASSUME NEW p \in Proc, p # pcb[i]
      PROVE  Slot(p) \in 1 .. Len(pcb) /\ Slot(p) # i
  BY <1>3, <1>5, SlotFacts
<1>6. ASSUME NEW p \in Proc, p # pcb[i]
      PROVE  ticks_left'[Slot(p)] = ticks_left[Slot(p)] /\ (Ahead(p)' <=> Ahead(p))
  <2>1. Slot(p) >= i + 1 <=> Slot(p) >= i
    BY <1>2, <1>5, <1>6
  <2>2. QED
    BY <2>1, <1>1, <1>2, <1>5, <1>6 DEF Ahead
<1>7. \A p \in Proc : p = pcb[i] => Ahead(p) /\ ~ Ahead(p)'
  BY <1>1, <1>2, <1>3 DEF Ahead
<1>8. TimerTypeOK' /\ Places'
  BY <1>1, <1>2, <1>4 DEF TInv, TimerTypeOK, Places
<1>9. resume[T] = "user" /\ ~ HasItem
  BY <1>1 DEF Running, HasItem
<1>10. QED
  BY <1>1, <1>2, <1>3, <1>4, <1>6, <1>7, <1>8, <1>9

\* The walk passes a process that does not sleep or has to sleep on.
LEMMA CountStep ==
  ASSUME TInv, timer_scan, ticks_left[i] # 1
  PROVE  TInv'
<1> USE TimerConstants DEF T, N
<1>1. UNCHANGED <<vars, pc, timer_port, elapsed>>
  BY DEF timer_scan
<1>2. KInv /\ KInv'
  BY <1>1, StutterStep DEF TInv
<1>3. UNCHANGED <<active_proc, state, param_proc, param_data, blocked, resume, got, owed>>
  BY <1>1 DEF vars
<1>4. Roles' /\ Requests' /\ NeverEarly'
  <2>1. HasItem' <=> HasItem
    BY <1>3 DEF HasItem
  <2>2. QED
    BY <2>1, <1>1, <1>3 DEF TInv, Roles, Requests, NeverEarly, Received
<1>5. Signalled' <=> Signalled
  BY <1>1, <1>3 DEF Signalled
<1>6. \A p \in Proc : /\ Taken(p)' <=> Taken(p)
                      /\ AtNotifier(p)' <=> AtNotifier(p)
                      /\ AtTimer(p) <=> Taken(p) /\ Ahead(p)
                      /\ AtTimer(p)' <=> Taken(p)' /\ Ahead(p)'
  BY <1>1, <1>3, <1>5, ScanFacts DEF Taken, AtNotifier, AtTimer, HasItem, Received
<1>7. Entries'
  <2>1. ASSUME NEW p \in Proc, ticks_left'[Slot(p)] # 0
        PROVE  ticks_left[Slot(p)] # 0
    BY <2>1, ScanFacts DEF Countdown
  <2>2. QED
    BY <2>1, <1>6 DEF TInv, Entries
<1>8. Pace'
  <2>1. ASSUME NEW p \in Sleeper, state'[p] # "READY"
        PROVE  InPace(p)'
    <3>1. state[p] # "READY" /\ param_data'[p] = param_data[p] /\ elapsed[p] \in Nat
      BY <2>1, <1>3 DEF TInv, TimerTypeOK
    <3>2. CASE p # pcb[i] \/ ~ Taken(p)
      <4>1. Left(p) \in Nat /\ Left(p)' = Left(p)
        BY <3>1, <3>2, <1>3, <1>6, ScanFacts, PaceFacts DEF Left
      <4>2. Coming(p) \in Int /\ Coming(p)' = Coming(p)
        BY <3>2, <1>6, ScanFacts DEF Coming
      <4>3. QED
        BY <3>1, <4>1, <4>2, <1>1, PaceMoved
    <3>3. CASE p = pcb[i] /\ Taken(p)
      <4>1. /\ Left(p) = ticks_left[i] /\ Left(p)' = Countdown(ticks_left[i])
            /\ ticks_left[i] \in Nat
        BY <3>3, <1>6, ScanFacts DEF Left
      <4>2. Left(p)' \in Nat /\ Left(p) \in Nat /\ Left(p)' >= Left(p) - 1
        BY <4>1 DEF Countdown
      <4>3. Coming(p) \in Int /\ Coming(p)' = Coming(p) - 1
        BY <3>3, <1>6, ScanFacts DEF Coming
      <4>4. QED
        BY <3>1, <4>2, <4>3, <1>1, PaceMoved
    <3>4. QED
      BY <3>2, <3>3
  <2>2. QED
    BY <2>1 DEF Pace
<1>9. Undelayed'
  BY <1>3, <1>5 DEF TInv, Undelayed
<1>10. QED
  BY <1>2, <1>4, <1>7, <1>8, <1>9, ScanFacts DEF TInv

\* The walk comes to a process whose last tick this is, and answers it.
LEMMA RingStep ==
  ASSUME TInv, timer_scan, ticks_left[i] = 1
  PROVE  TInv'
<1> USE TimerConstants DEF T, N
<1> DEFINE q == pcb[i]
<1>1. reply(T, q) /\ UNCHANGED <<pc, timer_port, elapsed>>
  BY DEF timer_scan
<1>2. q \in Proc /\ ticks_left[Slot(q)] = 1 /\ ticks_left'[Slot(q)] = 0
  BY ScanFacts DEF Countdown
<1>3. Taken(q) /\ q \in owed[T] /\ q \in Sleeper /\ state[q] = "REPLY_BLOCKED"
  BY <1>2, PlaceFacts DEF TInv, Entries, Taken
<1>4. KInv /\ TypeOK /\ KInv'
  BY <1>1, <1>3, ReplyStep DEF TInv, KInv
<1>5. /\ state' = [state EXCEPT ![q] = "READY"]
      /\ owed' = [owed EXCEPT ![T] = @ \ {q}]
      /\ Switch
      /\ UNCHANGED <<param_proc, param_data, blocked, resume, got>>
  BY <1>1, <1>3 DEF reply
<1>6. /\ state'[q] = "READY" /\ owed'[T] = owed[T] \ {q}
      /\ \A p \in Proc : p # q => state'[p] = state[p]
      /\ \A p \in Proc : p # T => owed'[p] = owed[p]
  BY <1>2, <1>4, <1>5 DEF TypeOK
<1>7. elapsed[q] >= param_data[q][1]
  <2>1. AtTimer(q) /\ Left(q) = 1
    BY <1>2, <1>3, ScanFacts DEF AtTimer, Left
  <2>2. Coming(q) \in Int /\ Coming(q) >= 1
    BY <2>1 DEF Coming
  <2>3. elapsed[q] \in Nat /\ param_data[q][1] \in Nat /\ InPace(q)
    BY <1>3, PaceFacts DEF TInv, Pace
  <2>4. QED
    BY <2>1, <2>2, <2>3 DEF InPace
<1> HIDE DEF q
<1>8. Roles'
  BY <1>1, <1>3, <1>5, <1>6 DEF TInv, Roles
<1>9. ~ HasItem /\ ~ HasItem' /\ pc[T] = "scan" /\ pc'[T] = "scan"
  BY <1>1, <1>5, ScanFacts DEF HasItem
<1>10. Requests'
  BY <1>3, <1>5, <1>6, <1>9 DEF TInv, Requests
<1>11. Signalled' <=> Signalled
  BY <1>1, <1>3, <1>5, <1>6 DEF Signalled
<1>12. \A p \in Proc : p # q => /\ Taken(p)' <=> Taken(p)
                                /\ AtTimer(p)' => AtTimer(p)
                                /\ AtNotifier(p)' <=> AtNotifier(p)
  <2>1. ASSUME NEW p \in Proc, p # q
        PROVE  Taken(p)' <=> Taken(p)
    BY <2>1, <1>6, <1>9 DEF Taken
  <2>2. ASSUME NEW p \in Proc, p # q
        PROVE  AtTimer(p)' => AtTimer(p)
    BY <2>1, <2>2, <1>9, ScanFacts DEF AtTimer, q
  <2>3. ASSUME NEW p \in Proc, p # q
        PROVE  AtNotifier(p)' <=> AtNotifier(p)
    BY <2>3, <1>3, <1>5, <1>6, <1>11 DEF AtNotifier
  <2>4. QED
    BY <2>1, <2>2, <2>3
<1>13. Entries'
  <2>1. ASSUME NEW p \in Proc, ticks_left'[Slot(p)] # 0
        PROVE  Taken(p)'
    <3>1. p # q
      BY <2>1, <1>2
    <3>2. ticks_left[Slot(p)] # 0
      BY <2>1, <3>1, ScanFacts DEF q
    <3>3. QED
      BY <3>1, <3>2, <1>12 DEF TInv, Entries
  <2>2. QED
    BY <2>1 DEF Entries
<1>14. Pace'
  <2>1. ASSUME NEW p \in Sleeper, state'[p] # "READY"
        PROVE  InPace(p)'
    <3>1. p # q /\ state[p] # "READY" /\ param_data'[p] = param_data[p] /\ elapsed[p] \in Nat
      BY <2>1, <1>5, <1>6 DEF TInv, TimerTypeOK
    <3>2. ticks_left'[Slot(p)] = ticks_left[Slot(p)]
      BY <3>1, ScanFacts DEF q
    <3>3. QED
      BY <3>1, <3>2, <1>1, <1>12, PaceKept
  <2>2. QED
    BY <2>1 DEF Pace
<1>15. NeverEarly'
  BY <1>1, <1>5, <1>6, <1>7 DEF TInv, NeverEarly
<1>16. Undelayed'
  BY <1>4, <1>5, <1>8, SwitchKeepsUndelayed
<1>17. QED
  BY <1>4, <1>8, <1>10, <1>13, <1>14, <1>15, <1>16, ScanFacts DEF TInv

-------------------------------------------------------------------------------
(* sleep().                                                                   *)

\* A process that calls sleep() finds no tick on its way: the notifier, if it
\* waits at the port, is queued before it, and one that has still to tell of a
\* tick would not have let it run.
LEMMA SleepHandOver ==
  ASSUME TInv, NEW x \in Sleeper, NEW n \in Ticks, sleep(x, n), Receptive(timers)
  PROVE  TInv'
<1> USE TimerConstants DEF T, N
<1> DEFINE y == Pointer(n)
<1>1. /\ timer_port = timers /\ send(x, timers, y)
      /\ elapsed' = [elapsed EXCEPT ![x] = 0]
      /\ UNCHANGED <<pc, timer_port, ticks_left, i>>
  BY DEF sleep, locals, TInv, TimerTypeOK
<1>2. y \in Request /\ y[1] = n /\ n \in Nat
  OBVIOUS
<1> HIDE DEF y
<1>3. KInv /\ TypeOK /\ KInv'
  BY <1>1, <1>2, SendStep DEF TInv, KInv
<1>4. x = active_proc /\ state[x] = "READY" /\ resume[x] = "user" /\ state[T] = "RECEIVE_BLOCKED"
  BY <1>1, <1>3, QueueFacts DEF send, Running, Receptive
<1>5. /\ param_proc' = [param_proc EXCEPT ![T] = x]
      /\ param_data' = [param_data EXCEPT ![T] = y, ![x] = y]
      /\ state' = [state EXCEPT ![x] = "REPLY_BLOCKED", ![T] = "READY"]
      /\ Switch
      /\ UNCHANGED <<blocked, resume, got, owed>>
  BY <1>1 DEF send
<1>6. /\ \A p \in Proc : p # T /\ p # x => state'[p] = state[p] /\ param_data'[p] = param_data[p]
      /\ state'[T] = "READY" /\ param_data'[T] = y /\ param_proc'[T] = x
      /\ state'[x] = "REPLY_BLOCKED" /\ param_data'[x] = y
  BY <1>3, <1>5 DEF TypeOK
<1>7. elapsed' \in [Sleeper -> Nat] /\ elapsed'[x] = 0 /\ \A p \in Sleeper : p # x => elapsed'[p] = elapsed[p]
  BY <1>1 DEF TInv, TimerTypeOK
<1>8. TimerTypeOK' /\ Places'
  BY <1>1, <1>7 DEF TInv, TimerTypeOK, Places
<1>9. Roles'
  <2>1. \A p \in Proc : state'[p] # state[p] => state'[p] = "READY" \/ (p = x /\ state'[p] = "REPLY_BLOCKED")
    BY <1>6
  <2>2. state'[N] = state[N]
    BY <1>6
  <2>3. ASSUME NEW p \in Proc
        PROVE  /\ state'[p] \in {"SEND_BLOCKED", "REPLY_BLOCKED"} => p \in Sleeper
               /\ state'[p] = "MESSAGE_BLOCKED" => p = N /\ pc'[N] = "start"
               /\ resume'[p] = "receive" => p = T /\ pc'[T] = "receive"
               /\ resume'[p] \in Irq => p = N /\ pc'[N] = "waiting"
               /\ owed'[p] # {} => p = T
    BY <2>1, <1>1, <1>5 DEF TInv, Roles
  <2>4. QED
    BY <2>2, <2>3, <1>1, <1>5 DEF TInv, Roles
<1>10. ~ HasItem /\ HasItem' /\ pc[T] = "receive"
  BY <1>4, <1>5, <1>6, PlaceFacts DEF HasItem
<1>11. Requests'
  <2>1. ASSUME NEW p \in Sleeper
        PROVE  /\ param_data'[p] \in Request \cup {NULL}
               /\ state'[p] # "READY" => param_data'[p] \in Request
    BY <1>2, <1>6 DEF TInv, Requests
  <2>2. HasItem' => /\ param_data'[T] \in Request
                    /\ param_data'[param_proc'[T]] = param_data'[T]
    BY <1>2, <1>6
  <2>3. pc'[T] # "received"
    BY <1>1, <1>10
  <2>4. QED
    BY <2>1, <2>2, <2>3 DEF Requests
<1>12. ~ Signalled /\ ~ Signalled'
  BY <1>1, <1>4, <1>5, <1>6 DEF TInv, Undelayed, Signalled
<1>13. \A p \in Proc : Taken(p)' <=> Taken(p)
  BY <1>1, <1>5, <1>10 DEF Taken
<1>14. ~ Taken(x) /\ state[N] # "MESSAGE_BLOCKED" /\ state'[N] # "MESSAGE_BLOCKED"
  <2>1. x \notin owed[T]
    BY <1>4, PlaceFacts
  <2>2. blocked[timers] = << >>
    BY <1>4 DEF TInv, KInv, ReceiverNotMissed, Receptive
  <2>3. N \notin Members(blocked[timers])
    BY <2>2 DEF Members
  <2>4. QED
    BY <2>1, <2>3, <1>6, PlaceFacts DEF Taken
<1>15. \A p \in Sleeper : ~ AtNotifier(p)' /\ ~ AtTimer(p)'
  BY <1>1, <1>2, <1>6, <1>10, <1>12, <1>14 DEF AtNotifier, AtTimer, Ahead
<1>16. Entries'
  BY <1>1, <1>13 DEF TInv, Entries
<1>17. Pace'
  <2>1. ASSUME NEW p \in Sleeper, state'[p] # "READY"
        PROVE  InPace(p)'
    <3>1. CASE p = x
      <4>1. Left(p)' = n /\ Coming(p)' = 0
        BY <3>1, <1>2, <1>6, <1>13, <1>14, <1>15 DEF Left, Coming
      <4>2. QED
        BY <3>1, <4>1, <1>2, <1>6, <1>7 DEF InPace
    <3>2. CASE p # x
      <4>1. /\ state[p] # "READY" /\ param_data'[p] = param_data[p]
            /\ elapsed[p] \in Nat /\ elapsed'[p] = elapsed[p]
        BY <2>1, <3>2, <1>6, <1>7 DEF TInv, TimerTypeOK
      <4>2. QED
        BY <4>1, <1>1, <1>13, <1>15, PaceKept
    <3>3. QED
      BY <3>1, <3>2
  <2>2. QED
    BY <2>1 DEF Pace
<1>18. NeverEarly'
  BY <1>6, <1>7 DEF TInv, NeverEarly
<1>19. Undelayed'
  BY <1>12 DEF Undelayed
<1>20. QED
  BY <1>3, <1>8, <1>9, <1>11, <1>16, <1>17, <1>18, <1>19 DEF TInv

\* sleep() while the timer is busy: the request queues behind the notifier, if
\* that is there, and no tick in the list counts for it.
LEMMA SleepJoins ==
  ASSUME TInv, NEW x \in Sleeper, NEW n \in Ticks, sleep(x, n), ~ Receptive(timers)
  PROVE  TInv'
<1> USE TimerConstants DEF T, N
<1> DEFINE y == Pointer(n)
           s == blocked[timers]
<1>1. /\ timer_port = timers /\ send(x, timers, y)
      /\ elapsed' = [elapsed EXCEPT ![x] = 0]
      /\ UNCHANGED <<pc, timer_port, ticks_left, i>>
  BY DEF sleep, locals, TInv, TimerTypeOK
<1>2. y \in Request /\ y[1] = n /\ n \in Nat
  OBVIOUS
<1> HIDE DEF y
<1>3. KInv /\ TypeOK /\ KInv'
  BY <1>1, <1>2, SendStep DEF TInv, KInv
<1>4. x = active_proc /\ state[x] = "READY" /\ resume[x] = "user"
  BY <1>1, <1>3, QueueFacts DEF send, Running
<1>5. /\ param_data' = [param_data EXCEPT ![x] = y]
      /\ state' = [state EXCEPT ![x] = "SEND_BLOCKED"]
      /\ blocked' = [blocked EXCEPT ![timers] = Append(@, x)]
      /\ UNCHANGED <<param_proc, resume, got, owed>>
  BY <1>1 DEF send, add_to_send_blocked_list
<1>6. /\ \A p \in Proc : p # x => state'[p] = state[p] /\ param_data'[p] = param_data[p]
      /\ state'[x] = "SEND_BLOCKED" /\ param_data'[x] = y
      /\ blocked'[timers] = Append(s, x) /\ s \in Seq(Proc)
      /\ \A o \in Port : o # timers => blocked'[o] = blocked[o]
  BY <1>3, <1>5 DEF TypeOK
<1>7. elapsed' \in [Sleeper -> Nat] /\ elapsed'[x] = 0 /\ \A p \in Sleeper : p # x => elapsed'[p] = elapsed[p]
  BY <1>1 DEF TInv, TimerTypeOK
<1>8. TimerTypeOK' /\ Places'
  BY <1>1, <1>7 DEF TInv, TimerTypeOK, Places
<1>9. Roles'
  <2>1. ASSUME NEW p \in Proc
        PROVE  /\ state'[p] \in {"SEND_BLOCKED", "REPLY_BLOCKED"} => p \in Sleeper
               /\ state'[p] = "MESSAGE_BLOCKED" => p = N /\ pc'[N] = "start"
               /\ resume'[p] = "receive" => p = T /\ pc'[T] = "receive"
               /\ resume'[p] \in Irq => p = N /\ pc'[N] = "waiting"
               /\ owed'[p] # {} => p = T
    BY <1>1, <1>5, <1>6 DEF TInv, Roles
  <2>2. QED
    BY <2>1, <1>1, <1>5, <1>6 DEF TInv, Roles
<1>10. HasItem' <=> HasItem
  BY <1>5, <1>6 DEF HasItem
<1>11. Requests'
  <2>1. ASSUME NEW p \in Sleeper
        PROVE  /\ param_data'[p] \in Request \cup {NULL}
               /\ state'[p] # "READY" => param_data'[p] \in Request
    BY <1>2, <1>6 DEF TInv, Requests
  <2>2. HasItem => /\ param_proc[T] \in Proc
                   /\ param_data[T] \in Request => param_proc[T] # x
    <3>1. HasItem /\ param_data[T] \in Request => state[param_proc[T]] = "REPLY_BLOCKED"
      BY PlaceFacts
    <3>2. QED
      BY <3>1, <1>4, PlaceFacts
  <2>3. pc[T] = "received" /\ Received.data \in Request => Received.sender \in Proc /\ Received.sender # x
    <3>1. pc[T] = "received" /\ Received.data \in Request => Received.sender \in owed[T]
      BY DEF TInv, Requests
    <3>2. QED
      BY <3>1, <1>4, PlaceFacts
  <2>4. QED
    BY <2>1, <2>2, <2>3, <1>1, <1>5, <1>6, <1>10 DEF TInv, Requests, Received
<1>12. ~ Signalled /\ ~ Signalled'
  BY <1>1, <1>4, <1>5, <1>6 DEF TInv, Undelayed, Signalled
<1>13. \A p \in Proc : (Taken(p)' <=> Taken(p)) /\ (AtTimer(p)' <=> AtTimer(p))
  BY <1>1, <1>5, <1>6, <1>10 DEF Taken, AtTimer, Received, Ahead
<1>14. ~ Taken(x) /\ x \notin Members(s)
  BY <1>4, PlaceFacts DEF Taken
<1>15. ASSUME NEW p \in Sleeper, NEW j \in 1 .. Len(blocked'[timers]),
              NEW k \in 1 .. Len(blocked'[timers]), j < k,
              blocked'[timers][j] = p, blocked'[timers][k] = N
       PROVE  j \in 1 .. Len(s) /\ k \in 1 .. Len(s) /\ s[j] = p /\ s[k] = N
  <2>1. /\ Len(Append(s, x)) = Len(s) + 1 /\ Len(s) \in Nat
        /\ Append(s, x)[Len(s) + 1] = x
        /\ \A m \in 1 .. Len(s) : Append(s, x)[m] = s[m]
    BY <1>6, AppendProperties
  <2>2. k # Len(s) + 1
    BY <2>1, <1>6, <1>15
  <2>3. QED
    BY <2>1, <2>2, <1>6, <1>15
<1>16. ~ AtNotifier(x)'
  <2>1. SUFFICES ASSUME NEW j \in 1 .. Len(blocked'[timers]),
                        NEW k \in 1 .. Len(blocked'[timers]), j < k,
                        blocked'[timers][j] = x, blocked'[timers][k] = N
                 PROVE  FALSE
    BY <1>6, <1>12 DEF AtNotifier
  <2>2. j \in 1 .. Len(s) /\ s[j] = x
    BY <2>1, <1>15
  <2>3. QED
    BY <2>2, <1>14 DEF Members
<1>17. \A p \in Sleeper : p # x => (AtNotifier(p)' => AtNotifier(p))
  BY <1>6, <1>12, <1>15 DEF AtNotifier
<1>18. Entries'
  BY <1>1, <1>13 DEF TInv, Entries
<1>19. Pace'
  <2>1. ASSUME NEW p \in Sleeper, state'[p] # "READY"
        PROVE  InPace(p)'
    <3>1. CASE p = x
      <4>1. ~ AtTimer(x) /\ ~ Taken(x)' /\ ~ AtTimer(x)'
        BY <1>13, <1>14 DEF AtTimer
      <4>2. Left(p)' = n /\ Coming(p)' = 0
        BY <3>1, <4>1, <1>2, <1>6, <1>16 DEF Left, Coming
      <4>3. QED
        BY <3>1, <4>2, <1>2, <1>6, <1>7 DEF InPace
    <3>2. CASE p # x
      <4>1. /\ state[p] # "READY" /\ param_data'[p] = param_data[p]
            /\ elapsed[p] \in Nat /\ elapsed'[p] = elapsed[p]
        BY <2>1, <3>2, <1>6, <1>7 DEF TInv, TimerTypeOK
      <4>2. QED
        BY <3>2, <4>1, <1>1, <1>13, <1>17, PaceKept
    <3>3. QED
      BY <3>1, <3>2
  <2>2. QED
    BY <2>1 DEF Pace
<1>20. NeverEarly'
  BY <1>6, <1>7 DEF TInv, NeverEarly
<1>21. Undelayed'
  BY <1>12 DEF Undelayed
<1>22. QED
  BY <1>3, <1>8, <1>9, <1>11, <1>18, <1>19, <1>20, <1>21 DEF TInv

-------------------------------------------------------------------------------
(* The interrupt.                                                             *)

\* No request is for more ticks than Enough.
LEMMA EnoughFacts ==
  Enough \in Ticks /\ Enough \in Nat /\ \A k \in Ticks : k <= Enough
BY TimerAssumption DEF Enough

\* Time passes for those who sleep.
LEMMA TimePasses ==
  ASSUME TInv, isr_timer
  PROVE  /\ elapsed' \in [Sleeper -> Nat]
         /\ \A p \in Sleeper :
              /\ elapsed'[p] >= elapsed[p]
              /\ state[p] = "READY" => elapsed'[p] = elapsed[p]
              /\ state[p] # "READY" =>
                   elapsed[p] >= param_data[p][1] \/ elapsed'[p] = elapsed[p] + 1
<1>1. elapsed \in [Sleeper -> Nat]
  BY DEF TInv, TimerTypeOK
<1>2. elapsed' = [p \in Sleeper |-> IF state[p] # "READY" /\ elapsed[p] < Enough
                                    THEN elapsed[p] + 1 ELSE elapsed[p]]
  BY DEF isr_timer
<1>3. ASSUME NEW p \in Sleeper, state[p] # "READY", elapsed[p] >= Enough
      PROVE  elapsed[p] >= param_data[p][1]
  <2>1. param_data[p][1] \in Ticks /\ param_data[p][1] \in Nat
    BY <1>3, PaceFacts, TimerConstants
  <2>2. QED
    BY <2>1, <1>1, <1>3, EnoughFacts
<1>4. QED
  BY <1>1, <1>2, <1>3, EnoughFacts

\* The notifier waits and is woken.
LEMMA IsrWakes ==
  ASSUME TInv, isr_timer, Waiting(TIMER_IRQ)
  PROVE  TInv'
<1> USE TimerConstants DEF T, N
<1>1. interrupt(TIMER_IRQ) /\ UNCHANGED <<pc, timer_port, ticks_left, i>>
  BY DEF isr_timer, locals
<1>2. KInv /\ TypeOK /\ KInv'
  BY <1>1, InterruptStep DEF TInv, KInv
<1>3. interrupt_table[TIMER_IRQ] = N /\ resume[N] = TIMER_IRQ /\ pc[N] = "waiting"
  <2> DEFINE q == interrupt_table[TIMER_IRQ]
  <2>1. q \in Proc /\ resume[q] = TIMER_IRQ
    BY <1>2 DEF Waiting, TypeOK, KInv, SlotsMatchWaiters
  <2>2. QED
    BY <2>1 DEF TInv, Roles
<1>4. /\ state' = [state EXCEPT ![N] = "READY"] /\ Switch
      /\ UNCHANGED <<param_proc, param_data, blocked, resume, got, owed>>
  BY <1>1, <1>3 DEF interrupt, Waiting
<1>5. state'[N] = "READY" /\ \A p \in Proc : p # N => state'[p] = state[p]
  BY <1>2, <1>4 DEF TypeOK
<1>6. TimerTypeOK' /\ Places'
  BY <1>1, TimePasses DEF TInv, TimerTypeOK, Places
<1>7. Roles'
  BY <1>1, <1>4, <1>5 DEF TInv, Roles
<1>8. HasItem' <=> HasItem
  BY <1>4, <1>5 DEF HasItem
<1>9. Requests'
  BY <1>1, <1>4, <1>5, <1>8 DEF TInv, Requests, Received
<1>10. \A p \in Proc : (Taken(p)' <=> Taken(p)) /\ (AtTimer(p)' <=> AtTimer(p))
  BY <1>1, <1>4, <1>8 DEF Taken, AtTimer, Received, Ahead
<1>11. Entries'
  BY <1>1, <1>10 DEF TInv, Entries
<1>12. Pace'
  <2>1. ASSUME NEW p \in Sleeper, state'[p] # "READY"
        PROVE  InPace(p)'
    <3>1. /\ state[p] # "READY" /\ param_data'[p] = param_data[p]
          /\ elapsed[p] \in Nat /\ elapsed'[p] \in Nat /\ elapsed'[p] >= elapsed[p]
          /\ elapsed[p] >= param_data[p][1] \/ elapsed'[p] = elapsed[p] + 1
      BY <2>1, <1>4, <1>5, TimePasses DEF TInv, TimerTypeOK
    <3>2. Left(p) \in Nat /\ Left(p)' = Left(p)
      BY <3>1, <1>1, <1>10, PaceFacts DEF Left
    <3>3. Coming(p) \in Int /\ Coming(p)' \in Int /\ Coming(p)' <= Coming(p) + 1
      BY <1>10 DEF Coming
    <3>4. QED
      BY <3>1, <3>2, <3>3, PaceMoved
  <2>2. QED
    BY <2>1 DEF Pace
<1>13. NeverEarly'
  BY <1>4, <1>5, TimePasses DEF TInv, NeverEarly
<1>14. Undelayed'
  BY <1>2, <1>4, <1>7, SwitchKeepsUndelayed
<1>15. QED
  BY <1>2, <1>6, <1>7, <1>9, <1>11, <1>12, <1>13, <1>14 DEF TInv

\* Nobody waits, and the tick is lost.
LEMMA IsrIgnored ==
  ASSUME TInv, isr_timer, ~ Waiting(TIMER_IRQ)
  PROVE  TInv'
<1> USE TimerConstants DEF T, N
<1>1. interrupt(TIMER_IRQ) /\ UNCHANGED <<pc, timer_port, ticks_left, i>>
  BY DEF isr_timer, locals
<1>2. KInv /\ TypeOK /\ KInv'
  BY <1>1, InterruptStep DEF TInv, KInv
<1>3. Switch /\ UNCHANGED <<state, param_proc, param_data, blocked, resume, got, owed>>
  BY <1>1 DEF interrupt
<1>4. TimerTypeOK' /\ Places'
  BY <1>1, TimePasses DEF TInv, TimerTypeOK, Places
<1>5. Roles'
  BY <1>1, <1>3 DEF TInv, Roles
<1>6. HasItem' <=> HasItem
  BY <1>3 DEF HasItem
<1>7. Requests'
  BY <1>1, <1>3, <1>6 DEF TInv, Requests, Received
<1>8. Signalled' <=> Signalled
  BY <1>1, <1>3 DEF Signalled
<1>9. \A p \in Proc : /\ Taken(p)' <=> Taken(p)
                      /\ AtTimer(p)' <=> AtTimer(p)
                      /\ AtNotifier(p)' <=> AtNotifier(p)
  BY <1>1, <1>3, <1>6, <1>8 DEF Taken, AtTimer, AtNotifier, Received, Ahead
<1>10. Entries'
  BY <1>1, <1>9 DEF TInv, Entries
<1>11. Pace'
  <2>1. ASSUME NEW p \in Sleeper, state'[p] # "READY"
        PROVE  InPace(p)'
    <3>1. /\ state[p] # "READY" /\ param_data'[p] = param_data[p]
          /\ elapsed[p] \in Nat /\ elapsed'[p] \in Nat /\ elapsed'[p] >= elapsed[p]
      BY <2>1, <1>3, TimePasses DEF TInv, TimerTypeOK
    <3>2. Left(p) \in Nat /\ Left(p)' = Left(p)
      BY <3>1, <1>1, <1>3, <1>9, PaceFacts DEF Left
    <3>3. Coming(p) \in Int /\ Coming(p)' = Coming(p)
      BY <1>9 DEF Coming
    <3>4. QED
      BY <3>1, <3>2, <3>3, PaceMoved
  <2>2. QED
    BY <2>1 DEF Pace
<1>12. NeverEarly'
  BY <1>3, TimePasses DEF TInv, NeverEarly
<1>13. Undelayed'
  BY <1>2, <1>3, <1>5, SwitchKeepsUndelayed
<1>14. QED
  BY <1>2, <1>4, <1>5, <1>7, <1>10, <1>11, <1>12, <1>13 DEF TInv

-------------------------------------------------------------------------------
(* The theorems.                                                              *)

\* The boot process alone runs, nobody sleeps and no tick has come.
LEMMA InitTInv == TimerInit => TInv
<1> SUFFICES ASSUME TimerInit PROVE TInv
  OBVIOUS
<1> USE TimerConstants DEF T, N
<1>1. /\ pc = [p \in {Boot, T, N} |-> "start"] /\ timer_port = NULL /\ i = 1
      /\ ticks_left = [j \in 1 .. Len(pcb) |-> 0] /\ elapsed = [p \in Sleeper |-> 0]
      /\ Init
  BY DEF TimerInit
<1>2. KInv
  BY <1>1, InitKInv
<1>3. /\ \A p \in Proc : /\ state[p] = "READY" /\ resume[p] \in {"user", "new"}
                         /\ owed[p] = {} /\ param_data[p] = NULL
      /\ \A o \in Port : blocked[o] = << >>
  BY <1>1 DEF Init
<1>4. TimerTypeOK /\ Places
  BY <1>1, SlotFacts DEF TimerTypeOK, Places
<1>5. Roles
  BY <1>1, <1>3, KernelAssumption DEF Roles
<1>6. Requests /\ NeverEarly /\ Pace
  BY <1>1, <1>3 DEF Requests, HasItem, NeverEarly, Pace
<1>7. Entries
  BY <1>1, SlotFacts DEF Entries
<1>8. Undelayed
  BY <1>1, <1>3, KernelAssumption DEF Undelayed, Signalled
<1>9. QED
  BY <1>2, <1>4, <1>5, <1>6, <1>7, <1>8 DEF TInv

\* Every step keeps the invariant.
LEMMA TInvStep == TInv /\ [TimerNext]_timer_vars => TInv'
<1> SUFFICES ASSUME TInv, [TimerNext]_timer_vars PROVE TInv'
  OBVIOUS
<1>1. CASE timer_receive
  BY <1>1, TimerWaits, TimerReturns, TimerTakes DEF timer_receive, T
<1>2. CASE timer_request
  BY <1>2, RequestStep
<1>3. CASE timer_tick
  BY <1>3, TickStep
<1>4. CASE timer_scan
  BY <1>4, CountStep, RingStep
<1>5. CASE notifier_wait
  BY <1>5, NotifierWaitStep
<1>6. CASE notifier_woken
  BY <1>6, NotifierWokenStep
<1>7. CASE notifier_tell
  BY <1>7, TellHandOver, TellJoins, TellPanics
<1>8. ASSUME NEW p \in Sleeper, NEW n \in Ticks, sleep(p, n)
      PROVE  TInv'
  BY <1>8, SleepHandOver, SleepJoins
<1>9. CASE isr_timer
  BY <1>9, IsrWakes, IsrIgnored
<1>10. CASE \/ init_timer_create
            \/ init_timer_assign
            \/ init_timer_resign
            \/ timer_start
            \/ \E p \in Sleeper \cup Busy : create(p)
  BY <1>10, CreationStep
<1>11. CASE \/ timer_scan_end
            \/ halt /\ UNCHANGED <<locals, elapsed>>
            \/ UNCHANGED timer_vars
  BY <1>11, EndStep
<1>12. QED
  BY <1>1, <1>2, <1>3, <1>4, <1>5, <1>6, <1>7, <1>8, <1>9, <1>10, <1>11
     DEF TimerNext, timer_steps, notifier_steps

\* The invariant holds of the timer for any number of processes, any set of
\* requests and any order of the PCBs in memory.
THEOREM TimerInvariance == TimerSpec => []TInv
BY InitTInv, TInvStep, PTL DEF TimerSpec

\* The variables of timer.c have the types of the model: the walk stays inside
\* ticks_left, and no entry goes below zero.
THEOREM TimerTypeCorrect == TimerSpec => []TimerTypeOK
BY TimerInvariance, PTL DEF TInv

\* timer_process() never wakes a process too early: sleep(n) does not return
\* before n timer interrupts have come.
THEOREM SleepsLongEnough == TimerSpec => []NeverEarly
BY TimerInvariance, PTL DEF TInv

\* Nor does the kernel's own invariant break under the timer: what holds of
\* processes that call anything holds of these.
THEOREM TimerKeepsKernel == TimerSpec => []KInv
BY TimerInvariance, PTL DEF TInv

\* The one panic that timer.c can run into.
PortPanicOnly == fault \in {"none", "message(): not a port"}

\* receive() finds a port.
LEMMA HasPort == ports[T] # << >>
BY TimerConstants DEF T

\* No other step of the timer or of its clients meets a panic.
LEMMA PanicStays ==
  TInv /\ TInv' /\ PortPanicOnly /\ [TimerNext]_timer_vars => PortPanicOnly'
<1> SUFFICES ASSUME TInv, TInv', PortPanicOnly, [TimerNext]_timer_vars
             PROVE  PortPanicOnly'
  OBVIOUS
<1> USE TimerConstants DEF T, N, PortPanicOnly
<1>1. CASE timer_receive
  <2>1. ports[T] # << >>
    BY HasPort
  <2>2. fault' = fault
    BY <1>1, <2>1 DEF timer_receive, receive_wait, receive_pending, receive_resume
  <2>3. QED
    BY <2>2
<1>2. CASE timer_scan
  <2>1. fault' = fault \/ fault' = "reply(): Not reply blocked"
    BY <1>2 DEF timer_scan, reply, panic, vars
  <2>2. fault' # "reply(): Not reply blocked"
    BY DEF TInv, KInv, ReplyAccepted
  <2>3. QED
    BY <2>1, <2>2
<1>3. CASE notifier_wait
  <2>1. pc[N] = "start"
    BY <1>3 DEF notifier_wait, Goes
  <2>2. \A p \in Proc : resume[p] # TIMER_IRQ
    BY <2>1 DEF TInv, Roles
  <2>3. interrupt_table[TIMER_IRQ] = NULL
    <3>1. interrupt_table[TIMER_IRQ] \in Proc \cup {NULL}
      BY DEF TInv, KInv, TypeOK
    <3>2. ASSUME NEW p \in Proc
          PROVE  interrupt_table[TIMER_IRQ] # p
      <4>1. interrupt_table[TIMER_IRQ] = p <=> resume[p] = TIMER_IRQ
        BY DEF TInv, KInv, SlotsMatchWaiters
      <4>2. QED
        BY <4>1, <2>2
    <3>3. QED
      BY <3>1, <3>2
  <2>4. fault' = fault
    BY <1>3, <2>3 DEF notifier_wait, wait_for_interrupt
  <2>5. QED
    BY <2>4
<1>4. CASE notifier_woken
  BY <1>4 DEF notifier_woken, wait_resume
<1>5. CASE notifier_tell
  <2>1. fault' = fault \/ fault' = "message(): not a port"
    BY <1>5 DEF notifier_tell, message, panic
  <2>2. QED
    BY <2>1
<1>6. CASE isr_timer
  <2>1. fault' = fault
    BY <1>6 DEF isr_timer, interrupt
  <2>2. QED
    BY <2>1
<1>7. ASSUME NEW p \in Sleeper, NEW n \in Ticks, sleep(p, n)
      PROVE  PortPanicOnly'
  BY <1>7 DEF sleep, send
<1>8. CASE \/ init_timer_create
           \/ init_timer_assign
           \/ init_timer_resign
           \/ timer_start
           \/ \E p \in Sleeper \cup Busy : create(p)
  BY <1>8 DEF init_timer_create, init_timer_assign, init_timer_resign, timer_start,
              create, create_process, resign, vars
<1>9. CASE \/ timer_request
           \/ timer_tick
           \/ timer_scan_end
           \/ halt /\ UNCHANGED <<locals, elapsed>>
           \/ UNCHANGED timer_vars
  BY <1>9 DEF timer_request, timer_tick, timer_scan_end, halt, timer_vars, vars
<1>10. QED
  BY <1>1, <1>2, <1>3, <1>4, <1>5, <1>6, <1>7, <1>8, <1>9
     DEF TimerNext, timer_steps, notifier_steps

\* No panic of the kernel is met but the one of a notifier that tells of a tick
\* before init_timer() has assigned timer_port: whatever the walk answers waits
\* for a reply, the slot of the interrupt is free and receive() has a port.
THEOREM NothingElsePanics == TimerSpec => []PortPanicOnly
<1>1. TimerInit => PortPanicOnly
  BY DEF TimerInit, Init, PortPanicOnly
<1>2. QED
  BY <1>1, PanicStays, TimerInvariance, PTL DEF TimerSpec

-------------------------------------------------------------------------------
(* The timer service implements Alarm: each step of the walk through           *)
(* ticks_left, of the notifier and of the kernel under them is a step of the   *)
(* alarm clock or none.                                                        *)

\* A request is on its way until it is taken.
LEMMA TakenOrNot ==
  ASSUME TInv, NEW p \in Sleeper
  PROVE  /\ state[p] # "READY" => (OnItsWay(p) <=> ~ Taken(p))
         /\ state[p] = "READY" => ~ Taken(p)
<1> USE TimerConstants DEF T, N
<1>1. CASE p \in owed[T]
  <2>1. state[p] = "REPLY_BLOCKED" /\ ~ (HasItem /\ param_proc[T] = p)
    BY <1>1, PlaceFacts
  <2>2. QED
    BY <1>1, <2>1 DEF OnItsWay, Taken, HasItem
<1>2. CASE p \notin owed[T]
  <2>1. state[p] # "READY" => state[p] = "SEND_BLOCKED" \/ (HasItem /\ param_proc[T] = p)
    BY <1>2, PlaceFacts
  <2>2. QED
    BY <1>2, <2>1 DEF OnItsWay, Taken, HasItem
<1>3. QED
  BY <1>1, <1>2

\* What the clock shows of p.
Shows(p) ==
  /\ state[p] = "READY" => ~ Taken(p) /\ Phase(p) = "awake" /\ Remaining(p) = 0
  /\ state[p] # "READY" /\ ~ Taken(p)
       => Phase(p) = "asked" /\ Remaining(p) = param_data[p][1]
  /\ state[p] # "READY" /\ Taken(p)
       => /\ Phase(p) = IF Ahead(p) /\ ticks_left[Slot(p)] = 1 THEN "due" ELSE "asleep"
          /\ Remaining(p) = IF Ahead(p) /\ ticks_left[Slot(p)] > 0
                            THEN ticks_left[Slot(p)] - 1 ELSE ticks_left[Slot(p)]

View == \A p \in Sleeper : Shows(p)

\* It shows that of everybody, before and after each step.
LEMMA Viewed == (TInv => View) /\ (TInv' => View')
<1>1. TInv => View
  BY TakenOrNot DEF View, Shows, Phase, Remaining
<1>2. QED
  BY <1>1, PTL

-------------------------------------------------------------------------------
(* Steps the clock does not see.                                              *)

\* Nothing that the clock shows of p changes.
Same(p) ==
  /\ state'[p] = "READY" <=> state[p] = "READY"
  /\ state[p] # "READY" => param_data'[p] = param_data[p] /\ (Taken(p)' <=> Taken(p))
  /\ Ahead(p)' <=> Ahead(p)
  /\ ticks_left'[Slot(p)] = ticks_left[Slot(p)]

\* The clock shows the same of p then.
LEMMA SameView ==
  ASSUME TInv, TInv', NEW p \in Sleeper, Same(p)
  PROVE  Phase(p)' = Phase(p) /\ Remaining(p)' = Remaining(p)
BY Viewed DEF View, Shows, Same

\* When that holds of every sleeper the clock stands still.
LEMMA Unseen ==
  ASSUME TInv, TInv', \A p \in Sleeper : Same(p)
  PROVE  UNCHANGED Clock!vars
BY SameView DEF Clock!vars

\* A step that touches no sleeper and neither the debts nor the place of the
\* timer, except to end a walk.
Elsewhere ==
  /\ \A p \in Sleeper : state'[p] = state[p] /\ param_data'[p] = param_data[p]
  /\ UNCHANGED <<owed, got, ticks_left, i>>
  /\ \/ pc'[T] = pc[T]
     \/ pc[T] = "start" /\ pc'[T] = "receive"
     \/ pc[T] = "scan" /\ pc'[T] = "receive" /\ AtEnd

\* The clock does not show such a step.
LEMMA ElsewhereUnseen ==
  ASSUME TInv, TInv', Elsewhere
  PROVE  UNCHANGED Clock!vars
<1> USE TimerConstants DEF T, N, Elsewhere
<1>1. ASSUME NEW p \in Sleeper
      PROVE  Same(p)
  <2>1. Taken(p)' <=> Taken(p)
    BY DEF Taken, Received
  <2>2. Ahead(p)' <=> Ahead(p)
    <3>1. i \in Nat /\ Len(pcb) \in Nat /\ Slot(p) \in 1 .. Len(pcb)
      BY SlotFacts DEF TInv, TimerTypeOK
    <3>2. QED
      BY <3>1 DEF Ahead, AtEnd
  <2>3. QED
    BY <2>1, <2>2 DEF Same
<1>2. QED
  BY <1>1, Unseen

\* The creation of processes, the end of a walk, and the end of the system.
LEMMA CreationUnseen ==
  ASSUME TInv, TInv',
         \/ init_timer_create
         \/ init_timer_assign
         \/ init_timer_resign
         \/ timer_start
         \/ \E p \in Sleeper \cup Busy : create(p)
         \/ timer_scan_end
         \/ halt /\ UNCHANGED <<locals, elapsed>>
         \/ UNCHANGED timer_vars
  PROVE  UNCHANGED Clock!vars
<1> USE TimerConstants DEF T, N
<1>1. CASE init_timer_create
  <2>1. Goes(Boot, "start", "assign") /\ UNCHANGED <<state, param_data, owed, got, ticks_left, i>>
    BY <1>1 DEF init_timer_create, create_process
  <2>2. Elsewhere
    BY <2>1, PcFacts DEF Elsewhere
  <2>3. QED
    BY <2>2, ElsewhereUnseen
<1>2. CASE init_timer_assign
  <2>1. Goes(Boot, "assign", "resign") /\ UNCHANGED <<state, param_data, owed, got, ticks_left, i>>
    BY <1>2 DEF init_timer_assign, vars
  <2>2. Elsewhere
    BY <2>1, PcFacts DEF Elsewhere
  <2>3. QED
    BY <2>2, ElsewhereUnseen
<1>3. CASE init_timer_resign
  <2>1. Goes(Boot, "resign", "create") /\ UNCHANGED <<state, param_data, owed, got, ticks_left, i>>
    BY <1>3 DEF init_timer_resign, resign
  <2>2. Elsewhere
    BY <2>1, PcFacts DEF Elsewhere
  <2>3. QED
    BY <2>2, ElsewhereUnseen
<1>4. CASE timer_start
  <2>1. Goes(T, "start", "receive") /\ UNCHANGED <<state, param_data, owed, got, ticks_left, i>>
    BY <1>4 DEF timer_start, create_process
  <2>2. Elsewhere
    BY <2>1, PcFacts DEF Elsewhere
  <2>3. QED
    BY <2>2, ElsewhereUnseen
<1>5. CASE timer_scan_end
  <2>1. /\ Goes(T, "scan", "receive") /\ AtEnd
        /\ UNCHANGED <<state, param_data, owed, got, ticks_left, i>>
    BY <1>5 DEF timer_scan_end, vars
  <2>2. Elsewhere
    BY <2>1, PcFacts DEF Elsewhere
  <2>3. QED
    BY <2>2, ElsewhereUnseen
<1>6. ASSUME \/ \E p \in Sleeper \cup Busy : create(p)
             \/ halt /\ UNCHANGED <<locals, elapsed>>
             \/ UNCHANGED timer_vars
      PROVE  UNCHANGED Clock!vars
  <2>1. UNCHANGED <<pc, state, param_data, owed, got, ticks_left, i>>
    BY <1>6 DEF create, create_process, halt, timer_vars, vars, locals
  <2>2. QED
    BY <2>1, ElsewhereUnseen DEF Elsewhere
<1>7. QED
  BY <1>1, <1>2, <1>3, <1>4, <1>5, <1>6

\* A tick on its way to the timer.
LEMMA NotifierUnseen ==
  ASSUME TInv, TInv', notifier_steps \/ isr_timer
  PROVE  UNCHANGED Clock!vars
<1> USE TimerConstants DEF T, N
<1>1. TypeOK /\ owner[timers] = T
  BY DEF TInv, KInv
<1>2. ASSUME \A p \in Proc : p \notin {T, N} => state'[p] = state[p] /\ param_data'[p] = param_data[p],
             UNCHANGED <<owed, got, ticks_left, i>>, pc'[T] = pc[T]
      PROVE  UNCHANGED Clock!vars
  BY <1>2, ElsewhereUnseen DEF Elsewhere
<1>3. CASE notifier_wait
  <2>1. /\ Goes(N, "start", "waiting")
        /\ UNCHANGED <<param_data, owed, got, ticks_left, i>>
        /\ state' = state \/ state' = [state EXCEPT ![N] = "INTR_BLOCKED"]
    BY <1>3 DEF notifier_wait, wait_for_interrupt, panic
  <2>2. QED
    BY <1>1, <1>2, <2>1, PcFacts DEF TypeOK
<1>4. CASE notifier_woken
  <2>1. Goes(N, "waiting", "tell") /\ UNCHANGED <<state, param_data, owed, got, ticks_left, i>>
    BY <1>4 DEF notifier_woken, wait_resume
  <2>2. QED
    BY <1>2, <2>1, PcFacts
<1>5. CASE notifier_tell
  <2>1. Goes(N, "tell", "start") /\ UNCHANGED <<ticks_left, i>>
    BY <1>5 DEF notifier_tell
  <2>2. CASE timer_port = NULL
    <3>1. UNCHANGED <<state, param_data, owed, got>>
      BY <1>5, <2>2 DEF notifier_tell, panic
    <3>2. QED
      BY <1>2, <2>1, <3>1, PcFacts
  <2>3. CASE timer_port # NULL
    <3>1. message(N, timers, NoMessage)
      BY <1>5, <2>3 DEF notifier_tell, TInv, TimerTypeOK
    <3>2. /\ \/ /\ state' = [state EXCEPT ![T] = "READY"]
                /\ param_data' = [param_data EXCEPT ![T] = NoMessage]
             \/ /\ state' = [state EXCEPT ![N] = "MESSAGE_BLOCKED"]
                /\ param_data' = [param_data EXCEPT ![N] = NoMessage]
          /\ UNCHANGED <<owed, got>>
      BY <1>1, <3>1 DEF message
    <3>3. \A p \in Proc : p \notin {T, N} => state'[p] = state[p] /\ param_data'[p] = param_data[p]
      BY <1>1, <3>2 DEF TypeOK
    <3>4. QED
      BY <1>2, <2>1, <3>2, <3>3, PcFacts
  <2>4. QED
    BY <2>2, <2>3
<1>6. CASE isr_timer
  <2>1. interrupt(TIMER_IRQ) /\ UNCHANGED <<pc, ticks_left, i>>
    BY <1>6 DEF isr_timer, locals
  <2>2. /\ state' = state \/ (Waiting(TIMER_IRQ) /\ state' = [state EXCEPT ![interrupt_table[TIMER_IRQ]] = "READY"])
        /\ UNCHANGED <<param_data, owed, got>>
    BY <2>1 DEF interrupt
  <2>3. Waiting(TIMER_IRQ) => interrupt_table[TIMER_IRQ] = N
    <3> DEFINE q == interrupt_table[TIMER_IRQ]
    <3>1. Waiting(TIMER_IRQ) => q \in Proc /\ resume[q] = TIMER_IRQ
      BY <1>1 DEF Waiting, TypeOK, TInv, KInv, SlotsMatchWaiters
    <3>2. QED
      BY <3>1 DEF TInv, Roles
  <2>4. \A p \in Proc : p # N => state'[p] = state[p]
    BY <1>1, <2>2, <2>3 DEF TypeOK
  <2>5. QED
    BY <1>2, <2>1, <2>2, <2>4
<1>7. QED
  BY <1>3, <1>4, <1>5, <1>6 DEF notifier_steps

\* receive() in the timer: a request that is handed over, or taken from the
\* list, is still on its way.
LEMMA ReceiveUnseen ==
  ASSUME TInv, TInv', timer_receive
  PROVE  UNCHANGED Clock!vars
<1> USE TimerConstants DEF T, N
<1>1. TypeOK /\ KInv /\ pc[T] = "receive" /\ ports[T] # << >> /\ UNCHANGED <<ticks_left, i>>
  BY DEF TInv, KInv, timer_receive
<1>2. CASE receive_wait(T) /\ pc' = pc
  <2>1. /\ state' = [state EXCEPT ![T] = "RECEIVE_BLOCKED"]
        /\ param_data' = [param_data EXCEPT ![T] = NULL]
        /\ UNCHANGED <<owed, got>>
    BY <1>1, <1>2 DEF receive_wait
  <2>2. QED
    BY <1>1, <1>2, <2>1, ElsewhereUnseen DEF Elsewhere, TypeOK
<1>3. ASSUME receive_pending(T) \/ receive_resume(T), Goes(T, "receive", "received")
      PROVE  UNCHANGED Clock!vars
  <2>1. PICK x \in Sleeper \cup {N}, y \in Data :
          /\ got'[T].sender = x
          /\ owed'[T] = IF y \in Request THEN owed[T] \cup {x} ELSE owed[T]
          /\ y \in Request => x \notin owed[T]
          /\ param_data' = param_data
          /\ \A p \in Sleeper : state'[p] = "READY" <=> state[p] = "READY"
          /\ x \in Sleeper => y \in Request
    <3>1. CASE receive_resume(T)
      <4>1. resume[T] = "receive" /\ state[T] = "READY"
        BY <1>1, <3>1, QueueFacts DEF receive_resume
      <4>2. /\ HasItem /\ param_proc[T] \in Sleeper \cup {N} /\ param_data[T] \in Data
            /\ param_data[T] \in Request <=> param_proc[T] \in Sleeper
            /\ param_data[T] \in Request => param_proc[T] \notin owed[T]
        BY <4>1, PlaceFacts DEF HasItem
      <4>3. /\ got' = [got EXCEPT ![T] = [sender |-> param_proc[T], data |-> param_data[T]]]
            /\ owed' = [owed EXCEPT ![T] = IF param_data[T] \in Request
                                           THEN @ \cup {param_proc[T]} ELSE @]
            /\ UNCHANGED <<state, param_data>>
        BY <3>1 DEF receive_resume, Return
      <4>4. /\ got'[T].sender = param_proc[T]
            /\ owed'[T] = IF param_data[T] \in Request
                          THEN owed[T] \cup {param_proc[T]} ELSE owed[T]
        BY <1>1, <4>3 DEF TypeOK
      <4>5. QED
        BY <4>2, <4>3, <4>4
    <3>2. CASE receive_pending(T)
      <4> DEFINE x == Head(blocked[timers])
                 y == param_data[x]
      <4>1. Pending(T) # {}
        BY <3>2 DEF receive_pending
      <4>2. FirstPending(T) = timers
        BY <1>1, <4>1, PendingFacts DEF TInv, Roles
      <4>3. /\ x \in Proc /\ x \in Members(blocked[timers])
            /\ state[x] \in {"SEND_BLOCKED", "MESSAGE_BLOCKED"}
        BY <1>1, <4>1, <4>2, PendingFacts
      <4>4. /\ got' = [got EXCEPT ![T] = [sender |-> x, data |-> y]]
            /\ owed' = [owed EXCEPT ![T] = IF y \in Request THEN @ \cup {x} ELSE @]
            /\ Accept(x)
            /\ param_data' = param_data
        BY <3>2, <4>2 DEF receive_pending, Return
      <4> HIDE DEF x
      <4>5. /\ x \in Sleeper \cup {N} /\ y \in Data /\ x \notin owed[T]
            /\ x \in Sleeper => y \in Request
        <5>1. x \in Sleeper \cup {N}
          BY <4>3, PlaceFacts
        <5>2. y \in Data
          BY <1>1, <4>3 DEF KInv, ParametersMatch, Data
        <5>3. x \in Sleeper => state[x] = "SEND_BLOCKED" /\ y \in Request
          BY <1>1, <4>3, PlaceFacts DEF KInv, ParametersMatch
        <5>4. x \notin owed[T]
          BY <5>1, <5>3, PlaceFacts
        <5>5. QED
          BY <5>1, <5>2, <5>3, <5>4
      <4>6. /\ got'[T].sender = x
            /\ owed'[T] = IF y \in Request THEN owed[T] \cup {x} ELSE owed[T]
        BY <1>1, <4>4 DEF TypeOK
      <4>7. \A p \in Sleeper : state'[p] = "READY" <=> state[p] = "READY"
        <5>1. \A p \in Proc : p # x => state'[p] = state[p]
          BY <1>1, <4>4 DEF Accept, TypeOK
        <5>2. x \in Sleeper => state'[x] # "READY" /\ state[x] # "READY"
          <6>1. x \in Sleeper => state[x] = "SEND_BLOCKED"
            BY <4>3, PlaceFacts
          <6>2. QED
            BY <6>1, <1>1, <4>3, <4>4 DEF Accept, TypeOK
        <5>3. QED
          BY <5>1, <5>2
      <4> HIDE DEF y
      <4>8. QED
        BY <4>4, <4>5, <4>6, <4>7
    <3>3. QED
      BY <1>3, <3>1, <3>2
  <2>2. pc'[T] = "received"
    BY <1>3, PcFacts
  <2>3. ASSUME NEW p \in Sleeper
        PROVE  Same(p)
    <3>1. Taken(p)' <=> Taken(p)
      BY <1>1, <2>1, <2>2 DEF Taken, Received
    <3>2. QED
      BY <1>1, <2>1, <2>2, <3>1 DEF Same, Ahead
  <2>4. QED
    BY <2>3, Unseen
<1>4. QED
  BY <1>2, <1>3 DEF timer_receive, T

\* The walk passes an entry that has counted since it began.
LEMMA CountUnseen ==
  ASSUME TInv, TInv', timer_scan, ticks_left[i] # 1
  PROVE  UNCHANGED Clock!vars
<1> USE TimerConstants DEF T, N
<1>1. UNCHANGED <<state, param_data, owed, got, pc>>
  BY DEF timer_scan, vars
<1>2. \A p \in Proc : Taken(p)' <=> Taken(p)
  BY <1>1 DEF Taken, Received
<1>3. ASSUME NEW p \in Sleeper
      PROVE  Phase(p)' = Phase(p) /\ Remaining(p)' = Remaining(p)
  <2>1. Shows(p) /\ Shows(p)'
    BY Viewed DEF View
  <2>2. CASE p # pcb[i]
    <3>1. Same(p)
      BY <2>2, <1>1, <1>2, ScanFacts DEF Same
    <3>2. QED
      BY <3>1, SameView
  <2>3. CASE p = pcb[i] /\ Taken(p)
    <3>1. /\ ticks_left[Slot(p)] \in Nat /\ ticks_left[Slot(p)] # 1
          /\ ticks_left'[Slot(p)] = IF ticks_left[Slot(p)] = 0 THEN 0 ELSE ticks_left[Slot(p)] - 1
          /\ Ahead(p) /\ ~ Ahead(p)'
      BY <2>3, ScanFacts DEF Countdown
    <3>2. QED
      BY <2>1, <2>3, <3>1, <1>1, <1>2 DEF Shows
  <2>4. CASE ~ Taken(p)
    BY <2>1, <2>4, <1>1, <1>2 DEF Shows
  <2>5. QED
    BY <2>2, <2>3, <2>4
<1>4. QED
  BY <1>3 DEF Clock!vars

-------------------------------------------------------------------------------
(* Steps of the clock.                                                        *)

\* The walk wakes a process whose time has come.
LEMMA WalkRings ==
  ASSUME TInv, TInv', timer_scan, ticks_left[i] = 1
  PROVE  \E p \in Sleeper : Clock!Ring(p)
<1> USE TimerConstants DEF T, N
<1> DEFINE q == pcb[i]
<1>1. TypeOK /\ reply(T, q) /\ pc' = pc
  BY DEF timer_scan, TInv, KInv
<1>2. /\ q \in Proc /\ ticks_left[Slot(q)] = 1 /\ Ahead(q) /\ pc[T] = "scan"
      /\ \A p \in Proc : p # q => /\ ticks_left'[Slot(p)] = ticks_left[Slot(p)]
                                  /\ Ahead(p)' <=> Ahead(p)
  BY ScanFacts
<1> HIDE DEF q
<1>3. Taken(q) /\ q \in owed[T] /\ q \in Sleeper /\ state[q] = "REPLY_BLOCKED"
  BY <1>2, PlaceFacts DEF TInv, Entries, Taken
<1>4. /\ state' = [state EXCEPT ![q] = "READY"]
      /\ owed' = [owed EXCEPT ![T] = @ \ {q}]
      /\ UNCHANGED <<param_data, got>>
  BY <1>1, <1>3 DEF reply
<1>5. /\ state'[q] = "READY" /\ owed'[T] = owed[T] \ {q}
      /\ \A p \in Proc : p # q => state'[p] = state[p]
  BY <1>1, <1>2, <1>4 DEF TypeOK
<1>6. ASSUME NEW p \in Sleeper, p # q
      PROVE  Phase(p)' = Phase(p) /\ Remaining(p)' = Remaining(p)
  <2>1. Taken(p)' <=> Taken(p)
    BY <1>1, <1>2, <1>5, <1>6 DEF Taken
  <2>2. Same(p)
    BY <2>1, <1>2, <1>4, <1>5, <1>6 DEF Same
  <2>3. QED
    BY <2>2, SameView
<1>7. /\ Phase(q) = "due" /\ Remaining(q) = 0
      /\ \A p \in Sleeper : p = q => Phase(p)' = "awake" /\ Remaining(p)' = 0
  <2>1. Shows(q) /\ \A p \in Sleeper : Shows(p)'
    BY <1>3, Viewed DEF View
  <2>2. QED
    BY <2>1, <1>2, <1>3, <1>5 DEF Shows
<1>8. Clock!Ring(q)
  BY <1>3, <1>6, <1>7, ZenonT(40) DEF Clock!Ring
<1>9. QED
  BY <1>3, <1>8

\* The timer takes a request.
LEMMA RequestTakes ==
  ASSUME TInv, TInv', timer_request
  PROVE  \E p \in Sleeper : Clock!Take(p)
<1> USE TimerConstants DEF T, N
<1> DEFINE x == got[T].sender
           y == got[T].data
<1>1. /\ Goes(T, "received", "receive") /\ y # NoMessage
      /\ ticks_left' = [ticks_left EXCEPT ![Slot(x)] = y[1]]
      /\ UNCHANGED <<state, param_data, owed, got, i>>
  BY DEF timer_request, Received, vars
<1>2. pc[T] = "received" /\ pc'[T] = "receive"
  BY <1>1, PcFacts
<1>3. y \in Request /\ x \in owed[T] /\ x \in Sleeper /\ param_data[x] = y /\ y[1] \in Nat
  BY <1>1, <1>2, PlaceFacts DEF TInv, Requests, Received
<1>4. /\ ticks_left'[Slot(x)] = y[1]
      /\ \A p \in Proc : p # x => ticks_left'[Slot(p)] = ticks_left[Slot(p)]
  <2>1. \A p \in Proc : p # x => Slot(p) # Slot(x)
    BY <1>3, SlotFacts
  <2>2. ticks_left \in [1 .. Len(pcb) -> Nat] /\ \A p \in Proc : Slot(p) \in 1 .. Len(pcb)
    BY SlotFacts DEF TInv, TimerTypeOK
  <2>3. QED
    BY <2>1, <2>2, <1>1, <1>3
<1>5. \A p \in Sleeper : /\ Taken(p) <=> p \in owed[T] /\ p # x
                         /\ Taken(p)' <=> p \in owed[T]
                         /\ ~ Ahead(p) /\ ~ Ahead(p)'
  BY <1>1, <1>2 DEF Taken, Received, Ahead
<1>6. state[x] # "READY"
  BY <1>3, PlaceFacts
<1> HIDE DEF y
<1>7. ASSUME NEW p \in Sleeper, p # x
      PROVE  Phase(p)' = Phase(p) /\ Remaining(p)' = Remaining(p)
  <2>1. Same(p)
    BY <1>1, <1>4, <1>5, <1>7 DEF Same
  <2>2. QED
    BY <2>1, SameView
<1>8. \A p \in Sleeper : p = x => /\ Phase(p) = "asked" /\ Phase(p)' = "asleep"
                                  /\ Remaining(p) = y[1] /\ Remaining(p)' = y[1]
  <2>1. \A p \in Sleeper : Shows(p) /\ Shows(p)'
    BY Viewed DEF View
  <2>2. QED
    BY <2>1, <1>1, <1>3, <1>4, <1>5, <1>6 DEF Shows
<1> HIDE DEF x
<1>9. Clock!Take(x)
  BY <1>3, <1>7, <1>8, ZenonT(40) DEF Clock!Take
<1>10. QED
  BY <1>3, <1>9

\* The beginning of a walk is the tick.
LEMMA WalkTicks ==
  ASSUME TInv, TInv', timer_tick
  PROVE  Clock!Tick
<1> USE TimerConstants DEF T, N
<1>1. /\ Goes(T, "received", "scan") /\ Received.data = NoMessage /\ i' = 1
      /\ UNCHANGED <<state, param_data, owed, got, ticks_left>>
  BY DEF timer_tick, vars
<1>2. pc[T] = "received" /\ pc'[T] = "scan"
  BY <1>1, PcFacts
<1>3. Received.sender = N
  BY <1>1, <1>2 DEF TInv, Requests
<1>4. ASSUME NEW p \in Sleeper
      PROVE  /\ Taken(p)' <=> Taken(p)
             /\ ~ Ahead(p) /\ Ahead(p)'
             /\ ticks_left[Slot(p)] \in Nat
  <2>1. Slot(p) \in 1 .. Len(pcb) /\ Len(pcb) \in Nat
    BY SlotFacts
  <2>2. QED
    BY <2>1, <1>1, <1>2, <1>3, PaceFacts DEF Taken, Ahead
<1>5. \A p \in Sleeper : Shows(p) /\ Shows(p)'
  BY Viewed DEF View
<1>6. ASSUME NEW p \in Sleeper
      PROVE  /\ Phase(p) # "due"
             /\ p \in Clock!Counted => /\ Remaining(p)' = Remaining(p) - 1
                                       /\ Phase(p)' = IF Remaining(p) = 1 THEN "due" ELSE Phase(p)
             /\ p \notin Clock!Counted => /\ Remaining(p)' = Remaining(p)
                                          /\ Phase(p)' = Phase(p)
  <2>1. p \in Clock!Counted <=> Phase(p) = "asleep" /\ Remaining(p) > 0
    BY DEF Clock!Counted
  <2>2. CASE state[p] = "READY"
    BY <2>1, <2>2, <1>1, <1>5 DEF Shows
  <2>3. CASE state[p] # "READY" /\ ~ Taken(p)
    BY <2>1, <2>3, <1>1, <1>4, <1>5 DEF Shows
  <2>4. CASE state[p] # "READY" /\ Taken(p)
    BY <2>1, <2>4, <1>1, <1>4, <1>5 DEF Shows
  <2>5. QED
    BY <2>2, <2>3, <2>4
<1>7. QED
  BY <1>6 DEF Clock!Tick

\* sleep() asks, whether the timer waits or not.
LEMMA SleepAsks ==
  ASSUME TInv, TInv', NEW x \in Sleeper, NEW n \in Ticks, sleep(x, n)
  PROVE  Clock!Ask(x, n)
<1> USE TimerConstants DEF T, N
<1> DEFINE y == Pointer(n)
<1>1. /\ send(x, timers, y) /\ UNCHANGED <<pc, ticks_left, i>>
      /\ TypeOK /\ KInv
  BY DEF sleep, locals, TInv, KInv, TimerTypeOK
<1>2. y[1] = n
  OBVIOUS
<1> HIDE DEF y
<1>3. state[x] = "READY"
  BY <1>1, QueueFacts DEF send, Running
<1>4. /\ \/ /\ state' = [state EXCEPT ![x] = "REPLY_BLOCKED", ![T] = "READY"]
            /\ param_data' = [param_data EXCEPT ![T] = y, ![x] = y]
         \/ /\ state' = [state EXCEPT ![x] = "SEND_BLOCKED"]
            /\ param_data' = [param_data EXCEPT ![x] = y]
      /\ UNCHANGED <<owed, got>>
  BY <1>1 DEF send
<1>5. /\ state'[x] # "READY" /\ param_data'[x] = y
      /\ \A p \in Sleeper : p # x => state'[p] = state[p] /\ param_data'[p] = param_data[p]
  BY <1>1, <1>4 DEF TypeOK
<1>6. \A p \in Sleeper : (Taken(p)' <=> Taken(p)) /\ (Ahead(p)' <=> Ahead(p))
  BY <1>1, <1>4 DEF Taken, Received, Ahead
<1>7. ASSUME NEW p \in Sleeper, p # x
      PROVE  Phase(p)' = Phase(p) /\ Remaining(p)' = Remaining(p)
  <2>1. Same(p)
    BY <1>1, <1>5, <1>6, <1>7 DEF Same
  <2>2. QED
    BY <2>1, SameView
<1>8. /\ Phase(x) = "awake" /\ Phase(x)' = "asked" /\ Remaining(x)' = n
  <2>1. Shows(x) /\ Shows(x)'
    BY Viewed DEF View
  <2>2. QED
    BY <2>1, <1>2, <1>3, <1>5, <1>6 DEF Shows
<1>9. QED
  BY <1>7, <1>8 DEF Clock!Ask

-------------------------------------------------------------------------------
(* The theorem.                                                               *)

\* Nobody sleeps at the beginning.
LEMMA InitClock == TimerInit => Clock!Init
<1> SUFFICES ASSUME TimerInit PROVE Clock!Init
  OBVIOUS
<1>1. TInv
  BY InitTInv
<1>2. \A p \in Sleeper : state[p] = "READY"
  BY TimerConstants DEF TimerInit, Init
<1>3. \A p \in Sleeper : Phase(p) = "awake" /\ Remaining(p) = 0
  BY <1>1, <1>2, Viewed DEF View, Shows
<1>4. QED
  BY <1>3 DEF Clock!Init

\* Every step of the timer is one of the clock, or none.
LEMMA ClockStep ==
  TInv /\ TInv' /\ [TimerNext]_timer_vars => [Clock!Next]_(Clock!vars)
<1> SUFFICES ASSUME TInv, TInv', [TimerNext]_timer_vars
             PROVE  [Clock!Next]_(Clock!vars)
  OBVIOUS
<1>1. CASE timer_receive
  BY <1>1, ReceiveUnseen
<1>2. CASE timer_request
  BY <1>2, RequestTakes DEF Clock!Next
<1>3. CASE timer_tick
  BY <1>3, WalkTicks DEF Clock!Next
<1>4. CASE timer_scan
  BY <1>4, CountUnseen, WalkRings DEF Clock!Next
<1>5. CASE notifier_steps \/ isr_timer
  BY <1>5, NotifierUnseen
<1>6. ASSUME NEW p \in Sleeper, NEW n \in Ticks, sleep(p, n)
      PROVE  Clock!Next
  BY <1>6, SleepAsks DEF Clock!Next
<1>7. CASE \/ init_timer_create
           \/ init_timer_assign
           \/ init_timer_resign
           \/ timer_start
           \/ \E p \in Sleeper \cup Busy : create(p)
           \/ timer_scan_end
           \/ halt /\ UNCHANGED <<locals, elapsed>>
           \/ UNCHANGED timer_vars
  BY <1>7, CreationUnseen
<1>8. QED
  BY <1>1, <1>2, <1>3, <1>4, <1>5, <1>6, <1>7 DEF TimerNext, timer_steps

\* timer.c keeps the promise of Alarm, for any number of sleepers: although the
\* walk is interrupted, wakes processes one by one and meets their next
\* requests, every tick it counts, it counts once and for everybody taken.
THEOREM AlarmImplemented == TimerSpec => ImplementsAlarm
<1>1. TimerInit => Clock!Init
  BY InitClock
<1>2. TInv /\ TInv' /\ [TimerNext]_timer_vars => [Clock!Next]_(Clock!vars)
  BY ClockStep
<1>3. QED
  BY <1>1, <1>2, TimerInvariance, PTL DEF TimerSpec, ImplementsAlarm, Clock!Spec
===============================================================================
