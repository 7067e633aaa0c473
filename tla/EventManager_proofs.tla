------------------------- MODULE EventManager_proofs -------------------------
(* Proofs about em.c: with any number of listeners, keys and packets, those who *)
(* take part agree on who has the keyboard focus, and a keyboard interrupt      *)
(* stops the system only behind a listener that does not receive.               *)
EXTENDS EventManager, Kernel_proofs

-------------------------------------------------------------------------------
(* The invariant.                                                              *)

\* Who has which part.  Nobody closes a port or asks for a reply; notifiers wait for
\* interrupts, em_process and the listeners for events; events come to em_process
\* from the notifiers and to the listeners from em_process.
ListenerPorts == {Head(ports[p]) : p \in Listener}

Senders(o) == IF o = em THEN {keyb_notifier, net_notifier}
              ELSE IF o \in ListenerPorts THEN {em_process} ELSE {}

Roles ==
  /\ \A o \in Port : open[o] /\ Members(blocked[o]) \subseteq Senders(o)
  /\ \A q \in Proc :
       /\ state[q] \notin {"SEND_BLOCKED", "REPLY_BLOCKED"}
       /\ resume[q] = "receive" => q \in Listener \cup {em_process}
       /\ resume[q] \in Irq => \/ q = keyb_notifier /\ resume[q] = KEYB_IRQ
                               \/ q = net_notifier /\ resume[q] = NE2K_IRQ

\* A listener that handles an event has returned from receive().
Handling == \A p \in Listener : pc[p] = "handle" => resume[p] = "user"

\* The registers: em_process looks at slots that were filled before they were counted.
Registers ==
  /\ DOMAIN pc = Services
  /\ em_port \in {NULL, em}
  /\ KEY_LISTENERS \in [0 .. MAX_LISTENERS - 1 -> ListenerPorts \cup {NULL}]
  /\ UDP_LISTENERS \in [0 .. MAX_LISTENERS - 1 -> ListenerPorts \cup {NULL}]
  /\ nbr_of_key_listeners \in 0 .. MAX_LISTENERS
  /\ kboard_focus \in 0 .. MAX_LISTENERS - 1
  /\ kboard_focus = 0 \/ kboard_focus < nbr_of_key_listeners
  /\ i \in 0 .. MAX_LISTENERS
  /\ focused \in [Listener -> BOOLEAN]

\* What a listener thinks of the focus once it has handled what it was sent: the event
\* that it is about to handle, the one it finds when it returns from receive(), and the
\* one with which em_process waits for it.
Told(was, event) == \/ event = "&focus_change"
                    \/ was /\ event # "&focus_out"

Back(p) == resume[p] = "receive" /\ state[p] = "READY"
Waits(p) == em_process \in Members(blocked[Head(ports[p])])

Handled(p) == IF pc[p] = "handle" THEN Told(focused[p], got[p].data) ELSE focused[p]
Returned(p) == IF Back(p) THEN Told(Handled(p), param_data[p]) ELSE Handled(p)
Will(p) == IF Waits(p) THEN Told(Returned(p), param_data[em_process]) ELSE Returned(p)

\* Only the listener that has the focus thinks so in the end, and between a FOCUS_OUT
\* and its FOCUS_IN no listener does.
FocusInTransit ==
  /\ \A p \in Listener : Will(p) => nbr_of_key_listeners # 0 /\ Focus = Head(ports[p])
  /\ pc[em_process] \in {"next", "in"} => \A p \in Listener : ~ Will(p)
  /\ pc[em_process] = "in" => nbr_of_key_listeners # 0

EmSound == fault = "none" /\ KInv /\ Roles /\ Handling /\ Registers /\ FocusInTransit

\* After a panic nothing changes any more.
EmInv == (fault = "none" => EmSound) /\ FocusIsOne /\ PanicsOnlyIfStuck

-------------------------------------------------------------------------------
(* What the actions of the kernel do to the processes of this system.          *)

\* The processes are different, and each listener has a port of its own.
LEMMA Parts ==
  /\ Listener \subseteq Proc /\ em_process \in Proc /\ keyb_notifier \in Proc /\ Boot \in Proc
  /\ Boot \notin Listener /\ em_process \notin Listener
  /\ keyb_notifier \notin Listener /\ net_notifier \notin Listener
  /\ em_process # Boot /\ keyb_notifier # Boot /\ keyb_notifier # em_process
  /\ net_notifier # em_process /\ net_notifier # keyb_notifier /\ net_notifier # Boot
  /\ net_notifier # NULL => net_notifier \in Proc
  /\ \A l \in Listener : /\ ports[l] # << >> /\ Head(ports[l]) \in Port
                         /\ owner[Head(ports[l])] = l
  /\ em \in Port /\ owner[em] = em_process /\ em \notin ListenerPorts
  /\ \A o \in ListenerPorts : o \in Port /\ o # NULL /\ o # em
  /\ KEYB_IRQ \in Irq /\ NE2K_IRQ \in Irq /\ KEYB_IRQ # NE2K_IRQ
  /\ isr[KEYB_IRQ] = "keyb" /\ isr[NE2K_IRQ] = "ne2k"
  /\ "receive" \notin Irq /\ "user" \notin Irq /\ "new" \notin Irq
  /\ Note = Events /\ Request = {}
<1>1. /\ Listener \subseteq Proc /\ em_process \in Proc /\ keyb_notifier \in Proc /\ Boot \in Proc
      /\ Boot \notin Listener /\ em_process \notin Listener
      /\ keyb_notifier \notin Listener /\ net_notifier \notin Listener
      /\ em_process # Boot /\ keyb_notifier # Boot /\ keyb_notifier # em_process
      /\ net_notifier # em_process /\ net_notifier # keyb_notifier /\ net_notifier # Boot
      /\ net_notifier # NULL => net_notifier \in Proc
  BY EventAssumption, KernelAssumption
<1>2. ASSUME NEW l \in Listener
      PROVE  /\ ports[l] # << >> /\ Head(ports[l]) \in Port
             /\ owner[Head(ports[l])] = l
  <2>1. l \in Proc /\ ports[l] \in Seq(Port) /\ Len(ports[l]) = 1
    BY <1>1, EventAssumption, KernelAssumption
  <2>2. ASSUME NEW s \in Seq(Port), Len(s) = 1
        PROVE  s # << >> /\ Head(s) \in Port /\ Head(s) \in Members(s)
    <3>1. s # << >> /\ Head(s) = s[1] /\ 1 \in 1 .. Len(s)
      BY <2>2
    <3>2. QED
      BY <3>1 DEF Members
  <2>3. QED
    BY <2>1, <2>2, KernelAssumption
<1>3. em \in Port /\ owner[em] = em_process
  BY EventAssumption
<1>4. \A o \in ListenerPorts : o \in Port /\ o # NULL /\ o # em
  BY <1>1, <1>2, <1>3, EventAssumption DEF ListenerPorts
<1>5. /\ KEYB_IRQ \in Irq /\ NE2K_IRQ \in Irq /\ KEYB_IRQ # NE2K_IRQ
      /\ isr[KEYB_IRQ] = "keyb" /\ isr[NE2K_IRQ] = "ne2k"
      /\ "receive" \notin Irq /\ "user" \notin Irq /\ "new" \notin Irq
      /\ Note = Events /\ Request = {}
  BY EventAssumption, KernelAssumption
<1>6. QED
  BY <1>1, <1>2, <1>3, <1>4, <1>5

\* Two listeners have two ports.
LEMMA OwnPorts ==
  ASSUME NEW l \in Listener, NEW p \in Listener, Head(ports[l]) = Head(ports[p])
  PROVE  l = p
BY Parts

\* The process that runs is at no port.
LEMMA RunnerFacts ==
  ASSUME KInv, NEW p, p = active_proc
  PROVE  /\ p \in Proc /\ state[p] = "READY" /\ resume[p] # "new"
         /\ \A o \in Port : p \notin Members(blocked[o])
<1>1. p \in Proc /\ state[p] = "READY" /\ resume[p] # "new"
  BY QueueFacts
<1>2. QED
  BY <1>1 DEF KInv, BlockedOnOnePort

\* The listeners do nothing, and somebody else waits for no other than before.
ListenersStay ==
  \A l \in Listener : (pc'[l] = "handle" <=> pc[l] = "handle") /\ focused'[l] = focused[l]

Kept == /\ fault' = "none" /\ Roles' /\ Handling'
        /\ \A l \in Listener : Will(l)' <=> Will(l)

\* What Will(l) depends on.
LEMMA WillKept ==
  ASSUME NEW l \in Listener,
         pc'[l] = "handle" <=> pc[l] = "handle", focused'[l] = focused[l],
         pc[l] = "handle" => got'[l] = got[l],
         Back(l)' <=> Back(l), Back(l) => param_data'[l] = param_data[l],
         Waits(l)' <=> Waits(l), Waits(l) => param_data'[em_process] = param_data[em_process]
  PROVE  Will(l)' <=> Will(l)
<1>1. Handled(l)' <=> Handled(l)
  BY DEF Handled, Told
<1>2. Returned(l)' <=> Returned(l)
  BY <1>1 DEF Returned, Told
<1>3. QED
  BY <1>2 DEF Will, Told

\* A process is created.
LEMMA CreateKeeps ==
  ASSUME KInv, Roles, Handling, ListenersStay,
         NEW p \in Proc, NEW q \in Proc, create_process(p, q)
  PROVE  Kept
<1>1. /\ resume \in [Proc -> {"user", "receive", "new"} \cup Irq]
      /\ resume[q] = "new" /\ resume' = [resume EXCEPT ![q] = "user"]
      /\ UNCHANGED <<state, param_data, open, blocked, got>>
  BY DEF create_process, KInv, TypeOK
<1>2. Roles'
  BY <1>1, Parts DEF Roles
<1>3. Handling'
  BY <1>1, Parts DEF Handling, ListenersStay
<1>4. ASSUME NEW l \in Listener
      PROVE  Will(l)' <=> Will(l)
  <2>1. Back(l)' <=> Back(l)
    BY <1>1, Parts DEF Back
  <2>2. Waits(l)' <=> Waits(l)
    BY <1>1 DEF Waits
  <2>3. QED
    BY <1>1, <2>1, <2>2, WillKept DEF ListenersStay
<1>5. QED
  BY <1>2, <1>3, <1>4 DEF Kept, create_process, Running

\* Nothing of what these depend on changes.
LEMMA NothingKeeps ==
  ASSUME Roles, Handling, ListenersStay, fault' = "none",
         UNCHANGED <<state, param_data, open, blocked, resume, got>>
  PROVE  Kept
<1>1. Roles'
  BY DEF Roles
<1>2. Handling'
  BY DEF Handling, ListenersStay
<1>3. ASSUME NEW l \in Listener
      PROVE  Will(l)' <=> Will(l)
  <2>1. (Back(l)' <=> Back(l)) /\ (Waits(l)' <=> Waits(l))
    BY DEF Back, Waits
  <2>2. QED
    BY <2>1, WillKept DEF ListenersStay
<1>4. QED
  BY <1>1, <1>2, <1>3 DEF Kept

\* A process waits for an interrupt.
LEMMA WaitKeeps ==
  ASSUME KInv, Roles, Handling, ListenersStay, NEW p, NEW x,
         \/ p = keyb_notifier /\ x = KEYB_IRQ
         \/ p = net_notifier /\ x = NE2K_IRQ,
         wait_for_interrupt(p, x), fault' = "none"
  PROVE  Kept
<1>1. /\ p \in Proc /\ p \notin Listener /\ p # em_process /\ x \in Irq
  BY Parts, RunnerFacts DEF wait_for_interrupt, Running
<1>2. /\ state' = [state EXCEPT ![p] = "INTR_BLOCKED"]
      /\ resume' = [resume EXCEPT ![p] = x]
      /\ UNCHANGED <<param_data, open, blocked, got>>
  BY DEF wait_for_interrupt, panic
<1>3. /\ state \in [Proc -> States]
      /\ resume \in [Proc -> {"user", "receive", "new"} \cup Irq]
  BY DEF KInv, TypeOK
<1>4. Roles'
  BY <1>1, <1>2, <1>3, Parts DEF Roles
<1>5. Handling'
  BY <1>1, <1>2, <1>3, Parts DEF Handling, ListenersStay
<1>6. ASSUME NEW l \in Listener
      PROVE  Will(l)' <=> Will(l)
  <2>1. Back(l)' <=> Back(l)
    BY <1>1, <1>2, <1>3, Parts DEF Back
  <2>2. Waits(l)' <=> Waits(l)
    BY <1>2 DEF Waits
  <2>3. QED
    BY <1>2, <2>1, <2>2, WillKept DEF ListenersStay
<1>7. QED
  BY <1>4, <1>5, <1>6 DEF Kept

\* And goes on after one.
LEMMA WokenKeeps ==
  ASSUME KInv, Roles, Handling, ListenersStay, NEW p, wait_resume(p)
  PROVE  Kept
<1>1. p \in Proc /\ resume[p] \in Irq
  BY RunnerFacts DEF wait_resume
<1>2. /\ resume' = [resume EXCEPT ![p] = "user"]
      /\ UNCHANGED <<state, param_data, open, blocked, got>>
  BY DEF wait_resume
<1>3. resume \in [Proc -> {"user", "receive", "new"} \cup Irq]
  BY DEF KInv, TypeOK
<1>4. Roles'
  BY <1>1, <1>2, <1>3, Parts DEF Roles
<1>5. Handling'
  BY <1>1, <1>2, <1>3, Parts DEF Handling, ListenersStay
<1>6. ASSUME NEW l \in Listener
      PROVE  Will(l)' <=> Will(l)
  <2>1. Back(l)' <=> Back(l)
    BY <1>1, <1>2, <1>3, Parts DEF Back
  <2>2. Waits(l)' <=> Waits(l)
    BY <1>2 DEF Waits
  <2>3. QED
    BY <1>2, <2>1, <2>2, WillKept DEF ListenersStay
<1>7. QED
  BY <1>4, <1>5, <1>6 DEF Kept, wait_resume

\* An interrupt that does not stop the system.
LEMMA InterruptKeeps ==
  ASSUME KInv, Roles, Handling, ListenersStay, NEW x \in Irq, interrupt(x), fault' = "none"
  PROVE  Kept
<1>1. CASE ~Waiting(x)
  <2>1. UNCHANGED <<state, param_data, open, blocked, resume, got>>
    BY <1>1 DEF interrupt, panic
  <2>2. QED
    BY <2>1, NothingKeeps
<1>2. CASE Waiting(x)
  <2> DEFINE q == interrupt_table[x]
  <2>1. /\ q \in Proc /\ state[q] = "INTR_BLOCKED" /\ resume[q] \in Irq
        /\ state' = [state EXCEPT ![q] = "READY"]
        /\ UNCHANGED <<param_data, open, blocked, resume, got>>
    <3>1. /\ q \in Proc /\ state[q] = "INTR_BLOCKED"
          /\ state' = [state EXCEPT ![q] = "READY"]
          /\ UNCHANGED <<param_data, open, blocked, resume, got>>
      BY <1>2 DEF interrupt, Waiting, KInv, TypeOK
    <3> HIDE DEF q
    <3>2. resume[q] \in Irq
      BY <3>1 DEF KInv, SlotsMatchWaiters
    <3>3. QED
      BY <3>1, <3>2
  <2> HIDE DEF q
  <2>2. state \in [Proc -> States]
    BY DEF KInv, TypeOK
  <2>3. Roles'
    BY <2>1, <2>2 DEF Roles
  <2>4. Handling'
    BY <2>1 DEF Handling, ListenersStay
  <2>5. ASSUME NEW l \in Listener
        PROVE  Will(l)' <=> Will(l)
    <3>1. Back(l)' <=> Back(l)
      BY <2>1, <2>2, Parts DEF Back
    <3>2. Waits(l)' <=> Waits(l)
      BY <2>1 DEF Waits
    <3>3. QED
      BY <2>1, <3>1, <3>2, WillKept DEF ListenersStay
  <2>6. QED
    BY <2>3, <2>4, <2>5 DEF Kept
<1>3. QED
  BY <1>1, <1>2

\* A notifier sends an event to em_process.
LEMMA NotifyKeeps ==
  ASSUME KInv, Roles, Handling, ListenersStay, NEW p \in {keyb_notifier, net_notifier},
         NEW y, message(p, em, y)
  PROVE  Kept
<1>1. /\ p \in Proc /\ p \notin Listener /\ p # em_process /\ state[p] = "READY"
      /\ resume[p] = "user"
  BY Parts, RunnerFacts DEF message, Running
<1>2. /\ state \in [Proc -> States] /\ param_data \in [Proc -> Data \cup {NULL}]
      /\ blocked \in [Port -> Seq(Proc)]
  BY DEF KInv, TypeOK
<1>3. CASE Receptive(em)
  <2>1. /\ state[em_process] = "RECEIVE_BLOCKED"
        /\ param_data' = [param_data EXCEPT ![em_process] = y]
        /\ state' = [state EXCEPT ![em_process] = "READY"]
        /\ UNCHANGED <<blocked, open, resume, got>>
    BY <1>3, Parts DEF message, Receptive
  <2>2. Roles'
    BY <1>2, <2>1 DEF Roles
  <2>3. Handling'
    BY <2>1 DEF Handling, ListenersStay
  <2>4. ASSUME NEW l \in Listener
        PROVE  Will(l)' <=> Will(l)
    <3>1. (Back(l)' <=> Back(l)) /\ param_data'[l] = param_data[l]
      BY <1>2, <2>1, Parts DEF Back
    <3>2. ~ Waits(l) /\ ~ Waits(l)'
      BY <2>1, Parts DEF Waits, KInv, BlockedOnOnePort
    <3>3. QED
      BY <2>1, <3>1, <3>2, WillKept DEF ListenersStay
  <2>5. QED
    BY <2>2, <2>3, <2>4 DEF Kept, message, Running
<1>4. CASE ~Receptive(em)
  <2>1. /\ blocked' = [blocked EXCEPT ![em] = Append(@, p)]
        /\ state' = [state EXCEPT ![p] = "MESSAGE_BLOCKED"]
        /\ param_data' = [param_data EXCEPT ![p] = y]
        /\ UNCHANGED <<open, resume, got>>
    BY <1>4 DEF message, add_to_send_blocked_list
  <2>2. /\ Members(blocked'[em]) = Members(blocked[em]) \cup {p}
        /\ \A u \in Port : u # em => blocked'[u] = blocked[u]
    <3>1. em \in Port
      BY Parts
    <3>2. QED
      BY <1>1, <2>1, <3>1, JoinFacts
  <2>3. Roles'
    <3>1. \A o \in Port : open'[o] /\ Members(blocked'[o]) \subseteq Senders(o)
      BY <2>1, <2>2 DEF Roles, Senders
    <3>2. QED
      BY <1>2, <2>1, <3>1 DEF Roles
  <2>4. Handling'
    BY <2>1 DEF Handling, ListenersStay
  <2>5. ASSUME NEW l \in Listener
        PROVE  Will(l)' <=> Will(l)
    <3>1. (Back(l)' <=> Back(l)) /\ param_data'[l] = param_data[l]
      BY <1>1, <1>2, <2>1, Parts DEF Back
    <3>2. (Waits(l)' <=> Waits(l)) /\ param_data'[em_process] = param_data[em_process]
      <4>1. Head(ports[l]) \in Port /\ Head(ports[l]) # em
        BY Parts DEF ListenerPorts
      <4>2. QED
        BY <1>1, <1>2, <2>1, <2>2, <4>1 DEF Waits
    <3>3. QED
      BY <2>1, <3>1, <3>2, WillKept DEF ListenersStay
  <2>6. QED
    BY <2>3, <2>4, <2>5 DEF Kept, message, Running
<1>5. QED
  BY <1>3, <1>4

\* em_process sends an event to a listener: this is what the listener will have been
\* told last, and the others will think what they would have.
LEMMA Telling ==
  ASSUME KInv, Roles, Handling, ListenersStay, NEW l \in Listener,
         NEW y, message(em_process, Head(ports[l]), y)
  PROVE  /\ fault' = "none" /\ Roles' /\ Handling'
         /\ Will(l)' <=> Told(Will(l), y)
         /\ \A p \in Listener \ {l} : Will(p)' <=> Will(p)
<1> DEFINE o == Head(ports[l])
<1>1. /\ o \in Port /\ owner[o] = l /\ o # em /\ o \in ListenerPorts /\ l \in Proc
      /\ l # em_process /\ em_process \in Proc /\ em_process \notin Listener
      /\ Listener \subseteq Proc
  BY Parts DEF ListenerPorts
<1>2. /\ state \in [Proc -> States] /\ param_data \in [Proc -> Data \cup {NULL}]
      /\ blocked \in [Port -> Seq(Proc)]
  BY DEF KInv, TypeOK
<1>3. \A u \in Port : em_process \notin Members(blocked[u])
  BY RunnerFacts DEF message, Running
<1>4. state[em_process] = "READY" /\ resume[em_process] = "user"
  BY RunnerFacts DEF message, Running
<1>5. \A p \in Listener : ~ Waits(p)
  BY <1>3, Parts DEF Waits
<1>6. \A p \in Listener : p # l => Head(ports[p]) # o
  BY OwnPorts
<1>7. message(em_process, o, y)
  OBVIOUS
<1> HIDE DEF o
<1>8. ASSUME Receptive(o)
      PROVE  /\ Roles' /\ Handling'
             /\ Will(l)' <=> Told(Will(l), y)
             /\ \A p \in Listener \ {l} : Will(p)' <=> Will(p)
  <2>1. /\ state[l] = "RECEIVE_BLOCKED"
        /\ param_data' = [param_data EXCEPT ![l] = y]
        /\ state' = [state EXCEPT ![l] = "READY"]
        /\ UNCHANGED <<blocked, open, resume, got>>
    BY <1>1, <1>7, <1>8 DEF message, Receptive
  <2>2. resume[l] = "receive"
    BY <1>1, <2>1 DEF KInv, PlacesMatch
  <2>3. Roles'
    BY <1>2, <2>1 DEF Roles
  <2>4. Handling'
    BY <2>1 DEF Handling, ListenersStay
  <2>5. Will(l)' <=> Told(Will(l), y)
    <3>1. ~ Back(l) /\ Back(l)' /\ param_data'[l] = y
      BY <1>1, <1>2, <2>1, <2>2 DEF Back
    <3>2. ~ Waits(l) /\ ~ Waits(l)'
      BY <1>5, <2>1 DEF Waits
    <3>3. Handled(l)' <=> Handled(l)
      BY <2>1 DEF Handled, ListenersStay
    <3>4. Will(l)' <=> Told(Handled(l)', y)
      BY <3>1, <3>2 DEF Will, Returned
    <3>5. Will(l) <=> Handled(l)
      BY <3>1, <3>2 DEF Will, Returned
    <3>6. QED
      BY <3>3, <3>4, <3>5 DEF Told
  <2>6. ASSUME NEW p \in Listener \ {l}
        PROVE  Will(p)' <=> Will(p)
    <3>1. (Back(p)' <=> Back(p)) /\ param_data'[p] = param_data[p]
      BY <1>1, <1>2, <2>1 DEF Back
    <3>2. ~ Waits(p) /\ ~ Waits(p)'
      BY <1>5, <2>1 DEF Waits
    <3>3. QED
      BY <2>1, <3>1, <3>2, WillKept DEF ListenersStay
  <2>7. QED
    BY <2>3, <2>4, <2>5, <2>6
<1>9. ASSUME ~Receptive(o)
      PROVE  /\ Roles' /\ Handling'
             /\ Will(l)' <=> Told(Will(l), y)
             /\ \A p \in Listener \ {l} : Will(p)' <=> Will(p)
  <2>1. /\ blocked' = [blocked EXCEPT ![o] = Append(@, em_process)]
        /\ state' = [state EXCEPT ![em_process] = "MESSAGE_BLOCKED"]
        /\ param_data' = [param_data EXCEPT ![em_process] = y]
        /\ UNCHANGED <<open, resume, got>>
    BY <1>7, <1>9 DEF message, add_to_send_blocked_list
  <2>2. /\ Members(blocked'[o]) = Members(blocked[o]) \cup {em_process}
        /\ \A u \in Port : u # o => blocked'[u] = blocked[u]
    BY <1>1, <1>4, <2>1, JoinFacts
  <2>3. Roles'
    <3>1. \A u \in Port : open'[u] /\ Members(blocked'[u]) \subseteq Senders(u)
      BY <1>1, <2>1, <2>2 DEF Roles, Senders
    <3>2. QED
      BY <1>2, <2>1, <3>1 DEF Roles
  <2>4. Handling'
    BY <2>1 DEF Handling, ListenersStay
  <2>5. \A p \in Listener : (Back(p)' <=> Back(p)) /\ param_data'[p] = param_data[p]
    BY <1>1, <1>2, <2>1 DEF Back
  <2>6. Will(l)' <=> Told(Will(l), y)
    <3>1. ~ Waits(l) /\ Waits(l)' /\ param_data'[em_process] = y
      BY <1>1, <1>2, <1>5, <2>1, <2>2 DEF Waits, o
    <3>2. Returned(l)' <=> Returned(l)
      BY <2>1, <2>5 DEF Returned, Handled, ListenersStay, Told
    <3>3. Will(l)' <=> Told(Returned(l)', y)
      BY <3>1 DEF Will
    <3>4. Will(l) <=> Returned(l)
      BY <3>1 DEF Will
    <3>5. QED
      BY <3>2, <3>3, <3>4 DEF Told
  <2>7. ASSUME NEW p \in Listener \ {l}
        PROVE  Will(p)' <=> Will(p)
    <3>1. ~ Waits(p) /\ ~ Waits(p)'
      BY <1>5, <1>6, <2>2, Parts DEF Waits
    <3>2. QED
      BY <2>1, <2>5, <3>1, WillKept DEF ListenersStay
  <2>8. QED
    BY <2>3, <2>4, <2>6, <2>7
<1>10. fault' = "none"
  BY <1>7 DEF message, Running
<1>11. QED
  BY <1>8, <1>9, <1>10

\* The events that em_process finds when it calls receive() are those of notifiers.
LEMMA TakingKeeps ==
  ASSUME KInv, Roles, Handling, ListenersStay, receive_pending(em_process)
  PROVE  Kept
<1> DEFINE o == FirstPending(em_process)
           x == Head(blocked[o])
<1>1. em_process \in Proc /\ Pending(em_process) # {}
  BY Parts DEF receive_pending
<1>2. /\ o \in Port /\ owner[o] = em_process /\ x \in Proc /\ x \in Members(blocked[o])
      /\ state[x] \in {"SEND_BLOCKED", "MESSAGE_BLOCKED"}
      /\ Members(Tail(blocked[o])) = Members(blocked[o]) \ {x}
  BY <1>1, PendingFacts
<1>3. /\ blocked' = [blocked EXCEPT ![o] = Tail(@)]
      /\ got' = [got EXCEPT ![em_process] = [sender |-> x, data |-> param_data[x]]]
      /\ Accept(x)
      /\ UNCHANGED <<param_data, open, resume>>
  BY DEF receive_pending, Return
<1> HIDE DEF x, o
<1>4. state[x] = "MESSAGE_BLOCKED" /\ x \in Senders(o)
  BY <1>2 DEF Roles
<1>5. o = em
  BY <1>2, <1>4, Parts DEF Senders, ListenerPorts
<1>6. x \in {keyb_notifier, net_notifier}
  BY <1>4, <1>5 DEF Senders
<1>7. state' = [state EXCEPT ![x] = "READY"]
  BY <1>3, <1>4 DEF Accept
<1>8. /\ state \in [Proc -> States] /\ blocked \in [Port -> Seq(Proc)]
      /\ DOMAIN got = Proc
  BY DEF KInv, TypeOK
<1>9. /\ Members(blocked'[em]) \subseteq Members(blocked[em])
      /\ \A u \in Port : u # em => blocked'[u] = blocked[u]
  BY <1>2, <1>3, <1>5, <1>8
<1>10. Roles'
  <2>1. \A u \in Port : open'[u] /\ Members(blocked'[u]) \subseteq Senders(u)
    BY <1>3, <1>9 DEF Roles
  <2>2. \A q \in Proc : state'[q] \notin {"SEND_BLOCKED", "REPLY_BLOCKED"}
    BY <1>7, <1>8 DEF Roles
  <2>3. QED
    BY <1>3, <2>1, <2>2 DEF Roles
<1>11. Handling'
  BY <1>3 DEF Handling, ListenersStay
<1>12. ASSUME NEW l \in Listener
       PROVE  Will(l)' <=> Will(l)
  <2>1. l \in Proc /\ l # x /\ l # em_process /\ Head(ports[l]) \in Port /\ Head(ports[l]) # em
    BY <1>6, Parts DEF ListenerPorts
  <2>2. got'[l] = got[l] /\ (Back(l)' <=> Back(l))
    BY <1>3, <1>7, <1>8, <2>1 DEF Back
  <2>3. Waits(l)' <=> Waits(l)
    BY <1>9, <2>1 DEF Waits
  <2>4. QED
    BY <1>3, <2>2, <2>3, WillKept DEF ListenersStay
<1>13. QED
  BY <1>10, <1>11, <1>12 DEF Kept, receive_pending, Running

\* The event that a listener finds is the one with which em_process waits for it.
LEMMA ListenerTakes ==
  ASSUME KInv, Roles, Handling, DOMAIN pc = Services, NEW p \in Listener, receive_pending(p),
         pc[p] = "receive", pc' = [pc EXCEPT ![p] = "handle"], focused' = focused
  PROVE  Kept
<1> DEFINE o == FirstPending(p)
           x == Head(blocked[o])
<1>1. p \in Proc /\ Pending(p) # {}
  BY Parts DEF receive_pending
<1>2. /\ o \in Port /\ owner[o] = p /\ x \in Proc /\ x \in Members(blocked[o])
      /\ state[x] \in {"SEND_BLOCKED", "MESSAGE_BLOCKED"}
      /\ Members(Tail(blocked[o])) = Members(blocked[o]) \ {x}
  BY <1>1, PendingFacts
<1>3. /\ blocked' = [blocked EXCEPT ![o] = Tail(@)]
      /\ got' = [got EXCEPT ![p] = [sender |-> x, data |-> param_data[x]]]
      /\ Accept(x)
      /\ UNCHANGED <<param_data, open, resume>>
      /\ resume[p] = "user"
  BY DEF receive_pending, Return, Running
<1> HIDE DEF x, o
<1>4. state[x] = "MESSAGE_BLOCKED" /\ x \in Senders(o)
  BY <1>2 DEF Roles
<1>5. o = Head(ports[p])
  BY <1>2, <1>4, Parts DEF Senders, ListenerPorts
<1>6. x = em_process
  BY <1>2, <1>4, Parts DEF Senders
<1>7. state' = [state EXCEPT ![em_process] = "READY"]
  BY <1>3, <1>4, <1>6 DEF Accept
<1>8. /\ state \in [Proc -> States] /\ blocked \in [Port -> Seq(Proc)]
      /\ DOMAIN got = Proc
  BY DEF KInv, TypeOK
<1>9. /\ Members(blocked'[o]) = Members(blocked[o]) \ {em_process}
      /\ \A u \in Port : u # o => blocked'[u] = blocked[u]
  BY <1>2, <1>3, <1>6, <1>8
<1>10. Roles'
  <2>1. \A u \in Port : open'[u] /\ Members(blocked'[u]) \subseteq Senders(u)
    BY <1>3, <1>9 DEF Roles
  <2>2. \A q \in Proc : state'[q] \notin {"SEND_BLOCKED", "REPLY_BLOCKED"}
    BY <1>7, <1>8 DEF Roles
  <2>3. QED
    BY <1>3, <2>1, <2>2 DEF Roles
<1>11. pc'[p] = "handle" /\ \A l \in Listener \ {p} : pc'[l] = pc[l]
  BY DEF Services
<1>12. Handling'
  BY <1>3, <1>11 DEF Handling
<1>13. \A l \in Listener : Back(l)' <=> Back(l)
  BY <1>3, <1>7, <1>8, Parts DEF Back
<1>14. Will(p)' <=> Will(p)
  <2>1. Waits(p) /\ ~ Waits(p)' /\ ~ Back(p)
    BY <1>2, <1>3, <1>5, <1>6, <1>9 DEF Waits, Back
  <2>2. got'[p].data = param_data[em_process]
    BY <1>1, <1>3, <1>6, <1>8
  <2>3. Will(p)' <=> Told(focused[p], param_data[em_process])
    BY <1>11, <1>13, <2>1, <2>2 DEF Will, Returned, Handled, Told
  <2>4. Will(p) <=> Told(focused[p], param_data[em_process])
    BY <2>1 DEF Will, Returned, Handled, Told
  <2>5. QED
    BY <2>3, <2>4
<1>15. ASSUME NEW l \in Listener \ {p}
       PROVE  Will(l)' <=> Will(l)
  <2>1. Head(ports[l]) \in Port /\ Head(ports[l]) # o /\ l \in Proc
    BY <1>5, OwnPorts, Parts
  <2>2. Waits(l)' <=> Waits(l)
    BY <1>9, <2>1 DEF Waits
  <2>3. got'[l] = got[l]
    BY <1>3, <1>8, <2>1
  <2>4. QED
    BY <1>3, <1>11, <1>13, <2>2, <2>3, WillKept
<1>16. QED
  BY <1>10, <1>12, <1>14, <1>15 DEF Kept, receive_pending, Running

\* A process waits for an event.
LEMMA ListeningKeeps ==
  ASSUME KInv, Roles, Handling, ListenersStay, NEW p \in Listener \cup {em_process},
         p \in Listener => pc[p] # "handle", receive_wait(p), fault' = "none"
  PROVE  Kept
<1>1. /\ p \in Proc /\ p = active_proc
      /\ state' = [state EXCEPT ![p] = "RECEIVE_BLOCKED"]
      /\ resume' = [resume EXCEPT ![p] = "receive"]
      /\ param_data' = [param_data EXCEPT ![p] = NULL]
      /\ UNCHANGED <<open, blocked, got>>
      /\ resume[p] = "user"
  BY Parts DEF receive_wait, Running, panic
<1>2. /\ state \in [Proc -> States] /\ param_data \in [Proc -> Data \cup {NULL}]
      /\ resume \in [Proc -> {"user", "receive", "new"} \cup Irq]
  BY DEF KInv, TypeOK
<1>3. Roles'
  BY <1>1, <1>2, Parts DEF Roles
<1>4. Handling'
  BY <1>1, <1>2, Parts DEF Handling, ListenersStay
<1>5. ASSUME NEW l \in Listener
      PROVE  Will(l)' <=> Will(l)
  <2>1. Back(l)' <=> Back(l)
    BY <1>1, <1>2, Parts DEF Back
  <2>2. Back(l) => param_data'[l] = param_data[l]
    BY <1>1, <1>2, Parts DEF Back
  <2>3. Waits(l)' <=> Waits(l)
    BY <1>1 DEF Waits
  <2>4. Waits(l) => param_data'[em_process] = param_data[em_process]
    BY <1>1, <1>2, Parts, RunnerFacts DEF Waits
  <2>5. QED
    BY <1>1, <2>1, <2>2, <2>3, <2>4, WillKept DEF ListenersStay
<1>6. QED
  BY <1>3, <1>4, <1>5 DEF Kept

\* em_process returns from receive() with what it was handed.
LEMMA ReturnKeeps ==
  ASSUME KInv, Roles, Handling, ListenersStay, receive_resume(em_process)
  PROVE  Kept
<1>1. /\ resume' = [resume EXCEPT ![em_process] = "user"]
      /\ got' = [got EXCEPT ![em_process] = [sender |-> param_proc[em_process],
                                             data |-> param_data[em_process]]]
      /\ UNCHANGED <<state, param_data, open, blocked>>
  BY DEF receive_resume, Return
<1>2. /\ resume \in [Proc -> {"user", "receive", "new"} \cup Irq] /\ DOMAIN got = Proc
  BY DEF KInv, TypeOK
<1>3. Roles'
  BY <1>1, <1>2, Parts DEF Roles
<1>4. Handling'
  BY <1>1, <1>2, Parts DEF Handling, ListenersStay
<1>5. ASSUME NEW l \in Listener
      PROVE  Will(l)' <=> Will(l)
  <2>1. (Back(l)' <=> Back(l)) /\ got'[l] = got[l]
    BY <1>1, <1>2, Parts DEF Back
  <2>2. Waits(l)' <=> Waits(l)
    BY <1>1 DEF Waits
  <2>3. QED
    BY <1>1, <2>1, <2>2, WillKept DEF ListenersStay
<1>6. QED
  BY <1>3, <1>4, <1>5 DEF Kept, receive_resume

\* So does a listener, which will handle it.
LEMMA ListenerReturns ==
  ASSUME KInv, Roles, Handling, DOMAIN pc = Services, NEW p \in Listener, receive_resume(p),
         pc[p] = "receive", pc' = [pc EXCEPT ![p] = "handle"], focused' = focused
  PROVE  Kept
<1>1. /\ p \in Proc /\ p = active_proc /\ resume[p] = "receive"
      /\ resume' = [resume EXCEPT ![p] = "user"]
      /\ got' = [got EXCEPT ![p] = [sender |-> param_proc[p], data |-> param_data[p]]]
      /\ UNCHANGED <<state, param_data, open, blocked>>
  BY Parts DEF receive_resume, Return
<1>2. /\ resume \in [Proc -> {"user", "receive", "new"} \cup Irq] /\ DOMAIN got = Proc
  BY DEF KInv, TypeOK
<1>3. Roles'
  BY <1>1, <1>2, Parts DEF Roles
<1>4. pc'[p] = "handle" /\ \A l \in Listener \ {p} : pc'[l] = pc[l]
  BY DEF Services
<1>5. Handling'
  BY <1>1, <1>2, <1>4, Parts DEF Handling
<1>6. \A l \in Listener : Waits(l)' <=> Waits(l)
  BY <1>1 DEF Waits
<1>7. Will(p)' <=> Will(p)
  <2>1. Back(p) /\ ~ Back(p)'
    BY <1>1, <1>2, RunnerFacts DEF Back
  <2>2. got'[p].data = param_data[p]
    BY <1>1, <1>2
  <2>3. Returned(p)' <=> Returned(p)
    BY <1>4, <2>1, <2>2 DEF Returned, Handled, Told
  <2>4. QED
    BY <1>1, <1>6, <2>3 DEF Will, Told
<1>8. ASSUME NEW l \in Listener \ {p}
      PROVE  Will(l)' <=> Will(l)
  <2>1. (Back(l)' <=> Back(l)) /\ got'[l] = got[l]
    BY <1>1, <1>2, Parts DEF Back
  <2>2. QED
    BY <1>1, <1>4, <1>6, <2>1, WillKept
<1>9. QED
  BY <1>3, <1>5, <1>7, <1>8 DEF Kept, receive_resume

\* A listener learns from the event what it was told.
LEMMA HandleKeeps ==
  ASSUME KInv, Roles, Handling, Registers, NEW p \in Listener, listener_handle(p)
  PROVE  Kept /\ focused' \in [Listener -> BOOLEAN]
<1>1. /\ UNCHANGED <<state, param_data, open, blocked, resume, got>>
      /\ pc[p] = "handle" /\ pc' = [pc EXCEPT ![p] = "busy"]
      /\ focused' = [focused EXCEPT ![p] = CASE got[p].data = "&focus_change" -> TRUE
                                             [] got[p].data = "&focus_out" -> FALSE
                                             [] OTHER -> @]
  BY DEF listener_handle, Goes, vars
<1>2. pc'[p] = "busy" /\ \A l \in Listener \ {p} : pc'[l] = pc[l]
  BY <1>1 DEF Services, Registers
<1>3. focused \in [Listener -> BOOLEAN]
  BY DEF Registers
<1>4. focused'[p] = Told(focused[p], got[p].data)
  <2>1. CASE got[p].data = "&focus_change"
    BY <1>1, <1>3, <2>1 DEF Told
  <2>2. CASE got[p].data = "&focus_out"
    BY <1>1, <1>3, <2>2 DEF Told
  <2>3. CASE got[p].data \notin {"&focus_change", "&focus_out"}
    BY <1>1, <1>3, <2>3 DEF Told
  <2>4. QED
    BY <2>1, <2>2, <2>3
<1>5. focused' \in [Listener -> BOOLEAN]
  BY <1>1, <1>3, <1>4 DEF Told
<1>6. Roles'
  BY <1>1 DEF Roles
<1>7. Handling'
  BY <1>1, <1>2 DEF Handling
<1>8. \A l \in Listener : (Waits(l)' <=> Waits(l)) /\ (Back(l)' <=> Back(l))
  BY <1>1 DEF Waits, Back
<1>9. Will(p)' <=> Will(p)
  <2>1. Handled(p)' <=> Handled(p)
    BY <1>1, <1>2, <1>4 DEF Handled
  <2>2. Returned(p)' <=> Returned(p)
    BY <1>1, <1>8, <2>1 DEF Returned, Told
  <2>3. QED
    BY <1>1, <1>8, <2>2 DEF Will, Told
<1>10. ASSUME NEW l \in Listener \ {p}
       PROVE  Will(l)' <=> Will(l)
  <2>1. focused'[l] = focused[l]
    BY <1>1, <1>3
  <2>2. QED
    BY <1>1, <1>2, <1>8, <2>1, WillKept
<1>11. QED
  BY <1>5, <1>6, <1>7, <1>9, <1>10 DEF Kept, listener_handle, Running, vars

-------------------------------------------------------------------------------
(* The steps of each process.  A step keeps EmSound or is a panic.             *)

Stops == /\ fault' # "none" /\ panic(fault')
         /\ UNCHANGED <<KEY_LISTENERS, kboard_focus, focused>>
         /\ PanicsOnlyIfStuck'

Fine == EmSound' \/ Stops

\* What em_process has in mind does not change with a step that leaves the registers.
LEMMA SoundKept ==
  ASSUME EmSound, KInv', Kept, DOMAIN pc' = Services,
         pc'[em_process] \in {"next", "in"} => pc'[em_process] = pc[em_process],
         em_port' \in {NULL, em}, i' \in 0 .. MAX_LISTENERS,
         focused' \in [Listener -> BOOLEAN],
         UNCHANGED <<table, kboard_focus>>
  PROVE  EmSound'
<1>1. Registers'
  BY DEF EmSound, Registers, table
<1>2. FocusInTransit'
  BY DEF EmSound, FocusInTransit, Kept, Focus, table
<1>3. QED
  BY <1>1, <1>2 DEF EmSound, Kept

\* The step of one process changes its own place.
LEMMA OthersStay ==
  ASSUME Registers, NEW p \in Services, NEW b, pc' = [pc EXCEPT ![p] = b]
  PROVE  /\ DOMAIN pc' = Services
         /\ pc'[p] = b
         /\ \A q \in Services \ {p} : pc'[q] = pc[q]
BY DEF Registers

\* Some of these places are of no interest to the others.
LEMMA Unhandled ==
  ASSUME Registers, NEW p \in Services, NEW b, pc' = [pc EXCEPT ![p] = b],
         pc[p] # "handle", b # "handle", focused' = focused
  PROVE  ListenersStay
<1>1. \A l \in Listener : l \in Services
  BY DEF Services
<1>2. QED
  BY <1>1, OthersStay DEF ListenersStay

\* post() at the port of em_process.
LEMMA PostFine ==
  ASSUME EmSound, NEW p \in {keyb_notifier, net_notifier}, NEW y \in Note, ListenersStay,
         post(p, em_port, y)
  PROVE  \/ KInv' /\ Kept
         \/ panic("message(): not a port")
<1>1. CASE em_port = NULL
  BY <1>1 DEF post
<1>2. CASE em_port # NULL
  <2>1. em_port = em /\ em \in Port
    BY <1>2, Parts DEF EmSound, Registers
  <2>2. message(p, em, y)
    BY <1>2, <2>1 DEF post
  <2>3. p \in Proc /\ p # Boot
    BY <2>2, RunnerFacts, Parts DEF EmSound, message, Running
  <2>4. QED
    BY <2>1, <2>2, <2>3, NotifyKeeps, MessageStep DEF EmSound
<1>3. QED
  BY <1>1, <1>2

\* No other panic than that of an interrupt is about the keyboard's.
LEMMA StopsFine ==
  ASSUME NEW why, panic(why), UNCHANGED <<KEY_LISTENERS, kboard_focus, focused>>,
         why \notin {"none", "service_intr: No process waiting",
                     "service_intr: Spurious interrupt"}
  PROVE  Stops
<1>1. fault' = why
  BY DEF panic
<1>2. QED
  BY <1>1 DEF Stops, PanicsOnlyIfStuck

LEMMA BootFine ==
  ASSUME EmSound, boot_steps
  PROVE  Fine
<1> USE DEF EmSound
<1>1. ASSUME NEW a, NEW p \in {keyb_notifier, net_notifier, em_process, shell}, NEW b,
             a \in {"start", "net", "em", "shell"}, b # "handle", p \in Proc,
             boot_creates(a, p, b)
      PROVE  Fine
  <2>1. /\ Boot \in Services /\ Boot \in Proc /\ em_process \in Services
        /\ pc[Boot] = a /\ pc' = [pc EXCEPT ![Boot] = b]
    BY <1>1, Parts DEF boot_creates, Goes, Services
  <2>2. ListenersStay
    BY <1>1, <2>1, Unhandled DEF boot_creates, history
  <2>3. KInv' /\ Kept
    BY <1>1, <2>1, <2>2, CreateKeeps, CreateStep DEF boot_creates
  <2>4. DOMAIN pc' = Services /\ pc'[em_process] = pc[em_process]
    BY <2>1, OthersStay, Parts
  <2>5. em_port' \in {NULL, em} /\ i' \in 0 .. MAX_LISTENERS /\ focused' \in [Listener -> BOOLEAN]
    BY <1>1 DEF boot_creates, Registers, history
  <2>6. EmSound'
    BY <1>1, <2>3, <2>4, <2>5, SoundKept DEF boot_creates
  <2>7. QED
    BY <2>6 DEF Fine
<1>2. CASE boot_assigns
  <2>1. /\ Boot \in Services /\ em_process \in Services
        /\ pc[Boot] = "em_port" /\ pc' = [pc EXCEPT ![Boot] = "shell"]
        /\ UNCHANGED vars
    BY <1>2, Parts DEF boot_assigns, Goes, Services
  <2>2. ListenersStay
    BY <1>2, <2>1, Unhandled DEF boot_assigns, history
  <2>3. KInv' /\ Kept
    BY <2>1, <2>2, NothingKeeps, StutterStep DEF vars
  <2>4. DOMAIN pc' = Services /\ pc'[em_process] = pc[em_process]
    BY <2>1, OthersStay, Parts
  <2>5. em_port' \in {NULL, em} /\ i' \in 0 .. MAX_LISTENERS /\ focused' \in [Listener -> BOOLEAN]
    BY <1>2 DEF boot_assigns, Registers, history
  <2>6. EmSound'
    BY <1>2, <2>3, <2>4, <2>5, SoundKept DEF boot_assigns
  <2>7. QED
    BY <2>6 DEF Fine
<1>3. CASE resign(Boot) /\ UNCHANGED <<pc, em_port, table, kboard_focus, i, em_msg, msg,
                                       new_key, history>>
  <2>1. ListenersStay
    BY <1>3 DEF ListenersStay, history
  <2>2. KInv' /\ Kept
    BY <1>3, <2>1, NothingKeeps, ResignStep, Parts DEF resign
  <2>3. EmSound'
    BY <1>3, <2>2, SoundKept DEF Registers, history
  <2>4. QED
    BY <2>3 DEF Fine
<1>4. shell \in Proc
  BY EventAssumption
<1>5. QED
  <2>1. CASE boot_creates("start", keyb_notifier, IF net_notifier = NULL THEN "em" ELSE "net")
    BY <1>1, <2>1, Parts
  <2>2. CASE net_notifier # NULL /\ boot_creates("net", net_notifier, "em")
    BY <1>1, <2>2, Parts
  <2>3. CASE boot_creates("em", em_process, "em_port")
    <3>1. em_process \in Proc
      BY Parts
    <3>2. QED
      BY <1>1, <2>3, <3>1
  <2>4. CASE boot_creates("shell", shell, "done")
    BY <1>1, <1>4, <2>4
  <2>5. QED
    BY <1>2, <1>3, <2>1, <2>2, <2>3, <2>4 DEF boot_steps

LEMMA KeybFine ==
  ASSUME EmSound, keyb_steps
  PROVE  Fine
<1> USE DEF EmSound
<1> DEFINE p == keyb_notifier
<1>1. p \in Proc /\ p # Boot /\ p \in Services /\ p # em_process /\ em_process \in Services
  BY Parts DEF Services
<1>2. KEYB_IRQ \in Irq
  BY Parts
<1>3. /\ em_port \in {NULL, em} /\ i \in 0 .. MAX_LISTENERS /\ focused \in [Listener -> BOOLEAN]
  BY DEF Registers
<1>4. ASSUME NEW b, pc' = [pc EXCEPT ![p] = b], pc[p] # "handle", b # "handle",
             UNCHANGED <<em_port, table, kboard_focus, i, focused>>
      PROVE  ListenersStay /\ (KInv' /\ Kept => EmSound')
  <2>1. DOMAIN pc' = Services /\ pc'[em_process] = pc[em_process]
    BY <1>1, <1>4, OthersStay
  <2>2. ListenersStay
    BY <1>1, <1>4, Unhandled
  <2>3. QED
    BY <1>3, <1>4, <2>1, <2>2, SoundKept
<1>5. CASE keyb_wait
  <2>1. ListenersStay /\ (KInv' /\ Kept => EmSound')
    BY <1>4, <1>5 DEF keyb_wait, Goes, history
  <2>2. wait_for_interrupt(p, KEYB_IRQ)
    BY <1>5 DEF keyb_wait
  <2>3. CASE interrupt_table[KEYB_IRQ] = NULL
    <3>1. fault' = "none"
      BY <2>2, <2>3 DEF wait_for_interrupt, Running
    <3>2. KInv' /\ Kept
      BY <1>1, <1>2, <2>1, <2>2, <3>1, WaitKeeps, WaitStep
    <3>3. QED
      BY <2>1, <3>2 DEF Fine
  <2>4. CASE interrupt_table[KEYB_IRQ] # NULL
    <3>1. panic("wait_for_interrupt(): ISR busy")
      BY <2>2, <2>4 DEF wait_for_interrupt
    <3>2. Stops
      BY <1>5, <3>1, StopsFine DEF keyb_wait, table, history
    <3>3. QED
      BY <3>2 DEF Fine
  <2>5. QED
    BY <2>3, <2>4
<1>6. CASE keyb_woken
  <2>1. ListenersStay /\ (KInv' /\ Kept => EmSound')
    BY <1>4, <1>6 DEF keyb_woken, Goes, history
  <2>2. wait_resume(p)
    BY <1>6 DEF keyb_woken
  <2>3. KInv' /\ Kept
    BY <1>1, <2>1, <2>2, WokenKeeps, WaitResumeStep
  <2>4. QED
    BY <2>1, <2>3 DEF Fine
<1>7. CASE keyb_store
  <2>1. ListenersStay /\ (KInv' /\ Kept => EmSound')
    BY <1>4, <1>7 DEF keyb_store, Goes, history
  <2>2. KInv' /\ Kept
    BY <1>7, <2>1, NothingKeeps, StutterStep DEF keyb_store, vars
  <2>3. QED
    BY <2>1, <2>2 DEF Fine
<1>8. CASE keyb_tell
  <2>1. ListenersStay /\ (KInv' /\ Kept => EmSound')
    BY <1>4, <1>8 DEF keyb_tell, Goes, history
  <2>2. post(p, em_port, "&em_msg") /\ "&em_msg" \in Note
    BY <1>8, Parts DEF keyb_tell, Events
  <2>3. (KInv' /\ Kept) \/ panic("message(): not a port")
    BY <2>1, <2>2, PostFine
  <2>4. CASE KInv' /\ Kept
    BY <2>1, <2>4 DEF Fine
  <2>5. CASE panic("message(): not a port")
    <3>1. Stops
      BY <1>8, <2>5, StopsFine DEF keyb_tell, table, history
    <3>2. QED
      BY <3>1 DEF Fine
  <2>6. QED
    BY <2>3, <2>4, <2>5
<1>9. QED
  BY <1>5, <1>6, <1>7, <1>8 DEF keyb_steps

LEMMA NetFine ==
  ASSUME EmSound, net_steps
  PROVE  Fine
<1> USE DEF EmSound
<1> DEFINE p == net_notifier
<1>1. p \in Proc /\ p # Boot /\ p \in Services /\ p # em_process /\ em_process \in Services
  BY Parts DEF Services, net_steps
<1>2. NE2K_IRQ \in Irq
  BY Parts
<1>3. /\ em_port \in {NULL, em} /\ i \in 0 .. MAX_LISTENERS /\ focused \in [Listener -> BOOLEAN]
  BY DEF Registers
<1>4. ASSUME NEW b, pc' = [pc EXCEPT ![p] = b], pc[p] # "handle", b # "handle",
             UNCHANGED <<em_port, table, kboard_focus, i, focused>>
      PROVE  ListenersStay /\ (KInv' /\ Kept => EmSound')
  <2>1. DOMAIN pc' = Services /\ pc'[em_process] = pc[em_process]
    BY <1>1, <1>4, OthersStay
  <2>2. ListenersStay
    BY <1>1, <1>4, Unhandled
  <2>3. QED
    BY <1>3, <1>4, <2>1, <2>2, SoundKept
<1>5. CASE net_wait
  <2>1. ListenersStay /\ (KInv' /\ Kept => EmSound')
    BY <1>4, <1>5 DEF net_wait, Goes, history
  <2>2. wait_for_interrupt(p, NE2K_IRQ)
    BY <1>5 DEF net_wait
  <2>3. CASE interrupt_table[NE2K_IRQ] = NULL
    <3>1. fault' = "none"
      BY <2>2, <2>3 DEF wait_for_interrupt, Running
    <3>2. KInv' /\ Kept
      BY <1>1, <1>2, <2>1, <2>2, <3>1, WaitKeeps, WaitStep
    <3>3. QED
      BY <2>1, <3>2 DEF Fine
  <2>4. CASE interrupt_table[NE2K_IRQ] # NULL
    <3>1. panic("wait_for_interrupt(): ISR busy")
      BY <2>2, <2>4 DEF wait_for_interrupt
    <3>2. Stops
      BY <1>5, <3>1, StopsFine DEF net_wait, table, history
    <3>3. QED
      BY <3>2 DEF Fine
  <2>5. QED
    BY <2>3, <2>4
<1>6. CASE net_woken
  <2>1. ListenersStay /\ (KInv' /\ Kept => EmSound')
    BY <1>4, <1>6 DEF net_woken, Goes, history
  <2>2. wait_resume(p)
    BY <1>6 DEF net_woken
  <2>3. KInv' /\ Kept
    BY <1>1, <2>1, <2>2, WokenKeeps, WaitResumeStep
  <2>4. QED
    BY <2>1, <2>3 DEF Fine
<1>7. CASE net_return
  <2>1. ListenersStay /\ (KInv' /\ Kept => EmSound')
    BY <1>4, <1>7 DEF net_return, Goes, history
  <2>2. KInv' /\ Kept
    BY <1>7, <2>1, NothingKeeps, StutterStep DEF net_return, vars
  <2>3. QED
    BY <2>1, <2>2 DEF Fine
<1>8. CASE net_tell
  <2>1. ListenersStay /\ (KInv' /\ Kept => EmSound')
    BY <1>4, <1>8 DEF net_tell, Goes, history
  <2>2. post(p, em_port, "&msg") /\ "&msg" \in Note
    BY <1>8, Parts DEF net_tell, Events
  <2>3. (KInv' /\ Kept) \/ panic("message(): not a port")
    BY <2>1, <2>2, PostFine
  <2>4. CASE KInv' /\ Kept
    BY <2>1, <2>4 DEF Fine
  <2>5. CASE panic("message(): not a port")
    <3>1. Stops
      BY <1>8, <2>5, StopsFine DEF net_tell, table, history
    <3>2. QED
      BY <3>1 DEF Fine
  <2>6. QED
    BY <2>3, <2>4, <2>5
<1>9. QED
  BY <1>5, <1>6, <1>7, <1>8 DEF net_steps

\* em_process posts to a slot of a table, if it is not empty to a listener.
LEMMA SlotFine ==
  ASSUME EmSound, ListenersStay, NEW o \in ListenerPorts \cup {NULL}, NEW y \in Note,
         post(em_process, o, y)
  PROVE  \/ panic("message(): not a port")
         \/ \E l \in Listener :
              /\ o = Head(ports[l])
              /\ fault' = "none" /\ KInv' /\ Roles' /\ Handling'
              /\ Will(l)' <=> Told(Will(l), y)
              /\ \A p \in Listener \ {l} : Will(p)' <=> Will(p)
<1>1. CASE o = NULL
  BY <1>1 DEF post
<1>2. CASE o # NULL
  <2>1. PICK l \in Listener : o = Head(ports[l])
    BY <1>2 DEF ListenerPorts
  <2>2. message(em_process, Head(ports[l]), y)
    BY <1>2, <2>1 DEF post
  <2>3. KInv'
    <3>1. em_process \in Proc /\ em_process # Boot /\ Head(ports[l]) \in Port
      BY Parts
    <3>2. QED
      BY <2>2, <3>1, MessageStep DEF EmSound
  <2>4. /\ fault' = "none" /\ Roles' /\ Handling'
        /\ Will(l)' <=> Told(Will(l), y)
        /\ \A p \in Listener \ {l} : Will(p)' <=> Will(p)
    BY <2>2, Telling DEF EmSound
  <2>5. QED
    BY <2>1, <2>3, <2>4
<1>3. QED
  BY <1>1, <1>2

\* The slot that has the focus.
LEMMA FocusFacts ==
  ASSUME Registers
  PROVE  Focus \in ListenerPorts \cup {NULL}
BY DEF Registers, Focus

\* What happens in em_process, apart from what it sends.
LEMMA ManagerStays ==
  ASSUME Registers, NEW b, pc' = [pc EXCEPT ![em_process] = b], focused' = focused
  PROVE  ListenersStay /\ DOMAIN pc' = Services /\ pc'[em_process] = b
<1>1. /\ em_process \in Services /\ DOMAIN pc' = Services
      /\ \A l \in Listener : l \in Services \ {em_process}
  BY Parts DEF Services, Registers
<1>2. QED
  BY <1>1, OthersStay DEF ListenersStay

LEMMA ReceiveFine ==
  ASSUME EmSound, em_receive
  PROVE  Fine
<1> USE DEF EmSound
<1>1. /\ em_port \in {NULL, em} /\ i \in 0 .. MAX_LISTENERS /\ focused \in [Listener -> BOOLEAN]
      /\ DOMAIN pc = Services
  BY DEF Registers
<1>2. /\ pc[em_process] = "start" /\ UNCHANGED <<em_port, table, kboard_focus, i, focused>>
  BY DEF em_receive
<1>3. em_process \in Proc /\ em_process # Boot /\ em_process \notin Listener
  BY Parts
<1>4. CASE receive_wait(em_process) /\ UNCHANGED <<pc, taken>>
  <2>1. ListenersStay
    BY <1>2, <1>4 DEF ListenersStay
  <2>2. CASE ports[em_process] = << >>
    <3>1. panic("receive(): no port created for this process")
      BY <1>4, <2>2 DEF receive_wait
    <3>2. Stops
      BY <1>2, <3>1, StopsFine DEF table
    <3>3. QED
      BY <3>2 DEF Fine
  <2>3. CASE ports[em_process] # << >>
    <3>1. fault' = "none"
      BY <1>4, <2>3 DEF receive_wait, Running
    <3>2. KInv' /\ Kept
      BY <1>3, <1>4, <2>1, <3>1, ListeningKeeps, ReceiveWaitStep
    <3>3. EmSound'
      BY <1>1, <1>2, <1>4, <3>2, SoundKept
    <3>4. QED
      BY <3>3 DEF Fine
  <2>4. QED
    BY <2>2, <2>3
<1>5. CASE /\ receive_pending(em_process) \/ receive_resume(em_process)
           /\ Goes(em_process, "start", "switch")
  <2>1. pc' = [pc EXCEPT ![em_process] = "switch"]
    BY <1>5 DEF Goes
  <2>2. ListenersStay /\ DOMAIN pc' = Services /\ pc'[em_process] = "switch"
    BY <1>2, <2>1, ManagerStays
  <2>3. KInv' /\ Kept
    <3>1. CASE receive_pending(em_process)
      BY <1>3, <2>2, <3>1, TakingKeeps, ReceivePendingStep
    <3>2. CASE receive_resume(em_process)
      BY <1>3, <2>2, <3>2, ReturnKeeps, ReceiveResumeStep
    <3>3. QED
      BY <1>5, <3>1, <3>2
  <2>4. EmSound'
    BY <1>1, <1>2, <2>2, <2>3, SoundKept
  <2>5. QED
    BY <2>4 DEF Fine
<1>6. QED
  BY <1>4, <1>5 DEF em_receive

LEMMA SwitchFine ==
  ASSUME EmSound, em_switch
  PROVE  Fine
<1> USE DEF EmSound
<1>1. /\ em_port \in {NULL, em} /\ i \in 0 .. MAX_LISTENERS /\ focused \in [Listener -> BOOLEAN]
      /\ DOMAIN pc = Services /\ 0 \in 0 .. MAX_LISTENERS
  BY EventAssumption DEF Registers
<1>2. UNCHANGED <<em_port, table, kboard_focus, focused>>
  BY DEF em_switch, history
<1>3. ASSUME NEW b \in {"out", "key", "fan_out"}, pc' = [pc EXCEPT ![em_process] = b],
             UNCHANGED vars, i' \in 0 .. MAX_LISTENERS
      PROVE  Fine
  <2>1. ListenersStay /\ DOMAIN pc' = Services /\ pc'[em_process] = b
    BY <1>2, <1>3, ManagerStays
  <2>2. KInv' /\ Kept
    BY <1>3, <2>1, NothingKeeps, StutterStep DEF vars
  <2>3. EmSound'
    BY <1>1, <1>2, <1>3, <2>1, <2>2, SoundKept
  <2>4. QED
    BY <2>3 DEF Fine
<1>4. CASE panic("UNKNOWN EVENT TYPE")
  <2>1. Stops
    BY <1>2, <1>4, StopsFine DEF table
  <2>2. QED
    BY <2>1 DEF Fine
<1>5. QED
  BY <1>1, <1>3, <1>4 DEF em_switch

\* A key goes to the focus.
LEMMA KeyFine ==
  ASSUME EmSound, em_key
  PROVE  Fine
<1> USE DEF EmSound
<1>1. /\ em_port \in {NULL, em} /\ i \in 0 .. MAX_LISTENERS /\ focused \in [Listener -> BOOLEAN]
      /\ Focus \in ListenerPorts \cup {NULL} /\ "&em_msg" \in Note
  BY FocusFacts, Parts DEF Registers, Events
<1>2. /\ UNCHANGED <<em_port, table, kboard_focus, i, focused>>
      /\ pc' = [pc EXCEPT ![em_process] = "start"]
      /\ post(em_process, Focus, "&em_msg")
  BY DEF em_key, history, Goes
<1>3. ListenersStay /\ DOMAIN pc' = Services /\ pc'[em_process] = "start"
  BY <1>2, ManagerStays
<1>4. CASE panic("message(): not a port")
  <2>1. Stops
    BY <1>2, <1>4, StopsFine DEF table
  <2>2. QED
    BY <2>1 DEF Fine
<1>5. CASE \E l \in Listener :
             /\ Focus = Head(ports[l])
             /\ fault' = "none" /\ KInv' /\ Roles' /\ Handling'
             /\ Will(l)' <=> Told(Will(l), "&em_msg")
             /\ \A p \in Listener \ {l} : Will(p)' <=> Will(p)
  <2>1. KInv' /\ Kept
    BY <1>5 DEF Kept, Told
  <2>2. EmSound'
    BY <1>1, <1>2, <1>3, <2>1, SoundKept
  <2>3. QED
    BY <2>2 DEF Fine
<1>6. QED
  BY <1>1, <1>2, <1>3, <1>4, <1>5, SlotFine

\* The listener that has the focus is told that it has lost it: then none has it.
LEMMA FocusOutFine ==
  ASSUME EmSound, em_focus_out
  PROVE  Fine
<1> USE DEF EmSound
<1>1. /\ em_port \in {NULL, em} /\ i \in 0 .. MAX_LISTENERS /\ focused \in [Listener -> BOOLEAN]
      /\ Focus \in ListenerPorts \cup {NULL} /\ "&focus_out" \in Note
  BY FocusFacts, Parts DEF Registers, Events
<1>2. /\ UNCHANGED <<em_port, table, kboard_focus, i, focused>>
      /\ pc' = [pc EXCEPT ![em_process] = "next"]
      /\ post(em_process, Focus, "&focus_out")
  BY DEF em_focus_out, history, Goes
<1>3. ListenersStay /\ DOMAIN pc' = Services /\ pc'[em_process] = "next"
  BY <1>2, ManagerStays
<1>4. CASE panic("message(): not a port")
  <2>1. Stops
    BY <1>2, <1>4, StopsFine DEF table
  <2>2. QED
    BY <2>1 DEF Fine
<1>5. ASSUME NEW l \in Listener,
             Focus = Head(ports[l]), fault' = "none" /\ KInv' /\ Roles' /\ Handling',
             Will(l)' <=> Told(Will(l), "&focus_out"),
             \A p \in Listener \ {l} : Will(p)' <=> Will(p)
      PROVE  Fine
  <2>1. ~ Will(l)'
    BY <1>5 DEF Told
  <2>2. ASSUME NEW p \in Listener \ {l}
        PROVE  ~ Will(p)'
    <3>1. Will(p) => Head(ports[p]) = Head(ports[l])
      BY <1>5 DEF FocusInTransit
    <3>2. ~ Will(p)
      BY <3>1, OwnPorts
    <3>3. QED
      BY <1>5, <3>2
  <2>3. \A p \in Listener : ~ Will(p)'
    BY <2>1, <2>2
  <2>4. FocusInTransit'
    BY <1>3, <2>3 DEF FocusInTransit
  <2>5. Registers'
    BY <1>2, <1>3 DEF Registers, table
  <2>6. QED
    BY <1>5, <2>4, <2>5 DEF Fine
<1>6. QED
  BY <1>1, <1>2, <1>3, <1>4, <1>5, SlotFine

\* The focus moves while nobody thinks that it has it.
LEMMA NextFine ==
  ASSUME EmSound, em_next
  PROVE  Fine
<1> USE DEF EmSound
<1>1. /\ UNCHANGED <<em_port, table, i, focused>>
      /\ pc[em_process] = "next" /\ pc' = [pc EXCEPT ![em_process] = "in"]
  BY DEF em_next, history, Goes
<1>2. ListenersStay /\ DOMAIN pc' = Services /\ pc'[em_process] = "in"
  BY <1>1, ManagerStays
<1>3. CASE nbr_of_key_listeners = 0
  <2>1. panic("divide error") /\ UNCHANGED kboard_focus
    BY <1>3 DEF em_next
  <2>2. Stops
    BY <1>1, <2>1, StopsFine DEF table
  <2>3. QED
    BY <2>2 DEF Fine
<1>4. CASE nbr_of_key_listeners # 0
  <2>1. kboard_focus' = next_focus(kboard_focus) /\ UNCHANGED vars
    BY <1>4 DEF em_next
  <2>2. KInv' /\ Kept
    BY <1>2, <2>1, NothingKeeps, StutterStep DEF vars
  <2>3. \A p \in Listener : ~ Will(p)'
    BY <1>1, <2>2 DEF FocusInTransit, Kept
  <2>4. kboard_focus' \in 0 .. MAX_LISTENERS - 1 /\ kboard_focus' < nbr_of_key_listeners
    <3>1. /\ MAX_LISTENERS \in Nat /\ nbr_of_key_listeners \in Nat
          /\ 0 < nbr_of_key_listeners /\ nbr_of_key_listeners <= MAX_LISTENERS
          /\ kboard_focus \in Nat
      BY <1>4, EventAssumption DEF Registers
    <3>2. /\ (kboard_focus + 1) % nbr_of_key_listeners \in Nat
          /\ (kboard_focus + 1) % nbr_of_key_listeners < nbr_of_key_listeners
      BY <3>1
    <3>3. QED
      BY <2>1, <3>1, <3>2 DEF next_focus
  <2>5. Registers'
    BY <1>1, <1>2, <2>4 DEF Registers, table
  <2>6. FocusInTransit'
    BY <1>1, <1>2, <1>4, <2>3 DEF FocusInTransit, table
  <2>7. QED
    BY <2>2, <2>5, <2>6 DEF Fine, Kept
<1>5. QED
  BY <1>3, <1>4

\* And the one that has it is told so.
LEMMA FocusInFine ==
  ASSUME EmSound, em_focus_in
  PROVE  Fine
<1> USE DEF EmSound
<1>1. /\ em_port \in {NULL, em} /\ i \in 0 .. MAX_LISTENERS /\ focused \in [Listener -> BOOLEAN]
      /\ Focus \in ListenerPorts \cup {NULL} /\ "&focus_change" \in Note
  BY FocusFacts, Parts DEF Registers, Events
<1>2. /\ UNCHANGED <<em_port, table, kboard_focus, i, focused>>
      /\ pc[em_process] = "in" /\ pc' = [pc EXCEPT ![em_process] = "start"]
      /\ post(em_process, Focus, "&focus_change")
  BY DEF em_focus_in, history, Goes
<1>3. ListenersStay /\ DOMAIN pc' = Services /\ pc'[em_process] = "start"
  BY <1>2, ManagerStays
<1>4. CASE panic("message(): not a port")
  <2>1. Stops
    BY <1>2, <1>4, StopsFine DEF table
  <2>2. QED
    BY <2>1 DEF Fine
<1>5. ASSUME NEW l \in Listener,
             Focus = Head(ports[l]), fault' = "none" /\ KInv' /\ Roles' /\ Handling',
             \A p \in Listener \ {l} : Will(p)' <=> Will(p)
      PROVE  Fine
  <2>1. nbr_of_key_listeners' # 0 /\ Focus' = Head(ports[l])
    BY <1>2, <1>5 DEF FocusInTransit, Focus, table
  <2>2. \A p \in Listener \ {l} : ~ Will(p)'
    BY <1>2, <1>5 DEF FocusInTransit
  <2>3. FocusInTransit'
    BY <1>3, <2>1, <2>2 DEF FocusInTransit
  <2>4. Registers'
    BY <1>2, <1>3 DEF Registers, table
  <2>5. QED
    BY <1>5, <2>3, <2>4 DEF Fine
<1>6. QED
  BY <1>1, <1>2, <1>3, <1>4, <1>5, SlotFine

\* Packets go to those of the other table.
LEMMA FanOutFine ==
  ASSUME EmSound, em_fan_out
  PROVE  Fine
<1> USE DEF EmSound
<1>1. /\ em_port \in {NULL, em} /\ i \in 0 .. MAX_LISTENERS /\ focused \in [Listener -> BOOLEAN]
      /\ DOMAIN pc = Services /\ "&msg" \in Note
  BY Parts DEF Registers, Events
<1>2. /\ UNCHANGED <<em_port, table, kboard_focus, focused>>
      /\ pc[em_process] = "fan_out"
  BY DEF em_fan_out, history
<1>3. CASE i = MAX_LISTENERS \/ UDP_LISTENERS[i] = NULL
  <2>1. pc' = [pc EXCEPT ![em_process] = "start"] /\ UNCHANGED <<vars, i>>
    BY <1>3 DEF em_fan_out, Goes
  <2>2. ListenersStay /\ DOMAIN pc' = Services /\ pc'[em_process] = "start"
    BY <1>2, <2>1, ManagerStays
  <2>3. KInv' /\ Kept
    BY <2>1, <2>2, NothingKeeps, StutterStep DEF vars
  <2>4. EmSound'
    BY <1>1, <1>2, <2>1, <2>2, <2>3, SoundKept
  <2>5. QED
    BY <2>4 DEF Fine
<1>4. CASE ~ (i = MAX_LISTENERS \/ UDP_LISTENERS[i] = NULL)
  <2>1. message(em_process, UDP_LISTENERS[i], "&msg") /\ i' = i + 1 /\ UNCHANGED pc
    BY <1>4 DEF em_fan_out
  <2>2. UDP_LISTENERS[i] \in ListenerPorts /\ i' \in 0 .. MAX_LISTENERS
    <3>1. i \in 0 .. MAX_LISTENERS - 1 /\ i + 1 \in 0 .. MAX_LISTENERS
      BY <1>1, <1>4, EventAssumption
    <3>2. QED
      BY <1>4, <2>1, <3>1 DEF Registers
  <2>3. ListenersStay
    BY <1>2, <2>1 DEF ListenersStay
  <2>4. post(em_process, UDP_LISTENERS[i], "&msg")
    BY <1>4, <2>1 DEF post
  <2>5. CASE panic("message(): not a port")
    <3>1. Stops
      BY <1>2, <2>5, StopsFine DEF table
    <3>2. QED
      BY <3>1 DEF Fine
  <2>6. CASE \E l \in Listener :
               /\ UDP_LISTENERS[i] = Head(ports[l])
               /\ fault' = "none" /\ KInv' /\ Roles' /\ Handling'
               /\ Will(l)' <=> Told(Will(l), "&msg")
               /\ \A p \in Listener \ {l} : Will(p)' <=> Will(p)
    <3>1. KInv' /\ Kept
      BY <2>6 DEF Kept, Told
    <3>2. EmSound'
      BY <1>1, <1>2, <2>1, <2>2, <3>1, SoundKept
    <3>3. QED
      BY <3>2 DEF Fine
  <2>7. QED
    BY <1>1, <2>2, <2>3, <2>4, <2>5, <2>6, SlotFine
<1>5. QED
  BY <1>3, <1>4

LEMMA ManagerFine ==
  ASSUME EmSound, em_steps
  PROVE  Fine
BY ReceiveFine, SwitchFine, KeyFine, FocusOutFine, NextFine, FocusInFine, FanOutFine
   DEF em_steps

\* The step of a listener leaves em_process where it is.
LEMMA ListenerSteps ==
  ASSUME Registers, NEW p \in Listener, NEW b, pc' = [pc EXCEPT ![p] = b]
  PROVE  DOMAIN pc' = Services /\ pc'[em_process] = pc[em_process]
<1>1. p \in Services /\ em_process \in Services /\ p # em_process
  BY Parts DEF Services
<1>2. QED
  BY <1>1, OthersStay

\* A slot is filled behind those that are counted.
LEMMA FillFine ==
  ASSUME EmSound, NEW p \in Listener, NEW a \in {"start", "udp"}, NEW b, b # "handle",
         register_fill(p, a, b)
  PROVE  Fine
<1> USE DEF EmSound
<1>1. /\ UNCHANGED <<vars, em_port, nbr_of_key_listeners, nbr_of_udp_listeners,
                     kboard_focus, i, focused>>
      /\ pc[p] = a /\ pc' = [pc EXCEPT ![p] = b]
  BY DEF register_fill, Goes, history
<1>2. DOMAIN pc' = Services /\ pc'[em_process] = pc[em_process]
  BY <1>1, ListenerSteps
<1>3. ListenersStay
  <2>1. p \in Services
    BY DEF Services
  <2>2. QED
    BY <1>1, <2>1, Unhandled
<1>4. KInv' /\ Kept
  BY <1>1, <1>3, NothingKeeps, StutterStep DEF vars
<1>5. Head(ports[p]) \in ListenerPorts
  BY DEF ListenerPorts
<1>6. /\ KEY_LISTENERS' \in [0 .. MAX_LISTENERS - 1 -> ListenerPorts \cup {NULL}]
      /\ UDP_LISTENERS' \in [0 .. MAX_LISTENERS - 1 -> ListenerPorts \cup {NULL}]
  <2>1. CASE a = "start"
    BY <1>5, <2>1 DEF register_fill, Registers
  <2>2. CASE a = "udp"
    BY <1>5, <2>2 DEF register_fill, Registers
  <2>3. QED
    BY <2>1, <2>2
<1>7. Registers'
  BY <1>1, <1>2, <1>6 DEF Registers
<1>8. nbr_of_key_listeners # 0 => Focus' = Focus
  <2>1. \/ KEY_LISTENERS' = KEY_LISTENERS
        \/ \E o : KEY_LISTENERS' = [KEY_LISTENERS EXCEPT ![nbr_of_key_listeners] = o]
    <3>1. CASE a = "start"
      BY <3>1 DEF register_fill
    <3>2. CASE a = "udp"
      BY <3>2 DEF register_fill
    <3>3. QED
      BY <3>1, <3>2
  <2>2. /\ kboard_focus \in 0 .. MAX_LISTENERS - 1 /\ nbr_of_key_listeners \in Nat
        /\ kboard_focus = 0 \/ kboard_focus < nbr_of_key_listeners
        /\ DOMAIN KEY_LISTENERS = 0 .. MAX_LISTENERS - 1
    BY DEF Registers
  <2>3. nbr_of_key_listeners # 0 => kboard_focus # nbr_of_key_listeners
    BY <2>2
  <2>4. QED
    BY <1>1, <2>1, <2>2, <2>3 DEF Focus
<1>9. FocusInTransit'
  BY <1>1, <1>2, <1>4, <1>8 DEF FocusInTransit, Kept
<1>10. QED
  BY <1>4, <1>7, <1>9 DEF Fine, Kept

\* And then counted.
LEMMA CountFine ==
  ASSUME EmSound, NEW p \in Listener, NEW a \in {"counting", "udp_counting"}, NEW b,
         b # "handle", register_count(p, a, b)
  PROVE  Fine
<1> USE DEF EmSound
<1>1. /\ UNCHANGED <<vars, em_port, KEY_LISTENERS, UDP_LISTENERS, kboard_focus, i, focused>>
      /\ pc[p] = a /\ pc' = [pc EXCEPT ![p] = b]
      /\ nbr_of_key_listeners' \in {nbr_of_key_listeners, Counted(nbr_of_key_listeners)}
  BY DEF register_count, Goes, history
<1>2. DOMAIN pc' = Services /\ pc'[em_process] = pc[em_process]
  BY <1>1, ListenerSteps
<1>3. ListenersStay
  <2>1. p \in Services
    BY DEF Services
  <2>2. QED
    BY <1>1, <2>1, Unhandled
<1>4. KInv' /\ Kept
  BY <1>1, <1>3, NothingKeeps, StutterStep DEF vars
<1>5. /\ nbr_of_key_listeners' \in 0 .. MAX_LISTENERS
      /\ nbr_of_key_listeners <= nbr_of_key_listeners'
  BY <1>1, EventAssumption DEF Registers, Counted
<1>6. Registers'
  <2>1. kboard_focus' = 0 \/ kboard_focus' < nbr_of_key_listeners'
    <3>1. /\ kboard_focus \in Nat /\ nbr_of_key_listeners \in Nat
          /\ kboard_focus = 0 \/ kboard_focus < nbr_of_key_listeners
          /\ nbr_of_key_listeners' \in Nat
      BY <1>5, EventAssumption DEF Registers
    <3>2. QED
      BY <1>1, <1>5, <3>1
  <2>2. QED
    BY <1>1, <1>2, <1>5, <2>1 DEF Registers
<1>7. nbr_of_key_listeners # 0 => nbr_of_key_listeners' # 0
  BY <1>5, EventAssumption DEF Registers
<1>8. FocusInTransit'
  BY <1>1, <1>2, <1>4, <1>7 DEF FocusInTransit, Kept, Focus
<1>9. QED
  BY <1>4, <1>6, <1>8 DEF Fine, Kept

LEMMA ListenerReceiveFine ==
  ASSUME EmSound, NEW p \in Listener, listener_receive(p)
  PROVE  Fine
<1> USE DEF EmSound
<1>1. /\ em_port \in {NULL, em} /\ i \in 0 .. MAX_LISTENERS /\ focused \in [Listener -> BOOLEAN]
      /\ DOMAIN pc = Services
  BY DEF Registers
<1>2. pc[p] = "receive" /\ UNCHANGED <<em_port, table, kboard_focus, i, focused>>
  BY DEF listener_receive, history
<1>3. p \in Proc /\ p # Boot /\ ports[p] # << >>
  BY Parts
<1>4. CASE receive_wait(p) /\ UNCHANGED pc
  <2>1. ListenersStay
    BY <1>2, <1>4 DEF ListenersStay
  <2>2. fault' = "none"
    BY <1>3, <1>4 DEF receive_wait, Running
  <2>3. KInv' /\ Kept
    BY <1>2, <1>3, <1>4, <2>1, <2>2, ListeningKeeps, ReceiveWaitStep
  <2>4. EmSound'
    BY <1>1, <1>2, <1>4, <2>3, SoundKept
  <2>5. QED
    BY <2>4 DEF Fine
<1>5. CASE (receive_pending(p) \/ receive_resume(p)) /\ Goes(p, "receive", "handle")
  <2>1. pc' = [pc EXCEPT ![p] = "handle"] /\ focused' = focused
    BY <1>2, <1>5 DEF Goes
  <2>2. DOMAIN pc' = Services /\ pc'[em_process] = pc[em_process]
    BY <2>1, ListenerSteps
  <2>3. KInv' /\ Kept
    <3>1. CASE receive_pending(p)
      BY <1>1, <1>2, <1>3, <2>1, <3>1, ListenerTakes, ReceivePendingStep
    <3>2. CASE receive_resume(p)
      BY <1>1, <1>2, <1>3, <2>1, <3>2, ListenerReturns, ReceiveResumeStep
    <3>3. QED
      BY <1>5, <3>1, <3>2
  <2>4. EmSound'
    BY <1>1, <1>2, <2>2, <2>3, SoundKept
  <2>5. QED
    BY <2>4 DEF Fine
<1>6. QED
  BY <1>4, <1>5 DEF listener_receive

LEMMA ListenerHandleFine ==
  ASSUME EmSound, NEW p \in Listener, listener_handle(p)
  PROVE  Fine
<1> USE DEF EmSound
<1>1. /\ UNCHANGED <<vars, em_port, table, kboard_focus, i>>
      /\ pc' = [pc EXCEPT ![p] = "busy"]
  BY DEF listener_handle, Goes
<1>2. DOMAIN pc' = Services /\ pc'[em_process] = pc[em_process]
  BY <1>1, ListenerSteps
<1>3. KInv' /\ Kept /\ focused' \in [Listener -> BOOLEAN]
  BY <1>1, HandleKeeps, StutterStep
<1>4. em_port' \in {NULL, em} /\ i' \in 0 .. MAX_LISTENERS
  BY <1>1 DEF Registers
<1>5. EmSound'
  BY <1>1, <1>2, <1>3, <1>4, SoundKept
<1>6. QED
  BY <1>5 DEF Fine

LEMMA ListenerDoneFine ==
  ASSUME EmSound, NEW p \in Listener, listener_done(p)
  PROVE  Fine
<1> USE DEF EmSound
<1>1. /\ em_port \in {NULL, em} /\ i \in 0 .. MAX_LISTENERS /\ focused \in [Listener -> BOOLEAN]
  BY DEF Registers
<1>2. UNCHANGED <<em_port, table, kboard_focus, i, focused>>
  BY DEF listener_done, history
<1>3. p \in Proc /\ p \in Services /\ Listener \subseteq Proc
  BY Parts DEF Services
<1>4. ASSUME NEW a \in {"busy", "started"}, NEW b \in {"receive", "started"}, Goes(p, a, b)
      PROVE  ListenersStay /\ (KInv' /\ Kept => Fine)
  <2>1. pc[p] = a /\ pc' = [pc EXCEPT ![p] = b]
    BY <1>4 DEF Goes
  <2>2. DOMAIN pc' = Services /\ pc'[em_process] = pc[em_process]
    BY <2>1, ListenerSteps
  <2>3. ListenersStay
    BY <1>2, <1>3, <1>4, <2>1, Unhandled
  <2>4. KInv' /\ Kept => EmSound'
    BY <1>1, <1>2, <2>2, SoundKept
  <2>5. QED
    BY <2>3, <2>4 DEF Fine
<1>5. CASE Goes(p, "busy", "receive") /\ UNCHANGED vars
  <2>1. ListenersStay /\ (KInv' /\ Kept => Fine)
    BY <1>4, <1>5
  <2>2. KInv' /\ Kept
    BY <1>5, <2>1, NothingKeeps, StutterStep DEF vars
  <2>3. QED
    BY <2>1, <2>2
<1>6. CASE /\ Goes(p, "busy", "started")
           /\ \E q \in Listener \ {shell} : create_process(p, q)
  <2>1. ListenersStay /\ (KInv' /\ Kept => Fine)
    BY <1>4, <1>6
  <2>2. KInv' /\ Kept
    BY <1>3, <1>6, <2>1, CreateKeeps, CreateStep
  <2>3. QED
    BY <2>1, <2>2
<1>7. CASE Goes(p, "started", "receive") /\ resign(p)
  <2>1. ListenersStay /\ (KInv' /\ Kept => Fine)
    BY <1>4, <1>7
  <2>2. KInv' /\ Kept
    BY <1>3, <1>7, <2>1, NothingKeeps, ResignStep DEF resign
  <2>3. QED
    BY <2>1, <2>2
<1>8. QED
  BY <1>5, <1>6, <1>7 DEF listener_done

LEMMA ListenerFine ==
  ASSUME EmSound, NEW p \in Listener, listener_steps(p)
  PROVE  Fine
<1>1. CASE register(p)
  BY <1>1, FillFine, CountFine DEF register
<1>2. QED
  BY <1>1, ListenerReceiveFine, ListenerHandleFine, ListenerDoneFine DEF listener_steps

-------------------------------------------------------------------------------
(* Interrupts, and what they stop.                                             *)

\* Where the keyboard notifier is when a key is pressed and it does not wait for it.
LEMMA NotifierStuck ==
  ASSUME EmSound, keyb_notifier \notin Queued(rq), resume[keyb_notifier] # "new",
         ~ Waiting(KEYB_IRQ)
  PROVE  /\ state[keyb_notifier] = "MESSAGE_BLOCKED"
         /\ em_process \in Queued(rq) \/ resume[em_process] = "new"
              \/ \E p \in Listener : em_process \in Members(blocked[Head(ports[p])])
<1> USE DEF EmSound
<1> DEFINE k == keyb_notifier
<1>1. /\ k \in Proc /\ k \notin Listener \cup {em_process} /\ k # net_notifier
      /\ em_process \in Proc /\ em_process \notin {k, net_notifier}
      /\ KEYB_IRQ \in Irq /\ em \in Port /\ owner[em] = em_process
  BY Parts
<1>2. state[k] \in States /\ state[em_process] \in States
  BY <1>1 DEF KInv, TypeOK
<1>3. state[k] # "READY"
  BY <1>1, QueueFacts
<1>4. state[k] # "RECEIVE_BLOCKED"
  BY <1>1 DEF Roles, KInv, PlacesMatch
<1>5. state[k] # "INTR_BLOCKED"
  <2>1. SUFFICES ASSUME state[k] = "INTR_BLOCKED"
                 PROVE  FALSE
    OBVIOUS
  <2>2. resume[k] = KEYB_IRQ
    BY <1>1, <2>1 DEF Roles, KInv, SlotsMatchWaiters
  <2>3. interrupt_table[KEYB_IRQ] = k
    BY <1>1, <2>2 DEF KInv, SlotsMatchWaiters
  <2>4. QED
    BY <1>1, <2>1, <2>3, KernelAssumption DEF Waiting
<1>6. state[k] = "MESSAGE_BLOCKED"
  BY <1>1, <1>2, <1>3, <1>4, <1>5 DEF Roles, States
<1>7. k \in Members(blocked[em])
  <2>1. PICK o \in Port : k \in Members(blocked[o])
    BY <1>1, <1>6 DEF KInv, BlockedOnOnePort
  <2>2. k \in Senders(o)
    BY <2>1 DEF Roles
  <2>3. QED
    BY <1>1, <2>1, <2>2 DEF Senders
<1>8. state[em_process] # "RECEIVE_BLOCKED"
  <2>1. blocked[em] # << >>
    BY <1>7 DEF Members
  <2>2. QED
    BY <1>1, <2>1 DEF Roles, KInv, ReceiverNotMissed
<1>9. CASE state[em_process] = "READY"
  BY <1>1, <1>6, <1>9, QueueFacts
<1>10. CASE state[em_process] = "MESSAGE_BLOCKED"
  <2>1. PICK o \in Port : em_process \in Members(blocked[o])
    BY <1>1, <1>10 DEF KInv, BlockedOnOnePort
  <2>2. em_process \in Senders(o)
    BY <2>1 DEF Roles
  <2>3. o \in ListenerPorts
    BY <1>1, <2>2 DEF Senders
  <2>4. QED
    BY <1>6, <2>1, <2>3 DEF ListenerPorts
<1>11. state[em_process] # "INTR_BLOCKED"
  BY <1>1 DEF Roles, KInv, SlotsMatchWaiters
<1>12. QED
  BY <1>1, <1>2, <1>8, <1>9, <1>10, <1>11 DEF Roles, States

\* An interrupt that somebody waits for, or that is ignored.
LEMMA ServedFine ==
  ASSUME EmSound, NEW x \in Irq, interrupt(x), fault' = "none",
         UNCHANGED <<pc, em_port, table, kboard_focus, i, focused>>
  PROVE  Fine
<1>1. ListenersStay
  BY DEF ListenersStay
<1>2. KInv' /\ Kept
  BY <1>1, InterruptKeeps, InterruptStep DEF EmSound
<1>3. EmSound'
  BY <1>2, SoundKept DEF EmSound, Registers
<1>4. QED
  BY <1>3 DEF Fine

LEMMA PressFine ==
  ASSUME EmSound, NEW k \in Keys, press(k)
  PROVE  Fine
<1>1. /\ interrupt(KEYB_IRQ) /\ KEYB_IRQ \in Irq
      /\ keyb_notifier \notin Queued(rq) /\ resume[keyb_notifier] # "new"
      /\ UNCHANGED <<pc, em_port, table, kboard_focus, i, focused>>
  BY Parts DEF press
<1>2. CASE fault' = "none"
  BY <1>1, <1>2, ServedFine
<1>3. CASE fault' # "none"
  <2>1. fault = "none"
    BY <1>1 DEF interrupt, Running
  <2>2. ~ Waiting(KEYB_IRQ) /\ panic(fault')
    BY <1>1, <1>3, <2>1 DEF interrupt, panic
  <2>3. PanicsOnlyIfStuck'
    BY <1>1, <2>2, NotifierStuck DEF PanicsOnlyIfStuck, panic
  <2>4. QED
    BY <1>1, <1>3, <2>2, <2>3 DEF Fine, Stops, table
<1>4. QED
  BY <1>2, <1>3

\* The card's interrupt stops nothing.
LEMMA PacketFine ==
  ASSUME EmSound, packet
  PROVE  Fine
<1> USE DEF EmSound
<1>1. /\ interrupt(NE2K_IRQ) /\ NE2K_IRQ \in Irq /\ isr[NE2K_IRQ] = "ne2k"
      /\ NE2K_IRQ # KEYB_IRQ /\ net_notifier \in Proc
      /\ net_notifier \notin Queued(rq)
      /\ UNCHANGED <<pc, em_port, table, kboard_focus, i, focused>>
  BY Parts DEF packet, history
<1>2. interrupt_table[NE2K_IRQ] # NULL => Waiting(NE2K_IRQ)
  <2>1. SUFFICES ASSUME interrupt_table[NE2K_IRQ] # NULL
                 PROVE  state[interrupt_table[NE2K_IRQ]] = "INTR_BLOCKED"
    BY DEF Waiting
  <2> DEFINE q == interrupt_table[NE2K_IRQ]
  <2>2. q \in Proc
    BY <1>1, <2>1 DEF KInv, TypeOK
  <2>3. resume[q] = NE2K_IRQ
    BY <1>1, <2>2 DEF KInv, SlotsMatchWaiters
  <2> HIDE DEF q
  <2>4. q = net_notifier
    BY <1>1, <2>2, <2>3 DEF Roles
  <2>5. /\ resume[q] # "new" /\ resume[q] # "user" /\ resume[q] # "receive"
    BY <1>1, <2>3, Parts
  <2>6. state[q] \in States /\ state[q] # "READY"
    BY <1>1, <2>2, <2>4, <2>5, QueueFacts DEF KInv, TypeOK
  <2>7. state[q] = "INTR_BLOCKED"
    BY <2>2, <2>5, <2>6 DEF KInv, PlacesMatch, States
  <2>8. QED
    BY <2>7 DEF q
<1>3. fault' = "none"
  BY <1>1, <1>2 DEF interrupt, Running
<1>4. QED
  BY <1>1, <1>3, ServedFine

-------------------------------------------------------------------------------
(* The theorems.                                                               *)

\* Without a panic everything follows from the invariant.
LEMMA SoundFollows ==
  EmSound => FocusIsOne /\ PanicsOnlyIfStuck
<1> SUFFICES ASSUME EmSound
             PROVE  FocusIsOne /\ PanicsOnlyIfStuck
  OBVIOUS
<1>1. PanicsOnlyIfStuck
  BY DEF EmSound, PanicsOnlyIfStuck
<1>2. ASSUME Idle(em_process), \A p \in Listener : Idle(p), NEW p \in Listener, focused[p]
      PROVE  Focus = Head(ports[p])
  <2>1. p \in Proc /\ em_process \in Proc /\ Head(ports[p]) \in Port
    BY Parts
  <2>2. pc[p] # "handle" /\ ~ Back(p)
    BY <1>2, <2>1 DEF Idle, Back, EmSound, Handling, KInv, PlacesMatch
  <2>3. ~ Waits(p)
    <3>1. state[em_process] \in {"RECEIVE_BLOCKED", "READY"}
      BY <1>2, <2>1 DEF Idle, EmSound, KInv, PlacesMatch
    <3>2. QED
      BY <2>1, <3>1 DEF Waits, EmSound, KInv, BlockedOnOnePort
  <2>4. Will(p)
    BY <1>2, <2>2, <2>3 DEF Will, Returned, Handled
  <2>5. QED
    BY <2>4 DEF EmSound, FocusInTransit
<1>3. QED
  BY <1>1, <1>2 DEF FocusIsOne

LEMMA EmInitSound == EmInit => EmInv
<1> SUFFICES ASSUME EmInit
             PROVE  EmInv
  OBVIOUS
<1>1. /\ Init /\ pc = [p \in Services |-> "start"]
      /\ em_port = NULL /\ nbr_of_key_listeners = 0 /\ kboard_focus = 0 /\ i = 0
      /\ KEY_LISTENERS = [k \in 0 .. MAX_LISTENERS - 1 |-> NULL]
      /\ UDP_LISTENERS = [k \in 0 .. MAX_LISTENERS - 1 |-> NULL]
      /\ focused = [p \in Listener |-> FALSE]
  BY DEF EmInit
<1>2. /\ state = [p \in Proc |-> "READY"] /\ blocked = [o \in Port |-> << >>]
      /\ open = [o \in Port |-> TRUE] /\ fault = "none"
      /\ resume = [p \in Proc |-> IF p = Boot THEN "user" ELSE "new"]
  BY <1>1 DEF Init
<1>3. KInv
  BY <1>1, InitKInv
<1>4. Members(<< >>) = {}
  BY DEF Members
<1>5. Roles
  BY <1>2, <1>4, Parts DEF Roles
<1>6. \A p \in Listener : p \in Services /\ p \in Proc /\ p # Boot /\ Head(ports[p]) \in Port
  BY Parts DEF Services
<1>7. Handling
  BY <1>1, <1>6 DEF Handling
<1>8. Registers
  BY <1>1, EventAssumption DEF Registers
<1>9. ASSUME NEW p \in Listener
      PROVE  ~ Will(p)
  <2>1. ~ Waits(p) /\ ~ Back(p) /\ pc[p] # "handle" /\ ~ focused[p]
    BY <1>1, <1>2, <1>4, <1>6, Parts DEF Waits, Back
  <2>2. QED
    BY <2>1 DEF Will, Returned, Handled
<1>10. FocusInTransit
  <2>1. pc[em_process] = "start"
    BY <1>1 DEF Services
  <2>2. QED
    BY <1>9, <2>1 DEF FocusInTransit
<1>11. EmSound
  BY <1>2, <1>3, <1>5, <1>7, <1>8, <1>10 DEF EmSound
<1>12. QED
  BY <1>2, <1>11, SoundFollows DEF EmInv

\* Nothing happens after a panic.
LEMMA NothingAfterPanic ==
  ASSUME fault # "none", [EmNext]_em_vars
  PROVE  UNCHANGED em_vars
<1>1. \A p : ~ Running(p)
  BY DEF Running
<1>2. ~ boot_steps
  BY <1>1 DEF boot_steps, boot_creates, boot_assigns, create_process, resign
<1>3. ~ keyb_steps
  BY <1>1 DEF keyb_steps, keyb_wait, keyb_woken, keyb_store, keyb_tell, post,
              wait_for_interrupt, wait_resume, message
<1>4. ~ net_steps
  BY <1>1 DEF net_steps, net_wait, net_woken, net_return, net_tell, post,
              wait_for_interrupt, wait_resume, message
<1>5. ~ em_steps
  BY <1>1 DEF em_steps, em_receive, em_switch, em_key, em_focus_out, em_next, em_focus_in,
              em_fan_out, post, message, receive_wait, receive_pending, receive_resume
<1>6. \A p \in Listener : ~ listener_steps(p)
  BY <1>1 DEF listener_steps, register, register_fill, register_count, listener_receive,
              listener_handle, listener_done, receive_wait, receive_pending,
              receive_resume, create_process, resign, Goes
<1>7. ~ packet /\ \A k \in Keys : ~ press(k)
  BY <1>1 DEF packet, press, interrupt
<1>8. QED
  BY <1>2, <1>3, <1>4, <1>5, <1>6, <1>7 DEF EmNext, halt, em_vars

\* A step that is fine keeps the invariant.
LEMMA FineKeeps ==
  ASSUME EmInv, fault = "none", Fine
  PROVE  EmInv'
<1>1. CASE EmSound'
  <2>1. (EmSound => FocusIsOne /\ PanicsOnlyIfStuck)'
    BY SoundFollows, PTL
  <2>2. QED
    BY <1>1, <2>1 DEF EmInv
<1>2. CASE Stops
  <2>1. /\ fault' # "none" /\ PanicsOnlyIfStuck'
        /\ UNCHANGED <<state, resume, KEY_LISTENERS, kboard_focus, focused>>
    BY <1>2 DEF Stops, panic
  <2>2. FocusIsOne'
    BY <2>1 DEF EmInv, FocusIsOne, Idle, Focus
  <2>3. QED
    BY <2>1, <2>2 DEF EmInv
<1>3. QED
  BY <1>1, <1>2 DEF Fine

LEMMA EmStep ==
  ASSUME EmInv, [EmNext]_em_vars
  PROVE  EmInv'
<1>1. CASE UNCHANGED em_vars
  <2>1. UNCHANGED <<rq, active_proc, state, param_proc, param_data, open, blocked,
                    interrupt_table, resume, got, owed, fault, pc, em_port, KEY_LISTENERS,
                    nbr_of_key_listeners, UDP_LISTENERS, kboard_focus, i, focused>>
    BY <1>1 DEF em_vars, vars, table, history
  <2>2. FocusIsOne' /\ PanicsOnlyIfStuck'
    BY <2>1 DEF EmInv, FocusIsOne, PanicsOnlyIfStuck, Idle, Focus
  <2>3. fault = "none" => EmSound'
    <3>1. SUFFICES ASSUME fault = "none"
                   PROVE  EmSound'
      OBVIOUS
    <3>2. EmSound /\ ListenersStay
      BY <2>1, <3>1 DEF EmInv, ListenersStay
    <3>3. KInv' /\ Kept
      BY <2>1, <3>1, <3>2, NothingKeeps, StutterStep DEF EmSound, vars
    <3>4. QED
      BY <1>1, <2>1, <3>2, <3>3, SoundKept DEF EmSound, Registers, em_vars, table
  <2>4. QED
    BY <2>1, <2>2, <2>3 DEF EmInv
<1>2. CASE fault # "none"
  BY <1>1, <1>2, NothingAfterPanic
<1>3. CASE fault = "none" /\ EmNext
  <2>1. EmSound
    BY <1>3 DEF EmInv
  <2>2. ~ halt
    BY <1>3 DEF halt
  <2>3. Fine
    BY <1>3, <2>1, <2>2, BootFine, KeybFine, NetFine, ManagerFine, ListenerFine, PressFine,
       PacketFine DEF EmNext
  <2>4. QED
    BY <1>3, <2>3, FineKeeps
<1>4. QED
  BY <1>1, <1>2, <1>3

\* The invariant holds in every reachable state.
THEOREM EmInvariance == EmSpec => []EmInv
<1>1. EmInit => EmInv
  BY EmInitSound
<1>2. EmInv /\ [EmNext]_em_vars => EmInv'
  BY EmStep
<1>3. QED
  BY <1>1, <1>2, PTL DEF EmSpec

\* FocusIsOne, for any number of listeners and of slots: when em_process and the
\* listeners have come to rest, only the listener to which em_process sends keys was
\* told last that it has the keyboard focus (em_process() and the listeners' loops),
\* however they registered and whatever packets were handed out meanwhile.
THEOREM FocusStaysOne == EmSpec => []FocusIsOne
<1>1. EmInv => FocusIsOne
  BY DEF EmInv
<1>2. QED
  BY <1>1, EmInvariance, PTL

\* PanicsOnlyIfStuck, for any number of listeners and keys: service_intr() panics for
\* the keyboard only while keyb_notifier() still hands over the key before, behind
\* em_process, which runs or waits for a listener (isr_keyb(), em_process()).
THEOREM OnlyStuckPanics == EmSpec => []PanicsOnlyIfStuck
<1>1. EmInv => PanicsOnlyIfStuck
  BY DEF EmInv
<1>2. QED
  BY <1>1, EmInvariance, PTL
====
