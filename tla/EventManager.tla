----------------------------- MODULE EventManager -----------------------------
(* em.c with its sources and sinks, on the kernel: keyb_notifier and the       *)
(* network notifier send events, em_process forwards them to the listener      *)
(* that has the focus or to those of a UDP port, and listeners (shell, chat,   *)
(* pong) register and take events.  Events travel as pointers: what a pointer  *)
(* points to is a variable of its own and is read when the receiver runs.      *)
EXTENDS Kernel

CONSTANTS
  keyb_notifier, em_process,
  net_notifier,      \* the process that receives packets, or NULL
  Listener,          \* listeners; shell is the first, it starts the others
  shell,
  em,                \* the port that create_process returns for em_process
  UdpListener,       \* those that register for UDP packets, all for one port
  KEYB_IRQ, NE2K_IRQ,
  MAX_LISTENERS,
  Keys,              \* "tab" and others
  MaxKeys            \* bound on the keys that are pressed

\* The addresses of em_msg, focus_out, focus_change and of em_new_udp_packet's msg.
Events == {"&em_msg", "&focus_out", "&focus_change", "&msg"}

ASSUME EventAssumption ==
  /\ Note = Events /\ Request = {}
  /\ shell \in Listener /\ UdpListener \subseteq Listener /\ Listener \subseteq Proc
  /\ {Boot, keyb_notifier, em_process, net_notifier} \cap Listener = {}
  /\ keyb_notifier \in Proc \ {Boot} /\ em_process \in Proc \ {Boot, keyb_notifier}
  /\ net_notifier \in (Proc \ {Boot, keyb_notifier, em_process}) \cup {NULL}
  /\ NULL \notin Port
  /\ em \in Port /\ owner[em] = em_process
  /\ \A p \in Listener : Len(ports[p]) = 1
  /\ KEYB_IRQ \in Irq /\ isr[KEYB_IRQ] = "keyb"
  /\ NE2K_IRQ \in Irq /\ isr[NE2K_IRQ] = "ne2k"
  /\ MAX_LISTENERS \in Nat \ {0} /\ MaxKeys \in Nat

VARIABLES
  pc,
  em_port,
  KEY_LISTENERS, nbr_of_key_listeners,   \* proc_port of each slot
  UDP_LISTENERS, nbr_of_udp_listeners,
  kboard_focus,
  i,               \* em_process's index into UDP_LISTENERS
  em_msg,          \* the keyboard notifier's event: the key and its number
  msg,             \* em_new_udp_packet's event, once it has returned anything
  new_key,         \* the key that the last interrupt reported
  presses,         \* how many keys have been pressed
  taken,           \* key events that em_process has received
  seen,            \* numbers of the keys that each listener has read
  focused          \* whether a listener was last told FOCUS_IN

table == <<KEY_LISTENERS, nbr_of_key_listeners, UDP_LISTENERS, nbr_of_udp_listeners>>
history == <<presses, taken, seen, focused>>
em_vars == <<vars, pc, em_port, table, kboard_focus, i, em_msg, msg, new_key, history>>

Services == {Boot, keyb_notifier, em_process} \cup Listener
              \cup (IF net_notifier = NULL THEN {} ELSE {net_notifier})

NoKey == [key |-> "none", nr |-> 0]

EmInit ==
  /\ Init
  /\ pc = [p \in Services |-> "start"]
  /\ em_port = NULL
  /\ KEY_LISTENERS = [k \in 0 .. MAX_LISTENERS - 1 |-> NULL]
  /\ UDP_LISTENERS = [k \in 0 .. MAX_LISTENERS - 1 |-> NULL]
  /\ nbr_of_key_listeners = 0 /\ nbr_of_udp_listeners = 0
  /\ kboard_focus = 0 /\ i = 0
  /\ em_msg = NoKey /\ new_key = NoKey
  /\ msg = "garbage"
  /\ presses = 0 /\ taken = 0
  /\ seen = [p \in Listener |-> << >>]
  /\ focused = [p \in Listener |-> FALSE]

Goes(p, a, b) == pc[p] = a /\ pc' = [pc EXCEPT ![p] = b]

\* message() asserts that its port is one.
post(p, o, event) ==
  IF o = NULL THEN Running(p) /\ panic("message(): not a port")
              ELSE message(p, o, event)

-------------------------------------------------------------------------------
(* kernel_main(): init_keyb, init_ne_driver, init_em, init_shell.            *)

boot_creates(a, p, b) ==
  /\ Goes(Boot, a, b)
  /\ create_process(Boot, p)
  /\ UNCHANGED <<em_port, table, kboard_focus, i, em_msg, msg, new_key, history>>

boot_assigns ==
  /\ Running(Boot)
  /\ Goes(Boot, "em_port", "shell")
  /\ em_port' = em
  /\ UNCHANGED <<vars, table, kboard_focus, i, em_msg, msg, new_key, history>>

boot_steps ==
  \/ boot_creates("start", keyb_notifier, IF net_notifier = NULL THEN "em" ELSE "net")
  \/ net_notifier # NULL /\ boot_creates("net", net_notifier, "em")
  \/ boot_creates("em", em_process, "em_port")
  \/ boot_assigns
  \/ boot_creates("shell", shell, "done")
  \/ resign(Boot) /\ UNCHANGED <<pc, em_port, table, kboard_focus, i, em_msg, msg,
                                 new_key, history>>

-------------------------------------------------------------------------------
(* keyb_notifier(): ScanCodes tells which codes make a key.                  *)

keyb_wait ==
  /\ Goes(keyb_notifier, "start", "waiting")
  /\ wait_for_interrupt(keyb_notifier, KEYB_IRQ)
  /\ UNCHANGED <<em_port, table, kboard_focus, i, em_msg, msg, new_key, history>>

\* Variant: the notifier waits again before it looks at the key.
keyb_woken_again ==
  /\ Goes(keyb_notifier, "waiting", "start")
  /\ wait_resume(keyb_notifier)
  /\ UNCHANGED <<em_port, table, kboard_focus, i, em_msg, msg, new_key, history>>

keyb_woken ==
  /\ Goes(keyb_notifier, "waiting", "store")
  /\ wait_resume(keyb_notifier)
  /\ UNCHANGED <<em_port, table, kboard_focus, i, em_msg, msg, new_key, history>>

keyb_store ==
  /\ Running(keyb_notifier)
  /\ Goes(keyb_notifier, "store", "tell")
  /\ em_msg' = new_key
  /\ UNCHANGED <<vars, em_port, table, kboard_focus, i, msg, new_key, history>>

keyb_tell ==
  /\ Goes(keyb_notifier, "tell", "start")
  /\ post(keyb_notifier, em_port, "&em_msg")
  /\ UNCHANGED <<em_port, table, kboard_focus, i, em_msg, msg, new_key, history>>

keyb_steps == keyb_wait \/ keyb_woken \/ keyb_store \/ keyb_tell

-------------------------------------------------------------------------------
(* em_new_udp_packet() in the process that takes packets from the card.      *)

net_wait ==
  /\ Goes(net_notifier, "start", "waiting")
  /\ wait_for_interrupt(net_notifier, NE2K_IRQ)
  /\ UNCHANGED <<em_port, table, kboard_focus, i, em_msg, msg, new_key, history>>

net_woken ==
  /\ Goes(net_notifier, "waiting", "packet")
  /\ wait_resume(net_notifier)
  /\ msg' = "udp"
  /\ UNCHANGED <<em_port, table, kboard_focus, i, em_msg, new_key, history>>

net_tell ==
  /\ Goes(net_notifier, "packet", "return")
  /\ post(net_notifier, em_port, "&msg")
  /\ UNCHANGED <<em_port, table, kboard_focus, i, em_msg, msg, new_key, history>>

\* The stack that held msg is used by the next calls, which may or may not
\* reach the words that msg was in.
net_return ==
  /\ Running(net_notifier)
  /\ Goes(net_notifier, "return", "start")
  /\ msg' \in {msg, "garbage"}
  /\ UNCHANGED <<vars, em_port, table, kboard_focus, i, em_msg, new_key, history>>

net_steps == net_notifier # NULL /\ (net_wait \/ net_woken \/ net_tell \/ net_return)

-------------------------------------------------------------------------------
(* em_process()                                                              *)

Focus == KEY_LISTENERS[kboard_focus]
Event == got[em_process].data

em_receive ==
  /\ pc[em_process] = "start"
  /\ \/ receive_wait(em_process) /\ UNCHANGED <<pc, taken>>
     \/ /\ receive_pending(em_process) \/ receive_resume(em_process)
        /\ Goes(em_process, "start", "switch")
        /\ taken' = IF got'[em_process].data = "&em_msg" THEN taken + 1 ELSE taken
  /\ UNCHANGED <<em_port, table, kboard_focus, i, em_msg, msg, new_key, presses, seen,
                 focused>>

em_switch ==
  /\ Running(em_process)
  /\ pc[em_process] = "switch"
  /\ \/ /\ Event = "&em_msg"
        /\ pc' = [pc EXCEPT ![em_process] = IF em_msg.key = "tab" THEN "out" ELSE "key"]
        /\ UNCHANGED <<vars, i>>
     \/ /\ Event = "&msg" /\ msg = "udp"
        /\ pc' = [pc EXCEPT ![em_process] = "fan_out"]
        /\ i' = 0
        /\ UNCHANGED vars
     \/ /\ Event = "&msg" /\ msg = "garbage"
        /\ panic("UNKNOWN EVENT TYPE")
        /\ UNCHANGED <<pc, i>>
  /\ UNCHANGED <<em_port, table, kboard_focus, em_msg, msg, new_key, history>>

\* Variant: the key is sent to the manager's own port.
em_key_back ==
  /\ Goes(em_process, "key", "start")
  /\ post(em_process, em_port, "&em_msg")
  /\ UNCHANGED <<em_port, table, kboard_focus, i, em_msg, msg, new_key, history>>

em_key ==
  /\ Goes(em_process, "key", "start")
  /\ post(em_process, Focus, "&em_msg")
  /\ UNCHANGED <<em_port, table, kboard_focus, i, em_msg, msg, new_key, history>>

em_focus_out ==
  /\ Goes(em_process, "out", "next")
  /\ post(em_process, Focus, "&focus_out")
  /\ UNCHANGED <<em_port, table, kboard_focus, i, em_msg, msg, new_key, history>>

next_focus(f) == (f + 1) % nbr_of_key_listeners

em_next ==
  /\ Running(em_process)
  /\ Goes(em_process, "next", "in")
  /\ IF nbr_of_key_listeners = 0
     THEN panic("divide error") /\ UNCHANGED kboard_focus
     ELSE kboard_focus' = next_focus(kboard_focus) /\ UNCHANGED vars
  /\ UNCHANGED <<em_port, table, i, em_msg, msg, new_key, history>>

\* Variant: the first listener is told that it has the focus.
em_focus_in_stale ==
  /\ Goes(em_process, "in", "start")
  /\ post(em_process, KEY_LISTENERS[0], "&focus_change")
  /\ UNCHANGED <<em_port, table, kboard_focus, i, em_msg, msg, new_key, history>>

em_focus_in ==
  /\ Goes(em_process, "in", "start")
  /\ post(em_process, Focus, "&focus_change")
  /\ UNCHANGED <<em_port, table, kboard_focus, i, em_msg, msg, new_key, history>>

\* One turn of the loop over the UDP listeners.
em_fan_out ==
  /\ pc[em_process] = "fan_out"
  /\ IF i = MAX_LISTENERS \/ UDP_LISTENERS[i] = NULL
     THEN /\ Running(em_process)
          /\ Goes(em_process, "fan_out", "start")
          /\ UNCHANGED <<vars, i>>
     ELSE /\ message(em_process, UDP_LISTENERS[i], "&msg")
          /\ i' = i + 1
          /\ UNCHANGED pc
  /\ UNCHANGED <<em_port, table, kboard_focus, em_msg, msg, new_key, history>>

em_steps ==
  em_receive \/ em_switch \/ em_key \/ em_focus_out \/ em_next \/ em_focus_in
    \/ em_fan_out

-------------------------------------------------------------------------------
(* Listeners: em_register_kboard_listener, em_register_udp_listener, then a  *)
(* loop of receive() and the handling of what *em_msg says at that time.     *)

register_fill(p, a, b) ==
  /\ Running(p)
  /\ Goes(p, a, b)
  /\ IF a = "start"
     THEN /\ KEY_LISTENERS' = IF nbr_of_key_listeners > MAX_LISTENERS - 1 THEN KEY_LISTENERS
                ELSE [KEY_LISTENERS EXCEPT ![nbr_of_key_listeners] = Head(ports[p])]
          /\ UNCHANGED UDP_LISTENERS
     ELSE /\ UDP_LISTENERS' = IF nbr_of_udp_listeners > MAX_LISTENERS - 1 THEN UDP_LISTENERS
                ELSE [UDP_LISTENERS EXCEPT ![nbr_of_udp_listeners] = Head(ports[p])]
          /\ UNCHANGED KEY_LISTENERS
  /\ UNCHANGED <<vars, em_port, nbr_of_key_listeners, nbr_of_udp_listeners, kboard_focus,
                 i, em_msg, msg, new_key, history>>

Counted(n) == IF n > MAX_LISTENERS - 1 THEN n ELSE n + 1

register_count(p, a, b) ==
  /\ Running(p)
  /\ Goes(p, a, b)
  /\ IF a = "counting"
     THEN nbr_of_key_listeners' = Counted(nbr_of_key_listeners) /\ UNCHANGED nbr_of_udp_listeners
     ELSE nbr_of_udp_listeners' = Counted(nbr_of_udp_listeners) /\ UNCHANGED nbr_of_key_listeners
  /\ UNCHANGED <<vars, em_port, KEY_LISTENERS, UDP_LISTENERS, kboard_focus, i, em_msg, msg,
                 new_key, history>>

register(p) ==
  \/ register_fill(p, "start", "counting")
  \/ register_count(p, "counting", IF p \in UdpListener THEN "udp" ELSE "receive")
  \/ register_fill(p, "udp", "udp_counting")
  \/ register_count(p, "udp_counting", "receive")

listener_receive(p) ==
  /\ pc[p] = "receive"
  /\ \/ receive_wait(p) /\ UNCHANGED pc
     \/ (receive_pending(p) \/ receive_resume(p)) /\ Goes(p, "receive", "handle")
  /\ UNCHANGED <<em_port, table, kboard_focus, i, em_msg, msg, new_key, history>>

\* Reads the event.
listener_handle(p) ==
  /\ Running(p)
  /\ Goes(p, "handle", "busy")
  /\ seen' = IF got[p].data = "&em_msg" THEN [seen EXCEPT ![p] = Append(@, em_msg.nr)]
                                        ELSE seen
  /\ focused' = [focused EXCEPT ![p] = CASE got[p].data = "&focus_change" -> TRUE
                                         [] got[p].data = "&focus_out" -> FALSE
                                         [] OTHER -> @]
  /\ UNCHANGED <<vars, em_port, table, kboard_focus, i, em_msg, msg, new_key, presses, taken>>

\* The listener does what the event asks for; the shell may start a program.
listener_done(p) ==
  /\ Running(p)
  /\ \/ Goes(p, "busy", "receive") /\ UNCHANGED vars
     \/ /\ p = shell /\ Goes(p, "busy", "started")
        /\ \E q \in Listener \ {shell} : create_process(p, q)
     \/ Goes(p, "started", "receive") /\ resign(p)
  /\ UNCHANGED <<em_port, table, kboard_focus, i, em_msg, msg, new_key, history>>

listener_steps(p) ==
  register(p) \/ listener_receive(p) \/ listener_handle(p) \/ listener_done(p)

-------------------------------------------------------------------------------
(* A key is pressed: its scan code interrupts, at a time at which the        *)
(* notifier, which nobody of its priority delays, has come to rest.          *)
press(k) ==
  /\ presses < MaxKeys
  /\ keyb_notifier \notin Queued(rq)
  /\ resume[keyb_notifier] # "new"
  /\ interrupt(KEYB_IRQ)
  /\ presses' = presses + 1
  /\ new_key' = [key |-> k, nr |-> presses + 1]
  /\ UNCHANGED <<pc, em_port, table, kboard_focus, i, em_msg, msg, taken, seen, focused>>

packet ==
  /\ net_notifier # NULL /\ net_notifier \notin Queued(rq)
  /\ interrupt(NE2K_IRQ)
  /\ UNCHANGED <<pc, em_port, table, kboard_focus, i, em_msg, msg, new_key, history>>

EmNext ==
  \/ boot_steps
  \/ keyb_steps
  \/ net_steps
  \/ em_steps
  \/ \E p \in Listener : listener_steps(p)
  \/ \E k \in Keys : press(k)
  \/ packet
  \/ halt /\ UNCHANGED <<pc, em_port, table, kboard_focus, i, em_msg, msg, new_key, history>>

EmSpec == EmInit /\ [][EmNext]_em_vars

-------------------------------------------------------------------------------
(* Properties.                                                               *)

\* The keyboard interrupt stops the system only when the notifier has still to
\* hand over the key before, and em_process, if it is not just about to run, waits
\* with an older event for a listener that does not receive.
PanicsOnlyIfStuck ==
  fault \in {"service_intr: No process waiting", "service_intr: Spurious interrupt"} =>
    /\ state[keyb_notifier] = "MESSAGE_BLOCKED"
    /\ em_process \in Queued(rq) \/ resume[em_process] = "new"
         \/ \E p \in Listener : em_process \in Members(blocked[Head(ports[p])])

\* Once all have read what they were sent, a listener that was told last that
\* it has the focus is the one to which em_process sends keys, so that at most
\* one is.
Idle(p) == state[p] = "RECEIVE_BLOCKED" \/ resume[p] = "new"

FocusIsOne ==
  Idle(em_process) /\ (\A p \in Listener : Idle(p)) =>
    \A p \in Listener : focused[p] => Focus = Head(ports[p])

\* No key event is lost between the keyboard and em_process.
Taken(n) == taken >= n \/ fault # "none"

\* em.c:80: what em_process has received is an event.
EventIsSane == pc[em_process] = "switch" /\ Event = "&msg" => msg = "udp"
===============================================================================
