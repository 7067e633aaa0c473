------------------------------- MODULE MCDrivers -------------------------------
(* Two systems for TLC, of which part says which one runs.                    *)
(*   packets   EventManager with the network, and a Tab key pressed twice;    *)
(*   keys      EventManager without it, two keys pressed three times.         *)
(* Both have the shell sh and a chat program ch above the boot process,       *)
(* em_process ep above them and the notifiers kn and nn on top.               *)
EXTENDS EventManager

CONSTANTS boot, kn, nn, ep, sh, ch, oe, os, oc

MCPriority == [q \in Proc |-> CASE q = boot        -> 0
                                [] q \in {sh, ch}  -> 1
                                [] q = ep          -> 2
                                [] OTHER           -> 3]
MCOwner == [o \in Port |-> CASE o = oe -> ep [] o = os -> sh [] o = oc -> ch]
MCPorts == [q \in Proc |-> CASE q = ep -> <<oe>> [] q = sh -> <<os>> [] q = ch -> <<oc>>
                             [] OTHER -> << >>]
MCIsr == [x \in Irq |-> IF x = "irq1" THEN "keyb" ELSE "ne2k"]

VARIABLE part
all_vars == <<part, em_vars>>

Quiet == INSTANCE EventManager WITH
  net_notifier <- NULL, UdpListener <- {}, Keys <- {"tab", "x"}, MaxKeys <- 3

MCInit ==
  \/ part = "packets" /\ EmInit
  \/ part = "keys" /\ Quiet!EmInit

MCNext ==
  /\ UNCHANGED part
  /\ \/ part = "packets" /\ EmNext
     \/ part = "keys" /\ Quiet!EmNext

\* Between two packets the processes have the time that a few instructions take,
\* and a listener comes back to receive().
MCFair ==
  /\ SF_em_vars(part = "keys" /\ Quiet!keyb_steps)
  /\ SF_em_vars(part = "keys" /\ Quiet!em_steps)
  /\ \A q \in Listener : SF_em_vars(part = "keys" /\ Quiet!listener_steps(q))

MCSpec == MCInit /\ [][MCNext]_all_vars /\ MCFair

\* Every key that is pressed is taken by em_process.
EachKeyTaken ==
  \A n \in 1 .. 3 : part = "keys" /\ presses = n ~> part = "keys" /\ Quiet!Taken(n)
===============================================================================
