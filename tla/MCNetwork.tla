-------------------------------- MODULE MCNetwork --------------------------------
(* Five systems for TLC, of which part says which one runs.                     *)
(*   arp       the table alone: four hosts, one of them 0.0.0.0, two entries;   *)
(*   alone     the card and the notifier with three frames; boot sets it up;    *)
(*   alone     the card and the notifier with three frames; boot sets it up;     *)
(*   commands  two frames, and a user who gives one command;                    *)
(*   reset     two ARP requests, and a user who gives the command "ne init".    *)
EXTENDS Ne2k, Protocol

VARIABLE part
card_vars == <<card, irr, mem, pc, history>>
all_vars == <<part, ne_vars, pr_vars>>

Alone == INSTANCE Ne2k WITH
  IpAddr <- {0, 1}, Mac <- {0, 1}, MaxPackets <- 3, MaxCommands <- 0, Commands <- {},
  Kinds <- {"request", "udp"}, Host <- {1}
Used == INSTANCE Ne2k WITH
  IpAddr <- {0, 1}, Mac <- {0, 1}
Reset == INSTANCE Ne2k WITH
  IpAddr <- {0, 1}, Mac <- {0, 1}, Commands <- {"init"}, Kinds <- {"request"},
  Host <- {0, 1}

\* The second address differs in one word from the first, the third makes the
\* sums carry; <<120, 149>> makes the UDP checksum zero from port 1000 to port 9.
MCAddress == {<<43200, 513>>, <<43200, 257>>, <<65535, 65535>>}
MCPayload == {<<120, 149>>, << >>, <<0>>, <<255>>, <<255, 255>>, <<1, 2, 3>>}

ASSUME PartsAssumption ==
  Alone!Ne2kAssumption /\ Used!Ne2kAssumption /\ Reset!Ne2kAssumption

NoPackets ==
  /\ phase = NULL
  /\ datagram = NULL
  /\ wire = NULL
  /\ result = NULL

MCInit ==
  \/ part = "arp" /\ NeInit /\ NoPackets
  \/ part = "packets" /\ PrInit /\ NeInit
  \/ part = "alone" /\ Alone!NeInit /\ NoPackets
  \/ part = "commands" /\ Used!NeInit /\ NoPackets
  \/ part = "reset" /\ Reset!NeInit /\ NoPackets

MCNext ==
  /\ UNCHANGED part
  /\ \/ part = "arp" /\ ArpNext /\ UNCHANGED <<card_vars, pr_vars>>
     \/ part = "packets" /\ PrNext /\ UNCHANGED ne_vars
     \/ part = "alone" /\ Alone!NeNext /\ UNCHANGED pr_vars
     \/ part = "commands" /\ Used!NeNext /\ UNCHANGED pr_vars
     \/ part = "reset" /\ Reset!NeNext /\ UNCHANGED pr_vars

Driver == part \in {"alone", "commands", "reset"}

\* The processor goes on, interrupts are taken, and sleep() ends.
MCFair ==
  /\ WF_ne_vars(Driver /\ NotifierSteps)
  /\ WF_ne_vars(Driver /\ UserSteps)
  /\ WF_ne_vars(Driver /\ isr_ne2k_driver)

MCSpec == MCInit /\ [][MCNext]_all_vars /\ MCFair

\* The notifier comes back to waiting.
DpcEnds == Driver /\ pc[notifier] # "waiting" ~> Driver /\ pc[notifier] = "waiting"
===============================================================================
