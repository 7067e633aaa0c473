------------------------------ MODULE MCKernel ------------------------------
(* Instances of Programs for TLC.  One cast: two clients of equal priority, a *)
(* server with two ports above them, and an interrupt handler at the top that *)
(* sends messages to the server too.  The other: the two processes of equal   *)
(* priority are servers and clients of each other and of themselves, and wait *)
(* for interrupts whose ISRs panic when nobody waits.                         *)
EXTENDS Programs

CONSTANTS boot, c1, c2, srv, n, o1, o2, p1, p2

MCPriority == [p \in Proc |-> CASE p = boot        -> 0
                                [] p \in {c1, c2}  -> 1
                                [] p = srv         -> 2
                                [] p = n           -> 3]
MCOwner == [o \in Port |-> CASE o \in {o1, o2} -> srv [] o = p1 -> c1 [] o = p2 -> c2]
MCPorts == [p \in Proc |-> CASE p = srv -> <<o1, o2>> [] p = c1 -> <<p1>>
                             [] p = c2 -> <<p2>> [] OTHER -> << >>]
MCIsr == [x \in Irq |-> x]
MCCasts ==
  {[clients |-> {c1, c2, n}, servers |-> {srv}, handlers |-> {n}, irqs |-> {"timer"}],
   [clients |-> {c1, c2}, servers |-> {c1, c2}, handlers |-> {c1, c2},
    irqs |-> {"keyb", "ne2k"}]}
=============================================================================
