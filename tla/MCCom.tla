------------------------------- MODULE MCCom -------------------------------
(* Com for TLC with two clients: the train program and the shell, whose     *)
(* commands go, stop and rev set the speed of the train.                    *)
EXTENDS Com

CONSTANTS boot, c, d, m, r, om, or

MCPriority == [p \in Proc |-> CASE p = boot -> 0 [] p \in Client -> 1 [] p = m -> 2 [] p = r -> 3]
MCOwner == [o \in Port |-> IF o = om THEN m ELSE r]
MCPorts == [p \in Proc |-> IF p = m THEN <<om>> ELSE IF p = r THEN <<or>> ELSE << >>]
MCIsr == [x \in Irq |-> "com1"]
MCRequest == {Order(p, n) : p \in Client, n \in Lens}
MCNote == {Job(p, n) : p \in Client, n \in Lens} \cup {Done}
============================================================================
