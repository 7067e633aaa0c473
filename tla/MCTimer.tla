------------------------------- MODULE MCTimer -------------------------------
(* Instances of Timer for TLC: a and c share a level below the timer         *)
(* process t, b shares the level of t, n is the notifier.                    *)
EXTENDS Timer

CONSTANTS boot, a, b, c, t, n, ta

MCPriority == [p \in Proc |-> CASE p = boot          -> 0
                                [] p \in {a, c}      -> 1
                                [] p \in {b, t}      -> 2
                                [] OTHER             -> 3]
MCOwner == [o \in Port |-> t]
MCPorts == [p \in Proc |-> IF p = t THEN <<ta>> ELSE << >>]
MCIsr == [x \in Irq |-> "timer"]
MCRequest == {Pointer(k) : k \in Ticks}
MCNote == {NoMessage}
MCPcb == <<boot, a, t, n, c, b>>
==============================================================================
