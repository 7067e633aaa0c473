----------------------------- MODULE MCDispatch -----------------------------
(* Instances of Dispatch for TLC.  Three processes share a level, so that a *)
(* process can leave the head, the middle and the tail of a circular list;  *)
(* the boot process shares its level with another one; the notifier is      *)
(* alone at the top.                                                        *)
EXTENDS Dispatch

CONSTANTS boot, a, b, c, d, n

MCPriority == [p \in Proc |-> CASE p \in {boot, d} -> 0
                                [] p \in {a, b, c} -> 1
                                [] OTHER           -> 2]
=============================================================================
