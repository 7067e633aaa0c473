---------------------------- MODULE MCEventManager ----------------------------
(* Instances of EventManager for TLC: the shell sh and a chat program ch      *)
(* above the boot process, em_process ep above them, the notifiers kn and nn  *)
(* on top.                                                                    *)
EXTENDS EventManager

CONSTANTS boot, kn, nn, ep, sh, ch, oe, os, oc

MCPriority == [p \in Proc |-> CASE p = boot     -> 0
                                [] p \in {sh, ch} -> 1
                                [] p = ep        -> 2
                                [] OTHER        -> 3]
MCOwner == [o \in Port |-> CASE o = oe -> ep [] o = os -> sh [] o = oc -> ch]
MCPorts == [p \in Proc |-> CASE p = ep -> <<oe>> [] p = sh -> <<os>> [] p = ch -> <<oc>>
                             [] OTHER -> << >>]
MCIsr == [x \in Irq |-> IF x = "irq1" THEN "keyb" ELSE "ne2k"]
===============================================================================
