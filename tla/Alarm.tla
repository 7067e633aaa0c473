-------------------------------- MODULE Alarm --------------------------------
(* What the timer service promises: a process asks to be woken after n ticks, *)
(* every tick counts for all the processes whose request the service has      *)
(* taken, and all whose time has come are woken before the next tick.         *)
EXTENDS Integers

CONSTANTS
  Sleeper,  \* the processes that may ask
  Ticks     \* the numbers of ticks they ask for

VARIABLES
  phase,    \* "awake", "asked", "asleep" or "due"
  left      \* the ticks still to come

vars == <<phase, left>>

Init ==
  /\ phase = [p \in Sleeper |-> "awake"]
  /\ left = [p \in Sleeper |-> 0]

Ask(p, n) ==
  /\ phase[p] = "awake"
  /\ phase' = [phase EXCEPT ![p] = "asked"]
  /\ left' = [left EXCEPT ![p] = n]

Take(p) ==
  /\ phase[p] = "asked"
  /\ phase' = [phase EXCEPT ![p] = "asleep"]
  /\ UNCHANGED left

\* Whoever asked for 0 ticks is asleep with none left, for good.
Counted == {p \in Sleeper : phase[p] = "asleep" /\ left[p] > 0}

Tick ==
  /\ \A p \in Sleeper : phase[p] # "due"
  /\ left' = [p \in Sleeper |-> IF p \in Counted THEN left[p] - 1 ELSE left[p]]
  /\ phase' = [p \in Sleeper |->
                 IF p \in Counted /\ left[p] = 1 THEN "due" ELSE phase[p]]

Ring(p) ==
  /\ phase[p] = "due"
  /\ phase' = [phase EXCEPT ![p] = "awake"]
  /\ UNCHANGED left

Next ==
  \/ \E p \in Sleeper : (\E n \in Ticks : Ask(p, n)) \/ Take(p) \/ Ring(p)
  \/ Tick

Spec == Init /\ [][Next]_vars
==============================================================================
