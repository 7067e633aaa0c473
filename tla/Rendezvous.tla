------------------------------ MODULE Rendezvous ------------------------------
(* What ipc.c promises to its callers, with no scheduler, no state fields    *)
(* and no parameter registers in the PCB.  A port holds what was posted to   *)
(* it in order; a receiver takes the oldest item of the first of its open    *)
(* ports that has one; an item goes straight to a receiver that listens; a   *)
(* request keeps its sender busy until whoever got it answers.               *)
EXTENDS Integers, Sequences

CONSTANTS Proc, Port, NULL, owner, ports, Request, Note

VARIABLES
  open,      \* the ports that deliver
  pending,   \* per port, the items posted and not taken
  listening, \* the processes that wait for an item
  got,       \* the last item that reached a process
  owed       \* per process, the senders it has to answer

vars == <<open, pending, listening, got, owed>>

Init ==
  /\ open = [o \in Port |-> TRUE]
  /\ pending = [o \in Port |-> << >>]
  /\ listening = {}
  /\ got = [p \in Proc |-> [sender |-> NULL, data |-> NULL]]
  /\ owed = [p \in Proc |-> {}]

Senders(s) == {s[k].sender : k \in 1 .. Len(s)}

\* A process is busy while it listens, while an item of its is not taken, and
\* while its request is not answered.
Busy(p) ==
  \/ p \in listening
  \/ \E o \in Port : p \in Senders(pending[o])
  \/ \E q \in Proc : p \in owed[q]

Reaches(q, x) ==
  /\ got' = [got EXCEPT ![q] = x]
  /\ owed' = [owed EXCEPT ![q] = IF x.data \in Request THEN @ \cup {x.sender} ELSE @]

Post(p, o, y) ==
  LET x == [sender |-> p, data |-> y]
      q == owner[o]
  IN  /\ ~Busy(p)
      /\ UNCHANGED open
      /\ \/ /\ open[o] /\ q \in listening
            /\ Reaches(q, x)
            /\ listening' = listening \ {q}
            /\ UNCHANGED pending
         \/ /\ ~(open[o] /\ q \in listening)
            /\ pending' = [pending EXCEPT ![o] = Append(@, x)]
            /\ UNCHANGED <<listening, got, owed>>

Ready(q) == {k \in 1 .. Len(ports[q]) : open[ports[q][k]] /\ pending[ports[q][k]] # << >>}

Take(q) ==
  /\ ~Busy(q)
  /\ \E k \in Ready(q) :
       /\ \A j \in Ready(q) : k <= j
       /\ Reaches(q, Head(pending[ports[q][k]]))
       /\ pending' = [pending EXCEPT ![ports[q][k]] = Tail(@)]
  /\ UNCHANGED <<open, listening>>

Listen(q) ==
  /\ ~Busy(q)
  /\ Ready(q) = {}
  /\ listening' = listening \cup {q}
  /\ UNCHANGED <<open, pending, got, owed>>

Answer(q, p) ==
  /\ ~Busy(q)
  /\ p \in owed[q]
  /\ owed' = [owed EXCEPT ![q] = @ \ {p}]
  /\ UNCHANGED <<open, pending, listening, got>>

SetOpen(q, o) ==
  /\ ~Busy(q)
  /\ owner[o] = q
  /\ \E b \in BOOLEAN : open' = [open EXCEPT ![o] = b]
  /\ UNCHANGED <<pending, listening, got, owed>>

Next ==
  \/ \E p \in Proc, o \in Port, y \in Request \cup Note : Post(p, o, y)
  \/ \E q \in Proc :
       \/ Take(q)
       \/ Listen(q)
       \/ \E p \in Proc : Answer(q, p)
       \/ \E o \in Port : SetOpen(q, o)

Spec == Init /\ [][Next]_vars
===============================================================================
