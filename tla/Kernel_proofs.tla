---------------------------- MODULE Kernel_proofs ----------------------------
(* Proofs about ipc.c and intr.c: an invariant of the kernel's state that     *)
(* every action of Kernel keeps, whoever performs it, which holds under       *)
(* programs that call anything at any time (Programs); and that these         *)
(* implement Rendezvous.  The modules about the services take their           *)
(* invariance proofs from the lemmas of this one.                             *)
EXTENDS Programs, ReadyQueue_proofs

-------------------------------------------------------------------------------
(* The invariant.  Besides the properties of Kernel it says who is where:     *)

\* The boot process never blocks, so that there always is somebody to elect,
\* and the CPU is with a process that is queued.
SomebodyRuns ==
  /\ state[Boot] = "READY" /\ resume[Boot] = "user"
  /\ active_proc \in Queued(rq)

\* The state field says in which call a process is blocked.
PlacesMatch ==
  \A p \in Proc :
    /\ state[p] \in {"SEND_BLOCKED", "MESSAGE_BLOCKED", "REPLY_BLOCKED"} => resume[p] = "user"
    /\ state[p] = "RECEIVE_BLOCKED" => resume[p] = "receive"
    /\ resume[p] = "new" => state[p] = "READY"

\* param_data is the sender's own data while it is queued at a port; once the
\* kernel has woken a receiver its parameters are those of an item.
ParametersMatch ==
  \A p \in Proc :
    /\ state[p] = "SEND_BLOCKED" => param_data[p] \in Request
    /\ state[p] = "MESSAGE_BLOCKED" => param_data[p] \in Note
    /\ resume[p] = "receive" /\ state[p] = "READY"
         => param_proc[p] \in Proc /\ param_data[p] \in Data

KInv ==
  /\ TypeOK
  /\ ReadyIffQueued
  /\ BlockedOnOnePort
  /\ ReceiverNotMissed
  /\ SlotsMatchWaiters
  /\ OwedByOne
  /\ ReplyAccepted
  /\ SomebodyRuns
  /\ PlacesMatch
  /\ ParametersMatch

\* What the ready queues contribute to the proofs below.
LEMMA QueueFacts ==
  ASSUME KInv
  PROVE  /\ Sound(rq)
         /\ Queued(rq) \subseteq Proc
         /\ Boot \in Queued(rq)
         /\ \A p \in Proc : p \in Queued(rq) <=> state[p] = "READY" /\ resume[p] # "new"
         /\ active_proc \in Proc
         /\ state[active_proc] = "READY" /\ resume[active_proc] # "new"
<1>1. Sound(rq)
  BY DEF KInv, TypeOK, ReadyIffQueued, Sound
<1>2. \A p \in Proc : p \in Queued(rq) <=> state[p] = "READY" /\ resume[p] # "new"
  BY DEF KInv, ReadyIffQueued
<1>3. Queued(rq) \subseteq Proc /\ Boot \in Proc
  BY KernelAssumption DEF Queued
<1>4. Boot \in Queued(rq) /\ active_proc \in Queued(rq)
  BY <1>2, <1>3 DEF KInv, SomebodyRuns
<1>5. QED
  BY <1>1, <1>2, <1>3, <1>4

\* The debts do not change with a step that hands nothing over and answers
\* nobody.
LEMMA OwedKept ==
  ASSUME KInv,
         \A r \in Proc : Handed(r)' = Handed(r),
         \A r \in Proc : state'[r] = "REPLY_BLOCKED" <=> state[r] = "REPLY_BLOCKED",
         owed' = owed
  PROVE  OwedByOne'
<1> SUFFICES ASSUME NEW r \in Proc
             PROVE  LET debtors == {q \in Proc : r \in owed'[q]} \cup Handed(r)'
                    IN  /\ state'[r] = "REPLY_BLOCKED" <=> debtors # {}
                        /\ \A q, w \in debtors : q = w
                        /\ \A q \in Proc : r \in owed'[q] => q \notin Handed(r)'
  BY DEF OwedByOne
<1>1. LET debtors == {q \in Proc : r \in owed[q]} \cup Handed(r)
      IN  /\ state[r] = "REPLY_BLOCKED" <=> debtors # {}
          /\ \A q, w \in debtors : q = w
          /\ \A q \in Proc : r \in owed[q] => q \notin Handed(r)
  BY DEF KInv, OwedByOne
<1>2. QED
  BY <1>1

-------------------------------------------------------------------------------
\* create_process() queues a process that nothing else knows of.
LEMMA CreateStep ==
  ASSUME KInv, NEW p \in Proc, NEW q \in Proc, create_process(p, q)
  PROVE  KInv'
<1>1. /\ q \notin Queued(rq) /\ state[q] = "READY" /\ resume[q] = "new"
      /\ rq' = Enqueue(rq, q)
      /\ resume' = [resume EXCEPT ![q] = "user"]
      /\ UNCHANGED <<active_proc, state, param_proc, param_data, open, blocked,
                     interrupt_table, got, owed, fault>>
  BY QueueFacts DEF create_process, KInv, PlacesMatch
<1>2. Sound(rq') /\ Queued(rq') = Queued(rq) \cup {q}
  BY <1>1, QueueFacts, EnqueueKeeps
<1>3. TypeOK'
  BY <1>1, <1>2 DEF KInv, TypeOK, Sound
<1>4. ReadyIffQueued'
  BY <1>1, <1>2, QueueFacts DEF KInv, TypeOK, ReadyIffQueued, Sound
<1>5. BlockedOnOnePort' /\ ReceiverNotMissed' /\ ReplyAccepted'
  BY <1>1 DEF KInv, BlockedOnOnePort, ReceiverNotMissed, ReplyAccepted
<1>6. SlotsMatchWaiters'
  BY <1>1, KernelAssumption DEF KInv, TypeOK, SlotsMatchWaiters
<1>7. OwedByOne'
  <2>1. \A r \in Proc : Handed(r)' = Handed(r)
    BY <1>1 DEF KInv, TypeOK, Handed
  <2>2. QED
    BY <1>1, <2>1, OwedKept
<1>8. SomebodyRuns' /\ PlacesMatch' /\ ParametersMatch'
  BY <1>1, <1>2 DEF KInv, TypeOK, SomebodyRuns, PlacesMatch, ParametersMatch
<1>9. QED
  BY <1>3, <1>4, <1>5, <1>6, <1>7, <1>8 DEF KInv

\* A resign() finds somebody to elect as long as the boot process is queued.
LEMMA SwitchFacts ==
  ASSUME Sound(rq'), Boot \in Queued(rq'), Switch
  PROVE  active_proc' \in Queued(rq') /\ active_proc' \in Proc
BY ElectFacts DEF Switch, Queued

\* The list of a port, and the lists of all of them, after a sender has joined.
LEMMA JoinFacts ==
  ASSUME KInv, NEW p \in Proc, state[p] = "READY", NEW o \in Port,
         blocked' = [blocked EXCEPT ![o] = Append(@, p)]
  PROVE  /\ blocked' \in [Port -> Seq(Proc)]
         /\ blocked'[o] # << >>
         /\ Members(blocked'[o]) = Members(blocked[o]) \cup {p}
         /\ \A u \in Port : u # o => blocked'[u] = blocked[u]
         /\ \A u \in Port : NoRepeats(blocked'[u])
         /\ \A u \in Port : p \notin Members(blocked[u])
<1>1. /\ blocked \in [Port -> Seq(Proc)]
      /\ \A u \in Port : NoRepeats(blocked[u]) /\ p \notin Members(blocked[u])
  BY DEF KInv, TypeOK, BlockedOnOnePort
<1>2. /\ Append(blocked[o], p) \in Seq(Proc)
      /\ Append(blocked[o], p) # << >>
      /\ Members(Append(blocked[o], p)) = Members(blocked[o]) \cup {p}
      /\ NoRepeats(Append(blocked[o], p))
  BY <1>1, AppendKeeps
<1>3. QED
  BY <1>1, <1>2

\* send() to a receiver that waits.
LEMMA SendHandOver ==
  ASSUME KInv, NEW p \in Proc, p # Boot, NEW o \in Port, NEW y \in Request,
         send(p, o, y), Receptive(o)
  PROVE  KInv'
<1> DEFINE q == owner[o]
<1>1. /\ p = active_proc /\ state[p] = "READY" /\ resume[p] = "user" /\ p \in Queued(rq)
      /\ q \in Proc /\ state[q] = "RECEIVE_BLOCKED" /\ resume[q] = "receive"
      /\ p # q /\ q # Boot /\ q \notin Queued(rq)
  BY QueueFacts, KernelAssumption DEF send, Running, Receptive, KInv, PlacesMatch, SomebodyRuns
<1>2. /\ param_proc' = [param_proc EXCEPT ![q] = p]
      /\ param_data' = [param_data EXCEPT ![q] = y, ![p] = y]
      /\ state' = [state EXCEPT ![p] = "REPLY_BLOCKED", ![q] = "READY"]
      /\ rq' = Dequeue(Enqueue(rq, q), p)
      /\ Switch
      /\ UNCHANGED <<open, blocked, interrupt_table, resume, got, owed, fault>>
  BY DEF send
<1>3. Sound(rq') /\ Queued(rq') = (Queued(rq) \cup {q}) \ {p}
  BY <1>1, <1>2, QueueFacts, EnqueueKeeps, DequeueKeeps
<1> HIDE DEF q
<1>4. active_proc' \in Queued(rq') /\ active_proc' \in Proc
  BY <1>1, <1>2, <1>3, QueueFacts, SwitchFacts
<1>5. TypeOK'
  BY <1>1, <1>2, <1>3, <1>4 DEF KInv, TypeOK, Sound, States, Data
<1>6. ReadyIffQueued'
  BY <1>1, <1>2, <1>3, QueueFacts DEF KInv, TypeOK, ReadyIffQueued, Sound
<1>7. BlockedOnOnePort'
  BY <1>1, <1>2 DEF KInv, TypeOK, BlockedOnOnePort
<1>8. ReceiverNotMissed' /\ ReplyAccepted'
  BY <1>1, <1>2, KernelAssumption DEF KInv, TypeOK, ReceiverNotMissed, ReplyAccepted
<1>9. SlotsMatchWaiters'
  BY <1>1, <1>2 DEF KInv, TypeOK, SlotsMatchWaiters
<1>10. OwedByOne'
  <2>1. /\ Handed(p)' = {q}
        /\ \A r \in Proc \ {p} : Handed(r)' = Handed(r)
        /\ Handed(p) = {} /\ \A r \in Proc : p \notin owed[r]
    BY <1>1, <1>2 DEF KInv, TypeOK, Handed, OwedByOne
  <2>2. ASSUME NEW r \in Proc
        PROVE  LET debtors == {w \in Proc : r \in owed'[w]} \cup Handed(r)'
               IN  /\ state'[r] = "REPLY_BLOCKED" <=> debtors # {}
                   /\ \A v, w \in debtors : v = w
                   /\ \A w \in Proc : r \in owed'[w] => w \notin Handed(r)'
    <3>1. CASE r = p
      BY <3>1, <1>1, <1>2, <2>1 DEF KInv, TypeOK
    <3>2. CASE r # p
      <4>1. state'[r] = "REPLY_BLOCKED" <=> state[r] = "REPLY_BLOCKED"
        BY <3>2, <1>1, <1>2 DEF KInv, TypeOK
      <4>2. QED
        BY <3>2, <4>1, <1>2, <2>1 DEF KInv, OwedByOne
    <3>3. QED
      BY <3>1, <3>2
  <2>3. QED
    BY <2>2 DEF OwedByOne
<1>11. SomebodyRuns' /\ PlacesMatch'
  BY <1>1, <1>2, <1>4, KernelAssumption DEF KInv, TypeOK, SomebodyRuns, PlacesMatch
<1>12. ParametersMatch'
  BY <1>1, <1>2 DEF KInv, TypeOK, ParametersMatch, Data
<1>13. QED
  BY <1>5, <1>6, <1>7, <1>8, <1>9, <1>10, <1>11, <1>12 DEF KInv

\* send() or message() to a receiver that does not wait, or to a closed port.
Joins(p, o, b, y) ==
  /\ Running(p)
  /\ ~Receptive(o)
  /\ add_to_send_blocked_list(o, p)
  /\ state' = [state EXCEPT ![p] = b]
  /\ param_data' = [param_data EXCEPT ![p] = y]
  /\ rq' = Dequeue(rq, p)
  /\ Switch
  /\ UNCHANGED <<open, param_proc, interrupt_table, resume, got, owed, fault>>

\* A process joins the list of a port whose owner does not wait there, with the
\* state and the data that send() or message() gives it.
LEMMA SenderQueues ==
  ASSUME KInv, NEW p \in Proc, p # Boot, NEW o \in Port, NEW b, NEW y,
         b \in {"SEND_BLOCKED", "MESSAGE_BLOCKED"},
         b = "SEND_BLOCKED" => y \in Request,
         b = "MESSAGE_BLOCKED" => y \in Note,
         Joins(p, o, b, y)
  PROVE  KInv'
<1>1. /\ p = active_proc /\ state[p] = "READY" /\ resume[p] = "user" /\ p \in Queued(rq)
  BY QueueFacts DEF Joins, Running
<1>2. /\ blocked' = [blocked EXCEPT ![o] = Append(@, p)]
      /\ state' = [state EXCEPT ![p] = b]
      /\ b \in {"SEND_BLOCKED", "MESSAGE_BLOCKED"} /\ y \in Data
      /\ param_data' = [param_data EXCEPT ![p] = y]
      /\ rq' = Dequeue(rq, p)
      /\ Switch
      /\ UNCHANGED <<open, param_proc, interrupt_table, resume, got, owed, fault>>
  BY DEF Joins, add_to_send_blocked_list, Data
<1>3. Sound(rq') /\ Queued(rq') = Queued(rq) \ {p}
  BY <1>1, <1>2, QueueFacts, DequeueKeeps
<1>4. active_proc' \in Queued(rq') /\ active_proc' \in Proc
  BY <1>2, <1>3, QueueFacts, SwitchFacts
<1>5. /\ blocked' \in [Port -> Seq(Proc)]
      /\ blocked'[o] # << >>
      /\ Members(blocked'[o]) = Members(blocked[o]) \cup {p}
      /\ \A u \in Port : u # o => blocked'[u] = blocked[u]
      /\ \A u \in Port : NoRepeats(blocked'[u])
      /\ \A u \in Port : p \notin Members(blocked[u])
  BY <1>1, <1>2, JoinFacts
<1>6. TypeOK'
  BY <1>1, <1>2, <1>3, <1>4, <1>5 DEF KInv, TypeOK, Sound, States, Data
<1>7. ReadyIffQueued'
  BY <1>1, <1>2, <1>3, QueueFacts DEF KInv, TypeOK, ReadyIffQueued, Sound
<1>8. BlockedOnOnePort'
  <2>1. ASSUME NEW u \in Port, NEW w \in Port, u # w
        PROVE  Members(blocked'[u]) \cap Members(blocked'[w]) = {}
    <3>1. Members(blocked[u]) \cap Members(blocked[w]) = {}
      BY <2>1 DEF KInv, BlockedOnOnePort
    <3>2. p \notin Members(blocked[u]) /\ p \notin Members(blocked[w])
      BY <1>5
    <3>3. CASE u = o
      BY <2>1, <3>1, <3>2, <3>3, <1>5
    <3>4. CASE w = o
      BY <2>1, <3>1, <3>2, <3>4, <1>5
    <3>5. CASE u # o /\ w # o
      BY <3>1, <3>5, <1>5
    <3>6. QED
      BY <3>3, <3>4, <3>5
  <2>2. ASSUME NEW r \in Proc
        PROVE  state'[r] \in {"SEND_BLOCKED", "MESSAGE_BLOCKED"}
                 <=> \E u \in Port : r \in Members(blocked'[u])
    <3>1. CASE r = p
      BY <3>1, <1>2, <1>5 DEF KInv, TypeOK
    <3>2. CASE r # p
      <4>1. \A u \in Port : r \in Members(blocked'[u]) <=> r \in Members(blocked[u])
        BY <3>2, <1>5
      <4>2. state'[r] = state[r]
        BY <3>2, <1>2 DEF KInv, TypeOK
      <4>3. QED
        BY <4>1, <4>2 DEF KInv, BlockedOnOnePort
    <3>3. QED
      BY <3>1, <3>2
  <2>3. QED
    BY <1>5, <2>1, <2>2 DEF BlockedOnOnePort
<1>9. ReceiverNotMissed' /\ ReplyAccepted'
  <2>1. ASSUME NEW u \in Port, state'[owner[u]] = "RECEIVE_BLOCKED", open'[u]
        PROVE  blocked'[u] = << >>
    <3>0. owner[u] \in Proc
      BY KernelAssumption
    <3>1. state[owner[u]] = "RECEIVE_BLOCKED" /\ open[u]
      <4>1. owner[u] # p
        BY <2>1, <1>2, <3>0 DEF KInv, TypeOK
      <4>2. QED
        BY <2>1, <1>2, <3>0, <4>1 DEF KInv, TypeOK
    <3>2. u # o /\ blocked[u] = << >>
      BY <3>1 DEF Joins, KInv, ReceiverNotMissed, Receptive
    <3>3. QED
      BY <3>2, <1>5
  <2>2. QED
    BY <2>1, <1>2 DEF KInv, ReceiverNotMissed, ReplyAccepted
<1>10. SlotsMatchWaiters'
  BY <1>1, <1>2 DEF KInv, TypeOK, SlotsMatchWaiters
<1>11. OwedByOne'
  <2>1. \A r \in Proc : Handed(r)' = Handed(r)
    BY <1>1, <1>2 DEF KInv, TypeOK, Handed
  <2>2. \A r \in Proc : state'[r] = "REPLY_BLOCKED" <=> state[r] = "REPLY_BLOCKED"
    BY <1>1, <1>2 DEF KInv, TypeOK
  <2>3. QED
    BY <1>2, <2>1, <2>2, OwedKept
<1>12. SomebodyRuns' /\ PlacesMatch'
  BY <1>1, <1>2, <1>4 DEF KInv, TypeOK, SomebodyRuns, PlacesMatch
<1>13. ParametersMatch'
  BY <1>1, <1>2 DEF KInv, TypeOK, ParametersMatch
<1>14. QED
  BY <1>6, <1>7, <1>8, <1>9, <1>10, <1>11, <1>12, <1>13 DEF KInv

\* send() keeps the invariant.
LEMMA SendStep ==
  ASSUME KInv, NEW p \in Proc, p # Boot, NEW o \in Port, NEW y \in Request, send(p, o, y)
  PROVE  KInv'
<1>1. CASE Receptive(o)
  BY <1>1, SendHandOver
<1>2. CASE ~Receptive(o)
  <2>1. Joins(p, o, "SEND_BLOCKED", y)
    BY <1>2 DEF send, Joins
  <2>2. QED
    BY <2>1, SenderQueues
<1>3. QED
  BY <1>1, <1>2

\* message() to a receiver that waits.  The sender stays queued.
LEMMA MessageHandOver ==
  ASSUME KInv, NEW p \in Proc, NEW o \in Port, NEW y \in Note,
         message(p, o, y), Receptive(o)
  PROVE  KInv'
<1> DEFINE q == owner[o]
<1>1. /\ p = active_proc /\ state[p] = "READY" /\ resume[p] = "user" /\ p \in Queued(rq)
      /\ q \in Proc /\ state[q] = "RECEIVE_BLOCKED" /\ resume[q] = "receive"
      /\ p # q /\ q # Boot /\ q \notin Queued(rq)
  BY QueueFacts, KernelAssumption DEF message, Running, Receptive, KInv, PlacesMatch, SomebodyRuns
<1>2. /\ param_proc' = [param_proc EXCEPT ![q] = p]
      /\ param_data' = [param_data EXCEPT ![q] = y]
      /\ state' = [state EXCEPT ![q] = "READY"]
      /\ rq' = Enqueue(rq, q)
      /\ Switch
      /\ UNCHANGED <<open, blocked, interrupt_table, resume, got, owed, fault>>
  BY DEF message
<1>3. Sound(rq') /\ Queued(rq') = Queued(rq) \cup {q}
  BY <1>1, <1>2, QueueFacts, EnqueueKeeps
<1> HIDE DEF q
<1>4. active_proc' \in Queued(rq') /\ active_proc' \in Proc
  BY <1>1, <1>2, <1>3, QueueFacts, SwitchFacts
<1>5. TypeOK'
  BY <1>1, <1>2, <1>3, <1>4 DEF KInv, TypeOK, Sound, States, Data
<1>6. ReadyIffQueued'
  BY <1>1, <1>2, <1>3, QueueFacts DEF KInv, TypeOK, ReadyIffQueued, Sound
<1>7. BlockedOnOnePort'
  BY <1>1, <1>2 DEF KInv, TypeOK, BlockedOnOnePort
<1>8. ReceiverNotMissed' /\ ReplyAccepted'
  BY <1>1, <1>2, KernelAssumption DEF KInv, TypeOK, ReceiverNotMissed, ReplyAccepted
<1>9. SlotsMatchWaiters'
  BY <1>1, <1>2 DEF KInv, TypeOK, SlotsMatchWaiters
<1>10. OwedByOne'
  <2>1. \A r \in Proc : Handed(r)' = Handed(r)
    BY <1>1, <1>2, KernelAssumption DEF KInv, TypeOK, Handed
  <2>2. \A r \in Proc : state'[r] = "REPLY_BLOCKED" <=> state[r] = "REPLY_BLOCKED"
    BY <1>1, <1>2 DEF KInv, TypeOK
  <2>3. QED
    BY <1>2, <2>1, <2>2, OwedKept
<1>11. SomebodyRuns' /\ PlacesMatch'
  BY <1>1, <1>2, <1>4, KernelAssumption DEF KInv, TypeOK, SomebodyRuns, PlacesMatch
<1>12. ParametersMatch'
  BY <1>1, <1>2 DEF KInv, TypeOK, ParametersMatch, Data
<1>13. QED
  BY <1>5, <1>6, <1>7, <1>8, <1>9, <1>10, <1>11, <1>12 DEF KInv

\* message() keeps the invariant.
LEMMA MessageStep ==
  ASSUME KInv, NEW p \in Proc, p # Boot, NEW o \in Port, NEW y \in Note, message(p, o, y)
  PROVE  KInv'
<1>1. CASE Receptive(o)
  BY <1>1, MessageHandOver
<1>2. CASE ~Receptive(o)
  <2>1. Joins(p, o, "MESSAGE_BLOCKED", y)
    BY <1>2 DEF message, Joins
  <2>2. QED
    BY <2>1, SenderQueues
<1>3. QED
  BY <1>1, <1>2

-------------------------------------------------------------------------------
(* receive(), reply() and the ports.                                          *)

\* Whom receive() takes: the first in the list of an open port of p.
LEMMA PendingFacts ==
  ASSUME KInv, NEW p \in Proc, Pending(p) # {}
  PROVE  LET o == FirstPending(p)
             x == Head(blocked[o])
         IN  /\ o \in Port /\ open[o] /\ blocked[o] # << >> /\ owner[o] = p
             /\ x \in Proc /\ x \in Members(blocked[o])
             /\ state[x] \in {"SEND_BLOCKED", "MESSAGE_BLOCKED"}
             /\ Tail(blocked[o]) \in Seq(Proc)
             /\ Members(Tail(blocked[o])) = Members(blocked[o]) \ {x}
             /\ NoRepeats(Tail(blocked[o]))
<1>1. PICK k \in Pending(p) : FirstPending(p) = ports[p][k]
  <2>1. Pending(p) \in SUBSET Nat
    BY DEF Pending
  <2>2. \E k \in Pending(p) : \A j \in Pending(p) : k <= j
    BY <2>1, LeastExists
  <2>3. QED
    BY <2>2 DEF FirstPending
<1> DEFINE o == FirstPending(p)
           x == Head(blocked[o])
<1>2. o \in Members(ports[p]) /\ ports[p] \in Seq(Port)
  BY <1>1, KernelAssumption DEF Pending, Members
<1>3. o \in Port /\ open[o] /\ blocked[o] # << >> /\ owner[o] = p
  <2>1. o \in Port
    BY <1>2, MembersFacts
  <2>2. QED
    BY <2>1, <1>1, <1>2, KernelAssumption DEF Pending
<1> HIDE DEF o
<1>4. blocked[o] \in Seq(Proc) /\ NoRepeats(blocked[o])
  BY <1>3 DEF KInv, TypeOK, BlockedOnOnePort
<1>5. /\ x \in Members(blocked[o])
      /\ Tail(blocked[o]) \in Seq(Proc)
      /\ Members(Tail(blocked[o])) = Members(blocked[o]) \ {x}
      /\ NoRepeats(Tail(blocked[o]))
  BY <1>3, <1>4, TailKeeps
<1>6. x \in Proc
  BY <1>4, <1>5, MembersFacts
<1>7. state[x] \in {"SEND_BLOCKED", "MESSAGE_BLOCKED"}
  BY <1>3, <1>5, <1>6 DEF KInv, BlockedOnOnePort
<1>8. QED
  BY <1>3, <1>5, <1>6, <1>7 DEF o

\* receive() of somebody who is queued at a port.
LEMMA ReceivePendingStep ==
  ASSUME KInv, NEW p \in Proc, receive_pending(p)
  PROVE  KInv'
<1> DEFINE o == FirstPending(p)
           x == Head(blocked[o])
<1>1. /\ p = active_proc /\ state[p] = "READY" /\ resume[p] = "user" /\ p \in Queued(rq)
      /\ o \in Port /\ open[o] /\ blocked[o] # << >> /\ owner[o] = p
      /\ x \in Proc /\ x \in Members(blocked[o])
      /\ state[x] \in {"SEND_BLOCKED", "MESSAGE_BLOCKED"}
      /\ Tail(blocked[o]) \in Seq(Proc)
      /\ Members(Tail(blocked[o])) = Members(blocked[o]) \ {x}
      /\ NoRepeats(Tail(blocked[o]))
  BY QueueFacts, PendingFacts DEF receive_pending, Running
<1>2. /\ Return(p, x, param_data[x])
      /\ blocked' = [blocked EXCEPT ![o] = Tail(@)]
      /\ Accept(x)
      /\ UNCHANGED <<active_proc, param_proc, param_data, open, interrupt_table,
                     resume, fault>>
  BY DEF receive_pending
<1> HIDE DEF o, x
<1>3. /\ x # p /\ x # Boot /\ x \notin Queued(rq) /\ resume[x] = "user"
      /\ state[x] = "SEND_BLOCKED" => param_data[x] \in Request
      /\ state[x] = "MESSAGE_BLOCKED" => param_data[x] \in Note
      /\ param_data[x] \in Request <=> state[x] = "SEND_BLOCKED"
  BY <1>1, QueueFacts, KernelAssumption DEF KInv, SomebodyRuns, PlacesMatch, ParametersMatch
<1>4. /\ state' = [state EXCEPT ![x] = IF state[x] = "SEND_BLOCKED" THEN "REPLY_BLOCKED"
                                                                    ELSE "READY"]
      /\ state[x] = "MESSAGE_BLOCKED" => rq' = Enqueue(rq, x)
      /\ state[x] = "SEND_BLOCKED" => rq' = rq
      /\ got' = [got EXCEPT ![p] = [sender |-> x, data |-> param_data[x]]]
      /\ owed' = [owed EXCEPT ![p] = IF state[x] = "SEND_BLOCKED" THEN @ \cup {x} ELSE @]
  BY <1>1, <1>2, <1>3 DEF Accept, Return
<1>5. /\ Sound(rq')
      /\ Queued(rq') = IF state[x] = "SEND_BLOCKED" THEN Queued(rq) ELSE Queued(rq) \cup {x}
  BY <1>1, <1>3, <1>4, QueueFacts, EnqueueKeeps
<1>6. TypeOK'
  BY <1>1, <1>2, <1>3, <1>4, <1>5 DEF KInv, TypeOK, Sound, States, Data
<1>7. ReadyIffQueued'
  BY <1>1, <1>2, <1>3, <1>4, <1>5, QueueFacts DEF KInv, TypeOK, ReadyIffQueued, Sound
<1>8. BlockedOnOnePort'
  <2>1. /\ blocked'[o] = Tail(blocked[o])
        /\ \A u \in Port : u # o => blocked'[u] = blocked[u] /\ x \notin Members(blocked[u])
    BY <1>1, <1>2 DEF KInv, TypeOK, BlockedOnOnePort
  <2>2. \A u \in Port : /\ NoRepeats(blocked'[u])
                        /\ Members(blocked'[u]) = Members(blocked[u]) \ {x}
    BY <2>1, <1>1 DEF KInv, BlockedOnOnePort
  <2>3. ASSUME NEW u \in Port, NEW w \in Port, u # w
        PROVE  Members(blocked'[u]) \cap Members(blocked'[w]) = {}
    BY <2>2, <2>3 DEF KInv, BlockedOnOnePort
  <2>4. ASSUME NEW r \in Proc
        PROVE  state'[r] \in {"SEND_BLOCKED", "MESSAGE_BLOCKED"}
                 <=> \E u \in Port : r \in Members(blocked'[u])
    <3>1. CASE r = x
      BY <3>1, <2>2, <1>3, <1>4 DEF KInv, TypeOK
    <3>2. CASE r # x
      <4>1. \A u \in Port : r \in Members(blocked'[u]) <=> r \in Members(blocked[u])
        BY <3>2, <2>2
      <4>2. state'[r] = state[r]
        BY <3>2, <1>4 DEF KInv, TypeOK
      <4>3. QED
        BY <4>1, <4>2 DEF KInv, BlockedOnOnePort
    <3>3. QED
      BY <3>1, <3>2
  <2>5. QED
    BY <2>2, <2>3, <2>4 DEF BlockedOnOnePort
<1>9. ReceiverNotMissed' /\ ReplyAccepted'
  <2>1. ASSUME NEW u \in Port, state'[owner[u]] = "RECEIVE_BLOCKED", open'[u]
        PROVE  blocked'[u] = << >>
    <3>1. owner[u] \in Proc /\ state[owner[u]] = "RECEIVE_BLOCKED" /\ open[u]
      BY <2>1, <1>2, <1>4, KernelAssumption DEF KInv, TypeOK
    <3>2. u # o /\ blocked[u] = << >>
      BY <3>1, <1>1 DEF KInv, ReceiverNotMissed
    <3>3. QED
      BY <3>2, <1>1, <1>2 DEF KInv, TypeOK
  <2>2. QED
    BY <2>1, <1>2 DEF KInv, ReceiverNotMissed, ReplyAccepted
<1>10. SlotsMatchWaiters'
  BY <1>1, <1>2, <1>3, <1>4 DEF KInv, TypeOK, SlotsMatchWaiters
<1>11. OwedByOne'
  <2>1. \A r \in Proc : Handed(r)' = Handed(r)
    BY <1>1, <1>2, <1>3, <1>4 DEF KInv, TypeOK, Handed
  <2>2. Handed(x) = {} /\ \A r \in Proc : x \notin owed[r]
    BY <1>1, <1>3 DEF KInv, TypeOK, OwedByOne, Handed
  <2>3. \A r \in Proc \ {x} : state'[r] = "REPLY_BLOCKED" <=> state[r] = "REPLY_BLOCKED"
    BY <1>4 DEF KInv, TypeOK
  <2>4. \A r \in Proc \ {x}, q \in Proc : r \in owed'[q] <=> r \in owed[q]
    BY <1>4 DEF KInv, TypeOK
  <2>5. /\ state'[x] = "REPLY_BLOCKED" <=> state[x] = "SEND_BLOCKED"
        /\ \A q \in Proc : x \in owed'[q] <=> q = p /\ state[x] = "SEND_BLOCKED"
    BY <1>1, <1>4, <2>2 DEF KInv, TypeOK
  <2>6. ASSUME NEW r \in Proc
        PROVE  LET debtors == {q \in Proc : r \in owed'[q]} \cup Handed(r)'
               IN  /\ state'[r] = "REPLY_BLOCKED" <=> debtors # {}
                   /\ \A q, w \in debtors : q = w
                   /\ \A q \in Proc : r \in owed'[q] => q \notin Handed(r)'
    <3>1. CASE r = x
      BY <3>1, <2>1, <2>2, <2>5, <1>1
    <3>2. CASE r # x
      BY <3>2, <2>1, <2>3, <2>4 DEF KInv, OwedByOne
    <3>3. QED
      BY <3>1, <3>2
  <2>7. QED
    BY <2>6 DEF OwedByOne
<1>12. SomebodyRuns' /\ PlacesMatch'
  BY <1>1, <1>2, <1>3, <1>4, <1>5, KernelAssumption DEF KInv, TypeOK, SomebodyRuns, PlacesMatch
<1>13. ParametersMatch'
  BY <1>1, <1>2, <1>3, <1>4 DEF KInv, TypeOK, ParametersMatch
<1>14. QED
  BY <1>6, <1>7, <1>8, <1>9, <1>10, <1>11, <1>12, <1>13 DEF KInv

\* A step that at most moves the CPU to a queued process or stops the system.
LEMMA FrameStep ==
  ASSUME KInv,
         active_proc' \in Queued(rq),
         fault' \in (Panics \cup {"none"}) \ {"reply(): Not reply blocked"},
         UNCHANGED <<rq, state, param_proc, param_data, open, blocked,
                     interrupt_table, resume, got, owed>>
  PROVE  KInv'
<1>1. TypeOK' /\ ReplyAccepted'
  BY DEF KInv, TypeOK, ReplyAccepted, Queued
<1>2. ReadyIffQueued'
  BY DEF KInv, ReadyIffQueued
<1>3. BlockedOnOnePort' /\ ReceiverNotMissed' /\ SlotsMatchWaiters'
  BY DEF KInv, BlockedOnOnePort, ReceiverNotMissed, SlotsMatchWaiters
<1>4. OwedByOne'
  <2>1. \A r \in Proc : Handed(r)' = Handed(r)
    BY DEF Handed
  <2>2. state' = state /\ owed' = owed
    OBVIOUS
  <2>3. QED
    BY <2>1, <2>2, OwedKept
<1>5. SomebodyRuns' /\ PlacesMatch' /\ ParametersMatch'
  BY DEF KInv, SomebodyRuns, PlacesMatch, ParametersMatch
<1>6. QED
  BY <1>1, <1>2, <1>3, <1>4, <1>5 DEF KInv

\* panic() or a failed assertion.
LEMMA PanicStep ==
  ASSUME KInv, NEW why \in Panics \ {"reply(): Not reply blocked"}, panic(why)
  PROVE  KInv'
BY FrameStep DEF panic, KInv, SomebodyRuns

\* receive() with nobody there: no port of the process has anybody, so that
\* nobody is missed.
LEMMA ReceiveWaitStep ==
  ASSUME KInv, NEW p \in Proc, p # Boot, receive_wait(p)
  PROVE  KInv'
<1>1. /\ p = active_proc /\ state[p] = "READY" /\ resume[p] = "user" /\ p \in Queued(rq)
  BY QueueFacts DEF receive_wait, Running
<1>2. CASE ports[p] = << >>
  <2>1. panic("receive(): no port created for this process")
    BY <1>2 DEF receive_wait
  <2>2. QED
    BY <2>1, PanicStep DEF Panics
<1>3. CASE ports[p] # << >>
  <2>1. /\ Pending(p) = {}
        /\ rq' = Dequeue(rq, p)
        /\ param_data' = [param_data EXCEPT ![p] = NULL]
        /\ state' = [state EXCEPT ![p] = "RECEIVE_BLOCKED"]
        /\ resume' = [resume EXCEPT ![p] = "receive"]
        /\ Switch
        /\ UNCHANGED <<param_proc, open, blocked, interrupt_table, got, owed, fault>>
    BY <1>3 DEF receive_wait
  <2>2. Sound(rq') /\ Queued(rq') = Queued(rq) \ {p}
    BY <1>1, <2>1, QueueFacts, DequeueKeeps
  <2>3. active_proc' \in Queued(rq') /\ active_proc' \in Proc
    BY <2>1, <2>2, QueueFacts, SwitchFacts
  <2>4. TypeOK'
    BY <1>1, <2>1, <2>2, <2>3 DEF KInv, TypeOK, Sound, States
  <2>5. ReadyIffQueued'
    BY <1>1, <2>1, <2>2, QueueFacts DEF KInv, TypeOK, ReadyIffQueued, Sound
  <2>6. BlockedOnOnePort'
    BY <1>1, <2>1 DEF KInv, TypeOK, BlockedOnOnePort
  <2>7. ReceiverNotMissed' /\ ReplyAccepted'
    <3>1. ASSUME NEW o \in Port, owner[o] = p, open[o]
          PROVE  blocked[o] = << >>
      <4>1. o \in Members(ports[p])
        BY <3>1, KernelAssumption
      <4>2. PICK k \in 1 .. Len(ports[p]) : ports[p][k] = o
        BY <4>1 DEF Members
      <4>3. k \notin Pending(p)
        BY <2>1
      <4>4. QED
        BY <3>1, <4>2, <4>3 DEF Pending
    <3>2. ASSUME NEW o \in Port, state'[owner[o]] = "RECEIVE_BLOCKED", open'[o]
          PROVE  blocked'[o] = << >>
      <4>1. owner[o] \in Proc
        BY KernelAssumption
      <4>2. CASE owner[o] = p
        BY <4>2, <3>1, <3>2, <2>1
      <4>3. CASE owner[o] # p
        BY <4>1, <4>3, <3>2, <2>1 DEF KInv, TypeOK, ReceiverNotMissed
      <4>4. QED
        BY <4>2, <4>3
    <3>3. QED
      BY <3>2, <2>1 DEF KInv, ReceiverNotMissed, ReplyAccepted
  <2>8. SlotsMatchWaiters'
    BY <1>1, <2>1, KernelAssumption DEF KInv, TypeOK, SlotsMatchWaiters
  <2>9. OwedByOne'
    <3>1. \A r \in Proc : Handed(r)' = Handed(r)
      BY <1>1, <2>1 DEF KInv, TypeOK, Handed
    <3>2. \A r \in Proc : state'[r] = "REPLY_BLOCKED" <=> state[r] = "REPLY_BLOCKED"
      BY <1>1, <2>1 DEF KInv, TypeOK
    <3>3. QED
      BY <2>1, <3>1, <3>2, OwedKept
  <2>10. SomebodyRuns' /\ PlacesMatch'
    BY <1>1, <2>1, <2>3, KernelAssumption DEF KInv, TypeOK, SomebodyRuns, PlacesMatch
  <2>11. ParametersMatch'
    BY <1>1, <2>1 DEF KInv, TypeOK, ParametersMatch
  <2>12. QED
    BY <2>4, <2>5, <2>6, <2>7, <2>8, <2>9, <2>10, <2>11 DEF KInv
<1>4. QED
  BY <1>2, <1>3

\* The return of receive(): the debt moves from the parameters to owed.
LEMMA ReceiveResumeStep ==
  ASSUME KInv, NEW p \in Proc, receive_resume(p)
  PROVE  KInv'
<1>1. /\ p = active_proc /\ state[p] = "READY" /\ resume[p] = "receive"
      /\ param_proc[p] \in Proc /\ param_data[p] \in Data
  BY QueueFacts DEF receive_resume, KInv, ParametersMatch
<1>2. /\ got' = [got EXCEPT ![p] = [sender |-> param_proc[p], data |-> param_data[p]]]
      /\ owed' = [owed EXCEPT ![p] = IF param_data[p] \in Request
                                     THEN @ \cup {param_proc[p]} ELSE @]
      /\ resume' = [resume EXCEPT ![p] = "user"]
      /\ UNCHANGED <<rq, active_proc, state, param_proc, param_data, open, blocked,
                     interrupt_table, fault>>
  BY DEF receive_resume, Return
<1>3. TypeOK'
  BY <1>1, <1>2 DEF KInv, TypeOK
<1>4. ReadyIffQueued'
  BY <1>1, <1>2 DEF KInv, TypeOK, ReadyIffQueued
<1>5. BlockedOnOnePort' /\ ReceiverNotMissed' /\ ReplyAccepted'
  BY <1>2 DEF KInv, BlockedOnOnePort, ReceiverNotMissed, ReplyAccepted
<1>6. SlotsMatchWaiters'
  BY <1>1, <1>2, KernelAssumption DEF KInv, TypeOK, SlotsMatchWaiters
<1>7. OwedByOne'
  <2>1. ASSUME NEW r \in Proc
        PROVE  LET debtors == {q \in Proc : r \in owed'[q]} \cup Handed(r)'
               IN  /\ state'[r] = "REPLY_BLOCKED" <=> debtors # {}
                   /\ \A q, w \in debtors : q = w
                   /\ \A q \in Proc : r \in owed'[q] => q \notin Handed(r)'
    <3>1. Handed(r)' = Handed(r) \ {p}
      BY <1>1, <1>2 DEF KInv, TypeOK, Handed
    <3>2. {q \in Proc : r \in owed'[q]}
            = {q \in Proc : r \in owed[q]} \cup (Handed(r) \cap {p})
      BY <1>1, <1>2 DEF KInv, TypeOK, Handed
    <3>3. \A q \in Proc : r \in owed'[q] <=> r \in owed[q] \/ (q = p /\ p \in Handed(r))
      BY <1>1, <1>2 DEF KInv, TypeOK, Handed
    <3>4. QED
      BY <3>1, <3>2, <3>3, <1>2 DEF KInv, OwedByOne
  <2>2. QED
    BY <2>1 DEF OwedByOne
<1>8. SomebodyRuns' /\ PlacesMatch'
  BY <1>1, <1>2, KernelAssumption DEF KInv, TypeOK, SomebodyRuns, PlacesMatch
<1>9. ParametersMatch'
  BY <1>1, <1>2 DEF KInv, TypeOK, ParametersMatch
<1>10. QED
  BY <1>3, <1>4, <1>5, <1>6, <1>7, <1>8, <1>9 DEF KInv

\* reply() to a sender from whom the caller has received the request.
LEMMA ReplyStep ==
  ASSUME KInv, NEW p \in Proc, NEW q \in owed[p], reply(p, q)
  PROVE  KInv'
<1>1. /\ p = active_proc /\ state[p] = "READY" /\ p \in Queued(rq)
      /\ q \in Proc /\ q # p /\ state[q] = "REPLY_BLOCKED"
      /\ q \notin Queued(rq) /\ q # Boot /\ resume[q] = "user"
  <2>1. q \in Proc
    BY DEF KInv, TypeOK
  <2>2. state[q] = "REPLY_BLOCKED"
    BY <2>1 DEF KInv, OwedByOne
  <2>3. QED
    BY <2>1, <2>2, QueueFacts DEF reply, Running, KInv, SomebodyRuns, PlacesMatch
<1>2. /\ rq' = Enqueue(rq, q)
      /\ state' = [state EXCEPT ![q] = "READY"]
      /\ owed' = [owed EXCEPT ![p] = @ \ {q}]
      /\ Switch
      /\ UNCHANGED <<param_proc, param_data, open, blocked, interrupt_table,
                     resume, got, fault>>
  BY <1>1 DEF reply
<1>3. Sound(rq') /\ Queued(rq') = Queued(rq) \cup {q}
  BY <1>1, <1>2, QueueFacts, EnqueueKeeps
<1>4. active_proc' \in Queued(rq') /\ active_proc' \in Proc
  BY <1>2, <1>3, QueueFacts, SwitchFacts
<1>5. TypeOK'
  BY <1>1, <1>2, <1>3, <1>4 DEF KInv, TypeOK, Sound, States
<1>6. ReadyIffQueued'
  BY <1>1, <1>2, <1>3, QueueFacts DEF KInv, TypeOK, ReadyIffQueued, Sound
<1>7. BlockedOnOnePort'
  BY <1>1, <1>2 DEF KInv, TypeOK, BlockedOnOnePort
<1>8. ReceiverNotMissed' /\ ReplyAccepted'
  BY <1>1, <1>2, KernelAssumption DEF KInv, TypeOK, ReceiverNotMissed, ReplyAccepted
<1>9. SlotsMatchWaiters'
  BY <1>1, <1>2 DEF KInv, TypeOK, SlotsMatchWaiters
<1>10. OwedByOne'
  <2>1. \A r \in Proc : Handed(r)' = Handed(r)
    BY <1>1, <1>2 DEF KInv, TypeOK, Handed
  <2>2. Handed(q) = {} /\ \A w \in Proc : q \in owed[w] => w = p
    BY <1>1 DEF KInv, OwedByOne, Handed
  <2>3. ASSUME NEW r \in Proc
        PROVE  LET debtors == {w \in Proc : r \in owed'[w]} \cup Handed(r)'
               IN  /\ state'[r] = "REPLY_BLOCKED" <=> debtors # {}
                   /\ \A v, w \in debtors : v = w
                   /\ \A w \in Proc : r \in owed'[w] => w \notin Handed(r)'
    <3>1. CASE r = q
      <4>1. \A w \in Proc : r \notin owed'[w]
        BY <3>1, <2>2, <1>2 DEF KInv, TypeOK
      <4>2. state'[r] # "REPLY_BLOCKED"
        BY <3>1, <1>2 DEF KInv, TypeOK
      <4>3. QED
        BY <3>1, <4>1, <4>2, <2>1, <2>2
    <3>2. CASE r # q
      <4>1. \A w \in Proc : r \in owed'[w] <=> r \in owed[w]
        BY <3>2, <1>2 DEF KInv, TypeOK
      <4>2. state'[r] = state[r]
        BY <3>2, <1>2 DEF KInv, TypeOK
      <4>3. QED
        BY <4>1, <4>2, <2>1 DEF KInv, OwedByOne
    <3>3. QED
      BY <3>1, <3>2
  <2>4. QED
    BY <2>3 DEF OwedByOne
<1>11. SomebodyRuns' /\ PlacesMatch'
  BY <1>1, <1>2, <1>4, KernelAssumption DEF KInv, TypeOK, SomebodyRuns, PlacesMatch
<1>12. ParametersMatch'
  BY <1>1, <1>2 DEF KInv, TypeOK, ParametersMatch
<1>13. QED
  BY <1>5, <1>6, <1>7, <1>8, <1>9, <1>10, <1>11, <1>12 DEF KInv

\* A process opens or closes a port of its own: while it runs it does not wait
\* in receive(), so that no sender is overlooked.
LEMMA PortStep ==
  ASSUME KInv, NEW p \in Proc, NEW o \in Members(ports[p]), open_port(p, o) \/ close_port(p, o)
  PROVE  KInv'
<1>1. /\ p = active_proc /\ state[p] = "READY"
      /\ o \in Port /\ owner[o] = p
  <2>1. o \in Port
    BY KernelAssumption, MembersFacts
  <2>2. QED
    BY <2>1, QueueFacts, KernelAssumption DEF open_port, close_port, Running
<1>2. /\ \E b \in BOOLEAN : open' = [open EXCEPT ![o] = b]
      /\ UNCHANGED <<rq, active_proc, state, param_proc, param_data, blocked,
                     interrupt_table, resume, got, owed, fault>>
  BY DEF open_port, close_port
<1>3. TypeOK'
  BY <1>1, <1>2 DEF KInv, TypeOK
<1>4. ReceiverNotMissed'
  BY <1>1, <1>2 DEF KInv, TypeOK, ReceiverNotMissed
<1>5. OwedByOne'
  <2>1. \A r \in Proc : Handed(r)' = Handed(r)
    BY <1>2 DEF Handed
  <2>2. QED
    BY <1>2, <2>1, OwedKept
<1>6. ReadyIffQueued'
  BY <1>2 DEF KInv, ReadyIffQueued
<1>7. BlockedOnOnePort' /\ SlotsMatchWaiters' /\ ReplyAccepted'
  BY <1>2 DEF KInv, BlockedOnOnePort, SlotsMatchWaiters, ReplyAccepted
<1>8. SomebodyRuns' /\ PlacesMatch' /\ ParametersMatch'
  BY <1>2 DEF KInv, SomebodyRuns, PlacesMatch, ParametersMatch
<1>9. QED
  BY <1>3, <1>4, <1>5, <1>6, <1>7, <1>8 DEF KInv

-------------------------------------------------------------------------------
(* resign(), wait_for_interrupt() and the ISRs.                               *)

\* A step that does no more than give the CPU away.
LEMMA SwitchStep ==
  ASSUME KInv, Switch,
         UNCHANGED <<rq, state, param_proc, param_data, open, blocked,
                     interrupt_table, resume, got, owed, fault>>
  PROVE  KInv'
<1>1. active_proc' \in Queued(rq)
  BY QueueFacts, SwitchFacts
<1>2. fault' \in (Panics \cup {"none"}) \ {"reply(): Not reply blocked"}
  BY DEF KInv, TypeOK, ReplyAccepted
<1>3. QED
  BY <1>1, <1>2, FrameStep

\* resign() changes who runs and nothing else.
LEMMA ResignStep ==
  ASSUME KInv, NEW p \in Proc, resign(p)
  PROVE  KInv'
BY SwitchStep DEF resign

\* wait_for_interrupt() takes a slot that is free, or panics.
LEMMA WaitStep ==
  ASSUME KInv, NEW p \in Proc, p # Boot, NEW x \in Irq, wait_for_interrupt(p, x)
  PROVE  KInv'
<1>1. /\ p = active_proc /\ state[p] = "READY" /\ resume[p] = "user" /\ p \in Queued(rq)
  BY QueueFacts DEF wait_for_interrupt, Running
<1>2. CASE interrupt_table[x] # NULL
  <2>1. panic("wait_for_interrupt(): ISR busy")
    BY <1>2 DEF wait_for_interrupt
  <2>2. QED
    BY <2>1, PanicStep DEF Panics
<1>3. CASE interrupt_table[x] = NULL
  <2>1. /\ interrupt_table' = [interrupt_table EXCEPT ![x] = p]
        /\ rq' = Dequeue(rq, p)
        /\ state' = [state EXCEPT ![p] = "INTR_BLOCKED"]
        /\ resume' = [resume EXCEPT ![p] = x]
        /\ Switch
        /\ UNCHANGED <<param_proc, param_data, open, blocked, got, owed, fault>>
    BY <1>3 DEF wait_for_interrupt
  <2>2. Sound(rq') /\ Queued(rq') = Queued(rq) \ {p}
    BY <1>1, <2>1, QueueFacts, DequeueKeeps
  <2>3. active_proc' \in Queued(rq') /\ active_proc' \in Proc
    BY <2>1, <2>2, QueueFacts, SwitchFacts
  <2>4. TypeOK'
    BY <1>1, <2>1, <2>2, <2>3 DEF KInv, TypeOK, Sound, States
  <2>5. ReadyIffQueued'
    BY <1>1, <2>1, <2>2, QueueFacts, KernelAssumption DEF KInv, TypeOK, ReadyIffQueued, Sound
  <2>6. BlockedOnOnePort'
    BY <1>1, <2>1 DEF KInv, TypeOK, BlockedOnOnePort
  <2>7. ReceiverNotMissed' /\ ReplyAccepted'
    BY <1>1, <2>1, KernelAssumption DEF KInv, TypeOK, ReceiverNotMissed, ReplyAccepted
  <2>8. SlotsMatchWaiters'
    BY <1>1, <1>3, <2>1, KernelAssumption DEF KInv, TypeOK, SlotsMatchWaiters
  <2>9. OwedByOne'
    <3>1. \A r \in Proc : Handed(r)' = Handed(r)
      BY <1>1, <2>1, KernelAssumption DEF KInv, TypeOK, Handed
    <3>2. \A r \in Proc : state'[r] = "REPLY_BLOCKED" <=> state[r] = "REPLY_BLOCKED"
      BY <1>1, <2>1 DEF KInv, TypeOK
    <3>3. QED
      BY <2>1, <3>1, <3>2, OwedKept
  <2>10. SomebodyRuns' /\ PlacesMatch'
    BY <1>1, <2>1, <2>3, KernelAssumption DEF KInv, TypeOK, SomebodyRuns, PlacesMatch
  <2>11. ParametersMatch'
    BY <1>1, <2>1, KernelAssumption DEF KInv, TypeOK, ParametersMatch
  <2>12. QED
    BY <2>4, <2>5, <2>6, <2>7, <2>8, <2>9, <2>10, <2>11 DEF KInv
<1>4. QED
  BY <1>2, <1>3

\* The return of wait_for_interrupt() frees the slot.
LEMMA WaitResumeStep ==
  ASSUME KInv, NEW p \in Proc, wait_resume(p)
  PROVE  KInv'
<1> DEFINE x == resume[p]
<1>1. p = active_proc /\ state[p] = "READY" /\ x \in Irq /\ interrupt_table[x] = p
  BY QueueFacts DEF wait_resume, KInv, SlotsMatchWaiters
<1>2. /\ interrupt_table' = [interrupt_table EXCEPT ![x] = NULL]
      /\ resume' = [resume EXCEPT ![p] = "user"]
      /\ UNCHANGED <<rq, active_proc, state, param_proc, param_data, open, blocked,
                     got, owed, fault>>
  BY DEF wait_resume
<1>3. TypeOK'
  BY <1>1, <1>2 DEF KInv, TypeOK
<1>4. ReadyIffQueued'
  BY <1>1, <1>2, KernelAssumption DEF KInv, TypeOK, ReadyIffQueued
<1>5. BlockedOnOnePort' /\ ReceiverNotMissed' /\ ReplyAccepted'
  BY <1>2 DEF KInv, BlockedOnOnePort, ReceiverNotMissed, ReplyAccepted
<1>6. SlotsMatchWaiters'
  BY <1>1, <1>2, KernelAssumption DEF KInv, TypeOK, SlotsMatchWaiters
<1>7. OwedByOne'
  <2>1. \A r \in Proc : Handed(r)' = Handed(r)
    BY <1>1, <1>2, KernelAssumption DEF KInv, TypeOK, Handed
  <2>2. QED
    BY <1>2, <2>1, OwedKept
<1>8. SomebodyRuns' /\ PlacesMatch'
  BY <1>1, <1>2, KernelAssumption DEF KInv, TypeOK, SomebodyRuns, PlacesMatch
<1>9. ParametersMatch'
  BY <1>1, <1>2 DEF KInv, TypeOK, ParametersMatch
<1>10. QED
  BY <1>3, <1>4, <1>5, <1>6, <1>7, <1>8, <1>9 DEF KInv

\* An ISR wakes the process in its slot, does nothing, or panics.
LEMMA InterruptStep ==
  ASSUME KInv, NEW x \in Irq, interrupt(x)
  PROVE  KInv'
<1>1. CASE Waiting(x)
  <2> DEFINE q == interrupt_table[x]
  <2>1. /\ q \in Proc /\ state[q] = "INTR_BLOCKED" /\ resume[q] = x
        /\ q # Boot /\ q \notin Queued(rq)
    BY <1>1, QueueFacts DEF Waiting, KInv, TypeOK, SlotsMatchWaiters
  <2>2. /\ rq' = Enqueue(rq, q)
        /\ state' = [state EXCEPT ![q] = "READY"]
        /\ Switch
        /\ UNCHANGED <<param_proc, param_data, open, blocked, interrupt_table,
                       resume, got, owed, fault>>
    BY <1>1 DEF interrupt
  <2> HIDE DEF q
  <2>3. Sound(rq') /\ Queued(rq') = Queued(rq) \cup {q}
    BY <2>1, <2>2, QueueFacts, EnqueueKeeps
  <2>4. active_proc' \in Queued(rq') /\ active_proc' \in Proc
    BY <2>2, <2>3, QueueFacts, SwitchFacts
  <2>5. TypeOK'
    BY <2>1, <2>2, <2>3, <2>4 DEF KInv, TypeOK, Sound, States
  <2>6. ReadyIffQueued'
    BY <2>1, <2>2, <2>3, QueueFacts, KernelAssumption
       DEF KInv, TypeOK, ReadyIffQueued, Sound
  <2>7. BlockedOnOnePort'
    BY <2>1, <2>2 DEF KInv, TypeOK, BlockedOnOnePort
  <2>8. ReceiverNotMissed' /\ ReplyAccepted'
    BY <2>1, <2>2, KernelAssumption DEF KInv, TypeOK, ReceiverNotMissed, ReplyAccepted
  <2>9. SlotsMatchWaiters'
    BY <2>1, <2>2 DEF KInv, TypeOK, SlotsMatchWaiters
  <2>10. OwedByOne'
    <3>1. \A r \in Proc : Handed(r)' = Handed(r)
      BY <2>1, <2>2, KernelAssumption DEF KInv, TypeOK, Handed
    <3>2. \A r \in Proc : state'[r] = "REPLY_BLOCKED" <=> state[r] = "REPLY_BLOCKED"
      BY <2>1, <2>2 DEF KInv, TypeOK
    <3>3. QED
      BY <2>2, <3>1, <3>2, OwedKept
  <2>11. SomebodyRuns' /\ PlacesMatch'
    BY <2>1, <2>2, <2>4, KernelAssumption DEF KInv, TypeOK, SomebodyRuns, PlacesMatch
  <2>12. ParametersMatch'
    BY <2>1, <2>2, KernelAssumption DEF KInv, TypeOK, ParametersMatch
  <2>13. QED
    BY <2>5, <2>6, <2>7, <2>8, <2>9, <2>10, <2>11, <2>12 DEF KInv
<1>2. CASE ~Waiting(x) /\ Switch
           /\ UNCHANGED <<rq, state, param_proc, param_data, open, blocked,
                          interrupt_table, resume, got, owed, fault>>
  BY <1>2, SwitchStep
<1>3. CASE panic("service_intr: Spurious interrupt") \/ panic("service_intr: No process waiting")
  BY <1>3, PanicStep DEF Panics
<1>4. QED
  BY <1>1, <1>2, <1>3 DEF interrupt

\* The invariant holds when kernel_main starts, and after every panic.
LEMMA InitKInv == Init => KInv
<1> SUFFICES ASSUME Init PROVE KInv
  OBVIOUS
<1>1. Boot \in Proc /\ \A p \in Proc : p # NULL
  BY KernelAssumption
<1>2. Sound(EmptyQueues) /\ Queued(EmptyQueues) = {}
  BY PriorityAssumption DEF Sound, Queued, EmptyQueues, Queues, NoRepeats, Members
<1>3. Sound(rq) /\ Queued(rq) = {Boot}
  BY <1>1, <1>2, EnqueueKeeps DEF Init
<1>4. TypeOK
  <2>1. rq \in Queues /\ active_proc \in Proc /\ fault \in Panics \cup {"none"}
    BY <1>1, <1>3 DEF Init, Sound
  <2>2. /\ state \in [Proc -> States]
        /\ resume \in [Proc -> {"user", "receive", "new"} \cup Irq]
        /\ owed \in [Proc -> SUBSET Proc]
    BY DEF Init, States
  <2>3. /\ open \in [Port -> BOOLEAN] /\ blocked \in [Port -> Seq(Proc)]
        /\ interrupt_table \in [Irq -> Proc \cup {NULL}]
    BY DEF Init
  <2>4. /\ param_proc \in [Proc -> Proc \cup {NULL}]
        /\ param_data \in [Proc -> Data \cup {NULL}]
        /\ got \in [Proc -> [sender : Proc \cup {NULL}, data : Data \cup {NULL}]]
    BY DEF Init, Nothing
  <2>5. QED
    BY <2>1, <2>2, <2>3, <2>4 DEF TypeOK
<1>5. ReadyIffQueued
  BY <1>3 DEF Init, ReadyIffQueued, Sound
<1>6. BlockedOnOnePort
  BY DEF Init, BlockedOnOnePort, NoRepeats, Members
<1>7. ReceiverNotMissed /\ ReplyAccepted
  BY KernelAssumption DEF Init, ReceiverNotMissed, ReplyAccepted
<1>8. SlotsMatchWaiters
  BY <1>1, KernelAssumption DEF Init, SlotsMatchWaiters
<1>9. OwedByOne
  BY DEF Init, OwedByOne, Handed
<1>10. SomebodyRuns /\ PlacesMatch /\ ParametersMatch
  BY <1>1, <1>3 DEF Init, SomebodyRuns, PlacesMatch, ParametersMatch
<1>11. QED
  BY <1>4, <1>5, <1>6, <1>7, <1>8, <1>9, <1>10 DEF KInv

\* The services of the modules above take steps of their own.
LEMMA StutterStep ==
  ASSUME KInv, UNCHANGED vars
  PROVE  KInv'
<1>1. active_proc' \in Queued(rq)
  BY DEF vars, KInv, SomebodyRuns
<1>2. fault' \in (Panics \cup {"none"}) \ {"reply(): Not reply blocked"}
  BY DEF vars, KInv, TypeOK, ReplyAccepted
<1>3. QED
  BY <1>1, <1>2, FrameStep DEF vars

-------------------------------------------------------------------------------
(* Programs.                                                                  *)

\* The kernel's invariant, and the roles of the processes, which do not change.
PInv == KInv /\ cast \in Casts

\* Who takes which part.
LEMMA CastFacts ==
  ASSUME PInv
  PROVE  /\ cast.clients \subseteq Proc \ {Boot}
         /\ cast.servers \subseteq Proc \ {Boot}
         /\ cast.handlers \subseteq Proc \ {Boot}
         /\ cast.irqs \subseteq Irq
         /\ Boot \in Proc
BY ProgramAssumption, KernelAssumption DEF PInv, Cast

\* Every program that keeps to the conventions keeps the invariant.
LEMMA PInvStep ==
  ASSUME PInv, [Next]_<<vars, cast>>
  PROVE  PInv'
<1> USE CastFacts
<1>1. CASE UNCHANGED <<vars, cast>>
  BY <1>1, StutterStep DEF PInv
<1>2. CASE Next
  <2>1. cast' = cast /\ KInv
    BY <1>2 DEF Next, PInv
  <2>2. ASSUME NEW p \in cast.clients \cup cast.servers \cup cast.handlers,
               create_process(Boot, p)
        PROVE  KInv'
    BY <2>1, <2>2, CreateStep
  <2>3. ASSUME NEW p \in cast.clients, NEW o \in Port, NEW y \in Request, send(p, o, y)
        PROVE  KInv'
    BY <2>1, <2>3, SendStep
  <2>4. ASSUME NEW p \in cast.clients, NEW o \in Port, NEW y \in Note, message(p, o, y)
        PROVE  KInv'
    BY <2>1, <2>4, MessageStep
  <2>5. ASSUME NEW p \in cast.servers,
               receive_pending(p) \/ receive_wait(p) \/ receive_resume(p)
        PROVE  KInv'
    BY <2>1, <2>5, ReceivePendingStep, ReceiveWaitStep, ReceiveResumeStep
  <2>6. ASSUME NEW p \in cast.servers, NEW q \in owed[p], reply(p, q)
        PROVE  KInv'
    BY <2>1, <2>6, ReplyStep
  <2>7. ASSUME NEW p \in cast.servers, NEW o \in Members(ports[p]),
               open_port(p, o) \/ close_port(p, o)
        PROVE  KInv'
    BY <2>1, <2>7, PortStep
  <2>8. ASSUME NEW p \in cast.handlers, NEW x \in cast.irqs, wait_for_interrupt(p, x)
        PROVE  KInv'
    BY <2>1, <2>8, WaitStep
  <2>9. ASSUME NEW p \in cast.handlers, wait_resume(p)
        PROVE  KInv'
    BY <2>1, <2>9, WaitResumeStep
  <2>10. ASSUME NEW p \in Proc, resign(p)
         PROVE  KInv'
    BY <2>1, <2>10, ResignStep
  <2>11. ASSUME NEW x \in cast.irqs, interrupt(x)
         PROVE  KInv'
    BY <2>1, <2>11, InterruptStep
  <2>12. ASSUME halt
         PROVE  KInv'
    BY <2>1, <2>12, StutterStep DEF halt
  <2>13. KInv'
    BY <1>2, <2>2, <2>3, <2>4, <2>5, <2>6, <2>7, <2>8, <2>9, <2>10, <2>11, <2>12 DEF Next
  <2>14. QED
    BY <2>1, <2>13 DEF PInv
<1>3. QED
  BY <1>1, <1>2

\* The invariant holds in every state that the programs and the devices reach.
THEOREM Invariance == Spec => []PInv
<1>1. CastInit => PInv
  BY InitKInv DEF CastInit, PInv
<1>2. PInv /\ [Next]_<<vars, cast>> => PInv'
  BY PInvStep
<1>3. QED
  BY <1>1, <1>2, PTL DEF Spec

\* The fields of the PCBs, ports and tables keep their types, and the system
\* stops only in one of the panics and assertions of ipc.c and intr.c.
THEOREM TypeCorrect == Spec => []TypeOK
<1>1. PInv => TypeOK
  BY DEF PInv, KInv
<1>2. QED
  BY <1>1, Invariance, PTL

\* A process that exists is on the ready queue of its priority, once, exactly
\* when its state field says STATE_READY.
THEOREM ReadyStaysQueued == Spec => []ReadyIffQueued
<1>1. PInv => ReadyIffQueued
  BY DEF PInv, KInv
<1>2. QED
  BY <1>1, Invariance, PTL

\* A blocked sender is in the list of exactly one port, and once.
THEOREM BlockedStaysListed == Spec => []BlockedOnOnePort
<1>1. PInv => BlockedOnOnePort
  BY DEF PInv, KInv
<1>2. QED
  BY <1>1, Invariance, PTL

\* No process waits in receive() while a sender is queued at an open port of
\* its own: no wakeup is lost.
THEOREM NoReceiverMissed == Spec => []ReceiverNotMissed
<1>1. PInv => ReceiverNotMissed
  BY DEF PInv, KInv
<1>2. QED
  BY <1>1, Invariance, PTL

\* The slots of interrupt_table and the processes in wait_for_interrupt()
\* always match.
THEOREM SlotsStayMatched == Spec => []SlotsMatchWaiters
<1>1. PInv => SlotsMatchWaiters
  BY DEF PInv, KInv
<1>2. QED
  BY <1>1, Invariance, PTL

\* A process is REPLY_BLOCKED exactly while one process, and only one, has its
\* request and has not answered.
THEOREM EveryDebtIsOnes == Spec => []OwedByOne
<1>1. PInv => OwedByOne
  BY DEF PInv, KInv
<1>2. QED
  BY <1>1, Invariance, PTL

\* reply() to a received and unanswered request does not panic.
THEOREM RepliesAccepted == Spec => []ReplyAccepted
<1>1. PInv => ReplyAccepted
  BY DEF PInv, KInv
<1>2. QED
  BY <1>1, Invariance, PTL

-------------------------------------------------------------------------------
(* Refinement: the kernel implements Rendezvous.                              *)

\* A list of a port, and what Rendezvous sees of it.
LEMMA PostedFacts ==
  ASSUME KInv, NEW o \in Port
  PROVE  /\ blocked[o] \in Seq(Proc)
         /\ Posted[o] \in Seq([sender : Proc, data : Data \cup {NULL}])
         /\ Len(Posted[o]) = Len(blocked[o])
         /\ Posted[o] = << >> <=> blocked[o] = << >>
         /\ \A k \in 1 .. Len(blocked[o]) :
              /\ blocked[o][k] \in Proc
              /\ Posted[o][k] = [sender |-> blocked[o][k], data |-> param_data[blocked[o][k]]]
<1>1. blocked[o] \in Seq(Proc)
  BY DEF KInv, TypeOK
<1>2. /\ Len(blocked[o]) \in Nat
      /\ \A k \in 1 .. Len(blocked[o]) : blocked[o][k] \in Proc
  BY <1>1
<1>3. Posted[o] = [k \in 1 .. Len(blocked[o]) |->
                     [sender |-> blocked[o][k], data |-> param_data[blocked[o][k]]]]
  BY DEF Posted
<1>4. Posted[o] \in [1 .. Len(blocked[o]) -> [sender : Proc, data : Data \cup {NULL}]]
  BY <1>2, <1>3 DEF KInv, TypeOK
<1>5. /\ Posted[o] \in Seq([sender : Proc, data : Data \cup {NULL}])
      /\ Len(Posted[o]) = Len(blocked[o])
  BY <1>2, <1>3, <1>4
<1>6. Posted[o] = << >> <=> blocked[o] = << >>
  BY <1>1, <1>5
<1>7. QED
  BY <1>1, <1>2, <1>3, <1>5, <1>6

\* A process that runs its own code is not busy.
LEMMA NotBusy ==
  ASSUME KInv, NEW p \in Proc, state[p] = "READY"
  PROVE  ~ Contract!Busy(p)
<1>1. p \notin Listening
  BY DEF Listening
<1>2. ASSUME NEW o \in Port
      PROVE  p \notin Contract!Senders(Posted[o])
  <2>1. p \notin Members(blocked[o])
    BY DEF KInv, BlockedOnOnePort
  <2>2. Len(Posted[o]) = Len(blocked[o])
    BY PostedFacts
  <2>3. ASSUME NEW k \in 1 .. Len(Posted[o])
        PROVE  Posted[o][k].sender \in Members(blocked[o])
    <3>1. Posted[o][k] = [sender |-> blocked[o][k], data |-> param_data[blocked[o][k]]]
      BY <2>2, PostedFacts
    <3>2. QED
      BY <3>1, <2>2 DEF Members
  <2>4. QED
    BY <2>1, <2>3 DEF Contract!Senders
<1>3. ASSUME NEW q \in Proc
      PROVE  p \notin Debts[q]
  <2>1. p \notin owed[q] /\ q \notin Handed(p)
    BY DEF KInv, OwedByOne
  <2>2. QED
    BY <2>1 DEF Debts, Handed, HandedTo
<1>4. QED
  BY <1>1, <1>2, <1>3 DEF Contract!Busy

\* The items posted do not change while the queued senders keep their data.
LEMMA PostedKept ==
  ASSUME KInv, blocked' = blocked,
         \A r \in Proc : state[r] \in {"SEND_BLOCKED", "MESSAGE_BLOCKED"}
                           => param_data'[r] = param_data[r]
  PROVE  Posted' = Posted
<1>1. ASSUME NEW o \in Port, NEW k \in 1 .. Len(blocked[o])
      PROVE  param_data'[blocked[o][k]] = param_data[blocked[o][k]]
  <2>1. blocked[o][k] \in Proc /\ blocked[o][k] \in Members(blocked[o])
    BY PostedFacts DEF Members
  <2>2. QED
    BY <2>1 DEF KInv, BlockedOnOnePort
<1>2. QED
  BY <1>1 DEF Posted

\* What has reached the processes does not change while nothing is handed over
\* and no receive() returns.
LEMMA ReachedKept ==
  ASSUME \A r \in Proc : HandedTo(r)' <=> HandedTo(r),
         \A r \in Proc : HandedTo(r) => /\ param_proc'[r] = param_proc[r]
                                        /\ param_data'[r] = param_data[r],
         got' = got
  PROVE  /\ Reached' = Reached
         /\ owed' = owed => Debts' = Debts
BY DEF Reached, Debts

\* At the beginning nothing is posted and nobody listens.
LEMMA InitContract == Init => Contract!Init
<1> SUFFICES ASSUME Init PROVE Contract!Init
  OBVIOUS
<1>1. Posted = [o \in Port |-> << >>]
  BY DEF Init, Posted
<1>2. Listening = {}
  BY DEF Init, Listening
<1>3. \A q \in Proc : ~ HandedTo(q)
  BY DEF Init, HandedTo
<1>4. /\ Reached = [q \in Proc |-> [sender |-> NULL, data |-> NULL]]
      /\ Debts = [q \in Proc |-> {}]
  BY <1>3 DEF Init, Reached, Debts, Nothing
<1>5. QED
  BY <1>1, <1>2, <1>4 DEF Init, Contract!Init

\* An item goes to a receiver that listens.  b says whether its sender has to
\* wait for an answer.
LEMMA HandOverPosts ==
  ASSUME KInv, NEW p \in Proc, NEW o \in Port, NEW y \in Data,
         state[p] = "READY", resume[p] = "user", Receptive(o),
         param_proc' = [param_proc EXCEPT ![owner[o]] = p],
         \A r \in Proc \ {p, owner[o]} : param_data'[r] = param_data[r],
         param_data'[owner[o]] = y,
         \A r \in Proc \ {p, owner[o]} : state'[r] = state[r],
         state'[owner[o]] = "READY",
         state'[p] \in {"READY", "REPLY_BLOCKED"},
         UNCHANGED <<open, blocked, resume, got, owed>>
  PROVE  Contract!Post(p, o, y)
<1> DEFINE q == owner[o]
           x == [sender |-> p, data |-> y]
<1>1. /\ q \in Proc /\ q # p /\ open[o]
      /\ state[q] = "RECEIVE_BLOCKED" /\ resume[q] = "receive"
  BY KernelAssumption DEF Receptive, KInv, PlacesMatch
<1> HIDE DEF q
<1>2. q \in Listening /\ Listening' = Listening \ {q}
  BY <1>1 DEF Listening, q
<1>3. Posted' = Posted
  BY <1>1, PostedKept DEF q
<1>4. /\ HandedTo(q)' /\ ~ HandedTo(q) /\ ~ HandedTo(p) /\ ~ HandedTo(p)'
      /\ \A r \in Proc \ {p, q} : HandedTo(r)' <=> HandedTo(r)
  BY <1>1 DEF HandedTo, q
<1>5. /\ param_proc'[q] = p /\ param_data'[q] = y
      /\ \A r \in Proc \ {p, q} : /\ param_proc'[r] = param_proc[r]
                                  /\ param_data'[r] = param_data[r]
  BY <1>1 DEF KInv, TypeOK, q
<1>6. Reached' = [Reached EXCEPT ![q] = x]
  <2>1. \A r \in Proc : Reached'[r] = IF r = q THEN x ELSE Reached[r]
    BY <1>1, <1>4, <1>5 DEF Reached
  <2>2. QED
    BY <2>1, <1>1 DEF Reached
<1>7. Debts' = [Debts EXCEPT ![q] = IF y \in Request THEN @ \cup {p} ELSE @]
  <2>1. \A r \in Proc : Debts'[r] = IF r = q /\ y \in Request THEN Debts[r] \cup {p} ELSE Debts[r]
    BY <1>1, <1>4, <1>5 DEF Debts
  <2>2. Debts' = [r \in Proc |-> Debts'[r]] /\ Debts = [r \in Proc |-> Debts[r]]
    BY DEF Debts
  <2>3. CASE y \in Request
    BY <2>1, <2>2, <2>3, <1>1
  <2>4. CASE y \notin Request
    BY <2>1, <2>2, <2>4, <1>1
  <2>5. QED
    BY <2>3, <2>4
<1>8. Contract!Reaches(q, x)
  BY <1>6, <1>7 DEF Contract!Reaches
<1>9. ~ Contract!Busy(p)
  BY NotBusy
<1>10. QED
  BY <1>1, <1>2, <1>3, <1>8, <1>9 DEF Contract!Post, q

\* An item joins the end of the list of a port.
LEMMA JoinPosts ==
  ASSUME KInv, NEW p \in Proc, NEW o \in Port,
         NEW b \in {"SEND_BLOCKED", "MESSAGE_BLOCKED"}, NEW y \in Data,
         Joins(p, o, b, y)
  PROVE  Contract!Post(p, o, y)
<1> DEFINE x == [sender |-> p, data |-> y]
<1>1. /\ state[p] = "READY" /\ resume[p] = "user"
      /\ ~ (open[o] /\ owner[o] \in Listening)
      /\ blocked' = [blocked EXCEPT ![o] = Append(@, p)]
      /\ state' = [state EXCEPT ![p] = b]
      /\ param_data' = [param_data EXCEPT ![p] = y]
      /\ UNCHANGED <<open, param_proc, resume, got, owed>>
  BY QueueFacts DEF Joins, Running, Receptive, Listening, add_to_send_blocked_list
<1>2. Listening' = Listening
  BY <1>1 DEF Listening, KInv, TypeOK
<1>3. \A r \in Proc : HandedTo(r)' <=> HandedTo(r)
  BY <1>1 DEF HandedTo, KInv, TypeOK
<1>4. Reached' = Reached /\ Debts' = Debts
  <2>1. \A r \in Proc : HandedTo(r) => /\ param_proc'[r] = param_proc[r]
                                       /\ param_data'[r] = param_data[r]
    BY <1>1 DEF HandedTo, KInv, TypeOK
  <2>2. QED
    BY <1>1, <1>3, <2>1, ReachedKept
<1>5. /\ blocked' \in [Port -> Seq(Proc)]
      /\ \A u \in Port : u # o => blocked'[u] = blocked[u]
      /\ \A u \in Port : p \notin Members(blocked[u])
  BY <1>1, JoinFacts
<1>6. \A u \in Port, k \in Nat : k \in 1 .. Len(blocked[u]) =>
        blocked[u][k] \in Proc /\ param_data'[blocked[u][k]] = param_data[blocked[u][k]]
  <2> SUFFICES ASSUME NEW u \in Port, NEW k \in 1 .. Len(blocked[u])
               PROVE  blocked[u][k] \in Proc /\ param_data'[blocked[u][k]] = param_data[blocked[u][k]]
    OBVIOUS
  <2>1. blocked[u][k] \in Proc /\ blocked[u][k] # p
    BY <1>5, PostedFacts DEF Members
  <2>2. QED
    BY <2>1, <1>1 DEF KInv, TypeOK
<1>7. Posted' = [Posted EXCEPT ![o] = Append(@, x)]
  <2>1. ASSUME NEW u \in Port, u # o PROVE Posted'[u] = Posted[u]
    BY <2>1, <1>5, <1>6 DEF Posted
  <2>2. Posted'[o] = Append(Posted[o], x)
    <3> DEFINE n == Len(blocked[o])
    <3>1. n \in Nat /\ Len(Posted[o]) = n /\ blocked[o] \in Seq(Proc)
      BY PostedFacts
    <3>2. Posted[o] \in Seq([sender : Proc, data : Data \cup {NULL}])
      BY PostedFacts
    <3>3. x \in [sender : Proc, data : Data \cup {NULL}]
      OBVIOUS
    <3>4. blocked'[o] = Append(blocked[o], p)
      BY <1>1 DEF KInv, TypeOK
    <3>5. /\ Len(blocked'[o]) = n + 1
          /\ blocked'[o][n + 1] = p
          /\ \A k \in 1 .. n : blocked'[o][k] = blocked[o][k]
      BY <3>1, <3>4, AppendProperties
    <3>6. /\ Append(Posted[o], x) \in Seq([sender : Proc, data : Data \cup {NULL}])
          /\ Len(Append(Posted[o], x)) = n + 1
          /\ Append(Posted[o], x)[n + 1] = x
          /\ \A k \in 1 .. n : Append(Posted[o], x)[k] = Posted[o][k]
      BY <3>1, <3>2, <3>3, AppendProperties
    <3>7. Posted'[o] = [k \in 1 .. n + 1 |->
                          [sender |-> blocked'[o][k], data |-> param_data'[blocked'[o][k]]]]
      BY <3>5 DEF Posted
    <3>8. param_data'[p] = y
      BY <1>1 DEF KInv, TypeOK
    <3>9. ASSUME NEW k \in 1 .. n + 1
          PROVE  Append(Posted[o], x)[k]
                   = [sender |-> blocked'[o][k], data |-> param_data'[blocked'[o][k]]]
      <4>1. CASE k = n + 1
        BY <4>1, <3>5, <3>6, <3>8
      <4>2. CASE k \in 1 .. n
        BY <4>2, <3>1, <3>5, <3>6, <1>6, PostedFacts
      <4>3. QED
        BY <4>1, <4>2, <3>1
    <3>10. Append(Posted[o], x) = [k \in 1 .. n + 1 |-> Append(Posted[o], x)[k]]
      BY <3>6
    <3>11. QED
      BY <3>7, <3>9, <3>10
  <2>3. QED
    BY <2>1, <2>2 DEF Posted
<1>8. ~ Contract!Busy(p)
  BY <1>1, NotBusy
<1>9. QED
  BY <1>1, <1>2, <1>4, <1>7, <1>8 DEF Contract!Post

\* send() and message() post: to a receiver that waits, or to the port's list.
LEMMA SendPosts ==
  ASSUME KInv, NEW p \in Proc, NEW o \in Port, NEW y \in Request, send(p, o, y)
  PROVE  Contract!Post(p, o, y)
<1>1. p = active_proc /\ state[p] = "READY" /\ resume[p] = "user"
  BY QueueFacts DEF send, Running
<1>2. CASE Receptive(o)
  <2>1. owner[o] \in Proc /\ owner[o] # p
    BY <1>1, <1>2, KernelAssumption DEF Receptive
  <2>2. /\ param_proc' = [param_proc EXCEPT ![owner[o]] = p]
        /\ param_data' = [param_data EXCEPT ![owner[o]] = y, ![p] = y]
        /\ state' = [state EXCEPT ![p] = "REPLY_BLOCKED", ![owner[o]] = "READY"]
        /\ UNCHANGED <<open, blocked, resume, got, owed>>
    BY <1>2 DEF send
  <2>3. /\ \A r \in Proc \ {p, owner[o]} : param_data'[r] = param_data[r] /\ state'[r] = state[r]
        /\ param_data'[owner[o]] = y /\ state'[owner[o]] = "READY"
        /\ state'[p] = "REPLY_BLOCKED"
    BY <2>1, <2>2 DEF KInv, TypeOK
  <2>4. QED
    BY <1>1, <1>2, <2>2, <2>3, HandOverPosts DEF Data
<1>3. CASE ~Receptive(o)
  <2>1. Joins(p, o, "SEND_BLOCKED", y)
    BY <1>3 DEF send, Joins
  <2>2. QED
    BY <2>1, JoinPosts DEF Data
<1>4. QED
  BY <1>2, <1>3

\* message() posts a note, handed over or queued.
LEMMA MessagePosts ==
  ASSUME KInv, NEW p \in Proc, NEW o \in Port, NEW y \in Note, message(p, o, y)
  PROVE  Contract!Post(p, o, y)
<1>1. p = active_proc /\ state[p] = "READY" /\ resume[p] = "user"
  BY QueueFacts DEF message, Running
<1>2. CASE Receptive(o)
  <2>1. owner[o] \in Proc /\ owner[o] # p
    BY <1>1, <1>2, KernelAssumption DEF Receptive
  <2>2. /\ param_proc' = [param_proc EXCEPT ![owner[o]] = p]
        /\ param_data' = [param_data EXCEPT ![owner[o]] = y]
        /\ state' = [state EXCEPT ![owner[o]] = "READY"]
        /\ UNCHANGED <<open, blocked, resume, got, owed>>
    BY <1>2 DEF message
  <2>3. /\ \A r \in Proc \ {p, owner[o]} : param_data'[r] = param_data[r] /\ state'[r] = state[r]
        /\ param_data'[owner[o]] = y /\ state'[owner[o]] = "READY"
        /\ state'[p] = "READY"
    BY <1>1, <2>1, <2>2 DEF KInv, TypeOK
  <2>4. QED
    BY <1>1, <1>2, <2>2, <2>3, HandOverPosts DEF Data
<1>3. CASE ~Receptive(o)
  <2>1. Joins(p, o, "MESSAGE_BLOCKED", y)
    BY <1>3 DEF message, Joins
  <2>2. QED
    BY <2>1, JoinPosts DEF Data
<1>4. QED
  BY <1>2, <1>3

\* The ports that receive() looks at are those that Rendezvous looks at.
LEMMA SamePorts ==
  ASSUME KInv, NEW p \in Proc
  PROVE  Contract!Ready(p) = Pending(p)
<1>1. \A k \in 1 .. Len(ports[p]) : ports[p][k] \in Port
  BY KernelAssumption
<1>2. \A k \in 1 .. Len(ports[p]) : Posted[ports[p][k]] # << >> <=> blocked[ports[p][k]] # << >>
  BY <1>1, PostedFacts
<1>3. QED
  BY <1>2 DEF Contract!Ready, Pending

\* What Rendezvous sees of a list whose head leaves.
LEMMA HeadLeaves ==
  ASSUME KInv, NEW o \in Port, blocked[o] # << >>,
         blocked' = [blocked EXCEPT ![o] = Tail(@)], param_data' = param_data
  PROVE  /\ Posted' = [Posted EXCEPT ![o] = Tail(@)]
         /\ Head(Posted[o]) = [sender |-> Head(blocked[o]), data |-> param_data[Head(blocked[o])]]
<1> DEFINE n == Len(blocked[o])
<1>1. /\ n \in Nat /\ Len(Posted[o]) = n /\ blocked[o] \in Seq(Proc)
      /\ Posted[o] \in Seq([sender : Proc, data : Data \cup {NULL}])
      /\ Posted[o] # << >> /\ n >= 1 /\ n - 1 \in Nat
  <2>1. /\ blocked[o] \in Seq(Proc) /\ Len(Posted[o]) = n
        /\ Posted[o] \in Seq([sender : Proc, data : Data \cup {NULL}])
        /\ Posted[o] # << >>
    BY PostedFacts
  <2>2. n \in Nat /\ n # 0
    BY <2>1
  <2>3. QED
    BY <2>1, <2>2
<1>2. Head(Posted[o]) = Posted[o][1] /\ Head(blocked[o]) = blocked[o][1]
  BY <1>1
<1>3. Head(Posted[o]) = [sender |-> Head(blocked[o]), data |-> param_data[Head(blocked[o])]]
  BY <1>1, <1>2, PostedFacts
<1>4. ASSUME NEW u \in Port, u # o PROVE Posted'[u] = Posted[u]
  <2>1. blocked'[u] = blocked[u]
    BY <1>4 DEF KInv, TypeOK
  <2>2. QED
    BY <2>1 DEF Posted
<1>5. Posted'[o] = Tail(Posted[o])
  <2>1. blocked'[o] = Tail(blocked[o])
    BY DEF KInv, TypeOK
  <2>2. /\ Len(blocked'[o]) = n - 1
        /\ \A k \in 1 .. n - 1 : blocked'[o][k] = blocked[o][k + 1]
    BY <1>1, <2>1, HeadTailProperties
  <2>3. /\ Tail(Posted[o]) \in Seq([sender : Proc, data : Data \cup {NULL}])
        /\ Len(Tail(Posted[o])) = n - 1
        /\ \A k \in 1 .. n - 1 : Tail(Posted[o])[k] = Posted[o][k + 1]
    BY <1>1, HeadTailProperties
  <2>4. Posted'[o] = [k \in 1 .. n - 1 |->
                        [sender |-> blocked'[o][k], data |-> param_data[blocked'[o][k]]]]
    BY <2>2 DEF Posted
  <2>5. ASSUME NEW k \in 1 .. n - 1
        PROVE  Tail(Posted[o])[k]
                 = [sender |-> blocked'[o][k], data |-> param_data[blocked'[o][k]]]
    <3>1. k + 1 \in 1 .. n
      BY <1>1
    <3>2. QED
      BY <3>1, <2>2, <2>3, PostedFacts
  <2>6. Tail(Posted[o]) = [k \in 1 .. n - 1 |-> Tail(Posted[o])[k]]
    <3>1. \A s \in Seq([sender : Proc, data : Data \cup {NULL}]) : s = [k \in 1 .. Len(s) |-> s[k]]
      OBVIOUS
    <3>2. QED
      BY <2>3, <3>1
  <2>7. QED
    BY <2>4, <2>5, <2>6
<1>6. Posted' = [u \in Port |-> Posted'[u]] /\ Posted = [u \in Port |-> Posted[u]]
  BY DEF Posted
<1>7. QED
  BY <1>3, <1>4, <1>5, <1>6

\* receive() with a sender queued takes the oldest item.
LEMMA ReceiveTakes ==
  ASSUME KInv, NEW p \in Proc, receive_pending(p)
  PROVE  Contract!Take(p)
<1> DEFINE o == FirstPending(p)
           x == Head(blocked[o])
<1>1. /\ state[p] = "READY" /\ resume[p] = "user" /\ Pending(p) # {}
  BY QueueFacts DEF receive_pending, Running
<1>2. /\ o \in Port /\ blocked[o] # << >>
      /\ x \in Proc /\ state[x] \in {"SEND_BLOCKED", "MESSAGE_BLOCKED"}
  BY <1>1, PendingFacts
<1>3. /\ Return(p, x, param_data[x])
      /\ blocked' = [blocked EXCEPT ![o] = Tail(@)]
      /\ Accept(x)
      /\ UNCHANGED <<param_proc, param_data, open, resume>>
  BY DEF receive_pending
<1>4. PICK k \in Pending(p) : o = ports[p][k] /\ \A j \in Pending(p) : k <= j
  <2>1. Pending(p) \in SUBSET Nat
    BY DEF Pending
  <2>2. \E k \in Pending(p) : \A j \in Pending(p) : k <= j
    BY <1>1, <2>1, LeastExists
  <2>3. QED
    BY <2>2 DEF FirstPending
<1> HIDE DEF o, x
<1>5. resume[x] = "user" /\ x # p
  BY <1>1, <1>2 DEF KInv, PlacesMatch
<1>6. \A r \in Proc : r # x => state'[r] = state[r]
  BY <1>3 DEF Accept, KInv, TypeOK
<1>7. Listening' = Listening
  <2>1. state[x] # "RECEIVE_BLOCKED" /\ state'[x] # "RECEIVE_BLOCKED"
    BY <1>2, <1>3 DEF Accept, KInv, TypeOK
  <2>2. QED
    BY <2>1, <1>6 DEF Listening
<1>8. /\ \A r \in Proc : HandedTo(r)' <=> HandedTo(r)
      /\ ~ HandedTo(p)
  BY <1>1, <1>3, <1>5, <1>6 DEF HandedTo
<1>9. /\ Posted' = [Posted EXCEPT ![o] = Tail(@)]
      /\ Head(Posted[o]) = [sender |-> x, data |-> param_data[x]]
  BY <1>2, <1>3, HeadLeaves DEF x
<1>10. Contract!Reaches(p, Head(Posted[o]))
  <2>1. /\ got' = [got EXCEPT ![p] = [sender |-> x, data |-> param_data[x]]]
        /\ owed' = [owed EXCEPT ![p] = IF param_data[x] \in Request THEN @ \cup {x} ELSE @]
    BY <1>3 DEF Return
  <2>2. /\ \A r \in Proc : Reached'[r] = IF r = p THEN [sender |-> x, data |-> param_data[x]]
                                                   ELSE Reached[r]
        /\ Reached' = [r \in Proc |-> Reached'[r]] /\ Reached = [r \in Proc |-> Reached[r]]
    BY <2>1, <1>3, <1>8 DEF Reached, KInv, TypeOK
  <2>3. \A r \in Proc : Debts'[r] = IF r = p /\ param_data[x] \in Request
                                     THEN Debts[r] \cup {x} ELSE Debts[r]
    BY <2>1, <1>3, <1>8 DEF Debts, KInv, TypeOK
  <2>4. Debts' = [r \in Proc |-> Debts'[r]] /\ Debts = [r \in Proc |-> Debts[r]]
    BY DEF Debts
  <2>5. Debts' = [Debts EXCEPT ![p] = IF param_data[x] \in Request THEN @ \cup {x} ELSE @]
    <3>1. CASE param_data[x] \in Request
      BY <3>1, <2>3, <2>4
    <3>2. CASE param_data[x] \notin Request
      BY <3>2, <2>3, <2>4
    <3>3. QED
      BY <3>1, <3>2
  <2>6. Reached' = [Reached EXCEPT ![p] = [sender |-> x, data |-> param_data[x]]]
    BY <2>2
  <2>7. Head(Posted[o]).sender = x /\ Head(Posted[o]).data = param_data[x]
    BY <1>9
  <2>8. QED
    BY <2>5, <2>6, <2>7, <1>9 DEF Contract!Reaches
<1>11. ~ Contract!Busy(p)
  BY <1>1, NotBusy
<1>12. k \in Contract!Ready(p) /\ \A j \in Contract!Ready(p) : k <= j
  BY <1>4, SamePorts
<1>13. QED
  BY <1>3, <1>4, <1>7, <1>9, <1>10, <1>11, <1>12 DEF Contract!Take

\* receive() with nothing to take listens, or panics for want of a port.
LEMMA ReceiveListens ==
  ASSUME KInv, NEW p \in Proc, receive_wait(p)
  PROVE  Contract!Listen(p) \/ UNCHANGED Contract!vars
<1>1. state[p] = "READY" /\ resume[p] = "user"
  BY QueueFacts DEF receive_wait, Running
<1>2. CASE ports[p] = << >>
  <2>1. UNCHANGED <<open, blocked, param_proc, param_data, resume, state, got, owed>>
    BY <1>2 DEF receive_wait, panic
  <2>2. Posted' = Posted /\ Listening' = Listening
    BY <2>1 DEF Posted, Listening
  <2>3. \A r \in Proc : HandedTo(r)' <=> HandedTo(r)
    BY <2>1 DEF HandedTo
  <2>4. QED
    BY <2>1, <2>2, <2>3, ReachedKept DEF Contract!vars
<1>3. CASE ports[p] # << >>
  <2>1. /\ Pending(p) = {}
        /\ param_data' = [param_data EXCEPT ![p] = NULL]
        /\ state' = [state EXCEPT ![p] = "RECEIVE_BLOCKED"]
        /\ resume' = [resume EXCEPT ![p] = "receive"]
        /\ UNCHANGED <<param_proc, open, blocked, got, owed>>
    BY <1>3 DEF receive_wait
  <2>2. Listening' = Listening \cup {p}
    BY <2>1 DEF Listening, KInv, TypeOK
  <2>3. /\ \A r \in Proc : r # p => param_data'[r] = param_data[r]
        /\ \A r \in Proc : HandedTo(r)' <=> HandedTo(r)
        /\ ~ HandedTo(p)
    BY <1>1, <2>1 DEF HandedTo, KInv, TypeOK
  <2>4. Posted' = Posted
    BY <1>1, <2>1, <2>3, PostedKept
  <2>5. Reached' = Reached /\ Debts' = Debts
    BY <2>1, <2>3, ReachedKept
  <2>6. Contract!Ready(p) = {} /\ ~ Contract!Busy(p)
    BY <1>1, <2>1, SamePorts, NotBusy
  <2>7. QED
    BY <2>1, <2>2, <2>4, <2>5, <2>6 DEF Contract!Listen
<1>4. QED
  BY <1>2, <1>3

\* On its return receive() reports what had already reached the process.
LEMMA ReturnShows ==
  ASSUME KInv, NEW p \in Proc, receive_resume(p)
  PROVE  UNCHANGED Contract!vars
<1>1. p = active_proc /\ state[p] = "READY" /\ resume[p] = "receive"
  BY QueueFacts DEF receive_resume
<1>2. /\ got' = [got EXCEPT ![p] = [sender |-> param_proc[p], data |-> param_data[p]]]
      /\ owed' = [owed EXCEPT ![p] = IF param_data[p] \in Request
                                     THEN @ \cup {param_proc[p]} ELSE @]
      /\ resume' = [resume EXCEPT ![p] = "user"]
      /\ UNCHANGED <<state, param_proc, param_data, open, blocked>>
  BY DEF receive_resume, Return
<1>3. Posted' = Posted /\ Listening' = Listening
  BY <1>2 DEF Posted, Listening
<1>4. /\ HandedTo(p) /\ ~ HandedTo(p)'
      /\ \A r \in Proc : r # p => (HandedTo(r)' <=> HandedTo(r))
  BY <1>1, <1>2 DEF HandedTo, KInv, TypeOK
<1>5. \A r \in Proc : Reached'[r] = Reached[r] /\ Debts'[r] = Debts[r]
  <2>1. ASSUME NEW r \in Proc, r # p
        PROVE  Reached'[r] = Reached[r] /\ Debts'[r] = Debts[r]
    BY <2>1, <1>2, <1>4 DEF Reached, Debts, KInv, TypeOK
  <2>2. Reached'[p] = Reached[p]
    BY <1>2, <1>4 DEF Reached, KInv, TypeOK
  <2>3. Debts'[p] = Debts[p]
    BY <1>2, <1>4 DEF Debts, KInv, TypeOK
  <2>4. QED
    BY <2>1, <2>2, <2>3
<1>6. Reached' = Reached /\ Debts' = Debts
  <2>1. /\ Reached' = [r \in Proc |-> Reached'[r]] /\ Reached = [r \in Proc |-> Reached[r]]
        /\ Debts' = [r \in Proc |-> Debts'[r]] /\ Debts = [r \in Proc |-> Debts[r]]
    BY DEF Reached, Debts
  <2>2. QED
    BY <1>5, <2>1
<1>7. QED
  BY <1>2, <1>3, <1>6 DEF Contract!vars

\* reply() to a process whose request was received answers it.
LEMMA ReplyAnswers ==
  ASSUME KInv, NEW p \in Proc, NEW q \in owed[p], reply(p, q)
  PROVE  Contract!Answer(p, q)
<1>1. /\ state[p] = "READY" /\ resume[p] = "user"
      /\ q \in Proc /\ state[q] = "REPLY_BLOCKED" /\ resume[q] = "user"
  <2>1. q \in Proc
    BY DEF KInv, TypeOK
  <2>2. state[q] = "REPLY_BLOCKED"
    BY <2>1 DEF KInv, OwedByOne
  <2>3. QED
    BY <2>1, <2>2, QueueFacts DEF reply, Running, KInv, PlacesMatch
<1>2. /\ state' = [state EXCEPT ![q] = "READY"]
      /\ owed' = [owed EXCEPT ![p] = @ \ {q}]
      /\ UNCHANGED <<param_proc, param_data, open, blocked, resume, got>>
  BY <1>1 DEF reply
<1>3. Listening' = Listening
  BY <1>1, <1>2 DEF Listening, KInv, TypeOK
<1>4. Posted' = Posted
  BY <1>2 DEF Posted
<1>5. (\A r \in Proc : HandedTo(r)' <=> HandedTo(r)) /\ ~ HandedTo(p)
  BY <1>1, <1>2 DEF HandedTo, KInv, TypeOK
<1>6. Reached' = Reached
  BY <1>2, <1>5, ReachedKept
<1>7. Debts' = [Debts EXCEPT ![p] = @ \ {q}]
  <2>1. \A r \in Proc : Debts'[r] = IF r = p THEN Debts[r] \ {q} ELSE Debts[r]
    BY <1>2, <1>5 DEF Debts, KInv, TypeOK
  <2>2. Debts' = [r \in Proc |-> Debts'[r]] /\ Debts = [r \in Proc |-> Debts[r]]
    BY DEF Debts
  <2>3. QED
    BY <2>1, <2>2
<1>8. q \in Debts[p]
  BY <1>5 DEF Debts
<1>9. ~ Contract!Busy(p)
  BY <1>1, NotBusy
<1>10. QED
  BY <1>2, <1>3, <1>4, <1>6, <1>7, <1>8, <1>9 DEF Contract!Answer

\* The owner of a port opens or closes it while it is not busy.
LEMMA OwnerSets ==
  ASSUME KInv, NEW p \in Proc, NEW o \in Members(ports[p]), open_port(p, o) \/ close_port(p, o)
  PROVE  o \in Port /\ Contract!SetOpen(p, o)
<1>1. o \in Port /\ owner[o] = p
  <2>1. o \in Port
    BY KernelAssumption, MembersFacts
  <2>2. QED
    BY <2>1, KernelAssumption
<1>2. state[p] = "READY"
  BY QueueFacts DEF open_port, close_port, Running
<1>3. /\ \E b \in BOOLEAN : open' = [open EXCEPT ![o] = b]
      /\ UNCHANGED <<state, param_proc, param_data, blocked, resume, got, owed>>
  BY DEF open_port, close_port
<1>4. Posted' = Posted /\ Listening' = Listening
  BY <1>3 DEF Posted, Listening
<1>5. \A r \in Proc : HandedTo(r)' <=> HandedTo(r)
  BY <1>3 DEF HandedTo
<1>6. Reached' = Reached /\ Debts' = Debts
  BY <1>3, <1>5, ReachedKept
<1>7. ~ Contract!Busy(p)
  BY <1>2, NotBusy
<1>8. QED
  BY <1>1, <1>3, <1>4, <1>6, <1>7 DEF Contract!SetOpen

\* The rest of the kernel does not show: a step that leaves ports, parameters
\* and results alone, and starts or ends no receive().
LEMMA ContractUnseen ==
  ASSUME KInv,
         UNCHANGED <<param_proc, param_data, open, blocked, got, owed>>,
         \A r \in Proc : state'[r] = "RECEIVE_BLOCKED" <=> state[r] = "RECEIVE_BLOCKED",
         \A r \in Proc : HandedTo(r)' <=> HandedTo(r)
  PROVE  UNCHANGED Contract!vars
<1>1. Posted' = Posted /\ Listening' = Listening
  BY DEF Posted, Listening
<1>2. QED
  BY <1>1, ReachedKept DEF Contract!vars

\* Creation, scheduling and interrupts do not touch messages.
LEMMA ContractUnseenSteps ==
  ASSUME KInv, NEW p \in Proc,
         \/ create_process(Boot, p)
         \/ resign(p)
         \/ \E x \in Irq : wait_for_interrupt(p, x) \/ interrupt(x)
         \/ wait_resume(p)
         \/ halt
  PROVE  UNCHANGED Contract!vars
<1> USE DEF KInv, TypeOK
<1>1. CASE resign(p) \/ halt
  <2>1. UNCHANGED <<state, resume, param_proc, param_data, open, blocked, got, owed>>
    BY <1>1 DEF resign, halt, vars
  <2>2. QED
    BY <2>1, ContractUnseen DEF HandedTo
<1>2. CASE create_process(Boot, p)
  <2>1. /\ resume[p] = "new" /\ resume' = [resume EXCEPT ![p] = "user"]
        /\ UNCHANGED <<state, param_proc, param_data, open, blocked, got, owed>>
    BY <1>2 DEF create_process
  <2>2. QED
    BY <2>1, ContractUnseen DEF HandedTo
<1>3. ASSUME NEW x \in Irq, wait_for_interrupt(p, x)
      PROVE  UNCHANGED Contract!vars
  <2>1. state[p] = "READY" /\ resume[p] = "user"
    BY <1>3, QueueFacts DEF wait_for_interrupt, Running
  <2>2. UNCHANGED <<param_proc, param_data, open, blocked, got, owed>>
    BY <1>3 DEF wait_for_interrupt, panic
  <2>3. \/ UNCHANGED <<state, resume>>
        \/ /\ state' = [state EXCEPT ![p] = "INTR_BLOCKED"]
           /\ resume' = [resume EXCEPT ![p] = x]
    BY <1>3 DEF wait_for_interrupt, panic
  <2>4. /\ \A r \in Proc : r # p => state'[r] = state[r] /\ resume'[r] = resume[r]
        /\ state'[p] # "RECEIVE_BLOCKED" /\ resume'[p] # "receive"
    BY <2>1, <2>3, KernelAssumption
  <2>5. QED
    BY <2>1, <2>2, <2>4, ContractUnseen DEF HandedTo
<1>4. CASE wait_resume(p)
  <2>1. /\ resume[p] \in Irq /\ resume' = [resume EXCEPT ![p] = "user"]
        /\ UNCHANGED <<state, param_proc, param_data, open, blocked, got, owed>>
    BY <1>4 DEF wait_resume
  <2>2. QED
    BY <2>1, KernelAssumption, ContractUnseen DEF HandedTo
<1>5. ASSUME NEW x \in Irq, interrupt(x)
      PROVE  UNCHANGED Contract!vars
  <2>1. UNCHANGED <<resume, param_proc, param_data, open, blocked, got, owed>>
    BY <1>5 DEF interrupt, panic
  <2>2. CASE Waiting(x)
    <3>1. PICK q \in Proc : q = interrupt_table[x] /\ state[q] = "INTR_BLOCKED"
      BY <2>2, KernelAssumption DEF Waiting
    <3>2. resume[q] = x /\ x # "receive"
      BY <3>1, KernelAssumption DEF SlotsMatchWaiters
    <3>3. state' = [state EXCEPT ![q] = "READY"]
      BY <1>5, <2>2, <3>1 DEF interrupt
    <3>4. QED
      BY <2>1, <3>1, <3>2, <3>3, ContractUnseen DEF HandedTo
  <2>3. CASE ~ Waiting(x)
    <3>1. UNCHANGED state
      BY <1>5, <2>3 DEF interrupt, panic
    <3>2. QED
      BY <2>1, <3>1, ContractUnseen DEF HandedTo
  <2>4. QED
    BY <2>2, <2>3
<1>6. QED
  BY <1>1, <1>2, <1>3, <1>4, <1>5

\* Every step of the kernel is a step of Rendezvous or does not show there.
LEMMA ContractStep ==
  ASSUME PInv, [Next]_<<vars, cast>>
  PROVE  [Contract!Next]_(Contract!vars)
<1> USE CastFacts
<1>1. CASE UNCHANGED <<vars, cast>>
  BY <1>1 DEF vars, Contract!vars, Posted, Listening, Reached, Debts, HandedTo
<1>2. CASE Next
  <2>1. KInv
    BY DEF PInv
  <2>2. ASSUME NEW p \in cast.clients, NEW o \in Port, NEW y \in Request, send(p, o, y)
        PROVE  Contract!Next
    BY <2>1, <2>2, SendPosts DEF Contract!Next
  <2>3. ASSUME NEW p \in cast.clients, NEW o \in Port, NEW y \in Note, message(p, o, y)
        PROVE  Contract!Next
    BY <2>1, <2>3, MessagePosts DEF Contract!Next
  <2>4. ASSUME NEW p \in cast.servers, receive_pending(p)
        PROVE  Contract!Next
    BY <2>1, <2>4, ReceiveTakes DEF Contract!Next
  <2>5. ASSUME NEW p \in cast.servers, receive_wait(p)
        PROVE  Contract!Next \/ UNCHANGED Contract!vars
    BY <2>1, <2>5, ReceiveListens DEF Contract!Next
  <2>6. ASSUME NEW p \in cast.servers, receive_resume(p)
        PROVE  UNCHANGED Contract!vars
    BY <2>1, <2>6, ReturnShows
  <2>7. ASSUME NEW p \in cast.servers, NEW q \in owed[p], reply(p, q)
        PROVE  Contract!Next
    <3>1. q \in Proc
      BY <2>1 DEF KInv, TypeOK
    <3>2. QED
      BY <2>1, <2>7, <3>1, ReplyAnswers DEF Contract!Next
  <2>8. ASSUME NEW p \in cast.servers, NEW o \in Members(ports[p]),
               open_port(p, o) \/ close_port(p, o)
        PROVE  Contract!Next
    BY <2>1, <2>8, OwnerSets DEF Contract!Next
  <2>9. ASSUME NEW p \in Proc, create_process(Boot, p) \/ resign(p) \/ wait_resume(p)
        PROVE  UNCHANGED Contract!vars
    BY <2>1, <2>9, ContractUnseenSteps
  <2>10. ASSUME NEW p \in Proc, NEW x \in cast.irqs, wait_for_interrupt(p, x) \/ interrupt(x)
         PROVE  UNCHANGED Contract!vars
    BY <2>1, <2>10, ContractUnseenSteps
  <2>11. CASE halt
    BY <2>1, <2>11, ContractUnseenSteps
  <2>12. QED
    BY <1>2, <2>2, <2>3, <2>4, <2>5, <2>6, <2>7, <2>8, <2>9, <2>10, <2>11 DEF Next
<1>3. QED
  BY <1>1, <1>2

\* The kernel keeps the promise of ipc.c to its callers: whatever the programs
\* do, and however many they are, messages and requests behave as Rendezvous.
THEOREM RendezvousImplemented == Spec => ImplementsRendezvous
<1>1. CastInit => Contract!Init
  BY InitContract DEF CastInit
<1>2. PInv /\ [Next]_<<vars, cast>> => [Contract!Next]_(Contract!vars)
  BY ContractStep
<1>3. QED
  BY <1>1, <1>2, Invariance, PTL DEF Spec, ImplementsRendezvous, Contract!Spec
=============================================================================
