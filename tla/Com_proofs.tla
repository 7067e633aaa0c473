------------------------------- MODULE Com_proofs -------------------------------
(* The serial line with one client, as when only the train program or only the *)
(* shell sends commands to the train: each command gets its own answer, whole  *)
(* and in order, and nothing panics.  The steps of com.c use the lemmas of     *)
(* Kernel_proofs about the calls they make.                                    *)
EXTENDS Com, Kernel_proofs

client == CHOOSE p \in Client : TRUE

\* What the proofs below assume of the constants.
OneClient == ComAssumption /\ Client = {client}

-------------------------------------------------------------------------------
(* The inductive invariant.                                                    *)

PlacesOK ==
  /\ pc \in [{com, com_reader} -> {"start", "first", "tell", "write", "second", "answer",
                                   "loop", "waiting", "store"}]
  /\ pc[com] \in {"start", "first", "tell", "write", "second", "answer"}
  /\ pc[com_reader] \in {"start", "loop", "waiting", "store"}
  /\ cmd \in Nat
  /\ i \in Nat
  /\ input_buffer \in [Client -> Seq(Nat)]

\* An item has been handed to p, which has not run since.
HasItem(p) == resume[p] = "receive" /\ state[p] = "READY"

\* com_process has taken a command that it has still to answer.
Serving == pc[com] \in {"tell", "write", "second", "answer"}

\* The job is with the reader, or on its way to it or back.
JobPosted == state[com] = "MESSAGE_BLOCKED"
Collecting == pc[com_reader] \in {"loop", "waiting", "store"}
DonePosted == state[com_reader] = "MESSAGE_BLOCKED"
DoneHanded == pc[com] = "second" /\ HasItem(com)
ReaderBusy == HasItem(com_reader) \/ Collecting \/ DonePosted

\* Who calls what, and from where.
Roles ==
  /\ \A p \in Proc :
       /\ state[p] \in {"SEND_BLOCKED", "REPLY_BLOCKED"} => p = client
       /\ state[p] = "MESSAGE_BLOCKED" =>
            \/ p = com /\ pc[com] = "write" /\ cmd > 0
            \/ p = com_reader /\ pc[com_reader] = "start"
       /\ resume[p] = "receive" =>
            \/ p = com /\ pc[com] \in {"first", "second"}
            \/ p = com_reader /\ pc[com_reader] = "start"
       /\ resume[p] \in Irq =>
            p = com_reader /\ pc[com_reader] = "waiting" /\ resume[p] = COM1_IRQ
       /\ owed[p] = IF p = com /\ Serving THEN {client} ELSE {}
  /\ pc[com_reader] = "waiting" => resume[com_reader] = COM1_IRQ
  /\ pc[com_reader] \in {"loop", "store"} =>
       resume[com_reader] = "user" /\ state[com_reader] = "READY"
  /\ \A o \in Port \ {com_port, reader_port} : blocked[o] = << >>
  /\ Members(blocked[com_port]) \subseteq {client, com_reader}
  /\ Members(blocked[reader_port]) \subseteq {com}

TheJob == Job(client, param_data[client][2])

\* The order of the client and what is made of it keep their values on their
\* way through the parameters and the results of receive().
Items ==
  /\ param_data[client] \in Request \cup {NULL}
  /\ state[client] # "READY" => param_data[client] \in Request
  /\ pc[com] = "first" /\ HasItem(com) =>
       param_proc[com] = client /\ param_data[com] = param_data[client]
  /\ DoneHanded => param_proc[com] = com_reader /\ param_data[com] = Done
  /\ JobPosted => param_data[com] = TheJob
  /\ HasItem(com_reader) => param_data[com_reader] = TheJob
  /\ DonePosted => param_data[com_reader] = Done
  /\ pc[com] \in {"tell", "write"} => got[com].data = param_data[client]
  /\ Serving => sender_proc = client
  /\ Collecting => got[com_reader].data = TheJob
  /\ pc[com] = "answer" => got[com] = [sender |-> com_reader, data |-> Done]

\* While a command is being answered the job is in exactly one place.
Turns ==
  /\ pc[com] \in {"write", "second"} <=> JobPosted \/ ReaderBusy \/ DoneHanded
  /\ ~ (ReaderBusy /\ (JobPosted \/ DoneHanded))

Upto(n) == [k \in 1 .. n |-> k]
Rest(j, n) == [k \in 1 .. n - j |-> j + k]

\* The bytes in the buffer of the client.
Stored == IF JobPosted \/ HasItem(com_reader) THEN 0
          ELSE IF Collecting THEN i ELSE param_data[client][2]

Silent == answer = << >> /\ uart \in {NULL, << >>}

\* The line has still to give the bytes from the j-th on: the command is being
\* written, its last character is being sent, or the device answers.
Line(j, n) ==
  \/ pc[com] = "write" /\ cmd > 0 /\ j = 0 /\ Silent
  \/ cmd = 0 /\ j = 0 /\ answer = << >> /\ uart = Upto(n)
  \/ cmd = 0 /\ answer = Rest(j, n) /\ uart \in {NULL, << >>}

\* The buffer and the line together hold the answer.
Progress ==
  /\ pc[com] \in {"start", "first", "tell"} =>
       Silent /\ (state[client] # "READY" => input_buffer[client] = << >>)
  /\ pc[com] \in {"write", "second", "answer"} =>
       /\ Stored \in 0 .. param_data[client][2]
       /\ input_buffer[client] = Upto(Stored)
       /\ Line(Stored, param_data[client][2])
  /\ pc[com_reader] = "store" \/ (pc[com_reader] = "waiting" /\ state[com_reader] = "READY")
       => answer # << >>
  /\ pc[com] \in {"second", "answer"} => cmd = 0

NeverPanics == fault = "none"

CInv ==
  /\ OneClient
  /\ KInv
  /\ NeverPanics
  /\ PlacesOK
  /\ Roles
  /\ Items
  /\ Turns
  /\ Progress
  /\ AnswerComplete
  /\ SecondIsReader

-------------------------------------------------------------------------------
(* What the constants and the invariant say.                                   *)

\* What the assumptions give for the constants.
LEMMA ComConstants ==
  ASSUME OneClient
  PROVE  /\ client \in Proc /\ com \in Proc /\ com_reader \in Proc
         /\ client # Boot /\ com # Boot /\ com_reader # Boot
         /\ client # com /\ client # com_reader /\ com # com_reader
         /\ Client = {client}
         /\ com_port \in Port /\ reader_port \in Port /\ com_port # reader_port
         /\ owner[com_port] = com /\ owner[reader_port] = com_reader
         /\ \A y \in Request : y[1] = client /\ y[2] \in Nat /\ Job(client, y[2]) \in Note
         /\ \A n \in Nat : Job(client, n)[1] = client /\ Job(client, n)[2] = n
         /\ \A n \in Lens : Order(client, n) \in Request
         /\ Done \in Note /\ NULL \notin Data /\ NULL \notin Request /\ NULL \notin Proc
         /\ Request \cap Note = {}
         /\ CmdLen \in Nat /\ CmdLen > 0
         /\ COM1_IRQ \in Irq
<1>1. ComAssumption /\ Client = {client}
  BY DEF OneClient
<1>2. Client \subseteq Proc \ {Boot, com, com_reader} /\ client \in Client
  BY <1>1 DEF ComAssumption
<1>3. ASSUME NEW y \in Request
      PROVE  y[1] = client /\ y[2] \in Nat /\ Job(client, y[2]) \in Note
  <2>1. PICK n \in Lens : y = Order(client, n)
    BY <1>1 DEF ComAssumption
  <2>2. y[1] = client /\ y[2] = n
    BY <2>1 DEF Order
  <2>3. n \in Nat /\ Job(client, n) \in Note
    BY <1>1 DEF ComAssumption
  <2>4. QED
    BY <2>2, <2>3
<1>4. \A n \in Lens : Order(client, n) \in Request
  BY <1>1 DEF ComAssumption
<1>5. /\ Done \in Note /\ NULL \notin Data /\ NULL \notin Request /\ NULL \notin Proc
      /\ Request \cap Note = {}
  <2>1. Done \in Note
    BY <1>1 DEF ComAssumption
  <2>2. QED
    BY <2>1, KernelAssumption DEF Data
<1>6. /\ com \in Proc \ {Boot} /\ com_reader \in Proc \ {Boot, com}
      /\ com_port \in Port /\ owner[com_port] = com
      /\ reader_port \in Port /\ owner[reader_port] = com_reader
      /\ CmdLen \in Nat \ {0} /\ COM1_IRQ \in Irq
  BY <1>1 DEF ComAssumption
<1>7. \A n \in Nat : Job(client, n)[1] = client /\ Job(client, n)[2] = n
  BY DEF Job
<1>8. com_port # reader_port
  BY <1>6
<1>9. QED
  BY <1>1, <1>2, <1>3, <1>4, <1>5, <1>6, <1>7, <1>8

\* Both processes have a port to receive from.
LEMMA HavePorts ==
  ASSUME OneClient
  PROVE  ports[com] # << >> /\ ports[com_reader] # << >>
<1>1. com_port \in Members(ports[com]) /\ reader_port \in Members(ports[com_reader])
  BY ComConstants, KernelAssumption
<1>2. QED
  BY <1>1 DEF Members

\* Where the client, com and com_reader can be.
LEMMA PlaceFacts ==
  ASSUME CInv
  PROVE  /\ state[client] \in {"READY", "SEND_BLOCKED", "REPLY_BLOCKED"}
         /\ resume[client] \in {"new", "user"}
         /\ state[client] = "SEND_BLOCKED" <=> client \in Members(blocked[com_port])
         /\ state[client] = "REPLY_BLOCKED" <=>
              Serving \/ (pc[com] = "first" /\ HasItem(com))
         /\ state[com] \in {"READY", "RECEIVE_BLOCKED", "MESSAGE_BLOCKED"}
         /\ state[com] = "RECEIVE_BLOCKED" => resume[com] = "receive"
         /\ state[com] = "MESSAGE_BLOCKED" => resume[com] = "user"
         /\ state[com] = "MESSAGE_BLOCKED" <=> com \in Members(blocked[reader_port])
         /\ state[com_reader] \in {"READY", "RECEIVE_BLOCKED", "MESSAGE_BLOCKED", "INTR_BLOCKED"}
         /\ state[com_reader] = "RECEIVE_BLOCKED" => resume[com_reader] = "receive"
         /\ state[com_reader] = "INTR_BLOCKED" => resume[com_reader] = COM1_IRQ
         /\ state[com_reader] = "MESSAGE_BLOCKED" => resume[com_reader] = "user"
         /\ state[com_reader] = "MESSAGE_BLOCKED" <=> com_reader \in Members(blocked[com_port])
         /\ resume[com] \in {"new", "user", "receive"}
         /\ resume[com_reader] \in {"new", "user", "receive", COM1_IRQ}
<1>1. /\ TypeOK /\ BlockedOnOnePort /\ OwedByOne /\ PlacesMatch /\ SlotsMatchWaiters
      /\ Roles /\ Items /\ OneClient
  BY DEF CInv, KInv
<1> USE <1>1, ComConstants
<1>2. ASSUME NEW p \in Proc
      PROVE  /\ state[p] \in States /\ resume[p] \in {"user", "receive", "new"} \cup Irq
             /\ state[p] = "INTR_BLOCKED" => resume[p] \in Irq
             /\ state[p] = "RECEIVE_BLOCKED" => resume[p] = "receive"
             /\ state[p] \in {"SEND_BLOCKED", "MESSAGE_BLOCKED", "REPLY_BLOCKED"}
                  => resume[p] = "user"
  <2>1. state[p] \in States /\ resume[p] \in {"user", "receive", "new"} \cup Irq
    BY DEF TypeOK
  <2>2. QED
    BY <2>1 DEF PlacesMatch, SlotsMatchWaiters
<1>3. Irq \cap {"user", "receive", "new"} = {}
  BY KernelAssumption
<1>4. /\ state[client] \in {"READY", "SEND_BLOCKED", "REPLY_BLOCKED"}
      /\ resume[client] \in {"new", "user"}
  BY <1>2, <1>3 DEF States, Roles
<1>5. /\ state[com] \in {"READY", "RECEIVE_BLOCKED", "MESSAGE_BLOCKED"}
      /\ resume[com] \in {"new", "user", "receive"}
  BY <1>2, <1>3 DEF States, Roles
<1>6. /\ state[com_reader] \in {"READY", "RECEIVE_BLOCKED", "MESSAGE_BLOCKED", "INTR_BLOCKED"}
      /\ resume[com_reader] \in {"new", "user", "receive", COM1_IRQ}
  BY <1>2, <1>3 DEF States, Roles
<1>7. \A p \in Proc : state[p] \in {"SEND_BLOCKED", "MESSAGE_BLOCKED"} <=>
                        p \in Members(blocked[com_port]) \/ p \in Members(blocked[reader_port])
  <2>1. \A o \in Port \ {com_port, reader_port} : Members(blocked[o]) = {}
    BY DEF Roles, Members
  <2>2. QED
    BY <2>1 DEF BlockedOnOnePort
<1>8. /\ state[client] = "SEND_BLOCKED" <=> client \in Members(blocked[com_port])
      /\ state[com] = "MESSAGE_BLOCKED" <=> com \in Members(blocked[reader_port])
      /\ state[com_reader] = "MESSAGE_BLOCKED" <=> com_reader \in Members(blocked[com_port])
  BY <1>4, <1>5, <1>6, <1>7 DEF Roles
<1>9. state[client] = "REPLY_BLOCKED" <=> Serving \/ (pc[com] = "first" /\ HasItem(com))
  <2>1. \A q \in Proc : client \in owed[q] <=> q = com /\ Serving
    BY DEF Roles
  <2>2. ASSUME NEW q \in Handed(client) PROVE q = com
    <3>1. q \in Proc /\ resume[q] = "receive" /\ state[q] = "READY"
      BY DEF Handed
    <3>2. q = com_reader => client \in owed[com]
      BY <3>1, <2>1 DEF CInv, Turns, ReaderBusy, HasItem, Serving
    <3>3. QED
      BY <3>1, <3>2 DEF Roles, OwedByOne
  <2>3. com \in Handed(client) <=> pc[com] = "first" /\ HasItem(com)
    <3>1. HasItem(com) => param_proc[com] \in Proc /\ param_data[com] \in Data
      BY DEF HasItem, CInv, KInv, ParametersMatch
    <3>2. HasItem(com) => pc[com] \in {"first", "second"}
      BY DEF HasItem, Roles
    <3>3. pc[com] = "first" /\ HasItem(com) => param_proc[com] = client /\ param_data[com] \in Request
      BY <3>1, ComConstants DEF Items, Data
    <3>4. pc[com] = "second" /\ HasItem(com) => param_data[com] \notin Request
      BY DEF Items, DoneHanded
    <3>5. QED
      BY <3>2, <3>3, <3>4 DEF Handed, HasItem
  <2>4. QED
    BY <2>1, <2>2, <2>3 DEF OwedByOne
<1>10. QED
  BY <1>2, <1>3, <1>4, <1>5, <1>6, <1>8, <1>9

\* The bytes of an answer.
LEMMA ByteFacts ==
  /\ Upto(0) = << >>
  /\ \A n \in Nat : /\ Upto(n) \in Seq(Nat)
                    /\ Rest(0, n) = Upto(n) /\ << >> \o Upto(n) = Upto(n)
  /\ \A n \in Nat, j \in Nat : j <= n =>
       /\ Rest(j, n) = << >> <=> j = n
       /\ Rest(j, n) \in Seq(Nat)
       /\ j < n => /\ Head(Rest(j, n)) = j + 1
                   /\ Tail(Rest(j, n)) = Rest(j + 1, n)
  /\ \A j \in Nat : Append(Upto(j), j + 1) = Upto(j + 1)
<1>1. Upto(0) = << >>
  BY DEF Upto
<1>2. ASSUME NEW n \in Nat
      PROVE  Upto(n) \in Seq(Nat) /\ Len(Upto(n)) = n
  BY DEF Upto
<1>3. ASSUME NEW n \in Nat
      PROVE  Rest(0, n) = Upto(n)
  BY DEF Upto, Rest
<1>4. ASSUME NEW n \in Nat
      PROVE  << >> \o Upto(n) = Upto(n)
  BY <1>2
<1>5. ASSUME NEW n \in Nat, NEW j \in Nat, j <= n
      PROVE  /\ Rest(j, n) = << >> <=> j = n
             /\ Rest(j, n) \in Seq(Nat) /\ Len(Rest(j, n)) = n - j
  <2>1. n - j \in Nat
    BY <1>5
  <2>2. Rest(j, n) \in [1 .. n - j -> Nat]
    BY <2>1 DEF Rest
  <2>3. Rest(j, n) \in Seq(Nat) /\ Len(Rest(j, n)) = n - j
    BY <2>1, <2>2
  <2>4. Rest(j, n) = << >> <=> Len(Rest(j, n)) = 0
    BY <2>3
  <2>5. QED
    BY <1>5, <2>3, <2>4
<1>6. ASSUME NEW n \in Nat, NEW j \in Nat, j < n
      PROVE  Head(Rest(j, n)) = j + 1 /\ Tail(Rest(j, n)) = Rest(j + 1, n)
  <2>1. n - j \in Nat /\ n - j >= 1 /\ n - (j + 1) = (n - j) - 1 /\ j + 1 <= n
    BY <1>6
  <2>2. /\ Rest(j, n) \in Seq(Nat) /\ Len(Rest(j, n)) = n - j
        /\ Rest(j + 1, n) \in Seq(Nat) /\ Len(Rest(j + 1, n)) = (n - j) - 1
    <3>1. j <= n /\ j + 1 \in Nat
      BY <2>1
    <3>2. Rest(j, n) \in Seq(Nat) /\ Len(Rest(j, n)) = n - j
      BY <1>5, <3>1
    <3>3. Rest(j + 1, n) \in Seq(Nat) /\ Len(Rest(j + 1, n)) = n - (j + 1)
      BY <1>5, <3>1, <2>1
    <3>4. QED
      BY <3>2, <3>3, <2>1
  <2>3. \A k \in 1 .. n - j : Rest(j, n)[k] = j + k
    BY DEF Rest
  <2>4. Rest(j, n) # << >> /\ Head(Rest(j, n)) = j + 1
    BY <2>1, <2>2, <2>3
  <2>5. /\ Tail(Rest(j, n)) \in Seq(Nat) /\ Len(Tail(Rest(j, n))) = (n - j) - 1
        /\ \A k \in 1 .. (n - j) - 1 : Tail(Rest(j, n))[k] = Rest(j, n)[k + 1]
    BY <2>1, <2>2, <2>4
  <2>6. ASSUME NEW k \in 1 .. (n - j) - 1
        PROVE  Tail(Rest(j, n))[k] = Rest(j + 1, n)[k]
    <3>1. k + 1 \in 1 .. n - j /\ k \in 1 .. n - (j + 1)
      BY <2>1
    <3>2. Rest(j + 1, n)[k] = (j + 1) + k
      BY <3>1 DEF Rest
    <3>3. QED
      BY <2>3, <2>5, <3>1, <3>2
  <2>7. Tail(Rest(j, n)) = Rest(j + 1, n)
    <3> DEFINE s == Tail(Rest(j, n))
               t == Rest(j + 1, n)
    <3>1. s \in Seq(Nat) /\ t \in Seq(Nat) /\ Len(s) = Len(t)
      BY <2>2, <2>5
    <3>2. \A k \in 1 .. Len(s) : s[k] = t[k]
      BY <2>5, <2>6
    <3> HIDE DEF s, t
    <3>3. s = t
      BY <3>1, <3>2
    <3>4. QED
      BY <3>3 DEF s, t
  <2>8. QED
    BY <2>4, <2>7
<1>7. ASSUME NEW j \in Nat
      PROVE  Append(Upto(j), j + 1) = Upto(j + 1)
  <2>1. /\ Upto(j) \in Seq(Nat) /\ Len(Upto(j)) = j
        /\ Upto(j + 1) \in Seq(Nat) /\ Len(Upto(j + 1)) = j + 1
    BY <1>2
  <2>2. /\ Append(Upto(j), j + 1) \in Seq(Nat) /\ Len(Append(Upto(j), j + 1)) = j + 1
        /\ \A k \in 1 .. j + 1 : Append(Upto(j), j + 1)[k] = IF k = j + 1 THEN j + 1 ELSE Upto(j)[k]
    BY <2>1
  <2>3. \A k \in 1 .. j + 1 : Append(Upto(j), j + 1)[k] = Upto(j + 1)[k]
    BY <2>2 DEF Upto
  <2>4. QED
    BY <2>1, <2>2, <2>3
<1>8. QED
  BY <1>1, <1>2, <1>3, <1>4, <1>5, <1>6, <1>7

\* Nothing is stored at first, and nothing is left at the end.
LEMMA NothingLeft == Upto(0) = << >> /\ \A n \in Nat : Rest(n, n) = << >>
<1>1. ASSUME NEW n \in Nat PROVE Rest(n, n) = << >>
  <2>1. n <= n
    OBVIOUS
  <2>2. Rest(n, n) = << >> <=> n = n
    BY <2>1, ByteFacts
  <2>3. QED
    BY <2>2
<1>2. QED
  BY <1>1, ByteFacts

-------------------------------------------------------------------------------
(* Steps that do not concern an exchange.                                      *)

\* Creation, the start of com_process, and resign().
LEMMA QuietStep ==
  ASSUME CInv, KInv', fault' = "none",
         UNCHANGED <<state, param_proc, param_data, blocked, got, owed, sender_proc, cmd, i,
                     input_buffer, line>>,
         \A p \in Proc : resume'[p] = resume[p] \/ (resume[p] = "new" /\ resume'[p] = "user"),
         pc' = pc \/ (pc[com] = "start" /\ pc' = [pc EXCEPT ![com] = "first"])
  PROVE  CInv'
<1>1. OneClient /\ OneClient'
  BY DEF CInv, OneClient, ComAssumption, client
<1> USE <1>1, ComConstants
<1>2. /\ pc \in [{com, com_reader} -> {"start", "first", "tell", "write", "second", "answer",
                                   "loop", "waiting", "store"}]
      /\ pc'[com_reader] = pc[com_reader]
      /\ pc'[com] = pc[com] \/ (pc[com] = "start" /\ pc'[com] = "first")
  BY DEF CInv, PlacesOK
<1>3. PlacesOK'
  BY <1>2 DEF CInv, PlacesOK
<1>4. \A p \in Proc : /\ resume'[p] = "receive" <=> resume[p] = "receive"
                      /\ resume[p] \in Irq \/ resume'[p] \in Irq => resume'[p] = resume[p]
                      /\ resume[p] = "user" => resume'[p] = "user"
  BY KernelAssumption
<1>5. Roles'
  <2>1. Roles
    BY DEF CInv
  <2>2. Serving' <=> Serving
    BY <1>2 DEF Serving
  <2>3. ASSUME NEW p \in Proc
        PROVE  /\ state'[p] \in {"SEND_BLOCKED", "REPLY_BLOCKED"} => p = client
               /\ state'[p] = "MESSAGE_BLOCKED" =>
                    \/ p = com /\ pc'[com] = "write" /\ cmd' > 0
                    \/ p = com_reader /\ pc'[com_reader] = "start"
               /\ resume'[p] = "receive" =>
                    \/ p = com /\ pc'[com] \in {"first", "second"}
                    \/ p = com_reader /\ pc'[com_reader] = "start"
               /\ resume'[p] \in Irq =>
                    p = com_reader /\ pc'[com_reader] = "waiting" /\ resume'[p] = COM1_IRQ
               /\ owed'[p] = IF p = com /\ Serving' THEN {client} ELSE {}
    BY <1>2, <1>4, <2>1, <2>2 DEF Roles
  <2>4. /\ pc'[com_reader] = "waiting" => resume'[com_reader] = COM1_IRQ
        /\ pc'[com_reader] \in {"loop", "store"} =>
             resume'[com_reader] = "user" /\ state'[com_reader] = "READY"
    BY <1>2, <1>4, <2>1 DEF Roles
  <2>5. QED
    BY <2>1, <2>3, <2>4 DEF Roles
<1>6. /\ HasItem(com)' <=> HasItem(com)
      /\ HasItem(com_reader)' <=> HasItem(com_reader)
      /\ Collecting' <=> Collecting
      /\ DoneHanded' <=> DoneHanded
      /\ JobPosted' <=> JobPosted
      /\ ReaderBusy' <=> ReaderBusy
      /\ DonePosted' <=> DonePosted
      /\ Serving' <=> Serving
      /\ HasItem(com) => pc'[com] = pc[com]
  BY <1>2, <1>4 DEF CInv, Roles, HasItem, Collecting, DoneHanded, JobPosted, ReaderBusy, DonePosted, Serving
<1>7. Items'
  BY <1>2, <1>6 DEF CInv, Items, TheJob
<1>8. Turns'
  BY <1>2, <1>6 DEF CInv, Turns
<1>9. Progress'
  <2>1. Stored' = Stored /\ (Silent' <=> Silent)
    BY <1>6 DEF Stored, Silent, line
  <2>2. QED
    BY <1>2, <2>1 DEF CInv, Progress, Line, Silent, line
<1>10. AnswerComplete' /\ SecondIsReader'
  BY <1>2 DEF CInv, AnswerComplete, SecondIsReader
<1>11. QED
  BY <1>3, <1>5, <1>7, <1>8, <1>9, <1>10 DEF CInv, NeverPanics

\* send(com_port, &msg)
LEMMA RequestStep ==
  ASSUME CInv, NEW n \in Lens, request(client, n)
  PROVE  CInv'
<1> DEFINE y == Order(client, n)
<1>1. OneClient /\ OneClient' /\ KInv
  BY DEF CInv, OneClient, ComAssumption, client
<1> USE <1>1, ComConstants
<1>2. y \in Request /\ y \in Data
  BY DEF Data
<1> HIDE DEF y
<1>3. /\ send(client, com_port, y)
      /\ input_buffer' = [input_buffer EXCEPT ![client] = << >>]
      /\ UNCHANGED <<pc, sender_proc, cmd, i, line>>
  BY DEF request, y
<1>4. KInv'
  BY <1>2, <1>3, SendStep
<1>5. /\ state[client] = "READY" /\ resume[client] = "user" /\ fault' = "none"
      /\ resume' = resume /\ got' = got /\ owed' = owed
  BY <1>3, QueueFacts DEF send, Running, CInv, NeverPanics
<1>6. /\ pc[com] \in {"start", "first"} /\ ~ (pc[com] = "first" /\ HasItem(com))
      /\ ~ Serving
  BY <1>5, PlaceFacts DEF CInv, PlacesOK, Serving
<1>7. ~ JobPosted /\ ~ ReaderBusy /\ ~ DoneHanded
  BY <1>6 DEF CInv, Turns
<1>8. state \in [Proc -> States] /\ param_data \in [Proc -> Data \cup {NULL}]
      /\ param_proc \in [Proc -> Proc \cup {NULL}]
  BY DEF KInv, TypeOK
<1>9. \/ /\ state[com] = "RECEIVE_BLOCKED" /\ blocked' = blocked
         /\ state' = [state EXCEPT ![client] = "REPLY_BLOCKED", ![com] = "READY"]
         /\ param_proc' = [param_proc EXCEPT ![com] = client]
         /\ param_data' = [param_data EXCEPT ![com] = y, ![client] = y]
      \/ /\ state' = [state EXCEPT ![client] = "SEND_BLOCKED"]
         /\ blocked' = [blocked EXCEPT ![com_port] = Append(@, client)]
         /\ param_proc' = param_proc
         /\ param_data' = [param_data EXCEPT ![client] = y]
  BY <1>3 DEF send, Receptive, add_to_send_blocked_list
<1>10. /\ \A p \in Proc \ {client, com} :
            state'[p] = state[p] /\ param_data'[p] = param_data[p] /\ param_proc'[p] = param_proc[p]
       /\ param_data'[client] = y
       /\ \/ /\ state[com] = "RECEIVE_BLOCKED" /\ state'[com] = "READY"
             /\ state'[client] = "REPLY_BLOCKED"
             /\ param_proc'[com] = client /\ param_data'[com] = y
          \/ /\ state'[com] = state[com]
             /\ state'[client] = "SEND_BLOCKED"
             /\ param_proc'[com] = param_proc[com] /\ param_data'[com] = param_data[com]
  BY <1>8, <1>9
<1>11. /\ \A o \in Port \ {com_port} : blocked'[o] = blocked[o]
       /\ Members(blocked'[com_port]) \subseteq Members(blocked[com_port]) \cup {client}
  <2>1. blocked \in [Port -> Seq(Proc)]
    BY DEF KInv, TypeOK
  <2>2. Members(Append(blocked[com_port], client)) = Members(blocked[com_port]) \cup {client}
    BY <2>1, AppendKeeps
  <2>3. QED
    BY <2>1, <2>2, <1>9
<1>12. PlacesOK'
  BY <1>3 DEF CInv, PlacesOK
<1>13. Roles'
  <2>1. Roles
    BY DEF CInv
  <2>2. ASSUME NEW p \in Proc
        PROVE  /\ state'[p] \in {"SEND_BLOCKED", "REPLY_BLOCKED"} => p = client
               /\ state'[p] = "MESSAGE_BLOCKED" =>
                    \/ p = com /\ pc'[com] = "write" /\ cmd' > 0
                    \/ p = com_reader /\ pc'[com_reader] = "start"
               /\ resume'[p] = "receive" =>
                    \/ p = com /\ pc'[com] \in {"first", "second"}
                    \/ p = com_reader /\ pc'[com_reader] = "start"
               /\ resume'[p] \in Irq =>
                    p = com_reader /\ pc'[com_reader] = "waiting" /\ resume'[p] = COM1_IRQ
               /\ owed'[p] = IF p = com /\ Serving' THEN {client} ELSE {}
    BY <1>3, <1>5, <1>10, <2>1 DEF Roles, Serving
  <2>3. /\ pc'[com_reader] = "waiting" => resume'[com_reader] = COM1_IRQ
        /\ pc'[com_reader] \in {"loop", "store"} =>
             resume'[com_reader] = "user" /\ state'[com_reader] = "READY"
    BY <1>3, <1>5, <1>10, <2>1 DEF Roles
  <2>4. /\ \A o \in Port \ {com_port, reader_port} : blocked'[o] = << >>
        /\ Members(blocked'[com_port]) \subseteq {client, com_reader}
        /\ Members(blocked'[reader_port]) \subseteq {com}
    BY <1>11, <2>1 DEF Roles
  <2>5. QED
    BY <2>2, <2>3, <2>4 DEF Roles
<1>14. ~ JobPosted' /\ ~ ReaderBusy' /\ ~ DoneHanded' /\ ~ Serving'
  BY <1>3, <1>5, <1>6, <1>7, <1>10 DEF JobPosted, ReaderBusy, DoneHanded, HasItem, Collecting, DonePosted, Serving
<1>15. Turns'
  BY <1>14 DEF Turns, Serving
<1>16. Items'
  <2>1. pc'[com] = "first" /\ HasItem(com)' => param_proc'[com] = client /\ param_data'[com] = y
    BY <1>3, <1>5, <1>6, <1>10 DEF HasItem
  <2>2. QED
    BY <1>2, <1>10, <1>14, <2>1 DEF Items, ReaderBusy, Serving
<1>17. Progress'
  <2>1. input_buffer'[client] = << >>
    BY <1>3 DEF CInv, PlacesOK
  <2>2. Silent'
    BY <1>3, <1>6 DEF CInv, Progress, Silent, line
  <2>3. QED
    BY <1>3, <1>6, <1>14, <2>1, <2>2 DEF Progress, ReaderBusy, Collecting, Serving
<1>18. AnswerComplete' /\ SecondIsReader'
  BY <1>3, <1>6, <1>10 DEF AnswerComplete, SecondIsReader
<1>19. QED
  BY <1>4, <1>5, <1>12, <1>13, <1>15, <1>16, <1>17, <1>18 DEF CInv, NeverPanics

-------------------------------------------------------------------------------
(* The steps of com_process.                                                   *)

\* What com finds at its port.
LEMMA AtComPort ==
  ASSUME CInv, Pending(com) # {}
  PROVE  /\ FirstPending(com) = com_port
         /\ Head(blocked[com_port]) \in {client, com_reader}
         /\ Head(blocked[com_port]) \in Members(blocked[com_port])
         /\ Members(Tail(blocked[com_port])) =
              Members(blocked[com_port]) \ {Head(blocked[com_port])}
<1>1. OneClient /\ KInv /\ Roles
  BY DEF CInv
<1>2. /\ FirstPending(com) \in Port /\ owner[FirstPending(com)] = com
      /\ blocked[FirstPending(com)] # << >>
  BY <1>1, ComConstants, PendingFacts
<1>3. FirstPending(com) = com_port
  BY <1>1, <1>2, ComConstants DEF Roles
<1>4. QED
  BY <1>1, <1>3, ComConstants, PendingFacts DEF Roles

\* receive() with nothing to take.
LEMMA ComWaits ==
  ASSUME CInv, pc[com] \in {"first", "second"}, receive_wait(com),
         UNCHANGED <<pc, sender_proc, cmd, i, input_buffer, line>>
  PROVE  CInv'
<1>1. OneClient /\ OneClient' /\ KInv
  BY DEF CInv, OneClient, ComAssumption, client
<1> USE <1>1, ComConstants
<1>2. KInv'
  BY ReceiveWaitStep
<1>3. /\ state[com] = "READY" /\ resume[com] = "user"
  BY QueueFacts DEF receive_wait, Running
<1>4. /\ state' = [state EXCEPT ![com] = "RECEIVE_BLOCKED"]
      /\ resume' = [resume EXCEPT ![com] = "receive"]
      /\ param_data' = [param_data EXCEPT ![com] = NULL]
      /\ UNCHANGED <<param_proc, blocked, got, owed>> /\ fault' = "none"
  BY HavePorts DEF receive_wait, CInv, NeverPanics
<1>5. /\ \A p \in Proc \ {com} : state'[p] = state[p] /\ resume'[p] = resume[p]
                                 /\ param_data'[p] = param_data[p]
      /\ state'[com] = "RECEIVE_BLOCKED" /\ resume'[com] = "receive"
  BY <1>4 DEF KInv, TypeOK
<1>6. PlacesOK'
  BY DEF CInv, PlacesOK
<1>7. Serving' <=> Serving
  BY DEF Serving
<1>8. Roles'
  <2>1. Roles
    BY DEF CInv
  <2>2. "receive" \notin Irq
    BY KernelAssumption
  <2>3. ASSUME NEW p \in Proc
        PROVE  /\ state'[p] \in {"SEND_BLOCKED", "REPLY_BLOCKED"} => p = client
               /\ state'[p] = "MESSAGE_BLOCKED" =>
                    \/ p = com /\ pc'[com] = "write" /\ cmd' > 0
                    \/ p = com_reader /\ pc'[com_reader] = "start"
               /\ resume'[p] = "receive" =>
                    \/ p = com /\ pc'[com] \in {"first", "second"}
                    \/ p = com_reader /\ pc'[com_reader] = "start"
               /\ resume'[p] \in Irq =>
                    p = com_reader /\ pc'[com_reader] = "waiting" /\ resume'[p] = COM1_IRQ
               /\ owed'[p] = IF p = com /\ Serving' THEN {client} ELSE {}
    BY <1>3, <1>4, <1>5, <1>7, <2>1, <2>2, ZenonT(40) DEF Roles
  <2>4. QED
    BY <1>4, <1>5, <2>1, <2>3 DEF Roles
<1>9. /\ ~ JobPosted /\ ~ JobPosted' /\ ~ DoneHanded /\ ~ DoneHanded' /\ ~ HasItem(com)'
      /\ HasItem(com_reader)' <=> HasItem(com_reader)
      /\ ReaderBusy' <=> ReaderBusy
      /\ Collecting' <=> Collecting
      /\ DonePosted' <=> DonePosted
  BY <1>3, <1>5 DEF JobPosted, DoneHanded, HasItem, ReaderBusy, Collecting, DonePosted
<1>10. Items'
  BY <1>4, <1>5, <1>7, <1>9 DEF CInv, Items, TheJob
<1>11. Turns'
  BY <1>9 DEF CInv, Turns
<1>12. Progress'
  <2>1. Stored' = Stored
    BY <1>5, <1>9 DEF Stored
  <2>2. QED
    BY <1>5, <2>1 DEF CInv, Progress, Line, Silent, line
<1>13. AnswerComplete' /\ SecondIsReader'
  BY <1>4, <1>5 DEF CInv, AnswerComplete, SecondIsReader
<1>14. QED
  BY <1>2, <1>4, <1>6, <1>8, <1>10, <1>11, <1>12, <1>13 DEF CInv, NeverPanics

\* What both forms of a receive() of com that takes something have in common.
Taken(x, y) ==
  /\ UNCHANGED <<param_proc, param_data, cmd, i, input_buffer, line>>
  /\ fault' = "none"
  /\ resume'[com] = "user" /\ state'[com] = "READY"
  /\ \A p \in Proc \ {com} : resume'[p] = resume[p]
  /\ \A p \in Proc \ {x, com} : state'[p] = state[p]
  /\ \A p \in Proc \ {com} : got'[p] = got[p] /\ owed'[p] = owed[p]
  /\ got'[com] = [sender |-> x, data |-> y]
  /\ owed'[com] = IF y \in Request THEN owed[com] \cup {x} ELSE owed[com]
  /\ \A o \in Port \ {com_port} : blocked'[o] = blocked[o]
  /\ Members(blocked'[com_port]) \subseteq Members(blocked[com_port])

\* The order of the client, either queued or handed over.
LEMMA FirstTakes ==
  ASSUME CInv, pc[com] = "first", receive_pending(com) \/ receive_resume(com),
         UNCHANGED <<cmd, i, input_buffer, line>>
  PROVE  /\ Taken(client, param_data[client])
         /\ param_data[client] \in Request
         /\ state[client] # "READY" /\ state'[client] = "REPLY_BLOCKED"
         /\ state[com] = "READY"
<1>1. OneClient /\ KInv
  BY DEF CInv
<1> USE <1>1, ComConstants
<1>2. state[com] = "READY"
  BY QueueFacts DEF receive_pending, receive_resume, Running
<1>3. /\ state \in [Proc -> States] /\ resume \in [Proc -> {"user", "receive", "new"} \cup Irq]
      /\ got \in [Proc -> [sender : Proc \cup {NULL}, data : Data \cup {NULL}]]
      /\ owed \in [Proc -> SUBSET Proc]
      /\ blocked \in [Port -> Seq(Proc)]
  BY DEF KInv, TypeOK
<1>4. CASE receive_pending(com)
  <2> DEFINE x == Head(blocked[com_port])
  <2>1. /\ Return(com, x, param_data[x])
        /\ blocked' = [blocked EXCEPT ![com_port] = Tail(@)]
        /\ Accept(x)
        /\ UNCHANGED <<param_proc, param_data, resume, fault>>
        /\ resume[com] = "user" /\ fault = "none"
    BY <1>4, AtComPort DEF receive_pending, Running
  <2>2. x = client /\ state[x] = "SEND_BLOCKED"
    <3>1. x \in {client, com_reader} /\ x \in Members(blocked[com_port])
      BY <1>4, AtComPort DEF receive_pending
    <3>2. ~ DonePosted
      BY DEF CInv, Turns, ReaderBusy
    <3>3. QED
      BY <3>1, <3>2, PlaceFacts DEF DonePosted
  <2>3. state' = [state EXCEPT ![client] = "REPLY_BLOCKED"]
    BY <2>1, <2>2 DEF Accept
  <2>4. param_data[client] \in Request
    BY <2>2 DEF CInv, Items
  <2>5. /\ \A o \in Port \ {com_port} : blocked'[o] = blocked[o]
        /\ Members(blocked'[com_port]) \subseteq Members(blocked[com_port])
    BY <1>3, <1>4, <2>1, AtComPort DEF receive_pending
  <2>6. /\ got' = [got EXCEPT ![com] = [sender |-> client, data |-> param_data[client]]]
        /\ owed' = [owed EXCEPT ![com] = owed[com] \cup {client}]
    BY <1>3, <2>1, <2>2, <2>4 DEF Return
  <2>7. QED
    BY <1>2, <1>3, <2>1, <2>2, <2>3, <2>4, <2>5, <2>6 DEF Taken
<1>5. CASE receive_resume(com)
  <2>1. /\ Return(com, param_proc[com], param_data[com])
        /\ resume' = [resume EXCEPT ![com] = "user"]
        /\ UNCHANGED <<state, param_proc, param_data, blocked, fault>>
        /\ resume[com] = "receive" /\ fault = "none"
    BY <1>5 DEF receive_resume
  <2>2. HasItem(com)
    BY <1>2, <2>1 DEF HasItem
  <2>3. state[client] = "REPLY_BLOCKED"
    BY <2>2, PlaceFacts
  <2>4. /\ param_proc[com] = client /\ param_data[com] = param_data[client]
        /\ param_data[client] \in Request
    BY <2>2, <2>3 DEF CInv, Items
  <2>5. /\ got' = [got EXCEPT ![com] = [sender |-> client, data |-> param_data[client]]]
        /\ owed' = [owed EXCEPT ![com] = owed[com] \cup {client}]
    BY <1>3, <2>1, <2>4 DEF Return
  <2>6. QED
    BY <1>2, <1>3, <2>1, <2>3, <2>4, <2>5 DEF Taken
<1>6. QED
  BY <1>4, <1>5

\* The message of the reader, either queued or handed over.
LEMMA SecondTakes ==
  ASSUME CInv, pc[com] = "second", receive_pending(com) \/ receive_resume(com),
         UNCHANGED <<cmd, i, input_buffer, line>>
  PROVE  /\ Taken(com_reader, Done)
         /\ ~ Collecting /\ ~ HasItem(com_reader) /\ ~ JobPosted
         /\ state'[com_reader] \in {"READY", "RECEIVE_BLOCKED", "INTR_BLOCKED"}
         /\ state[client] = "REPLY_BLOCKED"
         /\ state[com] = "READY"
         /\ ~ HasItem(com_reader)'
<1>1. OneClient /\ KInv
  BY DEF CInv
<1> USE <1>1, ComConstants
<1>2. state[com] = "READY" /\ ~ JobPosted
  BY QueueFacts DEF receive_pending, receive_resume, Running, JobPosted
<1>3. /\ state \in [Proc -> States] /\ resume \in [Proc -> {"user", "receive", "new"} \cup Irq]
      /\ got \in [Proc -> [sender : Proc \cup {NULL}, data : Data \cup {NULL}]]
      /\ owed \in [Proc -> SUBSET Proc]
      /\ blocked \in [Port -> Seq(Proc)]
  BY DEF KInv, TypeOK
<1>4. state[client] = "REPLY_BLOCKED"
  BY PlaceFacts DEF Serving
<1>5. CASE receive_pending(com)
  <2> DEFINE x == Head(blocked[com_port])
  <2>1. /\ Return(com, x, param_data[x])
        /\ blocked' = [blocked EXCEPT ![com_port] = Tail(@)]
        /\ Accept(x)
        /\ UNCHANGED <<param_proc, param_data, resume, fault>>
        /\ resume[com] = "user" /\ fault = "none"
    BY <1>5, AtComPort DEF receive_pending, Running
  <2>2. x = com_reader /\ state[x] = "MESSAGE_BLOCKED" /\ param_data[x] = Done
    <3>1. x \in {client, com_reader} /\ x \in Members(blocked[com_port])
      BY <1>5, AtComPort DEF receive_pending
    <3>2. x = com_reader /\ state[x] = "MESSAGE_BLOCKED"
      BY <1>4, <3>1, PlaceFacts
    <3>3. QED
      BY <3>2 DEF CInv, Items, DonePosted
  <2>3. state' = [state EXCEPT ![com_reader] = "READY"]
    BY <2>1, <2>2 DEF Accept
  <2>4. resume[com_reader] = "user" /\ pc[com_reader] = "start"
    BY <2>2, PlaceFacts DEF CInv, Roles
  <2>5. /\ \A o \in Port \ {com_port} : blocked'[o] = blocked[o]
        /\ Members(blocked'[com_port]) \subseteq Members(blocked[com_port])
    BY <1>3, <1>5, <2>1, AtComPort DEF receive_pending
  <2>6. /\ got' = [got EXCEPT ![com] = [sender |-> com_reader, data |-> Done]]
        /\ owed' = owed
    BY <1>3, <2>1, <2>2 DEF Return
  <2>7. ~ Collecting /\ ~ HasItem(com_reader) /\ ~ HasItem(com_reader)'
    BY <2>1, <2>4 DEF Collecting, HasItem
  <2>8. Taken(com_reader, Done)
    BY <1>2, <1>3, <2>1, <2>3, <2>5, <2>6 DEF Taken
  <2>9. QED
    BY <1>2, <1>3, <1>4, <2>3, <2>7, <2>8
<1>6. CASE receive_resume(com)
  <2>1. /\ Return(com, param_proc[com], param_data[com])
        /\ resume' = [resume EXCEPT ![com] = "user"]
        /\ UNCHANGED <<state, param_proc, param_data, blocked, fault>>
        /\ resume[com] = "receive" /\ fault = "none"
    BY <1>6 DEF receive_resume
  <2>2. DoneHanded
    BY <1>2, <2>1 DEF HasItem, DoneHanded
  <2>3. param_proc[com] = com_reader /\ param_data[com] = Done
    BY <2>2 DEF CInv, Items
  <2>4. /\ got' = [got EXCEPT ![com] = [sender |-> com_reader, data |-> Done]]
        /\ owed' = owed
    BY <1>3, <2>1, <2>3 DEF Return
  <2>5. ~ Collecting /\ ~ HasItem(com_reader) /\ ~ DonePosted
    BY <2>2 DEF CInv, Turns, ReaderBusy
  <2>6. ~ HasItem(com_reader)'
    BY <1>3, <2>1, <2>5 DEF HasItem
  <2>7. Taken(com_reader, Done)
    BY <1>2, <1>3, <2>1, <2>4 DEF Taken
  <2>8. QED
    BY <1>2, <1>4, <2>1, <2>5, <2>6, <2>7, PlaceFacts DEF DonePosted
<1>7. QED
  BY <1>5, <1>6

\* The roles after a receive() of com.
LEMMA TakenRoles ==
  ASSUME CInv, NEW x \in {client, com_reader}, NEW y, Taken(x, y),
         x = client => state'[client] \in States \ {"MESSAGE_BLOCKED"} /\ y \in Request
         /\ pc[com] = "first" /\ pc' = [pc EXCEPT ![com] = "tell"],
         x = com_reader => state'[com_reader] \notin {"SEND_BLOCKED", "REPLY_BLOCKED", "MESSAGE_BLOCKED"}
           /\ ~ Collecting /\ y \notin Request
           /\ pc[com] = "second" /\ pc' = [pc EXCEPT ![com] = "answer"]
  PROVE  Roles'
<1>1. OneClient /\ Roles
  BY DEF CInv
<1> USE <1>1, ComConstants
<1>2. /\ pc'[com_reader] = pc[com_reader]
      /\ x = client => pc[com] = "first" /\ pc'[com] = "tell" /\ ~ Serving /\ Serving'
      /\ x = com_reader => pc[com] = "second" /\ pc'[com] = "answer" /\ Serving /\ Serving'
  BY DEF CInv, PlacesOK, Serving
<1>3. "user" \notin Irq
  BY KernelAssumption
<1>4. ASSUME NEW p \in Proc
      PROVE  /\ state'[p] \in {"SEND_BLOCKED", "REPLY_BLOCKED"} => p = client
             /\ state'[p] = "MESSAGE_BLOCKED" =>
                  \/ p = com /\ pc'[com] = "write" /\ cmd' > 0
                  \/ p = com_reader /\ pc'[com_reader] = "start"
  BY <1>2 DEF Roles, Taken
<1>5. ASSUME NEW p \in Proc
      PROVE  /\ resume'[p] = "receive" =>
                  \/ p = com /\ pc'[com] \in {"first", "second"}
                  \/ p = com_reader /\ pc'[com_reader] = "start"
             /\ resume'[p] \in Irq =>
                  p = com_reader /\ pc'[com_reader] = "waiting" /\ resume'[p] = COM1_IRQ
  BY <1>2, <1>3 DEF Roles, Taken
<1>6. ASSUME NEW p \in Proc
      PROVE  owed'[p] = IF p = com /\ Serving' THEN {client} ELSE {}
  <2>1. owed[p] = IF p = com /\ Serving THEN {client} ELSE {}
    BY DEF Roles
  <2>2. CASE p = com /\ x = client
    BY <1>2, <2>1, <2>2 DEF Taken
  <2>3. CASE p = com /\ x = com_reader
    BY <1>2, <2>1, <2>3 DEF Taken
  <2>4. CASE p # com
    BY <2>1, <2>4 DEF Taken
  <2>5. QED
    BY <2>2, <2>3, <2>4
<1>7. /\ pc'[com_reader] = "waiting" => resume'[com_reader] = COM1_IRQ
      /\ pc'[com_reader] \in {"loop", "store"} =>
           resume'[com_reader] = "user" /\ state'[com_reader] = "READY"
  BY <1>2 DEF Roles, Taken, Collecting
<1>8. /\ \A o \in Port \ {com_port, reader_port} : blocked'[o] = << >>
      /\ Members(blocked'[com_port]) \subseteq {client, com_reader}
      /\ Members(blocked'[reader_port]) \subseteq {com}
  BY DEF Roles, Taken
<1>9. QED
  BY <1>4, <1>5, <1>6, <1>7, <1>8 DEF Roles

\* receive() of the next command.
LEMMA FirstStep ==
  ASSUME CInv, receive_pending(com) \/ receive_resume(com),
         Goes(com, "first", "tell"), sender_proc' = got'[com].sender,
         UNCHANGED <<cmd, i, input_buffer, line>>
  PROVE  CInv'
<1>1. OneClient /\ OneClient' /\ KInv
  BY DEF CInv, OneClient, ComAssumption, client
<1> USE <1>1, ComConstants
<1>2. KInv'
  BY ReceivePendingStep, ReceiveResumeStep
<1>3. /\ pc[com] = "first" /\ pc'[com] = "tell" /\ pc'[com_reader] = pc[com_reader]
      /\ pc' = [pc EXCEPT ![com] = "tell"]
      /\ PlacesOK'
  BY DEF Goes, CInv, PlacesOK
<1>4. /\ Taken(client, param_data[client])
      /\ param_data[client] \in Request
      /\ state[client] # "READY" /\ state'[client] = "REPLY_BLOCKED"
      /\ state[com] = "READY"
  BY <1>3, FirstTakes
<1>5. Roles'
  BY <1>3, <1>4, TakenRoles DEF States
<1>6. /\ ~ JobPosted /\ ~ ReaderBusy /\ ~ DoneHanded
      /\ ~ JobPosted' /\ ~ ReaderBusy' /\ ~ DoneHanded' /\ ~ HasItem(com)'
  BY <1>3, <1>4 DEF CInv, Turns, Taken, JobPosted, ReaderBusy, DoneHanded, HasItem, Collecting, DonePosted
<1>7. Items'
  BY <1>3, <1>4, <1>6 DEF CInv, Items, Taken, TheJob, ReaderBusy, Serving
<1>8. Turns'
  BY <1>3, <1>6 DEF Turns
<1>9. Progress'
  BY <1>3, <1>4, <1>6 DEF CInv, Progress, Silent, line, Taken, ReaderBusy, Collecting
<1>10. AnswerComplete' /\ SecondIsReader'
  BY <1>3, <1>4 DEF AnswerComplete, SecondIsReader
<1>11. QED
  BY <1>2, <1>3, <1>4, <1>5, <1>7, <1>8, <1>9, <1>10 DEF CInv, NeverPanics, Taken

\* receive() of the reader's message.
LEMMA SecondStep ==
  ASSUME CInv, receive_pending(com) \/ receive_resume(com),
         Goes(com, "second", "answer"),
         UNCHANGED <<sender_proc, cmd, i, input_buffer, line>>
  PROVE  CInv'
<1>1. OneClient /\ OneClient' /\ KInv
  BY DEF CInv, OneClient, ComAssumption, client
<1> USE <1>1, ComConstants
<1>2. KInv'
  BY ReceivePendingStep, ReceiveResumeStep
<1>3. /\ pc[com] = "second" /\ pc'[com] = "answer" /\ pc'[com_reader] = pc[com_reader]
      /\ pc' = [pc EXCEPT ![com] = "answer"]
      /\ PlacesOK'
  BY DEF Goes, CInv, PlacesOK
<1>4. /\ Taken(com_reader, Done)
      /\ ~ Collecting /\ ~ HasItem(com_reader) /\ ~ JobPosted
      /\ state'[com_reader] \in {"READY", "RECEIVE_BLOCKED", "INTR_BLOCKED"}
      /\ state[client] = "REPLY_BLOCKED"
      /\ state[com] = "READY"
      /\ ~ HasItem(com_reader)'
  BY <1>3, SecondTakes
<1>5. state'[com_reader] \notin {"SEND_BLOCKED", "REPLY_BLOCKED", "MESSAGE_BLOCKED"}
  BY <1>4
<1>6. Roles'
  BY <1>3, <1>4, <1>5, TakenRoles
<1>7. /\ ~ JobPosted' /\ ~ ReaderBusy' /\ ~ DoneHanded' /\ ~ HasItem(com)' /\ ~ Collecting'
      /\ Serving /\ Serving'
  BY <1>3, <1>4, <1>5 DEF Taken, JobPosted, ReaderBusy, DoneHanded, HasItem, Collecting, DonePosted, Serving
<1>8. Items'
  BY <1>3, <1>4, <1>7 DEF CInv, Items, Taken, TheJob, ReaderBusy, Serving
<1>9. Turns'
  BY <1>3, <1>7 DEF Turns
<1>10. Progress'
  <2>1. Stored = param_data[client][2] /\ Stored' = Stored
    BY <1>4, <1>7 DEF Stored, Taken, ReaderBusy
  <2>2. /\ Line(Stored, param_data[client][2]) /\ cmd = 0
    BY <1>3 DEF CInv, Progress
  <2>3. Line(Stored, param_data[client][2])'
    BY <1>3, <1>4, <2>1, <2>2 DEF Line, Silent, line, Taken
  <2>4. QED
    BY <1>3, <1>4, <1>7, <2>1, <2>2, <2>3 DEF CInv, Progress, Taken, Collecting
<1>11. AnswerComplete' /\ SecondIsReader'
  <2>1. state'[client] = "REPLY_BLOCKED"
    BY <1>4 DEF Taken
  <2>2. QED
    BY <1>3, <1>4, <2>1 DEF AnswerComplete, SecondIsReader, Taken
<1>12. QED
  BY <1>2, <1>3, <1>4, <1>6, <1>8, <1>9, <1>10, <1>11 DEF CInv, NeverPanics, Taken

\* message(com_reader_port, msg)
LEMMA TellStep ==
  ASSUME CInv, com_tell_reader
  PROVE  CInv'
<1>1. OneClient /\ OneClient' /\ KInv
  BY DEF CInv, OneClient, ComAssumption, client
<1> USE <1>1, ComConstants
<1>2. /\ pc[com] = "tell" /\ pc'[com] = "write" /\ pc'[com_reader] = pc[com_reader]
      /\ cmd' = CmdLen /\ PlacesOK'
      /\ UNCHANGED <<sender_proc, i, input_buffer, line>>
  BY DEF com_tell_reader, Goes, CInv, PlacesOK
<1>3. state[client] = "REPLY_BLOCKED" /\ param_data[client] \in Request
  BY <1>2, PlaceFacts DEF Serving, CInv, Items
<1>4. TheJob \in Note /\ got[com].data = param_data[client] /\ message(com, reader_port, TheJob)
  BY <1>2, <1>3 DEF com_tell_reader, CInv, Items, TheJob
<1>5. KInv'
  BY <1>4, MessageStep
<1>6. /\ state[com] = "READY" /\ resume[com] = "user" /\ fault' = "none"
      /\ resume' = resume /\ got' = got /\ owed' = owed
  BY <1>4, QueueFacts DEF message, Running, CInv, NeverPanics
<1>7. ~ JobPosted /\ ~ ReaderBusy /\ ~ DoneHanded /\ Serving /\ Serving'
  BY <1>2 DEF CInv, Turns, Serving
<1>8. state \in [Proc -> States] /\ param_data \in [Proc -> Data \cup {NULL}]
      /\ param_proc \in [Proc -> Proc \cup {NULL}]
  BY DEF KInv, TypeOK
<1>9. \/ /\ state[com_reader] = "RECEIVE_BLOCKED" /\ blocked' = blocked
         /\ state' = [state EXCEPT ![com_reader] = "READY"]
         /\ param_data' = [param_data EXCEPT ![com_reader] = TheJob]
      \/ /\ state' = [state EXCEPT ![com] = "MESSAGE_BLOCKED"]
         /\ blocked' = [blocked EXCEPT ![reader_port] = Append(@, com)]
         /\ param_data' = [param_data EXCEPT ![com] = TheJob]
  BY <1>4 DEF message, Receptive, add_to_send_blocked_list
<1>10. /\ \A p \in Proc \ {com, com_reader} : state'[p] = state[p] /\ param_data'[p] = param_data[p]
       /\ \/ /\ state[com_reader] = "RECEIVE_BLOCKED" /\ state'[com_reader] = "READY"
             /\ param_data'[com_reader] = TheJob
             /\ state'[com] = "READY"
          \/ /\ state'[com_reader] = state[com_reader]
             /\ state'[com] = "MESSAGE_BLOCKED" /\ param_data'[com] = TheJob
             /\ param_data'[com_reader] = param_data[com_reader]
       /\ TheJob' = TheJob
  BY <1>6, <1>8, <1>9 DEF TheJob
<1>11. /\ \A o \in Port \ {reader_port} : blocked'[o] = blocked[o]
       /\ Members(blocked'[reader_port]) \subseteq Members(blocked[reader_port]) \cup {com}
  <2>1. blocked \in [Port -> Seq(Proc)]
    BY DEF KInv, TypeOK
  <2>2. Members(Append(blocked[reader_port], com)) = Members(blocked[reader_port]) \cup {com}
    BY <2>1, AppendKeeps
  <2>3. QED
    BY <2>1, <2>2, <1>9
<1>12. ~ Collecting /\ ~ Collecting' /\ pc[com_reader] = "start"
  BY <1>2, <1>7 DEF ReaderBusy, Collecting, CInv, PlacesOK
<1>13. Roles'
  <2>1. Roles
    BY DEF CInv
  <2>2. ASSUME NEW p \in Proc
        PROVE  /\ state'[p] \in {"SEND_BLOCKED", "REPLY_BLOCKED"} => p = client
               /\ state'[p] = "MESSAGE_BLOCKED" =>
                    \/ p = com /\ pc'[com] = "write" /\ cmd' > 0
                    \/ p = com_reader /\ pc'[com_reader] = "start"
               /\ resume'[p] = "receive" =>
                    \/ p = com /\ pc'[com] \in {"first", "second"}
                    \/ p = com_reader /\ pc'[com_reader] = "start"
               /\ resume'[p] \in Irq =>
                    p = com_reader /\ pc'[com_reader] = "waiting" /\ resume'[p] = COM1_IRQ
               /\ owed'[p] = IF p = com /\ Serving' THEN {client} ELSE {}
    BY <1>2, <1>6, <1>7, <1>10, <1>12, <2>1 DEF Roles
  <2>3. QED
    BY <1>2, <1>11, <1>12, <2>1, <2>2 DEF Roles
<1>14. /\ JobPosted' \/ HasItem(com_reader)'
       /\ ~ (JobPosted' /\ ReaderBusy') /\ ~ DoneHanded' /\ ~ HasItem(com)' /\ ~ DonePosted'
  <2>1. /\ state[com_reader] = "RECEIVE_BLOCKED" => resume[com_reader] = "receive"
        /\ state[com_reader] # "MESSAGE_BLOCKED"
    BY <1>7, PlaceFacts DEF ReaderBusy, DonePosted
  <2>2. QED
    BY <1>2, <1>6, <1>7, <1>10, <1>12, <2>1
    DEF JobPosted, HasItem, ReaderBusy, DoneHanded, DonePosted, Collecting
<1>15. Items'
  BY <1>2, <1>3, <1>4, <1>6, <1>7, <1>10, <1>12, <1>14
  DEF CInv, Items, JobPosted, HasItem, ReaderBusy, Collecting
<1>16. Turns'
  BY <1>2, <1>14 DEF Turns, ReaderBusy
<1>17. Progress'
  <2>1. Stored' = 0 /\ param_data'[client] = param_data[client] /\ param_data[client][2] \in Nat
    BY <1>3, <1>10, <1>14 DEF Stored
  <2>2. input_buffer[client] = << >> /\ Silent
    BY <1>2, <1>3 DEF CInv, Progress
  <2>3. Line(0, param_data[client][2])'
    BY <1>2, <2>2 DEF Line, Silent, line
  <2>4. Line(Stored, param_data[client][2])'
    BY <2>1, <2>3 DEF Line
  <2>5. QED
    <3>1. /\ Stored' \in 0 .. param_data'[client][2]
          /\ input_buffer'[client] = Upto(Stored')
      BY <1>2, <2>1, <2>2, NothingLeft
    <3>2. ~ (pc'[com_reader] = "store" \/ (pc'[com_reader] = "waiting" /\ state'[com_reader] = "READY"))
      BY <1>12 DEF Collecting
    <3>3. QED
      BY <1>2, <2>1, <2>4, <3>1, <3>2 DEF Progress
<1>18. AnswerComplete' /\ SecondIsReader'
  BY <1>2, <1>3, <1>10 DEF AnswerComplete, SecondIsReader
<1>19. QED
  BY <1>5, <1>6, <1>2, <1>13, <1>15, <1>16, <1>17, <1>18 DEF CInv, NeverPanics

\* send_cmd_to_com()
LEMMA WriteStep ==
  ASSUME CInv, com_write
  PROVE  CInv'
<1>1. OneClient /\ OneClient' /\ KInv /\ KInv'
  BY StutterStep DEF CInv, OneClient, ComAssumption, client, com_write
<1> USE <1>1, ComConstants
<1>2. /\ pc[com] = "write" /\ pc'[com] \in {"write", "second"} /\ pc'[com_reader] = pc[com_reader]
      /\ PlacesOK'
  BY DEF com_write, Goes, CInv, PlacesOK
<1>3. UNCHANGED <<state, resume, param_proc, param_data, blocked, got, owed, fault, sender_proc, i,
                  input_buffer, answer>>
  BY DEF com_write, vars
<1>4. /\ state[com] = "READY" /\ resume[com] = "user"
      /\ state[client] = "REPLY_BLOCKED" /\ param_data[client] \in Request
      /\ got[com].data = param_data[client]
  BY <1>2, QueueFacts, PlaceFacts DEF com_write, Running, Serving, CInv, Items
<1>5. \/ /\ pc'[com] = "write" /\ cmd > 0 /\ cmd' = cmd - 1
         /\ uart' = IF cmd > 1 THEN << >> ELSE Upto(param_data[client][2])
      \/ pc'[com] = "second" /\ cmd = 0 /\ cmd' = 0 /\ uart' = uart
  BY <1>2, <1>4 DEF com_write, Goes, Upto, CInv, PlacesOK
<1>6. /\ ~ JobPosted /\ ~ JobPosted' /\ ~ DoneHanded /\ ~ DoneHanded' /\ ~ HasItem(com)'
      /\ HasItem(com_reader)' <=> HasItem(com_reader)
      /\ ReaderBusy' <=> ReaderBusy
      /\ Collecting' <=> Collecting
      /\ DonePosted' <=> DonePosted
      /\ Serving /\ Serving'
  BY <1>2, <1>3, <1>4 DEF JobPosted, DoneHanded, HasItem, ReaderBusy, Collecting, DonePosted, Serving
<1>7. Roles'
  <2>1. Roles
    BY DEF CInv
  <2>2. ASSUME NEW p \in Proc
        PROVE  /\ state'[p] \in {"SEND_BLOCKED", "REPLY_BLOCKED"} => p = client
               /\ state'[p] = "MESSAGE_BLOCKED" =>
                    \/ p = com /\ pc'[com] = "write" /\ cmd' > 0
                    \/ p = com_reader /\ pc'[com_reader] = "start"
               /\ resume'[p] = "receive" =>
                    \/ p = com /\ pc'[com] \in {"first", "second"}
                    \/ p = com_reader /\ pc'[com_reader] = "start"
               /\ resume'[p] \in Irq =>
                    p = com_reader /\ pc'[com_reader] = "waiting" /\ resume'[p] = COM1_IRQ
               /\ owed'[p] = IF p = com /\ Serving' THEN {client} ELSE {}
    BY <1>2, <1>3, <1>4, <1>6, <2>1 DEF Roles
  <2>3. QED
    BY <1>2, <1>3, <2>1, <2>2 DEF Roles
<1>8. Items'
  BY <1>2, <1>3, <1>4, <1>6 DEF CInv, Items, TheJob
<1>9. Turns'
  BY <1>2, <1>6 DEF CInv, Turns
<1>10. Progress'
  <2>1. Stored' = Stored
    BY <1>3, <1>6 DEF Stored
  <2>2. Line(Stored, param_data[client][2])
    BY <1>2 DEF CInv, Progress
  <2>3. Line(Stored, param_data[client][2])'
    <3>1. CASE cmd = 0
      BY <1>2, <1>3, <1>5, <2>1, <2>2, <3>1 DEF Line
    <3>2. CASE cmd > 1
      BY <1>3, <1>5, <2>1, <2>2, <3>2 DEF Line, Silent, CInv, PlacesOK
    <3>3. CASE cmd = 1
      BY <1>3, <1>5, <2>1, <2>2, <3>3 DEF Line, Silent
    <3>4. QED
      BY <3>1, <3>2, <3>3 DEF CInv, PlacesOK
  <2>4. QED
    BY <1>2, <1>3, <1>5, <2>1, <2>3 DEF CInv, Progress
<1>11. AnswerComplete' /\ SecondIsReader'
  BY <1>2, <1>3, <1>4 DEF AnswerComplete, SecondIsReader
<1>12. QED
  BY <1>2, <1>3, <1>7, <1>8, <1>9, <1>10, <1>11 DEF CInv, NeverPanics

\* The answer is in the buffer when com replies.
LEMMA WholeAtAnswer ==
  ASSUME CInv, pc[com] = "answer"
  PROVE  /\ input_buffer[client] = Upto(param_data[client][2])
         /\ Silent /\ param_data[client] \in Request
<1>1. OneClient
  BY DEF CInv
<1> USE <1>1, ComConstants
<1>2. state[client] = "REPLY_BLOCKED" /\ param_data[client] \in Request
  BY PlaceFacts DEF Serving, CInv, Items
<1>3. Stored = param_data[client][2]
  BY DEF CInv, Turns, Stored, ReaderBusy
<1>4. Line(Stored, Stored) /\ input_buffer[client] = Upto(Stored)
  BY <1>3 DEF CInv, Progress
<1>5. Stored \in Nat /\ Rest(Stored, Stored) = << >> /\ Upto(0) = << >>
  BY <1>2, <1>3, NothingLeft
<1>6. QED
  BY <1>2, <1>3, <1>4, <1>5 DEF Line, Silent

\* reply(sender_proc)
LEMMA AnswerStep ==
  ASSUME CInv, com_reply
  PROVE  CInv'
<1>1. OneClient /\ OneClient' /\ KInv
  BY DEF CInv, OneClient, ComAssumption, client
<1> USE <1>1, ComConstants
<1>2. /\ pc[com] = "answer" /\ pc'[com] = "first" /\ pc'[com_reader] = pc[com_reader]
      /\ PlacesOK'
      /\ UNCHANGED <<sender_proc, cmd, i, input_buffer, line>>
  BY DEF com_reply, Goes, CInv, PlacesOK
<1>3. sender_proc = client /\ client \in owed[com] /\ reply(com, client)
  BY <1>2 DEF com_reply, CInv, Items, Roles, Serving
<1>4. KInv'
  BY <1>3, ReplyStep
<1>5. state[client] = "REPLY_BLOCKED" /\ param_data[client] \in Request
  BY <1>2, PlaceFacts DEF Serving, CInv, Items
<1>6. /\ state' = [state EXCEPT ![client] = "READY"]
      /\ owed' = [owed EXCEPT ![com] = @ \ {client}]
      /\ UNCHANGED <<param_proc, param_data, blocked, resume, got>> /\ fault' = "none"
      /\ state[com] = "READY" /\ resume[com] = "user"
  BY <1>3, <1>5, QueueFacts DEF reply, Running
<1>7. /\ \A p \in Proc \ {client} : state'[p] = state[p]
      /\ state'[client] = "READY"
      /\ \A p \in Proc \ {com} : owed'[p] = owed[p]
      /\ owed'[com] = {}
  <2>1. state \in [Proc -> States] /\ owed \in [Proc -> SUBSET Proc]
    BY DEF KInv, TypeOK
  <2>2. owed[com] = {client}
    BY <1>2 DEF CInv, Roles, Serving
  <2>3. QED
    BY <1>6, <2>1, <2>2
<1>8. /\ ~ JobPosted /\ ~ ReaderBusy /\ ~ DoneHanded /\ ~ Serving'
      /\ ~ JobPosted' /\ ~ ReaderBusy' /\ ~ DoneHanded' /\ ~ HasItem(com)'
      /\ pc[com_reader] = "start"
  BY <1>2, <1>6, <1>7
  DEF CInv, PlacesOK, Turns, JobPosted, ReaderBusy, DoneHanded, HasItem, Collecting, DonePosted, Serving
<1>9. Roles'
  <2>1. Roles
    BY DEF CInv
  <2>2. ASSUME NEW p \in Proc
        PROVE  /\ state'[p] \in {"SEND_BLOCKED", "REPLY_BLOCKED"} => p = client
               /\ state'[p] = "MESSAGE_BLOCKED" =>
                    \/ p = com /\ pc'[com] = "write" /\ cmd' > 0
                    \/ p = com_reader /\ pc'[com_reader] = "start"
               /\ resume'[p] = "receive" =>
                    \/ p = com /\ pc'[com] \in {"first", "second"}
                    \/ p = com_reader /\ pc'[com_reader] = "start"
               /\ resume'[p] \in Irq =>
                    p = com_reader /\ pc'[com_reader] = "waiting" /\ resume'[p] = COM1_IRQ
               /\ owed'[p] = IF p = com /\ Serving' THEN {client} ELSE {}
    BY <1>2, <1>6, <1>7, <1>8, <2>1 DEF Roles
  <2>3. QED
    BY <1>2, <1>6, <1>7, <1>8, <2>1, <2>2 DEF Roles
<1>10. Items'
  BY <1>2, <1>5, <1>6, <1>7, <1>8 DEF Items, ReaderBusy
<1>11. Turns'
  BY <1>2, <1>8 DEF Turns
<1>12. Progress' /\ AnswerComplete' /\ SecondIsReader'
  BY <1>2, <1>6, <1>7, <1>8, WholeAtAnswer
  DEF Progress, Silent, line, AnswerComplete, SecondIsReader, Upto
<1>13. QED
  BY <1>2, <1>4, <1>6, <1>9, <1>10, <1>11, <1>12 DEF CInv, NeverPanics

-------------------------------------------------------------------------------
(* The steps of com_reader_process.                                            *)

\* While the reader has a job, its command is being answered.
LEMMA JobFacts ==
  ASSUME CInv, ReaderBusy
  PROVE  /\ pc[com] \in {"write", "second"} /\ Serving
         /\ ~ JobPosted /\ ~ DoneHanded
         /\ state[client] = "REPLY_BLOCKED" /\ param_data[client] \in Request
         /\ param_data[client][2] \in Nat /\ TheJob \in Note
         /\ TheJob[1] = client /\ TheJob[2] = param_data[client][2]
<1>1. OneClient
  BY DEF CInv
<1> USE <1>1, ComConstants
<1>2. pc[com] \in {"write", "second"} /\ Serving /\ ~ JobPosted /\ ~ DoneHanded
  BY DEF CInv, Turns, Serving
<1>3. state[client] = "REPLY_BLOCKED" /\ param_data[client] \in Request
  BY <1>2, PlaceFacts DEF CInv, Items
<1>4. QED
  BY <1>2, <1>3 DEF TheJob

\* receive() with nothing to take.
LEMMA ReaderRests ==
  ASSUME CInv, pc[com_reader] = "start", receive_wait(com_reader),
         UNCHANGED <<local, line>>
  PROVE  CInv'
<1>1. OneClient /\ OneClient' /\ KInv
  BY DEF CInv, OneClient, ComAssumption, client
<1> USE <1>1, ComConstants DEF local
<1>2. KInv'
  BY ReceiveWaitStep
<1>3. /\ state[com_reader] = "READY" /\ resume[com_reader] = "user"
  BY QueueFacts DEF receive_wait, Running
<1>4. /\ state' = [state EXCEPT ![com_reader] = "RECEIVE_BLOCKED"]
      /\ resume' = [resume EXCEPT ![com_reader] = "receive"]
      /\ param_data' = [param_data EXCEPT ![com_reader] = NULL]
      /\ UNCHANGED <<param_proc, blocked, got, owed>> /\ fault' = "none"
  BY HavePorts DEF receive_wait, CInv, NeverPanics
<1>5. /\ \A p \in Proc \ {com_reader} : state'[p] = state[p] /\ resume'[p] = resume[p]
                                        /\ param_data'[p] = param_data[p]
      /\ state'[com_reader] = "RECEIVE_BLOCKED" /\ resume'[com_reader] = "receive"
  BY <1>4 DEF KInv, TypeOK
<1>6. PlacesOK' /\ (Serving' <=> Serving)
  BY DEF CInv, PlacesOK, Serving
<1>7. Roles'
  <2>1. Roles
    BY DEF CInv
  <2>2. "receive" \notin Irq
    BY KernelAssumption
  <2>3. ASSUME NEW p \in Proc
        PROVE  /\ state'[p] \in {"SEND_BLOCKED", "REPLY_BLOCKED"} => p = client
               /\ state'[p] = "MESSAGE_BLOCKED" =>
                    \/ p = com /\ pc'[com] = "write" /\ cmd' > 0
                    \/ p = com_reader /\ pc'[com_reader] = "start"
               /\ resume'[p] = "receive" =>
                    \/ p = com /\ pc'[com] \in {"first", "second"}
                    \/ p = com_reader /\ pc'[com_reader] = "start"
               /\ resume'[p] \in Irq =>
                    p = com_reader /\ pc'[com_reader] = "waiting" /\ resume'[p] = COM1_IRQ
               /\ owed'[p] = IF p = com /\ Serving' THEN {client} ELSE {}
    BY <1>4, <1>5, <1>6, <2>1, <2>2, ZenonT(40) DEF Roles
  <2>4. QED
    BY <1>4, <1>5, <2>1, <2>3 DEF Roles
<1>8. /\ ~ ReaderBusy /\ ~ ReaderBusy' /\ ~ HasItem(com_reader)'
      /\ ~ Collecting' /\ ~ DonePosted'
      /\ JobPosted' <=> JobPosted
      /\ HasItem(com)' <=> HasItem(com)
      /\ DoneHanded' <=> DoneHanded
  BY <1>3, <1>5 DEF JobPosted, DoneHanded, HasItem, ReaderBusy, Collecting, DonePosted
<1>9. Items'
  BY <1>4, <1>5, <1>6, <1>8 DEF CInv, Items, TheJob
<1>10. Turns'
  BY <1>8 DEF CInv, Turns
<1>11. Progress'
  <2>1. Stored' = Stored
    BY <1>5, <1>8 DEF Stored, ReaderBusy
  <2>2. QED
    BY <1>5, <2>1 DEF CInv, Progress, Line, Silent, line
<1>12. AnswerComplete' /\ SecondIsReader'
  BY <1>4, <1>5 DEF CInv, AnswerComplete, SecondIsReader
<1>13. QED
  BY <1>2, <1>4, <1>6, <1>7, <1>9, <1>10, <1>11, <1>12 DEF CInv, NeverPanics

\* The job, either queued or handed over.
LEMMA ReaderTakes ==
  ASSUME CInv, pc[com_reader] = "start",
         receive_pending(com_reader) \/ receive_resume(com_reader)
  PROVE  /\ UNCHANGED <<param_proc, param_data, owed>> /\ fault' = "none"
         /\ JobPosted \/ HasItem(com_reader)
         /\ ~ DoneHanded /\ ~ DonePosted
         /\ got'[com_reader].data = TheJob
         /\ \A p \in Proc \ {com_reader} : got'[p] = got[p] /\ resume'[p] = resume[p]
         /\ resume'[com_reader] = "user" /\ state'[com_reader] = "READY"
         /\ \A p \in Proc \ {com} : state'[p] = state[p]
         /\ state'[com] = IF JobPosted THEN "READY" ELSE state[com]
         /\ \A o \in Port \ {reader_port} : blocked'[o] = blocked[o]
         /\ Members(blocked'[reader_port]) \subseteq Members(blocked[reader_port])
<1>1. OneClient /\ KInv
  BY DEF CInv
<1> USE <1>1, ComConstants
<1>2. state[com_reader] = "READY" /\ ~ DonePosted
  BY QueueFacts DEF receive_pending, receive_resume, Running, DonePosted
<1>3. /\ state \in [Proc -> States] /\ resume \in [Proc -> {"user", "receive", "new"} \cup Irq]
      /\ got \in [Proc -> [sender : Proc \cup {NULL}, data : Data \cup {NULL}]]
      /\ owed \in [Proc -> SUBSET Proc]
      /\ blocked \in [Port -> Seq(Proc)]
  BY DEF KInv, TypeOK
<1>4. ASSUME JobPosted \/ HasItem(com_reader)
      PROVE  ~ DoneHanded /\ TheJob \notin Request
  <2>1. pc[com] \in {"write", "second"}
    BY <1>4 DEF CInv, Turns, ReaderBusy
  <2>2. state[client] = "REPLY_BLOCKED"
    BY <2>1, PlaceFacts DEF Serving
  <2>3. param_data[client] \in Request
    BY <2>2 DEF CInv, Items
  <2>4. TheJob \in Note
    BY <2>3 DEF TheJob
  <2>5. ~ DoneHanded
    BY <1>4 DEF CInv, Turns, ReaderBusy, JobPosted, DoneHanded, HasItem
  <2>6. QED
    BY <2>4, <2>5
<1>5. CASE receive_pending(com_reader)
  <2> DEFINE o == FirstPending(com_reader)
             x == Head(blocked[reader_port])
  <2>1. Pending(com_reader) # {}
    BY <1>5 DEF receive_pending
  <2>2. /\ o \in Port /\ owner[o] = com_reader /\ blocked[o] # << >>
        /\ Head(blocked[o]) \in Members(blocked[o])
        /\ Members(Tail(blocked[o])) = Members(blocked[o]) \ {Head(blocked[o])}
    BY <2>1, PendingFacts
  <2>3. o = reader_port
    BY <2>2 DEF CInv, Roles
  <2>4. /\ Return(com_reader, x, param_data[x])
        /\ blocked' = [blocked EXCEPT ![reader_port] = Tail(@)]
        /\ Accept(x)
        /\ UNCHANGED <<param_proc, param_data, resume, fault>>
        /\ resume[com_reader] = "user" /\ fault = "none"
    BY <1>5, <2>3 DEF receive_pending, Running
  <2>5. x = com
    BY <2>2, <2>3 DEF CInv, Roles
  <2>6. state[com] = "MESSAGE_BLOCKED"
    BY <2>2, <2>3, <2>5, PlaceFacts
  <2>7. JobPosted /\ param_data[com] = TheJob
    BY <2>6 DEF CInv, Items, JobPosted
  <2>8. state' = [state EXCEPT ![com] = "READY"]
    BY <2>4, <2>5, <2>6 DEF Accept
  <2>9. /\ got' = [got EXCEPT ![com_reader] = [sender |-> com, data |-> TheJob]]
        /\ owed' = owed
    BY <1>3, <1>4, <2>4, <2>5, <2>7 DEF Return
  <2>10. /\ \A u \in Port \ {reader_port} : blocked'[u] = blocked[u]
         /\ Members(blocked'[reader_port]) \subseteq Members(blocked[reader_port])
    BY <1>3, <2>2, <2>3, <2>4
  <2>11. QED
    BY <1>2, <1>3, <1>4, <2>4, <2>7, <2>8, <2>9, <2>10
<1>6. CASE receive_resume(com_reader)
  <2>1. /\ Return(com_reader, param_proc[com_reader], param_data[com_reader])
        /\ resume' = [resume EXCEPT ![com_reader] = "user"]
        /\ UNCHANGED <<state, param_proc, param_data, blocked, fault>>
        /\ resume[com_reader] = "receive" /\ fault = "none"
    BY <1>6 DEF receive_resume
  <2>2. HasItem(com_reader) /\ ~ JobPosted
    BY <1>2, <2>1 DEF HasItem, CInv, Turns, ReaderBusy
  <2>3. param_data[com_reader] = TheJob
    BY <2>2 DEF CInv, Items
  <2>4. /\ got' = [got EXCEPT ![com_reader] = [sender |-> param_proc[com_reader], data |-> TheJob]]
        /\ owed' = owed
    BY <1>3, <1>4, <2>1, <2>2, <2>3 DEF Return
  <2>5. QED
    BY <1>2, <1>3, <1>4, <2>1, <2>2, <2>4
<1>7. QED
  BY <1>5, <1>6

\* receive() of a job.
LEMMA JobStep ==
  ASSUME CInv, receive_pending(com_reader) \/ receive_resume(com_reader),
         Goes(com_reader, "start", "loop"), i' = 0,
         UNCHANGED <<sender_proc, cmd, input_buffer, line>>
  PROVE  CInv'
<1>1. OneClient /\ OneClient' /\ KInv
  BY DEF CInv, OneClient, ComAssumption, client
<1> USE <1>1, ComConstants
<1>2. KInv'
  BY ReceivePendingStep, ReceiveResumeStep
<1>3. /\ pc[com_reader] = "start" /\ pc'[com_reader] = "loop" /\ pc'[com] = pc[com]
      /\ PlacesOK'
  BY DEF Goes, CInv, PlacesOK
<1>4. /\ UNCHANGED <<param_proc, param_data, owed>> /\ fault' = "none"
      /\ JobPosted \/ HasItem(com_reader)
      /\ ~ DoneHanded /\ ~ DonePosted
      /\ got'[com_reader].data = TheJob
      /\ \A p \in Proc \ {com_reader} : got'[p] = got[p] /\ resume'[p] = resume[p]
      /\ resume'[com_reader] = "user" /\ state'[com_reader] = "READY"
      /\ \A p \in Proc \ {com} : state'[p] = state[p]
      /\ state'[com] = IF JobPosted THEN "READY" ELSE state[com]
      /\ \A o \in Port \ {reader_port} : blocked'[o] = blocked[o]
      /\ Members(blocked'[reader_port]) \subseteq Members(blocked[reader_port])
  BY <1>3, ReaderTakes
<1>5. /\ pc[com] \in {"write", "second"} /\ Serving /\ Serving'
      /\ ~ JobPosted' /\ ~ HasItem(com_reader)' /\ ~ DonePosted' /\ ~ DoneHanded'
      /\ ~ HasItem(com) /\ ~ HasItem(com)'
      /\ Collecting' /\ ReaderBusy'
  <2>1. pc[com] \in {"write", "second"}
    BY <1>4 DEF CInv, Turns, ReaderBusy
  <2>2. JobPosted => resume[com] = "user" /\ state[com] # "RECEIVE_BLOCKED"
    BY PlaceFacts DEF JobPosted
  <2>3. resume[com] = "receive" => pc[com] = "second"
    BY <2>1 DEF CInv, Roles
  <2>4. ~ HasItem(com)
    BY <1>4, <2>3 DEF DoneHanded, HasItem
  <2>5. QED
    BY <1>3, <1>4, <2>1, <2>2, <2>4
    DEF Serving, JobPosted, HasItem, DonePosted, DoneHanded, Collecting, ReaderBusy
<1>6. Roles'
  <2>1. Roles
    BY DEF CInv
  <2>2. "user" \notin Irq
    BY KernelAssumption
  <2>3. ASSUME NEW p \in Proc
        PROVE  /\ state'[p] \in {"SEND_BLOCKED", "REPLY_BLOCKED"} => p = client
               /\ state'[p] = "MESSAGE_BLOCKED" =>
                    \/ p = com /\ pc'[com] = "write" /\ cmd' > 0
                    \/ p = com_reader /\ pc'[com_reader] = "start"
               /\ resume'[p] = "receive" =>
                    \/ p = com /\ pc'[com] \in {"first", "second"}
                    \/ p = com_reader /\ pc'[com_reader] = "start"
               /\ resume'[p] \in Irq =>
                    p = com_reader /\ pc'[com_reader] = "waiting" /\ resume'[p] = COM1_IRQ
               /\ owed'[p] = IF p = com /\ Serving' THEN {client} ELSE {}
    BY <1>3, <1>4, <1>5, <2>1, <2>2, ZenonT(40) DEF Roles, JobPosted
  <2>4. QED
    BY <1>3, <1>4, <2>1, <2>3 DEF Roles
<1>7. Items'
  BY <1>3, <1>4, <1>5 DEF CInv, Items, TheJob
<1>8. Turns'
  BY <1>3, <1>5 DEF Turns
<1>9. Progress'
  <2>1. Stored = 0 /\ Stored' = 0
    BY <1>4, <1>5 DEF Stored
  <2>2. Line(Stored, param_data[client][2])'
    BY <1>3, <1>4, <1>5, <2>1 DEF CInv, Progress, Line, Silent, line
  <2>3. QED
    BY <1>3, <1>4, <1>5, <2>1, <2>2 DEF CInv, Progress
<1>10. AnswerComplete' /\ SecondIsReader'
  <2>1. state'[client] # "READY"
    BY <1>4, <1>5, PlaceFacts
  <2>2. QED
    BY <1>3, <1>5, <2>1 DEF AnswerComplete, SecondIsReader
<1>11. QED
  BY <1>2, <1>3, <1>4, <1>6, <1>7, <1>8, <1>9, <1>10 DEF CInv, NeverPanics

\* A step in which only the reader's place, its state and its resumption change.
ReaderMoves(b) ==
  /\ pc' = [pc EXCEPT ![com_reader] = b]
  /\ UNCHANGED <<param_proc, param_data, blocked, got, owed, sender_proc, cmd, i,
                 input_buffer, line>>
  /\ fault' = "none"
  /\ \A p \in Proc \ {com_reader} : state'[p] = state[p] /\ resume'[p] = resume[p]

\* The loop over the interrupts.
LEMMA LoopStep ==
  ASSUME CInv, KInv', Collecting, NEW b \in {"loop", "waiting", "store"}, ReaderMoves(b),
         b = "waiting" =>
           resume'[com_reader] = COM1_IRQ /\ state'[com_reader] \in {"READY", "INTR_BLOCKED"},
         b # "waiting" => resume'[com_reader] = "user" /\ state'[com_reader] = "READY",
         b = "store" \/ (b = "waiting" /\ state'[com_reader] = "READY") => answer # << >>
  PROVE  CInv'
<1>1. OneClient /\ OneClient'
  BY DEF CInv, OneClient, ComAssumption, client
<1> USE <1>1, ComConstants DEF ReaderMoves
<1>2. /\ pc'[com_reader] = b /\ pc'[com] = pc[com] /\ PlacesOK'
      /\ Serving' <=> Serving
  BY DEF CInv, PlacesOK, Serving
<1>3. /\ pc[com] \in {"write", "second"} /\ ~ JobPosted /\ ~ DoneHanded
      /\ state[client] = "REPLY_BLOCKED"
  BY JobFacts DEF ReaderBusy
<1>4. /\ COM1_IRQ # "receive" /\ "user" \notin Irq
  BY KernelAssumption
<1>5. /\ Collecting' /\ ReaderBusy' /\ ~ JobPosted' /\ ~ DoneHanded' /\ ~ DonePosted'
      /\ ~ HasItem(com_reader) /\ ~ HasItem(com_reader)'
      /\ HasItem(com)' <=> HasItem(com)
  BY <1>2, <1>3, <1>4
  DEF CInv, Roles, Collecting, ReaderBusy, JobPosted, DoneHanded, DonePosted, HasItem
<1>6. Roles'
  <2>1. Roles
    BY DEF CInv
  <2>2. ASSUME NEW p \in Proc
        PROVE  /\ state'[p] \in {"SEND_BLOCKED", "REPLY_BLOCKED"} => p = client
               /\ state'[p] = "MESSAGE_BLOCKED" =>
                    \/ p = com /\ pc'[com] = "write" /\ cmd' > 0
                    \/ p = com_reader /\ pc'[com_reader] = "start"
               /\ resume'[p] = "receive" =>
                    \/ p = com /\ pc'[com] \in {"first", "second"}
                    \/ p = com_reader /\ pc'[com_reader] = "start"
               /\ resume'[p] \in Irq =>
                    p = com_reader /\ pc'[com_reader] = "waiting" /\ resume'[p] = COM1_IRQ
               /\ owed'[p] = IF p = com /\ Serving' THEN {client} ELSE {}
    <3>1. state'[com_reader] \in {"READY", "INTR_BLOCKED"}
      OBVIOUS
    <3>2. /\ resume'[com_reader] # "receive"
          /\ resume'[com_reader] \in Irq =>
               pc'[com_reader] = "waiting" /\ resume'[com_reader] = COM1_IRQ
      BY <1>2, <1>4
    <3>3. owed'[p] = IF p = com /\ Serving' THEN {client} ELSE {}
      BY <1>2, <2>1 DEF Roles
    <3>4. CASE p = com_reader
      BY <3>1, <3>2, <3>3, <3>4
    <3>5. CASE p # com_reader
      BY <1>2, <2>1, <3>3, <3>5 DEF Roles
    <3>6. QED
      BY <3>4, <3>5
  <2>3. QED
    BY <1>2, <2>1, <2>2 DEF Roles
<1>7. Items'
  BY <1>2, <1>5 DEF CInv, Items, TheJob, Collecting
<1>8. Turns'
  BY <1>2, <1>3, <1>5 DEF Turns
<1>9. Progress'
  <2>1. Stored' = Stored
    BY <1>3, <1>5 DEF Stored
  <2>2. Line(Stored, param_data[client][2])'
    BY <1>2, <1>3, <2>1 DEF CInv, Progress, Line, Silent, line
  <2>3. QED
    BY <1>2, <1>3, <2>1, <2>2 DEF CInv, Progress, line
<1>10. AnswerComplete' /\ SecondIsReader'
  BY <1>2, <1>3 DEF AnswerComplete, SecondIsReader
<1>11. QED
  BY <1>2, <1>6, <1>7, <1>8, <1>9, <1>10 DEF CInv, NeverPanics

\* wait_for_interrupt(COM1_IRQ): nobody else waits for it.
LEMMA ReaderWaitStep ==
  ASSUME CInv, reader_wait
  PROVE  CInv'
<1>1. OneClient /\ KInv
  BY DEF CInv
<1> USE <1>1, ComConstants
<1>2. /\ pc[com_reader] = "loop" /\ pc' = [pc EXCEPT ![com_reader] = "waiting"]
      /\ wait_for_interrupt(com_reader, COM1_IRQ)
      /\ UNCHANGED <<sender_proc, cmd, i, input_buffer, line>>
  BY DEF reader_wait, Goes
<1>3. KInv'
  BY <1>2, WaitStep
<1>4. interrupt_table[COM1_IRQ] = NULL
  <2>1. interrupt_table[COM1_IRQ] \in Proc \cup {NULL}
    BY DEF KInv, TypeOK
  <2>2. \A p \in Proc : resume[p] # COM1_IRQ
    BY <1>2 DEF CInv, Roles
  <2>3. QED
    BY <2>1, <2>2 DEF KInv, SlotsMatchWaiters
<1>5. /\ state' = [state EXCEPT ![com_reader] = "INTR_BLOCKED"]
      /\ resume' = [resume EXCEPT ![com_reader] = COM1_IRQ]
      /\ UNCHANGED <<param_proc, param_data, blocked, got, owed>> /\ fault' = "none"
  BY <1>2, <1>4 DEF wait_for_interrupt, Running
<1>6. /\ ReaderMoves("waiting")
      /\ resume'[com_reader] = COM1_IRQ /\ state'[com_reader] = "INTR_BLOCKED"
  BY <1>2, <1>5 DEF ReaderMoves, KInv, TypeOK
<1>7. QED
  BY <1>2, <1>3, <1>6, LoopStep DEF Collecting

\* wait_for_interrupt() returns.
LEMMA ReaderWokenStep ==
  ASSUME CInv, reader_woken
  PROVE  CInv'
<1>1. OneClient /\ KInv
  BY DEF CInv
<1> USE <1>1, ComConstants
<1>2. /\ pc[com_reader] = "waiting" /\ pc' = [pc EXCEPT ![com_reader] = "store"]
      /\ wait_resume(com_reader)
      /\ UNCHANGED <<sender_proc, cmd, i, input_buffer, line>>
  BY DEF reader_woken, Goes
<1>3. KInv'
  BY <1>2, WaitResumeStep
<1>4. /\ state' = state /\ state[com_reader] = "READY"
      /\ resume' = [resume EXCEPT ![com_reader] = "user"]
      /\ UNCHANGED <<param_proc, param_data, blocked, got, owed>> /\ fault' = "none"
  BY <1>2, QueueFacts DEF wait_resume
<1>5. ReaderMoves("store") /\ resume'[com_reader] = "user" /\ state'[com_reader] = "READY"
  BY <1>2, <1>4 DEF ReaderMoves, KInv, TypeOK
<1>6. answer # << >>
  BY <1>2, <1>4 DEF CInv, Progress
<1>7. QED
  BY <1>2, <1>3, <1>5, <1>6, LoopStep DEF Collecting

\* What the reader finds in the UART is the next byte of the answer.
LEMMA NextByte ==
  ASSUME CInv, Collecting
  PROVE  LET n == param_data[client][2]
         IN  /\ n \in Nat /\ i \in 0 .. n
             /\ input_buffer[client] = Upto(i)
             /\ Line(i, n)
             /\ answer # << >> => /\ cmd = 0 /\ uart \in {NULL, << >>} /\ i < n
                                  /\ answer = Rest(i, n)
<1>1. OneClient
  BY DEF CInv
<1> USE <1>1, ComConstants
<1> DEFINE n == param_data[client][2]
<1>2. n \in Nat /\ pc[com] \in {"write", "second"} /\ ~ JobPosted /\ ~ HasItem(com_reader)
  <2>1. n \in Nat /\ pc[com] \in {"write", "second"} /\ ~ JobPosted
    BY JobFacts DEF ReaderBusy
  <2>2. resume[com_reader] # "receive"
    BY DEF CInv, Roles, Collecting
  <2>3. QED
    BY <2>1, <2>2 DEF HasItem
<1>3. Stored = i
  BY <1>2 DEF Stored
<1>4. i \in 0 .. n /\ input_buffer[client] = Upto(i) /\ Line(i, n)
  BY <1>2, <1>3 DEF CInv, Progress
<1>5. ASSUME answer # << >>
      PROVE  cmd = 0 /\ uart \in {NULL, << >>} /\ i < n /\ answer = Rest(i, n)
  <2>1. cmd = 0 /\ uart \in {NULL, << >>} /\ answer = Rest(i, n)
    BY <1>4, <1>5 DEF Line, Silent
  <2>2. i # n
    BY <1>2, <1>5, <2>1, NothingLeft
  <2>3. QED
    BY <1>2, <1>4, <2>1, <2>2
<1>6. QED
  BY <1>2, <1>4, <1>5

\* The reader takes the byte out of the UART.
LEMMA StoreStep ==
  ASSUME CInv, reader_store
  PROVE  CInv'
<1>1. OneClient /\ OneClient' /\ KInv /\ KInv'
  BY StutterStep DEF CInv, OneClient, ComAssumption, client, reader_store
<1> USE <1>1, ComConstants
<1> DEFINE n == param_data[client][2]
<1>2. /\ pc[com_reader] = "store" /\ Collecting
      /\ UNCHANGED <<state, resume, param_proc, param_data, blocked, got, owed, fault, sender_proc,
                     cmd, uart>>
      /\ i' = i + 1
      /\ answer' = Tail(answer)
  BY DEF reader_store, Goes, Collecting, vars
<1>3. /\ state[com_reader] = "READY" /\ resume[com_reader] = "user" /\ fault = "none"
      /\ answer # << >>
  BY <1>2 DEF CInv, Roles, Progress, NeverPanics
<1>4. /\ got[com_reader].data[1] = client
      /\ pc[com] \in {"write", "second"} /\ ~ JobPosted /\ ~ DoneHanded
      /\ state[client] = "REPLY_BLOCKED"
  BY <1>2, JobFacts DEF ReaderBusy, CInv, Items
<1>5. /\ n \in Nat /\ i \in 0 .. n /\ input_buffer[client] = Upto(i)
      /\ cmd = 0 /\ uart \in {NULL, << >>} /\ i < n /\ answer = Rest(i, n)
  BY <1>2, <1>3, NextByte
<1>6. /\ Head(answer) = i + 1 /\ answer' = Rest(i + 1, n)
      /\ Append(Upto(i), i + 1) = Upto(i + 1) /\ Upto(i + 1) \in Seq(Nat)
  <2>1. i \in Nat /\ i <= n /\ i < n /\ i + 1 \in Nat
    BY <1>5
  <2>2. Head(Rest(i, n)) = i + 1 /\ Tail(Rest(i, n)) = Rest(i + 1, n)
    BY <1>5, <2>1, ByteFacts
  <2>3. Append(Upto(i), i + 1) = Upto(i + 1) /\ Upto(i + 1) \in Seq(Nat)
    BY <2>1, ByteFacts
  <2>4. QED
    BY <1>2, <1>5, <2>2, <2>3
<1>7. /\ input_buffer' \in [Client -> Seq(Nat)] /\ input_buffer'[client] = Upto(i + 1)
  <2>1. input_buffer' = [input_buffer EXCEPT ![client] = Append(Upto(i), i + 1)]
    BY <1>4, <1>5, <1>6 DEF reader_store
  <2>2. QED
    BY <1>6, <2>1 DEF CInv, PlacesOK
<1>8. /\ pc'[com_reader] = "loop" /\ pc'[com] = pc[com] /\ PlacesOK'
      /\ Serving' <=> Serving
  BY <1>2, <1>7 DEF reader_store, Goes, CInv, PlacesOK, Serving
<1>9. /\ Collecting' /\ ReaderBusy' /\ ~ JobPosted' /\ ~ DoneHanded' /\ ~ DonePosted'
      /\ ~ HasItem(com_reader) /\ ~ HasItem(com_reader)'
      /\ HasItem(com)' <=> HasItem(com)
  BY <1>2, <1>3, <1>4, <1>8
  DEF Collecting, ReaderBusy, JobPosted, DoneHanded, DonePosted, HasItem
<1>10. Roles'
  <2>1. Roles
    BY DEF CInv
  <2>2. "user" \notin Irq
    BY KernelAssumption
  <2>3. ASSUME NEW p \in Proc
        PROVE  /\ state'[p] \in {"SEND_BLOCKED", "REPLY_BLOCKED"} => p = client
               /\ state'[p] = "MESSAGE_BLOCKED" =>
                    \/ p = com /\ pc'[com] = "write" /\ cmd' > 0
                    \/ p = com_reader /\ pc'[com_reader] = "start"
               /\ resume'[p] = "receive" =>
                    \/ p = com /\ pc'[com] \in {"first", "second"}
                    \/ p = com_reader /\ pc'[com_reader] = "start"
               /\ resume'[p] \in Irq =>
                    p = com_reader /\ pc'[com_reader] = "waiting" /\ resume'[p] = COM1_IRQ
               /\ owed'[p] = IF p = com /\ Serving' THEN {client} ELSE {}
    BY <1>2, <1>3, <1>8, <2>1, <2>2 DEF Roles
  <2>4. QED
    BY <1>2, <1>3, <1>8, <2>1, <2>3 DEF Roles
<1>11. Items'
  BY <1>2, <1>8, <1>9 DEF CInv, Items, TheJob, Collecting
<1>12. Turns'
  BY <1>4, <1>8, <1>9 DEF Turns
<1>13. Progress'
  <2>1. Stored' = i + 1 /\ i + 1 \in 0 .. n
    BY <1>2, <1>5, <1>9 DEF Stored
  <2>2. Line(Stored, param_data[client][2])'
    BY <1>2, <1>5, <1>6, <2>1 DEF Line
  <2>3. QED
    BY <1>2, <1>4, <1>5, <1>7, <1>8, <2>1, <2>2 DEF Progress
<1>14. AnswerComplete' /\ SecondIsReader'
  BY <1>2, <1>4, <1>8 DEF AnswerComplete, SecondIsReader
<1>15. QED
  BY <1>2, <1>3, <1>8, <1>10, <1>11, <1>12, <1>13, <1>14 DEF CInv, NeverPanics

\* message(com_port, &msg): com waits for it, or will find it.
LEMMA ReportStep ==
  ASSUME CInv, reader_report
  PROVE  CInv'
<1>1. OneClient /\ OneClient' /\ KInv
  BY DEF CInv, OneClient, ComAssumption, client
<1> USE <1>1, ComConstants
<1> DEFINE n == param_data[client][2]
<1>2. /\ pc[com_reader] = "loop" /\ pc'[com_reader] = "start" /\ pc'[com] = pc[com]
      /\ Collecting /\ ReaderBusy /\ PlacesOK'
      /\ Serving' <=> Serving
      /\ message(com_reader, com_port, Done)
      /\ UNCHANGED <<sender_proc, cmd, i, input_buffer, line>>
  BY DEF reader_report, Goes, CInv, PlacesOK, Collecting, ReaderBusy, Serving
<1>3. /\ pc[com] \in {"write", "second"} /\ Serving /\ ~ JobPosted /\ ~ DoneHanded
      /\ state[client] = "REPLY_BLOCKED" /\ TheJob[2] = n
  BY <1>2, JobFacts
<1>4. i = n
  BY <1>2, <1>3 DEF reader_report, Complete, CInv, Items
<1>5. KInv'
  BY <1>2, MessageStep
<1>6. /\ state[com_reader] = "READY" /\ resume[com_reader] = "user" /\ fault' = "none"
      /\ resume' = resume /\ got' = got /\ owed' = owed
  BY <1>2, QueueFacts DEF message, Running
<1>7. state \in [Proc -> States] /\ param_data \in [Proc -> Data \cup {NULL}]
      /\ param_proc \in [Proc -> Proc \cup {NULL}]
  BY DEF KInv, TypeOK
<1>8. \/ /\ state[com] = "RECEIVE_BLOCKED" /\ blocked' = blocked
         /\ state' = [state EXCEPT ![com] = "READY"]
         /\ param_proc' = [param_proc EXCEPT ![com] = com_reader]
         /\ param_data' = [param_data EXCEPT ![com] = Done]
      \/ /\ state' = [state EXCEPT ![com_reader] = "MESSAGE_BLOCKED"]
         /\ blocked' = [blocked EXCEPT ![com_port] = Append(@, com_reader)]
         /\ param_proc' = param_proc
         /\ param_data' = [param_data EXCEPT ![com_reader] = Done]
  BY <1>2 DEF message, Receptive, add_to_send_blocked_list
<1>9. /\ \A p \in Proc \ {com, com_reader} : state'[p] = state[p] /\ param_data'[p] = param_data[p]
      /\ \/ /\ state[com] = "RECEIVE_BLOCKED" /\ state'[com] = "READY"
            /\ param_proc'[com] = com_reader /\ param_data'[com] = Done
            /\ state'[com_reader] = "READY"
         \/ /\ state'[com] = state[com]
            /\ state'[com_reader] = "MESSAGE_BLOCKED" /\ param_data'[com_reader] = Done
            /\ param_proc'[com] = param_proc[com] /\ param_data'[com] = param_data[com]
  BY <1>6, <1>7, <1>8
<1>10. /\ \A o \in Port \ {com_port} : blocked'[o] = blocked[o]
       /\ Members(blocked'[com_port]) \subseteq Members(blocked[com_port]) \cup {com_reader}
  <2>1. blocked \in [Port -> Seq(Proc)]
    BY DEF KInv, TypeOK
  <2>2. Members(Append(blocked[com_port], com_reader)) = Members(blocked[com_port]) \cup {com_reader}
    BY <2>1, AppendKeeps
  <2>3. QED
    BY <2>1, <2>2, <1>8
<1>11. Roles'
  <2>1. Roles
    BY DEF CInv
  <2>2. "user" \notin Irq
    BY KernelAssumption
  <2>3. ASSUME NEW p \in Proc
        PROVE  /\ state'[p] \in {"SEND_BLOCKED", "REPLY_BLOCKED"} => p = client
               /\ state'[p] = "MESSAGE_BLOCKED" =>
                    \/ p = com /\ pc'[com] = "write" /\ cmd' > 0
                    \/ p = com_reader /\ pc'[com_reader] = "start"
               /\ resume'[p] = "receive" =>
                    \/ p = com /\ pc'[com] \in {"first", "second"}
                    \/ p = com_reader /\ pc'[com_reader] = "start"
               /\ resume'[p] \in Irq =>
                    p = com_reader /\ pc'[com_reader] = "waiting" /\ resume'[p] = COM1_IRQ
               /\ owed'[p] = IF p = com /\ Serving' THEN {client} ELSE {}
    BY <1>2, <1>6, <1>9, <2>1, <2>2 DEF Roles
  <2>4. QED
    BY <1>2, <1>10, <2>1, <2>3 DEF Roles
<1>12. /\ DoneHanded' \/ DonePosted'
       /\ ~ (ReaderBusy' /\ DoneHanded') /\ ~ JobPosted'
       /\ ~ Collecting' /\ ~ HasItem(com_reader)'
       /\ pc'[com] = "write" => ~ HasItem(com)'
  <2>1. state[com] = "RECEIVE_BLOCKED" => resume[com] = "receive"
    BY PlaceFacts
  <2>2. resume[com] = "receive" => pc[com] = "second"
    BY <1>3 DEF CInv, Roles
  <2>3. QED
    BY <1>2, <1>3, <1>6, <1>9, <2>1, <2>2
    DEF DoneHanded, DonePosted, ReaderBusy, JobPosted, Collecting, HasItem
<1>13. Items'
  <2>1. DoneHanded' => param_proc'[com] = com_reader /\ param_data'[com] = Done
    BY <1>2, <1>3, <1>6, <1>9 DEF DoneHanded, HasItem
  <2>2. DonePosted' => param_data'[com_reader] = Done
    BY <1>6, <1>9 DEF DonePosted
  <2>3. QED
    BY <1>2, <1>3, <1>6, <1>9, <1>12, <2>1, <2>2 DEF CInv, Items
<1>14. Turns'
  BY <1>2, <1>3, <1>12 DEF Turns, ReaderBusy
<1>15. Progress'
  <2>1. input_buffer[client] = Upto(i) /\ Line(i, n) /\ i \in 0 .. n /\ n \in Nat
    BY <1>2, NextByte
  <2>2. Stored' = n /\ param_data'[client] = param_data[client]
    BY <1>9, <1>12 DEF Stored
  <2>3. Line(Stored, param_data[client][2])'
    BY <1>2, <1>4, <2>1, <2>2 DEF Line, Silent, line
  <2>4. QED
    BY <1>2, <1>3, <1>4, <2>1, <2>2, <2>3 DEF CInv, Progress
<1>16. AnswerComplete' /\ SecondIsReader'
  BY <1>2, <1>3, <1>9 DEF AnswerComplete, SecondIsReader
<1>17. QED
  BY <1>2, <1>5, <1>6, <1>11, <1>13, <1>14, <1>15, <1>16 DEF CInv, NeverPanics

-------------------------------------------------------------------------------
(* The line.                                                                   *)

\* The UART has sent a character.
LEMMA TransmitStep ==
  ASSUME CInv, transmit
  PROVE  CInv'
<1>1. OneClient /\ OneClient' /\ KInv /\ KInv'
  BY StutterStep DEF CInv, OneClient, ComAssumption, client, transmit
<1> USE <1>1, ComConstants
<1>2. /\ uart # NULL /\ uart' = NULL /\ answer' = answer \o uart
      /\ UNCHANGED <<state, resume, param_proc, param_data, blocked, got, owed, fault,
                     pc, sender_proc, cmd, i, input_buffer>>
  BY DEF transmit, vars, local
<1>3. PlacesOK' /\ Roles' /\ Items' /\ Turns' /\ AnswerComplete' /\ SecondIsReader' /\ NeverPanics'
  <2>1. /\ HasItem(com)' <=> HasItem(com)
        /\ HasItem(com_reader)' <=> HasItem(com_reader)
        /\ Serving' <=> Serving
        /\ JobPosted' <=> JobPosted
        /\ Collecting' <=> Collecting
        /\ DonePosted' <=> DonePosted
        /\ TheJob' = TheJob
    BY <1>2 DEF HasItem, Serving, JobPosted, Collecting, DonePosted, TheJob
  <2>2. /\ DoneHanded' <=> DoneHanded
        /\ ReaderBusy' <=> ReaderBusy
    BY <1>2, <2>1 DEF DoneHanded, ReaderBusy
  <2>3. PlacesOK'
    BY <1>2 DEF CInv, PlacesOK
  <2>4. Roles'
    <3>1. Roles
      BY DEF CInv
    <3>2. ASSUME NEW p \in Proc
          PROVE  /\ state'[p] \in {"SEND_BLOCKED", "REPLY_BLOCKED"} => p = client
                 /\ state'[p] = "MESSAGE_BLOCKED" =>
                      \/ p = com /\ pc'[com] = "write" /\ cmd' > 0
                      \/ p = com_reader /\ pc'[com_reader] = "start"
                 /\ resume'[p] = "receive" =>
                      \/ p = com /\ pc'[com] \in {"first", "second"}
                      \/ p = com_reader /\ pc'[com_reader] = "start"
                 /\ resume'[p] \in Irq =>
                      p = com_reader /\ pc'[com_reader] = "waiting" /\ resume'[p] = COM1_IRQ
                 /\ owed'[p] = IF p = com /\ Serving' THEN {client} ELSE {}
      BY <1>2, <2>1, <3>1 DEF Roles
    <3>3. QED
      BY <1>2, <3>1, <3>2 DEF Roles
  <2>5. Items'
    BY <1>2, <2>1, <2>2 DEF CInv, Items
  <2>6. Turns'
    BY <1>2, <2>1, <2>2 DEF CInv, Turns
  <2>7. AnswerComplete' /\ SecondIsReader'
    BY <1>2 DEF CInv, AnswerComplete, SecondIsReader
  <2>8. NeverPanics'
    BY <1>2 DEF CInv, NeverPanics
  <2>9. QED
    BY <2>3, <2>4, <2>5, <2>6, <2>7, <2>8
<1>4. << >> \o << >> = << >>
  OBVIOUS
<1>5. Silent => Silent'
  BY <1>2, <1>4 DEF Silent
<1>6. Stored' = Stored
  BY <1>2 DEF Stored, HasItem, JobPosted, Collecting
<1>7. ASSUME pc[com] \in {"write", "second", "answer"}
      PROVE  Line(Stored, param_data[client][2])' /\ (answer # << >> => answer' # << >>)
  <2> DEFINE n == param_data[client][2]
             j == Stored
  <2>1. /\ Line(j, n) /\ j \in 0 .. n /\ state[client] = "REPLY_BLOCKED"
    BY <1>7, PlaceFacts DEF CInv, Progress, Serving
  <2>2. n \in Nat /\ j \in Nat /\ j <= n
    BY <2>1 DEF CInv, Items
  <2>3. CASE pc[com] = "write" /\ cmd > 0 /\ j = 0 /\ Silent
    BY <1>2, <1>5, <1>6, <2>3 DEF Line, Silent
  <2>4. CASE cmd = 0 /\ j = 0 /\ answer = << >> /\ uart = Upto(n)
    <3>1. Rest(0, n) = Upto(n) /\ << >> \o Upto(n) = Upto(n)
      BY <2>2, ByteFacts
    <3>2. answer' = Rest(0, n)
      BY <1>2, <2>4, <3>1
    <3>3. QED
      BY <1>2, <1>6, <2>4, <3>2 DEF Line
  <2>5. CASE cmd = 0 /\ answer = Rest(j, n) /\ uart \in {NULL, << >>}
    <3>1. Rest(j, n) \in Seq(Nat)
      BY <2>2, ByteFacts
    <3>2. answer \in Seq(Nat) /\ uart = << >>
      BY <1>2, <2>5, <3>1
    <3>3. answer' = answer
      BY <1>2, <3>2
    <3>4. QED
      BY <1>2, <1>6, <2>5, <3>3 DEF Line
  <2>6. QED
    BY <2>1, <2>3, <2>4, <2>5 DEF Line
<1>8. pc[com_reader] \in {"waiting", "store"} => pc[com] \in {"write", "second", "answer"}
  BY JobFacts DEF ReaderBusy, Collecting
<1>9. Progress'
  BY <1>2, <1>5, <1>6, <1>7, <1>8 DEF CInv, Progress
<1>10. QED
  BY <1>3, <1>9 DEF CInv

\* A byte comes only while the reader waits for it.
LEMMA ByteAwaited ==
  ASSUME CInv, answer # << >>, com_reader \notin Queued(rq)
  PROVE  /\ Collecting /\ pc[com_reader] = "waiting"
         /\ interrupt_table[COM1_IRQ] = com_reader /\ Waiting(COM1_IRQ)
         /\ resume[com_reader] = COM1_IRQ
<1>1. OneClient /\ KInv
  BY DEF CInv
<1> USE <1>1, ComConstants
<1>2. ~ (state[com_reader] = "READY" /\ resume[com_reader] # "new")
  BY QueueFacts
<1>3. pc[com] \in {"write", "second"}
  BY WholeAtAnswer DEF CInv, PlacesOK, Progress, Silent
<1>4. ~ JobPosted
  BY DEF CInv, Progress, Roles, JobPosted, Line, Silent
<1>5. ~ HasItem(com_reader)
  BY <1>2 DEF HasItem
<1>6. Collecting
  <2>1. SUFFICES ASSUME ~ Collecting PROVE FALSE
    OBVIOUS
  <2>2. Stored = param_data[client][2]
    BY <1>4, <1>5, <2>1 DEF Stored
  <2>3. /\ state[client] = "REPLY_BLOCKED"
        /\ Line(Stored, Stored)
    BY <1>3, <2>2, PlaceFacts DEF CInv, Progress, Serving
  <2>4. Stored \in Nat
    BY <2>2, <2>3 DEF CInv, Items
  <2>5. Rest(Stored, Stored) = << >>
    BY <2>4, NothingLeft
  <2>6. QED
    BY <2>3, <2>5 DEF Line, Silent
<1>7. pc[com_reader] = "waiting" /\ resume[com_reader] = COM1_IRQ
  BY <1>2, <1>6 DEF Collecting, CInv, Roles
<1>8. state[com_reader] = "INTR_BLOCKED"
  <2>1. COM1_IRQ \notin {"user", "receive", "new"}
    BY KernelAssumption
  <2>2. QED
    BY <1>2, <1>7, <2>1, PlaceFacts
<1>9. interrupt_table[COM1_IRQ] = com_reader
  BY <1>7 DEF KInv, SlotsMatchWaiters
<1>10. QED
  BY <1>6, <1>7, <1>8, <1>9 DEF Waiting

\* The COM1 interrupt.
LEMMA ByteStep ==
  ASSUME CInv, isr_com1
  PROVE  CInv'
<1>1. OneClient /\ KInv
  BY DEF CInv
<1> USE <1>1, ComConstants
<1>2. /\ answer # << >> /\ com_reader \notin Queued(rq) /\ interrupt(COM1_IRQ)
      /\ UNCHANGED <<pc, sender_proc, cmd, i, input_buffer, line>>
  BY DEF isr_com1, local
<1>3. /\ Collecting /\ pc[com_reader] = "waiting"
      /\ interrupt_table[COM1_IRQ] = com_reader /\ Waiting(COM1_IRQ)
      /\ resume[com_reader] = COM1_IRQ
  BY <1>2, ByteAwaited
<1>4. KInv'
  BY <1>2, InterruptStep
<1>5. /\ state' = [state EXCEPT ![com_reader] = "READY"]
      /\ UNCHANGED <<param_proc, param_data, blocked, resume, got, owed>> /\ fault' = "none"
  BY <1>2, <1>3 DEF interrupt, Running
<1>6. ReaderMoves("waiting") /\ state'[com_reader] = "READY" /\ resume'[com_reader] = COM1_IRQ
  <2>1. pc' = [pc EXCEPT ![com_reader] = "waiting"]
    BY <1>2, <1>3 DEF CInv, PlacesOK
  <2>2. QED
    BY <1>2, <1>3, <1>5, <2>1 DEF ReaderMoves, KInv, TypeOK
<1>7. QED
  BY <1>2, <1>3, <1>4, <1>6, LoopStep

-------------------------------------------------------------------------------
(* The specification.                                                          *)

\* Nobody has asked anything yet.
LEMMA InitCInv ==
  ASSUME OneClient, ComInit
  PROVE  CInv
<1> USE ComConstants
<1>1. KInv
  BY InitKInv DEF ComInit
<1>2. /\ state = [p \in Proc |-> "READY"]
      /\ param_data = [p \in Proc |-> NULL]
      /\ resume = [p \in Proc |-> IF p = Boot THEN "user" ELSE "new"]
      /\ blocked = [o \in Port |-> << >>]
      /\ owed = [p \in Proc |-> {}] /\ fault = "none"
  BY DEF ComInit, Init
<1>3. /\ pc = [p \in {com, com_reader} |-> "start"]
      /\ pc[com] = "start" /\ pc[com_reader] = "start"
      /\ sender_proc = NULL /\ cmd = 0 /\ i = 0
      /\ input_buffer = [p \in Client |-> << >>]
      /\ uart = NULL /\ answer = << >>
  BY DEF ComInit
<1>4. PlacesOK
  BY <1>3 DEF PlacesOK
<1>5. Roles
  <2>1. {"user", "receive", "new"} \cap Irq = {}
    BY KernelAssumption
  <2>2. ASSUME NEW p \in Proc
        PROVE  /\ state[p] = "READY" /\ resume[p] \in {"user", "new"}
               /\ resume[p] \notin Irq /\ owed[p] = {}
    BY <1>2, <2>1
  <2>3. \A o \in Port : blocked[o] = << >> /\ Members(blocked[o]) = {}
    BY <1>2 DEF Members
  <2>4. ~ Serving
    BY <1>3 DEF Serving
  <2>5. QED
    BY <1>3, <2>2, <2>3, <2>4 DEF Roles
<1>6. /\ ~ HasItem(com) /\ ~ HasItem(com_reader) /\ ~ JobPosted /\ ~ Collecting
      /\ ~ DonePosted /\ ~ DoneHanded /\ ~ ReaderBusy /\ ~ Serving
  BY <1>2, <1>3 DEF HasItem, JobPosted, Collecting, DonePosted, DoneHanded, ReaderBusy, Serving
<1>7. Items
  BY <1>2, <1>3, <1>6 DEF Items
<1>8. Turns
  BY <1>3, <1>6 DEF Turns
<1>9. Progress
  BY <1>2, <1>3 DEF Progress, Silent
<1>10. AnswerComplete /\ SecondIsReader /\ NeverPanics
  BY <1>2, <1>3 DEF AnswerComplete, SecondIsReader, NeverPanics
<1>11. QED
  BY <1>1, <1>4, <1>5, <1>7, <1>8, <1>9, <1>10 DEF CInv

\* Boot creates the client and com_process, which creates the reader.
LEMMA StartStep ==
  ASSUME CInv, NEW p \in Proc, NEW q \in Proc, create_process(p, q),
         UNCHANGED <<sender_proc, cmd, i, input_buffer, line>>,
         pc' = pc \/ (pc[com] = "start" /\ pc' = [pc EXCEPT ![com] = "first"])
  PROVE  CInv'
<1>1. KInv /\ fault = "none"
  BY DEF CInv, NeverPanics
<1>2. KInv'
  BY <1>1, CreateStep
<1>3. /\ UNCHANGED <<state, param_proc, param_data, blocked, got, owed, fault>>
      /\ resume[q] = "new" /\ resume' = [resume EXCEPT ![q] = "user"]
  BY DEF create_process
<1>4. \A r \in Proc : resume'[r] = resume[r] \/ (resume[r] = "new" /\ resume'[r] = "user")
  <2>1. resume \in [Proc -> {"user", "receive", "new"} \cup Irq]
    BY <1>1 DEF KInv, TypeOK
  <2>2. QED
    BY <1>3, <2>1
<1>5. QED
  BY <1>1, <1>2, <1>3, <1>4, QuietStep

\* com_process calls receive() in two places.
LEMMA ComReceives ==
  ASSUME CInv, com_receive("first", "tell") \/ com_receive("second", "answer")
  PROVE  CInv'
<1>1. CASE receive_wait(com) /\ UNCHANGED <<pc, sender_proc>>
  BY <1>1, ComWaits DEF com_receive
<1>2. CASE com_receive("first", "tell") /\ (receive_pending(com) \/ receive_resume(com))
           /\ Goes(com, "first", "tell") /\ sender_proc' = got'[com].sender
  BY <1>2, FirstStep DEF com_receive
<1>3. CASE com_receive("second", "answer") /\ (receive_pending(com) \/ receive_resume(com))
           /\ Goes(com, "second", "answer") /\ sender_proc' = sender_proc
  BY <1>3, SecondStep DEF com_receive
<1>4. QED
  BY <1>1, <1>2, <1>3 DEF com_receive

\* Every step of the system keeps the invariant.
LEMMA ComStep ==
  ASSUME CInv, [ComNext]_com_vars
  PROVE  CInv'
<1>1. OneClient /\ KInv /\ fault = "none" /\ client \in Proc /\ Boot \in Proc
      /\ com \in Proc /\ com_reader \in Proc /\ Client = {client}
  BY ComConstants, KernelAssumption DEF CInv, NeverPanics
<1>2. ASSUME NEW p \in Proc, create(p) PROVE CInv'
  BY <1>1, <1>2, StartStep DEF create, local
<1>3. ASSUME NEW p \in Client, NEW n \in Lens, request(p, n) PROVE CInv'
  BY <1>1, <1>3, RequestStep
<1>4. CASE com_start
  BY <1>1, <1>4, StartStep DEF com_start, Goes
<1>5. CASE com_receive("first", "tell") \/ com_receive("second", "answer")
  BY <1>5, ComReceives
<1>6. CASE com_tell_reader
  BY <1>6, TellStep
<1>7. CASE com_write
  BY <1>7, WriteStep
<1>8. CASE com_reply
  BY <1>8, AnswerStep
<1>9. CASE reader_receive
  <2>1. CASE receive_wait(com_reader) /\ UNCHANGED <<pc, i>>
    BY <1>9, <2>1, ReaderRests DEF reader_receive, local
  <2>2. CASE /\ receive_pending(com_reader) \/ receive_resume(com_reader)
             /\ Goes(com_reader, "start", "loop") /\ i' = 0
    BY <1>9, <2>2, JobStep DEF reader_receive
  <2>3. QED
    BY <1>9, <2>1, <2>2 DEF reader_receive
<1>10. CASE reader_wait \/ reader_woken \/ reader_store \/ reader_report
  BY <1>10, ReaderWaitStep, ReaderWokenStep, StoreStep, ReportStep
<1>11. CASE transmit
  BY <1>11, TransmitStep
<1>12. CASE isr_com1
  BY <1>12, ByteStep
<1>13. ASSUME NEW p \in {Boot} \cup Client, resign(p), UNCHANGED <<local, line>> PROVE CInv'
  <2>1. KInv'
    BY <1>1, <1>13, ResignStep
  <2>2. UNCHANGED <<state, resume, param_proc, param_data, blocked, got, owed, fault>>
    BY <1>13 DEF resign
  <2>3. QED
    BY <1>1, <1>13, <2>1, <2>2, QuietStep DEF local
<1>14. ASSUME UNCHANGED vars, UNCHANGED <<local, line>> PROVE CInv'
  <2>1. KInv'
    BY <1>1, <1>14, StutterStep
  <2>2. QED
    BY <1>1, <1>14, <2>1, QuietStep DEF local, vars
<1>15. CASE com_steps
  BY <1>4, <1>5, <1>6, <1>7, <1>8, <1>15 DEF com_steps
<1>16. CASE reader_steps
  BY <1>9, <1>10, <1>16 DEF reader_steps
<1>17. CASE halt /\ UNCHANGED <<local, line>>
  BY <1>14, <1>17 DEF halt
<1>18. CASE UNCHANGED com_vars
  BY <1>14, <1>18 DEF com_vars
<1>19. QED
  BY <1>2, <1>3, <1>11, <1>12, <1>13, <1>15, <1>16, <1>17, <1>18 DEF ComNext

\* The invariant holds always.
THEOREM SerialInvariant == OneClient => (ComSpec => []CInv)
<1>1. OneClient /\ ComInit => CInv
  BY InitCInv
<1>2. CInv /\ [ComNext]_com_vars => CInv'
  BY ComStep
<1>3. OneClient /\ ComSpec => []CInv
  BY <1>1, <1>2, PTL DEF ComSpec
<1>4. QED
  BY <1>3

\* A client that is back from send() has the whole answer to its own command,
\* in order, for every length of commands and answers.
THEOREM AnswersComplete == OneClient => (ComSpec => []AnswerComplete)
<1>1. CInv => AnswerComplete
  BY DEF CInv
<1>2. QED
  BY <1>1, SerialInvariant, PTL

\* What com_process takes from its second receive() is the report of the reader.
THEOREM ReaderAnswersSecond == OneClient => (ComSpec => []SecondIsReader)
<1>1. CInv => SecondIsReader
  BY DEF CInv
<1>2. QED
  BY <1>1, SerialInvariant, PTL

\* No message goes to a process without a port, no byte finds the reader away
\* from wait_for_interrupt(), and no reply() is for somebody who does not wait.
THEOREM SerialNeverPanics == OneClient => (ComSpec => []NeverPanics)
<1>1. CInv => NeverPanics
  BY DEF CInv
<1>2. QED
  BY <1>1, SerialInvariant, PTL
================================================================================
