----------------------------- MODULE Process_proofs -----------------------------
(* Theorems about process.c: pools of any size are given out completely and     *)
(* without overlap, and what is made of them is complete before it can run.     *)
EXTENDS Process, FiniteSetTheorems, WellFoundedInduction, TLAPS

-------------------------------------------------------------------------------
(* Lists that are linked through a field.                                      *)

\* A non-empty set of natural numbers has a least element.
LEMMA LeastNumber ==
  ASSUME NEW T \in SUBSET Nat, T # {}
  PROVE  \E x \in T : \A y \in T : x <= y
<1>1. \E x \in T : \A y \in T : ~ (<<y, x>> \in OpToRel(<, Nat))
  BY NatLessThanWellFounded, WFMin
<1>2. PICK x \in T : \A y \in T : ~ (<<y, x>> \in OpToRel(<, Nat))
  BY <1>1
<1>3. ASSUME NEW y \in T PROVE x <= y
  <2>1. ~ (y < x)
    BY <1>2 DEF OpToRel
  <2>2. QED
    BY <2>1
<1>4. QED
  BY <1>3

\* c[1], ..., c[n] are the elements of the list that starts at first.
Chain(link, first, n, c) ==
  /\ \A k \in 1 .. n : c[k] # NULL
  /\ first = IF n = 0 THEN NULL ELSE c[1]
  /\ \A k \in 1 .. n : link[c[k]] = IF k = n THEN NULL ELSE c[k + 1]

\* The walk along a list finds its elements.  The walk is the function that its
\* recursive definition chooses; a shorter definition satisfies the recursion, and
\* there is no least place at which the two differ.
LEMMA ListFound ==
  ASSUME NEW link, NEW first, NEW bound \in Nat, NEW n \in 0 .. bound, NEW c,
         Chain(link, first, n, c)
  PROVE  ListOf(link, first, bound) = {c[k] : k \in 1 .. n}
<1> DEFINE F(f) == [k \in 0 .. bound |->
                     IF k = 0 THEN <<first, {}>>
                     ELSE LET w == f[k - 1]
                          IN  IF w[1] = NULL THEN <<NULL, w[2]>>
                                             ELSE <<link[w[1]], w[2] \cup {w[1]}>>]
           W == CHOOSE f : f = F(f)
           Seen(m) == {c[k] : k \in {j \in 1 .. n : j <= m}}
           Upto(k) == <<IF k < n THEN c[k + 1] ELSE NULL, Seen(k)>>
           g == [k \in 0 .. bound |-> Upto(k)]
<1>1. ListOf(link, first, bound) = IF W[bound][1] = NULL THEN W[bound][2] ELSE {}
  BY DEF ListOf
<1>2. ASSUME NEW f
      PROVE  /\ F(f) = [k \in 0 .. bound |-> F(f)[k]]
             /\ F(f)[0] = <<first, {}>>
             /\ \A k \in 1 .. bound :
                  /\ f[k - 1][1] = NULL => F(f)[k] = <<NULL, f[k - 1][2]>>
                  /\ f[k - 1][1] # NULL =>
                       F(f)[k] = <<link[f[k - 1][1]], f[k - 1][2] \cup {f[k - 1][1]}>>
  OBVIOUS
<1> HIDE DEF F
<1>3. g = [k \in 0 .. bound |-> g[k]] /\ \A k \in 0 .. bound : g[k] = Upto(k)
  OBVIOUS
<1> HIDE DEF g
<1>4. Upto(0) = <<first, {}>>
  BY DEF Chain
<1>5. ASSUME NEW k \in 1 .. bound, k <= n
      PROVE  /\ Upto(k - 1)[1] = c[k] /\ c[k] # NULL
             /\ Upto(k) = <<link[c[k]], Upto(k - 1)[2] \cup {c[k]}>>
  <2>1. k \in 1 .. n /\ k - 1 < n /\ (k - 1) + 1 = k
    BY <1>5
  <2>2. link[c[k]] = IF k < n THEN c[k + 1] ELSE NULL
    BY <2>1 DEF Chain
  <2>3. {j \in 1 .. n : j <= k} = {j \in 1 .. n : j <= k - 1} \cup {k}
    BY <2>1
  <2>4. Seen(k) = Seen(k - 1) \cup {c[k]}
    BY <2>3
  <2>5. QED
    BY <2>1, <2>2, <2>4 DEF Chain
<1>6. ASSUME NEW k \in 1 .. bound, ~ (k <= n)
      PROVE  Upto(k - 1)[1] = NULL /\ Upto(k) = <<NULL, Upto(k - 1)[2]>>
  <2>1. ~ (k < n) /\ ~ (k - 1 < n)
    BY <1>6
  <2>2. {j \in 1 .. n : j <= k} = {j \in 1 .. n : j <= k - 1}
    BY <1>6
  <2>3. Seen(k) = Seen(k - 1)
    BY <2>2
  <2>4. QED
    BY <2>1, <2>3
<1> HIDE DEF Upto
<1>7. g = F(g)
  <2>1. F(g)[0] = g[0]
    <3>1. 0 \in 0 .. bound
      OBVIOUS
    <3>2. g[0] = Upto(0)
      BY <1>3, <3>1
    <3>3. QED
      BY <1>2, <1>4, <3>2
  <2>2. ASSUME NEW k \in 1 .. bound PROVE F(g)[k] = g[k]
    <3>1. k - 1 \in 0 .. bound /\ k \in 0 .. bound
      OBVIOUS
    <3>2. g[k] = Upto(k) /\ g[k - 1] = Upto(k - 1)
      BY <1>3, <3>1
    <3>3. CASE k <= n
      <4>1. g[k - 1][1] = c[k] /\ c[k] # NULL
        BY <1>5, <3>2, <3>3
      <4>2. F(g)[k] = <<link[g[k - 1][1]], g[k - 1][2] \cup {g[k - 1][1]}>>
        BY <1>2, <4>1
      <4>3. QED
        BY <1>5, <3>2, <3>3, <4>1, <4>2
    <3>4. CASE ~ (k <= n)
      BY <1>2, <1>6, <3>2, <3>4, SMTT(30)
    <3>5. QED
      BY <3>3, <3>4
  <2>3. \A k \in 0 .. bound : F(g)[k] = g[k]
    BY <2>1, <2>2
  <2>4. F(g) = [k \in 0 .. bound |-> F(g)[k]]
    BY <1>2
  <2>5. QED
    BY <1>3, <2>3, <2>4
<1>8. W = F(W)
  BY <1>7
<1> HIDE DEF W
<1>9. \A k \in 0 .. bound : W[k] = g[k]
  <2> DEFINE T == {k \in 0 .. bound : W[k] # g[k]}
  <2>1. SUFFICES ASSUME T # {} PROVE FALSE
    OBVIOUS
  <2>2. T \in SUBSET Nat
    OBVIOUS
  <2>3. PICK k \in T : \A j \in T : k <= j
    BY <2>1, <2>2, LeastNumber
  <2>4. F(W)[0] = F(g)[0]
    BY <1>2
  <2>5. k \in 1 .. bound /\ W[k] # g[k]
    BY <1>7, <1>8, <2>4
  <2>6. k - 1 \in 0 .. bound /\ ~ (k <= k - 1)
    BY <2>5
  <2>7. W[k - 1] = g[k - 1]
    BY <2>3, <2>6
  <2>8. F(W)[k] = F(g)[k]
    BY <1>2, <2>5, <2>7, ZenonT(40)
  <2>9. QED
    BY <1>7, <1>8, <2>5, <2>8
<1>10. W[bound] = Upto(bound)
  BY <1>3, <1>9
<1>11. Upto(bound) = <<NULL, {c[k] : k \in 1 .. n}>>
  <2>1. ~ (bound < n)
    OBVIOUS
  <2>2. {j \in 1 .. n : j <= bound} = 1 .. n
    OBVIOUS
  <2>3. Seen(bound) = {c[k] : k \in 1 .. n}
    BY <2>2
  <2>4. QED
    BY <2>1, <2>3 DEF Upto
<1>12. QED
  BY <1>1, <1>10, <1>11

-------------------------------------------------------------------------------
(* The inductive invariant.                                                    *)

Places == {"fill", "port", "stack", "queue"}
Calls == {NoCall} \cup [at : Places, new : 1 .. MAX_PROCS - 1, prio : 0 .. MAX_READY_QUEUES - 1]

FieldTypes ==
  /\ next_free_pcb \in (1 .. MAX_PROCS - 1) \cup {NULL}
  /\ next_free_port \in port \cup {NULL}
  /\ next_port \in [port -> port \cup {NULL}]
  /\ owner \in [port -> pcb \cup {NULL}]
  /\ used \in [pcb -> BOOLEAN]
  /\ prio \in [pcb -> Nat]
  /\ first_port \in [pcb -> port \cup {NULL}]
  /\ esp \in [pcb -> Int \cup {NULL}]
  /\ ready \in SUBSET pcb
  /\ call \in [pcb -> Calls]

\* The free PCBs are those from here on, the free ports likewise.
FirstFree == IF next_free_pcb = NULL THEN MAX_PROCS ELSE next_free_pcb
FirstFreePort == IF next_free_port = NULL THEN MAX_PORTS + 1 ELSE next_free_port

\* The free lists still have the order that init_process() and init_ipc() gave
\* them, and a port has an owner from when it has left its free list.
FreeInOrder ==
  /\ next = Links(1, MAX_PROCS - 1)
  /\ \A o \in port :
       /\ owner[o] = NULL <=> o >= FirstFreePort
       /\ o >= FirstFreePort => next_port[o] = IF o = MAX_PORTS THEN NULL ELSE o + 1

\* A PCB that has left the free list is ready, or one call of create_process()
\* has it.
InHands ==
  /\ active_proc \in ready /\ 0 \in ready
  /\ \A x \in ready : x < FirstFree
  /\ \A p \in pcb : call[p] # NoCall => call[p].new < FirstFree /\ call[p].new \notin ready
  /\ \A p, q \in pcb : call[p] # NoCall /\ call[q] # NoCall /\ call[p].new = call[q].new => p = q
  /\ \A x \in pcb : x < FirstFree /\ x \notin ready => \E p \in pcb : call[p].new = x

\* create_process() has given x a port, and perhaps more.
HasPort(x) ==
  x \in ready \/ \E p \in pcb : call[p].new = x /\ call[p].at \in {"stack", "queue"}

OwnersExist == \A o \in port : owner[o] # NULL => HasPort(owner[o])

\* A list of ports that starts at first has those that belong to x.  The one that
\* was taken last comes first, so that no list is longer than its first number.
Lists(first, link, x) ==
  \E n \in 0 .. MAX_PORTS, c \in [1 .. MAX_PORTS -> port] :
    /\ Chain(link, first, n, c)
    /\ {c[k] : k \in 1 .. n} = {o \in port : owner[o] = x}
    /\ \A k \in 1 .. n : c[k] >= n - (k - 1)

PortsListed == \A x \in pcb : Lists(first_port[x], next_port, x)

\* What the steps of create_process() have made of x.
Filled(x) == used[x] /\ prio[x] < MAX_READY_QUEUES
Owns(x) == \E o \in port : owner[o] = x
HasStack(x) == esp[x] = 640 - 16 * x

CallDone(p) ==
  /\ call[p].at \in {"port", "stack", "queue"} => Filled(call[p].new)
  /\ call[p].at \in {"stack", "queue"} => Owns(call[p].new)
  /\ call[p].at = "queue" => HasStack(call[p].new)

StepsDone ==
  /\ \A p \in pcb : CallDone(p)
  /\ \A x \in ready \ {0} : Filled(x) /\ Owns(x) /\ HasStack(x)
  /\ esp[0] = 0

ProcessInv ==
  FieldTypes /\ FreeInOrder /\ InHands /\ OwnersExist /\ PortsListed /\ StepsDone

-------------------------------------------------------------------------------
(* What the parts of the invariant mean for the lists.                         *)

\* Numbers and NULL.
LEMMA Numbers ==
  /\ MAX_PROCS \in Nat /\ MAX_PROCS >= 2 /\ MAX_PROCS <= 40
  /\ MAX_PORTS \in Nat /\ MAX_PORTS >= 1 /\ MAX_READY_QUEUES \in Nat
  /\ NULL \notin Nat /\ NULL \notin pcb /\ NULL \notin port
  /\ 0 \in pcb /\ pcb \subseteq Nat /\ port \subseteq Nat \ {0}
<1>1. QED
  BY ProcessAssumption DEF pcb, port

\* A process is in a call, or it has no PCB in its hands.
LEMMA CallFacts ==
  ASSUME FieldTypes, NEW p \in pcb
  PROVE  /\ call[p] = NoCall <=> call[p].at = "user"
         /\ call[p].at = "user" => call[p].new = NULL
         /\ call[p].at # "user" =>
              call[p].at \in Places /\ call[p].new \in pcb \ {0}
              /\ call[p].prio \in 0 .. MAX_READY_QUEUES - 1
<1>1. call[p] \in Calls
  BY DEF FieldTypes
<1>2. CASE call[p] = NoCall
  BY <1>2 DEF NoCall
<1>3. CASE call[p] \in [at : Places, new : 1 .. MAX_PROCS - 1, prio : 0 .. MAX_READY_QUEUES - 1]
  <2>1. call[p].at \in Places /\ call[p].new \in 1 .. MAX_PROCS - 1
        /\ call[p].prio \in 0 .. MAX_READY_QUEUES - 1
    BY <1>3
  <2>2. call[p].at # "user"
    BY <2>1 DEF Places
  <2>3. call[p].new \in pcb \ {0}
    BY <2>1, Numbers DEF pcb
  <2>4. QED
    BY <2>1, <2>2, <2>3 DEF NoCall
<1>4. QED
  BY <1>1, <1>2, <1>3 DEF Calls

\* The free lists are what they look like.
LEMMA FreePcbsFound ==
  ASSUME FieldTypes, FreeInOrder
  PROVE  FreePcbs = {x \in pcb : x >= FirstFree}
<1> DEFINE n == MAX_PROCS - FirstFree
           c == [k \in 1 .. MAX_PROCS |-> FirstFree + (k - 1)]
<1>1. FirstFree \in 1 .. MAX_PROCS
  BY Numbers DEF FieldTypes, FirstFree
<1>2. n \in 0 .. MAX_PROCS
  BY <1>1, Numbers
<1>3. ASSUME NEW k \in 1 .. n
      PROVE  /\ c[k] = FirstFree + (k - 1) /\ c[k] # NULL /\ c[k] \in 1 .. MAX_PROCS - 1
             /\ next[c[k]] = IF k = n THEN NULL ELSE c[k + 1]
  <2>1. k \in 1 .. MAX_PROCS /\ c[k] = FirstFree + (k - 1)
    BY <1>1, <1>2, Numbers
  <2>2. c[k] \in 1 .. MAX_PROCS - 1
    BY <1>1, <2>1, Numbers
  <2>3. next[c[k]] = IF c[k] = MAX_PROCS - 1 THEN NULL ELSE c[k] + 1
    BY <2>2 DEF FreeInOrder, Links
  <2>4. c[k] = MAX_PROCS - 1 <=> k = n
    BY <1>1, <2>1, Numbers
  <2>5. ASSUME k # n PROVE c[k + 1] = c[k] + 1
    BY <1>1, <1>2, <2>1, <2>5, Numbers
  <2>6. QED
    BY <2>1, <2>2, <2>3, <2>4, <2>5, Numbers
<1>4. next_free_pcb = IF n = 0 THEN NULL ELSE c[1]
  BY <1>1, Numbers DEF FieldTypes, FirstFree
<1>5. Chain(next, next_free_pcb, n, c)
  BY <1>3, <1>4 DEF Chain
<1>6. {c[k] : k \in 1 .. n} = {x \in pcb : x >= FirstFree}
  <2>1. ASSUME NEW x \in pcb, x >= FirstFree PROVE \E k \in 1 .. n : c[k] = x
    <3>1. x - FirstFree + 1 \in 1 .. n
      BY <1>1, <2>1, Numbers DEF pcb
    <3>2. c[(x - FirstFree) + 1] = x
      BY <1>1, <1>3, <2>1, <3>1, Numbers DEF pcb
    <3>3. QED
      BY <3>1, <3>2
  <2>2. ASSUME NEW k \in 1 .. n PROVE c[k] \in pcb /\ c[k] >= FirstFree
    BY <1>1, <1>2, <1>3, Numbers DEF pcb
  <2> HIDE DEF c
  <2>3. QED
    BY <2>1, <2>2
<1> HIDE DEF n, c
<1>7. QED
  BY <1>2, <1>5, <1>6, Numbers, ListFound DEF FreePcbs

LEMMA FreePortsFound ==
  ASSUME FieldTypes, FreeInOrder
  PROVE  FreePorts = {o \in port : owner[o] = NULL}
<1> DEFINE n == (MAX_PORTS + 1) - FirstFreePort
           c == [k \in 1 .. MAX_PORTS |-> FirstFreePort + (k - 1)]
<1>1. FirstFreePort \in 1 .. MAX_PORTS + 1
  BY Numbers DEF FieldTypes, FirstFreePort, port
<1>2. n \in 0 .. MAX_PORTS
  BY <1>1, Numbers
<1>3. ASSUME NEW k \in 1 .. n
      PROVE  /\ c[k] = FirstFreePort + (k - 1) /\ c[k] # NULL /\ c[k] \in port
             /\ next_port[c[k]] = IF k = n THEN NULL ELSE c[k + 1]
  <2>1. k \in 1 .. MAX_PORTS /\ c[k] = FirstFreePort + (k - 1)
    BY <1>1, <1>2, Numbers
  <2>2. c[k] \in port /\ c[k] >= FirstFreePort
    BY <1>1, <2>1, Numbers DEF port
  <2>3. next_port[c[k]] = IF c[k] = MAX_PORTS THEN NULL ELSE c[k] + 1
    BY <2>2 DEF FreeInOrder
  <2>4. c[k] = MAX_PORTS <=> k = n
    BY <1>1, <2>1, Numbers
  <2>5. ASSUME k # n PROVE c[k + 1] = c[k] + 1
    BY <1>1, <1>2, <2>1, <2>5, Numbers
  <2>6. QED
    BY <2>1, <2>2, <2>3, <2>4, <2>5, Numbers
<1>4. next_free_port = IF n = 0 THEN NULL ELSE c[1]
  BY <1>1, Numbers DEF FieldTypes, FirstFreePort, port
<1>5. Chain(next_port, next_free_port, n, c)
  BY <1>3, <1>4 DEF Chain
<1>6. {c[k] : k \in 1 .. n} = {o \in port : owner[o] = NULL}
  <2>1. ASSUME NEW o \in port, o >= FirstFreePort PROVE \E k \in 1 .. n : c[k] = o
    <3>1. (o - FirstFreePort) + 1 \in 1 .. n
      BY <1>1, <2>1, Numbers DEF port
    <3>2. c[(o - FirstFreePort) + 1] = o
      BY <1>1, <1>3, <2>1, <3>1, Numbers DEF port
    <3>3. QED
      BY <3>1, <3>2
  <2>2. ASSUME NEW k \in 1 .. n PROVE c[k] \in port /\ c[k] >= FirstFreePort
    BY <1>1, <1>2, <1>3, Numbers DEF port
  <2> HIDE DEF c
  <2>3. \A o \in port : owner[o] = NULL <=> o >= FirstFreePort
    BY DEF FreeInOrder
  <2>4. QED
    BY <2>1, <2>2, <2>3
<1> HIDE DEF n, c
<1>7. QED
  BY <1>2, <1>5, <1>6, Numbers, ListFound DEF FreePorts

LEMMA PortsFound ==
  ASSUME PortsListed, NEW x \in pcb
  PROVE  PortsOf(x) = {o \in port : owner[o] = x}
<1>1. PICK n \in 0 .. MAX_PORTS, c \in [1 .. MAX_PORTS -> port] :
        /\ Chain(next_port, first_port[x], n, c)
        /\ {c[k] : k \in 1 .. n} = {o \in port : owner[o] = x}
  BY DEF PortsListed, Lists
<1>2. ListOf(next_port, first_port[x], MAX_PORTS) = {c[k] : k \in 1 .. n}
  BY <1>1, Numbers, ListFound
<1>3. QED
  BY <1>1, <1>2 DEF PortsOf

-------------------------------------------------------------------------------
(* The steps.                                                                  *)

\* take_port(q) for any q: the free list loses its first port, the list of q gets
\* it, and no other list changes.
LEMMA PortTaken ==
  ASSUME FieldTypes, FreeInOrder, PortsListed, next = next',
         NEW q \in pcb, next_free_port # NULL, take_port(q)
  PROVE  /\ next_free_port' \in port \cup {NULL} /\ next_port' \in [port -> port \cup {NULL}]
         /\ owner' \in [port -> pcb \cup {NULL}] /\ first_port' \in [pcb -> port \cup {NULL}]
         /\ FreeInOrder' /\ PortsListed'
         /\ \A x \in pcb : Owns(x) \/ x = q => Owns(x)'
         /\ \A o \in port : owner'[o] = owner[o] \/ owner'[o] = q
<1> DEFINE o == next_free_port
<1>1. o \in port /\ FirstFreePort = o /\ q # NULL
  BY Numbers DEF FieldTypes, FirstFreePort
<1>2. owner[o] = NULL /\ next_port[o] = IF o = MAX_PORTS THEN NULL ELSE o + 1
  BY <1>1, Numbers DEF FreeInOrder, port
<1>3. /\ next_free_port' = next_port[o]
      /\ owner' = [owner EXCEPT ![o] = q]
      /\ next_port' = [next_port EXCEPT ![o] = first_port[q]]
      /\ first_port' = [first_port EXCEPT ![q] = o]
  BY DEF take_port
<1>4. next_free_port' \in port \cup {NULL} /\ FirstFreePort' = o + 1
  <2>1. o \in Nat /\ o >= 1 /\ o <= MAX_PORTS /\ MAX_PORTS \in Nat
    BY <1>1, Numbers DEF port
  <2>2. CASE o = MAX_PORTS
    BY <1>2, <1>3, <2>2 DEF FirstFreePort
  <2>3. CASE o # MAX_PORTS
    <3>1. next_free_port' = o + 1
      BY <1>2, <1>3, <2>3
    <3>2. o + 1 \in port /\ o + 1 # NULL
      BY <2>1, <2>3, Numbers DEF port
    <3>3. QED
      BY <3>1, <3>2 DEF FirstFreePort
  <2>4. QED
    BY <2>2, <2>3
<1>5. /\ next_port' \in [port -> port \cup {NULL}] /\ owner' \in [port -> pcb \cup {NULL}]
      /\ first_port' \in [pcb -> port \cup {NULL}]
  BY <1>1, <1>3 DEF FieldTypes
<1>6. /\ owner'[o] = q /\ next_port'[o] = first_port[q] /\ first_port'[q] = o
      /\ \A r \in port \ {o} : owner'[r] = owner[r] /\ next_port'[r] = next_port[r]
      /\ \A x \in pcb \ {q} : first_port'[x] = first_port[x]
  BY <1>1, <1>3 DEF FieldTypes
<1>7. ASSUME NEW r \in port
      PROVE  /\ (owner'[r] = NULL <=> r >= o + 1)
             /\ (r >= o + 1 => next_port'[r] = IF r = MAX_PORTS THEN NULL ELSE r + 1)
  <2>1. /\ (owner[r] = NULL <=> r >= o)
        /\ (r >= o => next_port[r] = IF r = MAX_PORTS THEN NULL ELSE r + 1)
    BY <1>1 DEF FreeInOrder
  <2>2. CASE r = o
    BY <1>1, <1>6, <2>2, Numbers DEF port
  <2>3. CASE r # o
    BY <1>1, <1>6, <2>1, <2>3, Numbers DEF port
  <2>4. QED
    BY <2>2, <2>3
<1>8. FreeInOrder'
  BY <1>4, <1>7 DEF FreeInOrder
<1>9. ASSUME NEW x \in pcb PROVE Lists(first_port[x], next_port, x)'
  <2>1. PICK n \in 0 .. MAX_PORTS, c \in [1 .. MAX_PORTS -> port] :
          /\ Chain(next_port, first_port[x], n, c)
          /\ {c[k] : k \in 1 .. n} = {r \in port : owner[r] = x}
          /\ \A k \in 1 .. n : c[k] >= n - (k - 1)
    BY DEF PortsListed, Lists
  <2>2. ASSUME NEW k \in 1 .. n
        PROVE  /\ c[k] \in port \ {o} /\ c[k] < o /\ c[k] # NULL
               /\ next_port'[c[k]] = IF k = n THEN NULL ELSE c[k + 1]
    <3>1. k \in 1 .. MAX_PORTS /\ c[k] \in port /\ owner[c[k]] = x /\ x # NULL
      BY <2>1, Numbers
    <3>2. ~ (c[k] >= o)
      BY <1>1, <3>1 DEF FreeInOrder
    <3>3. c[k] \in port \ {o} /\ c[k] < o
      <4>1. c[k] \in Nat /\ o \in Nat
        BY <1>1, <3>1, Numbers
      <4>2. QED
        BY <3>1, <3>2, <4>1
    <3>4. next_port[c[k]] = IF k = n THEN NULL ELSE c[k + 1]
      BY <2>1 DEF Chain
    <3>5. QED
      BY <1>6, <3>1, <3>3, <3>4, Numbers
  <2>3. first_port[x] = IF n = 0 THEN NULL ELSE c[1]
    BY <2>1 DEF Chain
  <2>4. CASE x # q
    <3>1. {r \in port : owner'[r] = x} = {r \in port : owner[r] = x}
      BY <1>1, <1>2, <1>6, <2>4, Numbers
    <3>2. Chain(next_port', first_port'[x], n, c)
      BY <1>6, <2>2, <2>3, <2>4 DEF Chain
    <3>3. QED
      BY <2>1, <3>1, <3>2 DEF Lists
  <2>5. CASE x = q
    <3> DEFINE m == n + 1
               d == [k \in 1 .. MAX_PORTS |-> IF k = 1 THEN o ELSE c[k - 1]]
    <3>1. n = 0 \/ (c[1] >= n /\ c[1] < o)
      <4>1. CASE n # 0
        <5>1. 1 \in 1 .. n /\ n - (1 - 1) = n
          BY <4>1
        <5>2. QED
          BY <2>1, <2>2, <5>1
      <4>2. QED
        BY <4>1
    <3>2. m <= o /\ m \in 1 .. MAX_PORTS
      <4>1. CASE n = 0
        BY <1>1, <4>1, Numbers DEF port
      <4>2. CASE n # 0
        <5>1. c[1] \in Nat /\ c[1] >= n /\ c[1] < o
          <6>1. 1 \in 1 .. n
            BY <4>2
          <6>2. QED
            BY <2>2, <3>1, <4>2, <6>1, Numbers
        <5>2. o \in Nat /\ o <= MAX_PORTS /\ MAX_PORTS \in Nat
          BY <1>1, Numbers DEF port
        <5>3. QED
          BY <5>1, <5>2
      <4>3. QED
        BY <4>1, <4>2
    <3>3. ASSUME NEW k \in 1 .. MAX_PORTS, k # 1 PROVE k - 1 \in 1 .. MAX_PORTS /\ d[k] = c[k - 1]
      BY <3>3, Numbers
    <3>4. d \in [1 .. MAX_PORTS -> port] /\ d[1] = o
      BY <1>1, <3>3, Numbers
    <3> HIDE DEF d
    <3>5. ASSUME NEW k \in 1 .. m, k # 1
          PROVE  k \in 1 .. MAX_PORTS /\ k - 1 \in 1 .. n /\ d[k] = c[k - 1]
      BY <3>2, <3>3, <3>5, Numbers
    <3>6. ASSUME NEW k \in 1 .. m
          PROVE  /\ d[k] # NULL
                 /\ next_port'[d[k]] = IF k = m THEN NULL ELSE d[k + 1]
                 /\ d[k] >= m - (k - 1)
      <4>1. CASE k = 1
        <5>1. n = 0 \/ d[2] = c[1]
          <6>1. CASE n # 0
            <7>1. 2 \in 1 .. m /\ 2 - 1 = 1
              BY <6>1
            <7>2. QED
              BY <3>5, <7>1
          <6>2. QED
            BY <6>1
        <5>2. next_port'[o] = IF n = 0 THEN NULL ELSE d[2]
          BY <1>6, <2>3, <2>5, <5>1
        <5>3. QED
          BY <1>1, <3>2, <3>4, <4>1, <5>2, Numbers
      <4>2. CASE k # 1
        <5>1. k - 1 \in 1 .. n /\ d[k] = c[k - 1]
          BY <3>5, <4>2
        <5>2. next_port'[c[k - 1]] = IF k - 1 = n THEN NULL ELSE c[(k - 1) + 1]
          BY <2>2, <5>1
        <5>3. k = m \/ d[k + 1] = c[k]
          <6>1. CASE k # m
            <7>1. k + 1 \in 1 .. m /\ k + 1 # 1 /\ (k + 1) - 1 = k
              BY <6>1
            <7>2. QED
              BY <3>5, <7>1
          <6>2. QED
            BY <6>1
        <5>4. k - 1 = n <=> k = m
          BY <5>1
        <5>5. c[k - 1] >= n - ((k - 1) - 1) /\ c[k - 1] \in Nat
          BY <2>1, <2>2, <5>1, Numbers
        <5>6. d[k] >= m - (k - 1)
          BY <5>1, <5>5
        <5>7. (k - 1) + 1 = k
          OBVIOUS
        <5>8. QED
          BY <2>2, <5>1, <5>2, <5>3, <5>4, <5>6, <5>7
      <4>3. QED
        BY <4>1, <4>2
    <3>7. Chain(next_port', first_port'[q], m, d)
      BY <1>6, <3>2, <3>4, <3>6 DEF Chain
    <3>8. {d[k] : k \in 1 .. m} = {r \in port : owner'[r] = q}
      <4>1. ASSUME NEW k \in 1 .. m PROVE d[k] \in port /\ owner'[d[k]] = q
        <5>1. CASE k = 1
          BY <1>1, <1>6, <3>4, <5>1
        <5>2. CASE k # 1
          <6>1. k - 1 \in 1 .. n /\ d[k] = c[k - 1]
            BY <3>5, <5>2
          <6>2. owner[c[k - 1]] = q
            BY <2>1, <2>5, <6>1
          <6>3. QED
            BY <1>6, <2>2, <6>1, <6>2
        <5>3. QED
          BY <5>1, <5>2
      <4>2. ASSUME NEW r \in port, owner'[r] = q PROVE \E k \in 1 .. m : d[k] = r
        <5>1. CASE r = o
          BY <3>2, <3>4, <5>1
        <5>2. CASE r # o
          <6>1. owner[r] = q
            BY <1>6, <4>2, <5>2
          <6>2. PICK k \in 1 .. n : c[k] = r
            BY <2>1, <2>5, <6>1
          <6>3. k + 1 \in 1 .. m /\ k + 1 # 1 /\ (k + 1) - 1 = k
            OBVIOUS
          <6>4. d[k + 1] = r
            BY <3>5, <6>2, <6>3
          <6>5. QED
            BY <6>3, <6>4
        <5>3. QED
          BY <5>1, <5>2
      <4> HIDE DEF m
      <4>3. QED
        BY <4>1, <4>2
    <3>9. m \in 0 .. MAX_PORTS
      BY <3>2
    <3> HIDE DEF m
    <3>10. QED
      BY <2>5, <3>4, <3>6, <3>7, <3>8, <3>9 DEF Lists
  <2>6. QED
    BY <2>4, <2>5
<1>10. PortsListed'
  BY <1>9 DEF PortsListed
<1>11. \A x \in pcb : Owns(x) \/ x = q => Owns(x)'
  <2>1. ASSUME NEW x \in pcb, Owns(x) \/ x = q PROVE \E r \in port : owner'[r] = x
    <3>1. CASE x = q
      BY <1>1, <1>6, <3>1
    <3>2. CASE x # q
      <4>1. PICK r \in port : owner[r] = x
        BY <2>1, <3>2 DEF Owns
      <4>2. r # o
        BY <1>2, <4>1, Numbers
      <4>3. QED
        BY <1>6, <4>1, <4>2
    <3>3. QED
      BY <3>1, <3>2
  <2>2. QED
    BY <2>1 DEF Owns
<1>12. QED
  BY <1>4, <1>5, <1>6, <1>8, <1>10, <1>11

\* A step that changes nothing but the fault.
LEMMA NothingChanged ==
  ASSUME ProcessInv, UNCHANGED <<active_proc, pool, fields, ready, call>>
  PROVE  ProcessInv'
<1>1. UNCHANGED <<active_proc, next_free_pcb, next, next_free_port, next_port, used, prio,
                  first_port, esp, owner, ready, call>>
  BY DEF pool, fields
<1>2. FieldTypes' /\ FreeInOrder' /\ InHands'
  BY <1>1 DEF ProcessInv, FieldTypes, FreeInOrder, InHands, FirstFree, FirstFreePort
<1>3. OwnersExist' /\ PortsListed'
  BY <1>1 DEF ProcessInv, OwnersExist, HasPort, PortsListed, Lists
<1>4. StepsDone'
  BY <1>1 DEF ProcessInv, StepsDone, CallDone, Filled, Owns, HasStack
<1>5. QED
  BY <1>2, <1>3, <1>4 DEF ProcessInv

\* The initial state.
LEMMA ProcessInitially == ProcessInit => ProcessInv
<1> SUFFICES ASSUME ProcessInit PROVE ProcessInv
  OBVIOUS
<1>1. FieldTypes
  BY Numbers, ProcessAssumption DEF ProcessInit, FieldTypes, Links, Calls, pcb, port
<1>2. FirstFree = 1 /\ FirstFreePort = 1
  BY Numbers DEF ProcessInit, FirstFree, FirstFreePort
<1>3. FreeInOrder
  <2>1. next = Links(1, MAX_PROCS - 1)
    BY DEF ProcessInit
  <2>2. ASSUME NEW o \in port
        PROVE  /\ owner[o] = NULL /\ o >= 1
               /\ next_port[o] = IF o = MAX_PORTS THEN NULL ELSE o + 1
    BY Numbers DEF ProcessInit, Links, port
  <2>3. QED
    BY <1>2, <2>1, <2>2 DEF FreeInOrder
<1>4. /\ active_proc = 0 /\ ready = {0} /\ esp[0] = 0
      /\ \A p \in pcb : call[p] = NoCall /\ first_port[p] = NULL
      /\ \A o \in port : owner[o] = NULL
  BY Numbers DEF ProcessInit
<1>5. InHands
  <2>1. ASSUME NEW x \in pcb, x < FirstFree PROVE x = 0
    BY <1>2, <2>1 DEF pcb
  <2>2. QED
    BY <1>2, <1>4, <2>1 DEF InHands
<1>6. OwnersExist
  BY <1>4 DEF OwnersExist
<1>7. ASSUME NEW x \in pcb PROVE Lists(first_port[x], next_port, x)
  <2> DEFINE c == [k \in 1 .. MAX_PORTS |-> 1]
  <2>1. 0 \in 0 .. MAX_PORTS /\ c \in [1 .. MAX_PORTS -> port] /\ 1 .. 0 = {}
    BY Numbers DEF port
  <2> HIDE DEF c
  <2>2. Chain(next_port, first_port[x], 0, c)
    BY <1>4, <2>1 DEF Chain
  <2>3. {c[k] : k \in 1 .. 0} = {o \in port : owner[o] = x}
    BY <1>4, <2>1, Numbers
  <2>4. QED
    BY <2>1, <2>2, <2>3 DEF Lists
<1>8. PortsListed
  BY <1>7 DEF PortsListed
<1>9. StepsDone
  BY <1>4 DEF StepsDone, CallDone, NoCall
<1>10. QED
  BY <1>1, <1>3, <1>5, <1>6, <1>8, <1>9 DEF ProcessInv

\* A step of create_process() that goes on to the next place.
LEMMA CallGoesOn ==
  ASSUME FieldTypes, NEW p \in pcb, NEW b \in Places, call[p].at # "user", Goes(p, b)
  PROVE  /\ call' \in [pcb -> Calls]
         /\ call'[p].at = b /\ \A q \in pcb \ {p} : call'[q] = call[q]
         /\ \A q \in pcb : call'[q].new = call[q].new /\ (call'[q] = NoCall <=> call[q] = NoCall)
<1> DEFINE R == [call[p] EXCEPT !.at = b]
<1>1. call' = [call EXCEPT ![p] = R]
  BY DEF Goes
<1>2. call[p] \in [at : Places, new : 1 .. MAX_PROCS - 1, prio : 0 .. MAX_READY_QUEUES - 1]
  <2>1. call[p] # NoCall /\ call[p] \in Calls
    BY CallFacts DEF FieldTypes
  <2>2. QED
    BY <2>1 DEF Calls
<1>3. /\ R \in [at : Places, new : 1 .. MAX_PROCS - 1, prio : 0 .. MAX_READY_QUEUES - 1]
      /\ R.at = b /\ R.new = call[p].new
  BY <1>2
<1>4. R \in Calls /\ R # NoCall /\ call[p] # NoCall
  BY <1>2, <1>3 DEF Calls, NoCall, Places
<1> HIDE DEF R
<1>5. /\ call' \in [pcb -> Calls]
      /\ call'[p] = R /\ \A q \in pcb \ {p} : call'[q] = call[q]
  BY <1>1, <1>4 DEF FieldTypes
<1>6. QED
  BY <1>3, <1>4, <1>5

\* Who has which PCB does not change when a call goes on.
LEMMA HandsKept ==
  ASSUME InHands, UNCHANGED <<active_proc, ready, next_free_pcb>>,
         \A q \in pcb : call'[q].new = call[q].new /\ (call'[q] = NoCall <=> call[q] = NoCall)
  PROVE  InHands'
<1>1. FirstFree' = FirstFree
  BY DEF FirstFree
<1>2. \A p \in pcb : call'[p] # NoCall => call'[p].new < FirstFree' /\ call'[p].new \notin ready'
  BY <1>1 DEF InHands
<1>3. \A p, q \in pcb : call'[p] # NoCall /\ call'[q] # NoCall /\ call'[p].new = call'[q].new => p = q
  BY DEF InHands
<1>4. \A x \in pcb : x < FirstFree' /\ x \notin ready' => \E p \in pcb : call'[p].new = x
  BY <1>1 DEF InHands
<1>5. QED
  BY <1>1, <1>2, <1>3, <1>4 DEF InHands

\* The PCB that p is making into a process is nobody else's.
LEMMA OwnPcb ==
  ASSUME ProcessInv, NEW p \in pcb, call[p].at # "user"
  PROVE  /\ call[p].new \in pcb \ {0} /\ call[p].new \notin ready /\ call[p] # NoCall
         /\ \A q \in pcb \ {p} : call[q].new # call[p].new
<1>1. FieldTypes /\ InHands
  BY DEF ProcessInv
<1>2. call[p] # NoCall /\ call[p].new \in pcb \ {0}
  BY <1>1, CallFacts
<1>3. call[p].new \notin ready
  BY <1>1, <1>2 DEF InHands
<1>4. ASSUME NEW q \in pcb \ {p} PROVE call[q].new # call[p].new
  <2>1. CASE call[q] = NoCall
    <3>1. call[q].new = NULL
      BY <2>1 DEF NoCall
    <3>2. QED
      BY <1>2, <3>1, Numbers
  <2>2. CASE call[q] # NoCall
    BY <1>1, <1>2, <2>2 DEF InHands
  <2>3. QED
    BY <2>1, <2>2
<1>5. QED
  BY <1>2, <1>3, <1>4

\* What the calls have made stays made.
LEMMA StepsKept ==
  ASSUME FieldTypes, StepsDone, call' \in [pcb -> Calls],
         \A x \in pcb : /\ Filled(x) => used'[x] /\ prio'[x] < MAX_READY_QUEUES
                        /\ Owns(x) => \E o \in port : owner'[o] = x,
         esp' = esp,
         \A q \in pcb : call'[q] = call[q] \/ CallDone(q)',
         ready' = ready
  PROVE  StepsDone'
<1>1. ASSUME NEW q \in pcb, call'[q] = call[q] PROVE CallDone(q)'
  <2>1. CASE call[q].at = "user"
    BY <1>1, <2>1 DEF CallDone
  <2>2. CASE call[q].at # "user"
    <3>1. call[q].new \in pcb
      BY <2>2, CallFacts
    <3>2. CallDone(q)
      BY DEF StepsDone
    <3>3. call[q].at \in {"port", "stack", "queue"} =>
            used'[call[q].new] /\ prio'[call[q].new] < MAX_READY_QUEUES
      BY <3>1, <3>2 DEF CallDone
    <3>4. call[q].at \in {"stack", "queue"} => \E o \in port : owner'[o] = call[q].new
      BY <3>1, <3>2 DEF CallDone
    <3>5. call[q].at = "queue" => esp'[call[q].new] = 640 - 16 * call[q].new
      BY <3>2 DEF CallDone, HasStack
    <3>6. QED
      BY <1>1, <3>3, <3>4, <3>5 DEF CallDone, Filled, Owns, HasStack
  <2>3. QED
    BY <2>1, <2>2
<1>2. ASSUME NEW x \in ready \ {0}
      PROVE  /\ used'[x] /\ prio'[x] < MAX_READY_QUEUES
             /\ \E o \in port : owner'[o] = x
             /\ esp'[x] = 640 - 16 * x
  <2>1. x \in pcb
    BY DEF FieldTypes
  <2>2. Filled(x) /\ Owns(x) /\ HasStack(x)
    BY DEF StepsDone
  <2>3. QED
    BY <2>1, <2>2 DEF HasStack
<1>3. esp'[0] = 0
  BY DEF StepsDone
<1>4. QED
  BY <1>1, <1>2, <1>3 DEF StepsDone, Filled, Owns, HasStack

\* create_process() takes a PCB.
LEMMA PcbTaken ==
  ASSUME ProcessInv, NEW p \in pcb, NEW x \in 0 .. MAX_READY_QUEUES - 1, call[p].at = "user",
         next_free_pcb # NULL, take_pcb(p, x),
         UNCHANGED <<active_proc, next, next_free_port, next_port, fields, ready>>
  PROVE  ProcessInv'
<1> DEFINE new == next_free_pcb
           R == [at |-> "fill", new |-> new, prio |-> x]
<1>1. FieldTypes /\ FreeInOrder /\ InHands /\ OwnersExist /\ PortsListed /\ StepsDone
  BY DEF ProcessInv
<1>2. UNCHANGED <<used, prio, first_port, esp, owner>>
  BY DEF fields
<1>3. call[p] = NoCall /\ call[p].new = NULL
  BY <1>1, CallFacts
<1>4. new \in 1 .. MAX_PROCS - 1 /\ FirstFree = new /\ new \in pcb
  BY <1>1, Numbers DEF FieldTypes, FirstFree, pcb
<1>5. next_free_pcb' = IF new = MAX_PROCS - 1 THEN NULL ELSE new + 1
  BY <1>1, <1>4 DEF take_pcb, FreeInOrder, Links
<1>6. FirstFree' = new + 1 /\ next_free_pcb' \in (1 .. MAX_PROCS - 1) \cup {NULL}
  <2>1. new \in Nat /\ new >= 1 /\ new <= MAX_PROCS - 1 /\ MAX_PROCS \in Nat
    BY <1>4, Numbers
  <2>2. CASE new = MAX_PROCS - 1
    BY <1>5, <2>1, <2>2 DEF FirstFree
  <2>3. CASE new # MAX_PROCS - 1
    <3>1. next_free_pcb' = new + 1
      BY <1>5, <2>3
    <3>2. new + 1 \in 1 .. MAX_PROCS - 1 /\ new + 1 # NULL
      BY <2>1, <2>3, Numbers
    <3>3. QED
      BY <3>1, <3>2 DEF FirstFree
  <2>4. QED
    BY <2>2, <2>3
<1>7. R \in Calls /\ R # NoCall /\ R.new = new /\ R.at = "fill"
  BY <1>4 DEF Calls, Places, NoCall
<1>8. call' = [call EXCEPT ![p] = R]
  BY DEF take_pcb
<1> HIDE DEF R
<1>9. call' \in [pcb -> Calls] /\ call'[p] = R /\ \A q \in pcb \ {p} : call'[q] = call[q]
  BY <1>1, <1>7, <1>8 DEF FieldTypes
<1>10. FieldTypes'
  BY <1>1, <1>2, <1>6, <1>9 DEF FieldTypes
<1>11. FreeInOrder'
  BY <1>1, <1>2 DEF FreeInOrder, FirstFreePort
<1>12. InHands'
  <2>1. \A y \in ready : y \in Nat /\ y < new
    BY <1>1, <1>4, Numbers DEF InHands, FieldTypes
  <2>2. \A q \in pcb \ {p} : call'[q] # NoCall => call'[q].new \in Nat /\ call'[q].new < new
    BY <1>1, <1>4, <1>9, CallFacts, Numbers DEF InHands
  <2>3. new \notin ready /\ \A y \in ready : y < new + 1
    BY <1>4, <2>1, Numbers
  <2>4. ASSUME NEW q \in pcb, call'[q] # NoCall PROVE call'[q].new < new + 1 /\ call'[q].new \notin ready
    <3>1. CASE q = p
      BY <1>4, <1>7, <1>9, <2>3, <3>1
    <3>2. CASE q # p
      <4>1. call'[q].new \in Nat /\ call'[q].new < new
        BY <2>2, <2>4, <3>2
      <4>2. call'[q].new \notin ready
        BY <1>1, <1>9, <2>4, <3>2 DEF InHands
      <4>3. QED
        BY <1>4, <4>1, <4>2
    <3>3. QED
      BY <3>1, <3>2
  <2>5. ASSUME NEW q \in pcb, NEW r \in pcb, call'[q] # NoCall, call'[r] # NoCall,
               call'[q].new = call'[r].new
        PROVE  q = r
    <3>1. CASE q = p /\ r # p
      BY <1>4, <1>7, <1>9, <2>2, <2>5, <3>1
    <3>2. CASE q # p /\ r = p
      BY <1>4, <1>7, <1>9, <2>2, <2>5, <3>2
    <3>3. CASE q # p /\ r # p
      BY <1>1, <1>9, <2>5, <3>3 DEF InHands
    <3>4. QED
      BY <3>1, <3>2, <3>3
  <2>6. ASSUME NEW y \in pcb, y < new + 1, y \notin ready PROVE \E q \in pcb : call'[q].new = y
    <3>1. CASE y = new
      BY <1>7, <1>9, <3>1
    <3>2. CASE y # new
      <4>1. y < FirstFree
        BY <1>4, <2>6, <3>2, Numbers
      <4>2. PICK q \in pcb : call[q].new = y
        BY <1>1, <2>6, <4>1 DEF InHands
      <4>3. q # p
        BY <1>3, <4>2, Numbers
      <4>4. QED
        BY <1>9, <4>2, <4>3
    <3>3. QED
      BY <3>1, <3>2
  <2>7. active_proc' \in ready' /\ 0 \in ready'
    BY <1>1 DEF InHands
  <2> HIDE DEF new
  <2>8. QED
    BY <1>6, <2>3, <2>4, <2>5, <2>6, <2>7 DEF InHands
<1>13. OwnersExist'
  <2>1. ASSUME NEW o \in port, owner[o] # NULL PROVE HasPort(owner[o])'
    <3>1. HasPort(owner[o])
      BY <1>1, <2>1 DEF OwnersExist
    <3>2. CASE owner[o] \notin ready
      <4>1. PICK q \in pcb : call[q].new = owner[o] /\ call[q].at \in {"stack", "queue"}
        BY <3>1, <3>2 DEF HasPort
      <4>2. q # p
        BY <4>1
      <4>3. QED
        BY <1>2, <1>9, <4>1, <4>2 DEF HasPort
    <3>3. QED
      BY <1>2, <3>2 DEF HasPort
  <2>2. QED
    BY <1>2, <2>1 DEF OwnersExist
<1>14. PortsListed'
  BY <1>1, <1>2 DEF PortsListed, Lists
<1>15. StepsDone'
  <2>1. CallDone(p)'
    BY <1>7, <1>9 DEF CallDone
  <2>2. ASSUME NEW y \in pcb
        PROVE  /\ Filled(y) => used'[y] /\ prio'[y] < MAX_READY_QUEUES
               /\ Owns(y) => \E o \in port : owner'[o] = y
    BY <1>2 DEF Filled, Owns
  <2>3. \A q \in pcb : call'[q] = call[q] \/ CallDone(q)'
    BY <1>9, <2>1
  <2>4. QED
    BY <1>1, <1>2, <1>9, <2>2, <2>3, StepsKept
<1>16. QED
  BY <1>10, <1>11, <1>12, <1>13, <1>14, <1>15 DEF ProcessInv

\* fill(p): the new PCB had no port yet, so that first_port stays as it is.
LEMMA FillKeeps ==
  ASSUME ProcessInv, NEW p \in pcb, fill(p)
  PROVE  ProcessInv'
<1> DEFINE new == call[p].new
<1>1. FieldTypes /\ FreeInOrder /\ InHands /\ OwnersExist /\ PortsListed /\ StepsDone
  BY DEF ProcessInv
<1>2. call[p].at = "fill" /\ call[p].at # "user" /\ Goes(p, "port")
  BY DEF fill, At
<1>3. /\ new \in pcb \ {0} /\ new \notin ready /\ call[p] # NoCall
      /\ \A q \in pcb \ {p} : call[q].new # new
  BY <1>2, OwnPcb
<1>4. /\ call' \in [pcb -> Calls]
      /\ call'[p].at = "port" /\ \A q \in pcb \ {p} : call'[q] = call[q]
      /\ \A q \in pcb : call'[q].new = call[q].new /\ (call'[q] = NoCall <=> call[q] = NoCall)
  <2>1. "port" \in Places
    BY DEF Places
  <2>2. QED
    BY <1>1, <1>2, <2>1, CallGoesOn
<1>5. UNCHANGED <<active_proc, next_free_pcb, next, next_free_port, next_port, esp, owner, ready>>
  BY DEF fill, pool
<1>6. \A o \in port : owner[o] # new
  <2>1. ~ HasPort(new)
    BY <1>2, <1>3 DEF HasPort
  <2>2. new # NULL
    BY <1>3, Numbers
  <2>3. QED
    BY <1>1, <2>1, <2>2 DEF OwnersExist
<1>7. first_port[new] = NULL
  <2>1. PICK n \in 0 .. MAX_PORTS, c \in [1 .. MAX_PORTS -> port] :
          /\ Chain(next_port, first_port[new], n, c)
          /\ {c[k] : k \in 1 .. n} = {o \in port : owner[o] = new}
    <3>1. Lists(first_port[new], next_port, new)
      BY <1>1, <1>3 DEF PortsListed
    <3> HIDE DEF new
    <3>2. QED
      BY <3>1 DEF Lists
  <2>2. n = 0
    <3>1. CASE n # 0
      <4>1. 1 \in 1 .. n
        BY <3>1
      <4>2. c[1] \in {o \in port : owner[o] = new}
        BY <2>1, <4>1
      <4>3. QED
        BY <1>6, <4>2
    <3>2. QED
      BY <3>1
  <2>3. QED
    BY <2>1, <2>2 DEF Chain
<1>8. first_port' = first_port
  <2>1. first_port' = [first_port EXCEPT ![new] = NULL]
    BY DEF fill
  <2>2. QED
    BY <1>1, <1>3, <1>7, <2>1 DEF FieldTypes
<1>9. call[p].prio \in 0 .. MAX_READY_QUEUES - 1
  BY <1>1, <1>2, CallFacts
<1>10. /\ used' \in [pcb -> BOOLEAN] /\ prio' \in [pcb -> Nat]
       /\ used'[new] /\ prio'[new] < MAX_READY_QUEUES
       /\ \A x \in pcb \ {new} : used'[x] = used[x] /\ prio'[x] = prio[x]
  <2>1. used' = [used EXCEPT ![new] = TRUE] /\ prio' = [prio EXCEPT ![new] = call[p].prio]
    BY DEF fill
  <2>2. prio' \in [pcb -> Nat] /\ prio'[new] < MAX_READY_QUEUES
        /\ \A x \in pcb \ {new} : prio'[x] = prio[x]
    BY <1>1, <1>3, <1>9, <2>1, Numbers DEF FieldTypes
  <2>3. used' \in [pcb -> BOOLEAN] /\ used'[new] = TRUE
        /\ \A x \in pcb \ {new} : used'[x] = used[x]
    BY <1>1, <1>3, <2>1 DEF FieldTypes
  <2>4. QED
    BY <2>2, <2>3
<1>11. FieldTypes'
  BY <1>1, <1>4, <1>5, <1>8, <1>10 DEF FieldTypes
<1>12. FreeInOrder'
  BY <1>1, <1>5 DEF FreeInOrder, FirstFreePort
<1>13. InHands'
  BY <1>1, <1>4, <1>5, HandsKept
<1>14. OwnersExist'
  <2>1. ASSUME NEW o \in port, owner[o] # NULL PROVE HasPort(owner[o])'
    <3>1. HasPort(owner[o])
      BY <1>1, <2>1 DEF OwnersExist
    <3>2. CASE owner[o] \notin ready
      <4>1. PICK q \in pcb : call[q].new = owner[o] /\ call[q].at \in {"stack", "queue"}
        BY <3>1, <3>2 DEF HasPort
      <4>2. q # p
        BY <1>2, <4>1
      <4>3. QED
        BY <1>4, <1>5, <4>1, <4>2 DEF HasPort
    <3>3. QED
      BY <1>5, <3>2 DEF HasPort
  <2>2. QED
    BY <1>5, <2>1 DEF OwnersExist
<1>15. PortsListed'
  BY <1>1, <1>5, <1>8 DEF PortsListed, Lists
<1>16. StepsDone'
  <2>1. CallDone(p)'
    <3>1. used'[call'[p].new] /\ prio'[call'[p].new] < MAX_READY_QUEUES
      BY <1>4, <1>10
    <3>2. QED
      BY <1>4, <3>1 DEF CallDone, Filled
  <2>2. ASSUME NEW y \in pcb
        PROVE  /\ Filled(y) => used'[y] /\ prio'[y] < MAX_READY_QUEUES
               /\ Owns(y) => \E o \in port : owner'[o] = y
    BY <1>5, <1>10 DEF Filled, Owns
  <2>3. \A q \in pcb : call'[q] = call[q] \/ CallDone(q)'
    BY <1>4, <2>1
  <2>4. QED
    BY <1>1, <1>4, <1>5, <2>2, <2>3, StepsKept
<1>17. QED
  BY <1>11, <1>12, <1>13, <1>14, <1>15, <1>16 DEF ProcessInv

\* create_new_port(), for the process that p makes or for p itself.
LEMMA PortKeeps ==
  ASSUME ProcessInv, NEW q \in pcb, next_free_port # NULL, take_port(q),
         UNCHANGED <<active_proc, next_free_pcb, next, used, prio, esp, ready>>,
         call' \in [pcb -> Calls],
         \A r \in pcb : /\ call'[r].new = call[r].new /\ (call'[r] = NoCall <=> call[r] = NoCall)
                        /\ \/ call'[r] = call[r]
                           \/ call[r].at = "port" /\ call'[r].at = "stack" /\ call[r].new = q,
         q \in ready \/ \E r \in pcb : call'[r].new = q /\ call'[r].at \in {"stack", "queue"}
  PROVE  ProcessInv'
<1>1. FieldTypes /\ FreeInOrder /\ InHands /\ OwnersExist /\ PortsListed /\ StepsDone
  BY DEF ProcessInv
<1>2. /\ next_free_port' \in port \cup {NULL} /\ next_port' \in [port -> port \cup {NULL}]
      /\ owner' \in [port -> pcb \cup {NULL}] /\ first_port' \in [pcb -> port \cup {NULL}]
      /\ FreeInOrder' /\ PortsListed'
      /\ \A x \in pcb : Owns(x) \/ x = q => Owns(x)'
      /\ \A o \in port : owner'[o] = owner[o] \/ owner'[o] = q
  BY <1>1, PortTaken
<1>3. FieldTypes'
  BY <1>1, <1>2 DEF FieldTypes
<1>4. InHands'
  BY <1>1, HandsKept
<1>5. OwnersExist'
  <2>1. ASSUME NEW o \in port, owner'[o] # NULL, owner'[o] # q
        PROVE  \/ owner'[o] \in ready'
               \/ \E r \in pcb : call'[r].new = owner'[o] /\ call'[r].at \in {"stack", "queue"}
    <3>1. HasPort(owner[o]) /\ owner'[o] = owner[o]
      BY <1>1, <1>2, <2>1 DEF OwnersExist
    <3>2. CASE owner[o] \notin ready
      <4>1. PICK r \in pcb : call[r].new = owner[o] /\ call[r].at \in {"stack", "queue"}
        BY <3>1, <3>2 DEF HasPort
      <4>2. call'[r] = call[r]
        BY <4>1
      <4>3. QED
        BY <3>1, <4>1, <4>2
    <3>3. QED
      BY <3>1, <3>2
  <2>2. ASSUME NEW o \in port, owner'[o] = q
        PROVE  \/ owner'[o] \in ready'
               \/ \E r \in pcb : call'[r].new = owner'[o] /\ call'[r].at \in {"stack", "queue"}
    BY <2>2
  <2>3. QED
    BY <2>1, <2>2 DEF OwnersExist, HasPort
<1>6. StepsDone'
  <2>1. ASSUME NEW r \in pcb PROVE call'[r] = call[r] \/ CallDone(r)'
    <3>1. CASE call[r].at = "port" /\ call'[r].at = "stack" /\ call[r].new = q
      <4>1. CallDone(r) /\ call'[r].new = q
        BY <1>1, <3>1 DEF StepsDone
      <4>2. used'[call'[r].new] /\ prio'[call'[r].new] < MAX_READY_QUEUES
        BY <3>1, <4>1 DEF CallDone, Filled
      <4>3. \E o \in port : owner'[o] = call'[r].new
        BY <1>2, <4>1 DEF Owns
      <4>4. QED
        BY <3>1, <4>2, <4>3 DEF CallDone, Filled, Owns
    <3>2. QED
      BY <3>1
  <2>2. ASSUME NEW y \in pcb
        PROVE  /\ Filled(y) => used'[y] /\ prio'[y] < MAX_READY_QUEUES
               /\ Owns(y) => \E o \in port : owner'[o] = y
    <3>1. Owns(y) => \E o \in port : owner'[o] = y
      BY <1>2 DEF Owns
    <3>2. QED
      BY <3>1 DEF Filled
  <2>3. QED
    BY <1>1, <2>1, <2>2, StepsKept
<1>7. QED
  BY <1>2, <1>3, <1>4, <1>5, <1>6 DEF ProcessInv

LEMMA NewPortKeeps ==
  ASSUME ProcessInv, NEW p \in pcb, new_process_port(p)
  PROVE  ProcessInv'
<1> DEFINE new == call[p].new
<1>1. FieldTypes
  BY DEF ProcessInv
<1>2. call[p].at = "port" /\ call[p].at # "user" /\ fault = "none"
  BY DEF new_process_port, At
<1>3. new \in pcb \ {0}
  BY <1>2, OwnPcb
<1>4. CASE next_free_port = NULL
  <2>1. UNCHANGED <<active_proc, pool, fields, ready>> /\ fault' # "none"
    BY <1>4 DEF new_process_port, create_new_port, panic
  <2>2. call' = call
    BY <2>1 DEF new_process_port
  <2>3. QED
    BY <2>1, <2>2, NothingChanged
<1>5. CASE next_free_port # NULL
  <2>1. take_port(new) /\ UNCHANGED <<active_proc, next_free_pcb, next, used, prio, esp, ready, fault>>
    BY <1>5 DEF new_process_port, create_new_port
  <2>2. Goes(p, "stack") /\ "stack" \in Places
    BY <1>2, <2>1 DEF new_process_port, Goes, Places
  <2>3. /\ call' \in [pcb -> Calls]
        /\ call'[p].at = "stack" /\ \A q \in pcb \ {p} : call'[q] = call[q]
        /\ \A q \in pcb : call'[q].new = call[q].new /\ (call'[q] = NoCall <=> call[q] = NoCall)
    BY <1>1, <1>2, <2>2, CallGoesOn
  <2>4. \E r \in pcb : call'[r].new = new /\ call'[r].at \in {"stack", "queue"}
    BY <2>3
  <2>5. ASSUME NEW r \in pcb
        PROVE  \/ call'[r] = call[r]
               \/ call[r].at = "port" /\ call'[r].at = "stack" /\ call[r].new = new
    BY <1>2, <2>3
  <2>6. QED
    BY <1>3, <1>5, <2>1, <2>3, <2>4, <2>5, PortKeeps
<1>6. QED
  BY <1>4, <1>5

LEMMA CreatePortKeeps ==
  ASSUME ProcessInv, NEW p \in pcb, create_port(p)
  PROVE  ProcessInv'
<1>1. FieldTypes /\ InHands
  BY DEF ProcessInv
<1>2. p = active_proc /\ call' = call
  BY DEF create_port, At
<1>3. CASE next_free_port = NULL
  <2>1. UNCHANGED <<active_proc, pool, fields, ready>>
    BY <1>3 DEF create_port, create_new_port, panic
  <2>2. QED
    BY <1>2, <2>1, NothingChanged
<1>4. CASE next_free_port # NULL
  <2>1. take_port(p) /\ UNCHANGED <<active_proc, next_free_pcb, next, used, prio, esp, ready, fault>>
    BY <1>4 DEF create_port, create_new_port
  <2>2. p \in ready
    BY <1>1, <1>2 DEF InHands
  <2>3. call' \in [pcb -> Calls]
    BY <1>1, <1>2 DEF FieldTypes
  <2>4. QED
    BY <1>2, <1>4, <2>1, <2>2, <2>3, PortKeeps
<1>5. QED
  BY <1>3, <1>4

\* stack(p).
LEMMA StackKeeps ==
  ASSUME ProcessInv, NEW p \in pcb, stack(p)
  PROVE  ProcessInv'
<1> DEFINE new == call[p].new
<1>1. FieldTypes /\ FreeInOrder /\ InHands /\ OwnersExist /\ PortsListed /\ StepsDone
  BY DEF ProcessInv
<1>2. call[p].at = "stack" /\ call[p].at # "user" /\ Goes(p, "queue")
  BY DEF stack, At
<1>3. new \in pcb \ {0} /\ new \notin ready
  BY <1>2, OwnPcb
<1>4. /\ call' \in [pcb -> Calls]
      /\ call'[p].at = "queue" /\ \A q \in pcb \ {p} : call'[q] = call[q]
      /\ \A q \in pcb : call'[q].new = call[q].new /\ (call'[q] = NoCall <=> call[q] = NoCall)
  <2>1. "queue" \in Places
    BY DEF Places
  <2>2. QED
    BY <1>1, <1>2, <2>1, CallGoesOn
<1>5. UNCHANGED <<active_proc, next_free_pcb, next, next_free_port, next_port, used, prio,
                  first_port, owner, ready>>
  BY DEF stack, pool
<1>6. 640 - 16 * new \in Int
  <2>1. new \in Nat
    BY <1>3, Numbers
  <2> HIDE DEF new
  <2>2. QED
    BY <2>1
<1>7. /\ esp' \in [pcb -> Int \cup {NULL}] /\ esp'[new] = 640 - 16 * new
      /\ \A x \in pcb \ {new} : esp'[x] = esp[x]
  <2>1. esp' = [esp EXCEPT ![new] = 640 - 16 * new]
    BY DEF stack
  <2>2. esp \in [pcb -> Int \cup {NULL}]
    BY <1>1 DEF FieldTypes
  <2> HIDE DEF new
  <2>3. QED
    BY <1>3, <1>6, <2>1, <2>2
<1>8. FieldTypes'
  BY <1>1, <1>4, <1>5, <1>7 DEF FieldTypes
<1>9. FreeInOrder'
  BY <1>1, <1>5 DEF FreeInOrder, FirstFreePort
<1>10. InHands'
  BY <1>1, <1>4, <1>5, HandsKept
<1>11. OwnersExist'
  <2>1. ASSUME NEW o \in port, owner[o] # NULL
        PROVE  \/ owner[o] \in ready
               \/ \E q \in pcb : call'[q].new = owner[o] /\ call'[q].at \in {"stack", "queue"}
    <3>1. HasPort(owner[o])
      BY <1>1, <2>1 DEF OwnersExist
    <3>2. CASE owner[o] \notin ready
      <4>1. PICK q \in pcb : call[q].new = owner[o] /\ call[q].at \in {"stack", "queue"}
        BY <3>1, <3>2 DEF HasPort
      <4>2. call'[q].new = owner[o] /\ call'[q].at \in {"stack", "queue"}
        BY <1>4, <4>1
      <4>3. QED
        BY <4>2
    <3>3. QED
      BY <3>2
  <2>2. QED
    BY <1>5, <2>1 DEF OwnersExist, HasPort
<1>12. PortsListed'
  BY <1>1, <1>5 DEF PortsListed, Lists
<1>13. CallDone(p)'
  <2>1. CallDone(p) /\ call'[p].new = new
    BY <1>1, <1>4 DEF StepsDone
  <2>2. used'[call'[p].new] /\ prio'[call'[p].new] < MAX_READY_QUEUES
    BY <1>2, <1>5, <2>1 DEF CallDone, Filled
  <2>3. \E o \in port : owner'[o] = call'[p].new
    BY <1>2, <1>5, <2>1 DEF CallDone, Owns
  <2>4. esp'[call'[p].new] = 640 - 16 * call'[p].new
    BY <1>7, <2>1
  <2>5. QED
    BY <2>2, <2>3, <2>4 DEF CallDone, Filled, Owns, HasStack
<1>14. ASSUME NEW q \in pcb \ {p} PROVE CallDone(q)'
  <2>1. call'[q] = call[q] /\ CallDone(q)
    BY <1>1, <1>4 DEF StepsDone
  <2>2. call[q].at \in {"port", "stack", "queue"} =>
          used'[call[q].new] /\ prio'[call[q].new] < MAX_READY_QUEUES
    BY <1>5, <2>1 DEF CallDone, Filled
  <2>3. call[q].at \in {"stack", "queue"} => \E o \in port : owner'[o] = call[q].new
    BY <1>5, <2>1 DEF CallDone, Owns
  <2>4. call[q].at = "queue" => esp'[call[q].new] = 640 - 16 * call[q].new
    <3>1. call[q].at = "queue" => call[q].new \in pcb /\ call[q].new # new
      BY <1>1, <1>2, CallFacts, OwnPcb
    <3>2. call[q].at = "queue" => esp[call[q].new] = 640 - 16 * call[q].new
      BY <2>1 DEF CallDone, HasStack
    <3>3. QED
      BY <1>7, <3>1, <3>2
  <2>5. QED
    BY <2>1, <2>2, <2>3, <2>4 DEF CallDone, Filled, Owns, HasStack
<1>15. ASSUME NEW x \in ready \ {0}
       PROVE  /\ used'[x] /\ prio'[x] < MAX_READY_QUEUES
              /\ \E o \in port : owner'[o] = x
              /\ esp'[x] = 640 - 16 * x
  <2>1. x \in pcb \ {new}
    BY <1>1, <1>3 DEF FieldTypes
  <2>2. Filled(x) /\ Owns(x) /\ HasStack(x)
    BY <1>1 DEF StepsDone
  <2>3. QED
    BY <1>5, <1>7, <2>1, <2>2 DEF Filled, Owns, HasStack
<1>16. esp'[0] = 0
  BY <1>1, <1>3, <1>7, Numbers DEF StepsDone
<1>17. StepsDone'
  <2>1. \A q \in pcb : CallDone(q)'
    BY <1>13, <1>14
  <2>2. QED
    BY <1>5, <1>15, <1>16, <2>1 DEF StepsDone, Filled, Owns, HasStack
<1>18. QED
  BY <1>8, <1>9, <1>10, <1>11, <1>12, <1>17 DEF ProcessInv

\* queue(p): what p has made is a process now.
LEMMA QueueKeeps ==
  ASSUME ProcessInv, NEW p \in pcb, queue(p)
  PROVE  ProcessInv'
<1> DEFINE new == call[p].new
<1>1. FieldTypes /\ FreeInOrder /\ InHands /\ OwnersExist /\ PortsListed /\ StepsDone
  BY DEF ProcessInv
<1>2. call[p].at = "queue" /\ call[p].at # "user" /\ p = active_proc
  BY DEF queue, At
<1>3. /\ new \in pcb \ {0} /\ new \notin ready /\ call[p] # NoCall
      /\ \A q \in pcb \ {p} : call[q].new # new
  BY <1>2, OwnPcb
<1>4. UNCHANGED <<active_proc, next_free_pcb, next, next_free_port, next_port, used, prio,
                  first_port, esp, owner>>
  BY DEF queue, pool, fields
<1>5. /\ call' \in [pcb -> Calls]
      /\ call'[p] = NoCall /\ \A q \in pcb \ {p} : call'[q] = call[q]
  <2>1. call' = [call EXCEPT ![p] = NoCall]
    BY DEF queue
  <2>2. QED
    BY <1>1, <2>1 DEF FieldTypes, Calls
<1>6. ready' = ready \cup {new}
  BY DEF queue
<1> HIDE DEF new
<1>7. FieldTypes'
  BY <1>1, <1>3, <1>4, <1>5, <1>6 DEF FieldTypes
<1>8. FreeInOrder'
  BY <1>1, <1>4 DEF FreeInOrder, FirstFreePort
<1>9. InHands'
  <2>1. FirstFree' = FirstFree
    BY <1>4 DEF FirstFree
  <2>2. new < FirstFree
    BY <1>1, <1>3 DEF InHands, new
  <2>3. ASSUME NEW q \in pcb, call'[q] # NoCall
        PROVE  q # p /\ call'[q] = call[q] /\ call'[q].new < FirstFree /\ call'[q].new \notin ready'
    BY <1>1, <1>3, <1>5, <1>6, <2>3 DEF InHands
  <2>4. ASSUME NEW q \in pcb, NEW r \in pcb, call'[q] # NoCall, call'[r] # NoCall,
               call'[q].new = call'[r].new
        PROVE  q = r
    BY <1>1, <2>3, <2>4 DEF InHands
  <2>5. ASSUME NEW y \in pcb, y < FirstFree, y \notin ready' PROVE \E q \in pcb : call'[q].new = y
    <3>1. PICK q \in pcb : call[q].new = y
      BY <1>1, <1>6, <2>5 DEF InHands
    <3>2. q # p
      BY <1>6, <2>5, <3>1 DEF new
    <3>3. QED
      BY <1>5, <3>1, <3>2
  <2>6. active_proc' \in ready' /\ 0 \in ready' /\ \A x \in ready' : x < FirstFree
    BY <1>1, <1>4, <1>6, <2>2 DEF InHands
  <2>7. QED
    BY <2>1, <2>3, <2>4, <2>5, <2>6 DEF InHands
<1>10. OwnersExist'
  <2>1. ASSUME NEW o \in port, owner[o] # NULL
        PROVE  \/ owner[o] \in ready'
               \/ \E q \in pcb : call'[q].new = owner[o] /\ call'[q].at \in {"stack", "queue"}
    <3>1. HasPort(owner[o])
      BY <1>1, <2>1 DEF OwnersExist
    <3>2. CASE owner[o] \notin ready'
      <4>1. PICK q \in pcb : call[q].new = owner[o] /\ call[q].at \in {"stack", "queue"}
        BY <1>6, <3>1, <3>2 DEF HasPort
      <4>2. q # p
        BY <1>6, <3>2, <4>1 DEF new
      <4>3. QED
        BY <1>5, <4>1, <4>2
    <3>3. QED
      BY <3>2
  <2>2. QED
    BY <1>4, <2>1 DEF OwnersExist, HasPort
<1>11. PortsListed'
  BY <1>1, <1>4 DEF PortsListed, Lists
<1>12. ASSUME NEW q \in pcb PROVE CallDone(q)'
  <2>1. CASE q = p
    BY <1>5, <2>1 DEF CallDone, NoCall
  <2>2. CASE q # p
    <3>1. call'[q] = call[q] /\ CallDone(q)
      BY <1>1, <1>5, <2>2 DEF StepsDone
    <3>2. QED
      BY <1>4, <3>1 DEF CallDone, Filled, Owns, HasStack
  <2>3. QED
    BY <2>1, <2>2
<1>13. ASSUME NEW x \in ready' \ {0} PROVE Filled(x) /\ Owns(x) /\ HasStack(x)
  <2>1. CASE x \in ready
    BY <1>1, <2>1 DEF StepsDone
  <2>2. CASE x = new
    <3>1. CallDone(p)
      BY <1>1 DEF StepsDone
    <3>2. QED
      BY <1>2, <2>2, <3>1 DEF CallDone, new
  <2>3. QED
    BY <1>6, <2>1, <2>2
<1>14. StepsDone'
  <2>1. ASSUME NEW x \in ready' \ {0}
        PROVE  /\ used'[x] /\ prio'[x] < MAX_READY_QUEUES
               /\ \E o \in port : owner'[o] = x
               /\ esp'[x] = 640 - 16 * x
    BY <1>4, <1>13 DEF Filled, Owns, HasStack
  <2>2. esp'[0] = 0
    BY <1>1, <1>4 DEF StepsDone
  <2>3. QED
    BY <1>12, <2>1, <2>2 DEF StepsDone, Filled, Owns, HasStack
<1>15. QED
  BY <1>7, <1>8, <1>9, <1>10, <1>11, <1>14 DEF ProcessInv

\* create_process(p, x), which may find that the priority is bad or the pool empty.
LEMMA CreateKeeps ==
  ASSUME ProcessInv, NEW p \in pcb, NEW x \in 0 .. MAX_READY_QUEUES, create_process(p, x)
  PROVE  ProcessInv'
<1>1. call[p].at = "user"
  BY DEF create_process, At
<1>2. x \in Nat /\ MAX_READY_QUEUES \in Nat
  BY Numbers
<1>3. CASE x >= MAX_READY_QUEUES \/ next_free_pcb = NULL
  <2>1. ~ (x < MAX_READY_QUEUES) \/ next_free_pcb = NULL
    BY <1>2, <1>3
  <2>2. UNCHANGED <<active_proc, pool, fields, ready, call>>
    BY <2>1 DEF create_process, panic
  <2>3. QED
    BY <2>2, NothingChanged
<1>4. CASE x < MAX_READY_QUEUES /\ next_free_pcb # NULL
  <2>1. ~ (x >= MAX_READY_QUEUES) /\ x \in 0 .. MAX_READY_QUEUES - 1
    BY <1>2, <1>4
  <2>2. /\ take_pcb(p, x)
        /\ UNCHANGED <<active_proc, next, next_free_port, next_port, fields, ready>>
    BY <1>4, <2>1 DEF create_process
  <2>3. QED
    BY <1>1, <1>4, <2>1, <2>2, PcbTaken
<1>5. QED
  BY <1>2, <1>3, <1>4

\* Another process gets the CPU.
LEMMA SwitchKeeps ==
  ASSUME ProcessInv, switch
  PROVE  ProcessInv'
<1>1. /\ UNCHANGED <<next_free_pcb, next, next_free_port, next_port, used, prio,
                     first_port, esp, owner, ready, call>>
      /\ active_proc' \in ready
  BY DEF switch, pool, fields
<1>2. FieldTypes' /\ FreeInOrder' /\ InHands'
  BY <1>1 DEF ProcessInv, FieldTypes, FreeInOrder, InHands, FirstFree, FirstFreePort
<1>3. OwnersExist' /\ PortsListed'
  BY <1>1 DEF ProcessInv, OwnersExist, HasPort, PortsListed, Lists
<1>4. StepsDone'
  BY <1>1 DEF ProcessInv, StepsDone, CallDone, Filled, Owns, HasStack
<1>5. QED
  BY <1>2, <1>3, <1>4 DEF ProcessInv

\* ProcessInv is an invariant of process.c and of the port pool of ipc.c.
LEMMA ProcessInvariance == ProcessSpec => []ProcessInv
<1>1. ProcessInit => ProcessInv
  BY ProcessInitially
<1>2. ASSUME ProcessInv, [ProcessNext]_process_vars PROVE ProcessInv'
  <2>1. ASSUME NEW p \in pcb, NEW x \in 0 .. MAX_READY_QUEUES, create_process(p, x) PROVE ProcessInv'
    BY <1>2, <2>1, CreateKeeps
  <2>2. ASSUME NEW p \in pcb, fill(p) PROVE ProcessInv'
    BY <1>2, <2>2, FillKeeps
  <2>3. ASSUME NEW p \in pcb, new_process_port(p) PROVE ProcessInv'
    BY <1>2, <2>3, NewPortKeeps
  <2>4. ASSUME NEW p \in pcb, stack(p) PROVE ProcessInv'
    BY <1>2, <2>4, StackKeeps
  <2>5. ASSUME NEW p \in pcb, queue(p) PROVE ProcessInv'
    BY <1>2, <2>5, QueueKeeps
  <2>6. ASSUME NEW p \in pcb, create_port(p) PROVE ProcessInv'
    BY <1>2, <2>6, CreatePortKeeps
  <2>7. ASSUME switch PROVE ProcessInv'
    BY <1>2, <2>7, SwitchKeeps
  <2>8. ASSUME UNCHANGED process_vars PROVE ProcessInv'
    BY <1>2, <2>8, NothingChanged DEF process_vars
  <2>9. QED
    BY <1>2, <2>1, <2>2, <2>3, <2>4, <2>5, <2>6, <2>7, <2>8 DEF ProcessNext, stopped
<1>3. QED
  BY <1>1, <1>2, PTL DEF ProcessSpec

-------------------------------------------------------------------------------
(* What follows.                                                               *)

\* At every moment a PCB is free, in the hands of one create_process(), or a
\* process, and a port is free or on its owner's list; none is lost or given
\* away twice (create_process() and create_new_port(), interrupted anywhere).
THEOREM PoolsStayIntact == ProcessSpec => []PoolsIntact
<1>1. ASSUME ProcessInv PROVE PcbInOnePlace
  <2>1. FieldTypes /\ FreeInOrder /\ InHands
    BY <1>1 DEF ProcessInv
  <2>2. \A y \in pcb : y \in FreePcbs <=> y >= FirstFree
    BY <2>1, FreePcbsFound
  <2>3. FirstFree \in Nat
    BY <2>1, Numbers DEF FieldTypes, FirstFree
  <2>4. ASSUME NEW x \in pcb
        PROVE  /\ x \in ready => x \notin FreePcbs /\ UnderConstruction(x) = {}
               /\ x \in FreePcbs => UnderConstruction(x) = {}
               /\ Cardinality(UnderConstruction(x)) <= 1
               /\ x \in ready \cup FreePcbs \/ UnderConstruction(x) # {}
    <3>1. x \in Nat /\ x # NULL
      BY Numbers
    <3>2. ASSUME NEW p \in UnderConstruction(x)
          PROVE  p \in pcb /\ call[p] # NoCall /\ call[p].new = x /\ x < FirstFree /\ x \notin ready
      <4>1. p \in pcb /\ call[p].new = x
        BY DEF UnderConstruction
      <4>2. call[p] # NoCall
        BY <3>1, <4>1 DEF NoCall
      <4>3. QED
        BY <2>1, <4>1, <4>2 DEF InHands
    <3>3. x \in ready => x < FirstFree
      BY <2>1 DEF InHands
    <3>4. x \in FreePcbs <=> ~ (x < FirstFree)
      BY <2>2, <2>3, <3>1
    <3>5. Cardinality(UnderConstruction(x)) <= 1
      <4>1. CASE UnderConstruction(x) = {}
        BY <4>1, FS_EmptySet
      <4>2. CASE UnderConstruction(x) # {}
        <5>1. PICK p \in UnderConstruction(x) : TRUE
          BY <4>2
        <5>2. ASSUME NEW q \in UnderConstruction(x) PROVE q = p
          BY <2>1, <3>2 DEF InHands
        <5>3. UnderConstruction(x) = {p}
          BY <5>2
        <5>4. Cardinality({p}) = 1
          BY FS_Singleton
        <5>5. QED
          BY <5>3, <5>4
      <4>3. QED
        BY <4>1, <4>2
    <3>6. x < FirstFree /\ x \notin ready => UnderConstruction(x) # {}
      BY <2>1 DEF InHands, UnderConstruction
    <3>7. QED
      BY <3>2, <3>3, <3>4, <3>5, <3>6
  <2>5. QED
    BY <2>4 DEF PcbInOnePlace
<1>2. ASSUME ProcessInv PROVE PortsInOneList
  <2>1. FieldTypes /\ FreeInOrder /\ PortsListed
    BY <1>2 DEF ProcessInv
  <2>2. FreePorts = {o \in port : owner[o] = NULL}
    BY <2>1, FreePortsFound
  <2>3. ASSUME NEW x \in pcb PROVE PortsOf(x) = {o \in port : owner[o] = x}
    BY <2>1, PortsFound
  <2>4. QED
    BY <2>2, <2>3 DEF PortsInOneList
<1>3. ProcessInv => PoolsIntact
  BY <1>1, <1>2 DEF PoolsIntact
<1>4. QED
  BY <1>3, ProcessInvariance, PTL

\* Whom the dispatcher may elect has a priority with a ready queue, a port and a
\* stack to itself (create_process() queues the new process last).
THEOREM RunsComplete == ProcessSpec => []RunsOnlyComplete
<1>1. ASSUME ProcessInv, NEW x \in ready \ {0}
      PROVE  /\ used[x] /\ prio[x] < MAX_READY_QUEUES
             /\ PortsOf(x) # {}
             /\ esp[x] # NULL /\ \A y \in ready \ {x} : esp[y] # esp[x]
  <2>1. FieldTypes /\ PortsListed /\ StepsDone
    BY <1>1 DEF ProcessInv
  <2>2. ready \subseteq pcb /\ \A y \in pcb : y \in Nat /\ y <= 39
    BY <2>1, Numbers DEF FieldTypes, pcb
  <2>3. Filled(x) /\ Owns(x) /\ HasStack(x)
    BY <2>1 DEF StepsDone
  <2>4. PortsOf(x) # {}
    BY <2>1, <2>2, <2>3, PortsFound DEF Owns
  <2>5. esp[x] \in Nat /\ esp[x] = 640 - 16 * x /\ esp[x] > 0
    BY <2>2, <2>3 DEF HasStack
  <2>6. ASSUME NEW y \in ready \ {x} PROVE esp[y] # esp[x]
    <3>1. CASE y = 0
      BY <2>1, <2>5, <3>1 DEF StepsDone
    <3>2. CASE y # 0
      <4>1. esp[y] = 640 - 16 * y /\ y \in Nat /\ x \in Nat
        BY <2>1, <2>2, <3>2 DEF StepsDone, HasStack
      <4>2. QED
        BY <2>5, <4>1
    <3>3. QED
      BY <3>1, <3>2
  <2>7. QED
    BY <2>3, <2>4, <2>5, <2>6, Numbers DEF Filled
<1>2. ProcessInv => RunsOnlyComplete
  BY <1>1 DEF RunsOnlyComplete
<1>3. QED
  BY <1>2, ProcessInvariance, PTL
===============================================================================
