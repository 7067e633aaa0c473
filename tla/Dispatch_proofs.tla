--------------------------- MODULE Dispatch_proofs ---------------------------
(* Proofs about dispatch.c: the circular lists represent sequences, each     *)
(* function of dispatch.c acts on them as the operator of ReadyQueue does,   *)
(* and so the invariants of Dispatch hold for any number of processes and    *)
(* priority levels.                                                          *)
EXTENDS Dispatch, ReadyQueue_proofs, FiniteSetTheorems

Memory == [ready_queue : [Prio -> Proc \cup {NULL}],
           ready_procs : SUBSET Prio,
           next        : [Proc -> Proc \cup {NULL}],
           prev        : [Proc -> Proc \cup {NULL}],
           state       : [Proc -> {"READY", "BLOCKED"}]]

\* The memory m holds the queues rq, and the processes on them are Q.
Holds(m, rq, Q) ==
  /\ m \in Memory
  /\ rq \in Queues
  /\ Q \subseteq Proc
  /\ \A i \in Prio : Ring(m, i, rq[i]) /\ NoRepeats(rq[i])
  /\ \A p \in Proc : p \in Q <=> \E k \in 1 .. Len(rq[priority[p]]) : rq[priority[p]][k] = p

-----------------------------------------------------------------------------
(* add_ready_queue.                                                          *)

\* The fields that add_ready_queue() writes, in an empty level and in one that
\* has a ring already.
LEMMA AddFields ==
  ASSUME NEW m \in Memory, NEW p \in Proc
  PROVE  LET i == priority[p]
             h == m.ready_queue[i]
             r == add_ready_queue(m, p)
         IN  /\ r \in Memory
             /\ r.state = [m.state EXCEPT ![p] = "READY"]
             /\ r.ready_procs = m.ready_procs \cup IF h = NULL THEN {i} ELSE {}
             /\ r.ready_queue = IF h = NULL THEN [m.ready_queue EXCEPT ![i] = p]
                                            ELSE m.ready_queue
             /\ h = NULL => /\ r.next = [m.next EXCEPT ![p] = p]
                            /\ r.prev = [m.prev EXCEPT ![p] = p]
             /\ h # NULL => /\ r.next = [m.next EXCEPT ![p] = h, ![m.prev[h]] = p]
                            /\ r.prev = [m.prev EXCEPT ![p] = m.prev[h], ![h] = p]
<1> DEFINE i == priority[p]
           h == m.ready_queue[i]
<1>1. i \in Prio
  BY PriorityAssumption
<1>2. h \in Proc \cup {NULL}
  BY <1>1 DEF Memory
<1>3. CASE h = NULL
  BY <1>1, <1>3 DEF add_ready_queue, Memory
<1>4. CASE h # NULL
  BY <1>1, <1>2, <1>4 DEF add_ready_queue, Memory
<1>5. QED
  BY <1>3, <1>4

\* What is known of one element of a queue, for the leaves of the proofs below.
LEMMA RingFacts ==
  ASSUME NEW m, NEW rq, NEW Q, Holds(m, rq, Q), NEW j \in Prio
  PROVE  /\ rq[j] \in Seq(Proc)
         /\ Len(rq[j]) \in Nat
         /\ rq[j] = << >> <=> Len(rq[j]) = 0
         /\ j \in m.ready_procs <=> Len(rq[j]) > 0
         /\ m.ready_queue[j] = IF Len(rq[j]) = 0 THEN NULL ELSE rq[j][1]
         /\ \A k \in 1 .. Len(rq[j]) :
              /\ rq[j][k] \in Q
              /\ rq[j][k] \in Proc
              /\ priority[rq[j][k]] = j
              /\ m.next[rq[j][k]] = Successor(rq[j], k)
              /\ m.prev[Successor(rq[j], k)] = rq[j][k]
              /\ \A l \in 1 .. Len(rq[j]) : rq[j][l] = rq[j][k] => l = k
<1>1. rq[j] \in Seq(Proc)
  BY DEF Holds, Queues
<1>2. /\ Len(rq[j]) \in Nat
      /\ rq[j] = << >> <=> Len(rq[j]) = 0
      /\ \A k \in 1 .. Len(rq[j]) : rq[j][k] \in Proc
  BY <1>1
<1>3. Ring(m, j, rq[j]) /\ NoRepeats(rq[j])
  BY DEF Holds
<1>4. \A k \in 1 .. Len(rq[j]) : priority[rq[j][k]] = j
  BY <1>3 DEF Ring
<1>5. \A k \in 1 .. Len(rq[j]) : rq[j][k] \in Q
  BY <1>2, <1>4 DEF Holds
<1>6. QED
  BY <1>1, <1>2, <1>3, <1>4, <1>5 DEF Ring, NoRepeats

\* add_ready_queue appends.
LEMMA AddHolds ==
  ASSUME NEW m, NEW rq, NEW Q, Holds(m, rq, Q), NEW p \in Proc, p \notin Q
  PROVE  Holds(add_ready_queue(m, p), Enqueue(rq, p), Q \cup {p})
<1> DEFINE i == priority[p]
           h == m.ready_queue[i]
           s == rq[i]
           n == Len(s)
           r == add_ready_queue(m, p)
           t == Enqueue(rq, p)
<1>1. i \in Prio /\ m \in Memory /\ rq \in Queues
  BY PriorityAssumption DEF Holds
<1>2. /\ s \in Seq(Proc)
      /\ n \in Nat
      /\ s = << >> <=> n = 0
      /\ i \in m.ready_procs <=> n > 0
      /\ h = IF n = 0 THEN NULL ELSE s[1]
      /\ \A k \in 1 .. n :
           /\ s[k] \in Q
           /\ s[k] \in Proc
           /\ priority[s[k]] = i
           /\ m.next[s[k]] = Successor(s, k)
           /\ m.prev[Successor(s, k)] = s[k]
           /\ \A l \in 1 .. n : s[l] = s[k] => l = k
  BY <1>1, RingFacts
<1>3. /\ t \in Queues
      /\ t[i] = Append(s, p)
      /\ \A j \in Prio : j # i => t[j] = rq[j]
  BY <1>1, <1>2 DEF Enqueue, Queues
<1>4. /\ Len(t[i]) = n + 1
      /\ t[i][n + 1] = p
      /\ \A k \in 1 .. n : t[i][k] = s[k]
      /\ t[i] # << >>
  BY <1>2, <1>3, SMTT(30)
<1>5. h = NULL <=> n = 0
  BY <1>2, DispatchAssumption
<1>6. /\ r \in Memory
      /\ r.ready_procs = m.ready_procs \cup IF h = NULL THEN {i} ELSE {}
      /\ r.ready_queue = IF h = NULL THEN [m.ready_queue EXCEPT ![i] = p]
                                     ELSE m.ready_queue
      /\ h = NULL => /\ r.next = [m.next EXCEPT ![p] = p]
                     /\ r.prev = [m.prev EXCEPT ![p] = p]
      /\ h # NULL => /\ r.next = [m.next EXCEPT ![p] = h, ![m.prev[h]] = p]
                     /\ r.prev = [m.prev EXCEPT ![p] = m.prev[h], ![h] = p]
  BY <1>1, AddFields
<1>a. /\ DOMAIN m.next = Proc /\ DOMAIN m.prev = Proc
      /\ DOMAIN m.ready_queue = Prio
      /\ m.next = [x \in Proc |-> m.next[x]]
      /\ m.prev = [x \in Proc |-> m.prev[x]]
      /\ m.ready_queue = [x \in Prio |-> m.ready_queue[x]]
  BY <1>1 DEF Memory
<1>7. \A j \in Prio : NoRepeats(t[j])
  <2> SUFFICES ASSUME NEW j \in Prio PROVE NoRepeats(t[j])
    OBVIOUS
  <2>1. CASE j = i
    <3>1. ASSUME NEW x \in 1 .. n + 1, NEW y \in 1 .. n + 1, t[i][x] = t[i][y]
          PROVE  x = y
      <4>1. CASE x \in 1 .. n /\ y \in 1 .. n
        BY <4>1, <3>1, <1>2, <1>4
      <4>2. CASE x = n + 1 /\ y \in 1 .. n
        <5>1. s[y] = p /\ s[y] \in Q
          BY <4>2, <3>1, <1>2, <1>4
        <5>2. QED
          BY <5>1
      <4>3. CASE x \in 1 .. n /\ y = n + 1
        <5>1. s[x] = p /\ s[x] \in Q
          BY <4>3, <3>1, <1>2, <1>4
        <5>2. QED
          BY <5>1
      <4>4. CASE x = n + 1 /\ y = n + 1
        BY <4>4
      <4>5. QED
        BY <4>1, <4>2, <4>3, <4>4, <1>2
    <3>2. QED
      BY <3>1, <2>1, <1>4 DEF NoRepeats
  <2>2. CASE j # i
    BY <2>2, <1>3 DEF Holds
  <2>3. QED
    BY <2>1, <2>2
<1>8. \A j \in Prio : Ring(r, j, t[j])
  <2> SUFFICES ASSUME NEW j \in Prio PROVE Ring(r, j, t[j])
    OBVIOUS
  <2>1. CASE j # i
    <3>1. t[j] = rq[j]
      BY <1>3, <2>1
    <3>2. /\ r.ready_queue[j] = m.ready_queue[j]
          /\ j \in r.ready_procs <=> j \in m.ready_procs
      <4>1. CASE h = NULL
        BY <4>1, <2>1, <1>6, <1>a
      <4>2. CASE h # NULL
        BY <4>2, <2>1, <1>6
      <4>3. QED
        BY <4>1, <4>2
    <3>3. ASSUME NEW k \in 1 .. Len(rq[j])
          PROVE  /\ r.next[rq[j][k]] = m.next[rq[j][k]]
                 /\ r.prev[rq[j][k]] = m.prev[rq[j][k]]
      <4>1. rq[j][k] \in Proc /\ rq[j][k] # p /\ priority[rq[j][k]] = j
        BY RingFacts
      <4>2. CASE h = NULL
        BY <4>1, <4>2, <1>1, <1>6, <1>a
      <4>3. CASE h # NULL
        <5>1. n > 0 /\ h = s[1] /\ Successor(s, n) = s[1]
          BY <4>3, <1>2, <1>5 DEF Successor
        <5>2. m.prev[h] = s[n] /\ priority[s[n]] = i /\ priority[s[1]] = i
          BY <5>1, <1>2
        <5>3. rq[j][k] # m.prev[h] /\ rq[j][k] # h
          BY <4>1, <5>1, <5>2, <2>1
        <5>4. QED
          BY <5>3, <4>1, <4>3, <1>1, <1>6, <1>a
      <4>4. QED
        BY <4>2, <4>3
    <3>4. \A k \in 1 .. Len(rq[j]) : \E l \in 1 .. Len(rq[j]) : Successor(rq[j], k) = rq[j][l]
      BY RingFacts DEF Successor
    <3>5. Ring(m, j, rq[j])
      BY DEF Holds
    <3>6. ASSUME NEW k \in 1 .. Len(rq[j])
          PROVE  r.prev[Successor(rq[j], k)] = rq[j][k]
      <4>1. PICK l \in 1 .. Len(rq[j]) : Successor(rq[j], k) = rq[j][l]
        BY <3>4
      <4>2. r.prev[rq[j][l]] = m.prev[rq[j][l]]
        BY <3>3
      <4>3. m.prev[Successor(rq[j], k)] = rq[j][k]
        BY <3>5 DEF Ring
      <4>4. QED
        BY <4>1, <4>2, <4>3
    <3>7. QED
      BY <3>1, <3>2, <3>3, <3>5, <3>6 DEF Ring
  <2>2. CASE j = i /\ n = 0
    <3>1. /\ r.ready_queue[i] = p
          /\ i \in r.ready_procs
          /\ r.next[p] = p
          /\ r.prev[p] = p
      BY <2>2, <1>1, <1>5, <1>6, <1>a
    <3>2. Len(t[i]) = 1 /\ t[i][1] = p /\ t[i] # << >> /\ Successor(t[i], 1) = p
      BY <2>2, <1>4 DEF Successor
    <3>3. QED
      BY <3>1, <3>2, <2>2 DEF Ring
  <2>3. CASE j = i /\ n > 0
    <3>1. h = s[1] /\ h # NULL /\ Successor(s, n) = s[1]
      BY <2>3, <1>2, <1>5 DEF Successor
    <3>2. m.prev[h] = s[n] /\ h \in Proc /\ s[n] \in Proc /\ h # p /\ s[n] # p
      BY <3>1, <2>3, <1>2
    <3>3. /\ r.ready_queue[i] = h
          /\ i \in r.ready_procs
          /\ r.next[p] = h
          /\ r.next[s[n]] = p
          /\ r.prev[p] = s[n]
          /\ r.prev[h] = p
          /\ \A q \in Proc \ {p, s[n]} : r.next[q] = m.next[q]
          /\ \A q \in Proc \ {p, h} : r.prev[q] = m.prev[q]
      <4>1. r.next = [m.next EXCEPT ![p] = h, ![s[n]] = p]
        BY <3>1, <3>2, <1>6
      <4>2. r.prev = [m.prev EXCEPT ![p] = s[n], ![h] = p]
        BY <3>1, <3>2, <1>6
      <4>3. r.ready_queue[i] = h /\ i \in r.ready_procs
        BY <3>1, <2>3, <1>2, <1>6
      <4>4. QED
        BY <4>1, <4>2, <4>3, <3>2, <1>a
    <3>4. ASSUME NEW k \in 1 .. n + 1
          PROVE  /\ priority[t[i][k]] = i
                 /\ r.next[t[i][k]] = Successor(t[i], k)
                 /\ r.prev[Successor(t[i], k)] = t[i][k]
      <4>1. CASE k = n + 1
        <5>1. t[i][k] = p /\ Successor(t[i], k) = h
          BY <4>1, <2>3, <3>1, <1>4 DEF Successor
        <5>2. QED
          BY <5>1, <3>3
      <4>2. CASE k = n
        <5>1. t[i][k] = s[n] /\ Successor(t[i], k) = p
          BY <4>2, <2>3, <1>4 DEF Successor
        <5>2. QED
          BY <5>1, <3>3, <2>3, <1>2
      <4>3. CASE k \in 1 .. n - 1
        <5>1. k \in 1 .. n /\ k + 1 \in 1 .. n /\ k # n /\ k + 1 # 1
          BY <4>3, <1>2
        <5>2. /\ t[i][k] = s[k]
              /\ Successor(t[i], k) = s[k + 1]
              /\ Successor(s, k) = s[k + 1]
          BY <5>1, <1>2, <1>4 DEF Successor
        <5>3. s[k] \in Proc \ {p, s[n]} /\ s[k + 1] \in Proc \ {p, h}
          BY <5>1, <1>2, <3>1, <2>3
        <5>4. QED
          BY <5>1, <5>2, <5>3, <3>3, <1>2, SMTT(30)
      <4>4. QED
        BY <4>1, <4>2, <4>3, <1>2
    <3>5. t[i][1] = h
      BY <3>1, <2>3, <1>4
    <3>6. QED
      BY <3>3, <3>4, <3>5, <1>4, <2>3 DEF Ring
  <2>4. QED
    BY <2>1, <2>2, <2>3, <1>2
<1>9. \A q \in Proc : q \in Q \cup {p} <=> \E k \in 1 .. Len(t[priority[q]]) : t[priority[q]][k] = q
  <2> SUFFICES ASSUME NEW q \in Proc
               PROVE  q \in Q \cup {p} <=> \E k \in 1 .. Len(t[priority[q]]) : t[priority[q]][k] = q
    OBVIOUS
  <2>1. priority[q] \in Prio
    BY PriorityAssumption
  <2>2. q \in Q <=> \E k \in 1 .. Len(rq[priority[q]]) : rq[priority[q]][k] = q
    BY DEF Holds
  <2>3. CASE priority[q] # i
    BY <2>1, <2>2, <2>3, <1>3
  <2>4. CASE priority[q] = i
    <3>1. CASE q = p
      BY <3>1, <1>2, <1>4
    <3>2. CASE q # p
      <4>1. q \in Q <=> \E k \in 1 .. n : s[k] = q
        BY <2>2, <2>4
      <4>2. ASSUME NEW k \in 1 .. n, s[k] = q
            PROVE  \E l \in 1 .. n + 1 : t[i][l] = q
        <5>1. k \in 1 .. n + 1 /\ t[i][k] = q
          BY <4>2, <1>2, <1>4
        <5>2. QED
          BY <5>1
      <4>3. ASSUME NEW k \in 1 .. n + 1, t[i][k] = q
            PROVE  \E l \in 1 .. n : s[l] = q
        <5>1. k # n + 1
          BY <4>3, <3>2, <1>4
        <5>2. k \in 1 .. n
          BY <5>1, <1>2
        <5>3. QED
          BY <5>2, <4>3, <1>4
      <4>4. QED
        BY <4>1, <4>2, <4>3, <3>2, <2>4, <1>4
    <3>3. QED
      BY <3>1, <3>2
  <2>5. QED
    BY <2>3, <2>4
<1>10. QED
  BY <1>3, <1>6, <1>7, <1>8, <1>9 DEF Holds

-----------------------------------------------------------------------------
(* remove_ready_queue.                                                       *)

\* The fields that remove_ready_queue() writes.
LEMMA RemoveFields ==
  ASSUME NEW m \in Memory, NEW p \in Proc,
         m.next[p] \in Proc, m.prev[p] \in Proc
  PROVE  LET i == priority[p]
             r == remove_ready_queue(m, p)
         IN  /\ r \in Memory
             /\ r.state = m.state
             /\ m.next[p] = p =>
                  /\ r.ready_queue = [m.ready_queue EXCEPT ![i] = NULL]
                  /\ r.ready_procs = m.ready_procs \ {i}
                  /\ r.next = m.next
                  /\ r.prev = m.prev
             /\ m.next[p] # p =>
                  /\ r.ready_queue = [m.ready_queue EXCEPT ![i] = m.next[p]]
                  /\ r.ready_procs = m.ready_procs
                  /\ r.next = [m.next EXCEPT ![m.prev[p]] = m.next[p]]
                  /\ r.prev = [m.prev EXCEPT ![m.next[p]] = m.prev[p]]
<1> DEFINE i == priority[p]
<1>1. i \in Prio
  BY PriorityAssumption
<1>2. CASE m.next[p] = p
  BY <1>1, <1>2 DEF remove_ready_queue, Memory
<1>3. CASE m.next[p] # p
  BY <1>1, <1>3 DEF remove_ready_queue, Memory
<1>4. QED
  BY <1>2, <1>3

\* remove_ready_queue takes p out and turns the queue to the successor of p;
\* the next pointer of p itself still names the new head.
LEMMA RemoveHolds ==
  ASSUME NEW m, NEW rq, NEW Q, Holds(m, rq, Q), NEW p \in Q
  PROVE  /\ Holds(remove_ready_queue(m, p), Dequeue(rq, p), Q \ {p})
         /\ LET r == remove_ready_queue(m, p)
            IN  priority[p] \in r.ready_procs
                  => r.next[p] = r.ready_queue[priority[p]]
<1> DEFINE i == priority[p]
           s == rq[i]
           n == Len(s)
           r == remove_ready_queue(m, p)
           u == Dequeue(rq, p)
<1>1. i \in Prio /\ m \in Memory /\ rq \in Queues /\ p \in Proc
  BY PriorityAssumption DEF Holds
<1>2. /\ s \in Seq(Proc)
      /\ n \in Nat
      /\ s = << >> <=> n = 0
      /\ i \in m.ready_procs <=> n > 0
      /\ \A k \in 1 .. n :
           /\ s[k] \in Q
           /\ s[k] \in Proc
           /\ priority[s[k]] = i
           /\ m.next[s[k]] = Successor(s, k)
           /\ m.prev[Successor(s, k)] = s[k]
           /\ \A l \in 1 .. n : s[l] = s[k] => l = k
  BY <1>1, RingFacts
<1>3. NoRepeats(s)
  BY <1>1 DEF Holds
<1>4. PICK k \in 1 .. n : s[k] = p
  BY <1>1 DEF Holds
<1> DEFINE t == TurnOut(s, k)
           o(j) == Origin(n, k, j)
<1>5. Position(s, p) = k
  BY <1>2, <1>3, <1>4, PositionFacts
<1>6. /\ u \in Queues
      /\ u[i] = t
      /\ \A j \in Prio : j # i => u[j] = rq[j]
  <2>1. t \in Seq(Proc)
    BY <1>2, <1>3, TurnOutFacts
  <2>2. QED
    BY <2>1, <1>1, <1>5 DEF Dequeue, Queues
<1>7. /\ t \in Seq(Proc)
      /\ Len(t) = n - 1
      /\ NoRepeats(t)
      /\ \A j \in 1 .. n - 1 : /\ o(j) \in 1 .. n
                               /\ o(j) # k
                               /\ t[j] = s[o(j)]
      /\ \A l \in 1 .. n : l # k => \E j \in 1 .. n - 1 : t[j] = s[l]
      /\ \A j \in 1 .. n - 2 : Successor(s, o(j)) = t[j + 1]
      /\ n > 1 => Successor(s, k) = t[1] /\ Successor(s, o(n - 1)) = s[k]
  BY <1>2, <1>3, TurnOutFacts
<1>b. /\ m.next = [x \in Proc |-> m.next[x]]
      /\ m.prev = [x \in Proc |-> m.prev[x]]
      /\ m.ready_queue = [x \in Prio |-> m.ready_queue[x]]
  BY <1>1 DEF Memory
<1>c. n >= 1
  BY <1>2, <1>4
<1> HIDE DEF i, s, n, r, u, t, o
<1>8. \A j \in 1 .. n - 1 : t[j] \in Proc \ {p} /\ priority[t[j]] = i
  <2> SUFFICES ASSUME NEW j \in 1 .. n - 1
               PROVE  t[j] \in Proc \ {p} /\ priority[t[j]] = i
    OBVIOUS
  <2>1. o(j) \in 1 .. n /\ o(j) # k /\ t[j] = s[o(j)]
    BY <1>7
  <2>2. s[o(j)] # s[k]
    BY <2>1, <1>2
  <2>3. QED
    BY <2>1, <2>2, <1>2, <1>4
<1>9. m.next[p] = p <=> n = 1
  <2>1. CASE n = 1
    <3>1. k = n /\ k = 1 /\ s[1] = p
      BY <2>1, <1>4
    <3>2. Successor(s, k) = s[1]
      BY <3>1 DEF Successor, n
    <3>3. QED
      BY <2>1, <3>1, <3>2, <1>2
  <2>2. CASE n > 1
    <3>1. m.next[p] = t[1] /\ 1 \in 1 .. n - 1
      BY <2>2, <1>2, <1>4, <1>7
    <3>2. QED
      BY <3>1, <2>2, <1>8
  <2>3. QED
    BY <2>1, <2>2, <1>2, <1>c
<1>10. n > 1 => /\ m.next[p] = t[1]
               /\ m.prev[p] = t[n - 1]
               /\ t[1] \in Proc /\ t[n - 1] \in Proc
  <2> SUFFICES ASSUME n > 1
               PROVE  /\ m.next[p] = t[1]
                      /\ m.prev[p] = t[n - 1]
                      /\ t[1] \in Proc /\ t[n - 1] \in Proc
    OBVIOUS
  <2>1. 1 \in 1 .. n - 1 /\ n - 1 \in 1 .. n - 1
    BY <1>2
  <2>2. m.prev[Successor(s, o(n - 1))] = s[o(n - 1)]
    BY <2>1, <1>2, <1>7
  <2>3. QED
    BY <2>1, <2>2, <1>2, <1>4, <1>7, <1>8
<1>11. m.next[p] \in Proc /\ m.prev[p] \in Proc
  <2>1. CASE n = 1
    <3>1. Successor(s, k) = s[k]
      <4>1. k = n /\ k = 1
        BY <2>1
      <4>2. QED
        BY <4>1 DEF Successor, n
    <3>2. QED
      BY <3>1, <1>1, <1>2, <1>4
  <2>2. QED
    BY <2>1, <1>2, <1>4, <1>10
<1>12. /\ r \in Memory
       /\ n = 1 =>
            /\ r.ready_queue = [m.ready_queue EXCEPT ![i] = NULL]
            /\ r.ready_procs = m.ready_procs \ {i}
            /\ r.next = m.next
            /\ r.prev = m.prev
       /\ n > 1 =>
            /\ r.ready_queue = [m.ready_queue EXCEPT ![i] = t[1]]
            /\ r.ready_procs = m.ready_procs
            /\ r.next = [m.next EXCEPT ![t[n - 1]] = t[1]]
            /\ r.prev = [m.prev EXCEPT ![t[1]] = t[n - 1]]
  <2>1. /\ r \in Memory
        /\ m.next[p] = p =>
             /\ r.ready_queue = [m.ready_queue EXCEPT ![i] = NULL]
             /\ r.ready_procs = m.ready_procs \ {i}
             /\ r.next = m.next
             /\ r.prev = m.prev
        /\ m.next[p] # p =>
             /\ r.ready_queue = [m.ready_queue EXCEPT ![i] = m.next[p]]
             /\ r.ready_procs = m.ready_procs
             /\ r.next = [m.next EXCEPT ![m.prev[p]] = m.next[p]]
             /\ r.prev = [m.prev EXCEPT ![m.next[p]] = m.prev[p]]
    BY <1>1, <1>11, RemoveFields DEF r, i
  <2>2. QED
    BY <2>1, <1>9, <1>10
<1>14. \A j \in Prio : Ring(r, j, u[j])
  <2> SUFFICES ASSUME NEW j \in Prio PROVE Ring(r, j, u[j])
    OBVIOUS
  <2>1. CASE j # i
    <3>1. u[j] = rq[j] /\ Ring(m, j, rq[j])
      BY <1>6, <2>1 DEF Holds
    <3>2. /\ r.ready_queue[j] = m.ready_queue[j]
          /\ j \in r.ready_procs <=> j \in m.ready_procs
      <4>1. CASE n = 1
        BY <4>1, <2>1, <1>12, <1>b
      <4>2. CASE n > 1
        BY <4>2, <2>1, <1>12, <1>b
      <4>3. QED
        BY <4>1, <4>2, <1>2, <1>c
    <3>3. ASSUME NEW l \in 1 .. Len(rq[j])
          PROVE  /\ r.next[rq[j][l]] = m.next[rq[j][l]]
                 /\ r.prev[rq[j][l]] = m.prev[rq[j][l]]
      <4>1. rq[j][l] \in Proc /\ priority[rq[j][l]] = j
        BY RingFacts
      <4>2. CASE n = 1
        BY <4>2, <1>12
      <4>3. CASE n > 1
        <5>1. rq[j][l] # t[1] /\ rq[j][l] # t[n - 1]
          BY <4>1, <4>3, <2>1, <1>2, <1>8
        <5>2. QED
          BY <5>1, <4>1, <4>3, <1>12, <1>b
      <4>4. QED
        BY <4>2, <4>3, <1>2, <1>c
    <3>4. \A l \in 1 .. Len(rq[j]) : \E x \in 1 .. Len(rq[j]) : Successor(rq[j], l) = rq[j][x]
      BY RingFacts DEF Successor
    <3>5. ASSUME NEW l \in 1 .. Len(rq[j])
          PROVE  r.prev[Successor(rq[j], l)] = rq[j][l]
      <4>1. PICK x \in 1 .. Len(rq[j]) : Successor(rq[j], l) = rq[j][x]
        BY <3>4
      <4>2. r.prev[rq[j][x]] = m.prev[rq[j][x]]
        BY <3>3
      <4>3. m.prev[Successor(rq[j], l)] = rq[j][l]
        BY <3>1 DEF Ring
      <4>4. QED
        BY <4>1, <4>2, <4>3
    <3>6. QED
      BY <3>1, <3>2, <3>3, <3>5 DEF Ring
  <2>2. CASE j = i /\ n = 1
    <3>1. Len(t) = 0 /\ t = << >>
      BY <2>2, <1>7
    <3>2. r.ready_queue[i] = NULL /\ i \notin r.ready_procs
      BY <2>2, <1>1, <1>12, <1>b
    <3>3. QED
      BY <3>1, <3>2, <2>2, <1>6 DEF Ring
  <2>3. CASE j = i /\ n > 1
    <3>1. r.ready_queue[i] = t[1] /\ i \in r.ready_procs /\ t # << >>
      <4>1. t # << >>
        BY <2>3, <1>7, <1>2
      <4>2. i \in r.ready_procs
        BY <2>3, <1>2, <1>12
      <4>3. r.ready_queue[i] = t[1]
        BY <2>3, <1>1, <1>12, <1>b
      <4>4. QED
        BY <4>1, <4>2, <4>3
    <3>2. ASSUME NEW l \in 1 .. n - 1
          PROVE  /\ r.next[t[l]] = Successor(t, l)
                 /\ r.prev[Successor(t, l)] = t[l]
      <4>1. CASE l = n - 1
        <5>1. Successor(t, l) = t[1]
          BY <4>1, <1>7 DEF Successor
        <5>2. r.next[t[n - 1]] = t[1] /\ r.prev[t[1]] = t[n - 1]
          BY <2>3, <1>10, <1>12, <1>b
        <5>3. QED
          BY <4>1, <5>1, <5>2
      <4>2. CASE l # n - 1
        <5>1. /\ l \in 1 .. n - 2 /\ l + 1 \in 1 .. n - 1
              /\ l \in 1 .. n - 1 /\ n - 1 \in 1 .. n - 1 /\ 1 \in 1 .. n - 1
          BY <4>2, <1>2
        <5>2. Successor(t, l) = t[l + 1] /\ t[l + 1] = Successor(s, o(l))
          BY <4>2, <5>1, <1>7 DEF Successor
        <5>3. t[l] # t[n - 1] /\ t[l + 1] # t[1]
          BY <4>2, <5>1, <1>7 DEF NoRepeats
        <5>4. r.next[t[l]] = m.next[t[l]] /\ r.prev[t[l + 1]] = m.prev[t[l + 1]]
          BY <5>1, <5>3, <2>3, <1>8, <1>12, <1>b
        <5>5. m.next[t[l]] = t[l + 1] /\ m.prev[t[l + 1]] = t[l]
          <6>1. o(l) \in 1 .. n /\ t[l] = s[o(l)]
            BY <1>7
          <6>2. m.next[s[o(l)]] = Successor(s, o(l)) /\ m.prev[Successor(s, o(l))] = s[o(l)]
            BY <6>1, <1>2
          <6>3. QED
            BY <6>1, <6>2, <5>2
        <5>6. QED
          BY <5>2, <5>4, <5>5
      <4>3. QED
        BY <4>1, <4>2
    <3>3. QED
      BY <3>1, <3>2, <2>3, <1>6, <1>7, <1>8 DEF Ring
  <2>4. QED
    BY <2>1, <2>2, <2>3, <1>2, <1>c
<1>15. \A j \in Prio : NoRepeats(u[j])
  BY <1>6, <1>7 DEF Holds
<1>d. \A q \in Proc : q \in Q <=> \E l \in 1 .. Len(rq[priority[q]]) : rq[priority[q]][l] = q
  BY DEF Holds
<1>16. \A q \in Proc : q \in Q \ {p} <=> \E l \in 1 .. Len(u[priority[q]]) : u[priority[q]][l] = q
  <2> SUFFICES ASSUME NEW q \in Proc
               PROVE  q \in Q \ {p} <=> \E l \in 1 .. Len(u[priority[q]]) : u[priority[q]][l] = q
    OBVIOUS
  <2>1. priority[q] \in Prio
    BY PriorityAssumption
  <2>2. q \in Q <=> \E l \in 1 .. Len(rq[priority[q]]) : rq[priority[q]][l] = q
    BY <1>d
  <2>3. CASE priority[q] # i
    BY <2>1, <2>2, <2>3, <1>6 DEF i
  <2>4. CASE priority[q] = i /\ q = p
    <3>1. u[priority[q]] = t /\ Len(t) = n - 1
      BY <2>4, <1>1, <1>6, <1>7
    <3>2. QED
      BY <2>4, <3>1, <1>8
  <2>5. CASE priority[q] = i /\ q # p
    <3>0. Len(t) = n - 1 /\ rq[priority[q]] = s /\ Len(s) = n
      BY <2>5, <1>7 DEF s, n
    <3>1. ASSUME q \in Q PROVE \E l \in 1 .. Len(t) : t[l] = q
      <4>1. PICK x \in 1 .. n : s[x] = q
        BY <3>0, <3>1, <2>2
      <4>2. x # k
        BY <4>1, <2>5, <1>4
      <4>3. QED
        BY <4>1, <4>2, <3>0, <1>7
    <3>2. ASSUME NEW l \in 1 .. Len(t), t[l] = q PROVE q \in Q
      <4>1. o(l) \in 1 .. n /\ t[l] = s[o(l)]
        BY <3>0, <1>7
      <4>2. QED
        BY <4>1, <3>2, <1>2
    <3>3. u[priority[q]] = t
      BY <2>5, <1>1, <1>6
    <3>4. QED
      BY <3>1, <3>2, <3>3, <2>5
  <2>6. QED
    BY <2>3, <2>4, <2>5
<1>17. i \in r.ready_procs => r.next[p] = r.ready_queue[i]
  <2>1. CASE n = 1
    BY <2>1, <1>12
  <2>2. CASE n > 1
    <3>1. p # t[n - 1]
      BY <2>2, <1>2, <1>8
    <3>2. r.next[p] = t[1]
      BY <3>1, <2>2, <1>1, <1>10, <1>12, <1>b
    <3>3. QED
      BY <3>2, <2>2, <1>1, <1>12, <1>b
  <2>3. QED
    BY <2>1, <2>2, <1>2, <1>c
<1>18. QED
  BY <1>6, <1>12, <1>14, <1>15, <1>16, <1>17 DEF Holds, i, r, u

-----------------------------------------------------------------------------
(* dispatcher.                                                               *)

\* What dispatcher needs of the active process a: it is queued, or somebody of
\* higher priority is, or its next pointer is the head of its level.
Steady(m, Q, a) ==
  \/ a \in Q
  \/ \E q \in Q : priority[a] < priority[q]
  \/ priority[a] \in m.ready_procs => m.next[a] = m.ready_queue[priority[a]]

\* dispatcher elects a queued process of the highest priority that is queued,
\* the one that Elect names.
LEMMA DispatcherElects ==
  ASSUME NEW m, NEW rq, NEW Q, Holds(m, rq, Q), Q # {},
         NEW a \in Proc, Steady(m, Q, a)
  PROVE  /\ dispatcher(m, a) \in Q
         /\ \A q \in Q : priority[q] <= priority[dispatcher(m, a)]
         /\ dispatcher(m, a) = Elect(rq, a)
<1> DEFINE i == Highest(m.ready_procs)
           s == rq[i]
           n == Len(s)
           d == dispatcher(m, a)
<1>1. m.ready_procs \in SUBSET Prio
  BY DEF Holds, Memory
<1>2. \A q \in Q : q \in Proc /\ priority[q] \in Prio /\ priority[q] \in m.ready_procs
  <2> SUFFICES ASSUME NEW q \in Q
               PROVE  q \in Proc /\ priority[q] \in Prio /\ priority[q] \in m.ready_procs
    OBVIOUS
  <2>1. q \in Proc /\ priority[q] \in Prio
    BY PriorityAssumption DEF Holds
  <2>2. PICK k \in 1 .. Len(rq[priority[q]]) : rq[priority[q]][k] = q
    BY <2>1 DEF Holds
  <2>3. QED
    BY <2>1, <2>2, RingFacts
<1>3. i \in m.ready_procs /\ i \in Prio /\ \A q \in Q : priority[q] <= i
  BY <1>1, <1>2, HighestFacts
<1>4. /\ s \in Seq(Proc)
      /\ n \in Nat
      /\ n > 0
      /\ m.ready_queue[i] = s[1]
      /\ \A k \in 1 .. n : /\ s[k] \in Q
                           /\ priority[s[k]] = i
                           /\ m.next[s[k]] = Successor(s, k)
  BY <1>3, RingFacts
<1>5. NoRepeats(s)
  BY <1>3 DEF Holds
<1>6. m.ready_procs = Levels(rq)
  BY <1>1, RingFacts DEF Levels
<1>7. a \in Members(s) <=> \E k \in 1 .. n : s[k] = a
  BY DEF Members
<1>8. Elect(rq, a) = IF priority[a] = i /\ a \in Members(s)
                     THEN Successor(s, Position(s, a)) ELSE s[1]
  BY <1>6 DEF Elect
<1> HIDE DEF i, s, n
<1>9. d = Elect(rq, a) /\ \E k \in 1 .. n : d = s[k]
  <2>1. CASE priority[a] # i
    <3>1. d = m.ready_queue[i]
      BY <2>1 DEF dispatcher, i
    <3>2. 1 \in 1 .. n
      BY <1>4
    <3>3. QED
      BY <2>1, <3>1, <3>2, <1>4, <1>8
  <2>2. CASE priority[a] = i /\ a \in Members(s)
    <3>1. PICK k \in 1 .. n : s[k] = a
      BY <2>2, <1>7
    <3>2. Position(s, a) = k
      BY <3>1, <1>4, <1>5, PositionFacts DEF n
    <3>3. d = m.next[a]
      BY <2>2 DEF dispatcher, i
    <3>4. d = Successor(s, k)
      BY <3>1, <3>3, <1>4
    <3>5. \E l \in 1 .. n : Successor(s, k) = s[l]
      BY <1>4 DEF Successor, n
    <3>6. QED
      BY <2>2, <3>2, <3>4, <3>5, <1>8
  <2>3. CASE priority[a] = i /\ a \notin Members(s)
    <3>1. a \notin Q
      <4>1. a \in Q <=> \E k \in 1 .. Len(rq[priority[a]]) : rq[priority[a]][k] = a
        BY DEF Holds
      <4>2. QED
        BY <4>1, <2>3, <1>7 DEF s, n
    <3>2. ~ \E q \in Q : priority[a] < priority[q]
      <4> SUFFICES ASSUME NEW q \in Q, priority[a] < priority[q] PROVE FALSE
        OBVIOUS
      <4>1. priority[q] <= i /\ priority[q] \in Int /\ i \in Int
        BY <1>2, <1>3 DEF Prio
      <4>2. QED
        BY <4>1, <2>3
    <3>3. d = m.next[a] /\ m.next[a] = m.ready_queue[i]
      BY <2>3, <3>1, <3>2, <1>3 DEF Steady, dispatcher, i
    <3>4. 1 \in 1 .. n
      BY <1>4
    <3>5. QED
      BY <2>3, <3>3, <3>4, <1>4, <1>8
  <2>4. QED
    BY <2>1, <2>2, <2>3
<1>10. QED
  BY <1>3, <1>4, <1>9

-----------------------------------------------------------------------------
(* The inductive invariant.                                                  *)

\* The memory holds some family of queues; the boot process is on one of them;
\* processes that have left are READY, no notifiers, and run only while their
\* next pointer is usable.
IInv ==
  /\ TypeOK
  /\ \E rq \in Queues : Holds(mem, rq, OnQueue)
  /\ Boot \in OnQueue
  /\ exited \cap Notifier = {}
  /\ \A p \in exited : mem.state[p] = "READY"
  /\ active_proc \in OnQueue \cup exited
  /\ active_proc \in exited =>
       (priority[active_proc] \in mem.ready_procs
          => mem.next[active_proc] = mem.ready_queue[priority[active_proc]])

\* The state field is not part of a ring.
LEMMA BlockedHolds ==
  ASSUME NEW m, NEW rq, NEW Q, Holds(m, rq, Q), NEW p \in Proc
  PROVE  /\ Holds(set_blocked(m, p), rq, Q)
         /\ set_blocked(m, p).state = [m.state EXCEPT ![p] = "BLOCKED"]
         /\ set_blocked(m, p).next = m.next
         /\ set_blocked(m, p).ready_queue = m.ready_queue
         /\ set_blocked(m, p).ready_procs = m.ready_procs
<1>1. m \in Memory
  BY DEF Holds
<1>2. /\ set_blocked(m, p) \in Memory
      /\ set_blocked(m, p).state = [m.state EXCEPT ![p] = "BLOCKED"]
      /\ set_blocked(m, p).next = m.next
      /\ set_blocked(m, p).prev = m.prev
      /\ set_blocked(m, p).ready_queue = m.ready_queue
      /\ set_blocked(m, p).ready_procs = m.ready_procs
  BY <1>1 DEF set_blocked, Memory
<1>3. \A i \in Prio : Ring(set_blocked(m, p), i, rq[i])
  BY <1>2 DEF Holds, Ring
<1>4. QED
  BY <1>2, <1>3 DEF Holds

\* The state field is what add and remove say it is.
LEMMA StateFields ==
  ASSUME NEW m, NEW rq, NEW Q, Holds(m, rq, Q), NEW p \in Proc
  PROVE  /\ add_ready_queue(m, p).state = [m.state EXCEPT ![p] = "READY"]
         /\ p \in Q => remove_ready_queue(m, p).state = m.state
<1>1. m \in Memory
  BY DEF Holds
<1>2. add_ready_queue(m, p).state = [m.state EXCEPT ![p] = "READY"]
  BY <1>1, AddFields
<1>3. remove_ready_queue(m, p).state = m.state
  BY <1>1 DEF remove_ready_queue
<1>4. QED
  BY <1>2, <1>3

-----------------------------------------------------------------------------
(* The refinement mapping: the queues that a memory holds can be read off it. *)

\* A sequence without repetitions is an order of the set of its elements.
LEMMA OrdersFacts ==
  ASSUME NEW s \in Seq(Proc), NoRepeats(s), NEW S,
         \A p : p \in S <=> \E k \in 1 .. Len(s) : s[k] = p
  PROVE  s \in Orders(S) /\ Cardinality(S) = Len(s)
<1>1. Len(s) \in Nat /\ s \in [1 .. Len(s) -> S]
  BY DEF NoRepeats
<1>2. s \in Bijection(1 .. Len(s), S)
  <2>1. DOMAIN s = 1 .. Len(s)
    BY <1>1
  <2>2. IsInjective(s)
    BY <2>1 DEF NoRepeats, IsInjective
  <2>3. \A p \in S : \E k \in 1 .. Len(s) : s[k] = p
    OBVIOUS
  <2>4. QED
    BY <1>1, <2>2, <2>3 DEF Bijection, Injection, Surjection
<1>3. IsFiniteSet(1 .. Len(s)) /\ Cardinality(1 .. Len(s)) = Len(s)
  BY <1>1, FS_Interval
<1>4. Cardinality(S) = Len(s)
  BY <1>2, <1>3, FS_Bijection DEF ExistsBijection
<1>5. QED
  BY <1>1, <1>4 DEF Orders, NoRepeats

\* A circular list that starts at ready_queue can be read in one way only.
LEMMA ReadingIsUnique ==
  ASSUME NEW m, NEW i, NEW S,
         NEW s \in Orders(S), Ring(m, i, s),
         NEW t \in Orders(S), Ring(m, i, t),
         Cardinality(S) \in Nat
  PROVE  s = t
<1> DEFINE n == Cardinality(S)
           Differ == {k \in 1 .. n : s[k] # t[k]}
<1>1. /\ s \in [1 .. n -> S] /\ t \in [1 .. n -> S]
      /\ s \in Seq(S) /\ t \in Seq(S)
      /\ Len(s) = n /\ Len(t) = n
  BY DEF Orders
<1>2. Differ = {}
  <2> SUFFICES ASSUME Differ # {} PROVE FALSE
    OBVIOUS
  <2>1. Differ \in SUBSET Nat
    OBVIOUS
  <2>2. PICK k \in Differ : \A j \in Differ : k <= j
    BY <2>1, LeastExists
  <2>3. k \in 1 .. n /\ s[k] # t[k]
    BY <2>2
  <2>4. CASE k = 1
    <3>1. s # << >> /\ t # << >>
      BY <1>1, <2>3
    <3>2. s[1] = m.ready_queue[i] /\ t[1] = m.ready_queue[i]
      BY <3>1 DEF Ring
    <3>3. QED
      BY <2>3, <2>4, <3>2
  <2>5. CASE k # 1
    <3>1. k - 1 \in 1 .. n /\ (k - 1) + 1 = k /\ k - 1 # n /\ ~ (k <= k - 1)
      BY <2>3, <2>5
    <3>2. s[k - 1] = t[k - 1]
      BY <2>2, <3>1
    <3>3. m.next[s[k - 1]] = s[k] /\ m.next[t[k - 1]] = t[k]
      BY <1>1, <3>1 DEF Ring, Successor
    <3>4. QED
      BY <2>3, <3>2, <3>3
  <2>6. QED
    BY <2>4, <2>5
<1>3. QED
  BY <1>1, <1>2

\* What the refinement mapping reads off a memory that holds rq is rq.
LEMMA ReadsBack ==
  ASSUME NEW m, NEW rq, NEW Q, Holds(m, rq, Q)
  PROVE  [i \in Prio |-> CHOOSE s \in Orders({p \in Q : priority[p] = i}) : Ring(m, i, s)] = rq
<1> SUFFICES ASSUME NEW i \in Prio
             PROVE  (CHOOSE s \in Orders({p \in Q : priority[p] = i}) : Ring(m, i, s)) = rq[i]
  BY DEF Holds, Queues
<1> DEFINE S == {p \in Q : priority[p] = i}
<1>1. rq[i] \in Seq(Proc) /\ Ring(m, i, rq[i]) /\ NoRepeats(rq[i])
  BY DEF Holds, Queues
<1>2. \A p : p \in S <=> \E k \in 1 .. Len(rq[i]) : rq[i][k] = p
  <2>1. \A k \in 1 .. Len(rq[i]) : rq[i][k] \in Q /\ priority[rq[i][k]] = i
    BY RingFacts
  <2>2. \A p \in Q : p \in Proc /\ \E k \in 1 .. Len(rq[priority[p]]) : rq[priority[p]][k] = p
    BY DEF Holds
  <2>3. QED
    BY <2>1, <2>2
<1>3. rq[i] \in Orders(S) /\ Cardinality(S) = Len(rq[i])
  BY <1>1, <1>2, OrdersFacts
<1>4. Cardinality(S) \in Nat
  BY <1>1, <1>3
<1> HIDE DEF S
<1>5. \A s \in Orders(S) : Ring(m, i, s) => s = rq[i]
  BY <1>1, <1>3, <1>4, ReadingIsUnique
<1>6. (CHOOSE s \in Orders(S) : Ring(m, i, s)) = rq[i]
  BY <1>1, <1>3, <1>5
<1>7. QED
  BY <1>6 DEF S

\* A memory that holds rq is read as rq, and Q as the queued processes.
Read == [i \in Prio |-> OrderOf(i)]

\* The processes in the sequences are those that are queued.
LEMMA QueuedFacts ==
  ASSUME NEW m, NEW rq, NEW Q, Holds(m, rq, Q)
  PROVE  Queued(rq) = Q
<1>1. \A p \in Proc : p \in Members(rq[priority[p]]) <=> p \in Q
  BY DEF Holds, Members
<1>2. Q \subseteq Proc
  BY DEF Holds
<1>3. QED
  BY <1>1, <1>2 DEF Queued

\* Scheduler's operators are those of ReadyQueue.
LEMMA SchedulerOperators ==
  ASSUME NEW rq, NEW p
  PROVE  /\ Promise!Enqueue(rq, p) = Enqueue(rq, p)
         /\ Promise!Dequeue(rq, p) = Dequeue(rq, p)
         /\ Promise!Elect(rq, p) = Elect(rq, p)
         /\ Promise!Queued(rq) = Queued(rq)
         /\ Promise!EmptyQueues = EmptyQueues
BY DEF Promise!Enqueue, Promise!Dequeue, Promise!Elect, Promise!Queued,
       Promise!EmptyQueues, Promise!Prio, Promise!Position, Promise!TurnOut,
       Promise!Levels, Promise!Highest, Promise!Members, Promise!Successor,
       Enqueue, Dequeue, Elect, Queued, EmptyQueues, Prio, Position, TurnOut,
       Levels, Highest, Members, Successor

\* The boot process is alone in its ring, and the scheduler starts with it.
LEMMA InitIInv == Init => IInv /\ Promise!Init
<1> SUFFICES ASSUME Init PROVE IInv /\ Promise!Init
  OBVIOUS
<1> DEFINE m == [ready_queue |-> [i \in Prio |-> NULL],
                 ready_procs |-> {},
                 next        |-> [p \in Proc |-> NULL],
                 prev        |-> [p \in Proc |-> NULL],
                 state       |-> [p \in Proc |-> "BLOCKED"]]
<1>1. Holds(m, EmptyQueues, {})
  <2>1. m \in Memory
    BY DEF Memory
  <2>2. EmptyQueues \in Queues
    BY DEF EmptyQueues, Queues
  <2>3. \A i \in Prio : EmptyQueues[i] = << >> /\ Len(EmptyQueues[i]) = 0
    BY DEF EmptyQueues
  <2>4. \A i \in Prio : Ring(m, i, EmptyQueues[i]) /\ NoRepeats(EmptyQueues[i])
    BY <2>3 DEF Ring, NoRepeats
  <2>5. ASSUME NEW p \in Proc
        PROVE  ~ \E k \in 1 .. Len(EmptyQueues[priority[p]]) : EmptyQueues[priority[p]][k] = p
    <3>1. Len(EmptyQueues[priority[p]]) = 0
      BY <2>3, PriorityAssumption
    <3>2. QED
      BY <3>1
  <2> HIDE DEF m
  <2>6. QED
    BY <2>1, <2>2, <2>4, <2>5 DEF Holds
<1>2. Boot \in Proc
  BY DispatchAssumption
<1>3. mem = add_ready_queue(m, Boot) /\ active_proc = Boot /\ exited = {}
  BY DEF Init, init_dispatcher
<1>4. Holds(mem, Enqueue(EmptyQueues, Boot), {Boot})
  BY <1>1, <1>2, <1>3, AddHolds
<1>5. mem.state = [m.state EXCEPT ![Boot] = "READY"]
  BY <1>1, <1>2, <1>3, StateFields
<1>6. OnQueue = {Boot}
  BY <1>2, <1>3, <1>5 DEF OnQueue
<1>7. TypeOK
  BY <1>2, <1>3, <1>4 DEF Holds, TypeOK, Memory
<1>8. Enqueue(EmptyQueues, Boot) \in Queues
  BY <1>4 DEF Holds
<1>9. Read = Enqueue(EmptyQueues, Boot)
  BY <1>4, <1>6, ReadsBack DEF Read, OrderOf, Level
<1>10. Promise!Init
  BY <1>3, <1>9, SchedulerOperators DEF Promise!Init, Read
<1>11. QED
  BY <1>3, <1>4, <1>6, <1>7, <1>8, <1>10 DEF IInv

-----------------------------------------------------------------------------
(* Each action keeps the invariant, and each dispatch elects the top.        *)

\* A process is made ready and the CPU stays where it is.
LEMMA WakeStep ==
  ASSUME IInv, NEW p \in Proc, Wake(p)
  PROVE  IInv' /\ Promise!Wake(p)
<1>1. PICK rq \in Queues : Holds(mem, rq, OnQueue)
  BY DEF IInv
<1>2. /\ mem' = add_ready_queue(mem, p)
      /\ p \notin OnQueue /\ p \notin exited
      /\ active_proc \notin exited
      /\ active_proc' = active_proc /\ exited' = exited
  BY DEF Wake, IInv, OnQueue
<1>3. Holds(mem', Enqueue(rq, p), OnQueue \cup {p})
  BY <1>1, <1>2, AddHolds
<1>4. mem'.state = [mem.state EXCEPT ![p] = "READY"]
  BY <1>1, <1>2, StateFields
<1>5. OnQueue' = OnQueue \cup {p}
  BY <1>2, <1>4 DEF OnQueue, IInv, TypeOK
<1>6. TypeOK'
  BY <1>2, <1>3 DEF Holds, Memory, TypeOK, IInv
<1>7. \A q \in exited' : mem'.state[q] = "READY"
  BY <1>2, <1>4 DEF IInv, TypeOK
<1>8. Enqueue(rq, p) \in Queues
  BY <1>3 DEF Holds
<1>9. Promise!Wake(p)
  <2>1. Read = rq /\ Queued(rq) = OnQueue
    BY <1>1, ReadsBack, QueuedFacts DEF Read, OrderOf, Level
  <2>2. Read' = Enqueue(rq, p)
    BY <1>3, <1>5, ReadsBack DEF Read, OrderOf, Level
  <2>3. QED
    BY <2>1, <2>2, <1>2, SchedulerOperators DEF Promise!Wake, Read
<1>10. QED
  BY <1>2, <1>3, <1>5, <1>6, <1>7, <1>8, <1>9 DEF IInv

\* A process is made ready and the dispatcher runs.
LEMMA WakeAndResignStep ==
  ASSUME IInv, NEW p \in Proc, WakeAndResign(p)
  PROVE  IInv' /\ IsTop(active_proc)' /\ Promise!WakeAndResign(p)
<1>1. PICK rq \in Queues : Holds(mem, rq, OnQueue)
  BY DEF IInv
<1>2. /\ mem' = add_ready_queue(mem, p)
      /\ p \notin OnQueue /\ p \notin exited
      /\ active_proc' = dispatcher(mem', active_proc) /\ exited' = exited
      /\ active_proc \in exited => p \in Notifier
  BY DEF WakeAndResign, IInv, OnQueue
<1>3. Holds(mem', Enqueue(rq, p), OnQueue \cup {p})
  BY <1>1, <1>2, AddHolds
<1>4. mem'.state = [mem.state EXCEPT ![p] = "READY"]
  BY <1>1, <1>2, StateFields
<1>5. OnQueue' = OnQueue \cup {p}
  BY <1>2, <1>4 DEF OnQueue, IInv, TypeOK
<1>6. active_proc \in Proc
  BY DEF IInv, TypeOK
<1>7. Steady(mem', OnQueue', active_proc)
  <2>1. CASE active_proc \in OnQueue
    BY <2>1, <1>5 DEF Steady
  <2>2. CASE active_proc \in exited
    <3>1. p \in Notifier /\ active_proc \in Proc \ Notifier
      BY <2>2, <1>2, <1>6 DEF IInv
    <3>2. priority[active_proc] < priority[p]
      BY <3>1, DispatchAssumption
    <3>3. QED
      BY <3>2, <1>5 DEF Steady
  <2>3. QED
    BY <2>1, <2>2 DEF IInv
<1>8. IsTop(active_proc)' /\ active_proc' \in OnQueue'
  <2>1. OnQueue' # {}
    BY <1>5
  <2>2. /\ dispatcher(mem', active_proc) \in OnQueue'
        /\ \A q \in OnQueue' : priority[q] <= priority[dispatcher(mem', active_proc)]
    BY <2>1, <1>3, <1>5, <1>6, <1>7, DispatcherElects
  <2>3. QED
    BY <2>2, <1>2 DEF IsTop
<1>9. TypeOK'
  BY <1>2, <1>3, <1>5, <1>8 DEF Holds, Memory, TypeOK, IInv
<1>10. \A q \in exited' : mem'.state[q] = "READY"
  BY <1>2, <1>4 DEF IInv, TypeOK
<1>11. Enqueue(rq, p) \in Queues /\ active_proc' \notin exited'
  BY <1>3, <1>8 DEF Holds, OnQueue
<1>12. Promise!WakeAndResign(p)
  <2>1. Read = rq /\ Queued(rq) = OnQueue
    BY <1>1, ReadsBack, QueuedFacts DEF Read, OrderOf, Level
  <2>2. Read' = Enqueue(rq, p)
    BY <1>3, <1>5, ReadsBack DEF Read, OrderOf, Level
  <2>3. active_proc' = Elect(Enqueue(rq, p), active_proc)
    BY <1>2, <1>3, <1>5, <1>6, <1>7, <1>8, DispatcherElects
  <2>4. QED
    BY <2>1, <2>2, <2>3, <1>2, SchedulerOperators DEF Promise!WakeAndResign, Read
<1>13. QED
  BY <1>2, <1>3, <1>5, <1>8, <1>9, <1>10, <1>11, <1>12 DEF IInv

\* A process that takes itself off the queue leaves a usable next pointer.
LEMMA LeaveHolds ==
  ASSUME NEW m, NEW rq, NEW Q, Holds(m, rq, Q), NEW a \in Q
  PROVE  LET r == set_blocked(remove_ready_queue(m, a), a)
         IN  /\ Holds(r, Dequeue(rq, a), Q \ {a})
             /\ r.state = [m.state EXCEPT ![a] = "BLOCKED"]
             /\ Steady(r, Q \ {a}, a)
<1> DEFINE v == remove_ready_queue(m, a)
           r == set_blocked(v, a)
<1>1. a \in Proc
  BY DEF Holds
<1>2. /\ Holds(v, Dequeue(rq, a), Q \ {a})
      /\ priority[a] \in v.ready_procs => v.next[a] = v.ready_queue[priority[a]]
  BY RemoveHolds
<1>3. v.state = m.state
  BY <1>1, StateFields
<1> HIDE DEF v
<1>4. /\ Holds(r, Dequeue(rq, a), Q \ {a})
      /\ r.state = [v.state EXCEPT ![a] = "BLOCKED"]
      /\ r.next = v.next
      /\ r.ready_queue = v.ready_queue
      /\ r.ready_procs = v.ready_procs
  BY <1>1, <1>2, BlockedHolds
<1>5. Steady(r, Q \ {a}, a)
  BY <1>2, <1>4 DEF Steady
<1>6. QED
  BY <1>3, <1>4, <1>5 DEF v

\* The active process makes another one ready and blocks, as in send().
LEMMA HandOverStep ==
  ASSUME IInv, NEW p \in Proc, HandOver(p)
  PROVE  IInv' /\ IsTop(active_proc)' /\ Promise!HandOver(p)
<1> DEFINE a == active_proc
           v == add_ready_queue(mem, p)
<1>1. PICK rq \in Queues : Holds(mem, rq, OnQueue)
  BY DEF IInv
<1>2. /\ mem' = set_blocked(remove_ready_queue(v, a), a)
      /\ p \notin OnQueue /\ p \notin exited
      /\ a \in OnQueue /\ a \notin exited /\ a # Boot
      /\ active_proc' = dispatcher(mem', a) /\ exited' = exited
      /\ a \in Proc
  BY DEF HandOver, IInv, OnQueue
<1>3. /\ Holds(v, Enqueue(rq, p), OnQueue \cup {p})
      /\ v.state = [mem.state EXCEPT ![p] = "READY"]
  BY <1>1, <1>2, AddHolds, StateFields
<1> HIDE DEF v, a
<1>4. /\ Holds(mem', Dequeue(Enqueue(rq, p), a), (OnQueue \cup {p}) \ {a})
      /\ mem'.state = [v.state EXCEPT ![a] = "BLOCKED"]
      /\ Steady(mem', (OnQueue \cup {p}) \ {a}, a)
  BY <1>2, <1>3, LeaveHolds
<1>5. OnQueue' = (OnQueue \cup {p}) \ {a}
  BY <1>2, <1>3, <1>4 DEF OnQueue, IInv, TypeOK
<1>6. Boot \in OnQueue'
  BY <1>2, <1>5 DEF IInv
<1>7. IsTop(active_proc)' /\ active_proc' \in OnQueue'
  <2>1. /\ dispatcher(mem', a) \in OnQueue'
        /\ \A q \in OnQueue' : priority[q] <= priority[dispatcher(mem', a)]
    BY <1>2, <1>4, <1>5, <1>6, DispatcherElects
  <2>2. QED
    BY <2>1, <1>2 DEF IsTop
<1>8. TypeOK'
  BY <1>2, <1>4, <1>5, <1>7 DEF Holds, Memory, TypeOK, IInv
<1>9. \A q \in exited' : mem'.state[q] = "READY"
  BY <1>2, <1>3, <1>4 DEF IInv, TypeOK
<1>10. Dequeue(Enqueue(rq, p), a) \in Queues /\ active_proc' \notin exited'
  BY <1>4, <1>7 DEF Holds, OnQueue
<1>11. Promise!HandOver(p)
  <2>1. Read = rq /\ Queued(rq) = OnQueue
    BY <1>1, ReadsBack, QueuedFacts DEF Read, OrderOf, Level
  <2>2. Read' = Dequeue(Enqueue(rq, p), a)
    BY <1>4, <1>5, ReadsBack DEF Read, OrderOf, Level
  <2>3. active_proc' = Elect(Dequeue(Enqueue(rq, p), a), a)
    BY <1>2, <1>4, <1>5, <1>6, DispatcherElects
  <2>4. QED
    BY <2>1, <2>2, <2>3, <1>2, SchedulerOperators DEF Promise!HandOver, Read, a
<1>12. QED
  BY <1>2, <1>4, <1>5, <1>6, <1>7, <1>8, <1>9, <1>10, <1>11 DEF IInv

\* The active process leaves its ring and the dispatcher starts from where it
\* was linked.
LEMMA BlockStep ==
  ASSUME IInv, Block
  PROVE  IInv' /\ IsTop(active_proc)' /\ Promise!Block
<1> DEFINE a == active_proc
<1>1. PICK rq \in Queues : Holds(mem, rq, OnQueue)
  BY DEF IInv
<1>2. /\ mem' = set_blocked(remove_ready_queue(mem, a), a)
      /\ a \in OnQueue /\ a \notin exited /\ a # Boot
      /\ active_proc' = dispatcher(mem', a) /\ exited' = exited
      /\ a \in Proc
  BY DEF Block, IInv, OnQueue
<1> HIDE DEF a
<1>3. /\ Holds(mem', Dequeue(rq, a), OnQueue \ {a})
      /\ mem'.state = [mem.state EXCEPT ![a] = "BLOCKED"]
      /\ Steady(mem', OnQueue \ {a}, a)
  BY <1>1, <1>2, LeaveHolds
<1>4. OnQueue' = OnQueue \ {a}
  BY <1>2, <1>3 DEF OnQueue, IInv, TypeOK
<1>5. Boot \in OnQueue'
  BY <1>2, <1>4 DEF IInv
<1>6. IsTop(active_proc)' /\ active_proc' \in OnQueue'
  <2>1. /\ dispatcher(mem', a) \in OnQueue'
        /\ \A q \in OnQueue' : priority[q] <= priority[dispatcher(mem', a)]
    BY <1>2, <1>3, <1>4, <1>5, DispatcherElects
  <2>2. QED
    BY <2>1, <1>2 DEF IsTop
<1>7. TypeOK'
  BY <1>2, <1>3, <1>4, <1>6 DEF Holds, Memory, TypeOK, IInv
<1>8. \A q \in exited' : mem'.state[q] = "READY"
  BY <1>2, <1>3 DEF IInv, TypeOK
<1>9. Dequeue(rq, a) \in Queues /\ active_proc' \notin exited'
  BY <1>3, <1>6 DEF Holds, OnQueue
<1>10. Promise!Block
  <2>1. Read = rq
    BY <1>1, ReadsBack DEF Read, OrderOf, Level
  <2>2. Read' = Dequeue(rq, a)
    BY <1>3, <1>4, ReadsBack DEF Read, OrderOf, Level
  <2>3. active_proc' = Elect(Dequeue(rq, a), a)
    BY <1>2, <1>3, <1>4, <1>5, DispatcherElects
  <2>4. QED
    BY <2>1, <2>2, <2>3, <1>2, SchedulerOperators DEF Promise!Block, Read, a
<1>11. QED
  BY <1>2, <1>3, <1>4, <1>5, <1>6, <1>7, <1>8, <1>9, <1>10 DEF IInv

\* Whatever the kernel has done, a resign() elects a top process.
LEMMA DispatchOfIInv ==
  ASSUME IInv
  PROVE  ElectsTop
<1>1. PICK rq \in Queues : Holds(mem, rq, OnQueue)
  BY DEF IInv
<1>2. Steady(mem, OnQueue, active_proc) /\ OnQueue # {} /\ active_proc \in Proc
  BY DEF IInv, Steady, TypeOK
<1>3. QED
  BY <1>1, <1>2, DispatcherElects DEF ElectsTop, IsTop

\* The dispatcher goes on along the ring of the highest level.
LEMMA ResignStep ==
  ASSUME IInv, Resign
  PROVE  IInv' /\ IsTop(active_proc)' /\ Promise!Resign
<1>1. /\ mem' = mem /\ exited' = exited
      /\ active_proc' = dispatcher(mem, active_proc)
  BY DEF Resign
<1>2. OnQueue' = OnQueue
  BY <1>1 DEF OnQueue
<1>3. IsTop(active_proc)' /\ active_proc' \in OnQueue'
  BY <1>1, <1>2, DispatchOfIInv DEF ElectsTop, IsTop
<1>4. TypeOK' /\ active_proc' \notin exited'
  BY <1>1, <1>2, <1>3 DEF TypeOK, IInv, OnQueue
<1>5. Promise!Resign
  <2>1. PICK rq \in Queues : Holds(mem, rq, OnQueue)
    BY DEF IInv
  <2>2. Read = rq
    BY <2>1, ReadsBack DEF Read, OrderOf, Level
  <2>3. Steady(mem, OnQueue, active_proc) /\ OnQueue # {} /\ active_proc \in Proc
    BY DEF IInv, Steady, TypeOK
  <2>4. active_proc' = Elect(rq, active_proc)
    BY <2>1, <2>3, <1>1, DispatcherElects
  <2>5. Read' = Read
    BY <1>1, <1>2 DEF Read, OrderOf, Level
  <2>6. QED
    BY <2>2, <2>4, <2>5, <1>1, SchedulerOperators DEF Promise!Resign, Read
<1>6. QED
  BY <1>1, <1>2, <1>3, <1>4, <1>5 DEF IInv

\* A process that leaves for good goes on running until the next dispatch.
LEMMA ExitStep ==
  ASSUME IInv, Exit
  PROVE  IInv' /\ Promise!Exit
<1> DEFINE a == active_proc
<1>1. PICK rq \in Queues : Holds(mem, rq, OnQueue)
  BY DEF IInv
<1>2. /\ mem' = remove_ready_queue(mem, a)
      /\ a \in OnQueue /\ a \notin Notifier /\ a # Boot
      /\ active_proc' = a /\ exited' = exited \cup {a}
      /\ a \in Proc
  BY DEF Exit, IInv, OnQueue
<1>3. /\ Holds(mem', Dequeue(rq, a), OnQueue \ {a})
      /\ priority[a] \in mem'.ready_procs => mem'.next[a] = mem'.ready_queue[priority[a]]
      /\ mem'.state = mem.state
  <2>1. /\ Holds(remove_ready_queue(mem, a), Dequeue(rq, a), OnQueue \ {a})
        /\ LET r == remove_ready_queue(mem, a)
           IN  priority[a] \in r.ready_procs => r.next[a] = r.ready_queue[priority[a]]
    BY <1>1, <1>2, RemoveHolds
  <2>2. remove_ready_queue(mem, a).state = mem.state
    BY <1>1, <1>2, StateFields
  <2>3. QED
    BY <2>1, <2>2, <1>2
<1>4. OnQueue' = OnQueue \ {a}
  BY <1>2, <1>3 DEF OnQueue
<1>5. \A q \in exited' : mem'.state[q] = "READY"
  BY <1>2, <1>3 DEF IInv, OnQueue
<1>6. TypeOK'
  BY <1>2, <1>3 DEF Holds, Memory, TypeOK, IInv
<1>7. Dequeue(rq, a) \in Queues
  BY <1>3 DEF Holds
<1>8. Promise!Exit
  <2>1. Read = rq
    BY <1>1, ReadsBack DEF Read, OrderOf, Level
  <2>2. Read' = Dequeue(rq, a)
    BY <1>3, <1>4, ReadsBack DEF Read, OrderOf, Level
  <2>3. Promise!Dequeue(rq, active_proc) = Dequeue(rq, a)
    BY SchedulerOperators
  <2>4. QED
    BY <2>1, <2>2, <2>3 DEF Promise!Exit, Exit, Read
<1>9. QED
  BY <1>2, <1>3, <1>4, <1>5, <1>6, <1>7, <1>8 DEF IInv

\* Every step keeps the invariant, elects the top when it elects, and is a step
\* of the scheduler.
LEMMA IInvStep ==
  ASSUME IInv, [Next]_vars
  PROVE  /\ IInv'
         /\ active_proc' # active_proc => IsTop(active_proc)'
         /\ [Promise!Next]_Promise!vars
<1>1. ASSUME NEW p \in Proc, Wake(p)
      PROVE  IInv' /\ active_proc' = active_proc /\ Promise!Wake(p)
  BY <1>1, WakeStep DEF Wake
<1>2. ASSUME NEW p \in Proc, WakeAndResign(p)
      PROVE  IInv' /\ IsTop(active_proc)' /\ Promise!WakeAndResign(p)
  BY <1>2, WakeAndResignStep
<1>3. ASSUME NEW p \in Proc, HandOver(p)
      PROVE  IInv' /\ IsTop(active_proc)' /\ Promise!HandOver(p)
  BY <1>3, HandOverStep
<1>4. CASE Block
  BY <1>4, BlockStep DEF Promise!Next
<1>5. CASE Resign
  BY <1>5, ResignStep DEF Promise!Next
<1>6. CASE Exit
  BY <1>6, ExitStep DEF Exit, Promise!Next
<1>7. CASE UNCHANGED vars
  <2>1. IInv' /\ active_proc' = active_proc /\ exited' = exited
    BY <1>7 DEF vars, IInv, TypeOK, OnQueue
  <2>2. Read' = Read
    BY <1>7 DEF vars, Read, OrderOf, Level, OnQueue
  <2>3. QED
    BY <2>1, <2>2 DEF Promise!vars, Read
<1>8. QED
  BY <1>1, <1>2, <1>3, <1>4, <1>5, <1>6, <1>7 DEF Next, Promise!Next

-----------------------------------------------------------------------------
(* The theorems.                                                             *)

\* Rings that hold sequences are intact.
LEMMA HoldsIntact ==
  ASSUME IInv
  PROVE  QueuesIntact
<1>1. PICK rq \in Queues : Holds(mem, rq, OnQueue)
  BY DEF IInv
<1>2. ASSUME NEW i \in Prio
      PROVE  \E s \in Orders(Level(i)) : Ring(mem, i, s)
  <2>1. rq[i] \in Seq(Proc) /\ Ring(mem, i, rq[i]) /\ NoRepeats(rq[i])
    BY <1>1 DEF Holds, Queues
  <2>2. \A p : p \in Level(i) <=> \E k \in 1 .. Len(rq[i]) : rq[i][k] = p
    <3>1. \A k \in 1 .. Len(rq[i]) : rq[i][k] \in OnQueue /\ priority[rq[i][k]] = i
      BY <1>1, RingFacts
    <3>2. \A p \in OnQueue : p \in Proc /\ \E k \in 1 .. Len(rq[priority[p]]) : rq[priority[p]][k] = p
      BY <1>1 DEF Holds
    <3>3. QED
      BY <3>1, <3>2 DEF Level
  <2>3. rq[i] \in Orders(Level(i))
    BY <2>1, <2>2, OrdersFacts
  <2>4. QED
    BY <2>1, <2>3
<1>3. QED
  BY <1>2 DEF QueuesIntact

\* The inductive invariant holds in every state that dispatch.c reaches.
THEOREM Invariance == Spec => []IInv
<1>1. IInv /\ [Next]_vars => IInv'
  BY IInvStep
<1>2. QED
  BY <1>1, InitIInv, PTL DEF Spec

\* The pointers of dispatch.c always are what their declarations say.
THEOREM TypeCorrect == Spec => []TypeOK
<1>1. IInv => TypeOK
  BY DEF IInv
<1>2. QED
  BY <1>1, Invariance, PTL

\* However add_ready_queue, remove_ready_queue and resign are interleaved, the
\* pointers form one circular list per priority level that holds exactly the
\* processes that are ready.
THEOREM QueuesStayIntact == Spec => []QueuesIntact
<1>1. IInv => QueuesIntact
  BY HoldsIntact
<1>2. QED
  BY <1>1, Invariance, PTL

\* The CPU is never held by a process that has blocked itself.
THEOREM ActiveStaysReady == Spec => []ActiveIsReady
<1>1. IInv => ActiveIsReady
  BY DEF IInv, ActiveIsReady
<1>2. QED
  BY <1>1, Invariance, PTL

\* In every reachable state dispatcher() finds a process on a queue, and no
\* queued process has a higher priority.
THEOREM AlwaysElectsTop == Spec => []ElectsTop
<1>1. IInv => ElectsTop
  BY DispatchOfIInv
<1>2. QED
  BY <1>1, Invariance, PTL

\* Every context switch is to a top process.
THEOREM AlwaysDispatchesTop == Spec => DispatchesTop
<1>1. IInv /\ [Next]_vars => [active_proc' # active_proc => IsTop(active_proc)']_vars
  BY IInvStep
<1>2. QED
  BY <1>1, Invariance, PTL DEF Spec, DispatchesTop

\* dispatch.c implements Scheduler: read as sequences, its circular lists are
\* queues that are joined at the end and turned when a process leaves, and the
\* CPU goes to the successor or to the head that Scheduler names.
THEOREM SchedulerImplemented == Spec => ImplementsScheduler
<1>1. Init => Promise!Init
  BY InitIInv
<1>2. IInv /\ [Next]_vars => [Promise!Next]_Promise!vars
  BY IInvStep
<1>3. QED
  BY <1>1, <1>2, Invariance, PTL DEF Spec, Promise!Spec, ImplementsScheduler
=============================================================================
