-------------------------- MODULE ReadyQueue_proofs --------------------------
(* What the operators of ReadyQueue do to a family of queues that is sound,   *)
(* that is, in which every process is queued at its own level and once:       *)
(* Enqueue adds one process to the queued ones, Dequeue takes one out, both   *)
(* keep the queues sound, and Elect names a queued process of the highest     *)
(* queued priority.                                                           *)
EXTENDS ReadyQueue, SequenceTheorems, WellFoundedInduction, TLAPS

-------------------------------------------------------------------------------
(* Numbers and levels.                                                        *)

\* A non-empty set of natural numbers has a least element.
LEMMA LeastExists ==
  ASSUME NEW T \in SUBSET Nat, T # {}
  PROVE  \E x \in T : \A y \in T : x <= y
<1>1. \E x \in T : \A y \in T : ~ (<<y, x>> \in OpToRel(<, Nat))
  BY NatLessThanWellFounded, WFMin
<1>2. PICK x \in T : \A y \in T : ~ (<<y, x>> \in OpToRel(<, Nat))
  BY <1>1
<1>3. ASSUME NEW y \in T PROVE x <= y
  <2>1. ~ (y < x)
    BY <1>2 DEF OpToRel
  <2>2. QED
    BY <2>1
<1>4. QED
  BY <1>3

\* The highest of a set of priorities is one of them.
LEMMA HighestFacts ==
  ASSUME NEW S \in SUBSET Prio, S # {}
  PROVE  Highest(S) \in S /\ \A j \in S : j <= Highest(S)
<1> DEFINE T == {MAX_READY_QUEUES - j : j \in S}
<1>1. T \in SUBSET Nat /\ T # {}
  BY PriorityAssumption DEF Prio
<1>2. PICK x \in T : \A y \in T : x <= y
  BY <1>1, LeastExists
<1>3. PICK i \in S : x = MAX_READY_QUEUES - i
  BY <1>2
<1>4. \A j \in S : j <= i
  <2> SUFFICES ASSUME NEW j \in S PROVE j <= i
    OBVIOUS
  <2>1. MAX_READY_QUEUES - i <= MAX_READY_QUEUES - j
    BY <1>2, <1>3
  <2>2. i \in Int /\ j \in Int /\ MAX_READY_QUEUES \in Int
    BY PriorityAssumption DEF Prio
  <2>3. QED
    BY <2>1, <2>2
<1>5. QED
  BY <1>4 DEF Highest
-------------------------------------------------------------------------------
(* Sequences without repetitions.                                             *)

\* Where the j-th element of TurnOut(s, k) comes from.
Origin(n, k, j) == IF k + j <= n THEN k + j ELSE k + j - n

\* TurnOut drops the k-th element and keeps the cyclic order of the others.
LEMMA TurnOutFacts ==
  ASSUME NEW s \in Seq(Proc), NoRepeats(s), NEW k \in 1 .. Len(s)
  PROVE  LET n == Len(s)
             t == TurnOut(s, k)
         IN  /\ t \in Seq(Proc)
             /\ Len(t) = n - 1
             /\ NoRepeats(t)
             /\ \A j \in 1 .. n - 1 : /\ Origin(n, k, j) \in 1 .. n
                                      /\ Origin(n, k, j) # k
                                      /\ t[j] = s[Origin(n, k, j)]
             /\ \A l \in 1 .. n : l # k => \E j \in 1 .. n - 1 : t[j] = s[l]
             /\ \A j \in 1 .. n - 2 : Successor(s, Origin(n, k, j)) = t[j + 1]
             /\ n > 1 => /\ Successor(s, k) = t[1]
                         /\ Successor(s, Origin(n, k, n - 1)) = s[k]
<1> DEFINE n == Len(s)
           t == TurnOut(s, k)
           o(j) == Origin(n, k, j)
<1>1. n \in Nat /\ n >= 1 /\ k \in Nat /\ \A j \in 1 .. n : s[j] \in Proc
  OBVIOUS
<1>2. \A j \in 1 .. n - 1 : o(j) \in 1 .. n /\ o(j) # k
  BY <1>1 DEF Origin
<1>3. t = [j \in 1 .. n - 1 |-> s[o(j)]]
  BY DEF TurnOut, Origin
<1>4. t \in Seq(Proc) /\ Len(t) = n - 1 /\ \A j \in 1 .. n - 1 : t[j] = s[o(j)]
  <2>1. t \in [1 .. n - 1 -> Proc]
    BY <1>1, <1>2, <1>3
  <2>2. n - 1 \in Nat
    BY <1>1
  <2>3. QED
    BY <2>1, <2>2, <1>3
<1>5. \A j, l \in 1 .. n - 1 : o(j) = o(l) => j = l
  BY <1>1 DEF Origin
<1>6. NoRepeats(t)
  BY <1>2, <1>4, <1>5 DEF NoRepeats
<1>7. ASSUME NEW l \in 1 .. n, l # k
      PROVE  \E j \in 1 .. n - 1 : t[j] = s[l]
  <2>1. CASE l > k
    <3>1. l - k \in 1 .. n - 1 /\ o(l - k) = l
      BY <1>1, <2>1 DEF Origin
    <3>2. QED
      BY <3>1, <1>4
  <2>2. CASE l < k
    <3>1. l - k + n \in 1 .. n - 1 /\ o(l - k + n) = l
      BY <1>1, <2>2 DEF Origin
    <3>2. QED
      BY <3>1, <1>4
  <2>3. QED
    BY <1>7, <2>1, <2>2, <1>1
<1>8. ASSUME NEW j \in 1 .. n - 2
      PROVE  Successor(s, o(j)) = t[j + 1]
  <2>1. j \in 1 .. n - 1 /\ j + 1 \in 1 .. n - 1
    BY <1>1
  <2>2. o(j + 1) = IF o(j) = n THEN 1 ELSE o(j) + 1
    BY <1>1, <2>1 DEF Origin
  <2>3. QED
    BY <2>1, <2>2, <1>4 DEF Successor
<1>9. ASSUME n > 1
      PROVE  Successor(s, k) = t[1] /\ Successor(s, o(n - 1)) = s[k]
  <2>1. o(1) = IF k = n THEN 1 ELSE k + 1
    BY <1>1, <1>9 DEF Origin
  <2>2. k = IF o(n - 1) = n THEN 1 ELSE o(n - 1) + 1
    BY <1>1, <1>9 DEF Origin
  <2>3. 1 \in 1 .. n - 1
    BY <1>1, <1>9
  <2>4. QED
    BY <2>1, <2>2, <2>3, <1>4 DEF Successor
<1>10. QED
  BY <1>2, <1>4, <1>6, <1>7, <1>8, <1>9

\* In a queue without repetitions each element has one position.
LEMMA PositionFacts ==
  ASSUME NEW s \in Seq(Proc), NoRepeats(s), NEW k \in 1 .. Len(s)
  PROVE  Position(s, s[k]) = k
BY DEF Position, NoRepeats

\* The elements of a sequence.
LEMMA MembersFacts ==
  ASSUME NEW S, NEW s \in Seq(S)
  PROVE  /\ Members(s) \subseteq S
         /\ \A x : x \in Members(s) <=> \E k \in 1 .. Len(s) : s[k] = x
         /\ s = << >> <=> Members(s) = {}
<1>1. Len(s) \in Nat /\ \A k \in 1 .. Len(s) : s[k] \in S
  OBVIOUS
<1>2. s = << >> <=> Len(s) = 0
  OBVIOUS
<1>3. Len(s) # 0 => 1 \in 1 .. Len(s)
  BY <1>1
<1>4. s = << >> <=> Members(s) = {}
  <2>1. CASE Len(s) = 0
    <3>1. ~ \E k \in 1 .. Len(s) : TRUE
      BY <2>1
    <3>2. QED
      BY <2>1, <3>1, <1>2 DEF Members
  <2>2. CASE Len(s) # 0
    <3>1. s[1] \in Members(s)
      BY <2>2, <1>3 DEF Members
    <3>2. QED
      BY <2>2, <3>1, <1>2
  <2>3. QED
    BY <2>1, <2>2
<1>5. QED
  BY <1>1, <1>4 DEF Members

\* Appending a new element adds it to the members and repeats nobody.
LEMMA AppendKeeps ==
  ASSUME NEW S, NEW s \in Seq(S), NEW x \in S
  PROVE  /\ Append(s, x) \in Seq(S)
         /\ Append(s, x) # << >>
         /\ Members(Append(s, x)) = Members(s) \cup {x}
         /\ NoRepeats(s) /\ x \notin Members(s) => NoRepeats(Append(s, x))
<1> DEFINE t == Append(s, x)
           n == Len(s)
<1>1. /\ t \in Seq(S)
      /\ t # << >>
      /\ Len(t) = n + 1
      /\ \A k \in 1 .. n : t[k] = s[k]
      /\ t[n + 1] = x
      /\ n \in Nat
  BY AppendProperties
<1> HIDE DEF t
<1>2. \A k \in 1 .. n + 1 : k = n + 1 \/ k \in 1 .. n
  BY <1>1
<1>3. \A k \in 1 .. n : k \in 1 .. n + 1 /\ k # n + 1
  BY <1>1
<1>4. n + 1 \in 1 .. n + 1
  BY <1>1
<1>5. \A y : y \in Members(t) <=> y \in Members(s) \/ y = x
  <2> TAKE y
  <2>1. ASSUME y \in Members(t) PROVE y \in Members(s) \/ y = x
    BY <1>1, <1>2, <2>1 DEF Members
  <2>2. ASSUME y \in Members(s) PROVE y \in Members(t)
    <3>1. PICK k \in 1 .. n : s[k] = y
      BY <2>2 DEF Members
    <3>2. t[k] = y /\ k \in 1 .. Len(t)
      BY <3>1, <1>1, <1>3
    <3>3. QED
      BY <3>2 DEF Members
  <2>3. x \in Members(t)
    BY <1>1, <1>4 DEF Members
  <2>4. QED
    BY <2>1, <2>2, <2>3
<1>6. ASSUME NoRepeats(s), x \notin Members(s) PROVE NoRepeats(t)
  <2>1. \A k \in 1 .. n : t[k] # x
    BY <1>1, <1>6 DEF Members
  <2>2. ASSUME NEW j \in 1 .. n + 1, NEW k \in 1 .. n + 1, t[j] = t[k] PROVE j = k
    <3>1. j = n + 1 => k = n + 1
      BY <2>1, <2>2, <1>1, <1>2
    <3>2. k = n + 1 => j = n + 1
      BY <2>1, <2>2, <1>1, <1>2
    <3>3. j \in 1 .. n /\ k \in 1 .. n => j = k
      BY <2>2, <1>1, <1>6 DEF NoRepeats
    <3>4. QED
      BY <3>1, <3>2, <3>3, <1>2
  <2>3. QED
    BY <2>2, <1>1 DEF NoRepeats
<1>7. QED
  BY <1>1, <1>5, <1>6 DEF t

\* Taking the head away removes it and nobody else.
LEMMA TailKeeps ==
  ASSUME NEW S, NEW s \in Seq(S), s # << >>, NoRepeats(s)
  PROVE  /\ Head(s) \in Members(s)
         /\ Tail(s) \in Seq(S)
         /\ Members(Tail(s)) = Members(s) \ {Head(s)}
         /\ NoRepeats(Tail(s))
<1> DEFINE t == Tail(s)
           n == Len(s)
<1>1. /\ t \in Seq(S)
      /\ Len(t) = n - 1
      /\ \A k \in 1 .. n - 1 : t[k] = s[k + 1]
      /\ n \in Nat /\ n > 0
      /\ Head(s) = s[1]
  <2>1. n \in Nat /\ n > 0 /\ Head(s) = s[1]
    OBVIOUS
  <2>2. QED
    BY <2>1, HeadTailProperties
<1> HIDE DEF t
<1>2. Head(s) \in Members(s)
  BY <1>1 DEF Members
<1>3. \A k \in 1 .. n - 1 : k + 1 \in 1 .. n /\ k + 1 # 1
  BY <1>1
<1>4. \A k \in 1 .. n : k # 1 => k - 1 \in 1 .. n - 1 /\ (k - 1) + 1 = k
  BY <1>1
<1>5. \A y : y \in Members(t) <=> y \in Members(s) \ {s[1]}
  <2> TAKE y
  <2>1. ASSUME y \in Members(t) PROVE y \in Members(s) \ {s[1]}
    <3>1. PICK k \in 1 .. n - 1 : t[k] = y
      BY <2>1, <1>1 DEF Members
    <3>2. y = s[k + 1] /\ k + 1 \in 1 .. n /\ k + 1 # 1 /\ 1 \in 1 .. n
      BY <3>1, <1>1, <1>3
    <3>3. QED
      BY <3>2 DEF Members, NoRepeats
  <2>2. ASSUME y \in Members(s) \ {s[1]} PROVE y \in Members(t)
    <3>1. PICK k \in 1 .. n : s[k] = y /\ k # 1
      BY <2>2 DEF Members
    <3>2. k - 1 \in 1 .. Len(t) /\ t[k - 1] = y
      BY <3>1, <1>1, <1>4
    <3>3. QED
      BY <3>2 DEF Members
  <2>3. QED
    BY <2>1, <2>2
<1>6. NoRepeats(t)
  <2>1. ASSUME NEW j \in 1 .. n - 1, NEW k \in 1 .. n - 1, t[j] = t[k] PROVE j = k
    <3>1. s[j + 1] = s[k + 1] /\ j + 1 \in 1 .. n /\ k + 1 \in 1 .. n
      BY <2>1, <1>1, <1>3
    <3>2. j + 1 = k + 1
      BY <3>1 DEF NoRepeats
    <3>3. QED
      BY <3>2, <1>1
  <2>2. QED
    BY <2>1, <1>1 DEF NoRepeats
<1>7. QED
  BY <1>1, <1>2, <1>5, <1>6 DEF t

\* Turning a process out removes it and nobody else.
LEMMA TurnOutKeeps ==
  ASSUME NEW s \in Seq(Proc), NoRepeats(s), NEW p \in Members(s)
  PROVE  LET t == TurnOut(s, Position(s, p))
         IN  /\ t \in Seq(Proc)
             /\ Members(t) = Members(s) \ {p}
             /\ NoRepeats(t)
<1> DEFINE n == Len(s)
<1>1. PICK k \in 1 .. n : s[k] = p
  BY DEF Members
<1> DEFINE t == TurnOut(s, k)
           o(j) == Origin(n, k, j)
<1>2. Position(s, p) = k
  BY <1>1, PositionFacts
<1>3. /\ t \in Seq(Proc)
      /\ Len(t) = n - 1
      /\ NoRepeats(t)
      /\ \A j \in 1 .. n - 1 : o(j) \in 1 .. n /\ o(j) # k /\ t[j] = s[o(j)]
      /\ \A l \in 1 .. n : l # k => \E j \in 1 .. n - 1 : t[j] = s[l]
  BY TurnOutFacts
<1> HIDE DEF t, o
<1>4. \A y : y \in Members(t) <=> y \in Members(s) \ {p}
  <2> TAKE y
  <2>1. ASSUME y \in Members(t) PROVE y \in Members(s) \ {p}
    <3>1. PICK j \in 1 .. n - 1 : t[j] = y
      BY <2>1, <1>3 DEF Members
    <3>2. y = s[o(j)] /\ o(j) \in 1 .. n /\ o(j) # k
      BY <3>1, <1>3
    <3>3. QED
      BY <3>2, <1>1 DEF Members, NoRepeats
  <2>2. ASSUME y \in Members(s) \ {p} PROVE y \in Members(t)
    <3>1. PICK l \in 1 .. n : s[l] = y /\ l # k
      BY <2>2, <1>1 DEF Members
    <3>2. \E j \in 1 .. n - 1 : t[j] = y
      BY <3>1, <1>3
    <3>3. QED
      BY <3>2, <1>3 DEF Members
  <2>3. QED
    BY <2>1, <2>2
<1>5. QED
  BY <1>2, <1>3, <1>4 DEF t

-------------------------------------------------------------------------------
(* Families of queues.                                                        *)

\* Every process is queued at its own level, and once.
Sound(rq) ==
  /\ rq \in Queues
  /\ \A i \in Prio : NoRepeats(rq[i]) /\ \A p \in Members(rq[i]) : priority[p] = i

\* Enqueue queues one more process.
LEMMA EnqueueKeeps ==
  ASSUME NEW rq, Sound(rq), NEW p \in Proc, p \notin Queued(rq)
  PROVE  Sound(Enqueue(rq, p)) /\ Queued(Enqueue(rq, p)) = Queued(rq) \cup {p}
<1> DEFINE l == priority[p]
           s == rq[l]
           t == Append(s, p)
           u == Enqueue(rq, p)
<1>1. l \in Prio /\ rq \in [Prio -> Seq(Proc)] /\ \A q \in Proc : priority[q] \in Prio
  BY PriorityAssumption DEF Sound, Queues
<1>2. s \in Seq(Proc) /\ NoRepeats(s) /\ p \notin Members(s)
  BY <1>1 DEF Sound, Queued
<1>3. t \in Seq(Proc) /\ Members(t) = Members(s) \cup {p} /\ NoRepeats(t)
  BY <1>2, AppendKeeps
<1>4. u \in Queues /\ u[l] = t /\ \A j \in Prio : j # l => u[j] = rq[j]
  BY <1>1, <1>3 DEF Enqueue, Queues
<1> HIDE DEF u, t, s
<1>5. Sound(u)
  <2> SUFFICES ASSUME NEW j \in Prio
               PROVE  NoRepeats(u[j]) /\ \A q \in Members(u[j]) : priority[q] = j
    BY <1>4 DEF Sound
  <2>1. CASE j = l
    BY <2>1, <1>3, <1>4 DEF Sound, s
  <2>2. CASE j # l
    BY <2>2, <1>4 DEF Sound
  <2>3. QED
    BY <2>1, <2>2
<1>6. ASSUME NEW q \in Proc
      PROVE  q \in Members(u[priority[q]]) <=> q \in Members(rq[priority[q]]) \/ q = p
  <2>1. CASE priority[q] = l
    BY <2>1, <1>3, <1>4 DEF s
  <2>2. CASE priority[q] # l
    BY <2>2, <1>1, <1>4
  <2>3. QED
    BY <2>1, <2>2
<1>7. Queued(u) = Queued(rq) \cup {p}
  BY <1>6 DEF Queued
<1>8. QED
  BY <1>5, <1>7 DEF u

\* Dequeue takes one process out.
LEMMA DequeueKeeps ==
  ASSUME NEW rq, Sound(rq), NEW p \in Queued(rq)
  PROVE  Sound(Dequeue(rq, p)) /\ Queued(Dequeue(rq, p)) = Queued(rq) \ {p}
<1> DEFINE l == priority[p]
           s == rq[l]
           t == TurnOut(s, Position(s, p))
           u == Dequeue(rq, p)
<1>1. /\ p \in Proc /\ l \in Prio /\ rq \in [Prio -> Seq(Proc)]
      /\ \A q \in Proc : priority[q] \in Prio
  BY PriorityAssumption DEF Sound, Queues, Queued
<1>2. s \in Seq(Proc) /\ NoRepeats(s) /\ p \in Members(s)
  BY <1>1 DEF Sound, Queued
<1>3. t \in Seq(Proc) /\ Members(t) = Members(s) \ {p} /\ NoRepeats(t)
  BY <1>2, TurnOutKeeps
<1>4. u \in Queues /\ u[l] = t /\ \A j \in Prio : j # l => u[j] = rq[j]
  BY <1>1, <1>3 DEF Dequeue, Queues
<1> HIDE DEF u, t, s
<1>5. Sound(u)
  <2> SUFFICES ASSUME NEW j \in Prio
               PROVE  NoRepeats(u[j]) /\ \A q \in Members(u[j]) : priority[q] = j
    BY <1>4 DEF Sound
  <2>1. CASE j = l
    BY <2>1, <1>3, <1>4 DEF Sound, s
  <2>2. CASE j # l
    BY <2>2, <1>4 DEF Sound
  <2>3. QED
    BY <2>1, <2>2
<1>6. ASSUME NEW q \in Proc
      PROVE  q \in Members(u[priority[q]]) <=> q \in Members(rq[priority[q]]) /\ q # p
  <2>1. CASE priority[q] = l
    BY <2>1, <1>3, <1>4 DEF s
  <2>2. CASE priority[q] # l
    BY <2>2, <1>1, <1>4
  <2>3. QED
    BY <2>1, <2>2
<1>7. Queued(u) = Queued(rq) \ {p}
  BY <1>6 DEF Queued
<1>8. QED
  BY <1>5, <1>7 DEF u

\* Elect names a queued process, and none of higher priority is queued,
\* whether or not a is queued itself.
LEMMA ElectFacts ==
  ASSUME NEW rq, Sound(rq), Queued(rq) # {}, NEW a
  PROVE  /\ Elect(rq, a) \in Queued(rq)
         /\ \A q \in Queued(rq) : priority[q] <= priority[Elect(rq, a)]
<1> DEFINE i == Highest(Levels(rq))
           s == rq[i]
           n == Len(s)
<1>1. rq \in [Prio -> Seq(Proc)] /\ \A q \in Proc : priority[q] \in Prio
  BY PriorityAssumption DEF Sound, Queues
<1>2. ASSUME NEW q \in Queued(rq) PROVE priority[q] \in Levels(rq)
  <2>1. q \in Proc /\ q \in Members(rq[priority[q]])
    BY DEF Queued
  <2>2. rq[priority[q]] \in Seq(Proc)
    BY <1>1, <2>1
  <2>3. rq[priority[q]] # << >>
    BY <2>1, <2>2, MembersFacts
  <2>4. QED
    BY <1>1, <2>1, <2>3 DEF Levels
<1>3. Levels(rq) \in SUBSET Prio /\ Levels(rq) # {}
  BY <1>2 DEF Levels
<1>4. i \in Levels(rq) /\ \A j \in Levels(rq) : j <= i
  BY <1>3, HighestFacts
<1>5. i \in Prio /\ s \in Seq(Proc) /\ n \in Nat /\ n > 0
  BY <1>1, <1>4 DEF Levels
<1> HIDE DEF i
<1>6. ASSUME NEW k \in 1 .. n
      PROVE  s[k] \in Queued(rq) /\ priority[s[k]] = i
  <2>1. s[k] \in Members(rq[i]) /\ s[k] \in Proc
    BY <1>5 DEF Members
  <2>2. priority[s[k]] = i
    BY <2>1, <1>5 DEF Sound
  <2>3. QED
    BY <2>1, <2>2 DEF Queued
<1>7. \E k \in 1 .. n : Elect(rq, a) = s[k]
  <2>1. CASE priority[a] = i /\ a \in Members(s)
    <3>1. PICK k \in 1 .. n : s[k] = a
      BY <2>1 DEF Members
    <3>2. NoRepeats(s)
      BY <1>5 DEF Sound
    <3>3. Position(s, a) = k
      BY <3>1, <3>2, <1>5, PositionFacts
    <3>4. Elect(rq, a) = Successor(s, k)
      BY <2>1, <3>3 DEF Elect, i
    <3>5. QED
      BY <3>4, <1>5 DEF Successor
  <2>2. CASE ~(priority[a] = i /\ a \in Members(s))
    <3>1. Elect(rq, a) = s[1]
      BY <2>2 DEF Elect, i
    <3>2. 1 \in 1 .. n
      BY <1>5
    <3>3. QED
      BY <3>1, <3>2
  <2>3. QED
    BY <2>1, <2>2
<1>8. QED
  BY <1>2, <1>4, <1>6, <1>7
=============================================================================
