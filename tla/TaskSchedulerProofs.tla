------------------------ MODULE TaskSchedulerProofs ------------------------
(***************************************************************************)
(* Proofs about TaskScheduler, for every set of fewer than 256 nodes,      *)
(* every even tick range and every set of delays: the list, the flags and  *)
(* the counter agree, stored deadlines are true although the tick wraps,   *)
(* a pass misses and repeats no node, and the walk over the list           *)
(* implements SchedulerContract.                                           *)
(***************************************************************************)
EXTENDS TaskScheduler, FiniteSetTheorems, SequenceTheorems, TLAPS

NoDup(s) == \A i, j \in 1 .. Len(s) : s[i] = s[j] => i = j

In(s, n) == \E i \in 1 .. Len(s) : s[i] = n

-----------------------------------------------------------------------------
(* The wrapping tick: facts about %, and the one that makes the signed     *)
(* comparison of task_scheduler.c:93 right.                                *)

(* A remainder is at least 0 and below the divisor. *)
LEMMA ModRange ==
    ASSUME NEW a \in Int, NEW M \in Nat \ {0}
    PROVE  (a % M) \in 0 .. M - 1
  OBVIOUS

(* A number is a whole number of turns of the counter and its remainder. *)
LEMMA ModQuotient ==
    ASSUME NEW a \in Int, NEW M \in Nat \ {0}
    PROVE  \E q \in Int : a = M * q + (a % M)
<1> WITNESS a \div M \in Int
<1> QED OBVIOUS

(* The remainder of a division is unique. *)
LEMMA ModUnique ==
    ASSUME NEW q \in Int, NEW r \in Int, NEW M \in Nat \ {0}, 0 <= r, r < M
    PROVE  (M * q + r) % M = r
  OBVIOUS

(* Whole turns of the counter do not matter. *)
LEMMA ModShift ==
    ASSUME NEW a \in Int, NEW q \in Int, NEW M \in Nat \ {0}
    PROVE  (M * q + a) % M = a % M
<1>1. PICK p \in Int : a = M * p + (a % M)
  BY ModQuotient
<1>2. (a % M) \in Int /\ 0 <= (a % M) /\ (a % M) < M
  BY ModRange
<1>3. \A r \in Int : a = M * p + r => M * q + a = M * (q + p) + r
  OBVIOUS
<1>4. M * q + a = M * (q + p) + (a % M)
  BY <1>1, <1>2, <1>3
<1> QED
  BY <1>2, <1>4, ModUnique, q + p \in Int

(* The counter may be reduced before something is added to it. *)
LEMMA ModAdd ==
    ASSUME NEW a \in Int, NEW b \in Int, NEW M \in Nat \ {0}
    PROVE  ((a % M) + b) % M = (a + b) % M
<1>1. PICK q \in Int : a = M * q + (a % M)
  BY ModQuotient
<1>2. (a % M) \in Int /\ (a % M) + b \in Int
  BY ModRange
<1>3. \A r \in Int : a = M * q + r => a + b = M * q + (r + b)
  OBVIOUS
<1>4. a + b = M * q + ((a % M) + b)
  BY <1>1, <1>2, <1>3
<1>5. \A c \in Int : (M * q + c) % M = c % M
  BY ModShift
<1>6. (M * q + ((a % M) + b)) % M = ((a % M) + b) % M
  BY <1>2, <1>5, Zenon
<1> QED
  BY <1>4, <1>6, Zenon

(* The counter may be reduced before it is subtracted. *)
LEMMA ModSubtract ==
    ASSUME NEW a \in Int, NEW b \in Int, NEW M \in Nat \ {0}
    PROVE  (b - (a % M)) % M = (b - a) % M
<1>1. PICK q \in Int : a = M * q + (a % M)
  BY ModQuotient
<1>2. (a % M) \in Int /\ b - a \in Int
  BY ModRange
<1>3. \A r \in Int : a = M * q + r => b - r = M * q + (b - a)
  OBVIOUS
<1>4. b - (a % M) = M * q + (b - a)
  BY <1>1, <1>2, <1>3
<1>5. \A c \in Int : (M * q + c) % M = c % M
  BY ModShift
<1>6. (M * q + (b - a)) % M = (b - a) % M
  BY <1>2, <1>5, Zenon
<1> QED
  BY <1>4, <1>6, Zenon

(* Let a node wait until w ticks after tick t, and a pass have begun at tick
   n, age ticks ago.  If age + w stays below half the range of the counter,
   a deadline that the signed comparison calls due has passed: w is not
   positive. *)
LEMMA DueMeansElapsed ==
    ASSUME NEW t \in Int, NEW n \in Int, NEW w \in Int, NEW M \in Nat \ {0},
           ((t - n) % M) + w < M \div 2,
           (n - ((t + w) % M)) % M < M \div 2
    PROVE  w <= 0
<1> SUFFICES ASSUME w > 0 PROVE FALSE
  OBVIOUS
<1>1. PICK q \in Int : t - n = M * q + ((t - n) % M)
  BY ModQuotient, t - n \in Int
<1>10. (t - n) % M \in Int
  BY ModRange, t - n \in Int
<1>2. PICK age \in Int : age = (t - n) % M
  BY <1>10, Zenon
<1>3. 0 <= age /\ age < M /\ age + w < M \div 2
  BY <1>2, ModRange, t - n \in Int
<1>4. t - n = M * q + age
  BY <1>1, <1>2
<1>5. n - (t + w) = M * (-q) + (-(age + w))
  BY <1>4
<1>6. (n - ((t + w) % M)) % M = (n - (t + w)) % M
  BY ModSubtract, t + w \in Int
<1>7. (M * (-q) + (-(age + w))) % M = (-(age + w)) % M
  BY ModShift, -q \in Int, -(age + w) \in Int
<1>8. (-(age + w)) % M = M - (age + w)
  <2>1. M \div 2 \in Int /\ 2 * (M \div 2) <= M
    OBVIOUS
  <2>2. 0 <= M - (age + w) /\ M - (age + w) < M /\ M - (age + w) \in Int
    BY <1>3, <2>1
  <2>3. M * (-1) + (M - (age + w)) = -(age + w)
    OBVIOUS
  <2>4. \A r \in Int : 0 <= r /\ r < M => (M * (-1) + r) % M = r
    BY ModUnique, -1 \in Int
  <2>5. (M * (-1) + (M - (age + w))) % M = M - (age + w)
    BY <2>2, <2>4, Zenon
  <2> QED
    BY <2>3, <2>5, Zenon
<1>9. M - (age + w) < M \div 2
  BY <1>5, <1>6, <1>7, <1>8
<1> QED
  BY <1>3, <1>9

(* Conversely, let the wait have been over when the pass began, by no more than
   half the range of the counter: the signed comparison calls it due. *)
LEMMA ElapsedMeansDue ==
    ASSUME NEW t \in Int, NEW n \in Int, NEW w \in Int, NEW M \in Nat \ {0}, NEW late \in Nat,
           ((t - n) % M) + w <= 0, -late <= w, late < M \div 2
    PROVE  (n - ((t + w) % M)) % M < M \div 2
<1>1. PICK q \in Int : t - n = M * q + ((t - n) % M)
  BY ModQuotient, t - n \in Int
<1>2. (t - n) % M \in Int
  BY ModRange, t - n \in Int
<1>3. PICK age \in Int : age = (t - n) % M
  BY <1>2, Zenon
<1>4. 0 <= age /\ age + w <= 0 /\ t - n = M * q + age
  BY <1>1, <1>3, ModRange, t - n \in Int
<1>5. n - (t + w) = M * (-q) + (-(age + w))
  BY <1>4
<1>6. M \div 2 <= M
  OBVIOUS
<1>7. 0 <= -(age + w) /\ -(age + w) < M \div 2 /\ -(age + w) < M /\ -(age + w) \in Int
  BY <1>4, <1>6
<1>8. (n - ((t + w) % M)) % M = (n - (t + w)) % M
  BY ModSubtract, t + w \in Int
<1>9. (M * (-q) + (-(age + w))) % M = -(age + w)
  BY <1>7, ModUnique, -q \in Int
<1> QED
  BY <1>5, <1>7, <1>8, <1>9

-----------------------------------------------------------------------------
(* Lists.                                                                  *)

(* What Drop returns: the list without its i-th element. *)
LEMMA DropProperties ==
    ASSUME NEW s \in Seq(Nodes), NEW i \in 1 .. Len(s)
    PROVE  /\ Drop(s, i) \in Seq(Nodes)
           /\ Len(Drop(s, i)) = Len(s) - 1
           /\ \A j \in 1 .. Len(s) - 1 :
                 Drop(s, i)[j] = IF j < i THEN s[j] ELSE s[j + 1]
<1> DEFINE e(j) == IF j < i THEN s[j] ELSE s[j + 1]
<1>1. Len(s) \in Nat /\ Len(s) - 1 \in Nat
  OBVIOUS
<1>2. \A j \in 1 .. Len(s) - 1 : e(j) \in Nodes
  <2> SUFFICES ASSUME NEW j \in 1 .. Len(s) - 1 PROVE e(j) \in Nodes
    OBVIOUS
  <2>1. j \in 1 .. Len(s) /\ j + 1 \in 1 .. Len(s)
    BY <1>1
  <2> QED
    BY <2>1, ElementOfSeq
<1>3. Drop(s, i) = [j \in 1 .. Len(s) - 1 |-> e(j)]
  BY DEF Drop
<1> HIDE DEF e
<1>4. [j \in 1 .. Len(s) - 1 |-> e(j)] \in Seq(Nodes)
  BY <1>1, <1>2
<1>5. Len([j \in 1 .. Len(s) - 1 |-> e(j)]) = Len(s) - 1
  BY <1>1, <1>4, LenProperties
<1> QED
  BY <1>3, <1>4, <1>5 DEF e

(* Dropping the only occurrence of a node removes that node and no other. *)
LEMMA DropMembers ==
    ASSUME NEW s \in Seq(Nodes), NEW i \in 1 .. Len(s), NoDup(s)
    PROVE  /\ NoDup(Drop(s, i))
           /\ \A n \in Nodes : In(Drop(s, i), n) <=> In(s, n) /\ n # s[i]
<1> DEFINE d == Drop(s, i)
           L == Len(s)
<1>1. L \in Nat /\ i \in 1 .. L
  OBVIOUS
<1>2. Len(d) = L - 1 /\ \A j \in 1 .. L - 1 : d[j] = IF j < i THEN s[j] ELSE s[j + 1]
  BY DropProperties
<1>3. \A j, k \in 1 .. L : s[j] = s[k] => j = k
  BY DEF NoDup
<1> HIDE DEF d, L
<1>4. NoDup(d)
  BY <1>1, <1>2, <1>3 DEF NoDup
<1>5. ASSUME NEW n \in Nodes, NEW k \in 1 .. L - 1, d[k] = n
      PROVE  \E j \in 1 .. L : s[j] = n /\ n # s[i]
  <2>1. CASE k < i
    <3>1. k \in 1 .. L /\ s[k] = n /\ k # i
      BY <1>1, <1>2, <1>5, <2>1
    <3> QED
      BY <1>1, <1>3, <3>1
  <2>2. CASE ~(k < i)
    <3>1. k + 1 \in 1 .. L /\ s[k + 1] = n /\ k + 1 # i
      BY <1>1, <1>2, <1>5, <2>2
    <3> QED
      BY <1>1, <1>3, <3>1
  <2> QED
    BY <2>1, <2>2
<1>6. ASSUME NEW n \in Nodes, NEW j \in 1 .. L, s[j] = n, n # s[i]
      PROVE  \E k \in 1 .. L - 1 : d[k] = n
  <2>1. CASE j < i
    BY <1>1, <1>2, <1>6, <2>1
  <2>2. CASE j > i
    <3>1. j - 1 \in 1 .. L - 1 /\ ~(j - 1 < i) /\ (j - 1) + 1 = j
      BY <1>1, <2>2
    <3> QED
      BY <1>2, <1>6, <3>1
  <2> QED
    BY <1>1, <1>6, <2>1, <2>2
<1> QED
  BY <1>2, <1>4, <1>5, <1>6 DEF In, d, L

(* Putting a node in front of a list. *)
LEMMA PrependProperties ==
    ASSUME NEW s \in Seq(Nodes), NEW n \in Nodes
    PROVE  /\ <<n>> \o s \in Seq(Nodes)
           /\ Len(<<n>> \o s) = Len(s) + 1
           /\ (<<n>> \o s)[1] = n
           /\ \A j \in 1 .. Len(s) : (<<n>> \o s)[j + 1] = s[j]
  OBVIOUS

(* Putting a new node in front keeps the nodes of a list distinct. *)
LEMMA PrependMembers ==
    ASSUME NEW s \in Seq(Nodes), NEW n \in Nodes, NoDup(s), ~In(s, n)
    PROVE  /\ NoDup(<<n>> \o s)
           /\ \A m \in Nodes : In(<<n>> \o s, m) <=> In(s, m) \/ m = n
<1> DEFINE p == <<n>> \o s
           L == Len(s)
<1>1. L \in Nat
  OBVIOUS
<1>2. Len(p) = L + 1 /\ p[1] = n /\ \A j \in 1 .. L : p[j + 1] = s[j]
  BY PrependProperties
<1> HIDE DEF p, L
<1>3. \A j \in 1 .. L + 1 : p[j] = IF j = 1 THEN n ELSE s[j - 1]
  BY <1>1, <1>2
<1>4. \A j \in 1 .. L : s[j] # n
  BY DEF In, L
<1>5. \A j, k \in 1 .. L : s[j] = s[k] => j = k
  BY DEF NoDup, L
<1>6. \A j \in 1 .. L + 1 : j # 1 => j - 1 \in 1 .. L
  BY <1>1
<1>7. NoDup(p)
  BY <1>1, <1>2, <1>3, <1>4, <1>5, <1>6 DEF NoDup
<1>8. ASSUME NEW m \in Nodes
      PROVE  In(p, m) <=> In(s, m) \/ m = n
  <2>1. ASSUME NEW j \in 1 .. L + 1, p[j] = m PROVE In(s, m) \/ m = n
    BY <1>3, <1>6, <2>1 DEF In, L
  <2>2. ASSUME NEW j \in 1 .. L, s[j] = m PROVE In(p, m)
    <3>1. j + 1 \in 1 .. Len(p) /\ p[j + 1] = m
      BY <1>1, <1>2, <2>2
    <3> QED
      BY <3>1 DEF In
  <2>3. In(p, n)
    <3>1. 1 \in 1 .. Len(p) /\ p[1] = n
      BY <1>1, <1>2
    <3> QED
      BY <3>1 DEF In
  <2> QED
    BY <1>2, <2>1, <2>2, <2>3 DEF In, L
<1> QED
  BY <1>7, <1>8 DEF p

(* Where IndexOf points. *)
LEMMA IndexOfMember ==
    ASSUME NEW s, NEW n, In(s, n)
    PROVE  IndexOf(s, n) \in 1 .. Len(s) /\ s[IndexOf(s, n)] = n
  BY DEF IndexOf, In

(* A list without duplicates is no longer than there are nodes, so that the
   uint8_t counter of the scheduler never wraps. *)
LEMMA LengthBound ==
    ASSUME NEW s \in Seq(Nodes), NoDup(s)
    PROVE  Len(s) < 256
<1>1. Len(s) \in Nat /\ s \in [1 .. Len(s) -> Nodes]
  OBVIOUS
<1>2. s \in Injection(1 .. Len(s), Nodes)
  BY <1>1 DEF NoDup, Injection, IsInjective
<1>3. Cardinality(1 .. Len(s)) <= Cardinality(Nodes)
  BY <1>2, FS_Injection, SchedulerAssumption DEF SchedulerAssumption
<1>4. Cardinality(1 .. Len(s)) = Len(s)
  <2>1. \A b \in Int : Cardinality(1 .. b) = IF 1 > b THEN 0 ELSE b - 1 + 1
    BY FS_Interval
  <2> QED
    BY <1>1, <2>1
<1>5. Cardinality(Nodes) \in Nat
  BY FS_CardinalityType, SchedulerAssumption DEF SchedulerAssumption
<1> QED
  BY <1>1, <1>3, <1>4, <1>5, SchedulerAssumption DEF SchedulerAssumption
-----------------------------------------------------------------------------
(* Type correctness.                                                       *)

(* Every remainder the counter is set to is a tick. *)
LEMMA TickInRange ==
    ASSUME NEW a \in Int
    PROVE  a % TickMod \in 0 .. TickMod - 1
  BY ModRange, SchedulerAssumption DEF SchedulerAssumption

(* The next pointer of a node is a node or NULL. *)
LEMMA NextOfType ==
    ASSUME TypeOK, NEW n \in Nodes
    PROVE  NextOf(n) \in NodeOrNull
<1>1. CASE Queued(n) /\ IndexOf(queue, n) < Len(queue)
  <2>1. IndexOf(queue, n) \in 1 .. Len(queue)
    BY <1>1, IndexOfMember DEF Queued, In
  <2>2. IndexOf(queue, n) + 1 \in 1 .. Len(queue)
    BY <1>1, <2>1
  <2> QED
    BY <1>1, <2>2, ElementOfSeq DEF NextOf, TypeOK, NodeOrNull
<1> QED
  BY <1>1 DEF NextOf, NodeOrNull

(* So is the head of a list. *)
LEMMA FirstType ==
    ASSUME TypeOK
    PROVE  First(queue) \in NodeOrNull
  BY DEF First, TypeOK, NodeOrNull

(* Adding a node writes its tick and puts it in front of the list. *)
LEMMA PrependType ==
    ASSUME TypeOK, NEW n \in Nodes, NEW d \in Delays, Prepend(n, d)
    PROVE  /\ queue' \in Seq(Nodes)
           /\ active' \in [Nodes -> BOOLEAN]
           /\ count' \in 0 .. 255
           /\ runAt' \in [Nodes -> 0 .. TickMod - 1]
           /\ wait' \in [Nodes -> Int]
<1>1. d \in Int /\ tick \in Int
  BY SchedulerAssumption DEF SchedulerAssumption, TypeOK
<1>2. (tick + d) % TickMod \in 0 .. TickMod - 1
  BY <1>1, TickInRange
<1>3. runAt' \in [Nodes -> 0 .. TickMod - 1] /\ active' \in [Nodes -> BOOLEAN]
  BY <1>2 DEF Prepend, Deadline, TypeOK
<1>4. queue' \in Seq(Nodes)
  BY PrependProperties DEF Prepend, Deadline, TypeOK
<1>5. count' \in 0 .. 255
  BY DEF Prepend, Deadline, TypeOK
<1>6. wait' \in [Nodes -> Int]
  BY <1>1 DEF Prepend, Deadline, TypeOK
<1> QED
  BY <1>3, <1>4, <1>5, <1>6

(* Unlinking a queued node drops one position of the list. *)
LEMMA UnlinkType ==
    ASSUME TypeOK, NEW n \in Nodes, Unlink(n)
    PROVE  /\ queue' \in Seq(Nodes)
           /\ active' \in [Nodes -> BOOLEAN]
           /\ count' \in 0 .. 255
           /\ wait' \in [Nodes -> Int]
           /\ owed' \subseteq Nodes
<1>1. IndexOf(queue, n) \in 1 .. Len(queue)
  BY IndexOfMember DEF Unlink, Queued, In
<1>2. queue' \in Seq(Nodes)
  BY <1>1, DropProperties DEF Unlink, TypeOK
<1>3. count' \in 0 .. 255
  BY DEF Unlink, TypeOK
<1> QED
  BY <1>2, <1>3 DEF Unlink, TypeOK

(* Every variable keeps its type: the flags, the wrapping uint8_t counter,
   the wrapping ticks and the two pointers of task_scheduler_work. *)
THEOREM TypeCorrect == Spec => []TypeOK
<1>1. Init => TypeOK
  BY SchedulerAssumption DEF Init, TypeOK, NodeOrNull, SchedulerAssumption
<1>2. TypeOK /\ [Next]_vars => TypeOK'
  <2> SUFFICES ASSUME TypeOK, [Next]_vars PROVE TypeOK'
    OBVIOUS
  <2>0. TickMod \in Nat \ {0} /\ Delays \subseteq Nat /\ MaxCallbackOps \in Nat
        /\ tick \in Int /\ tick \in 0 .. TickMod - 1
    BY SchedulerAssumption DEF SchedulerAssumption, TypeOK
  <2>1. ASSUME NEW n \in Nodes, NEW d \in Delays, task_scheduler_add(n, d)
        PROVE  TypeOK'
    <3>1. ops' \in 0 .. MaxCallbackOps
      BY <2>0, <2>1 DEF task_scheduler_add, CallList, TypeOK
    <3>2. Prepend(n, d) /\ UNCHANGED <<tick, phase, node, saved, now, ran, owed, cut>>
      BY <2>1 DEF task_scheduler_add
    <3>3. /\ queue' \in Seq(Nodes) /\ active' \in [Nodes -> BOOLEAN] /\ count' \in 0 .. 255
          /\ runAt' \in [Nodes -> 0 .. TickMod - 1] /\ wait' \in [Nodes -> Int]
      BY <3>2, PrependType
    <3> QED
      BY <3>1, <3>2, <3>3 DEF TypeOK, NodeOrNull
  <2>2. ASSUME NEW n \in Nodes, task_scheduler_remove(n)
        PROVE  TypeOK'
    <3>1. ops' \in 0 .. MaxCallbackOps
      BY <2>0, <2>2 DEF task_scheduler_remove, CallList, TypeOK
    <3>2. Unlink(n)
      BY <2>2 DEF task_scheduler_remove
    <3> QED
      BY <2>2, <3>1, <3>2, UnlinkType DEF task_scheduler_remove, TypeOK, NodeOrNull
  <2>3. ASSUME NEW n \in Nodes, schedule_now(n)
        PROVE  TypeOK'
    BY <2>0, <2>3 DEF schedule_now, TypeOK, NodeOrNull
  <2>4. CASE BeginPass
    BY <2>4, FirstType DEF BeginPass, TypeOK, NodeOrNull
  <2>5. CASE Invoke
    BY <2>5, NextOfType DEF Invoke, TypeOK, NodeOrNull
  <2>6. CASE Skip
    BY <2>6, NextOfType DEF Skip, TypeOK, NodeOrNull
  <2>7. CASE ReturnRunAgain
    <3>1. \A d \in Delays : (tick + d) % TickMod \in 0 .. TickMod - 1
      BY <2>0, TickInRange
    <3>2. runAt' \in [Nodes -> 0 .. TickMod - 1] /\ wait' \in [Nodes -> Int]
      <4>1. CASE UNCHANGED <<runAt, wait>>
        BY <4>1 DEF TypeOK
      <4>2. CASE \E d \in Delays :
                   /\ runAt' = [runAt EXCEPT ![node] = Deadline(d)]
                   /\ wait' = [wait EXCEPT ![node] = IF active[node] THEN d ELSE @]
        <5>1. PICK d \in Delays :
                   /\ runAt' = [runAt EXCEPT ![node] = Deadline(d)]
                   /\ wait' = [wait EXCEPT ![node] = IF active[node] THEN d ELSE @]
          BY <4>2
        <5>2. (tick + d) % TickMod \in 0 .. TickMod - 1 /\ d \in Int
          BY <2>0, <3>1
        <5> QED
          BY <5>1, <5>2 DEF Deadline, TypeOK
      <4> QED
        BY <2>7, <4>1, <4>2 DEF ReturnRunAgain
    <3>3. /\ UNCHANGED <<queue, active, count, tick, saved, now, ran, owed, cut>>
          /\ phase' = "visit" /\ node' = saved /\ ops' = 0
      BY <2>7 DEF ReturnRunAgain
    <3> QED
      BY <2>0, <3>2, <3>3 DEF TypeOK, NodeOrNull
  <2>8. CASE ReturnRemove
    <3>1. /\ queue' \in Seq(Nodes)
          /\ active' \in [Nodes -> BOOLEAN]
          /\ count' \in 0 .. 255
          /\ wait' \in [Nodes -> Int]
          /\ owed' \subseteq Nodes
      <4>1. CASE UNCHANGED <<queue, active, count, wait, owed>>
        BY <4>1 DEF TypeOK
      <4>2. CASE Unlink(node)
        <5>1. node \in Nodes
          BY <4>2, ElementOfSeq DEF Unlink, Queued, TypeOK
        <5> QED
          BY <4>2, <5>1, UnlinkType
      <4> QED
        BY <2>8, <4>1, <4>2 DEF ReturnRemove
    <3>2. UNCHANGED <<runAt, tick, saved, now, ran, cut>> /\ phase' = "visit" /\ node' = saved /\ ops' = 0
      BY <2>8 DEF ReturnRemove
    <3> QED
      BY <2>0, <3>1, <3>2 DEF TypeOK, NodeOrNull
  <2>9. CASE EndPass
    BY <2>0, <2>9 DEF EndPass, TypeOK, NodeOrNull
  <2>10. CASE Tick
    <3>1. (tick + 1) % TickMod \in 0 .. TickMod - 1
      BY <2>0, TickInRange
    <3> QED
      BY <2>10, <3>1 DEF Tick, TypeOK, NodeOrNull
  <2>11. CASE UNCHANGED vars
    BY <2>11 DEF vars, TypeOK, NodeOrNull
  <2> QED
    BY <2>1, <2>2, <2>3, <2>4, <2>5, <2>6, <2>7, <2>8, <2>9, <2>10, <2>11 DEF Next
<1> QED
  BY <1>1, <1>2, PTL DEF Spec
-----------------------------------------------------------------------------
(* The list, the flags and the counter.                                    *)

(* Queued, as the lemmas about lists say it. *)
LEMMA QueuedIsIn ==
    \A n : Queued(n) <=> In(queue, n)
  BY DEF Queued, In

(* ListConsistent, as the lemmas about lists say it. *)
LEMMA ListAsMembers ==
    ASSUME TypeOK
    PROVE  ListConsistent <=> /\ NoDup(queue)
                              /\ \A n \in Nodes : active[n] <=> In(queue, n)
                              /\ count = Len(queue)
  BY DEF ListConsistent, NoDup, Queued, In

(* task_scheduler_add of a node that is not active. *)
LEMMA PrependKeepsList ==
    ASSUME TypeOK, ListConsistent, NEW n \in Nodes, NEW d \in Delays, Prepend(n, d)
    PROVE  ListConsistent'
<1>1. /\ NoDup(queue)
      /\ \A m \in Nodes : active[m] <=> In(queue, m)
      /\ count = Len(queue)
      /\ queue \in Seq(Nodes)
  BY ListAsMembers DEF TypeOK
<1>2. ~active[n] /\ queue' = <<n>> \o queue /\ active' = [active EXCEPT ![n] = TRUE]
      /\ count' = (count + 1) % 256
  BY DEF Prepend
<1>3. NoDup(queue') /\ \A m \in Nodes : In(queue', m) <=> In(queue, m) \/ m = n
  BY <1>1, <1>2, PrependMembers
<1>4. \A m \in Nodes : active'[m] <=> In(queue', m)
  BY <1>1, <1>2, <1>3 DEF TypeOK
<1>5. count' = Len(queue')
  <2>1. queue' \in Seq(Nodes) /\ Len(queue') = Len(queue) + 1
    BY <1>1, <1>2, PrependProperties
  <2>2. Len(queue') < 256
    BY <1>3, <2>1, LengthBound
  <2> QED
    BY <1>1, <1>2, <2>1, <2>2
<1> QED
  BY <1>3, <1>4, <1>5 DEF ListConsistent, NoDup, Queued, In

(* task_scheduler_remove of a node that the walk finds. *)
LEMMA UnlinkKeepsList ==
    ASSUME TypeOK, ListConsistent, NEW n \in Nodes, Unlink(n)
    PROVE  ListConsistent'
<1>1. /\ NoDup(queue)
      /\ \A m \in Nodes : active[m] <=> In(queue, m)
      /\ count = Len(queue)
      /\ queue \in Seq(Nodes)
  BY ListAsMembers DEF TypeOK
<1>2. queue' = Drop(queue, IndexOf(queue, n)) /\ active' = [active EXCEPT ![n] = FALSE]
      /\ count' = (count - 1) % 256
  BY DEF Unlink
<1>3. IndexOf(queue, n) \in 1 .. Len(queue) /\ queue[IndexOf(queue, n)] = n
  BY IndexOfMember DEF Unlink, Queued, In
<1>4. NoDup(queue') /\ \A m \in Nodes : In(queue', m) <=> In(queue, m) /\ m # n
  BY <1>1, <1>2, <1>3, DropMembers
<1>5. \A m \in Nodes : active'[m] <=> In(queue', m)
  BY <1>1, <1>2, <1>4 DEF TypeOK
<1>6. count' = Len(queue')
  <2>1. Len(queue') = Len(queue) - 1
    BY <1>1, <1>2, <1>3, DropProperties
  <2>2. Len(queue) \in Nat /\ Len(queue) < 256
    BY <1>1, LengthBound
  <2>3. \A i, k \in Int : i \in 1 .. k /\ k < 256 => (k - 1) % 256 = k - 1
    OBVIOUS
  <2>4. IndexOf(queue, n) \in Int /\ Len(queue) \in Int
    BY <1>3, <2>2
  <2>5. (Len(queue) - 1) % 256 = Len(queue) - 1
    BY <1>3, <2>2, <2>3, <2>4, Zenon
  <2> QED
    BY <1>1, <1>2, <2>1, <2>5, Zenon
<1> QED
  BY <1>4, <1>5, <1>6 DEF ListConsistent, NoDup, Queued, In

(* Steps that leave the list alone: the walk, the tick interrupt. *)
LEMMA SameListConsistent ==
    ASSUME ListConsistent, UNCHANGED <<queue, active, count>>
    PROVE  ListConsistent'
  BY DEF ListConsistent, Queued

(* Every step of the scheduler keeps the list consistent. *)
LEMMA ListConsistentStep ==
    ASSUME TypeOK, ListConsistent, [Next]_vars
    PROVE  ListConsistent'
<1>1. ASSUME NEW n \in Nodes, NEW d \in Delays, task_scheduler_add(n, d)
      PROVE  ListConsistent'
  BY <1>1, PrependKeepsList DEF task_scheduler_add
<1>2. ASSUME NEW n \in Nodes, task_scheduler_remove(n)
      PROVE  ListConsistent'
  BY <1>2, UnlinkKeepsList DEF task_scheduler_remove
<1>3. ASSUME NEW n \in Nodes, schedule_now(n)
      PROVE  ListConsistent'
  BY <1>3, SameListConsistent DEF schedule_now
<1>4. CASE ReturnRemove
  <2>1. CASE UNCHANGED <<queue, active, count>>
    BY <2>1, SameListConsistent
  <2>2. CASE Unlink(node)
    <3>1. node \in Nodes
      BY <2>2, ElementOfSeq DEF Unlink, Queued, TypeOK
    <3> QED
      BY <2>2, <3>1, UnlinkKeepsList
  <2> QED
    BY <1>4, <2>1, <2>2 DEF ReturnRemove
<1>5. CASE BeginPass \/ Invoke \/ Skip \/ ReturnRunAgain \/ EndPass \/ Tick \/ UNCHANGED vars
  <2>1. UNCHANGED <<queue, active, count>>
    BY <1>5 DEF BeginPass, Invoke, Skip, ReturnRunAgain, EndPass, Tick, vars
  <2> QED
    BY <2>1, SameListConsistent
<1> QED
  BY <1>1, <1>2, <1>3, <1>4, <1>5 DEF Next

(* No node is linked twice, a node is active exactly while it is linked, and
   the uint8_t counter is the length of the list. *)
THEOREM ListIsConsistent == Spec => []ListConsistent
<1>1. Init => ListConsistent
  BY DEF Init, ListConsistent, Queued
<1>2. TypeOK /\ ListConsistent /\ [Next]_vars => ListConsistent'
  BY ListConsistentStep
<1> QED
  BY <1>1, <1>2, TypeCorrect, PTL DEF Spec
-----------------------------------------------------------------------------
(* Deadlines.                                                              *)

(* Counting on by one does not lose the position within half a turn. *)
LEMMA ModSuccessor ==
    ASSUME NEW a \in Int, NEW M \in Nat \ {0}, NEW L \in Int, a % M < L
    PROVE  (a + 1) % M <= L
<1>1. (a % M) \in 0 .. M - 1
  BY ModRange
<1>2. ((a % M) + 1) % M = (a + 1) % M
  BY ModAdd, 1 \in Int
<1>3. \A r \in 0 .. M - 1 : (r + 1) % M <= r + 1
  <2> SUFFICES ASSUME NEW r \in 0 .. M - 1 PROVE (r + 1) % M <= r + 1
    OBVIOUS
  <2>1. CASE r + 1 < M
    <3>1. \A b \in Int : 0 <= b /\ b < M => (M * 0 + b) % M = b
      BY ModUnique, 0 \in Int
    <3>2. (M * 0 + (r + 1)) % M = r + 1
      BY <2>1, <3>1
    <3> QED
      BY <3>2
  <2>2. CASE r + 1 = M
    <3>1. (r + 1) % M \in 0 .. M - 1
      BY ModRange, r + 1 \in Int
    <3> QED
      BY <2>2, <3>1
  <2> QED
    BY <2>1, <2>2
<1>4. ((a % M) + 1) % M <= (a % M) + 1
  BY <1>1, <1>3, Zenon
<1>5. ((a % M) + 1) % M \in Int
  BY <1>1, ModRange, (a % M) + 1 \in Int
<1> QED
  BY <1>1, <1>2, <1>4, <1>5

(* The ranges that the arithmetic of the tick below needs. *)
LEMMA TickFacts ==
    ASSUME TypeOK
    PROVE  /\ TickMod \in Nat \ {0} /\ MaxLate \in Nat /\ MaxLate < TickMod
           /\ Delays \subseteq Nat /\ 0 \in Delays
           /\ tick \in Int /\ now \in Int
           /\ tick % TickMod = tick
           /\ wait \in [Nodes -> Int] /\ active \in [Nodes -> BOOLEAN]
           /\ runAt \in [Nodes -> 0 .. TickMod - 1]
<1>1. /\ TickMod \in Nat \ {0} /\ MaxLate \in Nat
      /\ Delays \subseteq Nat /\ 0 \in Delays
      /\ tick \in 0 .. TickMod - 1 /\ now \in 0 .. TickMod - 1
      /\ 0 + MaxLate < TickMod \div 2
  BY SchedulerAssumption DEF SchedulerAssumption, TypeOK
<1>2. MaxLate < TickMod
  BY <1>1
<1>3. \A b \in Int : 0 <= b /\ b < TickMod => (TickMod * 0 + b) % TickMod = b
  BY <1>1, ModUnique, 0 \in Int
<1>4. (TickMod * 0 + tick) % TickMod = tick
  BY <1>1, <1>3
<1> QED
  BY <1>1, <1>2, <1>4 DEF TypeOK

(* The four parts of DeadlinesTrue. *)
DeadlineOf(n) ==
    active[n] => /\ runAt[n] = (tick + wait[n]) % TickMod
                 /\ -MaxLate <= wait[n]
                 /\ \E d \in Delays : wait[n] <= d

NoWaitWhenIdle(n) == ~active[n] => wait[n] = 0

PassIsShort == phase # "idle" => (tick - now) % TickMod <= MaxLate

WorkHasNode == phase = "work" => node # NoNode

(* DeadlinesTrue as the conjunction of its parts, one of them per node. *)
LEMMA DeadlineParts ==
    DeadlinesTrue <=> /\ \A n \in Nodes : DeadlineOf(n) /\ NoWaitWhenIdle(n)
                      /\ PassIsShort
                      /\ WorkHasNode
  BY DEF DeadlinesTrue, DeadlineOf, NoWaitWhenIdle, PassIsShort, WorkHasNode

(* Nodes that a step gives a new deadline d ticks away. *)
LEMMA NewDeadline ==
    ASSUME TypeOK, NEW n \in Nodes, NEW d \in Delays,
           runAt'[n] = (tick + d) % TickMod, wait'[n] = d, UNCHANGED tick, active'[n]
    PROVE  DeadlineOf(n)' /\ NoWaitWhenIdle(n)'
<1>1. d \in Nat /\ MaxLate \in Nat
  BY TickFacts
<1>2. -MaxLate <= d /\ d <= d
  BY <1>1
<1> QED
  BY <1>2 DEF DeadlineOf, NoWaitWhenIdle

(* Steps of other tasks leave the running pass as it is. *)
LEMMA PassKept ==
    ASSUME DeadlinesTrue, UNCHANGED <<tick, phase, node, now>>
    PROVE  PassIsShort' /\ WorkHasNode'
  BY DEF DeadlinesTrue, PassIsShort, WorkHasNode

(* A step keeps the deadline of every node that it does not touch. *)
LEMMA NodeKept ==
    ASSUME DeadlinesTrue, NEW n \in Nodes, UNCHANGED tick,
           active'[n] = active[n], wait'[n] = wait[n],
           active[n] => runAt'[n] = runAt[n]
    PROVE  DeadlineOf(n)' /\ NoWaitWhenIdle(n)'
  BY DEF DeadlinesTrue, DeadlineOf, NoWaitWhenIdle

(* task_scheduler_remove: the node that is removed waits no longer. *)
LEMMA UnlinkKeepsDeadlines ==
    ASSUME TypeOK, DeadlinesTrue, NEW n \in Nodes, Unlink(n), UNCHANGED <<runAt, tick>>,
           NEW m \in Nodes
    PROVE  DeadlineOf(m)' /\ NoWaitWhenIdle(m)'
<1>1. active' = [active EXCEPT ![n] = FALSE] /\ wait' = [wait EXCEPT ![n] = 0]
  BY DEF Unlink
<1>2. CASE m = n
  BY <1>1, <1>2, TickFacts DEF DeadlineOf, NoWaitWhenIdle
<1>3. CASE m # n
  BY <1>1, <1>3, TickFacts, NodeKept
<1> QED
  BY <1>2, <1>3

(* The tick interrupt: the counter may wrap. *)
LEMMA TickKeepsDeadlines ==
    ASSUME TypeOK, DeadlinesTrue, Tick
    PROVE  DeadlinesTrue'
<1>1. /\ tick' = (tick + 1) % TickMod
      /\ wait' = [n \in Nodes |-> IF active[n] THEN wait[n] - 1 ELSE wait[n]]
      /\ UNCHANGED <<active, runAt, phase, node, now>>
      /\ \A n \in Nodes : active[n] => wait[n] > -MaxLate
      /\ phase # "idle" => (tick - now) % TickMod < MaxLate
  BY DEF Tick
<1>2. ASSUME NEW n \in Nodes PROVE DeadlineOf(n)' /\ NoWaitWhenIdle(n)'
  <2>1. CASE active[n]
    <3>1. wait'[n] = wait[n] - 1 /\ wait[n] \in Int /\ wait[n] - 1 \in Int
      BY <1>1, <2>1, TickFacts
    <3>2. runAt[n] = (tick + wait[n]) % TickMod
      BY <2>1 DEF DeadlinesTrue
    <3>3. (tick' + (wait[n] - 1)) % TickMod = ((tick + 1) + (wait[n] - 1)) % TickMod
      BY <1>1, <3>1, TickFacts, ModAdd, tick + 1 \in Int
    <3>4. (tick + 1) + (wait[n] - 1) = tick + wait[n]
      BY <3>1, TickFacts
    <3>5. runAt'[n] = (tick' + wait'[n]) % TickMod
      BY <1>1, <3>1, <3>2, <3>3, <3>4, Zenon
    <3>6. -MaxLate <= wait'[n]
      BY <1>1, <2>1, <3>1, TickFacts
    <3>7. \E d \in Delays : wait'[n] <= d
      <4>1. PICK d \in Delays : wait[n] <= d
        BY <2>1 DEF DeadlinesTrue
      <4> QED
        BY <3>1, <4>1, TickFacts
    <3> QED
      BY <1>1, <2>1, <3>5, <3>6, <3>7 DEF DeadlineOf, NoWaitWhenIdle
  <2>2. CASE ~active[n]
    BY <1>1, <2>2, TickFacts DEF DeadlinesTrue, DeadlineOf, NoWaitWhenIdle
  <2> QED
    BY <2>1, <2>2
<1>3. PassIsShort'
  <2> SUFFICES ASSUME phase # "idle" PROVE (tick' - now) % TickMod <= MaxLate
    BY <1>1 DEF PassIsShort
  <2>1. tick - now \in Int /\ tick + 1 \in Int /\ -now \in Int
    BY TickFacts
  <2>2. ((tick - now) + 1) % TickMod <= MaxLate
    BY <1>1, <2>1, TickFacts, ModSuccessor
  <2>3. (((tick + 1) % TickMod) + (-now)) % TickMod = ((tick + 1) + (-now)) % TickMod
    BY <2>1, TickFacts, ModAdd
  <2>4. /\ (tick + 1) + (-now) = (tick - now) + 1
        /\ ((tick + 1) % TickMod) + (-now) = ((tick + 1) % TickMod) - now
    <3>1. (tick + 1) % TickMod \in Int
      BY <2>1, TickFacts, ModRange
    <3> QED
      BY <3>1, TickFacts
  <2> QED
    BY <1>1, <2>2, <2>3, <2>4, Zenon
<1>4. WorkHasNode'
  BY <1>1 DEF DeadlinesTrue, WorkHasNode
<1> QED
  BY <1>2, <1>3, <1>4 DEF DeadlinesTrue, DeadlineOf, NoWaitWhenIdle, PassIsShort, WorkHasNode

(* A callback that asks to run again gets its deadline from the tick at which
   it returns. *)
LEMMA ReturnKeepsDeadlines ==
    ASSUME TypeOK, DeadlinesTrue, ReturnRunAgain, NEW m \in Nodes
    PROVE  DeadlineOf(m)' /\ NoWaitWhenIdle(m)'
<1>1. UNCHANGED <<active, tick>> /\ node \in Nodes
  BY DEF ReturnRunAgain, DeadlinesTrue, TypeOK, NodeOrNull
<1>2. CASE UNCHANGED <<runAt, wait>>
  BY <1>1, <1>2, NodeKept
<1>3. ASSUME NEW d \in Delays,
             runAt' = [runAt EXCEPT ![node] = Deadline(d)],
             wait' = [wait EXCEPT ![node] = IF active[node] THEN d ELSE @]
      PROVE  DeadlineOf(m)' /\ NoWaitWhenIdle(m)'
  <2>1. CASE m = node /\ active[node]
    <3>1. runAt'[m] = (tick + d) % TickMod /\ wait'[m] = d /\ active'[m]
      BY <1>1, <1>3, <2>1, TickFacts DEF Deadline
    <3> QED
      BY <1>1, <3>1, NewDeadline
  <2>2. CASE ~(m = node /\ active[node])
    <3>1. active'[m] = active[m] /\ wait'[m] = wait[m] /\ (active[m] => runAt'[m] = runAt[m])
      BY <1>1, <1>3, <2>2, TickFacts DEF Deadline
    <3> QED
      BY <1>1, <3>1, NodeKept
  <2> QED
    BY <2>1, <2>2
<1> QED
  BY <1>2, <1>3 DEF ReturnRunAgain

(* Every step of the scheduler keeps every deadline true. *)
LEMMA DeadlinesTrueStep ==
    ASSUME TypeOK, DeadlinesTrue, [Next]_vars
    PROVE  DeadlinesTrue'
<1> DEFINE NodesKept == \A m \in Nodes : DeadlineOf(m)' /\ NoWaitWhenIdle(m)'
           MainKept == PassIsShort' /\ WorkHasNode'
<1>0. NodesKept /\ MainKept => DeadlinesTrue'
  BY DEF DeadlinesTrue, DeadlineOf, NoWaitWhenIdle, PassIsShort, WorkHasNode
<1>1. ASSUME NEW n \in Nodes, NEW d \in Delays, task_scheduler_add(n, d)
      PROVE  DeadlinesTrue'
  <2>1. ASSUME NEW m \in Nodes PROVE DeadlineOf(m)' /\ NoWaitWhenIdle(m)'
    <3>1. CASE m = n
      <4>1. runAt'[m] = (tick + d) % TickMod /\ wait'[m] = d /\ active'[m] /\ UNCHANGED tick
        BY <1>1, <3>1, TickFacts DEF task_scheduler_add, Prepend, Deadline
      <4> QED
        BY <4>1, NewDeadline
    <3>2. CASE m # n
      <4>1. /\ active'[m] = active[m] /\ wait'[m] = wait[m] /\ runAt'[m] = runAt[m]
            /\ UNCHANGED tick
        BY <1>1, <3>2, TickFacts DEF task_scheduler_add, Prepend, Deadline
      <4> QED
        BY <4>1, NodeKept
    <3> QED
      BY <3>1, <3>2
  <2>2. MainKept
    BY <1>1, PassKept DEF task_scheduler_add
  <2> QED
    BY <1>0, <2>1, <2>2
<1>2. ASSUME NEW n \in Nodes, task_scheduler_remove(n)
      PROVE  DeadlinesTrue'
  <2>1. NodesKept
    BY <1>2, UnlinkKeepsDeadlines DEF task_scheduler_remove
  <2>2. MainKept
    BY <1>2, PassKept DEF task_scheduler_remove
  <2> QED
    BY <1>0, <2>1, <2>2
<1>3. ASSUME NEW n \in Nodes, schedule_now(n)
      PROVE  DeadlinesTrue'
  <2>1. ASSUME NEW m \in Nodes PROVE DeadlineOf(m)' /\ NoWaitWhenIdle(m)'
    <3>1. CASE m = n
      <4>1. 0 \in Delays /\ (tick + 0) % TickMod = tick
        BY TickFacts
      <4>2. runAt'[m] = (tick + 0) % TickMod /\ wait'[m] = 0 /\ active'[m] /\ UNCHANGED tick
        BY <1>3, <3>1, <4>1, TickFacts DEF schedule_now
      <4> QED
        BY <4>1, <4>2, NewDeadline
    <3>2. CASE m # n
      <4>1. /\ active'[m] = active[m] /\ wait'[m] = wait[m] /\ runAt'[m] = runAt[m]
            /\ UNCHANGED tick
        BY <1>3, <3>2, TickFacts DEF schedule_now
      <4> QED
        BY <4>1, NodeKept
    <3> QED
      BY <3>1, <3>2
  <2>2. MainKept
    BY <1>3, PassKept DEF schedule_now
  <2> QED
    BY <1>0, <2>1, <2>2
<1>4. CASE BeginPass \/ Invoke \/ Skip \/ EndPass \/ UNCHANGED vars
  <2>1. NodesKept
    <3>1. UNCHANGED <<tick, active, wait, runAt>>
      BY <1>4 DEF BeginPass, Invoke, Skip, EndPass, vars
    <3> QED
      BY <3>1, NodeKept
  <2>2. MainKept
    <3>1. CASE BeginPass
      <4>1. (tick' - now') % TickMod = 0
        <5>1. tick' - now' = TickMod * 0 + 0
          BY <3>1, TickFacts DEF BeginPass
        <5> QED
          BY <5>1, ModUnique, TickFacts
      <4> QED
        BY <3>1, <4>1, TickFacts DEF BeginPass, PassIsShort, WorkHasNode
    <3>2. CASE Invoke \/ Skip \/ EndPass \/ UNCHANGED vars
      BY <3>2 DEF DeadlinesTrue, Invoke, Skip, EndPass, vars, PassIsShort, WorkHasNode
    <3> QED
      BY <1>4, <3>1, <3>2
  <2> QED
    BY <1>0, <2>1, <2>2
<1>5. CASE ReturnRunAgain
  <2>1. NodesKept
    BY <1>5, ReturnKeepsDeadlines
  <2>2. MainKept
    BY <1>5 DEF DeadlinesTrue, ReturnRunAgain, PassIsShort, WorkHasNode
  <2> QED
    BY <1>0, <2>1, <2>2
<1>6. CASE ReturnRemove
  <2>1. NodesKept
    <3>1. CASE UNCHANGED <<active, wait>>
      BY <1>6, <3>1, NodeKept DEF ReturnRemove
    <3>2. CASE Unlink(node)
      <4>1. node \in Nodes
        BY <3>2, ElementOfSeq DEF Unlink, Queued, TypeOK
      <4> QED
        BY <1>6, <3>2, <4>1, UnlinkKeepsDeadlines DEF ReturnRemove
    <3> QED
      BY <1>6, <3>1, <3>2 DEF ReturnRemove
  <2>2. MainKept
    BY <1>6 DEF DeadlinesTrue, ReturnRemove, PassIsShort, WorkHasNode
  <2> QED
    BY <1>0, <2>1, <2>2
<1>7. CASE Tick
  BY <1>7, TickKeepsDeadlines
<1> QED
  BY <1>1, <1>2, <1>3, <1>4, <1>5, <1>6, <1>7 DEF Next

(* The stored tick of a queued node is the tick at which its waiting time is
   over, however often the counter has wrapped. *)
THEOREM DeadlinesAreTrue == Spec => []DeadlinesTrue
<1>1. Init => DeadlinesTrue
  BY DEF Init, DeadlinesTrue
<1>2. TypeOK /\ DeadlinesTrue /\ [Next]_vars => DeadlinesTrue'
  BY DeadlinesTrueStep
<1> QED
  BY <1>1, <1>2, TypeCorrect, PTL DEF Spec
-----------------------------------------------------------------------------
(* The walk of one pass: where its pointer stands among the nodes it owes  *)
(* an invocation and those it has invoked.                                 *)

(* In list s, node n is p or stands behind it. *)
Behind(s, p, n) == \E i, j \in 1 .. Len(s) : s[i] = p /\ s[j] = n /\ i <= j

(* The node the walk goes to next. *)
Pointer == IF phase = "work" THEN saved ELSE node

(* As long as no callback has removed the node the walk goes to next, that node
   is queued, and it stands between what was invoked and what is owed. *)
BetweenRanAndOwed ==
    phase # "idle" /\ cut = NoNode =>
        /\ Pointer # NoNode => In(queue, Pointer)
        /\ \A n \in owed : Behind(queue, Pointer, n)
        /\ \A n \in ran : ~Behind(queue, Pointer, n)

(* The running callback's node is not visited again by itself, nor owed. *)
RunningIsPassed == phase = "work" => saved # node /\ node \notin owed

(* What is owed had waited long enough when the pass began. *)
OwedIsOverdue ==
    phase # "idle" =>
        \A n \in owed : active[n] /\ ((tick - now) % TickMod) + wait[n] <= 0

Walk == BetweenRanAndOwed /\ RunningIsPassed /\ OwedIsOverdue

LEMMA BehindMember ==
    ASSUME NEW s, NEW p, NEW n, Behind(s, p, n)
    PROVE  In(s, p) /\ In(s, n)
  BY DEF Behind, In

LEMMA BehindItself ==
    ASSUME NEW s \in Seq(Nodes), NEW n, In(s, n)
    PROVE  Behind(s, n, n)
<1>1. PICK i \in 1 .. Len(s) : s[i] = n
  BY DEF In
<1>2. i <= i
  OBVIOUS
<1> QED
  BY <1>1, <1>2 DEF Behind

(* Behind the k-th node stand those from k on. *)
LEMMA BehindAt ==
    ASSUME NEW s, NoDup(s), NEW k \in 1 .. Len(s), NEW p, s[k] = p, NEW m
    PROVE  Behind(s, p, m) <=> \E j \in 1 .. Len(s) : k <= j /\ s[j] = m
  BY DEF Behind, NoDup

(* A new node is put in front of all others: it comes behind none. *)
LEMMA PrependBehind ==
    ASSUME NEW s \in Seq(Nodes), NEW n \in Nodes, ~In(s, n), NEW p, p # n, NEW m
    PROVE  Behind(<<n>> \o s, p, m) <=> Behind(s, p, m)
<1> DEFINE q == <<n>> \o s
           L == Len(s)
<1>1. L \in Nat /\ Len(q) = L + 1 /\ q[1] = n /\ \A j \in 1 .. L : q[j + 1] = s[j]
  BY PrependProperties
<1> HIDE DEF q, L
<1>2. ASSUME NEW i \in 1 .. L + 1, NEW j \in 1 .. L + 1, q[i] = p, q[j] = m, i <= j
      PROVE  Behind(s, p, m)
  <2>1. i # 1 /\ j # 1
    BY <1>1, <1>2
  <2>2. i - 1 \in 1 .. L /\ j - 1 \in 1 .. L /\ (i - 1) + 1 = i /\ (j - 1) + 1 = j
        /\ i - 1 <= j - 1
    BY <1>1, <1>2, <2>1
  <2>3. s[i - 1] = p /\ s[j - 1] = m
    BY <1>1, <1>2, <2>2
  <2> QED
    BY <2>2, <2>3 DEF Behind, L
<1>3. ASSUME NEW i \in 1 .. L, NEW j \in 1 .. L, s[i] = p, s[j] = m, i <= j
      PROVE  Behind(q, p, m)
  <2>1. i + 1 \in 1 .. Len(q) /\ j + 1 \in 1 .. Len(q) /\ i + 1 <= j + 1
    BY <1>1, <1>3
  <2>2. q[i + 1] = p /\ q[j + 1] = m
    BY <1>1, <1>3
  <2> QED
    BY <2>1, <2>2 DEF Behind
<1> QED
  BY <1>1, <1>2, <1>3 DEF Behind, q, L

(* Dropping a node leaves the order of the others as it was. *)
LEMMA DropBehind ==
    ASSUME NEW s \in Seq(Nodes), NEW i \in 1 .. Len(s), NoDup(s), NEW p, p # s[i], NEW m
    PROVE  Behind(Drop(s, i), p, m) <=> Behind(s, p, m) /\ m # s[i]
<1> DEFINE d == Drop(s, i)
           L == Len(s)
<1>1. L \in Nat /\ i \in 1 .. L /\ Len(d) = L - 1
      /\ \A j \in 1 .. L - 1 : d[j] = IF j < i THEN s[j] ELSE s[j + 1]
  BY DropProperties
<1>2. \A j, k \in 1 .. L : s[j] = s[k] => j = k
  BY DEF NoDup
<1> HIDE DEF d, L
<1>3. ASSUME NEW j \in 1 .. L - 1
      PROVE  \E k \in 1 .. L : s[k] = d[j] /\ k # i /\ k = IF j < i THEN j ELSE j + 1
  BY <1>1, <1>3
<1>4. ASSUME NEW j \in 1 .. L, j # i
      PROVE  \E k \in 1 .. L - 1 : d[k] = s[j] /\ k = IF j < i THEN j ELSE j - 1
  <2>1. CASE j < i
    BY <1>1, <2>1
  <2>2. CASE ~(j < i)
    <3>1. j - 1 \in 1 .. L - 1 /\ ~(j - 1 < i) /\ (j - 1) + 1 = j
      BY <1>1, <1>4, <2>2
    <3> QED
      BY <1>1, <3>1, <2>2
  <2> QED
    BY <2>1, <2>2
<1>5. ASSUME NEW j \in 1 .. L - 1, NEW k \in 1 .. L - 1, d[j] = p, d[k] = m, j <= k
      PROVE  Behind(s, p, m) /\ m # s[i]
  <2>1. PICK j1 \in 1 .. L : s[j1] = p /\ j1 # i /\ j1 = IF j < i THEN j ELSE j + 1
    BY <1>3, <1>5
  <2>2. PICK k1 \in 1 .. L : s[k1] = m /\ k1 # i /\ k1 = IF k < i THEN k ELSE k + 1
    BY <1>3, <1>5
  <2>3. j1 <= k1
    BY <1>1, <1>5, <2>1, <2>2
  <2> QED
    BY <1>1, <1>2, <2>1, <2>2, <2>3 DEF Behind, L
<1>6. ASSUME NEW j \in 1 .. L, NEW k \in 1 .. L, s[j] = p, s[k] = m, j <= k, m # s[i]
      PROVE  Behind(d, p, m)
  <2>1. j # i /\ k # i
    BY <1>6
  <2>2. PICK j1 \in 1 .. L - 1 : d[j1] = p /\ j1 = IF j < i THEN j ELSE j - 1
    BY <1>4, <1>6, <2>1
  <2>3. PICK k1 \in 1 .. L - 1 : d[k1] = m /\ k1 = IF k < i THEN k ELSE k - 1
    BY <1>4, <1>6, <2>1
  <2>4. j1 <= k1
    BY <1>1, <1>6, <2>1, <2>2, <2>3
  <2> QED
    BY <1>1, <2>2, <2>3, <2>4 DEF Behind
<1> QED
  BY <1>1, <1>5, <1>6 DEF Behind, d, L

(* Behind the next node of the list stand those behind a node, less itself. *)
LEMMA NextBehind ==
    ASSUME TypeOK, ListConsistent, NEW n \in Nodes, In(queue, n)
    PROVE  /\ NextOf(n) # n
           /\ NextOf(n) # NoNode => In(queue, NextOf(n))
           /\ \A m : Behind(queue, NextOf(n), m) <=> Behind(queue, n, m) /\ m # n
<1> DEFINE k == IndexOf(queue, n)
<1>1. k \in 1 .. Len(queue) /\ queue[k] = n /\ Len(queue) \in Nat
  BY IndexOfMember DEF TypeOK
<1>2. NoDup(queue) /\ \A i, j \in 1 .. Len(queue) : queue[i] = queue[j] => i = j
  BY ListAsMembers DEF NoDup
<1>3. NextOf(n) = IF k < Len(queue) THEN queue[k + 1] ELSE NoNode
  BY DEF NextOf, Queued, In
<1> HIDE DEF k
<1>4. \A m : Behind(queue, n, m) <=> \E j \in 1 .. Len(queue) : k <= j /\ queue[j] = m
  BY <1>1, <1>2, BehindAt
<1>5. CASE k < Len(queue)
  <2>1. NextOf(n) = queue[k + 1] /\ k + 1 \in 1 .. Len(queue)
    BY <1>1, <1>3, <1>5
  <2>2. NextOf(n) # n /\ In(queue, NextOf(n))
    BY <1>1, <1>2, <2>1 DEF In
  <2>3. \A m : Behind(queue, NextOf(n), m)
               <=> \E j \in 1 .. Len(queue) : k + 1 <= j /\ queue[j] = m
    BY <1>2, <2>1, BehindAt
  <2>4. ASSUME NEW j \in 1 .. Len(queue)
        PROVE  k + 1 <= j <=> k <= j /\ queue[j] # n
    BY <1>1, <1>2
  <2> QED
    BY <1>4, <2>2, <2>3, <2>4
<1>6. CASE ~(k < Len(queue))
  <2>1. NextOf(n) = NoNode
    BY <1>3, <1>6
  <2>2. n # NoNode /\ \A m : ~Behind(queue, NoNode, m)
    <3>1. \A i \in 1 .. Len(queue) : queue[i] # NoNode
      BY ElementOfSeq, SchedulerAssumption DEF SchedulerAssumption, TypeOK
    <3> QED
      BY <3>1, SchedulerAssumption DEF SchedulerAssumption, Behind
  <2>3. \A j \in 1 .. Len(queue) : k <= j => queue[j] = n
    BY <1>1, <1>6
  <2> QED
    BY <1>4, <2>1, <2>2, <2>3
<1> QED
  BY <1>5, <1>6

(* A list call leaves the walk where it was: nodes are added in front of it, and
   those removed are not owed any more. *)
LEMMA AddKeepsWalk ==
    ASSUME TypeOK, ListConsistent, Walk, NEW n \in Nodes, NEW d \in Delays,
           task_scheduler_add(n, d)
    PROVE  Walk'
<1>1. /\ ~active[n] /\ queue' = <<n>> \o queue /\ active' = [active EXCEPT ![n] = TRUE]
      /\ wait' = [wait EXCEPT ![n] = d]
      /\ UNCHANGED <<tick, phase, node, saved, now, ran, owed, cut>>
  BY DEF task_scheduler_add, Prepend
<1>2. ~In(queue, n) /\ queue \in Seq(Nodes)
  BY <1>1, ListAsMembers DEF TypeOK
<1>3. n # NoNode /\ Pointer' = Pointer
  BY <1>1, SchedulerAssumption DEF Pointer, SchedulerAssumption
<1>4. BetweenRanAndOwed'
  <2> SUFFICES ASSUME phase # "idle", cut = NoNode
               PROVE  /\ Pointer # NoNode => In(queue', Pointer)
                      /\ \A m \in owed : Behind(queue', Pointer, m)
                      /\ \A m \in ran : ~Behind(queue', Pointer, m)
    BY <1>1, <1>3 DEF BetweenRanAndOwed
  <2>1. Pointer # NoNode => In(queue, Pointer)
    BY DEF Walk, BetweenRanAndOwed
  <2>2. Pointer # n
    BY <1>2, <1>3, <2>1
  <2>3. \A m : Behind(queue', Pointer, m) <=> Behind(queue, Pointer, m)
    BY <1>1, <1>2, <2>2, PrependBehind
  <2>4. Pointer # NoNode => In(queue', Pointer)
    BY <1>2, <2>1, <2>3, BehindItself, BehindMember
  <2> QED
    BY <2>3, <2>4 DEF Walk, BetweenRanAndOwed
<1>5. RunningIsPassed'
  BY <1>1 DEF Walk, RunningIsPassed
<1>6. OwedIsOverdue'
  BY <1>1 DEF Walk, OwedIsOverdue, TypeOK
<1> QED
  BY <1>4, <1>5, <1>6 DEF Walk

LEMMA UnlinkKeepsOrder ==
    ASSUME TypeOK, ListConsistent, NEW n \in Nodes, Unlink(n), NEW p, p # n, NEW m
    PROVE  /\ Behind(queue', p, m) <=> Behind(queue, p, m) /\ m # n
           /\ In(queue, p) => In(queue', p)
<1>1. /\ IndexOf(queue, n) \in 1 .. Len(queue) /\ queue[IndexOf(queue, n)] = n
      /\ queue' = Drop(queue, IndexOf(queue, n)) /\ queue \in Seq(Nodes) /\ NoDup(queue)
  BY IndexOfMember, ListAsMembers DEF Unlink, Queued, In, TypeOK
<1>2. \A k : Behind(queue', p, k) <=> Behind(queue, p, k) /\ k # n
  BY <1>1, DropBehind
<1> QED
  BY <1>1, <1>2, BehindItself, BehindMember

LEMMA UnlinkKeepsOverdue ==
    ASSUME TypeOK, Walk, NEW n \in Nodes, Unlink(n), UNCHANGED <<tick, now>>,
           phase # "idle"
    PROVE  OwedIsOverdue'
  BY DEF Walk, OwedIsOverdue, Unlink, TypeOK

LEMMA RemoveKeepsWalk ==
    ASSUME TypeOK, ListConsistent, Walk, NEW n \in Nodes, task_scheduler_remove(n)
    PROVE  Walk'
<1>1. /\ Unlink(n) /\ owed' = owed \ {n}
      /\ UNCHANGED <<tick, phase, node, saved, now, ran>>
      /\ cut' = IF phase = "work" /\ n = saved THEN n ELSE cut
      /\ phase \in {"idle", "work"}
  BY DEF task_scheduler_remove, Unlink, CallList
<1>2. Pointer' = Pointer /\ n # NoNode
  BY <1>1, SchedulerAssumption DEF Pointer, SchedulerAssumption
<1>3. BetweenRanAndOwed'
  <2> SUFFICES ASSUME phase = "work", cut' = NoNode
               PROVE  /\ Pointer # NoNode => In(queue', Pointer)
                      /\ \A m \in owed' : Behind(queue', Pointer, m)
                      /\ \A m \in ran : ~Behind(queue', Pointer, m)
    BY <1>1, <1>2 DEF BetweenRanAndOwed
  <2>1. Pointer # n /\ cut = NoNode
    BY <1>1, <1>2 DEF Pointer
  <2>2. /\ \A m : Behind(queue', Pointer, m) <=> Behind(queue, Pointer, m) /\ m # n
        /\ In(queue, Pointer) => In(queue', Pointer)
    BY <1>1, <2>1, UnlinkKeepsOrder
  <2> QED
    BY <1>1, <2>1, <2>2 DEF Walk, BetweenRanAndOwed
<1>4. RunningIsPassed'
  BY <1>1 DEF Walk, RunningIsPassed
<1>5. OwedIsOverdue'
  BY <1>1, UnlinkKeepsOverdue DEF OwedIsOverdue
<1> QED
  BY <1>3, <1>4, <1>5 DEF Walk

(* A pass begins at the head of the list, in front of every queued node. *)
LEMMA BeginKeepsWalk ==
    ASSUME TypeOK, ListConsistent, BeginPass
    PROVE  Walk'
<1>1. /\ phase' = "visit" /\ node' = First(queue) /\ now' = tick /\ ran' = {}
      /\ owed' = {n \in Nodes : active[n] /\ wait[n] <= 0}
      /\ UNCHANGED <<queue, active, tick, wait>>
  BY DEF BeginPass
<1>2. Pointer' = First(queue)
  BY <1>1 DEF Pointer
<1>3. ASSUME NEW m, In(queue, m)
      PROVE  First(queue) # NoNode /\ Behind(queue, First(queue), m)
  <2>1. PICK j \in 1 .. Len(queue) : queue[j] = m
    BY <1>3 DEF In
  <2>2. 1 \in 1 .. Len(queue) /\ 1 <= j /\ queue # <<>>
    BY <2>1 DEF TypeOK
  <2>3. First(queue) = queue[1] /\ queue[1] \in Nodes
    BY <2>2, ElementOfSeq DEF First, TypeOK
  <2> QED
    BY <2>1, <2>2, <2>3, SchedulerAssumption DEF Behind, SchedulerAssumption
<1>4. First(queue) # NoNode => In(queue, First(queue))
  <2>1. queue # <<>> => 1 \in 1 .. Len(queue)
    BY EmptySeq, LenProperties DEF TypeOK
  <2> QED
    BY <2>1 DEF First, In
<1>5. \A m \in owed' : In(queue, m)
  BY <1>1, ListAsMembers
<1>6. BetweenRanAndOwed'
  BY <1>1, <1>2, <1>3, <1>4, <1>5 DEF BetweenRanAndOwed
<1>7. (tick' - now') % TickMod = 0
  <2>1. tick' - now' = TickMod * 0 + 0
    BY <1>1, TickFacts
  <2> QED
    BY <2>1, ModUnique, TickFacts
<1>8. OwedIsOverdue'
  BY <1>1, <1>7, TickFacts DEF OwedIsOverdue
<1> QED
  BY <1>1, <1>6, <1>8 DEF Walk, RunningIsPassed

(* The walk steps over a node it has invoked. *)
LEMMA InvokeKeepsWalk ==
    ASSUME TypeOK, ListConsistent, Walk, Invoke
    PROVE  Walk'
<1>1. /\ phase = "visit" /\ phase' = "work" /\ node # NoNode /\ active[node]
      /\ saved' = NextOf(node) /\ ran' = ran \cup {node} /\ owed' = owed \ {node}
      /\ UNCHANGED <<queue, active, tick, node, now, wait, cut>>
  BY DEF Invoke
<1>2. node \in Nodes /\ In(queue, node)
  BY <1>1, ListAsMembers DEF TypeOK, NodeOrNull
<1>3. /\ NextOf(node) # node
      /\ NextOf(node) # NoNode => In(queue, NextOf(node))
      /\ \A m : Behind(queue, NextOf(node), m) <=> Behind(queue, node, m) /\ m # node
  BY <1>2, NextBehind
<1>4. Pointer' = NextOf(node) /\ Pointer = node
  BY <1>1 DEF Pointer
<1>5. BetweenRanAndOwed'
  BY <1>1, <1>3, <1>4 DEF Walk, BetweenRanAndOwed
<1>6. RunningIsPassed' /\ OwedIsOverdue'
  BY <1>1, <1>3 DEF Walk, RunningIsPassed, OwedIsOverdue
<1> QED
  BY <1>5, <1>6 DEF Walk

(* What had waited long enough when the pass began is due by the signed
   comparison with the tick that the pass has sampled. *)
LEMMA OverdueIsDue ==
    ASSUME TypeOK, DeadlinesTrue, Walk, phase # "idle", NEW n \in owed
    PROVE  Due(n, now)
<1>1. n \in Nodes /\ active[n] /\ ((tick - now) % TickMod) + wait[n] <= 0
  BY DEF Walk, OwedIsOverdue, TypeOK
<1>2. runAt[n] = (tick + wait[n]) % TickMod /\ -MaxLate <= wait[n]
  BY <1>1 DEF DeadlinesTrue
<1>3. /\ TickMod \in Nat \ {0} /\ MaxLate \in Nat /\ tick \in Int /\ now \in Int
      /\ wait[n] \in Int
  BY <1>1, TickFacts
<1>4. MaxLate < TickMod \div 2
  <2>1. 0 \in Delays /\ \A d \in Delays : d + MaxLate < TickMod \div 2
    BY SchedulerAssumption DEF SchedulerAssumption
  <2> QED
    BY <1>3, <2>1
<1> QED
  BY <1>1, <1>2, <1>3, <1>4, ElapsedMeansDue DEF Due

(* The walk steps over a node that is not due: it is not owed. *)
LEMMA SkipKeepsWalk ==
    ASSUME TypeOK, ListConsistent, DeadlinesTrue, Walk, Skip
    PROVE  Walk'
<1>1. /\ phase = "visit" /\ phase' = "visit" /\ node # NoNode
      /\ ~(active[node] /\ Due(node, now))
      /\ node' = NextOf(node)
      /\ UNCHANGED <<queue, active, tick, now, wait, ran, owed, cut>>
  BY DEF Skip
<1>2. node \in Nodes /\ Pointer = node /\ Pointer' = NextOf(node)
  BY <1>1 DEF TypeOK, NodeOrNull, Pointer
<1>3. BetweenRanAndOwed'
  <2> SUFFICES ASSUME cut = NoNode
               PROVE  /\ NextOf(node) # NoNode => In(queue, NextOf(node))
                      /\ \A m \in owed : Behind(queue, NextOf(node), m)
                      /\ \A m \in ran : ~Behind(queue, NextOf(node), m)
    BY <1>1, <1>2 DEF BetweenRanAndOwed
  <2>1. In(queue, node)
    BY <1>1, <1>2 DEF Walk, BetweenRanAndOwed
  <2>2. node \notin owed
    BY <1>1, OverdueIsDue DEF Walk, OwedIsOverdue
  <2> QED
    BY <1>1, <1>2, <2>1, <2>2, NextBehind DEF Walk, BetweenRanAndOwed
<1> QED
  BY <1>1, <1>3 DEF Walk, RunningIsPassed, OwedIsOverdue

(* A callback returns: the walk goes on at the saved node. *)
LEMMA ReturnKeepsWalk ==
    ASSUME TypeOK, ListConsistent, Walk, ReturnRunAgain \/ ReturnRemove
    PROVE  Walk'
<1>1. /\ phase = "work" /\ phase' = "visit" /\ node' = saved
      /\ UNCHANGED <<tick, saved, now, ran, cut>>
  BY DEF ReturnRunAgain, ReturnRemove
<1>2. Pointer = saved /\ Pointer' = saved /\ node # saved /\ node \notin owed
  BY <1>1 DEF Pointer, Walk, RunningIsPassed
<1>3. CASE UNCHANGED <<queue, active, owed>> /\ \A m \in owed : wait'[m] = wait[m]
  BY <1>1, <1>2, <1>3 DEF Walk, BetweenRanAndOwed, RunningIsPassed, OwedIsOverdue
<1>4. CASE Unlink(node)
  <2>1. node \in Nodes
    BY <1>4, ElementOfSeq DEF Unlink, Queued, TypeOK
  <2>2. /\ \A m : Behind(queue', saved, m) <=> Behind(queue, saved, m) /\ m # node
        /\ In(queue, saved) => In(queue', saved)
    BY <1>2, <1>4, <2>1, UnlinkKeepsOrder
  <2>3. owed' = owed \ {node}
    BY <1>4 DEF Unlink
  <2>4. BetweenRanAndOwed'
    BY <1>1, <1>2, <2>2, <2>3 DEF Walk, BetweenRanAndOwed
  <2>5. OwedIsOverdue'
    BY <1>1, <1>4, <2>1, UnlinkKeepsOverdue
  <2> QED
    BY <1>1, <2>4, <2>5 DEF Walk, RunningIsPassed
<1>5. CASE ReturnRunAgain
  <2>1. /\ UNCHANGED <<queue, active, owed>>
        /\ \/ UNCHANGED wait
           \/ \E d \in Delays : wait' = [wait EXCEPT ![node] = IF active[node] THEN d ELSE @]
    BY <1>5 DEF ReturnRunAgain
  <2>2. \A m \in owed : wait'[m] = wait[m]
    BY <1>2, <2>1 DEF TypeOK
  <2> QED
    BY <1>3, <2>1, <2>2
<1> QED
  BY <1>3, <1>4, <1>5 DEF ReturnRemove

(* The tick interrupt: the pass grows older by as much as waits grow shorter. *)
LEMMA TickKeepsWalk ==
    ASSUME TypeOK, DeadlinesTrue, Walk, Tick
    PROVE  Walk'
<1>1. /\ tick' = (tick + 1) % TickMod
      /\ wait' = [n \in Nodes |-> IF active[n] THEN wait[n] - 1 ELSE wait[n]]
      /\ UNCHANGED <<queue, active, phase, node, saved, now, ran, owed, cut>>
  BY DEF Tick
<1>2. BetweenRanAndOwed' /\ RunningIsPassed'
  BY <1>1 DEF Walk, BetweenRanAndOwed, RunningIsPassed, Pointer
<1>3. ASSUME phase # "idle", NEW n \in owed
      PROVE  active[n] /\ ((tick' - now) % TickMod) + wait'[n] <= 0
  <2>1. n \in Nodes /\ active[n] /\ ((tick - now) % TickMod) + wait[n] <= 0
    BY <1>3 DEF Walk, OwedIsOverdue, TypeOK
  <2>2. wait'[n] = wait[n] - 1 /\ wait[n] \in Int
    BY <1>1, <2>1, TickFacts
  <2>3. tick - now \in Int /\ tick + 1 \in Int /\ -now \in Int
    BY TickFacts
  <2>4. (tick - now) % TickMod \in Int /\ (tick - now) % TickMod < ((tick - now) % TickMod) + 1
    <3>1. (tick - now) % TickMod \in 0 .. TickMod - 1
      BY <2>3, TickFacts, ModRange
    <3> QED
      BY <3>1, TickFacts
  <2>5. ((tick - now) + 1) % TickMod <= ((tick - now) % TickMod) + 1
    BY <2>3, <2>4, TickFacts, ModSuccessor
  <2>6. (((tick + 1) % TickMod) + (-now)) % TickMod = ((tick + 1) + (-now)) % TickMod
    BY <2>3, TickFacts, ModAdd
  <2>7. /\ (tick + 1) + (-now) = (tick - now) + 1
        /\ ((tick + 1) % TickMod) + (-now) = ((tick + 1) % TickMod) - now
    <3>1. (tick + 1) % TickMod \in Int
      BY <2>3, TickFacts, ModRange
    <3> QED
      BY <3>1, TickFacts
  <2>8. (tick' - now) % TickMod <= ((tick - now) % TickMod) + 1
    BY <1>1, <2>5, <2>6, <2>7, Zenon
  <2>9. (tick' - now) % TickMod \in Int
    BY <1>1, <2>3, TickFacts, ModRange, (tick + 1) % TickMod \in Int,
       ((tick + 1) % TickMod) - now \in Int
  <2>10. \A a, b, w \in Int : a <= b + 1 /\ b + w <= 0 => a + (w - 1) <= 0
    OBVIOUS
  <2> QED
    BY <2>1, <2>2, <2>4, <2>8, <2>9, <2>10
<1>4. OwedIsOverdue'
  BY <1>1, <1>3 DEF OwedIsOverdue
<1> QED
  BY <1>2, <1>4 DEF Walk

LEMMA WalkStep ==
    ASSUME TypeOK, ListConsistent, DeadlinesTrue, Walk, [Next]_vars
    PROVE  Walk'
<1>1. ASSUME NEW n \in Nodes, NEW d \in Delays, task_scheduler_add(n, d)
      PROVE  Walk'
  BY <1>1, AddKeepsWalk
<1>2. ASSUME NEW n \in Nodes, task_scheduler_remove(n)
      PROVE  Walk'
  BY <1>2, RemoveKeepsWalk
<1>3. CASE EndPass \/ \E n \in Nodes : schedule_now(n)
  <2>1. phase' = "idle"
    BY <1>3 DEF EndPass, schedule_now
  <2> QED
    BY <2>1 DEF Walk, BetweenRanAndOwed, RunningIsPassed, OwedIsOverdue
<1>4. CASE BeginPass
  BY <1>4, BeginKeepsWalk
<1>5. CASE Invoke
  BY <1>5, InvokeKeepsWalk
<1>6. CASE Skip
  BY <1>6, SkipKeepsWalk
<1>7. CASE ReturnRunAgain \/ ReturnRemove
  BY <1>7, ReturnKeepsWalk
<1>8. CASE Tick
  BY <1>8, TickKeepsWalk
<1>9. CASE UNCHANGED vars
  BY <1>9 DEF vars, Walk, BetweenRanAndOwed, RunningIsPassed, OwedIsOverdue, Pointer
<1> QED
  BY <1>1, <1>2, <1>3, <1>4, <1>5, <1>6, <1>7, <1>8, <1>9 DEF Next

LEMMA WalkAlways == Spec => []Walk
<1>1. Init => Walk
  BY DEF Init, Walk, BetweenRanAndOwed, RunningIsPassed, OwedIsOverdue
<1>2. TypeOK /\ ListConsistent /\ DeadlinesTrue /\ Walk /\ [Next]_vars => Walk'
  BY WalkStep
<1> QED
  BY <1>1, <1>2, TypeCorrect, ListIsConsistent, DeadlinesAreTrue, PTL DEF Spec

(* A pass that comes to the end of the list has invoked every node that was due
   when it began and is still queued, unless a callback has cut it short. *)
THEOREM NoDueNodeMissed == Spec => []NoneMissed
<1>1. TypeOK /\ Walk => NoneMissed
  <2> SUFFICES ASSUME TypeOK, Walk, phase = "visit", node = NoNode, cut = NoNode,
                      NEW n \in owed
               PROVE  FALSE
    BY DEF NoneMissed
  <2>1. In(queue, NoNode)
    BY BehindMember DEF Walk, BetweenRanAndOwed, Pointer
  <2> QED
    BY <2>1, ElementOfSeq, SchedulerAssumption DEF In, TypeOK, SchedulerAssumption
<1> QED
  BY <1>1, TypeCorrect, WalkAlways, PTL

(* Outside of passes that a callback has cut short, no node is invoked twice in
   a pass: those already invoked are behind the pointer for good. *)
THEOREM InvokedOncePerPass == Spec => OncePerPass
<1> DEFINE Step == Invoke /\ cut = NoNode => node \notin ran
<1>1. TypeOK /\ ListConsistent /\ Walk /\ [Next]_vars => [Step]_vars
  <2> SUFFICES ASSUME TypeOK, ListConsistent, Walk, Invoke, cut = NoNode
               PROVE  node \notin ran
    OBVIOUS
  <2>1. phase = "visit" /\ node \in Nodes /\ active[node]
    BY DEF Invoke, TypeOK, NodeOrNull
  <2>2. Behind(queue, node, node)
    BY <2>1, ListAsMembers, BehindItself DEF TypeOK
  <2> QED
    BY <2>1, <2>2 DEF Walk, BetweenRanAndOwed, Pointer
<1>2. Spec => [][Next]_vars
  BY DEF Spec
<1> HIDE DEF Step
<1>3. Spec => [][Step]_vars
  BY <1>1, <1>2, TypeCorrect, ListIsConsistent, WalkAlways, PTL
<1> QED
  BY <1>3 DEF Step, OncePerPass

-----------------------------------------------------------------------------
(* The walk over the list implements the contract.                         *)

IInv == TypeOK /\ ListConsistent /\ DeadlinesTrue

QueuedSet == {n \in Nodes : Queued(n)}

Running == IF phase = "work" THEN node ELSE NoNode

(* What the contract is told to have submitted: the nodes in the list. *)
LEMMA QueuedIsActive ==
    ASSUME ListConsistent
    PROVE  QueuedSet = {n \in Nodes : active[n]}
  BY DEF ListConsistent, QueuedSet

(* A fresh scheduler has nothing submitted. *)
LEMMA InitImplements == Init => Contract!ContractInit
  BY DEF Init, Contract!ContractInit, Queued

(* task_scheduler_add submits a node the contract does not have yet. *)
LEMMA AddSubmits ==
    ASSUME IInv, ListConsistent', NEW n \in Nodes, NEW d \in Delays,
           task_scheduler_add(n, d)
    PROVE  Contract!Submit(n, d)
<1>1. /\ ~active[n] /\ active' = [active EXCEPT ![n] = TRUE]
      /\ wait' = [wait EXCEPT ![n] = d]
      /\ UNCHANGED <<phase, node>>
  BY DEF task_scheduler_add, Prepend, Deadline
<1>2. n \notin QueuedSet /\ QueuedSet' = QueuedSet \cup {n}
  <2>1. QueuedSet' = {m \in Nodes : active'[m]}
    BY DEF ListConsistent, QueuedSet
  <2> QED
    BY <1>1, <2>1, QueuedIsActive DEF IInv, TypeOK
<1> QED
  BY <1>1, <1>2 DEF Contract!Submit, QueuedSet

(* Unlinking a node takes exactly that one from what was submitted. *)
LEMMA UnlinkWithdraws ==
    ASSUME IInv, ListConsistent', NEW n \in Nodes, Unlink(n)
    PROVE  /\ n \in QueuedSet /\ QueuedSet' = QueuedSet \ {n}
           /\ wait' = [wait EXCEPT ![n] = 0]
<1>1. /\ Queued(n) /\ active' = [active EXCEPT ![n] = FALSE]
      /\ wait' = [wait EXCEPT ![n] = 0]
  BY DEF Unlink
<1>2. QueuedSet' = {m \in Nodes : active'[m]}
  BY DEF ListConsistent, QueuedSet
<1>3. QueuedSet' = QueuedSet \ {n}
  BY <1>1, <1>2, QueuedIsActive DEF IInv, TypeOK
<1> QED
  BY <1>1, <1>3 DEF QueuedSet

(* A node whose stored tick is due by the signed comparison, at the tick the
   pass sampled when it began, has waited as long as was asked. *)
LEMMA DueHasWaited ==
    ASSUME IInv, phase # "idle", NEW n \in Nodes, active[n], Due(n, now)
    PROVE  wait[n] <= 0
<1>1. PICK d \in Delays : wait[n] <= d
  BY DEF IInv, DeadlinesTrue
<1>2. runAt[n] = (tick + wait[n]) % TickMod /\ (tick - now) % TickMod <= MaxLate
  BY DEF IInv, DeadlinesTrue
<1>3. d + MaxLate < TickMod \div 2 /\ d \in Nat
  BY SchedulerAssumption DEF SchedulerAssumption
<1>4. /\ TickMod \in Nat \ {0} /\ MaxLate \in Nat /\ tick \in Int /\ now \in Int
      /\ wait[n] \in Int
  BY TickFacts DEF IInv
<1>5. (tick - now) % TickMod \in Int
  BY <1>4, ModRange, tick - now \in Int
<1>6. ((tick - now) % TickMod) + wait[n] < TickMod \div 2
  <2>1. \A x, w, l, m, h \in Int : x <= l /\ w <= m /\ m + l < h => x + w < h
    OBVIOUS
  <2>2. TickMod \div 2 \in Int /\ d \in Int /\ MaxLate \in Int
    BY <1>3, <1>4
  <2> QED
    BY <1>1, <1>2, <1>3, <1>4, <1>5, <2>1, <2>2, Zenon
<1>7. (now - ((tick + wait[n]) % TickMod)) % TickMod < TickMod \div 2
  BY <1>2 DEF Due
<1> QED
  BY <1>4, <1>6, <1>7, DueMeansElapsed

(* Calling the callback of a due node starts it in the contract. *)
LEMMA InvokeStarts ==
    ASSUME IInv, Invoke
    PROVE  node \in Nodes /\ Contract!Start(node)
<1>1. /\ phase = "visit" /\ phase' = "work" /\ node # NoNode /\ active[node]
      /\ Due(node, now) /\ UNCHANGED <<queue, wait, node>>
  BY DEF Invoke
<1>2. node \in Nodes
  BY <1>1 DEF IInv, TypeOK, NodeOrNull
<1>3. wait[node] <= 0
  BY <1>1, <1>2, DueHasWaited
<1>4. node \in QueuedSet /\ QueuedSet' = QueuedSet
  BY <1>1, <1>2, QueuedIsActive DEF IInv, QueuedSet, Queued
<1> QED
  BY <1>1, <1>2, <1>3, <1>4 DEF Contract!Start, QueuedSet

(* Every step of the scheduler is a step of the contract or leaves it alone. *)
LEMMA StepImplements ==
    ASSUME IInv, ListConsistent', [Next]_vars
    PROVE  [Contract!ContractNext]_(Contract!contractVars)
<1> USE DEF Contract!ContractNext
<1>0. NoNode \notin Nodes /\ Delays \subseteq Nat /\ 0 \in Delays
  BY SchedulerAssumption DEF SchedulerAssumption
<1>1. ASSUME NEW n \in Nodes, NEW d \in Delays, task_scheduler_add(n, d)
      PROVE  Contract!ContractNext
  BY <1>1, AddSubmits
<1>2. ASSUME NEW n \in Nodes, task_scheduler_remove(n)
      PROVE  Contract!ContractNext
  <2>1. Contract!Withdraw(n)
    BY <1>2, UnlinkWithdraws DEF task_scheduler_remove, Contract!Withdraw, QueuedSet
  <2> QED
    BY <2>1
<1>3. ASSUME NEW n \in Nodes, schedule_now(n)
      PROVE  Contract!ContractNext
  <2>1. n \in QueuedSet
    BY <1>3, QueuedIsActive DEF IInv, schedule_now
  <2>2. Contract!Postpone(n, 0)
    BY <1>3, <2>1 DEF schedule_now, Contract!Postpone, QueuedSet, Queued
  <2> QED
    BY <1>0, <2>2
<1>4. CASE BeginPass \/ Skip \/ EndPass \/ UNCHANGED vars
  BY <1>4 DEF BeginPass, Skip, EndPass, vars, Contract!contractVars, Queued
<1>5. CASE Invoke
  BY <1>5, InvokeStarts
<1>6. CASE ReturnRunAgain
  <2>1. Contract!FinishAgain
    <3>1. /\ phase = "work" /\ phase' = "visit" /\ node # NoNode /\ UNCHANGED queue
          /\ node \in Nodes
      BY <1>6 DEF ReturnRunAgain, IInv, DeadlinesTrue, TypeOK, NodeOrNull
    <3>2. \/ UNCHANGED wait
          \/ \E d \in Delays : wait' = [wait EXCEPT ![node] = d]
      <4>1. ASSUME NEW d \in Delays,
                   wait' = [wait EXCEPT ![node] = IF active[node] THEN d ELSE @]
            PROVE  \/ UNCHANGED wait
                   \/ wait' = [wait EXCEPT ![node] = d]
        BY <3>1, <4>1 DEF IInv, TypeOK
      <4> QED
        BY <1>6, <4>1 DEF ReturnRunAgain
    <3> QED
      BY <3>1, <3>2 DEF Contract!FinishAgain, Queued
  <2> QED
    BY <2>1
<1>7. CASE ReturnRemove
  <2>1. Contract!FinishRemove
    <3>1. /\ phase = "work" /\ phase' = "visit" /\ node # NoNode /\ node \in Nodes
      BY <1>7 DEF ReturnRemove, IInv, DeadlinesTrue, TypeOK, NodeOrNull
    <3>2. QueuedSet' = QueuedSet \ {node} /\ wait' = [wait EXCEPT ![node] = 0]
      <4>1. CASE Unlink(node)
        BY <3>1, <4>1, UnlinkWithdraws
      <4>2. CASE ~active[node] /\ UNCHANGED <<queue, active, count, wait, owed>>
        <5>1. node \notin QueuedSet
          BY <4>2, QueuedIsActive DEF IInv
        <5>2. wait[node] = 0
          BY <3>1, <4>2 DEF IInv, DeadlinesTrue
        <5> QED
          BY <3>1, <4>2, <5>1, <5>2 DEF QueuedSet, Queued, IInv, TypeOK
      <4> QED
        BY <1>7, <4>1, <4>2 DEF ReturnRemove
    <3> QED
      BY <3>1, <3>2 DEF Contract!FinishRemove, QueuedSet
  <2> QED
    BY <2>1
<1>8. CASE Tick
  <2>1. Contract!Elapse
    <3>1. wait' = [n \in Nodes |-> IF n \in QueuedSet THEN wait[n] - 1 ELSE wait[n]]
      BY <1>8, QueuedIsActive DEF Tick, IInv
    <3> QED
      BY <1>8, <3>1 DEF Tick, Contract!Elapse, QueuedSet, Queued
  <2> QED
    BY <2>1
<1> QED
  BY <1>1, <1>2, <1>3, <1>4, <1>5, <1>6, <1>7, <1>8 DEF Next

(* The scheduler implements its contract: a node is invoked only while it is
   queued and only after its delay, for every interleaving of list calls from
   callbacks with the walk, and over every wrap of the tick. *)
THEOREM SchedulerImplementsContract == Spec => ImplementsContract
<1>1. Init => Contract!ContractInit
  BY InitImplements
<1>2. IInv /\ ListConsistent' /\ [Next]_vars
      => [Contract!ContractNext]_(Contract!contractVars)
  BY StepImplements
<1> QED
  BY <1>1, <1>2, TypeCorrect, ListIsConsistent, DeadlinesAreTrue, PTL
  DEF Spec, IInv, ImplementsContract, Contract!ContractSpec
=============================================================================
