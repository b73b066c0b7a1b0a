-------------------- MODULE TaskSchedulerUnlockedProofs ---------------------
(***************************************************************************)
(* Proofs about the scheduler's list in memory, for any number of nodes    *)
(* and when main is the only task that edits it: statement by statement,   *)
(* the pointers stay a list without a cycle, the flags and the counter     *)
(* describe it, and it implements SchedulerContract.  With other tasks it  *)
(* does not (README.md).                                                   *)
(***************************************************************************)
EXTENDS TaskSchedulerUnlocked, FiniteSetTheorems, TLAPS

Pointers == [Nodes -> NodeOrNull]

-----------------------------------------------------------------------------
(* Walks along pointers.                                                   *)

(* A walk stays in every set that it begins in and no pointer leads out of. *)
LEMMA VisitedLeast ==
    ASSUME NEW nx, NEW m, NEW S \in SUBSET Nodes, m \in S \cup {NoNode}, ClosedUnder(nx, S)
    PROVE  Visited(nx, m) \subseteq S
  BY DEF Visited

(* What it visits is such a set. *)
LEMMA VisitedClosed ==
    ASSUME NEW nx \in Pointers, NEW m \in NodeOrNull
    PROVE  /\ Visited(nx, m) \in SUBSET Nodes
           /\ m \in Visited(nx, m) \cup {NoNode}
           /\ ClosedUnder(nx, Visited(nx, m))
<1>1. Visited(nx, m) \in SUBSET Nodes
  BY DEF Visited
<1>2. m \in Visited(nx, m) \cup {NoNode}
  BY DEF Visited, NodeOrNull
<1>3. ASSUME NEW n \in Visited(nx, m), nx[n] # NoNode PROVE nx[n] \in Visited(nx, m)
  <2>1. n \in Nodes /\ nx[n] \in Nodes
    BY <1>1, <1>3 DEF Pointers, NodeOrNull
  <2>2. ASSUME NEW S \in SUBSET Nodes, m \in S \cup {NoNode}, ClosedUnder(nx, S)
        PROVE  nx[n] \in S
    <3>1. n \in S
      BY <2>2, VisitedLeast
    <3> QED
      BY <1>3, <2>2, <3>1 DEF ClosedUnder
  <2> QED
    BY <2>1, <2>2 DEF Visited
<1> QED
  BY <1>1, <1>2, <1>3 DEF ClosedUnder

LEMMA VisitedNone == ASSUME NEW nx PROVE Visited(nx, NoNode) = {}
<1>1. ClosedUnder(nx, {}) /\ {} \in SUBSET Nodes
  BY DEF ClosedUnder
<1> QED
  BY <1>1, VisitedLeast

(* A walk from a visited node visits nothing new. *)
LEMMA VisitedOnward ==
    ASSUME NEW nx \in Pointers, NEW m \in NodeOrNull, NEW n \in Visited(nx, m)
    PROVE  /\ Visited(nx, n) \subseteq Visited(nx, m)
           /\ Visited(nx, nx[n]) \subseteq Visited(nx, m)
<1>1. /\ Visited(nx, m) \in SUBSET Nodes /\ ClosedUnder(nx, Visited(nx, m))
  BY VisitedClosed
<1>2. nx[n] \in Visited(nx, m) \cup {NoNode}
  BY <1>1 DEF ClosedUnder
<1> QED
  BY <1>1, <1>2, VisitedLeast

(* A walk visits its first node, then goes on from its successor. *)
LEMMA VisitedStep ==
    ASSUME NEW nx \in Pointers, NEW m \in Nodes
    PROVE  /\ Visited(nx, m) = {m} \cup Visited(nx, nx[m])
           /\ nx[m] \in NodeOrNull
<1>1. nx[m] \in NodeOrNull /\ m \in NodeOrNull /\ m # NoNode
  BY UnlockedAssumption DEF Pointers, NodeOrNull, UnlockedAssumption
<1>2. /\ Visited(nx, nx[m]) \in SUBSET Nodes
      /\ nx[m] \in Visited(nx, nx[m]) \cup {NoNode}
      /\ ClosedUnder(nx, Visited(nx, nx[m]))
  BY <1>1, VisitedClosed
<1>3. Visited(nx, m) \subseteq {m} \cup Visited(nx, nx[m])
  <2>1. ClosedUnder(nx, {m} \cup Visited(nx, nx[m]))
    BY <1>2 DEF ClosedUnder
  <2>2. {m} \cup Visited(nx, nx[m]) \in SUBSET Nodes
    BY <1>2
  <2> QED
    BY <2>1, <2>2, VisitedLeast
<1>4. m \in Visited(nx, m)
  BY <1>1, VisitedClosed
<1> QED
  BY <1>1, <1>3, <1>4, VisitedOnward

(* Pointers that agree on what a walk visits make the same walk. *)
LEMMA VisitedSame ==
    ASSUME NEW nx \in Pointers, NEW ny \in Pointers, NEW m \in NodeOrNull,
           \A n \in Visited(nx, m) : ny[n] = nx[n]
    PROVE  Visited(ny, m) = Visited(nx, m)
<1>1. /\ Visited(nx, m) \in SUBSET Nodes
      /\ m \in Visited(nx, m) \cup {NoNode}
      /\ ClosedUnder(nx, Visited(nx, m))
  BY VisitedClosed
<1>2. ClosedUnder(ny, Visited(nx, m))
  BY <1>1 DEF ClosedUnder
<1>3. Visited(ny, m) \subseteq Visited(nx, m)
  BY <1>1, <1>2, VisitedLeast
<1>4. /\ Visited(ny, m) \in SUBSET Nodes
      /\ m \in Visited(ny, m) \cup {NoNode}
      /\ ClosedUnder(ny, Visited(ny, m))
  BY VisitedClosed
<1>5. ClosedUnder(nx, Visited(ny, m))
  BY <1>3, <1>4 DEF ClosedUnder
<1> QED
  BY <1>3, <1>4, <1>5, VisitedLeast

(* Of two nodes on a walk, one comes after the other. *)
LEMMA VisitedLinear ==
    ASSUME NEW nx \in Pointers, NEW h \in NodeOrNull,
           NEW a \in Visited(nx, h), NEW b \in Visited(nx, h)
    PROVE  a \in Visited(nx, b) \/ b \in Visited(nx, a)
<1> DEFINE L == Visited(nx, h)
           S == {x \in L : x \in Visited(nx, b) \/ b \in Visited(nx, x)}
<1>1. L \in SUBSET Nodes /\ h \in L \cup {NoNode} /\ ClosedUnder(nx, L)
  BY VisitedClosed
<1>2. b \in Nodes /\ b \in NodeOrNull /\ b \in Visited(nx, b) /\ ClosedUnder(nx, Visited(nx, b))
  <2>1. b \in Nodes /\ b \in NodeOrNull
    BY <1>1 DEF NodeOrNull
  <2> QED
    BY <2>1, VisitedStep, VisitedClosed
<1>3. h \in S \cup {NoNode}
  BY <1>1
<1>4. ASSUME NEW x \in S, nx[x] # NoNode PROVE nx[x] \in S
  <2>1. x \in L /\ x \in Nodes /\ nx[x] \in L
    BY <1>1, <1>4 DEF ClosedUnder
  <2>2. CASE x \in Visited(nx, b)
    BY <1>2, <1>4, <2>1, <2>2 DEF ClosedUnder
  <2>3. CASE b \in Visited(nx, x)
    <3>1. b = x \/ b \in Visited(nx, nx[x])
      BY <2>1, <2>3, VisitedStep
    <3>2. b = x => nx[x] \in Visited(nx, b)
      BY <1>2, <1>4 DEF ClosedUnder
    <3> QED
      BY <2>1, <3>1, <3>2
  <2> QED
    BY <2>2, <2>3
<1>5. ClosedUnder(nx, S) /\ S \in SUBSET Nodes
  BY <1>1, <1>4 DEF ClosedUnder
<1>6. L \subseteq S
  BY <1>3, <1>5, VisitedLeast
<1> QED
  BY <1>6

(* No node of a walk is visited twice. *)
NoCycle(nx, h) == \A n \in Visited(nx, h) : n \notin Visited(nx, nx[n])

(* Then no two of its nodes have the same successor. *)
LEMMA OnePredecessor ==
    ASSUME NEW nx \in Pointers, NEW h \in NodeOrNull, NoCycle(nx, h),
           NEW a \in Visited(nx, h), NEW b \in Visited(nx, h), nx[a] = nx[b], nx[a] # NoNode
    PROVE  a = b
<1>1. ASSUME NEW x \in Visited(nx, h), NEW y \in Visited(nx, h), nx[x] = nx[y],
             x \in Visited(nx, y), x # y
      PROVE  FALSE
  <2>1. x \in Nodes /\ y \in Nodes
    BY VisitedClosed
  <2>2. x \in Visited(nx, nx[y])
    BY <1>1, <2>1, VisitedStep
  <2> QED
    BY <1>1, <2>2 DEF NoCycle
<1>2. a \in Visited(nx, b) \/ b \in Visited(nx, a)
  BY VisitedLinear
<1> QED
  BY <1>1, <1>2

(* Linking a new node in front of the first. *)
LEMMA Prepended ==
    ASSUME NEW nx \in Pointers, NEW h \in NodeOrNull, NoCycle(nx, h),
           NEW n \in Nodes, n \notin Visited(nx, h), nx[n] = h
    PROVE  Visited(nx, n) = Visited(nx, h) \cup {n} /\ NoCycle(nx, n)
<1>1. Visited(nx, n) = Visited(nx, h) \cup {n}
  BY VisitedStep
<1> QED
  BY <1>1 DEF NoCycle

(* Unlinking the first node. *)
LEMMA UnlinkedFirst ==
    ASSUME NEW nx \in Pointers, NEW h \in Nodes, NoCycle(nx, h)
    PROVE  Visited(nx, nx[h]) = Visited(nx, h) \ {h} /\ NoCycle(nx, nx[h])
<1>1. Visited(nx, h) = {h} \cup Visited(nx, nx[h])
  BY VisitedStep
<1> QED
  BY <1>1 DEF NoCycle

(* Unlinking the successor a of a node p of the list. *)
LEMMA UnlinkedNext ==
    ASSUME NEW nx \in Pointers, NEW h \in NodeOrNull, NoCycle(nx, h),
           NEW p \in Visited(nx, h), NEW a \in Nodes, nx[p] = a,
           NEW ny, ny = [nx EXCEPT ![p] = nx[a]]
    PROVE  Visited(ny, h) = Visited(nx, h) \ {a} /\ NoCycle(ny, h)
<1> DEFINE L == Visited(nx, h)
<1>1. L \in SUBSET Nodes /\ h \in L \cup {NoNode} /\ ClosedUnder(nx, L)
  BY VisitedClosed
<1>2. a # NoNode /\ p \in Nodes /\ a \in L /\ nx[a] \in NodeOrNull
  BY <1>1, UnlockedAssumption DEF UnlockedAssumption, ClosedUnder, Pointers
<1>3. /\ ny \in Pointers /\ ny[p] = nx[a]
      /\ \A x \in Nodes : x # p => ny[x] = nx[x]
  BY <1>2 DEF Pointers
<1>4. p \notin Visited(nx, a) /\ a \notin Visited(nx, nx[a]) /\ p # a /\ nx[a] # a
  <2>1. p \notin Visited(nx, a) /\ a \notin Visited(nx, nx[a])
    BY <1>2 DEF NoCycle
  <2>2. a \in Visited(nx, a)
    BY VisitedStep
  <2>3. nx[a] = a => a \in Visited(nx, nx[a])
    BY <2>2
  <2> QED
    BY <2>1, <2>2, <2>3
<1>5. \A x \in L : x # p => nx[x] # a
  BY <1>2, OnePredecessor
<1>6. h # a
  <2>1. p \in Visited(nx, h)
    OBVIOUS
  <2> QED
    BY <1>4, <2>1
(* A walk that begins elsewhere on the list passes a by. *)
<1>7. ASSUME NEW m \in L \cup {NoNode}, m # a
      PROVE  Visited(ny, m) \subseteq Visited(nx, m) \ {a}
  <2>1. m \in NodeOrNull
    BY <1>1 DEF NodeOrNull
  <2>2. /\ Visited(nx, m) \in SUBSET Nodes /\ m \in Visited(nx, m) \cup {NoNode}
        /\ ClosedUnder(nx, Visited(nx, m))
    BY <2>1, VisitedClosed
  <2>3. Visited(nx, m) \subseteq L
    BY <1>1, <1>7, VisitedOnward, VisitedNone
  <2>4. ASSUME NEW x \in Visited(nx, m), x # a
        PROVE  ny[x] \in (Visited(nx, m) \ {a}) \cup {NoNode}
    <3>1. x \in Nodes /\ x \in L
      BY <2>2, <2>3
    <3>2. CASE x = p
      <4>1. a \in Visited(nx, m)
        BY <1>2, <2>2, <3>2 DEF ClosedUnder
      <4>2. nx[a] \in Visited(nx, m) \cup {NoNode}
        BY <2>2, <4>1 DEF ClosedUnder
      <4> QED
        BY <1>3, <1>4, <3>2, <4>2
    <3>3. CASE x # p
      <4>1. nx[x] \in Visited(nx, m) \cup {NoNode}
        BY <2>2 DEF ClosedUnder
      <4> QED
        BY <1>3, <1>5, <3>1, <3>3, <4>1
    <3> QED
      BY <3>2, <3>3
  <2>5. ClosedUnder(ny, Visited(nx, m) \ {a}) /\ Visited(nx, m) \ {a} \in SUBSET Nodes
    BY <2>2, <2>4 DEF ClosedUnder
  <2>6. m \in (Visited(nx, m) \ {a}) \cup {NoNode}
    BY <1>7, <2>2
  <2> QED
    BY <2>5, <2>6, VisitedLeast
<1>8. Visited(ny, h) \subseteq L \ {a}
  BY <1>1, <1>6, <1>7
(* And it still visits all the others. *)
<1>9. L \ {a} \subseteq Visited(ny, h)
  <2>1. /\ Visited(ny, h) \in SUBSET Nodes
        /\ h \in Visited(ny, h) \cup {NoNode}
        /\ ClosedUnder(ny, Visited(ny, h))
    BY <1>3, VisitedClosed
  <2>2. p \in Visited(ny, h)
    <3> SUFFICES ASSUME p \notin Visited(ny, h) PROVE FALSE
      OBVIOUS
    <3>1. ClosedUnder(nx, Visited(ny, h))
      BY <1>3, <2>1 DEF ClosedUnder
    <3>2. L \subseteq Visited(ny, h)
      BY <2>1, <3>1, VisitedLeast
    <3> QED
      BY <3>2
  <2>3. nx[a] \in Visited(ny, h) \cup {NoNode}
    BY <1>3, <2>1, <2>2 DEF ClosedUnder
  <2>4. ASSUME NEW x \in Visited(ny, h) \cup {a}
        PROVE  nx[x] \in Visited(ny, h) \cup {a} \cup {NoNode}
    <3>1. CASE x = a
      BY <2>3, <3>1
    <3>2. CASE x = p
      BY <3>2
    <3>3. CASE x # a /\ x # p
      BY <1>3, <2>1, <2>4, <3>3 DEF ClosedUnder
    <3> QED
      BY <3>1, <3>2, <3>3
  <2> DEFINE T == Visited(ny, h) \cup {a}
  <2>5. ClosedUnder(nx, T) /\ T \in SUBSET Nodes /\ h \in T \cup {NoNode}
    BY <2>1, <2>4 DEF ClosedUnder
  <2> HIDE DEF T
  <2>6. L \subseteq T
    BY <2>5, VisitedLeast
  <2> QED
    BY <2>6 DEF T
<1>10. NoCycle(ny, h)
  <2> SUFFICES ASSUME NEW n \in Visited(ny, h) PROVE n \notin Visited(ny, ny[n])
    BY DEF NoCycle
  <2>1. n \in L /\ n # a /\ n \in Nodes
    BY <1>1, <1>8
  <2>2. CASE n = p
    <3>1. nx[a] \in L \cup {NoNode} /\ nx[a] # a
      BY <1>1, <1>2, <1>4 DEF ClosedUnder
    <3>2. Visited(ny, nx[a]) \subseteq Visited(nx, nx[a])
      BY <1>7, <3>1
    <3>3. p \notin Visited(nx, nx[a])
      BY <1>4, VisitedStep
    <3> QED
      BY <1>3, <2>2, <3>2, <3>3
  <2>3. CASE n # p
    <3>1. ny[n] = nx[n] /\ nx[n] \in L \cup {NoNode} /\ nx[n] # a
      BY <1>1, <1>3, <1>5, <2>1, <2>3 DEF ClosedUnder
    <3>2. Visited(ny, nx[n]) \subseteq Visited(nx, nx[n])
      BY <1>7, <3>1
    <3> QED
      BY <2>1, <3>1, <3>2 DEF NoCycle
  <2> QED
    BY <2>2, <2>3
<1> QED
  BY <1>8, <1>9, <1>10

(* Changing pointers of other nodes leaves a list as it is. *)
LEMMA ListElsewhere ==
    ASSUME NEW nx \in Pointers, NEW ny \in Pointers, NEW h \in NodeOrNull, NoCycle(nx, h),
           \A n \in Visited(nx, h) : ny[n] = nx[n]
    PROVE  Visited(ny, h) = Visited(nx, h) /\ NoCycle(ny, h)
<1>1. Visited(ny, h) = Visited(nx, h)
  BY VisitedSame
<1>2. ASSUME NEW n \in Visited(nx, h) PROVE n \notin Visited(ny, ny[n])
  <2>1. Visited(nx, nx[n]) \subseteq Visited(nx, h) /\ n \in Nodes
    BY VisitedOnward, VisitedClosed
  <2>2. Visited(ny, nx[n]) = Visited(nx, nx[n])
    BY <2>1, VisitedStep, VisitedSame
  <2> QED
    BY <2>2 DEF NoCycle
<1> QED
  BY <1>1, <1>2 DEF NoCycle

-----------------------------------------------------------------------------
(* Types, with any number of tasks.                                        *)

Calls == {"add_next", "add_head", "add_active", "rem_walk", "rem_unlink", "rem_clear"}

(* A list call is about a node, and a pass is at one. *)
CallsHaveNode ==
    \A t \in Tasks : /\ pc[t] \in Calls => arg[t] \in Nodes
                     /\ pc[t] = "rem_unlink" => curr[t] = arg[t]

PassHasNode ==
    /\ called \/ pc[Main] \in {"work_visit", "work_return"} => node \in Nodes
    /\ pc[Main] \in {"work_next", "work_visit", "work_return"} => ~called

Typed == TypeOK /\ CallsHaveNode /\ PassHasNode

LEMMA TypedInit == Init => Typed
<1>1. NoNode \in NodeOrNull /\ Main \in Tasks
  BY DEF NodeOrNull, Tasks
<1>2. Init => TypeOK
  <2> SUFFICES ASSUME Init PROVE TypeOK
    OBVIOUS
  <2>1. active \in [Nodes -> BOOLEAN] /\ called \in BOOLEAN
    BY DEF Init
  <2>2. /\ head \in NodeOrNull /\ node \in NodeOrNull /\ saved \in NodeOrNull
        /\ next \in [Nodes -> NodeOrNull] /\ pc \in [Tasks -> Statements]
    BY <1>1 DEF Init, Statements
  <2>3. /\ arg \in [Tasks -> NodeOrNull] /\ curr \in [Tasks -> NodeOrNull]
        /\ prev \in [Tasks -> NodeOrNull] /\ count \in 0 .. 255
    BY <1>1 DEF Init
  <2> QED
    BY <2>1, <2>2, <2>3 DEF TypeOK
<1>3. Init => CallsHaveNode
  BY DEF Init, CallsHaveNode, Calls
<1>4. Init => PassHasNode
  BY <1>1 DEF Init, PassHasNode
<1> QED
  BY <1>2, <1>3, <1>4 DEF Typed

(* A list call ends. *)
LEMMA TypedReturn ==
    ASSUME Typed, NEW t \in Tasks, pc[t] \in Calls, ReturnFrom(t),
           head' \in NodeOrNull, next' \in Pointers, active' \in [Nodes -> BOOLEAN],
           count' \in 0 .. 255, curr' \in [Tasks -> NodeOrNull], prev' \in [Tasks -> NodeOrNull],
           \A u \in Tasks : u # t => curr'[u] = curr[u]
    PROVE  Typed'
<1>1. /\ NoNode \in NodeOrNull /\ Main \in Tasks /\ Nodes \subseteq NodeOrNull
      /\ arg' = [arg EXCEPT ![t] = NoNode]
  BY DEF NodeOrNull, Tasks, ReturnFrom
<1>2. CASE t = Main /\ node # NoNode /\ ~called
  <2>1. node' = saved /\ pc' = [pc EXCEPT ![t] = "work_next"] /\ UNCHANGED <<saved, called>>
    BY <1>2 DEF ReturnFrom, Goto
  <2>2. TypeOK'
    BY <1>1, <2>1 DEF Typed, TypeOK, Statements, Pointers
  <2>3. CallsHaveNode' /\ PassHasNode'
    BY <1>1, <1>2, <2>1 DEF Typed, TypeOK, CallsHaveNode, PassHasNode, Calls
  <2> QED
    BY <2>2, <2>3 DEF Typed
<1>3. CASE ~(t = Main /\ node # NoNode /\ ~called)
  <2>1. pc' = [pc EXCEPT ![t] = "rest"] /\ UNCHANGED <<node, saved, called>>
    BY <1>3 DEF ReturnFrom, Goto, pass
  <2>2. TypeOK'
    BY <1>1, <2>1 DEF Typed, TypeOK, Statements, Pointers
  <2>3. CallsHaveNode' /\ PassHasNode'
    BY <1>1, <1>3, <2>1 DEF Typed, TypeOK, CallsHaveNode, PassHasNode, Calls
  <2> QED
    BY <2>2, <2>3 DEF Typed
<1> QED
  BY <1>2, <1>3

LEMMA TypedAdd ==
    ASSUME Typed, NEW t \in Tasks, Add(t)
    PROVE  Typed'
<1> USE DEF Typed, TypeOK, CallsHaveNode, PassHasNode
<1>0. NoNode \in NodeOrNull /\ Main \in Tasks /\ Nodes \subseteq NodeOrNull
  BY DEF NodeOrNull, Tasks
<1>1. ASSUME NEW n \in Nodes, AddCheck(t, n) PROVE Typed'
  BY <1>0, <1>1 DEF AddCheck, At, Goto, list, walk, pass, Statements, Calls
<1>2. CASE AddNext(t)
  <2>1. arg[t] \in Nodes
    BY <1>2 DEF AddNext, At, Calls
  <2> QED
    BY <1>0, <1>2, <2>1 DEF AddNext, At, Goto, walk, pass, Statements, Calls
<1>3. CASE AddHead(t)
  <2>1. arg[t] \in Nodes
    BY <1>3 DEF AddHead, At, Calls
  <2> QED
    BY <1>0, <1>3, <2>1 DEF AddHead, At, Goto, walk, pass, Statements, Calls
<1>4. CASE AddActive(t)
  <2>1. pc[t] \in Calls /\ ReturnFrom(t) /\ UNCHANGED <<head, next, curr, prev>>
        /\ active' = [active EXCEPT ![arg[t]] = TRUE] /\ count' = (count + 1) % 256
    BY <1>4 DEF AddActive, At, Calls, walk
  <2>2. active' \in [Nodes -> BOOLEAN] /\ count' \in 0 .. 255
    BY <2>1
  <2> QED
    BY <2>1, <2>2, TypedReturn DEF Pointers
<1> QED
  BY <1>1, <1>2, <1>3, <1>4 DEF Add

LEMMA TypedStartRemove ==
    ASSUME Typed, NEW t \in Tasks, NEW n \in Nodes, StartRemove(t, n),
           pc[t] \in {"rest", "work_return"}, UNCHANGED <<list, pass>>
    PROVE  Typed'
<1>0. NoNode \in NodeOrNull /\ Main \in Tasks /\ Nodes \subseteq NodeOrNull
  BY DEF NodeOrNull, Tasks
<1>1. /\ arg' = [arg EXCEPT ![t] = n] /\ curr' = [curr EXCEPT ![t] = head]
      /\ prev' = [prev EXCEPT ![t] = NoNode] /\ pc' = [pc EXCEPT ![t] = "rem_walk"]
      /\ UNCHANGED <<head, next, active, count, node, saved, called>>
  BY DEF StartRemove, Goto, list, pass
<1>2. TypeOK'
  BY <1>0, <1>1 DEF Typed, TypeOK, Statements
<1>3. CallsHaveNode' /\ PassHasNode'
  BY <1>0, <1>1 DEF Typed, TypeOK, CallsHaveNode, PassHasNode, Calls
<1> QED
  BY <1>2, <1>3 DEF Typed

LEMMA TypedRemove ==
    ASSUME Typed, NEW t \in Tasks, Remove(t)
    PROVE  Typed'
<1> USE DEF Typed, TypeOK, CallsHaveNode, PassHasNode
<1>0. NoNode \in NodeOrNull /\ Main \in Tasks /\ Nodes \subseteq NodeOrNull
  BY DEF NodeOrNull, Tasks
<1>1. ASSUME NEW n \in Nodes, CallRemove(t, n) PROVE Typed'
  BY <1>1, TypedStartRemove DEF CallRemove, At
<1>2. CASE RemoveWalk(t)
  <2>1. pc[t] = "rem_walk" /\ UNCHANGED <<head, next, active, count>>
    BY <1>2 DEF RemoveWalk, At, list
  <2>2. CASE curr[t] = NoNode /\ ReturnFrom(t) /\ UNCHANGED walk
    BY <2>1, <2>2, TypedReturn DEF walk, Calls, Pointers
  <2>3. CASE curr[t] = arg[t] /\ Goto(t, "rem_unlink") /\ UNCHANGED <<arg, walk, pass>>
    BY <1>0, <2>1, <2>3 DEF Goto, walk, pass, Statements, Calls
  <2>4. CASE /\ curr[t] \notin {NoNode, arg[t]}
             /\ prev' = [prev EXCEPT ![t] = curr[t]]
             /\ curr' = [curr EXCEPT ![t] = next[curr[t]]]
             /\ UNCHANGED <<pc, arg, pass>>
    <3>1. curr[t] \in Nodes
      BY <2>4 DEF NodeOrNull
    <3> QED
      BY <1>0, <2>1, <2>4, <3>1 DEF pass
  <2> QED
    BY <1>2, <2>2, <2>3, <2>4 DEF RemoveWalk
<1>3. CASE RemoveUnlink(t)
  <2>1. pc[t] = "rem_unlink" /\ curr[t] \in Nodes /\ next[curr[t]] \in NodeOrNull
    BY <1>3 DEF RemoveUnlink, At, Calls
  <2>2. prev[t] # NoNode => prev[t] \in Nodes
    BY DEF NodeOrNull
  <2>3. head' \in NodeOrNull /\ next' \in [Nodes -> NodeOrNull]
    BY <1>3, <2>1, <2>2 DEF RemoveUnlink
  <2> QED
    BY <1>0, <1>3, <2>1, <2>3 DEF RemoveUnlink, Goto, walk, pass, Statements, Calls
<1>4. CASE RemoveClear(t)
  <2>1. /\ pc[t] \in Calls /\ ReturnFrom(t) /\ UNCHANGED head
        /\ next' = [next EXCEPT ![arg[t]] = NoNode]
        /\ active' = [active EXCEPT ![arg[t]] = FALSE] /\ count' = (count - 1) % 256
        /\ curr' = [curr EXCEPT ![t] = NoNode] /\ prev' = [prev EXCEPT ![t] = NoNode]
    BY <1>4 DEF RemoveClear, At, Calls
  <2>2. active' \in [Nodes -> BOOLEAN] /\ count' \in 0 .. 255 /\ next' \in Pointers
    BY <1>0, <2>1 DEF Pointers
  <2>3. /\ curr' \in [Tasks -> NodeOrNull] /\ prev' \in [Tasks -> NodeOrNull]
        /\ \A u \in Tasks : u # t => curr'[u] = curr[u]
    BY <1>0, <2>1
  <2> QED
    BY <2>1, <2>2, <2>3, TypedReturn
<1> QED
  BY <1>1, <1>2, <1>3, <1>4 DEF Remove

LEMMA TypedWork ==
    ASSUME Typed, Work
    PROVE  Typed'
<1> USE DEF Typed, TypeOK, CallsHaveNode, PassHasNode
<1>0. NoNode \in NodeOrNull /\ Main \in Tasks /\ Nodes \subseteq NodeOrNull
      /\ \A n \in NodeOrNull : n # NoNode => n \in Nodes
  BY DEF NodeOrNull, Tasks
<1>1. CASE WorkBegin
  BY <1>0, <1>1 DEF WorkBegin, At, Goto, list, walk, Statements, Calls
<1>2. CASE WorkNext
  BY <1>0, <1>2 DEF WorkNext, At, Goto, list, walk, Statements, Calls
<1>3. CASE WorkCall
  BY <1>0, <1>3 DEF WorkCall, At, Goto, list, walk, Statements, Calls
<1>4. CASE WorkSkip
  BY <1>0, <1>4 DEF WorkSkip, At, Goto, list, walk, Statements, Calls
<1>5. CASE WorkRunAgain
  BY <1>0, <1>5 DEF WorkRunAgain, At, Goto, list, walk, Statements, Calls
<1>6. CASE WorkFinish
  BY <1>0, <1>6 DEF WorkFinish, At, Goto, list, walk, Statements, Calls
<1>7. CASE WorkReturn
  <2>1. pc[Main] = "work_return" /\ node \in Nodes /\ ~called
        /\ UNCHANGED <<list, saved, called>>
    BY <1>7 DEF WorkReturn, At
  <2>2. CASE StartRemove(Main, node) /\ UNCHANGED node
    BY <1>0, <2>1, <2>2, TypedStartRemove DEF pass
  <2>3. CASE node' = saved /\ Goto(Main, "work_next") /\ UNCHANGED <<arg, walk>>
    BY <1>0, <2>1, <2>3 DEF Goto, list, walk, Statements, Calls
  <2> QED
    BY <1>7, <2>2, <2>3 DEF WorkReturn
<1> QED
  BY <1>1, <1>2, <1>3, <1>4, <1>5, <1>6, <1>7 DEF Work

LEMMA TypedStep == Typed /\ [Next]_vars => Typed'
<1>1. Typed /\ UNCHANGED vars => Typed'
  BY DEF vars, Typed, TypeOK, CallsHaveNode, PassHasNode
<1> QED
  BY <1>1, TypedAdd, TypedRemove, TypedWork DEF Next

LEMMA TypedAlways == Spec => []Typed
  BY TypedInit, TypedStep, PTL DEF Spec

(***************************************************************************)
(* Every pointer, flag and place keeps its type, whichever tasks edit the  *)
(* list: a race links the wrong nodes, never anything but nodes.           *)
(***************************************************************************)
THEOREM MemoryTypeCorrect == Spec => []TypeOK
<1>1. Typed => TypeOK
  BY DEF Typed
<1> QED
  BY <1>1, TypedAlways, PTL

-----------------------------------------------------------------------------
(* The list when main is the only task.                                    *)

(* Main is the only task, so its statement is where the list is in between. *)
P == pc[Main]
A == arg[Main]

(* An unlinked node points nowhere, but for the one that is being added, or
   removed. *)
LooseEnds ==
    \A n \in Nodes : n \notin Linked /\ next[n] # NoNode =>
        n = A /\ P \in {"add_head", "rem_clear"}

(* The flags say what is linked, except between a pointer and its flag. *)
Flags ==
    \A n \in Nodes :
        IF n = A /\ P \in {"add_active", "rem_clear"}
        THEN /\ n \in Linked <=> P = "add_active"
             /\ active[n] <=> P = "rem_clear"
        ELSE active[n] <=> n \in Linked

Counted == count = Cardinality({n \in Nodes : active[n]})

(* A node that is being added was found inactive. *)
Adding ==
    /\ P \in {"add_next", "add_head"} => ~active[A]
    /\ P = "add_head" => next[A] = head

(* The search of a removal: prev is the predecessor of curr. *)
Finding ==
    /\ P = "rem_walk" => curr[Main] \in Linked \cup {NoNode}
    /\ P = "rem_unlink" => curr[Main] = A /\ A \in Linked
    /\ P \in {"rem_walk", "rem_unlink"} =>
           IF prev[Main] = NoNode
           THEN curr[Main] = head
           ELSE prev[Main] \in Linked /\ next[prev[Main]] = curr[Main]

ListInv ==
    NoCycle(next, head) /\ LooseEnds /\ Flags /\ Counted /\ Adding /\ Finding

(* Between pointers and flags that agree. *)
Tidy ==
    /\ NoCycle(next, head)
    /\ \A n \in Nodes : n \notin Linked => next[n] = NoNode
    /\ \A n \in Nodes : active[n] <=> n \in Linked
    /\ Counted

HalfDone == {"add_head", "add_active", "rem_clear"}

LEMMA TidyBefore ==
    ASSUME ListInv, P \notin HalfDone
    PROVE  Tidy
  BY DEF ListInv, LooseEnds, Flags, Tidy, HalfDone

LEMMA TidyAfter ==
    ASSUME Tidy', P' \notin HalfDone, Adding', Finding'
    PROVE  ListInv'
<1>1. LooseEnds' /\ Flags'
  BY DEF LooseEnds, Flags, Tidy, HalfDone
<1> QED
  BY <1>1 DEF ListInv, Tidy

LEMMA TidyKept ==
    ASSUME Tidy, UNCHANGED list
    PROVE  Tidy' /\ Linked' = Linked
<1>1. UNCHANGED <<head, next, active, count>>
  BY DEF list
<1>2. Linked' = Linked /\ NoCycle(next', head')
  BY <1>1 DEF Linked, Tidy
<1> QED
  BY <1>1, <1>2 DEF Tidy, Counted

(* A step that neither edits the list nor is part of a list call. *)
LEMMA KeptElsewhere ==
    ASSUME ListInv, UNCHANGED list, P \notin HalfDone, P' \notin Calls
    PROVE  ListInv'
<1>1. Tidy'
  BY TidyBefore, TidyKept
<1>2. Adding' /\ Finding' /\ P' \notin HalfDone
  BY DEF Adding, Finding, Calls, HalfDone
<1> QED
  BY <1>1, <1>2, TidyAfter

LEMMA KeptStartRemove ==
    ASSUME Typed, ListInv, P \notin HalfDone, NEW n \in Nodes, StartRemove(Main, n),
           UNCHANGED list
    PROVE  ListInv'
<1>1. Tidy' /\ Linked' = Linked
  BY TidyBefore, TidyKept
<1>2. /\ P' = "rem_walk" /\ curr'[Main] = head /\ prev'[Main] = NoNode /\ head' = head
      /\ head \in NodeOrNull /\ next \in Pointers
  BY DEF StartRemove, Goto, list, P, Typed, TypeOK, Tasks, Pointers
<1>3. head \in Linked \cup {NoNode}
  BY <1>2, VisitedClosed DEF Linked
<1>4. Adding' /\ Finding' /\ P' \notin HalfDone
  BY <1>1, <1>2, <1>3 DEF Adding, Finding, HalfDone
<1> QED
  BY <1>1, <1>4, TidyAfter

LEMMA KeptWork ==
    ASSUME Typed, ListInv, Work
    PROVE  ListInv'
<1>1. /\ Main \in Tasks /\ pc \in [Tasks -> Statements] /\ UNCHANGED list
      /\ P \in {"rest", "work_next", "work_visit", "work_return"}
  BY DEF Typed, TypeOK, Tasks, P, Work, At, WorkBegin, WorkNext, WorkCall, WorkSkip,
         WorkRunAgain, WorkFinish, WorkReturn
<1>2. CASE WorkReturn
  <2>1. node \in Nodes
    BY <1>2 DEF WorkReturn, At, Typed, PassHasNode
  <2>2. CASE StartRemove(Main, node)
    BY <1>1, <2>1, <2>2, KeptStartRemove DEF HalfDone
  <2>3. CASE Goto(Main, "work_next")
    <3>1. P' = "work_next"
      BY <1>1, <2>3 DEF Goto, P
    <3> QED
      BY <1>1, <3>1, KeptElsewhere DEF HalfDone, Calls
  <2> QED
    BY <1>2, <2>2, <2>3 DEF WorkReturn
<1>3. CASE ~WorkReturn
  <2>1. P' \in {"rest", "work_next", "work_visit", "work_return"}
    BY <1>1, <1>3 DEF Work, P, Goto, WorkBegin, WorkNext, WorkCall, WorkSkip, WorkRunAgain,
                      WorkFinish
  <2> QED
    BY <1>1, <2>1, KeptElsewhere DEF HalfDone, Calls
<1> QED
  BY <1>2, <1>3

(* The end of a list call. *)
LEMMA AfterReturn ==
    ASSUME Typed, ReturnFrom(Main)
    PROVE  P' \notin Calls /\ P' \notin HalfDone /\ Adding' /\ Finding'
<1>1. P' \in {"rest", "work_next"}
  BY DEF ReturnFrom, Goto, P, Typed, TypeOK, Tasks
<1> QED
  BY <1>1 DEF Calls, HalfDone, Adding, Finding

(* One node more, or one less, is active. *)
LEMMA OneMore ==
    ASSUME NEW f \in [Nodes -> BOOLEAN], NEW a \in Nodes, ~f[a]
    PROVE  (Cardinality({n \in Nodes : f[n]}) + 1) % 256
               = Cardinality({n \in Nodes : [f EXCEPT ![a] = TRUE][n]})
<1> DEFINE S == {n \in Nodes : f[n]}
<1>1. IsFiniteSet(Nodes) /\ Cardinality(Nodes) < 256 /\ Cardinality(Nodes) \in Nat
  BY UnlockedAssumption, FS_CardinalityType DEF UnlockedAssumption
<1>2. /\ IsFiniteSet(S) /\ Cardinality(S) \in Nat
      /\ S \cup {a} \subseteq Nodes /\ a \notin S
  BY <1>1, FS_Subset, FS_CardinalityType
<1>3. {n \in Nodes : [f EXCEPT ![a] = TRUE][n]} = S \cup {a}
  OBVIOUS
<1>4. Cardinality(S \cup {a}) = Cardinality(S) + 1
  BY <1>2, FS_AddElement
<1>5. Cardinality(S \cup {a}) <= Cardinality(Nodes)
  BY <1>1, <1>2, FS_Subset
<1> HIDE DEF S
<1>6. (Cardinality(S) + 1) % 256 = Cardinality(S) + 1
  BY <1>1, <1>2, <1>4, <1>5
<1>7. (Cardinality(S) + 1) % 256 = Cardinality({n \in Nodes : [f EXCEPT ![a] = TRUE][n]})
  BY <1>3, <1>4, <1>6
<1> QED
  BY <1>7 DEF S

LEMMA OneLess ==
    ASSUME NEW f \in [Nodes -> BOOLEAN], NEW a \in Nodes, f[a]
    PROVE  (Cardinality({n \in Nodes : f[n]}) - 1) % 256
               = Cardinality({n \in Nodes : [f EXCEPT ![a] = FALSE][n]})
<1> DEFINE S == {n \in Nodes : f[n]}
<1>1. IsFiniteSet(Nodes) /\ Cardinality(Nodes) < 256 /\ Cardinality(Nodes) \in Nat
  BY UnlockedAssumption, FS_CardinalityType DEF UnlockedAssumption
<1>2. /\ IsFiniteSet(S) /\ Cardinality(S) \in Nat /\ Cardinality(S) <= Cardinality(Nodes)
      /\ S \subseteq Nodes /\ a \in S
  BY <1>1, FS_Subset, FS_CardinalityType
<1>3. {n \in Nodes : [f EXCEPT ![a] = FALSE][n]} = S \ {a}
  OBVIOUS
<1>4. Cardinality(S \ {a}) = Cardinality(S) - 1 /\ Cardinality(S \ {a}) \in Nat
  BY <1>2, FS_RemoveElement, FS_CardinalityType
<1> HIDE DEF S
<1>5. (Cardinality(S) - 1) % 256 = Cardinality(S) - 1
  BY <1>1, <1>2, <1>4
<1>6. (Cardinality(S) - 1) % 256 = Cardinality({n \in Nodes : [f EXCEPT ![a] = FALSE][n]})
  BY <1>3, <1>4, <1>5
<1> QED
  BY <1>6 DEF S

(* What each statement that writes a pointer does to the list. *)
LEMMA AddNextLinks ==
    ASSUME Typed, ListInv, AddNext(Main)
    PROVE  /\ P = "add_next" /\ A \in Nodes /\ A \notin Linked
           /\ next' = [next EXCEPT ![A] = head]
           /\ Linked' = Linked /\ NoCycle(next', head')
<1>0. /\ Main \in Tasks /\ pc \in [Tasks -> Statements] /\ arg \in [Tasks -> NodeOrNull]
      /\ head \in NodeOrNull /\ next \in Pointers /\ active \in [Nodes -> BOOLEAN]
      /\ NoCycle(next, head) /\ Linked \subseteq Nodes
  BY DEF Typed, TypeOK, Tasks, Pointers, ListInv, Linked, Visited
<1>1. /\ P = "add_next" /\ A \in Nodes /\ ~active[A]
      /\ next' = [next EXCEPT ![A] = head] /\ head' = head
  BY <1>0 DEF AddNext, At, P, A, Typed, CallsHaveNode, Calls, ListInv, Adding
<1>2. Tidy
  BY <1>1, TidyBefore DEF HalfDone
<1>3. A \notin Linked /\ next' \in Pointers /\ \A n \in Nodes : n # A => next'[n] = next[n]
  BY <1>0, <1>1, <1>2 DEF Tidy, Pointers
<1>4. Visited(next', head) = Linked /\ NoCycle(next', head)
  BY <1>0, <1>3, ListElsewhere DEF Linked
<1> QED
  BY <1>1, <1>3, <1>4 DEF Linked

LEMMA AddHeadLinks ==
    ASSUME Typed, ListInv, AddHead(Main)
    PROVE  /\ P = "add_head" /\ A \in Nodes /\ A \notin Linked
           /\ Linked' = Linked \cup {A} /\ NoCycle(next', head')
<1>0. /\ Main \in Tasks /\ pc \in [Tasks -> Statements] /\ arg \in [Tasks -> NodeOrNull]
      /\ head \in NodeOrNull /\ next \in Pointers /\ active \in [Nodes -> BOOLEAN]
      /\ NoCycle(next, head) /\ Linked \subseteq Nodes
  BY DEF Typed, TypeOK, Tasks, Pointers, ListInv, Linked, Visited
<1>1. /\ P = "add_head" /\ A \in Nodes /\ ~active[A] /\ next[A] = head
      /\ head' = A /\ next' = next
  BY <1>0 DEF AddHead, At, P, A, Typed, CallsHaveNode, Calls, ListInv, Adding
<1>2. A \notin Linked
  BY <1>1 DEF ListInv, Flags
<1>3. Visited(next, A) = Linked \cup {A} /\ NoCycle(next, A)
  BY <1>0, <1>1, <1>2, Prepended DEF Linked
<1> QED
  BY <1>1, <1>2, <1>3 DEF Linked

LEMMA RemoveUnlinkLinks ==
    ASSUME Typed, ListInv, RemoveUnlink(Main)
    PROVE  /\ P = "rem_unlink" /\ A \in Nodes /\ A \in Linked
           /\ \A n \in Nodes : n \notin Linked => next'[n] = next[n]
           /\ Linked' = Linked \ {A} /\ NoCycle(next', head')
<1>0. /\ Main \in Tasks /\ pc \in [Tasks -> Statements] /\ arg \in [Tasks -> NodeOrNull]
      /\ head \in NodeOrNull /\ next \in Pointers /\ active \in [Nodes -> BOOLEAN]
      /\ NoCycle(next, head) /\ Linked \subseteq Nodes
  BY DEF Typed, TypeOK, Tasks, Pointers, ListInv, Linked, Visited
<1>1. P = "rem_unlink" /\ A \in Linked /\ A \in Nodes /\ curr[Main] = A
  BY <1>0 DEF RemoveUnlink, At, P, ListInv, Finding
<1>2. CASE prev[Main] = NoNode
  <2>1. head = A /\ head' = next[A] /\ next' = next
    BY <1>1, <1>2 DEF RemoveUnlink, ListInv, Finding
  <2>2. Visited(next, next[A]) = Linked \ {A} /\ NoCycle(next, next[A])
    BY <1>0, <1>1, <2>1, UnlinkedFirst DEF Linked
  <2> QED
    BY <1>1, <2>1, <2>2 DEF Linked
<1>3. CASE prev[Main] # NoNode
  <2> DEFINE p == prev[Main]
  <2>1. p \in Linked /\ next[p] = A /\ head' = head /\ next' = [next EXCEPT ![p] = next[A]]
    BY <1>1, <1>3 DEF RemoveUnlink, ListInv, Finding
  <2> HIDE DEF p
  <2>2. p \in Visited(next, head) /\ next' = [next EXCEPT ![p] = next[A]]
    BY <2>1 DEF Linked
  <2>3. Visited(next', head) = Visited(next, head) \ {A} /\ NoCycle(next', head)
    BY <1>0, <1>1, <2>1, <2>2, UnlinkedNext
  <2>4. \A n \in Nodes : n \notin Linked => next'[n] = next[n]
    BY <1>0, <2>1 DEF Pointers
  <2> QED
    BY <1>1, <2>1, <2>3, <2>4 DEF Linked
<1> QED
  BY <1>2, <1>3

LEMMA RemoveClearLinks ==
    ASSUME Typed, ListInv, RemoveClear(Main)
    PROVE  /\ P = "rem_clear" /\ A \in Nodes /\ A \notin Linked
           /\ next' = [next EXCEPT ![A] = NoNode]
           /\ Linked' = Linked /\ NoCycle(next', head')
<1>0. /\ Main \in Tasks /\ pc \in [Tasks -> Statements] /\ arg \in [Tasks -> NodeOrNull]
      /\ head \in NodeOrNull /\ next \in Pointers /\ active \in [Nodes -> BOOLEAN]
      /\ NoCycle(next, head) /\ Linked \subseteq Nodes
  BY DEF Typed, TypeOK, Tasks, Pointers, ListInv, Linked, Visited
<1>1. /\ P = "rem_clear" /\ A \in Nodes /\ head' = head
      /\ next' = [next EXCEPT ![A] = NoNode]
  BY <1>0 DEF RemoveClear, At, P, A, Typed, CallsHaveNode, Calls
<1>2. A \notin Linked
  BY <1>1 DEF ListInv, Flags
<1>3. next' \in Pointers /\ \A n \in Nodes : n # A => next'[n] = next[n]
  BY <1>0, <1>1 DEF Pointers, NodeOrNull
<1>4. Visited(next', head) = Linked /\ NoCycle(next', head)
  BY <1>0, <1>2, <1>3, ListElsewhere DEF Linked
<1> QED
  BY <1>1, <1>2, <1>4 DEF Linked

(* A call of task_scheduler_add, statement by statement. *)
LEMMA KeptAdd ==
    ASSUME Typed, ListInv, Add(Main)
    PROVE  ListInv'
<1>0. /\ Main \in Tasks /\ pc \in [Tasks -> Statements] /\ arg \in [Tasks -> NodeOrNull]
      /\ head \in NodeOrNull /\ next \in Pointers /\ active \in [Nodes -> BOOLEAN]
      /\ NoCycle(next, head) /\ Linked \subseteq Nodes
  BY DEF Typed, TypeOK, Tasks, Pointers, ListInv, Linked, Visited
<1>1. ASSUME NEW n \in Nodes, AddCheck(Main, n) PROVE ListInv'
  <2>1. Tidy
    BY <1>1, TidyBefore DEF AddCheck, At, P, HalfDone
  <2>2. Tidy' /\ Linked' = Linked
    BY <1>1, <2>1, TidyKept DEF AddCheck
  <2>3. P' = "add_next" /\ A' = n /\ ~active'[A']
    BY <1>0, <1>1 DEF AddCheck, Goto, P, A, list
  <2>4. Adding' /\ Finding' /\ P' \notin HalfDone
    BY <2>3 DEF Adding, Finding, HalfDone
  <2> QED
    BY <2>2, <2>4, TidyAfter
<1>2. CASE AddNext(Main)
  <2>1. /\ P = "add_next" /\ A \in Nodes /\ A \notin Linked
        /\ next' = [next EXCEPT ![A] = head] /\ Linked' = Linked /\ NoCycle(next', head')
    BY <1>2, AddNextLinks
  <2>2. P' = "add_head" /\ A' = A /\ head' = head /\ active' = active /\ count' = count
    BY <1>0, <1>2 DEF AddNext, Goto, P, A
  <2>3. Tidy
    BY <2>1, TidyBefore DEF HalfDone
  <2>4. next'[A] = head /\ \A n \in Nodes : n # A => next'[n] = next[n]
    BY <1>0, <2>1 DEF Pointers
  <2>5. LooseEnds' /\ Flags'
    BY <2>1, <2>2, <2>3, <2>4 DEF LooseEnds, Flags, Tidy
  <2>6. Counted' /\ Adding' /\ Finding'
    BY <2>1, <2>2, <2>3, <2>4 DEF Tidy, Counted, Adding, Finding
  <2> QED
    BY <2>1, <2>5, <2>6 DEF ListInv
<1>3. CASE AddHead(Main)
  <2>1. /\ P = "add_head" /\ A \in Nodes /\ A \notin Linked
        /\ Linked' = Linked \cup {A} /\ NoCycle(next', head')
    BY <1>3, AddHeadLinks
  <2>2. P' = "add_active" /\ A' = A /\ next' = next /\ active' = active /\ count' = count
    BY <1>0, <1>3 DEF AddHead, Goto, P, A
  <2>3. /\ \A n \in Nodes : n \notin Linked /\ n # A => next[n] = NoNode
        /\ \A n \in Nodes : active[n] <=> n \in Linked
    BY <2>1 DEF ListInv, LooseEnds, Flags
  <2>4. LooseEnds' /\ Flags'
    BY <2>1, <2>2, <2>3 DEF LooseEnds, Flags
  <2>5. Counted' /\ Adding' /\ Finding'
    BY <2>2 DEF ListInv, Counted, Adding, Finding
  <2> QED
    BY <2>1, <2>4, <2>5 DEF ListInv
<1>4. CASE AddActive(Main)
  <2>1. /\ P = "add_active" /\ A \in Nodes /\ ReturnFrom(Main)
        /\ active' = [active EXCEPT ![A] = TRUE] /\ count' = (count + 1) % 256
        /\ head' = head /\ next' = next
    BY <1>4 DEF AddActive, At, P, A, Typed, CallsHaveNode, Calls, Tasks
  <2>2. /\ \A n \in Nodes : n \notin Linked => next[n] = NoNode
        /\ \A n \in Nodes : n # A => (active[n] <=> n \in Linked)
        /\ A \in Linked /\ ~active[A] /\ Counted
    BY <2>1 DEF ListInv, LooseEnds, Flags
  <2>3. Linked' = Linked /\ NoCycle(next', head')
    BY <1>0, <2>1 DEF Linked
  <2>4. Counted'
    BY <1>0, <2>1, <2>2, OneMore DEF Counted
  <2>5. Tidy'
    BY <1>0, <2>1, <2>2, <2>3, <2>4 DEF Tidy
  <2> QED
    BY <2>1, <2>5, AfterReturn, TidyAfter
<1> QED
  BY <1>1, <1>2, <1>3, <1>4 DEF Add

(* A call of task_scheduler_remove, statement by statement. *)
LEMMA KeptRemove ==
    ASSUME Typed, ListInv, Remove(Main)
    PROVE  ListInv'
<1>0. /\ Main \in Tasks /\ pc \in [Tasks -> Statements] /\ arg \in [Tasks -> NodeOrNull]
      /\ curr \in [Tasks -> NodeOrNull] /\ prev \in [Tasks -> NodeOrNull]
      /\ head \in NodeOrNull /\ next \in Pointers /\ active \in [Nodes -> BOOLEAN]
      /\ NoCycle(next, head) /\ Linked \subseteq Nodes
  BY DEF Typed, TypeOK, Tasks, Pointers, ListInv, Linked, Visited
<1>1. ASSUME NEW n \in Nodes, CallRemove(Main, n) PROVE ListInv'
  BY <1>1, KeptStartRemove DEF CallRemove, At, P, HalfDone
<1>2. CASE RemoveWalk(Main)
  <2>1. P = "rem_walk" /\ UNCHANGED list /\ P \notin HalfDone /\ A \in Nodes
    BY <1>0, <1>2 DEF RemoveWalk, At, P, A, HalfDone, Typed, CallsHaveNode, Calls
  <2>2. Tidy' /\ Linked' = Linked /\ head' = head /\ next' = next
    BY <2>1, TidyBefore, TidyKept DEF list
  <2>3. /\ curr[Main] \in Linked \cup {NoNode}
        /\ IF prev[Main] = NoNode
           THEN curr[Main] = head
           ELSE prev[Main] \in Linked /\ next[prev[Main]] = curr[Main]
    BY <2>1 DEF ListInv, Finding
  <2>4. CASE ReturnFrom(Main)
    BY <2>2, <2>4, AfterReturn, TidyAfter
  <2>5. CASE curr[Main] = A /\ Goto(Main, "rem_unlink") /\ UNCHANGED <<arg, walk>>
    <3>1. P' = "rem_unlink" /\ A' = A /\ curr' = curr /\ prev' = prev
      BY <1>0, <2>5 DEF Goto, P, A, walk
    <3>2. A \in Linked
      BY <2>1, <2>3, <2>5, UnlockedAssumption DEF UnlockedAssumption
    <3>3. Adding' /\ Finding' /\ P' \notin HalfDone
      BY <2>2, <2>3, <2>5, <3>1, <3>2 DEF Adding, Finding, HalfDone
    <3> QED
      BY <2>2, <3>3, TidyAfter
  <2>6. CASE /\ curr[Main] \notin {NoNode, A}
             /\ prev' = [prev EXCEPT ![Main] = curr[Main]]
             /\ curr' = [curr EXCEPT ![Main] = next[curr[Main]]]
             /\ UNCHANGED <<pc, arg>>
    <3>1. /\ P' = "rem_walk" /\ prev'[Main] = curr[Main] /\ prev'[Main] # NoNode
          /\ curr'[Main] = next[curr[Main]]
      BY <1>0, <2>1, <2>6 DEF P
    <3>2. curr[Main] \in Linked /\ next[curr[Main]] \in Linked \cup {NoNode}
      BY <1>0, <2>3, <2>6, VisitedClosed DEF Linked, ClosedUnder
    <3>3. Adding' /\ Finding' /\ P' \notin HalfDone
      BY <2>2, <3>1, <3>2 DEF Adding, Finding, HalfDone
    <3> QED
      BY <2>2, <3>3, TidyAfter
  <2> QED
    BY <1>2, <2>4, <2>5, <2>6 DEF RemoveWalk, A
<1>3. CASE RemoveUnlink(Main)
  <2>1. /\ P = "rem_unlink" /\ A \in Nodes /\ A \in Linked
        /\ \A n \in Nodes : n \notin Linked => next'[n] = next[n]
        /\ Linked' = Linked \ {A} /\ NoCycle(next', head')
    BY <1>3, RemoveUnlinkLinks
  <2>2. P' = "rem_clear" /\ A' = A /\ active' = active /\ count' = count
    BY <1>0, <1>3 DEF RemoveUnlink, Goto, P, A
  <2>3. Tidy
    BY <2>1, TidyBefore DEF HalfDone
  <2>4. LooseEnds' /\ Flags'
    BY <2>1, <2>2, <2>3 DEF LooseEnds, Flags, Tidy
  <2>5. Counted' /\ Adding' /\ Finding'
    BY <2>2, <2>3 DEF Tidy, Counted, Adding, Finding
  <2> QED
    BY <2>1, <2>4, <2>5 DEF ListInv
<1>4. CASE RemoveClear(Main)
  <2>1. /\ P = "rem_clear" /\ A \in Nodes /\ A \notin Linked
        /\ next' = [next EXCEPT ![A] = NoNode]
        /\ Linked' = Linked /\ NoCycle(next', head')
    BY <1>4, RemoveClearLinks
  <2>2. /\ ReturnFrom(Main) /\ active' = [active EXCEPT ![A] = FALSE]
        /\ count' = (count - 1) % 256
    BY <1>4 DEF RemoveClear, A
  <2>3. /\ \A n \in Nodes : n \notin Linked /\ n # A => next[n] = NoNode
        /\ \A n \in Nodes : n # A => (active[n] <=> n \in Linked)
        /\ active[A] /\ Counted
    BY <2>1 DEF ListInv, LooseEnds, Flags
  <2>4. Counted'
    BY <1>0, <2>1, <2>2, <2>3, OneLess DEF Counted
  <2>5. Tidy'
    BY <1>0, <2>1, <2>2, <2>3, <2>4 DEF Tidy, Pointers
  <2> QED
    BY <2>2, <2>5, AfterReturn, TidyAfter
<1> QED
  BY <1>1, <1>2, <1>3, <1>4 DEF Remove

-----------------------------------------------------------------------------
(* Theorems, when main is the only task.                                   *)

LEMMA ListInit ==
    ASSUME Others = {}, Init
    PROVE  ListInv
<1>1. /\ head = NoNode /\ Main \in Tasks /\ P = "rest" /\ count = 0
      /\ \A n \in Nodes : next[n] = NoNode /\ ~active[n]
  BY DEF Init, P, Tasks
<1>2. Linked = {}
  BY <1>1, VisitedNone DEF Linked
<1>3. NoCycle(next, head) /\ LooseEnds /\ Flags
  BY <1>1, <1>2 DEF NoCycle, LooseEnds, Flags, Linked
<1>4. {n \in Nodes : active[n]} = {}
  BY <1>1
<1>5. Counted
  BY <1>1, <1>4, FS_EmptySet DEF Counted
<1>6. Adding /\ Finding
  BY <1>1 DEF Adding, Finding
<1> QED
  BY <1>3, <1>5, <1>6 DEF ListInv

LEMMA ListStep ==
    ASSUME Others = {}, Typed, ListInv, [Next]_vars
    PROVE  ListInv'
<1>1. CASE UNCHANGED vars
  <2>1. /\ UNCHANGED <<head, next, active, count, pc, arg, curr, prev>>
    BY <1>1 DEF vars
  <2>2. P' = P /\ A' = A /\ Linked' = Linked
    BY <2>1 DEF P, A, Linked
  <2>3. NoCycle(next', head') /\ LooseEnds' /\ Flags' /\ Counted'
    BY <2>1, <2>2 DEF ListInv, LooseEnds, Flags, Counted
  <2>4. Adding' /\ Finding'
    BY <2>1, <2>2 DEF ListInv, Adding, Finding
  <2> QED
    BY <2>3, <2>4 DEF ListInv
<1>2. CASE Next
  <2>1. Work \/ Add(Main) \/ Remove(Main)
    BY <1>2 DEF Next, Tasks
  <2> QED
    BY <2>1, KeptWork, KeptAdd, KeptRemove
<1> QED
  BY <1>1, <1>2

LEMMA ListAlways == ASSUME Others = {} PROVE Spec => [](Typed /\ ListInv)
<1>1. Init => Typed /\ ListInv
  BY TypedInit, ListInit
<1>2. Typed /\ ListInv /\ [Next]_vars => (Typed /\ ListInv)'
  BY TypedStep, ListStep
<1> QED
  BY <1>1, <1>2, PTL DEF Spec

LEMMA ListInvSound ==
    ASSUME Typed, ListInv
    PROVE  ListSound
<1> SUFFICES ASSUME AtRest PROVE /\ Acyclic
                                 /\ \A n \in Nodes : active[n] <=> n \in Linked
                                 /\ count = Cardinality(Linked)
  BY DEF ListSound
<1>1. P \notin HalfDone
  BY DEF AtRest, At, P, HalfDone, Tasks
<1>2. Tidy
  BY <1>1, TidyBefore
<1>3. ASSUME NEW n \in Nodes PROVE n \notin Visited(next, next[n])
  <2>1. CASE n \in Linked
    BY <1>2, <2>1 DEF Tidy, NoCycle, Linked
  <2>2. CASE n \notin Linked
    BY <1>2, <2>2, VisitedNone DEF Tidy
  <2> QED
    BY <2>1, <2>2
<1>4. {n \in Nodes : active[n]} = Linked
  BY <1>2 DEF Tidy, Linked, Visited
<1> QED
  BY <1>2, <1>3, <1>4 DEF Tidy, Counted, Acyclic

(***************************************************************************)
(* As long as main alone edits the list: whenever no call is under way,    *)
(* the pointers have an end, the flags name exactly the nodes that a pass  *)
(* will visit, and the counter is their number; for any nodes, in any      *)
(* order of calls, from between passes or from within a callback.          *)
(***************************************************************************)
THEOREM SingleTaskListSound == ASSUME Others = {} PROVE Spec => []ListSound
<1>1. Typed /\ ListInv => ListSound
  BY ListInvSound
<1> QED
  BY <1>1, ListAlways, PTL

(* The contract's running node, and the time it never counts. *)
Running == IF called THEN node ELSE NoNode
NoWait == [n \in Nodes |-> 0]

LEMMA ContractStutters ==
    ASSUME Linked' = Linked, called' = called, called => node' = node
    PROVE  [Contract!ContractNext]_(Contract!contractVars)
<1>1. Running' = Running /\ NoWait' = NoWait
  BY DEF Running, NoWait
<1> QED
  BY <1>1 DEF Contract!contractVars, Running, NoWait

(* The statements that the contract sees: the two that link and unlink a
   node, and the call and the return of a work function. *)
LEMMA ContractSubmits ==
    ASSUME AddHead(Main), A \in Nodes, A \notin Linked, Linked' = Linked \cup {A}
    PROVE  Contract!ContractNext
<1>1. called' = called /\ node' = node
  BY DEF AddHead, pass
<1>2. Contract!Submit(A, 0)
  BY <1>1 DEF Contract!Submit
<1> QED
  BY <1>2 DEF Contract!ContractNext

LEMMA ContractWithdraws ==
    ASSUME RemoveUnlink(Main), A \in Nodes, A \in Linked, Linked' = Linked \ {A}
    PROVE  Contract!ContractNext
<1>1. called' = called /\ node' = node
  BY DEF RemoveUnlink, pass
<1>2. Contract!Withdraw(A)
  BY <1>1 DEF Contract!Withdraw
<1> QED
  BY <1>2 DEF Contract!ContractNext

LEMMA ContractWorks ==
    ASSUME Typed, ListInv, Work
    PROVE  [Contract!ContractNext]_(Contract!contractVars)
<1>0. Linked' = Linked
  BY DEF Work, WorkBegin, WorkNext, WorkCall, WorkSkip, WorkRunAgain, WorkFinish, WorkReturn,
         list, Linked
<1>1. CASE WorkCall
  <2>1. /\ node \in Nodes /\ ~called /\ active[node] /\ called' = TRUE /\ node' = node
        /\ P = "work_visit"
    BY <1>1 DEF WorkCall, At, P, Typed, PassHasNode
  <2>2. node \in Linked
    BY <2>1, TidyBefore DEF Tidy, HalfDone
  <2>3. Contract!Start(node)
    BY <1>0, <2>1, <2>2 DEF Contract!Start
  <2> QED
    BY <2>1, <2>3 DEF Contract!ContractNext
<1>2. CASE WorkRunAgain \/ WorkFinish
  <2>1. called /\ called' = FALSE /\ node \in Nodes /\ node # NoNode
    BY <1>2, UnlockedAssumption DEF WorkRunAgain, WorkFinish, Typed, PassHasNode,
                                    UnlockedAssumption
  <2>2. Contract!FinishAgain
    BY <1>0, <2>1 DEF Contract!FinishAgain
  <2> QED
    BY <2>2 DEF Contract!ContractNext
<1>3. CASE WorkBegin \/ WorkNext \/ WorkSkip \/ WorkReturn
  <2>1. ~called /\ called' = called
    BY <1>3 DEF WorkBegin, WorkNext, WorkSkip, WorkReturn, At, Typed, PassHasNode
  <2> QED
    BY <1>0, <2>1, ContractStutters
<1> QED
  BY <1>1, <1>2, <1>3 DEF Work

LEMMA ReturnStutters ==
    ASSUME ReturnFrom(Main), Linked' = Linked
    PROVE  [Contract!ContractNext]_(Contract!contractVars)
<1>1. called' = called /\ (called => node' = node)
  BY DEF ReturnFrom, pass
<1> QED
  BY <1>1, ContractStutters

LEMMA ContractStep ==
    ASSUME Others = {}, Typed, ListInv, [Next]_vars
    PROVE  [Contract!ContractNext]_(Contract!contractVars)
<1>1. CASE UNCHANGED vars
  BY <1>1, ContractStutters DEF vars, Linked
<1>2. CASE Work
  BY <1>2, ContractWorks
<1>3. CASE Add(Main)
  <2>1. ASSUME NEW n \in Nodes, AddCheck(Main, n)
        PROVE  [Contract!ContractNext]_(Contract!contractVars)
    BY <2>1, ContractStutters DEF AddCheck, list, pass, Linked
  <2>2. CASE AddNext(Main)
    BY <2>2, AddNextLinks, ContractStutters DEF AddNext, pass
  <2>3. CASE AddHead(Main)
    BY <2>3, AddHeadLinks, ContractSubmits
  <2>4. CASE AddActive(Main)
    BY <2>4, ReturnStutters DEF AddActive, Linked
  <2> QED
    BY <1>3, <2>1, <2>2, <2>3, <2>4 DEF Add
<1>4. CASE Remove(Main)
  <2>1. ASSUME NEW n \in Nodes, CallRemove(Main, n)
        PROVE  [Contract!ContractNext]_(Contract!contractVars)
    BY <2>1, ContractStutters DEF CallRemove, list, pass, Linked
  <2>2. CASE RemoveWalk(Main)
    <3>1. Linked' = Linked /\ (ReturnFrom(Main) \/ UNCHANGED <<node, called>>)
      BY <2>2 DEF RemoveWalk, list, pass, Linked
    <3> QED
      BY <3>1, ReturnStutters, ContractStutters
  <2>3. CASE RemoveUnlink(Main)
    BY <2>3, RemoveUnlinkLinks, ContractWithdraws
  <2>4. CASE RemoveClear(Main)
    BY <2>4, RemoveClearLinks, ReturnStutters DEF RemoveClear
  <2> QED
    BY <1>4, <2>1, <2>2, <2>3, <2>4 DEF Remove
<1> QED
  BY <1>1, <1>2, <1>3, <1>4 DEF Next, Tasks

(***************************************************************************)
(* And then the statements implement the set of queued nodes that          *)
(* task_scheduler.h promises: a node enters it with the store to head,     *)
(* leaves it with the store that unlinks it, and only nodes of the set     *)
(* have their work called, one at a time.                                  *)
(***************************************************************************)
THEOREM SingleTaskImplementsContract == ASSUME Others = {} PROVE Spec => ImplementsContract
<1>1. Init => Contract!ContractInit
  <2> SUFFICES ASSUME Init PROVE Contract!ContractInit
    OBVIOUS
  <2>1. Linked = {} /\ ~called
    BY VisitedNone DEF Init, Linked
  <2> QED
    BY <2>1 DEF Contract!ContractInit
<1>2. Typed /\ ListInv /\ [Next]_vars => [Contract!ContractNext]_(Contract!contractVars)
  BY ContractStep
<1> QED
  BY <1>1, <1>2, ListAlways, PTL DEF Spec, ImplementsContract, Contract!ContractSpec
=============================================================================
