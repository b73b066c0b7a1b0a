----------------------- MODULE TaskSchedulerUnlocked -----------------------
(***************************************************************************)
(* The scheduler's list as memory: a head pointer, a next pointer and an   *)
(* active flag per node, a counter, and the FreeRTOS tasks that call       *)
(* task_scheduler_add() and task_scheduler_remove() on it.  No lock        *)
(* protects the list, the chip has two cores and the callers are           *)
(* preemptive tasks, so each C statement that reads or writes a pointer    *)
(* another task may use is a step here and the tasks' steps interleave:    *)
(*                                                                         *)
(*   main          task_scheduler_work(), and what its callbacks call      *)
(*   event loop    nac.c:570 adds the NAC node, http_client.c:46 the poll  *)
(*                 node                                                    *)
(*   LVGL          nac.c:157, 181 add the NAC node, http_client.c:53       *)
(*                 removes the poll node                                   *)
(*   UART listener uart_mole.c:357-469 add the transmit node               *)
(*                                                                         *)
(* Time is left out: a visited node may or may not be due.                 *)
(***************************************************************************)
EXTENDS Integers, FiniteSets

CONSTANTS Nodes,    \* the task nodes
          NoNode,   \* the NULL pointer
          Main,     \* the task that runs app_main()
          Others,   \* the other tasks that call the scheduler
          Adds,     \* Adds[t]: the nodes task t adds
          Removes   \* Removes[t]: the nodes task t removes

Tasks == {Main} \cup Others

ASSUME UnlockedAssumption ==
    /\ NoNode \notin Nodes
    /\ IsFiniteSet(Nodes) /\ Cardinality(Nodes) < 256
    /\ Main \notin Others
    /\ Adds \in [Tasks -> SUBSET Nodes]
    /\ Removes \in [Tasks -> SUBSET Nodes]

VARIABLES
    head,    \* g_task_scheduler.head
    next,    \* node->next
    active,  \* node->active
    count,   \* g_task_scheduler.count
    pc,      \* the statement each task executes next
    arg,     \* the node a list call of the task is about
    curr,    \* task_scheduler_remove: curr
    prev,    \* task_scheduler_remove: prev
    node,    \* task_scheduler_work: node
    saved,   \* task_scheduler_work: next
    called   \* main is inside node->work(node)

vars == <<head, next, active, count, pc, arg, curr, prev, node, saved, called>>
list == <<head, next, active, count>>
walk == <<curr, prev>>
pass == <<node, saved, called>>

NodeOrNull == Nodes \cup {NoNode}

Statements == {"rest", "add_next", "add_head", "add_active", "rem_walk",
               "rem_unlink", "rem_clear", "work_next", "work_visit",
               "work_return"}

TypeOK ==
    /\ head \in NodeOrNull
    /\ next \in [Nodes -> NodeOrNull]
    /\ active \in [Nodes -> BOOLEAN]
    /\ count \in 0 .. 255
    /\ pc \in [Tasks -> Statements]
    /\ arg \in [Tasks -> NodeOrNull]
    /\ curr \in [Tasks -> NodeOrNull]
    /\ prev \in [Tasks -> NodeOrNull]
    /\ node \in NodeOrNull
    /\ saved \in NodeOrNull
    /\ called \in BOOLEAN

Init ==
    /\ head = NoNode
    /\ next = [n \in Nodes |-> NoNode]
    /\ active = [n \in Nodes |-> FALSE]
    /\ count = 0
    /\ pc = [t \in Tasks |-> "rest"]
    /\ arg = [t \in Tasks |-> NoNode]
    /\ curr = [t \in Tasks |-> NoNode]
    /\ prev = [t \in Tasks |-> NoNode]
    /\ node = NoNode
    /\ saved = NoNode
    /\ called = FALSE

At(t, s) == pc[t] = s
Goto(t, s) == pc' = [pc EXCEPT ![t] = s]

(* A list call returns to a task's own code, or to the pass that main is
   in: the callback it made the call from, or the end of the node's visit. *)
ReturnFrom(t) ==
    /\ IF t = Main /\ node # NoNode /\ ~called
       THEN node' = saved /\ Goto(t, "work_next") /\ UNCHANGED <<saved, called>>
       ELSE Goto(t, "rest") /\ UNCHANGED pass
    /\ arg' = [arg EXCEPT ![t] = NoNode]

-----------------------------------------------------------------------------
(* task_scheduler_add                                                      *)

AddCheckNothing(t, n) ==
    /\ At(t, "rest")
    /\ n \in Adds[t]
    /\ arg' = [arg EXCEPT ![t] = n]
    /\ Goto(t, "add_next")
    /\ UNCHANGED <<list, walk, pass>>

(* if (node->active) return -1; *)
AddCheck(t, n) ==
    /\ At(t, "rest")
    /\ n \in Adds[t]
    /\ ~active[n]
    /\ arg' = [arg EXCEPT ![t] = n]
    /\ Goto(t, "add_next")
    /\ UNCHANGED <<list, walk, pass>>

(* node->next = head; *)
AddNext(t) ==
    /\ At(t, "add_next")
    /\ next' = [next EXCEPT ![arg[t]] = head]
    /\ Goto(t, "add_head")
    /\ UNCHANGED <<head, active, count, arg, walk, pass>>

(* head = node; *)
AddHead(t) ==
    /\ At(t, "add_head")
    /\ head' = arg[t]
    /\ Goto(t, "add_active")
    /\ UNCHANGED <<next, active, count, arg, walk, pass>>

(* node->active = 1; count++; return 0;  Nothing reads the counter. *)
AddActive(t) ==
    /\ At(t, "add_active")
    /\ active' = [active EXCEPT ![arg[t]] = TRUE]
    /\ count' = (count + 1) % 256
    /\ ReturnFrom(t)
    /\ UNCHANGED <<head, next, walk>>

-----------------------------------------------------------------------------
(* task_scheduler_remove                                                   *)

(* curr = head; prev = NULL; *)
StartRemove(t, n) ==
    /\ arg' = [arg EXCEPT ![t] = n]
    /\ curr' = [curr EXCEPT ![t] = head]
    /\ prev' = [prev EXCEPT ![t] = NoNode]
    /\ Goto(t, "rem_walk")

CallRemove(t, n) ==
    /\ At(t, "rest")
    /\ n \in Removes[t]
    /\ StartRemove(t, n)
    /\ UNCHANGED <<list, pass>>

(* while (curr) { if (curr == node) ...; prev = curr; curr = curr->next; } *)
RemoveWalk(t) ==
    /\ At(t, "rem_walk")
    /\ UNCHANGED list
    /\ \/ /\ curr[t] = NoNode
          /\ ReturnFrom(t)
          /\ UNCHANGED walk
       \/ /\ curr[t] = arg[t]
          /\ Goto(t, "rem_unlink")
          /\ UNCHANGED <<arg, walk, pass>>
       \/ /\ curr[t] \notin {NoNode, arg[t]}
          /\ prev' = [prev EXCEPT ![t] = curr[t]]
          /\ curr' = [curr EXCEPT ![t] = next[curr[t]]]
          /\ UNCHANGED <<pc, arg, pass>>

(* if (prev) prev->next = curr->next; else head = curr->next; *)
RemoveUnlink(t) ==
    /\ At(t, "rem_unlink")
    /\ IF prev[t] # NoNode
       THEN next' = [next EXCEPT ![prev[t]] = next[curr[t]]] /\ UNCHANGED head
       ELSE head' = next[curr[t]] /\ UNCHANGED next
    /\ Goto(t, "rem_clear")
    /\ UNCHANGED <<active, count, arg, walk, pass>>

(* node->next = NULL; node->active = 0; count--; return 0; *)
RemoveClear(t) ==
    /\ At(t, "rem_clear")
    /\ next' = [next EXCEPT ![arg[t]] = NoNode]
    /\ active' = [active EXCEPT ![arg[t]] = FALSE]
    /\ count' = (count - 1) % 256
    /\ curr' = [curr EXCEPT ![t] = NoNode]
    /\ prev' = [prev EXCEPT ![t] = NoNode]
    /\ ReturnFrom(t)
    /\ UNCHANGED head

-----------------------------------------------------------------------------
(* task_scheduler_work                                                     *)

(* node = head; *)
WorkBegin ==
    /\ At(Main, "rest") /\ ~called
    /\ head # NoNode
    /\ node' = head
    /\ Goto(Main, "work_next")
    /\ UNCHANGED <<list, arg, walk, saved, called>>

(* while (node) { next = node->next; *)
WorkNext ==
    /\ At(Main, "work_next")
    /\ IF node = NoNode
       THEN saved' = NoNode /\ Goto(Main, "rest")
       ELSE saved' = next[node] /\ Goto(Main, "work_visit")
    /\ UNCHANGED <<list, arg, walk, node, called>>

WorkCallAny ==
    /\ At(Main, "work_visit")
    /\ called' = TRUE
    /\ Goto(Main, "rest")
    /\ UNCHANGED <<list, arg, walk, node, saved>>

(* An active node that is due is called; any other one is passed over. *)
WorkCall ==
    /\ At(Main, "work_visit")
    /\ active[node]
    /\ called' = TRUE
    /\ Goto(Main, "rest")
    /\ UNCHANGED <<list, arg, walk, node, saved>>

WorkSkip ==
    /\ At(Main, "work_visit")
    /\ node' = saved
    /\ Goto(Main, "work_next")
    /\ UNCHANGED <<list, arg, walk, saved, called>>

(* The callback returns TASK_RUN_AGAIN. *)
WorkRunAgain ==
    /\ called /\ At(Main, "rest")
    /\ called' = FALSE
    /\ node' = saved
    /\ Goto(Main, "work_next")
    /\ UNCHANGED <<list, arg, walk, saved>>

(* The callback returns TASK_DONE or TASK_ERROR. *)
WorkFinish ==
    /\ called /\ At(Main, "rest")
    /\ called' = FALSE
    /\ Goto(Main, "work_return")
    /\ UNCHANGED <<list, arg, walk, node, saved>>

(* if (node->active) task_scheduler_remove(node); *)
WorkReturn ==
    /\ At(Main, "work_return")
    /\ \/ /\ active[node]
          /\ StartRemove(Main, node)
          /\ UNCHANGED node
       \/ /\ ~active[node]
          /\ node' = saved
          /\ Goto(Main, "work_next")
          /\ UNCHANGED <<arg, walk>>
    /\ UNCHANGED <<list, saved, called>>

-----------------------------------------------------------------------------
Add(t) == (\E n \in Nodes : AddCheck(t, n))
             \/ AddNext(t) \/ AddHead(t) \/ AddActive(t)

Remove(t) == (\E n \in Nodes : CallRemove(t, n)) \/ RemoveWalk(t)
             \/ RemoveUnlink(t) \/ RemoveClear(t)

Work == WorkBegin \/ WorkNext \/ WorkCall \/ WorkSkip \/ WorkRunAgain
        \/ WorkFinish \/ WorkReturn

Next == Work \/ \E t \in Tasks : Add(t) \/ Remove(t)

Spec == Init /\ [][Next]_vars

-----------------------------------------------------------------------------
(* Properties.                                                             *)

(* The nodes that a walk from m along the pointers nx visits: the fewest that
   hold m and with each node its successor.  So said, it also has an end on a
   list that leads back to itself. *)
ClosedUnder(nx, S) == \A n \in S : nx[n] \in S \cup {NoNode}

Visited(nx, m) ==
    {n \in Nodes : \A S \in SUBSET Nodes :
        m \in S \cup {NoNode} /\ ClosedUnder(nx, S) => n \in S}

Linked == Visited(next, head)

AtRest == \A t \in Tasks : At(t, "rest")

(* Following the next pointers never comes back to a node. *)
Acyclic == \A n \in Nodes : n \notin Visited(next, next[n])

(* With no list call under way, the list ends and holds no node twice
   (task_scheduler.h:92), active says which nodes a walk will find, and count
   how many they are (task_scheduler.h:56, 65). *)
ListSound ==
    AtRest => /\ Acyclic
              /\ \A n \in Nodes : active[n] <=> n \in Linked
              /\ count = Cardinality(Linked)

Contract == INSTANCE SchedulerContract WITH
    Delays  <- {0},
    queued  <- Linked,
    wait    <- [n \in Nodes |-> 0],
    running <- IF called THEN node ELSE NoNode

(* Statement by statement, the pointer manipulation implements the set of
   queued nodes that the header promises. *)
ImplementsContract == Contract!ContractSpec
=============================================================================
