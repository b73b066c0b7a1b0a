--------------------------- MODULE TaskScheduler ---------------------------
(***************************************************************************)
(* The cooperative scheduler of components/task_scheduler, used the way    *)
(* its header intends: every call comes from one FreeRTOS task, either     *)
(* between two passes of task_scheduler_work() or from inside a work       *)
(* callback.  (TaskSchedulerUnlocked models callers on other tasks.)       *)
(*                                                                         *)
(* The intrusive singly-linked list is the sequence "queue", head first.   *)
(* A node's next pointer is its successor in the queue; a node that is not *)
(* queued has next = NULL, because task_scheduler_remove() clears it.      *)
(*                                                                         *)
(* The 32-bit tick counter is modelled with TickMod values, so that it     *)
(* wraps while nodes are waiting.                                          *)
(***************************************************************************)
EXTENDS Integers, Sequences, FiniteSets

CONSTANTS Nodes,           \* the task nodes of the firmware
          NoNode,          \* the NULL pointer
          TickMod,         \* 2^32 in the firmware
          Delays,          \* delays callers ask for, in ticks
          MaxLate,         \* bound: longest time the main task stalls
          MaxCallbackOps   \* bound: list calls made by one work callback

ASSUME SchedulerAssumption ==
    /\ NoNode \notin Nodes
    /\ IsFiniteSet(Nodes) /\ Cardinality(Nodes) < 256
    /\ TickMod \in Nat \ {0} /\ TickMod % 2 = 0
    /\ MaxLate \in Nat
    /\ Delays \subseteq Nat /\ 0 \in Delays
    /\ \A d \in Delays : d + MaxLate < TickMod \div 2
    /\ MaxCallbackOps \in Nat

VARIABLES
    queue,   \* g_task_scheduler.head and the next pointers behind it
    active,  \* node->active
    count,   \* g_task_scheduler.count, a uint8_t
    runAt,   \* node->run_at_tick
    tick,    \* xTaskGetTickCount()
    phase,   \* main task: between passes, walking the list, in a callback
    node,    \* task_scheduler_work: the node being visited
    saved,   \* task_scheduler_work: "next", read before the callback runs
    now,     \* task_scheduler_work: the tick sampled when the pass began
    ops,     \* list calls the running callback has made
    wait,    \* history: true ticks until a queued node may run
    ran,     \* history: nodes invoked in this pass
    owed,    \* history: nodes due since the pass began, not yet invoked
    cut      \* history: the node to be visited next, when a callback of
             \* this pass has removed it; NoNode otherwise

listVars == <<queue, active, count, runAt>>
passVars == <<phase, node, saved, now>>
vars == <<queue, active, count, runAt, tick, phase, node, saved, now, ops,
          wait, ran, owed, cut>>

NodeOrNull == Nodes \cup {NoNode}

TypeOK ==
    /\ queue \in Seq(Nodes)
    /\ active \in [Nodes -> BOOLEAN]
    /\ count \in 0 .. 255
    /\ runAt \in [Nodes -> 0 .. TickMod - 1]
    /\ tick \in 0 .. TickMod - 1
    /\ phase \in {"idle", "visit", "work"}
    /\ node \in NodeOrNull
    /\ saved \in NodeOrNull
    /\ now \in 0 .. TickMod - 1
    /\ ops \in 0 .. MaxCallbackOps
    /\ wait \in [Nodes -> Int]
    /\ ran \subseteq Nodes
    /\ owed \subseteq Nodes
    /\ cut \in NodeOrNull

-----------------------------------------------------------------------------
(* The list.  (Names such as DropNext, next to the definition they vary,   *)
(* are plausible slips; README.md says which property each one breaks.)    *)

IndexOf(s, n) == CHOOSE i \in 1 .. Len(s) : s[i] = n

Queued(n) == \E i \in 1 .. Len(queue) : queue[i] = n

DropNext(s, i) == [j \in 1 .. Len(s) - 1 |-> IF j <= i THEN s[j] ELSE s[j + 1]]

Drop(s, i) == [j \in 1 .. Len(s) - 1 |-> IF j < i THEN s[j] ELSE s[j + 1]]

First(s) == IF s = <<>> THEN NoNode ELSE s[1]

NextInRing(n) ==
    IF Queued(n) THEN queue[(IndexOf(queue, n) % Len(queue)) + 1] ELSE NoNode

(* node->next. *)
NextOf(n) ==
    IF Queued(n) /\ IndexOf(queue, n) < Len(queue)
    THEN queue[IndexOf(queue, n) + 1]
    ELSE NoNode

DueUnsigned(n, t) == t >= runAt[n]

DueLater(n, t) == (t - runAt[n]) % TickMod \in 1 .. (TickMod \div 2) - 1

(* (int32_t)(t - node->run_at_tick) >= 0. *)
Due(n, t) == (t - runAt[n]) % TickMod < TickMod \div 2

DeadlineFromPass(d) == (now + d) % TickMod

(* xTaskGetTickCount() + delay. *)
Deadline(d) == (tick + d) % TickMod

(* task_scheduler_add, past the checks that return -1.                     *)
Prepend(n, d) ==
    /\ ~active[n]
    /\ runAt' = [runAt EXCEPT ![n] = Deadline(d)]
    /\ queue' = <<n>> \o queue
    /\ active' = [active EXCEPT ![n] = TRUE]
    /\ count' = (count + 1) % 256
    /\ wait' = [wait EXCEPT ![n] = d]

(* task_scheduler_remove of a node the walk finds.                         *)
Unlink(n) ==
    /\ Queued(n)
    /\ queue' = Drop(queue, IndexOf(queue, n))
    /\ active' = [active EXCEPT ![n] = FALSE]
    /\ count' = (count - 1) % 256
    /\ wait' = [wait EXCEPT ![n] = 0]
    /\ owed' = owed \ {n}

-----------------------------------------------------------------------------
Init ==
    /\ queue = <<>>
    /\ active = [n \in Nodes |-> FALSE]
    /\ count = 0
    /\ runAt = [n \in Nodes |-> 0]
    /\ tick = 0
    /\ phase = "idle"
    /\ node = NoNode
    /\ saved = NoNode
    /\ now = 0
    /\ ops = 0
    /\ wait = [n \in Nodes |-> 0]
    /\ ran = {}
    /\ owed = {}
    /\ cut = NoNode

(* A list call is made between passes or by the running callback.  A call  *)
(* that the code refuses (already active, not found) changes nothing.      *)
CallList ==
    \/ phase = "idle" /\ UNCHANGED ops
    \/ phase = "work" /\ ops < MaxCallbackOps /\ ops' = ops + 1

task_scheduler_add(n, d) ==
    /\ CallList
    /\ Prepend(n, d)
    /\ UNCHANGED <<tick, phase, node, saved, now, ran, owed, cut>>

task_scheduler_remove(n) ==
    /\ CallList
    /\ Unlink(n)
    /\ cut' = IF phase = "work" /\ n = saved THEN n ELSE cut
    /\ UNCHANGED <<runAt, tick, phase, node, saved, now, ran>>

(* app_gui_*_schedule_now: the owner pulls its queued node forward.        *)
schedule_now(n) ==
    /\ phase = "idle"
    /\ active[n]
    /\ runAt' = [runAt EXCEPT ![n] = tick]
    /\ wait' = [wait EXCEPT ![n] = 0]
    /\ UNCHANGED <<queue, active, count, tick, phase, node, saved, now, ops,
                   ran, owed, cut>>

(* task_scheduler_work: the head is read, then the tick is sampled.        *)
BeginPass ==
    /\ phase = "idle"
    /\ phase' = "visit"
    /\ node' = First(queue)
    /\ now' = tick
    /\ ran' = {}
    /\ owed' = {n \in Nodes : active[n] /\ wait[n] <= 0}
    /\ UNCHANGED <<queue, active, count, runAt, tick, saved, ops, wait, cut>>

(* while (node): a due node's work is called, any other node is skipped.   *)
Invoke ==
    /\ phase = "visit"
    /\ node # NoNode
    /\ active[node]
    /\ Due(node, now)
    /\ saved' = NextOf(node)
    /\ phase' = "work"
    /\ ran' = ran \cup {node}
    /\ owed' = owed \ {node}
    /\ UNCHANGED <<queue, active, count, runAt, tick, node, now, ops, wait,
                   cut>>

Skip ==
    /\ phase = "visit"
    /\ node # NoNode
    /\ ~(active[node] /\ Due(node, now))
    /\ saved' = NextOf(node)
    /\ node' = NextOf(node)
    /\ UNCHANGED <<queue, active, count, runAt, tick, phase, now, ops, wait,
                   ran, owed, cut>>

(* The callback returns TASK_RUN_AGAIN, after moving its tick or not.      *)
ReturnRunAgain ==
    /\ phase = "work"
    /\ phase' = "visit"
    /\ node' = saved
    /\ ops' = 0
    /\ \/ UNCHANGED <<runAt, wait>>
       \/ \E d \in Delays :
             /\ runAt' = [runAt EXCEPT ![node] = Deadline(d)]
             /\ wait' = [wait EXCEPT ![node] = IF active[node] THEN d ELSE @]
    /\ UNCHANGED <<queue, active, count, tick, saved, now, ran, owed, cut>>

(* The callback returns TASK_DONE or TASK_ERROR.                           *)
ReturnRemove ==
    /\ phase = "work"
    /\ phase' = "visit"
    /\ node' = saved
    /\ ops' = 0
    /\ \/ active[node] /\ Unlink(node)
       \/ ~active[node] /\ UNCHANGED <<queue, active, count, wait, owed>>
    /\ UNCHANGED <<runAt, tick, saved, now, ran, cut>>

EndPass ==
    /\ phase = "visit"
    /\ node = NoNode
    /\ phase' = "idle"
    /\ saved' = NoNode
    /\ now' = 0
    /\ ran' = {}
    /\ cut' = NoNode
    /\ UNCHANGED <<queue, active, count, runAt, tick, node, ops, wait, owed>>

(* The tick interrupt.  The main task never stalls for MaxLate ticks: no   *)
(* node is left overdue longer than that and no pass lasts longer.         *)
Tick ==
    /\ \A n \in Nodes : active[n] => wait[n] > -MaxLate
    /\ phase # "idle" => (tick - now) % TickMod < MaxLate
    /\ tick' = (tick + 1) % TickMod
    /\ wait' = [n \in Nodes |-> IF active[n] THEN wait[n] - 1 ELSE wait[n]]
    /\ UNCHANGED <<queue, active, count, runAt, phase, node, saved, now, ops,
                   ran, owed, cut>>

Next ==
    \/ \E n \in Nodes, d \in Delays : task_scheduler_add(n, d)
    \/ \E n \in Nodes : task_scheduler_remove(n) \/ schedule_now(n)
    \/ BeginPass \/ Invoke \/ Skip
    \/ ReturnRunAgain \/ ReturnRemove \/ EndPass
    \/ Tick

(* app_main() loops for ever and work callbacks return (main.c:165-173).   *)
Fairness ==
    /\ WF_vars(BeginPass) /\ WF_vars(EndPass)
    /\ WF_vars(Invoke) /\ WF_vars(Skip)
    /\ WF_vars(ReturnRunAgain \/ ReturnRemove)

Spec == Init /\ [][Next]_vars
FairSpec == Spec /\ Fairness

-----------------------------------------------------------------------------
(* Properties.                                                             *)

(* The list, the active flags and the counter describe the same set: no
   node is linked twice, a node is active exactly while it is linked, and
   count is the number of linked nodes (task_scheduler.h:56, 65, 92). *)
ListConsistent ==
    /\ \A i, j \in 1 .. Len(queue) : queue[i] = queue[j] => i = j
    /\ \A n \in Nodes : active[n] <=> Queued(n)
    /\ count = Len(queue)

(* What the wrapping tick counter hides: the tick stored in a queued node is
   the tick at which its true waiting time is over, and waiting times and
   passes stay so short that the signed comparison of two ticks is right. *)
DeadlinesTrue ==
    /\ \A n \in Nodes : active[n] =>
          /\ runAt[n] = (tick + wait[n]) % TickMod
          /\ -MaxLate <= wait[n]
          /\ \E d \in Delays : wait[n] <= d
    /\ \A n \in Nodes : ~active[n] => wait[n] = 0
    /\ phase # "idle" => (tick - now) % TickMod <= MaxLate
    /\ phase = "work" => node # NoNode

Contract == INSTANCE SchedulerContract WITH
    queued  <- {n \in Nodes : Queued(n)},
    running <- IF phase = "work" THEN node ELSE NoNode

(* Walking a list that callbacks edit, with a saved next pointer and a
   wrapping tick, still implements the contract: work is only invoked on a
   node that is queued and whose delay has really elapsed, and a node
   removed while the walk holds a pointer to it is not invoked. *)
ImplementsContract == Contract!ContractSpec

(* A pass invokes a node at most once, even when callbacks put nodes in
   front of the walk or move their own deadline into the past.  (A callback
   that removes the very node the pass holds a pointer to, and adds it again
   at the head, sends the walk over the list a second time.) *)
OncePerPass == [][Invoke /\ cut = NoNode => node \notin ran]_vars

(* "Run one pass of the scheduler, invoking all nodes whose run time has
   elapsed" (task_scheduler.h:111): when the walk reaches the end of the
   list, every node that was due when it began has been invoked or taken out
   of the queue - unless a callback has removed the node to be visited next,
   whose next pointer is NULL from then on, which ends the pass early. *)
NoneMissed == phase = "visit" /\ node = NoNode /\ cut = NoNode => owed = {}

(* A due node is not overtaken for ever by nodes queued in front of it. *)
NeverStarves ==
    \A n \in Nodes : active[n] /\ wait[n] <= 0
        ~> ~active[n] \/ (phase = "work" /\ node = n) \/ cut # NoNode

=============================================================================
