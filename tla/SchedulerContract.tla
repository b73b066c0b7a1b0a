------------------------- MODULE SchedulerContract -------------------------
(***************************************************************************)
(* What task_scheduler.h promises to the modules that embed a task node,   *)
(* without the list that implements it: a set of queued nodes, the time    *)
(* each one still has to wait, and the node whose work is running.         *)
(*                                                                         *)
(*   - a node that is already queued is not queued a second time           *)
(*     (task_scheduler.h:92);                                              *)
(*   - work is invoked "at or after" the node's tick, never earlier        *)
(*     (task_scheduler.h:55), on queued nodes only, one at a time;         *)
(*   - TASK_DONE and TASK_ERROR remove the node, TASK_RUN_AGAIN keeps it   *)
(*     (task_scheduler.h:25-27);                                           *)
(*   - a removed node is not invoked (task_scheduler.h:101-103).           *)
(***************************************************************************)
EXTENDS Integers

CONSTANTS Nodes,    \* the task nodes of the firmware
          NoNode,   \* the NULL pointer
          Delays    \* the delays callers ask for, in ticks

VARIABLES queued,   \* nodes the scheduler will still invoke
          wait,     \* ticks until a queued node may run (negative: overdue)
          running   \* node whose work function is executing, or NoNode

contractVars == <<queued, wait, running>>

ContractTypeOK ==
    /\ queued \subseteq Nodes
    /\ wait \in [Nodes -> Int]
    /\ running \in Nodes \cup {NoNode}

ContractInit ==
    /\ queued = {}
    /\ wait = [n \in Nodes |-> 0]
    /\ running = NoNode

(* task_scheduler_add of a node that is not queued. *)
Submit(n, d) ==
    /\ n \notin queued
    /\ queued' = queued \cup {n}
    /\ wait' = [wait EXCEPT ![n] = d]
    /\ UNCHANGED running

(* task_scheduler_remove of a queued node. *)
Withdraw(n) ==
    /\ n \in queued
    /\ queued' = queued \ {n}
    /\ wait' = [wait EXCEPT ![n] = 0]
    /\ UNCHANGED running

(* The owner of a queued node moves its run_at_tick. *)
Postpone(n, d) ==
    /\ n \in queued
    /\ wait' = [wait EXCEPT ![n] = d]
    /\ UNCHANGED <<queued, running>>

(* A pass invokes the work of a queued node whose time has come. *)
Start(n) ==
    /\ running = NoNode
    /\ n \in queued
    /\ wait[n] <= 0
    /\ running' = n
    /\ UNCHANGED <<queued, wait>>

(* The work returns TASK_RUN_AGAIN, possibly after moving its own tick. *)
FinishAgain ==
    /\ running # NoNode
    /\ \/ UNCHANGED wait
       \/ \E d \in Delays : wait' = [wait EXCEPT ![running] = d]
    /\ running' = NoNode
    /\ UNCHANGED queued

(* The work returns TASK_DONE or TASK_ERROR. *)
FinishRemove ==
    /\ running # NoNode
    /\ queued' = queued \ {running}
    /\ wait' = [wait EXCEPT ![running] = 0]
    /\ running' = NoNode

(* One FreeRTOS tick. *)
Elapse ==
    /\ wait' = [n \in Nodes |-> IF n \in queued THEN wait[n] - 1 ELSE wait[n]]
    /\ UNCHANGED <<queued, running>>

ContractNext ==
    \/ \E n \in Nodes, d \in Delays : Submit(n, d) \/ Postpone(n, d)
    \/ \E n \in Nodes : Withdraw(n) \/ Start(n)
    \/ FinishAgain
    \/ FinishRemove
    \/ Elapse

ContractSpec == ContractInit /\ [][ContractNext]_contractVars
=============================================================================
