------------------------ MODULE MeasurementsManager ------------------------
(***************************************************************************)
(* The start/stop handshake of the environment polling task                *)
(* (components/environment_measurements, MeasurementsManager).             *)
(*                                                                         *)
(* One owner calls start() and stop(); one static FreeRTOS task polls the  *)
(* registered producers in order.  They share an atomic stop request, the  *)
(* task's notification and a binary semaphore that acknowledges a stop.    *)
(* Each shared access is a step of its own: the two run on either core.    *)
(*                                                                         *)
(* What a poll does to the stored values is in MeasurementStore.           *)
(* Names such as StartTaskOnce, before the definition they vary, are       *)
(* plausible slips; README.md says which property each one breaks.         *)
(***************************************************************************)
EXTENDS Integers

CONSTANTS Producers,  \* registration_count_
          MaxStops    \* bound: stops that are told apart in the history

ASSUME ManagerAssumption ==
    Producers \in Nat \ {0} /\ MaxStops \in Nat \ {0, 1}

VARIABLES
    stopRequested, \* stop_requested_
    notified,      \* the task's notification count is not zero
    stopped,       \* stopped_, a binary semaphore
    running,       \* running_
    owner,         \* where the owner is inside start() or stop()
    task,          \* where the polling task is in task_loop()
    next,          \* the registration poll_once() is reading
    stops          \* history: stop() calls begun, up to MaxStops

managerVars == <<stopRequested, notified, stopped, running, owner, task, next, stops>>

ManagerTypeOK ==
    /\ stopRequested \in BOOLEAN
    /\ notified \in BOOLEAN
    /\ stopped \in BOOLEAN
    /\ running \in BOOLEAN
    /\ owner \in {"idle", "starting", "stopping", "waiting"}
    /\ task \in {"none", "check", "ack", "parked", "poll", "sleep"}
    /\ next \in 1 .. Producers
    /\ stops \in 0 .. MaxStops

(* After init(): no task yet. *)
ManagerInit ==
    /\ stopRequested = FALSE /\ notified = FALSE /\ stopped = FALSE
    /\ running = FALSE
    /\ owner = "idle" /\ task = "none" /\ next = 1
    /\ stops = 0

-----------------------------------------------------------------------------
(* The owner.  A start() while running and a stop() while not running       *)
(* return at once.                                                          *)

StartClear ==
    /\ owner = "idle" /\ ~running
    /\ stopRequested' = FALSE
    /\ owner' = "starting"
    /\ UNCHANGED <<notified, stopped, running, task, next, stops>>

StartTaskOnce ==
    /\ owner = "starting"
    /\ task' = IF task = "none" THEN "check" ELSE task
    /\ running' = TRUE
    /\ owner' = "idle"
    /\ UNCHANGED <<stopRequested, notified, stopped, next, stops>>

(* The first start() creates the task, a later one wakes it. *)
StartTask ==
    /\ owner = "starting"
    /\ \/ task = "none" /\ task' = "check" /\ UNCHANGED notified
       \/ task # "none" /\ notified' = TRUE /\ UNCHANGED task
    /\ running' = TRUE
    /\ owner' = "idle"
    /\ UNCHANGED <<stopRequested, stopped, next, stops>>

StopRequest ==
    /\ owner = "idle" /\ running
    /\ stopRequested' = TRUE
    /\ owner' = "stopping"
    /\ stops' = IF stops < MaxStops THEN stops + 1 ELSE stops
    /\ UNCHANGED <<notified, stopped, running, task, next>>

StopNotify ==
    /\ owner = "stopping"
    /\ notified' = TRUE
    /\ owner' = "waiting"
    /\ UNCHANGED <<stopRequested, stopped, running, task, next, stops>>

StopTakeAtOnce ==
    /\ owner = "waiting"
    /\ stopped' = FALSE
    /\ running' = FALSE
    /\ owner' = "idle"
    /\ UNCHANGED <<stopRequested, notified, task, next, stops>>

StopTake ==
    /\ owner = "waiting"
    /\ stopped
    /\ stopped' = FALSE
    /\ running' = FALSE
    /\ owner' = "idle"
    /\ UNCHANGED <<stopRequested, notified, task, next, stops>>

-----------------------------------------------------------------------------
(* The polling task.                                                        *)

Check ==
    /\ task = "check"
    /\ task' = IF stopRequested THEN "ack" ELSE "poll"
    /\ next' = 1
    /\ UNCHANGED <<stopRequested, notified, stopped, running, owner, stops>>

AcknowledgeNobody ==
    /\ task = "ack"
    /\ task' = "parked"
    /\ UNCHANGED <<stopRequested, notified, stopped, running, owner, next, stops>>

(* xSemaphoreGive: a semaphore that is already given stays so. *)
Acknowledge ==
    /\ task = "ack"
    /\ stopped' = TRUE
    /\ task' = "parked"
    /\ UNCHANGED <<stopRequested, notified, running, owner, next, stops>>

Wake ==
    /\ task = "parked"
    /\ notified
    /\ notified' = FALSE
    /\ task' = "check"
    /\ UNCHANGED <<stopRequested, stopped, running, owner, next, stops>>

(* poll_once: one producer after the other. *)
Poll ==
    /\ task = "poll"
    /\ \/ next < Producers /\ next' = next + 1 /\ UNCHANGED task
       \/ next = Producers /\ task' = "sleep" /\ UNCHANGED next
    /\ UNCHANGED <<stopRequested, notified, stopped, running, owner, stops>>

SleepEndPolls ==
    /\ task = "sleep"
    /\ notified' = FALSE
    /\ task' = "poll" /\ next' = 1
    /\ UNCHANGED <<stopRequested, stopped, running, owner, stops>>

(* The reading interval is over, or a notification ends it early. *)
SleepEnd ==
    /\ task = "sleep"
    /\ notified' = FALSE
    /\ task' = "check"
    /\ UNCHANGED <<stopRequested, stopped, running, owner, next, stops>>

Start == StartClear \/ StartTask
Stop == StopRequest \/ StopNotify \/ StopTake
Task == Check \/ Acknowledge \/ Wake \/ Poll \/ SleepEnd

ManagerNext == Start \/ Stop \/ Task

(* A call that has begun goes on, the task is scheduled, a producer's read
   returns and the interval passes.  Nobody has to call start() or stop(). *)
ManagerFairness ==
    /\ WF_managerVars(StartTask) /\ WF_managerVars(StopNotify) /\ WF_managerVars(StopTake)
    /\ WF_managerVars(Task)

ManagerSpec == ManagerInit /\ [][ManagerNext]_managerVars
ManagerFairSpec == ManagerSpec /\ ManagerFairness

-----------------------------------------------------------------------------
(* Properties.                                                              *)

(* Neither side sleeps for ever: a task that was started again has a wake-up
   under way, and an owner that waits in stop() waits for an acknowledgement
   that is there or that the task will still give. *)
NoLostWakeup ==
    task = "parked" =>
        /\ running /\ owner = "idle" => notified
        /\ owner = "waiting" => stopped \/ notified

(* "The task gives this semaphore only after it has observed the stop
   request" (measurements_manager.cpp:96), "Block until the polling task
   acknowledges a cooperative stop request" (measurements_manager.hpp:62):
   when stop() has returned, no producer is being polled. *)
StoppedIsQuiet ==
    ~running /\ owner = "idle" => task \notin {"poll", "sleep"}

(* The promise holds for the first stop, before an acknowledgement of an
   earlier stop can have been left in the semaphore.  (A stopped task that an
   old notification wakes gives it a second time, and the next stop() takes
   that and returns while the task polls: measurements_manager.cpp:147.) *)
FirstStopIsQuiet == stops = 1 => StoppedIsQuiet

(* stop() returns. *)
StopReturns == owner = "stopping" ~> owner = "idle" /\ ~running

(* A stop takes effect in the end, even one that returned on an
   acknowledgement of an earlier stop. *)
StopTakesEffect ==
    ~running /\ task # "none" ~> task = "parked" \/ owner = "starting"

=============================================================================
