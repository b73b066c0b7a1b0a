------------------------------ MODULE UartMole ------------------------------
(***************************************************************************)
(* The UART diagnostic service, components/uart_mole/src/uart_mole.c.      *)
(*                                                                         *)
(* Two tasks share the driver and one package buffer, without a lock.  The *)
(* listener task takes one command byte for each UART_DATA event, fills    *)
(* the buffer with the answer and puts the service's node into the task    *)
(* scheduler; the main task sends the buffer from uart_mole_work() and     *)
(* clears it.  The node being active is all that keeps the two apart, and  *)
(* the listener answers TEST itself.                                       *)
(*                                                                         *)
(* A package is its tag and the number of the request it answers (from);   *)
(* on the wire it is two items, header and payload, as it is written.  On  *)
(* the same pins the boot ROM prints its log whenever the chip starts      *)
(* (CONFIG_BOOT_ROM_LOG_ALWAYS_ON), which is one item of its own.  The     *)
(* scheduler is taken at its contract (SchedulerContract): a node that is  *)
(* added is called, and is inactive once its callback has returned.        *)
(***************************************************************************)
EXTENDS Naturals, Sequences

Tags == {"STATUS", "SERVER", "SENSOR", "RESTART", "DIAG", "TEST"}

(* Answers that need data another part may not have yet. *)
NeedData == {"SERVER", "SENSOR"}

NoPkg == [tag |-> "NONE", from |-> 0]

(* What the boot ROM prints on the UART: text, of no package. *)
BootLog == [tag |-> "NONE", from |-> 0, part |-> "text"]

(* What a line that is held low puts into the ring buffer: 0x00, the STATUS
   command, that no client sent. *)
Glitch == [tag |-> "STATUS", from |-> 0]

VARIABLES
    rx,       \* the driver's receive ring buffer: commands not read yet
    events,   \* UART_DATA events in the driver's queue
    listener, \* where the listener task is; "off" before uart_mole_init
    cmd,      \* the command byte it has read
    pkg,      \* pkg_buf and pkg_tag: the package staged for transmission
    active,   \* task_node.active
    main,     \* where the main task is in uart_mole_work
    tx,       \* the driver's transmit buffer: items not clocked out yet
    wire,     \* every item clocked out so far
    restarts  \* how often esp_restart() has been called

deviceVars == <<rx, events, listener, cmd, pkg, active, main, tx, wire, restarts>>

DeviceInit ==
    /\ rx = <<>> /\ events = 0
    /\ listener = "off" /\ cmd = NoPkg
    /\ pkg = NoPkg /\ active = FALSE
    /\ main = "loop"
    /\ tx = <<>> /\ wire = <<BootLog>>
    /\ restarts = 0

Part(p, part) == [tag |-> p.tag, from |-> p.from, part |-> part]

(* Bytes come in on the line in one burst: the driver's interrupt moves them
   to the ring buffer and posts one event.  Without a driver they are lost. *)
Arrive(bytes) ==
    IF listener = "off"
    THEN UNCHANGED <<rx, events>>
    ELSE rx' = rx \o bytes /\ events' = events + 1

-----------------------------------------------------------------------------
(* uart_mole_init: the driver is installed, the listener task created. *)
uart_mole_init ==
    /\ listener = "off"
    /\ listener' = "flush"
    /\ UNCHANGED <<rx, events, cmd, pkg, active, main, tx, wire, restarts>>

(* Faulty: the driver's buffer is left as it is. *)
FlushNothing ==
    /\ listener = "flush"
    /\ listener' = "reset"
    /\ UNCHANGED <<rx, events, cmd, pkg, active, main, tx, wire, restarts>>

(* The listener begins with uart_flush_input ... *)
FlushInput ==
    /\ listener = "flush"
    /\ rx' = <<>>
    /\ listener' = "reset"
    /\ UNCHANGED <<events, cmd, pkg, active, main, tx, wire, restarts>>

(* ... and xQueueReset; a byte that comes between the two stays. *)
ResetQueue ==
    /\ listener = "reset"
    /\ events' = 0
    /\ listener' = "wait"
    /\ UNCHANGED <<rx, cmd, pkg, active, main, tx, wire, restarts>>

(* An event is received and one byte read, however many there are. *)
Receive ==
    /\ listener = "wait" /\ events > 0
    /\ events' = events - 1
    /\ IF rx = <<>>
       THEN UNCHANGED <<rx, cmd, listener>>
       ELSE rx' = Tail(rx) /\ cmd' = Head(rx) /\ listener' = "check"
    /\ UNCHANGED <<pkg, active, main, tx, wire, restarts>>

ToWait ==
    listener' = "wait" /\ cmd' = NoPkg

(* A package is waiting or being sent: the command is dropped. *)
Drop ==
    /\ listener = "check" /\ active
    /\ ToWait
    /\ UNCHANGED <<rx, events, pkg, active, main, tx, wire, restarts>>

(* Faulty: a command is taken whatever is being sent. *)
AcceptAlways ==
    /\ listener = "check"
    /\ listener' = "build"
    /\ UNCHANGED <<rx, events, cmd, pkg, active, main, tx, wire, restarts>>

Accept ==
    /\ listener = "check" /\ ~active
    /\ listener' = "build"
    /\ UNCHANGED <<rx, events, cmd, pkg, active, main, tx, wire, restarts>>

(* The package is written over pkg_buf, then its tag into pkg_tag. *)
Stage ==
    /\ listener = "build" /\ cmd.tag # "TEST"
    /\ pkg' = cmd
    /\ listener' = "add"
    /\ UNCHANGED <<rx, events, cmd, active, main, tx, wire, restarts>>

(* No measurement is fresh, or no response has been received: no answer. *)
StageNothing ==
    /\ listener = "build" /\ cmd.tag \in NeedData
    /\ ToWait
    /\ UNCHANGED <<rx, events, pkg, active, main, tx, wire, restarts>>

(* task_scheduler_add(&task_node, 0) *)
Add ==
    /\ listener = "add"
    /\ active' = TRUE
    /\ ToWait
    /\ UNCHANGED <<rx, events, pkg, main, tx, wire, restarts>>

(* The answer to TEST is written by the listener, in one call. *)
AnswerTest ==
    /\ listener = "build" /\ cmd.tag = "TEST"
    /\ tx' = tx \o <<Part(cmd, "header"), Part(cmd, "payload")>>
    /\ ToWait
    /\ UNCHANGED <<rx, events, pkg, active, main, wire, restarts>>

Listener ==
    \/ FlushInput \/ ResetQueue
    \/ Receive \/ Drop \/ Accept
    \/ Stage \/ StageNothing \/ Add \/ AnswerTest

-----------------------------------------------------------------------------
(* The scheduler calls uart_mole_work: the header is written ... *)
WorkHeader ==
    /\ main = "loop" /\ active
    /\ tx' = Append(tx, Part(pkg, "header"))
    /\ main' = "payload"
    /\ UNCHANGED <<rx, events, listener, cmd, pkg, active, wire, restarts>>

(* Faulty: the callback takes its own node out, and so does the scheduler when
   it returns. *)
WorkPayloadReleased ==
    /\ main = "payload"
    /\ tx' = Append(tx, Part(pkg, "payload"))
    /\ pkg' = NoPkg
    /\ main' = IF pkg.tag = "RESTART" THEN "drain" ELSE "done"
    /\ active' = FALSE
    /\ UNCHANGED <<rx, events, listener, cmd, wire, restarts>>

(* ... then the payload (two writes for SERVER), and the buffer is cleared. *)
WorkPayload ==
    /\ main = "payload"
    /\ tx' = Append(tx, Part(pkg, "payload"))
    /\ pkg' = NoPkg
    /\ main' = IF pkg.tag = "RESTART" THEN "drain" ELSE "done"
    /\ UNCHANGED <<rx, events, listener, cmd, active, wire, restarts>>

(* TASK_DONE: the scheduler takes the node out. *)
Release ==
    /\ main = "done"
    /\ active' = FALSE
    /\ main' = "loop"
    /\ UNCHANGED <<rx, events, listener, cmd, pkg, tx, wire, restarts>>

(* Faulty: the restart does not wait. *)
TxNotAwaited == TRUE

(* After RESTART: uart_wait_tx_done, then esp_restart, and the chip starts
   again.  The 200 ms it may wait are twice what a full transmit buffer
   takes. *)
TxDone == tx = <<>>

Restart ==
    /\ main = "drain" /\ TxDone
    /\ restarts' = restarts + 1
    /\ rx' = <<>> /\ events' = 0
    /\ listener' = "off" /\ cmd' = NoPkg
    /\ pkg' = NoPkg /\ active' = FALSE
    /\ main' = "loop"
    /\ tx' = <<>>
    /\ wire' = Append(wire, BootLog)

Main == uart_mole_init \/ WorkHeader \/ WorkPayload \/ Release \/ Restart

(* The UART hardware clocks out the next item. *)
Transmit ==
    /\ tx # <<>>
    /\ wire' = Append(wire, Head(tx))
    /\ tx' = Tail(tx)
    /\ UNCHANGED <<rx, events, listener, cmd, pkg, active, main, restarts>>

Device == Listener \/ Main \/ Transmit

(* The listener has the second highest priority of the firmware; the main loop
   calls the scheduler at least once in every 30 ms that its own work takes no
   longer; the UART is hardware. *)
DeviceFairness ==
    /\ WF_deviceVars(Listener)
    /\ WF_deviceVars(Main)
    /\ WF_deviceVars(Transmit)
=============================================================================
