------------------------------- MODULE MCNac -------------------------------
(* Instances of Nac for TLC. *)
EXTENDS Nac

(* A user who waits for the controller to settle, with every mixture of the
   other circumstances. *)
Patience ==
    [faults : {{}, DriverCalls},
     acts : {{"connect", "disconnect", "reset"},
             {"connect", "disconnect", "scan"}, Acts},
     patient : {TRUE}, linkDrops : BOOLEAN, timely : BOOLEAN]
    \cup
    [faults : {DriverCalls \ {"deinit"}},
     acts : {{"connect", "disconnect", "scan"}, Acts},
     patient : {TRUE}, linkDrops : {FALSE}, timely : {FALSE}]

(* Links drop by themselves; everything else goes well. *)
LostLinks ==
    [faults : {{}}, acts : {{"connect"}}, patient : {TRUE},
     linkDrops : {TRUE}, timely : {TRUE}]

(* A user who presses the connect and scan buttons at any moment. *)
Haste ==
    [faults : {{}}, acts : {{"connect", "scan"}}, patient : {FALSE},
     linkDrops : {TRUE}, timely : {TRUE}]
=============================================================================
