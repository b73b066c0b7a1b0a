---------------------------- MODULE MCUnlocked ----------------------------
(* Instances of TaskSchedulerUnlocked: the firmware's use of the list with *)
(* one task, and with two tasks besides main.                              *)
EXTENDS TaskSchedulerUnlocked, TLC

CONSTANTS nac, http, gui,       \* task nodes
          eventLoop, lvgl       \* tasks

(* All calls come from main, between passes and from callbacks. *)
SingleAdds == [t \in Tasks |-> Nodes]
SingleRemoves == [t \in Tasks |-> Nodes]

(* The firmware's use of two of its nodes: the event loop (wifi_reconnect,
   http_client_notify_network_up) and the LVGL task (a connect or scan
   button, the disconnect button) edit the list that main walks. *)
FirmwareAdds ==
    [t \in Tasks |-> CASE t = eventLoop -> {nac, http}
                       [] t = lvgl -> {nac}
                       [] OTHER -> {}]
FirmwareRemoves == [t \in Tasks |-> IF t = lvgl THEN {http} ELSE {}]
=============================================================================
