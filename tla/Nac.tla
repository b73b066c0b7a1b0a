-------------------------------- MODULE Nac --------------------------------
(***************************************************************************)
(* The network access controller (components/nac): a WiFi state machine    *)
(* that three FreeRTOS tasks share without a lock.                         *)
(*                                                                         *)
(*   main        runs the scheduler; wifi_connect() is the work callback   *)
(*               of the NAC node                                           *)
(*   event loop  runs wifi_event_handler() for each event of the driver    *)
(*   LVGL        calls nac_request_wifi_connect / _disconnect / _scan from *)
(*               button callbacks                                          *)
(*                                                                         *)
(* wifi_connect() and wifi_disconnect() are split where they block or call *)
(* the driver, because the other tasks run in between.  The scheduler is   *)
(* the NAC node's active flag; back-off delays are abstracted to "later".  *)
(*                                                                         *)
(* The WiFi driver is external: it associates or fails, loses the link,    *)
(* finishes scans, and posts events that the event loop delivers in order. *)
(***************************************************************************)
EXTENDS Integers, Sequences

CONSTANTS
    Networks,    \* SSIDs a user may choose
    Default,     \* REDMOLE_WIFI_SSID, used when no SSID is stored
    None,        \* an empty SSID
    MaxRetry,    \* REDMOLE_MAX_RETRY
    MaxEvents,   \* bound: events waiting before callers and driver pause
    Circumstances \* the circumstances to consider, a set of records:
                  \*   faults     driver calls that may fail without a reason
                  \*              in the model
                  \*   acts       what the user does: "connect",
                  \*              "disconnect", "scan", "reset" (to factory
                  \*              settings)
                  \*   patient    the user presses a button only when nothing
                  \*              is in progress, or else at any moment
                  \*   linkDrops  an established link may be lost
                  \*   timely     the timing the code counts on: events are
                  \*              dispatched while main sleeps, and main is
                  \*              back in its loop before the driver answers
                  \*              what wifi_connect() has started

DriverCalls == {"init", "config", "start", "connect", "scan", "records",
                "disconnect", "stop", "deinit"}
Acts == {"connect", "disconnect", "scan", "reset"}

ASSUME NacAssumption ==
    /\ MaxRetry \in Nat \ {0}
    /\ MaxEvents \in Nat \ {0}
    /\ None \notin Networks \cup {Default}
    /\ Circumstances \subseteq
          [faults : SUBSET DriverCalls, acts : SUBSET Acts, patient : BOOLEAN,
           linkDrops : BOOLEAN, timely : BOOLEAN]

VARIABLES
    given,        \* the circumstances of this run; they never change
    state,        \* wifi.state
    retry,        \* wifi.retry_count
    saved,        \* wifi.saved_to_nvs
    hwOnline,     \* wifi.hw_online
    scanComplete, \* wifi.scan_complete
    queued,       \* wifi.task_node.active
    ssid,         \* s_wifi_ssid
    nvsSsid,      \* the "wifi_ssid" key in flash
    wanted,       \* main.c s_ssid: the key as read before the main loop
    announced,    \* the rest of the firmware was told the network is up:
                  \* http_client's network_up and poll node, the SNTP client,
                  \* the WIFI_CONNECTED and SERVER_ONLINE event-group bits
    main,         \* where the main task is inside wifi_connect()
    lvgl,         \* where the LVGL task is inside wifi_disconnect()
    handlers,     \* driver: our event handlers are registered
    radio,        \* driver: esp_wifi_start() has succeeded
    scanning,     \* driver: a scan is running
    config,       \* driver: SSID given to esp_wifi_set_config()
    link,         \* driver: "none", "assoc" or "up"
    peer,         \* driver: SSID of the link
    events        \* driver: events posted and not yet dispatched

nacVars == <<state, retry, saved, hwOnline, scanComplete, queued, ssid,
             nvsSsid, wanted, announced>>
driverVars == <<handlers, radio, scanning, config, link, peer, events>>
vars == <<given, nacVars, main, lvgl, driverVars>>

States == {"IDLE", "REQUEST_CONNECT", "CONNECTING", "CONNECTED", "RECONNECT",
           "START_SCAN", "SCANNING", "ERROR"}
Events == {"STA_START", "STA_DISCONNECTED", "SCAN_DONE", "GOT_IP"}
Ssids == Networks \cup {Default, None}

TypeOK ==
    /\ given \in Circumstances
    /\ state \in States
    /\ retry \in 0 .. MaxRetry
    /\ saved \in BOOLEAN
    /\ hwOnline \in BOOLEAN
    /\ scanComplete \in BOOLEAN
    /\ queued \in BOOLEAN
    /\ ssid \in Networks \cup {None}
    /\ nvsSsid \in Networks \cup {None}
    /\ wanted \in Networks \cup {None}
    /\ announced \in BOOLEAN
    /\ main \in {"boot", "bootscan", "bootfail", "loop", "settle", "start",
                "scanning", "return"}
    /\ lvgl \in {"ui", "erased", "teardown", "deinit"}
    /\ handlers \in BOOLEAN
    /\ radio \in BOOLEAN
    /\ scanning \in BOOLEAN
    /\ config \in Ssids
    /\ link \in {"none", "assoc", "up"}
    /\ peer \in Ssids
    /\ events \in Seq(Events)

(* nac_get_wifi_status. *)
Status ==
    CASE state = "CONNECTED" -> "CONNECTED"
      [] state \in {"REQUEST_CONNECT", "CONNECTING", "RECONNECT"} -> "CONNECTING"
      [] state \in {"START_SCAN", "SCANNING"} -> "SCANNING"
      [] state = "ERROR" -> "ERROR"
      [] OTHER -> "DISCONNECTED"

(* Every task is at rest: no event waits, no request or callback is under
   way. *)
Quiet == events = <<>> /\ lvgl = "ui" /\ main = "loop"

(* Nothing the controller has begun is unfinished. *)
Settled == Quiet /\ ~queued /\ ~scanning /\ link # "assoc"

Fails(call) == call \in given.faults

(* Unless the timing is given, the other tasks run while main is between its
   last driver call and the removal of the node, and main wakes from a sleep
   before the event loop has run. *)
MainYields == given.timely => main \notin {"scanning", "return"}
Slept == given.timely => events = <<>>

-----------------------------------------------------------------------------
Init ==
    /\ given \in Circumstances
    /\ state = "IDLE" /\ retry = 0 /\ saved = FALSE
    /\ hwOnline = FALSE /\ scanComplete = FALSE /\ queued = FALSE
    /\ ssid = None
    /\ nvsSsid \in Networks \cup {None} /\ wanted = nvsSsid
    /\ announced = FALSE
    /\ main = "boot" /\ lvgl = "ui"
    /\ handlers = FALSE /\ radio = FALSE /\ scanning = FALSE
    /\ config = None /\ link = "none" /\ peer = None
    /\ events = <<>>

(***************************************************************************)
(* Driver calls.  (Names such as BringOnlineDeaf, before the definition     *)
(* they vary, are plausible slips; README.md says which property each one   *)
(* breaks.)                                                                 *)
(***************************************************************************)

(* wifi_bring_hw_online: init, register the handlers, set the mode.  A     *)
(* failing step undoes the ones before it.                                 *)
BringOnlineDeaf == hwOnline' = TRUE /\ UNCHANGED handlers

BringOnline ==
    /\ hwOnline' = TRUE
    /\ handlers' = IF hwOnline THEN handlers ELSE TRUE

(* esp_wifi_stop: the radio is off; a scan ends without an event, and a
   link that was up or coming up is reported lost. *)
StopRadio ==
    /\ radio' = FALSE
    /\ scanning' = FALSE
    /\ link' = "none" /\ peer' = None
    /\ events' = IF link = "none" THEN events
                 ELSE Append(events, "STA_DISCONNECTED")

(* esp_wifi_start: STA_START is posted when the radio was off. *)
StartRadio ==
    /\ radio' = TRUE
    /\ events' = IF radio THEN events ELSE Append(events, "STA_START")

(* wifi_bring_hw_offline finds nothing to do, or its esp_wifi_stop() fails:
   the radio stays on, and a link is left by esp_wifi_disconnect() when the
   state says that there is one. *)
StaysOnline ==
    /\ ~hwOnline \/ Fails("stop")
    /\ \/ /\ hwOnline /\ state \in {"CONNECTED", "CONNECTING"} /\ link # "none"
          /\ link' = "none" /\ peer' = None
          /\ events' = Append(events, "STA_DISCONNECTED")
       \/ /\ \/ ~hwOnline \/ state \notin {"CONNECTED", "CONNECTING"}
             \/ link = "none" \/ Fails("disconnect")
          /\ UNCHANGED <<link, peer, events>>
    /\ UNCHANGED <<handlers, radio, scanning>>

(* wifi_bring_hw_offline as main runs it when a step has failed, never while
   SCANNING.  The handlers are unregistered before esp_wifi_deinit(), which
   may fail: then hw_online stays set and nobody listens. *)
BringOffline ==
    \/ StaysOnline /\ UNCHANGED hwOnline
    \/ /\ hwOnline
       /\ StopRadio
       /\ handlers' = FALSE
       /\ \/ hwOnline' = FALSE
          \/ Fails("deinit") /\ UNCHANGED hwOnline

RestartWithoutStop ==
    /\ BringOnline
    /\ UNCHANGED <<radio, scanning, link, peer, events>>

(* What a connection attempt begins with: the radio is stopped, or the
   hardware brought online.  The result of esp_wifi_stop() is not looked at:
   when it fails the attempt goes on with the radio, and the link, as they
   are. *)
RestartHardware ==
    \/ /\ hwOnline
       /\ StopRadio
       /\ UNCHANGED <<hwOnline, handlers>>
    \/ /\ hwOnline /\ Fails("stop")
       /\ UNCHANGED <<hwOnline, handlers, radio, scanning, link, peer, events>>
    \/ /\ ~hwOnline
       /\ BringOnline
       /\ UNCHANGED <<radio, scanning, link, peer, events>>

-----------------------------------------------------------------------------
(***************************************************************************)
(* LVGL task: the public requests.                                         *)
(***************************************************************************)
CanRequest(act) ==
    /\ act \in given.acts
    /\ lvgl = "ui"
    /\ MainYields
    /\ Len(events) < MaxEvents
    /\ given.patient => Settled

nac_request_wifi_connect(n) ==
    /\ CanRequest("connect")
    /\ state \notin {"CONNECTED", "CONNECTING"}
    /\ ssid' = n
    /\ retry' = 0
    /\ saved' = FALSE
    /\ state' = "REQUEST_CONNECT"
    /\ queued' = TRUE
    /\ UNCHANGED <<hwOnline, scanComplete, nvsSsid, wanted, announced, main, lvgl,
                   driverVars>>

nac_request_wifi_scan ==
    /\ CanRequest("scan")
    /\ state \notin {"SCANNING", "START_SCAN"}
    /\ scanComplete' = FALSE
    /\ state' = "START_SCAN"
    /\ queued' = TRUE
    /\ UNCHANGED <<retry, saved, hwOnline, ssid, nvsSsid, wanted, announced, main,
                   lvgl, driverVars>>

(* app_gui_on_reset_requested erases the stored credentials, then asks for
   a disconnect. *)
FactoryReset ==
    /\ CanRequest("reset")
    /\ nvsSsid' = None
    /\ lvgl' = "erased"
    /\ UNCHANGED <<state, retry, saved, hwOnline, scanComplete, queued, ssid,
                   wanted, announced, main, driverVars>>

NotifyNobody == UNCHANGED announced

(* HTTP client, event group and SNTP client are told. *)
NotifyDown == announced' = FALSE

(* wifi_disconnect: IDLE is set first, "so the resulting disconnect event
   is ignored by the handler"; the other modules are told. *)
WifiDisconnect ==
    /\ state' = "IDLE"
    /\ NotifyDown
    /\ lvgl' = "teardown"
    /\ UNCHANGED <<retry, saved, hwOnline, scanComplete, queued, ssid,
                   nvsSsid, wanted, main, driverVars>>

nac_request_wifi_disconnect == CanRequest("disconnect") /\ WifiDisconnect

ResetDisconnect == lvgl = "erased" /\ MainYields /\ WifiDisconnect

DisconnectNoStop ==
    /\ lvgl = "teardown" /\ lvgl' = "deinit"
    /\ MainYields
    /\ UNCHANGED <<nacVars, main, driverVars>>

(* wifi_bring_hw_offline, up to esp_wifi_stop(). *)
DisconnectStop ==
    /\ lvgl = "teardown"
    /\ MainYields
    /\ \/ StaysOnline /\ lvgl' = "ui"
       \/ /\ hwOnline
          /\ StopRadio
          /\ lvgl' = "deinit"
          /\ UNCHANGED handlers
    /\ UNCHANGED <<nacVars, main, config>>

(* The handlers are unregistered; esp_wifi_deinit() may fail, and refuses a
   radio that was started meanwhile: then hw_online stays set. *)
DisconnectDeinit ==
    /\ lvgl = "deinit"
    /\ MainYields
    /\ handlers' = FALSE
    /\ \/ ~radio /\ hwOnline' = FALSE /\ state' = "IDLE"
       \/ (radio \/ Fails("deinit")) /\ UNCHANGED <<hwOnline, state>>
    /\ lvgl' = "ui"
    /\ UNCHANGED <<retry, saved, scanComplete, queued, ssid, nvsSsid,
                   wanted, announced, main, radio, scanning, config, link, peer, events>>

-----------------------------------------------------------------------------
(***************************************************************************)
(* Main task: wifi_connect(), the callback of the queued node.             *)
(***************************************************************************)
Called(s) == main = "loop" /\ queued /\ state = s

(* IDLE, CONNECTING, SCANNING, ERROR: nothing to do, TASK_DONE. *)
ConnectNothing ==
    /\ \E s \in {"IDLE", "CONNECTING", "SCANNING", "ERROR"} : Called(s)
    /\ main' = "return"
    /\ UNCHANGED <<nacVars, lvgl, driverVars>>

ConnectAlready ==
    /\ Called("CONNECTED")
    /\ retry' = 0
    /\ main' = "return"
    /\ UNCHANGED <<state, saved, hwOnline, scanComplete, queued, ssid,
                   nvsSsid, wanted, announced, lvgl, driverVars>>

(* TASK_RUN_AGAIN: the next pass calls the node in RECONNECT. *)
ConnectRequested ==
    /\ Called("REQUEST_CONNECT")
    /\ state' = "RECONNECT"
    /\ UNCHANGED <<retry, saved, hwOnline, scanComplete, queued, ssid,
                   nvsSsid, wanted, announced, main, lvgl, driverVars>>

RetriesLeft == retry < MaxRetry

ConnectGiveUp ==
    /\ Called("RECONNECT")
    /\ ~RetriesLeft
    /\ retry' = 0
    /\ state' = "ERROR"
    /\ main' = "return"
    /\ UNCHANGED <<saved, hwOnline, scanComplete, queued, ssid, nvsSsid,
                   wanted, announced, lvgl, driverVars>>

(* The radio is stopped or the hardware brought online; then main sleeps
   for 50 ms. *)
ConnectReset ==
    /\ Called("RECONNECT")
    /\ RetriesLeft
    /\ \/ RestartHardware /\ main' = "settle"
       \/ /\ ~hwOnline /\ Fails("init")
          /\ main' = "return"
          /\ UNCHANGED <<hwOnline, handlers, radio, scanning, link, peer,
                         events>>
    /\ UNCHANGED <<state, retry, saved, scanComplete, queued, ssid, nvsSsid,
                   wanted, announced, lvgl, config>>

ConfiguredOnce(s) ==
    IF config # None THEN config ELSE IF s = None THEN Default ELSE s

(* The SSID given to the driver: the one at hand or the built-in one. *)
Configured(s) == IF s = None THEN Default ELSE s

(* Credentials are loaded, the station configured; CONNECTING is set before
   esp_wifi_start(). *)
ConnectConfigure ==
    /\ main = "settle" /\ Slept
    /\ ssid' = IF ssid = None THEN nvsSsid ELSE ssid
    /\ \/ /\ hwOnline
          /\ config' = Configured(ssid')
          /\ state' = "CONNECTING"
          /\ retry' = retry + 1
          /\ main' = "start"
          /\ UNCHANGED <<hwOnline, handlers, radio, scanning, link, peer,
                         events>>
       \/ /\ ~hwOnline \/ Fails("config")
          /\ BringOffline
          /\ state' = IF hwOnline /\ ~hwOnline' THEN "IDLE" ELSE state
          /\ main' = "return"
          /\ UNCHANGED <<config, retry>>
    /\ UNCHANGED <<saved, scanComplete, queued, nvsSsid, wanted, announced, lvgl>>

ConnectStart ==
    /\ main = "start"
    /\ main' = "return"
    /\ \/ /\ hwOnline
          /\ StartRadio
          /\ UNCHANGED <<state, hwOnline, handlers, scanning, link, peer>>
       \/ /\ ~hwOnline \/ Fails("start")
          /\ BringOffline
          /\ state' = "IDLE"
    /\ UNCHANGED <<retry, saved, scanComplete, queued, ssid, nvsSsid,
                   wanted, announced, lvgl, config>>

(* START_SCAN: an error leaves the state as it is.  The driver refuses to
   scan while it associates. *)
ScanStart ==
    /\ Called("START_SCAN")
    /\ \/ /\ BringOnline
          /\ StartRadio
          /\ \/ link # "assoc" /\ scanning' = TRUE /\ main' = "scanning"
             \/ /\ link = "assoc" \/ Fails("scan")
                /\ main' = "return"
                /\ UNCHANGED scanning
       \/ /\ Fails("start")
          /\ BringOnline
          /\ main' = "return"
          /\ UNCHANGED <<scanning, radio, events>>
       \/ /\ ~hwOnline /\ Fails("init")
          /\ main' = "return"
          /\ UNCHANGED <<hwOnline, handlers, scanning, radio, events>>
    /\ UNCHANGED <<state, retry, saved, scanComplete, queued, ssid, nvsSsid,
                   wanted, announced, lvgl, config, link, peer>>

ScanStarted ==
    /\ main = "scanning"
    /\ state' = "SCANNING"
    /\ main' = "return"
    /\ UNCHANGED <<retry, saved, hwOnline, scanComplete, queued, ssid,
                   nvsSsid, wanted, announced, lvgl, driverVars>>

(* nac_connect_to_saved_wifi, called once before the main loop: a blocking
   scan, without changing the state. *)
BootNothing ==
    /\ main = "boot"
    /\ wanted = None \/ (~hwOnline /\ Fails("init"))
    /\ main' = "loop"
    /\ UNCHANGED <<nacVars, lvgl, driverVars>>

BootScan ==
    /\ main = "boot" /\ wanted # None
    /\ BringOnline
    /\ \/ /\ StartRadio
          /\ link # "assoc" /\ scanning' = TRUE /\ main' = "bootscan"
          /\ scanComplete' = FALSE
          /\ UNCHANGED state
       \/ /\ StartRadio
          /\ link = "assoc" \/ Fails("scan")
          /\ main' = "bootfail"
          /\ scanComplete' = FALSE
          /\ state' = "IDLE"
          /\ UNCHANGED scanning
       \/ /\ Fails("start")
          /\ main' = "bootfail"
          /\ state' = "IDLE"
          /\ UNCHANGED <<scanComplete, scanning, radio, events>>
    /\ UNCHANGED <<retry, saved, queued, ssid, nvsSsid, wanted, announced, lvgl,
                   config, link, peer>>

(* The scan has ended: SCAN_DONE was dispatched within half a second, or the
   records are read directly.  The saved network is in range or it is not. *)
BootFound ==
    /\ main = "bootscan" /\ ~scanning /\ Slept
    /\ ssid' = wanted
    /\ state' = "REQUEST_CONNECT"
    /\ retry' = 0 /\ saved' = FALSE /\ queued' = TRUE
    /\ main' = "loop"
    /\ UNCHANGED <<hwOnline, scanComplete, nvsSsid, wanted, announced, lvgl,
                   driverVars>>

BootOffline ==
    /\ main = "bootfail" \/ (main = "bootscan" /\ ~scanning /\ Slept)
    /\ state' = "IDLE"
    /\ BringOffline
    /\ main' = "loop"
    /\ UNCHANGED <<retry, saved, scanComplete, queued, ssid, nvsSsid,
                   wanted, announced, lvgl, config>>

(* TASK_DONE or TASK_ERROR: task_scheduler_work() removes the node. *)
ConnectReturn ==
    /\ main = "return"
    /\ queued' = FALSE
    /\ main' = "loop"
    /\ UNCHANGED <<state, retry, saved, hwOnline, scanComplete, ssid, nvsSsid,
                   wanted, announced, lvgl, driverVars>>

-----------------------------------------------------------------------------
(***************************************************************************)
(* Event loop: wifi_event_handler() for the oldest event.                  *)
(***************************************************************************)
Dispatch(e) ==
    /\ events # <<>> /\ Head(events) = e
    /\ MainYields
    /\ events' = Tail(events)
    /\ UNCHANGED <<main, lvgl, handlers, radio, scanning, config>>

(* No handler is registered: the event is dropped. *)
DropEvent ==
    /\ ~handlers
    /\ \E e \in Events : Dispatch(e)
    /\ UNCHANGED <<nacVars, link, peer>>

OnStaStartAlways ==
    /\ handlers
    /\ Dispatch("STA_START")
    /\ radio /\ link = "none"
    /\ link' = "assoc" /\ peer' = config
    /\ UNCHANGED nacVars

OnStaStart ==
    /\ handlers
    /\ Dispatch("STA_START")
    /\ \/ /\ state = "CONNECTING" /\ radio /\ link = "none"
          /\ link' = "assoc" /\ peer' = config
       \/ /\ state # "CONNECTING" \/ ~radio \/ link # "none" \/ Fails("connect")
          /\ UNCHANGED <<link, peer>>
    /\ UNCHANGED nacVars

ReconnectUnscheduled == state' = "RECONNECT" /\ UNCHANGED queued

(* wifi_reconnect: the result of task_scheduler_add() is not looked at. *)
Reconnect == state' = "RECONNECT" /\ queued' = TRUE

ActiveWhileConnecting == state \in {"CONNECTING", "RECONNECT"}

(* The states in which a lost or refused link is tried again. *)
Active == state \in {"CONNECTING", "CONNECTED", "RECONNECT"}

OnStaDisconnected ==
    /\ handlers
    /\ Dispatch("STA_DISCONNECTED")
    /\ IF Active
       THEN Reconnect
       ELSE UNCHANGED <<state, queued>>
    /\ UNCHANGED <<retry, saved, hwOnline, scanComplete, ssid, nvsSsid,
                   wanted, announced, link, peer>>

(* wifi_scan_done: IDLE whatever the state was, even when the records
   cannot be read. *)
OnScanDone ==
    /\ handlers
    /\ Dispatch("SCAN_DONE")
    /\ state' = "IDLE"
    /\ \/ scanComplete' = TRUE
       \/ Fails("records") /\ UNCHANGED scanComplete
    /\ UNCHANGED <<retry, saved, hwOnline, queued, ssid, nvsSsid, wanted, announced,
                   link, peer>>

OnGotIp ==
    /\ handlers
    /\ Dispatch("GOT_IP")
    /\ state' = "CONNECTED"
    /\ retry' = 0
    /\ announced' = TRUE
    /\ IF ~saved /\ ssid # None
       THEN nvsSsid' = ssid /\ saved' = TRUE
       ELSE UNCHANGED <<nvsSsid, saved>>
    /\ UNCHANGED <<hwOnline, scanComplete, queued, ssid, wanted, link, peer>>

-----------------------------------------------------------------------------
(***************************************************************************)
(* The driver's own steps.                                                 *)
(***************************************************************************)
Post(e) ==
    /\ MainYields
    /\ Len(events) < MaxEvents
    /\ events' = Append(events, e)
    /\ UNCHANGED <<nacVars, main, lvgl, handlers, radio, config>>

LinkUp == /\ link = "assoc" /\ link' = "up"
          /\ Post("GOT_IP")
          /\ UNCHANGED <<peer, scanning>>

LinkRefused == /\ link = "assoc" /\ link' = "none" /\ peer' = None
               /\ Post("STA_DISCONNECTED")
               /\ UNCHANGED scanning

LinkLost == /\ given.linkDrops
            /\ link = "up" /\ link' = "none" /\ peer' = None
            /\ Post("STA_DISCONNECTED")
            /\ UNCHANGED scanning

ScanFinished == /\ scanning /\ scanning' = FALSE
                /\ Post("SCAN_DONE")
                /\ UNCHANGED <<link, peer>>

-----------------------------------------------------------------------------
User == \/ \E n \in Networks : nac_request_wifi_connect(n)
        \/ nac_request_wifi_scan
        \/ FactoryReset
        \/ nac_request_wifi_disconnect

Lvgl == ResetDisconnect \/ DisconnectStop \/ DisconnectDeinit

Connect == BootNothing \/ BootScan \/ BootFound \/ BootOffline
           \/ ConnectNothing \/ ConnectAlready \/ ConnectRequested
           \/ ConnectGiveUp \/ ConnectReset \/ ConnectConfigure
           \/ ConnectStart \/ ScanStart \/ ScanStarted \/ ConnectReturn

EventLoop == DropEvent \/ OnStaStart \/ OnStaDisconnected \/ OnScanDone
             \/ OnGotIp

Driver == LinkUp \/ LinkRefused \/ LinkLost \/ ScanFinished

Next ==
    /\ User \/ Lvgl \/ Connect \/ EventLoop \/ Driver
    /\ UNCHANGED given

(* Every task keeps running; the driver answers an association and ends a
   scan.  Users owe nothing, links need not drop. *)
Fairness ==
    /\ WF_vars(Lvgl /\ UNCHANGED given)
    /\ WF_vars(Connect /\ UNCHANGED given)
    /\ WF_vars(EventLoop /\ UNCHANGED given)
    /\ WF_vars((LinkUp \/ LinkRefused) /\ UNCHANGED given)
    /\ WF_vars(ScanFinished /\ UNCHANGED given)

Spec == Init /\ [][Next]_vars
FairSpec == Spec /\ Fairness

-----------------------------------------------------------------------------
(* Properties.  Most hold under some circumstances only, and say which.     *)

Faultless == given.faults = {}

(* Nothing the user does crosses something else that is under way. *)
Undisturbed == given.patient /\ ("reset" \in given.acts => ~given.linkDrops)

(* A state that waits for the main task has the node in the scheduler.  A
   request or a retry whose node is gone would never be served, because
   nothing else runs wifi_connect(). *)
WorkHasWorker ==
    Faultless /\ given.patient /\ given.timely
    /\ state \in {"REQUEST_CONNECT", "RECONNECT", "START_SCAN"} => queued

(* "IP address acquired and link is up" (nac.h:66), once the events that are
   under way have been handled, whatever driver call fails: with the timing
   given any of them, otherwise any but esp_wifi_deinit(), whose failure leaves
   the controller in CONNECTED with nobody listening when an address arrives
   late, between two steps of an attempt that is then given up. *)
ConnectedMeansLink ==
    Undisturbed /\ (given.timely \/ ~Fails("deinit"))
    /\ state = "CONNECTED" /\ Quiet => link = "up"

(* "Called by the network access controller on WiFi disconnect"
   (http_client.h:72), "Event group bit: WiFi is connected"
   (uart_mole.h:57): the HTTP client polls, and the bits are set, only
   while there is a link. *)
NetworkUpMeansLink == announced /\ Quiet => link = "up"

(* That is so as long as the link is only ended on request, no scan makes the
   controller forget it, and late events do not come on top of failing driver
   calls.  (A lost link is announced to nobody: nac.c:624.) *)
EndedOnRequest ==
    given.patient /\ (Faultless \/ given.timely)
    /\ ~given.linkDrops /\ "scan" \notin given.acts
        => NetworkUpMeansLink

(* "Not connected and not scanning" (nac.h:64), unless a scan has made the
   controller forget that it is connected. *)
DisconnectedMeansNoLink ==
    Faultless /\ given.patient /\ "scan" \notin given.acts
    /\ Status = "DISCONNECTED" /\ Quiet => link # "up"

(* "Association or DHCP in progress" (nac.h:65) ends: in CONNECTED, in
   ERROR after REDMOLE_MAX_RETRY attempts, or by another request. *)
ConnectingEnds ==
    Faultless /\ Undisturbed /\ given.timely /\ Status = "CONNECTING"
        ~> Status # "CONNECTING"

(* "Poll ... nac_get_wifi_status() to determine when the scan finishes"
   (nac.h:117): a scan that was requested while nothing was in progress ends.
   (One requested during an attempt need not: nac.c:504.) *)
LoneScanEnds ==
    Faultless /\ Undisturbed /\ given.timely /\ Status = "SCANNING"
        ~> Status # "SCANNING"

NewCreds == nvsSsid' \notin {nvsSsid, None}

(* "Credentials are persisted to NVS on successful connection" (README.md:55
   of nac): those of the network the driver was told to join, when the user
   waits for one attempt to end before asking for another network, whatever
   fails and however the tasks are timed.  (A later request may put its own in
   their place: nac.c:672.) *)
OneRequestCredsProven == [][given.patient /\ NewCreds => nvsSsid' = config]_vars

(* Credentials are stored at the end of a connection attempt and by nothing
   else: not when a scan or another start of the radio makes the station
   join, and not by an address that arrives when nobody asks any more. *)
StoredByAttempt ==
    [][Faultless /\ given.patient /\ given.timely /\ NewCreds
          => state = "CONNECTING"]_vars

=============================================================================
