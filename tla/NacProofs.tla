----------------------------- MODULE NacProofs -----------------------------
(***************************************************************************)
(* Proofs about the network access controller, for any number of networks, *)
(* retries and waiting events, and under any set of circumstances.         *)
(*                                                                         *)
(* Typed, Hardware and Patient hold of every state and carry the rest.     *)
(* Each property then has an inductive invariant of its own, which says    *)
(* what may wait in the event queue while the controller is in a state:    *)
(*   Connection     the last event about a link that is gone says so; with *)
(*                  the timing given (InTime) a start of the radio finds   *)
(*                  no event waiting, and the loss of a link is the last   *)
(*   Disconnection  in IDLE the news of an address is still to come        *)
(*   Service        a state that waits for main has its node               *)
(*   Unsaved        an association belongs to the attempt under way        *)
(*   Endings        no second start of the radio finds the controller      *)
(*                  connecting while the end of a link waits               *)
(*   Keeping        with the timing given, what a failing driver call does *)
(*                  to a link happens before the link is announced         *)
(***************************************************************************)
EXTENDS Nac, SequenceTheorems, TLAPS

-----------------------------------------------------------------------------
(* Waiting events. *)
Has(s, e) == \E i \in 1 .. Len(s) : s[i] = e

LEMMA Posting ==
    ASSUME NEW s \in Seq(Events), NEW e \in Events
    PROVE  /\ Append(s, e) \in Seq(Events) /\ Len(s) \in Nat
           /\ Len(Append(s, e)) = Len(s) + 1
           /\ \A i \in 1 .. Len(s) : Append(s, e)[i] = s[i]
           /\ Append(s, e)[Len(s) + 1] = e
BY AppendProperties

LEMMA Taking ==
    ASSUME NEW s \in Seq(Events), s # <<>>
    PROVE  /\ Tail(s) \in Seq(Events) /\ Len(s) \in Nat \ {0}
           /\ Len(Tail(s)) = Len(s) - 1
           /\ \A i \in 1 .. Len(s) - 1 : Tail(s)[i] = s[i + 1]
           /\ s[1] = Head(s) /\ Head(s) \in Events
BY HeadTailProperties, EmptySeq

LEMMA HasPosted ==
    ASSUME NEW s \in Seq(Events), NEW e \in Events, NEW f
    PROVE  Has(Append(s, e), f) <=> Has(s, f) \/ f = e
BY Posting DEF Has

LEMMA HasTaken ==
    ASSUME NEW s \in Seq(Events), s # <<>>, NEW f
    PROVE  Has(s, f) <=> Has(Tail(s), f) \/ f = Head(s)
<1>1. ASSUME Has(s, f), f # Head(s) PROVE Has(Tail(s), f)
  <2>1. PICK i \in 1 .. Len(s) : s[i] = f BY <1>1 DEF Has
  <2>2. i # 1 BY <2>1, <1>1, Taking
  <2>3. i - 1 \in 1 .. Len(Tail(s)) /\ Tail(s)[i - 1] = s[i]
    BY <2>1, <2>2, Taking
  <2> QED BY <2>1, <2>3 DEF Has
<1>2. ASSUME Has(Tail(s), f) PROVE Has(s, f)
  <2>1. PICK i \in 1 .. Len(Tail(s)) : Tail(s)[i] = f BY <1>2 DEF Has
  <2>2. i + 1 \in 1 .. Len(s) /\ s[i + 1] = f BY <2>1, Taking
  <2> QED BY <2>2 DEF Has
<1>3. f = Head(s) => Has(s, f) BY Taking DEF Has
<1> QED BY <1>1, <1>2, <1>3

LEMMA HasNone == \A e : ~Has(<<>>, e)
BY DEF Has

-----------------------------------------------------------------------------
(* Types. *)
(* The queue is left alone or takes one event at its end. *)
Appended == events' = events \/ \E e \in Events : events' = Append(events, e)

(* There is no link any more; the end of one is reported. *)
Unlinked ==
    /\ link' = "none" /\ peer' = None
    /\ events' = IF link = "none" THEN events ELSE Append(events, "STA_DISCONNECTED")

LEMMA StayingOnline ==
    ASSUME StaysOnline
    PROVE  /\ UNCHANGED <<handlers, radio, scanning>>
           /\ Unlinked \/ UNCHANGED <<link, peer, events>>
BY DEF StaysOnline, Unlinked

LEMMA GoingOffline ==
    ASSUME BringOffline
    PROVE  \/ /\ UNCHANGED <<hwOnline, handlers, radio, scanning>>
              /\ Unlinked \/ UNCHANGED <<link, peer, events>>
           \/ /\ Unlinked /\ ~radio' /\ ~scanning' /\ ~handlers'
              /\ radio' = FALSE /\ scanning' = FALSE /\ handlers' = FALSE
              /\ hwOnline' = FALSE \/ (Fails("deinit") /\ hwOnline' = hwOnline)
BY StayingOnline DEF BringOffline, StopRadio, Unlinked

(* Without failures the radio is stopped and the driver taken down whenever
   it was online. *)
LEMMA FaultlessDriver ==
    ASSUME Faultless
    PROVE  /\ \A call : ~Fails(call)
           /\ "stop" \notin given.faults
           /\ StaysOnline =>
                 /\ ~hwOnline
                 /\ UNCHANGED <<handlers, radio, scanning, link, peer, events>>
           /\ BringOffline =>
                 \/ /\ ~hwOnline
                    /\ UNCHANGED <<hwOnline, handlers, radio, scanning, link, peer,
                                   events>>
                 \/ hwOnline /\ StopRadio /\ handlers' = FALSE /\ hwOnline' = FALSE
           /\ RestartHardware =>
                 \/ hwOnline /\ StopRadio /\ UNCHANGED <<hwOnline, handlers>>
                 \/ /\ ~hwOnline /\ BringOnline
                    /\ UNCHANGED <<radio, scanning, link, peer, events>>
<1>1. \A call : ~Fails(call) BY DEF Fails, Faultless
<1>2. "stop" \notin given.faults BY DEF Faultless
<1>3. StaysOnline => /\ ~hwOnline
                     /\ UNCHANGED <<handlers, radio, scanning, link, peer, events>>
  BY <1>1 DEF StaysOnline
<1> QED BY <1>1, <1>2, <1>3 DEF BringOffline, RestartHardware

LEMMA EventsChange ==
    ASSUME Next
    PROVE  \/ events' = events
           \/ \E e \in Events : events' = Append(events, e)
           \/ events # <<>> /\ events' = Tail(events)
<1>0. ASSUME Unlinked PROVE Appended
  BY <1>0 DEF Unlinked, Events, Appended
<1>1. ASSUME StopRadio PROVE Appended
  BY <1>1 DEF StopRadio, Events, Appended
<1>2. ASSUME StartRadio PROVE Appended
  BY <1>2 DEF StartRadio, Events, Appended
<1>3. ASSUME NEW e \in Events, Post(e) PROVE \E f \in Events : events' = Append(events, f)
  BY <1>3 DEF Post
<1>4. ASSUME NEW e \in Events, Dispatch(e) PROVE events # <<>> /\ events' = Tail(events)
  BY <1>4 DEF Dispatch
<1>5. CASE User
  BY <1>5 DEF User, nac_request_wifi_connect, nac_request_wifi_scan, FactoryReset,
     nac_request_wifi_disconnect, WifiDisconnect, driverVars
<1>6. CASE Lvgl
  BY <1>6, <1>0, <1>1, StayingOnline DEF Lvgl, Appended, ResetDisconnect,
     WifiDisconnect, DisconnectStop, DisconnectDeinit, driverVars
<1>7. CASE Connect
  <2>1. ASSUME BringOffline PROVE Appended
    BY <2>1, <1>0, GoingOffline DEF Appended
  <2>2. ASSUME RestartHardware PROVE Appended
    BY <2>2, <1>1 DEF RestartHardware, Appended
  <2> QED
    BY <1>7, <1>2, <2>1, <2>2 DEF Connect, BootNothing, BootScan, BootFound,
       BootOffline,
       ConnectNothing, ConnectAlready, ConnectRequested, ConnectGiveUp, ConnectReset,
       ConnectConfigure, ConnectStart, ScanStart, ScanStarted, ConnectReturn,
       driverVars, Appended
<1>8. CASE EventLoop
  BY <1>8, <1>4 DEF EventLoop, DropEvent, OnStaStart, OnStaDisconnected,
     OnScanDone, OnGotIp, Events
<1>9. CASE Driver
  BY <1>9, <1>3 DEF Driver, LinkUp, LinkRefused, LinkLost, ScanFinished, Events
<1> QED BY <1>5, <1>6, <1>7, <1>8, <1>9 DEF Next

(* The parts of the type invariant; main configures an attempt only after it
   has found retries left. *)
FlagsTyped ==
    /\ saved \in BOOLEAN /\ hwOnline \in BOOLEAN /\ scanComplete \in BOOLEAN
    /\ queued \in BOOLEAN /\ announced \in BOOLEAN /\ handlers \in BOOLEAN
    /\ radio \in BOOLEAN /\ scanning \in BOOLEAN
PlacesTyped ==
    /\ state \in States
    /\ main \in {"boot", "bootscan", "bootfail", "loop", "settle", "start",
                "scanning", "return"}
    /\ lvgl \in {"ui", "erased", "teardown", "deinit"}
    /\ link \in {"none", "assoc", "up"}
SsidsTyped ==
    /\ ssid \in Networks \cup {None} /\ nvsSsid \in Networks \cup {None}
    /\ wanted \in Networks \cup {None}
    /\ config \in Ssids /\ peer \in Ssids
RetriesTyped == retry \in 0 .. MaxRetry /\ (main = "settle" => retry < MaxRetry)
Typed == /\ given \in Circumstances /\ events \in Seq(Events)
         /\ FlagsTyped /\ PlacesTyped /\ SsidsTyped /\ RetriesTyped

LEMMA TypedIsTypeOK == Typed => TypeOK
BY DEF Typed, TypeOK, FlagsTyped, PlacesTyped, SsidsTyped, RetriesTyped

LEMMA TypedInit == Init => Typed
<1> SUFFICES ASSUME Init PROVE Typed
  OBVIOUS
<1>1. given \in Circumstances /\ events \in Seq(Events) BY DEF Init
<1>2. FlagsTyped BY DEF Init, FlagsTyped
<1>3. PlacesTyped BY DEF Init, PlacesTyped, States
<1>4. SsidsTyped BY DEF Init, SsidsTyped, Ssids
<1>5. RetriesTyped BY NacAssumption DEF Init, RetriesTyped
<1> QED BY <1>1, <1>2, <1>3, <1>4, <1>5 DEF Typed

LEMMA TypedStep == Typed /\ [Next]_vars => Typed'
<1> SUFFICES ASSUME Typed, [Next]_vars PROVE Typed'
  OBVIOUS
<1>1. CASE Next
  <2>1. given' \in Circumstances BY <1>1 DEF Typed, Next
  <2>2. events' \in Seq(Events)
    <3>1. events \in Seq(Events) BY DEF Typed
    <3>2. CASE events' = events BY <3>1, <3>2
    <3>3. CASE \E e \in Events : events' = Append(events, e) BY <3>1, <3>3, Posting
    <3>4. CASE events # <<>> /\ events' = Tail(events) BY <3>1, <3>4, Taking
    <3> QED BY <1>1, <3>2, <3>3, <3>4, EventsChange
  <2>3. FlagsTyped'
    <3>1. FlagsTyped BY DEF Typed
    <3>2. CASE User
      BY <3>1, <3>2 DEF FlagsTyped, User, nac_request_wifi_connect,
         nac_request_wifi_scan, FactoryReset,
         nac_request_wifi_disconnect, WifiDisconnect, NotifyDown, nacVars, driverVars
    <3>3. CASE Lvgl
      BY <3>1, <3>3, StayingOnline DEF FlagsTyped, Lvgl, ResetDisconnect,
         WifiDisconnect, NotifyDown, DisconnectStop,
         DisconnectDeinit, StopRadio, nacVars, driverVars
    <3>4. CASE Connect
      <4>1. CASE BootNothing \/ BootScan \/ BootFound \/ BootOffline
        BY <3>1, <4>1, GoingOffline DEF FlagsTyped, BootNothing, BootScan, BootFound,
           BootOffline, StartRadio, BringOnline, nacVars, driverVars
      <4>2. CASE ConnectNothing \/ ConnectAlready \/ ConnectRequested \/ ConnectGiveUp
                  \/ ConnectReturn
        BY <3>1, <4>2 DEF FlagsTyped, ConnectNothing, ConnectAlready,
           ConnectRequested,
           ConnectGiveUp, ConnectReturn, Called, nacVars, driverVars
      <4>3. CASE ConnectReset \/ ConnectConfigure \/ ConnectStart
        BY <3>1, <4>3, GoingOffline DEF FlagsTyped, ConnectReset, ConnectConfigure,
           ConnectStart, Called, RetriesLeft,
           StartRadio, StopRadio, BringOnline, RestartHardware, driverVars
      <4>4. CASE ScanStart \/ ScanStarted
        BY <3>1, <4>4 DEF FlagsTyped, ScanStart, ScanStarted, Called, StartRadio,
           BringOnline, driverVars
      <4> QED BY <3>4, <4>1, <4>2, <4>3, <4>4 DEF Connect
    <3>5. CASE EventLoop
      BY <3>1, <3>5 DEF FlagsTyped, EventLoop, DropEvent, OnStaStart,
         OnStaDisconnected, OnScanDone, OnGotIp,
         Dispatch, Reconnect, nacVars, driverVars
    <3>6. CASE Driver
      BY <3>1, <3>6 DEF FlagsTyped, Driver, LinkUp, LinkRefused, LinkLost,
         ScanFinished, Post, nacVars, driverVars
    <3> QED BY <1>1, <3>2, <3>3, <3>4, <3>5, <3>6 DEF Next
  <2>4. PlacesTyped'
    <3>1. PlacesTyped BY DEF Typed
    <3>2. CASE User
      BY <3>1, <3>2 DEF PlacesTyped, States, User, nac_request_wifi_connect,
         nac_request_wifi_scan, FactoryReset,
         nac_request_wifi_disconnect, WifiDisconnect, NotifyDown, nacVars, driverVars
    <3>3. CASE Lvgl
      BY <3>1, <3>3, StayingOnline DEF PlacesTyped, States, Lvgl, ResetDisconnect,
         WifiDisconnect, NotifyDown, DisconnectStop,
         DisconnectDeinit, StopRadio, Unlinked, nacVars, driverVars
    <3>4. CASE Connect
      BY <3>1, <3>4, GoingOffline DEF PlacesTyped, States, Connect, BootNothing,
         BootScan, BootFound, BootOffline, ConnectNothing,
         ConnectAlready, ConnectRequested, ConnectGiveUp, ConnectReset, ConnectConfigure,
         ConnectStart, ScanStart, ScanStarted, ConnectReturn, Called, RetriesLeft, Configured,
         StartRadio, StopRadio, BringOnline, RestartHardware, Unlinked, nacVars, driverVars
    <3>5. CASE EventLoop
      BY <3>1, <3>5 DEF PlacesTyped, States, EventLoop, DropEvent, OnStaStart,
         OnStaDisconnected, OnScanDone, OnGotIp,
         Dispatch, Reconnect, nacVars, driverVars
    <3>6. CASE Driver
      BY <3>1, <3>6 DEF PlacesTyped, States, Driver, LinkUp, LinkRefused,
         LinkLost, ScanFinished, Post, nacVars, driverVars
    <3> QED BY <1>1, <3>2, <3>3, <3>4, <3>5, <3>6 DEF Next
  <2>5. SsidsTyped'
    <3>1. SsidsTyped BY DEF Typed
    <3>2. CASE User
      BY <3>1, <3>2 DEF SsidsTyped, Ssids, User, nac_request_wifi_connect,
         nac_request_wifi_scan, FactoryReset,
         nac_request_wifi_disconnect, WifiDisconnect, NotifyDown, nacVars, driverVars
    <3>3. CASE Lvgl
      BY <3>1, <3>3, StayingOnline DEF SsidsTyped, Ssids, Lvgl, ResetDisconnect,
         WifiDisconnect, NotifyDown, DisconnectStop,
         DisconnectDeinit, StopRadio, Unlinked, nacVars, driverVars
    <3>4. CASE Connect
      BY <3>1, <3>4, GoingOffline DEF SsidsTyped, Ssids, Connect, BootNothing,
         BootScan, BootFound, BootOffline, ConnectNothing,
         ConnectAlready, ConnectRequested, ConnectGiveUp, ConnectReset, ConnectConfigure,
         ConnectStart, ScanStart, ScanStarted, ConnectReturn, Called, RetriesLeft, Configured,
         StartRadio, StopRadio, BringOnline, RestartHardware, Unlinked, nacVars, driverVars
    <3>5. CASE EventLoop
      BY <3>1, <3>5 DEF SsidsTyped, Ssids, EventLoop, DropEvent, OnStaStart,
         OnStaDisconnected, OnScanDone, OnGotIp,
         Dispatch, Reconnect, nacVars, driverVars
    <3>6. CASE Driver
      BY <3>1, <3>6 DEF SsidsTyped, Ssids, Driver, LinkUp, LinkRefused, LinkLost,
         ScanFinished, Post, nacVars, driverVars
    <3> QED BY <1>1, <3>2, <3>3, <3>4, <3>5, <3>6 DEF Next
  <2>6. RetriesTyped'
    <3>1. RetriesTyped BY DEF Typed
    <3> USE NacAssumption
    <3>2. CASE User
      BY <3>1, <3>2 DEF RetriesTyped, User, nac_request_wifi_connect,
         nac_request_wifi_scan, FactoryReset,
         nac_request_wifi_disconnect, WifiDisconnect, NotifyDown, nacVars, driverVars
    <3>3. CASE Lvgl
      BY <3>1, <3>3 DEF RetriesTyped, Lvgl, ResetDisconnect, WifiDisconnect,
         NotifyDown, DisconnectStop,
         DisconnectDeinit, StopRadio, nacVars, driverVars
    <3>4. CASE Connect
      <4>1. CASE ConnectReset
        BY <3>1, <4>1 DEF RetriesTyped, ConnectReset, RetriesLeft
      <4>2. CASE ConnectConfigure
        BY <3>1, <4>2 DEF RetriesTyped, ConnectConfigure
      <4>3. CASE BootFound \/ ConnectAlready \/ ConnectGiveUp
        BY <3>1, <4>3 DEF RetriesTyped, BootFound, ConnectAlready, ConnectGiveUp
      <4>4. CASE BootNothing \/ BootScan \/ BootOffline \/ ScanStart \/ ScanStarted
        BY <3>1, <4>4 DEF RetriesTyped, BootNothing, BootScan, BootOffline, ScanStart,
           ScanStarted, nacVars
      <4>5. CASE ConnectNothing \/ ConnectRequested \/ ConnectStart \/ ConnectReturn
        BY <3>1, <4>5 DEF RetriesTyped, ConnectNothing, ConnectRequested,
           ConnectStart,
           ConnectReturn, Called, nacVars
      <4> QED BY <3>4, <4>1, <4>2, <4>3, <4>4, <4>5 DEF Connect
    <3>5. CASE EventLoop
      BY <3>1, <3>5 DEF RetriesTyped, EventLoop, DropEvent, OnStaStart,
         OnStaDisconnected, OnScanDone, OnGotIp,
         Dispatch, Reconnect, nacVars, driverVars
    <3>6. CASE Driver
      BY <3>1, <3>6 DEF RetriesTyped, Driver, LinkUp, LinkRefused, LinkLost,
         ScanFinished, Post, nacVars, driverVars
    <3> QED BY <1>1, <3>2, <3>3, <3>4, <3>5, <3>6 DEF Next
  <2> QED BY <2>1, <2>2, <2>3, <2>4, <2>5, <2>6 DEF Typed
<1>2. CASE UNCHANGED vars
  BY <1>2 DEF Typed, FlagsTyped, PlacesTyped, SsidsTyped, RetriesTyped, vars,
     nacVars, driverVars
<1> QED BY <1>1, <1>2

(* Type correctness of the controller, for any number of networks, retries
   and waiting events and any circumstances. *)
THEOREM NacTypeCorrect == Spec => []TypeOK
<1> QED BY TypedInit, TypedStep, TypedIsTypeOK, PTL DEF Spec

-----------------------------------------------------------------------------
(* What is off stays off: without the driver there is no radio, without the
   radio no link and no scan, and an attempt begins with the radio off. *)
Hardware ==
    /\ ~hwOnline => ~radio /\ ~handlers
    /\ ~radio => link = "none" /\ ~scanning
    /\ main \in {"settle", "start"} => ~radio \/ "stop" \in given.faults
    /\ main = "settle" => state # "CONNECTING"
    /\ main = "boot" => ~hwOnline /\ events = <<>>

LEMMA HardwareNext ==
    ASSUME Typed, Hardware, Next
    PROVE  Hardware'
<1> FlagsTyped /\ given' = given BY DEF Typed, Next
<1>0. ASSUME BringOffline, main' \in {"loop", "return"} PROVE Hardware'
  <2>1. CASE UNCHANGED <<hwOnline, handlers, radio, scanning>>
    <3>1. link' \in {link, "none"} BY <1>0, GoingOffline DEF Unlinked
    <3> QED BY <1>0, <2>1, <3>1 DEF Hardware, FlagsTyped
  <2>2. CASE Unlinked /\ ~radio' /\ ~scanning' /\ ~handlers'
    BY <1>0, <2>2 DEF Hardware, Unlinked
  <2> QED BY <1>0, <2>1, <2>2, GoingOffline
<1>1. CASE (\E n \in Networks : nac_request_wifi_connect(n)) \/
   nac_request_wifi_scan \/ FactoryReset
  BY <1>1 DEF Hardware, FlagsTyped, nac_request_wifi_connect,
     nac_request_wifi_scan, FactoryReset, CanRequest, nacVars, driverVars
<1>2. CASE nac_request_wifi_disconnect \/ ResetDisconnect
  BY <1>2 DEF Hardware, FlagsTyped, nac_request_wifi_disconnect,
     ResetDisconnect, CanRequest, WifiDisconnect, NotifyDown, nacVars,
     driverVars
<1>3. CASE DisconnectStop
  BY <1>3, StayingOnline DEF Hardware, FlagsTyped, DisconnectStop, StopRadio,
     Unlinked, nacVars, driverVars
<1>4. CASE DisconnectDeinit
  BY <1>4 DEF Hardware, FlagsTyped, DisconnectDeinit, nacVars, driverVars
<1>5. CASE BootNothing \/ BootFound
  BY <1>5 DEF Hardware, FlagsTyped, BootNothing, BootFound, Fails, nacVars,
     driverVars
<1>6. CASE BootScan
  BY <1>6 DEF Hardware, FlagsTyped, BootScan, BringOnline, StartRadio,
     nacVars, driverVars
<1>7. CASE BootOffline
  BY <1>7, <1>0 DEF BootOffline
<1>8. CASE ConnectNothing \/ ConnectAlready \/ ConnectRequested \/
   ConnectGiveUp
  BY <1>8 DEF Hardware, FlagsTyped, ConnectNothing, ConnectAlready,
     ConnectRequested, ConnectGiveUp, Called, RetriesLeft, nacVars, driverVars
<1>9. CASE ConnectReset
  <2>1. main' \in {"settle", "return"} /\ state' = "RECONNECT"
    BY <1>9 DEF ConnectReset, Called
  <2>2. CASE hwOnline /\ StopRadio /\ UNCHANGED <<hwOnline, handlers>>
    BY <2>1, <2>2 DEF Hardware, FlagsTyped, StopRadio
  <2>5. CASE /\ hwOnline /\ Fails("stop")
             /\ UNCHANGED <<hwOnline, handlers, radio, scanning, link, events>>
    BY <2>1, <2>5 DEF Hardware, FlagsTyped, Fails
  <2>3. CASE ~hwOnline /\ BringOnline /\ UNCHANGED <<radio, scanning, link, events>>
    BY <2>1, <2>3 DEF Hardware, FlagsTyped, BringOnline
  <2>4. CASE /\ UNCHANGED <<hwOnline, handlers, radio, scanning, link, events>>
             /\ main' = "return"
    BY <2>1, <2>4 DEF Hardware, FlagsTyped
  <2> QED BY <1>9, <2>2, <2>3, <2>4, <2>5 DEF ConnectReset, RestartHardware
<1>10. CASE ConnectConfigure
  <2>1. CASE main' = "start"
    BY <1>10, <2>1 DEF Hardware, FlagsTyped, ConnectConfigure
  <2> QED BY <1>10, <1>0, <2>1 DEF ConnectConfigure
<1>11. CASE ConnectStart
  <2>1. CASE StartRadio /\ hwOnline /\ UNCHANGED <<hwOnline, handlers, scanning, link>>
    BY <1>11, <2>1 DEF Hardware, FlagsTyped, ConnectStart, StartRadio
  <2> QED BY <1>11, <1>0, <2>1 DEF ConnectStart
<1>12. CASE ScanStart
  <2>1. main' \in {"scanning", "return"} /\ link' = link
    BY <1>12 DEF ScanStart
  <2>2. CASE BringOnline /\ StartRadio
    BY <2>1, <2>2 DEF Hardware, FlagsTyped, StartRadio, BringOnline
  <2>3. CASE BringOnline /\ UNCHANGED <<scanning, radio, events>>
    BY <2>1, <2>3 DEF Hardware, FlagsTyped, BringOnline
  <2>4. CASE UNCHANGED <<hwOnline, handlers, scanning, radio, events>>
    BY <2>1, <2>4 DEF Hardware, FlagsTyped
  <2> QED BY <1>12, <2>2, <2>3, <2>4 DEF ScanStart
<1>13. CASE ScanStarted \/ ConnectReturn
  BY <1>13 DEF Hardware, FlagsTyped, ScanStarted, ConnectReturn, nacVars,
     driverVars
<1>14. CASE DropEvent \/ OnStaStart
  BY <1>14 DEF Hardware, FlagsTyped, DropEvent, OnStaStart, Dispatch, nacVars,
     driverVars
<1>15. CASE OnStaDisconnected \/ OnScanDone \/ OnGotIp
  BY <1>15 DEF Hardware, FlagsTyped, OnStaDisconnected, OnScanDone, OnGotIp,
     Dispatch, Active, Reconnect, nacVars, driverVars
<1>16. CASE LinkUp \/ LinkRefused \/ LinkLost \/ ScanFinished
  BY <1>16 DEF Hardware, FlagsTyped, LinkUp, LinkRefused, LinkLost,
     ScanFinished, Post, nacVars, driverVars
<1> QED BY <1>1, <1>2, <1>3, <1>4, <1>5, <1>6, <1>7, <1>8, <1>9, <1>10, <1>11,
   <1>12, <1>13, <1>14, <1>15, <1>16 DEF Next, User, Lvgl, Connect, EventLoop,
   Driver

-----------------------------------------------------------------------------
(* What the steps of the driver and of the event loop do to the waiting
   events. *)
LEMMA UnlinkedHas ==
    ASSUME Typed, Unlinked
    PROVE  \A f : Has(events', f) <=>
                    Has(events, f) \/ (f = "STA_DISCONNECTED" /\ link # "none")
<1>1. "STA_DISCONNECTED" \in Events BY DEF Events
<1> QED BY <1>1, HasPosted DEF Unlinked, Typed

LEMMA StopHas ==
    ASSUME Typed, StopRadio
    PROVE  \A f : Has(events', f) <=>
                    Has(events, f) \/ (f = "STA_DISCONNECTED" /\ link # "none")
BY UnlinkedHas DEF StopRadio, Unlinked

LEMMA FaultlessOffline ==
    ASSUME Typed, Hardware, Faultless, BringOffline
    PROVE  /\ link' = "none" /\ ~scanning' /\ ~radio' /\ ~handlers' /\ ~hwOnline'
           /\ \A f : Has(events', f) <=>
                  Has(events, f) \/ (f = "STA_DISCONNECTED" /\ link # "none")
           /\ link = "none" => events' = events
<1>1. CASE ~hwOnline /\ UNCHANGED <<hwOnline, handlers, radio, scanning, link, peer, events>>
  BY <1>1 DEF Hardware
<1>2. CASE hwOnline /\ StopRadio /\ handlers' = FALSE /\ hwOnline' = FALSE
  <2>1. /\ link' = "none" /\ ~scanning' /\ ~radio' /\ ~handlers' /\ ~hwOnline'
        /\ link = "none" => events' = events
    BY <1>2 DEF StopRadio
  <2> QED BY <1>2, <2>1, StopHas
<1> QED BY <1>1, <1>2, FaultlessDriver

LEMMA FaultlessRestart ==
    ASSUME Typed, Hardware, Faultless, RestartHardware
    PROVE  /\ link' = "none" /\ ~scanning' /\ ~radio' /\ hwOnline'
           /\ handlers => handlers'
           /\ \A f : Has(events', f) <=>
                  Has(events, f) \/ (f = "STA_DISCONNECTED" /\ link # "none")
           /\ link = "none" => events' = events
<1> FlagsTyped BY DEF Typed
<1>1. CASE ~hwOnline /\ BringOnline /\ UNCHANGED <<radio, scanning, link, peer, events>>
  BY <1>1 DEF Hardware, BringOnline, FlagsTyped
<1>2. CASE hwOnline /\ StopRadio /\ UNCHANGED <<hwOnline, handlers>>
  <2>1. /\ link' = "none" /\ ~scanning' /\ ~radio' /\ hwOnline' /\ handlers' = handlers
        /\ link = "none" => events' = events
    BY <1>2 DEF StopRadio, FlagsTyped
  <2> QED BY <1>2, <2>1, StopHas
<1> QED BY <1>1, <1>2, FaultlessDriver

LEMMA StartHas ==
    ASSUME Typed, StartRadio
    PROVE  \A f : Has(events', f) <=> Has(events, f) \/ (f = "STA_START" /\ ~radio)
<1>1. "STA_START" \in Events BY DEF Events
<1> QED BY <1>1, HasPosted DEF StartRadio, Typed

LEMMA PostHas ==
    ASSUME Typed, NEW e \in Events, Post(e)
    PROVE  \A f : Has(events', f) <=> Has(events, f) \/ f = e
BY HasPosted DEF Post, Typed

LEMMA DispatchHas ==
    ASSUME Typed, NEW e, Dispatch(e)
    PROVE  \A f : Has(events, f) <=> Has(events', f) \/ f = e
BY HasTaken DEF Dispatch, Typed

-----------------------------------------------------------------------------
(* A patient user finds the controller at rest, so the credentials do not
   change while an attempt is under way. *)
AtBoot ==
    main \in {"boot", "bootscan", "bootfail"} =>
        /\ state = "IDLE" /\ lvgl = "ui"
        /\ link = "none" /\ ~Has(events, "GOT_IP")
Credentials ==
    /\ main = "bootscan" => wanted # None
    /\ ssid = None => /\ state \in {"IDLE", "START_SCAN", "SCANNING", "ERROR"}
                      /\ main \notin {"settle", "start"}
                      /\ link = "none" /\ ~Has(events, "GOT_IP")
    /\ state = "CONNECTING" \/ link = "assoc" \/ Has(events, "GOT_IP") => ssid = config
Patient == given.patient => AtBoot /\ Credentials

LEMMA PatientNext ==
    ASSUME Typed, Hardware, Patient, Next
    PROVE  Patient'
<1> SUFFICES ASSUME given.patient PROVE AtBoot' /\ Credentials'
  BY DEF Patient, Next
<1> AtBoot /\ Credentials BY DEF Patient
<1> FlagsTyped /\ PlacesTyped /\ SsidsTyped BY DEF Typed
<1> /\ "GOT_IP" \in Events /\ "STA_DISCONNECTED" \in Events
    /\ "SCAN_DONE" \in Events /\ "STA_START" \in Events
  BY DEF Events
<1>0. ASSUME Unlinked \/ UNCHANGED <<link, peer, events>>
      PROVE  /\ link' \in {link, "none"}
             /\ Has(events', "GOT_IP") <=> Has(events, "GOT_IP")
  BY <1>0, UnlinkedHas DEF Unlinked
<1>1. CASE \E n \in Networks : nac_request_wifi_connect(n)
  <2>1. PICK n \in Networks : nac_request_wifi_connect(n) BY <1>1
  <2>2. main = "loop" /\ events = <<>> /\ link # "assoc"
    BY <2>1 DEF nac_request_wifi_connect, CanRequest, Settled, Quiet
  <2>3. /\ state' = "REQUEST_CONNECT" /\ ssid' = n /\ n # None
        /\ UNCHANGED <<main, link, events>>
    BY <2>1, NacAssumption DEF nac_request_wifi_connect, driverVars
  <2> QED BY <2>2, <2>3, HasNone DEF AtBoot, Credentials
<1>2. CASE nac_request_wifi_scan \/ FactoryReset \/
   nac_request_wifi_disconnect
  BY <1>2, NacAssumption DEF AtBoot, Credentials, Hardware, Settled, Quiet,
     nac_request_wifi_scan, FactoryReset, nac_request_wifi_disconnect,
     CanRequest, WifiDisconnect, NotifyDown, nacVars, driverVars
<1>3. CASE ResetDisconnect
  BY <1>3, NacAssumption DEF AtBoot, Credentials, Hardware, Settled, Quiet,
     ResetDisconnect, WifiDisconnect, NotifyDown, nacVars, driverVars
<1>4. CASE DisconnectStop
  <2>1. Unlinked \/ UNCHANGED <<link, peer, events>>
    BY <1>4, StayingOnline DEF DisconnectStop, StopRadio, Unlinked
  <2> QED BY <1>4, <1>0, <2>1 DEF AtBoot, Credentials, DisconnectStop, nacVars
<1>5. CASE DisconnectDeinit
  BY <1>5, NacAssumption DEF AtBoot, Credentials, Hardware, Settled, Quiet,
     DisconnectDeinit, nacVars, driverVars
<1>6. CASE BootNothing \/ BootFound
  BY <1>6, NacAssumption DEF AtBoot, Credentials, Hardware, Settled, Quiet,
     BootNothing, BootFound, Fails, nacVars, driverVars
<1>7. CASE BootScan
  <2>1. ~Has(events', "GOT_IP")
    <3>1. StartRadio \/ events' = events BY <1>7 DEF BootScan
    <3> QED BY <1>7, <3>1, StartHas DEF AtBoot, BootScan
  <2>2. /\ main' \in {"bootscan", "bootfail"} /\ state' = "IDLE"
        /\ lvgl' = "ui" /\ link' = "none" /\ ssid' = ssid /\ wanted' # None
    BY <1>7 DEF BootScan, AtBoot
  <2> QED BY <2>1, <2>2 DEF AtBoot, Credentials
<1>8. CASE BootOffline
  BY <1>8, <1>0, GoingOffline DEF AtBoot, Credentials, BootOffline
<1>9. CASE ConnectNothing \/ ConnectAlready \/ ConnectRequested \/
   ConnectGiveUp
  BY <1>9, NacAssumption DEF AtBoot, Credentials, Hardware, Settled, Quiet,
     ConnectNothing, ConnectAlready, ConnectRequested, ConnectGiveUp, Called,
     RetriesLeft, nacVars, driverVars
<1>10. CASE ConnectReset
  BY <1>10, NacAssumption, StopHas DEF AtBoot, Credentials, Hardware, Settled,
     Quiet, ConnectReset, Called, RetriesLeft, RestartHardware, BringOnline,
     StopRadio, nacVars, driverVars
<1>11. CASE ConnectConfigure
  <2>1. CASE main' = "start"
    BY <1>11, <2>1 DEF AtBoot, Credentials, ConnectConfigure, Configured
  <2>2. CASE BringOffline /\ main' = "return" /\ UNCHANGED config
    BY <1>11, <1>0, <2>2, GoingOffline DEF AtBoot, Credentials, ConnectConfigure
  <2> QED BY <1>11, <2>1, <2>2 DEF ConnectConfigure
<1>12. CASE ConnectStart
  <2>1. Has(events', "GOT_IP") => Has(events, "GOT_IP")
    <3>1. StartRadio \/ Unlinked \/ events' = events
      BY <1>12, GoingOffline DEF ConnectStart
    <3> QED BY <3>1, StartHas, UnlinkedHas
  <2>2. /\ main = "start" /\ main' = "return" /\ link' \in {link, "none"}
        /\ UNCHANGED <<ssid, config>> /\ state' \in {state, "IDLE"}
    BY <1>12, GoingOffline DEF ConnectStart, Unlinked
  <2> QED BY <2>1, <2>2 DEF AtBoot, Credentials
<1>13. CASE ScanStart
  <2>1. Has(events', "GOT_IP") => Has(events, "GOT_IP")
    <3>1. StartRadio \/ events' = events BY <1>13 DEF ScanStart
    <3> QED BY <3>1, StartHas
  <2>2. /\ main = "loop" /\ main' \in {"scanning", "return"}
        /\ UNCHANGED <<link, ssid, config, state>>
    BY <1>13 DEF ScanStart, Called
  <2> QED BY <2>1, <2>2 DEF AtBoot, Credentials
<1>14. CASE ScanStarted \/ ConnectReturn
  BY <1>14, NacAssumption DEF AtBoot, Credentials, Hardware, Settled, Quiet,
     ScanStarted, ConnectReturn, nacVars, driverVars
<1>15. CASE DropEvent \/ OnStaStart
  BY <1>15, NacAssumption, DispatchHas DEF AtBoot, Credentials, Hardware,
     Settled, Quiet, DropEvent, OnStaStart, Dispatch, nacVars, driverVars
<1>16. CASE OnStaDisconnected \/ OnScanDone \/ OnGotIp
  BY <1>16, NacAssumption, DispatchHas DEF AtBoot, Credentials, Hardware,
     Settled, Quiet, OnStaDisconnected, OnScanDone, OnGotIp, Dispatch, Active,
     Reconnect, nacVars, driverVars
<1>17. CASE LinkUp \/ LinkRefused \/ LinkLost \/ ScanFinished
  BY <1>17, NacAssumption, PostHas DEF AtBoot, Credentials, Hardware, Settled,
     Quiet, LinkUp, LinkRefused, LinkLost, ScanFinished, Post, nacVars,
     driverVars
<1> QED BY <1>1, <1>2, <1>3, <1>4, <1>5, <1>6, <1>7, <1>8, <1>9, <1>10, <1>11,
   <1>12, <1>13, <1>14, <1>15, <1>16, <1>17 DEF Next, User, Lvgl, Connect,
   EventLoop, Driver

-----------------------------------------------------------------------------
Base == Typed /\ Hardware /\ Patient

LEMMA BaseInit == Init => Base
<1> SUFFICES ASSUME Init PROVE Base
  OBVIOUS
<1>1. Typed BY TypedInit
<1>2. Hardware BY DEF Init, Hardware
<1>3. AtBoot /\ Credentials BY HasNone DEF Init, AtBoot, Credentials
<1> QED BY <1>1, <1>2, <1>3 DEF Base, Patient

LEMMA BaseStep == Base /\ [Next]_vars => Base'
<1>1. ASSUME Base, Next PROVE Base'
  BY <1>1, TypedStep, HardwareNext, PatientNext DEF Base
<1>2. ASSUME Base, UNCHANGED vars PROVE Base'
  <2>1. Typed' BY <1>2, TypedStep DEF Base
  <2>2. Hardware' BY <1>2 DEF Base, Hardware, vars, nacVars, driverVars
  <2>3. Patient'
    BY <1>2 DEF Base, Patient, AtBoot, Credentials, Has, vars, nacVars, driverVars
  <2> QED BY <2>1, <2>2, <2>3 DEF Base
<1> QED BY <1>1, <1>2

LEMMA BaseInvariant == Spec => []Base
BY BaseInit, BaseStep, PTL DEF Spec

(* Credentials appear in flash when an address arrives, and in no other
   step. *)
LEMMA CredsStored ==
    ASSUME Next, NewCreds
    PROVE  OnGotIp /\ ~saved /\ nvsSsid' = ssid
<1>1. ~User BY DEF NewCreds, User, nac_request_wifi_connect, nac_request_wifi_scan,
   FactoryReset, nac_request_wifi_disconnect, WifiDisconnect
<1>2. ~Lvgl BY DEF NewCreds, Lvgl, ResetDisconnect, WifiDisconnect, DisconnectStop,
   DisconnectDeinit, nacVars
<1>3. ~Connect
  BY DEF NewCreds, Connect, BootNothing, BootScan, BootFound, BootOffline,
   ConnectNothing, ConnectAlready, ConnectRequested, ConnectGiveUp, ConnectReset,
   ConnectConfigure, ConnectStart, ScanStart, ScanStarted, ConnectReturn, nacVars
<1>4. ~Driver
  BY DEF NewCreds, Driver, LinkUp, LinkRefused, LinkLost, ScanFinished, Post,
   nacVars
<1>5. EventLoop => OnGotIp
  BY DEF NewCreds, EventLoop, DropEvent, OnStaStart, OnStaDisconnected,
     OnScanDone, nacVars
<1>6. OnGotIp BY <1>1, <1>2, <1>3, <1>4, <1>5 DEF Next
<1> QED BY <1>6 DEF OnGotIp, NewCreds

(* The credentials stored are those the driver was told to join with,
   whatever fails and however the tasks are timed, for a patient user. *)
THEOREM NacCredsProven == Spec => OneRequestCredsProven
<1>1. Base /\ [Next]_vars => [given.patient /\ NewCreds => nvsSsid' = config]_vars
  <2> SUFFICES ASSUME Base, Next, given.patient, NewCreds PROVE nvsSsid' = config
    OBVIOUS
  <2>1. OnGotIp /\ nvsSsid' = ssid BY CredsStored
  <2>2. "GOT_IP" \in Events BY DEF Events
  <2>3. Has(events, "GOT_IP") BY <2>1, <2>2, DispatchHas DEF OnGotIp, Base
  <2>4. ssid = config BY <2>3 DEF Base, Patient, Credentials
  <2> QED BY <2>1, <2>4
<1> QED BY <1>1, BaseInvariant, PTL DEF Spec, OneRequestCredsProven

-----------------------------------------------------------------------------
(* The last word of the waiting events is that the link is lost. *)
LostAtLast(s) ==
    \E i \in 1 .. Len(s) :
        /\ s[i] = "STA_DISCONNECTED"
        /\ \A j \in i + 1 .. Len(s) : s[j] # "GOT_IP"

LEMMA LostPosted ==
    ASSUME NEW s \in Seq(Events), NEW e \in Events
    PROVE  /\ e = "STA_DISCONNECTED" => LostAtLast(Append(s, e))
           /\ e # "GOT_IP" /\ LostAtLast(s) => LostAtLast(Append(s, e))
<1>1. ASSUME e = "STA_DISCONNECTED" PROVE LostAtLast(Append(s, e))
  <2>1. Len(s) + 1 \in 1 .. Len(Append(s, e)) BY Posting
  <2>2. \A j \in Len(s) + 1 + 1 .. Len(Append(s, e)) : FALSE BY Posting
  <2> QED BY <1>1, <2>1, <2>2, Posting DEF LostAtLast
<1>2. ASSUME e # "GOT_IP", LostAtLast(s) PROVE LostAtLast(Append(s, e))
  <2>1. PICK i \in 1 .. Len(s) :
          s[i] = "STA_DISCONNECTED" /\ \A j \in i + 1 .. Len(s) : s[j] # "GOT_IP"
    BY <1>2 DEF LostAtLast
  <2>2. i \in 1 .. Len(Append(s, e)) /\ Append(s, e)[i] = "STA_DISCONNECTED"
    BY <2>1, Posting
  <2>3. ASSUME NEW j \in i + 1 .. Len(Append(s, e)) PROVE Append(s, e)[j] # "GOT_IP"
    <3>1. j \in i + 1 .. Len(s) \/ j = Len(s) + 1 BY Posting
    <3> QED BY <1>2, <2>1, <3>1, Posting
  <2> QED BY <2>2, <2>3 DEF LostAtLast
<1> QED BY <1>1, <1>2

LEMMA LostTaken ==
    ASSUME NEW s \in Seq(Events), s # <<>>, LostAtLast(s), ~LostAtLast(Tail(s))
    PROVE  Head(s) = "STA_DISCONNECTED" /\ ~Has(Tail(s), "GOT_IP")
<1>1. PICK i \in 1 .. Len(s) :
        s[i] = "STA_DISCONNECTED" /\ \A j \in i + 1 .. Len(s) : s[j] # "GOT_IP"
  BY DEF LostAtLast
<1>2. i = 1
  <2> SUFFICES ASSUME i # 1 PROVE FALSE
    OBVIOUS
  <2>1. i - 1 \in 1 .. Len(Tail(s)) /\ Tail(s)[i - 1] = "STA_DISCONNECTED"
    BY <1>1, Taking
  <2>2. ASSUME NEW j \in i - 1 + 1 .. Len(Tail(s)) PROVE Tail(s)[j] # "GOT_IP"
    <3>1. j + 1 \in i + 1 .. Len(s) /\ Tail(s)[j] = s[j + 1] BY Taking
    <3> QED BY <1>1, <3>1
  <2> QED BY <2>1, <2>2 DEF LostAtLast
<1>3. ASSUME NEW j \in 1 .. Len(Tail(s)) PROVE Tail(s)[j] # "GOT_IP"
  <2>1. j + 1 \in 2 .. Len(s) /\ Tail(s)[j] = s[j + 1] BY Taking
  <2> QED BY <1>1, <1>2, <2>1
<1> QED BY <1>1, <1>2, <1>3, Taking DEF Has

LEMMA UnlinkedLost ==
    ASSUME Typed, Unlinked, LostAtLast(events) \/ link # "none"
    PROVE  LostAtLast(events')
<1>1. "STA_DISCONNECTED" \in Events BY DEF Events
<1> QED BY <1>1, LostPosted DEF Unlinked, Typed

LEMMA StartLost ==
    ASSUME Typed, StartRadio, LostAtLast(events)
    PROVE  LostAtLast(events')
<1>1. "STA_START" \in Events BY DEF Events
<1> QED BY <1>1, LostPosted DEF StartRadio, Typed

LEMMA PostLost ==
    ASSUME Typed, NEW e \in Events, Post(e),
           e = "STA_DISCONNECTED" \/ (e # "GOT_IP" /\ LostAtLast(events))
    PROVE  LostAtLast(events')
BY LostPosted DEF Post, Typed

LEMMA DispatchLost ==
    ASSUME Typed, NEW e, Dispatch(e), LostAtLast(events), ~LostAtLast(events')
    PROVE  e = "STA_DISCONNECTED" /\ ~Has(events', "GOT_IP")
BY LostTaken DEF Dispatch, Typed

-----------------------------------------------------------------------------
(* If an event waits at all, it is the oldest one. *)
First(s, f) == \A i \in 1 .. Len(s) : s[i] = f => i = 1

LEMMA FirstPosted ==
    ASSUME NEW s \in Seq(Events), NEW e \in Events, NEW f,
           s = <<>> \/ (e # f /\ First(s, f))
    PROVE  First(Append(s, e), f)
<1> SUFFICES ASSUME NEW i \in 1 .. Len(Append(s, e)), Append(s, e)[i] = f
             PROVE  i = 1
  BY DEF First
<1>1. i \in 1 .. Len(s) \/ i = Len(s) + 1 BY Posting
<1>2. CASE s = <<>> BY <1>1, <1>2
<1>3. CASE e # f /\ First(s, f) BY <1>1, <1>3, Posting DEF First
<1> QED BY <1>2, <1>3

LEMMA FirstTaken ==
    ASSUME NEW s \in Seq(Events), s # <<>>, NEW f, First(s, f)
    PROVE  ~Has(Tail(s), f)
<1> SUFFICES ASSUME NEW i \in 1 .. Len(Tail(s)), Tail(s)[i] = f PROVE FALSE
  BY DEF Has
<1>1. i + 1 \in 1 .. Len(s) /\ s[i + 1] = f /\ i + 1 # 1 BY Taking
<1> QED BY <1>1 DEF First

LEMMA PostFirst ==
    ASSUME Typed, NEW e \in Events, Post(e), NEW f,
           events = <<>> \/ (e # f /\ First(events, f))
    PROVE  First(events', f)
BY FirstPosted DEF Post, Typed

LEMMA DispatchFirst ==
    ASSUME Typed, NEW e, Dispatch(e), NEW f, First(events, f)
    PROVE  ~Has(events', f)
BY FirstTaken DEF Dispatch, Typed

(* No news of an address waits behind the loss of a link. *)
LossIsLast(s) ==
    \A i, j \in 1 .. Len(s) : s[i] = "STA_DISCONNECTED" /\ s[j] = "GOT_IP" => j < i

LEMMA LossPosted ==
    ASSUME NEW s \in Seq(Events), NEW e \in Events, LossIsLast(s),
           e = "GOT_IP" => ~Has(s, "STA_DISCONNECTED")
    PROVE  LossIsLast(Append(s, e))
<1> SUFFICES ASSUME NEW i \in 1 .. Len(Append(s, e)), NEW j \in 1 .. Len(Append(s, e)),
                    Append(s, e)[i] = "STA_DISCONNECTED", Append(s, e)[j] = "GOT_IP"
             PROVE  j < i
  BY DEF LossIsLast
<1>1. i \in 1 .. Len(s) \/ i = Len(s) + 1 BY Posting
<1>2. j \in 1 .. Len(s) \/ j = Len(s) + 1 BY Posting
<1>3. CASE i \in 1 .. Len(s) /\ j \in 1 .. Len(s)
  BY <1>3, Posting DEF LossIsLast
<1>4. CASE i \in 1 .. Len(s) /\ j = Len(s) + 1
  BY <1>4, Posting DEF Has
<1>5. CASE i = Len(s) + 1 /\ j \in 1 .. Len(s)
  BY <1>5, Posting
<1>6. CASE i = Len(s) + 1 /\ j = Len(s) + 1
  BY <1>6, Posting
<1> QED BY <1>1, <1>2, <1>3, <1>4, <1>5, <1>6

LEMMA LossTaken ==
    ASSUME NEW s \in Seq(Events), s # <<>>, LossIsLast(s)
    PROVE  /\ LossIsLast(Tail(s))
           /\ Head(s) = "STA_DISCONNECTED" => ~Has(Tail(s), "GOT_IP")
<1>1. ASSUME NEW i \in 1 .. Len(Tail(s)), NEW j \in 1 .. Len(Tail(s)),
             Tail(s)[i] = "STA_DISCONNECTED", Tail(s)[j] = "GOT_IP"
      PROVE  j < i
  <2>1. i + 1 \in 1 .. Len(s) /\ s[i + 1] = "STA_DISCONNECTED" BY <1>1, Taking
  <2>2. j + 1 \in 1 .. Len(s) /\ s[j + 1] = "GOT_IP" BY <1>1, Taking
  <2>3. j + 1 < i + 1 BY <2>1, <2>2 DEF LossIsLast
  <2> QED BY <2>3, Taking
<1>2. ASSUME Head(s) = "STA_DISCONNECTED", NEW j \in 1 .. Len(Tail(s)),
             Tail(s)[j] = "GOT_IP"
      PROVE  FALSE
  <2>1. j + 1 \in 1 .. Len(s) /\ s[j + 1] = "GOT_IP" BY <1>2, Taking
  <2>2. 1 \in 1 .. Len(s) /\ s[1] = "STA_DISCONNECTED" BY <1>2, Taking
  <2>3. j + 1 < 1 BY <2>1, <2>2 DEF LossIsLast
  <2> QED BY <2>3, Taking
<1> QED BY <1>1, <1>2 DEF LossIsLast, Has

LEMMA StartFirst ==
    ASSUME Typed, StartRadio, radio \/ events = <<>>, First(events, "STA_START")
    PROVE  First(events', "STA_START")
<1>1. "STA_START" \in Events BY DEF Events
<1> QED BY <1>1, FirstPosted DEF StartRadio, Typed

LEMMA UnlinkedFirst ==
    ASSUME Typed, Unlinked, First(events, "STA_START"), LossIsLast(events)
    PROVE  First(events', "STA_START") /\ LossIsLast(events')
<1>1. "STA_DISCONNECTED" \in Events BY DEF Events
<1> QED BY <1>1, FirstPosted, LossPosted DEF Unlinked, Typed

LEMMA StartLoss ==
    ASSUME Typed, StartRadio, LossIsLast(events)
    PROVE  LossIsLast(events')
<1>1. "STA_START" \in Events BY DEF Events
<1> QED BY <1>1, LossPosted DEF StartRadio, Typed

LEMMA PostLoss ==
    ASSUME Typed, NEW e \in Events, Post(e), LossIsLast(events),
           e = "GOT_IP" => ~Has(events, "STA_DISCONNECTED")
    PROVE  LossIsLast(events')
BY LossPosted DEF Post, Typed

LEMMA DispatchLoss ==
    ASSUME Typed, NEW e, Dispatch(e), LossIsLast(events)
    PROVE  /\ LossIsLast(events')
           /\ e = "STA_DISCONNECTED" => ~Has(events', "GOT_IP")
BY LossTaken DEF Dispatch, Typed

(* While nothing the user does crosses something else that is under way. *)
LastWord ==
    link # "up" /\ (state = "CONNECTED" \/ Has(events, "GOT_IP")) => LostAtLast(events)
Ending ==
    lvgl # "ui" =>
        /\ main = "loop" /\ ~queued /\ ~scanning /\ link # "assoc"
        /\ \A f : Has(events, f) => f = "STA_DISCONNECTED"
        /\ lvgl = "erased" => events = <<>> /\ "reset" \in given.acts
        /\ lvgl \in {"teardown", "deinit"} => state = "IDLE"
        /\ lvgl = "deinit" => ~radio
Heard == state = "CONNECTED" => handlers

(* With the timing the code counts on, no address can arrive between two
   attempts, although esp_wifi_stop() may have left the radio on: the start of
   the radio waits alone, and no association outlives the loss of a link. *)
Between ==
    state \in {"REQUEST_CONNECT", "RECONNECT"} \/ main = "settle" =>
        link # "assoc" /\ ~Has(events, "GOT_IP")
Pausing ==
    /\ main = "settle" => state # "CONNECTED"
    /\ main \in {"settle", "start"} => state # "START_SCAN"
Fresh ==
    /\ main = "start" /\ ~radio => events = <<>>
    /\ state = "START_SCAN" /\ ~radio => events = <<>>
StartAwaits ==
    /\ First(events, "STA_START")
    /\ Has(events, "STA_START") =>
          /\ link = "none" /\ ~Has(events, "GOT_IP")
          /\ ~Has(events, "STA_DISCONNECTED")
LossAwaits ==
    /\ LossIsLast(events)
    /\ Has(events, "STA_DISCONNECTED") => link # "assoc"
InTime == Between /\ Pausing /\ Fresh /\ StartAwaits /\ LossAwaits

LEMMA InTimeNext ==
    ASSUME Base, Ending, InTime, Undisturbed, given.timely, Next
    PROVE  InTime'
<1> Typed /\ Hardware BY DEF Base
<1> AtBoot BY DEF Base, Patient, Undisturbed
<1> FlagsTyped /\ PlacesTyped BY DEF Typed
<1> given' = given /\ given.patient BY DEF Next, Undisturbed
<1> /\ "GOT_IP" \in Events /\ "STA_DISCONNECTED" \in Events
    /\ "SCAN_DONE" \in Events /\ "STA_START" \in Events
  BY DEF Events
<1> Slept => events = <<>> BY DEF Slept
<1>0. First(<<>>, "STA_START") /\ LossIsLast(<<>>) BY DEF First, LossIsLast
<1>21. ASSUME Unlinked \/ UNCHANGED <<link, peer, events>>
      PROVE  /\ link' \in {link, "none"}
             /\ \A f : Has(events', f) => Has(events, f) \/ (f = "STA_DISCONNECTED" /\ link' = "none" /\ link # "none")
             /\ StartAwaits' /\ LossAwaits'
  <2>1. CASE Unlinked
    <3>1. \A f : Has(events', f) <=>
                   Has(events, f) \/ (f = "STA_DISCONNECTED" /\ link # "none")
      BY <2>1, UnlinkedHas
    <3>2. First(events', "STA_START") /\ LossIsLast(events')
      BY <2>1, UnlinkedFirst DEF InTime, StartAwaits, LossAwaits
    <3>3. link' = "none" BY <2>1 DEF Unlinked
    <3> QED BY <3>1, <3>2, <3>3 DEF InTime, StartAwaits, LossAwaits
  <2>2. CASE UNCHANGED <<link, peer, events>>
    BY <2>2 DEF InTime, StartAwaits, LossAwaits
  <2> QED BY <1>21, <2>1, <2>2
<1>22. ASSUME BringOffline, main \in {"bootscan", "bootfail", "settle", "start"},
              main' \in {"loop", "return"}, state' \in {state, "IDLE"}
      PROVE  InTime'
  <2>1. Unlinked \/ UNCHANGED <<link, peer, events>> BY <1>22, GoingOffline
  <2>2. state # "START_SCAN" BY <1>22 DEF InTime, Pausing, AtBoot, PlacesTyped
  <2>3. Between'
    <3>1. Has(events', "GOT_IP") => Has(events, "GOT_IP") BY <1>21, <2>1
    <3>2. link' \in {link, "none"} BY <1>21, <2>1
    <3> QED BY <1>22, <3>1, <3>2 DEF InTime, Between
  <2>4. Pausing' /\ Fresh' BY <1>22, <2>2 DEF Pausing, Fresh
  <2> QED BY <1>21, <2>1, <2>3, <2>4 DEF InTime
<1>23. ASSUME StartRadio, ~radio => events = <<>>, link' = link
      PROVE  /\ \A f : Has(events', f) <=> Has(events, f) \/ (f = "STA_START" /\ ~radio)
             /\ StartAwaits' /\ LossAwaits'
  <2>1. \A f : Has(events', f) <=> Has(events, f) \/ (f = "STA_START" /\ ~radio)
    BY <1>23, StartHas
  <2>2. First(events', "STA_START") /\ LossIsLast(events')
    BY <1>23, StartFirst, StartLoss DEF InTime, StartAwaits, LossAwaits
  <2>3. ~radio => /\ link = "none" /\ ~Has(events, "GOT_IP")
                  /\ ~Has(events, "STA_DISCONNECTED")
    BY <1>23, HasNone DEF Hardware
  <2> QED BY <1>23, <2>1, <2>2, <2>3 DEF InTime, StartAwaits, LossAwaits
<1>24. ASSUME UNCHANGED <<events, link>>
      PROVE  StartAwaits' /\ LossAwaits'
  BY <1>24 DEF InTime, StartAwaits, LossAwaits
<1>1. CASE User
  <2>1. events = <<>> \/ lvgl' = "teardown" \/ lvgl' = "erased"
    BY <1>1 DEF User, nac_request_wifi_connect, nac_request_wifi_scan, CanRequest, Settled,
       Quiet, FactoryReset, nac_request_wifi_disconnect, WifiDisconnect
  <2>2. /\ main = "loop" /\ events = <<>> /\ link # "assoc"
        /\ UNCHANGED <<main, events, link, radio>>
    BY <1>1 DEF User, nac_request_wifi_connect, nac_request_wifi_scan, CanRequest, Settled,
       Quiet, FactoryReset, nac_request_wifi_disconnect, WifiDisconnect, driverVars
  <2> QED BY <1>24, <2>2, HasNone DEF InTime, Between, Pausing, Fresh
<1>2. CASE ResetDisconnect
  <2>1. main = "loop" BY <1>2 DEF ResetDisconnect, Ending
  <2> QED
    BY <1>2, <1>24, <2>1 DEF ResetDisconnect, WifiDisconnect, driverVars, InTime, Between,
       Pausing, Fresh
<1>3. CASE DisconnectStop
  <2>1. Unlinked \/ UNCHANGED <<link, peer, events>>
    BY <1>3, StayingOnline DEF DisconnectStop, StopRadio, Unlinked
  <2>2. /\ main = "loop" /\ main' = main /\ state = "IDLE" /\ state' = state
    BY <1>3 DEF DisconnectStop, Ending, nacVars
  <2> QED BY <1>21, <2>1, <2>2 DEF InTime, Between, Pausing, Fresh
<1>4. CASE DisconnectDeinit
  <2>1. /\ main = "loop" /\ main' = main /\ state = "IDLE" /\ state' = state
        /\ UNCHANGED <<events, link>>
    BY <1>4 DEF DisconnectDeinit, Ending
  <2> QED BY <1>24, <2>1 DEF InTime, Between, Pausing, Fresh
<1>5. CASE BootNothing \/ BootFound
  <2>1. /\ UNCHANGED <<events, link, radio>> /\ main' = "loop"
        /\ state' \in {state, "REQUEST_CONNECT"} /\ state = "IDLE"
        /\ link # "assoc" /\ ~Has(events, "GOT_IP")
    BY <1>5 DEF BootNothing, BootFound, AtBoot, nacVars, driverVars
  <2> QED BY <1>24, <2>1 DEF InTime, Between, Pausing, Fresh
<1>6. CASE BootScan
  <2>1. /\ main = "boot" /\ events = <<>> /\ state = "IDLE" /\ state' = "IDLE"
        /\ main' \in {"bootscan", "bootfail"} /\ link' = link
        /\ StartRadio \/ events' = events
    BY <1>6 DEF BootScan, AtBoot, Hardware
  <2>2. StartAwaits' /\ LossAwaits' BY <1>23, <1>24, <2>1
  <2> QED BY <2>1, <2>2 DEF InTime, Between, Pausing, Fresh
<1>7. CASE BootOffline
  BY <1>7, <1>22 DEF BootOffline
<1>8. CASE ConnectNothing \/ ConnectAlready \/ ConnectRequested \/ ConnectGiveUp
           \/ ConnectReturn
  <2>1. /\ UNCHANGED <<events, link, radio>> /\ main' \in {"loop", "return"}
        /\ \/ state' \in {state, "ERROR"}
           \/ state = "REQUEST_CONNECT" /\ state' = "RECONNECT"
    BY <1>8 DEF ConnectNothing, ConnectAlready, ConnectRequested, ConnectGiveUp,
       ConnectReturn, Called, nacVars, driverVars
  <2> QED BY <1>24, <2>1 DEF InTime, Between, Pausing, Fresh
<1>9. CASE ConnectReset
  <2>1. /\ state = "RECONNECT" /\ state' = state /\ main' \in {"settle", "return"}
        /\ Unlinked \/ UNCHANGED <<link, peer, events>>
    BY <1>9 DEF ConnectReset, Called, RestartHardware, StopRadio, Unlinked
  <2>2. Between'
    <3>1. link # "assoc" /\ ~Has(events, "GOT_IP") BY <2>1 DEF InTime, Between
    <3> QED BY <1>21, <2>1, <3>1 DEF Between
  <2> QED BY <1>21, <2>1, <2>2 DEF InTime, Pausing, Fresh
<1>10. CASE ConnectConfigure
  <2>1. CASE main' = "start"
    <3>1. /\ state' = "CONNECTING" /\ events = <<>> /\ UNCHANGED <<events, link, radio>>
      BY <1>10, <2>1 DEF ConnectConfigure
    <3> QED BY <1>24, <2>1, <3>1 DEF InTime, Between, Pausing, Fresh
  <2> QED BY <1>10, <1>22, <2>1 DEF ConnectConfigure
<1>11. CASE ConnectStart
  <2>1. CASE StartRadio /\ UNCHANGED <<state, link>>
    <3>1. /\ main = "start" /\ main' = "return" /\ (~radio => events = <<>>)
          /\ state # "START_SCAN" /\ radio' = TRUE
      BY <1>11, <2>1 DEF ConnectStart, InTime, Fresh, Pausing, StartRadio
    <3>2. StartAwaits' /\ LossAwaits' BY <1>23, <2>1, <3>1
    <3>3. Between'
      <4>1. Has(events', "GOT_IP") => Has(events, "GOT_IP") BY <1>23, <2>1, <3>1
      <4> QED BY <2>1, <3>1, <4>1 DEF InTime, Between
    <3>4. Pausing' /\ Fresh' BY <2>1, <3>1 DEF Pausing, Fresh
    <3> QED BY <3>2, <3>3, <3>4 DEF InTime
  <2> QED BY <1>11, <1>22, <2>1 DEF ConnectStart
<1>12. CASE ScanStart
  <2>1. /\ state = "START_SCAN" /\ state' = state /\ link' = link
        /\ main' \in {"scanning", "return"} /\ (~radio => events = <<>>)
        /\ StartRadio \/ UNCHANGED <<radio, events>>
    BY <1>12 DEF ScanStart, Called, InTime, Fresh
  <2>2. StartAwaits' /\ LossAwaits' BY <1>23, <1>24, <2>1
  <2>3. Fresh' BY <2>1 DEF InTime, Fresh, StartRadio
  <2>4. Between' /\ Pausing' BY <2>1 DEF Between, Pausing
  <2> QED BY <2>2, <2>3, <2>4 DEF InTime
<1>13. CASE ScanStarted
  BY <1>13, <1>24 DEF ScanStarted, driverVars, InTime, Between, Pausing, Fresh
<1>14. CASE EventLoop
  <2>1. PICK e \in Events : Dispatch(e)
    BY <1>14 DEF EventLoop, DropEvent, OnStaStart, OnStaDisconnected, OnScanDone, OnGotIp
  <2>2. \A f : Has(events', f) => Has(events, f) BY <2>1, DispatchHas
  <2>3. Has(events, e) /\ events # <<>> BY <2>1, DispatchHas DEF Dispatch
  <2>4. /\ LossIsLast(events') /\ ~Has(events', "STA_START")
        /\ e = "STA_DISCONNECTED" => ~Has(events', "GOT_IP")
    BY <2>1, DispatchLoss, DispatchFirst DEF InTime, StartAwaits, LossAwaits
  <2>5. First(events', "STA_START") BY <2>4 DEF First, Has
  <2>6. UNCHANGED <<main, radio>> BY <2>1 DEF Dispatch
  <2>7. Fresh'
    <3>1. main = "start" => radio BY <2>3 DEF InTime, Fresh
    <3>2. state' = "START_SCAN" => radio
      <4>1. state' = "START_SCAN" => state = "START_SCAN"
        BY <1>14 DEF EventLoop, DropEvent, OnStaStart, OnStaDisconnected, OnScanDone,
           OnGotIp, Reconnect, nacVars
      <4> QED BY <2>3, <4>1 DEF InTime, Fresh
    <3> QED BY <2>6, <3>1, <3>2 DEF Fresh
  <2>8. CASE OnStaStart /\ link' = "assoc" /\ state = "CONNECTING" /\ link = "none"
    <3>1. Has(events, "STA_START") BY <2>8, DispatchHas DEF OnStaStart
    <3>2. ~Has(events', "STA_DISCONNECTED") BY <2>2, <3>1 DEF InTime, StartAwaits
    <3>3. state' = state /\ main # "settle" BY <2>8 DEF OnStaStart, Hardware, nacVars
    <3> QED
      BY <2>4, <2>5, <2>6, <2>7, <2>8, <3>2, <3>3
      DEF InTime, Between, Pausing, StartAwaits, LossAwaits
  <2>9. CASE link' = link
    <3>1. StartAwaits' /\ LossAwaits'
      BY <2>2, <2>4, <2>5, <2>9 DEF InTime, StartAwaits, LossAwaits
    <3>2. Between' /\ Pausing'
      <4>1. CASE DropEvent \/ OnStaStart
        BY <2>2, <2>6, <2>9, <4>1 DEF DropEvent, OnStaStart, nacVars, InTime, Between, Pausing
      <4>2. CASE OnStaDisconnected
        <5>1. Has(events, "STA_DISCONNECTED") /\ ~Has(events', "GOT_IP")
          <6>1. Dispatch("STA_DISCONNECTED") BY <4>2 DEF OnStaDisconnected
          <6> QED BY <6>1, DispatchHas, DispatchLoss DEF InTime, LossAwaits
        <5>2. link # "assoc" BY <5>1 DEF InTime, LossAwaits
        <5>3. state' \in {state, "RECONNECT"} BY <4>2 DEF OnStaDisconnected, Reconnect
        <5> QED BY <2>6, <2>9, <5>1, <5>2, <5>3 DEF InTime, Between, Pausing
      <4>3. CASE OnScanDone
        BY <2>2, <2>6, <2>9, <4>3 DEF OnScanDone, InTime, Between, Pausing
      <4>4. CASE OnGotIp
        <5>1. Has(events, "GOT_IP") BY <4>4, DispatchHas DEF OnGotIp
        <5>2. main # "settle" BY <5>1 DEF InTime, Between
        <5> QED BY <2>6, <4>4, <5>2 DEF OnGotIp, Between, Pausing
      <4> QED BY <1>14, <4>1, <4>2, <4>3, <4>4 DEF EventLoop
    <3> QED BY <2>7, <3>1, <3>2 DEF InTime
  <2> QED
    BY <1>14, <2>8, <2>9 DEF EventLoop, DropEvent, OnStaStart, OnStaDisconnected,
       OnScanDone, OnGotIp
<1>15. CASE LinkUp
  <2>1. /\ link = "assoc" /\ link' = "up" /\ Post("GOT_IP")
        /\ UNCHANGED <<main, state, radio>>
    BY <1>15 DEF LinkUp, Post, nacVars
  <2>2. \A f : Has(events', f) <=> Has(events, f) \/ f = "GOT_IP" BY <2>1, PostHas
  <2>3. ~Has(events, "STA_DISCONNECTED") /\ ~Has(events, "STA_START")
    BY <2>1 DEF InTime, LossAwaits, StartAwaits
  <2>4. First(events', "STA_START") /\ LossIsLast(events')
    BY <2>1, <2>3, PostFirst, PostLoss DEF InTime, LossAwaits, StartAwaits
  <2>5. radio BY <2>1 DEF Hardware
  <2> QED
    BY <2>1, <2>2, <2>3, <2>4, <2>5
    DEF InTime, Between, Pausing, Fresh, StartAwaits, LossAwaits
<1>16. CASE LinkRefused \/ LinkLost
  <2>1. /\ link # "none" /\ link' = "none" /\ Post("STA_DISCONNECTED")
        /\ UNCHANGED <<main, state, radio>>
    BY <1>16 DEF LinkRefused, LinkLost, Post, nacVars
  <2>2. \A f : Has(events', f) <=> Has(events, f) \/ f = "STA_DISCONNECTED"
    BY <2>1, PostHas
  <2>3. ~Has(events, "STA_START") BY <2>1 DEF InTime, StartAwaits
  <2>4. First(events', "STA_START") /\ LossIsLast(events')
    BY <2>1, PostFirst, PostLoss DEF InTime, LossAwaits, StartAwaits
  <2>5. radio BY <2>1 DEF Hardware
  <2> QED
    BY <2>1, <2>2, <2>3, <2>4, <2>5
    DEF InTime, Between, Pausing, Fresh, StartAwaits, LossAwaits
<1>17. CASE ScanFinished
  <2>1. /\ scanning /\ Post("SCAN_DONE") /\ UNCHANGED <<main, state, radio, link>>
    BY <1>17 DEF ScanFinished, Post, nacVars
  <2>2. \A f : Has(events', f) <=> Has(events, f) \/ f = "SCAN_DONE" BY <2>1, PostHas
  <2>3. First(events', "STA_START") /\ LossIsLast(events')
    BY <2>1, PostFirst, PostLoss DEF InTime, LossAwaits, StartAwaits
  <2>4. radio BY <2>1 DEF Hardware
  <2> QED
    BY <2>1, <2>2, <2>3, <2>4
    DEF InTime, Between, Pausing, Fresh, StartAwaits, LossAwaits
<1> QED BY <1>1, <1>2, <1>3, <1>4, <1>5, <1>6, <1>7, <1>8, <1>9, <1>10, <1>11,
   <1>12, <1>13, <1>14, <1>15, <1>16, <1>17 DEF Next, Lvgl, Connect, EventLoop, Driver

(* Undisturbed, and a driver that cannot be left without handlers while an
   address arrives. *)
Attended == Undisturbed /\ (given.timely \/ ~Fails("deinit"))
Connection ==
    Attended => LastWord /\ Ending /\ Heard /\ (given.timely => InTime)

LEMMA ConnectionNext ==
    ASSUME Base, Connection, Next
    PROVE  Connection'
<1> SUFFICES ASSUME Attended PROVE LastWord' /\ Ending' /\ Heard'
  <2>1. Attended' => Attended BY DEF Attended, Undisturbed, Fails, Next
  <2>2. ASSUME Attended, given.timely' PROVE InTime'
    BY <2>2, InTimeNext DEF Connection, Attended, Next
  <2> QED BY <2>1, <2>2 DEF Connection
<1> LastWord /\ Ending /\ Heard /\ (given.timely => InTime) BY DEF Connection
<1> Undisturbed BY DEF Attended
<1> Typed /\ Hardware BY DEF Base
<1> AtBoot BY DEF Base, Patient, Undisturbed
<1> FlagsTyped /\ PlacesTyped BY DEF Typed
<1> given' = given BY DEF Next
<1> /\ "GOT_IP" \in Events /\ "STA_DISCONNECTED" \in Events
    /\ "SCAN_DONE" \in Events /\ "STA_START" \in Events
  BY DEF Events
<1>21. ASSUME Unlinked \/ UNCHANGED <<link, peer, events>>, state' = "CONNECTED" => state = "CONNECTED"
       PROVE  LastWord'
  <2>1. CASE Unlinked
    <3>1. \A f : Has(events', f) <=>
                   Has(events, f) \/ (f = "STA_DISCONNECTED" /\ link # "none")
      BY <2>1, UnlinkedHas
    <3>2. LostAtLast(events) \/ link # "none" => LostAtLast(events')
      BY <2>1, UnlinkedLost
    <3>3. link' = "none" BY <2>1 DEF Unlinked
    <3> QED BY <1>21, <3>1, <3>2, <3>3 DEF LastWord, PlacesTyped
  <2>2. CASE UNCHANGED <<link, peer, events>> BY <1>21, <2>2 DEF LastWord
  <2> QED BY <1>21, <2>1, <2>2
<1>1. CASE \E n \in Networks : nac_request_wifi_connect(n)
  BY <1>1, HasNone DEF LastWord, Ending, Heard, AtBoot, Hardware, Settled,
     Quiet, Undisturbed, nac_request_wifi_connect, CanRequest, nacVars,
     driverVars
<1>2. CASE nac_request_wifi_scan \/ FactoryReset \/
   nac_request_wifi_disconnect
  BY <1>2, HasNone DEF LastWord, Ending, Heard, AtBoot, Hardware, Settled,
     Quiet, Undisturbed, nac_request_wifi_scan, FactoryReset,
     nac_request_wifi_disconnect, CanRequest, WifiDisconnect, NotifyDown,
     nacVars, driverVars
<1>3. CASE ResetDisconnect
  BY <1>3, HasNone DEF LastWord, Ending, Heard, AtBoot, Hardware, Settled,
     Quiet, Undisturbed, ResetDisconnect, WifiDisconnect, NotifyDown, nacVars,
     driverVars
<1>4. CASE DisconnectStop
  <2>1. /\ Unlinked \/ UNCHANGED <<link, peer, events>>
        /\ UNCHANGED <<state, main, queued, handlers>> /\ lvgl = "teardown"
        /\ (lvgl' = "ui" \/ (lvgl' = "deinit" /\ radio' = FALSE /\ scanning' = FALSE))
    BY <1>4, StayingOnline DEF DisconnectStop, StopRadio, Unlinked, nacVars
  <2>2. \A f : Has(events', f) => Has(events, f) \/ f = "STA_DISCONNECTED"
    BY <2>1, UnlinkedHas
  <2>3. link' \in {link, "none"} BY <2>1 DEF Unlinked
  <2>4. Ending' BY <2>1, <2>2, <2>3 DEF Ending
  <2> QED BY <1>21, <2>1, <2>4 DEF Heard
<1>5. CASE DisconnectDeinit
  BY <1>5, HasNone DEF LastWord, Ending, Heard, AtBoot, Hardware, Settled,
     Quiet, Undisturbed, DisconnectDeinit, nacVars, driverVars
<1>6. CASE BootNothing \/ BootFound
  BY <1>6, HasNone DEF LastWord, Ending, Heard, AtBoot, Hardware, Settled,
     Quiet, Undisturbed, BootNothing, BootFound, Fails, nacVars, driverVars
<1>7. CASE BootScan
  <2>1. (StartRadio \/ events' = events) /\ link' = link /\ lvgl' = lvgl /\ state' = "IDLE"
    BY <1>7 DEF BootScan, AtBoot
  <2>2. LastWord'
    <3>1. ~Has(events', "GOT_IP") BY <1>7, <2>1, StartHas DEF BootScan, AtBoot
    <3> QED BY <2>1, <3>1 DEF LastWord
  <2> QED BY <1>7, <2>1, <2>2 DEF BootScan, AtBoot, Ending, Heard
<1>8. CASE BootOffline
  <2>1. Unlinked \/ UNCHANGED <<link, peer, events>> BY <1>8, GoingOffline DEF BootOffline
  <2> QED BY <1>8, <1>21, <2>1 DEF BootOffline, AtBoot, Ending, Heard
<1>9. CASE ConnectNothing \/ ConnectAlready \/ ConnectRequested \/
   ConnectGiveUp
  BY <1>9, HasNone DEF LastWord, Ending, Heard, AtBoot, Hardware, Settled,
     Quiet, Undisturbed, ConnectNothing, ConnectAlready, ConnectRequested,
     ConnectGiveUp, Called, RetriesLeft, nacVars, driverVars
<1>10. CASE ConnectReset
  <2>1. /\ Unlinked \/ UNCHANGED <<link, peer, events>>
        /\ state = "RECONNECT" /\ queued /\ UNCHANGED <<state, lvgl>>
    BY <1>10 DEF ConnectReset, Called, RestartHardware, StopRadio, Unlinked
  <2> QED BY <1>21, <2>1 DEF Ending, Heard
<1>11. CASE ConnectConfigure
  <2>1. main = "settle" /\ lvgl' = lvgl BY <1>11 DEF ConnectConfigure
  <2>2. Ending' BY <2>1 DEF Ending
  <2>3. CASE state' = "CONNECTING" /\ UNCHANGED <<link, events>>
    BY <2>2, <2>3 DEF LastWord, Heard
  <2>4. CASE BringOffline /\ state' = IF hwOnline /\ ~hwOnline' THEN "IDLE" ELSE state
    <3>1. Unlinked \/ UNCHANGED <<link, peer, events>> BY <2>4, GoingOffline
    <3>2. LastWord' BY <1>21, <2>4, <3>1
    <3>3. Heard'
      <4>1. CASE handlers' = handlers BY <2>4, <4>1 DEF Heard
      <4>2. CASE hwOnline /\ hwOnline' = FALSE BY <2>4, <4>2 DEF Heard
      <4>3. CASE Fails("deinit") /\ hwOnline' = hwOnline
        <5>1. state # "CONNECTED" BY <2>1, <4>3 DEF Attended, InTime, Pausing
        <5> QED BY <2>4, <4>3, <5>1 DEF Heard
      <4> QED BY <2>4, <4>1, <4>2, <4>3 DEF BringOffline, StaysOnline
    <3> QED BY <2>2, <3>2, <3>3
  <2> QED BY <1>11, <2>3, <2>4 DEF ConnectConfigure
<1>12. CASE ConnectStart
  <2>1. main = "start" /\ lvgl' = lvgl BY <1>12 DEF ConnectStart
  <2>2. Ending' BY <2>1 DEF Ending
  <2>3. CASE StartRadio /\ UNCHANGED <<state, handlers, link>>
    BY <2>2, <2>3, StartHas, StartLost DEF LastWord, Heard
  <2>4. CASE BringOffline /\ state' = "IDLE"
    <3>1. Unlinked \/ UNCHANGED <<link, peer, events>> BY <2>4, GoingOffline
    <3>2. LastWord' BY <1>21, <2>4, <3>1
    <3> QED BY <2>2, <2>4, <3>2 DEF Heard
  <2> QED BY <1>12, <2>3, <2>4 DEF ConnectStart
<1>13. CASE ScanStart
  <2>1. /\ StartRadio \/ events' = events
        /\ main = "loop" /\ queued /\ state = "START_SCAN"
        /\ UNCHANGED <<link, lvgl, state>>
    BY <1>13 DEF ScanStart, Called
  <2>2. Ending' BY <2>1 DEF Ending
  <2>3. LastWord'
    <3>1. CASE StartRadio BY <2>1, <3>1, StartHas, StartLost DEF LastWord
    <3>2. CASE events' = events BY <2>1, <3>2 DEF LastWord
    <3> QED BY <2>1, <3>1, <3>2
  <2> QED BY <2>1, <2>2, <2>3 DEF Heard
<1>14. CASE ScanStarted \/ ConnectReturn
  BY <1>14, HasNone DEF LastWord, Ending, Heard, AtBoot, Hardware, Settled,
     Quiet, Undisturbed, ScanStarted, ConnectReturn, nacVars, driverVars
<1>15. CASE DropEvent \/ OnStaStart
  BY <1>15, HasNone, DispatchHas, DispatchLost DEF LastWord, Ending, Heard,
     AtBoot, Hardware, Settled, Quiet, Undisturbed, DropEvent, OnStaStart,
     Dispatch, nacVars, driverVars
<1>16. CASE OnStaDisconnected
  <2>1. /\ Dispatch("STA_DISCONNECTED") /\ handlers
        /\ UNCHANGED <<link, main, lvgl, handlers, scanning, radio>>
    BY <1>16 DEF OnStaDisconnected, Dispatch
  <2>2. state' # "CONNECTED"
    BY <1>16 DEF OnStaDisconnected, Active, Reconnect
  <2>3. LastWord'
    BY <2>1, <2>2, DispatchHas, DispatchLost DEF LastWord
  <2>4. lvgl # "ui" => events # <<>> /\ state = "IDLE"
    BY <2>1 DEF Ending, Dispatch, PlacesTyped
  <2>5. lvgl # "ui" => state' = "IDLE" /\ queued' = queued
    BY <1>16, <2>4 DEF OnStaDisconnected, Active
  <2>6. Ending'
    BY <2>1, <2>4, <2>5, DispatchHas DEF Ending
  <2> QED BY <2>2, <2>3, <2>6 DEF Heard
<1>17. CASE OnScanDone
  BY <1>17, HasNone, DispatchHas, DispatchLost DEF LastWord, Ending, Heard,
     AtBoot, Hardware, Settled, Quiet, Undisturbed, OnScanDone, Dispatch,
     nacVars, driverVars
<1>18. CASE OnGotIp
  BY <1>18, HasNone, DispatchHas, DispatchLost DEF LastWord, Ending, Heard,
     AtBoot, Hardware, Settled, Quiet, Undisturbed, OnGotIp, Dispatch,
     nacVars, driverVars
<1>19. CASE LinkUp \/ LinkRefused
  BY <1>19, HasNone, PostHas, PostLost DEF LastWord, Ending, Heard, AtBoot,
     Hardware, Settled, Quiet, Undisturbed, LinkUp, LinkRefused, Post,
     nacVars, driverVars
<1>20. CASE LinkLost \/ ScanFinished
  BY <1>20, HasNone, PostHas, PostLost DEF LastWord, Ending, Heard, AtBoot,
     Hardware, Settled, Quiet, Undisturbed, LinkLost, ScanFinished, Post,
     nacVars, driverVars
<1> QED BY <1>1, <1>2, <1>3, <1>4, <1>5, <1>6, <1>7, <1>8, <1>9, <1>10, <1>11,
   <1>12, <1>13, <1>14, <1>15, <1>16, <1>17, <1>18, <1>19, <1>20 DEF Next,
   User, Lvgl, Connect, EventLoop, Driver

LEMMA ConnectionInvariant == Spec => [](Base /\ Connection)
<1>1. Init => Connection
  <2> SUFFICES ASSUME Init PROVE LastWord /\ Ending /\ Heard /\ InTime
    BY DEF Connection
  <2>1. LastWord /\ Ending /\ Heard BY HasNone DEF Init, LastWord, Ending, Heard
  <2>2. First(events, "STA_START") /\ LossIsLast(events) BY DEF Init, First, LossIsLast
  <2> QED
    BY <2>1, <2>2, HasNone DEF Init, InTime, Between, Pausing, Fresh, StartAwaits, LossAwaits
<1>2. Base /\ Connection /\ [Next]_vars => Connection'
  <2>1. ASSUME Base, Connection, UNCHANGED vars PROVE Connection'
    <3>1. UNCHANGED <<given, state, main, lvgl, link, events, queued, scanning, radio,
                      handlers>>
      BY <2>1 DEF vars, nacVars, driverVars
    <3>2. LastWord => LastWord' BY <3>1 DEF LastWord, LostAtLast, Has
    <3>3. Ending => Ending' BY <3>1 DEF Ending, Has
    <3>4. Heard => Heard' BY <3>1 DEF Heard
    <3>5. InTime => InTime'
      BY <3>1 DEF InTime, Between, Pausing, Fresh, StartAwaits, LossAwaits, Has, First,
         LossIsLast
    <3>6. Attended' => Attended BY <3>1 DEF Attended, Undisturbed, Fails
    <3> QED BY <2>1, <3>1, <3>2, <3>3, <3>4, <3>5, <3>6 DEF Connection
  <2> QED BY <2>1, ConnectionNext
<1> QED BY <1>1, <1>2, BaseInvariant, PTL DEF Spec

(* Once the events under way have been handled, CONNECTED means a link,
   whatever driver call fails: only a failing esp_wifi_deinit() needs the
   timing the code counts on. *)
THEOREM NacConnectedIsLinked == Spec => []ConnectedMeansLink
<1>1. Base /\ Connection => ConnectedMeansLink
  <2> SUFFICES ASSUME Base, Connection, Attended, state = "CONNECTED", Quiet
               PROVE  link = "up"
    BY DEF ConnectedMeansLink, Attended
  <2>1. ~LostAtLast(events) BY DEF LostAtLast, Quiet
  <2> QED BY <2>1 DEF Connection, LastWord
<1> QED BY <1>1, ConnectionInvariant, PTL

-----------------------------------------------------------------------------
(* Each finished scan that waits is followed by the news of an address. *)
AddressAfterScan(s) ==
    \A i \in 1 .. Len(s) : s[i] = "SCAN_DONE" =>
        \E j \in i + 1 .. Len(s) : s[j] = "GOT_IP"

LEMMA ScanPosted ==
    ASSUME NEW s \in Seq(Events), NEW e \in Events,
           e = "GOT_IP" \/ (e # "SCAN_DONE" /\ AddressAfterScan(s))
    PROVE  AddressAfterScan(Append(s, e))
<1> SUFFICES ASSUME NEW i \in 1 .. Len(Append(s, e)), Append(s, e)[i] = "SCAN_DONE"
             PROVE  \E j \in i + 1 .. Len(Append(s, e)) : Append(s, e)[j] = "GOT_IP"
  BY DEF AddressAfterScan
<1>1. i \in 1 .. Len(s) /\ s[i] = "SCAN_DONE"
  <2>1. i \in 1 .. Len(s) \/ i = Len(s) + 1 BY Posting
  <2> QED BY <2>1, Posting
<1>2. CASE e = "GOT_IP"
  <2>1. Len(s) + 1 \in i + 1 .. Len(Append(s, e)) BY <1>1, Posting
  <2> QED BY <1>2, <2>1, Posting
<1>3. CASE AddressAfterScan(s)
  <2>1. PICK j \in i + 1 .. Len(s) : s[j] = "GOT_IP"
    BY <1>1, <1>3 DEF AddressAfterScan
  <2>2. j \in 1 .. Len(s) /\ j \in i + 1 .. Len(Append(s, e)) BY <1>1, <2>1, Posting
  <2> QED BY <2>1, <2>2, Posting
<1> QED BY <1>2, <1>3

LEMMA ScanTaken ==
    ASSUME NEW s \in Seq(Events), s # <<>>, AddressAfterScan(s)
    PROVE  /\ AddressAfterScan(Tail(s))
           /\ Head(s) = "SCAN_DONE" => Has(Tail(s), "GOT_IP")
<1>1. ASSUME NEW i \in 1 .. Len(Tail(s)), Tail(s)[i] = "SCAN_DONE"
      PROVE  \E j \in i + 1 .. Len(Tail(s)) : Tail(s)[j] = "GOT_IP"
  <2>1. i + 1 \in 1 .. Len(s) /\ s[i + 1] = "SCAN_DONE" BY <1>1, Taking
  <2>2. PICK j \in i + 1 + 1 .. Len(s) : s[j] = "GOT_IP"
    BY <2>1 DEF AddressAfterScan
  <2>3. j - 1 \in i + 1 .. Len(Tail(s)) /\ Tail(s)[j - 1] = s[j] BY <2>1, <2>2, Taking
  <2> QED BY <2>2, <2>3
<1>2. ASSUME Head(s) = "SCAN_DONE" PROVE Has(Tail(s), "GOT_IP")
  <2>1. 1 \in 1 .. Len(s) /\ s[1] = "SCAN_DONE" BY <1>2, Taking
  <2>2. PICK j \in 1 + 1 .. Len(s) : s[j] = "GOT_IP" BY <2>1 DEF AddressAfterScan
  <2>3. j - 1 \in 1 .. Len(Tail(s)) /\ Tail(s)[j - 1] = s[j] BY <2>2, Taking
  <2> QED BY <2>2, <2>3 DEF Has
<1> QED BY <1>1, <1>2 DEF AddressAfterScan

LEMMA PostScan ==
    ASSUME Typed, NEW e \in Events, Post(e),
           e = "GOT_IP" \/ (e # "SCAN_DONE" /\ AddressAfterScan(events))
    PROVE  AddressAfterScan(events')
BY ScanPosted DEF Post, Typed

LEMMA StartScan ==
    ASSUME Typed, StartRadio, AddressAfterScan(events)
    PROVE  AddressAfterScan(events')
<1>1. "STA_START" \in Events BY DEF Events
<1> QED BY <1>1, ScanPosted DEF StartRadio, Typed

LEMMA DispatchScan ==
    ASSUME Typed, NEW e, Dispatch(e), AddressAfterScan(events)
    PROVE  /\ AddressAfterScan(events')
           /\ e = "SCAN_DONE" => Has(events', "GOT_IP")
BY ScanTaken DEF Dispatch, Typed

(* Without failures and without the scan button, IDLE forgets no link: the
   controller hears of it, and the news of the address is still to come. *)
Forgotten ==
    state = "IDLE" /\ lvgl # "teardown" =>
        /\ link # "none" => handlers
        /\ link = "up" => Has(events, "GOT_IP")
BootScansOnly ==
    /\ state \notin {"START_SCAN", "SCANNING"} /\ main # "scanning"
    /\ scanning => main = "bootscan"
    /\ lvgl # "ui" => ~Has(events, "SCAN_DONE")
    /\ Has(events, "SCAN_DONE") /\ link # "none" => handlers
    /\ link = "up" => AddressAfterScan(events)
TornDown == lvgl = "deinit" /\ state = "IDLE" => link = "none"
Disconnection ==
    Faultless /\ given.patient /\ "scan" \notin given.acts =>
        Forgotten /\ BootScansOnly /\ TornDown

LEMMA DisconnectionNext ==
    ASSUME Base, Disconnection, Next
    PROVE  Disconnection'
<1> SUFFICES ASSUME Faultless, given.patient, "scan" \notin given.acts
             PROVE  Forgotten' /\ BootScansOnly' /\ TornDown'
  BY DEF Disconnection, Faultless, Next
<1> Forgotten /\ BootScansOnly /\ TornDown BY DEF Disconnection
<1> Typed /\ Hardware BY DEF Base
<1> AtBoot BY DEF Base, Patient
<1> FlagsTyped /\ PlacesTyped BY DEF Typed
<1> /\ "GOT_IP" \in Events /\ "STA_DISCONNECTED" \in Events
    /\ "SCAN_DONE" \in Events /\ "STA_START" \in Events
  BY DEF Events
<1> (\A call : ~Fails(call)) /\ "stop" \notin given.faults BY FaultlessDriver
<1>1. CASE \E n \in Networks : nac_request_wifi_connect(n)
  BY <1>1, HasNone DEF Forgotten, BootScansOnly, TornDown, AtBoot, Hardware,
     Settled, Quiet, nac_request_wifi_connect, CanRequest, nacVars, driverVars
<1>2. CASE nac_request_wifi_scan \/ FactoryReset
  BY <1>2, HasNone DEF Forgotten, BootScansOnly, TornDown, AtBoot, Hardware,
     Settled, Quiet, nac_request_wifi_scan, FactoryReset, CanRequest, nacVars,
     driverVars
<1>3. CASE nac_request_wifi_disconnect \/ ResetDisconnect
  BY <1>3, HasNone DEF Forgotten, BootScansOnly, TornDown, AtBoot, Hardware,
     Settled, Quiet, nac_request_wifi_disconnect, ResetDisconnect, CanRequest,
     WifiDisconnect, NotifyDown, nacVars, driverVars
<1>4. CASE DisconnectStop
  <2>1. CASE ~hwOnline /\ lvgl' = "ui" /\ UNCHANGED <<radio, scanning, link, peer, events>>
    <3>1. link = "none" /\ ~Has(events, "SCAN_DONE")
      BY <1>4, <2>1 DEF DisconnectStop, Hardware, BootScansOnly
    <3> QED
      BY <1>4, <2>1, <3>1 DEF DisconnectStop, Forgotten, BootScansOnly, TornDown,
         nacVars
  <2>2. CASE StopRadio /\ lvgl' = "deinit"
    <3>1. link' = "none" /\ ~scanning' BY <2>2 DEF StopRadio
    <3>2. ~Has(events', "SCAN_DONE")
      BY <1>4, <2>2, StopHas DEF DisconnectStop, BootScansOnly
    <3> QED
      BY <1>4, <2>2, <3>1, <3>2 DEF DisconnectStop, Forgotten, BootScansOnly,
         TornDown, nacVars
  <2> QED BY <1>4, <2>1, <2>2, FaultlessDriver DEF DisconnectStop
<1>5. CASE DisconnectDeinit
  BY <1>5, HasNone DEF Forgotten, BootScansOnly, TornDown, AtBoot, Hardware,
     Settled, Quiet, DisconnectDeinit, nacVars, driverVars
<1>6. CASE BootNothing \/ BootFound
  BY <1>6, HasNone DEF Forgotten, BootScansOnly, TornDown, AtBoot, Hardware,
     Settled, Quiet, BootNothing, BootFound, nacVars, driverVars
<1>7. CASE BootScan
  BY <1>7, HasNone, StartHas, StartScan DEF Forgotten, BootScansOnly,
     TornDown, AtBoot, Hardware, Settled, Quiet, BootScan, BringOnline,
     StartRadio, nacVars, driverVars
<1>8. CASE BootOffline
  <2>1. /\ main' = "loop" /\ lvgl' = lvgl /\ state' = "IDLE" /\ lvgl = "ui"
        /\ link' = "none" /\ ~scanning'
    BY <1>8, FaultlessOffline DEF BootOffline, AtBoot
  <2> QED BY <2>1 DEF Forgotten, BootScansOnly, TornDown
<1>9. CASE ConnectNothing \/ ConnectAlready \/ ConnectRequested \/
   ConnectGiveUp
  BY <1>9, HasNone DEF Forgotten, BootScansOnly, TornDown, AtBoot, Hardware,
     Settled, Quiet, ConnectNothing, ConnectAlready, ConnectRequested,
     ConnectGiveUp, Called, RetriesLeft, nacVars, driverVars
<1>10. CASE ConnectReset
  <2>1. /\ main = "loop" /\ main' = "settle" /\ state = "RECONNECT"
        /\ UNCHANGED <<lvgl, state>> /\ RestartHardware
    BY <1>10 DEF ConnectReset, Called
  <2>2. link' = "none" /\ ~scanning'
    BY <2>1, FaultlessRestart
  <2>3. Has(events', "SCAN_DONE") => Has(events, "SCAN_DONE")
    BY <2>1, FaultlessRestart
  <2> QED BY <2>1, <2>2, <2>3 DEF Forgotten, BootScansOnly, TornDown
<1>11. CASE ConnectConfigure
  <2>1. /\ main = "settle" /\ lvgl' = lvgl /\ main' \in {"start", "return"}
        /\ link = "none" /\ ~scanning
    BY <1>11 DEF ConnectConfigure, Hardware
  <2>2. CASE state' = "CONNECTING" /\ UNCHANGED <<handlers, radio, scanning, link, events>>
    BY <2>1, <2>2 DEF Forgotten, BootScansOnly, TornDown
  <2>3. CASE BringOffline /\ state' \in {"IDLE", state}
    <3>1. link' = "none" /\ ~scanning'
      BY <2>3, FaultlessOffline
    <3>2. Has(events', "SCAN_DONE") => Has(events, "SCAN_DONE")
      BY <2>3, FaultlessOffline
    <3> QED BY <2>1, <2>3, <3>1, <3>2 DEF Forgotten, BootScansOnly, TornDown
  <2> QED BY <1>11, <2>2, <2>3 DEF ConnectConfigure
<1>12. CASE ConnectStart
  <2>1. /\ main = "start" /\ main' = "return" /\ lvgl' = lvgl
        /\ link = "none" /\ ~scanning
        /\ state' \in {state, "IDLE"}
    BY <1>12 DEF ConnectStart, Hardware
  <2>2. link' = "none" /\ ~scanning'
    BY <1>12, <2>1, FaultlessOffline DEF ConnectStart
  <2>3. Has(events', "SCAN_DONE") => Has(events, "SCAN_DONE")
    BY <1>12, StartHas, FaultlessOffline DEF ConnectStart
  <2> QED BY <2>1, <2>2, <2>3 DEF Forgotten, BootScansOnly, TornDown
<1>13. CASE ScanStart
  BY <1>13, HasNone, StartHas, StartScan DEF Forgotten, BootScansOnly,
     TornDown, AtBoot, Hardware, Settled, Quiet, ScanStart, Called,
     BringOnline, StartRadio, nacVars, driverVars
<1>14. CASE ScanStarted \/ ConnectReturn
  BY <1>14, HasNone DEF Forgotten, BootScansOnly, TornDown, AtBoot, Hardware,
     Settled, Quiet, ScanStarted, ConnectReturn, nacVars, driverVars
<1>15. CASE DropEvent \/ OnStaStart
  BY <1>15, HasNone, DispatchHas, DispatchScan DEF Forgotten, BootScansOnly,
     TornDown, AtBoot, Hardware, Settled, Quiet, DropEvent, OnStaStart,
     Dispatch, nacVars, driverVars
<1>16. CASE OnStaDisconnected
  BY <1>16, HasNone, DispatchHas, DispatchScan DEF Forgotten, BootScansOnly,
     TornDown, AtBoot, Hardware, Settled, Quiet, OnStaDisconnected, Dispatch,
     Active, Reconnect, nacVars, driverVars
<1>17. CASE OnScanDone
  BY <1>17, HasNone, DispatchHas, DispatchScan DEF Forgotten, BootScansOnly,
     TornDown, AtBoot, Hardware, Settled, Quiet, OnScanDone, Dispatch,
     nacVars, driverVars
<1>18. CASE OnGotIp
  BY <1>18, HasNone, DispatchHas, DispatchScan DEF Forgotten, BootScansOnly,
     TornDown, AtBoot, Hardware, Settled, Quiet, OnGotIp, Dispatch, nacVars,
     driverVars
<1>19. CASE LinkUp \/ LinkRefused
  BY <1>19, HasNone, PostHas, PostScan DEF Forgotten, BootScansOnly, TornDown,
     AtBoot, Hardware, Settled, Quiet, LinkUp, LinkRefused, Post, nacVars,
     driverVars
<1>20. CASE LinkLost \/ ScanFinished
  BY <1>20, HasNone, PostHas, PostScan DEF Forgotten, BootScansOnly, TornDown,
     AtBoot, Hardware, Settled, Quiet, LinkLost, ScanFinished, Post, nacVars,
     driverVars
<1> QED BY <1>1, <1>2, <1>3, <1>4, <1>5, <1>6, <1>7, <1>8, <1>9, <1>10, <1>11,
   <1>12, <1>13, <1>14, <1>15, <1>16, <1>17, <1>18, <1>19, <1>20 DEF Next,
   User, Lvgl, Connect, EventLoop, Driver

LEMMA DisconnectionInvariant == Spec => [](Base /\ Disconnection)
<1>1. Init => Disconnection
  BY HasNone DEF Init, Disconnection, Forgotten, BootScansOnly, TornDown
<1>2. Base /\ Disconnection /\ [Next]_vars => Disconnection'
  <2>1. ASSUME Base, Disconnection, UNCHANGED vars PROVE Disconnection'
    BY <2>1 DEF Disconnection, Faultless, Forgotten, BootScansOnly, AddressAfterScan,
       TornDown, Has, vars, nacVars, driverVars
  <2> QED BY <2>1, DisconnectionNext
<1> QED BY <1>1, <1>2, BaseInvariant, PTL DEF Spec

(* Once the events under way have been handled, DISCONNECTED means no link,
   unless a scan or a failing driver call made the controller forget it. *)
THEOREM NacDisconnectedIsUnlinked == Spec => []DisconnectedMeansNoLink
<1>1. Base /\ Disconnection => DisconnectedMeansNoLink
  <2> SUFFICES ASSUME Base, Disconnection, Faultless, given.patient,
                      "scan" \notin given.acts, Status = "DISCONNECTED", Quiet
               PROVE  link # "up"
    BY DEF DisconnectedMeansNoLink
  <2>1. state = "IDLE"
    <3>1. PlacesTyped BY DEF Base, Typed
    <3>2. state \notin {"START_SCAN", "SCANNING"} BY DEF Disconnection, BootScansOnly
    <3> QED BY <3>1, <3>2 DEF Status, PlacesTyped, States
  <2>2. ~Has(events, "GOT_IP") BY HasNone DEF Quiet
  <2>3. lvgl = "ui" BY DEF Quiet
  <2> QED BY <2>1, <2>2, <2>3 DEF Disconnection, Forgotten
<1> QED BY <1>1, DisconnectionInvariant, PTL

-----------------------------------------------------------------------------
(* With the timing the code counts on, nothing comes between main's last
   driver call and the removal of its node, and no event waits while main
   starts the radio. *)
Waiting == {"REQUEST_CONNECT", "RECONNECT", "START_SCAN"}
Served ==
    /\ state \in Waiting => queued
    /\ main = "return" => state \notin Waiting
    /\ main = "settle" /\ ~hwOnline => state \notin Waiting
    /\ main = "start" => events = <<>> /\ state \notin Waiting
    /\ main = "scanning" => state = "START_SCAN"
    /\ state = "START_SCAN" => link # "assoc"
OnTime == Faultless /\ given.patient /\ given.timely
Service == OnTime => Served

LEMMA ServiceNext ==
    ASSUME Base, Service, Next
    PROVE  Service'
<1> SUFFICES ASSUME OnTime PROVE Served'
  BY DEF Service, OnTime, Faultless, Next
<1> Served BY DEF Service
<1> Hardware /\ AtBoot BY DEF Base, Patient, OnTime
<1> FlagsTyped /\ PlacesTyped BY DEF Base, Typed
<1> Faultless BY DEF OnTime
<1> (\A call : ~Fails(call)) /\ "stop" \notin given.faults BY FaultlessDriver
<1> MainYields => main \notin {"scanning", "return"} BY DEF MainYields, OnTime
<1> Slept => events = <<>> BY DEF Slept, OnTime
<1> given.patient BY DEF OnTime
<1>1. CASE (\E n \in Networks : nac_request_wifi_connect(n)) \/
   nac_request_wifi_scan \/ FactoryReset
  BY <1>1 DEF Served, Waiting, AtBoot, Hardware, Settled, Quiet,
     nac_request_wifi_connect, nac_request_wifi_scan, FactoryReset,
     CanRequest, nacVars, driverVars
<1>2. CASE nac_request_wifi_disconnect \/ ResetDisconnect
  BY <1>2 DEF Served, Waiting, AtBoot, Hardware, Settled, Quiet,
     nac_request_wifi_disconnect, ResetDisconnect, CanRequest, WifiDisconnect,
     NotifyDown, nacVars, driverVars
<1>3. CASE DisconnectStop \/ DisconnectDeinit
  BY <1>3, FaultlessDriver DEF Served, Waiting, AtBoot, Hardware, Settled, Quiet,
     DisconnectStop, DisconnectDeinit, StopRadio, nacVars, driverVars
<1>4. CASE BootNothing \/ BootFound
  BY <1>4 DEF Served, Waiting, AtBoot, Hardware, Settled, Quiet, BootNothing,
     BootFound, nacVars, driverVars
<1>5. CASE BootScan \/ BootOffline
  BY <1>5, FaultlessDriver DEF Served, Waiting, AtBoot, Hardware, Settled, Quiet,
     BootScan, BootOffline, BringOnline, StartRadio, StopRadio, nacVars, driverVars
<1>6. CASE ConnectNothing \/ ConnectAlready \/ ConnectRequested \/
   ConnectGiveUp
  BY <1>6 DEF Served, Waiting, AtBoot, Hardware, Settled, Quiet,
     ConnectNothing, ConnectAlready, ConnectRequested, ConnectGiveUp, Called,
     RetriesLeft, nacVars, driverVars
<1>7. CASE ConnectReset
  <2>1. /\ main = "loop" /\ main' = "settle" /\ state = "RECONNECT" /\ queued
        /\ UNCHANGED <<state, queued>> /\ RestartHardware
    BY <1>7 DEF ConnectReset, Called
  <2>2. hwOnline' = TRUE BY <2>1, FaultlessDriver DEF BringOnline, FlagsTyped
  <2> QED BY <2>1, <2>2 DEF Served, Waiting
<1>8. CASE ConnectConfigure
  BY <1>8, FaultlessDriver DEF Served, Waiting, AtBoot, Hardware, Settled, Quiet,
     ConnectConfigure, Configured, StopRadio, nacVars, driverVars
<1>9. CASE ConnectStart
  BY <1>9, FaultlessDriver DEF Served, Waiting, AtBoot, Hardware, Settled, Quiet,
     ConnectStart, StartRadio, StopRadio, nacVars, driverVars
<1>10. CASE ScanStart
  BY <1>10 DEF Served, Waiting, AtBoot, Hardware, Settled, Quiet, ScanStart,
     Called, BringOnline, StartRadio, nacVars, driverVars
<1>11. CASE ScanStarted \/ ConnectReturn
  BY <1>11 DEF Served, Waiting, AtBoot, Hardware, Settled, Quiet, ScanStarted,
     ConnectReturn, nacVars, driverVars
<1>12. CASE DropEvent \/ OnStaStart
  BY <1>12 DEF Served, Waiting, AtBoot, Hardware, Settled, Quiet, DropEvent,
     OnStaStart, Dispatch, nacVars, driverVars
<1>13. CASE OnStaDisconnected
  BY <1>13 DEF Served, Waiting, AtBoot, Hardware, Settled, Quiet,
     OnStaDisconnected, Dispatch, Active, Reconnect, nacVars, driverVars
<1>14. CASE OnScanDone \/ OnGotIp
  BY <1>14 DEF Served, Waiting, AtBoot, Hardware, Settled, Quiet, OnScanDone,
     OnGotIp, Dispatch, nacVars, driverVars
<1>15. CASE LinkUp \/ LinkRefused
  BY <1>15 DEF Served, Waiting, AtBoot, Hardware, Settled, Quiet, LinkUp,
     LinkRefused, Post, nacVars, driverVars
<1>16. CASE LinkLost \/ ScanFinished
  BY <1>16 DEF Served, Waiting, AtBoot, Hardware, Settled, Quiet, LinkLost,
     ScanFinished, Post, nacVars, driverVars
<1> QED BY <1>1, <1>2, <1>3, <1>4, <1>5, <1>6, <1>7, <1>8, <1>9, <1>10, <1>11,
   <1>12, <1>13, <1>14, <1>15, <1>16 DEF Next, User, Lvgl, Connect, EventLoop,
   Driver

LEMMA ServiceInvariant == Spec => [](Base /\ Service)
<1>1. Init => Service BY DEF Init, Service, Served, Waiting
<1>2. Base /\ Service /\ [Next]_vars => Service'
  <2>1. ASSUME Base, Service, UNCHANGED vars PROVE Service'
    BY <2>1 DEF Service, OnTime, Faultless, Served, vars, nacVars, driverVars
  <2> QED BY <2>1, ServiceNext
<1> QED BY <1>1, <1>2, BaseInvariant, PTL DEF Spec

(* A state that waits for the main task has the node in the scheduler. *)
THEOREM NacWorkersStay == Spec => []WorkHasWorker
<1>1. Service => WorkHasWorker
  BY DEF Service, OnTime, Served, Waiting, WorkHasWorker
<1> QED BY <1>1, ServiceInvariant, PTL

-----------------------------------------------------------------------------
LEMMA DispatchLast ==
    ASSUME Typed, NEW e, Dispatch(e), Len(events) = 1
    PROVE  events' = <<>>
<1>1. events' \in Seq(Events) /\ Len(events') = 0 BY Taking DEF Dispatch, Typed
<1> QED BY <1>1, EmptySeq

LEMMA StartAlone ==
    ASSUME Typed, StartRadio, events = <<>>, ~radio
    PROVE  Len(events') = 1 /\ \A f : Has(events', f) => f = "STA_START"
<1>1. "STA_START" \in Events BY DEF Events
<1> QED BY <1>1, Posting, StartHas, HasNone DEF StartRadio, Typed

(* Until the credentials at hand have been stored: an association, or the
   news of its address, belongs to the attempt that is under way, and no
   event that would end the attempt waits before it. *)
Associating ==
    /\ state # "CONNECTED"
    /\ link = "assoc" => state = "CONNECTING" /\ events = <<>>
    /\ Has(events, "GOT_IP") => state = "CONNECTING" /\ First(events, "GOT_IP")
Attempting ==
    state = "CONNECTING" =>
        /\ ~scanning /\ ~Has(events, "SCAN_DONE")
        /\ Has(events, "STA_START") => Len(events) = 1 /\ link = "none"
        /\ link = "up" /\ handlers => Has(events, "GOT_IP")
Leaving ==
    lvgl # "ui" =>
        /\ main = "loop" /\ ~queued /\ ~scanning /\ link # "assoc"
        /\ \A f : Has(events, f) => f = "STA_DISCONNECTED"
        /\ state = "IDLE" \/ lvgl = "erased"
        /\ lvgl = "erased" /\ state = "CONNECTING" /\ handlers
              => link # "up" /\ events = <<>>
Unsaved == OnTime /\ ~saved => Associating /\ Attempting /\ Leaving

LEMMA UnsavedNext ==
    ASSUME Base, Service, Unsaved, Next
    PROVE  Unsaved'
<1> SUFFICES ASSUME OnTime, ~saved' PROVE Associating' /\ Attempting' /\ Leaving'
  BY DEF Unsaved, OnTime, Faultless, Next
<1> Typed /\ Hardware /\ AtBoot /\ Credentials BY DEF Base, Patient, OnTime
<1> Served BY DEF Service
<1> FlagsTyped /\ PlacesTyped BY DEF Typed
<1> Faultless BY DEF OnTime
<1> (\A call : ~Fails(call)) /\ "stop" \notin given.faults BY FaultlessDriver
<1> MainYields => main \notin {"scanning", "return"} BY DEF MainYields, OnTime
<1> Slept => events = <<>> BY DEF Slept, OnTime
<1> given.patient BY DEF OnTime
<1> /\ "GOT_IP" \in Events /\ "STA_DISCONNECTED" \in Events
    /\ "SCAN_DONE" \in Events /\ "STA_START" \in Events
  BY DEF Events
<1>1. CASE \E n \in Networks : nac_request_wifi_connect(n)
  BY <1>1, HasNone DEF Unsaved, Associating, Attempting, Leaving, Served,
     Waiting, AtBoot, Credentials, Hardware, Settled, Quiet,
     nac_request_wifi_connect, CanRequest, nacVars, driverVars
<1>2. CASE nac_request_wifi_scan \/ FactoryReset
  BY <1>2, HasNone DEF Unsaved, Associating, Attempting, Leaving, Served,
     Waiting, AtBoot, Credentials, Hardware, Settled, Quiet,
     nac_request_wifi_scan, FactoryReset, CanRequest, nacVars, driverVars
<1>3. CASE nac_request_wifi_disconnect \/ ResetDisconnect
  BY <1>3, HasNone DEF Unsaved, Associating, Attempting, Leaving, Served,
     Waiting, AtBoot, Credentials, Hardware, Settled, Quiet,
     nac_request_wifi_disconnect, ResetDisconnect, CanRequest, WifiDisconnect,
     NotifyDown, nacVars, driverVars
<1>4. CASE DisconnectStop
  BY <1>4, HasNone, StopHas, FaultlessDriver DEF Unsaved, Associating, Attempting,
     Leaving, Served, Waiting, AtBoot, Credentials, Hardware, Settled, Quiet,
     DisconnectStop, StopRadio, nacVars, driverVars
<1>5. CASE DisconnectDeinit
  BY <1>5, HasNone DEF Unsaved, Associating, Attempting, Leaving, Served,
     Waiting, AtBoot, Credentials, Hardware, Settled, Quiet, DisconnectDeinit,
     nacVars, driverVars
<1>6. CASE BootNothing \/ BootFound
  BY <1>6, HasNone DEF Unsaved, Associating, Attempting, Leaving, Served,
     Waiting, AtBoot, Credentials, Hardware, Settled, Quiet, BootNothing,
     BootFound, nacVars, driverVars
<1>7. CASE BootScan
  BY <1>7, HasNone, StartHas, StartAlone DEF Unsaved, Associating, Attempting,
     Leaving, Served, Waiting, AtBoot, Credentials, Hardware, Settled, Quiet,
     BootScan, BringOnline, StartRadio, nacVars, driverVars
<1>8. CASE BootOffline
  BY <1>8, HasNone, StopHas, FaultlessDriver DEF Unsaved, Associating, Attempting,
     Leaving, Served, Waiting, AtBoot, Credentials, Hardware, Settled, Quiet,
     BootOffline, StopRadio, nacVars, driverVars
<1>9. CASE ConnectNothing \/ ConnectAlready \/ ConnectRequested \/
   ConnectGiveUp
  BY <1>9, HasNone DEF Unsaved, Associating, Attempting, Leaving, Served,
     Waiting, AtBoot, Credentials, Hardware, Settled, Quiet, ConnectNothing,
     ConnectAlready, ConnectRequested, ConnectGiveUp, Called, RetriesLeft,
     nacVars, driverVars
<1>10. CASE ConnectReset
  <2>1. /\ main = "loop" /\ queued /\ state = "RECONNECT"
        /\ UNCHANGED <<lvgl, state, saved>> /\ RestartHardware
    BY <1>10 DEF ConnectReset, Called
  <2>2. lvgl = "ui" /\ ~Has(events, "GOT_IP")
    BY <2>1 DEF Unsaved, Leaving, Associating
  <2>3. link' = "none" /\ ~Has(events', "GOT_IP")
    BY <2>1, <2>2, FaultlessRestart
  <2> QED BY <2>1, <2>2, <2>3 DEF Associating, Attempting, Leaving
<1>11. CASE ConnectConfigure
  <2>1. /\ main = "settle" /\ events = <<>> /\ link = "none" /\ ~scanning
        /\ UNCHANGED <<lvgl, saved>>
    BY <1>11 DEF ConnectConfigure, Hardware
  <2>2. lvgl = "ui" /\ state # "CONNECTED" /\ \A f : ~Has(events, f)
    BY <2>1, HasNone DEF Unsaved, Leaving, Associating
  <2>3. CASE state' = "CONNECTING" /\ UNCHANGED <<scanning, link, events>>
    BY <2>1, <2>2, <2>3 DEF Associating, Attempting, Leaving
  <2>4. CASE BringOffline /\ state' \in {state, "IDLE"}
    <3>1. link' = "none" /\ ~scanning' /\ \A f : ~Has(events', f)
      BY <2>1, <2>2, <2>4, FaultlessOffline
    <3>2. state # "CONNECTING" BY <2>1 DEF Hardware
    <3> QED BY <2>1, <2>2, <2>4, <3>1, <3>2 DEF Associating, Attempting, Leaving
  <2> QED BY <1>11, <2>3, <2>4 DEF ConnectConfigure
<1>12. CASE ConnectStart
  <2>1. /\ main = "start" /\ events = <<>> /\ ~radio /\ link = "none" /\ ~scanning
        /\ main' = "return" /\ UNCHANGED <<lvgl, saved>>
    BY <1>12 DEF ConnectStart, Served, Hardware
  <2>2. lvgl = "ui" /\ state # "CONNECTED" /\ link' = "none" /\ ~scanning'
    BY <1>12, <2>1, FaultlessOffline DEF ConnectStart, Unsaved, Leaving, Associating
  <2>3. CASE StartRadio /\ state' = state
    <3>1. Len(events') = 1 /\ \A f : Has(events', f) => f = "STA_START"
      BY <2>1, <2>3, StartAlone
    <3> QED BY <2>1, <2>2, <2>3, <3>1 DEF Associating, Attempting, Leaving
  <2>4. CASE BringOffline /\ state' = "IDLE"
    <3>1. \A f : ~Has(events', f) BY <2>1, <2>4, FaultlessOffline, HasNone
    <3> QED BY <2>1, <2>2, <2>4, <3>1 DEF Associating, Attempting, Leaving
  <2> QED BY <1>12, <2>3, <2>4 DEF ConnectStart
<1>13. CASE ScanStart
  <2>1. /\ StartRadio \/ events' = events
        /\ main = "loop" /\ queued /\ state = "START_SCAN" /\ link # "assoc"
        /\ UNCHANGED <<link, lvgl, state, saved>>
    BY <1>13 DEF ScanStart, Called, Served
  <2>2. lvgl = "ui" /\ ~Has(events, "GOT_IP")
    BY <2>1 DEF Unsaved, Leaving, Associating
  <2>3. ~Has(events', "GOT_IP")
    BY <2>1, <2>2, StartHas
  <2> QED BY <2>1, <2>2, <2>3 DEF Associating, Attempting, Leaving
<1>14. CASE ScanStarted \/ ConnectReturn
  BY <1>14, HasNone DEF Unsaved, Associating, Attempting, Leaving, Served,
     Waiting, AtBoot, Credentials, Hardware, Settled, Quiet, ScanStarted,
     ConnectReturn, nacVars, driverVars
<1>15. CASE DropEvent
  <2>1. PICK e \in Events : Dispatch(e) BY <1>15 DEF DropEvent
  <2>2. /\ ~handlers /\ UNCHANGED <<nacVars, link, main, lvgl, handlers, scanning>>
        /\ events # <<>>
    BY <1>15, <2>1 DEF DropEvent, Dispatch
  <2>3. \A f : Has(events', f) => Has(events, f) BY <2>1, DispatchHas
  <2>4. First(events, "GOT_IP") => ~Has(events', "GOT_IP") BY <2>1, DispatchFirst
  <2>5. ~Has(events', "STA_START") \/ state # "CONNECTING"
    BY <2>1, <2>2, <2>3, DispatchLast, HasNone DEF Unsaved, Attempting, nacVars
  <2> QED
    BY <2>2, <2>3, <2>4, <2>5 DEF Unsaved, Associating, Attempting, Leaving, nacVars
<1>16. CASE OnStaStart
  BY <1>16, HasNone, DispatchHas, DispatchFirst, DispatchLast DEF Unsaved,
     Associating, Attempting, Leaving, Served, Waiting, AtBoot, Credentials,
     Hardware, Settled, Quiet, OnStaStart, Dispatch, nacVars, driverVars
<1>17. CASE OnStaDisconnected
  BY <1>17, HasNone, DispatchHas, DispatchFirst, DispatchLast DEF Unsaved,
     Associating, Attempting, Leaving, Served, Waiting, AtBoot, Credentials,
     Hardware, Settled, Quiet, OnStaDisconnected, Dispatch, Active, Reconnect,
     nacVars, driverVars
<1>18. CASE OnScanDone
  BY <1>18, HasNone, DispatchHas, DispatchFirst, DispatchLast DEF Unsaved,
     Associating, Attempting, Leaving, Served, Waiting, AtBoot, Credentials,
     Hardware, Settled, Quiet, OnScanDone, Dispatch, nacVars, driverVars
<1>19. CASE OnGotIp
  BY <1>19, HasNone, DispatchHas, DispatchFirst, DispatchLast DEF Unsaved,
     Associating, Attempting, Leaving, Served, Waiting, AtBoot, Credentials,
     Hardware, Settled, Quiet, OnGotIp, Dispatch, nacVars, driverVars
<1>20. CASE LinkUp \/ LinkRefused
  BY <1>20, HasNone, PostHas, PostFirst DEF Unsaved, Associating, Attempting,
     Leaving, Served, Waiting, AtBoot, Credentials, Hardware, Settled, Quiet,
     LinkUp, LinkRefused, Post, nacVars, driverVars
<1>21. CASE LinkLost \/ ScanFinished
  BY <1>21, HasNone, PostHas, PostFirst DEF Unsaved, Associating, Attempting,
     Leaving, Served, Waiting, AtBoot, Credentials, Hardware, Settled, Quiet,
     LinkLost, ScanFinished, Post, nacVars, driverVars
<1> QED BY <1>1, <1>2, <1>3, <1>4, <1>5, <1>6, <1>7, <1>8, <1>9, <1>10, <1>11,
   <1>12, <1>13, <1>14, <1>15, <1>16, <1>17, <1>18, <1>19, <1>20, <1>21 DEF
   Next, User, Lvgl, Connect, EventLoop, Driver

LEMMA UnsavedInvariant == Spec => [](Base /\ Service /\ Unsaved)
<1>1. Init => Unsaved
  BY HasNone DEF Init, Unsaved, Associating, Attempting, Leaving
<1>2. Base /\ Service /\ Unsaved /\ [Next]_vars => Unsaved'
  <2>1. ASSUME Base, Unsaved, UNCHANGED vars PROVE Unsaved'
    BY <2>1 DEF Unsaved, OnTime, Faultless, Associating, First, Attempting,
       Leaving, Has, vars, nacVars, driverVars
  <2> QED BY <2>1, UnsavedNext
<1> QED BY <1>1, <1>2, ServiceInvariant, BaseInvariant, PTL DEF Spec

(* Credentials are stored at the end of a connection attempt only. *)
THEOREM NacStoredByAttempt == Spec => StoredByAttempt
<1>1. Base /\ Unsaved /\ [Next]_vars
         => [Faultless /\ given.patient /\ given.timely /\ NewCreds
                => state = "CONNECTING"]_vars
  <2> SUFFICES ASSUME Base, Unsaved, Next, OnTime, NewCreds PROVE state = "CONNECTING"
    BY DEF OnTime
  <2>1. OnGotIp /\ ~saved BY CredsStored
  <2>2. "GOT_IP" \in Events BY DEF Events
  <2>3. Has(events, "GOT_IP") BY <2>1, <2>2, DispatchHas DEF OnGotIp, Base
  <2> QED BY <2>1, <2>3 DEF Unsaved, Associating
<1> QED BY <1>1, UnsavedInvariant, PTL DEF Spec, StoredByAttempt

-----------------------------------------------------------------------------
(* The order of the waiting events: a finished scan stands before each start
   of the radio, after it, between two of them; news of the link come after
   it, and the loss of the link is reported once. *)
ScanBeforeStarts(s) ==
    \A i \in 1 .. Len(s) : s[i] = "STA_START" => \E j \in 1 .. i - 1 : s[j] = "SCAN_DONE"
ScanAfterStarts(s) ==
    \A i \in 1 .. Len(s) : s[i] = "STA_START" =>
        \E j \in i + 1 .. Len(s) : s[j] = "SCAN_DONE"
ScanBetweenStarts(s) ==
    \A i, j \in 1 .. Len(s) : i < j /\ s[i] = "STA_START" /\ s[j] = "STA_START" =>
        \E k \in i + 1 .. j - 1 : s[k] = "SCAN_DONE"
ScanFirst(s) ==
    \A i, j \in 1 .. Len(s) :
        s[i] = "SCAN_DONE" /\ s[j] \in {"STA_DISCONNECTED", "GOT_IP"} => i < j
LostOnce(s) ==
    \A i, j \in 1 .. Len(s) :
        s[i] = "STA_DISCONNECTED" /\ s[j] = "STA_DISCONNECTED" => i = j

LEMMA BeforePosted ==
    ASSUME NEW s \in Seq(Events), NEW e \in Events, ScanBeforeStarts(s),
           e # "STA_START" \/ Has(s, "SCAN_DONE")
    PROVE  ScanBeforeStarts(Append(s, e))
<1> SUFFICES ASSUME NEW i \in 1 .. Len(Append(s, e)), Append(s, e)[i] = "STA_START"
             PROVE  \E j \in 1 .. i - 1 : Append(s, e)[j] = "SCAN_DONE"
  BY DEF ScanBeforeStarts
<1>1. i \in 1 .. Len(s) \/ i = Len(s) + 1 BY Posting
<1>2. CASE i \in 1 .. Len(s)
  <2>1. PICK j \in 1 .. i - 1 : s[j] = "SCAN_DONE"
    BY <1>2, Posting DEF ScanBeforeStarts
  <2>2. j \in 1 .. Len(s) BY <1>2, <2>1, Posting
  <2> QED BY <2>1, <2>2, Posting
<1>3. CASE i = Len(s) + 1
  <2>1. e = "STA_START" BY <1>3, Posting
  <2>2. PICK j \in 1 .. Len(s) : s[j] = "SCAN_DONE" BY <2>1 DEF Has
  <2>3. j \in 1 .. i - 1 BY <1>3, <2>2, Posting
  <2> QED BY <2>2, <2>3, Posting
<1> QED BY <1>1, <1>2, <1>3

LEMMA BeforeTaken ==
    ASSUME NEW s \in Seq(Events), s # <<>>, ScanBeforeStarts(s)
    PROVE  /\ Head(s) # "STA_START"
           /\ Head(s) # "SCAN_DONE" => ScanBeforeStarts(Tail(s))
<1>1. Head(s) # "STA_START"
  <2>1. 1 \in 1 .. Len(s) /\ s[1] = Head(s) BY Taking
  <2>2. ~ \E j \in 1 .. 1 - 1 : s[j] = "SCAN_DONE" OBVIOUS
  <2> QED BY <2>1, <2>2 DEF ScanBeforeStarts
<1>2. ASSUME Head(s) # "SCAN_DONE", NEW i \in 1 .. Len(Tail(s)), Tail(s)[i] = "STA_START"
      PROVE  \E j \in 1 .. i - 1 : Tail(s)[j] = "SCAN_DONE"
  <2>1. i + 1 \in 1 .. Len(s) /\ s[i + 1] = "STA_START" BY <1>2, Taking
  <2>2. PICK j \in 1 .. i + 1 - 1 : s[j] = "SCAN_DONE" BY <2>1 DEF ScanBeforeStarts
  <2>3. j # 1 BY <1>2, <2>2, Taking
  <2>4. j - 1 \in 1 .. i - 1 /\ j - 1 \in 1 .. Len(s) - 1 BY <2>1, <2>2, <2>3, Taking
  <2>5. Tail(s)[j - 1] = s[j] BY <2>2, <2>4, Taking
  <2> QED BY <2>2, <2>4, <2>5
<1> QED BY <1>1, <1>2 DEF ScanBeforeStarts

LEMMA AfterPosted ==
    ASSUME NEW s \in Seq(Events), NEW e \in Events,
           e = "SCAN_DONE" \/ (e # "STA_START" /\ ScanAfterStarts(s))
    PROVE  ScanAfterStarts(Append(s, e))
<1> SUFFICES ASSUME NEW i \in 1 .. Len(Append(s, e)), Append(s, e)[i] = "STA_START"
             PROVE  \E j \in i + 1 .. Len(Append(s, e)) : Append(s, e)[j] = "SCAN_DONE"
  BY DEF ScanAfterStarts
<1>1. i \in 1 .. Len(s) /\ s[i] = "STA_START"
  <2>1. i \in 1 .. Len(s) \/ i = Len(s) + 1 BY Posting
  <2> QED BY <2>1, Posting
<1>2. CASE e = "SCAN_DONE"
  <2>1. Len(s) + 1 \in i + 1 .. Len(Append(s, e)) BY <1>1, Posting
  <2> QED BY <1>2, <2>1, Posting
<1>3. CASE ScanAfterStarts(s)
  <2>1. PICK j \in i + 1 .. Len(s) : s[j] = "SCAN_DONE"
    BY <1>1, <1>3 DEF ScanAfterStarts
  <2>2. j \in 1 .. Len(s) /\ j \in i + 1 .. Len(Append(s, e)) BY <1>1, <2>1, Posting
  <2> QED BY <2>1, <2>2, Posting
<1> QED BY <1>2, <1>3

LEMMA AfterTaken ==
    ASSUME NEW s \in Seq(Events), s # <<>>, ScanAfterStarts(s)
    PROVE  ScanAfterStarts(Tail(s))
<1> SUFFICES ASSUME NEW i \in 1 .. Len(Tail(s)), Tail(s)[i] = "STA_START"
             PROVE  \E j \in i + 1 .. Len(Tail(s)) : Tail(s)[j] = "SCAN_DONE"
  BY DEF ScanAfterStarts
<1>1. i + 1 \in 1 .. Len(s) /\ s[i + 1] = "STA_START" BY Taking
<1>2. PICK j \in i + 1 + 1 .. Len(s) : s[j] = "SCAN_DONE" BY <1>1 DEF ScanAfterStarts
<1>3. j - 1 \in i + 1 .. Len(Tail(s)) /\ Tail(s)[j - 1] = s[j] BY <1>1, <1>2, Taking
<1> QED BY <1>2, <1>3

LEMMA BetweenPosted ==
    ASSUME NEW s \in Seq(Events), NEW e \in Events, ScanBetweenStarts(s),
           e # "STA_START" \/ ScanAfterStarts(s)
    PROVE  ScanBetweenStarts(Append(s, e))
<1> SUFFICES ASSUME NEW i \in 1 .. Len(Append(s, e)), NEW j \in 1 .. Len(Append(s, e)),
                    i < j, Append(s, e)[i] = "STA_START", Append(s, e)[j] = "STA_START"
             PROVE  \E k \in i + 1 .. j - 1 : Append(s, e)[k] = "SCAN_DONE"
  BY DEF ScanBetweenStarts
<1>1. i \in 1 .. Len(s) /\ s[i] = "STA_START" BY Posting
<1>2. j \in 1 .. Len(s) \/ j = Len(s) + 1 BY Posting
<1>3. CASE j \in 1 .. Len(s)
  <2>1. s[j] = "STA_START" BY <1>3, Posting
  <2>2. PICK k \in i + 1 .. j - 1 : s[k] = "SCAN_DONE"
    BY <1>1, <1>3, <2>1 DEF ScanBetweenStarts
  <2>3. k \in 1 .. Len(s) BY <1>1, <1>3, <2>2, Posting
  <2> QED BY <2>2, <2>3, Posting
<1>4. CASE j = Len(s) + 1
  <2>1. e = "STA_START" BY <1>4, Posting
  <2>2. PICK k \in i + 1 .. Len(s) : s[k] = "SCAN_DONE"
    BY <1>1, <2>1 DEF ScanAfterStarts
  <2>3. k \in i + 1 .. j - 1 /\ k \in 1 .. Len(s) BY <1>1, <1>4, <2>2, Posting
  <2> QED BY <2>2, <2>3, Posting
<1> QED BY <1>2, <1>3, <1>4

LEMMA BetweenTaken ==
    ASSUME NEW s \in Seq(Events), s # <<>>, ScanBetweenStarts(s)
    PROVE  /\ ScanBetweenStarts(Tail(s))
           /\ Head(s) = "STA_START" => ScanBeforeStarts(Tail(s))
<1>1. ASSUME NEW i \in 1 .. Len(Tail(s)), NEW j \in 1 .. Len(Tail(s)),
             i < j, Tail(s)[i] = "STA_START", Tail(s)[j] = "STA_START"
      PROVE  \E k \in i + 1 .. j - 1 : Tail(s)[k] = "SCAN_DONE"
  <2>1. /\ i + 1 \in 1 .. Len(s) /\ s[i + 1] = "STA_START" /\ i + 1 < j + 1
        /\ j + 1 \in 1 .. Len(s) /\ s[j + 1] = "STA_START"
    BY <1>1, Taking
  <2>2. PICK k \in i + 1 + 1 .. j + 1 - 1 : s[k] = "SCAN_DONE"
    BY <2>1 DEF ScanBetweenStarts
  <2>3. k - 1 \in i + 1 .. j - 1 /\ k - 1 \in 1 .. Len(s) - 1 BY <2>1, <2>2, Taking
  <2>4. Tail(s)[k - 1] = s[k] BY <2>2, <2>3, Taking
  <2> QED BY <2>2, <2>3, <2>4
<1>2. ASSUME Head(s) = "STA_START", NEW j \in 1 .. Len(Tail(s)), Tail(s)[j] = "STA_START"
      PROVE  \E k \in 1 .. j - 1 : Tail(s)[k] = "SCAN_DONE"
  <2>1. /\ 1 \in 1 .. Len(s) /\ s[1] = "STA_START" /\ 1 < j + 1
        /\ j + 1 \in 1 .. Len(s) /\ s[j + 1] = "STA_START"
    BY <1>2, Taking
  <2>2. PICK k \in 1 + 1 .. j + 1 - 1 : s[k] = "SCAN_DONE"
    BY <2>1 DEF ScanBetweenStarts
  <2>3. k - 1 \in 1 .. j - 1 /\ k - 1 \in 1 .. Len(s) - 1 BY <2>1, <2>2, Taking
  <2>4. Tail(s)[k - 1] = s[k] BY <2>2, <2>3, Taking
  <2> QED BY <2>2, <2>3, <2>4
<1> QED BY <1>1, <1>2 DEF ScanBetweenStarts, ScanBeforeStarts

LEMMA ScanFirstPosted ==
    ASSUME NEW s \in Seq(Events), NEW e \in Events, ScanFirst(s),
           e = "SCAN_DONE" => ~Has(s, "STA_DISCONNECTED") /\ ~Has(s, "GOT_IP")
    PROVE  ScanFirst(Append(s, e))
<1> SUFFICES ASSUME NEW i \in 1 .. Len(Append(s, e)), NEW j \in 1 .. Len(Append(s, e)),
                    Append(s, e)[i] = "SCAN_DONE",
                    Append(s, e)[j] \in {"STA_DISCONNECTED", "GOT_IP"}
             PROVE  i < j
  BY DEF ScanFirst
<1>1. (i \in 1 .. Len(s) \/ i = Len(s) + 1) /\ (j \in 1 .. Len(s) \/ j = Len(s) + 1)
  BY Posting
<1>2. CASE i \in 1 .. Len(s) /\ j \in 1 .. Len(s) BY <1>2, Posting DEF ScanFirst
<1>3. CASE i \in 1 .. Len(s) /\ j = Len(s) + 1 BY <1>3, Posting
<1>4. CASE i = Len(s) + 1 /\ j \in 1 .. Len(s) BY <1>4, Posting DEF Has
<1>5. CASE i = Len(s) + 1 /\ j = Len(s) + 1 BY <1>5, Posting
<1> QED BY <1>1, <1>2, <1>3, <1>4, <1>5

LEMMA ScanFirstTaken ==
    ASSUME NEW s \in Seq(Events), s # <<>>, ScanFirst(s)
    PROVE  /\ ScanFirst(Tail(s))
           /\ Head(s) \in {"STA_DISCONNECTED", "GOT_IP"} => ~Has(s, "SCAN_DONE")
<1>1. ASSUME NEW i \in 1 .. Len(Tail(s)), NEW j \in 1 .. Len(Tail(s)),
             Tail(s)[i] = "SCAN_DONE", Tail(s)[j] \in {"STA_DISCONNECTED", "GOT_IP"}
      PROVE  i < j
  <2>1. /\ i + 1 \in 1 .. Len(s) /\ s[i + 1] = Tail(s)[i]
        /\ j + 1 \in 1 .. Len(s) /\ s[j + 1] = Tail(s)[j]
    BY Taking
  <2>2. i + 1 < j + 1 BY <1>1, <2>1 DEF ScanFirst
  <2> QED BY <2>2
<1>2. ASSUME Head(s) \in {"STA_DISCONNECTED", "GOT_IP"}, Has(s, "SCAN_DONE") PROVE FALSE
  <2>1. PICK i \in 1 .. Len(s) : s[i] = "SCAN_DONE" BY <1>2 DEF Has
  <2>2. 1 \in 1 .. Len(s) /\ s[1] = Head(s) BY Taking
  <2>3. i < 1 BY <1>2, <2>1, <2>2 DEF ScanFirst
  <2> QED BY <2>1, <2>3
<1> QED BY <1>1, <1>2 DEF ScanFirst

LEMMA OncePosted ==
    ASSUME NEW s \in Seq(Events), NEW e \in Events, LostOnce(s),
           e = "STA_DISCONNECTED" => ~Has(s, "STA_DISCONNECTED")
    PROVE  LostOnce(Append(s, e))
<1> SUFFICES ASSUME NEW i \in 1 .. Len(Append(s, e)), NEW j \in 1 .. Len(Append(s, e)),
                    Append(s, e)[i] = "STA_DISCONNECTED",
                    Append(s, e)[j] = "STA_DISCONNECTED"
             PROVE  i = j
  BY DEF LostOnce
<1>1. (i \in 1 .. Len(s) \/ i = Len(s) + 1) /\ (j \in 1 .. Len(s) \/ j = Len(s) + 1)
  BY Posting
<1>2. CASE i \in 1 .. Len(s) /\ j \in 1 .. Len(s) BY <1>2, Posting DEF LostOnce
<1>3. CASE i \in 1 .. Len(s) /\ j = Len(s) + 1 BY <1>3, Posting DEF Has
<1>4. CASE i = Len(s) + 1 /\ j \in 1 .. Len(s) BY <1>4, Posting DEF Has
<1> QED BY <1>1, <1>2, <1>3, <1>4

LEMMA OnceTaken ==
    ASSUME NEW s \in Seq(Events), s # <<>>, LostOnce(s)
    PROVE  /\ LostOnce(Tail(s))
           /\ Head(s) = "STA_DISCONNECTED" => ~Has(Tail(s), "STA_DISCONNECTED")
<1>1. \A i \in 1 .. Len(Tail(s)) : i + 1 \in 2 .. Len(s) /\ s[i + 1] = Tail(s)[i]
  BY Taking
<1>2. ASSUME NEW i \in 1 .. Len(Tail(s)), NEW j \in 1 .. Len(Tail(s)),
             Tail(s)[i] = "STA_DISCONNECTED", Tail(s)[j] = "STA_DISCONNECTED"
      PROVE  i = j
  <2>1. i + 1 = j + 1 BY <1>1, <1>2, Taking DEF LostOnce
  <2> QED BY <2>1
<1>3. ASSUME Head(s) = "STA_DISCONNECTED",
             NEW i \in 1 .. Len(Tail(s)), Tail(s)[i] = "STA_DISCONNECTED"
      PROVE  FALSE
  <2>1. 1 \in 1 .. Len(s) /\ s[1] = "STA_DISCONNECTED" BY <1>3, Taking
  <2>2. i + 1 = 1 BY <1>1, <1>3, <2>1, Taking DEF LostOnce
  <2> QED BY <1>1, <2>2
<1> QED BY <1>2, <1>3 DEF LostOnce, Has

LEMMA NoStarts ==
    ASSUME NEW s, ~Has(s, "STA_START")
    PROVE  ScanBeforeStarts(s) /\ ScanAfterStarts(s) /\ ScanBetweenStarts(s)
BY DEF Has, ScanBeforeStarts, ScanAfterStarts, ScanBetweenStarts

LEMMA NoScanNoStart ==
    ASSUME NEW s \in Seq(Events), ScanBeforeStarts(s), ~Has(s, "SCAN_DONE")
    PROVE  ~Has(s, "STA_START")
<1> SUFFICES ASSUME NEW i \in 1 .. Len(s), s[i] = "STA_START" PROVE FALSE
  BY DEF Has
<1>1. PICK j \in 1 .. i - 1 : s[j] = "SCAN_DONE" BY DEF ScanBeforeStarts
<1>2. j \in 1 .. Len(s) BY <1>1
<1> QED BY <1>1, <1>2 DEF Has

LEMMA StopOrder ==
    ASSUME Typed, StopRadio
    PROVE  /\ ScanBeforeStarts(events) => ScanBeforeStarts(events')
           /\ ScanAfterStarts(events) => ScanAfterStarts(events')
           /\ ScanBetweenStarts(events) => ScanBetweenStarts(events')
           /\ ScanFirst(events) => ScanFirst(events')
           /\ LostOnce(events) /\ (link = "none" \/ ~Has(events, "STA_DISCONNECTED"))
                 => LostOnce(events')
<1>1. "STA_DISCONNECTED" \in Events BY DEF Events
<1>2. CASE events' = events BY <1>2 DEF StopRadio
<1>3. CASE link # "none" /\ events' = Append(events, "STA_DISCONNECTED")
  BY <1>1, <1>3, BeforePosted, AfterPosted, BetweenPosted, ScanFirstPosted, OncePosted
  DEF Typed
<1> QED BY <1>2, <1>3 DEF StopRadio

LEMMA StartOrder ==
    ASSUME Typed, StartRadio
    PROVE  /\ ScanBeforeStarts(events) /\ (radio \/ Has(events, "SCAN_DONE"))
                 => ScanBeforeStarts(events')
           /\ ScanBetweenStarts(events) /\ (radio \/ ScanAfterStarts(events))
                 => ScanBetweenStarts(events')
           /\ ScanFirst(events) => ScanFirst(events')
           /\ LostOnce(events) => LostOnce(events')
<1>1. "STA_START" \in Events BY DEF Events
<1>2. CASE events' = events
  <2>1. radio \/ events' = Append(events, "STA_START") BY DEF StartRadio
  <2> QED BY <1>1, <1>2, <2>1, BeforePosted, BetweenPosted DEF Typed
<1>3. CASE ~radio /\ events' = Append(events, "STA_START")
  BY <1>1, <1>3, BeforePosted, BetweenPosted, ScanFirstPosted, OncePosted DEF Typed
<1> QED BY <1>2, <1>3 DEF StartRadio

LEMMA PostOrder ==
    ASSUME Typed, NEW e \in Events, Post(e), e # "STA_START"
    PROVE  /\ ScanBeforeStarts(events) => ScanBeforeStarts(events')
           /\ ScanAfterStarts(events) \/ e = "SCAN_DONE" => ScanAfterStarts(events')
           /\ ScanBetweenStarts(events) => ScanBetweenStarts(events')
           /\ /\ ScanFirst(events)
              /\ e = "SCAN_DONE" => /\ ~Has(events, "STA_DISCONNECTED")
                                    /\ ~Has(events, "GOT_IP")
              => ScanFirst(events')
           /\ /\ LostOnce(events)
              /\ e = "STA_DISCONNECTED" => ~Has(events, "STA_DISCONNECTED")
              => LostOnce(events')
BY BeforePosted, AfterPosted, BetweenPosted, ScanFirstPosted, OncePosted DEF Post,
   Typed

LEMMA DispatchOrder ==
    ASSUME Typed, NEW e, Dispatch(e)
    PROVE  /\ ScanBeforeStarts(events) =>
                 e # "STA_START" /\ (e # "SCAN_DONE" => ScanBeforeStarts(events'))
           /\ ScanAfterStarts(events) => ScanAfterStarts(events')
           /\ ScanBetweenStarts(events) =>
                 /\ ScanBetweenStarts(events')
                 /\ e = "STA_START" => ScanBeforeStarts(events')
           /\ ScanFirst(events) =>
                 /\ ScanFirst(events')
                 /\ e \in {"STA_DISCONNECTED", "GOT_IP"} => ~Has(events, "SCAN_DONE")
           /\ LostOnce(events) =>
                 /\ LostOnce(events')
                 /\ e = "STA_DISCONNECTED" => ~Has(events', "STA_DISCONNECTED")
BY BeforeTaken, AfterTaken, BetweenTaken, ScanFirstTaken, OnceTaken DEF Dispatch,
   Typed

(* While no call fails and the link is ended on request only: the network is
   announced in CONNECTED, with the link up and nothing waiting that would end
   it; and an event that waits finds the link it is about. *)
Unfinished == {"REQUEST_CONNECT", "RECONNECT", "CONNECTING"}
Requesting == state \in {"REQUEST_CONNECT", "RECONNECT"}
Free == main \in {"loop", "return"}
Announced ==
    /\ announced <=> state = "CONNECTED"
    /\ announced => /\ link = "up" /\ Free
                    /\ ~Has(events, "STA_DISCONNECTED") /\ ~Has(events, "SCAN_DONE")
Arriving ==
    /\ Has(events, "GOT_IP") => /\ link = "up" /\ Free /\ ~Requesting
                                /\ ~Has(events, "STA_DISCONNECTED")
    /\ link = "assoc" => /\ Free /\ ~Requesting /\ lvgl = "ui"
                         /\ ~Has(events, "STA_DISCONNECTED") /\ ~Has(events, "GOT_IP")
    /\ link # "none" => handlers
    /\ link # "none" => ~Requesting
    /\ link = "up" => state = "CONNECTED" \/ Has(events, "GOT_IP") \/ lvgl = "teardown"
Starting ==
    /\ \/ link = "none" /\ ~Has(events, "STA_DISCONNECTED") /\ ~Has(events, "GOT_IP")
       \/ ScanBeforeStarts(events)
       \/ state \notin Unfinished /\ Free
    /\ ScanBetweenStarts(events)
    /\ main \in {"settle", "start"} \/ Requesting \/ (main = "bootscan" /\ ~scanning)
          => ScanAfterStarts(events)
BootScanned ==
    /\ state \notin {"START_SCAN", "SCANNING"} /\ main # "scanning"
    /\ Has(events, "SCAN_DONE") => handlers \/ (state = "IDLE" /\ Free)
    /\ main = "bootscan" => handlers
    /\ scanning => main = "bootscan" /\ ~Has(events, "SCAN_DONE")
    /\ main \in {"boot", "bootscan", "bootfail"} => ~Has(events, "STA_DISCONNECTED")
    /\ ScanFirst(events)
Losing ==
    /\ LostOnce(events)
    /\ lvgl \in {"erased", "teardown"} => events = <<>>
    /\ main = "start" => ~Requesting /\ ~Has(events, "STA_DISCONNECTED")
    /\ main = "settle" \/ Requesting => ~Has(events, "STA_DISCONNECTED")
OnRequest == given.patient /\ ~given.linkDrops /\ "scan" \notin given.acts
Endings == Faultless /\ OnRequest
              => Announced /\ Arriving /\ Starting /\ BootScanned /\ Losing

LEMMA EndingsNext ==
    ASSUME Base, Connection, Endings, Next
    PROVE  Endings'
<1> SUFFICES ASSUME Faultless, OnRequest
             PROVE  Announced' /\ Arriving' /\ Starting' /\ BootScanned' /\ Losing'
  BY DEF Endings, OnRequest, Faultless, Next
<1> Announced /\ Arriving /\ Starting /\ BootScanned /\ Losing BY DEF Endings
<1> Typed /\ Hardware /\ AtBoot BY DEF Base, Patient, OnRequest
<1> Ending BY DEF Connection, Attended, Undisturbed, OnRequest, Faultless, Fails
<1> FlagsTyped /\ PlacesTyped BY DEF Typed
<1> (\A call : ~Fails(call)) /\ "stop" \notin given.faults BY FaultlessDriver
<1> given.patient /\ ~given.linkDrops /\ "scan" \notin given.acts BY DEF OnRequest
<1> given' = given BY DEF Next
<1> /\ "GOT_IP" \in Events /\ "STA_DISCONNECTED" \in Events
    /\ "SCAN_DONE" \in Events /\ "STA_START" \in Events
  BY DEF Events
<1>1. CASE \E n \in Networks : nac_request_wifi_connect(n)
  <2>1. PICK n \in Networks : nac_request_wifi_connect(n) BY <1>1
  <2>2. main = "loop" /\ events = <<>> /\ link # "assoc" /\ lvgl = "ui" /\ state # "CONNECTED"
    BY <2>1 DEF nac_request_wifi_connect, CanRequest, Settled, Quiet
  <2>3. /\ state' = "REQUEST_CONNECT"
        /\ UNCHANGED <<announced, main, link, events, lvgl, handlers, scanning>>
    BY <2>1 DEF nac_request_wifi_connect, driverVars
  <2>4. \A f : ~Has(events', f) BY <2>2, <2>3, HasNone
  <2>5. ~announced BY <2>2 DEF Announced
  <2>6. Announced' BY <2>3, <2>5 DEF Announced
  <2>7. Arriving' 
    BY <2>2, <2>3, <2>4, HasNone DEF Faultless, Arriving, Requesting, Free,
       PlacesTyped
  <2>8. Starting' BY <2>2, <2>3, <2>4, NoStarts DEF Starting, Requesting, Free
  <2>9. BootScanned' BY <2>2, <2>3, <2>4 DEF BootScanned
  <2>10. Losing' BY <2>2, <2>3, <2>4 DEF Losing
  <2> QED BY <2>6, <2>7, <2>8, <2>9, <2>10
<1>2. CASE nac_request_wifi_scan \/ FactoryReset
  BY <1>2, HasNone, NoStarts DEF Announced, Arriving, Starting, BootScanned,
     Losing, Unfinished, Requesting, Free, Ending, AtBoot, Hardware, Settled,
     Quiet, Faultless, nac_request_wifi_scan, FactoryReset, CanRequest,
     nacVars, driverVars
<1>3. CASE nac_request_wifi_disconnect \/ ResetDisconnect
  BY <1>3, HasNone, NoStarts DEF Announced, Arriving, Starting, BootScanned,
     Losing, Unfinished, Requesting, Free, Ending, AtBoot, Hardware, Settled,
     Quiet, Faultless, nac_request_wifi_disconnect, ResetDisconnect,
     CanRequest, WifiDisconnect, NotifyDown, nacVars, driverVars
<1>4. CASE DisconnectStop
  <2>1. /\ lvgl = "teardown" /\ main = "loop" /\ state = "IDLE" /\ events = <<>> /\ ~scanning
        /\ UNCHANGED <<state, main, announced, handlers>>
    BY <1>4, StayingOnline DEF DisconnectStop, Ending, Losing, nacVars
  <2>2. ~announced BY <2>1 DEF Announced
  <2>3. Announced' BY <2>1, <2>2 DEF Announced
  <2>4. CASE /\ ~hwOnline
             /\ lvgl' = "ui" /\ UNCHANGED <<radio, scanning, link, peer, events>>
    <3>1. \A f : ~Has(events', f) BY <2>1, <2>4, HasNone
    <3>2. Arriving'
      BY <2>1, <2>4, <3>1 DEF Faultless, Arriving, Hardware, Requesting, Ending,
         PlacesTyped, Free
    <3>3. Starting' BY <2>1, <3>1, NoStarts DEF Starting, Unfinished, Free, Requesting
    <3>4. BootScanned' /\ Losing'
      BY <2>1, <2>4, <3>1 DEF BootScanned, Losing, Requesting
    <3> QED BY <2>3, <3>2, <3>3, <3>4
  <2>5. CASE StopRadio /\ lvgl' = "deinit"
    <3>1. \A f : Has(events', f) => f = "STA_DISCONNECTED"
      BY <2>1, <2>5, StopHas, HasNone
    <3>2. link' = "none" /\ ~scanning' BY <2>5 DEF StopRadio
    <3>3. Arriving' BY <2>1, <3>1, <3>2 DEF Faultless, Arriving
    <3>4. Starting' BY <2>1, <3>1, NoStarts DEF Starting, Unfinished, Free, Requesting
    <3>5. BootScanned' BY <2>1, <2>5, <3>1, <3>2, StopOrder DEF BootScanned
    <3>6. Losing' BY <2>1, <2>5, <3>1, StopOrder, HasNone DEF Losing, Requesting
    <3> QED BY <2>3, <3>3, <3>4, <3>5, <3>6
  <2> QED BY <1>4, <2>4, <2>5, FaultlessDriver DEF DisconnectStop
<1>5. CASE DisconnectDeinit
  BY <1>5, HasNone, NoStarts DEF Announced, Arriving, Starting, BootScanned,
     Losing, Unfinished, Requesting, Free, Ending, AtBoot, Hardware, Settled,
     Quiet, Faultless, DisconnectDeinit, nacVars, driverVars
<1>6. CASE BootNothing \/ BootFound
  BY <1>6, HasNone, NoStarts DEF Announced, Arriving, Starting, BootScanned,
     Losing, Unfinished, Requesting, Free, Ending, AtBoot, Hardware, Settled,
     Quiet, Faultless, BootNothing, BootFound, nacVars, driverVars
<1>7. CASE BootScan
  <2>1. /\ main = "boot" /\ events = <<>> /\ link = "none" /\ lvgl = "ui"
        /\ ~scanning /\ ~radio
        /\ ~hwOnline /\ state = "IDLE" /\ ~announced
    BY <1>7 DEF BootScan, Hardware, AtBoot, Announced
  <2>2. /\ main' \in {"bootscan", "bootfail"} /\ state' = "IDLE" /\ handlers'
        /\ UNCHANGED <<link, lvgl, announced>>
        /\ StartRadio \/ (events' = events /\ scanning' = scanning)
        /\ scanning' <=> main' = "bootscan"
    BY <1>7, <2>1 DEF BootScan, BringOnline
  <2>3. \A f : Has(events', f) => f = "STA_START" BY <2>1, <2>2, StartHas, HasNone
  <2>4. ScanBetweenStarts(events') /\ ScanFirst(events') /\ LostOnce(events')
    BY <2>1, <2>2, StartOrder, NoStarts, HasNone DEF BootScanned, Losing
  <2> QED
    BY <2>1, <2>2, <2>3, <2>4 DEF Faultless, Announced, Arriving, Starting,
       Requesting, BootScanned, Losing
<1>8. CASE BootOffline
  <2>1. /\ main \in {"bootscan", "bootfail"} /\ main' = "loop" /\ state' = "IDLE"
        /\ lvgl = "ui" /\ state = "IDLE" /\ UNCHANGED <<lvgl, announced>>
        /\ link = "none" /\ ~Has(events, "GOT_IP") /\ BringOffline
    BY <1>8 DEF BootOffline, AtBoot
  <2>2. ~announced /\ ~Has(events, "STA_DISCONNECTED")
    BY <2>1 DEF Announced, BootScanned
  <2>3. events' = events /\ link' = "none" /\ ~scanning'
    BY <2>1, FaultlessOffline
  <2>4. Announced' /\ Arriving' BY <2>1, <2>2, <2>3 DEF Announced, Arriving
  <2>5. Starting' BY <2>1, <2>2, <2>3 DEF Starting, Requesting
  <2>6. BootScanned' BY <2>1, <2>2, <2>3 DEF BootScanned, Free
  <2>7. Losing' BY <2>1, <2>2, <2>3 DEF Losing, Requesting
  <2> QED BY <2>4, <2>5, <2>6, <2>7
<1>9. CASE ConnectNothing \/ ConnectAlready
  BY <1>9, HasNone, NoStarts DEF Announced, Arriving, Starting, BootScanned,
     Losing, Unfinished, Requesting, Free, Ending, AtBoot, Hardware, Settled,
     Quiet, Faultless, ConnectNothing, ConnectAlready, Called, nacVars,
     driverVars
<1>10. CASE ConnectRequested \/ ConnectGiveUp
  BY <1>10, HasNone, NoStarts DEF Announced, Arriving, Starting, BootScanned,
     Losing, Unfinished, Requesting, Free, Ending, AtBoot, Hardware, Settled,
     Quiet, Faultless, ConnectRequested, ConnectGiveUp, Called, RetriesLeft,
     nacVars, driverVars
<1>11. CASE ConnectReset
  <2>1. /\ main = "loop" /\ state = "RECONNECT" /\ state' = "RECONNECT"
        /\ main' = "settle" /\ UNCHANGED <<lvgl, announced>> /\ RestartHardware
    BY <1>11 DEF ConnectReset, Called
  <2>2. /\ ~announced /\ link = "none"
        /\ ~Has(events, "STA_DISCONNECTED") /\ ~Has(events, "GOT_IP")
        /\ ScanAfterStarts(events)
    BY <2>1 DEF Announced, Arriving, Starting, Losing, Requesting
  <2>3. events' = events /\ link' = "none" /\ ~scanning' /\ (handlers => handlers')
    BY <2>1, <2>2, FaultlessRestart
  <2>4. Announced' BY <2>1, <2>2 DEF Announced
  <2>5. Arriving' BY <2>2, <2>3 DEF Arriving
  <2>6. Starting' BY <2>2, <2>3 DEF Starting
  <2>7. BootScanned' BY <2>1, <2>2, <2>3 DEF BootScanned
  <2>8. Losing' BY <2>1, <2>2, <2>3 DEF Losing
  <2> QED BY <2>4, <2>5, <2>6, <2>7, <2>8
<1>12. CASE ConnectConfigure
  <2>1. /\ main = "settle" /\ UNCHANGED <<lvgl, announced>> /\ lvgl = "ui"
        /\ link = "none" /\ ~scanning /\ ~announced /\ state # "CONNECTED"
        /\ ~Has(events, "STA_DISCONNECTED") /\ ~Has(events, "GOT_IP")
        /\ ScanAfterStarts(events) /\ (Has(events, "SCAN_DONE") => handlers)
    BY <1>12 DEF ConnectConfigure, Hardware, Ending, Announced, Arriving, Starting,
       BootScanned, Losing, Free
  <2>2. CASE /\ main' = "start" /\ state' = "CONNECTING"
             /\ UNCHANGED <<handlers, scanning, link, events>>
    <3>1. Announced' /\ Arriving' BY <2>1, <2>2 DEF Announced, Arriving
    <3>2. Starting' BY <2>1, <2>2 DEF Starting
    <3>3. BootScanned' BY <2>1, <2>2 DEF BootScanned
    <3>4. Losing' BY <2>1, <2>2 DEF Losing, Requesting
    <3> QED BY <3>1, <3>2, <3>3, <3>4
  <2>3. CASE /\ BringOffline /\ main' = "return"
             /\ state' = "IDLE" \/ (~hwOnline /\ state' = state)
    <3>1. events' = events /\ link' = "none" /\ ~scanning'
      BY <2>1, <2>3, FaultlessOffline
    <3>2. ~hwOnline => ~handlers BY DEF Hardware
    <3>3. Announced' /\ Arriving' BY <2>1, <2>3, <3>1 DEF Announced, Arriving
    <3>4. Starting' BY <2>1, <2>3, <3>1 DEF Starting, Requesting
    <3>5. BootScanned' BY <2>1, <2>3, <3>1, <3>2 DEF BootScanned, Free
    <3>6. Losing' BY <2>1, <2>3, <3>1 DEF Losing, Requesting
    <3> QED BY <3>3, <3>4, <3>5, <3>6
  <2>4. BringOffline => ~hwOnline' BY FaultlessOffline
  <2> QED BY <1>12, <2>2, <2>3, <2>4 DEF ConnectConfigure
<1>13. CASE ConnectStart
  <2>1. /\ main = "start" /\ main' = "return" /\ lvgl = "ui" /\ UNCHANGED <<lvgl, announced>>
        /\ ~Requesting /\ ~announced /\ state # "CONNECTED"
        /\ ~radio /\ link = "none" /\ ~scanning
        /\ ~Has(events, "STA_DISCONNECTED") /\ ~Has(events, "GOT_IP")
        /\ ScanAfterStarts(events) /\ (Has(events, "SCAN_DONE") => handlers)
    BY <1>13 DEF ConnectStart, Announced, Ending, Arriving, Starting, BootScanned,
       Losing, Free, Hardware
  <2>2. CASE StartRadio /\ UNCHANGED <<state, handlers, scanning, link>>
    <3>1. \A f : Has(events', f) => Has(events, f) \/ f = "STA_START"
      BY <2>2, StartHas
    <3>2. ScanBetweenStarts(events') /\ ScanFirst(events') /\ LostOnce(events')
      BY <2>1, <2>2, StartOrder DEF Starting, BootScanned, Losing
    <3>3. Announced' /\ Arriving' BY <2>1, <2>2, <3>1 DEF Announced, Arriving
    <3>4. Starting' BY <2>1, <2>2, <3>1, <3>2 DEF Starting, Requesting
    <3>5. BootScanned' BY <2>1, <2>2, <3>1, <3>2 DEF BootScanned
    <3>6. Losing' BY <2>1, <2>2, <3>1, <3>2 DEF Losing, Requesting
    <3> QED BY <3>3, <3>4, <3>5, <3>6
  <2>3. CASE BringOffline /\ state' = "IDLE"
    <3>1. events' = events /\ link' = "none" /\ ~scanning'
      BY <2>1, <2>3, FaultlessOffline
    <3>2. Announced' /\ Arriving' BY <2>1, <2>3, <3>1 DEF Announced, Arriving
    <3>3. Starting' BY <2>1, <2>3, <3>1 DEF Starting, Requesting
    <3>4. BootScanned' BY <2>1, <2>3, <3>1 DEF BootScanned, Free
    <3>5. Losing' BY <2>1, <2>3, <3>1 DEF Losing, Requesting
    <3> QED BY <3>2, <3>3, <3>4, <3>5
  <2> QED BY <1>13, <2>2, <2>3 DEF ConnectStart
<1>14. CASE ScanStart
  BY <1>14, HasNone, NoStarts, StartHas, StartOrder DEF Announced, Arriving,
     Starting, BootScanned, Losing, Unfinished, Requesting, Free, Ending,
     AtBoot, Hardware, Settled, Quiet, Faultless, ScanStart, Called,
     BringOnline, StartRadio, nacVars, driverVars
<1>15. CASE ScanStarted \/ ConnectReturn
  BY <1>15, HasNone, NoStarts DEF Announced, Arriving, Starting, BootScanned,
     Losing, Unfinished, Requesting, Free, Ending, AtBoot, Hardware, Settled,
     Quiet, Faultless, ScanStarted, ConnectReturn, nacVars, driverVars
<1>16. CASE DropEvent
  BY <1>16, HasNone, NoStarts, DispatchHas, DispatchOrder DEF Announced,
     Arriving, Starting, BootScanned, Losing, Unfinished, Requesting, Free,
     Ending, AtBoot, Hardware, Settled, Quiet, Faultless, DropEvent, Dispatch,
     nacVars, driverVars
<1>17. CASE OnStaStart
  <2>1. /\ handlers /\ Dispatch("STA_START")
        /\ UNCHANGED <<state, announced, main, lvgl, handlers, radio, scanning>>
    BY <1>17 DEF OnStaStart, Dispatch, nacVars
  <2>2. \A f : Has(events, f) <=> Has(events', f) \/ f = "STA_START"
    BY <2>1, DispatchHas
  <2>3. lvgl = "ui" BY <2>2 DEF Ending
  <2>4. ~ScanBeforeStarts(events) /\ ScanBeforeStarts(events')
    BY <2>1, DispatchOrder DEF Starting
  <2>5. /\ ScanBetweenStarts(events') /\ (ScanAfterStarts(events) => ScanAfterStarts(events'))
        /\ ScanFirst(events') /\ LostOnce(events')
    BY <2>1, DispatchOrder DEF Starting, BootScanned, Losing
  <2>6. Starting' BY <2>1, <2>4, <2>5 DEF Starting, Requesting
  <2>7. BootScanned' BY <2>1, <2>2, <2>5 DEF BootScanned, Free
  <2>8. Losing' BY <2>1, <2>2, <2>3, <2>5 DEF Losing, Requesting
  <2>9. Announced' /\ Arriving'
    <3>1. CASE link' = link
      BY <2>1, <2>2, <3>1 DEF Faultless, Announced, Arriving, Requesting, Free
    <3>2. CASE state = "CONNECTING" /\ radio /\ link = "none" /\ link' = "assoc"
      <4>1. ~Has(events, "STA_DISCONNECTED") /\ ~Has(events, "GOT_IP")
        BY <2>4, <3>2 DEF Starting, Unfinished
      <4>2. Free BY <3>2 DEF Free, Hardware, AtBoot, BootScanned, PlacesTyped
      <4>3. ~announced BY <3>2 DEF Announced
      <4> QED
        BY <2>1, <2>2, <2>3, <3>2, <4>1, <4>2, <4>3 DEF Announced, Arriving,
           Requesting, Free
    <3> QED BY <1>17, <3>1, <3>2 DEF OnStaStart
  <2> QED BY <2>6, <2>7, <2>8, <2>9
<1>18. CASE OnStaDisconnected
  <2>1. /\ handlers /\ Dispatch("STA_DISCONNECTED") /\ events # <<>>
        /\ UNCHANGED <<link, announced, main, lvgl, handlers, scanning>>
        /\ state' = IF Active THEN "RECONNECT" ELSE state
    BY <1>18 DEF OnStaDisconnected, Dispatch, Reconnect
  <2>2. \A f : Has(events, f) <=> Has(events', f) \/ f = "STA_DISCONNECTED"
    BY <2>1, DispatchHas
  <2>3. /\ ~announced /\ state # "CONNECTED" /\ main # "start" /\ lvgl # "teardown"
        /\ ~Has(events, "GOT_IP") /\ link # "assoc" /\ (Faultless => link = "none")
    BY <2>1, <2>2 DEF Announced, Arriving, Losing, PlacesTyped
  <2>4. /\ ~Has(events, "SCAN_DONE") /\ ~Has(events', "STA_DISCONNECTED")
        /\ ScanBetweenStarts(events') /\ (ScanAfterStarts(events) => ScanAfterStarts(events'))
        /\ (ScanBeforeStarts(events) => ScanBeforeStarts(events'))
        /\ ScanFirst(events') /\ LostOnce(events')
    BY <2>1, DispatchOrder DEF Starting, BootScanned, Losing
  <2>5. Active => ~Has(events', "STA_START")
    <3>1. Active => ScanBeforeStarts(events)
      BY <2>2, <2>3 DEF Active, Starting, Unfinished
    <3>2. events \in Seq(Events) BY DEF Typed
    <3> QED BY <2>2, <2>4, <3>1, <3>2, NoScanNoStart
  <2>6. Announced' BY <2>1, <2>3 DEF Announced
  <2>7. Arriving' BY <2>1, <2>2, <2>3 DEF Faultless, Arriving
  <2>8. Starting'
    <3>1. CASE Active BY <2>1, <2>5, <3>1, NoStarts DEF Starting
    <3>2. CASE ~Active BY <2>1, <2>2, <2>4, <3>2 DEF Starting, Requesting, Free
    <3> QED BY <3>1, <3>2
  <2>9. BootScanned' BY <2>1, <2>2, <2>4 DEF BootScanned
  <2>10. Losing' BY <2>1, <2>2, <2>3, <2>4 DEF Losing
  <2> QED BY <2>6, <2>7, <2>8, <2>9, <2>10
<1>19. CASE OnScanDone
  <2>1. /\ handlers /\ Dispatch("SCAN_DONE") /\ state' = "IDLE" /\ events # <<>>
        /\ UNCHANGED <<link, announced, main, lvgl, handlers, scanning>>
    BY <1>19 DEF OnScanDone, Dispatch
  <2>2. \A f : Has(events, f) <=> Has(events', f) \/ f = "SCAN_DONE"
    BY <2>1, DispatchHas
  <2>3. ~announced /\ state # "CONNECTED" /\ lvgl # "teardown"
    BY <2>1, <2>2 DEF Announced, Losing, BootScanned
  <2>4. /\ ScanBetweenStarts(events') /\ (ScanAfterStarts(events) => ScanAfterStarts(events'))
        /\ ScanFirst(events') /\ LostOnce(events')
    BY <2>1, DispatchOrder DEF Starting, BootScanned, Losing
  <2>5. Announced' BY <2>1, <2>3 DEF Announced
  <2>6. Arriving' BY <2>1, <2>2, <2>3 DEF Faultless, Arriving, Requesting, Free
  <2>7. \/ link = "none" /\ ~Has(events, "STA_DISCONNECTED") /\ ~Has(events, "GOT_IP")
        \/ Free
    <3>1. Has(events, "STA_DISCONNECTED") => Free
      BY DEF Losing, BootScanned, Free, PlacesTyped
    <3>2. link # "none" => Free BY DEF Hardware, AtBoot, BootScanned, Free, PlacesTyped
    <3> QED BY <3>1, <3>2 DEF Arriving
  <2>8. Starting' BY <2>1, <2>2, <2>4, <2>7 DEF Starting, Requesting, Unfinished, Free
  <2>9. BootScanned' BY <2>1, <2>2, <2>4 DEF BootScanned
  <2>10. Losing' BY <2>1, <2>2, <2>4 DEF Losing, Requesting
  <2> QED BY <2>5, <2>6, <2>8, <2>9, <2>10
<1>20. CASE OnGotIp
  BY <1>20, HasNone, NoStarts, DispatchHas, DispatchOrder DEF Announced,
     Arriving, Starting, BootScanned, Losing, Unfinished, Requesting, Free,
     Ending, AtBoot, Hardware, Settled, Quiet, Faultless, OnGotIp, Dispatch,
     nacVars, driverVars
<1>21. CASE LinkUp
  BY <1>21, HasNone, NoStarts, PostHas, PostOrder DEF Announced, Arriving,
     Starting, BootScanned, Losing, Unfinished, Requesting, Free, Ending,
     AtBoot, Hardware, Settled, Quiet, Faultless, LinkUp, Post, nacVars,
     driverVars
<1>22. CASE LinkRefused
  BY <1>22, HasNone, NoStarts, PostHas, PostOrder DEF Announced, Arriving,
     Starting, BootScanned, Losing, Unfinished, Requesting, Free, Ending,
     AtBoot, Hardware, Settled, Quiet, Faultless, LinkRefused, Post, nacVars,
     driverVars
<1>23. CASE LinkLost
  BY <1>23, HasNone, NoStarts, PostHas, PostOrder DEF Announced, Arriving,
     Starting, BootScanned, Losing, Unfinished, Requesting, Free, Ending,
     AtBoot, Hardware, Settled, Quiet, Faultless, LinkLost, Post, nacVars,
     driverVars
<1>24. CASE ScanFinished
  BY <1>24, HasNone, NoStarts, PostHas, PostOrder DEF Announced, Arriving,
     Starting, BootScanned, Losing, Unfinished, Requesting, Free, Ending,
     AtBoot, Hardware, Settled, Quiet, Faultless, ScanFinished, Post, nacVars,
     driverVars
<1> QED BY <1>1, <1>2, <1>3, <1>4, <1>5, <1>6, <1>7, <1>8, <1>9, <1>10, <1>11,
   <1>12, <1>13, <1>14, <1>15, <1>16, <1>17, <1>18, <1>19, <1>20, <1>21,
   <1>22, <1>23, <1>24 DEF Next, User, Lvgl, Connect, EventLoop, Driver

LEMMA EndingsInvariant == Spec => [](Base /\ Connection /\ Endings)
<1>1. Init => Endings
  <2> SUFFICES ASSUME Init PROVE Announced /\ Arriving /\ Starting /\ BootScanned /\ Losing
    BY DEF Endings
  <2>1. \A f : ~Has(events, f) BY HasNone DEF Init
  <2>2. ScanBetweenStarts(events) /\ ScanFirst(events) /\ LostOnce(events)
    BY DEF Init, ScanBetweenStarts, ScanFirst, LostOnce
  <2> QED BY <2>1, <2>2 DEF Init, Announced, Arriving, Starting, BootScanned, Losing,
    Requesting
<1>2. Base /\ Connection /\ Endings /\ [Next]_vars => Endings'
  <2>1. ASSUME Endings, UNCHANGED vars PROVE Endings'
    BY <2>1 DEF Endings, OnRequest, Faultless, Announced, Arriving, Starting,
       BootScanned, Losing, Requesting, Free, Has, ScanBeforeStarts, ScanAfterStarts,
       ScanBetweenStarts, ScanFirst, LostOnce, vars, nacVars, driverVars
  <2> QED BY <2>1, EndingsNext
<1> QED BY <1>1, <1>2, ConnectionInvariant, PTL DEF Spec

(* With the timing given the same holds whatever driver call fails, and is
   simpler: the radio is started while no event waits, and a link that a
   failing call leaves behind was not announced yet. *)
Kept ==
    /\ announced <=> state = "CONNECTED"
    /\ announced \/ Has(events, "GOT_IP") =>
          link = "up" /\ ~Has(events, "STA_DISCONNECTED")
    /\ main = "start" => events = <<>> /\ link # "assoc" /\ state = "CONNECTING"
BootOnly ==
    /\ state \notin {"START_SCAN", "SCANNING"} /\ main # "scanning"
    /\ scanning \/ Has(events, "SCAN_DONE") => main = "bootscan"
Keeping == given.timely /\ OnRequest => Kept /\ BootOnly

LEMMA KeepingNext ==
    ASSUME Base, Connection, Keeping, Next
    PROVE  Keeping'
<1> SUFFICES ASSUME given.timely, OnRequest PROVE Kept' /\ BootOnly'
  BY DEF Keeping, OnRequest, Next
<1> Kept /\ BootOnly BY DEF Keeping
<1> Typed /\ Hardware /\ AtBoot BY DEF Base, Patient, OnRequest
<1> Ending BY DEF Connection, Attended, Undisturbed, OnRequest
<1> Between /\ Pausing /\ StartAwaits /\ LossAwaits
  BY DEF Connection, Attended, Undisturbed, OnRequest, InTime
<1> FlagsTyped /\ PlacesTyped BY DEF Typed
<1> given.patient /\ ~given.linkDrops /\ "scan" \notin given.acts BY DEF OnRequest
<1> Slept => events = <<>> BY DEF Slept
<1> /\ "GOT_IP" \in Events /\ "STA_DISCONNECTED" \in Events
    /\ "SCAN_DONE" \in Events /\ "STA_START" \in Events
  BY DEF Events
<1>0. ASSUME Unlinked \/ UNCHANGED <<link, peer, events>>
      PROVE  /\ link' \in {link, "none"}
             /\ \A f : f # "STA_DISCONNECTED" => (Has(events', f) <=> Has(events, f))
  BY <1>0, UnlinkedHas DEF Unlinked
<1>21. ASSUME BringOffline, main \in {"bootscan", "bootfail", "settle", "start"},
              main' \in {"loop", "return"}, state' \in {state, "IDLE"},
              announced' = announced, ~scanning, ~Has(events, "SCAN_DONE")
      PROVE  Kept' /\ BootOnly'
  <2>1. ~announced /\ state # "CONNECTED" /\ ~Has(events, "GOT_IP")
    BY <1>21, HasNone DEF Kept, AtBoot, Pausing, Between
  <2>2. ~Has(events', "GOT_IP") /\ ~Has(events', "SCAN_DONE")
    BY <1>21, <1>0, <2>1, GoingOffline
  <2>3. Kept' BY <1>21, <2>1, <2>2 DEF Kept
  <2>4. ~scanning' BY <1>21, GoingOffline
  <2>5. BootOnly' BY <1>21, <2>2, <2>4 DEF BootOnly, PlacesTyped
  <2> QED BY <2>3, <2>5
<1>22. ASSUME UNCHANGED <<events, link, state, announced, scanning>>,
              main \notin {"start", "bootscan"},
              main' \notin {"start", "bootscan", "scanning"}
      PROVE  Kept' /\ BootOnly'
  BY <1>22 DEF Kept, BootOnly
<1>1. CASE User
  <2>1. /\ main = "loop" /\ events = <<>> /\ UNCHANGED <<main, events, link, scanning>>
    BY <1>1 DEF User, nac_request_wifi_connect, nac_request_wifi_scan, CanRequest,
       Settled, Quiet, FactoryReset, nac_request_wifi_disconnect, WifiDisconnect,
       driverVars
  <2>2. \/ UNCHANGED <<state, announced>>
        \/ state' = "IDLE" /\ announced' = FALSE
        \/ state' = "REQUEST_CONNECT" /\ state # "CONNECTED" /\ announced' = announced
    BY <1>1 DEF User, nac_request_wifi_connect, nac_request_wifi_scan, CanRequest,
       FactoryReset, nac_request_wifi_disconnect, WifiDisconnect, NotifyDown
  <2>3. ~scanning BY <2>1 DEF BootOnly
  <2> QED BY <2>1, <2>2, <2>3, HasNone DEF Kept, BootOnly
<1>2. CASE ResetDisconnect
  <2>1. /\ main = "loop" /\ events = <<>> /\ UNCHANGED <<main, events, link, scanning>>
        /\ state' = "IDLE" /\ announced' = FALSE
    BY <1>2 DEF ResetDisconnect, WifiDisconnect, NotifyDown, Ending, driverVars
  <2> QED BY <2>1, HasNone DEF Kept, BootOnly
<1>3. CASE DisconnectStop
  <2>1. /\ main = "loop" /\ state = "IDLE" /\ UNCHANGED <<main, state, announced>>
        /\ ~Has(events, "GOT_IP") /\ ~Has(events, "SCAN_DONE") /\ ~scanning
    BY <1>3 DEF DisconnectStop, Ending, nacVars
  <2>2. Unlinked \/ UNCHANGED <<link, peer, events>>
    BY <1>3, StayingOnline DEF DisconnectStop, StopRadio, Unlinked
  <2>3. ~Has(events', "GOT_IP") /\ ~Has(events', "SCAN_DONE") BY <1>0, <2>1, <2>2
  <2>4. ~scanning' BY <1>3, <2>1, StayingOnline DEF DisconnectStop, StopRadio
  <2> QED BY <2>1, <2>3, <2>4 DEF Kept, BootOnly
<1>4. CASE DisconnectDeinit
  <2>1. /\ main = "loop" /\ state = "IDLE"
        /\ UNCHANGED <<main, announced, events, link, state, scanning>>
    BY <1>4 DEF DisconnectDeinit, Ending
  <2> QED BY <2>1, <1>22
<1>5. CASE BootNothing
  BY <1>5, <1>22 DEF BootNothing, nacVars, driverVars
<1>6. CASE BootScan
  <2>1. /\ main = "boot" /\ events = <<>> /\ ~radio /\ state = "IDLE" /\ state' = "IDLE"
        /\ main' \in {"bootscan", "bootfail"} /\ UNCHANGED <<link, announced>>
        /\ StartRadio \/ events' = events
        /\ scanning' => scanning \/ main' = "bootscan"
    BY <1>6 DEF BootScan, AtBoot, Hardware
  <2>2. \A f : Has(events', f) => f = "STA_START" BY <2>1, StartHas, HasNone
  <2>3. ~scanning BY <2>1 DEF Hardware
  <2> QED BY <2>1, <2>2, <2>3 DEF Kept, BootOnly
<1>7. CASE BootFound
  <2>1. /\ main = "bootscan" /\ events = <<>> /\ ~scanning /\ state = "IDLE"
        /\ main' = "loop" /\ state' = "REQUEST_CONNECT"
        /\ UNCHANGED <<events, link, announced, scanning>>
    BY <1>7 DEF BootFound, AtBoot, driverVars
  <2> QED BY <2>1, HasNone DEF Kept, BootOnly
<1>8. CASE BootOffline
  <2>1. ~scanning /\ ~Has(events, "SCAN_DONE")
    BY <1>8, HasNone DEF BootOffline, BootOnly
  <2> QED BY <1>8, <1>21, <2>1 DEF BootOffline
<1>9. CASE ConnectNothing \/ ConnectAlready \/ ConnectReturn
  BY <1>9, <1>22 DEF ConnectNothing, ConnectAlready, ConnectReturn, Called, nacVars,
     driverVars
<1>10. CASE ConnectRequested \/ ConnectGiveUp
  <2>1. /\ main = "loop" /\ main' \in {"loop", "return"} /\ state # "CONNECTED"
        /\ state' \in {"RECONNECT", "ERROR"}
        /\ UNCHANGED <<events, link, announced, scanning>>
    BY <1>10 DEF ConnectRequested, ConnectGiveUp, Called, driverVars
  <2> QED BY <2>1 DEF Kept, BootOnly
<1>11. CASE ConnectReset
  <2>1. /\ main = "loop" /\ state = "RECONNECT" /\ UNCHANGED <<state, announced>>
        /\ main' \in {"settle", "return"}
        /\ Unlinked \/ UNCHANGED <<link, peer, events>>
        /\ scanning' => scanning
    BY <1>11 DEF ConnectReset, Called, RestartHardware, StopRadio, Unlinked
  <2>2. ~Has(events', "GOT_IP") /\ ~Has(events', "SCAN_DONE")
    BY <1>0, <2>1 DEF Between, BootOnly
  <2> QED BY <2>1, <2>2 DEF Kept, BootOnly
<1>12. CASE ConnectConfigure
  <2>1. main = "settle" /\ events = <<>> /\ announced' = announced /\ ~scanning
    BY <1>12 DEF ConnectConfigure, BootOnly
  <2>2. ~Has(events, "SCAN_DONE") BY <2>1, HasNone
  <2>3. CASE /\ main' = "start" /\ state' = "CONNECTING"
             /\ UNCHANGED <<scanning, link, events>>
    <3>1. state # "CONNECTED" /\ link # "assoc" BY <2>1 DEF Pausing, Between
    <3> QED BY <2>1, <2>2, <2>3, <3>1, HasNone DEF Kept, BootOnly
  <2> QED BY <1>12, <1>21, <2>1, <2>2, <2>3 DEF ConnectConfigure
<1>13. CASE ConnectStart
  <2>1. /\ main = "start" /\ main' = "return" /\ announced' = announced
        /\ events = <<>> /\ state = "CONNECTING" /\ ~scanning
    BY <1>13 DEF ConnectStart, Kept, BootOnly
  <2>2. ~Has(events, "SCAN_DONE") BY <2>1, HasNone
  <2>3. CASE StartRadio /\ UNCHANGED <<state, scanning, link>>
    <3>1. \A f : Has(events', f) => f = "STA_START" BY <2>1, <2>3, StartHas, HasNone
    <3> QED BY <2>1, <2>3, <3>1 DEF Kept, BootOnly
  <2> QED BY <1>13, <1>21, <2>1, <2>2, <2>3 DEF ConnectStart
<1>14. CASE ScanStart \/ ScanStarted
  BY <1>14 DEF ScanStart, ScanStarted, Called, BootOnly
<1>15. CASE EventLoop
  <2>1. PICK e \in Events : Dispatch(e)
    BY <1>15 DEF EventLoop, DropEvent, OnStaStart, OnStaDisconnected, OnScanDone, OnGotIp
  <2>2. \A f : Has(events, f) <=> Has(events', f) \/ f = e BY <2>1, DispatchHas
  <2>3. UNCHANGED <<main, scanning>> /\ main # "start"
    BY <2>1 DEF Dispatch, Kept
  <2>4. CASE DropEvent
    BY <2>2, <2>3, <2>4 DEF DropEvent, nacVars, Kept, BootOnly
  <2>5. CASE OnStaStart
    <3>1. Has(events, "STA_START") BY <2>5, DispatchHas DEF OnStaStart
    <3>2. ~Has(events, "GOT_IP") /\ link = "none" BY <3>1 DEF StartAwaits
    <3>3. UNCHANGED <<state, announced>> BY <2>5 DEF OnStaStart, nacVars
    <3> QED BY <2>2, <2>3, <3>2, <3>3 DEF Kept, BootOnly
  <2>6. CASE OnStaDisconnected
    <3>1. Has(events, "STA_DISCONNECTED") BY <2>6, DispatchHas DEF OnStaDisconnected
    <3>2. ~announced /\ state # "CONNECTED" /\ ~Has(events, "GOT_IP") BY <3>1 DEF Kept
    <3>3. state' \in {state, "RECONNECT"} /\ UNCHANGED <<announced, link>>
      BY <2>6 DEF OnStaDisconnected, Reconnect
    <3> QED BY <2>2, <2>3, <3>2, <3>3 DEF Kept, BootOnly
  <2>7. CASE OnScanDone
    <3>1. Has(events, "SCAN_DONE") BY <2>7, DispatchHas DEF OnScanDone
    <3>2. state = "IDLE" /\ ~Has(events, "GOT_IP") BY <3>1 DEF BootOnly, AtBoot
    <3>3. state' = "IDLE" /\ UNCHANGED <<announced, link>> BY <2>7 DEF OnScanDone
    <3> QED BY <2>2, <2>3, <3>2, <3>3 DEF Kept, BootOnly
  <2>8. CASE OnGotIp
    <3>1. Has(events, "GOT_IP") BY <2>8, DispatchHas DEF OnGotIp
    <3>2. state' = "CONNECTED" /\ announced' = TRUE /\ link' = link
      BY <2>8 DEF OnGotIp
    <3> QED BY <2>2, <2>3, <3>1, <3>2 DEF Kept, BootOnly
  <2> QED BY <1>15, <2>4, <2>5, <2>6, <2>7, <2>8 DEF EventLoop
<1>16. CASE LinkUp
  <2>1. /\ link = "assoc" /\ link' = "up" /\ Post("GOT_IP")
        /\ UNCHANGED <<main, state, announced, scanning>>
    BY <1>16 DEF LinkUp, Post, nacVars
  <2>2. \A f : Has(events', f) <=> Has(events, f) \/ f = "GOT_IP" BY <2>1, PostHas
  <2>3. ~Has(events, "STA_DISCONNECTED") BY <2>1 DEF LossAwaits
  <2> QED BY <2>1, <2>2, <2>3 DEF Kept, BootOnly
<1>17. CASE LinkRefused \/ LinkLost
  <2>1. /\ link = "assoc" /\ link' = "none" /\ Post("STA_DISCONNECTED")
        /\ UNCHANGED <<main, state, announced, scanning>>
    BY <1>17 DEF LinkRefused, LinkLost, Post, nacVars
  <2>2. \A f : Has(events', f) <=> Has(events, f) \/ f = "STA_DISCONNECTED"
    BY <2>1, PostHas
  <2>3. ~announced /\ ~Has(events, "GOT_IP") /\ main # "start" BY <2>1 DEF Kept
  <2> QED BY <2>1, <2>2, <2>3 DEF Kept, BootOnly
<1>18. CASE ScanFinished
  <2>1. /\ scanning /\ scanning' = FALSE /\ Post("SCAN_DONE")
        /\ UNCHANGED <<main, state, announced, link>>
    BY <1>18 DEF ScanFinished, Post, nacVars
  <2>2. \A f : Has(events', f) <=> Has(events, f) \/ f = "SCAN_DONE" BY <2>1, PostHas
  <2>3. main = "bootscan" BY <2>1 DEF BootOnly
  <2> QED BY <2>1, <2>2, <2>3 DEF Kept, BootOnly
<1> QED BY <1>1, <1>2, <1>3, <1>4, <1>5, <1>6, <1>7, <1>8, <1>9, <1>10, <1>11,
   <1>12, <1>13, <1>14, <1>15, <1>16, <1>17, <1>18 DEF Next, Lvgl, Connect,
   EventLoop, Driver

LEMMA KeepingInvariant == Spec => [](Base /\ Keeping)
<1>1. Init => Keeping
  BY HasNone DEF Init, Keeping, Kept, BootOnly
<1>2. Base /\ Connection /\ Keeping /\ [Next]_vars => Keeping'
  <2>1. ASSUME Keeping, UNCHANGED vars PROVE Keeping'
    BY <2>1 DEF Keeping, OnRequest, Kept, BootOnly, Has, vars, nacVars, driverVars
  <2> QED BY <2>1, KeepingNext
<1> QED BY <1>1, <1>2, ConnectionInvariant, PTL DEF Spec

(* While links are ended on request only, without scans, the rest of the
   firmware is told that the network is up only while it is: when no driver
   call fails, or whichever does if the tasks are timed as the code counts on. *)
THEOREM NacRequestedEndings == Spec => []EndedOnRequest
<1>1. Base /\ Endings /\ Keeping => EndedOnRequest
  <2> SUFFICES ASSUME Endings, Keeping, OnRequest, Faultless \/ given.timely, announced
               PROVE  link = "up"
    BY DEF OnRequest, EndedOnRequest, NetworkUpMeansLink
  <2>1. CASE Faultless BY <2>1 DEF Endings, Announced
  <2>2. CASE given.timely BY <2>2 DEF Keeping, Kept
  <2> QED BY <2>1, <2>2
<1> QED BY <1>1, EndingsInvariant, KeepingInvariant, PTL
=============================================================================
