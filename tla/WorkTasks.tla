----------------------------- MODULE WorkTasks -----------------------------
(***************************************************************************)
(* The settings composed with the work tasks that fetch for them           *)
(* (app_gui_spot_price.c, app_gui_forecast.c).  Each is a scheduler node   *)
(* that main runs when it is due: every minute, and when its setting has   *)
(* been saved.  It copies the setting from the GUI, waits for the answer of *)
(* a server, and shows it; meanwhile main does nothing else, and the user  *)
(* may change the setting.                                                 *)
(***************************************************************************)
EXTENDS SettingsStore

VARIABLES due,       \* the nodes that run in the next pass
          fetching,  \* None, or the task that waits and the setting it copied
          prices,    \* the area whose prices are shown, or None
          forecast   \* the location whose forecast is shown, or None

workVars == <<due, fetching, prices, forecast>>
allVars == <<vars, workVars>>

Tasks == {"price", "forecast"}
TaskOf == [area |-> "price", location |-> "forecast"]
Locations == Values \X Values

WorkTypeOK ==
    /\ TypeOK
    /\ due \subseteq Tasks
    /\ fetching \in {None} \cup {<<"price", a>> : a \in Values}
                           \cup {<<"forecast", l>> : l \in Locations}
    /\ prices \in Values \cup {None}
    /\ forecast \in Locations \cup {None}

WorkInit == Init /\ due = {} /\ fetching = None /\ prices = None /\ forecast = None

WorkRestart ==
    /\ Restart
    /\ due' = {} /\ fetching' = None /\ prices' = None /\ forecast' = None

\* Showing another area clears the prices (gui_state_set_spot_price_area).
PricesCleared == prices' = IF gui'["area"] = gui["area"] THEN prices ELSE None

WorkEdit(k, v) == Edit(k, v) /\ PricesCleared /\ UNCHANGED <<due, fetching, forecast>>

WorkReset == Reset /\ PricesCleared /\ UNCHANGED <<due, fetching, forecast>>

\* The nodes whose settings have changed are pulled forward.
Schedule ==
    /\ SyncRuntime
    /\ due' = due \cup {TaskOf[g] : g \in changed}
    /\ UNCHANGED <<fetching, prices, forecast>>

\* The forecast's node is done after its first success.
ElapseOnce(t) ==
    /\ MainFree("runtime") /\ t \notin due
    /\ t = "forecast" => forecast = None
    /\ due' = due \cup {t}
    /\ UNCHANGED <<vars, fetching, prices, forecast>>

\* A minute will have passed when the next pass looks at the node.
Elapse(t) ==
    /\ MainFree("runtime") /\ t \notin due
    /\ due' = due \cup {t}
    /\ UNCHANGED <<vars, fetching, prices, forecast>>

Location == <<gui["lat"], gui["lon"]>>

FetchPrices ==
    /\ fetching = None /\ "price" \in due
    /\ CopyArea
    /\ due' = due \ {"price"}
    /\ fetching' = <<"price", gui["area"]>>
    /\ UNCHANGED <<prices, forecast>>

\* A location that is no place is not asked for.
FetchForecast ==
    /\ MainFree("work") /\ Unlocked
    /\ fetching = None /\ "forecast" \in due
    /\ due' = due \ {"forecast"}
    /\ fetching' = IF Location \in Locations THEN <<"forecast", Location>> ELSE None
    /\ UNCHANGED <<vars, prices, forecast>>

\* The prices are shown under the area that the GUI shows by now.
ShowPricesKeepArea ==
    /\ fetching # None /\ fetching[1] = "price"
    /\ WriteBack(gui["area"])
    /\ prices' = fetching[2]
    /\ fetching' = None
    /\ UNCHANGED <<due, forecast>>

\* The prices are shown, and with them the area they were asked for.
ShowPrices ==
    /\ fetching # None /\ fetching[1] = "price"
    /\ WriteBack(fetching[2])
    /\ prices' = fetching[2]
    /\ fetching' = None
    /\ UNCHANGED <<due, forecast>>

ShowForecast ==
    /\ fetching # None /\ fetching[1] = "forecast"
    /\ MainFree("work") /\ Unlocked
    /\ forecast' = fetching[2]
    /\ fetching' = None
    /\ UNCHANGED <<vars, due, prices>>

\* The request fails, or WiFi is down: the node runs again after a minute.
FetchFail ==
    /\ fetching # None
    /\ GiveUp
    /\ fetching' = None
    /\ UNCHANGED <<due, prices, forecast>>

Pass ==
    /\ fetching = None /\ due = {}
    /\ EndWork
    /\ UNCHANGED workVars

MainTask ==
    \/ Schedule
    \/ Save /\ UNCHANGED workVars
    \/ FetchPrices \/ FetchForecast \/ ShowPrices \/ ShowForecast \/ FetchFail
    \/ Pass

WorkUser ==
    \/ ResetStart /\ UNCHANGED workVars
    \/ \E k \in Keys : \E v \in Entries(k) : WorkEdit(k, v)

WorkNext ==
    \/ MainTask \/ WorkReset \/ WorkUser \/ WorkRestart
    \/ \E t \in Tasks : Elapse(t)

(***************************************************************************)
(* Main and LVGL go on, and a node comes due now and then; users need not  *)
(* do anything, and what fails fails a bounded number of times.            *)
(***************************************************************************)
Fairness ==
    /\ WF_allVars(MainTask)
    /\ WF_allVars(WorkReset)
    /\ \A t \in Tasks : SF_allVars(Elapse(t))

WorkSpec == WorkInit /\ [][WorkNext]_allVars /\ Fairness

-----------------------------------------------------------------------------
(***************************************************************************)
(* The prices shown are those of the area shown, also when the user has    *)
(* chosen another one while they were fetched.                             *)
(***************************************************************************)
PricesMatchArea == prices # None => prices = gui["area"]

(***************************************************************************)
(* Once the user leaves the settings alone, what the GUI shows ends up in  *)
(* NVS, unless a failing write or a reset in the middle of a save has torn *)
(* its group.                                                              *)
(***************************************************************************)
EventuallyStored ==
    <>[] \A g \in Groups \ torn : \A k \in In(g) : Loaded(k) = gui[k]

(***************************************************************************)
(* ... and the prices and the forecast shown end up being for the area and *)
(* the location that are set, if that is a place.                          *)
(***************************************************************************)
DataFollowSettings ==
    <>[](prices = gui["area"] /\ (Location \in Locations => forecast = Location))
=============================================================================
