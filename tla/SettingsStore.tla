--------------------------- MODULE SettingsStore ---------------------------
(***************************************************************************)
(* The user's settings: what the GUI shows, the values app_gui_bindings    *)
(* remembers as last saved, and the keys in NVS (app_gui_settings_store.c, *)
(* app_gui_bindings.c).                                                    *)
(*                                                                         *)
(* The main task loops through app_gui_bindings_sync(), whose three save   *)
(* functions copy settings from the GUI, compare them with the last saved  *)
(* values and write keys one by one, and task_scheduler_work().  The LVGL  *)
(* task serves the user, the factory reset included, and holds the GUI's   *)
(* mutex while it does, so that main waits at gui_get and gui_set calls; NVS *)
(* and the last saved values have no lock.  The device can lose power or   *)
(* be restarted between any two steps.                                     *)
(***************************************************************************)
EXTENDS Naturals, Sequences, FiniteSets

CONSTANTS Values,       \* valid settings; every key takes them
          Default,      \* the factory setting, of every key
          Empty,        \* no coordinate: saved like a value, but no place
          Invalid,      \* text that is not a coordinate in range
          None,         \* no such key in NVS
          MaxRequests,  \* bound on edits and factory resets together
          MaxFaults     \* bound on restarts and failures together

ASSUME ValuesAssumption ==
    /\ Default \in Values /\ Empty \notin Values
    /\ Invalid \notin Values \cup {Empty} /\ None \notin Values \cup {Empty, Invalid}
ASSUME BoundsAssumption == MaxRequests \in Nat /\ MaxFaults \in Nat

(***************************************************************************)
(* The keys that are written together, in order, before the last saved     *)
(* value of their group is updated.                                        *)
(***************************************************************************)
Groups == {"appearance", "brightness", "location", "area"}

KeysOf == [appearance |-> <<"theme", "bg", "night">>,
           brightness |-> <<"brightness">>,
           location   |-> <<"lat", "lon">>,
           area       |-> <<"area">>]

Keys == {"theme", "bg", "night", "brightness", "lat", "lon", "area"}
Coordinates == {"lat", "lon"}
ResetOrder == <<"theme", "bg", "night", "brightness", "lat", "lon", "area">>

In(g) == {KeysOf[g][i] : i \in 1..Len(KeysOf[g])}
Settings == Values \cup {Empty}
Entries(k) == IF k \in Coordinates THEN Settings \cup {Invalid} ELSE Values

VARIABLES gui,      \* what the GUI shows
          nvs,      \* the keys in flash
          last,     \* ctx->last_*
          read,     \* main's copy of the GUI's settings
          main,     \* where main is, or will be when todo is done
          todo,     \* the groups the save function still has to write
          pos,      \* the next key of the first of them
          reset,    \* 0, or the step app_gui_on_reset_requested() is at
          changed,  \* ctx->location_changed, ctx->spot_price_area_changed
          requests, \* edits and resets so far
          faults,   \* restarts and failures so far
          crossed,  \* history: a reset has overlapped the save under way
          torn,     \* history: groups left half-written by a failure or a reset
          stale     \* history: keys main is going to write back, changed meanwhile

storeVars == <<nvs, last, changed, torn>>
mainVars == <<read, main, todo, pos>>
vars == <<gui, storeVars, mainVars, reset, requests, faults, crossed, stale>>

MainAt == {"runtime", "getAppearance", "getBrightness", "compareAppearance",
           "getLocation", "fallback", "correct", "compareLocation",
           "getArea", "compareArea", "work"}

Show == Len(ResetOrder) + 1
Forget == Len(ResetOrder) + 2

TypeOK ==
    /\ gui \in [Keys -> Settings \cup {Invalid}]
    /\ nvs \in [Keys -> Settings \cup {None}]
    /\ last \in [Keys -> Settings]
    /\ read \in [Keys -> Settings \cup {Invalid}]
    /\ main \in MainAt
    /\ todo \in {<<>>, <<"appearance">>, <<"brightness">>, <<"appearance", "brightness">>,
                 <<"location">>, <<"area">>}
    /\ pos \in 1..4
    /\ reset \in 0..Forget
    /\ changed \subseteq {"location", "area"}
    /\ requests \in 0..MaxRequests
    /\ faults \in 0..MaxFaults
    /\ crossed \in BOOLEAN
    /\ torn \subseteq Groups
    /\ stale \subseteq Keys

-----------------------------------------------------------------------------
(***************************************************************************)
(* Start of the device.  What the load functions would find for a key.     *)
(***************************************************************************)
Loaded(k) == IF nvs[k] = None THEN Default ELSE nvs[k]

LoadedAll == [k \in Keys |-> Loaded(k)]

Requested == requests < MaxRequests /\ requests' = requests + 1
Happens == faults < MaxFaults /\ faults' = faults + 1

Init ==
    /\ gui = [k \in Keys |-> Default]
    /\ nvs = [k \in Keys |-> None]
    /\ last = gui
    /\ read = gui
    /\ main = "runtime" /\ todo = <<>> /\ pos = 1
    /\ reset = 0
    /\ changed = {}
    /\ requests = 0 /\ faults = 0
    /\ crossed = FALSE /\ torn = {} /\ stale = {}

\* A restart, wherever the tasks are: the settings are loaded and remembered.
Restart ==
    /\ Happens
    /\ gui' = LoadedAll
    /\ last' = LoadedAll
    /\ main' = "runtime" /\ todo' = <<>> /\ pos' = 1 /\ reset' = 0
    /\ changed' = {} /\ torn' = {} /\ stale' = {} /\ crossed' = FALSE
    /\ read' = LoadedAll
    /\ UNCHANGED <<nvs, requests>>

-----------------------------------------------------------------------------
(***************************************************************************)
(* The LVGL task.                                                          *)
(***************************************************************************)
\* The keys of which main holds a copy that it may write back.
Held == CASE main \in {"fallback", "correct"} -> Coordinates
          [] main = "work" -> {"area"}
          [] OTHER -> {}

Edit(k, v) ==
    /\ reset = 0 /\ Requested
    /\ v \in Entries(k) \ {gui[k]}
    /\ gui' = [gui EXCEPT ![k] = v]
    /\ stale' = stale \cup ({k} \cap Held)
    /\ UNCHANGED <<storeVars, mainVars, reset, faults, crossed>>

\* Main is between its first look at the settings and the end of a save.
Saving ==
    \/ todo # <<>>
    \/ main \in {"getBrightness", "compareAppearance", "fallback", "correct",
                 "compareLocation", "compareArea"}

ResetStart ==
    /\ reset = 0 /\ Requested
    /\ reset' = 1
    /\ crossed' = Saving
    /\ torn' = {}
    /\ UNCHANGED <<gui, nvs, last, changed, mainVars, faults, stale>>

\* The keys are erased one by one; that an erasure fails is ignored.
ResetErase ==
    /\ reset \in 1..Len(ResetOrder)
    /\ LET k == ResetOrder[reset] IN
       \/ /\ nvs' = [nvs EXCEPT ![k] = None]
          /\ UNCHANGED <<faults, torn>>
       \/ /\ nvs[k] # None /\ Happens
          /\ torn' = torn \cup {g \in Groups : k \in In(g)}
          /\ UNCHANGED nvs
    /\ reset' = reset + 1
    /\ UNCHANGED <<gui, last, changed, mainVars, requests, crossed, stale>>

ResetShow ==
    /\ reset = Show
    /\ gui' = [k \in Keys |-> Default]
    /\ stale' = stale \cup Held
    /\ reset' = Forget
    /\ UNCHANGED <<storeVars, mainVars, requests, faults, crossed>>

ResetForget ==
    /\ reset = Forget
    /\ last' = [k \in Keys |-> Default]
    /\ changed' = changed \cup {"area"}
    /\ reset' = 0
    /\ UNCHANGED <<gui, nvs, mainVars, requests, faults, crossed, torn, stale>>

Reset == ResetErase \/ ResetShow \/ ResetForget

-----------------------------------------------------------------------------
(***************************************************************************)
(* The main task.  gui_get and gui_set wait for the mutex, which a reset holds. *)
(***************************************************************************)
MainFree(at) == todo = <<>> /\ main = at
Unlocked == reset = 0

\* app_gui_sync_runtime() hands the change flags to the work tasks (WorkTasks).
SyncRuntime ==
    /\ MainFree("runtime")
    /\ changed' = {}
    /\ main' = "getAppearance"
    /\ UNCHANGED <<gui, nvs, last, torn, read, todo, pos, reset, requests, faults, crossed, stale>>

Get(g, at, next, starts) ==
    /\ MainFree(at) /\ Unlocked
    /\ read' = [k \in Keys |-> IF k \in In(g) THEN gui[k]
                               ELSE IF starts THEN Default ELSE read[k]]
    /\ crossed' = (crossed /\ ~starts)
    /\ main' = next
    /\ UNCHANGED <<gui, storeVars, todo, pos, reset, requests, faults, stale>>

GetAppearance == Get("appearance", "getAppearance", "getBrightness", TRUE)
GetBrightness == Get("brightness", "getBrightness", "compareAppearance", FALSE)
GetLocation == Get("location", "getLocation", "fallback", TRUE)
GetArea == Get("area", "getArea", "compareArea", TRUE)

\* Both coordinates are replaced when one is not valid.
CorrectedBoth ==
    [k \in Keys |-> IF /\ k \in Coordinates
                       /\ \E c \in Coordinates : read[c] = Invalid THEN last[k] ELSE read[k]]

\* Coordinates that are not valid are replaced by the last saved ones ...
Corrected == [k \in Keys |-> IF k \in Coordinates /\ read[k] = Invalid THEN last[k] ELSE read[k]]

Fallback ==
    /\ MainFree("fallback")
    /\ read' = Corrected
    /\ main' = IF Corrected = read THEN "compareLocation" ELSE "correct"
    /\ UNCHANGED <<gui, storeVars, todo, pos, reset, requests, faults, crossed, stale>>

\* ... in the GUI, too.
Correct ==
    /\ MainFree("correct") /\ Unlocked
    /\ gui' = [k \in Keys |-> IF k \in Coordinates THEN read[k] ELSE gui[k]]
    /\ main' = "compareLocation"
    /\ UNCHANGED <<storeVars, read, todo, pos, reset, requests, faults, crossed, stale>>

\* Only the first key of the group is compared.
ChangedFirst(g) == read[KeysOf[g][1]] # last[KeysOf[g][1]]

Changed(g) == \E k \in In(g) : read[k] # last[k]

ToSave(g) == IF Changed(g) THEN <<g>> ELSE <<>>

Compare(groups, at, next) ==
    /\ MainFree(at)
    /\ todo' = groups
    /\ pos' = 1
    /\ main' = next
    /\ stale' = {}
    /\ UNCHANGED <<gui, storeVars, read, reset, requests, faults, crossed>>

CompareAppearance == Compare(ToSave("appearance") \o ToSave("brightness"), "compareAppearance", "getLocation")
CompareLocation == Compare(ToSave("location"), "compareLocation", "getArea")
CompareArea == Compare(ToSave("area"), "compareArea", "work")

\* The error is logged, and the save goes on.
PutSkips(g) ==
    /\ Happens
    /\ pos' = pos + 1
    /\ UNCHANGED <<nvs, todo, torn>>

\* A key that cannot be written ends the save function.
PutFails(g) ==
    /\ Happens
    /\ todo' = <<>> /\ pos' = 1
    /\ torn' = IF pos > 1 THEN torn \cup {g} ELSE torn
    /\ UNCHANGED nvs

Put ==
    /\ todo # <<>> /\ pos <= Len(KeysOf[Head(todo)])
    /\ \/ /\ nvs' = [nvs EXCEPT ![KeysOf[Head(todo)][pos]] = read[KeysOf[Head(todo)][pos]]]
          /\ pos' = pos + 1
          /\ UNCHANGED <<todo, faults, torn>>
       \/ PutFails(Head(todo))
    /\ UNCHANGED <<gui, last, changed, read, main, reset, requests, crossed, stale>>

\* The whole group is written: it is remembered as last saved.
Remember ==
    /\ todo # <<>>
    /\ LET g == Head(todo) IN
       /\ pos > Len(KeysOf[g])
       /\ last' = [k \in Keys |-> IF k \in In(g) THEN read[k] ELSE last[k]]
       /\ changed' = changed \cup ({g} \cap {"location", "area"})
       /\ torn' = IF crossed THEN torn \cup {g} ELSE torn \ {g}
    /\ todo' = Tail(todo) /\ pos' = 1
    /\ UNCHANGED <<gui, nvs, read, main, reset, requests, faults, crossed, stale>>

\* task_scheduler_work(): a work task copies the area, ...
CopyArea ==
    /\ MainFree("work") /\ Unlocked
    /\ stale' = {}
    /\ UNCHANGED <<gui, storeVars, mainVars, reset, requests, faults, crossed>>

\* ... and writes it back or gives up.
WriteBack(a) ==
    /\ MainFree("work") /\ Unlocked
    /\ gui' = [gui EXCEPT !["area"] = a]
    /\ UNCHANGED <<storeVars, mainVars, reset, requests, faults, crossed, stale>>

GiveUp ==
    /\ MainFree("work") /\ Happens
    /\ UNCHANGED <<gui, storeVars, mainVars, reset, requests, crossed, stale>>

EndWork ==
    /\ MainFree("work")
    /\ main' = "runtime"
    /\ stale' = {}
    /\ UNCHANGED <<gui, storeVars, read, todo, pos, reset, requests, faults, crossed>>

Save ==
    \/ GetAppearance \/ GetBrightness \/ CompareAppearance
    \/ GetLocation \/ Fallback \/ Correct \/ CompareLocation
    \/ GetArea \/ CompareArea
    \/ Put \/ Remember

User == ResetStart \/ \E k \in Keys : \E v \in Entries(k) : Edit(k, v)

Next ==
    \/ SyncRuntime \/ Save
    \/ CopyArea \/ (\E a \in Values : WriteBack(a)) \/ GiveUp \/ EndWork
    \/ Reset \/ User \/ Restart

Spec == Init /\ [][Next]_vars

-----------------------------------------------------------------------------
(***************************************************************************)
(* What is remembered as saved is what the next start would load: the save *)
(* functions only compare with the remembered value, so a difference would *)
(* never be found.  A group may be in the middle of being written, or have *)
(* been left torn by a failing write or a reset.                           *)
(***************************************************************************)
Writing(g) == todo # <<>> /\ Head(todo) = g /\ pos > 1

RememberedIsStored ==
    reset = 0 =>
        \A g \in Groups \ torn : Writing(g) \/ \A k \in In(g) : Loaded(k) = last[k]

(***************************************************************************)
(* Main copies settings, and writes some of them back later: coordinates   *)
(* when one is not valid, the price area after its prices were fetched.    *)
(* Only a value that is not valid, or one the user has changed in between, *)
(* is overwritten.                                                         *)
(***************************************************************************)
OnlyCrossedEditsLost ==
    [][\A k \in Keys : (Correct \/ \E a \in Values : WriteBack(a)) =>
           \/ gui'[k] = gui[k] \/ gui[k] = Invalid
           \/ k \in stale]_vars

(***************************************************************************)
(* app_gui_bindings_internal.h:161: "Reset persisted GUI settings and      *)
(* restore factory-default GUI state."  When the factory settings are      *)
(* shown and remembered as saved, and main has come round, they are what   *)
(* the next start would load.                                              *)
(***************************************************************************)
Factory == [k \in Keys |-> Default]
AtRest == reset = 0 /\ MainFree("runtime")

ResetIsStored == AtRest /\ gui = Factory /\ last = Factory => LoadedAll = Factory
=============================================================================
