--------------------------- MODULE SettingsProofs ---------------------------
(***************************************************************************)
(* The settings store, and the work tasks that fetch for its settings, for *)
(* every set of values and any number of edits, resets, restarts and       *)
(* failures.  What is remembered as saved is what NVS holds.  Every        *)
(* behaviour with the work tasks is one of the store, the prices shown are *)
(* those of the area shown, and main writes back only what it has read or  *)
(* nobody can want.                                                        *)
(***************************************************************************)
EXTENDS WorkTasks, SequenceTheorems, TLAPS

-----------------------------------------------------------------------------
(***************************************************************************)
(* The groups and their keys.                                              *)
(***************************************************************************)
LEMMA InAppearance == In("appearance") = {"theme", "bg", "night"}
<1>1. KeysOf["appearance"] = <<"theme", "bg", "night">> BY DEF KeysOf
<1>2. Len(KeysOf["appearance"]) = 3 BY <1>1
<1> QED BY <1>1, <1>2 DEF In

LEMMA InBrightness == In("brightness") = {"brightness"}
<1>1. KeysOf["brightness"] = <<"brightness">> BY DEF KeysOf
<1> QED BY <1>1 DEF In

LEMMA InLocation == In("location") = {"lat", "lon"}
<1>1. KeysOf["location"] = <<"lat", "lon">> BY DEF KeysOf
<1> QED BY <1>1 DEF In

LEMMA InArea == In("area") = {"area"}
<1>1. KeysOf["area"] = <<"area">> BY DEF KeysOf
<1> QED BY <1>1 DEF In

LEMMA KeysPlaced ==
    /\ \A g \in Groups : In(g) \subseteq Keys
    /\ \A k \in Keys : \E g \in Groups : k \in In(g)
    /\ \A g, h \in Groups : g # h => In(g) \cap In(h) = {}
BY InAppearance, InBrightness, InLocation, InArea DEF Groups, Keys

LEMMA KeysOfType ==
    /\ \A g \in Groups : /\ Len(KeysOf[g]) \in 1..3
                         /\ \A i \in 1..Len(KeysOf[g]) : KeysOf[g][i] \in In(g)
    /\ \A g \in Groups : \A i, j \in 1..Len(KeysOf[g]) : KeysOf[g][i] = KeysOf[g][j] => i = j
<1>1. KeysOf["appearance"] = <<"theme", "bg", "night">> BY DEF KeysOf
<1>2. KeysOf["brightness"] = <<"brightness">> BY DEF KeysOf
<1>3. KeysOf["location"] = <<"lat", "lon">> BY DEF KeysOf
<1>4. KeysOf["area"] = <<"area">> BY DEF KeysOf
<1>5. \A g \in Groups : Len(KeysOf[g]) \in 1..3
  BY <1>1, <1>2, <1>3, <1>4 DEF Groups
<1>6. \A g \in Groups : \A i \in 1..Len(KeysOf[g]) : KeysOf[g][i] \in In(g)
  BY DEF In
<1>7. \A g \in Groups : \A i, j \in 1..Len(KeysOf[g]) : KeysOf[g][i] = KeysOf[g][j] => i = j
  BY <1>1, <1>2, <1>3, <1>4 DEF Groups
<1> QED BY <1>5, <1>6, <1>7

LEMMA ResetErasesAll ==
    /\ Len(ResetOrder) = 7
    /\ \A i \in 1..7 : ResetOrder[i] \in Keys
    /\ \A k \in Keys : \E i \in 1..7 : ResetOrder[i] = k
<1>1. Len(ResetOrder) = 7 BY DEF ResetOrder
<1>2. /\ ResetOrder[1] = "theme" /\ ResetOrder[2] = "bg" /\ ResetOrder[3] = "night"
      /\ ResetOrder[4] = "brightness" /\ ResetOrder[5] = "lat" /\ ResetOrder[6] = "lon"
      /\ ResetOrder[7] = "area"
  BY DEF ResetOrder
<1> QED BY <1>1, <1>2 DEF Keys

-----------------------------------------------------------------------------
(***************************************************************************)
(* The inductive invariant.  A key that main has written in the group it   *)
(* is saving is rewritten; it holds what main has read until a reset       *)
(* crosses the save.                                                       *)
(***************************************************************************)
Saved(k) == IF k \in Coordinates THEN Settings ELSE Values

Rewritten(k) == /\ todo # <<>>
                /\ \E i \in 1..Len(KeysOf[Head(todo)]) : i < pos /\ KeysOf[Head(todo)][i] = k

\* Only what is valid is ever saved or remembered.
Typed == \A k \in Keys : /\ gui[k] \in Entries(k) /\ read[k] \in Entries(k)
                         /\ nvs[k] \in Saved(k) \cup {None}
                         /\ last[k] \in Saved(k)

\* Where main is while it saves.
Placed == \/ todo = <<>>
          \/ /\ main = "getLocation"
             /\ todo \in {<<"appearance">>, <<"brightness">>, <<"appearance", "brightness">>}
          \/ main = "getArea" /\ todo = <<"location">>
          \/ main = "work" /\ todo = <<"area">>

PosInGroup == todo # <<>> => pos <= Len(KeysOf[Head(todo)]) + 1

Legible == main \in {"correct", "compareLocation"} \/ todo = <<"location">> =>
               \A k \in Coordinates : read[k] \in Settings

\* A reset that begins during a save is known to have crossed it.
Crossing == reset # 0 /\ Saving => crossed

Copied == todo # <<>> /\ ~crossed => \A k \in Keys : Rewritten(k) => nvs[k] = read[k]

\* What a reset has erased stays erased unless main writes it again.
Erased == \A i \in 1..7 : i < reset =>
              \A g \in Groups \ torn :
                  ResetOrder[i] \in In(g) =>
                      nvs[ResetOrder[i]] = None \/ Rewritten(ResetOrder[i])

Sound == reset = 0 => \A g \in Groups \ torn : \A k \in In(g) :
                          Rewritten(k) \/ Loaded(k) = last[k]

IInv == TypeOK /\ Typed /\ Placed /\ PosInGroup /\ Legible /\ Crossing /\ Copied /\ Erased /\ Sound

LEMMA IInvInit == Init => IInv
<1> SUFFICES ASSUME Init PROVE IInv
  OBVIOUS
<1> USE DEF Init, Factory
<1>1. TypeOK
  <2>1. 0 \in 0..Forget
    BY ResetErasesAll DEF Forget
  <2>2. 0 \in 0..MaxRequests /\ 0 \in 0..MaxFaults
    BY BoundsAssumption
  <2>3. /\ gui \in [Keys -> Settings \cup {Invalid}] /\ nvs \in [Keys -> Settings \cup {None}]
        /\ last \in [Keys -> Settings] /\ read \in [Keys -> Settings \cup {Invalid}]
    BY ValuesAssumption DEF Settings
  <2>4. main \in MainAt /\ todo = <<>> /\ pos \in 1..4
    BY DEF MainAt
  <2>5. changed = {} /\ torn = {} /\ stale = {} /\ crossed \in BOOLEAN
    OBVIOUS
  <2> QED BY <2>1, <2>2, <2>3, <2>4, <2>5 DEF TypeOK
<1>2. Typed
  BY ValuesAssumption DEF Typed, Entries, Saved, Settings
<1>3. Placed /\ PosInGroup /\ Legible /\ Crossing /\ Copied
  BY DEF Placed, PosInGroup, Legible, Crossing, Copied
<1>4. Erased
  BY DEF Erased
<1>5. Sound
  BY KeysPlaced DEF Sound, Loaded
<1> QED BY <1>1, <1>2, <1>3, <1>4, <1>5 DEF IInv

(***************************************************************************)
(* A step that leaves NVS, the remembered values, the save and the reset   *)
(* alone disturbs only what is known of the GUI, of main's copy and of     *)
(* where main is.                                                          *)
(***************************************************************************)
LEMMA Undisturbed ==
    ASSUME IInv, UNCHANGED <<nvs, last, torn, todo, pos, reset>>,
           todo = <<>> \/ UNCHANGED <<read, crossed>>
    PROVE  PosInGroup' /\ Copied' /\ Erased' /\ Sound'
<1>1. PosInGroup'
  BY DEF IInv, PosInGroup
<1>2. \A k : Rewritten(k)' <=> Rewritten(k)
  BY DEF Rewritten
<1>3. Copied'
  BY <1>2 DEF IInv, Copied
<1>4. Erased'
  BY <1>2 DEF IInv, Erased
<1>5. Sound'
  BY <1>2 DEF IInv, Sound, Loaded
<1> QED BY <1>1, <1>3, <1>4, <1>5

LEMMA EditKeeps ==
    ASSUME IInv, NEW k \in Keys, NEW v \in Entries(k), Edit(k, v)
    PROVE  IInv'
<1> USE DEF Edit, storeVars, mainVars
<1>1. TypeOK'
  BY BoundsAssumption DEF IInv, TypeOK, Requested, Entries, Settings, Held, Keys, Coordinates
<1>2. Typed'
  BY DEF IInv, TypeOK, Typed, Entries, Saved
<1>3. Placed' /\ Legible' /\ Crossing'
  BY DEF IInv, Placed, Legible, Crossing, Saving
<1> QED BY <1>1, <1>2, <1>3, Undisturbed DEF IInv

LEMMA WorkKeeps ==
    ASSUME IInv,
           \/ CopyArea \/ GiveUp \/ EndWork \/ SyncRuntime
           \/ \E a \in Values : WriteBack(a)
    PROVE  IInv'
<1> USE DEF CopyArea, GiveUp, EndWork, SyncRuntime, WriteBack, storeVars, mainVars, MainFree
<1>1. TypeOK'
  <2>1. CASE \E a \in Values : WriteBack(a)
    BY <2>1 DEF IInv, TypeOK, Settings, Keys
  <2>2. CASE GiveUp
    BY <2>2, BoundsAssumption DEF IInv, TypeOK, Happens
  <2>3. CASE CopyArea \/ EndWork \/ SyncRuntime
    BY <2>3 DEF IInv, TypeOK, MainAt
  <2> QED BY <2>1, <2>2, <2>3
<1>2. Typed'
  <2>1. CASE \E a \in Values : WriteBack(a)
    BY <2>1 DEF IInv, TypeOK, Typed, Entries, Saved, Settings
  <2>2. CASE CopyArea \/ GiveUp \/ EndWork \/ SyncRuntime
    BY <2>2 DEF IInv, Typed, Entries, Saved
  <2> QED BY <2>1, <2>2
<1>3. todo = <<>> /\ UNCHANGED <<nvs, last, torn, todo, pos, reset, crossed>>
  OBVIOUS
<1>4. Placed' /\ Legible' /\ Crossing'
  BY <1>3 DEF IInv, Placed, Legible, Crossing, Saving
<1> QED BY <1>1, <1>2, <1>3, <1>4, Undisturbed DEF IInv

LEMMA GetKeeps ==
    ASSUME IInv, NEW g \in Groups, NEW at, NEW next \in MainAt, NEW starts \in BOOLEAN,
           Get(g, at, next, starts),
           next \notin {"correct", "compareLocation"}
    PROVE  IInv'
<1> USE DEF Get, storeVars, MainFree, Unlocked
<1>1. TypeOK'
  BY ValuesAssumption DEF IInv, TypeOK, Settings
<1>2. Typed'
  BY ValuesAssumption DEF IInv, TypeOK, Typed, Entries, Saved, Settings
<1>3. todo = <<>> /\ UNCHANGED <<nvs, last, torn, todo, pos, reset>>
  OBVIOUS
<1>4. Placed' /\ Legible' /\ Crossing'
  BY <1>3 DEF IInv, Placed, Legible, Crossing
<1> QED BY <1>1, <1>2, <1>3, <1>4, Undisturbed DEF IInv

LEMMA CorrectionKeeps ==
    ASSUME IInv, Fallback \/ Correct
    PROVE  IInv'
<1> USE DEF Fallback, Correct, storeVars, MainFree
<1>1. /\ todo = <<>> /\ UNCHANGED <<nvs, last, torn, todo, pos, reset, crossed>>
      /\ main' \in {"correct", "compareLocation"}
  OBVIOUS
<1>2. \A k \in Coordinates : k \in Keys /\ read'[k] \in Settings
  <2>1. CASE Fallback
    BY <2>1 DEF IInv, TypeOK, Typed, Corrected, Entries, Saved, Coordinates, Keys
  <2>2. CASE Correct
    BY <2>2 DEF IInv, Legible, Coordinates, Keys
  <2> QED BY <2>1, <2>2
<1>3. TypeOK'
  <2>1. read' \in [Keys -> Settings \cup {Invalid}]
    BY DEF IInv, TypeOK, Corrected
  <2>2. gui' \in [Keys -> Settings \cup {Invalid}]
    BY DEF IInv, TypeOK
  <2> QED BY <2>1, <2>2 DEF IInv, TypeOK, MainAt
<1>4. Typed'
  <2>1. \A k \in Keys : read'[k] \in Entries(k)
    BY DEF IInv, TypeOK, Typed, Corrected, Entries, Saved
  <2>2. \A k \in Keys : gui'[k] \in Entries(k)
    BY DEF IInv, TypeOK, Typed
  <2> QED BY <2>1, <2>2, <1>1 DEF IInv, Typed, Entries, Saved
<1>5. Placed' /\ Legible'
  BY <1>1, <1>2 DEF Placed, Legible
<1>6. Crossing'
  BY <1>1 DEF IInv, Crossing, Saving
<1> QED BY <1>1, <1>3, <1>4, <1>5, <1>6, Undisturbed DEF IInv

LEMMA RestartKeeps ==
    ASSUME IInv, Restart
    PROVE  IInv'
<1> USE DEF Restart
<1>1. \A k \in Keys : LoadedAll[k] \in Saved(k) /\ LoadedAll[k] = Loaded(k)
  BY ValuesAssumption DEF IInv, Typed, LoadedAll, Loaded, Saved, Settings
<1>2. LoadedAll \in [Keys -> Settings]
  BY <1>1 DEF LoadedAll, Saved, Settings
<1>3. TypeOK'
  <2>1. /\ gui' \in [Keys -> Settings \cup {Invalid}] /\ nvs' \in [Keys -> Settings \cup {None}]
        /\ last' \in [Keys -> Settings] /\ read' \in [Keys -> Settings \cup {Invalid}]
    BY <1>2 DEF IInv, TypeOK
  <2>2. main' \in MainAt /\ todo' = <<>> /\ pos' \in 1..4 /\ reset' \in 0..Forget
    BY ResetErasesAll DEF MainAt, Forget
  <2>3. changed' = {} /\ torn' = {} /\ stale' = {} /\ crossed' \in BOOLEAN
    OBVIOUS
  <2>4. requests' \in 0..MaxRequests /\ faults' \in 0..MaxFaults
    BY BoundsAssumption DEF IInv, TypeOK, Happens
  <2> QED BY <2>1, <2>2, <2>3, <2>4 DEF TypeOK
<1>4. Typed'
  BY <1>1 DEF IInv, Typed, Entries, Saved
<1>5. Placed' /\ PosInGroup' /\ Legible' /\ Crossing' /\ Copied' /\ Erased'
  BY DEF Placed, PosInGroup, Legible, Crossing, Copied, Erased
<1>6. Sound'
  BY <1>1, KeysPlaced DEF Sound, Loaded
<1> QED BY <1>3, <1>4, <1>5, <1>6 DEF IInv

LEMMA ResetStartKeeps ==
    ASSUME IInv, ResetStart
    PROVE  IInv'
<1> USE DEF ResetStart, mainVars
<1>1. Saving \in BOOLEAN
  BY DEF Saving
<1>2. TypeOK'
  <2>1. 1 \in 0..Forget
    BY ResetErasesAll DEF Forget
  <2>2. requests' \in 0..MaxRequests /\ crossed' \in BOOLEAN /\ torn' = {}
    BY <1>1, BoundsAssumption DEF IInv, TypeOK, Requested
  <2> QED BY <2>1, <2>2 DEF IInv, TypeOK
<1>3. Typed' /\ Placed' /\ PosInGroup' /\ Legible'
  BY DEF IInv, Typed, Placed, PosInGroup, Legible, Saved, Entries
<1>4. Crossing' /\ Copied'
  BY DEF Crossing, Copied, Saving
<1>5. Erased' /\ Sound'
  BY DEF Erased, Sound
<1> QED BY <1>2, <1>3, <1>4, <1>5 DEF IInv

LEMMA ResetEraseKeeps ==
    ASSUME IInv, ResetErase
    PROVE  IInv'
<1>0. reset \in 1..7 /\ reset' = reset + 1 /\ ResetOrder[reset] \in Keys
  BY ResetErasesAll DEF ResetErase
<1>1. UNCHANGED <<gui, last, changed, mainVars, requests, crossed, stale>>
  BY DEF ResetErase
<1>2. UNCHANGED <<read, main, todo, pos>>
  BY <1>1 DEF mainVars
<1>3. \/ /\ nvs' = [nvs EXCEPT ![ResetOrder[reset]] = None] /\ UNCHANGED <<faults, torn>>
      \/ /\ Happens /\ UNCHANGED nvs
         /\ torn' = torn \cup {g \in Groups : ResetOrder[reset] \in In(g)}
  BY DEF ResetErase
<1>4. TypeOK'
  <2>1. nvs' \in [Keys -> Settings \cup {None}]
    BY <1>0, <1>3 DEF IInv, TypeOK
  <2>2. faults' \in 0..MaxFaults /\ torn' \subseteq Groups
    BY <1>3, BoundsAssumption DEF IInv, TypeOK, Happens
  <2>3. reset' \in 0..Forget
    BY <1>0, ResetErasesAll DEF Forget
  <2> QED BY <1>1, <1>2, <2>1, <2>2, <2>3 DEF IInv, TypeOK
<1>5. Typed'
  BY <1>0, <1>1, <1>2, <1>3 DEF IInv, TypeOK, Typed, Saved, Entries
<1>6. Placed' /\ PosInGroup' /\ Legible' /\ Crossing'
  BY <1>0, <1>1, <1>2 DEF IInv, Placed, PosInGroup, Legible, Crossing, Saving
<1>7. \A k : Rewritten(k)' <=> Rewritten(k)
  BY <1>2 DEF Rewritten
<1>8. Copied'
  BY <1>0, <1>1, <1>2 DEF IInv, Copied, Crossing, Saving
<1>9. Erased'
  <2> SUFFICES ASSUME NEW i \in 1..7, i < reset', NEW g \in Groups \ torn', ResetOrder[i] \in In(g)
               PROVE  nvs'[ResetOrder[i]] = None \/ Rewritten(ResetOrder[i])'
    BY DEF Erased
  <2>1. g \in Groups \ torn /\ ResetOrder[i] \in Keys
    BY <1>3, ResetErasesAll
  <2>2. CASE i < reset
    BY <2>1, <2>2, <1>0, <1>3, <1>7 DEF IInv, TypeOK, Erased
  <2>3. CASE i = reset
    BY <2>1, <2>3, <1>0, <1>3 DEF IInv, TypeOK
  <2> QED BY <2>2, <2>3, <1>0
<1>10. Sound'
  BY <1>0 DEF Sound
<1> QED BY <1>4, <1>5, <1>6, <1>8, <1>9, <1>10 DEF IInv

LEMMA ResetEndKeeps ==
    ASSUME IInv, ResetShow \/ ResetForget
    PROVE  IInv'
<1> USE DEF ResetShow, ResetForget, storeVars, mainVars
<1>0. reset \in {8, 9} /\ reset' \in {0, 9} /\ (reset' = 0 => ResetForget)
  BY ResetErasesAll DEF Show, Forget
<1>1. UNCHANGED <<nvs, torn, read, main, todo, pos, crossed, requests, faults>>
  OBVIOUS
<1>2. TypeOK'
  <2>1. gui' \in [Keys -> Settings \cup {Invalid}] /\ last' \in [Keys -> Settings]
    BY ValuesAssumption DEF IInv, TypeOK, Settings
  <2>2. stale' \subseteq Keys /\ changed' \subseteq {"location", "area"}
    BY DEF IInv, TypeOK, Held, Keys, Coordinates
  <2>3. reset' \in 0..Forget
    BY <1>0, ResetErasesAll DEF Forget
  <2> QED BY <1>1, <2>1, <2>2, <2>3 DEF IInv, TypeOK
<1>3. Typed'
  BY <1>1, ValuesAssumption DEF IInv, Typed, Saved, Entries, Settings
<1>4. Placed' /\ PosInGroup' /\ Legible'
  BY <1>1 DEF IInv, Placed, PosInGroup, Legible
<1>5. Crossing'
  BY <1>0, <1>1 DEF IInv, Crossing, Saving
<1>6. \A k : Rewritten(k)' <=> Rewritten(k)
  BY <1>1 DEF Rewritten
<1>7. Copied'
  BY <1>0, <1>1 DEF IInv, Copied, Crossing, Saving
<1>8. Erased'
  BY <1>0, <1>1, <1>6 DEF IInv, Erased
<1>9. Sound'
  <2> SUFFICES ASSUME reset' = 0, NEW g \in Groups \ torn, NEW k \in In(g)
               PROVE  Rewritten(k)' \/ Loaded(k)' = last'[k]
    BY <1>1 DEF Sound
  <2>1. k \in Keys /\ last'[k] = Default
    BY <1>0, KeysPlaced
  <2>2. PICK i \in 1..7 : ResetOrder[i] = k
    BY <2>1, ResetErasesAll
  <2>3. i < reset
    BY <1>0, ResetErasesAll DEF Forget
  <2>4. nvs[k] = None \/ Rewritten(k)
    BY <2>2, <2>3 DEF IInv, Erased
  <2> QED BY <2>1, <2>4, <1>1, <1>6 DEF Loaded
<1> QED BY <1>2, <1>3, <1>4, <1>5, <1>7, <1>8, <1>9 DEF IInv

LEMMA CompareKeeps ==
    ASSUME IInv, CompareAppearance \/ CompareLocation \/ CompareArea
    PROVE  IInv'
<1> USE DEF CompareAppearance, CompareLocation, CompareArea, Compare, MainFree, storeVars
<1>1. /\ todo = <<>> /\ pos' = 1
      /\ UNCHANGED <<gui, nvs, last, torn, changed, read, reset, requests, faults, crossed>>
  OBVIOUS
<1>2. \/ /\ main = "compareAppearance" /\ main' = "getLocation"
         /\ todo' \in {<<>>, <<"appearance">>, <<"brightness">>, <<"appearance", "brightness">>}
      \/ main = "compareLocation" /\ main' = "getArea" /\ todo' \in {<<>>, <<"location">>}
      \/ main = "compareArea" /\ main' = "work" /\ todo' \in {<<>>, <<"area">>}
  <2>1. \A h \in Groups : ToSave(h) \in {<<>>, <<h>>}
    BY DEF ToSave
  <2>2. CASE CompareAppearance
    <3>1. ToSave("appearance") \in {<<>>, <<"appearance">>} /\ ToSave("brightness") \in {<<>>, <<"brightness">>}
      BY <2>1 DEF Groups
    <3>2. <<>> \o <<>> = <<>>
      OBVIOUS
    <3>3. <<>> \o <<"brightness">> = <<"brightness">>
      OBVIOUS
    <3>4. <<"appearance">> \o <<>> = <<"appearance">>
      OBVIOUS
    <3>5. <<"appearance">> \o <<"brightness">> = <<"appearance", "brightness">>
      <4> DEFINE s == <<"appearance">>
                 t == <<"brightness">>
                 u == <<"appearance", "brightness">>
      <4>1. s \in Seq(Groups) /\ t \in Seq(Groups) /\ u \in Seq(Groups)
        BY DEF Groups
      <4>2. /\ Len(s) = 1 /\ Len(t) = 1 /\ Len(u) = 2
            /\ s[1] = "appearance" /\ t[1] = "brightness"
            /\ u[1] = "appearance" /\ u[2] = "brightness"
        OBVIOUS
      <4> HIDE DEF s, t, u
      <4>3. /\ s \o t \in Seq(Groups) /\ Len(s \o t) = 2
            /\ (s \o t)[1] = s[1] /\ (s \o t)[2] = t[1]
        BY <4>1, <4>2, ConcatProperties
      <4>4. \A i \in 1..Len(s \o t) : (s \o t)[i] = u[i]
        BY <4>2, <4>3
      <4>5. s \o t = u
        BY <4>1, <4>2, <4>3, <4>4, SeqEqual
      <4> QED BY <4>5 DEF s, t, u
    <3> QED BY <2>2, <3>1, <3>2, <3>3, <3>4, <3>5
  <2>3. CASE CompareLocation
    BY <2>1, <2>3 DEF Groups
  <2>4. CASE CompareArea
    BY <2>1, <2>4 DEF Groups
  <2> QED BY <2>2, <2>3, <2>4
<1>3. TypeOK'
  <2>1. main' \in MainAt /\ pos' \in 1..4 /\ stale' = {}
    BY <1>1, <1>2 DEF MainAt
  <2>2. todo' \in {<<>>, <<"appearance">>, <<"brightness">>, <<"appearance", "brightness">>,
                   <<"location">>, <<"area">>}
    BY <1>2
  <2> QED BY <1>1, <2>1, <2>2 DEF IInv, TypeOK
<1>4. Typed'
  BY <1>1 DEF IInv, Typed, Saved, Entries
<1>5. Placed'
  BY <1>2 DEF Placed
<1>6. PosInGroup'
  <2>1. todo' # <<>> => Head(todo') \in Groups
    BY <1>2 DEF Groups
  <2> QED BY <1>1, <2>1, KeysOfType DEF PosInGroup
<1>7. Legible'
  BY <1>1, <1>2 DEF IInv, Legible
<1>8. Crossing'
  BY <1>1, <1>2 DEF IInv, Crossing, Saving
<1>9. \A k : ~Rewritten(k) /\ ~Rewritten(k)'
  BY <1>1 DEF Rewritten
<1>10. Copied' /\ Erased' /\ Sound'
  BY <1>1, <1>9 DEF IInv, Copied, Erased, Sound, Loaded
<1> QED BY <1>3, <1>4, <1>5, <1>6, <1>7, <1>8, <1>10 DEF IInv

\* The group that is being saved.
LEMMA HeadInGroups ==
    ASSUME IInv, todo # <<>>
    PROVE  /\ Head(todo) \in Groups
           /\ Tail(todo) \in {<<>>, <<"brightness">>}
           /\ Tail(todo) # <<>> => main = "getLocation"
           /\ \A k \in In(Head(todo)) : read[k] \in Saved(k)
<1>1. /\ Head(todo) \in Groups /\ Tail(todo) \in {<<>>, <<"brightness">>}
      /\ Tail(todo) # <<>> => main = "getLocation"
  <2>1. CASE main = "getLocation" /\ todo = <<"appearance">>
    BY <2>1 DEF Groups
  <2>2. CASE main = "getLocation" /\ todo = <<"brightness">>
    BY <2>2 DEF Groups
  <2>3. CASE main = "getLocation" /\ todo = <<"appearance", "brightness">>
    <3>1. Head(todo) = "appearance" /\ Tail(todo) = <<"brightness">>
      BY <2>3
    <3> QED BY <2>3, <3>1 DEF Groups
  <2>4. CASE todo = <<"location">>
    BY <2>4 DEF Groups
  <2>5. CASE todo = <<"area">>
    BY <2>5 DEF Groups
  <2> QED BY <2>1, <2>2, <2>3, <2>4, <2>5 DEF IInv, Placed
<1>2. \A k \in In(Head(todo)) : read[k] \in Saved(k)
  <2>1. CASE todo = <<"location">>
    BY <2>1, InLocation DEF IInv, Legible, Saved, Coordinates
  <2>2. CASE todo # <<"location">>
    <3>1. Head(todo) # "location"
      BY <2>2 DEF IInv, Placed
    <3>2. \A k \in In(Head(todo)) : k \in Keys /\ k \notin Coordinates
      BY <1>1, <3>1, KeysPlaced, InLocation DEF Groups, Coordinates
    <3> QED BY <3>2 DEF IInv, Typed, Entries, Saved
  <2> QED BY <2>1, <2>2
<1> QED BY <1>1, <1>2

LEMMA PutKeeps ==
    ASSUME IInv, Put
    PROVE  IInv'
<1> DEFINE g == Head(todo)
           key == KeysOf[g][pos]
<1>1. /\ todo # <<>> /\ pos \in 1..Len(KeysOf[g]) /\ pos \in 1..3
      /\ UNCHANGED <<gui, last, changed, read, main, reset, requests, crossed, stale>>
  <2>1. todo # <<>> /\ pos <= Len(KeysOf[g])
        /\ UNCHANGED <<gui, last, changed, read, main, reset, requests, crossed, stale>>
    BY DEF Put
  <2> QED BY <2>1, HeadInGroups, KeysOfType DEF IInv, TypeOK
<1>2. g \in Groups /\ key \in In(g) /\ key \in Keys /\ read[key] \in Saved(key)
  BY <1>1, HeadInGroups, KeysOfType, KeysPlaced
<1>3. CASE /\ nvs' = [nvs EXCEPT ![key] = read[key]] /\ pos' = pos + 1
           /\ UNCHANGED <<todo, faults, torn>>
  <2> USE <1>1, <1>2, <1>3
  <2>1. TypeOK'
    <3>1. nvs' \in [Keys -> Settings \cup {None}]
      BY DEF IInv, TypeOK, Saved, Settings
    <3>2. pos' \in 1..4
      OBVIOUS
    <3> QED BY <3>1, <3>2 DEF IInv, TypeOK
  <2>2. Typed'
    BY DEF IInv, TypeOK, Typed, Saved, Entries
  <2>3. Placed' /\ Legible' /\ Crossing'
    BY DEF IInv, Placed, Legible, Crossing, Saving
  <2>4. PosInGroup'
    BY KeysOfType DEF PosInGroup
  <2>5. \A k : Rewritten(k)' <=> Rewritten(k) \/ k = key
    BY KeysOfType DEF Rewritten
  <2>6. nvs'[key] = read[key] /\ \A k \in Keys : k # key => nvs'[k] = nvs[k]
    BY DEF IInv, TypeOK
  <2>7. Copied'
    BY <2>5, <2>6 DEF IInv, Copied
  <2>8. Erased'
    BY <2>5, <2>6, ResetErasesAll DEF IInv, Erased
  <2>9. Sound'
    <3> SUFFICES ASSUME reset = 0, NEW h \in Groups \ torn, NEW k \in In(h)
                 PROVE  Rewritten(k)' \/ Loaded(k)' = last[k]
      BY DEF Sound
    <3>1. k \in Keys
      BY KeysPlaced
    <3> QED BY <3>1, <2>5, <2>6 DEF IInv, Sound, Loaded
  <2> QED BY <2>1, <2>2, <2>3, <2>4, <2>7, <2>8, <2>9 DEF IInv
<1>4. CASE PutFails(g)
  <2>1. /\ todo' = <<>> /\ pos' = 1 /\ UNCHANGED nvs /\ Happens
        /\ torn' = IF pos > 1 THEN torn \cup {g} ELSE torn
    BY <1>4 DEF PutFails
  <2> USE <1>1, <1>2
  <2>2. TypeOK'
    BY <2>1, BoundsAssumption DEF IInv, TypeOK, Happens
  <2>3. Typed'
    BY <2>1 DEF IInv, Typed, Saved, Entries
  <2>4. Placed' /\ PosInGroup' /\ Legible' /\ Crossing'
    BY <2>1 DEF IInv, Placed, PosInGroup, Legible, Crossing, Saving
  <2>5. \A k : ~Rewritten(k)'
    BY <2>1 DEF Rewritten
  <2>6. \A h \in Groups \ torn' : h \in Groups \ torn /\ \A k \in In(h) : ~Rewritten(k)
    <3> SUFFICES ASSUME NEW h \in Groups \ torn', NEW k \in In(h), Rewritten(k)
                 PROVE  FALSE
      BY <2>1
    <3>1. PICK i \in 1..Len(KeysOf[g]) : i < pos /\ KeysOf[g][i] = k
      BY DEF Rewritten
    <3>2. k \in In(g) /\ pos > 1
      BY <3>1, KeysOfType DEF IInv, TypeOK
    <3> QED BY <3>2, <2>1, KeysPlaced
  <2>7. Copied' /\ Erased' /\ Sound'
    BY <2>1, <2>5, <2>6 DEF IInv, Copied, Erased, Sound, Loaded
  <2> QED BY <2>2, <2>3, <2>4, <2>7 DEF IInv
<1> QED BY <1>3, <1>4 DEF Put

LEMMA RememberKeeps ==
    ASSUME IInv, Remember
    PROVE  IInv'
<1> DEFINE g == Head(todo)
<1>1. /\ todo # <<>> /\ pos > Len(KeysOf[g]) /\ todo' = Tail(todo) /\ pos' = 1
      /\ last' = [k \in Keys |-> IF k \in In(g) THEN read[k] ELSE last[k]]
      /\ changed' = changed \cup ({g} \cap {"location", "area"})
      /\ torn' = IF crossed THEN torn \cup {g} ELSE torn \ {g}
      /\ UNCHANGED <<gui, nvs, read, main, reset, requests, faults, crossed, stale>>
  BY DEF Remember
<1>2. /\ g \in Groups /\ Tail(todo) \in {<<>>, <<"brightness">>}
      /\ Tail(todo) # <<>> => main = "getLocation"
      /\ \A k \in In(g) : k \in Keys /\ read[k] \in Saved(k)
  BY <1>1, HeadInGroups, KeysPlaced
<1> HIDE DEF g
<1>3. TypeOK'
  <2>1. last' \in [Keys -> Settings]
    BY <1>1, <1>2 DEF IInv, TypeOK, Saved, Settings
  <2>2. torn' \subseteq Groups /\ changed' \subseteq {"location", "area"}
    BY <1>1, <1>2 DEF IInv, TypeOK
  <2>3. todo' \in {<<>>, <<"brightness">>} /\ pos' \in 1..4
    BY <1>1, <1>2
  <2> QED BY <1>1, <2>1, <2>2, <2>3 DEF IInv, TypeOK
<1>4. Typed'
  BY <1>1, <1>2 DEF IInv, Typed, Saved, Entries
<1>5. Placed'
  BY <1>1, <1>2 DEF IInv, Placed
<1>6. PosInGroup'
  <2>1. todo' # <<>> => todo' = <<"brightness">>
    BY <1>1, <1>2
  <2>2. todo' # <<>> => Head(todo') \in Groups
    BY <2>1 DEF Groups
  <2> QED BY <1>1, <2>2, KeysOfType DEF PosInGroup
<1>7. Legible'
  <2>1. todo' # <<"location">>
    BY <1>1, <1>2
  <2> QED BY <1>1, <2>1 DEF IInv, Legible
<1>8. Crossing'
  BY <1>1 DEF IInv, Crossing, Saving
<1>9. \A k : ~Rewritten(k)'
  BY <1>1 DEF Rewritten
<1>10. \A k : Rewritten(k) <=> k \in In(g)
  <2>1. \A i \in 1..Len(KeysOf[g]) : i < pos
    BY <1>1, <1>2, KeysOfType DEF IInv, TypeOK
  <2> QED BY <1>1, <2>1 DEF Rewritten, In, g
<1>11. Copied'
  BY <1>9 DEF Copied
<1>12. \A h \in Groups \ torn' : h # g => h \in Groups \ torn /\ \A k \in In(h) : k \notin In(g)
  BY <1>1, <1>2, KeysPlaced
<1>13. g \notin torn' => ~crossed /\ reset = 0
  BY <1>1 DEF IInv, Crossing, Saving, TypeOK
<1>14. Erased'
  <2> SUFFICES ASSUME NEW i \in 1..7, i < reset, NEW h \in Groups \ torn', ResetOrder[i] \in In(h)
               PROVE  nvs[ResetOrder[i]] = None
    BY <1>1 DEF Erased
  <2>1. h # g
    BY <1>13
  <2> QED BY <2>1, <1>10, <1>12 DEF IInv, Erased
<1>15. Sound'
  <2> SUFFICES ASSUME reset = 0, NEW h \in Groups \ torn', NEW k \in In(h)
               PROVE  Loaded(k) = last'[k]
    BY <1>1 DEF Sound, Loaded
  <2>0. k \in Keys
    BY KeysPlaced
  <2>1. CASE h = g
    <3>1. nvs[k] = read[k] /\ last'[k] = read[k]
      BY <2>0, <2>1, <1>1, <1>10, <1>13 DEF IInv, Copied
    <3>2. read[k] # None
      BY <2>1, <1>2, ValuesAssumption DEF Saved, Settings
    <3> QED BY <3>1, <3>2 DEF Loaded
  <2>2. CASE h # g
    BY <2>0, <2>2, <1>1, <1>10, <1>12 DEF IInv, Sound
  <2> QED BY <2>1, <2>2
<1> QED BY <1>3, <1>4, <1>5, <1>6, <1>7, <1>8, <1>11, <1>14, <1>15 DEF IInv

LEMMA IInvStep == IInv /\ [Next]_vars => IInv'
<1> SUFFICES ASSUME IInv, [Next]_vars PROVE IInv'
  OBVIOUS
<1>1. CASE UNCHANGED vars
  <2>1. UNCHANGED <<gui, nvs, last, changed, torn, read, main, todo, pos, reset,
                    requests, faults, crossed, stale>>
    BY <1>1 DEF vars, storeVars, mainVars
  <2>2. TypeOK' /\ Typed' /\ Placed' /\ Legible' /\ Crossing'
    BY <2>1 DEF IInv, TypeOK, Typed, Entries, Saved, Placed, Legible, Crossing, Saving
  <2> QED BY <2>1, <2>2, Undisturbed DEF IInv
<1>2. CASE SyncRuntime \/ CopyArea \/ (\E a \in Values : WriteBack(a)) \/ GiveUp \/ EndWork
  BY <1>2, WorkKeeps
<1>3. CASE Save
  <2>1. CASE GetAppearance
    BY <2>1, GetKeeps DEF GetAppearance, MainAt, Groups
  <2>2. CASE GetBrightness
    BY <2>2, GetKeeps DEF GetBrightness, MainAt, Groups
  <2>3. CASE GetLocation
    BY <2>3, GetKeeps DEF GetLocation, MainAt, Groups
  <2>4. CASE GetArea
    BY <2>4, GetKeeps DEF GetArea, MainAt, Groups
  <2>5. CASE Fallback \/ Correct
    BY <2>5, CorrectionKeeps
  <2>6. CASE CompareAppearance \/ CompareLocation \/ CompareArea
    BY <2>6, CompareKeeps
  <2>7. CASE Put
    BY <2>7, PutKeeps
  <2>8. CASE Remember
    BY <2>8, RememberKeeps
  <2> QED BY <1>3, <2>1, <2>2, <2>3, <2>4, <2>5, <2>6, <2>7, <2>8 DEF Save
<1>4. CASE Reset
  BY <1>4, ResetEraseKeeps, ResetEndKeeps DEF Reset
<1>5. CASE User
  BY <1>5, ResetStartKeeps, EditKeeps DEF User
<1>6. CASE Restart
  BY <1>6, RestartKeeps
<1> QED BY <1>1, <1>2, <1>3, <1>4, <1>5, <1>6 DEF Next

LEMMA IInvRemembered == IInv => RememberedIsStored
<1> SUFFICES ASSUME IInv, reset = 0, NEW g \in Groups \ torn, ~Writing(g), NEW k \in In(g)
             PROVE  Loaded(k) = last[k]
  BY DEF RememberedIsStored
<1>1. ~Rewritten(k)
  <2> SUFFICES ASSUME Rewritten(k) PROVE FALSE
    OBVIOUS
  <2>1. PICK i \in 1..Len(KeysOf[Head(todo)]) : todo # <<>> /\ i < pos /\ KeysOf[Head(todo)][i] = k
    BY DEF Rewritten
  <2>2. Head(todo) \in Groups
    BY <2>1, HeadInGroups
  <2>3. k \in In(Head(todo)) /\ pos > 1
    BY <2>1, <2>2, KeysOfType DEF IInv, TypeOK
  <2> QED BY <2>1, <2>2, <2>3, KeysPlaced DEF Writing
<1> QED BY <1>1 DEF IInv, Sound

-----------------------------------------------------------------------------
LEMMA IInvAlways == Spec => []IInv
BY IInvInit, IInvStep, PTL DEF Spec

(***************************************************************************)
(* The state of the settings store is well typed; what is not a valid      *)
(* coordinate never gets beyond main's copy (app_gui_settings_store.c).    *)
(***************************************************************************)
THEOREM SettingsTypeCorrect == Spec => [](TypeOK /\ Typed)
<1>1. IInv => TypeOK /\ Typed
  BY DEF IInv
<1> QED BY IInvAlways, <1>1, PTL

(***************************************************************************)
(* What ctx->last_* remember as saved is what the next start would load,   *)
(* outside a save or reset and but for torn groups.                        *)
(***************************************************************************)
THEOREM RememberedAlwaysStored == Spec => []RememberedIsStored
BY IInvAlways, IInvRemembered, PTL

-----------------------------------------------------------------------------
(***************************************************************************)
(* The work tasks.                                                         *)
(***************************************************************************)
\* What main has copied from the GUI is what the GUI shows, but for stale keys.
CopiedLocation ==
    /\ main = "fallback" => \A k \in Coordinates : read[k] = gui[k] \/ k \in stale
    /\ main = "correct" =>
           \A k \in Coordinates : read[k] = gui[k] \/ gui[k] = Invalid \/ k \in stale

CopiedArea == fetching # None =>
    /\ MainFree("work")
    /\ fetching[1] = "price" => fetching[2] = gui["area"] \/ "area" \in stale

WorkTyped ==
    /\ due \subseteq Tasks
    /\ fetching \in {None} \cup {<<"price", a>> : a \in Values}
                           \cup {<<"forecast", l>> : l \in Locations}
    /\ prices \in Values \cup {None}
    /\ forecast \in Locations \cup {None}

WInv == IInv /\ WorkTyped /\ CopiedLocation /\ CopiedArea /\ PricesMatchArea

LEMMA WInvInit == WorkInit => WInv
<1> SUFFICES ASSUME WorkInit PROVE WInv
  OBVIOUS
<1>1. IInv
  BY IInvInit DEF WorkInit
<1>2. WorkTyped
  BY DEF WorkInit, WorkTyped
<1>3. CopiedLocation /\ CopiedArea /\ PricesMatchArea
  BY DEF WorkInit, Init, CopiedLocation, CopiedArea, PricesMatchArea
<1> QED BY <1>1, <1>2, <1>3 DEF WInv

\* What a task waits for is a price or a forecast.
LEMMA PriceFetched ==
    ASSUME WInv, fetching # None, fetching[1] = "price"
    PROVE  fetching[2] \in Values /\ fetching = <<"price", fetching[2]>>
BY DEF WInv, WorkTyped

LEMMA ForecastFetched ==
    ASSUME WInv, fetching # None, fetching[1] = "forecast"
    PROVE  fetching[2] \in Locations
BY DEF WInv, WorkTyped

(***************************************************************************)
(* Every step of the composition is a step of the settings store.          *)
(***************************************************************************)
LEMMA WorkStepIsStep == WInv /\ [WorkNext]_allVars => [Next]_vars
<1> SUFFICES ASSUME WInv, [WorkNext]_allVars PROVE [Next]_vars
  OBVIOUS
<1>1. CASE UNCHANGED allVars
  BY <1>1 DEF allVars
<1>2. CASE MainTask
  <2>1. CASE Schedule
    BY <2>1 DEF Schedule, Next
  <2>2. CASE Save
    BY <2>2 DEF Next
  <2>3. CASE FetchPrices
    BY <2>3 DEF FetchPrices, Next
  <2>4. CASE FetchForecast \/ ShowForecast
    BY <2>4 DEF FetchForecast, ShowForecast
  <2>5. CASE ShowPrices
    BY <2>5, PriceFetched DEF ShowPrices, Next
  <2>6. CASE FetchFail
    BY <2>6 DEF FetchFail, Next
  <2>7. CASE Pass
    BY <2>7 DEF Pass, Next
  <2> QED BY <1>2, <2>1, <2>2, <2>3, <2>4, <2>5, <2>6, <2>7 DEF MainTask
<1>3. CASE WorkReset \/ WorkRestart
  BY <1>3 DEF WorkReset, WorkRestart, Next
<1>4. CASE WorkUser
  BY <1>4 DEF WorkUser, WorkEdit, User, Next
<1>5. CASE \E t \in Tasks : Elapse(t)
  BY <1>5 DEF Elapse
<1> QED BY <1>1, <1>2, <1>3, <1>4, <1>5 DEF WorkNext

LEMMA WorkTypedStep == WInv /\ [WorkNext]_allVars => WorkTyped'
<1> SUFFICES ASSUME WInv, [WorkNext]_allVars PROVE WorkTyped'
  OBVIOUS
<1> USE DEF WInv, WorkTyped, workVars
<1>0. gui["area"] \in Values
  BY DEF IInv, Typed, Entries, Keys, Coordinates
<1>1. CASE UNCHANGED allVars
  BY <1>1 DEF allVars
<1>2. CASE MainTask
  <2>1. CASE Schedule
    <3>1. \A g \in {"location", "area"} : TaskOf[g] \in Tasks
      BY DEF TaskOf, Tasks
    <3> QED BY <2>1, <3>1 DEF Schedule, IInv, TypeOK
  <2>2. CASE Save /\ UNCHANGED workVars
    BY <2>2
  <2>3. CASE FetchPrices
    BY <2>3, <1>0 DEF FetchPrices
  <2>4. CASE FetchForecast
    BY <2>4 DEF FetchForecast
  <2>5. CASE ShowPrices
    BY <2>5, PriceFetched DEF ShowPrices
  <2>6. CASE ShowForecast
    BY <2>6, ForecastFetched DEF ShowForecast
  <2>7. CASE FetchFail
    BY <2>7 DEF FetchFail
  <2>8. CASE Pass
    BY <2>8 DEF Pass
  <2> QED BY <1>2, <2>1, <2>2, <2>3, <2>4, <2>5, <2>6, <2>7, <2>8 DEF MainTask
<1>3. CASE WorkReset
  BY <1>3 DEF WorkReset, PricesCleared
<1>4. CASE WorkRestart
  BY <1>4 DEF WorkRestart
<1>5. CASE WorkUser
  BY <1>5 DEF WorkUser, WorkEdit, PricesCleared
<1>6. CASE \E t \in Tasks : Elapse(t)
  BY <1>6 DEF Elapse
<1> QED BY <1>1, <1>2, <1>3, <1>4, <1>5, <1>6 DEF WorkNext

\* Main's copy of the location: a step of the settings store.
LEMMA CopiedLocationStep == IInv /\ CopiedLocation /\ [Next]_vars => CopiedLocation'
<1> SUFFICES ASSUME IInv, CopiedLocation, [Next]_vars PROVE CopiedLocation'
  OBVIOUS
<1> USE DEF CopiedLocation, storeVars, mainVars, MainFree
<1>0. Coordinates \subseteq Keys
  BY DEF Coordinates, Keys
<1>1. CASE UNCHANGED vars
  BY <1>1 DEF vars
<1>2. CASE SyncRuntime \/ CopyArea \/ (\E a \in Values : WriteBack(a)) \/ EndWork \/ GiveUp
  BY <1>2 DEF SyncRuntime, CopyArea, WriteBack, EndWork, GiveUp
<1>3. CASE Save
  <2>1. CASE GetLocation
    BY <2>1, <1>0, InLocation DEF GetLocation, Get, Coordinates
  <2>2. CASE GetAppearance \/ GetBrightness \/ GetArea
    BY <2>2 DEF GetAppearance, GetBrightness, GetArea, Get
  <2>3. CASE Fallback
    BY <2>3, <1>0 DEF Fallback, Corrected
  <2>4. CASE Correct
    BY <2>4 DEF Correct
  <2>5. CASE CompareAppearance \/ CompareLocation \/ CompareArea
    BY <2>5 DEF CompareAppearance, CompareLocation, CompareArea, Compare
  <2>6. CASE Put \/ Remember
    <3>1. todo # <<>> /\ UNCHANGED main
      BY <2>6 DEF Put, Remember
    <3>2. main \notin {"fallback", "correct"}
      BY <3>1 DEF IInv, Placed
    <3> QED BY <3>1, <3>2
  <2> QED BY <1>3, <2>1, <2>2, <2>3, <2>4, <2>5, <2>6 DEF Save
<1>4. CASE Reset
  <2>1. CASE ResetErase \/ ResetForget
    BY <2>1 DEF ResetErase, ResetForget
  <2>2. CASE ResetShow
    BY <2>2 DEF ResetShow, Held
  <2> QED BY <1>4, <2>1, <2>2 DEF Reset
<1>5. CASE User
  <2>1. CASE ResetStart
    BY <2>1 DEF ResetStart
  <2>2. CASE \E k \in Keys : \E v \in Entries(k) : Edit(k, v)
    <3>0. PICK k \in Keys : \E v \in Entries(k) : Edit(k, v)
      BY <2>2
    <3>1. PICK v \in Entries(k) : Edit(k, v)
      BY <3>0
    <3>2. \A c \in Coordinates : c # k => gui'[c] = gui[c]
      BY <3>1, <1>0 DEF Edit, IInv, TypeOK
    <3>3. main \in {"fallback", "correct"} /\ k \in Coordinates => k \in stale'
      BY <3>1, <1>0 DEF Edit, Held
    <3>4. stale \subseteq stale' /\ UNCHANGED <<read, main>>
      BY <3>1 DEF Edit
    <3> QED BY <3>2, <3>3, <3>4
  <2> QED BY <1>5, <2>1, <2>2 DEF User
<1>6. CASE Restart
  BY <1>6 DEF Restart
<1> QED BY <1>1, <1>2, <1>3, <1>4, <1>5, <1>6 DEF Next

LEMMA CopiedAreaStep == WInv /\ [WorkNext]_allVars => CopiedArea'
<1> SUFFICES ASSUME WInv, [WorkNext]_allVars PROVE CopiedArea'
  OBVIOUS
<1> USE DEF CopiedArea, storeVars, mainVars, MainFree, workVars
<1>0. CopiedArea /\ "area" \in Keys
  BY DEF WInv, Keys
<1>1. CASE UNCHANGED allVars
  BY <1>0, <1>1 DEF allVars, vars
<1>2. CASE MainTask
  <2>1. CASE Schedule
    BY <2>1, <1>0 DEF Schedule, SyncRuntime
  <2>2. CASE Save /\ UNCHANGED workVars
    <3>1. fetching = None
      BY <2>2, <1>0 DEF Save, GetAppearance, GetBrightness, GetLocation, GetArea, Get, Fallback,
             Correct, CompareAppearance, CompareLocation, CompareArea, Compare, Put, Remember
    <3> QED BY <2>2, <3>1
  <2>3. CASE FetchPrices
    BY <2>3 DEF FetchPrices, CopyArea
  <2>4. CASE FetchForecast
    BY <2>4 DEF FetchForecast, vars
  <2>5. CASE ShowPrices \/ ShowForecast \/ FetchFail
    BY <2>5 DEF ShowPrices, ShowForecast, FetchFail
  <2>6. CASE Pass
    BY <2>6 DEF Pass
  <2> QED BY <1>2, <2>1, <2>2, <2>3, <2>4, <2>5, <2>6 DEF MainTask
<1>3. CASE WorkReset
  <2>1. CASE ResetErase \/ ResetForget
    BY <2>1, <1>3, <1>0 DEF WorkReset, ResetErase, ResetForget
  <2>2. CASE ResetShow
    BY <2>2, <1>3, <1>0 DEF WorkReset, ResetShow, Held
  <2> QED BY <1>3, <2>1, <2>2 DEF WorkReset, Reset
<1>4. CASE WorkRestart
  BY <1>4 DEF WorkRestart
<1>5. CASE WorkUser
  <2>1. CASE ResetStart /\ UNCHANGED workVars
    BY <2>1, <1>0 DEF ResetStart
  <2>2. CASE \E k \in Keys : \E v \in Entries(k) : WorkEdit(k, v)
    <3>0. PICK k \in Keys : \E v \in Entries(k) : WorkEdit(k, v)
      BY <2>2
    <3>1. PICK v \in Entries(k) : WorkEdit(k, v)
      BY <3>0
    <3>2. k # "area" => gui'["area"] = gui["area"]
      BY <3>1, <1>0 DEF WorkEdit, Edit, WInv, IInv, TypeOK
    <3>3. main = "work" /\ k = "area" => "area" \in stale'
      BY <3>1 DEF WorkEdit, Edit, Held
    <3>4. stale \subseteq stale' /\ UNCHANGED <<main, todo, fetching>>
      BY <3>1 DEF WorkEdit, Edit
    <3> QED BY <1>0, <3>2, <3>3, <3>4
  <2> QED BY <1>5, <2>1, <2>2 DEF WorkUser
<1>6. CASE \E t \in Tasks : Elapse(t)
  BY <1>6, <1>0 DEF Elapse, vars
<1> QED BY <1>1, <1>2, <1>3, <1>4, <1>5, <1>6 DEF WorkNext

LEMMA PricesMatchStep == WInv /\ [WorkNext]_allVars => PricesMatchArea'
<1> SUFFICES ASSUME WInv, [WorkNext]_allVars PROVE PricesMatchArea'
  OBVIOUS
<1> USE DEF PricesMatchArea, workVars, storeVars, mainVars
<1>0. PricesMatchArea /\ "area" \in Keys /\ "area" \notin Coordinates
  BY DEF WInv, Keys, Coordinates
<1>1. CASE UNCHANGED allVars
  BY <1>0, <1>1 DEF allVars, vars
<1>2. CASE MainTask
  <2>1. CASE Schedule
    BY <2>1, <1>0 DEF Schedule, SyncRuntime
  <2>2. CASE Save /\ UNCHANGED workVars
    <3>1. gui'["area"] = gui["area"]
      BY <2>2, <1>0 DEF Save, GetAppearance, GetBrightness, GetLocation, GetArea, Get, Fallback,
             Correct, CompareAppearance, CompareLocation, CompareArea, Compare, Put, Remember
    <3> QED BY <2>2, <3>1, <1>0
  <2>3. CASE FetchPrices
    BY <2>3, <1>0 DEF FetchPrices, CopyArea
  <2>4. CASE FetchForecast
    BY <2>4, <1>0 DEF FetchForecast, vars
  <2>5. CASE ShowPrices
    BY <2>5, <1>0 DEF ShowPrices, WriteBack, WInv, IInv, TypeOK
  <2>6. CASE ShowForecast
    BY <2>6, <1>0 DEF ShowForecast, vars
  <2>7. CASE FetchFail
    BY <2>7, <1>0 DEF FetchFail, GiveUp
  <2>8. CASE Pass
    BY <2>8, <1>0 DEF Pass, EndWork
  <2> QED BY <1>2, <2>1, <2>2, <2>3, <2>4, <2>5, <2>6, <2>7, <2>8 DEF MainTask
<1>3. CASE WorkReset
  BY <1>0, <1>3 DEF WorkReset, PricesCleared
<1>4. CASE WorkRestart
  BY <1>4 DEF WorkRestart
<1>5. CASE WorkUser
  BY <1>0, <1>5 DEF WorkUser, ResetStart, WorkEdit, PricesCleared
<1>6. CASE \E t \in Tasks : Elapse(t)
  BY <1>0, <1>6 DEF Elapse, vars
<1> QED BY <1>1, <1>2, <1>3, <1>4, <1>5, <1>6 DEF WorkNext

LEMMA WInvStep == WInv /\ [WorkNext]_allVars => WInv'
<1> SUFFICES ASSUME WInv, [WorkNext]_allVars PROVE WInv'
  OBVIOUS
<1>1. IInv' /\ CopiedLocation'
  BY WorkStepIsStep, IInvStep, CopiedLocationStep DEF WInv
<1> QED BY <1>1, WorkTypedStep, CopiedAreaStep, PricesMatchStep DEF WInv

LEMMA WInvAlways == WorkSpec => []WInv
BY WInvInit, WInvStep, PTL DEF WorkSpec

\* Of the steps of the composition only ShowPrices writes an area back.
LEMMA OnlyShownWrittenBack ==
    ASSUME WInv, [WorkNext]_allVars, NEW a \in Values, WriteBack(a)
    PROVE  UNCHANGED gui \/ ShowPrices
<1> SUFFICES ASSUME gui' # gui PROVE ShowPrices
  OBVIOUS
<1> USE DEF WriteBack, MainFree, Unlocked, storeVars, mainVars
<1>1. requests' = requests /\ faults' = faults /\ requests \in Nat /\ faults \in Nat
  BY BoundsAssumption DEF WInv, IInv, TypeOK
<1>2. CASE UNCHANGED allVars
  BY <1>2 DEF allVars, vars
<1>3. CASE MainTask
  <2>1. ~Schedule /\ ~Pass /\ ~FetchPrices /\ ~FetchForecast /\ ~ShowForecast /\ ~FetchFail
    BY DEF Schedule, SyncRuntime, Pass, EndWork, FetchPrices, CopyArea, FetchForecast, ShowForecast,
           FetchFail, GiveUp, vars
  <2>2. ~Save
    BY DEF Save, GetAppearance, GetBrightness, GetLocation, GetArea, Get, Fallback,
           Correct, CompareAppearance, CompareLocation, CompareArea, Compare, Put, Remember
  <2> QED BY <1>3, <2>1, <2>2 DEF MainTask
<1>4. CASE WorkReset
  <2>1. reset = 0
    OBVIOUS
  <2>2. ~ResetErase /\ ~ResetShow /\ ~ResetForget
    BY <2>1, ResetErasesAll DEF ResetErase, ResetShow, ResetForget, Show, Forget
  <2> QED BY <1>4, <2>2 DEF WorkReset, Reset
<1>5. CASE WorkRestart
  <2>1. ~Happens
    BY <1>1 DEF Happens
  <2> QED BY <1>5, <2>1 DEF WorkRestart, Restart
<1>6. CASE WorkUser
  <2>1. ~Requested
    BY <1>1 DEF Requested
  <2> QED BY <1>6, <2>1 DEF WorkUser, ResetStart, WorkEdit, Edit
<1>7. CASE \E t \in Tasks : Elapse(t)
  BY <1>7 DEF Elapse, vars
<1> QED BY <1>2, <1>3, <1>4, <1>5, <1>6, <1>7 DEF WorkNext

-----------------------------------------------------------------------------
(***************************************************************************)
(* Main's loop, with its work tasks and everything that can happen to      *)
(* them, is a behaviour of the settings store, which leaves open when a    *)
(* task copies an area and which area it writes back.                      *)
(***************************************************************************)
THEOREM WorkImplementsStore == WorkSpec => Spec
<1>1. WorkInit => Init
  BY DEF WorkInit
<1> QED BY <1>1, WInvAlways, WorkStepIsStep, PTL DEF WorkSpec, Spec

(***************************************************************************)
(* The values remembered as last saved are those in NVS, also while work   *)
(* tasks write settings back (app_gui_settings_store.c).                   *)
(***************************************************************************)
THEOREM RememberedStoredAtWork == WorkSpec => []RememberedIsStored
BY WorkImplementsStore, RememberedAlwaysStored, PTL

(***************************************************************************)
(* The prices shown are those of the area shown (app_gui_spot_price.c).    *)
(***************************************************************************)
THEOREM PricesAlwaysMatch == WorkSpec => []PricesMatchArea
<1>1. WInv => PricesMatchArea
  BY DEF WInv
<1> QED BY WInvAlways, <1>1, PTL

(***************************************************************************)
(* Main writes back a setting over another one only if the other is not    *)
(* valid or was chosen after main had read it.                             *)
(***************************************************************************)
THEOREM OnlyCrossedEditsAreLost == WorkSpec => OnlyCrossedEditsLost
<1> DEFINE Step == \A k \in Keys : (Correct \/ \E a \in Values : WriteBack(a)) =>
                       \/ gui'[k] = gui[k] \/ gui[k] = Invalid
                       \/ k \in stale
<1>1. WInv /\ [WorkNext]_allVars => Step
  <2> SUFFICES ASSUME WInv, [WorkNext]_allVars, NEW k \in Keys,
                      Correct \/ \E a \in Values : WriteBack(a)
               PROVE  gui'[k] = gui[k] \/ gui[k] = Invalid \/ k \in stale
    OBVIOUS
  <2>1. CASE Correct
    BY <2>1 DEF Correct, MainFree, WInv, CopiedLocation
  <2>2. CASE \E a \in Values : WriteBack(a)
    <3>1. PICK a \in Values : WriteBack(a)
      BY <2>2
    <3>2. UNCHANGED gui \/ ShowPrices
      BY <3>1, OnlyShownWrittenBack
    <3>3. CASE ShowPrices
      <4>1. /\ gui' = [gui EXCEPT !["area"] = fetching[2]]
            /\ fetching[2] = gui["area"] \/ "area" \in stale
        BY <3>3 DEF ShowPrices, WriteBack, WInv, CopiedArea
      <4> QED BY <4>1 DEF WInv, IInv, TypeOK
    <3> QED BY <3>2, <3>3
  <2> QED BY <2>1, <2>2
<1> HIDE DEF Step
<1>2. WInv /\ [WorkNext]_allVars => [Step]_vars
  BY <1>1
<1>3. WorkSpec => [][Step]_vars
  BY <1>2, WInvAlways, PTL DEF WorkSpec
<1> QED BY <1>3 DEF Step, OnlyCrossedEditsLost
=============================================================================
