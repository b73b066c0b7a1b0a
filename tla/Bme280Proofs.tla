---------------------------- MODULE Bme280Proofs ----------------------------
(***************************************************************************)
(* Proofs about the BME280 driver: whatever disturbs it, what read()       *)
(* returns is sound (SoundReading), and in the modes other than normal a   *)
(* disturbance costs at most one call (OneLossPerFault).                   *)
(*                                                                         *)
(* SoundReading rests on one idea: ctrl_hum is the first register init()   *)
(* writes after it has loaded the calibration, and every sensor powers up  *)
(* with it cleared.  So a sensor that measures humidity is the one whose   *)
(* coefficients were loaded, and it has not lost a setting since.          *)
(***************************************************************************)
EXTENDS Bme280, TLAPS

InitSteps == {"add", "probe", "chipId", "reset", "waitReset", "calib0", "calib1",
              "sleepMode", "waitSleep", "hum", "config", "mode",
              "backHum", "backMode", "backConfig"}

(* init() runs only while the driver is not ready. *)
NotReady == pc \in InitSteps => ~ready

(* A sensor that measures humidity is the calibrated one. *)
Own ==
    /\ chip.hum => sensor \in Sensors /\ calibration = sensor
    /\ chip.latched => chip.hum /\ chip.config
    /\ chip.data.hum => chip.hum /\ chip.data.config

(* From the reset to the write of ctrl_hum humidity is skipped. *)
Skipping ==
    pc \in {"waitReset", "calib0", "calib1", "sleepMode", "waitSleep", "hum"} => ~chip.hum

(* Calibration is read when it is stable, and from the sensor at hand. *)
Stable == pc \in {"calib0", "calib1"} => chip.busy # "copying"

Loaded == pc \in {"sleepMode", "waitSleep", "hum"} => sensor \in {NoSensor, calibration}

(* config is written in sleep mode, and never lost without ctrl_hum. *)
Asleep == pc \in {"waitSleep", "hum", "config"} => chip.mode = "sleep"

Kept ==
    pc \in {"mode", "backHum", "backMode", "backConfig", "trigger", "waitData", "data"} \/ ready
    => (chip.hum => chip.config)

(* Only in forced mode read() starts a conversion, and then the data are   *)
(* converted for this call.                                                *)
Converting ==
    /\ pc = "trigger" => Mode = "forced"
    /\ Mode = "forced" =>
          /\ pc = "waitData" /\ chip.hum =>
                chip.asked /\ (chip.busy = "measuring" \/ chip.data.fresh)
          /\ pc = "data" /\ chip.hum => chip.asked /\ chip.data.fresh

-----------------------------------------------------------------------------
(* What the steps of the sensor do to its registers, field by field. *)

LEMMA ClearedFields ==
    ASSUME NEW busy \in {"no", "starting", "copying", "measuring"}
    PROVE  /\ Cleared(busy) \in Chips
           /\ ~Cleared(busy).hum /\ ~Cleared(busy).latched /\ ~Cleared(busy).data.hum
           /\ Cleared(busy).busy = busy /\ Cleared(busy).mode = "sleep"
BY DEF Cleared, SkipPattern, Chips, Data

LEMMA CtrlMeasFields ==
    ASSUME chip \in Chips, NEW m \in {"sleep", "forced", "normal"}
    PROVE  /\ CtrlMeas(m) \in Chips
           /\ (CtrlMeas(m).hum <=> chip.hum) /\ (CtrlMeas(m).latched <=> chip.hum)
           /\ (CtrlMeas(m).config <=> chip.config) /\ CtrlMeas(m).data = chip.data
           /\ CtrlMeas(m).mode = m /\ CtrlMeas(m).osrs
           /\ m # "sleep" => CtrlMeas(m).asked /\ CtrlMeas(m).busy = "measuring"
           /\ m = "sleep" => CtrlMeas(m).busy = chip.busy
BY DEF CtrlMeas, Chips

LEMMA HumFields ==
    ASSUME chip \in Chips
    PROVE  LET written == [chip EXCEPT !.hum = TRUE]
           IN  /\ written \in Chips /\ written.hum
               /\ (written.latched <=> chip.latched) /\ (written.config <=> chip.config)
               /\ written.data = chip.data /\ written.mode = chip.mode
               /\ written.busy = chip.busy
BY DEF Chips

LEMMA ConfigFields ==
    ASSUME chip \in Chips
    PROVE  LET written == [chip EXCEPT !.config = @ \/ chip.mode # "normal"]
           IN  /\ written \in Chips /\ (chip.config \/ chip.mode # "normal" => written.config)
               /\ (written.hum <=> chip.hum) /\ (written.latched <=> chip.latched)
               /\ written.data = chip.data /\ written.mode = chip.mode
               /\ written.busy = chip.busy
BY DEF Chips

LEMMA SenseFields ==
    ASSUME chip \in Chips, Converted \/ Settled
    PROVE  /\ chip' \in Chips
           /\ (chip'.hum <=> chip.hum) /\ (chip'.latched <=> chip.latched)
           /\ (chip'.config <=> chip.config) /\ (chip'.asked <=> chip.asked)
           /\ (chip'.osrs <=> chip.osrs) /\ chip'.mode \in {"sleep", chip.mode}
           /\ chip'.busy # "copying"
           /\ \/ chip'.data = chip.data /\ chip.busy # "measuring"
              \/ /\ (chip'.data.hum <=> chip.latched) /\ (chip'.data.osrs <=> chip.osrs)
                 /\ chip'.data.config <=> chip.config
                 /\ chip'.data.fresh <=> chip.asked
<1>1. CASE Settled
  BY <1>1 DEF Settled, Chips
<1>2. CASE Converted
  <2> DEFINE d == [hum |-> chip.latched, osrs |-> chip.osrs,
                   config |-> chip.config, fresh |-> chip.asked]
             m == IF chip.mode = "forced" THEN "sleep" ELSE chip.mode
             b == IF chip.mode = "normal" THEN "measuring" ELSE "no"
  <2>1. d \in Data /\ d.osrs = chip.osrs /\ d.hum = chip.latched /\ d.config = chip.config /\ d.fresh = chip.asked
    BY DEF Data, Chips
  <2>2. chip' = [chip EXCEPT !.data = d, !.mode = m, !.busy = b]
    BY <1>2 DEF Converted
  <2>3. m \in {"sleep", "forced", "normal"} /\ m \in {"sleep", chip.mode}
        /\ b \in {"no", "measuring"}
    BY DEF Chips
  <2> HIDE DEF d, m, b
  <2>4. /\ chip' \in Chips /\ chip'.hum = chip.hum /\ chip'.latched = chip.latched
        /\ chip'.config = chip.config /\ chip'.asked = chip.asked
        /\ chip'.osrs = chip.osrs /\ chip'.mode = m /\ chip'.busy = b /\ chip'.data = d
    BY <2>1, <2>2, <2>3 DEF Chips
  <2> QED
    BY <2>1, <2>3, <2>4
<1> QED
  BY <1>1, <1>2

LEMMA ReadFields ==
    ASSUME chip \in Chips
    PROVE  LET anew == [chip EXCEPT !.asked = FALSE, !.data.fresh = FALSE]
           IN  /\ anew \in Chips /\ anew.hum = chip.hum /\ anew.latched = chip.latched
               /\ anew.config = chip.config /\ anew.data.hum = chip.data.hum
               /\ anew.data.config = chip.data.config
               /\ anew.mode = chip.mode /\ anew.busy = chip.busy
<1> DEFINE d == [chip.data EXCEPT !.fresh = FALSE]
           anew == [chip EXCEPT !.asked = FALSE, !.data = d]
<1>1. chip.data \in Data
  BY DEF Chips
<1>2. d \in Data /\ d.hum = chip.data.hum /\ d.config = chip.data.config
  BY <1>1 DEF Data
<1> HIDE DEF d
<1>3. /\ anew \in Chips /\ anew.hum = chip.hum /\ anew.latched = chip.latched
      /\ anew.config = chip.config /\ anew.data = d
      /\ anew.mode = chip.mode /\ anew.busy = chip.busy
  BY <1>2 DEF Chips
<1>4. anew = [chip EXCEPT !.asked = FALSE, !.data.fresh = FALSE]
  BY DEF d, Chips
<1> QED
  BY <1>2, <1>3, <1>4

LEMMA FollowingIs ==
    /\ Following["add"] = "probe" /\ Following["probe"] = "chipId"
    /\ Following["chipId"] = "reset" /\ Following["reset"] = "waitReset"
    /\ Following["waitReset"] = "calib0" /\ Following["calib0"] = "calib1"
    /\ Following["calib1"] = "sleepMode" /\ Following["sleepMode"] = "waitSleep"
    /\ Following["waitSleep"] = "hum" /\ Following["hum"] = "config"
    /\ Following["config"] = "mode" /\ Following["mode"] = "backHum"
    /\ Following["backHum"] = "backMode" /\ Following["backMode"] = "backConfig"
    /\ Following["trigger"] = "waitData" /\ Following["waitData"] = "data"
BY DEF Following

Typed ==
    chip \in Chips /\ sensor \in Sensors \cup {NoSensor}

IInv ==
    Typed /\ NotReady /\ Own /\ Skipping /\ Stable /\ Loaded /\ Asleep /\ Kept
    /\ Converting /\ SoundReading

LEMMA StepIInv == IInv /\ [Next]_vars => IInv'
<1> SUFFICES ASSUME IInv, [Next]_vars PROVE IInv'
    OBVIOUS
<1> USE Bme280Assumption, FollowingIs DEF IInv, Typed, NotReady, Own, Skipping, Stable,
        Loaded, Asleep, Kept, Converting, SoundReading, InitSteps
<1>2. CASE AddDevice
      BY <1>2 DEF AddDevice, Fail, Go, Fault
<1>3. CASE CheckChipId
      BY <1>3 DEF CheckChipId, Plain, Transfer, Answers, Fault, Fail, Go
<1>4. CASE Reset
      BY <1>4, ClearedFields DEF Reset, Plain, Transfer, Answers, Fault, Fail, Go
<1>7. CASE ApplySettings
  <2>1. CASE Plain("sleepMode", CtrlMeas("sleep"))
    BY <2>1, CtrlMeasFields DEF Plain, Transfer, Answers, Fault, Fail, Go
  <2>2. CASE Plain("hum", [chip EXCEPT !.hum = TRUE])
    <3> DEFINE written == [chip EXCEPT !.hum = TRUE]
    <3>1. Plain("hum", written)
      BY <2>2
    <3>2. /\ written \in Chips /\ written.hum
         /\ (written.latched <=> chip.latched) /\ (written.config <=> chip.config)
         /\ written.data = chip.data /\ written.mode = chip.mode
      BY HumFields
    <3> HIDE DEF written
    <3> QED
      BY <3>1, <3>2 DEF Plain, Transfer, Answers, Fault, Fail, Go
  <2>3. CASE Plain("config", [chip EXCEPT !.config = @ \/ chip.mode # "normal"])
    <3> DEFINE written == [chip EXCEPT !.config = @ \/ chip.mode # "normal"]
    <3>1. Plain("config", written)
      BY <2>3
    <3>2. /\ written \in Chips
         /\ (chip.config \/ chip.mode # "normal" => written.config)
         /\ (written.latched <=> chip.latched) /\ (written.hum <=> chip.hum)
         /\ written.data = chip.data /\ written.mode = chip.mode
      BY ConfigFields
    <3> HIDE DEF written
    <3> QED
      BY <3>1, <3>2 DEF Plain, Transfer, Answers, Fault, Fail, Go
  <2>4. CASE Plain("mode", CtrlMeas(Mode))
    BY <2>4, CtrlMeasFields DEF Plain, Transfer, Answers, Fault, Fail, Go
  <2> QED BY <1>7, <2>1, <2>2, <2>3, <2>4 DEF ApplySettings
<1>1. CASE Read
  <2> DEFINE anew == [chip EXCEPT !.asked = FALSE, !.data.fresh = FALSE]
  <2>1. /\ anew \in Chips /\ (anew.hum <=> chip.hum) /\ (anew.latched <=> chip.latched)
        /\ (anew.config <=> chip.config) /\ (anew.data.hum <=> chip.data.hum)
        /\ (anew.data.config <=> chip.data.config)
        /\ anew.mode = chip.mode /\ anew.busy = chip.busy
    BY ReadFields
  <2>2. chip' = anew
    BY <1>1 DEF Read
  <2> HIDE DEF anew
  <2> QED
    BY <1>1, <2>1, <2>2 DEF Read, Acquire
<1>5. CASE LoadCalibration
  <2>1. CASE Plain("calib0", chip)
    BY <2>1 DEF Plain, Transfer, Answers, Fault, Fail, Go
  <2>2. CASE ~Plain("calib0", chip)
    BY <1>5, <2>2 DEF LoadCalibration, Transfer, Answers, Fault, Fail
  <2> QED
    BY <2>1, <2>2
<1>6. ASSUME NEW p \in {"waitReset", "waitSleep", "waitData"}, WaitUntilReady(p)
      PROVE  IInv'
      BY <1>6 DEF WaitUntilReady, Transfer, Answers, Fault, Fail, Busy
<1>8. CASE ReadSettings
      BY <1>8 DEF ReadSettings, Transfer, Answers, Fault, Fail, Initialized, Acquire, ModeMatches
<1>9. CASE Plain("trigger", CtrlMeas(Mode))
      BY <1>9, CtrlMeasFields DEF Plain, Transfer, Answers, Fault, Fail, Go
<1>10. CASE ReadData
      BY <1>10 DEF ReadData, Transfer, Answers, Fault, Fail, Complete, Refuse
<1>11. CASE Sense
  <2>1. UNCHANGED <<pc, reading, ready, calibration, result, out, sensor>>
    BY <1>11 DEF Sense, driverVars
  <2>2. /\ chip' \in Chips
        /\ (chip'.hum <=> chip.hum) /\ (chip'.latched <=> chip.latched)
        /\ (chip'.config <=> chip.config) /\ (chip'.asked <=> chip.asked)
        /\ chip'.mode \in {"sleep", chip.mode}
        /\ chip'.busy # "copying"
    BY <1>11, SenseFields DEF Sense
  <2>3. \/ chip'.data = chip.data /\ chip.busy # "measuring"
        \/ /\ chip'.data.hum <=> chip.latched
           /\ chip'.data.config <=> chip.config
           /\ chip'.data.fresh <=> chip.asked
    BY <1>11, SenseFields DEF Sense
  <2>4. Own'
    BY <2>1, <2>2, <2>3
  <2>5. Converting'
    BY <2>1, <2>2, <2>3
  <2>6. Typed' /\ NotReady' /\ Skipping' /\ Stable' /\ Loaded' /\ Asleep' /\ Kept'
    BY <2>1, <2>2
  <2>7. SoundReading'
    BY <2>1
  <2> QED
    BY <2>4, <2>5, <2>6, <2>7
<1>12. CASE LosePower \/ Unplug \/ Plug
      BY <1>12, ClearedFields DEF LosePower, Unplug, Plug, driverVars
<1>13. CASE UNCHANGED vars
      BY <1>13 DEF vars, driverVars
<1> QED BY <1>1, <1>2, <1>3, <1>4, <1>5, <1>6, <1>7, <1>8, <1>9, <1>10, <1>11, <1>12,
           <1>13 DEF Next, Driver

(* What read() returns is sound, for any number of sensors and faults and  *)
(* in every mode.                                                          *)
THEOREM ReadingsAreSound == Spec => []SoundReading
<1>1. Init => IInv
  BY Bme280Assumption, ClearedFields
  DEF Init, IInv, Typed, NotReady, Own, Skipping, Stable, Loaded, Asleep, Kept, Converting,
      SoundReading, InitSteps
<1>2. IInv => SoundReading
  BY DEF IInv
<1> QED
  BY <1>1, <1>2, StepIInv, PTL DEF Spec

-----------------------------------------------------------------------------
(* Why a disturbance costs at most one call: as long as the call under way *)
(* can still fail without a new fault (the sensor is not Clean), one fault *)
(* has not been paid for yet; and a call that fails leaves the driver with *)
(* a complete init() ahead, which nothing but a new fault can stop.        *)

Writing == {"config", "mode", "backHum", "backMode", "backConfig", "trigger",
            "waitData", "data"}

Clean ==
    /\ pc = "idle" \/ chip.busy # "starting"
    /\ ready => chip.hum /\ chip.config
    /\ pc \in Writing => chip.hum
    /\ pc \in Writing \ {"config"} => chip.config
    /\ pc \in {"backHum", "backMode", "backConfig"} => chip.osrs /\ ModeMatches
    /\ pc \in {"backMode", "backConfig"} => matches
    /\ pc \in {"waitData", "data"} => chip.latched /\ chip.osrs
    /\ pc = "waitData" => chip.busy = "measuring" \/ Complete(chip.data)
    /\ pc = "data" => Complete(chip.data)

Counted == lost \in Nat /\ faults \in Nat /\ faults <= MaxFaults /\ lost <= faults

Paid == Counted /\ (Clean \/ lost < faults)

LEMMA FailPays ==
    ASSUME IInv, Paid, Fail,
           \/ Fault
           \/ faults' = faults /\ (lost < faults \/ sensor = NoSensor)
    PROVE  Paid'
<1>1. Clean'
  BY DEF Fail, Clean, Writing
<1>2. Counted'
  BY Bme280Assumption DEF Fail, Paid, Counted, Fault
<1> QED
  BY <1>1, <1>2 DEF Paid

(* The ways in which a transaction fails. *)
LEMMA BrokenPays ==
    ASSUME IInv, Paid, pc # "idle", Fail,
           \/ ~Answers /\ faults' = faults
           \/ Fault
    PROVE  Paid'
<1>1. CASE Fault
  BY <1>1, FailPays
<1>2. CASE ~Answers /\ faults' = faults
  <2>1. lost < faults \/ sensor = NoSensor
    BY <1>2 DEF Paid, Clean, Answers
  <2> QED
    BY <1>2, <2>1, FailPays
<1> QED
  BY <1>1, <1>2

LEMMA CleanPays ==
    ASSUME Paid, Clean => Clean', faults' = faults /\ lost' = lost
    PROVE  Paid'
BY DEF Paid, Counted

LEMMA EitherPays ==
    ASSUME IInv, Paid, pc # "idle",
           \/ Fail /\ (Fault \/ (~Answers /\ faults' = faults))
           \/ faults' = faults /\ lost' = lost /\ (Clean => Clean')
    PROVE  Paid'
BY BrokenPays, CleanPays

LEMMA PlainPays ==
    ASSUME NEW p, NEW STATE written, IInv, Paid, p # "idle", Plain(p, written),
           /\ pc = p /\ pc' = Following[p] /\ chip' = written
           /\ ready' = ready /\ matches' = matches /\ Answers /\ Clean
           => Clean'
    PROVE  Paid'
<1>1. pc = p
  BY DEF Plain, Transfer
<1>2. \/ Fail /\ (Fault \/ (~Answers /\ faults' = faults))
      \/ Answers /\ chip' = written /\ Go(Following[p]) /\ faults' = faults
  BY DEF Plain, Transfer
<1>3. CASE Answers /\ chip' = written /\ Go(Following[p]) /\ faults' = faults
  <2>1. lost' = lost /\ (Clean => Clean')
    BY <1>1, <1>3 DEF Go
  <2> QED
    BY <1>3, <2>1, CleanPays
<1> QED
  BY <1>1, <1>2, <1>3, BrokenPays

LEMMA StepPaid == ASSUME Mode # "normal" PROVE IInv /\ Paid /\ [Next]_vars => Paid'
<1> SUFFICES ASSUME IInv, Paid, [Next]_vars PROVE Paid'
    OBVIOUS
<1> USE Bme280Assumption, FollowingIs
<1>1. CASE Read
  <2> DEFINE anew == [chip EXCEPT !.asked = FALSE, !.data.fresh = FALSE]
  <2>1. (anew.hum <=> chip.hum) /\ (anew.config <=> chip.config) /\ anew.busy = chip.busy
    BY ReadFields DEF IInv, Typed
  <2>2. chip' = anew /\ pc' \in {"idle", "trigger", "probe", "add"} /\ ready' = ready
        /\ (pc' = "trigger" => ready) /\ faults' = faults /\ lost' = lost
        /\ chip.busy # "starting"
    BY <1>1 DEF Read, Acquire
  <2> HIDE DEF anew
  <2>3. Clean => Clean'
    BY <2>1, <2>2 DEF Clean, Writing
  <2> QED
    BY <2>2, <2>3, CleanPays
<1>2. CASE AddDevice
  <2>1. CASE Fail /\ Fault
    BY <2>1, FailPays
  <2>2. CASE Go("probe") /\ faults' = faults
    <3>1. pc = "add" /\ chip' = chip /\ pc' = "probe" /\ ready' = ready /\ lost' = lost
      BY <1>2, <2>2 DEF AddDevice, Go
    <3>2. Clean => Clean'
      BY <3>1 DEF Clean, Writing
    <3> QED
      BY <2>2, <3>1, <3>2, CleanPays
  <2> QED
    BY <1>2, <2>1, <2>2 DEF AddDevice
<1>3. CASE CheckChipId
  <2>1. CASE Plain("probe", chip)
    BY <2>1, PlainPays DEF Clean, Writing
  <2>2. CASE Plain("chipId", chip)
    BY <2>2, PlainPays DEF Clean, Writing
  <2> QED
    BY <1>3, <2>1, <2>2 DEF CheckChipId
<1>4. CASE Reset
  <2>1. pc = "reset" /\ ~ready
    BY <1>4 DEF Reset, Plain, Transfer, IInv, NotReady, InitSteps
  <2> QED
    BY <1>4, <2>1, PlainPays, ClearedFields DEF Reset, Clean, Writing
<1>5. CASE LoadCalibration
  <2>1. CASE Plain("calib0", chip)
    BY <2>1, PlainPays DEF Clean, Writing
  <2>2. CASE pc = "calib1"
    <3>1. CASE Fail /\ (Fault \/ (~Answers /\ faults' = faults))
      BY <2>2, <3>1, EitherPays
    <3>2. CASE /\ pc' = "sleepMode" /\ faults' = faults /\ chip' = chip
               /\ ready' = ready /\ lost' = lost
      <4>1. Clean => Clean'
        BY <2>2, <3>2 DEF Clean, Writing
      <4> QED
        BY <2>2, <3>2, <4>1, CleanPays
    <3> QED
      BY <1>5, <2>2, <3>1, <3>2 DEF LoadCalibration, Plain, Transfer
  <2> QED
    BY <1>5, <2>1, <2>2 DEF LoadCalibration, Transfer
<1>6. ASSUME NEW p \in {"waitReset", "waitSleep", "waitData"}, WaitUntilReady(p)
      PROVE  Paid'
  <2>1. pc = p
    BY <1>6 DEF WaitUntilReady, Transfer
  <2>2. CASE Fail /\ (Fault \/ (~Answers /\ faults' = faults))
    BY <2>1, <2>2, EitherPays
  <2>3. CASE /\ \/ pc' = pc
                \/ pc' = Following[p] /\ ~Busy
             /\ faults' = faults /\ chip' = chip /\ ready' = ready /\ lost' = lost
    <3>1. Clean => Clean'
      BY <2>1, <2>3 DEF Clean, Writing, Busy, Complete
    <3> QED
      BY <2>3, <3>1, CleanPays
  <2> QED
    BY <1>6, <2>1, <2>2, <2>3 DEF WaitUntilReady, Transfer
<1>7. CASE ApplySettings
  <2>1. CASE Plain("sleepMode", CtrlMeas("sleep"))
    <3>1. (CtrlMeas("sleep").hum <=> chip.hum) /\ (CtrlMeas("sleep").config <=> chip.config)
          /\ CtrlMeas("sleep").busy = chip.busy
      BY CtrlMeasFields DEF IInv, Typed
    <3> QED
      BY <2>1, <3>1, PlainPays DEF Clean, Writing
  <2>2. CASE Plain("hum", [chip EXCEPT !.hum = TRUE])
    <3> DEFINE written == [chip EXCEPT !.hum = TRUE]
    <3>1. Plain("hum", written)
      BY <2>2
    <3>2. written.hum /\ (written.config <=> chip.config) /\ written.busy = chip.busy
      BY HumFields DEF IInv, Typed
    <3> HIDE DEF written
    <3>3. /\ pc = "hum" /\ pc' = Following["hum"] /\ chip' = written
          /\ ready' = ready /\ matches' = matches /\ Clean
          => Clean'
      BY <3>2 DEF Clean, Writing
    <3> QED
      BY <3>1, <3>3, PlainPays
  <2>3. CASE Plain("config", [chip EXCEPT !.config = @ \/ chip.mode # "normal"])
    <3> DEFINE written == [chip EXCEPT !.config = @ \/ chip.mode # "normal"]
    <3>1. Plain("config", written)
      BY <2>3
    <3>2. pc = "config" => written.config
      BY ConfigFields DEF IInv, Typed, Asleep
    <3>3. (written.hum <=> chip.hum) /\ written.busy = chip.busy
      BY ConfigFields DEF IInv, Typed
    <3> HIDE DEF written
    <3>4. /\ pc = "config" /\ pc' = Following["config"] /\ chip' = written
          /\ ready' = ready /\ matches' = matches /\ Clean
          => Clean'
      BY <3>2, <3>3 DEF Clean, Writing
    <3> QED
      BY <3>1, <3>4, PlainPays
  <2>4. CASE Plain("mode", CtrlMeas(Mode))
    <3>1. (CtrlMeas(Mode).hum <=> chip.hum) /\ (CtrlMeas(Mode).config <=> chip.config)
          /\ CtrlMeas(Mode).busy \in {chip.busy, "measuring"} /\ CtrlMeas(Mode).osrs
          /\ CtrlMeas(Mode).mode = Mode
      BY CtrlMeasFields DEF IInv, Typed
    <3> QED
      BY <2>4, <3>1, PlainPays DEF Clean, Writing, ModeMatches
  <2> QED
    BY <1>7, <2>1, <2>2, <2>3, <2>4 DEF ApplySettings
<1>8. CASE ReadSettings
  <2>1. CASE pc = "backHum"
    <3>1. CASE Fail /\ (Fault \/ (~Answers /\ faults' = faults))
      BY <2>1, <3>1, EitherPays
    <3>2. CASE /\ pc' = "backMode" /\ matches' = chip.hum
               /\ faults' = faults /\ chip' = chip /\ ready' = ready /\ lost' = lost
      <4>1. Clean => Clean'
        BY <2>1, <3>2 DEF Clean, Writing, ModeMatches
      <4> QED
        BY <2>1, <3>2, <4>1, CleanPays
    <3> QED
      BY <1>8, <2>1, <3>1, <3>2 DEF ReadSettings, Transfer
  <2>2. CASE pc = "backMode"
    <3>1. CASE Fail /\ (Fault \/ (~Answers /\ faults' = faults))
      BY <2>2, <3>1, EitherPays
    <3>2. CASE /\ pc' = "backConfig" /\ matches' = (matches /\ chip.osrs /\ ModeMatches)
               /\ faults' = faults /\ chip' = chip /\ ready' = ready /\ lost' = lost
      <4>1. Clean => Clean'
        BY <2>2, <3>2 DEF Clean, Writing, ModeMatches
      <4> QED
        BY <2>2, <3>2, <4>1, CleanPays
    <3> QED
      BY <1>8, <2>2, <3>1, <3>2 DEF ReadSettings, Transfer
  <2>3. CASE pc = "backConfig" /\ matches /\ chip.config
    <3>1. CASE Fail /\ (Fault \/ (~Answers /\ faults' = faults))
      BY <2>3, <3>1, EitherPays
    <3>2. CASE Initialized /\ faults' = faults /\ chip' = chip
      <4>1. Clean => Clean'
        BY <2>3, <3>2 DEF Clean, Writing, Initialized, Acquire
      <4> QED
        BY <2>3, <3>2, <4>1, CleanPays DEF Initialized, Acquire
    <3> QED
      BY <1>8, <2>3, <3>1, <3>2 DEF ReadSettings, Transfer
  <2>4. CASE pc = "backConfig" /\ ~(matches /\ chip.config)
    <3>1. lost < faults
      BY <2>4 DEF Paid, Clean, Writing
    <3>2. Fail /\ (faults' = faults \/ Fault)
      BY <1>8, <2>4 DEF ReadSettings, Transfer
    <3> QED
      BY <3>1, <3>2, FailPays
  <2> QED
    BY <1>8, <2>1, <2>2, <2>3, <2>4 DEF ReadSettings, Transfer
<1>9. CASE Plain("trigger", CtrlMeas(Mode))
  <2>1. pc = "trigger" /\ Mode = "forced"
    BY <1>9 DEF Plain, Transfer, IInv, Converting
  <2>2. (CtrlMeas(Mode).hum <=> chip.hum) /\ (CtrlMeas(Mode).config <=> chip.config)
        /\ (CtrlMeas(Mode).latched <=> chip.hum) /\ CtrlMeas(Mode).osrs
        /\ CtrlMeas(Mode).busy = "measuring"
    BY <2>1, CtrlMeasFields DEF IInv, Typed
  <2> QED
    BY <1>9, <2>2, PlainPays DEF Clean, Writing
<1>10. CASE ReadData
  <2>1. pc = "data"
    BY <1>10 DEF ReadData, Transfer
  <2>2. CASE Fail /\ (Fault \/ (~Answers /\ faults' = faults))
    BY <2>1, <2>2, EitherPays
  <2>3. CASE Fail /\ faults' = faults /\ ~Complete(chip.data)
    <3>1. lost < faults
      BY <2>1, <2>3 DEF Paid, Clean
    <3> QED
      BY <2>3, <3>1, FailPays
  <2>4. CASE pc' = "idle" /\ ready' = ready /\ faults' = faults /\ chip' = chip /\ lost' = lost
    <3>1. Clean => Clean'
      BY <2>1, <2>4 DEF Clean, Writing
    <3> QED
      BY <2>1, <2>4, <3>1, CleanPays
  <2> QED
    BY <1>10, <2>2, <2>3, <2>4 DEF ReadData, Transfer, Refuse
<1>11. CASE Sense
  <2>1. UNCHANGED <<pc, ready, matches, faults, lost>>
    BY <1>11 DEF Sense, driverVars
  <2>2. (chip'.hum <=> chip.hum) /\ (chip'.latched <=> chip.latched)
        /\ (chip'.config <=> chip.config) /\ (chip'.osrs <=> chip.osrs)
        /\ chip'.mode \in {"sleep", chip.mode}
    BY <1>11, SenseFields DEF Sense, IInv, Typed
  <2>3. \/ chip'.data = chip.data /\ chip.busy # "measuring"
        \/ (chip'.data.hum <=> chip.latched) /\ (chip'.data.osrs <=> chip.osrs)
    BY <1>11, SenseFields DEF Sense, IInv, Typed
  <2>4. chip'.busy # "starting"
    BY <1>11 DEF Sense, Converted, Settled, IInv, Typed, Chips
  <2>5. ModeMatches => ModeMatches'
    BY <2>2 DEF ModeMatches
  <2>6. Complete(chip.data)' <=> (chip'.data.osrs /\ chip'.data.hum)
    BY DEF Complete
  <2>7. Clean => (pc = "waitData" => Complete(chip.data)')
    BY <2>3, <2>6 DEF Clean, Complete
  <2>8. Clean => (pc = "data" => Complete(chip.data)')
    BY <2>3, <2>6 DEF Clean, Complete
  <2>9. Clean => Clean'
    BY <2>1, <2>2, <2>4, <2>5, <2>7, <2>8 DEF Clean, Writing
  <2> QED
    BY <2>1, <2>9, CleanPays
<1>12. CASE LosePower \/ Unplug
  BY <1>12 DEF LosePower, Unplug, driverVars, Fault, Paid, Counted
<1>13. CASE Plug
  <2>1. UNCHANGED <<pc, ready, matches, faults, lost>> /\ pc = "idle"
        /\ chip' = Cleared("no") /\ sensor = NoSensor
    BY <1>13 DEF Plug, driverVars
  <2>2. Clean => Clean'
    BY <2>1, ClearedFields DEF Clean, Writing, IInv, Own
  <2> QED
    BY <2>1, <2>2, CleanPays
<1>14. CASE UNCHANGED vars
  BY <1>14, CleanPays DEF vars, driverVars, Clean, ModeMatches, Complete
<1> QED
  BY <1>1, <1>2, <1>3, <1>4, <1>5, <1>6, <1>7, <1>8, <1>9, <1>10, <1>11, <1>12, <1>13,
     <1>14 DEF Next, Driver

(* In the modes other than normal a disturbance costs at most one call:    *)
(* after it the next call re-initializes the sensor and succeeds, for any  *)
(* number of disturbances.                                                 *)
THEOREM DisturbancesCostOneCall ==
    ASSUME Mode # "normal" PROVE Spec => []OneLossPerFault
<1>1. Init => IInv /\ Paid
  BY Bme280Assumption, ClearedFields
  DEF Init, IInv, Typed, NotReady, Own, Skipping, Stable, Loaded, Asleep, Kept, Converting,
      SoundReading, InitSteps, Paid, Counted, Clean, Writing
<1>2. IInv /\ Paid => OneLossPerFault
  BY DEF Paid, Counted, OneLossPerFault
<1>3. IInv /\ Paid /\ [Next]_vars => (IInv /\ Paid)'
  BY StepIInv, StepPaid
<1> QED
  BY <1>1, <1>2, <1>3, PTL DEF Spec
=============================================================================
