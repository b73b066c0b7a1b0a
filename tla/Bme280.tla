------------------------------- MODULE Bme280 -------------------------------
(***************************************************************************)
(* The BME280 driver (Bme280Sensor::init and ::read, as Bme280Producer     *)
(* calls them) and the sensor on the other side of the bus.  One bus       *)
(* transaction is one step, and between two of them the sensor may be      *)
(* unplugged or lose its power; while the driver is idle it may also be    *)
(* exchanged for another, with its own factory calibration.                *)
(*                                                                         *)
(* The sensor is external, modelled from what the driver relies on:        *)
(*   - power-up and the reset command restore the registers: everything    *)
(*     is skipped, the mode is sleep, the data hold the skip patterns;     *)
(*   - a write of ctrl_meas latches ctrl_hum, and starts a conversion      *)
(*     unless the mode written is sleep; config is ignored in normal mode; *)
(*   - after the reset command calibration is unstable for a while, after  *)
(*     power-up the sensor does not answer for a while.                    *)
(* A register is TRUE when it holds the value of settings_.  An operator   *)
(* named after a fault, before the definition it varies, is a plausible    *)
(* slip; README.md says which property each one breaks.                    *)
(***************************************************************************)
EXTENDS Naturals

CONSTANTS Mode,      \* settings_.mode
          Sensors,   \* the sensors that may be plugged in
          NoSensor,  \* none, and the calibration of none
          Attempts,  \* kBme280ReadyWaitAttempts
          MaxFaults  \* bound: what goes wrong

ASSUME Bme280Assumption ==
    /\ Mode \in {"sleep", "forced", "normal"}
    /\ NoSensor \notin Sensors
    /\ Attempts \in Nat \ {0} /\ MaxFaults \in Nat

VARIABLES
    pc,          \* the driver's next transaction, or "idle"
    reading,     \* the driver is in read(), which may call init() first
    device,      \* device_ # nullptr
    ready,       \* ready_for_reads_
    calibration, \* calibration_: whose coefficients
    attempt,     \* status reads of this wait_until_ready()
    matches,     \* the registers read back so far match settings_
    result,      \* what the last call returned: "ok", "error"; "none" before
    out,         \* the last reading: its raw data, its sensor, the calibration
    sensor,      \* the sensor that is plugged in
    chip,        \* its registers and what it is doing
    faults,      \* bound: faults so far
    lost         \* history: calls that failed although a sensor was plugged in

driverVars == <<reading, device, ready, calibration, attempt, matches, result, out, lost>>
vars == <<pc, driverVars, sensor, chip, faults>>

(* The order of the transactions of init() and of read(). *)
Following ==
    [add |-> "probe", probe |-> "chipId", chipId |-> "reset",
     reset |-> "waitReset", waitReset |-> "calib0", calib0 |-> "calib1",
     calib1 |-> "sleepMode", sleepMode |-> "waitSleep", waitSleep |-> "hum",
     hum |-> "config", config |-> "mode", mode |-> "backHum",
     backHum |-> "backMode", backMode |-> "backConfig",
     trigger |-> "waitData", waitData |-> "data"]

Data == [hum : BOOLEAN, osrs : BOOLEAN, config : BOOLEAN, fresh : BOOLEAN]
SkipPattern == [hum |-> FALSE, osrs |-> FALSE, config |-> FALSE, fresh |-> FALSE]
Chips == [hum : BOOLEAN, latched : BOOLEAN, osrs : BOOLEAN, config : BOOLEAN,
          mode : {"sleep", "forced", "normal"}, asked : BOOLEAN, data : Data,
          busy : {"no", "starting", "copying", "measuring"}]

TypeOK ==
    /\ pc \in DOMAIN Following \cup {"idle", "backConfig", "data"}
    /\ reading \in BOOLEAN /\ device \in BOOLEAN /\ ready \in BOOLEAN
    /\ calibration \in Sensors \cup {NoSensor}
    /\ sensor \in Sensors \cup {NoSensor}
    /\ attempt \in 0 .. Attempts /\ matches \in BOOLEAN
    /\ result \in {"none", "ok", "error"}
    /\ out \in [data : Data, of : Sensors \cup {NoSensor},
                calibration : Sensors \cup {NoSensor}]
    /\ chip \in Chips
    /\ faults \in 0 .. MaxFaults /\ lost \in 0 .. MaxFaults + 1

-----------------------------------------------------------------------------
(* The sensor *)

Cleared(busy) ==
    [hum |-> FALSE, latched |-> FALSE, osrs |-> FALSE, config |-> FALSE,
     mode |-> "sleep", asked |-> FALSE, data |-> SkipPattern, busy |-> busy]

(* A write of ctrl_meas with the oversampling of settings_ and mode m. *)
CtrlMeas(m) ==
    [chip EXCEPT !.osrs = TRUE, !.latched = chip.hum, !.mode = m,
                 !.asked = @ \/ m # "sleep",
                 !.busy = IF m # "sleep" THEN "measuring" ELSE @]

Converted ==
    /\ chip.busy = "measuring"
    /\ chip' = [chip EXCEPT
                  !.data = [hum |-> chip.latched, osrs |-> chip.osrs,
                            config |-> chip.config, fresh |-> chip.asked],
                  !.mode = IF @ = "forced" THEN "sleep" ELSE @,
                  !.busy = IF chip.mode = "normal" THEN "measuring" ELSE "no"]

Settled == chip.busy \in {"starting", "copying"} /\ chip' = [chip EXCEPT !.busy = "no"]

(* A step of the sensor. *)
Sense == (Converted \/ Settled) /\ UNCHANGED <<pc, driverVars, sensor, faults>>

Answers == sensor # NoSensor /\ chip.busy # "starting"

Fault == faults < MaxFaults /\ faults' = faults + 1

(* Power-up is over long before the next call, so only a loss of power in  *)
(* the middle of one finds the sensor starting.                            *)
LosePower ==
    /\ sensor # NoSensor /\ Fault
    /\ chip' = Cleared(IF pc = "idle" THEN "no" ELSE "starting")
    /\ UNCHANGED <<pc, driverVars, sensor>>

Unplug ==
    /\ sensor # NoSensor /\ Fault
    /\ sensor' = NoSensor /\ chip' = Cleared("no")
    /\ UNCHANGED <<pc, driverVars>>

(* Plugging a sensor in takes longer than a call. *)
Plug ==
    /\ pc = "idle" /\ sensor = NoSensor
    /\ sensor' \in Sensors /\ chip' = Cleared("no")
    /\ UNCHANGED <<pc, driverVars, faults>>

-----------------------------------------------------------------------------
(* The driver *)

(* Every failure ends the call and asks for a complete init(). *)
Fail ==
    /\ pc' = "idle" /\ ready' = FALSE /\ result' = "error" /\ attempt' = 0
    /\ lost' = IF sensor = NoSensor \/ lost > MaxFaults THEN lost ELSE lost + 1
    /\ UNCHANGED <<calibration, matches, out>>

Go(next) ==
    /\ pc' = next
    /\ UNCHANGED <<ready, calibration, attempt, matches, result, out, lost>>

(* One transaction: it leaves the sensor with the registers written, and   *)
(* the driver goes on with accept; or nobody answers; or it fails on the   *)
(* bus, before or after the sensor has taken it.                           *)
Transfer(p, written, accept) ==
    /\ pc = p
    /\ UNCHANGED <<reading, device, sensor>>
    /\ \/ Answers /\ chip' = written /\ accept /\ UNCHANGED faults
       \/ ~Answers /\ Fail /\ UNCHANGED <<chip, faults>>
       \/ Answers /\ Fault /\ chip' \in {chip, written} /\ Fail

Plain(p, written) == Transfer(p, written, Go(Following[p]))

AddDevice ==
    /\ pc = "add"
    /\ \/ device' = TRUE /\ Go("probe") /\ UNCHANGED faults
       \/ Fault /\ Fail /\ UNCHANGED device
    /\ UNCHANGED <<reading, sensor, chip>>

CheckChipId == Plain("probe", chip) \/ Plain("chipId", chip)

Reset == Plain("reset", Cleared("copying"))

Busy == chip.busy \in {"measuring", "copying"}

(* The attempts outlast the sensor's work: running out of them is a fault, *)
(* the failing last read of the status.                                    *)
WaitUntilReady(p) ==
    Transfer(p, chip,
       \/ /\ ~Busy /\ pc' = Following[p] /\ attempt' = 0
          /\ UNCHANGED <<ready, calibration, matches, result, out, lost>>
       \/ /\ Busy /\ attempt + 1 < Attempts /\ attempt' = attempt + 1
          /\ UNCHANGED <<pc, ready, calibration, matches, result, out, lost>>)

LoadCalibration ==
    \/ Plain("calib0", chip)
    \/ Transfer("calib1", chip,
          /\ pc' = Following[pc]
          /\ calibration' = IF chip.busy = "copying" THEN NoSensor ELSE sensor
          /\ UNCHANGED <<ready, attempt, matches, result, out, lost>>)

ApplySettings ==
    \/ Plain("sleepMode", CtrlMeas("sleep"))
    \/ Plain("hum", [chip EXCEPT !.hum = TRUE])
    \/ Plain("config", [chip EXCEPT !.config = @ \/ chip.mode # "normal"])
    \/ Plain("mode", CtrlMeas(Mode))

(* Faulty: a forced mode that has returned to sleep does not match. *)
ModeMatchesExactly == chip.mode = Mode

ModeMatches ==
    IF Mode = "forced" THEN chip.mode # "normal" ELSE chip.mode = Mode

(* With the settings applied read() goes on, forced or at once. *)
Acquire ==
    /\ pc' = CASE Mode = "forced" -> "trigger" [] Mode = "normal" -> "data" [] OTHER -> "idle"
    /\ result' = IF Mode = "sleep" THEN "error" ELSE "none"

Initialized ==
    /\ ready' = TRUE
    /\ IF reading THEN Acquire ELSE pc' = "idle" /\ result' = "ok"
    /\ UNCHANGED <<calibration, attempt, matches, out, lost>>

ReadSettings ==
    \/ Transfer("backHum", chip,
          /\ pc' = Following[pc] /\ matches' = chip.hum
          /\ UNCHANGED <<ready, calibration, attempt, result, out, lost>>)
    \/ Transfer("backMode", chip,
          /\ pc' = Following[pc] /\ matches' = (matches /\ chip.osrs /\ ModeMatches)
          /\ UNCHANGED <<ready, calibration, attempt, result, out, lost>>)
    \/ Transfer("backConfig", chip,
          IF matches /\ chip.config THEN Initialized ELSE Fail)

(* Faulty: humidity is not looked at. *)
CompleteNotHumidity(raw) == raw.osrs

(* convert() refuses the patterns of a skipped channel. *)
Complete(raw) == raw.osrs /\ raw.hum

(* Faulty: a refused sample does not ask for init(). *)
RefuseStaysReady ==
    /\ pc' = "idle" /\ result' = "error"
    /\ lost' = IF lost > MaxFaults THEN lost ELSE lost + 1
    /\ UNCHANGED <<ready, calibration, attempt, matches, out>>

Refuse == Fail

ReadData ==
    Transfer("data", chip,
       IF Complete(chip.data)
       THEN /\ pc' = "idle" /\ result' = "ok"
            /\ out' = [data |-> chip.data, of |-> sensor, calibration |-> calibration]
            /\ UNCHANGED <<ready, calibration, attempt, matches, lost>>
       ELSE Refuse)

(* Bme280Producer::read(); asked and fresh start anew with each call. *)
Read ==
    /\ pc = "idle" /\ chip.busy # "starting"
    /\ reading' = TRUE
    /\ chip' = [chip EXCEPT !.asked = FALSE, !.data.fresh = FALSE]
    /\ IF ready THEN Acquire
                ELSE pc' = (IF device THEN "probe" ELSE "add") /\ result' = "none"
    /\ UNCHANGED <<device, ready, calibration, attempt, matches, out, lost, sensor, faults>>

Driver ==
    \/ Read \/ AddDevice \/ CheckChipId \/ Reset \/ LoadCalibration
    \/ WaitUntilReady("waitReset") \/ WaitUntilReady("waitSleep") \/ WaitUntilReady("waitData")
    \/ ApplySettings \/ ReadSettings \/ Plain("trigger", CtrlMeas(Mode)) \/ ReadData

(* environment_measurements_init() calls init(), with or without a sensor. *)
Init ==
    /\ pc = "add" /\ reading = FALSE /\ device = FALSE /\ ready = FALSE
    /\ calibration = NoSensor /\ attempt = 0 /\ matches = FALSE /\ result = "none"
    /\ out = [data |-> SkipPattern, of |-> NoSensor, calibration |-> NoSensor]
    /\ sensor \in Sensors \cup {NoSensor} /\ chip = Cleared("no")
    /\ faults = 0 /\ lost = 0

Next == Driver \/ Sense \/ LosePower \/ Unplug \/ Plug

(* The polling task goes on and on, and the sensor ends what it begins. *)
Spec == Init /\ [][Next]_vars /\ WF_vars(Driver) /\ WF_vars(Sense)

-----------------------------------------------------------------------------
(* What a successful read() returns was measured by one sensor with all of *)
(* the settings applied, compensated with that sensor's own coefficients,  *)
(* and in forced mode converted for this call: also when the sensor lost   *)
(* its power or was exchanged and no transaction failed.                   *)
SoundReading ==
    pc = "idle" /\ reading /\ result = "ok" =>
        /\ out.data.hum /\ out.data.osrs /\ out.data.config
        /\ out.calibration = out.of
        /\ Mode = "forced" => out.data.fresh

(* Each disturbance costs at most one call: the next one, with a sensor    *)
(* plugged in and nothing new going wrong, succeeds (read() and its        *)
(* complete init() after a failure).                                       *)
OneLossPerFault == lost <= faults

(* Measuring goes on after every disturbance, unless no sensor is there to *)
(* measure (README.md: "allowing recovery after a disconnect or transient  *)
(* I2C failure").                                                          *)
Recovers ==
    []<>(pc = "idle" /\ reading /\ result = "ok") \/ <>[](sensor = NoSensor)
=============================================================================
