------------------- MODULE EnvironmentMeasurementsProofs --------------------
(***************************************************************************)
(* Proofs about the environment measurements.                              *)
(*                                                                         *)
(* MeasurementsManager, for any number of producers: no wake-up is lost,   *)
(* and the first stop() returns with the polling task quiet.               *)
(*                                                                         *)
(* MeasurementStore, for every set of registrations, every age limit and   *)
(* any number of publications.  The inductive invariant says of the poller *)
(* what it has written of its batch, of the versions that the last to be   *)
(* drawn is in the store, and of the consumer what its two copies have to  *)
(* do with each other and with the store.                                  *)
(***************************************************************************)
EXTENDS MeasurementsManager, MeasurementStore, TLAPS

-----------------------------------------------------------------------------
(***************************************************************************)
(* The polling task.                                                       *)
(***************************************************************************)
(* Every variable keeps its type. *)
THEOREM ManagerTypeCorrect == ManagerSpec => []ManagerTypeOK
<1>1. ManagerInit => ManagerTypeOK
  <2>1. 1 \in 1 .. Producers /\ 0 \in 0 .. MaxStops
    BY ManagerAssumption DEF ManagerAssumption
  <2> QED
    BY <2>1 DEF ManagerInit, ManagerTypeOK
<1>2. ManagerTypeOK /\ [ManagerNext]_managerVars => ManagerTypeOK'
  <2> SUFFICES ASSUME ManagerTypeOK, [ManagerNext]_managerVars PROVE ManagerTypeOK'
    OBVIOUS
  <2> USE DEF ManagerTypeOK
  <2>0. /\ \A k \in 0 .. MaxStops : k < MaxStops => k + 1 \in 0 .. MaxStops
        /\ \A k \in 1 .. Producers : k < Producers => k + 1 \in 1 .. Producers
        /\ 1 \in 1 .. Producers
    BY ManagerAssumption DEF ManagerAssumption
  <2>1. CASE Start
    BY <2>1 DEF Start, StartClear, StartTask
  <2>2. CASE Stop
    BY <2>0, <2>2 DEF Stop, StopRequest, StopNotify, StopTake
  <2>3. CASE Task
    BY <2>0, <2>3 DEF Task, Check, Acknowledge, Wake, Poll, SleepEnd
  <2>4. CASE UNCHANGED managerVars
    BY <2>4 DEF managerVars
  <2> QED
    BY <2>1, <2>2, <2>3, <2>4 DEF ManagerNext
<1> QED
  BY <1>1, <1>2, PTL DEF ManagerSpec

-----------------------------------------------------------------------------
(* Why no wake-up is lost: start() clears the request before it wakes the  *)
(* task, so whoever sees the task parked, or on its way there, while it is *)
(* meant to run has also left it a notification.                           *)

OwnerPhase ==
    /\ owner = "starting" => ~stopRequested /\ ~running
    /\ running /\ owner = "idle" => ~stopRequested
    /\ owner \in {"stopping", "waiting"} => running

WakeUpLeft ==
    task \in {"ack", "parked"} /\ running /\ owner = "idle" => notified

AnswerLeft ==
    owner = "waiting" /\ task = "parked" => stopped \/ notified

WakeInv == OwnerPhase /\ WakeUpLeft /\ AnswerLeft

(* Every step of owner, waker and task keeps WakeInv. *)
LEMMA WakeInvStep == ManagerTypeOK /\ WakeInv /\ [ManagerNext]_managerVars => WakeInv'
<1> SUFFICES ASSUME ManagerTypeOK, WakeInv, [ManagerNext]_managerVars PROVE WakeInv'
  OBVIOUS
<1> USE DEF WakeInv
<1>1. OwnerPhase'
  BY DEF ManagerTypeOK, OwnerPhase, ManagerNext, Start, Stop, Task, StartClear, StartTask,
         StopRequest, StopNotify, StopTake, Check, Acknowledge, Wake, Poll,
         SleepEnd, managerVars
<1>2. WakeUpLeft'
  BY DEF ManagerTypeOK, OwnerPhase, WakeUpLeft, ManagerNext, Start, Stop, Task, StartClear,
         StartTask, StopRequest, StopNotify, StopTake, Check, Acknowledge,
         Wake, Poll, SleepEnd, managerVars
<1>3. AnswerLeft'
  BY DEF ManagerTypeOK, AnswerLeft, ManagerNext, Start, Stop, Task, StartClear, StartTask,
         StopRequest, StopNotify, StopTake, Check, Acknowledge, Wake, Poll,
         SleepEnd, managerVars
<1> QED
  BY <1>1, <1>2, <1>3

(* Neither the task nor an owner in stop() sleeps with nobody left to wake
   it, whatever the interleaving of their accesses. *)
THEOREM NoWakeupIsLost == ManagerSpec => []NoLostWakeup
<1>1. ManagerInit => WakeInv
  BY DEF ManagerInit, WakeInv, OwnerPhase, WakeUpLeft, AnswerLeft
<1>2. WakeInv => NoLostWakeup
  BY DEF WakeInv, WakeUpLeft, AnswerLeft, NoLostWakeup
<1> QED
  BY <1>1, <1>2, WakeInvStep, ManagerTypeCorrect, PTL DEF ManagerSpec

-----------------------------------------------------------------------------
(* Why the first stop() is honest: until it returns, the semaphore can     *)
(* only have been given by a task that saw this request.                   *)

NearParked == {"parked", "check", "ack"}

BeforeFirstStop ==
    stops = 0 => /\ ~stopped /\ ~stopRequested
                 /\ owner \in {"idle", "starting"}
                 /\ task \notin {"ack", "parked"}
                 /\ ~running /\ owner = "idle" => task = "none"

DuringFirstStop ==
    stops = 1 /\ owner \in {"stopping", "waiting"} =>
        /\ stopRequested
        /\ stopped => task \in NearParked

AfterFirstStop ==
    stops = 1 /\ owner = "idle" /\ ~running => stopRequested /\ task \in NearParked

FirstStopInv == OwnerPhase /\ BeforeFirstStop /\ DuringFirstStop /\ AfterFirstStop

(* Every step keeps the three parts of the first stop apart. *)
LEMMA FirstStopInvStep ==
    ManagerTypeOK /\ WakeInv /\ FirstStopInv /\ [ManagerNext]_managerVars => FirstStopInv'
<1> SUFFICES ASSUME ManagerTypeOK, WakeInv, FirstStopInv, [ManagerNext]_managerVars
             PROVE  FirstStopInv'
  OBVIOUS
<1> USE ManagerAssumption DEF ManagerAssumption, FirstStopInv, OwnerPhase,
        BeforeFirstStop, DuringFirstStop, AfterFirstStop, NearParked, ManagerTypeOK
<1>1. OwnerPhase'
  BY WakeInvStep DEF WakeInv
<1>2. CASE Start
  BY <1>1, <1>2 DEF Start, StartClear, StartTask
<1>3. CASE Stop
  BY <1>1, <1>3 DEF Stop, StopRequest, StopNotify, StopTake
<1>4. CASE Task
  BY <1>1, <1>4 DEF Task, Check, Acknowledge, Wake, Poll, SleepEnd
<1>5. CASE UNCHANGED managerVars
  BY <1>5 DEF managerVars
<1> QED
  BY <1>2, <1>3, <1>4, <1>5 DEF ManagerNext

(* When the first stop() has returned, no producer is polled until the next
   start(). *)
THEOREM FirstStopIsHonest == ManagerSpec => []FirstStopIsQuiet
<1>1. ManagerInit => WakeInv /\ FirstStopInv
  BY DEF ManagerInit, WakeInv, OwnerPhase, WakeUpLeft, AnswerLeft, FirstStopInv,
         BeforeFirstStop, DuringFirstStop, AfterFirstStop
<1>2. FirstStopInv => FirstStopIsQuiet
  BY DEF FirstStopInv, AfterFirstStop, NearParked, FirstStopIsQuiet, StoppedIsQuiet
<1> QED
  BY <1>1, <1>2, WakeInvStep, FirstStopInvStep, ManagerTypeCorrect, PTL DEF ManagerSpec

-----------------------------------------------------------------------------
(***************************************************************************)
(* The stored measurements.                                                *)
(***************************************************************************)
Registered == DOMAIN Registrations

(* The record that an invalidation leaves. *)
Off(record) == [record EXCEPT !.valid = FALSE]

(* The record that the poller writes to a channel of its batch. *)
New(c) ==
    IF step = "publish"
    THEN [at |-> stamp, version |-> nextVersion - 1, value |-> reading[c], valid |-> TRUE]
    ELSE Off(latest[c])

(* Who holds the mutex, and what the poller is about to do with it. *)
Turns ==
    /\ (mutex = "reader") <=> (reader = "copy")
    /\ mutex = "poller" => step # "read" /\ todo \subseteq batch
    /\ step # "read" => batch # {} /\ batch \subseteq Registrations[producer]
    /\ step = "invalidate" => batch = Registrations[producer]
    /\ step = "publish" /\ mutex # "poller" => nextVersion <= MaxVersion
    /\ verdict # "none" => reader = "idle"

(* What the poller has visited, it has written; nothing is from the future. *)
Written == mutex = "poller" => \A c \in batch \ todo : latest[c] = New(c)

InTime == stamp <= now /\ \A c \in Channels : latest[c].at <= now /\ copied[c].at <= now

IInv == TypeOK /\ Turns /\ Written /\ InTime

-----------------------------------------------------------------------------
LEMMA RegistrationFacts ==
    /\ \A i \in Registered : Registrations[i] \subseteq Channels /\ Registrations[i] # {}
    /\ \A i \in Registered : (i % Len(Registrations)) + 1 \in Registered
    /\ \A i, j \in Registered : i # j => Registrations[i] \cap Registrations[j] = {}
    /\ 1 \in Registered /\ Channels # {}
<1>1. \A i \in Registered : Registrations[i] \subseteq Channels /\ Registrations[i] # {}
  BY StoreAssumption DEF Registered, Channels
<1>2. Len(Registrations) \in Nat \ {0} /\ Registered = 1 .. Len(Registrations)
  BY StoreAssumption DEF Registered
<1>3. \A i \in Registered : (i % Len(Registrations)) + 1 \in Registered
  BY <1>2
<1> QED
  BY <1>1, <1>2, <1>3, StoreAssumption DEF Registered

(* The values of an acquisition are integers. *)
LEMMA Readings ==
    /\ Unread \in [Channels -> Int]
    /\ \A b \in SUBSET Channels : Acquisitions(b) \subseteq [Channels -> Int]
<1>1. {0} \cup UNION {Values[c] : c \in Channels} \subseteq Int
  BY StoreAssumption
<1>2. \A b \in SUBSET Channels : Acquisitions(b) \subseteq [Channels -> Int]
  BY <1>1 DEF Acquisitions
<1> QED
  BY <1>2 DEF Unread

(* An invalidation keeps time, version and value. *)
LEMMA OffFields ==
    \A r \in Records : /\ Off(r) \in Records
                       /\ Off(r).at = r.at /\ Off(r).version = r.version
                       /\ Off(r).value = r.value
                       /\ Off(r).valid = FALSE
<1> QED
  BY DEF Records, Off

(* A write changes one channel of the batch, to what is to be written. *)
LEMMA WriteFields ==
    ASSUME TypeOK, Turns, NEW c \in Channels, Write(c)
    PROVE  /\ mutex = "poller" /\ step \in {"publish", "invalidate"}
           /\ c \in batch /\ c \in todo /\ todo' = todo \ {c}
           /\ latest'[c] = New(c) /\ New(c) \in Records
           /\ \A d \in Channels \ {c} : latest'[d] = latest[d]
           /\ latest' \in [Channels -> Records]
           /\ UNCHANGED <<nextVersion, mutex, pollVars, readVars, now>>
<1>1. /\ mutex = "poller" /\ step \in {"publish", "invalidate"}
      /\ c \in batch /\ c \in todo /\ todo' = todo \ {c}
      /\ UNCHANGED <<nextVersion, mutex, pollVars, readVars, now>>
  BY DEF TypeOK, Turns, Write
<1>2. latest[c] \in Records
  BY DEF TypeOK
<1>3. New(c) \in Records
  <2>1. CASE step = "publish"
    <3>1. nextVersion - 1 \in 0 .. MaxVersion /\ stamp \in 0 .. MaxTime /\ reading[c] \in Int
      BY StoreAssumption DEF TypeOK
    <3> QED
      BY <2>1, <3>1 DEF New, Records
  <2>2. CASE step # "publish"
    BY <1>2, <2>2, OffFields DEF New
  <2> QED
    BY <2>1, <2>2
<1>4. latest' = [latest EXCEPT ![c] = New(c)]
  BY <1>2 DEF Write, New, Off
<1>5. latest \in [Channels -> Records]
  BY DEF TypeOK
<1>6. latest' \in [Channels -> Records]
  BY <1>3, <1>4, <1>5
<1>7. latest'[c] = New(c) /\ \A d \in Channels \ {c} : latest'[d] = latest[d]
  BY <1>4, <1>5
<1> QED
  BY <1>1, <1>3, <1>6, <1>7

(* The times and versions of a record are integers. *)
LEMMA TimesAreIntegers == \A r \in Records : r.at \in Int /\ r.version \in Int
<1>1. \A r \in Records : r.at \in 0 .. MaxTime /\ r.version \in 0 .. MaxVersion
  BY DEF Records
<1> QED
  BY <1>1, StoreAssumption

LEMMA InitIInv == Init => IInv
<1> SUFFICES ASSUME Init PROVE IInv
  OBVIOUS
<1>1. Nothing \in [Channels -> Records] /\ \A c \in Channels : Nothing[c].at = 0
  BY StoreAssumption DEF Nothing, Records
<1>2. TypeOK
  BY <1>1, RegistrationFacts, Readings, StoreAssumption DEF Init, TypeOK, Registered
<1> QED
  BY <1>1, <1>2 DEF Init, IInv, Turns, Written, InTime

LEMMA StepTypeOK == IInv /\ [Next]_vars => TypeOK'
<1> SUFFICES ASSUME IInv, [Next]_vars PROVE TypeOK'
  OBVIOUS
<1> USE StoreAssumption
<1>1. CASE Read
  <2>1. batch' \subseteq Channels /\ reading' \in [Channels -> Int]
    BY <1>1, RegistrationFacts, Readings DEF IInv, TypeOK, Read, Matches, Registered
  <2> QED
    BY <1>1, <2>1, RegistrationFacts DEF IInv, TypeOK, Read, readVars, Registered
<1>2. CASE Lock
  BY <1>2 DEF IInv, TypeOK, Turns, Lock, pollVars, readVars
<1>3. CASE Unlock
  BY <1>3, RegistrationFacts, Readings DEF IInv, TypeOK, Unlock, readVars, Registered
<1>4. ASSUME NEW c \in Channels, Write(c) PROVE TypeOK'
  BY <1>4, WriteFields DEF IInv, TypeOK, pollVars, readVars
<1>5. ASSUME NEW c \in Channels, Copy(c) PROVE TypeOK'
  BY <1>5 DEF IInv, TypeOK, Copy, pollVars
<1>6. CASE CopyBegin
  BY <1>6 DEF IInv, TypeOK, CopyBegin, pollVars
<1>7. CASE CopyEnd
  BY <1>7 DEF IInv, TypeOK, CopyEnd, pollVars
<1>8. CASE Judge
  BY <1>8 DEF IInv, TypeOK, Judge, pollVars
<1>9. CASE Tick
  BY <1>9 DEF IInv, TypeOK, Tick, pollVars, readVars
<1>10. CASE UNCHANGED vars
  BY <1>10 DEF IInv, TypeOK, vars, pollVars, readVars
<1> QED
  BY <1>1, <1>2, <1>3, <1>4, <1>5, <1>6, <1>7, <1>8, <1>9, <1>10 DEF Next

LEMMA StepIInv == IInv /\ [Next]_vars => IInv'
<1> SUFFICES ASSUME IInv, [Next]_vars PROVE Turns' /\ Written' /\ InTime'
  BY StepTypeOK DEF IInv
<1> USE StoreAssumption DEF IInv
<1>1. CASE Read
  <2>1. Turns'
    BY <1>1, RegistrationFacts DEF TypeOK, Turns, Read, Matches, readVars, Registered
  <2> QED
    BY <1>1, <2>1 DEF TypeOK, Turns, Written, InTime, Read, readVars
<1>2. CASE Lock
  BY <1>2 DEF TypeOK, Turns, Written, InTime, Lock, pollVars, readVars
<1>3. CASE Unlock
  BY <1>3 DEF TypeOK, Turns, Written, InTime, Unlock, readVars
<1>4. ASSUME NEW c \in Channels, Write(c) PROVE Turns' /\ Written' /\ InTime'
  <2>1. /\ mutex = "poller" /\ step \in {"publish", "invalidate"}
        /\ c \in batch /\ c \in todo /\ todo' = todo \ {c}
        /\ latest'[c] = New(c) /\ New(c) \in Records
        /\ \A d \in Channels \ {c} : latest'[d] = latest[d]
        /\ UNCHANGED <<nextVersion, mutex, pollVars, readVars, now>>
    BY <1>4, WriteFields
  <2>2. Turns'
    BY <2>1 DEF Turns, pollVars, readVars
  <2>3. New(c)' = New(c) /\ \A d \in batch \ todo : New(d)' = New(d)
    BY <2>1 DEF New, Off, pollVars, TypeOK, Turns
  <2>4. Written'
    BY <2>1, <2>3 DEF Written, TypeOK, Turns, pollVars
  <2>5. New(c).at <= now
    BY <2>1, OffFields DEF New, InTime, TypeOK
  <2>6. InTime'
    BY <2>1, <2>5 DEF InTime, pollVars, readVars
  <2> QED
    BY <2>2, <2>4, <2>6
<1>5. ASSUME NEW c \in Channels, Copy(c) PROVE Turns' /\ Written' /\ InTime'
  BY <1>5 DEF TypeOK, Turns, Written, InTime, Copy, pollVars
<1>6. CASE CopyBegin
  BY <1>6 DEF TypeOK, Turns, Written, InTime, CopyBegin, pollVars
<1>7. CASE CopyEnd
  BY <1>7 DEF TypeOK, Turns, Written, InTime, CopyEnd, pollVars
<1>8. CASE Judge
  BY <1>8 DEF TypeOK, Turns, Written, InTime, Judge, pollVars, New
<1>9. CASE Tick
  <2>1. \A c \in Channels : latest[c].at \in Int /\ copied[c].at \in Int
    BY TimesAreIntegers DEF TypeOK
  <2>2. InTime'
    BY <1>9, <2>1 DEF InTime, TypeOK, Tick, pollVars, readVars
  <2> QED
    BY <1>9, <2>2 DEF TypeOK, Turns, Written, Tick, pollVars, readVars, New
<1>10. CASE UNCHANGED vars
  BY <1>10 DEF Turns, Written, InTime, vars, pollVars, readVars, New
<1> QED
  BY <1>1, <1>2, <1>3, <1>4, <1>5, <1>6, <1>7, <1>8, <1>9, <1>10 DEF Next

LEMMA IInvAlways == Spec => []IInv
<1> QED
  BY InitIInv, StepIInv, PTL DEF Spec

(* The store, the copies and the poller's place keep their types. *)
THEOREM StoreTypeCorrect == Spec => []TypeOK
<1>1. IInv => TypeOK
  BY DEF IInv
<1> QED
  BY <1>1, IInvAlways, PTL

-----------------------------------------------------------------------------
(* A producer marked as failed has no valid record, except while its own   *)
(* publication is on the way, which ends with the mark removed.            *)
FailedIsOff ==
    \A i \in Registered : failed[i] =>
        \/ \A c \in Registrations[i] : ~latest[c].valid
        \/ i = producer /\ mutex = "poller" /\ step = "publish"

LEMMA InitFailedIsOff == Init => FailedIsOff
<1> SUFFICES ASSUME Init PROVE FailedIsOff
  OBVIOUS
<1>1. \A c \in Channels : latest[c].valid = FALSE
  BY DEF Init, Nothing
<1> QED
  BY <1>1, RegistrationFacts DEF FailedIsOff

LEMMA StepFailedIsOff == IInv /\ FailedIsOff /\ [Next]_vars => FailedIsOff'
<1> SUFFICES ASSUME IInv, FailedIsOff, [Next]_vars PROVE FailedIsOff'
  OBVIOUS
<1>1. CASE Read
  BY <1>1 DEF IInv, Turns, FailedIsOff, Read
<1>2. CASE Lock
  BY <1>2 DEF FailedIsOff, Lock, pollVars
<1>3. CASE Unlock
  <2>1. /\ \A i \in Registered \ {producer} : failed'[i] = failed[i]
        /\ failed'[producer] <=> step = "invalidate"
        /\ latest' = latest
    BY <1>3 DEF IInv, TypeOK, Unlock, Registered
  <2>2. CASE step = "invalidate"
    <3>1. \A c \in Registrations[producer] : latest[c] = Off(latest[c]) /\ latest[c] \in Records
      BY <1>3, <2>2, RegistrationFacts DEF IInv, TypeOK, Turns, Written, Unlock, New, Registered
    <3>2. \A c \in Registrations[producer] : ~latest[c].valid
      BY <3>1, OffFields
    <3> QED
      BY <2>1, <2>2, <3>2 DEF FailedIsOff
  <2> QED
    BY <2>1, <2>2 DEF FailedIsOff
<1>4. ASSUME NEW c \in Channels, Write(c) PROVE FailedIsOff'
  <2>1. /\ mutex = "poller" /\ step \in {"publish", "invalidate"} /\ c \in Registrations[producer]
        /\ latest'[c] = New(c) /\ latest[c] \in Records
        /\ \A d \in Channels \ {c} : latest'[d] = latest[d]
        /\ mutex' = mutex /\ step' = step /\ producer' = producer /\ failed' = failed
    BY <1>4, WriteFields DEF IInv, TypeOK, Turns, pollVars
  <2>2. step = "invalidate" => ~New(c).valid
    BY <2>1, OffFields DEF New
  <2>3. \A i \in Registered \ {producer} : c \notin Registrations[i]
    BY <2>1, RegistrationFacts DEF IInv, TypeOK, Registered
  <2> SUFFICES ASSUME NEW i \in Registered, failed[i],
                      ~(i = producer /\ mutex = "poller" /\ step = "publish"),
                      NEW d \in Registrations[i]
               PROVE  ~latest'[d].valid
    BY <2>1 DEF FailedIsOff
  <2>4. ~latest[d].valid /\ d \in Channels
    BY RegistrationFacts DEF FailedIsOff
  <2>5. CASE d = c
    BY <2>1, <2>2, <2>3, <2>5
  <2> QED
    BY <2>1, <2>4, <2>5
<1>5. ASSUME NEW c \in Channels, Copy(c) PROVE FailedIsOff'
  BY <1>5 DEF FailedIsOff, Copy, pollVars
<1>6. CASE CopyBegin
  BY <1>6 DEF FailedIsOff, CopyBegin, pollVars
<1>7. CASE CopyEnd
  BY <1>7 DEF FailedIsOff, CopyEnd, pollVars
<1>8. CASE Judge
  BY <1>8 DEF FailedIsOff, Judge, pollVars
<1>9. CASE Tick
  BY <1>9 DEF FailedIsOff, Tick, pollVars
<1>10. CASE UNCHANGED vars
  BY <1>10 DEF FailedIsOff, vars, pollVars
<1> QED
  BY <1>1, <1>2, <1>3, <1>4, <1>5, <1>6, <1>7, <1>8, <1>9, <1>10 DEF Next

(* No value outlives a failure of the sensor that gave it: between two     *)
(* reads a producer marked as failed has no valid record in the store.     *)
THEOREM FailuresInvalidate == Spec => []FailFast
<1>1. IInv /\ FailedIsOff => FailFast
  BY DEF IInv, Turns, FailedIsOff, FailFast, Registered
<1> QED
  BY <1>1, IInvAlways, InitFailedIsOff, StepFailedIsOff, PTL DEF Spec

-----------------------------------------------------------------------------
(* A division towards zero leaves a remainder of the sign of the value. *)
LEMMA Division ==
    ASSUME NEW value \in Int, NEW divisor \in Nat \ {0}
    PROVE  /\ Quotient(value, divisor) \in Int /\ Remainder(value, divisor) \in Int
           /\ value = divisor * Quotient(value, divisor) + Remainder(value, divisor)
           /\ value >= 0 => Remainder(value, divisor) \in 0 .. divisor - 1
           /\ value < 0 => Remainder(value, divisor) \in 1 - divisor .. 0
<1>1. \A n \in Nat : (n \div divisor) \in Int /\ n - divisor * (n \div divisor) \in 0 .. divisor - 1
  OBVIOUS
<1>2. CASE value >= 0
  BY <1>1, <1>2 DEF Quotient, Remainder
<1>3. CASE value < 0
  <2>1. -value \in Nat
    BY <1>3
  <2>2. PICK q \in Int : q = (-value) \div divisor /\ -value - divisor * q \in 0 .. divisor - 1
    BY <1>1, <2>1
  <2>3. Quotient(value, divisor) = -q
    BY <1>3, <2>2 DEF Quotient
  <2>4. divisor * (-q) = -(divisor * q) /\ divisor * q \in Int
    BY <2>2
  <2> QED
    BY <1>3, <2>2, <2>3, <2>4 DEF Remainder
<1> QED
  BY <1>2, <1>3

(* A measurement is given in the nearest unit: half a unit is rounded away *)
(* from zero, for temperatures below zero as for those above.  The divisor *)
(* is even (100 and 10 in the code); an odd one would be rounded wrongly.  *)
THEOREM ConversionRounds ==
    ASSUME NEW value \in Int, NEW divisor \in Nat \ {0}, divisor % 2 = 0
    PROVE  NearestAwayFromZero(value, divisor, ConvertedUnits(value, divisor))
<1> DEFINE q == Quotient(value, divisor)
           r == Remainder(value, divisor)
           u == ConvertedUnits(value, divisor)
<1>1. /\ q \in Int /\ r \in Int /\ value = divisor * q + r
      /\ value >= 0 => r \in 0 .. divisor - 1
      /\ value < 0 => r \in 1 - divisor .. 0
  BY Division
<1>2. PICK half \in Nat \ {0} : half = divisor \div 2 /\ divisor = 2 * half
  OBVIOUS
<1>3. u = IF r >= half THEN q + 1 ELSE IF r <= -half THEN q - 1 ELSE q
  BY <1>2 DEF ConvertedUnits
<1> HIDE DEF q, r, u
<1>4. divisor * (q + 1) = divisor * q + divisor /\ divisor * (q - 1) = divisor * q - divisor
      /\ divisor * q \in Int
  BY <1>1
<1>5. value - divisor * u = IF r >= half THEN r - divisor ELSE IF r <= -half THEN r + divisor ELSE r
  BY <1>1, <1>3, <1>4
<1> QED
  BY <1>1, <1>2, <1>5 DEF NearestAwayFromZero, u

-----------------------------------------------------------------------------
(* A verdict was decided on the copy, which is not from the future. *)
Usable(c) == Fresh(copied[c], current) /\ Convertible(copied[c].value, Divisor[c])

DecidedOnCopy ==
    verdict # "none" =>
        /\ \A c \in Channels : copied[c].at <= current
        /\ (verdict = "refused") <=> ~\A c \in Channels : Usable(c)

LEMMA StepDecidedOnCopy == IInv /\ DecidedOnCopy /\ [Next]_vars => DecidedOnCopy'
<1> SUFFICES ASSUME IInv, DecidedOnCopy, [Next]_vars PROVE DecidedOnCopy'
  OBVIOUS
<1>1. CASE Read \/ Lock \/ Unlock \/ Tick
  BY <1>1 DEF DecidedOnCopy, Usable, Fresh, Read, Lock, Unlock, Tick, readVars
<1>2. ASSUME NEW c \in Channels, Write(c) PROVE DecidedOnCopy'
  BY <1>2 DEF DecidedOnCopy, Usable, Fresh, Write, readVars
<1>3. ASSUME NEW c \in Channels, Copy(c) PROVE DecidedOnCopy'
  BY <1>3 DEF IInv, TypeOK, Turns, DecidedOnCopy, Copy
<1>4. CASE CopyBegin \/ CopyEnd
  BY <1>4 DEF IInv, Turns, DecidedOnCopy, CopyBegin, CopyEnd
<1>5. CASE Judge
  <2>1. \A c \in Channels : copied'[c].at <= current'
    BY <1>5 DEF IInv, InTime, Judge
  <2>2. (verdict' = "refused") <=> ~\A c \in Channels : Usable(c)'
    BY <1>5 DEF Judge, Usable, Fresh
  <2> QED
    BY <2>1, <2>2 DEF DecidedOnCopy
<1>6. CASE UNCHANGED vars
  BY <1>6 DEF DecidedOnCopy, Usable, Fresh, vars, readVars
<1> QED
  BY <1>1, <1>2, <1>3, <1>4, <1>5, <1>6 DEF Next

(* Of two different numbers of units, only one is the nearest to a value. *)
LEMMA OneIsNearest ==
    ASSUME NEW value \in Int, NEW divisor \in Nat \ {0}, NEW u \in Int, NEW w \in Int,
           NearestAwayFromZero(value, divisor, u), NearestAwayFromZero(value, divisor, w)
    PROVE  u = w
<1>1. \A i, j \in Int : i > j => divisor * i >= divisor * j + divisor
  <2> SUFFICES ASSUME NEW i \in Int, NEW j \in Int, i > j
               PROVE  divisor * i >= divisor * j + divisor
    OBVIOUS
  <2>1. PICK k \in Nat : i = j + 1 + k
    <3>1. i - j - 1 \in Nat /\ i = j + 1 + (i - j - 1)
      OBVIOUS
    <3> QED
      BY <3>1
  <2>2. divisor * i = divisor * j + divisor + divisor * k /\ divisor * k \in Nat
        /\ divisor * j \in Int
    BY <2>1
  <2> QED
    BY <2>2
<1>2. divisor * u \in Int /\ divisor * w \in Int
  OBVIOUS
<1>3. ~(u > w) /\ ~(w > u)
  BY <1>1, <1>2 DEF NearestAwayFromZero
<1> QED
  BY <1>3

(* What can be converted is what some number of the API is the nearest to. *)
LEMMA ConvertibleIsRepresentable ==
    ASSUME NEW value \in Int, NEW divisor \in Nat \ {0}, divisor % 2 = 0
    PROVE  Convertible(value, divisor) <=> Representable(value, divisor)
<1>1. ConvertedUnits(value, divisor) \in Int
  <2>1. PICK q \in Int : q = Quotient(value, divisor)
    BY Division
  <2> QED
    BY <2>1 DEF ConvertedUnits
<1>2. NearestAwayFromZero(value, divisor, ConvertedUnits(value, divisor))
  BY ConversionRounds
<1>3. \A units \in Lowest .. Highest :
          NearestAwayFromZero(value, divisor, units) => units = ConvertedUnits(value, divisor)
  BY <1>1, <1>2, OneIsNearest, StoreAssumption
<1> QED
  BY <1>2, <1>3 DEF Convertible, Representable

(* A copy of valid records is refused exactly when one of them is too old   *)
(* or cannot be given in the units of the API: the clock, read after the    *)
(* copy, is never behind a record, and the range is checked on the rounded  *)
(* value.                                                                   *)
THEOREM RefusalsHaveACause == Spec => []RefusedForCause
<1>1. IInv /\ DecidedOnCopy => RefusedForCause
  <2> SUFFICES ASSUME IInv, DecidedOnCopy, verdict # "none",
                      \A c \in Channels : copied[c].valid
               PROVE  verdict = "refused"
                        <=> \E c \in Channels :
                              \/ current - copied[c].at > MaxAge
                              \/ ~Representable(copied[c].value, Divisor[c])
    BY DEF RefusedForCause
  <2>1. ASSUME NEW c \in Channels
        PROVE  /\ Fresh(copied[c], current) <=> ~(current - copied[c].at > MaxAge)
               /\ Convertible(copied[c].value, Divisor[c])
                    <=> Representable(copied[c].value, Divisor[c])
    <3>1. /\ copied[c].at \in Nat /\ current \in Nat /\ MaxAge \in Nat
          /\ copied[c].value \in Int /\ copied[c].valid
          /\ copied[c].at <= current
      BY StoreAssumption DEF IInv, TypeOK, Records, DecidedOnCopy
    <3>2. Divisor[c] \in Nat \ {0} /\ Divisor[c] % 2 = 0
      BY StoreAssumption
    <3>3. Fresh(copied[c], current) <=> ~(current - copied[c].at > MaxAge)
      BY <3>1 DEF Fresh
    <3> QED
      BY <3>1, <3>2, <3>3, ConvertibleIsRepresentable
  <2>2. \A c \in Channels :
            Usable(c) <=> /\ ~(current - copied[c].at > MaxAge)
                          /\ Representable(copied[c].value, Divisor[c])
    BY <2>1 DEF Usable
  <2> QED
    BY <2>2 DEF DecidedOnCopy
<1>2. Init => DecidedOnCopy
  BY DEF Init, DecidedOnCopy
<1> QED
  BY <1>1, <1>2, IInvAlways, StepDecidedOnCopy, PTL DEF Spec

-----------------------------------------------------------------------------
(* Versions: each publication draws the next one, and from its end on, the *)
(* last to be drawn is in the store.                                       *)
Publishing == mutex = "poller" /\ step = "publish"

Versions ==
    /\ \A c \in Channels : latest[c].version < nextVersion /\ copied[c].version < nextVersion
    /\ Publishing => \A c \in Channels : copied[c].version < nextVersion - 1
    /\ ~Publishing => \E c \in Channels : latest[c].version = nextVersion - 1

(* A copy with a newest record, as a store that is not being written to. *)
HasNewest(records) ==
    \E c \in Channels : \A d \in Channels : records[d].version <= records[c].version

(* What differs from an earlier copy is newer than all of it. *)
Follows(old, new) ==
    \A c \in Channels :
        \/ new[c].version = old[c].version
        \/ \A d \in Channels : old[d].version < new[c].version

InOrder ==
    /\ HasNewest(previous)
    /\ reader # "copy" => HasNewest(copied) /\ Follows(copied, latest)
    /\ reader = "copy" => Follows(previous, latest)
                          /\ \A c \in Channels \ todo : copied[c] = latest[c]
    /\ reader = "judge" => Follows(previous, copied)

VInv == Versions /\ InOrder

LEMMA VersionsAreIntegers ==
    ASSUME TypeOK
    PROVE  /\ nextVersion \in Int
           /\ \A c \in Channels : /\ latest[c].version \in Int
                                  /\ copied[c].version \in Int
                                  /\ previous[c].version \in Int
<1>1. /\ nextVersion \in 1 .. MaxVersion + 1
      /\ \A c \in Channels : latest[c] \in Records /\ copied[c] \in Records
                             /\ previous[c] \in Records
  BY DEF TypeOK
<1> QED
  BY <1>1, TimesAreIntegers

LEMMA InitVInv == Init => VInv
<1> SUFFICES ASSUME Init PROVE VInv
  OBVIOUS
<1>1. \A c \in Channels : Nothing[c].version = 0
  BY DEF Nothing
<1>2. Versions
  BY <1>1, RegistrationFacts DEF Init, Versions, Publishing
<1>3. InOrder
  BY <1>1, RegistrationFacts DEF Init, InOrder, HasNewest, Follows
<1> QED
  BY <1>2, <1>3 DEF VInv

(* What a write does to the versions. *)
LEMMA WriteVersions ==
    ASSUME IInv, NEW c \in Channels, Write(c)
    PROVE  /\ latest'[c].version = IF Publishing THEN nextVersion - 1 ELSE latest[c].version
           /\ \A d \in Channels \ {c} : latest'[d] = latest[d]
           /\ mutex = "poller" /\ Publishing' = Publishing
           /\ UNCHANGED <<nextVersion, readVars>>
<1>1. latest[c] \in Records
  BY DEF IInv, TypeOK
<1> QED
  BY <1>1, WriteFields, OffFields DEF IInv, Turns, New, Publishing, pollVars

LEMMA StepVersions == IInv /\ Versions /\ [Next]_vars => Versions'
<1> SUFFICES ASSUME IInv, Versions, [Next]_vars PROVE Versions'
  OBVIOUS
<1> USE VersionsAreIntegers DEF IInv
<1>1. CASE Read
  BY <1>1 DEF Turns, Versions, Publishing, Read, readVars
<1>2. CASE Lock
  BY <1>2 DEF Turns, Versions, Publishing, Lock, pollVars, readVars
<1>3. CASE Unlock
  <2>1. /\ latest' = latest /\ copied' = copied /\ nextVersion' = nextVersion
        /\ ~Publishing' /\ todo = {} /\ mutex = "poller"
    BY <1>3 DEF Unlock, Publishing, readVars
  <2>2. CASE Publishing
    <3>1. PICK c \in batch : TRUE
      BY <2>2 DEF Turns, Publishing
    <3>2. c \in Channels /\ latest[c] = New(c)
      BY <2>1, <3>1 DEF TypeOK, Written
    <3>3. New(c).version = nextVersion - 1
      BY <2>2 DEF New, Publishing
    <3> QED
      BY <2>1, <3>2, <3>3 DEF Versions
  <2>3. CASE ~Publishing
    BY <2>1, <2>3 DEF Versions
  <2> QED
    BY <2>2, <2>3
<1>4. ASSUME NEW c \in Channels, Write(c) PROVE Versions'
  <2>1. /\ latest'[c].version = IF Publishing THEN nextVersion - 1 ELSE latest[c].version
        /\ \A d \in Channels \ {c} : latest'[d] = latest[d]
        /\ Publishing' = Publishing /\ nextVersion' = nextVersion /\ copied' = copied
    BY <1>4, WriteVersions DEF readVars
  <2>2. CASE Publishing
    BY <2>1, <2>2 DEF Versions
  <2>3. CASE ~Publishing
    <3>1. \A d \in Channels : latest'[d].version = latest[d].version
      BY <2>1, <2>3
    <3> QED
      BY <2>1, <2>3, <3>1 DEF Versions
  <2> QED
    BY <2>2, <2>3
<1>5. ASSUME NEW c \in Channels, Copy(c) PROVE Versions'
  <2>1. \A d \in Channels : copied'[d] \in {copied[d], latest[d]}
    BY <1>5 DEF Copy, TypeOK
  <2>2. ~Publishing /\ ~Publishing' /\ latest' = latest /\ nextVersion' = nextVersion
    BY <1>5 DEF Copy, Publishing, pollVars
  <2> QED
    BY <2>1, <2>2 DEF Versions
<1>6. CASE CopyBegin
  BY <1>6 DEF Versions, Publishing, CopyBegin, pollVars
<1>7. CASE CopyEnd
  BY <1>7 DEF Versions, Publishing, CopyEnd, pollVars
<1>8. CASE Judge
  BY <1>8 DEF Versions, Publishing, Judge, pollVars
<1>9. CASE Tick
  BY <1>9 DEF Versions, Publishing, Tick, pollVars, readVars
<1>10. CASE UNCHANGED vars
  BY <1>10 DEF Versions, Publishing, vars, pollVars, readVars
<1> QED
  BY <1>1, <1>2, <1>3, <1>4, <1>5, <1>6, <1>7, <1>8, <1>9, <1>10 DEF Next

LEMMA StepInOrder == IInv /\ VInv /\ [Next]_vars => InOrder'
<1> SUFFICES ASSUME IInv, VInv, [Next]_vars PROVE InOrder'
  OBVIOUS
<1> USE DEF IInv, VInv
<1>1. CASE Read
  BY <1>1 DEF InOrder, HasNewest, Follows, Read, readVars
<1>2. CASE Lock
  BY <1>2 DEF Turns, InOrder, HasNewest, Follows, Lock, readVars
<1>3. CASE Unlock
  BY <1>3 DEF InOrder, HasNewest, Follows, Unlock, readVars
<1>4. ASSUME NEW c \in Channels, Write(c) PROVE InOrder'
  <2>1. /\ latest'[c].version = IF Publishing THEN nextVersion - 1 ELSE latest[c].version
        /\ \A d \in Channels \ {c} : latest'[d] = latest[d]
        /\ mutex = "poller" /\ UNCHANGED readVars
    BY <1>4, WriteVersions
  <2>2. reader # "copy" /\ reader' = reader /\ copied' = copied /\ previous' = previous
    BY <2>1 DEF Turns, readVars
  <2>3. Follows(copied, latest)'
    <3>1. Publishing => \A d \in Channels : copied[d].version < latest'[c].version
      BY <2>1 DEF Versions
    <3> QED
      BY <2>1, <2>2, <3>1 DEF InOrder, Follows
  <2> QED
    BY <2>2, <2>3 DEF InOrder, HasNewest, Follows
<1>5. ASSUME NEW c \in Channels, Copy(c) PROVE InOrder'
  <2>1. /\ reader = "copy" /\ reader' = reader /\ latest' = latest /\ previous' = previous
        /\ todo' = todo \ {c}
        /\ copied' = [copied EXCEPT ![c] = latest[c]]
    BY <1>5 DEF Turns, Copy
  <2>2. \A d \in Channels \ todo' : copied'[d] = latest'[d]
    BY <2>1 DEF InOrder, TypeOK
  <2> QED
    BY <2>1, <2>2 DEF InOrder, HasNewest, Follows
<1>6. CASE CopyBegin
  BY <1>6 DEF InOrder, HasNewest, Follows, CopyBegin
<1>7. CASE CopyEnd
  <2>1. /\ reader = "copy" /\ reader' = "judge" /\ todo = {}
        /\ latest' = latest /\ copied' = copied /\ previous' = previous
    BY <1>7 DEF Turns, CopyEnd
  <2>2. \A c \in Channels : copied[c] = latest[c]
    BY <2>1 DEF InOrder
  <2>3. HasNewest(copied)
    <3>1. PICK c \in Channels : latest[c].version = nextVersion - 1
      BY <1>7 DEF CopyEnd, Versions, Publishing
    <3>2. \A d \in Channels : latest[d].version <= latest[c].version
      BY <3>1, VersionsAreIntegers DEF Versions
    <3> QED
      BY <2>2, <3>2 DEF HasNewest
  <2>4. Follows(copied, latest) /\ Follows(previous, copied)
    BY <2>1, <2>2 DEF InOrder, Follows
  <2> QED
    BY <2>1, <2>3, <2>4 DEF InOrder, HasNewest, Follows
<1>8. CASE Judge
  BY <1>8 DEF InOrder, HasNewest, Follows, Judge
<1>9. CASE Tick
  BY <1>9 DEF InOrder, HasNewest, Follows, Tick, readVars
<1>10. CASE UNCHANGED vars
  BY <1>10 DEF InOrder, HasNewest, Follows, vars, readVars
<1> QED
  BY <1>1, <1>2, <1>3, <1>4, <1>5, <1>6, <1>7, <1>8, <1>9, <1>10 DEF Next

(* The greatest of a set of integers, when there is one. *)
LEMMA MaxIsGreatest ==
    ASSUME NEW S \in SUBSET Int, NEW m \in S, \A y \in S : y <= m
    PROVE  Max(S) = m
<1> DEFINE Greatest(x) == x \in S /\ \A y \in S : x >= y
<1>1. Greatest(m)
  OBVIOUS
<1>2. Greatest(Max(S))
  BY <1>1 DEF Max
<1>3. Max(S) \in Int /\ m \in Int /\ Max(S) >= m /\ m >= Max(S)
  BY <1>1, <1>2
<1> QED
  BY <1>3

LEMMA CountIsNewest ==
    ASSUME NEW records, \A c \in Channels : records[c].version \in Int, HasNewest(records)
    PROVE  \E c \in Channels : /\ UpdateCount(records) = records[c].version
                               /\ \A d \in Channels : records[d].version <= records[c].version
<1> DEFINE S == {records[c].version : c \in Channels}
<1>1. PICK c \in Channels : \A d \in Channels : records[d].version <= records[c].version
  BY DEF HasNewest
<1>2. S \in SUBSET Int /\ records[c].version \in S /\ \A y \in S : y <= records[c].version
  BY <1>1
<1>3. Max(S) = records[c].version
  BY <1>2, MaxIsGreatest
<1> QED
  BY <1>1, <1>3 DEF UpdateCount

(* The update count of a consumer's copy moves exactly when a channel was  *)
(* published since its last copy, and never backwards.                     *)
THEOREM CountNeverMisses == Spec => []CountTellsNews
<1>1. IInv /\ VInv => CountTellsNews
  <2> SUFFICES ASSUME IInv, VInv, reader = "judge" PROVE CountTellsNews
    BY DEF CountTellsNews
  <2>1. HasNewest(previous) /\ HasNewest(copied) /\ Follows(previous, copied)
    BY DEF VInv, InOrder
  <2>2. \A c \in Channels : copied[c].version \in Int /\ previous[c].version \in Int
    BY VersionsAreIntegers DEF IInv
  <2>3. PICK p \in Channels :
          /\ UpdateCount(previous) = previous[p].version
          /\ \A d \in Channels : previous[d].version <= previous[p].version
    BY <2>1, <2>2, CountIsNewest
  <2>4. PICK n \in Channels :
          /\ UpdateCount(copied) = copied[n].version
          /\ \A d \in Channels : copied[d].version <= copied[n].version
    BY <2>1, <2>2, CountIsNewest
  <2>5. copied[n].version >= previous[p].version
    <3>1. copied[p].version >= previous[p].version
      BY <2>1, <2>2 DEF Follows
    <3> QED
      BY <2>2, <2>4, <3>1
  <2>6. ASSUME NEW c \in Channels, copied[c].version # previous[c].version
        PROVE  copied[n].version > previous[p].version
    <3>1. copied[c].version > previous[p].version
      BY <2>1, <2>6 DEF Follows
    <3> QED
      BY <2>2, <2>4, <3>1
  <2>7. ASSUME copied[n].version > previous[p].version
        PROVE  copied[n].version # previous[n].version
    BY <2>2, <2>3, <2>7
  <2> QED
    BY <2>3, <2>4, <2>5, <2>6, <2>7 DEF CountTellsNews
<1>2. IInv /\ VInv /\ [Next]_vars => VInv'
  BY StepVersions, StepInOrder DEF VInv
<1> QED
  BY <1>1, <1>2, IInvAlways, InitVInv, PTL DEF Spec

-----------------------------------------------------------------------------
(* Coherence, for producers whose batches are all of their channels. *)
FullBatches ==
    \A i \in Registered : \A b \in Batches[i] :
        b # {} /\ b \subseteq Registrations[i] => b = Registrations[i]

(* The channels of a producer agree, or are being made to. *)
Agreeing ==
    \A i \in Registered : \A c, d \in Registrations[i] :
        \/ OneAcquisition(latest[c], latest[d])
        \/ i = producer /\ mutex = "poller" /\ OneAcquisition(New(c), New(d))

Coherent ==
    /\ step # "read" => batch = Registrations[producer]
    /\ Agreeing
    /\ reader = "copy" => \A c \in Channels \ todo : copied[c] = latest[c]
    /\ reader = "judge" => \A i \in Registered : \A c, d \in Registrations[i] :
                               OneAcquisition(copied[c], copied[d])

LEMMA OffTwice == \A r \in Records : Off(Off(r)) = Off(r)
<1> QED
  BY DEF Records, Off

LEMMA InitCoherent == Init => Coherent
<1> SUFFICES ASSUME Init PROVE Coherent
  OBVIOUS
<1>1. \A c, d \in Channels : OneAcquisition(Nothing[c], Nothing[d])
  BY DEF Nothing, OneAcquisition
<1> QED
  BY <1>1, RegistrationFacts DEF Init, Coherent, Agreeing

(* What the poller writes to the channels of a producer agrees. *)
LEMMA NewAgrees ==
    ASSUME IInv, Coherent, step # "read",
           NEW d \in Registrations[producer], NEW e \in Registrations[producer]
    PROVE  OneAcquisition(New(d), New(e))
<1>1. CASE step = "publish"
  BY <1>1 DEF New, OneAcquisition
<1>2. CASE step # "publish"
  <2>1. producer \in Registered /\ latest[d] \in Records /\ latest[e] \in Records
    BY RegistrationFacts DEF IInv, TypeOK, Registered
  <2>2. New(d) = Off(latest[d]) /\ New(e) = Off(latest[e])
    BY <1>2 DEF New
  <2>3. OneAcquisition(latest[d], latest[e]) \/ OneAcquisition(New(d), New(e))
    BY <2>1 DEF Coherent, Agreeing
  <2> QED
    BY <2>1, <2>2, <2>3, OffFields DEF OneAcquisition
<1> QED
  BY <1>1, <1>2

LEMMA WriteAgrees ==
    ASSUME IInv, Coherent, NEW c \in Channels, Write(c)
    PROVE  Agreeing'
<1>1. /\ mutex = "poller" /\ step \in {"publish", "invalidate"} /\ c \in Registrations[producer]
      /\ latest'[c] = New(c)
      /\ \A d \in Channels \ {c} : latest'[d] = latest[d]
      /\ mutex' = mutex /\ step' = step /\ producer' = producer
      /\ stamp' = stamp /\ nextVersion' = nextVersion /\ reading' = reading
  BY WriteFields DEF IInv, TypeOK, Turns, pollVars
<1>2. \A d \in Channels : New(d)' = New(d)
  <2>1. CASE step = "publish"
    BY <1>1, <2>1 DEF New
  <2>2. CASE step # "publish"
    <3>1. \A d \in Channels \ {c} : New(d)' = New(d)
      BY <1>1, <2>2 DEF New
    <3>2. New(c)' = Off(Off(latest[c])) /\ New(c) = Off(latest[c]) /\ latest[c] \in Records
      BY <1>1, <2>2 DEF New, IInv, TypeOK
    <3> QED
      BY <3>1, <3>2, OffTwice
  <2> QED
    BY <2>1, <2>2
<1>3. \A d, e \in Registrations[producer] : OneAcquisition(New(d), New(e))
  BY <1>1, NewAgrees
<1>4. \A i \in Registered \ {producer} : \A d \in Registrations[i] : latest'[d] = latest[d]
  BY <1>1, RegistrationFacts DEF IInv, TypeOK, Registered
<1>5. ASSUME NEW i \in Registered, NEW d \in Registrations[i], NEW e \in Registrations[i]
      PROVE  \/ OneAcquisition(latest'[d], latest'[e])
             \/ i = producer' /\ mutex' = "poller" /\ OneAcquisition(New(d)', New(e)')
  <2>1. CASE i = producer
    BY <1>1, <1>2, <1>3, <2>1, RegistrationFacts
  <2>2. CASE i # producer
    BY <1>4, <2>2 DEF Coherent, Agreeing
  <2> QED
    BY <2>1, <2>2
<1> QED
  BY <1>5 DEF Agreeing, OneAcquisition

LEMMA StepCoherent == FullBatches => (IInv /\ Coherent /\ [Next]_vars => Coherent')
<1> SUFFICES ASSUME FullBatches, IInv, Coherent, [Next]_vars PROVE Coherent'
  OBVIOUS
<1> USE DEF IInv
<1>1. CASE Read
  <2>1. batch' = Registrations[producer] /\ mutex # "poller" /\ mutex' = mutex
    BY <1>1 DEF Read, Matches, FullBatches, TypeOK, Turns, Registered
  <2> QED
    BY <1>1, <2>1 DEF Coherent, Agreeing, Read, readVars
<1>2. CASE Lock
  BY <1>2 DEF Coherent, Agreeing, Turns, Lock, pollVars, readVars
<1>3. CASE Unlock
  <2>1. \A c, d \in Registrations[producer] : OneAcquisition(latest[c], latest[d])
    <3>1. \A c \in Registrations[producer] : latest[c] = New(c)
      BY <1>3 DEF Unlock, Turns, Written, Coherent
    <3>2. step # "read"
      BY <1>3 DEF Unlock, Turns
    <3> QED
      BY <3>1, <3>2, NewAgrees
  <2>2. Agreeing'
    BY <1>3, <2>1 DEF Unlock, Coherent, Agreeing
  <2> QED
    BY <1>3, <2>2 DEF Coherent, Unlock, readVars
<1>4. ASSUME NEW c \in Channels, Write(c) PROVE Coherent'
  <2>1. UNCHANGED <<pollVars, readVars>> /\ reader # "copy"
    BY <1>4, WriteFields DEF Turns
  <2> QED
    BY <1>4, <2>1, WriteAgrees DEF Coherent, pollVars, readVars
<1>5. ASSUME NEW c \in Channels, Copy(c) PROVE Coherent'
  <2>1. /\ reader = "copy" /\ reader' = reader /\ todo' = todo \ {c}
        /\ mutex = "reader" /\ mutex' = mutex
        /\ latest' = latest /\ copied' = [copied EXCEPT ![c] = latest[c]]
    BY <1>5 DEF Turns, Copy
  <2>2. \A d \in Channels \ todo' : copied'[d] = latest'[d]
    BY <2>1 DEF Coherent, TypeOK
  <2> QED
    BY <1>5, <2>1, <2>2 DEF Coherent, Agreeing, Copy, pollVars
<1>6. CASE CopyBegin
  BY <1>6 DEF Coherent, Agreeing, CopyBegin, pollVars
<1>7. CASE CopyEnd
  <2>1. \A c \in Channels : copied[c] = latest[c]
    BY <1>7 DEF Turns, Coherent, CopyEnd
  <2>2. \A i \in Registered : \A c, d \in Registrations[i] : OneAcquisition(latest[c], latest[d])
    BY <1>7 DEF Coherent, Agreeing, CopyEnd
  <2> QED
    BY <1>7, <2>1, <2>2, RegistrationFacts DEF Coherent, Agreeing, CopyEnd, pollVars
<1>8. CASE Judge
  BY <1>8 DEF Coherent, Agreeing, New, Judge, pollVars
<1>9. CASE Tick
  BY <1>9 DEF Coherent, Agreeing, New, Tick, pollVars, readVars
<1>10. CASE UNCHANGED vars
  BY <1>10 DEF Coherent, Agreeing, New, vars, pollVars, readVars
<1> QED
  BY <1>1, <1>2, <1>3, <1>4, <1>5, <1>6, <1>7, <1>8, <1>9, <1>10 DEF Next

(* A multi-channel reader sees one coherent snapshot, whatever it crosses: *)
(* the channels of a producer that fills all of them always come from one  *)
(* acquisition.                                                            *)
THEOREM SnapshotsAreCoherent == FullBatches => (Spec => []CoherentSnapshot)
<1> SUFFICES ASSUME FullBatches PROVE Spec => []CoherentSnapshot
  OBVIOUS
<1>1. Coherent => CoherentSnapshot
  BY DEF Coherent, CoherentSnapshot, Registered
<1>2. IInv /\ Coherent /\ [Next]_vars => Coherent'
  BY StepCoherent
<1> QED
  BY <1>1, <1>2, IInvAlways, InitCoherent, PTL DEF Spec
=============================================================================
