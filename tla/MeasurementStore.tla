-------------------------- MODULE MeasurementStore --------------------------
(***************************************************************************)
(* The latest measurements and how they get there: poll_once() publishes   *)
(* or invalidates the channels of one producer after the other, and a      *)
(* consumer on another task copies all channels and judges their age       *)
(* (environment_measurements_get_latest, _is_fresh, _get_update_count).    *)
(*                                                                         *)
(* Records are written and copied channel by channel under the store's     *)
(* mutex.  An acquisition is told apart by its version, its values are     *)
(* integers in the stored unit, and the clock is the millisecond timer.    *)
(* Names such as MatchesAnything, before the definition they vary, are     *)
(* plausible slips; README.md says which property each one breaks.         *)
(***************************************************************************)
EXTENDS Integers, Sequences, FiniteSetsExt

CONSTANTS Registrations, \* the channels of each producer, in polling order
          Batches,       \* the batches, as sets of channels, that the read
                         \* of each producer may return
          Values,        \* the values that each channel may be read with
          Divisor,       \* kMilliToDeci or kPascalsToDeciHectopascals, per channel
          Lowest,        \* the smallest and the greatest number of the units
          Highest,       \* of the public API: INT32_MIN and INT32_MAX
          MaxAge,        \* kStaleTimeoutMs
          MaxVersion,    \* bound: publications
          MaxTime        \* bound: the clock

Channels == UNION {Registrations[i] : i \in DOMAIN Registrations}

ASSUME StoreAssumption ==
    /\ Registrations \in Seq(SUBSET Channels) /\ Registrations # <<>>
    /\ \A i \in DOMAIN Registrations : Registrations[i] # {}
    /\ \A i, j \in DOMAIN Registrations :
          i # j => Registrations[i] \cap Registrations[j] = {}
    /\ DOMAIN Batches = DOMAIN Registrations
    /\ \A i \in DOMAIN Batches : Batches[i] \subseteq SUBSET Channels
    /\ DOMAIN Values = Channels /\ DOMAIN Divisor = Channels
    /\ \A c \in Channels : /\ Values[c] \subseteq Int
                            /\ Divisor[c] \in Nat \ {0} /\ Divisor[c] % 2 = 0
    /\ Lowest \in Int /\ Highest \in Int
    /\ MaxAge \in Nat /\ MaxVersion \in Nat /\ MaxTime \in Nat

VARIABLES
    latest,      \* latest_
    nextVersion, \* next_publication_version_
    mutex,       \* who holds mutex_: "poller", "reader" or "free"
    step,        \* poller: "read", "publish" or "invalidate"
    producer,    \* poller: the registration at hand
    stamp,       \* poller: the time of the acquisition
    batch,       \* poller: the channels to publish or to invalidate
    reading,     \* poller: the values of the batch, by channel
    failed,      \* producer_failed_
    reader,      \* consumer: "idle", "copy" or "judge"
    copied,      \* consumer: the records of the last copy
    current,     \* consumer: current_ms, the clock when it judged the copy
    verdict,     \* consumer: "sample", "refused", or "none" so far
    previous,    \* history: the records of the copy before it
    todo,        \* channels the holder of the mutex has still to visit
    now          \* the millisecond clock

pollVars == <<step, producer, stamp, batch, reading, failed>>
readVars == <<reader, copied, current, verdict, previous>>
vars == <<latest, nextVersion, mutex, pollVars, readVars, todo, now>>

Records == [at : 0 .. MaxTime, version : 0 .. MaxVersion, value : Int, valid : BOOLEAN]

TypeOK ==
    /\ latest \in [Channels -> Records]
    /\ nextVersion \in 1 .. MaxVersion + 1
    /\ mutex \in {"free", "poller", "reader"}
    /\ step \in {"read", "publish", "invalidate"}
    /\ producer \in DOMAIN Registrations
    /\ stamp \in 0 .. MaxTime
    /\ batch \subseteq Channels
    /\ reading \in [Channels -> Int]
    /\ failed \in [DOMAIN Registrations -> BOOLEAN]
    /\ reader \in {"idle", "copy", "judge"}
    /\ copied \in [Channels -> Records]
    /\ current \in 0 .. MaxTime
    /\ verdict \in {"none", "sample", "refused"}
    /\ previous \in [Channels -> Records]
    /\ todo \subseteq Channels
    /\ now \in 0 .. MaxTime

Nothing == [c \in Channels |-> [at |-> 0, version |-> 0, value |-> 0, valid |-> FALSE]]

Unread == [c \in Channels |-> 0]

(* A producer whose init() fails is marked and retried. *)
Init ==
    /\ latest = Nothing /\ nextVersion = 1 /\ mutex = "free"
    /\ step = "read" /\ producer = 1 /\ stamp = 0 /\ batch = {}
    /\ reading = Unread
    /\ failed \in [DOMAIN Registrations -> BOOLEAN]
    /\ reader = "idle" /\ copied = Nothing /\ previous = Nothing
    /\ current = 0 /\ verdict = "none"
    /\ todo = {} /\ now = 0

-----------------------------------------------------------------------------
(* The polling task.                                                        *)

MatchesAnything(b) == b # {}

(* batch_is_valid_for_registration. *)
Matches(b) == b # {} /\ b \subseteq Registrations[producer]

(* The values that a batch of these channels may hold. *)
Acquisitions(b) ==
    {r \in [Channels -> {0} \cup UNION {Values[c] : c \in Channels}] :
        \A c \in Channels : r[c] \in IF c \in b THEN Values[c] ELSE {0}}

(* The producer's read: a batch that matches its registration is published,
   an error or any other batch invalidates all channels of the producer. *)
Read ==
    /\ step = "read"
    /\ \/ /\ nextVersion <= MaxVersion
          /\ step' = "publish" /\ stamp' = now
          /\ batch' \in {b \in Batches[producer] : Matches(b)}
          /\ reading' \in Acquisitions(batch')
       \/ /\ step' = "invalidate"
          /\ batch' = Registrations[producer]
          /\ UNCHANGED <<stamp, reading>>
    /\ UNCHANGED <<latest, nextVersion, mutex, producer, failed, readVars, todo, now>>

(* publish_batch and invalidate_channels take the mutex; a publication
   draws its version. *)
Lock ==
    /\ step # "read"
    /\ mutex = "free" /\ mutex' = "poller"
    /\ todo' = batch
    /\ nextVersion' = IF step = "publish" THEN nextVersion + 1 ELSE nextVersion
    /\ UNCHANGED <<latest, pollVars, readVars, now>>

WriteValuesOnly(c) ==
    /\ mutex = "poller"
    /\ c \in todo /\ todo' = todo \ {c}
    /\ latest' = IF step = "publish"
                 THEN [latest EXCEPT ![c] =
                         [at |-> stamp, version |-> nextVersion - 1,
                          value |-> reading[c], valid |-> TRUE]]
                 ELSE latest
    /\ UNCHANGED <<nextVersion, mutex, pollVars, readVars, now>>

Write(c) ==
    /\ mutex = "poller"
    /\ c \in todo /\ todo' = todo \ {c}
    /\ latest' = [latest EXCEPT ![c] =
          IF step = "publish"
          THEN [at |-> stamp, version |-> nextVersion - 1, value |-> reading[c],
                valid |-> TRUE]
          ELSE [@ EXCEPT !.valid = FALSE]]
    /\ UNCHANGED <<nextVersion, mutex, pollVars, readVars, now>>

(* The mutex is given back and mark_failed or mark_recovered runs. *)
Unlock ==
    /\ mutex = "poller" /\ todo = {}
    /\ mutex' = "free"
    /\ failed' = [failed EXCEPT ![producer] = (step = "invalidate")]
    /\ step' = "read" /\ batch' = {} /\ reading' = Unread
    /\ producer' = (producer % Len(Registrations)) + 1
    /\ UNCHANGED <<latest, nextVersion, stamp, readVars, todo, now>>

-----------------------------------------------------------------------------
(* The conversion of a stored value to the unit of the public API           *)
(* (convert_to_int32): thousandths of a degree or of a percent, and pascals, *)
(* to tenths.  C divides towards zero; here that is written out.            *)

(* value / divisor and value % divisor in C. *)
Quotient(value, divisor) ==
    IF value >= 0 THEN value \div divisor ELSE -((-value) \div divisor)

Remainder(value, divisor) == value - divisor * Quotient(value, divisor)

ConvertedUnits(value, divisor) ==
    LET q == Quotient(value, divisor)
        r == Remainder(value, divisor)
    IN  IF r >= divisor \div 2 THEN q + 1
        ELSE IF r <= -(divisor \div 2) THEN q - 1
        ELSE q

FitsUnrounded(value, divisor) == Quotient(value, divisor) \in Lowest .. Highest

(* The units have to fit the int32_t of the public API. *)
Convertible(value, divisor) == ConvertedUnits(value, divisor) \in Lowest .. Highest

(* What it is for: the units are the nearest to the value, and of two that *)
(* are equally near the ones away from zero.                               *)
NearestAwayFromZero(value, divisor, units) ==
    IF value >= 0
    THEN 2 * (value - divisor * units) \in -divisor .. divisor - 1
    ELSE 2 * (value - divisor * units) \in 1 - divisor .. divisor

-----------------------------------------------------------------------------
(* A consumer.                                                              *)

CopyBegin ==
    /\ reader = "idle" /\ reader' = "copy"
    /\ mutex = "free" /\ mutex' = "reader"
    /\ verdict' = "none"
    /\ previous' = copied
    /\ todo' = Channels
    /\ UNCHANGED <<latest, nextVersion, pollVars, copied, current, now>>

Copy(c) ==
    /\ mutex = "reader"
    /\ c \in todo /\ todo' = todo \ {c}
    /\ copied' = [copied EXCEPT ![c] = latest[c]]
    /\ UNCHANGED <<latest, nextVersion, mutex, pollVars, reader, current, verdict, previous,
                   now>>

CopyEnd ==
    /\ mutex = "reader" /\ todo = {}
    /\ mutex' = "free"
    /\ reader' = "judge"
    /\ UNCHANGED <<latest, nextVersion, pollVars, copied, current, verdict, previous, todo,
                   now>>

FreshIfOlder(record, time) ==
    record.valid /\ record.at < time /\ time - record.at <= MaxAge

(* sample_is_fresh. *)
Fresh(record, time) == record.valid /\ record.at <= time /\ time - record.at <= MaxAge

(* get_latest: the clock is read, and a sample is given when all channels
   are fresh and can be converted. *)
Judge ==
    /\ reader = "judge" /\ reader' = "idle"
    /\ current' = now
    /\ verdict' = IF /\ \A c \in Channels : Fresh(copied[c], current')
                     /\ \A c \in Channels : Convertible(copied[c].value, Divisor[c])
                  THEN "sample" ELSE "refused"
    /\ UNCHANGED <<latest, nextVersion, mutex, pollVars, copied, previous, todo, now>>

UpdateCountOldest(records) == Min({records[c].version : c \in Channels})

(* environment_measurements_get_update_count. *)
UpdateCount(records) == Max({records[c].version : c \in Channels})

Tick ==
    /\ now < MaxTime
    /\ now' = now + 1
    /\ UNCHANGED <<latest, nextVersion, mutex, pollVars, readVars, todo>>

Next ==
    \/ Read \/ Lock \/ Unlock
    \/ \E c \in Channels : Write(c) \/ Copy(c)
    \/ CopyBegin \/ CopyEnd \/ Judge
    \/ Tick

Spec == Init /\ [][Next]_vars

-----------------------------------------------------------------------------
(* Properties.                                                              *)

(* "A multi-channel reader sees one coherent snapshot"
   (measurement_store.hpp:23): when producers fill all their channels, as
   the firmware's do, those of one producer always come from the same
   acquisition, never half of it and half of another or another's. *)
OneAcquisition(r, s) == r.at = s.at /\ r.version = s.version /\ r.valid = s.valid

CoherentSnapshot ==
    reader = "judge" =>
        \A i \in DOMAIN Registrations : \A c, d \in Registrations[i] :
            OneAcquisition(copied[c], copied[d])

(* "Consumers must not keep using an older value after a read failure"
   (measurements_manager.cpp:122): between two reads, a producer marked as
   failed has no valid record in the store. *)
FailFast ==
    step = "read" => \A i \in DOMAIN Registrations : failed[i] =>
        \A c \in Registrations[i] : ~latest[c].valid

(* A sample must be "valid, fresh, and convertible" (STRUCTS.md:355), and
   nothing else stands between a consumer and the values: a copy of valid
   records is refused exactly when one of them is older than the limit or
   no number of the API is the nearest to its value.  It is never refused
   because it was published while the consumer looked, or for a rounding
   that crosses the edge of the range the wrong way. *)
Representable(value, divisor) ==
    \E units \in Lowest .. Highest : NearestAwayFromZero(value, divisor, units)

RefusedForCause ==
    verdict # "none" /\ (\A c \in Channels : copied[c].valid)
        => (verdict = "refused"
              <=> \E c \in Channels :
                    \/ current - copied[c].at > MaxAge
                    \/ ~Representable(copied[c].value, Divisor[c]))

(* The update counter tells a consumer whether to look again: it never runs
   backwards, and it moves exactly when some channel was published since
   the copy before. *)
CountTellsNews ==
    reader = "judge" =>
        /\ UpdateCount(copied) >= UpdateCount(previous)
        /\ (UpdateCount(copied) > UpdateCount(previous)) <=>
             \E c \in Channels : copied[c].version # previous[c].version

=============================================================================
