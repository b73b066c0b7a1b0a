------------------------- MODULE MCMeasurementStore -------------------------
(* Instances of MeasurementStore for TLC: a producer of two channels and   *)
(* one of a single channel.  (The firmware registers one producer of       *)
(* three; the manager takes up to four.)                                   *)
EXTENDS MeasurementStore

TwoProducers == <<{"temperature", "humidity"}, {"pressure"}>>

(* The second producer may return a channel that is not its own. *)
TheirBatches == <<{{"temperature", "humidity"}}, {{"pressure"}, {"humidity"}}>>

(* Temperatures on both sides of the greatest value that can be given, and *)
(* a pressure below the lowest one.                                        *)
TheirValues == [c \in Channels |->
    CASE c = "temperature" -> {249, 250} [] c = "humidity" -> {0} [] c = "pressure" -> {-24, -25}]

TheirDivisors == [c \in Channels |-> IF c = "pressure" THEN 10 ELSE 100]

MinusTwo == -2

(* The divisors kMilliToDeci and kPascalsToDeciHectopascals on both sides  *)
(* of zero: the units given are the nearest ones.                          *)
ASSUME ConversionSample ==
    \A value \in -260 .. 260, divisor \in {10, 100} :
        NearestAwayFromZero(value, divisor, ConvertedUnits(value, divisor))
=============================================================================
