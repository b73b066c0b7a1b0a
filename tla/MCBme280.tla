------------------------------ MODULE MCBme280 ------------------------------
(* Instances of Bme280 for TLC: two sensors, so that one can be exchanged  *)
(* for the other, and the mode of the configuration or normal mode.        *)
EXTENDS Bme280

=============================================================================
