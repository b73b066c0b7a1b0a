----------------------------- MODULE MCUartLink -----------------------------
(* Instance of UartLink for TLC: the bounds are in the configurations. *)
EXTENDS UartLink
=============================================================================
