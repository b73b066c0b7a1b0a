---------------------------- MODULE MCSettings -----------------------------
(* WorkTasks, and the settings it is composed with, on a small instance. *)
EXTENDS WorkTasks
=============================================================================
