-------------------------- MODULE MCTaskScheduler --------------------------
(* The instance of TaskScheduler for TLC: a 6-value tick counter, so that  *)
(* it wraps while nodes wait, and callbacks that may remove a node and add *)
(* it again.                                                               *)
EXTENDS TaskScheduler

=============================================================================
