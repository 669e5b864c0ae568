------------------------------- MODULE MCSched ------------------------------
(* Instance of Sched for TLC. *)
EXTENDS Sched, TLC
=============================================================================
