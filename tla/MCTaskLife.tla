----------------------------- MODULE MCTaskLife -----------------------------
(* Instance of TaskLife for TLC. *)
EXTENDS TaskLife, TLC

\* A normal exit, and the end of a task by a signal it did not handle.
MCCodes == {0, Killed}
=============================================================================
