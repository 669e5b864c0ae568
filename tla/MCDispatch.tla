----------------------------- MODULE MCDispatch -----------------------------
(* Instance of Dispatch for TLC. *)
EXTENDS Dispatch, TLC

Symmetry == Permutations(Task)
=============================================================================
