------------------------------- MODULE MCPipe -------------------------------
(* Instance of Pipe for TLC. *)
EXTENDS Pipe, TLC

CONSTANTS t1, t2

Tasks2 == {t1, t2}
Symmetry == Permutations(Task)
=============================================================================
