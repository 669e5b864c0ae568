-------------------------------- MODULE Walk --------------------------------
(***************************************************************************)
(* A loop over a table meets the slots of a set in order: the sequence the *)
(* kernel's many `for (i = 0; i < N; i++)` scans go through.               *)
(***************************************************************************)
EXTENDS Integers, FiniteSets, Functions

InOrder(S) ==
  CHOOSE s \in Bijection(1 .. Cardinality(S), S) :
    \A i, j \in 1 .. Cardinality(S) : i < j => s[i] < s[j]
=============================================================================
