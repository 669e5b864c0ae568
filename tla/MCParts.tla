------------------------------ MODULE MCParts -------------------------------
(***************************************************************************)
(* Model checking of three parts of the kernel whose properties are all    *)
(* invariants: the choice of the task to dispatch, UDP sockets and the FAT *)
(* backend.                                                                *)
(*                                                                         *)
(* They share no state.  As in MCServices they are checked side by side:   *)
(* `part` says which of them runs.  Sockets and FAT have no state while    *)
(* another part runs; the ready lists rest in their initial state.         *)
(***************************************************************************)
EXTENDS Dispatch, Sockets, Fat, TLC

VARIABLE part

\* Tasks are alike, in the ready lists and as users of sockets, and so are the
\* places of sockets.
Symmetry == Permutations(Task) \cup Permutations(Users) \cup Permutations(SocketIds)

NoVolume == volume = <<>> /\ device = <<>> /\ contents = <<>> /\ kept = TRUE

PartsInit ==
    /\ part \in {"dispatch", "sockets", "fat"}
    /\ Init
    /\ SocketInit
    /\ IF part = "fat" THEN FatInit ELSE NoVolume

PartsNext ==
    /\ UNCHANGED part
    /\ \/ part = "dispatch" /\ Next /\ UNCHANGED <<socketVars, fatVars>>
       \/ part = "sockets" /\ SocketNext /\ UNCHANGED <<vars, fatVars>>
       \/ part = "fat" /\ FatNext /\ UNCHANGED <<vars, socketVars>>

PartsSpec == PartsInit /\ [][PartsNext]_<<part, vars, socketVars, fatVars>>

\* The FAT backend through creations, writes past the end, truncations and
\* removals on a volume that fills up: files read back what was written,
\* every cluster in use is in one chain, a write falls short only on a full
\* volume, every mutation has written its own sectors when it ends, and what
\* a power cut leaves has no stale entry and no cluster in two files.
FatIsSound == part = "fat" => FatInv
=============================================================================
