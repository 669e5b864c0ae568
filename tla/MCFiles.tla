------------------------------ MODULE MCFiles -------------------------------
(***************************************************************************)
(* Model checking of the filesystem: the VFS layer and the ext2 backend.   *)
(* The gate (VfsGate) makes each operation of the two one step.            *)
(*                                                                         *)
(* As in MCServices the two are checked side by side: `part` says which of *)
(* them runs, and the other rests in its initial state.                    *)
(***************************************************************************)
EXTENDS Vfs, Ext2, TLC

VARIABLE part

filesVars == <<part, vfsVars, ext2Vars>>

\* The root, an entry of it, one of a directory, and the way back over "..".
MCPaths == {<<>>, <<"a">>, <<"a", "a">>, <<"a", "..", "a">>}

MCMountNames == {<<"a">>, <<"a", "a">>}

\* An empty volume and one with a directory.
MCVolumes == {<<>>, <<"a">>}

\* The volumes of a part that rests are the empty ones.
FilesInit ==
    /\ part \in {"vfs", "ext2"}
    /\ VfsInit /\ Ext2Init
    /\ part # "vfs" => supers[Min(Slots)].entries = {}
    /\ part # "ext2" => image = NewVolume

FilesNext ==
    /\ UNCHANGED part
    /\ \/ part = "vfs" /\ VfsNext /\ UNCHANGED ext2Vars
       \/ part = "ext2" /\ Ext2Next /\ UNCHANGED vfsVars

FilesSpec == FilesInit /\ [][FilesNext]_filesVars
=============================================================================
