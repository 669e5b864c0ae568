-------------------------------- MODULE Vfs --------------------------------
(***************************************************************************)
(* The VFS layer (kernel/fs/vfs: vfs.c, namei.c, file.c): the mount table, *)
(* the references that lookups and open files hold on inodes, and the      *)
(* changes of the namespace.                                               *)
(*                                                                         *)
(* Each operation holds the filesystem gate and is one step.  Inside it a  *)
(* lookup takes and drops its references one by one, as the code does, and *)
(* any kmalloc on the way may be the one that fails: `mem` is the number   *)
(* that still succeed.  The backend is external: a volume is the type of   *)
(* each of its inodes and a set of entries <<directory, name, inode>>, and *)
(* `ok` is whether a call of it does what it is asked.  One that does, but *)
(* fails to write it to the disk, is reported as an error too: for the     *)
(* state of this module that is the same step, but for vfs_create.  A path *)
(* is the sequence of its components.                                      *)
(***************************************************************************)
EXTENDS Integers, Sequences, FiniteSets, FiniteSetsExt, SequencesExt

CONSTANTS
    Slots,     \* slots of the mount table
    Handles,   \* struct vfs_file, numbered
    Numbers,   \* inode numbers of a volume; 0 is its root
    Paths,     \* paths of the calls
    MountNames,  \* paths of mounts
    Volumes    \* the volumes there are to mount

ASSUME VfsAssumption ==
    /\ IsFiniteSet(Slots) /\ Slots # {} /\ Slots \subseteq Nat
    /\ 0 \in Numbers /\ Numbers \subseteq Nat
    /\ Handles \subseteq Nat
    /\ <<>> \notin MountNames /\ \A path \in MountNames : ".." \notin Range(path)

VARIABLES
    supers,    \* slot -> the mount: its path, superblock and live inodes
    files      \* handle -> the open file

vfsVars == <<supers, files>>

Root == 0
Closed == [mount |-> -1, node |-> -1]
Unmounted == [live |-> FALSE, path |-> <<>>, open_files |-> 0,
              references |-> [n \in Numbers |-> 0],
              type |-> [n \in Numbers |-> "none"], entries |-> {}]

\* A volume that has nothing but its root and, by name, these directories.
VolumeWith(dirs) ==
    LET nth(k) == SetToSortSeq(Numbers \ {Root}, <)[k]
    IN  [Unmounted EXCEPT !.type = [n \in Numbers |->
                              IF n = Root \/ \E k \in DOMAIN dirs : n = nth(k) THEN "dir" ELSE "none"],
                          !.entries = {<<Root, dirs[k], nth(k)>> : k \in DOMAIN dirs}]

-----------------------------------------------------------------------------
(* References.  An operation is a function of w: the mounts, the files,    *)
(* the chain of entries of its path, the memory left and its result.       *)

Begin(mem) == [supers |-> supers, files |-> files, chain |-> <<>>, mem |-> mem, ok |-> TRUE]

Failed(w) == [w EXCEPT !.ok = FALSE]

vfs_inode_ref(w, s, n) == [w EXCEPT !.supers[s].references[n] = @ + 1]

vfs_inode_put(w, s, n) == [w EXCEPT !.supers[s].references[n] = @ - 1]

\* A live inode is shared; for another one there must be memory.
vfs_inode_get(w, s, n) ==
    IF w.supers[s].references[n] > 0 THEN vfs_inode_ref(w, s, n)
    ELSE IF w.mem = 0 THEN Failed(w)
    ELSE vfs_inode_ref([w EXCEPT !.mem = @ - 1], s, n)

vfs_find_mount(w, path) == {s \in Slots : w.supers[s].live /\ w.supers[s].path = path}

\* A mountpoint, or an ancestor of one.
vfs_mount_contains(w, path) ==
    \E s \in Slots : w.supers[s].live /\ IsPrefix(path, w.supers[s].path)

\* The backend's lookup: the inodes of that name, one or none.
Child(w, s, dir, name) == {e[3] : e \in {x \in w.supers[s].entries : x[1] = dir /\ x[2] = name}}

-----------------------------------------------------------------------------
(* Lookup *)

\* The chain keeps the name each entry was reached by.
pop_entry(w) ==
    LET e == Last(w.chain)
    IN  vfs_inode_put([w EXCEPT !.chain = Front(@)], e.mount, e.node)

vfs_path_put(w) ==
    LET put[k \in 0 .. Len(w.chain)] == IF k = 0 THEN w ELSE pop_entry(put[k - 1])
    IN  put[Len(w.chain)]

\* Faulty variant: keeps the reference it was given when it has no memory.
LeakyPush(w, s, n, path) ==
    IF w.mem = 0 THEN Failed(w)
    ELSE [w EXCEPT !.mem = @ - 1, !.chain = Append(@, [mount |-> s, node |-> n, path |-> path])]

push_entry(w, s, n, path) ==
    IF w.mem = 0 THEN Failed(vfs_inode_put(w, s, n))
    ELSE [w EXCEPT !.mem = @ - 1, !.chain = Append(@, [mount |-> s, node |-> n, path |-> path])]

\* One component of the path.
Step(w, name) ==
    LET at == Last(w.chain)
        path == Append(at.path, name)
        over == vfs_find_mount(w, path)
        found == Child(w, at.mount, at.node, name)
        got == vfs_inode_get(w, at.mount, Min(found))
    IN  IF ~w.ok THEN w
        ELSE IF w.supers[at.mount].type[at.node] # "dir" THEN Failed(w)
        ELSE IF name = ".." THEN IF Len(w.chain) > 1 THEN pop_entry(w) ELSE w
        ELSE IF over # {}
        THEN push_entry(vfs_inode_ref(w, Min(over), Root), Min(over), Root, path)
        ELSE IF found = {} THEN Failed(w)
        ELSE IF ~got.ok THEN got
        ELSE push_entry(got, at.mount, Min(found), path)

vfs_lookup(w, path) ==
    LET root == Min(vfs_find_mount(w, <<>>))
        walk[k \in 0 .. Len(path)] ==
            IF k = 0 THEN push_entry(vfs_inode_ref(w, root, Root), root, Root, <<>>)
            ELSE Step(walk[k - 1], path[k])
        end == walk[Len(path)]
    IN  IF vfs_find_mount(w, <<>>) = {} THEN Failed(w)
        ELSE IF end.ok THEN end ELSE vfs_path_put(end)

\* The directory of the last component, which is to be changed.
vfs_lookup_parent(w, path) ==
    LET end == vfs_lookup(w, Front(path))
        at == Last(end.chain)
    IN  IF path = <<>> \/ Last(path) = ".." THEN Failed(w)
        ELSE IF ~end.ok THEN end
        ELSE IF \/ end.supers[at.mount].type[at.node] # "dir"
                \/ vfs_mount_contains(end, Append(at.path, Last(path)))
        THEN Failed(vfs_path_put(end))
        ELSE end

-----------------------------------------------------------------------------
(* The backend (external) *)

Free(w, s) == {n \in Numbers : w.supers[s].type[n] = "none"}

AddEntry(w, s, dir, name, n, type) ==
    [w EXCEPT !.supers[s].type[n] = type, !.supers[s].entries = @ \cup {<<dir, name, n>>}]

DropEntry(w, s, dir, name, n) ==
    [w EXCEPT !.supers[s].type[n] = "none", !.supers[s].entries = @ \ {<<dir, name, n>>}]

\* directory_has_entries
Occupied(w, s, n) == \E e \in w.supers[s].entries : e[1] = n

-----------------------------------------------------------------------------
(* Operations *)

\* What a lookup leaves is named by \E over its one value, and so found once.
Done(w) == \E v \in {w} : supers' = v.supers /\ files' = v.files

close_locked(w, h) ==
    LET f == w.files[h]
    IN  vfs_inode_put([w EXCEPT !.supers[f.mount].open_files = @ - 1, !.files[h] = Closed],
                      f.mount, f.node)

\* Consumes the reference on the inode, also when opening fails.
open_inode(w, s, n, h, ok) ==
    LET u == [w EXCEPT !.files[h] = [mount |-> s, node |-> n], !.supers[s].open_files = @ + 1]
    IN  IF ok THEN u ELSE Failed(close_locked(u, h))

vfs_open(path, h, mem, ok) ==
    /\ files[h] = Closed
    /\ \E w \in {vfs_lookup(Begin(mem), path)} :
          LET at == Last(w.chain)
          IN  Done(IF w.ok THEN vfs_path_put(open_inode(vfs_inode_ref(w, at.mount, at.node),
                                                        at.mount, at.node, h, ok))
                   ELSE w)

\* The backend refuses a name in use or a full volume.  A file that cannot be
\* opened is removed again; it is `kept` when that fails, or when it was only
\* the write to the disk that failed.
vfs_create(path, h, mem, ok, kept) ==
    /\ files[h] = Closed
    /\ \E w \in {vfs_lookup_parent(Begin(mem), path)} :
          LET at == Last(w.chain)
              name == Last(path)
              n == Min(Free(w, at.mount))
              got == vfs_inode_get(w, at.mount, n)
              u == open_inode(AddEntry(got, at.mount, at.node, name, n, "file"), at.mount, n, h, ok)
          IN  Done(IF ~w.ok THEN w
                   ELSE vfs_path_put(
                           IF \/ Child(w, at.mount, at.node, name) # {}
                              \/ Free(w, at.mount) = {} \/ ~got.ok THEN w
                           ELSE IF u.ok \/ kept THEN u
                           ELSE DropEntry(u, at.mount, at.node, name, n)))

vfs_close(h) ==
    /\ files[h] # Closed
    /\ Done(close_locked(Begin(0), h))

vfs_mkdir(path, mem, ok) ==
    \E w \in {vfs_lookup_parent(Begin(mem), path)} :
    LET at == Last(w.chain)
        found == Child(w, at.mount, at.node, Last(path))
        target == vfs_inode_get(w, at.mount, Min(found))
    IN  Done(IF ~w.ok THEN w
             ELSE IF found # {}
             THEN vfs_path_put(IF target.ok THEN vfs_inode_put(target, at.mount, Min(found)) ELSE w)
             ELSE vfs_path_put(
                    IF ~ok \/ Free(w, at.mount) = {} THEN w
                    ELSE AddEntry(w, at.mount, at.node, Last(path), Min(Free(w, at.mount)), "dir")))

\* change_name with REMOVE_FILE (type "file") or REMOVE_DIRECTORY (type "dir").
change_name(path, type, mem, ok) ==
    \E w \in {vfs_lookup_parent(Begin(mem), path)} :
    LET at == Last(w.chain)
        found == Child(w, at.mount, at.node, Last(path))
        n == Min(found)
        target == vfs_inode_get(w, at.mount, n)
        super == target.supers[at.mount]
        allowed == /\ super.references[n] = 1 /\ super.type[n] = type
                   /\ (type = "dir" => ~Occupied(target, at.mount, n))
        done == IF ok /\ allowed THEN DropEntry(target, at.mount, at.node, Last(path), n) ELSE target
    IN  Done(IF ~w.ok THEN w
             ELSE IF found = {} \/ ~target.ok THEN vfs_path_put(w)
             ELSE vfs_path_put(vfs_inode_put(done, at.mount, n)))

vfs_unlink(path, mem, ok) == change_name(path, "file", mem, ok)

vfs_rmdir(path, mem, ok) == change_name(path, "dir", mem, ok)

\* mount_type: a mount that fails leaves its slot as it was.
mount_type(path, dirs, mem, ok) ==
    LET w == Begin(mem)
        free == {s \in Slots : ~supers[s].live}
        slot == Min(free)
        u == vfs_inode_get([w EXCEPT !.supers[slot] = [VolumeWith(dirs) EXCEPT !.live = TRUE]], slot, Root)
    IN  /\ vfs_find_mount(w, path) = {} /\ free # {}
        /\ Done(IF ok /\ u.ok THEN [u EXCEPT !.supers[slot].path = path] ELSE w)

\* Not of the root: sys_umount refuses that.
vfs_unmount(path, ok) ==
    \E s \in vfs_find_mount(Begin(0), path) :
        /\ supers[s].open_files = 0
        /\ ~\E t \in Slots \ {s} : supers[t].live /\ IsStrictPrefix(path, supers[t].path)
        /\ supers[s].references = [n \in Numbers |-> IF n = Root THEN 1 ELSE 0]
        /\ Done([Begin(0) EXCEPT !.supers[s] = IF ok THEN Unmounted ELSE @])

-----------------------------------------------------------------------------
VfsInit ==
    /\ \E dirs \in Volumes :
          supers = [s \in Slots |->
                      IF s = Min(Slots) THEN [VolumeWith(dirs) EXCEPT !.live = TRUE, !.references[Root] = 1]
                      ELSE Unmounted]
    /\ files = [h \in Handles |-> Closed]

\* Handles are alike: the next to be opened is the first that is not.
Unused == LET closed == {h \in Handles : files[h] = Closed}
          IN  IF closed = {} THEN {} ELSE {Min(closed)}

\* A lookup allocates an entry for the root, and an entry and an inode for each
\* component; with less memory than that it may fail before the backend does.
Allocations(path) == 1 + 2 * Len(SelectSeq(path, LAMBDA c : c # ".."))

VfsNext ==
    \/ \E path \in Paths, ok \in BOOLEAN : \E mem \in 0 .. Allocations(path) :
          /\ ok \/ mem = Allocations(path)
          /\ \/ \E h \in Unused :
                   \/ vfs_open(path, h, mem, ok)
                   \/ \E kept \in {FALSE, ~ok} : vfs_create(path, h, mem, ok, kept)
             \/ vfs_mkdir(path, mem, ok) \/ vfs_unlink(path, mem, ok) \/ vfs_rmdir(path, mem, ok)
    \/ \E h \in Handles : vfs_close(h)
    \/ \E path \in MountNames, ok \in BOOLEAN :
          \/ vfs_unmount(path, ok)
          \/ \E dirs \in Volumes, mem \in 0 .. 1 : mount_type(path, dirs, mem, ok)

VfsSpec == VfsInit /\ [][VfsNext]_vfsVars

-----------------------------------------------------------------------------
(* Properties *)

OpenOn(s) == {h \in Handles : files[h].mount = s}

\* Between operations the only references are those of the open files and of
\* the mounted roots, and a file that is open is still in the namespace of a
\* volume that is still mounted.
HandlesAreLive ==
    /\ \A s \in Slots :
          /\ supers[s].open_files = Cardinality(OpenOn(s))
          /\ \A n \in Numbers :
                supers[s].references[n] =
                    Cardinality({h \in OpenOn(s) : files[h].node = n})
                        + (IF supers[s].live /\ n = Root THEN 1 ELSE 0)
    /\ \A h \in Handles : files[h] # Closed =>
          LET super == supers[files[h].mount]
          IN  /\ super.live
              /\ super.type[files[h].node] # "none"
              /\ files[h].node # Root => \E e \in super.entries : e[3] = files[h].node

Reachable(w, s) ==
    LET end == vfs_lookup(w, w.supers[s].path)
    IN  end.ok /\ Last(end.chain).mount = s

\* No change of a directory, and no unmount, takes the way to another mount away.
MountsStayReachable ==
    LET now == Begin(Max({Allocations(path) : path \in MountNames}))
        next == [now EXCEPT !.supers = supers']
    IN  (\A s \in Slots : supers'[s].live => supers[s].live) =>
            \A s \in Slots : supers'[s].live /\ Reachable(now, s) => Reachable(next, s)

\* Opening, creating, removing and unmounting, each also when it fails half-way,
\* leave every open file and every mount usable and no reference behind: it was
\* so before each step, and is so after it.
NamespaceIsSound ==
    [][HandlesAreLive /\ HandlesAreLive' /\ MountsStayReachable]_vfsVars
=============================================================================
