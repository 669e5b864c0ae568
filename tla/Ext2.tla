-------------------------------- MODULE Ext2 --------------------------------
(***************************************************************************)
(* The ext2 backend on a block device (kernel/fs/ext2): allocation of      *)
(* blocks and inodes, directories, files, the dirty bitmap, and the        *)
(* write-back that leaves the disk marked unclean while it is under way.   *)
(*                                                                         *)
(* One block group of 1 KiB blocks: the superblock is block 1, the group   *)
(* descriptors 2, the two bitmaps 3 and 4, the inode table 5.  A data      *)
(* block is a set of pairs: entries <<name, inode>> of a directory, one    *)
(* <<"data", value>> of a file, one <<"ptr", block>> of an indirect block, *)
(* or nothing, which is a block of zeroes.  Entries are of one size, Room  *)
(* of them to a block.  A file has one direct block and, behind an         *)
(* indirect block, another: double and triple indirection are the same     *)
(* walk.                                                                   *)
(*                                                                         *)
(* Each operation runs under the filesystem gate, so that its change of    *)
(* the image is one step; the writes and flushes of ext2_sync are steps of *)
(* their own, and the power may fail between any two of them.  The device  *)
(* is external: `disk` is what the last successful flush made durable,     *)
(* `pending` the writes since, any of which may have reached the medium,   *)
(* those that were reported as failed too.  Pages of the image are         *)
(* resident: errors in reading them are not modelled.                      *)
(***************************************************************************)
EXTENDS Integers, Sequences, FiniteSets, FiniteSetsExt, SequencesExt

CONSTANTS
    Inodes,      \* inode numbers, the root among them
    DataBlocks,  \* numbers of the blocks after the inode table
    Names,       \* names of directory entries
    Values,      \* contents of a block of a file
    Room         \* entries in a block of a directory

EXT2_ROOT_INODE == 2
Super == 1
Groups == 2
BlockBitmap == 3
InodeBitmap == 4
InodeTable == 5
Blocks == (1 .. 5) \cup DataBlocks

ASSUME Ext2Assumption ==
    /\ EXT2_ROOT_INODE \in Inodes /\ \A i \in Inodes \ {EXT2_ROOT_INODE} : i >= 11
    /\ DataBlocks # {} /\ \A b \in DataBlocks : b > 5
    /\ Room >= 2 /\ Names \cap {".", ".."} = {}

VARIABLES
    image,         \* the volume in memory
    dirty_blocks,
    io_failed,
    sync,          \* where ext2_sync is; "idle" between operations
    todo,          \* dirty blocks its loop has still to write
    disk,
    pending,       \* block -> versions written since the last flush, in order
    synced         \* history: the image of the last ext2_sync that returned 0

ext2Vars == <<image, dirty_blocks, io_failed, sync, todo, disk, pending, synced>>

NoPointers == [direct |-> 0, indirect |-> 0]
NoInode == [mode |-> "none", links |-> 0, size |-> 0, block |-> NoPointers]

-----------------------------------------------------------------------------
(* Allocation.  An operation is a function of f: the image, the dirty      *)
(* blocks, and the number the last call returned, 0 if it failed.          *)

ext2_dirty(f, blocks) == [f EXCEPT !.dirty = @ \cup blocks]

ext2_dirty_group(f, bitmap) == ext2_dirty(f, {bitmap, Groups, Super})

ext2_block_allocate(f) ==
    LET free == DataBlocks \ f.image[BlockBitmap]
        n == Min(free)
    IN  IF f.image[Groups].free_blocks = 0 \/ free = {} THEN [f EXCEPT !.got = 0]
        ELSE ext2_dirty(ext2_dirty_group(
                [f EXCEPT !.got = n,
                          !.image[BlockBitmap] = @ \cup {n},
                          !.image[Groups].free_blocks = @ - 1,
                          !.image[Super].free_blocks = @ - 1,
                          !.image[n] = {}], BlockBitmap), {n, InodeTable})

\* Frees the blocks of a set, one call for each.
ext2_block_free(f, blocks) ==
    LET freed == blocks \cap f.image[BlockBitmap]
    IN  IF freed = {} THEN f
        ELSE ext2_dirty(ext2_dirty_group(
                [f EXCEPT !.image = [b \in Blocks |->
                              IF b \in freed THEN {}
                              ELSE IF b = BlockBitmap THEN @[b] \ freed
                              ELSE IF b \in {Groups, Super}
                                   THEN [@[b] EXCEPT !.free_blocks = @ + Cardinality(freed)]
                              ELSE @[b]]], BlockBitmap), freed \cup {InodeTable})

\* The one entry of an indirect block.
PointerIn(content) == IF content = {} THEN 0 ELSE (CHOOSE e \in content : TRUE)[2]

\* The block behind a pointer in the inode, allocated if there is none.
ensure_pointer_block(f, i, p) ==
    LET have == f.image[InodeTable][i].block[p]
        g == ext2_block_allocate(f)
    IN  IF have # 0 THEN [f EXCEPT !.got = have]
        ELSE ext2_dirty([g EXCEPT !.image[InodeTable][i].block[p] = g.got], {InodeTable})

\* The same for the pointer in indirect block b.
ensure_indirect_entry(f, b) ==
    LET have == PointerIn(f.image[b])
        g == ext2_block_allocate(f)
    IN  IF have # 0 THEN [f EXCEPT !.got = have]
        ELSE ext2_dirty([g EXCEPT !.image[b] = IF g.got = 0 THEN {} ELSE {<<"ptr", g.got>>}], {b})

ext2_inode_block(f, i, logical) ==
    IF logical = 0 THEN ensure_pointer_block(f, i, "direct")
    ELSE LET g == ensure_pointer_block(f, i, "indirect")
         IN  IF g.got = 0 THEN g ELSE ensure_indirect_entry(g, g.got)

\* Block `logical` of inode i, 0 if there is none (create = 0).
BlockAt(im, i, logical) ==
    LET p == im[InodeTable][i].block
    IN  IF logical = 0 THEN p.direct
        ELSE IF p.indirect = 0 THEN 0 ELSE PointerIn(im[p.indirect])

Owned(im, i) ==
    {BlockAt(im, i, 0), im[InodeTable][i].block.indirect, BlockAt(im, i, 1)} \ {0}

ext2_inode_allocate(f, mode) ==
    LET free == {i \in Inodes : i >= 11 /\ i \notin f.image[InodeBitmap]}
        n == Min(free)
    IN  IF f.image[Groups].free_inodes = 0 \/ free = {} THEN [f EXCEPT !.got = 0]
        ELSE ext2_dirty(ext2_dirty_group(
                [f EXCEPT !.got = n,
                          !.image[InodeBitmap] = @ \cup {n},
                          !.image[Groups].free_inodes = @ - 1,
                          !.image[Super].free_inodes = @ - 1,
                          !.image[Groups].used_directories = @ + (IF mode = "dir" THEN 1 ELSE 0),
                          !.image[InodeTable][n] = [NoInode EXCEPT !.mode = mode, !.links = 1]],
                InodeBitmap), {InodeTable})

\* Faulty variant: forgets the indirect block and what is behind it.
TruncatesDirect(f, i) ==
    ext2_dirty([ext2_block_free(f, {BlockAt(f.image, i, 0)} \ {0})
                    EXCEPT !.image[InodeTable][i].block = NoPointers,
                           !.image[InodeTable][i].size = 0], {InodeTable})

ext2_inode_truncate(f, i) ==
    ext2_dirty([ext2_block_free(f, Owned(f.image, i))
                    EXCEPT !.image[InodeTable][i].block = NoPointers,
                           !.image[InodeTable][i].size = 0], {InodeTable})

ext2_inode_free(f, i) ==
    LET was == f.image[InodeTable][i].mode
        g == ext2_inode_truncate(f, i)
    IN  ext2_dirty(ext2_dirty_group(
            [g EXCEPT !.image[InodeBitmap] = @ \ {i},
                      !.image[Groups].free_inodes = @ + 1,
                      !.image[Super].free_inodes = @ + 1,
                      !.image[Groups].used_directories = @ - (IF was = "dir" THEN 1 ELSE 0),
                      !.image[InodeTable][i] = NoInode], InodeBitmap), {InodeTable})

-----------------------------------------------------------------------------
(* Directories and files *)

Logical(im, i) == 0 .. im[InodeTable][i].size - 1

Entries(im, d) == UNION {im[BlockAt(im, d, l)] : l \in Logical(im, d)}

\* The inodes of that name in directory d: one or none.
ext2_dir_lookup(im, d, name) == {e[2] : e \in {x \in Entries(im, d) : x[1] = name}}

ext2_dir_add(f, d, name, i) ==
    LET roomy == {l \in Logical(f.image, d) : Cardinality(f.image[BlockAt(f.image, d, l)]) < Room}
        b == BlockAt(f.image, d, Min(roomy))
        last == f.image[InodeTable][d].size
        g == ext2_inode_block(f, d, last)
    IN  IF ext2_dir_lookup(f.image, d, name) # {} THEN [f EXCEPT !.got = 0]
        ELSE IF roomy # {}
        THEN ext2_dirty([f EXCEPT !.got = b, !.image[b] = @ \cup {<<name, i>>}], {b})
        ELSE IF g.got = 0 THEN g
        ELSE ext2_dirty([g EXCEPT !.image[g.got] = {<<name, i>>},
                                  !.image[InodeTable][d].size = last + 1], {g.got, InodeTable})

ext2_dir_remove(f, d, name) ==
    LET b == CHOOSE x \in {BlockAt(f.image, d, l) : l \in Logical(f.image, d)} :
                \E e \in f.image[x] : e[1] = name
    IN  ext2_dirty([f EXCEPT !.image[b] = {e \in @ : e[1] # name}], {b})

ext2_dir_empty(im, d) == \A e \in Entries(im, d) : e[1] \in {".", ".."}

\* One block of ext2_file_write; the loop ends at the first that finds no room.
WriteBlock(f, i, logical, v) ==
    LET g == ext2_inode_block(f, i, logical)
    IN  IF g.got = 0 THEN g
        ELSE ext2_dirty([g EXCEPT !.image[g.got] = {<<"data", v>>},
                                  !.image[InodeTable][i].size = Max({@, logical + 1})],
                        {g.got, InodeTable})

ext2_file_write(f, i, first, last, v) ==
    LET g == WriteBlock(f, i, first, v)
    IN  IF g.got = 0 \/ last = first THEN g ELSE WriteBlock(g, i, last, v)

-----------------------------------------------------------------------------
(* The operations of ext2_vfs.c.  Each changes the image under the gate;   *)
(* the ones that get that far end in ext2_sync.                            *)

Now == [image |-> image, dirty |-> dirty_blocks, got |-> 0]

Mutable == sync = "idle" /\ ~io_failed

Device == <<todo, disk, pending, synced, io_failed>>

\* ext2_sync returns at once when nothing is dirty.
ThenSync(f) ==
    /\ image' = f.image /\ dirty_blocks' = f.dirty
    /\ sync' = IF f.dirty = {} THEN "idle" ELSE "mark"
    /\ UNCHANGED Device

\* The operation fails: what it changed stays in memory, dirty and unwritten.
Fails(f) ==
    /\ image' = f.image /\ dirty_blocks' = f.dirty
    /\ UNCHANGED <<sync, Device>>

IsDir(i) == image[InodeTable][i].mode = "dir"
IsFile(i) == image[InodeTable][i].mode = "file"

\* enomem: there is no memory for the vfs_inode.
create(d, name, enomem) ==
    /\ Mutable /\ IsDir(d) /\ ext2_dir_lookup(image, d, name) = {}
    /\ LET f == ext2_inode_allocate(Now, "file")
           g == ext2_dir_add(f, d, name, f.got)
       IN  IF f.got = 0 THEN Fails(f)
           ELSE IF enomem THEN Fails(ext2_inode_free(f, f.got))
           ELSE IF g.got = 0 THEN Fails(ext2_inode_free(g, f.got))
           ELSE ThenSync(g)

unlink(d, name) ==
    /\ Mutable /\ IsDir(d)
    /\ \E i \in ext2_dir_lookup(image, d, name) :
          /\ IsFile(i)
          /\ LET f == ext2_dirty(ext2_dir_remove(Now, d, name), {InodeTable})
             IN  ThenSync(IF image[InodeTable][i].links > 1
                          THEN [f EXCEPT !.image[InodeTable][i].links = @ - 1]
                          ELSE ext2_inode_free(f, i))

mkdir(d, name) ==
    /\ Mutable /\ IsDir(d) /\ ext2_dir_lookup(image, d, name) = {}
    /\ LET f == ext2_inode_allocate(Now, "dir")
           i == f.got
           g == ext2_inode_block(f, i, 0)
           h == [g EXCEPT !.image[InodeTable][i].links = 2,
                          !.image[InodeTable][i].size = 1,
                          !.image[g.got] = {<<".", i>>, <<"..", d>>}]
           k == ext2_dir_add(h, d, name, i)
       IN  IF i = 0 THEN Fails(f)
           ELSE IF g.got = 0 THEN Fails(ext2_inode_free(g, i))
           ELSE IF k.got = 0 THEN Fails(ext2_inode_free(k, i))
           ELSE ThenSync(ext2_dirty([k EXCEPT !.image[InodeTable][d].links = @ + 1], {InodeTable}))

rmdir(d, name) ==
    /\ Mutable /\ IsDir(d)
    /\ \E i \in ext2_dir_lookup(image, d, name) \ {EXT2_ROOT_INODE} :
          /\ IsDir(i) /\ ext2_dir_empty(image, i)
          /\ LET f == ext2_dir_remove(Now, d, name)
             IN  ThenSync(ext2_inode_free(
                    ext2_dirty([f EXCEPT !.image[InodeTable][d].links = @ - 1], {InodeTable}), i))

truncate(i) ==
    /\ Mutable /\ IsFile(i)
    /\ ThenSync(ext2_inode_truncate(Now, i))

\* Permission bits are not modelled; that the inode is written is.
setmode(i) ==
    /\ Mutable /\ (IsFile(i) \/ IsDir(i))
    /\ ThenSync(ext2_dirty(Now, {InodeTable}))

write(i, first, last, v) ==
    /\ Mutable /\ IsFile(i)
    /\ ThenSync(ext2_file_write(Now, i, first, last, v))

\* fsync, sync, or the sync of an unmount; the way out of io_failed.
ext2_sync_super ==
    /\ sync = "idle" /\ dirty_blocks # {}
    /\ ThenSync(Now)

-----------------------------------------------------------------------------
(* ext2_sync, write by write *)

Marked(im, valid) == [im EXCEPT ![Super].valid = valid]

\* block_write: the device has it, and may write it at any time from now on,
\* even if it reports an error.  A version written again is only the newest.
block_write(b, content) ==
    pending' = [pending EXCEPT ![b] = Append(SelectSeq(@, LAMBDA c : c # content), content)]

\* block_flush: what was written is durable.
block_flush ==
    /\ disk' = [b \in Blocks |-> IF pending[b] = <<>> THEN disk[b] ELSE Last(pending[b])]
    /\ pending' = [b \in Blocks |-> <<>>]

sync_failed(im) ==
    /\ image' = Marked(im, FALSE)
    /\ io_failed' = TRUE
    /\ sync' = "idle" /\ todo' = {}
    /\ UNCHANGED <<dirty_blocks, synced>>

\* Marks the superblock, unclean before the blocks and clean after them.
write_super(ok) ==
    /\ sync \in {"mark", "clean"}
    /\ LET im == Marked(image, sync = "clean")
       IN  /\ block_write(Super, im[Super])
           /\ IF ok
              THEN /\ image' = im
                   /\ sync' = IF sync = "mark" THEN "mark_flush" ELSE "clean_flush"
                   /\ UNCHANGED <<todo, dirty_blocks, synced, io_failed>>
              ELSE sync_failed(im)
    /\ UNCHANGED disk

write_block(ok) ==
    /\ sync = "blocks" /\ todo # {}
    /\ block_write(Min(todo), image[Min(todo)])
    /\ IF ok THEN /\ todo' = todo \ {Min(todo)}
                  /\ UNCHANGED <<image, sync, dirty_blocks, synced, io_failed>>
             ELSE sync_failed(image)
    /\ UNCHANGED disk

flush_failed ==
    /\ sync \in {"mark_flush", "clean_flush"} \/ (sync = "blocks" /\ todo = {})
    /\ sync_failed(image)
    /\ UNCHANGED <<disk, pending>>

\* Faulty variant: the blocks follow the mark without a flush between them.
UnflushedMark ==
    /\ sync = "mark_flush"
    /\ sync' = "blocks" /\ todo' = dirty_blocks
    /\ UNCHANGED <<image, dirty_blocks, io_failed, synced, disk, pending>>

flush_mark ==
    /\ sync = "mark_flush"
    /\ block_flush
    /\ sync' = "blocks" /\ todo' = dirty_blocks
    /\ UNCHANGED <<image, dirty_blocks, io_failed, synced>>

flush_blocks ==
    /\ sync = "blocks" /\ todo = {}
    /\ block_flush
    /\ sync' = "clean"
    /\ UNCHANGED <<image, dirty_blocks, io_failed, todo, synced>>

flush_clean ==
    /\ sync = "clean_flush"
    /\ block_flush
    /\ sync' = "idle" /\ dirty_blocks' = {} /\ io_failed' = FALSE
    /\ synced' = image
    /\ UNCHANGED <<image, todo>>

-----------------------------------------------------------------------------
(* The power fails, and the volume is mounted again *)

\* What the medium may hold after a power cut: of each block the durable version,
\* or any written since.
Versions(b) == {disk[b]} \cup ToSet(pending[b])

AfterPowerCut ==
    LET written == {b \in Blocks : pending[b] # <<>>}
        reached == {n \in [written -> 0 .. Cardinality(UNION {DOMAIN pending[b] : b \in written})] :
                        \A b \in written : n[b] <= Len(pending[b])}
    IN  {[b \in Blocks |-> IF b \notin written \/ n[b] = 0 THEN disk[b] ELSE pending[b][n[b]]] :
            n \in reached}

MayBeClean == \E super \in Versions(Super) : super.valid

\* Mounted again: an unclean volume is refused.
ext2_mount_block ==
    /\ MayBeClean
    /\ \E d \in {x \in AfterPowerCut : x[Super].valid} :
          /\ image' = d /\ disk' = d /\ synced' = d
          /\ pending' = [b \in Blocks |-> <<>>]
          /\ dirty_blocks' = {} /\ todo' = {} /\ io_failed' = FALSE /\ sync' = "idle"

-----------------------------------------------------------------------------
\* A new volume, as mke2fs makes it.
NewVolume ==
    LET first == Min(DataBlocks)
        free == [free_blocks |-> Cardinality(DataBlocks) - 1, free_inodes |-> Cardinality(Inodes) - 1]
    IN  [b \in Blocks |->
            CASE b = Super       -> [free_blocks |-> free.free_blocks,
                                     free_inodes |-> free.free_inodes, valid |-> TRUE]
              [] b = Groups      -> [free_blocks |-> free.free_blocks,
                                     free_inodes |-> free.free_inodes, used_directories |-> 1]
              [] b = BlockBitmap -> {first}
              [] b = InodeBitmap -> {EXT2_ROOT_INODE}
              [] b = InodeTable  -> [i \in Inodes |->
                                        IF i = EXT2_ROOT_INODE
                                        THEN [mode |-> "dir", links |-> 2, size |-> 1,
                                              block |-> [NoPointers EXCEPT !.direct = first]]
                                        ELSE NoInode]
              [] b = first       -> {<<".", EXT2_ROOT_INODE>>, <<"..", EXT2_ROOT_INODE>>}
              [] OTHER           -> {}]

\* A volume in which another system has left a file with a hard link.
LinkedVolume ==
    LET f == ext2_inode_allocate([image |-> NewVolume, dirty |-> {}, got |-> 0], "file")
        i == f.got
        add(g, name) == ext2_dir_add(g, EXT2_ROOT_INODE, name, i)
        names == SetToSeq(Names)
    IN  [add(add(f, names[1]), names[2]).image EXCEPT ![InodeTable][i].links = 2]

Ext2Init ==
    /\ image \in {NewVolume, LinkedVolume}
    /\ disk = image /\ synced = image
    /\ dirty_blocks = {} /\ todo = {} /\ io_failed = FALSE /\ sync = "idle"
    /\ pending = [b \in Blocks |-> <<>>]

Ext2Next ==
    \/ \E d \in Inodes, name \in Names :
          \/ \E enomem \in BOOLEAN : create(d, name, enomem)
          \/ unlink(d, name) \/ mkdir(d, name) \/ rmdir(d, name)
    \/ \E i \in Inodes :
          \/ truncate(i) \/ setmode(i)
          \/ \E v \in Values, first, last \in 0 .. 1 : first <= last /\ write(i, first, last, v)
    \/ ext2_sync_super
    \/ \E ok \in BOOLEAN : write_super(ok) \/ write_block(ok)
    \/ flush_failed \/ flush_mark \/ flush_blocks \/ flush_clean
    \/ ext2_mount_block

Ext2Spec == Ext2Init /\ [][Ext2Next]_ext2Vars

-----------------------------------------------------------------------------
(* Properties *)

\* What e2fsck asks of a volume: the free counts are those of the bitmaps, an
\* inode in use is named by as many entries as it has links, a block in use
\* belongs to one file, and nothing in use is marked free.
Fsck(d) ==
    LET used == d[InodeBitmap]
        named(i) == {<<p, e>> \in used \X (UNION {d[b] : b \in DataBlocks}) :
                        /\ d[InodeTable][p].mode = "dir"
                        /\ e \in Entries(d, p) /\ e[2] = i}
    IN  /\ \A b \in {Super, Groups} :
              /\ d[b].free_blocks = Cardinality(DataBlocks \ d[BlockBitmap])
              /\ d[b].free_inodes = Cardinality(Inodes \ used)
        /\ d[Groups].used_directories = Cardinality({i \in used : d[InodeTable][i].mode = "dir"})
        /\ \A i \in Inodes : i \in used <=> d[InodeTable][i].mode # "none"
        /\ \A i \in Inodes : d[InodeTable][i].links = Cardinality(named(i))
        /\ \A b \in DataBlocks :
              Cardinality({i \in used : b \in Owned(d, i)}) = IF b \in d[BlockBitmap] THEN 1 ELSE 0
        /\ \A i \in used : d[InodeTable][i].mode = "dir" =>
              /\ \A name \in Names : Cardinality(ext2_dir_lookup(d, i, name)) <= 1
              /\ ext2_dir_lookup(d, i, ".") = {i}

\* Every operation leaves a consistent volume in memory, also one that fails
\* half-way for want of a block, an inode or memory, and the dirty bitmap covers
\* all that differs from what was last written.
ImageIsConsistent ==
    /\ Fsck(image)
    /\ sync = "idle" /\ ~io_failed =>
          \A b \in Blocks : image[b] # disk[b] => b \in dirty_blocks

\* Whenever the power fails: a volume that is still marked clean is whole, the
\* one of the last successful sync or the one now being written, and between
\* updates it is always the former, so that what was reported as done is there.
PowerCutSafe ==
    /\ MayBeClean =>
          \A d \in AfterPowerCut :
              d[Super].valid => Fsck(d) /\ d \in {synced, Marked(image, TRUE)}
    /\ sync = "idle" /\ ~io_failed => AfterPowerCut = {synced}
=============================================================================
