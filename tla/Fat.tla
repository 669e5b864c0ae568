-------------------------------- MODULE Fat --------------------------------
(***************************************************************************)
(* The FAT backend (kernel/fs/fat): cluster chains, directories, the       *)
(* cluster cursor of reads and writes, the zero fill of a gap, and the     *)
(* order in which changed sectors are written through to the device.       *)
(*                                                                         *)
(* A cluster has CELLS cells; a cell is a byte of a file or an entry of a  *)
(* directory, and a zero byte is the mark that ends a directory.  Cluster  *)
(* 0 stands for the fixed root directory of FAT16.  A name takes one       *)
(* entry.  The copies of the table are one, and the cells of a cluster are *)
(* flushed together.                                                       *)
(*                                                                         *)
(* Each operation runs under the filesystem gate and is one step.  An      *)
(* operation works on w: the volume in memory (v), the disk (d), and every *)
(* state the disk goes through on the way (seen), which is what a power    *)
(* cut may leave when the device writes in order.  Writes through do not   *)
(* fail, so that fat_block_sync finds nothing to do.                       *)
(***************************************************************************)
EXTENDS Integers, Sequences, FiniteSetsExt
LOCAL INSTANCE SequencesExt

CONSTANTS Clusters,            \* numbers from 2 up
          CELLS, RootCells,
          GAP,                 \* zeroes fill_gap writes at a time, a part of CELLS
          FatNames, DirNames,  \* names of files, and those of them for directories
          MaxSize              \* bound on the size of a file

EOC == 1                       \* end of chain; 0 is a free cluster

VARIABLES
    volume, device,
    contents,        \* history: what was written to the file at each place
    kept             \* observer: the latest operation kept its promises

fatVars == <<volume, device, contents, kept>>

Cell(kind, name, first, size) == [kind |-> kind, name |-> name, first |-> first, size |-> size]
Zero == Cell("zero", "", 0, 0)
Erased == Cell("erased", "", 0, 0)
Byte(b) == Cell("byte", "", 0, b)
Cleared == [i \in 1 .. CELLS |-> Zero]
NoPlace == <<0, 0>>

FatInit ==
    /\ volume = [fat |-> [c \in Clusters |-> 0],
                 data |-> [c \in Clusters \cup {0} |->
                             IF c = 0 THEN [i \in 1 .. RootCells |-> Zero] ELSE Cleared]]
    /\ device = volume
    /\ contents = [p \in (Clusters \cup {0}) \X (1 .. Max({CELLS, RootCells})) |-> <<>>]
    /\ kept = TRUE

-----------------------------------------------------------------------------
\* The cell at a place <<cluster, index>>.
At(v, place) == v.data[place[1]][place[2]]

FreeClusters(v) == {c \in Clusters : v.fat[c] = 0}

\* next_cluster from c on, at most as often as there are clusters.
RECURSIVE ChainFrom(_, _, _)
ChainFrom(v, c, n) ==
    IF c \notin Clusters \/ n = 0 THEN <<>> ELSE <<c>> \o ChainFrom(v, v.fat[c], n - 1)

Chain(v, first) == ChainFrom(v, first, Cardinality(Clusters))

Flushed(w, disk) == [w EXCEPT !.d = disk, !.seen = @ \cup {disk}]

fat_flush_bytes(w, c) == Flushed(w, [w.d EXCEPT !.data[c] = w.v.data[c]])

fat_set(w, c, value) ==
    Flushed([w EXCEPT !.v.fat[c] = value], [w.d EXCEPT !.fat[c] = value])

\* A cell changed in memory and flushed.
PutCell(w, place, cell) ==
    fat_flush_bytes([w EXCEPT !.v.data[place[1]][place[2]] = cell], place[1])

NextFree(w) == Min(FreeClusters(w.v))

\* There is a free cluster: the lowest is taken, and cleared before it is used.
fat_impl_alloc_cluster(w) ==
    LET c == NextFree(w)
        marked == fat_set(w, c, EOC)
    IN  fat_flush_bytes([marked EXCEPT !.v.data[c] = Cleared], c)

fat_impl_free_chain(w, first) ==
    FoldLeft(LAMBDA x, c : fat_set(x, c, 0), w, Chain(w.v, first))

-----------------------------------------------------------------------------
\* The places of a directory's cells, in the order of a dir_cursor.
Places(v, dir) ==
    LET run == Chain(v, dir) IN
    IF dir = 0 THEN [i \in 1 .. RootCells |-> <<0, i>>]
    ELSE [k \in 1 .. Len(run) * CELLS |-> <<run[(k - 1) \div CELLS + 1], 1 + ((k - 1) % CELLS)>>]

\* Its usable entries, up to the first zero.  A byte of a file would pass for one.
Entries(v, dir) ==
    LET ps == Places(v, dir) IN
    {ps[k] : k \in {k \in DOMAIN ps : /\ At(v, ps[k]).kind \in {"file", "dir", "byte"}
                                      /\ \A j \in 1 .. k : At(v, ps[j]) # Zero}}

fat_impl_find_entry(v, dir, name) == {p \in Entries(v, dir) : At(v, p).name = name}

\* A free place in a directory, which grows by a cluster when it has none; the
\* fixed root does not grow.
alloc_dir_slots(w, dir) ==
    LET ps == Places(w.v, dir)
        free == {k \in DOMAIN ps : At(w.v, ps[k]).kind \in {"zero", "erased"}}
    IN
    IF free # {} THEN [w |-> w, place |-> ps[Min(free)]]
    ELSE IF dir = 0 \/ FreeClusters(w.v) = {} THEN [w |-> w, place |-> NoPlace]
    ELSE [w |-> fat_set(fat_impl_alloc_cluster(w), Last(Chain(w.v, dir)), NextFree(w)),
          place |-> <<NextFree(w), 1>>]

fat_impl_create_entry(w, dir, name, kind, first) ==
    LET slot == alloc_dir_slots(w, dir) IN
    IF slot.place = NoPlace THEN slot
    ELSE [slot EXCEPT !.w = PutCell(slot.w, slot.place, Cell(kind, name, first, 0))]

\* fat_impl_init_dir_cluster: "." and ".." come first.
WithDots(w, c, parent) ==
    fat_flush_bytes([w EXCEPT !.v.data[c] = [Cleared EXCEPT ![1] = Cell("dot", ".", c, 0),
                                                            ![2] = Cell("dot", "..", parent, 0)]], c)

-----------------------------------------------------------------------------
\* The entries of the tree below dir with their paths, at most n deep.
RECURSIVE Below(_, _, _, _)
Below(v, dir, path, n) ==
    IF n = 0 THEN {} ELSE
    UNION {LET e == At(v, p)
               here == Append(path, e.name)
           IN  {<<here, p>>} \cup
                 (IF e.kind = "dir" /\ e.first \in Clusters THEN Below(v, e.first, here, n - 1)
                  ELSE {})
           : p \in Entries(v, dir)}

Tree(v) == Below(v, 0, <<>>, Cardinality(Clusters) + 1)
Directories(v) == {0} \cup {At(v, x[2]).first : x \in {x \in Tree(v) : At(v, x[2]).kind = "dir"}}
Files(v) == {x[2] : x \in {x \in Tree(v) : At(v, x[2]).kind = "file"}}

ClustersOf(v, place) == ToSet(Chain(v, At(v, place).first))

\* No cluster belongs to two entries of the tree.
NoCrossLinks(v, tree) ==
    LET owned == {<<x, ClustersOf(v, x[2])>> : x \in tree} IN
    \A x, y \in owned : x # y => x[2] \cap y[2] = {}

\* What a power cut may leave between the volume before w and the one after it:
\* no path that neither has, nor a volume the operation passes through, and no
\* shared cluster.  ChainsAreWhole is about the two ends.
CutSafe(w, through) ==
    LET ends == {volume, w.v}
        paths == {x[1] : x \in UNION {Tree(v) : v \in ends \cup through}} IN
    \A d \in w.seen \ ends : \E tree \in {Tree(d)} :
        /\ {x[1] : x \in tree} \subseteq paths
        /\ NoCrossLinks(d, tree)

Start == [v |-> volume, d |-> device, seen |-> {}]

\* An operation ends with w (bound, so that it is computed once); a power cut
\* in it may also leave the whole volumes it passes through.
Done(outcome, through) ==
    \E w \in {outcome} :
        /\ volume' = w.v /\ device' = w.d
        /\ kept' = CutSafe(w, through)

-----------------------------------------------------------------------------
\* Removal of the entry at a place: its chain first, then the entry.
Removed(w, place) ==
    PutCell(fat_impl_free_chain(w, At(w.v, place).first), place, Erased)

\* create of fat_vfs.c; without memory for the inode the entry is removed again.
create(dir, name, memory) ==
    /\ fat_impl_find_entry(volume, dir, name) = {}
    /\ \E made \in {fat_impl_create_entry(Start, dir, name, "file", 0)} :
         \/ /\ made.place = NoPlace \/ memory
            /\ Done(made.w, {})
         \/ /\ made.place # NoPlace /\ ~memory
            /\ Done(Removed(made.w, made.place), {made.w.v})
    /\ UNCHANGED contents

fat_mkdir_at(dir, name) ==
    /\ fat_impl_find_entry(volume, dir, name) = {} /\ FreeClusters(volume) # {}
    /\ LET c == NextFree(Start) IN
       \E made \in {fat_impl_create_entry(WithDots(fat_impl_alloc_cluster(Start), c, dir),
                                          dir, name, "dir", c)} :
         Done(IF made.place = NoPlace THEN fat_impl_free_chain(made.w, c) ELSE made.w, {})
    /\ UNCHANGED contents

\* unlink and rmdir.  The VFS lets nobody remove what is open.
fat_remove_at(dir, name) ==
    \E place \in fat_impl_find_entry(volume, dir, name) :
        /\ At(volume, place).kind = "dir" => Entries(volume, At(volume, place).first) = {}
        /\ Done(Removed(Start, place), {})
        /\ contents' = [contents EXCEPT ![place] = <<>>]

fat_truncate(place) ==
    LET freed == fat_impl_free_chain(Start, At(volume, place).first) IN
    /\ Done(PutCell(freed, place, [At(volume, place) EXCEPT !.first = 0, !.size = 0]), {})
    /\ contents' = [contents EXCEPT ![place] = <<>>]

-----------------------------------------------------------------------------
\* An open file while it is read or written: where it stands, the cluster that
\* holds that position, how many bytes went over, and whether it can go on.
Stand(w, cur, pos) == [w |-> w, cur |-> cur, pos |-> pos, n |-> 0, ok |-> TRUE]

\* Faulty variant of fat_seek: the end of a file that fills its last cluster is
\* looked for in the next one.
SeeksPastChain(w, place, position) ==
    LET e == At(w.v, place)
        chain == Chain(w.v, e.first)
        skip == position \div CELLS
    IN  IF position = 0 \/ e.size = 0 THEN Stand(w, e.first, position)
        ELSE IF skip < Len(chain) THEN Stand(w, chain[skip + 1], position)
        ELSE [Stand(w, e.first, 0) EXCEPT !.ok = FALSE]

\* cursor() of fat_vfs.c and fat_seek, to a position in the file or at its end:
\* at the end of a full last cluster it stays there, for an append.
fat_seek(w, place, position) ==
    LET e == At(w.v, place)
        chain == Chain(w.v, e.first)
        skip == position \div CELLS
                - (IF position = e.size /\ position % CELLS = 0 THEN 1 ELSE 0)
    IN  IF position = 0 \/ e.size = 0 THEN Stand(w, e.first, position)
        ELSE IF skip < Len(chain) THEN Stand(w, chain[skip + 1], position)
        ELSE [Stand(w, e.first, 0) EXCEPT !.ok = FALSE]

\* On to the next cluster of the chain, which is made longer at its end.
Advance(f) ==
    LET next == f.w.v.fat[f.cur] IN
    IF next \in Clusters THEN [f EXCEPT !.cur = next]
    ELSE IF next # EOC \/ FreeClusters(f.w.v) = {} THEN [f EXCEPT !.ok = FALSE]
    ELSE [f EXCEPT !.w = fat_set(fat_impl_alloc_cluster(f.w), f.cur, NextFree(f.w)),
                   !.cur = NextFree(f.w)]

\* The first cluster of an empty file, not flushed yet in the entry.
FirstCluster(f, place) ==
    IF At(f.w.v, place).first # 0 THEN f
    ELSE IF FreeClusters(f.w.v) = {} THEN [f EXCEPT !.ok = FALSE]
    ELSE [f EXCEPT !.w = [fat_impl_alloc_cluster(f.w) EXCEPT
                            !.v.data[place[1]][place[2]].first = NextFree(f.w)],
                   !.cur = NextFree(f.w)]

\* The loop of fat_write, one cluster at a time.
RECURSIVE WriteClusters(_, _)
WriteClusters(f, bytes) ==
    IF bytes = <<>> \/ ~f.ok THEN f ELSE
    LET offset == f.pos % CELLS
        chunk == Min({Len(bytes), CELLS - offset})
        filled == [i \in 1 .. CELLS |-> IF i \in offset + 1 .. offset + chunk
                                        THEN bytes[i - offset] ELSE f.w.v.data[f.cur][i]]
        put == [f EXCEPT !.w = fat_flush_bytes([f.w EXCEPT !.v.data[f.cur] = filled], f.cur),
                         !.pos = @ + chunk, !.n = @ + chunk]
        rest == SubSeq(bytes, chunk + 1, Len(bytes))
    IN  WriteClusters(IF put.pos % CELLS = 0 /\ rest # <<>> THEN Advance(put) ELSE put, rest)

\* At the end of a full last cluster the chain is made longer first.
Ready(f, size) ==
    IF f.ok /\ f.pos > 0 /\ f.pos = size /\ f.pos % CELLS = 0 THEN Advance(f) ELSE f

\* The entry with the size and the first cluster, after the data; a position at
\* the end of a cluster moves on to the next one, if there is one.
Published(f, place) ==
    LET entry == [At(f.w.v, place) EXCEPT !.size = Max({@, f.pos})]
        next == f.w.v.fat[f.cur]
    IN  [f EXCEPT !.w = PutCell(@, place, entry), !.ok = TRUE,
                  !.cur = IF f.pos < entry.size /\ f.pos % CELLS = 0 /\ next \in Clusters
                          THEN next ELSE @]

\* fat_write: nothing is changed when the first byte has no cluster.
fat_write(f, place, bytes) ==
    LET ready == Ready(FirstCluster(f, place), At(f.w.v, place).size)
    IN  IF ready.ok THEN Published(WriteClusters(ready, bytes), place) ELSE [f EXCEPT !.n = 0]

\* fill_gap: zeroes from the end of the file up to a position, GAP at a time.
WroteAll(f, count) == [f EXCEPT !.ok = f.n = count]

RECURSIVE FillGap(_, _, _)
FillGap(f, place, gap) ==
    IF gap = 0 \/ ~f.ok THEN f ELSE
    LET count == Min({gap, GAP})
        put == fat_write([f EXCEPT !.n = 0], place, [i \in 1 .. count |-> Zero])
    IN  FillGap(WroteAll(put, count), place, gap - count)

\* write of fat_vfs.c: the file as it stands after the call.
WriteAfter(gap, place, position, bytes) ==
    LET at == fat_seek(gap.w, place, position)
    IN  IF gap.ok /\ at.ok THEN fat_write(at, place, bytes) ELSE [gap EXCEPT !.n = 0]

Written(place, position, bytes) ==
    LET size == At(volume, place).size
    IN  WriteAfter(IF position > size
                   THEN FillGap(fat_seek(Start, place, size), place, position - size)
                   ELSE Stand(Start, 0, 0),
                   place, position, bytes)

\* It may fall short only when the volume is full.
write(place, position, bytes) ==
    \E f \in {Written(place, position, bytes)} :
        LET old == contents[place]
            size == IF f.n = 0 THEN At(f.w.v, place).size ELSE Max({Len(old), position + f.n})
        IN
        /\ volume' = f.w.v /\ device' = f.w.d
        /\ kept' = /\ CutSafe(f.w, {})
                   /\ f.n < Len(bytes) => FreeClusters(f.w.v) = {}
        /\ contents' = [contents EXCEPT ![place] =
             [i \in 1 .. size |-> IF i \in position + 1 .. position + f.n THEN bytes[i - position]
                                  ELSE IF i <= Len(old) THEN old[i] ELSE Zero]]

FatNext ==
    \/ \E dir \in Directories(volume), name \in FatNames :
         \/ \E memory \in BOOLEAN : create(dir, name, memory)
         \/ name \in DirNames /\ fat_mkdir_at(dir, name)
         \/ fat_remove_at(dir, name)
    \/ \E place \in Files(volume) :
         \/ fat_truncate(place)
         \/ \E position \in 0 .. MaxSize - 1 : \E n \in 1 .. MaxSize - position :
              write(place, position, [i \in 1 .. n |-> Byte(position + i)])

-----------------------------------------------------------------------------
\* fat_read from a place it stands at.
RECURSIVE ReadFrom(_, _, _)
ReadFrom(f, size, length) ==
    IF length = 0 \/ f.pos >= size \/ f.cur \notin Clusters THEN <<>> ELSE
    LET offset == f.pos % CELLS
        chunk == Min({length, CELLS - offset, size - f.pos})
        moved == [f EXCEPT !.pos = @ + chunk]
        next == f.w.v.fat[f.cur]
        bytes == SubSeq(f.w.v.data[f.cur], offset + 1, offset + chunk)
    IN  IF moved.pos % CELLS # 0 \/ moved.pos >= size
        THEN bytes \o ReadFrom(moved, size, length - chunk)
        ELSE IF next \notin Clusters THEN bytes
        ELSE bytes \o ReadFrom([moved EXCEPT !.cur = next], size, length - chunk)

fat_read(place, position, length) ==
    ReadFrom(fat_seek(Start, place, position), At(volume, place).size, length)

\* From any position a file reads back what was written to it, with zeroes
\* where nothing was.
ReadsBack ==
    \A place \in Files(volume) :
        LET size == Len(contents[place]) IN
        /\ At(volume, place).size = size
        /\ \A p \in 0 .. size - 1 :
             fat_read(place, p, size - p) = SubSeq(contents[place], p + 1, size)

\* Every cluster in use belongs to one entry, and every chain ends.
ChainsAreWhole ==
    /\ NoCrossLinks(volume, Tree(volume))
    /\ Clusters \ FreeClusters(volume) = UNION {ClustersOf(volume, x[2]) : x \in Tree(volume)}
    /\ \A x \in Tree(volume) :
         ClustersOf(volume, x[2]) # {} => volume.fat[Last(Chain(volume, At(volume, x[2]).first))] = EOC

\* The FAT backend through creations, writes past the end, truncations and
\* removals on a volume that fills up: files read back, chains are whole, the
\* device has every change as soon as the operation is over, as fat_block.c
\* says, and what a power cut leaves shows no entry of another time and no
\* cluster in two files.
FatInv == ReadsBack /\ ChainsAreWhole /\ device = volume /\ kept
=============================================================================
