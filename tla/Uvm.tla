-------------------------------- MODULE Uvm --------------------------------
(***************************************************************************)
(* One user address space (memory/uvm.c): the table of reservations, the   *)
(* mmap arena with its list of holes, and the page table entries that are  *)
(* filled from the frame pool on first touch.                              *)
(*                                                                         *)
(* Addresses are page numbers; a range is its first page and its length.   *)
(* Of a page table entry the frame and the borrowed bit (VMM_SHARED) are   *)
(* kept: the permissions of a present page decide nothing here, those of a *)
(* reservation decide which neighbours merge.  vmm_map_in always finds a   *)
(* page table, and pmm_alloc_frame is what FramePool promises: some free   *)
(* frame, or none when none is left.                                       *)
(*                                                                         *)
(* `astray` remembers that the program mapped MAP_FIXED inside the arena,  *)
(* or unmapped arena addresses that were never handed out.  Neither is     *)
(* refused, and both make the arena hand out addresses that are in use.    *)
(***************************************************************************)
EXTENDS Integers, FiniteSets, FiniteSetsExt

CONSTANTS USER_VA_MIN, USER_VA_MAX,
          USER_MMAP_BASE, USER_MMAP_LIMIT,
          UserFrames,          \* the free general frames
          NoFrame,
          ShmemPage,           \* where sys_shmem_share maps a borrowed page
          BorrowedFrame,       \* its frame, which another space owns
          MAX_USER_VMAS, TASK_MMAP_HOLES,
          PteFlags,
          MaxPages             \* bound on the length of a range

ASSUME UvmAssumption ==
    /\ 0 < USER_VA_MIN /\ USER_VA_MIN <= USER_MMAP_BASE
    /\ USER_MMAP_BASE <= USER_MMAP_LIMIT /\ USER_MMAP_LIMIT <= USER_VA_MAX
    /\ ShmemPage \in USER_MMAP_LIMIT .. (USER_VA_MAX - 1)
    /\ NoFrame \notin UserFrames /\ BorrowedFrame \notin UserFrames \cup {NoFrame}

VARIABLES vmas, mmap_holes, mmap_next_va, pte, astray,
          taken      \* the frames in use, the borrowed one among them

uvmVars == <<vmas, mmap_holes, mmap_next_va, pte, astray, taken>>

Va == USER_VA_MIN .. (USER_VA_MAX - 1)
Slots == 1 .. MAX_USER_VMAS
HoleSlots == 1 .. TASK_MMAP_HOLES
NoVma == [start |-> 0, end |-> 0, pte_flags |-> 0, used |-> FALSE]
NoHole == [base |-> 0, len |-> 0]
NoPte == [frame |-> NoFrame, shared |-> FALSE]

uvm_init ==
    /\ vmas = [i \in Slots |-> NoVma]
    /\ mmap_holes = [i \in HoleSlots |-> NoHole]
    /\ mmap_next_va = USER_MMAP_BASE
    /\ pte = [p \in Va |-> NoPte]
    /\ astray = FALSE
    /\ taken = {BorrowedFrame}

-----------------------------------------------------------------------------
uvm_range_ok(base, n) == USER_VA_MIN <= base /\ base + n <= USER_VA_MAX

Covers(v, p) == v.used /\ v.start <= p /\ p < v.end
Reservation(p) == {i \in Slots : Covers(vmas[i], p)}
FreeSlots == {i \in Slots : ~vmas[i].used}
Present(p) == pte[p] # NoPte
PagesOf(base, n) == base .. (base + n - 1)

range_is_unmapped(base, n) ==
    \A p \in PagesOf(base, n) : Reservation(p) = {} /\ ~Present(p)

\* The interval a freed range grows to, absorbing every hole it touches.
Touches(h, base, end) == h.len > 0 /\ h.base + h.len >= base /\ h.base <= end
HoleSpan(base, end) ==
    LET grow[k \in 0 .. TASK_MMAP_HOLES] ==
            IF k = 0 THEN [base |-> base, end |-> end]
            ELSE LET s == grow[k - 1]
                     T == {i \in HoleSlots : Touches(mmap_holes[i], s.base, s.end)}
                 IN [base |-> Min({s.base} \cup {mmap_holes[i].base : i \in T}),
                     end |-> Max({s.end} \cup {mmap_holes[i].base + mmap_holes[i].len : i \in T})]
    IN  grow[TASK_MMAP_HOLES]

hole_add(base, n) ==
    LET s == HoleSpan(base, base + n)
        kept == [i \in HoleSlots |->
                    IF Touches(mmap_holes[i], s.base, s.end) THEN NoHole ELSE mmap_holes[i]]
        empty == {i \in HoleSlots : kept[i].len = 0}
    IN  mmap_holes' = IF empty = {} THEN kept
                      ELSE [kept EXCEPT ![Min(empty)] =
                                [base |-> s.base, len |-> s.end - s.base]]

\* First fit over the holes, then the bump pointer; no choice when neither fits.
Fitting(n) == {i \in HoleSlots : mmap_holes[i].len > 0 /\ mmap_holes[i].len >= n}
\* Faulty variant: the hole keeps the pages that were handed out.
ShrinksAtEnd(h, n) == IF h.len = n THEN NoHole ELSE [base |-> h.base, len |-> h.len - n]

Shrunk(h, n) == IF h.len = n THEN NoHole ELSE [base |-> h.base + n, len |-> h.len - n]
arena_alloc(n, base) ==
    \/ /\ Fitting(n) # {}
       /\ base = mmap_holes[Min(Fitting(n))].base
       /\ mmap_holes' = [mmap_holes EXCEPT ![Min(Fitting(n))] = Shrunk(@, n)]
       /\ UNCHANGED mmap_next_va
    \/ /\ Fitting(n) = {} /\ mmap_next_va + n <= USER_MMAP_LIMIT
       /\ base = mmap_next_va
       /\ mmap_next_va' = mmap_next_va + n
       /\ UNCHANGED mmap_holes

\* Grows a neighbour with the same permissions, or both, or takes a slot.
Record(base, n, flags) ==
    LET same == {i \in Slots : vmas[i].used /\ vmas[i].pte_flags = flags}
        below == {i \in same : vmas[i].end = base}
        above == {i \in same : vmas[i].end # base /\ vmas[i].start = base + n}
    IN
    vmas' = IF below # {} /\ above # {}
            THEN [vmas EXCEPT ![Max(below)].end = vmas[Max(above)].end, ![Max(above)] = NoVma]
            ELSE IF below # {} THEN [vmas EXCEPT ![Max(below)].end = base + n]
            ELSE IF above # {} THEN [vmas EXCEPT ![Max(above)].start = base]
            ELSE [vmas EXCEPT ![Min(FreeSlots)] =
                    [start |-> base, end |-> base + n, pte_flags |-> flags, used |-> TRUE]]

InArena(base, n) == base < USER_MMAP_LIMIT /\ base + n > USER_MMAP_BASE

uvm_reserve_fixed(base, n, flags) ==
    /\ FreeSlots # {} /\ uvm_range_ok(base, n) /\ range_is_unmapped(base, n)
    /\ Record(base, n, flags)
    /\ astray' = (astray \/ InArena(base, n))
    /\ UNCHANGED <<mmap_holes, mmap_next_va, pte, taken>>

uvm_reserve(n, flags) ==
    /\ FreeSlots # {}
    /\ \E base \in USER_MMAP_BASE .. (USER_MMAP_LIMIT - 1) :
            arena_alloc(n, base) /\ Record(base, n, flags)
    /\ UNCHANGED <<pte, astray, taken>>

\* First touch of a reserved page, by the program or by uvm_buffer_ok.  (When no
\* frame is left the touch fails and nothing changes.)
uvm_fault_in(p) ==
    /\ ~Present(p) /\ Reservation(p) # {}
    /\ \E f \in UserFrames \ taken :
            /\ taken' = taken \cup {f}
            /\ pte' = [pte EXCEPT ![p] = [frame |-> f, shared |-> FALSE]]
    /\ UNCHANGED <<vmas, mmap_holes, mmap_next_va, astray>>

\* Commits the missing pages in order; a page outside every reservation or an
\* empty pool stops it, and the pages committed so far stay.
uvm_protect(base, n) ==
    LET bad == {p \in PagesOf(base, n) : ~Present(p) /\ Reservation(p) = {}}
        missing == {p \in PagesOf(base, Min(bad \cup {base + n}) - base) : ~Present(p)}
        free == UserFrames \ taken
        granted == {p \in missing : Cardinality({q \in missing : q <= p}) <= Cardinality(free)}
    IN
    /\ uvm_range_ok(base, n) /\ granted # {}
    /\ \E f \in [granted -> free] :
            /\ \A p, q \in granted : f[p] = f[q] => p = q
            /\ pte' = [p \in Va |-> IF p \in granted THEN [frame |-> f[p], shared |-> FALSE]
                                    ELSE pte[p]]
            /\ taken' = taken \cup {f[p] : p \in granted}
    /\ UNCHANGED <<vmas, mmap_holes, mmap_next_va, astray>>

\* vma_remove_range: cuts start..end out of the table.  A reservation with
\* something left on both sides needs a free slot for its right-hand side.
Meets(v, start, end) == v.used /\ start < v.end /\ end > v.start
Around(start, end) == {i \in Slots : vmas[i].used /\ start > vmas[i].start /\ end < vmas[i].end}

Cut(v, start, end) ==
    IF ~Meets(v, start, end) THEN v
    ELSE IF start <= v.start /\ end >= v.end THEN NoVma
    ELSE IF start <= v.start THEN [v EXCEPT !.start = end]
    ELSE [v EXCEPT !.end = start]
vma_remove_range(start, end) ==
    LET cut == [i \in Slots |-> Cut(vmas[i], start, end)]
        around == Around(start, end)
    IN
    /\ around # {} => FreeSlots # {}
    /\ vmas' = IF around = {} THEN cut
               ELSE [cut EXCEPT ![Min(FreeSlots)] = [vmas[Max(around)] EXCEPT !.start = end]]

\* Unmaps pages and gives the private ones' frames back.
DropPages(P) ==
    /\ pte' = [p \in Va |-> IF p \in P THEN NoPte ELSE pte[p]]
    /\ taken' = taken \ {pte[p].frame : p \in {q \in P : Present(q) /\ ~pte[q].shared}}

uvm_release(base, n) ==
    /\ uvm_range_ok(base, n)
    /\ vma_remove_range(base, base + n)
    /\ DropPages(PagesOf(base, n))
    /\ IF base >= USER_MMAP_BASE /\ base + n <= USER_MMAP_LIMIT
       THEN hole_add(base, n) /\ astray' = (astray \/ base + n > mmap_next_va)
       ELSE UNCHANGED <<mmap_holes, astray>>
    /\ UNCHANGED mmap_next_va

uvm_discard(base, n) ==
    /\ uvm_range_ok(base, n)
    /\ \A p \in PagesOf(base, n) : Reservation(p) # {} /\ ~pte[p].shared
    /\ DropPages(PagesOf(base, n))
    /\ UNCHANGED <<vmas, mmap_holes, mmap_next_va, astray>>

\* Another process shares a page into this space, at shmem_next_va.
sys_shmem_map ==
    /\ ~Present(ShmemPage)
    /\ pte' = [pte EXCEPT ![ShmemPage] = [frame |-> BorrowedFrame, shared |-> TRUE]]
    /\ UNCHANGED <<vmas, mmap_holes, mmap_next_va, astray, taken>>

UvmNext ==
    \/ \E base \in Va, n \in 1 .. MaxPages :
            \/ \E flags \in PteFlags : uvm_reserve_fixed(base, n, flags)
            \/ uvm_protect(base, n)
            \/ uvm_release(base, n)
            \/ uvm_discard(base, n)
    \/ \E n \in 1 .. MaxPages, flags \in PteFlags : uvm_reserve(n, flags)
    \/ \E p \in Va : uvm_fault_in(p)
    \/ sys_shmem_map

UvmSpec == uvm_init /\ [][UvmNext]_uvmVars

-----------------------------------------------------------------------------
(* Properties *)

UvmTypeOK ==
    /\ \A i \in Slots :
            vmas[i] = NoVma \/ (vmas[i].used /\ vmas[i].start \in Va
                                /\ vmas[i].end \in vmas[i].start + 1 .. USER_VA_MAX)
    /\ \A i \in HoleSlots : mmap_holes[i].len \in 0 .. (USER_MMAP_LIMIT - USER_MMAP_BASE)
    /\ mmap_next_va \in USER_MMAP_BASE .. USER_MMAP_LIMIT
    /\ \A p \in Va : pte[p].frame \in UserFrames \cup {NoFrame, BorrowedFrame} /\ pte[p].shared \in BOOLEAN
    /\ astray \in BOOLEAN

\* Whatever the program maps, touches, protects, discards and unmaps: each of
\* its present pages has a frame of its own, these frames and no others are
\* taken from the pool, and a borrowed frame is never given back.
PagesOwnFrames ==
    LET private == {p \in Va : Present(p) /\ ~pte[p].shared} IN
    /\ \A p, q \in private : pte[p].frame = pte[q].frame => p = q
    /\ taken = {BorrowedFrame} \cup {pte[p].frame : p \in private}

\* Holes neither overlap nor touch, even after a range is released twice.
HolesApart ==
    \A i, j \in HoleSlots :
        mmap_holes[i].len > 0 /\ mmap_holes[j].len > 0 /\ i # j =>
            \/ mmap_holes[i].base + mmap_holes[i].len < mmap_holes[j].base
            \/ mmap_holes[j].base + mmap_holes[j].len < mmap_holes[i].base

InHole(p) == \E i \in HoleSlots :
                p \in PagesOf(mmap_holes[i].base, mmap_holes[i].len)

\* The arena hands out no address that is reserved or mapped: a page is in one
\* reservation at most, a page in a hole or above the bump pointer in none, and
\* every private page in one.  This needs a program that keeps MAP_FIXED out of
\* the arena and unmaps only what it was given.
ArenaHandsOutFreePages ==
    ~astray =>
        \A p \in Va :
            /\ Cardinality(Reservation(p)) <= 1
            /\ Reservation(p) # {} => ~InHole(p)
            /\ InHole(p) => p < mmap_next_va
            /\ p \in mmap_next_va .. (USER_MMAP_LIMIT - 1) => Reservation(p) = {}
            /\ Present(p) /\ ~pte[p].shared => Reservation(p) # {}

\* A user address space as mmap, munmap and the fault handler rely on it: each
\* private page owns its frame, holes stay apart, and the arena hands out free
\* pages only.
UvmIsSound == UvmTypeOK /\ PagesOwnFrames /\ HolesApart /\ ArenaHandsOutFreePages
=============================================================================
