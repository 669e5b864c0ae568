-------------------------------- MODULE Heap --------------------------------
(***************************************************************************)
(* The kernel heap (kernel/memory/heap.c): a doubly linked list of blocks  *)
(* with their headers in band, first fit, split on allocation, merged with *)
(* both neighbours when freed, and grown page by page from the frame       *)
(* allocator, which may give fewer pages than asked for.                   *)
(*                                                                         *)
(* Addresses and sizes count units of KMALLOC_ALIGN bytes from HEAP_BASE,  *)
(* so that a request is rounded up already; a header is two units and the  *)
(* null pointer is -1.  The kernel runs one task at a time and kmalloc     *)
(* does not sleep: each call is one step.                                  *)
(***************************************************************************)
EXTENDS Integers, FiniteSets, FiniteSetsExt

CONSTANTS
    PageUnits,     \* 4096 bytes
    InitialPages,  \* HEAP_INITIAL_PAGES
    HeapPages,     \* pages the frame allocator has in all
    Sizes          \* sizes asked for, in units

Header == 2
SPLIT_THRESHOLD == 1
Null == -1

ASSUME HeapAssumption ==
    /\ PageUnits \in Nat /\ PageUnits > Header
    /\ InitialPages \in 1 .. HeapPages
    /\ Sizes \subseteq Nat \ {0}

VARIABLES
    blocks,    \* address of a header in the list -> the header
    head,
    tail,
    heap_end,
    given      \* history: address of a payload -> the size asked for

heapVars == <<blocks, head, tail, heap_end, given>>

Without(f, x) == [a \in DOMAIN f \ {x} |-> f[a]]
With(f, x, v) == [a \in DOMAIN f \cup {x} |-> IF a = x THEN v ELSE f[a]]

\* Writes a pointer of the block at a, if there is one.
Link(f, a, field, to) == IF a = Null THEN f ELSE [f EXCEPT ![a][field] = to]

-----------------------------------------------------------------------------
(* A heap h: the list and its two ends. *)

Now == [blocks |-> blocks, head |-> head, tail |-> tail, end |-> heap_end]

\* Maps `pages` pages and appends them: to a free tail, or as a new block.
list_append(h, pages) ==
    LET bytes == pages * PageUnits
        grown == [h EXCEPT !.end = @ + bytes]
        new == [size |-> bytes - Header, free |-> TRUE, next |-> Null, prev |-> h.tail]
    IN  IF h.blocks[h.tail].free THEN [grown EXCEPT !.blocks[h.tail].size = @ + bytes]
        ELSE [grown EXCEPT !.blocks = With(Link(@, h.tail, "next", h.end), h.end, new),
                           !.tail = h.end]

FitFor(h, size) == {a \in DOMAIN h.blocks : h.blocks[a].free /\ h.blocks[a].size >= size}

\* The list is in the order of the addresses, so that the first fit is the lowest.
Place(h, size) ==
    LET a == Min(FitFor(h, size))
        b == h.blocks[a]
        split == a + Header + size
        rest == [size |-> b.size - size - Header, free |-> TRUE, next |-> b.next, prev |-> a]
    IN  IF b.size >= size + Header + SPLIT_THRESHOLD
        THEN [h EXCEPT !.blocks = With([Link(@, b.next, "prev", split) EXCEPT
                                            ![a] = [b EXCEPT !.size = size, !.next = split,
                                                             !.free = FALSE]],
                                       split, rest),
                       !.tail = IF b.next = Null THEN split ELSE @]
        ELSE [h EXCEPT !.blocks[a].free = FALSE]

Becomes(h) ==
    /\ blocks' = h.blocks /\ head' = h.head /\ tail' = h.tail /\ heap_end' = h.end

\* The call finds a block, or grows the heap by what frames there are and looks
\* again; with too few frames the pages it got stay in the heap.
kmalloc(size, frames) ==
    LET needed == (size + Header + PageUnits - 1) \div PageUnits
        mapped == Min({needed, frames})
        h == IF FitFor(Now, size) # {} \/ mapped = 0 THEN Now ELSE list_append(Now, mapped)
    IN  /\ heap_end + frames * PageUnits <= HeapPages * PageUnits
        /\ IF FitFor(h, size) = {} THEN Becomes(h) /\ UNCHANGED given
           ELSE /\ Becomes(Place(h, size))
                /\ given' = With(given, Min(FitFor(h, size)) + Header, size)

\* Faulty variant: the tail stays where it was.
ForgetsTail(h, a) ==
    LET n == h.blocks[a].next
        after == h.blocks[n].next
        wide == [h.blocks[a] EXCEPT !.size = @ + Header + h.blocks[n].size, !.next = after]
    IN  [h EXCEPT !.blocks = Without(Link([h.blocks EXCEPT ![a] = wide], after, "prev", a), n)]

\* Block a, and the free block after it, become one.
Absorb(h, a) ==
    LET n == h.blocks[a].next
        after == h.blocks[n].next
        wide == [h.blocks[a] EXCEPT !.size = @ + Header + h.blocks[n].size, !.next = after]
    IN  [h EXCEPT !.blocks = Without(Link([h.blocks EXCEPT ![a] = wide], after, "prev", a), n),
                  !.tail = IF after = Null THEN a ELSE @]

IsFree(h, a) == a # Null /\ h.blocks[a].free

kfree(ptr) ==
    LET b == ptr - Header
        h == [Now EXCEPT !.blocks[b].free = TRUE]
        forward == IF IsFree(h, h.blocks[b].next) THEN Absorb(h, b) ELSE h
        p == forward.blocks[b].prev
    IN  /\ ptr \in DOMAIN given
        /\ Becomes(IF IsFree(forward, p) THEN Absorb(forward, p) ELSE forward)
        /\ given' = Without(given, ptr)

-----------------------------------------------------------------------------
\* heap_init, for any number of pages that it gets.
HeapInit ==
    \E pages \in 1 .. InitialPages :
        /\ blocks = [a \in {0} |-> [size |-> pages * PageUnits - Header, free |-> TRUE,
                                    next |-> Null, prev |-> Null]]
        /\ head = 0 /\ tail = 0 /\ heap_end = pages * PageUnits
        /\ given = [a \in {} |-> 0]

HeapNext ==
    \/ \E size \in Sizes, frames \in 0 .. HeapPages : kmalloc(size, frames)
    \/ \E ptr \in DOMAIN given : kfree(ptr)

HeapSpec == HeapInit /\ [][HeapNext]_heapVars

-----------------------------------------------------------------------------
\* The list runs from head to tail and back, its blocks tile the heap and no two
\* free ones are neighbours, as the head of heap.c says; a block in use is one
\* that was given out and not freed, at least as large as was asked for.
HeapIsSound ==
    /\ head \in DOMAIN blocks /\ blocks[head].prev = Null /\ head = 0
    /\ tail \in DOMAIN blocks /\ blocks[tail].next = Null
    /\ \A a \in DOMAIN blocks :
          LET b == blocks[a]
              after == a + Header + b.size
          IN  /\ b.size > 0
              /\ IF a = tail THEN after = heap_end
                 ELSE /\ b.next = after /\ after \in DOMAIN blocks
                      /\ blocks[after].prev = a
                      /\ ~(b.free /\ blocks[after].free)
              /\ a = head \/ b.prev \in DOMAIN blocks
    /\ {a + Header : a \in {x \in DOMAIN blocks : ~blocks[x].free}} = DOMAIN given
    /\ \A ptr \in DOMAIN given : given[ptr] <= blocks[ptr - Header].size
=============================================================================
