-------------------------------- MODULE Pmm --------------------------------
(***************************************************************************)
(* The physical frame allocator (memory/pmm.c): a bitmap of taken frames,  *)
(* a count of them and the next-fit hint.                                  *)
(*                                                                         *)
(* Addresses are frame numbers.  The bitmap is searched a byte at a time,  *)
(* a byte holding BYTE frames; the padding of its last byte stays set.     *)
(* Reserved is what pmm_init leaves taken.  Callers free frames they were  *)
(* given, or frames that are free already or do not exist, which changes   *)
(* nothing.                                                                *)
(***************************************************************************)
EXTENDS Integers, FiniteSets, FiniteSetsExt

CONSTANTS bitmap_frames, GeneralBase, Reserved,
          BYTE,
          MaxRun               \* bound on the frames asked for at once

ASSUME PmmAssumption ==
    /\ bitmap_frames \in Nat /\ GeneralBase \in 1 .. (bitmap_frames - 1)
    /\ BYTE \in Nat \ {0} /\ MaxRun \in Nat
    /\ Reserved \subseteq 0 .. (bitmap_frames - 1) /\ 0 \in Reserved

VARIABLES bitmap, used_frames, next_free_frame,
          result     \* observer: the last call's arguments and what it returned

pmmVars == <<bitmap, used_frames, next_free_frame, result>>

ByteEnd(f) == (f \div BYTE) * BYTE + BYTE

PmmInit ==
    /\ bitmap = Reserved \cup bitmap_frames .. (ByteEnd(bitmap_frames - 1) - 1)
    /\ used_frames = Cardinality(Reserved)
    /\ next_free_frame = GeneralBase
    /\ result = [limit |-> 0, asked |-> 0, frame |-> 0]

-----------------------------------------------------------------------------
\* The free frames from `first` on in its byte; bitmap_frames when none is left
\* before `end`.
find_free_frame(first, end) ==
    LET scan[f \in first .. ByteEnd(end)] ==
            LET free == {g \in f .. (ByteEnd(f) - 1) : g \notin bitmap} IN
            IF f >= end THEN bitmap_frames
            ELSE IF free = {} THEN scan[ByteEnd(f)]
            ELSE IF Min(free) < end THEN Min(free) ELSE bitmap_frames
    IN  scan[first]

\* The loops of pmm_alloc_frame: the hinted frame, then a search.
FromHint(f, end) == IF f < end /\ f \notin bitmap THEN f ELSE find_free_frame(f + 1, end)

Hint(f) == IF f >= bitmap_frames THEN GeneralBase ELSE f

Returns(limit, n, f) == result' = [limit |-> limit, asked |-> n, frame |-> f]

TakeFrames(limit, n, f) ==
    /\ bitmap' = bitmap \cup f .. (f + n - 1)
    /\ used_frames' = used_frames + n
    /\ Returns(limit, n, f)

OutOfMemory(limit, n) ==
    Returns(limit, n, 0) /\ UNCHANGED <<bitmap, used_frames, next_free_frame>>

\* The frame pmm_alloc_frame takes, bitmap_frames if it finds none.
Found ==
    LET start == IF next_free_frame < GeneralBase THEN GeneralBase
                 ELSE Hint(next_free_frame)
        up == FromHint(start, bitmap_frames)
    IN  IF up < bitmap_frames \/ start = GeneralBase THEN up
        ELSE FromHint(GeneralBase, start)

pmm_alloc_frame ==
    IF Found >= bitmap_frames
    THEN OutOfMemory(0, 1)
    ELSE TakeFrames(0, 1, Found) /\ next_free_frame' = Hint(Found + 1)

\* Faulty variant: every search starts at the bottom.
FromTheBottom(limit) == 0

FirstFrame(limit) == IF limit > GeneralBase THEN GeneralBase ELSE 0
MaxFrames(limit) == IF limit > bitmap_frames THEN bitmap_frames ELSE limit

HintPast(f, n) ==
    next_free_frame' = IF f >= GeneralBase THEN Hint(f + n) ELSE next_free_frame

pmm_alloc_frame_below(limit) ==
    LET f == find_free_frame(FirstFrame(limit), MaxFrames(limit)) IN
    IF f < MaxFrames(limit)
    THEN TakeFrames(limit, 1, f) /\ HintPast(f, 1)
    ELSE OutOfMemory(limit, 1)

\* The first run of n free frames.
pmm_alloc_contiguous_below(limit, n) ==
    LET starts == {f \in FirstFrame(limit) .. (MaxFrames(limit) - n) :
                        \A i \in f .. (f + n - 1) : i \notin bitmap} IN
    IF starts = {}
    THEN OutOfMemory(limit, n)
    ELSE TakeFrames(limit, n, Min(starts)) /\ HintPast(Min(starts), n)

\* Frames of S that are free already, or do not exist, are passed over.
TakenOf(S) == {f \in S : f < bitmap_frames /\ f \in bitmap}

HintBack(S) == Min({next_free_frame} \cup {f \in TakenOf(S) : f >= GeneralBase})

FreeFrames(S) ==
    /\ bitmap' = bitmap \ TakenOf(S)
    /\ used_frames' = used_frames - Cardinality(TakenOf(S))
    /\ next_free_frame' = HintBack(S)
    /\ UNCHANGED result

pmm_free_frame(f) == FreeFrames({f})

pmm_free_contiguous(f, n) == FreeFrames(f .. (f + n - 1))

PmmNext ==
    \/ pmm_alloc_frame
    \/ \E limit \in 1 .. (bitmap_frames + 1) :
            \/ pmm_alloc_frame_below(limit)
            \/ \E n \in 1 .. MaxRun : pmm_alloc_contiguous_below(limit, n)
    \/ \E f \in (0 .. bitmap_frames) \ Reserved :
            \/ pmm_free_frame(f)
            \/ \E n \in 2 .. MaxRun :
                    Reserved \cap f .. (f + n - 1) = {} /\ pmm_free_contiguous(f, n)

PmmSpec == PmmInit /\ [][PmmNext]_pmmVars

-----------------------------------------------------------------------------
(* Properties *)

PmmTypeOK ==
    /\ bitmap \subseteq 0 .. (ByteEnd(bitmap_frames - 1) - 1)
    /\ used_frames \in 0 .. bitmap_frames
    /\ next_free_frame \in GeneralBase .. (bitmap_frames - 1)
    /\ result.frame \in 0 .. (bitmap_frames - 1)

\* The counter behind the memory statistics counts the frames taken.
UsedFramesExact == used_frames = Cardinality(bitmap \cap 0 .. (bitmap_frames - 1))

Pool == INSTANCE FramePool WITH
            PoolFrames <- bitmap_frames, PoolBase <- GeneralBase, PoolReserved <- Reserved,
            taken <- bitmap \cap 0 .. (bitmap_frames - 1), got <- result

\* The allocator keeps the promise of FramePool: with the hint anywhere it fails
\* only when no frame the caller may have is free, gives out no frame twice, and
\* no general allocation touches the pool below 1 MiB; its counter is exact.
PmmIsFramePool == Pool!PoolSpec /\ [](PmmTypeOK /\ UsedFramesExact)
=============================================================================
