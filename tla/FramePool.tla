----------------------------- MODULE FramePool -----------------------------
(***************************************************************************)
(* What the physical frame allocator promises its callers: an allocation   *)
(* returns frames nobody has, from the part of memory the caller may use,  *)
(* and fails only when there are none.  Frames below PoolBase are kept for *)
(* callers that ask for them (ISA DMA).                                    *)
(***************************************************************************)
EXTENDS Integers

CONSTANTS PoolFrames,          \* frames of physical memory
          PoolBase,            \* the first general frame, at 1 MiB
          PoolReserved,        \* frames that are never given out, 0 among them
          MaxRun               \* bound on the frames asked for at once

VARIABLES taken,     \* the frames in use
          got        \* the last allocation: limit, frames asked for, result; a
                     \* limit of 0 is none, a result of 0 is failure

poolVars == <<taken, got>>

Frames == 0 .. (PoolFrames - 1)

\* The frames a caller with this limit may be given.
Below(limit) ==
    IF limit = 0 THEN {f \in Frames : f >= PoolBase}
    ELSE {f \in Frames : f < limit /\ (limit > PoolBase => f >= PoolBase)}

Runs(S, n) == {f \in S : \A i \in f .. (f + n - 1) : i \in S \ taken}

PoolInit ==
    /\ taken = PoolReserved
    /\ got = [limit |-> 0, asked |-> 0, frame |-> 0]

Answer(limit, n, f) == got' = [limit |-> limit, asked |-> n, frame |-> f]

Take(limit, n) ==
    IF Runs(Below(limit), n) = {}
    THEN Answer(limit, n, 0) /\ UNCHANGED taken
    ELSE \E f \in Runs(Below(limit), n) :
            Answer(limit, n, f) /\ taken' = taken \cup (f .. (f + n - 1))

Give(f, n) ==
    LET S == f .. (f + n - 1) IN
    S \cap PoolReserved = {} /\ taken' = taken \ S /\ UNCHANGED got

PoolNext ==
    \/ \E f \in Frames, n \in 1 .. MaxRun : Give(f, n)
    \/ \E limit \in 0 .. (PoolFrames + 1), n \in 1 .. MaxRun : Take(limit, n)

PoolSpec == PoolInit /\ [][PoolNext]_poolVars
=============================================================================
