------------------------------ MODULE SmpWork ------------------------------
(***************************************************************************)
(* The work queue of the application processors (sched/smp.c) and its      *)
(* user, the parallel copy of framebuffer_present_user                     *)
(* (display/framebuffer.c).                                                *)
(*                                                                         *)
(* The boot processor presents a picture in lanes.  It submits every lane  *)
(* but lane 0 as a job, copies a lane itself when the submission is        *)
(* refused, copies lane 0, and spins until no lane is left.  The batch and *)
(* the jobs live on its stack.  The other processors look for a job with   *)
(* interrupts off, run it, and halt when there is none; an interprocessor  *)
(* interrupt (IPI) is held pending while interrupts are off.               *)
(*                                                                         *)
(* These processors run at the same time, so a step is one access to       *)
(* shared memory, or the accesses made while work_lock is held up to the   *)
(* next one that matters.  The ring is the sequence of its entries: it     *)
(* holds one less than SMP_WORK_CAPACITY.                                  *)
(***************************************************************************)
EXTENDS Integers, Sequences, FiniteSets

CONSTANTS CpuCount,            \* percpu_cpu_count(); CPU 0 is the boot processor
          SMP_WORK_CAPACITY,
          FB_COPY_MAX_LANES

ASSUME SmpAssumption == /\ CpuCount \in Nat \ {0}
                        /\ SMP_WORK_CAPACITY \in Nat \ {0}
                        /\ FB_COPY_MAX_LANES \in Nat \ {0}

BSP == 0
APs == 1 .. CpuCount - 1
CPUs == 0 .. CpuCount - 1
Free == -1

VARIABLES
    work,            \* work_queue from work_tail to work_head: lane numbers
    work_lock,       \* the CPU holding work_lock, or Free
    online_workers,
    online,          \* cpu_local.online of each AP
    ipi,             \* SMP_WORK_VECTOR pending at the AP's local APIC
    ap,              \* where each AP is in ap_main
    item,            \* the job an AP has taken
    bsp,             \* where the boot processor is in framebuffer_present_user
    lane,            \* the lane it is submitting
    kick,            \* the loop variable of kick_workers
    batch            \* the batch on its stack: lanes, remaining, failed; and the
                     \* lanes begun and copied, which are observed only

smpVars == <<work, work_lock, online_workers, online, ipi, ap, item,
             bsp, lane, kick, batch>>

ApStates == {"off", "counted", "pop", "take", "advance", "copy", "finish",
             "sleep", "halted"}
BspStates == {"idle", "submit", "lock", "put", "kick", "inline", "own", "wait"}

NoBatch == [lanes |-> 0, remaining |-> 0, failed |-> FALSE,
            begun |-> {}, copied |-> {}]

SmpInit ==
    /\ work = <<>>
    /\ work_lock = Free
    /\ online_workers = 0
    /\ online = [c \in APs |-> FALSE]
    /\ ipi = [c \in APs |-> FALSE]
    /\ ap = [c \in APs |-> "off"]
    /\ item = [c \in APs |-> 0]
    /\ bsp = "idle"
    /\ lane = 0
    /\ kick = CpuCount
    /\ batch = NoBatch

-----------------------------------------------------------------------------
(* The test-and-set lock *)

spin_lock(c) == work_lock = Free /\ work_lock' = c

spin_unlock(c) == work_lock' = Free

-----------------------------------------------------------------------------
(* A lane of the copy: rows until one fails or another lane has failed, then
   the decrement, the last access to the batch. *)

framebuffer_copy_lane(b, l) ==
    \E ok \in BOOLEAN :
        batch' = [b EXCEPT !.begun = @ \cup {l},
                           !.copied = IF ok /\ ~ b.failed THEN @ \cup {l} ELSE @,
                           !.failed = @ \/ ~ ok]

FinishedLane(b) == [b EXCEPT !.remaining = @ - 1]

-----------------------------------------------------------------------------
(* The application processors *)

apOnly == <<bsp, lane, kick>>

\* ap_main up to the count of workers; an AP may come up at any time or never.
ap_main(c) ==
    /\ ap[c] = "off"
    /\ online_workers' = online_workers + 1
    /\ ap' = [ap EXCEPT ![c] = "counted"]
    /\ UNCHANGED <<work, work_lock, online, ipi, item, batch, apOnly>>

ap_online(c) ==
    /\ ap[c] = "counted"
    /\ online' = [online EXCEPT ![c] = TRUE]
    /\ ap' = [ap EXCEPT ![c] = "pop"]
    /\ UNCHANGED <<work, work_lock, online_workers, ipi, item, batch, apOnly>>

\* "cli", then work_pop waits for the lock.
work_pop(c) ==
    /\ ap[c] = "pop"
    /\ spin_lock(c)
    /\ ap' = [ap EXCEPT ![c] = "take"]
    /\ UNCHANGED <<work, online_workers, online, ipi, item, batch, apOnly>>

work_pop_take(c) ==
    /\ ap[c] = "take"
    /\ work # <<>>
    /\ item' = [item EXCEPT ![c] = Head(work)]
    /\ ap' = [ap EXCEPT ![c] = "advance"]
    /\ UNCHANGED <<work, work_lock, online_workers, online, ipi, batch, apOnly>>

work_pop_advance(c) ==
    /\ ap[c] = "advance"
    /\ work' = Tail(work)
    /\ spin_unlock(c)
    /\ ap' = [ap EXCEPT ![c] = "copy"]
    /\ UNCHANGED <<online_workers, online, ipi, item, batch, apOnly>>

work_pop_empty(c) ==
    /\ ap[c] = "take"
    /\ work = <<>>
    /\ spin_unlock(c)
    /\ ap' = [ap EXCEPT ![c] = "sleep"]
    /\ UNCHANGED <<work, online_workers, online, ipi, item, batch, apOnly>>

\* item.fn(item.arg)
ap_copy(c) ==
    /\ ap[c] = "copy"
    /\ framebuffer_copy_lane(batch, item[c])
    /\ ap' = [ap EXCEPT ![c] = "finish"]
    /\ UNCHANGED <<work, work_lock, online_workers, online, ipi, item, apOnly>>

ap_finish(c) ==
    /\ ap[c] = "finish"
    /\ batch' = FinishedLane(batch)
    /\ ap' = [ap EXCEPT ![c] = "pop"]
    /\ UNCHANGED <<work, work_lock, online_workers, online, ipi, item, apOnly>>

\* Faulty variant: the IPI is taken between "sti" and "hlt".
LateHalt(c) ==
    /\ ap[c] = "sleep"
    /\ ap' = [ap EXCEPT ![c] = "halted"]
    /\ ipi' = [ipi EXCEPT ![c] = FALSE]
    /\ UNCHANGED <<work, work_lock, online_workers, online, item, batch, apOnly>>

\* "sti; hlt": an IPI that is pending is taken after the halt has begun.
ap_halt(c) ==
    /\ ap[c] = "sleep"
    /\ ap' = [ap EXCEPT ![c] = "halted"]
    /\ UNCHANGED <<work, work_lock, online_workers, online, ipi, item, batch, apOnly>>

\* The IPI handler only acknowledges; a halted AP looks for work again.
isr_handler(c) ==
    /\ ipi[c]
    /\ ap[c] \in {"copy", "finish", "halted"}
    /\ ipi' = [ipi EXCEPT ![c] = FALSE]
    /\ ap' = IF ap[c] = "halted" THEN [ap EXCEPT ![c] = "pop"] ELSE ap
    /\ UNCHANGED <<work, work_lock, online_workers, online, item, batch, apOnly>>

-----------------------------------------------------------------------------
(* The boot processor *)

bspOnly == <<online_workers, online, ap, item>>

\* Lanes are limited by the workers there are, by the rows and by the bytes.
framebuffer_present_user ==
    /\ bsp = "idle"
    /\ \E n \in 1 .. FB_COPY_MAX_LANES :
          /\ n <= online_workers + 1
          /\ batch' = [NoBatch EXCEPT !.lanes = n, !.remaining = n]
          /\ bsp' = IF n = 1 THEN "own" ELSE "submit"
    /\ lane' = 1
    /\ UNCHANGED <<work, work_lock, ipi, kick, bspOnly>>

\* smp_submit_work refuses when there is no worker.
smp_submit_work ==
    /\ bsp = "submit"
    /\ bsp' = IF online_workers = 0 THEN "inline" ELSE "lock"
    /\ UNCHANGED <<work, work_lock, ipi, lane, kick, batch, bspOnly>>

submit_lock ==
    /\ bsp = "lock"
    /\ spin_lock(BSP)
    /\ bsp' = "put"
    /\ UNCHANGED <<work, ipi, lane, kick, batch, bspOnly>>

\* It refuses too when the ring is full.
submit_put ==
    /\ bsp = "put"
    /\ spin_unlock(BSP)
    /\ IF Len(work) + 1 = SMP_WORK_CAPACITY
       THEN bsp' = "inline" /\ UNCHANGED <<work, kick>>
       ELSE /\ work' = Append(work, lane)
            /\ bsp' = "kick"
            /\ kick' = 1
    /\ UNCHANGED <<ipi, lane, batch, bspOnly>>

AfterLane == IF lane + 1 < batch.lanes THEN "submit" ELSE "own"

kick_workers ==
    /\ bsp = "kick"
    /\ kick < CpuCount
    /\ ipi' = IF online[kick] THEN [ipi EXCEPT ![kick] = TRUE] ELSE ipi
    /\ kick' = kick + 1
    /\ UNCHANGED <<work, work_lock, bsp, lane, batch, bspOnly>>

kick_workers_done ==
    /\ bsp = "kick"
    /\ kick >= CpuCount
    /\ bsp' = AfterLane
    /\ lane' = lane + 1
    /\ UNCHANGED <<work, work_lock, ipi, kick, batch, bspOnly>>

\* A refused lane is copied at once by the boot processor.
copy_inline ==
    /\ bsp = "inline"
    /\ \E b \in {FinishedLane(batch)} : framebuffer_copy_lane(b, lane)
    /\ bsp' = AfterLane
    /\ lane' = lane + 1
    /\ UNCHANGED <<work, work_lock, ipi, kick, bspOnly>>

copy_own ==
    /\ bsp = "own"
    /\ \E b \in {FinishedLane(batch)} : framebuffer_copy_lane(b, 0)
    /\ bsp' = "wait"
    /\ UNCHANGED <<work, work_lock, ipi, lane, kick, bspOnly>>

\* Faulty variant: the wait ends one lane early.
EarlyDone ==
    /\ bsp = "wait"
    /\ batch.remaining <= 1
    /\ bsp' = "idle"
    /\ batch' = NoBatch
    /\ lane' = 0
    /\ UNCHANGED <<work, work_lock, ipi, kick, bspOnly>>

\* remaining = 0: the call returns and its stack frame is gone.
present_done ==
    /\ bsp = "wait"
    /\ batch.remaining = 0
    /\ bsp' = "idle"
    /\ batch' = NoBatch
    /\ lane' = 0
    /\ UNCHANGED <<work, work_lock, ipi, kick, bspOnly>>

-----------------------------------------------------------------------------
ApStep(c) ==
    \/ ap_online(c)
    \/ work_pop(c)
    \/ work_pop_take(c)
    \/ work_pop_advance(c)
    \/ work_pop_empty(c)
    \/ ap_copy(c)
    \/ ap_finish(c)
    \/ ap_halt(c)
    \/ isr_handler(c)

BspStep ==
    \/ smp_submit_work
    \/ submit_lock
    \/ submit_put
    \/ kick_workers
    \/ kick_workers_done
    \/ copy_inline
    \/ copy_own
    \/ present_done

SmpNext ==
    \/ \E c \in APs : ap_main(c) \/ ApStep(c)
    \/ framebuffer_present_user
    \/ BspStep

SmpSpec == SmpInit /\ [][SmpNext]_smpVars

-----------------------------------------------------------------------------
(* Properties *)

\* Types; the ring is never full, for it would look empty, and the unsigned
\* count of lanes never passes zero.
SmpTypeOK ==
    /\ work \in Seq(Nat) /\ Len(work) < SMP_WORK_CAPACITY
    /\ work_lock \in CPUs \cup {Free}
    /\ online_workers \in Nat
    /\ online \in [APs -> BOOLEAN]
    /\ ipi \in [APs -> BOOLEAN]
    /\ ap \in [APs -> ApStates]
    /\ item \in [APs -> Nat]
    /\ bsp \in BspStates
    /\ lane \in Nat
    /\ kick \in Nat
    /\ batch \in [lanes : Nat, remaining : Nat, failed : BOOLEAN,
                  begun : SUBSET Nat, copied : SUBSET Nat]

\* Exactly the CPU between spin_lock and spin_unlock holds work_lock.
LockHeld ==
    /\ \A c \in APs : ap[c] \in {"take", "advance"} <=> work_lock = c
    /\ bsp = "put" <=> work_lock = BSP

\* No job waits behind a sleeping processor: an AP that found the ring empty
\* and has halted, or is about to, has an IPI pending as soon as a job is
\* queued, or the submitter is still on its way to kick it.
SleepersAreKicked ==
    \A c \in APs :
        ap[c] \in {"sleep", "halted"} /\ work # <<>>
            => ipi[c] \/ (bsp = "kick" /\ kick <= c)

Running(c) == ap[c] \in {"copy", "finish"}

\* No processor holds or will find a job of a presentation that has returned:
\* the batch and its jobs are on the stack of the call.
JobsOutlivedByBatch ==
    bsp = "idle" => work = <<>> /\ \A c \in APs : ~ Running(c) /\ ap[c] # "advance"

\* No lane is copied twice: one that is queued or in the hands of an AP that
\* has not begun was begun by nobody.
LaneCopiedOnce ==
    /\ \A i \in 1 .. Len(work) : work[i] \notin batch.begun
    /\ \A c \in APs : ap[c] = "copy" => item[c] \notin batch.begun

\* A call that reports success has copied every lane.
SuccessIsComplete ==
    bsp = "wait" /\ batch.remaining = 0 /\ ~ batch.failed
        => batch.copied = 0 .. batch.lanes - 1

\* What framebuffer_present_user promises its caller, whatever the processors
\* do and whichever lane fails: each lane is copied once, success means all of
\* them, and nothing points into its stack once it has returned.
PresentIsWhole ==
    SmpTypeOK /\ JobsOutlivedByBatch /\ LaneCopiedOnce /\ SuccessIsComplete

\* framebuffer_present_user returns: no lane is lost, and the spin at its end
\* is not for ever.
PresentReturns == []<>(bsp = "idle")
=============================================================================
