------------------------------ MODULE VfsGate -------------------------------
(***************************************************************************)
(* The FIFO sleeping gate that serialises every filesystem operation       *)
(* (kernel/fs/vfs/lock.c), together with the three scheduler operations it *)
(* leans on: task_block, task_wakeup and task_kill.                        *)
(*                                                                         *)
(* Kernel code is not preempted and the gate runs with interrupts off, so  *)
(* a step is one stretch of kernel code from one parking point to the      *)
(* next.  Which runnable task gets the CPU is left open.                   *)
(***************************************************************************)
EXTENDS Sequences

CONSTANTS Task,   \* user tasks that make filesystem calls
          NoTask  \* the null owner

ASSUME NoTaskAssumption == NoTask \notin Task

VARIABLES owner,   \* the task inside, or NoTask
          queue,   \* vfs_waiter list, head first
          active,  \* task->vfs_active
          state,   \* "ready" (or running), "blocked" or "zombie"
          pc       \* "out": not in the VFS; "wait": in vfs_lock's loop;
                   \* "in": between vfs_lock and vfs_unlock

vars == <<owner, queue, active, state, pc>>

Queued == {queue[i] : i \in DOMAIN queue}

Init ==
  /\ owner = NoTask
  /\ queue = <<>>
  /\ active = [t \in Task |-> FALSE]
  /\ state = [t \in Task |-> "ready"]
  /\ pc = [t \in Task |-> "out"]

\* Faulty variants of the operations below, used only to show that the
\* properties can fail: a new caller takes the gate while others queue for
\* it, a waiter that does not re-test ownership, and a kill that ignores
\* vfs_active.
BargingUnlock(t) ==
  /\ state[t] = "ready" /\ pc[t] = "in"
  /\ owner' = NoTask
  /\ active' = [active EXCEPT ![t] = FALSE]
  /\ pc' = [pc EXCEPT ![t] = "out"]
  /\ queue' = IF queue = <<>> THEN queue ELSE Tail(queue)
  /\ state' = IF queue = <<>> THEN state
              ELSE [state EXCEPT ![Head(queue)] = "ready"]

TrustingResume(t) ==
  /\ state[t] = "ready" /\ pc[t] = "wait"
  /\ pc' = [pc EXCEPT ![t] = "in"]
  /\ UNCHANGED <<owner, queue, active, state>>

KillAnyone(t) ==
  /\ state[t] # "zombie"
  /\ state' = [state EXCEPT ![t] = "zombie"]
  /\ UNCHANGED <<owner, queue, active, pc>>

-----------------------------------------------------------------------------
\* The free gate is taken at once; otherwise the caller queues and parks.
\* The recursion panic is the guard: a caller is outside.
vfs_lock(t) ==
  /\ state[t] = "ready" /\ pc[t] = "out"
  /\ owner # t /\ ~active[t]
  /\ active' = [active EXCEPT ![t] = TRUE]
  /\ IF owner = NoTask
       THEN /\ owner' = t
            /\ pc' = [pc EXCEPT ![t] = "in"]
            /\ UNCHANGED <<queue, state>>
       ELSE /\ queue' = Append(queue, t)
            /\ pc' = [pc EXCEPT ![t] = "wait"]
            /\ state' = [state EXCEPT ![t] = "blocked"]
            /\ UNCHANGED owner

\* A parked caller that runs again re-tests ownership and may park again.
vfs_lock_resume(t) ==
  /\ state[t] = "ready" /\ pc[t] = "wait"
  /\ IF owner = t
       THEN pc' = [pc EXCEPT ![t] = "in"] /\ UNCHANGED state
       ELSE state' = [state EXCEPT ![t] = "blocked"] /\ UNCHANGED pc
  /\ UNCHANGED <<owner, queue, active>>

\* Ownership goes straight to the head of the queue, which is then woken.
vfs_unlock(t) ==
  /\ state[t] = "ready" /\ pc[t] = "in"
  /\ owner = t /\ active[t]
  /\ active' = [active EXCEPT ![t] = FALSE]
  /\ pc' = [pc EXCEPT ![t] = "out"]
  /\ IF queue # <<>>
       THEN /\ owner' = Head(queue)
            /\ queue' = Tail(queue)
            /\ state' = [state EXCEPT ![Head(queue)] =
                           IF @ = "blocked" THEN "ready" ELSE @]
       ELSE /\ owner' = NoTask
            /\ UNCHANGED <<queue, state>>

\* Inside the gate an operation waits for the disk: the owner parks and is
\* woken by the driver.  The same wake-up may also reach a queued caller:
\* task_wakeup asks only whether its target is blocked.
vfs_task_block(t) ==
  /\ state[t] = "ready" /\ pc[t] = "in"
  /\ state' = [state EXCEPT ![t] = "blocked"]
  /\ UNCHANGED <<owner, queue, active, pc>>

vfs_task_wakeup(t) ==
  /\ state[t] = "blocked"
  /\ state' = [state EXCEPT ![t] = "ready"]
  /\ UNCHANGED <<owner, queue, active, pc>>

\* A kill is refused while the target is inside the gate or queued for it.
task_kill(t) ==
  /\ ~active[t]
  /\ state[t] # "zombie"
  /\ state' = [state EXCEPT ![t] = "zombie"]
  /\ UNCHANGED <<owner, queue, active, pc>>

Next ==
  \E t \in Task :
    \/ vfs_lock(t) \/ vfs_lock_resume(t) \/ vfs_unlock(t)
    \/ vfs_task_block(t) \/ vfs_task_wakeup(t) \/ task_kill(t)

\* Every runnable task gets the CPU, a disk request completes, and an
\* operation ends: it may park again only finitely often.
Fairness ==
  \A t \in Task :
    /\ WF_vars(vfs_lock_resume(t))
    /\ SF_vars(vfs_unlock(t))
    /\ WF_vars(pc[t] = "in" /\ vfs_task_wakeup(t))

Spec == Init /\ [][Next]_vars /\ Fairness

-----------------------------------------------------------------------------
TypeOK ==
  /\ owner \in Task \cup {NoTask}
  /\ queue \in Seq(Task)
  /\ active \in [Task -> BOOLEAN]
  /\ state \in [Task -> {"ready", "blocked", "zombie"}]
  /\ pc \in [Task -> {"out", "wait", "in"}]

\* Exclusion: two tasks are never both between vfs_lock and vfs_unlock, and
\* the one inside is the recorded owner.
MutualExclusion == \A t \in Task : pc[t] = "in" => owner = t

\* A gate nobody owns has nobody queued: with direct handoff in vfs_unlock a
\* waiter can never be left behind a free gate.
NoneQueuedBehindAFreeGate == owner = NoTask => queue = <<>>

\* The queue holds each waiter once, never the owner, and only live tasks
\* that are still in vfs_lock: its nodes live on those tasks' kernel stacks.
QueueNodesAreLive ==
  /\ \A i, j \in DOMAIN queue : queue[i] = queue[j] => i = j
  /\ \A i \in DOMAIN queue :
       /\ queue[i] # owner
       /\ pc[queue[i]] = "wait" /\ state[queue[i]] # "zombie"

\* Why the three above are inductive: vfs_active marks exactly the tasks that
\* own the gate or queue for it, and a task killed is outside.
GateInv ==
  /\ TypeOK
  /\ QueueNodesAreLive
  /\ NoneQueuedBehindAFreeGate
  /\ MutualExclusion
  /\ \A t \in Task : active[t] <=> pc[t] # "out"
  /\ \A t \in Task : pc[t] = "wait" => t = owner \/ t \in Queued
  /\ owner # NoTask => pc[owner] # "out" /\ state[owner] # "zombie"

\* Nobody who owns the gate sleeps in vfs_lock for ever: the handoff wakes it.
OwnerIsWoken ==
  \A t \in Task : owner = t /\ pc[t] = "wait" => state[t] = "ready"

\* Every call to vfs_lock returns: no caller waits for ever, and a caller that
\* stops waiting is inside.
EveryCallerEnters == \A t \in Task : []<>(pc[t] # "wait")

Line == IF owner = NoTask THEN <<>> ELSE <<owner>> \o queue

Abstract == INSTANCE FifoLock WITH line <- Line

\* The gate is a first-come first-served lock: a later caller never overtakes
\* a queued one, whatever the scheduler does.
ImplementsFifoLock == Abstract!Spec
=============================================================================
