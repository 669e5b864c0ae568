------------------------------- MODULE Sched --------------------------------
(***************************************************************************)
(* The scheduler of kernel/sched/sched.c on the one CPU that runs tasks:   *)
(* dispatch, timer preemption, blocking with and without a deadline,       *)
(* sleeping, wake-ups, signal interrupts, kills and slot reuse.            *)
(*                                                                         *)
(* Kernel code is not preempted; interrupts arrive between steps.  Time is *)
(* kept relative: a wake_tick or block_deadline is the number of ticks     *)
(* left, 0 once it is due.                                                 *)
(***************************************************************************)
EXTENDS ReadyQueue, Walk

CONSTANTS MAX_TASKS,  \* task table slots, idle's not counted
          MaxWait,    \* bound on the length of a sleep or timed block, in ticks
          Quantum,    \* ticks in a time slice
          Moves       \* levels a task may be moved to

ASSUME SchedAssumption ==
  /\ MAX_TASKS \in Nat \ {0} /\ MaxWait \in Nat \ {0}
  /\ Quantum \in Nat \ {0} /\ Moves \subseteq Level

Task == 1 .. MAX_TASKS
Idle == 0
NoPid == 0
None == -1   \* no deadline

VARIABLES
  current,      \* the task on the CPU
  state,        \* task->state, or "unused" for a free slot
  prio,         \* task->prio
  pc,           \* "user", "kernel", "until" (parked in task_block_until); 
                \* idle: "kernel", "empty" (saw nobody ready), "hlt"
  rq,           \* ready lists and policy counters
  need_resched, slice_ticks,
  wake_tick,    \* ticks left of a sleep
  deadline,     \* ticks left of a timed block, or None
  waiting,      \* waiting_for_pid, NoPid unless blocked on a task
  result,       \* block_interruptible / _interrupted / _timed_out
  n_sleeping, n_timed_blocked,
  cause         \* observer: what ended the task_block_until the task is in

cpu == <<current, rq, need_resched, slice_ticks>>
timers == <<wake_tick, deadline, n_sleeping, n_timed_blocked>>
vars == <<cpu, state, prio, pc, timers, waiting, result, cause>>

NoWait == [interruptible |-> FALSE, interrupted |-> FALSE, timed_out |-> FALSE]

Init ==
  /\ current = Idle
  /\ state = [t \in Task |-> "unused"]
  /\ prio = [t \in Task |-> NORMAL]
  /\ pc = [t \in Task \cup {Idle} |-> IF t = Idle THEN "kernel" ELSE "user"]
  /\ rq = EmptyRq
  /\ need_resched = FALSE /\ slice_ticks = 0
  /\ wake_tick = [t \in Task |-> 0]
  /\ deadline = [t \in Task |-> None]
  /\ waiting = [t \in Task |-> NoPid]
  /\ result = [t \in Task |-> NoWait]
  /\ n_sleeping = 0 /\ n_timed_blocked = 0
  /\ cause = [t \in Task |-> "none"]

InKernel(t) == current = t /\ pc[t] = "kernel"

\* An interrupt ends idle's hlt, but goes unnoticed if it comes between idle's
\* look at the ready lists and the hlt.
IrqPc == [pc EXCEPT ![Idle] = IF current = Idle /\ @ = "hlt" THEN "kernel" ELSE @]

\* The note ready_push leaves when a task outranks the running one.
Outranks(t) ==
  t # current /\ (current = Idle \/ prio[t] > prio[current])

\* ready_push of every task of a set, on a walk over the task table.
PushAll(r, ts) ==
  [r EXCEPT !.q = [p \in Level |-> r.q[p] \o InOrder({t \in ts : prio[t] = p})]]

\* ready_pop and the switch to what it returns, once the outgoing task has
\* taken its new state st and the lists are r.
Switch(r, st) ==
  IF ready_any(r)
    THEN LET p == PopLevel(r)
             next == Head(r.q[p])
         IN  /\ rq' = Popped(r, p)
             /\ state' = [st EXCEPT ![next] = "running"]
             /\ current' = next
    ELSE /\ rq' = PoppedEmpty(r)
         /\ state' = st
         /\ current' = Idle

sched_reschedule_done == need_resched' = FALSE /\ slice_ticks' = 0

\* task_yield: the outgoing task queues up behind what was already there.
Yield(r, st) ==
  LET back(r2) == IF current = Idle THEN r2 ELSE ready_push(r2, current, prio[current])
      out == [t \in Task |-> IF t = current THEN "ready" ELSE st[t]]
  IN  IF ready_any(r)
        THEN LET p == PopLevel(r)
                 next == Head(r.q[p])
             IN  /\ rq' = back(Popped(r, p))
                 /\ state' = [out EXCEPT ![next] = "running"]
                 /\ current' = next
        ELSE /\ rq' = back(PoppedEmpty(r))
             /\ state' = out
             /\ current' = Idle

\* Faulty variants: a wake-up that leaves the deadline armed, a signal that
\* reports to a task already woken, an idle loop that halts without yielding,
\* and a sleep that is not counted.
ArmedWakeup(t) ==
  /\ state[t] = "blocked"
  /\ state' = [state EXCEPT ![t] = "ready"]
  /\ waiting' = [waiting EXCEPT ![t] = NoPid]
  /\ rq' = ready_push(rq, t, prio[t])
  /\ need_resched' = (need_resched \/ Outranks(t))
  /\ cause' = [cause EXCEPT ![t] = IF pc[t] = "until" THEN "wake" ELSE @]
  /\ pc' = IrqPc
  /\ UNCHANGED <<current, slice_ticks, prio, timers, result>>

LateInterrupt(t) ==
  /\ result[t].interruptible
  /\ result' = [result EXCEPT ![t].interrupted = TRUE]
  /\ IF state[t] = "blocked"
       THEN /\ state' = [state EXCEPT ![t] = "ready"]
            /\ rq' = ready_push(rq, t, prio[t])
            /\ need_resched' = (need_resched \/ Outranks(t))
            /\ deadline' = [deadline EXCEPT ![t] = None]
            /\ n_timed_blocked' = n_timed_blocked - (IF deadline[t] = None THEN 0 ELSE 1)
            /\ cause' = [cause EXCEPT ![t] = "signal"]
       ELSE UNCHANGED <<state, rq, need_resched, deadline, n_timed_blocked, cause>>
  /\ pc' = IrqPc
  /\ UNCHANGED <<current, slice_ticks, prio, wake_tick, n_sleeping, waiting>>

HaltingIdle ==
  /\ InKernel(Idle)
  /\ pc' = [pc EXCEPT ![Idle] = "hlt"]
  /\ UNCHANGED <<cpu, state, prio, timers, waiting, result, cause>>

UncountedSleep(t, n) ==
  /\ InKernel(t)
  /\ wake_tick' = [wake_tick EXCEPT ![t] = n]
  /\ Switch(rq, [state EXCEPT ![t] = "sleeping"])
  /\ sched_reschedule_done
  /\ UNCHANGED <<prio, pc, deadline, n_sleeping, n_timed_blocked, waiting, result, cause>>

-----------------------------------------------------------------------------
\* Ring 3 and back: a system call starts, and ends without parking.
enter_kernel(t) ==
  /\ current = t /\ pc[t] = "user"
  /\ pc' = [pc EXCEPT ![t] = "kernel"]
  /\ UNCHANGED <<cpu, state, prio, timers, waiting, result, cause>>

return_to_user(t) ==
  /\ InKernel(t)
  /\ pc' = [pc EXCEPT ![t] = "user"]
  /\ UNCHANGED <<cpu, state, prio, timers, waiting, result, cause>>

task_yield(t) ==
  /\ InKernel(t)
  /\ Yield(rq, state)
  /\ sched_reschedule_done
  /\ UNCHANGED <<prio, pc, timers, waiting, result, cause>>

\* Idle halts until an interrupt, then yields; with nobody ready the yield
\* returns at once, interrupts on, and idle is about to halt again.
idle_thread ==
  /\ InKernel(Idle)
  /\ Yield(rq, state)
  /\ sched_reschedule_done
  /\ pc' = [pc EXCEPT ![Idle] = IF ready_any(rq) THEN "hlt" ELSE "empty"]
  /\ UNCHANGED <<prio, timers, waiting, result, cause>>

idle_hlt ==
  /\ current = Idle /\ pc[Idle] = "empty"
  /\ pc' = [pc EXCEPT ![Idle] = "hlt"]
  /\ UNCHANGED <<cpu, state, prio, timers, waiting, result, cause>>

\* Park with no deadline, on another task's exit or on nothing it names.
task_block(t, w) ==
  /\ InKernel(t)
  /\ w # NoPid => w # t /\ state[w] \notin {"unused", "zombie"}
  /\ Switch(rq, [state EXCEPT ![t] = "blocked"])
  /\ waiting' = [waiting EXCEPT ![t] = w]
  /\ sched_reschedule_done
  /\ UNCHANGED <<prio, pc, timers, result, cause>>

\* Park interruptibly, until a wake-up or a deadline.  (With a signal already
\* deliverable the call returns -EINTR and changes nothing.)
task_block_until(t, d) ==
  /\ InKernel(t)
  /\ result' = [result EXCEPT ![t] = [NoWait EXCEPT !.interruptible = TRUE]]
  /\ deadline' = [deadline EXCEPT ![t] = d]
  /\ n_timed_blocked' = n_timed_blocked + (IF d = None THEN 0 ELSE 1)
  /\ Switch(rq, [state EXCEPT ![t] = "blocked"])
  /\ sched_reschedule_done
  /\ pc' = [pc EXCEPT ![t] = "until"]
  /\ cause' = [cause EXCEPT ![t] = "none"]
  /\ UNCHANGED <<prio, wake_tick, n_sleeping, waiting>>

\* What task_block_until returns.
UntilResult(t) ==
  IF result[t].interrupted THEN "signal"
  ELSE IF result[t].timed_out THEN "timeout" ELSE "wake"

task_block_until_return(t) ==
  /\ current = t /\ pc[t] = "until"
  /\ result' = [result EXCEPT ![t] = NoWait]
  /\ pc' = [pc EXCEPT ![t] = "kernel"]
  /\ cause' = [cause EXCEPT ![t] = "none"]
  /\ UNCHANGED <<cpu, state, prio, timers, waiting>>

task_sleep_ticks(t, n) ==
  /\ InKernel(t)
  /\ wake_tick' = [wake_tick EXCEPT ![t] = n]
  /\ n_sleeping' = n_sleeping + 1
  /\ Switch(rq, [state EXCEPT ![t] = "sleeping"])
  /\ sched_reschedule_done
  /\ UNCHANGED <<prio, pc, deadline, n_timed_blocked, waiting, result, cause>>

\* A wake-up, from kernel code or from a device interrupt, of a blocked task.
task_wakeup(t) ==
  /\ state[t] = "blocked"
  /\ deadline' = [deadline EXCEPT ![t] = None]
  /\ n_timed_blocked' = n_timed_blocked - (IF deadline[t] = None THEN 0 ELSE 1)
  /\ state' = [state EXCEPT ![t] = "ready"]
  /\ waiting' = [waiting EXCEPT ![t] = NoPid]
  /\ rq' = ready_push(rq, t, prio[t])
  /\ need_resched' = (need_resched \/ Outranks(t))
  /\ cause' = [cause EXCEPT ![t] = IF pc[t] = "until" THEN "wake" ELSE @]
  /\ pc' = IrqPc
  /\ UNCHANGED <<current, slice_ticks, prio, wake_tick, n_sleeping, result>>

\* A signal cuts an interruptible wait short.
task_interrupt(t) ==
  /\ state[t] = "blocked" /\ result[t].interruptible
  /\ result' = [result EXCEPT ![t].interrupted = TRUE]
  /\ deadline' = [deadline EXCEPT ![t] = None]
  /\ n_timed_blocked' = n_timed_blocked - (IF deadline[t] = None THEN 0 ELSE 1)
  /\ state' = [state EXCEPT ![t] = "ready"]
  /\ waiting' = [waiting EXCEPT ![t] = NoPid]
  /\ rq' = ready_push(rq, t, prio[t])
  /\ need_resched' = (need_resched \/ Outranks(t))
  /\ cause' = [cause EXCEPT ![t] = "signal"]
  /\ pc' = IrqPc
  /\ UNCHANGED <<current, slice_ticks, prio, wake_tick, n_sleeping>>

\* A task's level changes from NORMAL, once: the window manager and the flush
\* thread rise to HIGH, the reaper drops to LOW.
sched_set_priority(t, p) ==
  /\ prio[t] = NORMAL /\ p # NORMAL
  /\ state[t] \notin {"unused", "zombie"}
  /\ prio' = [prio EXCEPT ![t] = p]
  /\ IF state[t] = "ready"
       THEN /\ rq' = ready_push(ready_remove(rq, t), t, p)
            /\ need_resched' = (need_resched \/ current = Idle \/ p > prio[current])
       ELSE UNCHANGED <<rq, need_resched>>
  /\ UNCHANGED <<current, slice_ticks, state, pc, timers, waiting, result, cause>>

\* mark_task_exited, as far as the scheduler sees it: a deadline goes, and
\* every task blocked on the victim's exit becomes ready.
Waiters(t) == {w \in Task : state[w] = "blocked" /\ waiting[w] = t}

Exited(t) ==
  /\ deadline' = [deadline EXCEPT ![t] = None]
  /\ n_timed_blocked' = n_timed_blocked - (IF deadline[t] = None THEN 0 ELSE 1)
  /\ waiting' = [w \in Task |-> IF w \in Waiters(t) THEN NoPid ELSE waiting[w]]
  /\ UNCHANGED cause

AfterExit(t) ==
  [w \in Task |-> IF w = t THEN "zombie"
                 ELSE IF w \in Waiters(t) THEN "ready" ELSE state[w]]

task_exit(t) ==
  /\ InKernel(t)
  /\ Exited(t)
  /\ Switch(PushAll(rq, Waiters(t)), AfterExit(t))
  /\ need_resched' = (\E w \in Waiters(t) : Outranks(w))
  /\ slice_ticks' = 0
  /\ UNCHANGED <<prio, pc, wake_tick, n_sleeping, result>>

\* Another task, in the kernel, kills t.
task_kill(t) ==
  /\ current \in Task \ {t} /\ InKernel(current)
  /\ state[t] \in {"ready", "blocked", "sleeping"}
  /\ Exited(t)
  /\ n_sleeping' = n_sleeping - (IF state[t] = "sleeping" THEN 1 ELSE 0)
  /\ state' = AfterExit(t)
  /\ rq' = PushAll(ready_remove(rq, t), Waiters(t))
  /\ need_resched' = (need_resched \/ \E w \in Waiters(t) : Outranks(w))
  /\ UNCHANGED <<current, slice_ticks, prio, pc, wake_tick, result>>

\* A dead slot is cleared, and a cleared one taken by a new task.
task_reap(t) ==
  /\ current # Idle /\ InKernel(current)
  /\ state[t] = "zombie"
  /\ state' = [state EXCEPT ![t] = "unused"]
  /\ prio' = [prio EXCEPT ![t] = NORMAL]
  /\ pc' = [pc EXCEPT ![t] = "user"]
  /\ wake_tick' = [wake_tick EXCEPT ![t] = 0]
  /\ deadline' = [deadline EXCEPT ![t] = None]
  /\ waiting' = [waiting EXCEPT ![t] = NoPid]
  /\ result' = [result EXCEPT ![t] = NoWait]
  /\ cause' = [cause EXCEPT ![t] = "none"]
  /\ UNCHANGED <<cpu, n_sleeping, n_timed_blocked>>

task_spawn(t) ==
  /\ current # Idle => InKernel(current)
  /\ state[t] = "unused"
  /\ state' = [state EXCEPT ![t] = "ready"]
  /\ rq' = ready_push(rq, t, NORMAL)
  /\ need_resched' = (need_resched \/ Outranks(t))
  /\ pc' = IrqPc
  /\ UNCHANGED <<current, slice_ticks, prio, timers, waiting, result, cause>>

-----------------------------------------------------------------------------
\* IRQ0.  pit_handler advances time and wakes what is due; then, if the tick
\* interrupted ring 3, sched_preempt_tick may take the CPU away.
Ticked(n) == IF n > 0 THEN n - 1 ELSE n

Walks == n_sleeping # 0 \/ n_timed_blocked # 0
Rested == {t \in Task : Walks /\ state[t] = "sleeping" /\ Ticked(wake_tick[t]) = 0}
Late == {t \in Task : Walks /\ state[t] = "blocked" /\ Ticked(deadline[t]) = 0}

sched_wake_sleepers ==
  /\ wake_tick' = [t \in Task |-> Ticked(wake_tick[t])]
  /\ deadline' = [t \in Task |-> IF t \in Late THEN None ELSE Ticked(deadline[t])]
  /\ n_sleeping' = n_sleeping - Cardinality(Rested)
  /\ n_timed_blocked' = n_timed_blocked - Cardinality(Late)
  /\ waiting' = [t \in Task |-> IF t \in Late THEN NoPid ELSE waiting[t]]
  /\ result' = [t \in Task |-> [result[t] EXCEPT !.timed_out = @ \/ t \in Late]]
  /\ cause' = [t \in Task |-> IF t \in Late THEN "timeout" ELSE cause[t]]

sched_preempt_tick(r, st, need) ==
  IF need /\ ready_any(r)
    THEN Yield(r, st) /\ sched_reschedule_done
    ELSE /\ need_resched' = FALSE
         /\ IF slice_ticks + 1 < Quantum
              THEN slice_ticks' = slice_ticks + 1
                   /\ rq' = r /\ state' = st /\ UNCHANGED current
              ELSE slice_ticks' = 0
                   /\ IF ready_any(r) THEN Yield(r, st)
                      ELSE rq' = r /\ state' = st /\ UNCHANGED current

timer_irq ==
  LET woken == Rested \cup Late
      r == PushAll(rq, woken)
      st == [t \in Task |-> IF t \in woken THEN "ready" ELSE state[t]]
      need == need_resched \/ \E t \in woken : Outranks(t)
  IN  /\ sched_wake_sleepers
      /\ IF pc[current] = "user"
           THEN sched_preempt_tick(r, st, need)
           ELSE /\ rq' = r /\ state' = st /\ need_resched' = need
                /\ UNCHANGED <<current, slice_ticks>>
      /\ pc' = IrqPc
      /\ UNCHANGED prio

Waits == 0 .. MaxWait

KernelExit(t) ==
  \/ return_to_user(t) \/ task_yield(t) \/ task_exit(t)
  \/ \E w \in Task \cup {NoPid} : task_block(t, w)
  \/ \E d \in Waits \cup {None} : task_block_until(t, d)
  \/ \E n \in Waits \ {0} : task_sleep_ticks(t, n)

Next ==
  \/ timer_irq \/ idle_thread \/ idle_hlt
  \/ \E t \in Task :
       \/ enter_kernel(t) \/ KernelExit(t) \/ task_block_until_return(t)
       \/ task_wakeup(t) \/ task_interrupt(t) \/ task_kill(t)
       \/ task_reap(t) \/ task_spawn(t)
       \/ \E p \in Moves : sched_set_priority(t, p)

\* Timer interrupts keep coming, also in ring 3; idle's loop runs; kernel
\* code ends in bounded time, by returning, yielding or parking.
Fairness ==
  /\ WF_vars(timer_irq)
  /\ SF_vars(pc[current] = "user" /\ timer_irq)
  /\ WF_vars(idle_thread) /\ WF_vars(idle_hlt)
  /\ \A t \in Task : WF_vars(KernelExit(t)) /\ WF_vars(task_block_until_return(t))

Spec == Init /\ [][Next]_vars

FairSpec == Spec /\ Fairness

-----------------------------------------------------------------------------
TypeOK ==
  /\ current \in Task \cup {Idle}
  /\ state \in [Task -> {"unused", "ready", "running", "blocked", "sleeping", "zombie"}]
  /\ prio \in [Task -> Level]
  /\ slice_ticks \in 0 .. Quantum - 1
  /\ deadline \in [Task -> Waits \cup {None}] /\ wake_tick \in [Task -> Waits]

\* The CPU and the ready lists agree with the task states: the running task
\* is current, and the ready tasks are exactly the queued ones, each queued
\* once, at its own level.
ListsMatchStates ==
  /\ \A t \in Task : state[t] = "running" <=> t = current
  /\ \A t \in Task, p \in Level :
       Cardinality({i \in DOMAIN rq.q[p] : rq.q[p][i] = t})
         = IF state[t] = "ready" /\ prio[t] = p THEN 1 ELSE 0

\* The two counters that let the tick skip its walk are exact, whatever
\* order wake-ups, time-outs, signals and kills come in.
CountersAreExact ==
  /\ n_sleeping = Cardinality({t \in Task : state[t] = "sleeping"})
  /\ n_timed_blocked = Cardinality({t \in Task : deadline[t] # None})
  /\ \A t \in Task : deadline[t] # None => state[t] = "blocked"

\* What the scheduler takes for granted at every step: lists, states and
\* counters agree.
SchedInv == TypeOK /\ ListsMatchStates /\ CountersAreExact

\* No sleeper is left behind by the tick that was to wake it.
NobodyOversleeps ==
  [][timer_irq => \A t \in Task :
        /\ state'[t] = "sleeping" => wake_tick'[t] > 0
        /\ state'[t] = "blocked" => deadline'[t] # 0]_vars

\* task_block_until reports what ended the wait, whichever of a wake-up, the
\* deadline and a signal came first.
ResultNamesCause ==
  \A t \in Task : pc[t] = "until" /\ state[t] \in {"ready", "running"} =>
                  UntilResult(t) = cause[t]

\* A task that is ready runs, or is killed first.
ReadyTasksRun == \A t \in Task : []<>(state[t] # "ready")

\* A sleeping task wakes, or is killed first.
SleepersWake == \A t \in Task : []<>(state[t] # "sleeping")

\* Sleepers wake, and at the tick they asked for.
SleepersWakeOnTime == NobodyOversleeps /\ SleepersWake
=============================================================================
