------------------------------ MODULE Dispatch ------------------------------
(***************************************************************************)
(* How long a runnable task waits for the CPU: the ready lists under every *)
(* sequence of pushes, pops, removals and priority changes, with a count,  *)
(* per level, of the dispatches that went elsewhere while the level had a  *)
(* task ready.  The counts are observers; the code has none of them.       *)
(***************************************************************************)
EXTENDS ReadyQueue

CONSTANT Task

VARIABLES rq,     \* the ready lists, see ReadyQueue
          waited  \* level -> dispatches passed over since it was last
                  \* served or empty

vars == <<rq, waited>>

Somewhere(t) == \E p \in Level : t \in Queued(rq, p)

Init ==
  /\ rq = EmptyRq
  /\ waited = [p \in Level |-> 0]

\* A level with nothing ready is not waiting.
Observe(served) ==
  waited' = [p \in Level |->
               IF rq'.q[p] = <<>> \/ p \in served THEN 0
               ELSE IF served = {} THEN waited[p]
               ELSE waited[p] + 1]

Push(t, p) ==
  /\ ~Somewhere(t)
  /\ rq' = ready_push(rq, t, p)
  /\ Observe({})

Pop ==
  IF ready_any(rq)
    THEN /\ rq' = Popped(rq, PopLevel(rq))
         /\ Observe({PopLevel(rq)})
    ELSE /\ rq' = PoppedEmpty(rq)
         /\ Observe({})

\* task_kill takes a ready task off its list.
Remove(t) ==
  /\ Somewhere(t)
  /\ rq' = ready_remove(rq, t)
  /\ Observe({})

\* A queued task that changes level goes to the tail of the new one.
sched_set_priority(t, p) ==
  /\ Somewhere(t) /\ t \notin Queued(rq, p)
  /\ rq' = ready_push(ready_remove(rq, t), t, p)
  /\ Observe({})

Next ==
  \/ Pop
  \/ \E t \in Task : Remove(t) \/ \E p \in Level : Push(t, p) \/ sched_set_priority(t, p)

Spec == Init /\ [][Next]_vars

-----------------------------------------------------------------------------
TypeOK ==
  /\ rq \in [q : [Level -> Seq(Task)],
             streak : 0 .. SCHED_HIGH_BURST, starve : 0 .. SCHED_LOW_FLOOR]
  /\ waited \in [Level -> Nat]

\* The HIGH burst and the LOW floor of ready_pop keep every level moving.  A
\* ready LOW level is passed over at most SCHED_LOW_FLOOR times.  A ready
\* NORMAL level is passed over at most twice the burst and once more, which
\* happens when the LOW floor falls due at the end of a burst and resets
\* high_streak.  A ready HIGH level is passed over at most twice, once for
\* NORMAL at the end of a burst and once for LOW at its floor.
StarvationBound ==
  /\ waited[LOW] <= SCHED_LOW_FLOOR
  /\ waited[NORMAL] <= 2 * SCHED_HIGH_BURST + 1
  /\ waited[HIGH] <= 2

\* What the comment on SCHED_HIGH_BURST says: "At 4, a ready NORMAL task
\* waits at most 4 dispatches".
NormalWaitsOneBurst == waited[NORMAL] <= SCHED_HIGH_BURST

\* Why the bounds hold.  LOW's wait is at most low_starve.  NORMAL's wait is
\* at most high_streak, or LOW has been served meanwhile: then low_starve and
\* high_streak have counted together since, and LOW is not due again before
\* the burst ends.
DispatchInv ==
  /\ TypeOK
  /\ \A p \in Level : rq.q[p] = <<>> => waited[p] = 0
  /\ waited[LOW] <= rq.starve
  /\ \/ waited[NORMAL] <= rq.streak
     \/ /\ rq.starve = rq.streak
        /\ waited[NORMAL] <= rq.streak + SCHED_HIGH_BURST + 1
  /\ waited[HIGH] > 0 => rq.streak = 0
  /\ waited[HIGH] <= 2
  /\ waited[HIGH] = 2 => rq.starve \in {0, 1}
=============================================================================
