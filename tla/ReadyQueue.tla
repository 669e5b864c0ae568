----------------------------- MODULE ReadyQueue -----------------------------
(***************************************************************************)
(* The three ready lists of the scheduler and the policy that picks the    *)
(* next task (ready_push, ready_pop, ready_remove, ready_any in            *)
(* kernel/sched/sched.c), as operators on a record                         *)
(*   [q : level -> sequence of tasks, streak : high_streak,                *)
(*    starve : low_starve].                                                *)
(* Values of high_streak of SCHED_HIGH_BURST and more act alike, so the    *)
(* model stops counting there; the C int would wrap only after 2^31        *)
(* dispatches without a NORMAL, LOW or idle one.                           *)
(***************************************************************************)
EXTENDS Integers, Sequences

CONSTANTS SCHED_HIGH_BURST, SCHED_LOW_FLOOR

ASSUME PolicyAssumption ==
  /\ SCHED_HIGH_BURST \in Nat /\ SCHED_HIGH_BURST >= 1
  /\ SCHED_LOW_FLOOR \in Nat /\ SCHED_LOW_FLOOR > SCHED_HIGH_BURST

LOW == 0
NORMAL == 1
HIGH == 2
Level == {LOW, NORMAL, HIGH}

EmptyRq == [q |-> [p \in Level |-> <<>>], streak |-> 0, starve |-> 0]

HasReady(rq, p) == rq.q[p] # <<>>

ready_any(rq) == \E p \in Level : HasReady(rq, p)

Queued(rq, p) == {rq.q[p][i] : i \in DOMAIN rq.q[p]}

\* Faulty variant: a policy without the LOW floor.
NoFloorLevel(rq) ==
  IF HasReady(rq, HIGH) /\ (rq.streak < SCHED_HIGH_BURST \/ ~HasReady(rq, NORMAL)) THEN HIGH
  ELSE IF HasReady(rq, NORMAL) THEN NORMAL
  ELSE LOW

-----------------------------------------------------------------------------
\* A task joins the tail of its level's list.
ready_push(rq, t, p) == [rq EXCEPT !.q[p] = Append(@, t)]

\* The level ready_pop serves when some list is not empty.  The LOW floor is
\* tested first, so it overrides both upper levels.
PopLevel(rq) ==
  LET lowIsDue == HasReady(rq, LOW) /\ rq.starve >= SCHED_LOW_FLOOR
      highMayRun == rq.streak < SCHED_HIGH_BURST \/ ~HasReady(rq, NORMAL)
  IN  IF lowIsDue THEN LOW
      ELSE IF HasReady(rq, HIGH) /\ highMayRun THEN HIGH
      ELSE IF HasReady(rq, NORMAL) THEN NORMAL
      ELSE LOW

\* The lists and counters after ready_pop took the head of level p.
Popped(rq, p) ==
  [q      |-> [rq.q EXCEPT ![p] = Tail(@)],
   streak |-> IF p # HIGH THEN 0
              ELSE IF rq.streak < SCHED_HIGH_BURST THEN rq.streak + 1
              ELSE rq.streak,
   starve |-> IF p = LOW THEN 0
              ELSE IF rq.starve < SCHED_LOW_FLOOR THEN rq.starve + 1
              ELSE rq.starve]

\* ready_pop on empty lists falls back to the idle task and ends the burst.
PoppedEmpty(rq) == [rq EXCEPT !.streak = 0]

\* A task leaves whichever list it is on.
Unlinked(s, t) ==
  IF \E i \in DOMAIN s : s[i] = t
    THEN LET i == CHOOSE i \in DOMAIN s : s[i] = t
         IN  SubSeq(s, 1, i - 1) \o SubSeq(s, i + 1, Len(s))
    ELSE s

ready_remove(rq, t) ==
  [rq EXCEPT !.q = [p \in Level |-> Unlinked(rq.q[p], t)]]
=============================================================================
