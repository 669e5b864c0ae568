---------------------------- MODULE PartProofs ------------------------------
(***************************************************************************)
(* Proofs about three parts that stand by themselves: the starvation       *)
(* bounds of ready_pop, for every set of tasks and every burst and floor;  *)
(* the work the other processors do, for any number of them, any queue and *)
(* any number of lanes; and the UDP sockets, for any finite set of tasks,  *)
(* any sockets and ports and any number of descriptors.                    *)
(***************************************************************************)
EXTENDS Dispatch, SmpWork, Sockets, WalkProofs

\* The provers a leaf is tried with, and their seconds.
USE ZenonT(60), SMTT(30)

\* ready_pop serves a level that has a task, when any has.
LEMMA PopServesReady ==
  ASSUME ready_any(rq)
  PROVE  PopLevel(rq) \in Level /\ HasReady(rq, PopLevel(rq))
BY SMTT(30) DEF ready_any, PopLevel, HasReady, Level, LOW, NORMAL, HIGH

\* Taking a task off a list leaves a list of tasks.
LEMMA UnlinkedType ==
  ASSUME NEW s \in Seq(Task), NEW t
  PROVE  Unlinked(s, t) \in Seq(Task)
<1>1. CASE \E i \in DOMAIN s : s[i] = t
  <2>. DEFINE i == CHOOSE i \in DOMAIN s : s[i] = t
  <2>1. i \in 1 .. Len(s)
    BY <1>1, SMTT(30)
  <2>. HIDE DEF i
  <2>2. SubSeq(s, 1, i - 1) \in Seq(Task) /\ SubSeq(s, i + 1, Len(s)) \in Seq(Task)
    BY <2>1, SMTT(30)
  <2>3. Unlinked(s, t) = SubSeq(s, 1, i - 1) \o SubSeq(s, i + 1, Len(s))
    BY <1>1 DEF Unlinked, i
  <2>. QED
    BY <2>2, <2>3, SMTT(30)
<1>2. CASE ~ \E i \in DOMAIN s : s[i] = t
  BY <1>2 DEF Unlinked
<1>. QED
  BY <1>1, <1>2

\* The type invariant, as the numeric facts the bounds rest on.
LEMMA Counters ==
  TypeOK =>
    /\ rq.streak \in Nat /\ rq.streak <= SCHED_HIGH_BURST
    /\ rq.starve \in Nat /\ rq.starve <= SCHED_LOW_FLOOR
    /\ waited[LOW] \in Nat /\ waited[NORMAL] \in Nat /\ waited[HIGH] \in Nat
BY PolicyAssumption, SMTT(30) DEF TypeOK, Level

LEMMA CountersNext ==
  TypeOK' =>
    /\ rq'.streak \in Nat /\ rq'.streak <= SCHED_HIGH_BURST
    /\ rq'.starve \in Nat /\ rq'.starve <= SCHED_LOW_FLOOR
    /\ waited'[LOW] \in Nat /\ waited'[NORMAL] \in Nat /\ waited'[HIGH] \in Nat
BY PolicyAssumption, SMTT(30) DEF TypeOK, Level

LEMMA InitDispatch == Init => DispatchInv
BY PolicyAssumption, SMTT(30)
   DEF Init, DispatchInv, TypeOK, EmptyRq, Level, LOW, NORMAL, HIGH

\* The operations that only move tasks between lists leave the counters
\* alone, and a wait can only end.
LEMMA MoveKeeps ==
  ASSUME DispatchInv,
         rq' \in [q : [Level -> Seq(Task)],
                  streak : 0 .. SCHED_HIGH_BURST, starve : 0 .. SCHED_LOW_FLOOR],
         rq'.streak = rq.streak, rq'.starve = rq.starve,
         Observe({})
  PROVE  DispatchInv'
<1>1. \A p \in Level : waited'[p] \in {0, waited[p]}
  BY DEF Observe
<1>2. waited' \in [Level -> Nat]
  BY DEF Observe, DispatchInv, TypeOK
<1>3. \A p \in Level : rq'.q[p] = <<>> => waited'[p] = 0
  BY DEF Observe
<1>4. TypeOK'
  BY <1>2 DEF TypeOK
<1>5. waited'[LOW] \in {0, waited[LOW]} /\ waited'[NORMAL] \in {0, waited[NORMAL]}
      /\ waited'[HIGH] \in {0, waited[HIGH]}
  BY <1>1 DEF Level
<1>. QED
  BY <1>3, <1>4, <1>5, Counters, SMTT(30) DEF DispatchInv

LEMMA PopStep == DispatchInv /\ Pop => DispatchInv'
<1>. SUFFICES ASSUME DispatchInv, Pop PROVE DispatchInv'
  OBVIOUS
<1>. USE PolicyAssumption
<1>1. CASE ~ready_any(rq)
  <2>1. rq' = PoppedEmpty(rq) /\ Observe({})
    BY <1>1 DEF Pop
  <2>2. \A p \in Level : rq.q[p] = <<>> /\ waited[p] = 0
    BY <1>1 DEF ready_any, HasReady, DispatchInv
  <2>3. rq' \in [q : [Level -> Seq(Task)], streak : 0 .. SCHED_HIGH_BURST,
                 starve : 0 .. SCHED_LOW_FLOOR]
        /\ rq'.q = rq.q /\ rq'.starve = rq.starve
    <3>1. 0 \in 0 .. SCHED_HIGH_BURST
      BY SMTT(30)
    <3>. QED
      BY <2>1, <3>1 DEF PoppedEmpty, DispatchInv, TypeOK
  <2>4. \A p \in Level : waited'[p] = 0
    BY <2>1, <2>2, <2>3 DEF Observe
  <2>5. waited' \in [Level -> Nat]
    BY <2>1, <2>4, SMTT(30) DEF Observe
  <2>6. TypeOK'
    BY <2>3, <2>5 DEF TypeOK
  <2>7. waited'[LOW] = 0 /\ waited'[NORMAL] = 0 /\ waited'[HIGH] = 0
    BY <2>4 DEF Level
  <2>. QED
    BY <2>4, <2>6, <2>7, CountersNext, SMTT(30) DEF DispatchInv
<1>2. CASE ready_any(rq)
  <2>. DEFINE p == PopLevel(rq)
  <2>1. rq' = Popped(rq, p) /\ Observe({p})
    BY <1>2 DEF Pop
  <2>2. p \in Level /\ rq.q[p] # <<>>
    BY <1>2, PopServesReady DEF HasReady
  <2>3. rq' \in [q : [Level -> Seq(Task)], streak : 0 .. SCHED_HIGH_BURST,
                 starve : 0 .. SCHED_LOW_FLOOR]
    <3>1. Tail(rq.q[p]) \in Seq(Task)
      BY <2>2, SMTT(30) DEF DispatchInv, TypeOK
    <3>2. rq.q \in [Level -> Seq(Task)]
      BY DEF DispatchInv, TypeOK
    <3>3. [rq.q EXCEPT ![p] = Tail(@)] \in [Level -> Seq(Task)]
      BY <2>2, <3>1, <3>2
    <3>4. /\ (IF p # HIGH THEN 0 ELSE IF rq.streak < SCHED_HIGH_BURST THEN rq.streak + 1 ELSE rq.streak)
               \in 0 .. SCHED_HIGH_BURST
          /\ (IF p = LOW THEN 0 ELSE IF rq.starve < SCHED_LOW_FLOOR THEN rq.starve + 1 ELSE rq.starve)
               \in 0 .. SCHED_LOW_FLOOR
      BY Counters, SMTT(30) DEF DispatchInv
    <3>. HIDE DEF p
    <3>. QED
      BY <2>1, <3>3, <3>4 DEF Popped
  <2>4. \A l \in Level : l # p => rq'.q[l] = rq.q[l]
    BY <2>1, <2>2 DEF Popped, DispatchInv, TypeOK
  <2>5. /\ waited'[p] = 0
        /\ \A l \in Level : l # p =>
             waited'[l] = IF rq.q[l] = <<>> THEN 0 ELSE waited[l] + 1
        /\ \A l \in Level : rq'.q[l] = <<>> => waited'[l] = 0
        /\ waited' \in [Level -> Nat]
    <3>. HIDE DEF p
    <3>1. waited \in [Level -> Nat]
      BY DEF DispatchInv, TypeOK
    <3>2. \A l \in Level : waited'[l] = IF rq'.q[l] = <<>> \/ l = p THEN 0 ELSE waited[l] + 1
      BY <2>1 DEF Observe
    <3>3. \A l \in Level : rq.q[l] = <<>> /\ l # p => rq'.q[l] = <<>>
      BY <2>4
    <3>4. waited' \in [Level -> Nat]
      BY <2>1, <3>1, SMTT(30) DEF Observe
    <3>. QED
      BY <2>2, <2>4, <3>2, <3>3, <3>4
  <2>6. TypeOK'
    BY <2>3, <2>5 DEF TypeOK
  <2>. DEFINE passed(l) == IF rq.q[l] = <<>> THEN 0 ELSE waited[l] + 1
  <2>7. /\ p = LOW => rq'.streak = 0 /\ rq'.starve = 0
                      /\ waited'[NORMAL] = passed(NORMAL) /\ waited'[HIGH] = passed(HIGH)
        /\ p = NORMAL => rq'.streak = 0
                      /\ waited'[LOW] = passed(LOW) /\ waited'[HIGH] = passed(HIGH)
        /\ p = HIGH => rq'.streak = IF rq.streak < SCHED_HIGH_BURST
                                     THEN rq.streak + 1 ELSE rq.streak
        /\ p = HIGH => waited'[LOW] = passed(LOW) /\ waited'[NORMAL] = passed(NORMAL)
        /\ p # LOW => rq'.starve = IF rq.starve < SCHED_LOW_FLOOR
                                    THEN rq.starve + 1 ELSE rq.starve
    BY <2>1, <2>5, SMTT(30) DEF Popped, Level, LOW, NORMAL, HIGH
  <2>8. /\ p = LOW => \/ rq.starve >= SCHED_LOW_FLOOR
                      \/ rq.q[HIGH] = <<>> /\ rq.q[NORMAL] = <<>>
        /\ p # LOW => rq.q[LOW] = <<>> \/ ~(rq.starve >= SCHED_LOW_FLOOR)
        /\ p = NORMAL => rq.q[HIGH] = <<>> \/ ~(rq.streak < SCHED_HIGH_BURST)
        /\ p = HIGH => rq.q[NORMAL] = <<>> \/ rq.streak < SCHED_HIGH_BURST
    BY <2>2, SMTT(30) DEF PopLevel, HasReady, LOW, NORMAL, HIGH
  <2>. HIDE DEF p
  <2>9. CASE p = LOW
    <3>1. waited'[LOW] = 0
      BY <2>5, <2>9
    <3>2. /\ waited'[NORMAL] <= SCHED_HIGH_BURST + 1
          /\ waited'[HIGH] <= 2
      <4>1. waited'[NORMAL] = passed(NORMAL) /\ waited'[HIGH] = passed(HIGH)
        BY <2>7, <2>9
      <4>2. \/ rq.starve >= SCHED_LOW_FLOOR
            \/ passed(HIGH) = 0 /\ passed(NORMAL) = 0
        BY <2>8, <2>9
      <4>3. passed(NORMAL) \in {0, waited[NORMAL] + 1} /\ passed(HIGH) \in {0, waited[HIGH] + 1}
        OBVIOUS
      <4>. HIDE DEF passed
      <4>. QED
        BY <4>1, <4>2, <4>3, Counters, SMTT(60) DEF DispatchInv
    <3>. QED
      BY <2>5, <2>6, <2>7, <2>9, <3>1, <3>2, CountersNext, SMTT(30) DEF DispatchInv
  <2>10. CASE p = NORMAL
    <3>1. waited'[NORMAL] = 0
      BY <2>5, <2>10
    <3>2. waited'[LOW] <= rq'.starve /\ waited'[HIGH] <= 1
      BY <2>7, <2>8, <2>10, Counters, SMTT(30) DEF DispatchInv, LOW, NORMAL
    <3>. QED
      BY <2>5, <2>6, <2>7, <2>10, <3>1, <3>2, CountersNext, SMTT(30) DEF DispatchInv
  <2>11. CASE p = HIGH
    <3>1. waited'[HIGH] = 0
      BY <2>5, <2>11
    <3>2. waited'[LOW] <= rq'.starve
      BY <2>7, <2>8, <2>11, Counters, SMTT(30) DEF DispatchInv, LOW, HIGH
    <3>3. \/ waited'[NORMAL] <= rq'.streak
          \/ /\ rq'.starve = rq'.streak
             /\ waited'[NORMAL] <= rq'.streak + SCHED_HIGH_BURST + 1
      <4>1. CASE rq.q[NORMAL] = <<>>
        BY <2>6, <2>7, <2>11, <4>1, CountersNext, SMTT(30)
      <4>2. CASE rq.q[NORMAL] # <<>>
        <5>1. rq.streak < SCHED_HIGH_BURST /\ rq'.streak = rq.streak + 1
              /\ waited'[NORMAL] = waited[NORMAL] + 1
          BY <2>7, <2>8, <2>11, <4>2
        <5>2. rq'.starve = IF rq.starve < SCHED_LOW_FLOOR
                           THEN rq.starve + 1 ELSE rq.starve
          BY <2>7, <2>11, SMTT(30) DEF LOW, HIGH
        <5>3. /\ rq.streak \in Nat /\ rq.starve \in Nat /\ rq.starve <= SCHED_LOW_FLOOR
              /\ waited[NORMAL] \in Nat
          BY Counters DEF DispatchInv
        <5>4. CASE waited[NORMAL] <= rq.streak
          BY <5>1, <5>3, <5>4, SMTT(30)
        <5>5. CASE rq.starve = rq.streak /\ waited[NORMAL] <= rq.streak + SCHED_HIGH_BURST + 1
          <6>1. rq'.starve = rq'.streak \/ rq.starve >= SCHED_LOW_FLOOR
            BY <5>1, <5>2, <5>3, <5>5, SMTT(30)
          <6>. QED
            BY <5>1, <5>2, <5>3, <5>5, <6>1, SMTT(30)
        <5>. QED
          BY <5>4, <5>5 DEF DispatchInv
      <4>. QED
        BY <4>1, <4>2
    <3>. QED
      BY <2>5, <2>6, <2>11, <3>1, <3>2, <3>3, CountersNext, SMTT(30) DEF DispatchInv
  <2>. QED
    BY <2>2, <2>9, <2>10, <2>11 DEF Level
<1>. QED
  BY <1>1, <1>2

LEMMA NextDispatch == DispatchInv /\ [Next]_vars => DispatchInv'
<1>. SUFFICES ASSUME DispatchInv, [Next]_vars PROVE DispatchInv'
  OBVIOUS
<1>0. rq \in [q : [Level -> Seq(Task)], streak : 0 .. SCHED_HIGH_BURST,
              starve : 0 .. SCHED_LOW_FLOOR]
  BY DEF DispatchInv, TypeOK
<1>1. CASE Pop
  BY <1>1, PopStep
<1>2. ASSUME NEW t \in Task, NEW p \in Level, Push(t, p) PROVE DispatchInv'
  <2>1. Append(rq.q[p], t) \in Seq(Task)
    BY <1>0, SMTT(30)
  <2>. QED
    BY <1>0, <1>2, <2>1, MoveKeeps DEF Push, ready_push
<1>3. ASSUME NEW t \in Task, Remove(t) PROVE DispatchInv'
  <2>1. \A p \in Level : Unlinked(rq.q[p], t) \in Seq(Task)
    BY <1>0, UnlinkedType
  <2>. QED
    BY <1>0, <1>3, <2>1, MoveKeeps DEF Remove, ready_remove
<1>4. ASSUME NEW t \in Task, NEW p \in Level, sched_set_priority(t, p)
      PROVE  DispatchInv'
  <2>. DEFINE r == ready_remove(rq, t)
  <2>1. \A l \in Level : Unlinked(rq.q[l], t) \in Seq(Task)
    BY <1>0, UnlinkedType
  <2>2. r \in [q : [Level -> Seq(Task)], streak : 0 .. SCHED_HIGH_BURST,
               starve : 0 .. SCHED_LOW_FLOOR]
        /\ r.streak = rq.streak /\ r.starve = rq.starve
    BY <1>0, <2>1 DEF ready_remove
  <2>. HIDE DEF r
  <2>3. Append(r.q[p], t) \in Seq(Task)
    BY <2>2, SMTT(30)
  <2>4. rq' = [r EXCEPT !.q[p] = Append(@, t)] /\ Observe({})
    BY <1>4 DEF sched_set_priority, ready_push, r
  <2>. QED
    BY <2>2, <2>3, <2>4, MoveKeeps
<1>5. CASE UNCHANGED vars
  BY <1>5 DEF vars, DispatchInv, TypeOK
<1>. QED
  BY <1>1, <1>2, <1>3, <1>4, <1>5 DEF Next

\* The policy's counters bound the waits in every reachable state.
THEOREM DispatchInvariant == Spec => []DispatchInv
BY InitDispatch, NextDispatch, PTL DEF Spec

\* No level starves under ready_pop, for any number of tasks, any burst and
\* any floor above it.
THEOREM NoStarvation == Spec => []StarvationBound
<1>1. DispatchInv => StarvationBound
  BY PolicyAssumption, SMTT(30) DEF DispatchInv, StarvationBound, TypeOK, Level, LOW, NORMAL, HIGH
<1>. QED
  BY <1>1, DispatchInvariant, PTL

-----------------------------------------------------------------------------
\* The work queue of the other processors.

-----------------------------------------------------------------------------
(* The control of the processors *)

\* An AP that looks for work can be kicked.
OnlineFirst == \A c \in APs : ap[c] \notin {"off", "counted"} => online[c]

\* Between reading the entry at the tail and moving the tail, the entry stays.
AtHead == \A c \in APs : ap[c] = "advance" => work # <<>> /\ item[c] = Head(work)

Submitting == bsp \in {"submit", "lock", "put", "kick", "inline"}

LaneInBatch == Submitting => 1 <= lane /\ lane < batch.lanes

KickRange == bsp = "kick" => kick \in 1 .. CpuCount

IdleHasNoBatch == bsp = "idle" => batch.lanes = 0

Control == /\ LockHeld /\ OnlineFirst /\ AtHead /\ LaneInBatch
           /\ KickRange /\ IdleHasNoBatch /\ SleepersAreKicked

-----------------------------------------------------------------------------
(* Where the lanes of a batch are *)

Elements(w) == {w[i] : i \in 1 .. Len(w)}
Distinct(w) == \A i, j \in 1 .. Len(w) : w[i] = w[j] => i = j

InRing == Elements(work)
Held == {item[c] : c \in {d \in APs : Running(d)}}
Copying == {item[c] : c \in {d \in APs : ap[d] = "copy"}}

\* The lanes the boot processor has not yet queued or copied.
ToCome == IF bsp \in {"idle", "wait"} THEN {}
          ELSE {0} \cup (IF bsp = "own" THEN {}
                         ELSE IF bsp = "kick" THEN lane + 1 .. batch.lanes - 1
                         ELSE lane .. batch.lanes - 1)

Outstanding == InRing \cup Held \cup ToCome
Lanes == 0 .. batch.lanes - 1

\* No lane is in two places.
Apart == /\ Distinct(work)
         /\ \A c, d \in APs : Running(c) /\ Running(d) /\ item[c] = item[d] => c = d
         /\ InRing \cap Held = {}
         /\ (InRing \cup Held) \cap ToCome = {}

\* The counter counts the lanes that are not finished.
Counted == Outstanding \subseteq Lanes /\ batch.remaining = Cardinality(Outstanding)

\* The lanes that are begun are exactly those nobody has still to begin.
BegunExactly == /\ (InRing \cup ToCome \cup Copying) \cap batch.begun = {}
                /\ Lanes \subseteq batch.begun \cup InRing \cup ToCome \cup Copying
                /\ batch.begun \subseteq Lanes
                /\ ~ batch.failed => batch.copied = batch.begun

Ledger == Apart /\ Counted /\ BegunExactly

SmpInv == SmpTypeOK /\ Control /\ Ledger

-----------------------------------------------------------------------------
LEMMA SmpConstants ==
  /\ CpuCount \in Nat /\ 0 < CpuCount
  /\ SMP_WORK_CAPACITY \in Nat /\ 0 < SMP_WORK_CAPACITY
  /\ FB_COPY_MAX_LANES \in Nat
  BY SmpAssumption, SMTT(30)

LEMMA AppendElements ==
  ASSUME NEW w \in Seq(Nat), NEW x \in Nat
  PROVE  /\ Elements(Append(w, x)) = Elements(w) \cup {x}
         /\ Distinct(w) /\ x \notin Elements(w) => Distinct(Append(w, x))
  <1>1. /\ Len(Append(w, x)) = Len(w) + 1 /\ Append(w, x)[Len(w) + 1] = x
        /\ \A i \in 1 .. Len(w) : Append(w, x)[i] = w[i]
        /\ Len(w) \in Nat
    BY SMTT(30)
  <1> DEFINE v == Append(w, x)
  <1> HIDE DEF v
  <1>2. \A i \in 1 .. Len(w) + 1 : i \in 1 .. Len(w) \/ i = Len(w) + 1
    BY <1>1, SMTT(30)
  <1>3. \A i \in 1 .. Len(w) : i \in 1 .. Len(w) + 1
    BY <1>1, SMTT(30)
  <1>4. Len(w) + 1 \in 1 .. Len(w) + 1
    BY <1>1, SMTT(30)
  <1>5. Elements(v) = Elements(w) \cup {x}
    BY <1>1, <1>2, <1>3, <1>4 DEF Elements, v
  <1>6. Distinct(w) /\ x \notin Elements(w) => Distinct(v)
    BY <1>1, <1>2 DEF Distinct, Elements, v
  <1>7. QED
    BY <1>5, <1>6 DEF v

LEMMA TailElements ==
  ASSUME NEW w \in Seq(Nat), w # <<>>, Distinct(w)
  PROVE  /\ Head(w) \in Elements(w)
         /\ Elements(Tail(w)) = Elements(w) \ {Head(w)}
         /\ Distinct(Tail(w))
         /\ Tail(w) \in Seq(Nat) /\ Len(Tail(w)) < Len(w)
  <1>1. /\ Len(w) \in Nat /\ Len(w) > 0 /\ Head(w) = w[1]
        /\ Len(Tail(w)) = Len(w) - 1 /\ Tail(w) \in Seq(Nat)
        /\ \A i \in 1 .. Len(w) - 1 : Tail(w)[i] = w[i + 1]
    BY SMTT(30)
  <1> DEFINE v == Tail(w)
  <1> HIDE DEF v
  <1>2. 1 \in 1 .. Len(w)
    BY <1>1, SMTT(30)
  <1>3. \A i \in 1 .. Len(w) - 1 : i + 1 \in 1 .. Len(w) /\ i + 1 # 1
    BY <1>1, SMTT(30)
  <1>4. \A i \in 1 .. Len(w) : i = 1 \/ (i - 1 \in 1 .. Len(w) - 1 /\ (i - 1) + 1 = i)
    BY <1>1, SMTT(30)
  <1>5. Head(w) \in Elements(w)
    BY <1>1, <1>2 DEF Elements
  <1>6. Elements(v) = Elements(w) \ {w[1]}
    <2>1. ASSUME NEW y \in Elements(v) PROVE y \in Elements(w) /\ y # w[1]
      BY <2>1, <1>1, <1>2, <1>3, SMTT(30) DEF Elements, Distinct, v
    <2>2. ASSUME NEW y \in Elements(w), y # w[1] PROVE y \in Elements(v)
      <3>1. PICK i \in 1 .. Len(w) : y = w[i]
        BY DEF Elements
      <3>2. i - 1 \in 1 .. Len(w) - 1 /\ (i - 1) + 1 = i
        BY <3>1, <2>2, <1>4
      <3>3. y = v[i - 1]
        BY <3>1, <3>2, <1>1 DEF v
      <3>4. i - 1 \in 1 .. Len(v)
        BY <3>2, <1>1 DEF v
      <3>5. QED
        BY <3>3, <3>4 DEF Elements
    <2>3. QED
      BY <2>1, <2>2
  <1>7. Distinct(v)
    <2> SUFFICES ASSUME NEW i \in 1 .. Len(w) - 1, NEW j \in 1 .. Len(w) - 1, v[i] = v[j]
                 PROVE  i = j
      BY <1>1 DEF Distinct, v
    <2>1. w[i + 1] = w[j + 1]
      BY <1>1 DEF v
    <2>2. i + 1 = j + 1
      BY <2>1, <1>3 DEF Distinct
    <2>3. QED
      BY <2>2, <1>1, SMTT(30)
  <1>8. QED
    BY <1>1, <1>5, <1>6, <1>7, SMTT(30) DEF v

BatchType == [lanes : Nat, remaining : Nat, failed : BOOLEAN,
              begun : SUBSET Nat, copied : SUBSET Nat]

\* What copying lane l, with outcome ok, makes of a batch.
CopiedLane(b, l, ok) ==
  [b EXCEPT !.begun = @ \cup {l},
            !.copied = IF ok /\ ~ b.failed THEN @ \cup {l} ELSE @,
            !.failed = @ \/ ~ ok]

LEMMA CopiedFacts ==
  ASSUME NEW b \in BatchType, NEW l \in Nat, NEW ok \in BOOLEAN
  PROVE  LET n == CopiedLane(b, l, ok)
         IN  /\ n \in BatchType
             /\ n.lanes = b.lanes /\ n.remaining = b.remaining
             /\ n.begun = b.begun \cup {l}
             /\ ~ n.failed => ~ b.failed /\ n.copied = b.copied \cup {l}
  BY DEF BatchType, CopiedLane

LEMMA FinishedFacts ==
  ASSUME NEW b \in BatchType, b.remaining > 0
  PROVE  LET n == FinishedLane(b)
         IN  /\ n \in BatchType /\ n.remaining = b.remaining - 1
             /\ n.lanes = b.lanes /\ n.begun = b.begun
             /\ n.copied = b.copied /\ n.failed = b.failed
  BY SMTT(30) DEF BatchType, FinishedLane

-----------------------------------------------------------------------------
(* Initially, and when no lane moves *)

LEMMA LanesFinite ==
  ASSUME SmpTypeOK, Counted
  PROVE  IsFiniteSet(Lanes) /\ IsFiniteSet(Outstanding)
  <1>1. 0 \in Int /\ batch.lanes - 1 \in Int
    BY SMTT(30) DEF SmpTypeOK
  <1>2. IsFiniteSet(Lanes)
    BY <1>1, FS_Interval DEF Lanes
  <1>3. QED
    BY <1>2, FS_Subset DEF Counted

\* A lane that is outstanding is counted, and finishing it leaves one less.
LEMMA OneLess ==
  ASSUME SmpTypeOK, Counted, NEW l \in Outstanding
  PROVE  batch.remaining > 0 /\ Cardinality(Outstanding \ {l}) = batch.remaining - 1
  <1>1. IsFiniteSet(Outstanding)
    BY LanesFinite
  <1>2. /\ IsFiniteSet(Outstanding \ {l})
        /\ Cardinality(Outstanding \ {l}) = Cardinality(Outstanding) - 1
    BY <1>1, FS_RemoveElement
  <1>3. Cardinality(Outstanding \ {l}) \in Nat /\ Cardinality(Outstanding) \in Nat
    BY <1>1, <1>2, FS_CardinalityType
  <1>4. QED
    BY <1>2, <1>3, SMTT(30) DEF Counted

LEMMA InitSmp == SmpInit => SmpInv
  <1> SUFFICES ASSUME SmpInit PROVE SmpInv
    OBVIOUS
  <1>1. SmpTypeOK
    BY SmpConstants, SMTT(30) DEF SmpInit, SmpTypeOK, ApStates, BspStates, NoBatch, CPUs
  <1>2. Control
    BY SmpConstants, SMTT(30) DEF SmpInit, Control, LockHeld, OnlineFirst, AtHead, LaneInBatch,
       Submitting, KickRange, IdleHasNoBatch, SleepersAreKicked, NoBatch, APs, BSP, Free
  <1>3. InRing = {} /\ Held = {} /\ Copying = {} /\ ToCome = {} /\ Lanes = {}
    BY SMTT(30) DEF SmpInit, InRing, Elements, Held, Copying, Running, ToCome, Lanes, NoBatch
  <1>4. Apart
    BY <1>3, SMTT(30) DEF SmpInit, Apart, Distinct, Running
  <1>5. Counted
    BY <1>3, FS_EmptySet DEF SmpInit, Counted, Outstanding, NoBatch
  <1>6. BegunExactly
    BY <1>3 DEF SmpInit, BegunExactly, NoBatch
  <1>7. QED
    BY <1>1, <1>2, <1>4, <1>5, <1>6 DEF SmpInv, Ledger

LEMMA LedgerKept ==
  ASSUME Ledger, work' = work, batch' = batch, ToCome' = ToCome,
         \A c \in APs : /\ Running(c)' <=> Running(c)
                        /\ ap'[c] = "copy" <=> ap[c] = "copy"
                        /\ Running(c) => item'[c] = item[c]
  PROVE  Ledger'
  <1>1. InRing' = InRing /\ Lanes' = Lanes
    BY DEF InRing, Lanes
  <1>2. Held' = Held
    BY DEF Held
  <1>3. Copying' = Copying
    BY DEF Copying, Running
  <1>4. Apart'
    BY <1>1, <1>2 DEF Ledger, Apart
  <1>5. Counted' /\ BegunExactly'
    BY <1>1, <1>2, <1>3 DEF Ledger, Counted, Outstanding, BegunExactly
  <1>6. QED
    BY <1>4, <1>5 DEF Ledger

-----------------------------------------------------------------------------
(* Steps of the application processors that move no lane *)

ComingUp(c) == ap_main(c) \/ ap_online(c)
Looking(c) == work_pop(c) \/ work_pop_take(c) \/ work_pop_empty(c)
Resting(c) == ap_halt(c) \/ isr_handler(c)

LEMMA QuietType ==
  ASSUME SmpTypeOK, NEW c \in APs, ComingUp(c) \/ Looking(c) \/ Resting(c)
  PROVE  SmpTypeOK'
  <1>1. c \in CPUs
    BY SmpConstants, SMTT(30) DEF APs, CPUs
  <1>2. CASE ComingUp(c)
    <2>1. CASE ap_main(c)
      BY <2>1, SMTT(30) DEF ap_main, apOnly, SmpTypeOK, ApStates
    <2>2. CASE ap_online(c)
      BY <2>2 DEF ap_online, apOnly, SmpTypeOK, ApStates
    <2>3. QED
      BY <1>2, <2>1, <2>2 DEF ComingUp
  <1>3. CASE work_pop(c)
    BY <1>1, <1>3 DEF work_pop, spin_lock, apOnly, SmpTypeOK, ApStates
  <1>4. CASE work_pop_take(c)
    <2>1. Head(work) \in Nat
      BY <1>4, SMTT(30) DEF work_pop_take, SmpTypeOK
    <2>2. QED
      BY <1>4, <2>1 DEF work_pop_take, apOnly, SmpTypeOK, ApStates
  <1>5. CASE work_pop_empty(c)
    BY <1>5 DEF work_pop_empty, spin_unlock, apOnly, SmpTypeOK, ApStates
  <1>6. CASE Resting(c)
    BY <1>6 DEF Resting, ap_halt, isr_handler, apOnly, SmpTypeOK, ApStates
  <1>7. QED
    BY <1>2, <1>3, <1>4, <1>5, <1>6 DEF Looking

LEMMA QuietControl ==
  ASSUME SmpTypeOK, Control, NEW c \in APs, ComingUp(c) \/ Looking(c) \/ Resting(c)
  PROVE  Control'
  <1> USE DEF Control, SmpTypeOK
  <1>0. UNCHANGED <<work, bsp, lane, kick, batch>> /\ c # BSP /\ c # Free /\ BSP # Free
    BY SmpConstants, SMTT(30) DEF ComingUp, Looking, Resting, ap_main, ap_online, work_pop,
       work_pop_take, work_pop_empty, ap_halt, isr_handler, apOnly, APs, BSP, Free
  <1>1. LaneInBatch' /\ KickRange' /\ IdleHasNoBatch'
    BY <1>0 DEF LaneInBatch, Submitting, KickRange, IdleHasNoBatch
  <1>2. CASE ComingUp(c)
    <2>1. CASE ap_main(c)
      BY <1>0, <1>1, <2>1 DEF ap_main, LockHeld, OnlineFirst, AtHead, SleepersAreKicked
    <2>2. CASE ap_online(c)
      BY <1>0, <1>1, <2>2 DEF ap_online, LockHeld, OnlineFirst, AtHead, SleepersAreKicked
    <2>3. QED
      BY <1>2, <2>1, <2>2 DEF ComingUp
  <1>3. CASE work_pop(c)
    <2>1. /\ work_lock = Free /\ work_lock' = c
          /\ \A d \in APs : ap'[d] = IF d = c THEN "take" ELSE ap[d]
      BY <1>3 DEF work_pop, spin_lock
    <2>2. LockHeld'
      BY <1>0, <2>1, SMTT(30) DEF LockHeld, APs, Free
    <2>3. OnlineFirst' /\ AtHead' /\ SleepersAreKicked'
      BY <1>0, <1>3, <2>1 DEF work_pop, OnlineFirst, AtHead, SleepersAreKicked
    <2>4. QED
      BY <1>1, <2>2, <2>3
  <1>4. CASE work_pop_take(c)
    BY <1>0, <1>1, <1>4 DEF work_pop_take, LockHeld, OnlineFirst, AtHead,
                            SleepersAreKicked
  <1>5. CASE work_pop_empty(c)
    <2>1. /\ work_lock = c /\ work_lock' = Free
          /\ \A d \in APs : ap'[d] = IF d = c THEN "sleep" ELSE ap[d]
      BY <1>5 DEF work_pop_empty, spin_unlock, LockHeld
    <2>2. LockHeld'
      BY <1>0, <2>1, SMTT(30) DEF LockHeld, APs, Free
    <2>3. OnlineFirst' /\ AtHead' /\ SleepersAreKicked'
      BY <1>0, <1>5, <2>1 DEF work_pop_empty, OnlineFirst, AtHead, SleepersAreKicked
    <2>4. QED
      BY <1>1, <2>2, <2>3
  <1>6. CASE ap_halt(c)
    BY <1>0, <1>1, <1>6 DEF ap_halt, LockHeld, OnlineFirst, AtHead, SleepersAreKicked
  <1>7. CASE isr_handler(c)
    BY <1>0, <1>1, <1>7 DEF isr_handler, LockHeld, OnlineFirst, AtHead, SleepersAreKicked
  <1>8. QED
    BY <1>2, <1>3, <1>4, <1>5, <1>6, <1>7 DEF Looking, Resting

LEMMA QuietStep ==
  ASSUME SmpInv, NEW c \in APs, ComingUp(c) \/ Looking(c) \/ Resting(c)
  PROVE  SmpInv'
  <1>1. SmpTypeOK' /\ Control'
    BY QuietType, QuietControl DEF SmpInv
  <1>2. work' = work /\ batch' = batch /\ bsp' = bsp /\ lane' = lane
    BY DEF ComingUp, Looking, Resting, ap_main, ap_online, work_pop,
       work_pop_take, work_pop_empty, ap_halt, isr_handler, apOnly
  <1>3. ToCome' = ToCome
    BY <1>2 DEF ToCome
  <1>4. \A d \in APs : /\ Running(d)' <=> Running(d)
                       /\ ap'[d] = "copy" <=> ap[d] = "copy"
                       /\ Running(d) => item'[d] = item[d]
    BY DEF SmpInv, SmpTypeOK, Running, ComingUp, Looking, Resting, ap_main, ap_online,
       work_pop, work_pop_take, work_pop_empty, ap_halt, isr_handler
  <1>5. Ledger'
    BY <1>2, <1>3, <1>4, LedgerKept DEF SmpInv
  <1>6. QED
    BY <1>1, <1>5 DEF SmpInv

-----------------------------------------------------------------------------
(* Steps of the application processors that move a lane *)

\* The lane at the tail of the ring passes into the hands of the AP.
LEMMA AdvanceStep ==
  ASSUME SmpInv, NEW c \in APs, work_pop_advance(c)
  PROVE  SmpInv'
  <1> DEFINE l == item[c]
  <1>1. /\ ap[c] = "advance" /\ work' = Tail(work) /\ work_lock' = Free
        /\ ap' = [ap EXCEPT ![c] = "copy"]
        /\ UNCHANGED <<online_workers, online, ipi, item, batch, bsp, lane, kick>>
    BY DEF work_pop_advance, spin_unlock, apOnly
  <1>2. work \in Seq(Nat) /\ work # <<>> /\ l = Head(work) /\ Distinct(work)
    BY <1>1 DEF SmpInv, SmpTypeOK, Control, AtHead, Ledger, Apart
  <1>3. /\ l \in InRing /\ InRing' = InRing \ {l} /\ Distinct(work')
        /\ work' \in Seq(Nat) /\ Len(work') < Len(work)
    BY <1>1, <1>2, TailElements DEF InRing
  <1>4. \A d \in APs : ap'[d] = IF d = c THEN "copy" ELSE ap[d]
    BY <1>1 DEF SmpInv, SmpTypeOK
  <1>5. SmpTypeOK'
    <2>1. Len(work') < SMP_WORK_CAPACITY
      BY <1>3, SmpConstants, SMTT(30) DEF SmpInv, SmpTypeOK
    <2>2. QED
      BY <1>1, <1>3, <2>1 DEF SmpInv, SmpTypeOK, ApStates
  <1>6. Control'
    <2>1. work_lock = c /\ c # BSP /\ c # Free /\ BSP # Free
      BY <1>1, SMTT(30) DEF SmpInv, Control, LockHeld, APs, BSP, Free
    <2>2. LockHeld'
      BY <1>1, <1>4, <2>1, SMTT(30) DEF SmpInv, Control, LockHeld, APs, Free
    <2>3. AtHead'
      BY <1>4, <2>1 DEF SmpInv, Control, LockHeld, AtHead
    <2>4. OnlineFirst' /\ SleepersAreKicked'
      BY <1>1, <1>2, <1>4, SMTT(30) DEF SmpInv, Control, OnlineFirst, SleepersAreKicked
    <2>5. LaneInBatch' /\ KickRange' /\ IdleHasNoBatch'
      BY <1>1 DEF SmpInv, Control, LaneInBatch, Submitting, KickRange, IdleHasNoBatch
    <2>6. QED
      BY <2>2, <2>3, <2>4, <2>5 DEF Control
  <1>7. Held' = Held \cup {l} /\ Copying' = Copying \cup {l}
    BY <1>1, <1>4 DEF Held, Copying, Running
  <1>8. ToCome' = ToCome /\ Lanes' = Lanes
    BY <1>1 DEF ToCome, Lanes
  <1>9. l \notin Held
    BY <1>3 DEF SmpInv, Ledger, Apart
  <1>10. Apart'
    <2>1. \A d, e \in APs : Running(d)' /\ Running(e)' /\ item'[d] = item'[e] => d = e
      BY <1>1, <1>4, <1>9, SMTT(30) DEF SmpInv, Ledger, Apart, Running, Held
    <2>2. InRing' \cap Held' = {} /\ (InRing' \cup Held') \cap ToCome' = {}
      BY <1>3, <1>7, <1>8 DEF SmpInv, Ledger, Apart
    <2>3. QED
      BY <1>3, <2>1, <2>2 DEF Apart
  <1>11. Counted'
    <2>1. Outstanding' = Outstanding
      BY <1>3, <1>7, <1>8 DEF Outstanding
    <2>2. QED
      BY <1>1, <1>8, <2>1 DEF SmpInv, Ledger, Counted
  <1>12. BegunExactly'
    BY <1>1, <1>3, <1>7, <1>8 DEF SmpInv, Ledger, BegunExactly
  <1>13. QED
    BY <1>5, <1>6, <1>10, <1>11, <1>12 DEF SmpInv, Ledger

\* Only the place of c in ap_main changes, and c neither holds the lock nor sleeps.
LEMMA ApControl ==
  ASSUME SmpTypeOK, Control, NEW c \in APs, NEW from, NEW to,
         ap[c] = from, ap' = [ap EXCEPT ![c] = to],
         {from, to} \subseteq {"copy", "finish", "pop"},
         batch'.lanes = batch.lanes,
         UNCHANGED <<work, work_lock, online_workers, online, ipi, item, bsp, lane, kick>>
  PROVE  Control'
  <1>1. \A d \in APs : ap'[d] = IF d = c THEN to ELSE ap[d]
    BY DEF SmpTypeOK
  <1>2. LockHeld' /\ AtHead'
    BY <1>1 DEF Control, LockHeld, AtHead
  <1>3. OnlineFirst' /\ SleepersAreKicked'
    BY <1>1 DEF Control, OnlineFirst, SleepersAreKicked
  <1>4. LaneInBatch' /\ KickRange' /\ IdleHasNoBatch'
    BY DEF Control, LaneInBatch, Submitting, KickRange, IdleHasNoBatch
  <1>5. QED
    BY <1>2, <1>3, <1>4 DEF Control

LEMMA ApCopyStep ==
  ASSUME SmpInv, NEW c \in APs, ap_copy(c)
  PROVE  SmpInv'
  <1> DEFINE l == item[c]
  <1>1. /\ ap[c] = "copy" /\ ap' = [ap EXCEPT ![c] = "finish"]
        /\ UNCHANGED <<work, work_lock, online_workers, online, ipi, item, bsp, lane, kick>>
        /\ framebuffer_copy_lane(batch, l)
    BY DEF ap_copy, apOnly
  <1>2. batch \in BatchType /\ l \in Nat
    BY DEF SmpInv, SmpTypeOK, BatchType
  <1>3. /\ batch' \in BatchType
        /\ batch'.lanes = batch.lanes /\ batch'.remaining = batch.remaining
        /\ batch'.begun = batch.begun \cup {l}
        /\ ~ batch'.failed => ~ batch.failed /\ batch'.copied = batch.copied \cup {l}
    <2>1. PICK ok \in BOOLEAN : batch' = CopiedLane(batch, l, ok)
      BY <1>1 DEF framebuffer_copy_lane, CopiedLane
    <2>2. QED
      BY <2>1, <1>2, CopiedFacts, SMTT(30)
  <1>4. \A d \in APs : ap'[d] = IF d = c THEN "finish" ELSE ap[d]
    BY <1>1 DEF SmpInv, SmpTypeOK
  <1>5. SmpTypeOK'
    BY <1>1, <1>3, SMTT(30) DEF SmpInv, SmpTypeOK, ApStates, BatchType
  <1>6. Control'
    BY <1>1, <1>3, ApControl DEF SmpInv
  <1>7. InRing' = InRing /\ Lanes' = Lanes /\ ToCome' = ToCome
    BY <1>1, <1>3 DEF InRing, Lanes, ToCome
  <1>8. \A d \in APs : Running(d)' <=> Running(d)
    BY <1>1, <1>4 DEF Running
  <1>9. Held' = Held /\ l \in Held
    BY <1>1, <1>8 DEF Held, Running
  <1>10. Copying' = Copying \ {l}
    <2>1. \A d \in APs : ap[d] = "copy" /\ item[d] = l => d = c
      BY <1>1 DEF SmpInv, Ledger, Apart, Running
    <2>2. QED
      BY <1>1, <1>4, <2>1, SMTT(30) DEF Copying
  <1>11. Apart'
    BY <1>1, <1>7, <1>8, <1>9 DEF SmpInv, Ledger, Apart
  <1>12. Counted'
    BY <1>3, <1>7, <1>9 DEF SmpInv, Ledger, Counted, Outstanding
  <1>13. BegunExactly'
    <2>1. l \notin InRing /\ l \notin ToCome /\ l \in Lanes
      BY <1>9 DEF SmpInv, Ledger, Apart, Counted, Outstanding
    <2>2. QED
      BY <1>3, <1>7, <1>10, <2>1 DEF SmpInv, Ledger, BegunExactly
  <1>14. QED
    BY <1>5, <1>6, <1>11, <1>12, <1>13 DEF SmpInv, Ledger

LEMMA ApFinishStep ==
  ASSUME SmpInv, NEW c \in APs, ap_finish(c)
  PROVE  SmpInv'
  <1> DEFINE l == item[c]
  <1>1. /\ ap[c] = "finish" /\ ap' = [ap EXCEPT ![c] = "pop"]
        /\ UNCHANGED <<work, work_lock, online_workers, online, ipi, item, bsp, lane, kick>>
        /\ batch' = FinishedLane(batch)
    BY DEF ap_finish, apOnly
  <1>2. batch \in BatchType
    BY DEF SmpInv, SmpTypeOK, BatchType
  <1>3. l \in Held /\ l \in Outstanding
    BY <1>1 DEF Held, Running, Outstanding
  <1>4. batch.remaining > 0 /\ Cardinality(Outstanding \ {l}) = batch.remaining - 1
    BY <1>3, OneLess DEF SmpInv, Ledger
  <1>5. /\ batch' \in BatchType /\ batch'.remaining = batch.remaining - 1
        /\ batch'.lanes = batch.lanes /\ batch'.begun = batch.begun
        /\ batch'.copied = batch.copied /\ batch'.failed = batch.failed
    BY <1>1, <1>2, <1>4, FinishedFacts
  <1>6. \A d \in APs : ap'[d] = IF d = c THEN "pop" ELSE ap[d]
    BY <1>1 DEF SmpInv, SmpTypeOK
  <1>7. SmpTypeOK'
    BY <1>1, <1>5, SMTT(30) DEF SmpInv, SmpTypeOK, ApStates, BatchType
  <1>8. Control'
    BY <1>1, <1>5, ApControl DEF SmpInv
  <1>9. InRing' = InRing /\ Lanes' = Lanes /\ ToCome' = ToCome
    BY <1>1, <1>5 DEF InRing, Lanes, ToCome
  <1>10. Copying' = Copying
    BY <1>1, <1>6, SMTT(30) DEF Copying
  <1>11. Held' = Held \ {l}
    <2>1. \A d \in APs : Running(d) /\ item[d] = l => d = c
      BY <1>1 DEF SmpInv, Ledger, Apart, Running
    <2>2. QED
      BY <1>1, <1>6, <2>1, SMTT(30) DEF Held, Running
  <1>12. Apart'
    <2>1. \A d \in APs : Running(d)' => Running(d)
      BY <1>6 DEF Running
    <2>2. QED
      BY <1>1, <1>9, <1>11, <2>1 DEF SmpInv, Ledger, Apart
  <1>13. Counted'
    <2>1. Outstanding' = Outstanding \ {l}
      BY <1>3, <1>9, <1>11 DEF SmpInv, Ledger, Apart, Outstanding
    <2>2. QED
      BY <1>4, <1>5, <1>9, <2>1 DEF SmpInv, Ledger, Counted
  <1>14. BegunExactly'
    BY <1>5, <1>9, <1>10 DEF SmpInv, Ledger, BegunExactly
  <1>15. QED
    BY <1>7, <1>8, <1>12, <1>13, <1>14 DEF SmpInv, Ledger

-----------------------------------------------------------------------------
(* Steps of the boot processor that move no lane *)

BspQuiet == smp_submit_work \/ submit_lock \/ kick_workers \/ kick_workers_done

\* The lanes to come do not change when the next one becomes the current one.
LEMMA NextLane ==
  ASSUME NEW n \in Nat, NEW k \in Nat
  PROVE  ~ (k + 1 < n) => k + 1 .. n - 1 = {}
  BY SMTT(30)

LEMMA BspQuietToCome ==
  ASSUME SmpTypeOK, Control, BspQuiet
  PROVE  ToCome' = ToCome
  <1>1. CASE smp_submit_work \/ submit_lock \/ kick_workers
    BY <1>1 DEF smp_submit_work, submit_lock, kick_workers, ToCome
  <1>2. CASE kick_workers_done
    <2>1. /\ bsp = "kick" /\ lane' = lane + 1 /\ batch' = batch
          /\ bsp' = IF lane + 1 < batch.lanes THEN "submit" ELSE "own"
      BY <1>2 DEF kick_workers_done, AfterLane
    <2>2. ~ (lane + 1 < batch.lanes) => lane + 1 .. batch.lanes - 1 = {}
      BY NextLane DEF SmpTypeOK
    <2>3. QED
      BY <2>1, <2>2 DEF ToCome
  <1>3. QED
    BY <1>1, <1>2 DEF BspQuiet

LEMMA BspQuietType ==
  ASSUME SmpTypeOK, BspQuiet
  PROVE  SmpTypeOK'
  <1>1. BSP \in CPUs
    BY SmpConstants, SMTT(30) DEF BSP, CPUs
  <1>2. CASE smp_submit_work
    BY <1>2 DEF smp_submit_work, bspOnly, SmpTypeOK, BspStates
  <1>3. CASE submit_lock
    BY <1>1, <1>3 DEF submit_lock, spin_lock, bspOnly, SmpTypeOK, BspStates
  <1>4. CASE kick_workers
    <2>1. ipi' \in [APs -> BOOLEAN]
      BY <1>4 DEF kick_workers, SmpTypeOK
    <2>2. kick' \in Nat
      BY <1>4, SMTT(30) DEF kick_workers, SmpTypeOK
    <2>3. QED
      BY <1>4, <2>1, <2>2 DEF kick_workers, bspOnly, SmpTypeOK
  <1>5. CASE kick_workers_done
    BY <1>5, SMTT(30) DEF kick_workers_done, AfterLane, bspOnly, SmpTypeOK, BspStates
  <1>6. QED
    BY <1>2, <1>3, <1>4, <1>5 DEF BspQuiet

LEMMA BspQuietControl ==
  ASSUME SmpTypeOK, Control, BspQuiet
  PROVE  Control'
  <1>0. UNCHANGED <<work, online, ap, item, batch>>
    BY DEF BspQuiet, smp_submit_work, submit_lock, kick_workers, kick_workers_done, bspOnly
  <1>1. OnlineFirst' /\ AtHead'
    BY <1>0 DEF Control, OnlineFirst, AtHead
  <1>2. LockHeld'
    <2>1. CASE submit_lock
      BY <1>0, <2>1, SMTT(30) DEF submit_lock, spin_lock, Control, LockHeld, APs, BSP, Free
    <2>2. CASE smp_submit_work \/ kick_workers \/ kick_workers_done
      BY <1>0, <2>2 DEF smp_submit_work, kick_workers, kick_workers_done, AfterLane,
                        Control, LockHeld
    <2>3. QED
      BY <2>1, <2>2 DEF BspQuiet
  <1>3. LaneInBatch' /\ KickRange' /\ IdleHasNoBatch'
    <2>1. CASE smp_submit_work \/ submit_lock
      BY <1>0, <2>1 DEF smp_submit_work, submit_lock, Control, LaneInBatch, Submitting,
                        KickRange, IdleHasNoBatch
    <2>2. CASE kick_workers
      BY <1>0, <2>2, SmpConstants, SMTT(30) DEF kick_workers, Control, LaneInBatch, Submitting,
                        KickRange, IdleHasNoBatch
    <2>3. CASE kick_workers_done
      BY <1>0, <2>3, SMTT(30) DEF kick_workers_done, AfterLane, Control, LaneInBatch, Submitting,
                        KickRange, IdleHasNoBatch, SmpTypeOK
    <2>4. QED
      BY <2>1, <2>2, <2>3 DEF BspQuiet
  <1>4. SleepersAreKicked'
    <2> SUFFICES ASSUME NEW c \in APs, ap[c] \in {"sleep", "halted"}, work # <<>>
                 PROVE  ipi'[c] \/ (bsp' = "kick" /\ kick' <= c)
      BY <1>0 DEF SleepersAreKicked
    <2>1. ipi[c] \/ (bsp = "kick" /\ kick <= c)
      BY DEF Control, SleepersAreKicked
    <2>2. CASE smp_submit_work \/ submit_lock
      BY <2>1, <2>2 DEF smp_submit_work, submit_lock
    <2>3. CASE kick_workers
      <3>1. online[c] /\ c \in Nat /\ kick \in Nat
        <4>1. online[c]
          BY DEF Control, OnlineFirst
        <4>2. c \in Nat /\ kick \in Nat
          BY SmpConstants, SMTT(30) DEF APs, SmpTypeOK
        <4>3. QED
          BY <4>1, <4>2
      <3>2. ipi[c] => ipi'[c]
        BY <2>3 DEF kick_workers, SmpTypeOK
      <3>3. kick = c => ipi'[c]
        <4> SUFFICES ASSUME kick = c PROVE ipi'[c]
          OBVIOUS
        <4>1. ipi' = [ipi EXCEPT ![c] = TRUE] /\ ipi \in [APs -> BOOLEAN]
          BY <2>3, <3>1 DEF kick_workers, SmpTypeOK
        <4>2. QED
          BY <4>1
      <3>4. kick <= c /\ kick # c => bsp' = "kick" /\ kick' <= c
        BY <2>3, <3>1, SMTT(30) DEF kick_workers
      <3>5. QED
        BY <2>1, <3>2, <3>3, <3>4
    <2>4. CASE kick_workers_done
      <3>1. ~ (kick <= c)
        BY <2>4, SmpConstants, SMTT(30) DEF kick_workers_done, APs, SmpTypeOK
      <3>2. QED
        BY <2>1, <2>4, <3>1 DEF kick_workers_done
    <2>5. QED
      BY <2>2, <2>3, <2>4 DEF BspQuiet
  <1>5. QED
    BY <1>1, <1>2, <1>3, <1>4 DEF Control

LEMMA BspQuietStep ==
  ASSUME SmpInv, BspQuiet
  PROVE  SmpInv'
  <1>1. SmpTypeOK' /\ Control'
    BY BspQuietType, BspQuietControl DEF SmpInv
  <1>2. UNCHANGED <<work, ap, item, batch>>
    BY DEF BspQuiet, smp_submit_work, submit_lock, kick_workers, kick_workers_done, bspOnly
  <1>3. Ledger'
    BY <1>2, BspQuietToCome, LedgerKept DEF SmpInv, Running
  <1>4. QED
    BY <1>1, <1>3 DEF SmpInv

-----------------------------------------------------------------------------
(* Steps of the boot processor that move lanes *)

\* A lane is queued, or the ring is full and the lane stays to come.
LEMMA PutStep ==
  ASSUME SmpInv, submit_put
  PROVE  SmpInv'
  <1>1. /\ bsp = "put" /\ work_lock' = Free
        /\ UNCHANGED <<ipi, lane, batch, online_workers, online, ap, item>>
    BY DEF submit_put, spin_unlock, bspOnly
  <1>2. work_lock = BSP /\ BSP # Free /\ \A c \in APs : c # BSP /\ c # Free
    BY <1>1, SMTT(30) DEF SmpInv, Control, LockHeld, APs, BSP, Free
  <1>3. OnlineFirst'
    BY <1>1 DEF SmpInv, Control, OnlineFirst
  <1>4. CASE Len(work) + 1 = SMP_WORK_CAPACITY
    <2>1. bsp' = "inline" /\ work' = work /\ kick' = kick
      BY <1>4 DEF submit_put
    <2>2. SmpTypeOK'
      BY <1>1, <2>1 DEF SmpInv, SmpTypeOK, BspStates
    <2>3. LockHeld'
      BY <1>1, <1>2, <2>1 DEF SmpInv, Control, LockHeld
    <2>4. AtHead' /\ LaneInBatch' /\ KickRange' /\ IdleHasNoBatch' /\ SleepersAreKicked'
      BY <1>1, <2>1 DEF SmpInv, Control, AtHead, LaneInBatch, Submitting, KickRange,
                        IdleHasNoBatch, SleepersAreKicked
    <2>5. ToCome' = ToCome
      BY <1>1, <2>1 DEF ToCome
    <2>6. Ledger'
      BY <1>1, <2>1, <2>5, LedgerKept DEF SmpInv, Running
    <2>7. QED
      BY <1>3, <2>2, <2>3, <2>4, <2>6 DEF SmpInv, Control
  <1>5. CASE Len(work) + 1 # SMP_WORK_CAPACITY
    <2>1. bsp' = "kick" /\ work' = Append(work, lane) /\ kick' = 1
      BY <1>5 DEF submit_put
    <2>2. lane \in Nat /\ 1 <= lane /\ lane < batch.lanes /\ batch.lanes \in Nat
      BY <1>1 DEF SmpInv, SmpTypeOK, Control, LaneInBatch, Submitting
    <2>3. lane \in ToCome /\ ToCome' = ToCome \ {lane}
      BY <1>1, <2>1, <2>2, SMTT(30) DEF ToCome
    <2>4. work \in Seq(Nat) /\ Distinct(work) /\ lane \notin Elements(work)
      BY <2>3 DEF SmpInv, SmpTypeOK, Ledger, Apart, InRing
    <2>5. InRing' = InRing \cup {lane} /\ Distinct(work')
      BY <2>1, <2>2, <2>4, AppendElements DEF InRing
    <2>6. SmpTypeOK'
      <3>1. Append(work, lane) \in Seq(Nat) /\ Len(Append(work, lane)) = Len(work) + 1
        BY <2>2, <2>4, SMTT(30)
      <3>2. Len(work) + 1 < SMP_WORK_CAPACITY
        BY <1>5, SmpConstants, SMTT(30) DEF SmpInv, SmpTypeOK
      <3>3. QED
        BY <1>1, <2>1, <3>1, <3>2 DEF SmpInv, SmpTypeOK, BspStates
    <2>7. LockHeld'
      BY <1>1, <1>2, <2>1 DEF SmpInv, Control, LockHeld
    <2>8. AtHead'
      BY <1>1, <1>2 DEF SmpInv, Control, LockHeld, AtHead
    <2>9. LaneInBatch' /\ KickRange' /\ IdleHasNoBatch'
      BY <1>1, <2>1, <2>2, SmpConstants, SMTT(30) DEF LaneInBatch, Submitting, KickRange,
                                            IdleHasNoBatch
    <2>10. SleepersAreKicked'
      BY <2>1, SmpConstants, SMTT(30) DEF SleepersAreKicked, APs
    <2>11. Held' = Held /\ Copying' = Copying /\ Lanes' = Lanes
      BY <1>1 DEF Held, Copying, Running, Lanes
    <2>12. Apart'
      <3>1. \A c, d \in APs : Running(c)' /\ Running(d)' /\ item'[c] = item'[d] => c = d
        BY <1>1 DEF SmpInv, Ledger, Apart, Running
      <3>2. InRing' \cap Held' = {} /\ (InRing' \cup Held') \cap ToCome' = {}
        BY <2>3, <2>5, <2>11 DEF SmpInv, Ledger, Apart
      <3>3. QED
        BY <2>5, <3>1, <3>2 DEF Apart
    <2>13. Counted'
      <3>1. Outstanding' = Outstanding
        BY <2>3, <2>5, <2>11 DEF Outstanding
      <3>2. QED
        BY <1>1, <2>11, <3>1 DEF SmpInv, Ledger, Counted
    <2>14. BegunExactly'
      BY <1>1, <2>3, <2>5, <2>11 DEF SmpInv, Ledger, BegunExactly
    <2>15. QED
      BY <1>3, <2>6, <2>7, <2>8, <2>9, <2>10, <2>12, <2>13, <2>14
         DEF SmpInv, Control, Ledger
  <1>6. QED
    BY <1>4, <1>5

\* The boot processor copies lane l, which was to come, and counts it down.
LEMMA OwnBatch ==
  ASSUME SmpInv, NEW l \in ToCome, l \in Nat,
         framebuffer_copy_lane(FinishedLane(batch), l)
  PROVE  /\ batch' \in BatchType
         /\ batch'.lanes = batch.lanes
         /\ batch'.remaining = Cardinality(Outstanding \ {l})
         /\ batch'.begun = batch.begun \cup {l}
         /\ ~ batch'.failed => ~ batch.failed /\ batch'.copied = batch.copied \cup {l}
  <1>1. batch \in BatchType /\ l \in Outstanding
    BY DEF SmpInv, SmpTypeOK, BatchType, Outstanding
  <1>2. batch.remaining > 0 /\ Cardinality(Outstanding \ {l}) = batch.remaining - 1
    BY <1>1, OneLess DEF SmpInv, Ledger
  <1> DEFINE b == FinishedLane(batch)
  <1>3. /\ b \in BatchType /\ b.remaining = batch.remaining - 1
        /\ b.lanes = batch.lanes /\ b.begun = batch.begun
        /\ b.copied = batch.copied /\ b.failed = batch.failed
    BY <1>1, <1>2, FinishedFacts
  <1>4. PICK ok \in BOOLEAN : batch' = CopiedLane(b, l, ok)
    BY DEF framebuffer_copy_lane, CopiedLane
  <1> HIDE DEF b
  <1> DEFINE n == CopiedLane(b, l, ok)
  <1>5. /\ n \in BatchType
        /\ n.lanes = b.lanes /\ n.remaining = b.remaining
        /\ n.begun = b.begun \cup {l}
        /\ ~ n.failed => ~ b.failed /\ n.copied = b.copied \cup {l}
    BY <1>3, <1>4, CopiedFacts
  <1>6. batch' = n
    BY <1>4
  <1> HIDE DEF n
  <1>7. QED
    BY <1>2, <1>3, <1>5, <1>6

LEMMA OwnLane ==
  ASSUME SmpInv, NEW l \in ToCome, l \in Nat,
         framebuffer_copy_lane(FinishedLane(batch), l),
         ToCome' = ToCome \ {l},
         UNCHANGED <<work, ap, item>>
  PROVE  Ledger'
  <1>1. l \in Outstanding
    BY DEF Outstanding
  <1>2. /\ batch'.lanes = batch.lanes
        /\ batch'.remaining = Cardinality(Outstanding \ {l})
        /\ batch'.begun = batch.begun \cup {l}
        /\ ~ batch'.failed => ~ batch.failed /\ batch'.copied = batch.copied \cup {l}
    BY OwnBatch
  <1>3. InRing' = InRing /\ Held' = Held /\ Copying' = Copying /\ Lanes' = Lanes
    BY <1>2 DEF InRing, Held, Copying, Running, Lanes
  <1>4. l \notin InRing /\ l \notin Held /\ l \in Lanes
    BY <1>1 DEF SmpInv, Ledger, Apart, Counted
  <1>5. Copying \subseteq Held
    BY DEF Copying, Held, Running
  <1>6. Apart'
    BY <1>3 DEF SmpInv, Ledger, Apart, Running
  <1>7. Counted'
    <2>1. Outstanding' = Outstanding \ {l}
      BY <1>3, <1>4 DEF Outstanding
    <2>2. QED
      BY <1>2, <1>3, <2>1 DEF SmpInv, Ledger, Counted
  <1>8. BegunExactly'
    BY <1>2, <1>3, <1>4, <1>5 DEF SmpInv, Ledger, BegunExactly
  <1>9. QED
    BY <1>6, <1>7, <1>8 DEF Ledger

\* The boot processor leaves the lock and the ring alone and does not go idle.
LEMMA BspControl ==
  ASSUME SmpInv, batch'.lanes = batch.lanes,
         bsp # "put", bsp # "kick", bsp' \in {"submit", "own", "wait"}, LaneInBatch',
         UNCHANGED <<work, work_lock, ipi, online, ap, item>>
  PROVE  Control'
  <1>1. LockHeld' /\ OnlineFirst' /\ AtHead'
    BY DEF SmpInv, Control, LockHeld, OnlineFirst, AtHead
  <1>2. KickRange' /\ IdleHasNoBatch' /\ SleepersAreKicked'
    BY DEF SmpInv, Control, KickRange, IdleHasNoBatch, SleepersAreKicked
  <1>3. QED
    BY <1>1, <1>2 DEF Control

LEMMA InlineStep ==
  ASSUME SmpInv, copy_inline
  PROVE  SmpInv'
  <1>1. /\ bsp = "inline" /\ lane' = lane + 1
        /\ bsp' = IF lane + 1 < batch.lanes THEN "submit" ELSE "own"
        /\ framebuffer_copy_lane(FinishedLane(batch), lane)
        /\ UNCHANGED <<work, work_lock, ipi, kick, online_workers, online, ap, item>>
    BY DEF copy_inline, bspOnly, AfterLane
  <1>2. lane \in Nat /\ 1 <= lane /\ lane < batch.lanes /\ batch.lanes \in Nat
    BY <1>1 DEF SmpInv, SmpTypeOK, Control, LaneInBatch, Submitting
  <1>3. lane \in ToCome
    BY <1>1, <1>2, SMTT(30) DEF ToCome
  <1>4. batch' \in BatchType /\ batch'.lanes = batch.lanes
    BY <1>1, <1>2, <1>3, OwnBatch
  <1>5. ToCome' = ToCome \ {lane}
    BY <1>1, <1>2, <1>4, SMTT(30) DEF ToCome
  <1>6. Ledger'
    BY <1>1, <1>2, <1>3, <1>5, OwnLane
  <1>7. SmpTypeOK'
    BY <1>1, <1>2, <1>4, SMTT(30) DEF SmpInv, SmpTypeOK, BatchType, BspStates
  <1>8. LaneInBatch'
    BY <1>1, <1>2, <1>4, SMTT(30) DEF LaneInBatch, Submitting
  <1>9. Control'
    BY <1>1, <1>4, <1>8, BspControl
  <1>10. QED
    BY <1>6, <1>7, <1>9 DEF SmpInv

LEMMA OwnStep ==
  ASSUME SmpInv, copy_own
  PROVE  SmpInv'
  <1>1. /\ bsp = "own" /\ bsp' = "wait"
        /\ framebuffer_copy_lane(FinishedLane(batch), 0)
        /\ UNCHANGED <<work, work_lock, ipi, lane, kick, online_workers, online, ap, item>>
    BY DEF copy_own, bspOnly
  <1>2. 0 \in ToCome /\ ToCome' = ToCome \ {0}
    BY <1>1 DEF ToCome
  <1>3. Ledger' /\ batch' \in BatchType /\ batch'.lanes = batch.lanes
    BY <1>1, <1>2, OwnBatch, OwnLane
  <1>4. SmpTypeOK'
    BY <1>1, <1>3 DEF SmpInv, SmpTypeOK, BatchType, BspStates
  <1>5. LaneInBatch'
    BY <1>1 DEF LaneInBatch, Submitting
  <1>6. Control'
    BY <1>1, <1>3, <1>5, BspControl
  <1>7. QED
    BY <1>3, <1>4, <1>6 DEF SmpInv

\* A batch without lanes has nothing queued, held or to come.
LEMMA NothingOutstanding ==
  ASSUME SmpInv, batch.lanes = 0 \/ batch.remaining = 0
  PROVE  Outstanding = {}
  <1>1. CASE batch.lanes = 0
    BY <1>1, SMTT(30) DEF SmpInv, Ledger, Counted, Lanes
  <1>2. CASE batch.remaining = 0
    BY <1>2, LanesFinite, FS_EmptySet DEF SmpInv, Ledger, Counted
  <1>3. QED
    BY <1>1, <1>2

LEMMA PresentStep ==
  ASSUME SmpInv, framebuffer_present_user
  PROVE  SmpInv'
  <1>1. PICK n \in 1 .. FB_COPY_MAX_LANES :
          /\ batch' = [NoBatch EXCEPT !.lanes = n, !.remaining = n]
          /\ bsp' = IF n = 1 THEN "own" ELSE "submit"
    BY DEF framebuffer_present_user
  <1>2. /\ bsp = "idle" /\ lane' = 1
        /\ UNCHANGED <<work, work_lock, ipi, kick, online_workers, online, ap, item>>
    BY DEF framebuffer_present_user, bspOnly
  <1>3. n \in Nat /\ 1 <= n
    BY SmpConstants, SMTT(30)
  <1>4. /\ batch' \in BatchType /\ batch'.lanes = n /\ batch'.remaining = n
        /\ batch'.begun = {} /\ batch'.copied = {}
    BY <1>1, <1>3 DEF NoBatch, BatchType
  <1>5. SmpTypeOK'
    BY <1>1, <1>2, <1>4 DEF SmpInv, SmpTypeOK, BatchType, BspStates
  <1>6. Control'
    <2>1. LockHeld' /\ OnlineFirst' /\ AtHead'
      BY <1>1, <1>2 DEF SmpInv, Control, LockHeld, OnlineFirst, AtHead
    <2>2. LaneInBatch' /\ KickRange' /\ IdleHasNoBatch'
      BY <1>1, <1>2, <1>3, <1>4, SMTT(30) DEF LaneInBatch, Submitting, KickRange, IdleHasNoBatch
    <2>3. SleepersAreKicked'
      BY <1>1, <1>2 DEF SmpInv, Control, SleepersAreKicked
    <2>4. QED
      BY <2>1, <2>2, <2>3 DEF Control
  <1>7. InRing = {} /\ Held = {}
    BY <1>2, NothingOutstanding DEF SmpInv, Control, IdleHasNoBatch, Outstanding
  <1>8. InRing' = {} /\ Held' = {} /\ Copying' = {}
    BY <1>2, <1>7 DEF InRing, Held, Copying, Running
  <1>9. ToCome' = 0 .. n - 1 /\ Lanes' = 0 .. n - 1
    BY <1>1, <1>2, <1>3, <1>4, SMTT(30) DEF ToCome, Lanes
  <1>10. Apart'
    BY <1>2, <1>8 DEF SmpInv, Ledger, Apart, Running
  <1>11. Counted'
    <2>1. Outstanding' = 0 .. n - 1
      BY <1>8, <1>9 DEF Outstanding
    <2>2. Cardinality(0 .. n - 1) = n
      <3>1. 0 \in Int /\ n - 1 \in Int /\ ~ (0 > n - 1) /\ (n - 1) - 0 + 1 = n
        BY <1>3, SMTT(30)
      <3>2. QED
        BY <3>1, FS_Interval
    <2>3. QED
      BY <1>4, <1>9, <2>1, <2>2 DEF Counted
  <1>12. BegunExactly'
    BY <1>4, <1>8, <1>9 DEF BegunExactly
  <1>13. QED
    BY <1>5, <1>6, <1>10, <1>11, <1>12 DEF SmpInv, Ledger

LEMMA DoneStep ==
  ASSUME SmpInv, present_done
  PROVE  SmpInv'
  <1>1. /\ bsp = "wait" /\ batch.remaining = 0 /\ bsp' = "idle"
        /\ batch' = NoBatch /\ lane' = 0
        /\ UNCHANGED <<work, work_lock, ipi, kick, online_workers, online, ap, item>>
    BY DEF present_done, bspOnly
  <1>2. /\ batch' \in BatchType /\ batch'.lanes = 0 /\ batch'.remaining = 0
        /\ batch'.begun = {} /\ batch'.copied = {}
    BY <1>1 DEF NoBatch, BatchType
  <1>3. SmpTypeOK'
    BY <1>1, <1>2 DEF SmpInv, SmpTypeOK, BatchType, BspStates
  <1>4. Control'
    BY <1>1, <1>2 DEF SmpInv, Control, LockHeld, OnlineFirst, AtHead, LaneInBatch,
                      Submitting, KickRange, IdleHasNoBatch, SleepersAreKicked
  <1>5. InRing = {} /\ Held = {}
    BY <1>1, NothingOutstanding DEF Outstanding
  <1>6. /\ InRing' = {} /\ Held' = {} /\ Copying' = {}
        /\ ToCome' = {} /\ Lanes' = {}
    BY <1>1, <1>2, <1>5, SMTT(30) DEF InRing, Held, Copying, Running, ToCome, Lanes
  <1>7. Apart'
    BY <1>1, <1>6 DEF SmpInv, Ledger, Apart, Running
  <1>8. Counted'
    BY <1>2, <1>6, FS_EmptySet DEF Counted, Outstanding
  <1>9. BegunExactly'
    BY <1>2, <1>6 DEF BegunExactly
  <1>10. QED
    BY <1>3, <1>4, <1>7, <1>8, <1>9 DEF SmpInv, Ledger

-----------------------------------------------------------------------------
LEMMA SmpStep == SmpInv /\ [SmpNext]_smpVars => SmpInv'
  <1> SUFFICES ASSUME SmpInv, [SmpNext]_smpVars PROVE SmpInv'
    OBVIOUS
  <1>1. ASSUME NEW c \in APs, ap_main(c) \/ ApStep(c) PROVE SmpInv'
    BY <1>1, QuietStep, AdvanceStep, ApCopyStep, ApFinishStep
       DEF ApStep, ComingUp, Looking, Resting
  <1>2. ASSUME BspStep PROVE SmpInv'
    BY <1>2, BspQuietStep, PutStep, InlineStep, OwnStep, DoneStep DEF BspStep, BspQuiet
  <1>3. CASE UNCHANGED smpVars
    <2>1. SmpTypeOK' /\ Control'
      BY <1>3 DEF smpVars, SmpInv, SmpTypeOK, Control, LockHeld, OnlineFirst, AtHead,
         LaneInBatch, Submitting, KickRange, IdleHasNoBatch, SleepersAreKicked
    <2>2. ToCome' = ToCome
      BY <1>3 DEF smpVars, ToCome
    <2>3. Ledger'
      BY <1>3, <2>2, LedgerKept DEF smpVars, SmpInv, Running
    <2>4. QED
      BY <2>1, <2>3 DEF SmpInv
  <1>4. QED
    BY <1>1, <1>2, <1>3, PresentStep DEF SmpNext

\* Exactly the CPU between spin_lock and spin_unlock holds work_lock, and no job
\* waits behind a processor that sleeps without a kick on its way.
THEOREM NoLostKick == SmpSpec => [](LockHeld /\ SleepersAreKicked)
  <1>1. SmpInv => LockHeld /\ SleepersAreKicked
    BY DEF SmpInv, Control
  <1>2. QED
    BY <1>1, InitSmp, SmpStep, PTL DEF SmpSpec

\* framebuffer_present_user does not return while a processor holds or can find
\* a job of its batch, which lives on its stack.
THEOREM BatchOutlivesJobs == SmpSpec => []JobsOutlivedByBatch
  <1>1. SmpInv => JobsOutlivedByBatch
    <2> SUFFICES ASSUME SmpInv, bsp = "idle"
                 PROVE  work = <<>> /\ \A c \in APs : ~ Running(c) /\ ap[c] # "advance"
      BY DEF JobsOutlivedByBatch
    <2>1. InRing = {} /\ Held = {}
      BY NothingOutstanding DEF SmpInv, Control, IdleHasNoBatch, Outstanding
    <2>2. work = <<>>
      <3>1. work \in Seq(Nat) /\ Len(work) \in Nat
        BY SMTT(30) DEF SmpInv, SmpTypeOK
      <3>2. Len(work) = 0
        <4>1. Len(work) # 0 => 1 \in 1 .. Len(work)
          BY <3>1, SMTT(30)
        <4>2. QED
          BY <2>1, <4>1 DEF InRing, Elements
      <3>3. QED
        BY <3>1, <3>2, SMTT(30)
    <2>3. QED
      BY <2>1, <2>2 DEF Held, SmpInv, Control, AtHead
  <1>2. QED
    BY <1>1, InitSmp, SmpStep, PTL DEF SmpSpec

\* Every lane is copied by one processor, once, and a presentation that reports
\* success has copied them all.
THEOREM EveryLaneOnce == SmpSpec => [](LaneCopiedOnce /\ SuccessIsComplete)
  <1>1. SmpInv => LaneCopiedOnce
    BY DEF SmpInv, Ledger, BegunExactly, LaneCopiedOnce, InRing, Elements, Copying
  <1>2. SmpInv => SuccessIsComplete
    <2> SUFFICES ASSUME SmpInv, bsp = "wait", batch.remaining = 0, ~ batch.failed
                 PROVE  batch.copied = 0 .. batch.lanes - 1
      BY DEF SuccessIsComplete
    <2>1. InRing = {} /\ Held = {} /\ ToCome = {}
      BY NothingOutstanding DEF Outstanding
    <2>2. Copying \subseteq Held
      BY DEF Copying, Held, Running
    <2>3. batch.begun = Lanes
      BY <2>1, <2>2 DEF SmpInv, Ledger, BegunExactly
    <2>4. QED
      BY <2>3 DEF SmpInv, Ledger, BegunExactly, Lanes
  <1>3. QED
    BY <1>1, <1>2, InitSmp, SmpStep, PTL DEF SmpSpec

\* framebuffer_present_user keeps its whole promise for any number of
\* processors, capacity of the work queue and lanes.
THEOREM PresentWhole == SmpSpec => []PresentIsWhole
  <1>1. SmpInv => SmpTypeOK
    BY DEF SmpInv
  <1>2. SmpTypeOK /\ JobsOutlivedByBatch /\ LaneCopiedOnce /\ SuccessIsComplete
          => PresentIsWhole
    BY DEF PresentIsWhole
  <1>3. QED
    BY <1>1, <1>2, BatchOutlivesJobs, EveryLaneOnce, InitSmp, SmpStep, PTL DEF SmpSpec

-----------------------------------------------------------------------------
\* Sockets.

Once(l) == \A i, j \in DOMAIN l : l[i] = l[j] => i = j
On(l) == {l[i] : i \in DOMAIN l}
Ephemeral == FirstEphemeral .. LastEphemeral
HeldType == [Users -> [SocketIds -> 0 .. MaxRefs]]
UserType == [at : {"user", "recv", "poll", "none", "zombie"}, on : SUBSET SocketIds,
             st : {"ready", "blocked", "cut"}]

\* The descriptors for s, when the tasks hold H.
HeldOf(H, s) == [t \in Users |-> H[t][s]]
FdsFor(H, s) == Fds(Users, MaxRefs, HeldOf(H, s))
Refs(H, s) == Cardinality(FdsFor(H, s))

\* A socket k with n descriptors, on the list or not.
SockAt(k, n, listed) ==
  /\ k = [x \in {"fd_refs", "port", "queued"} |-> k[x]]
  /\ k.fd_refs = n /\ k.queued \in Nat
  /\ listed <=> n > 0

PortsOwn(l, K) ==
  \A s, r \in On(l) : K[s].port = K[r].port /\ s # r => K[s].port \notin Ephemeral

\* The list l, the sockets K and the descriptors H agree.
TableOK(l, K, H) ==
  /\ l \in Seq(SocketIds) /\ Once(l) /\ H \in HeldType
  /\ K = [s \in SocketIds |-> K[s]]
  /\ \A s \in SocketIds : SockAt(K[s], Refs(H, s), s \in On(l))
  /\ PortsOwn(l, K)

\* A task with descriptors h waits only for sockets it has, and is parked only
\* while their queues are empty.
UserAt(u, h, K) ==
  /\ u \in UserType
  /\ u.at \notin {"recv", "poll"} => u.on = {} /\ u.st # "blocked"
  /\ u.at = "none" => \A s \in SocketIds : h[s] = 0
  /\ \A s \in u.on : h[s] > 0
  /\ u.st = "blocked" => \A s \in u.on : ~(K[s].queued > 0)

UsersOK(U, H, K) ==
  U = [t \in Users |-> U[t]] /\ \A t \in Users : UserAt(U[t], H[t], K)

\* The inductive invariant.
SocketInv == TableOK(socket_list, sockets, held) /\ UsersOK(user, held, sockets)

LEMMA SocketConstants ==
  /\ IsFiniteSet(Users) /\ MaxRefs \in Nat /\ 0 \in 0 .. MaxRefs /\ 1 \in 0 .. MaxRefs
  /\ 0 \notin Ephemeral /\ 0 \in Nat /\ ~(0 > 0) /\ 1 > 0
BY SocketAssumption, SMTT(30) DEF Ephemeral

LEMMA NoSocketIs ==
  /\ NoSocket = [x \in {"fd_refs", "port", "queued"} |-> NoSocket[x]]
  /\ NoSocket.fd_refs = 0 /\ NoSocket.queued = 0 /\ NoSocket.port = 0
BY DEF NoSocket

-----------------------------------------------------------------------------
\* Counting descriptors.
LEMMA DescIs == \A s \in SocketIds : Descriptors(s) = FdsFor(held, s)
BY DEF Descriptors, FdsFor, Fds, HeldOf

LEMMA RefsFew ==
  ASSUME NEW H \in HeldType, NEW t \in Users, NEW s \in SocketIds
  PROVE  /\ Refs(H, s) \in Nat /\ H[t][s] \in Nat /\ H[t][s] <= Refs(H, s)
         /\ H[t][s] > 0 => Refs(H, s) > 0
<1>1. HeldOf(H, s) \in [Users -> 0 .. MaxRefs] /\ HeldOf(H, s)[t] = H[t][s]
  BY DEF HeldType, HeldOf
<1>2. H[t][s] \in Nat
  BY SocketConstants, SMTT(30) DEF HeldType
<1>3. Refs(H, s) \in Nat /\ HeldOf(H, s)[t] <= Refs(H, s)
  BY <1>1, SocketConstants, FdsChange, SMTT(30) DEF Refs, FdsFor
<1>4. \A a, b \in Nat : a <= b /\ a > 0 => b > 0
  BY SMTT(30)
<1> QED
  BY <1>1, <1>2, <1>3, <1>4

\* When one task's descriptors change, each count moves by the difference.
LEMMA RefsMove ==
  ASSUME NEW H \in HeldType, NEW G \in HeldType, NEW t \in Users, NEW s \in SocketIds,
         \A u \in Users \ {t} : G[u] = H[u]
  PROVE  Refs(G, s) = Refs(H, s) - H[t][s] + G[t][s]
<1>1. /\ HeldOf(H, s) \in [Users -> 0 .. MaxRefs] /\ HeldOf(G, s) \in [Users -> 0 .. MaxRefs]
      /\ HeldOf(H, s)[t] = H[t][s] /\ HeldOf(G, s)[t] = G[t][s]
      /\ \A u \in Users \ {t} : HeldOf(G, s)[u] = HeldOf(H, s)[u]
  BY DEF HeldType, HeldOf
<1>2. Refs(G, s) = Refs(H, s) - HeldOf(H, s)[t] + HeldOf(G, s)[t]
  BY <1>1, SocketConstants, FdsChange, SMTT(30) DEF Refs, FdsFor
<1> QED
  BY <1>1, <1>2

\* ... and only those for one socket.
LEMMA RefsMoveOne ==
  ASSUME NEW H \in HeldType, NEW G \in HeldType, NEW t \in Users, NEW s \in SocketIds,
         \A u \in Users \ {t} : G[u] = H[u], \A x \in SocketIds \ {s} : G[t][x] = H[t][x]
  PROVE  /\ \A x \in SocketIds \ {s} : Refs(G, x) = Refs(H, x)
         /\ Refs(G, s) = Refs(H, s) - H[t][s] + G[t][s]
<1>2. \A x \in SocketIds \ {s} : Refs(G, x) = Refs(H, x)
  <2> SUFFICES ASSUME NEW x \in SocketIds \ {s} PROVE Refs(G, x) = Refs(H, x)
    OBVIOUS
  <2>1. Refs(G, x) = Refs(H, x) - H[t][x] + G[t][x]
    BY RefsMove
  <2>2. Refs(H, x) \in Nat /\ H[t][x] \in Nat
    BY RefsFew
  <2>3. \A a, b \in Nat : a - b + b = a
    BY SMTT(30)
  <2> QED
    BY <2>1, <2>2, <2>3
<1>3. Refs(G, s) = Refs(H, s) - H[t][s] + G[t][s]
  BY RefsMove
<1> QED
  BY <1>2, <1>3

-----------------------------------------------------------------------------
LEMMA SocketSays == SocketInv => SocketsAreSound
<1> SUFFICES ASSUME SocketInv PROVE SocketsAreSound
  OBVIOUS
<1>1. \A s \in SocketIds : /\ sockets[s].fd_refs = Cardinality(Descriptors(s))
                           /\ s \in Listed <=> sockets[s].fd_refs > 0
  <2> SUFFICES ASSUME NEW s \in SocketIds
               PROVE  /\ sockets[s].fd_refs = Cardinality(Descriptors(s))
                      /\ s \in Listed <=> sockets[s].fd_refs > 0
    OBVIOUS
  <2>1. SockAt(sockets[s], Refs(held, s), s \in On(socket_list))
    BY DEF SocketInv, TableOK
  <2>2. sockets[s].fd_refs = Refs(held, s)
    BY <2>1 DEF SockAt
  <2> QED
    BY <2>1, <2>2, DescIs DEF SockAt, Refs, On, Listed
<1>2. RefsAreExact
  BY <1>1 DEF SocketInv, TableOK, RefsAreExact, Once
<1>3. ASSUME NEW t \in Users, NEW s \in user[t].on
      PROVE  s \in Listed
  <2>1. s \in SocketIds /\ held[t][s] > 0
    BY DEF SocketInv, UsersOK, UserType, UserAt
  <2>2. Refs(held, s) > 0
    BY <2>1, RefsFew DEF SocketInv, TableOK
  <2> QED
    BY <2>1, <2>2 DEF SocketInv, TableOK, SockAt, On, Listed
<1>4. NobodySleepsOnData
  BY <1>3 DEF NobodySleepsOnData, SocketInv, UsersOK, UserAt, Readable
<1>5. EphemeralIsOwn
  BY DEF EphemeralIsOwn, SocketInv, TableOK, PortsOwn, On, Listed, Ephemeral
<1> QED
  BY <1>2, <1>4, <1>5 DEF SocketsAreSound

LEMMA SocketStarts == SocketInit => SocketInv
<1> SUFFICES ASSUME SocketInit PROVE SocketInv
  OBVIOUS
<1>1. held \in HeldType /\ \A t \in Users, s \in SocketIds : held[t][s] = 0
  BY SocketConstants DEF SocketInit, HeldType
<1>2. \A s \in SocketIds : Refs(held, s) = 0
  <2> SUFFICES ASSUME NEW s \in SocketIds PROVE Refs(held, s) = 0
    OBVIOUS
  <2>1. \A d \in Users \X (1 .. MaxRefs) : ~(d[2] <= 0)
    BY SMTT(30)
  <2>2. FdsFor(held, s) = {}
    BY <1>1, <2>1 DEF FdsFor, Fds, HeldOf
  <2> QED
    BY <2>2, FS_EmptySet DEF Refs
<1>3. socket_list \in Seq(SocketIds) /\ On(socket_list) = {} /\ Once(socket_list)
  <2>1. socket_list = <<>>
    BY DEF SocketInit
  <2> QED
    BY <2>1, SMTT(30) DEF On, Once
<1>4. \A s \in SocketIds : SockAt(sockets[s], Refs(held, s), s \in On(socket_list))
  BY <1>2, <1>3, NoSocketIs, SocketConstants DEF SocketInit, SockAt
<1>5. TableOK(socket_list, sockets, held)
  BY <1>1, <1>3, <1>4 DEF TableOK, PortsOwn, SocketInit
<1>6. AtUser \in UserType /\ Absent \in UserType
  BY DEF AtUser, Absent, UserType
<1>7. UsersOK(user, held, sockets)
  <2>1. \A t \in Users : user[t] \in {AtUser, Absent}
    BY DEF SocketInit
  <2>2. AtUser.on = {} /\ AtUser.st = "ready" /\ Absent.on = {} /\ Absent.st = "ready"
    BY DEF AtUser, Absent
  <2>3. user = [t \in Users |-> user[t]]
    BY DEF SocketInit
  <2> QED
    BY <1>1, <1>6, <2>1, <2>2, <2>3 DEF UsersOK, UserAt
<1> QED
  BY <1>5, <1>7 DEF SocketInv

-----------------------------------------------------------------------------
\* Steps.  A socket leaves the list, a socket comes on it.
LEMMA OnIs == ASSUME NEW l, NEW x PROVE x \in On(l) <=> \E i \in DOMAIN l : l[i] = x
BY DEF On

LEMMA OnSockets == ASSUME NEW l \in Seq(SocketIds), NEW s \in On(l) PROVE s \in SocketIds
<1>1. \A i \in DOMAIN l : l[i] \in SocketIds
  BY SMTT(30)
<1> QED
  BY <1>1, OnIs

LEMMA Unlinks ==
  ASSUME NEW l \in Seq(SocketIds), Once(l), NEW s \in On(l), NEW m,
         m = LET i == CHOOSE i \in DOMAIN l : l[i] = s
             IN  SubSeq(l, 1, i - 1) \o SubSeq(l, i + 1, Len(l))
  PROVE  m \in Seq(SocketIds) /\ Once(m) /\ On(m) = On(l) \ {s}
<1>1. PICK k \in DOMAIN l : l[k] = s /\ m = Without(l, k)
  BY DEF On, Without
<1>2. /\ Without(l, k) \in Seq(SocketIds)
      /\ \A i, j \in DOMAIN Without(l, k) : Without(l, k)[i] = Without(l, k)[j] => i = j
      /\ \A i \in DOMAIN Without(l, k) :
           /\ Without(l, k)[i] # l[k]
           /\ \E j \in DOMAIN l : l[j] = Without(l, k)[i]
      /\ \A i \in DOMAIN l :
           l[i] # l[k] => \E j \in DOMAIN Without(l, k) : Without(l, k)[j] = l[i]
  BY WithoutOne, SMTT(30) DEF Once
<1> DEFINE w == Without(l, k)
<1> HIDE DEF w
<1>3. ASSUME NEW x \in On(w) PROVE x \in On(l) /\ x # s
  <2>1. PICK i \in DOMAIN w : w[i] = x
    BY OnIs
  <2> QED
    BY <1>1, <1>2, <2>1, OnIs DEF w
<1>4. ASSUME NEW x \in On(l), x # s PROVE x \in On(w)
  <2>1. PICK i \in DOMAIN l : l[i] = x
    BY OnIs
  <2> QED
    BY <1>1, <1>2, <1>4, <2>1, OnIs DEF w
<1>5. m = w
  BY <1>1 DEF w
<1>6. On(w) = On(l) \ {s}
  BY <1>3, <1>4
<1>7. w \in Seq(SocketIds) /\ Once(w)
  BY <1>2 DEF w, Once
<1> QED
  BY <1>5, <1>6, <1>7

LEMMA Links ==
  ASSUME NEW l \in Seq(SocketIds), Once(l), NEW s \in SocketIds, s \notin On(l), NEW m, m = <<s>> \o l
  PROVE  m \in Seq(SocketIds) /\ Once(m) /\ On(m) = On(l) \cup {s}
<1>1. /\ m \in Seq(SocketIds) /\ DOMAIN m = 1 .. (Len(l) + 1) /\ DOMAIN l = 1 .. Len(l) /\ Len(l) \in Nat
      /\ m[1] = s /\ \A i \in 2 .. (Len(l) + 1) : m[i] = l[i - 1]
  BY SMTT(30)
<1>2. /\ \A i \in DOMAIN m : i # 1 => i - 1 \in DOMAIN l /\ m[i] = l[i - 1]
      /\ \A i \in DOMAIN l : i + 1 \in DOMAIN m /\ m[i + 1] = l[i]
      /\ 1 \in DOMAIN m
      /\ \A i, j \in DOMAIN m : i - 1 = j - 1 => i = j
  BY <1>1, SMTT(30)
<1>3. On(m) = On(l) \cup {s}
  <2>1. ASSUME NEW x \in On(m) PROVE x \in On(l) \cup {s}
    <3>1. PICK i \in DOMAIN m : m[i] = x
      BY OnIs
    <3>2. CASE i = 1
      BY <1>1, <3>1, <3>2
    <3>3. CASE i # 1
      BY <1>2, <3>1, <3>3, OnIs
    <3> QED
      BY <3>2, <3>3
  <2>2. ASSUME NEW x \in On(l) \cup {s} PROVE x \in On(m)
    <3>1. CASE x = s
      BY <1>1, <1>2, <3>1, OnIs
    <3>2. CASE x \in On(l)
      <4>1. PICK i \in DOMAIN l : l[i] = x
        BY <3>2, OnIs
      <4> QED
        BY <1>2, <4>1, OnIs
    <3> QED
      BY <3>1, <3>2
  <2> QED
    BY <2>1, <2>2
<1>4. Once(m)
  <2> SUFFICES ASSUME NEW i \in DOMAIN m, NEW j \in DOMAIN m, m[i] = m[j] PROVE i = j
    BY DEF Once
  <2>1. CASE i = 1 \/ j = 1
    <3>1. ASSUME NEW k \in DOMAIN m, k # 1 PROVE m[k] # s
      <4>1. k - 1 \in DOMAIN l /\ m[k] = l[k - 1]
        BY <1>2, <3>1
      <4>2. l[k - 1] \in On(l)
        BY <4>1, OnIs
      <4> QED
        BY <4>1, <4>2
    <3> QED
      BY <1>1, <2>1, <3>1
  <2>2. CASE i # 1 /\ j # 1
    <3>1. l[i - 1] = l[j - 1] /\ i - 1 \in DOMAIN l /\ j - 1 \in DOMAIN l
      BY <1>2, <2>2
    <3>2. i - 1 = j - 1
      BY <3>1 DEF Once
    <3> QED
      BY <1>2, <3>2
  <2> QED
    BY <2>1, <2>2
<1> QED
  BY <1>1, <1>3, <1>4

\* A change of one socket's port or queue.
LEMMA SocketChanges ==
  ASSUME NEW l, NEW K, NEW H, TableOK(l, K, H), NEW s \in On(l), NEW k,
         k = [x \in {"fd_refs", "port", "queued"} |-> k[x]],
         k.fd_refs = K[s].fd_refs, k.queued \in Nat,
         \/ k.port = K[s].port \/ k.port \notin Ephemeral
         \/ \A r \in On(l) : K[r].port # k.port
  PROVE  TableOK(l, [K EXCEPT ![s] = k], H) /\ s \in SocketIds
<1> DEFINE J == [K EXCEPT ![s] = k]
<1>1. s \in SocketIds
  BY OnSockets DEF TableOK
<1>2. /\ J = [x \in SocketIds |-> J[x]] /\ J[s] = k
      /\ \A x \in SocketIds \ {s} : J[x] = K[x]
  BY <1>1 DEF TableOK
<1> HIDE DEF J
<1>3. ASSUME NEW x \in SocketIds PROVE SockAt(J[x], Refs(H, x), x \in On(l))
  <2>1. SockAt(K[x], Refs(H, x), x \in On(l))
    BY DEF TableOK
  <2>2. CASE x = s
    <3>1. K[s].fd_refs = Refs(H, s)
      BY <2>1, <2>2 DEF SockAt
    <3> QED
      BY <1>2, <2>1, <2>2, <3>1 DEF SockAt
  <2> QED
    BY <1>2, <2>1, <2>2
<1>4. PortsOwn(l, J)
  <2>1. \A x \in On(l) : x # s => J[x] = K[x]
    BY <1>2, OnSockets DEF TableOK
  <2>2. PortsOwn(l, K)
    BY DEF TableOK
  <2> SUFFICES ASSUME NEW x \in On(l), NEW r \in On(l), J[x].port = J[r].port, x # r
               PROVE  J[x].port \notin Ephemeral
    BY DEF PortsOwn
  <2>3. CASE x = s
    BY <1>2, <2>1, <2>2, <2>3 DEF PortsOwn
  <2>4. CASE r = s
    BY <1>2, <2>1, <2>2, <2>4 DEF PortsOwn
  <2>5. CASE x # s /\ r # s
    BY <2>1, <2>2, <2>5 DEF PortsOwn
  <2> QED
    BY <2>3, <2>4, <2>5
<1> QED
  BY <1>1, <1>2, <1>3, <1>4 DEF TableOK, J

LEMMA SamePorts ==
  ASSUME NEW l, NEW K, NEW J, PortsOwn(l, K), \A x \in On(l) : J[x].port = K[x].port
  PROVE  PortsOwn(l, J)
BY DEF PortsOwn

\* A socket with a descriptor more or less, and the list without it when that
\* was the last one.
More(K, s) == [K EXCEPT ![s].fd_refs = @ + 1]
Less(K, s) == [K EXCEPT ![s] = IF K[s].fd_refs <= 1 THEN NoSocket ELSE [K[s] EXCEPT !.fd_refs = @ - 1]]
FdMore(H, t, s) == [H EXCEPT ![t][s] = @ + 1]
FdLess(H, t, s) == [H EXCEPT ![t][s] = @ - 1]
Linked(l, K, s) ==
  IF K[s].fd_refs <= 1
  THEN LET i == CHOOSE i \in DOMAIN l : l[i] = s
       IN  SubSeq(l, 1, i - 1) \o SubSeq(l, i + 1, Len(l))
  ELSE l

LEMMA DupKeeps ==
  ASSUME NEW l, NEW K, NEW H, TableOK(l, K, H), NEW t \in Users, NEW s \in SocketIds,
         H[t][s] > 0, K[s].fd_refs < MaxRefs
  PROVE  /\ TableOK(l, More(K, s), FdMore(H, t, s))
         /\ \A u \in Users \ {t} : FdMore(H, t, s)[u] = H[u]
         /\ \A x \in SocketIds : More(K, s)[x].queued > 0 => K[x].queued > 0
         /\ \A x \in SocketIds \ {s} : FdMore(H, t, s)[t][x] = H[t][x] /\ More(K, s)[x] = K[x]
<1> DEFINE n == H[t][s] + 1
           J == More(K, s)
           G == FdMore(H, t, s)
<1>0. J = [K EXCEPT ![s].fd_refs = @ + 1] /\ G = [H EXCEPT ![t][s] = @ + 1]
  BY DEF More, FdMore
<1> HIDE DEF J, G
<1> USE <1>0
<1>1. H \in HeldType /\ SockAt(K[s], Refs(H, s), s \in On(l))
  BY DEF TableOK
<1>2. /\ Refs(H, s) \in Nat /\ H[t][s] \in Nat /\ H[t][s] <= Refs(H, s) /\ Refs(H, s) > 0
      /\ K[s].fd_refs = Refs(H, s) /\ MaxRefs \in Nat
  BY <1>1, RefsFew, SocketConstants DEF SockAt
<1>3. n \in 0 .. MaxRefs /\ Refs(H, s) - H[t][s] + n = Refs(H, s) + 1 /\ Refs(H, s) + 1 > 0
  BY <1>2, SMTT(30)
<1> HIDE DEF n
<1>4. /\ G \in HeldType /\ G[t][s] = n
      /\ \A u \in Users \ {t} : G[u] = H[u]
      /\ \A x \in SocketIds \ {s} : G[t][x] = H[t][x]
  BY <1>1, <1>3 DEF HeldType, n
<1>5. /\ G \in HeldType
      /\ \A x \in SocketIds \ {s} : G[t][x] = H[t][x] /\ Refs(G, x) = Refs(H, x)
      /\ \A u \in Users \ {t} : G[u] = H[u]
      /\ Refs(G, s) = Refs(H, s) + 1
  <2>1. /\ \A x \in SocketIds \ {s} : Refs(G, x) = Refs(H, x)
        /\ Refs(G, s) = Refs(H, s) - H[t][s] + G[t][s]
    <3>1. ASSUME NEW F \in HeldType, \A u \in Users \ {t} : F[u] = H[u],
                 \A x \in SocketIds \ {s} : F[t][x] = H[t][x]
          PROVE  /\ \A x \in SocketIds \ {s} : Refs(F, x) = Refs(H, x)
                 /\ Refs(F, s) = Refs(H, s) - H[t][s] + F[t][s]
      BY <1>1, <3>1, RefsMoveOne
    <3> QED
      BY <1>4, <3>1
  <2> QED
    BY <1>3, <1>4, <2>1
<1>6. /\ J = [x \in SocketIds |-> J[x]] /\ \A x \in SocketIds \ {s} : J[x] = K[x]
      /\ J[s] = [K[s] EXCEPT !.fd_refs = @ + 1]
  BY DEF TableOK
<1>7. /\ J[s] = [x \in {"fd_refs", "port", "queued"} |-> J[s][x]]
      /\ J[s].fd_refs = K[s].fd_refs + 1 /\ J[s].port = K[s].port /\ J[s].queued = K[s].queued
  <2> DEFINE k == K[s]
             j == J[s]
  <2>1. k = [x \in {"fd_refs", "port", "queued"} |-> k[x]]
    BY <1>1 DEF SockAt
  <2>2. j = [k EXCEPT !.fd_refs = @ + 1]
    BY <1>6
  <2> HIDE DEF k, j
  <2>3. /\ j = [x \in {"fd_refs", "port", "queued"} |-> j[x]]
        /\ j.fd_refs = k.fd_refs + 1 /\ j.port = k.port /\ j.queued = k.queued
    BY <2>1, <2>2
  <2> QED
    BY <2>3 DEF k, j
<1>8. SockAt(J[s], Refs(G, s), s \in On(l))
  BY <1>1, <1>2, <1>3, <1>5, <1>7 DEF SockAt
<1>9. ASSUME NEW x \in SocketIds PROVE SockAt(J[x], Refs(G, x), x \in On(l))
  BY <1>5, <1>6, <1>8 DEF TableOK
<1>10. ASSUME NEW x \in SocketIds PROVE J[x].port = K[x].port /\ J[x].queued = K[x].queued
  BY <1>6, <1>7
<1>11. PortsOwn(l, J)
  <2>1. \A x \in On(l) : x \in SocketIds
    BY OnSockets DEF TableOK
  <2> QED
    BY <1>10, <2>1, SamePorts DEF TableOK
<1>12. TableOK(l, J, G)
  BY <1>5, <1>6, <1>9, <1>11 DEF TableOK
<1> QED
  BY <1>5, <1>6, <1>10, <1>12 DEF J, G

\* The last descriptor closes the socket.
LEMMA DropKeeps ==
  ASSUME NEW l, NEW K, NEW H, TableOK(l, K, H), NEW t \in Users, NEW s \in SocketIds,
         H[t][s] > 0
  PROVE  /\ TableOK(Linked(l, K, s), Less(K, s), FdLess(H, t, s))
         /\ \A u \in Users \ {t} : FdLess(H, t, s)[u] = H[u]
         /\ \A x \in SocketIds : Less(K, s)[x].queued > 0 => K[x].queued > 0
<1> DEFINE n == H[t][s] - 1
           J == Less(K, s)
           G == FdLess(H, t, s)
           m == Linked(l, K, s)
<1>0. /\ J = [K EXCEPT ![s] = IF K[s].fd_refs <= 1 THEN NoSocket ELSE [K[s] EXCEPT !.fd_refs = @ - 1]]
      /\ G = [H EXCEPT ![t][s] = @ - 1]
      /\ ~(K[s].fd_refs <= 1) => m = l
      /\ K[s].fd_refs <= 1 => m = LET i == CHOOSE i \in DOMAIN l : l[i] = s
                                  IN  SubSeq(l, 1, i - 1) \o SubSeq(l, i + 1, Len(l))
  BY DEF Less, FdLess, Linked
<1> HIDE DEF J, G, m
<1> USE <1>0
<1>1. H \in HeldType /\ SockAt(K[s], Refs(H, s), s \in On(l)) /\ l \in Seq(SocketIds) /\ Once(l)
  BY DEF TableOK
<1>2. /\ Refs(H, s) \in Nat /\ H[t][s] \in Nat /\ H[t][s] <= Refs(H, s) /\ Refs(H, s) > 0
      /\ K[s].fd_refs = Refs(H, s) /\ MaxRefs \in Nat /\ H[t][s] \in 0 .. MaxRefs
  BY <1>1, RefsFew, SocketConstants DEF SockAt, HeldType
<1>3. /\ n \in 0 .. MaxRefs /\ Refs(H, s) - H[t][s] + n = Refs(H, s) - 1
      /\ Refs(H, s) <= 1 => Refs(H, s) - 1 = 0
      /\ ~(Refs(H, s) <= 1) => Refs(H, s) - 1 > 0
  BY <1>2, SMTT(30)
<1> HIDE DEF n
<1>4. /\ G \in HeldType /\ G[t][s] = n
      /\ \A u \in Users \ {t} : G[u] = H[u]
      /\ \A x \in SocketIds \ {s} : G[t][x] = H[t][x]
  BY <1>1, <1>3 DEF HeldType, n
<1>5. /\ G \in HeldType
      /\ \A x \in SocketIds \ {s} : Refs(G, x) = Refs(H, x)
      /\ \A u \in Users \ {t} : G[u] = H[u]
      /\ Refs(G, s) = Refs(H, s) - 1
  <2>1. /\ \A x \in SocketIds \ {s} : Refs(G, x) = Refs(H, x)
        /\ Refs(G, s) = Refs(H, s) - H[t][s] + G[t][s]
    <3>1. ASSUME NEW F \in HeldType, \A u \in Users \ {t} : F[u] = H[u],
                 \A x \in SocketIds \ {s} : F[t][x] = H[t][x]
          PROVE  /\ \A x \in SocketIds \ {s} : Refs(F, x) = Refs(H, x)
                 /\ Refs(F, s) = Refs(H, s) - H[t][s] + F[t][s]
      BY <1>1, <3>1, RefsMoveOne
    <3> QED
      BY <1>4, <3>1
  <2> QED
    BY <1>3, <1>4, <2>1
<1>6. /\ J = [x \in SocketIds |-> J[x]] /\ \A x \in SocketIds \ {s} : J[x] = K[x]
      /\ J[s] = IF K[s].fd_refs <= 1 THEN NoSocket ELSE [K[s] EXCEPT !.fd_refs = @ - 1]
  <2> DEFINE v == IF K[s].fd_refs <= 1 THEN NoSocket ELSE [K[s] EXCEPT !.fd_refs = @ - 1]
  <2>0. J = [K EXCEPT ![s] = v]
    OBVIOUS
  <2> HIDE DEF v
  <2>1. J = [K EXCEPT ![s] = v] /\ K = [x \in SocketIds |-> K[x]]
    BY <2>0 DEF TableOK
  <2>2. J = [x \in SocketIds |-> J[x]] /\ J[s] = v /\ \A x \in SocketIds \ {s} : J[x] = K[x]
    BY <2>1
  <2> QED
    BY <2>2 DEF v
<1>7. s \in On(l)
  BY <1>1, <1>2 DEF SockAt
<1>8. CASE K[s].fd_refs <= 1
  <2>1. m \in Seq(SocketIds) /\ Once(m) /\ On(m) = On(l) \ {s}
    BY <1>1, <1>7, <1>8, Unlinks
  <2>2. J[s] = NoSocket /\ Refs(G, s) = 0
    BY <1>2, <1>3, <1>5, <1>6, <1>8
  <2>3. ~(J[s].queued > 0)
    BY <2>2, NoSocketIs, SocketConstants
  <2>4. SockAt(J[s], Refs(G, s), s \in On(m))
    BY <2>1, <2>2, NoSocketIs, SocketConstants DEF SockAt
  <2>5. ASSUME NEW x \in SocketIds PROVE SockAt(J[x], Refs(G, x), x \in On(m))
    <3>1. CASE x # s
      <4>1. x \in On(m) <=> x \in On(l)
        BY <2>1, <3>1
      <4>2. SockAt(K[x], Refs(H, x), x \in On(l)) /\ J[x] = K[x] /\ Refs(G, x) = Refs(H, x)
        BY <1>5, <1>6, <3>1 DEF TableOK
      <4> QED
        BY <4>1, <4>2 DEF SockAt
    <3> QED
      BY <2>4, <3>1
  <2>6. PortsOwn(m, J)
    <3>1. \A x \in On(m) : x \in On(l) /\ J[x] = K[x]
      BY <1>1, <1>6, <2>1, OnSockets
    <3> QED
      BY <3>1 DEF PortsOwn, TableOK
  <2>7. TableOK(m, J, G)
    BY <1>5, <1>6, <2>1, <2>5, <2>6 DEF TableOK
  <2> QED
    BY <1>5, <1>6, <2>3, <2>7 DEF J, G, m
<1>9. CASE ~(K[s].fd_refs <= 1)
  <2>1. m = l /\ J[s] = [K[s] EXCEPT !.fd_refs = @ - 1]
    BY <1>6, <1>9
  <2>2. /\ J[s] = [x \in {"fd_refs", "port", "queued"} |-> J[s][x]]
        /\ J[s].fd_refs = K[s].fd_refs - 1 /\ J[s].port = K[s].port /\ J[s].queued = K[s].queued
    <3> DEFINE k == K[s]
               j == J[s]
    <3>1. k = [x \in {"fd_refs", "port", "queued"} |-> k[x]]
      BY <1>1 DEF SockAt
    <3>2. j = [k EXCEPT !.fd_refs = @ - 1]
      BY <2>1
    <3> HIDE DEF k, j
    <3>3. /\ j = [x \in {"fd_refs", "port", "queued"} |-> j[x]]
          /\ j.fd_refs = k.fd_refs - 1 /\ j.port = k.port /\ j.queued = k.queued
      BY <3>1, <3>2
    <3> QED
      BY <3>3 DEF k, j
  <2>3. SockAt(J[s], Refs(G, s), s \in On(l))
    BY <1>1, <1>2, <1>3, <1>5, <1>7, <1>9, <2>2 DEF SockAt
  <2>4. ASSUME NEW x \in SocketIds PROVE SockAt(J[x], Refs(G, x), x \in On(l))
    BY <1>5, <1>6, <2>3 DEF TableOK
  <2>5. ASSUME NEW x \in SocketIds PROVE J[x].port = K[x].port /\ J[x].queued = K[x].queued
    BY <1>6, <2>2
  <2>6. PortsOwn(l, J)
    <3>1. \A x \in On(l) : x \in SocketIds
      BY <1>1, OnSockets
    <3> QED
      BY <2>5, <3>1, SamePorts DEF TableOK
  <2>7. TableOK(l, J, G)
    BY <1>1, <1>5, <1>6, <2>4, <2>6 DEF TableOK
  <2> QED
    BY <1>5, <2>1, <2>5, <2>7 DEF J, G, m
<1> QED
  BY <1>8, <1>9 DEF J, G, m

-----------------------------------------------------------------------------
\* The users, when the table changes under them.
LEMMA UsersKeep ==
  ASSUME NEW U, NEW H, NEW K, UsersOK(U, H, K), NEW G, NEW J, NEW t \in Users,
         \A u \in Users \ {t} : G[u] = H[u], U[t].at \in {"user", "zombie"},
         \A x \in SocketIds : J[x].queued > 0 => K[x].queued > 0
  PROVE  UsersOK(U, G, J)
<1> SUFFICES ASSUME NEW u \in Users PROVE UserAt(U[u], G[u], J)
  BY DEF UsersOK
<1>1. UserAt(U[u], H[u], K)
  BY DEF UsersOK
<1>2. U[u].on \subseteq SocketIds
  BY <1>1 DEF UserAt, UserType
<1>3. CASE u # t
  BY <1>1, <1>2, <1>3 DEF UserAt
<1>4. CASE u = t
  <2>1. U[u].on = {} /\ U[u].st # "blocked" /\ U[u].at # "none"
    BY <1>1, <1>4 DEF UserAt
  <2> QED
    BY <1>1, <2>1 DEF UserAt
<1> QED
  BY <1>3, <1>4

\* One user enters or leaves a call, while no queue grows.
LEMMA UserMoves ==
  ASSUME NEW U, NEW H, NEW K, UsersOK(U, H, K), NEW J, NEW t \in Users, NEW v,
         UserAt(v, H[t], J), \A x \in SocketIds : J[x].queued > 0 => K[x].queued > 0
  PROVE  UsersOK([U EXCEPT ![t] = v], H, J)
<1> DEFINE V == [U EXCEPT ![t] = v]
<1>1. V = [u \in Users |-> V[u]] /\ V[t] = v /\ \A u \in Users \ {t} : V[u] = U[u]
  BY DEF UsersOK
<1> HIDE DEF V
<1>2. ASSUME NEW u \in Users PROVE UserAt(V[u], H[u], J)
  <2>1. CASE u = t
    BY <1>1, <2>1
  <2>2. CASE u # t
    <3>1. UserAt(U[u], H[u], K) /\ V[u] = U[u]
      BY <1>1, <2>2 DEF UsersOK
    <3>2. U[u].on \subseteq SocketIds
      BY <3>1 DEF UserAt, UserType
    <3> QED
      BY <3>1, <3>2 DEF UserAt
  <2> QED
    BY <2>1, <2>2
<1> QED
  BY <1>1, <1>2 DEF UsersOK, V

LEMMA UserReturns ==
  ASSUME NEW h, NEW J
  PROVE  UserAt(AtUser, h, J) /\ UserAt([AtUser EXCEPT !.at = "zombie"], h, J)
<1>1. /\ AtUser \in UserType /\ AtUser.on = {} /\ AtUser.st = "ready" /\ AtUser.at = "user"
  BY DEF AtUser, UserType
<1>2. LET z == [AtUser EXCEPT !.at = "zombie"]
      IN  z \in UserType /\ z.on = {} /\ z.st = "ready" /\ z.at = "zombie"
  BY DEF AtUser, UserType
<1> QED
  BY <1>1, <1>2 DEF UserAt

LEMMA ParkedAt ==
  ASSUME NEW h, NEW J, NEW call \in {"recv", "poll"}, NEW S \in SUBSET SocketIds,
         \A s \in S : h[s] > 0 /\ ~(J[s].queued > 0)
  PROVE  UserAt(ParkedIn(call, S), h, J)
<1>1. LET p == ParkedIn(call, S)
      IN  p \in UserType /\ p.on = S /\ p.st = "blocked" /\ p.at = call
  BY DEF ParkedIn, UserType
<1> QED
  BY <1>1 DEF UserAt

-----------------------------------------------------------------------------
\* One lemma per system call and event.
LEMMA SocketOpens ==
  ASSUME SocketInv, NEW t \in Users, NEW s \in SocketIds, sys_socket(t, s) PROVE SocketInv'
<1> DEFINE l == socket_list
           K == sockets
           H == held
           m == socket_list'
           J == sockets'
           G == held'
           new == [NoSocket EXCEPT !.fd_refs = 1]
<1>1. TableOK(l, K, H) /\ UsersOK(user, H, K)
  BY DEF SocketInv
<1>2. /\ user[t].at = "user" /\ s \notin On(l) /\ m = <<s>> \o l /\ user' = user
      /\ J = [K EXCEPT ![s] = new] /\ G = [H EXCEPT ![t][s] = 1]
  BY DEF sys_socket, Calls, Listed, On
<1>3. /\ new = [x \in {"fd_refs", "port", "queued"} |-> new[x]]
      /\ new.fd_refs = 1 /\ new.port = 0 /\ new.queued = 0
  BY DEF NoSocket
<1> HIDE DEF l, K, H, m, J, G, new
<1>4. /\ l \in Seq(SocketIds) /\ Once(l) /\ H \in HeldType /\ SockAt(K[s], Refs(H, s), s \in On(l))
      /\ K = [x \in SocketIds |-> K[x]] /\ PortsOwn(l, K)
  BY <1>1 DEF TableOK
<1>5. m \in Seq(SocketIds) /\ Once(m) /\ On(m) = On(l) \cup {s}
  BY <1>2, <1>4, Links
<1>6. H[t][s] = 0 /\ Refs(H, s) = 0
  <2>1. Refs(H, s) \in Nat /\ H[t][s] \in Nat /\ H[t][s] <= Refs(H, s) /\ ~(Refs(H, s) > 0)
    BY <1>2, <1>4, RefsFew DEF SockAt
  <2> QED
    BY <2>1, SMTT(30)
<1>7. /\ G \in HeldType /\ G[t][s] = 1
      /\ \A u \in Users \ {t} : G[u] = H[u]
      /\ \A x \in SocketIds \ {s} : G[t][x] = H[t][x]
  BY <1>2, <1>4, SocketConstants DEF HeldType
<1>8. Refs(G, s) = 1 /\ \A x \in SocketIds \ {s} : Refs(G, x) = Refs(H, x)
  <2>1. ASSUME NEW F \in HeldType, \A u \in Users \ {t} : F[u] = H[u],
               \A x \in SocketIds \ {s} : F[t][x] = H[t][x]
        PROVE  /\ \A x \in SocketIds \ {s} : Refs(F, x) = Refs(H, x)
               /\ Refs(F, s) = Refs(H, s) - H[t][s] + F[t][s]
    BY <1>4, <2>1, RefsMoveOne
  <2>2. 0 - 0 + 1 = 1
    BY SMTT(30)
  <2> QED
    BY <1>6, <1>7, <2>1, <2>2
<1>9. /\ J = [x \in SocketIds |-> J[x]] /\ J[s] = new
      /\ \A x \in SocketIds \ {s} : J[x] = K[x]
  BY <1>2, <1>4
<1>10. ASSUME NEW x \in SocketIds PROVE SockAt(J[x], Refs(G, x), x \in On(m))
  <2>1. CASE x = s
    BY <1>3, <1>5, <1>8, <1>9, <2>1, SocketConstants DEF SockAt
  <2>2. CASE x # s
    <3>1. x \in On(m) <=> x \in On(l)
      BY <1>5, <2>2
    <3>2. SockAt(K[x], Refs(H, x), x \in On(l)) /\ J[x] = K[x] /\ Refs(G, x) = Refs(H, x)
      BY <1>1, <1>8, <1>9, <2>2 DEF TableOK
    <3> QED
      BY <3>1, <3>2 DEF SockAt
  <2> QED
    BY <2>1, <2>2
<1>11. PortsOwn(m, J)
  <2> SUFFICES ASSUME NEW a \in On(m), NEW b \in On(m), J[a].port = J[b].port, a # b
               PROVE  J[a].port \notin Ephemeral
    BY DEF PortsOwn
  <2>1. CASE a = s \/ b = s
    BY <1>3, <1>9, <2>1, SocketConstants
  <2>2. CASE a # s /\ b # s
    <3>1. a \in On(l) /\ b \in On(l) /\ a \in SocketIds /\ b \in SocketIds
      BY <1>4, <1>5, <2>2, OnSockets
    <3>2. J[a] = K[a] /\ J[b] = K[b]
      BY <1>9, <2>2, <3>1
    <3> QED
      BY <1>4, <3>1, <3>2 DEF PortsOwn
  <2> QED
    BY <2>1, <2>2
<1>12. TableOK(m, J, G)
  BY <1>5, <1>7, <1>9, <1>10, <1>11 DEF TableOK
<1>13. \A x \in SocketIds : J[x].queued > 0 => K[x].queued > 0
  BY <1>3, <1>9, SocketConstants
<1>14. UsersOK(user, G, J)
  <2>1. user[t].at \in {"user", "zombie"}
    BY <1>2
  <2>2. ASSUME NEW F, NEW D, \A u \in Users \ {t} : F[u] = H[u],
               \A x \in SocketIds : D[x].queued > 0 => K[x].queued > 0
        PROVE  UsersOK(user, F, D)
    BY <1>1, <2>1, <2>2, UsersKeep
  <2> QED
    BY <1>7, <1>13, <2>2
<1> QED
  BY <1>2, <1>12, <1>14 DEF SocketInv, m, J, G

\* A descriptor is for a socket on the list.
LEMMA HeldIsListed ==
  ASSUME NEW l, NEW K, NEW H, TableOK(l, K, H), NEW t \in Users, NEW s \in SocketIds, H[t][s] > 0
  PROVE  s \in On(l) /\ SockAt(K[s], Refs(H, s), s \in On(l))
<1>1. SockAt(K[s], Refs(H, s), s \in On(l)) /\ H \in HeldType
  BY DEF TableOK
<1>2. Refs(H, s) > 0
  BY <1>1, RefsFew
<1> QED
  BY <1>1, <1>2 DEF SockAt

LEMMA SocketBinds ==
  ASSUME SocketInv, NEW t \in Users, NEW s \in SocketIds, held[t][s] > 0, user[t].at = "user", NEW p,
         p \notin Ephemeral \/ \A r \in On(socket_list) : sockets[r].port # p,
         sockets' = [sockets EXCEPT ![s].port = p],
         socket_list' = socket_list, held' = held, user' = user
  PROVE  SocketInv'
<1> DEFINE K == sockets
           k == [sockets[s] EXCEPT !.port = p]
<1>1. TableOK(socket_list, K, held) /\ UsersOK(user, held, K)
  BY DEF SocketInv
<1>2. sockets' = [K EXCEPT ![s] = k] /\ k = [K[s] EXCEPT !.port = p]
  OBVIOUS
<1> HIDE DEF K, k
<1>3. /\ s \in On(socket_list) /\ K[s].queued \in Nat
      /\ K[s] = [x \in {"fd_refs", "port", "queued"} |-> K[s][x]]
  <2>1. s \in On(socket_list) /\ SockAt(K[s], Refs(held, s), s \in On(socket_list))
    BY <1>1, HeldIsListed
  <2> QED
    BY <2>1 DEF SockAt
<1>4. /\ k = [x \in {"fd_refs", "port", "queued"} |-> k[x]]
      /\ k.fd_refs = K[s].fd_refs /\ k.queued = K[s].queued /\ k.port = p
  <2> DEFINE a == K[s]
  <2>1. a = [x \in {"fd_refs", "port", "queued"} |-> a[x]] /\ k = [a EXCEPT !.port = p]
    BY <1>2, <1>3
  <2> HIDE DEF a
  <2>2. /\ k = [x \in {"fd_refs", "port", "queued"} |-> k[x]]
        /\ k.fd_refs = a.fd_refs /\ k.queued = a.queued /\ k.port = p
    BY <2>1
  <2> QED
    BY <2>2 DEF a
<1>5. k.port \notin Ephemeral \/ \A r \in On(socket_list) : K[r].port # k.port
  BY <1>4 DEF K
<1>6. TableOK(socket_list, [K EXCEPT ![s] = k], held)
  BY <1>1, <1>3, <1>4, <1>5, SocketChanges
<1>7. \A x \in SocketIds : sockets'[x].queued = K[x].queued
  BY <1>1, <1>2, <1>4 DEF TableOK
<1>8. UsersOK(user, held, sockets')
  BY <1>1, <1>7, UsersKeep
<1> QED
  BY <1>2, <1>6, <1>8 DEF SocketInv

LEMMA SocketTakesPort ==
  ASSUME SocketInv, NEW t \in Users, NEW s \in SocketIds, held[t][s] > 0, user[t].at = "user",
         BindEphemeral(s)
  PROVE  SocketInv'
<1>1. PICK k \in 0 .. LastEphemeral - FirstEphemeral :
        /\ Ahead(k) \notin Taken /\ sockets' = [sockets EXCEPT ![s].port = Ahead(k)]
        /\ UNCHANGED <<socket_list, held, user>>
  BY DEF BindEphemeral
<1>2. \A r \in On(socket_list) : sockets[r].port # Ahead(k)
  BY <1>1 DEF Taken, Listed, On
<1> DEFINE p == Ahead(k)
<1>3. /\ sockets' = [sockets EXCEPT ![s].port = p] /\ \A r \in On(socket_list) : sockets[r].port # p
      /\ socket_list' = socket_list /\ held' = held /\ user' = user
  BY <1>1, <1>2
<1> HIDE DEF p
<1> QED
  BY <1>3, SocketBinds

LEMMA BindKeeps ==
  ASSUME SocketInv, NEW t \in Users, NEW s \in SocketIds, NEW port \in {0} \cup FixedPorts,
         sys_bind(t, s, port)
  PROVE  SocketInv'
<1>1. user[t].at = "user" /\ held[t][s] > 0
  BY DEF sys_bind, Calls
<1>2. CASE port = 0 /\ BindEphemeral(s)
  BY <1>1, <1>2, SocketTakesPort
<1>3. CASE /\ port # 0 /\ sockets' = [sockets EXCEPT ![s].port = port]
           /\ UNCHANGED <<socket_list, next_port, held, user>>
  <2>1. port \notin Ephemeral
    BY <1>3, SocketAssumption DEF Ephemeral
  <2>2. socket_list' = socket_list /\ held' = held /\ user' = user
    BY <1>3
  <2> QED
    BY <1>1, <1>3, <2>1, <2>2, SocketBinds
<1> QED
  BY <1>2, <1>3 DEF sys_bind

LEMMA SendKeeps ==
  ASSUME SocketInv, NEW t \in Users, NEW s \in SocketIds, sys_sendto(t, s) PROVE SocketInv'
BY SocketTakesPort DEF sys_sendto, Calls

-----------------------------------------------------------------------------
\* A task enters or leaves a wait while no socket changes.
LEMMA SocketWaits ==
  ASSUME SocketInv, NEW t \in Users, NEW v, UserAt(v, held[t], sockets),
         user' = [user EXCEPT ![t] = v],
         socket_list' = socket_list, sockets' = sockets, held' = held
  PROVE  SocketInv'
<1>1. UsersOK([user EXCEPT ![t] = v], held, sockets)
  BY UserMoves DEF SocketInv
<1> QED
  BY <1>1 DEF SocketInv

LEMMA ReceiveKeeps ==
  ASSUME SocketInv, NEW t \in Users, NEW s \in SocketIds, held[t][s] > 0, Receive(t, s)
  PROVE  SocketInv'
<1>1. socket_list' = socket_list /\ held' = held
  BY DEF Receive
<1>2. CASE Readable(s)
  <2> DEFINE K == sockets
             k == [sockets[s] EXCEPT !.queued = @ - 1]
  <2>1. TableOK(socket_list, K, held) /\ UsersOK(user, held, K)
    BY DEF SocketInv
  <2>2. /\ sockets' = [K EXCEPT ![s] = k] /\ k = [K[s] EXCEPT !.queued = @ - 1]
        /\ user' = [user EXCEPT ![t] = AtUser] /\ K[s].queued > 0
    BY <1>2 DEF Receive, Readable
  <2> HIDE DEF K, k
  <2>3. s \in On(socket_list) /\ SockAt(K[s], Refs(held, s), s \in On(socket_list))
    BY <2>1, HeldIsListed
  <2>4. /\ k = [x \in {"fd_refs", "port", "queued"} |-> k[x]]
        /\ k.fd_refs = K[s].fd_refs /\ k.queued = K[s].queued - 1 /\ k.port = K[s].port
    <3> DEFINE a == K[s]
    <3>1. a = [x \in {"fd_refs", "port", "queued"} |-> a[x]] /\ k = [a EXCEPT !.queued = @ - 1]
      BY <2>2, <2>3 DEF SockAt
    <3> HIDE DEF a
    <3>2. /\ k = [x \in {"fd_refs", "port", "queued"} |-> k[x]]
          /\ k.fd_refs = a.fd_refs /\ k.queued = a.queued - 1 /\ k.port = a.port
      BY <3>1
    <3> QED
      BY <3>2 DEF a
  <2>5. k.queued \in Nat
    <3>1. K[s].queued \in Nat
      BY <2>3 DEF SockAt
    <3>2. \A n \in Nat : n > 0 => n - 1 \in Nat
      BY SMTT(30)
    <3> QED
      BY <2>2, <2>4, <3>1, <3>2
  <2>6. TableOK(socket_list, [K EXCEPT ![s] = k], held)
    BY <2>1, <2>3, <2>4, <2>5, SocketChanges
  <2>7. \A x \in SocketIds : sockets'[x].queued > 0 => K[x].queued > 0
    BY <2>1, <2>2 DEF TableOK
  <2>8. UserAt(AtUser, held[t], sockets')
    BY UserReturns
  <2>9. UsersOK([user EXCEPT ![t] = AtUser], held, sockets')
    BY <2>1, <2>7, <2>8, UserMoves
  <2> QED
    BY <1>1, <2>2, <2>6, <2>9 DEF SocketInv
<1>3. CASE ~ Readable(s)
  <2>1. user' = [user EXCEPT ![t] = ParkedIn("recv", {s})] /\ sockets' = sockets
    BY <1>3 DEF Receive
  <2>2. UserAt(ParkedIn("recv", {s}), held[t], sockets)
    <3>1. {s} \in SUBSET SocketIds /\ "recv" \in {"recv", "poll"}
      OBVIOUS
    <3>2. \A x \in {s} : held[t][x] > 0 /\ ~(sockets[x].queued > 0)
      BY <1>3 DEF Readable
    <3> QED
      BY <3>1, <3>2, ParkedAt
  <2> DEFINE v == ParkedIn("recv", {s})
  <2>3. UserAt(v, held[t], sockets) /\ user' = [user EXCEPT ![t] = v]
    BY <2>1, <2>2
  <2> HIDE DEF v
  <2> QED
    BY <1>1, <2>1, <2>3, SocketWaits
<1> QED
  BY <1>2, <1>3

LEMMA PollKeeps ==
  ASSUME SocketInv, NEW t \in Users, NEW S \in SUBSET SocketIds, \A s \in S : held[t][s] > 0, Poll(t, S)
  PROVE  SocketInv'
<1>1. socket_list' = socket_list /\ held' = held /\ sockets' = sockets
  BY DEF Poll
<1> DEFINE v == IF \E s \in S : Readable(s) THEN AtUser ELSE ParkedIn("poll", S)
<1>2. user' = [user EXCEPT ![t] = v]
  BY DEF Poll
<1>3. UserAt(v, held[t], sockets)
  <2>1. CASE \E s \in S : Readable(s)
    BY <2>1, UserReturns
  <2>2. CASE ~ \E s \in S : Readable(s)
    <3>1. \A x \in S : held[t][x] > 0 /\ ~(sockets[x].queued > 0)
      BY <2>2 DEF Readable
    <3>2. "poll" \in {"recv", "poll"}
      OBVIOUS
    <3>3. UserAt(ParkedIn("poll", S), held[t], sockets)
      BY <3>1, <3>2, ParkedAt
    <3> QED
      BY <2>2, <3>3
  <2> QED
    BY <2>1, <2>2
<1> HIDE DEF v
<1> QED
  BY <1>1, <1>2, <1>3, SocketWaits

LEMMA ResumeKeeps ==
  ASSUME SocketInv, NEW t \in Users, wq_resume(t) PROVE SocketInv'
<1>1. UserAt(user[t], held[t], sockets)
  BY DEF SocketInv, UsersOK
<1>2. user[t].on \in SUBSET SocketIds /\ \A s \in user[t].on : held[t][s] > 0
  BY <1>1 DEF UserAt, UserType
<1>3. CASE \E s \in user[t].on : Receive(t, s)
  BY <1>2, <1>3, ReceiveKeeps
<1>4. CASE Poll(t, user[t].on)
  BY <1>2, <1>4, PollKeeps
<1>5. CASE /\ user' = [user EXCEPT ![t] = AtUser]
           /\ UNCHANGED <<socket_list, sockets, next_port, held>>
  <2>1. UserAt(AtUser, held[t], sockets)
    BY UserReturns
  <2> QED
    BY <1>5, <2>1, SocketWaits
<1> QED
  BY <1>3, <1>4, <1>5 DEF wq_resume

LEMMA InterruptKeeps ==
  ASSUME SocketInv, NEW t \in Users, task_interrupt(t) PROVE SocketInv'
<1> DEFINE u == user[t]
           v == [u EXCEPT !.st = "cut"]
<1>1. UserAt(u, held[t], sockets)
  BY DEF SocketInv, UsersOK
<1>2. u.st = "blocked" /\ user' = [user EXCEPT ![t] = v]
  BY DEF task_interrupt
<1>3. socket_list' = socket_list /\ held' = held /\ sockets' = sockets
  BY DEF task_interrupt
<1> HIDE DEF u
<1>4. v \in UserType /\ v.at = u.at /\ v.on = u.on /\ v.st = "cut"
  BY <1>1 DEF UserAt, UserType
<1> HIDE DEF v
<1>5. UserAt(v, held[t], sockets)
  BY <1>1, <1>2, <1>4 DEF UserAt
<1> QED
  BY <1>2, <1>3, <1>5, SocketWaits

\* A datagram comes, and whoever waits for it is woken.
LEMMA IncomingKeeps ==
  ASSUME SocketInv, NEW port, socket_handle_incoming(port) PROVE SocketInv'
<1>1. PICK i \in DOMAIN socket_list :
        /\ sockets' = [sockets EXCEPT ![socket_list[i]].queued = @ + 1]
        /\ user' = Woken(socket_list[i]) /\ socket_list' = socket_list /\ held' = held
  BY DEF socket_handle_incoming
<1> DEFINE s == socket_list[i]
           K == sockets
           k == [sockets[s] EXCEPT !.queued = @ + 1]
           V == user'
<1>2. TableOK(socket_list, K, held) /\ UsersOK(user, held, K) /\ s \in On(socket_list)
  BY OnIs DEF SocketInv
<1>3. /\ sockets' = [K EXCEPT ![s] = k] /\ k = [K[s] EXCEPT !.queued = @ + 1]
  BY <1>1
<1>4. V = [t \in Users |-> IF s \in user[t].on /\ user[t].st = "blocked"
                           THEN [user[t] EXCEPT !.st = "ready"] ELSE user[t]]
  BY <1>1 DEF Woken
<1> HIDE DEF s, K, k, V
<1>5. s \in SocketIds /\ SockAt(K[s], Refs(held, s), s \in On(socket_list))
  BY <1>2, OnSockets DEF TableOK
<1>6. /\ k = [x \in {"fd_refs", "port", "queued"} |-> k[x]]
      /\ k.fd_refs = K[s].fd_refs /\ k.queued = K[s].queued + 1 /\ k.port = K[s].port
  <2> DEFINE a == K[s]
  <2>1. a = [x \in {"fd_refs", "port", "queued"} |-> a[x]] /\ k = [a EXCEPT !.queued = @ + 1]
    BY <1>3, <1>5 DEF SockAt
  <2> HIDE DEF a
  <2>2. /\ k = [x \in {"fd_refs", "port", "queued"} |-> k[x]]
        /\ k.fd_refs = a.fd_refs /\ k.queued = a.queued + 1 /\ k.port = a.port
    BY <2>1
  <2> QED
    BY <2>2 DEF a
<1>7. k.queued \in Nat
  <2>1. K[s].queued \in Nat
    BY <1>5 DEF SockAt
  <2>2. \A n \in Nat : n + 1 \in Nat
    BY SMTT(30)
  <2> QED
    BY <1>6, <2>1, <2>2
<1>8. TableOK(socket_list, [K EXCEPT ![s] = k], held)
  BY <1>2, <1>6, <1>7, SocketChanges
<1>9. \A x \in SocketIds \ {s} : sockets'[x] = K[x]
  BY <1>2, <1>3, <1>5 DEF TableOK
<1>10. ASSUME NEW t \in Users PROVE UserAt(V[t], held[t], sockets')
  <2> DEFINE u == user[t]
             v == V[t]
  <2>1. UserAt(u, held[t], K)
    BY <1>2 DEF UsersOK
  <2>2. v = IF s \in u.on /\ u.st = "blocked" THEN [u EXCEPT !.st = "ready"] ELSE u
    BY <1>4
  <2> HIDE DEF u, v
  <2>3. CASE s \in u.on /\ u.st = "blocked"
    <3>1. v = [u EXCEPT !.st = "ready"]
      BY <2>2, <2>3
    <3>2. v \in UserType /\ v.at = u.at /\ v.on = u.on /\ v.st = "ready"
      BY <2>1, <3>1 DEF UserAt, UserType
    <3>3. UserAt(v, held[t], sockets')
      BY <2>1, <3>2 DEF UserAt
    <3> QED
      BY <3>3 DEF v
  <2>4. CASE ~(s \in u.on /\ u.st = "blocked")
    <3>1. v = u
      BY <2>2, <2>4
    <3>2. u.on \subseteq SocketIds
      BY <2>1 DEF UserAt, UserType
    <3>3. u.st = "blocked" => \A x \in u.on : sockets'[x] = K[x]
      BY <1>9, <2>4, <3>2
    <3>4. UserAt(v, held[t], sockets')
      BY <2>1, <3>1, <3>3 DEF UserAt
    <3> QED
      BY <3>4 DEF v
  <2> QED
    BY <2>3, <2>4
<1>11. V = [t \in Users |-> V[t]]
  BY <1>4
<1>12. UsersOK(V, held, sockets')
  BY <1>10, <1>11 DEF UsersOK
<1> QED
  BY <1>1, <1>3, <1>8, <1>12 DEF SocketInv, V

-----------------------------------------------------------------------------
\* A descriptor is closed, by its task or by the reaper.
LEMMA ReleaseKeeps ==
  ASSUME SocketInv, NEW t \in Users, NEW s \in SocketIds, held[t][s] > 0, Release(t, s),
         user[t].at \in {"user", "zombie"}, user' = user
  PROVE  SocketInv'
<1>1. TableOK(socket_list, sockets, held) /\ UsersOK(user, held, sockets)
  BY DEF SocketInv
<1>2. /\ sockets' = Less(sockets, s) /\ held' = FdLess(held, t, s)
      /\ socket_list' = Linked(socket_list, sockets, s)
  BY DEF Release, ListWithout, Less, FdLess, Linked
<1>3. /\ TableOK(Linked(socket_list, sockets, s), Less(sockets, s), FdLess(held, t, s))
      /\ \A u \in Users \ {t} : FdLess(held, t, s)[u] = held[u]
      /\ \A x \in SocketIds : Less(sockets, s)[x].queued > 0 => sockets[x].queued > 0
  BY <1>1, DropKeeps
<1>4. UsersOK(user, FdLess(held, t, s), Less(sockets, s))
  BY <1>1, <1>3, UsersKeep, SMTT(30)
<1> QED
  BY <1>2, <1>3, <1>4 DEF SocketInv

LEMMA CloseKeeps ==
  ASSUME SocketInv, NEW t \in Users, NEW s \in SocketIds, sys_close(t, s) PROVE SocketInv'
<1>1. held[t][s] > 0 /\ Release(t, s) /\ user[t].at \in {"user", "zombie"} /\ user' = user
  BY DEF sys_close, Calls
<1> QED
  BY <1>1, ReleaseKeeps

LEMMA FdDupKeeps ==
  ASSUME SocketInv, NEW t \in Users, NEW s \in SocketIds, task_fd_dup(t, s) PROVE SocketInv'
<1>1. TableOK(socket_list, sockets, held) /\ UsersOK(user, held, sockets)
  BY DEF SocketInv
<1>2. /\ user[t].at \in {"user", "zombie"} /\ held[t][s] > 0 /\ sockets[s].fd_refs < MaxRefs
      /\ sockets' = More(sockets, s) /\ held' = FdMore(held, t, s)
      /\ socket_list' = socket_list /\ user' = user
  BY DEF task_fd_dup, Calls, More, FdMore
<1>3. /\ TableOK(socket_list, More(sockets, s), FdMore(held, t, s))
      /\ \A u \in Users \ {t} : FdMore(held, t, s)[u] = held[u]
      /\ \A x \in SocketIds : More(sockets, s)[x].queued > 0 => sockets[x].queued > 0
  BY <1>1, <1>2, DupKeeps, SMTT(30)
<1>4. UsersOK(user, FdMore(held, t, s), More(sockets, s))
  BY <1>1, <1>2, <1>3, UsersKeep, SMTT(30)
<1> QED
  BY <1>2, <1>3, <1>4 DEF SocketInv

\* dup2 takes the new reference, then drops the old one.
LEMMA DupIntoKeeps ==
  ASSUME SocketInv, NEW t \in Users, NEW s \in SocketIds, NEW over \in SocketIds, fd_dup_into(t, s, over)
  PROVE  SocketInv'
<1> DEFINE J == More(sockets, s)
           G == FdMore(held, t, s)
<1>1. TableOK(socket_list, sockets, held) /\ UsersOK(user, held, sockets)
  BY DEF SocketInv
<1>2. /\ user[t].at \in {"user", "zombie"} /\ held[t][s] > 0 /\ held[t][over] > 0 /\ s # over
      /\ sockets[s].fd_refs < MaxRefs /\ user' = user
  BY DEF fd_dup_into, Calls
<1>3. /\ TableOK(socket_list, J, G) /\ \A u \in Users \ {t} : G[u] = held[u]
      /\ \A x \in SocketIds : J[x].queued > 0 => sockets[x].queued > 0
      /\ \A x \in SocketIds \ {s} : G[t][x] = held[t][x] /\ J[x] = sockets[x]
  BY <1>1, <1>2, DupKeeps, SMTT(30)
<1>4. G[t][over] > 0 /\ J[over] = sockets[over]
  BY <1>2, <1>3
<1>5. sockets' = Less(J, over)
  <2>1. sockets' = [J EXCEPT ![over] = IF sockets[over].fd_refs <= 1 THEN NoSocket
                                        ELSE [sockets[over] EXCEPT !.fd_refs = @ - 1]]
    BY DEF fd_dup_into, More
  <2> HIDE DEF J
  <2> QED
    BY <1>4, <2>1 DEF Less
<1>6. held' = FdLess(G, t, over)
  BY DEF fd_dup_into, FdMore, FdLess
<1>7. socket_list' = Linked(socket_list, J, over)
  <2>1. socket_list' = IF sockets[over].fd_refs <= 1 THEN ListWithout(over) ELSE socket_list
    BY DEF fd_dup_into
  <2>2. sockets[over].fd_refs = J[over].fd_refs
    BY <1>4
  <2> HIDE DEF J
  <2>3. socket_list' = IF J[over].fd_refs <= 1 THEN ListWithout(over) ELSE socket_list
    BY <2>1, <2>2
  <2> QED
    BY <2>3 DEF ListWithout, Linked
<1> HIDE DEF J, G
<1>8. /\ TableOK(Linked(socket_list, J, over), Less(J, over), FdLess(G, t, over))
      /\ \A u \in Users \ {t} : FdLess(G, t, over)[u] = G[u]
      /\ \A x \in SocketIds : Less(J, over)[x].queued > 0 => J[x].queued > 0
  BY <1>3, <1>4, DropKeeps
<1>9. UsersOK(user, FdLess(G, t, over), Less(J, over))
  <2>1. \A x \in SocketIds : Less(J, over)[x].queued > 0 => sockets[x].queued > 0
    BY <1>3, <1>8
  <2>2. \A u \in Users \ {t} : FdLess(G, t, over)[u] = held[u]
    BY <1>3, <1>8
  <2> QED
    BY <1>1, <1>2, <2>1, <2>2, UsersKeep, SMTT(30)
<1> QED
  BY <1>2, <1>5, <1>6, <1>7, <1>8, <1>9 DEF SocketInv

\* A child starts with some of its parent's descriptors, each counted.
LEMMA InheritKeeps ==
  ASSUME SocketInv, NEW t \in Users, NEW c \in Users, NEW some \in [SocketIds -> 0 .. MaxRefs],
         task_inherit(t, c, some)
  PROVE  SocketInv'
<1> DEFINE l == socket_list
           K == sockets
           H == held
           J == sockets'
           G == held'
           V == user'
<1>1. TableOK(l, K, H) /\ UsersOK(user, H, K)
  BY DEF SocketInv
<1>2. /\ user[c] = Absent /\ l' = l /\ \A s \in SocketIds : some[s] <= H[t][s]
      /\ V = [user EXCEPT ![c] = AtUser] /\ G = [H EXCEPT ![c] = some]
      /\ J = [s \in SocketIds |-> [K[s] EXCEPT !.fd_refs = @ + some[s]]]
  BY DEF task_inherit
<1>3. Absent.at = "none" /\ AtUser.at = "user"
  BY DEF Absent, AtUser
<1> HIDE DEF K, H, J, G, V
<1>4. H \in HeldType /\ K = [x \in SocketIds |-> K[x]] /\ PortsOwn(l, K)
  BY <1>1 DEF TableOK
<1>5. \A s \in SocketIds : H[c][s] = 0
  <2>1. UserAt(user[c], H[c], K)
    BY <1>1 DEF UsersOK
  <2> QED
    BY <1>2, <1>3, <2>1 DEF UserAt
<1>6. G \in HeldType /\ G[c] = some /\ \A u \in Users \ {c} : G[u] = H[u]
  BY <1>2, <1>4 DEF HeldType
<1>7. ASSUME NEW s \in SocketIds
      PROVE  /\ SockAt(J[s], Refs(G, s), s \in On(l))
             /\ J[s].port = K[s].port /\ J[s].queued = K[s].queued
  <2> DEFINE k == K[s]
             j == J[s]
  <2>1. SockAt(k, Refs(H, s), s \in On(l)) /\ j = [k EXCEPT !.fd_refs = @ + some[s]]
    BY <1>1, <1>2 DEF TableOK
  <2>2. Refs(G, s) = Refs(H, s) - H[c][s] + G[c][s]
    <3>1. ASSUME NEW F \in HeldType, \A u \in Users \ {c} : F[u] = H[u]
          PROVE  Refs(F, s) = Refs(H, s) - H[c][s] + F[c][s]
      BY <1>4, <3>1, RefsMove
    <3> QED
      BY <1>6, <3>1
  <2>3. /\ Refs(H, s) \in Nat /\ H[t][s] \in Nat /\ H[t][s] <= Refs(H, s)
        /\ some[s] <= H[t][s] /\ some[s] \in 0 .. MaxRefs
    BY <1>2, <1>4, RefsFew
  <2>4. /\ Refs(G, s) = Refs(H, s) + some[s]
        /\ Refs(G, s) > 0 <=> Refs(H, s) > 0
    <3>1. \A n, h \in Nat : \A e \in 0 .. MaxRefs :
            h <= n /\ e <= h => n - 0 + e = n + e /\ (n + e > 0 <=> n > 0)
      BY SocketConstants, SMTT(30)
    <3>2. Refs(G, s) = Refs(H, s) - 0 + some[s]
      BY <1>5, <1>6, <2>2
    <3>3. /\ Refs(H, s) - 0 + some[s] = Refs(H, s) + some[s]
          /\ Refs(H, s) + some[s] > 0 <=> Refs(H, s) > 0
      BY <2>3, <3>1
    <3> QED
      BY <3>2, <3>3
  <2> HIDE DEF k, j
  <2>5. k = [x \in {"fd_refs", "port", "queued"} |-> k[x]]
    BY <2>1 DEF SockAt
  <2>6. /\ j = [x \in {"fd_refs", "port", "queued"} |-> j[x]]
        /\ j.fd_refs = k.fd_refs + some[s] /\ j.port = k.port /\ j.queued = k.queued
    BY <2>1, <2>5
  <2>7. SockAt(j, Refs(G, s), s \in On(l))
    BY <2>1, <2>4, <2>6 DEF SockAt
  <2> QED
    BY <2>6, <2>7 DEF j, k
<1>8. J = [x \in SocketIds |-> J[x]]
  BY <1>2
<1>9. PortsOwn(l, J)
  <2>1. \A x \in On(l) : x \in SocketIds
    BY <1>1, OnSockets DEF TableOK
  <2> QED
    BY <1>4, <1>7, <2>1, SamePorts
<1>10. TableOK(l, J, G)
  BY <1>1, <1>6, <1>7, <1>8, <1>9 DEF TableOK
<1>11. UsersOK(V, H, K) /\ V[c].at \in {"user", "zombie"}
  <2>1. UserAt(AtUser, H[c], K)
    BY UserReturns
  <2>2. UsersOK([user EXCEPT ![c] = AtUser], H, K)
    BY <1>1, <2>1, UserMoves
  <2>3. V[c] = AtUser
    BY <1>1, <1>2 DEF UsersOK
  <2> QED
    BY <1>2, <1>3, <2>2, <2>3
<1>12. \A x \in SocketIds : J[x].queued > 0 => K[x].queued > 0
  BY <1>7
<1>13. UsersOK(V, G, J)
  BY <1>6, <1>11, <1>12, UsersKeep, SMTT(30)
<1> QED
  BY <1>2, <1>10, <1>13 DEF SocketInv, J, G, V

LEMMA ExitKeeps ==
  ASSUME SocketInv, NEW t \in Users, mark_task_exited(t) PROVE SocketInv'
<1> DEFINE v == [AtUser EXCEPT !.at = "zombie"]
<1>1. UserAt(v, held[t], sockets)
  BY UserReturns
<1>2. /\ user' = [user EXCEPT ![t] = v]
      /\ socket_list' = socket_list /\ sockets' = sockets /\ held' = held
  BY DEF mark_task_exited
<1> HIDE DEF v
<1> QED
  BY <1>1, <1>2, SocketWaits

LEMMA ReaperKeeps ==
  ASSUME SocketInv, NEW t \in Users, task_close_fds(t) PROVE SocketInv'
<1>1. user[t].at \in {"user", "zombie"}
  BY DEF task_close_fds
<1>2. CASE \E s \in SocketIds : held[t][s] > 0 /\ Release(t, s) /\ UNCHANGED user
  BY <1>1, <1>2, ReleaseKeeps
<1>3. CASE /\ \A s \in SocketIds : held[t][s] = 0
           /\ user' = [user EXCEPT ![t] = Absent]
           /\ UNCHANGED <<socket_list, sockets, held>>
  <2>1. Absent \in UserType /\ Absent.at = "none" /\ Absent.on = {} /\ Absent.st = "ready"
    BY DEF Absent, AtUser, UserType
  <2>2. UserAt(Absent, held[t], sockets)
    BY <1>3, <2>1 DEF UserAt
  <2>3. socket_list' = socket_list /\ sockets' = sockets /\ held' = held
    BY <1>3
  <2> QED
    BY <1>3, <2>2, <2>3, SocketWaits
<1> QED
  BY <1>2, <1>3 DEF task_close_fds

LEMMA SocketSteps == SocketInv /\ [SocketNext]_socketVars => SocketInv'
<1> SUFFICES ASSUME SocketInv, [SocketNext]_socketVars PROVE SocketInv'
  OBVIOUS
<1>1. ASSUME NEW t \in Users, NEW s \in SocketIds, sys_socket(t, s) PROVE SocketInv'
  BY <1>1, SocketOpens
<1>2. ASSUME NEW t \in Users, NEW s \in SocketIds, NEW port \in {0} \cup FixedPorts, sys_bind(t, s, port)
      PROVE  SocketInv'
  BY <1>2, BindKeeps
<1>3. ASSUME NEW t \in Users, NEW s \in SocketIds, sys_sendto(t, s) PROVE SocketInv'
  BY <1>3, SendKeeps
<1>4. ASSUME NEW t \in Users, NEW s \in SocketIds, socket_recvfrom(t, s) PROVE SocketInv'
  BY <1>4, ReceiveKeeps DEF socket_recvfrom
<1>5. ASSUME NEW t \in Users, NEW S \in (SUBSET SocketIds) \ {{}}, sys_poll(t, S) PROVE SocketInv'
  BY <1>5, PollKeeps DEF sys_poll
<1>6. ASSUME NEW t \in Users, wq_resume(t) PROVE SocketInv'
  BY <1>6, ResumeKeeps
<1>7. ASSUME NEW t \in Users, task_interrupt(t) PROVE SocketInv'
  BY <1>7, InterruptKeeps
<1>8. ASSUME NEW t \in Users, NEW s \in SocketIds, sys_close(t, s) PROVE SocketInv'
  BY <1>8, CloseKeeps
<1>9. ASSUME NEW t \in Users, NEW s \in SocketIds, task_fd_dup(t, s) PROVE SocketInv'
  BY <1>9, FdDupKeeps
<1>10. ASSUME NEW t \in Users, NEW s \in SocketIds, NEW over \in SocketIds, fd_dup_into(t, s, over)
       PROVE  SocketInv'
  BY <1>10, DupIntoKeeps
<1>11. ASSUME NEW t \in Users, NEW c \in Users, NEW some \in [SocketIds -> 0 .. MaxRefs],
              task_inherit(t, c, some)
       PROVE  SocketInv'
  BY <1>11, InheritKeeps
<1>12. ASSUME NEW t \in Users, mark_task_exited(t) PROVE SocketInv'
  BY <1>12, ExitKeeps
<1>13. ASSUME NEW t \in Users, task_close_fds(t) PROVE SocketInv'
  BY <1>13, ReaperKeeps
<1>14. ASSUME NEW port, socket_handle_incoming(port) PROVE SocketInv'
  BY <1>14, IncomingKeeps
<1>15. CASE UNCHANGED socketVars
  BY <1>15 DEF SocketInv, socketVars
<1> QED
  BY <1>1, <1>2, <1>3, <1>4, <1>5, <1>6, <1>7, <1>8, <1>9, <1>10, <1>11, <1>12, <1>13, <1>14, <1>15
     DEF SocketNext

\* Through every bind, dup, vfork, exit and delivery, fd_refs counts the
\* descriptors of the sockets on socket_list, an ephemeral port belongs to one
\* socket, and nobody sleeps while a datagram lies in the queue, for any finite
\* set of tasks and any sockets, ports and bounds.
THEOREM SocketsHold == SocketSpec => []SocketsAreSound
<1>1. SocketInit => SocketInv
  BY SocketStarts
<1>2. SocketInv /\ [SocketNext]_socketVars => SocketInv'
  BY SocketSteps
<1>3. SocketInv => SocketsAreSound
  BY SocketSays
<1> QED
  BY <1>1, <1>2, <1>3, PTL DEF SocketSpec
=============================================================================
