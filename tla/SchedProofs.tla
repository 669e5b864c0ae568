----------------------------- MODULE SchedProofs -----------------------------
(***************************************************************************)
(* The scheduler's lists, states and counters agree at every step, for any *)
(* number of tasks, levels moved to, quantum and length of wait; the tick  *)
(* wakes every sleeper that is due; and task_block_until reports what      *)
(* ended the wait.                                                         *)
(***************************************************************************)
EXTENDS Sched, WalkProofs

\* The provers a leaf is tried with, and their seconds.
USE ZenonT(60), SMTT(30)

TaskState == {"unused", "ready", "running", "blocked", "sleeping", "zombie"}
RqType == [q : [Level -> Seq(Task)], streak : Int, starve : Int]

\* The lists q hold exactly the tasks of R, each once and at the level pr
\* gives it.
Lists(q, R, pr) ==
  /\ q \in [Level -> Seq(Task)]
  /\ \A p \in Level : \A i, j \in DOMAIN q[p] : q[p][i] = q[p][j] => i = j
  /\ \A p \in Level : \A i \in DOMAIN q[p] : q[p][i] \in R /\ pr[q[p][i]] = p
  /\ \A t \in R : \E i \in DOMAIN q[pr[t]] : q[pr[t]][i] = t

In(st, s) == {t \in Task : st[t] = s}

\* Lists, states and the task on the CPU, once they are r, st and c.
ListsInv(r, st, pr, c) ==
  /\ r \in RqType /\ st \in [Task -> TaskState] /\ pr \in [Task -> Level]
  /\ c \in Task \cup {Idle}
  /\ Lists(r.q, In(st, "ready"), pr)
  /\ \A t \in Task : st[t] = "running" <=> t = c

CountInv ==
  /\ deadline \in [Task -> Waits \cup {None}] /\ wake_tick \in [Task -> Waits]
  /\ n_sleeping = Cardinality(In(state, "sleeping"))
  /\ n_timed_blocked = Cardinality({t \in Task : deadline[t] # None})
  /\ \A t \in Task : deadline[t] # None => state[t] = "blocked" /\ waiting[t] = NoPid

WaitType ==
  /\ pc \in [Task \cup {Idle} -> {"user", "kernel", "until", "empty", "hlt"}]
  /\ waiting \in [Task -> Task \cup {NoPid}]
  /\ result \in [Task -> [interruptible : BOOLEAN, interrupted : BOOLEAN, timed_out : BOOLEAN]]
  /\ cause \in [Task -> {"none", "wake", "signal", "timeout"}]

\* Why the result of task_block_until is right: while the task is parked neither
\* flag is set, and nobody's exit counts as its wake-up.
WaitAt(t) ==
  /\ state[t] = "unused" => pc[t] = "user" /\ prio[t] = NORMAL
  /\ state[t] = "sleeping" => pc[t] # "until"
  /\ waiting[t] # t
  /\ waiting[t] # NoPid => state[t] = "zombie" \/ (state[t] = "blocked" /\ pc[t] # "until")
  /\ state[t] = "blocked" /\ pc[t] = "until" => ~result[t].interrupted /\ ~result[t].timed_out
  /\ pc[t] = "until" /\ state[t] \in {"ready", "running"} => UntilResult(t) = cause[t]

WaitInv == WaitType /\ \A t \in Task : WaitAt(t)

FullInv ==
  /\ ListsInv(rq, state, prio, current) /\ CountInv /\ WaitInv
  /\ slice_ticks \in 0 .. Quantum - 1

-----------------------------------------------------------------------------
\* The walk over the task table, as a list of tasks.
LEMMA WalkOf ==
  ASSUME NEW S \in SUBSET Task
  PROVE  /\ InOrder(S) \in Seq(Task)
         /\ \A i \in DOMAIN InOrder(S) : InOrder(S)[i] \in S
         /\ \A i, j \in DOMAIN InOrder(S) : InOrder(S)[i] = InOrder(S)[j] => i = j
         /\ \A t \in S : \E i \in DOMAIN InOrder(S) : InOrder(S)[i] = t
<1>1. MAX_TASKS \in Nat /\ S \in SUBSET (1 .. MAX_TASKS)
  BY SchedAssumption DEF Task
<1>2. /\ Cardinality(S) \in Nat
      /\ InOrder(S) \in [1 .. Cardinality(S) -> S]
      /\ \A i, j \in 1 .. Cardinality(S) : InOrder(S)[i] = InOrder(S)[j] => i = j
      /\ \A t \in S : \E i \in 1 .. Cardinality(S) : InOrder(S)[i] = t
  BY <1>1, InOrderWalks
<1> QED
  BY <1>2, SMTT(30)


-----------------------------------------------------------------------------
\* What ready_push does to the lists.
LEMMA PushLists ==
  ASSUME NEW q, NEW R \in SUBSET Task, NEW pr \in [Task -> Level], Lists(q, R, pr),
         NEW t \in Task \ R
  PROVE  Lists([q EXCEPT ![pr[t]] = Append(@, t)], R \cup {t}, pr)
<1> DEFINE p == pr[t]
           s == q[p]
           a == Append(s, t)
           z == [q EXCEPT ![p] = Append(@, t)]
<1>1. p \in Level /\ s \in Seq(Task) /\ q \in [Level -> Seq(Task)]
  BY DEF Lists
<1>2. z[p] = a /\ z \in [Level -> Seq(Task)] /\ \A l \in Level \ {p} : z[l] = q[l]
  BY <1>1, SMTT(30)
<1>3. /\ \A i \in DOMAIN s : a[i] = s[i] /\ i \in DOMAIN a
      /\ a[Len(s) + 1] = t /\ Len(s) + 1 \in DOMAIN a
      /\ \A i \in DOMAIN a : i \in DOMAIN s \/ i = Len(s) + 1
  BY <1>1, SMTT(30)
<1>4. /\ \A i \in DOMAIN s : s[i] \in R /\ pr[s[i]] = p /\ s[i] # t
      /\ \A i, j \in DOMAIN s : s[i] = s[j] => i = j
      /\ \A u \in R : pr[u] = p => \E i \in DOMAIN s : s[i] = u
  BY <1>1, SMTT(30) DEF Lists
<1> HIDE DEF z, a, s
<1>5. \A l \in Level : \A i, j \in DOMAIN z[l] : z[l][i] = z[l][j] => i = j
  <2> SUFFICES ASSUME NEW l \in Level, NEW i \in DOMAIN z[l], NEW j \in DOMAIN z[l], z[l][i] = z[l][j]
               PROVE  i = j
    OBVIOUS
  <2>1. CASE l = p
    BY <1>2, <1>3, <1>4, <2>1, SMTT(30)
  <2>2. CASE l # p
    BY <1>2, <2>2, SMTT(30) DEF Lists
  <2> QED
    BY <2>1, <2>2
<1>6. \A l \in Level : \A i \in DOMAIN z[l] : z[l][i] \in R \cup {t} /\ pr[z[l][i]] = l
  <2> SUFFICES ASSUME NEW l \in Level, NEW i \in DOMAIN z[l]
               PROVE  z[l][i] \in R \cup {t} /\ pr[z[l][i]] = l
    OBVIOUS
  <2>1. CASE l = p
    BY <1>2, <1>3, <1>4, <2>1, SMTT(30)
  <2>2. CASE l # p
    BY <1>2, <2>2, SMTT(30) DEF Lists
  <2> QED
    BY <2>1, <2>2
<1>7. \A u \in R \cup {t} : \E i \in DOMAIN z[pr[u]] : z[pr[u]][i] = u
  <2> SUFFICES ASSUME NEW u \in R \cup {t} PROVE \E i \in DOMAIN z[pr[u]] : z[pr[u]][i] = u
    OBVIOUS
  <2>1. CASE u = t
    BY <1>2, <1>3, <2>1
  <2>2. CASE u # t /\ pr[u] = p
    <3>1. PICK i \in DOMAIN s : s[i] = u
      BY <1>4, <2>2
    <3> QED
      BY <1>2, <1>3, <2>2, <3>1
  <2>3. CASE u # t /\ pr[u] # p
    <3>1. pr[u] \in Level /\ z[pr[u]] = q[pr[u]]
      BY <1>2, <2>3
    <3> QED
      BY <2>3, <3>1 DEF Lists
  <2> QED
    BY <2>1, <2>2, <2>3
<1> QED
  BY <1>2, <1>5, <1>6, <1>7 DEF Lists, z

\* What ready_pop does to them.
LEMMA PopLists ==
  ASSUME NEW q, NEW R \in SUBSET Task, NEW pr \in [Task -> Level], Lists(q, R, pr),
         NEW p \in Level, q[p] # <<>>
  PROVE  /\ Head(q[p]) \in R /\ pr[Head(q[p])] = p
         /\ Lists([q EXCEPT ![p] = Tail(@)], R \ {Head(q[p])}, pr)
<1> DEFINE s == q[p]
           t == Head(s)
           a == Tail(s)
           z == [q EXCEPT ![p] = Tail(@)]
<1>1. s \in Seq(Task) /\ s # <<>> /\ q \in [Level -> Seq(Task)]
  BY DEF Lists
<1>2. z[p] = a /\ z \in [Level -> Seq(Task)] /\ \A l \in Level \ {p} : z[l] = q[l]
  BY <1>1, SMTT(30)
<1>3. /\ 1 \in DOMAIN s /\ t = s[1]
      /\ \A i \in DOMAIN a : a[i] = s[i + 1] /\ i + 1 \in DOMAIN s /\ i + 1 # 1 /\ i \in Int
      /\ \A i \in DOMAIN s : i # 1 => \E j \in DOMAIN a : a[j] = s[i]
  <2>1. /\ DOMAIN s = 1 .. Len(s) /\ Len(s) \in Nat /\ Len(s) > 0 /\ t = s[1]
        /\ DOMAIN a = 1 .. (Len(s) - 1) /\ \A i \in 1 .. (Len(s) - 1) : a[i] = s[i + 1]
    BY <1>1, SMTT(30)
  <2> HIDE DEF s, a, t
  <2>2. ASSUME NEW i \in DOMAIN s, i # 1 PROVE \E j \in DOMAIN a : a[j] = s[i]
    <3>1. i - 1 \in DOMAIN a /\ a[i - 1] = s[i]
      BY <2>1, <2>2, SMTT(30)
    <3> QED
      BY <3>1
  <2> QED
    BY <2>1, <2>2, SMTT(30)
<1>4. /\ \A i \in DOMAIN s : s[i] \in R /\ pr[s[i]] = p
      /\ \A i, j \in DOMAIN s : s[i] = s[j] => i = j
      /\ \A u \in R : pr[u] = p => \E i \in DOMAIN s : s[i] = u
  BY <1>1 DEF Lists
<1>5. t \in R /\ pr[t] = p
  BY <1>3, <1>4, SMTT(30)
<1> HIDE DEF z, a, t, s
<1>6. \A l \in Level : \A i, j \in DOMAIN z[l] : z[l][i] = z[l][j] => i = j
  <2> SUFFICES ASSUME NEW l \in Level, NEW i \in DOMAIN z[l], NEW j \in DOMAIN z[l], z[l][i] = z[l][j]
               PROVE  i = j
    OBVIOUS
  <2>1. CASE l = p
    <3>1. i + 1 = j + 1 /\ i \in Int /\ j \in Int
      BY <1>2, <1>3, <1>4, <2>1, SMTT(30)
    <3> QED
      BY <3>1, SMTT(30)
  <2>2. CASE l # p
    BY <1>2, <2>2, SMTT(30) DEF Lists
  <2> QED
    BY <2>1, <2>2
<1>7. \A l \in Level : \A i \in DOMAIN z[l] : z[l][i] \in R \ {t} /\ pr[z[l][i]] = l
  <2> SUFFICES ASSUME NEW l \in Level, NEW i \in DOMAIN z[l]
               PROVE  z[l][i] \in R \ {t} /\ pr[z[l][i]] = l
    OBVIOUS
  <2>1. CASE l = p
    BY <1>2, <1>3, <1>4, <2>1, SMTT(30)
  <2>2. CASE l # p
    BY <1>2, <1>5, <2>2, SMTT(30) DEF Lists
  <2> QED
    BY <2>1, <2>2
<1>8. \A u \in R \ {t} : \E i \in DOMAIN z[pr[u]] : z[pr[u]][i] = u
  <2> SUFFICES ASSUME NEW u \in R \ {t} PROVE \E i \in DOMAIN z[pr[u]] : z[pr[u]][i] = u
    OBVIOUS
  <2>1. CASE pr[u] = p
    <3>1. PICK i \in DOMAIN s : s[i] = u
      BY <1>4, <2>1
    <3> QED
      BY <1>2, <1>3, <2>1, <3>1, SMTT(30)
  <2>2. CASE pr[u] # p
    <3>1. pr[u] \in Level /\ z[pr[u]] = q[pr[u]]
      BY <1>2, <2>2
    <3> QED
      BY <3>1 DEF Lists
  <2> QED
    BY <2>1, <2>2
<1> QED
  BY <1>2, <1>5, <1>6, <1>7, <1>8 DEF Lists, z, t, s

\* What ready_remove does to one list.
LEMMA UnlinkedOne ==
  ASSUME NEW s \in Seq(Task), \A i, j \in DOMAIN s : s[i] = s[j] => i = j, NEW t
  PROVE  /\ Unlinked(s, t) \in Seq(Task)
         /\ \A i, j \in DOMAIN Unlinked(s, t) : Unlinked(s, t)[i] = Unlinked(s, t)[j] => i = j
         /\ \A i \in DOMAIN Unlinked(s, t) :
              /\ Unlinked(s, t)[i] # t
              /\ \E j \in DOMAIN s : s[j] = Unlinked(s, t)[i]
         /\ \A i \in DOMAIN s : s[i] # t => \E j \in DOMAIN Unlinked(s, t) : Unlinked(s, t)[j] = s[i]
<1>1. CASE ~\E i \in DOMAIN s : s[i] = t
  BY <1>1 DEF Unlinked
<1>2. CASE \E i \in DOMAIN s : s[i] = t
  <2>1. PICK k \in DOMAIN s : /\ s[k] = t
                              /\ Unlinked(s, t) = SubSeq(s, 1, k - 1) \o SubSeq(s, k + 1, Len(s))
    BY <1>2 DEF Unlinked
  <2>2. Unlinked(s, t) = Without(s, k)
    BY <2>1 DEF Without
  <2>3. /\ Without(s, k) \in Seq(Task)
        /\ \A i, j \in DOMAIN Without(s, k) : Without(s, k)[i] = Without(s, k)[j] => i = j
        /\ \A i \in DOMAIN Without(s, k) :
             /\ Without(s, k)[i] # s[k]
             /\ \E j \in DOMAIN s : s[j] = Without(s, k)[i]
        /\ \A i \in DOMAIN s :
             s[i] # s[k] => \E j \in DOMAIN Without(s, k) : Without(s, k)[j] = s[i]
    BY WithoutOne, SMTT(30)
  <2> QED
    BY <2>1, <2>2, <2>3
<1> QED
  BY <1>1, <1>2

LEMMA RemoveLists ==
  ASSUME NEW q, NEW R \in SUBSET Task, NEW pr \in [Task -> Level], Lists(q, R, pr), NEW t
  PROVE  Lists([p \in Level |-> Unlinked(q[p], t)], R \ {t}, pr)
<1> DEFINE z == [p \in Level |-> Unlinked(q[p], t)]
<1>1. ASSUME NEW p \in Level
      PROVE  /\ q[p] \in Seq(Task) /\ z[p] \in Seq(Task)
             /\ \A i, j \in DOMAIN z[p] : z[p][i] = z[p][j] => i = j
             /\ \A i \in DOMAIN z[p] : z[p][i] # t /\ \E j \in DOMAIN q[p] : q[p][j] = z[p][i]
             /\ \A i \in DOMAIN q[p] : q[p][i] # t => \E j \in DOMAIN z[p] : z[p][j] = q[p][i]
  <2>1. q[p] \in Seq(Task) /\ \A i, j \in DOMAIN q[p] : q[p][i] = q[p][j] => i = j
    BY DEF Lists
  <2>2. z[p] = Unlinked(q[p], t)
    OBVIOUS
  <2> HIDE DEF z
  <2>3. PICK s \in Seq(Task) : s = q[p]
    BY <2>1
  <2> QED
    BY <2>1, <2>2, <2>3, UnlinkedOne, SMTT(30)
<1>2. z \in [Level -> Seq(Task)]
  BY <1>1
<1> HIDE DEF z
<1>3. \A p \in Level : \A i \in DOMAIN z[p] : z[p][i] \in R \ {t} /\ pr[z[p][i]] = p
  BY <1>1, SMTT(30) DEF Lists
<1>4. \A u \in R \ {t} : \E i \in DOMAIN z[pr[u]] : z[pr[u]][i] = u
  <2> SUFFICES ASSUME NEW u \in R \ {t} PROVE \E i \in DOMAIN z[pr[u]] : z[pr[u]][i] = u
    OBVIOUS
  <2>1. pr[u] \in Level
    OBVIOUS
  <2>2. PICK j \in DOMAIN q[pr[u]] : q[pr[u]][j] = u
    BY DEF Lists
  <2> QED
    BY <1>1, <2>1, <2>2, SMTT(30)
<1> QED
  BY <1>1, <1>2, <1>3, <1>4 DEF Lists, z

\* What a walk that pushes the tasks of W does to the lists.
LEMMA PushAllLists ==
  ASSUME NEW q, NEW R \in SUBSET Task, NEW pr \in [Task -> Level], Lists(q, R, pr),
         NEW W \in SUBSET Task, W \cap R = {}
  PROVE  Lists([p \in Level |-> q[p] \o InOrder({t \in W : pr[t] = p})], R \cup W, pr)
<1> DEFINE w == [p \in Level |-> InOrder({t \in W : pr[t] = p})]
           z == [p \in Level |-> q[p] \o w[p]]
<1>1. ASSUME NEW p \in Level
      PROVE  /\ q[p] \in Seq(Task) /\ w[p] \in Seq(Task)
             /\ \A i \in DOMAIN w[p] : w[p][i] \in W /\ pr[w[p][i]] = p
             /\ \A i, j \in DOMAIN w[p] : w[p][i] = w[p][j] => i = j
             /\ \A t \in W : pr[t] = p => \E i \in DOMAIN w[p] : w[p][i] = t
  <2>1. PICK S \in SUBSET Task : S = {t \in W : pr[t] = p}
    OBVIOUS
  <2>2. q[p] \in Seq(Task)
    BY DEF Lists
  <2>3. w[p] = InOrder(S)
    BY <2>1
  <2> HIDE DEF w
  <2> QED
    <3>0. /\ InOrder(S) \in Seq(Task)
          /\ \A i \in DOMAIN InOrder(S) : InOrder(S)[i] \in S
          /\ \A i, j \in DOMAIN InOrder(S) : InOrder(S)[i] = InOrder(S)[j] => i = j
          /\ \A t \in S : \E i \in DOMAIN InOrder(S) : InOrder(S)[i] = t
      BY WalkOf
    <3>1. /\ w[p] \in Seq(Task)
          /\ \A i \in DOMAIN w[p] : w[p][i] \in S
          /\ \A i, j \in DOMAIN w[p] : w[p][i] = w[p][j] => i = j
          /\ \A t \in S : \E i \in DOMAIN w[p] : w[p][i] = t
      BY <2>3, <3>0
    <3> QED
      BY <2>1, <2>2, <3>1
<1>2. ASSUME NEW p \in Level
      PROVE  /\ z[p] \in Seq(Task)
             /\ \A i \in DOMAIN z[p] :
                  \/ i \in DOMAIN q[p] /\ z[p][i] = q[p][i]
                  \/ \E k \in DOMAIN w[p] : i = k + Len(q[p]) /\ z[p][i] = w[p][k]
             /\ \A i \in DOMAIN q[p] : i \in DOMAIN z[p] /\ z[p][i] = q[p][i]
             /\ \A i \in DOMAIN w[p] : /\ i + Len(q[p]) \in DOMAIN z[p]
                                       /\ z[p][i + Len(q[p])] = w[p][i]
  <2>1. PICK a \in Seq(Task), b \in Seq(Task) : a = q[p] /\ b = w[p]
    BY <1>1
  <2>2. z[p] = a \o b
    BY <2>1
  <2> HIDE DEF z, w
  <2>3. /\ z[p] \in Seq(Task) /\ Len(z[p]) = Len(a) + Len(b) /\ Len(a) \in Nat /\ Len(b) \in Nat
        /\ \A i \in 1 .. (Len(a) + Len(b)) : z[p][i] = IF i <= Len(a) THEN a[i] ELSE b[i - Len(a)]
    BY <2>2, Joined, SMTT(30)
  <2>4. DOMAIN z[p] = 1 .. (Len(a) + Len(b)) /\ DOMAIN a = 1 .. Len(a) /\ DOMAIN b = 1 .. Len(b)
    BY <2>3, SMTT(30)
  <2>5. ASSUME NEW i \in DOMAIN z[p]
        PROVE  \/ i \in DOMAIN a /\ z[p][i] = a[i]
               \/ \E k \in DOMAIN b : i = k + Len(a) /\ z[p][i] = b[k]
    <3>1. CASE i <= Len(a)
      BY <2>3, <2>4, <3>1, SMTT(30)
    <3>2. CASE ~(i <= Len(a))
      <4>1. /\ i - Len(a) \in DOMAIN b /\ i = (i - Len(a)) + Len(a)
            /\ z[p][i] = b[i - Len(a)]
        BY <2>3, <2>4, <3>2, SMTT(30)
      <4> QED
        BY <4>1
    <3> QED
      BY <3>1, <3>2
  <2>6. ASSUME NEW i \in DOMAIN a PROVE i \in DOMAIN z[p] /\ z[p][i] = a[i]
    BY <2>3, <2>4, SMTT(30)
  <2>7. ASSUME NEW i \in DOMAIN b PROVE i + Len(a) \in DOMAIN z[p] /\ z[p][i + Len(a)] = b[i]
    <3>1. /\ i + Len(a) \in 1 .. (Len(a) + Len(b)) /\ ~(i + Len(a) <= Len(a))
          /\ (i + Len(a)) - Len(a) = i
      BY <2>3, <2>4, SMTT(30)
    <3> QED
      BY <2>3, <2>4, <3>1
  <2> QED
    BY <2>1, <2>3, <2>5, <2>6, <2>7
<1>3. z \in [Level -> Seq(Task)]
  BY <1>2
<1> HIDE DEF z, w
<1>4. /\ \A p \in Level : \A i \in DOMAIN q[p] : q[p][i] \in R /\ pr[q[p][i]] = p
      /\ \A p \in Level : \A i, j \in DOMAIN q[p] : q[p][i] = q[p][j] => i = j
  BY DEF Lists
<1>5. ASSUME NEW p \in Level, NEW i \in DOMAIN z[p], NEW j \in DOMAIN z[p], z[p][i] = z[p][j]
      PROVE  i = j
  <2>1. \/ i \in DOMAIN q[p] /\ z[p][i] = q[p][i]
        \/ \E k \in DOMAIN w[p] : i = k + Len(q[p]) /\ z[p][i] = w[p][k]
    BY <1>2
  <2>2. \/ j \in DOMAIN q[p] /\ z[p][j] = q[p][j]
        \/ \E k \in DOMAIN w[p] : j = k + Len(q[p]) /\ z[p][j] = w[p][k]
    BY <1>2
  <2>3. /\ \A k \in DOMAIN q[p] : q[p][k] \in R
        /\ \A k, l \in DOMAIN q[p] : q[p][k] = q[p][l] => k = l
    BY <1>4
  <2>4. /\ \A k \in DOMAIN w[p] : w[p][k] \in W
        /\ \A k, l \in DOMAIN w[p] : w[p][k] = w[p][l] => k = l
    BY <1>1
  <2>5. \A k \in R : k \notin W
    OBVIOUS
  <2> QED
    BY <1>5, <2>1, <2>2, <2>3, <2>4, <2>5
<1>6. ASSUME NEW p \in Level, NEW i \in DOMAIN z[p] PROVE z[p][i] \in R \cup W /\ pr[z[p][i]] = p
  BY <1>1, <1>2, <1>4, SMTT(30)
<1>7. ASSUME NEW t \in R \cup W PROVE \E i \in DOMAIN z[pr[t]] : z[pr[t]][i] = t
  <2>1. pr[t] \in Level
    OBVIOUS
  <2>2. CASE t \in R
    <3>1. PICK i \in DOMAIN q[pr[t]] : q[pr[t]][i] = t
      BY <2>2 DEF Lists
    <3> QED
      BY <1>2, <2>1, <3>1
  <2>3. CASE t \in W
    <3>1. PICK i \in DOMAIN w[pr[t]] : w[pr[t]][i] = t
      BY <1>1, <2>1, <2>3
    <3> QED
      BY <1>2, <2>1, <3>1, SMTT(30)
  <2> QED
    BY <2>2, <2>3
<1>8. Lists(z, R \cup W, pr)
  BY <1>3, <1>5, <1>6, <1>7 DEF Lists
<1> QED
  BY <1>8 DEF z, w

\* The level ready_pop serves has a task.
LEMMA PopLevelReady ==
  ASSUME NEW r, ready_any(r)
  PROVE  PopLevel(r) \in Level /\ r.q[PopLevel(r)] # <<>>
BY SMTT(30) DEF ready_any, PopLevel, HasReady, Level

\* ready_pop takes a ready task off the lists.
LEMMA Pop ==
  ASSUME NEW r \in RqType, NEW R \in SUBSET Task, NEW pr \in [Task -> Level],
         Lists(r.q, R, pr), ready_any(r)
  PROVE  LET p == PopLevel(r)
             next == Head(r.q[p])
         IN  /\ next \in R
             /\ Popped(r, p) \in RqType
             /\ Lists(Popped(r, p).q, R \ {next}, pr)
<1> DEFINE p == PopLevel(r)
           next == Head(r.q[p])
           z == [r.q EXCEPT ![p] = Tail(@)]
<1>1. p \in Level /\ r.q[p] # <<>>
  BY PopLevelReady
<1> HIDE DEF p
<1>2. next \in R /\ Lists(z, R \ {next}, pr)
  BY <1>1, PopLists
<1>3. z \in [Level -> Seq(Task)] /\ r.streak \in Int /\ r.starve \in Int
  BY <1>2 DEF Lists, RqType
<1>4. Popped(r, p).q = z
  BY DEF Popped
<1>5. Popped(r, p) \in RqType
  <2> DEFINE a == IF p # HIGH THEN 0
                  ELSE IF r.streak < SCHED_HIGH_BURST THEN r.streak + 1 ELSE r.streak
             b == IF p = LOW THEN 0
                  ELSE IF r.starve < SCHED_LOW_FLOOR THEN r.starve + 1 ELSE r.starve
  <2>1. a \in Int /\ b \in Int /\ Popped(r, p) = [q |-> z, streak |-> a, starve |-> b]
    BY <1>3, SMTT(30) DEF Popped
  <2> HIDE DEF a, b
  <2> QED
    BY <1>3, <2>1, SMTT(30) DEF RqType
<1> QED
  BY <1>2, <1>4, <1>5 DEF p

-----------------------------------------------------------------------------
\* The same of the record that holds the lists.
LEMMA NewLists ==
  ASSUME NEW r \in RqType, NEW z \in [Level -> Seq(Task)]
  PROVE  [r EXCEPT !.q = z] \in RqType /\ [r EXCEPT !.q = z].q = z
BY DEF RqType

LEMMA NewStreak ==
  ASSUME NEW r \in RqType
  PROVE  PoppedEmpty(r) \in RqType /\ PoppedEmpty(r).q = r.q
<1>1. r = [q |-> r.q, streak |-> r.streak, starve |-> r.starve]
  BY DEF RqType
<1>2. PoppedEmpty(r) = [q |-> r.q, streak |-> 0, starve |-> r.starve]
  BY <1>1, SMTT(30) DEF PoppedEmpty, RqType
<1>3. r.q \in [Level -> Seq(Task)] /\ r.starve \in Int
  BY DEF RqType
<1> QED
  BY <1>2, <1>3, SMTT(30) DEF RqType

LEMMA Push ==
  ASSUME NEW r \in RqType, NEW R \in SUBSET Task, NEW pr \in [Task -> Level],
         Lists(r.q, R, pr), NEW t \in Task \ R
  PROVE  /\ ready_push(r, t, pr[t]) \in RqType
         /\ Lists(ready_push(r, t, pr[t]).q, R \cup {t}, pr)
<1> DEFINE z == [r.q EXCEPT ![pr[t]] = Append(@, t)]
<1>1. Lists(z, R \cup {t}, pr)
  BY PushLists
<1>2. z \in [Level -> Seq(Task)]
  BY <1>1 DEF Lists
<1>3. ready_push(r, t, pr[t]) = [r EXCEPT !.q = z]
  BY DEF ready_push, RqType
<1> HIDE DEF z
<1> QED
  BY <1>1, <1>2, <1>3, NewLists, SMTT(30)

LEMMA Remove ==
  ASSUME NEW r \in RqType, NEW R \in SUBSET Task, NEW pr \in [Task -> Level],
         Lists(r.q, R, pr), NEW t
  PROVE  /\ ready_remove(r, t) \in RqType
         /\ Lists(ready_remove(r, t).q, R \ {t}, pr)
<1> DEFINE z == [p \in Level |-> Unlinked(r.q[p], t)]
<1>1. Lists(z, R \ {t}, pr)
  BY RemoveLists
<1>2. z \in [Level -> Seq(Task)]
  BY <1>1 DEF Lists
<1>3. ready_remove(r, t) = [r EXCEPT !.q = z]
  BY DEF ready_remove
<1> HIDE DEF z
<1> QED
  BY <1>1, <1>2, <1>3, NewLists

LEMMA PushMany ==
  ASSUME NEW r \in RqType, NEW R \in SUBSET Task, prio \in [Task -> Level],
         Lists(r.q, R, prio), NEW W \in SUBSET Task, W \cap R = {}
  PROVE  /\ PushAll(r, W) \in RqType
         /\ Lists(PushAll(r, W).q, R \cup W, prio)
<1> DEFINE z == [p \in Level |-> r.q[p] \o InOrder({t \in W : prio[t] = p})]
<1>1. Lists(z, R \cup W, prio)
  BY PushAllLists
<1>2. z \in [Level -> Seq(Task)]
  BY <1>1 DEF Lists
<1>3. PushAll(r, W) = [r EXCEPT !.q = z]
  BY DEF PushAll
<1> HIDE DEF z
<1> QED
  BY <1>1, <1>2, <1>3, NewLists

\* A task that is not on the lists may change its level.
LEMMA Relevel ==
  ASSUME NEW q, NEW R \in SUBSET Task, NEW pr, NEW pq, Lists(q, R, pr),
         \A t \in R : pr[t] = pq[t]
  PROVE  Lists(q, R, pq)
BY DEF Lists

\* The outgoing task has left the CPU: the next one, or idle, is on it.
LEMMA SwitchTo ==
  ASSUME NEW r \in RqType, NEW st \in [Task -> TaskState], prio \in [Task -> Level],
         Lists(r.q, In(st, "ready"), prio), \A t \in Task : st[t] # "running",
         Switch(r, st)
  PROVE  /\ ListsInv(rq', state', prio, current')
         /\ \A t \in Task : \/ state'[t] = st[t]
                            \/ st[t] = "ready" /\ state'[t] = "running"
<1> DEFINE R == In(st, "ready")
<1>0. R \in SUBSET Task
  BY DEF In
<1>1. CASE ready_any(r)
  <2> DEFINE p == PopLevel(r)
  <2>0. PICK next \in R : /\ next = Head(r.q[p])
                          /\ Popped(r, p) \in RqType
                          /\ Lists(Popped(r, p).q, R \ {next}, prio)
    BY <1>0, <1>1, Pop
  <2>1. rq' = Popped(r, p) /\ state' = [st EXCEPT ![next] = "running"] /\ current' = next
    BY <1>1, <2>0 DEF Switch
  <2>2. next \in Task /\ st[next] = "ready"
    BY <2>0 DEF In
  <2>3. /\ state' \in [Task -> TaskState]
        /\ \A t \in Task : state'[t] = IF t = next THEN "running" ELSE st[t]
    BY <2>1, <2>2 DEF TaskState
  <2>4. In(state', "ready") = R \ {next}
    BY <2>3 DEF In
  <2> HIDE DEF R
  <2> QED
    BY <2>0, <2>1, <2>2, <2>3, <2>4 DEF ListsInv
<1>2. CASE ~ready_any(r)
  <2>1. rq' = PoppedEmpty(r) /\ state' = st /\ current' = Idle
    BY <1>2 DEF Switch
  <2>2. rq' \in RqType /\ rq'.q = r.q
    BY <2>1, NewStreak
  <2>3. Idle \notin Task
    BY SMTT(30) DEF Idle, Task
  <2> QED
    BY <2>1, <2>2, <2>3 DEF ListsInv
<1> QED
  BY <1>1, <1>2

\* A yield: the same, and the task that was on the CPU is ready again.
LEMMA Yielded ==
  ASSUME NEW r, NEW st, ListsInv(r, st, prio, current), Yield(r, st)
  PROVE  /\ ListsInv(rq', state', prio, current')
         /\ \A t \in Task : \/ state'[t] = st[t]
                            \/ st[t] \in {"ready", "running"} /\ state'[t] \in {"ready", "running"}
<1> DEFINE R == In(st, "ready")
           C == IF current = Idle THEN {} ELSE {current}
           out == [t \in Task |-> IF t = current THEN "ready" ELSE st[t]]
           back(x) == IF current = Idle THEN x ELSE ready_push(x, current, prio[current])
<1>0. /\ r \in RqType /\ st \in [Task -> TaskState] /\ prio \in [Task -> Level]
      /\ current \in Task \cup {Idle} /\ Lists(r.q, R, prio)
      /\ \A t \in Task : st[t] = "running" <=> t = current
  BY DEF ListsInv
<1>1. R \in SUBSET Task /\ Idle \notin Task /\ C \in SUBSET Task /\ C \cap R = {}
  BY <1>0, SMTT(30) DEF In, Idle, Task
<1>2. ASSUME NEW x \in RqType, NEW Q \in SUBSET R, Lists(x.q, Q, prio)
      PROVE  back(x) \in RqType /\ Lists(back(x).q, Q \cup C, prio)
  <2>1. CASE current = Idle
    BY <1>2, <2>1
  <2>2. CASE current # Idle
    <3>1. current \in Task \ Q /\ Q \in SUBSET Task
      BY <1>0, <1>1, <2>2
    <3>2. Lists(ready_push(x, current, prio[current]).q, Q \cup {current}, prio)
          /\ ready_push(x, current, prio[current]) \in RqType
      BY <1>0, <1>2, <3>1, Push
    <3> QED
      BY <2>2, <3>2
  <2> QED
    BY <2>1, <2>2
<1>3. out \in [Task -> TaskState] /\ \A t \in Task : out[t] = IF t \in C THEN "ready" ELSE st[t]
  BY <1>0, <1>1 DEF TaskState
<1>4. CASE ready_any(r)
  <2> DEFINE p == PopLevel(r)
  <2>0. PICK next \in R : /\ next = Head(r.q[p])
                          /\ Popped(r, p) \in RqType
                          /\ Lists(Popped(r, p).q, R \ {next}, prio)
    BY <1>0, <1>1, <1>4, Pop
  <2>1. rq' = back(Popped(r, p)) /\ state' = [out EXCEPT ![next] = "running"] /\ current' = next
    BY <1>4, <2>0 DEF Yield
  <2>2. next \in Task /\ st[next] = "ready" /\ next \notin C
    BY <1>1, <2>0 DEF In
  <2>3. rq' \in RqType /\ Lists(rq'.q, (R \ {next}) \cup C, prio)
    BY <1>2, <2>0, <2>1
  <2> HIDE DEF out, back
  <2>4. /\ state' \in [Task -> TaskState]
        /\ \A t \in Task : state'[t] = IF t = next THEN "running" ELSE IF t \in C THEN "ready" ELSE st[t]
    BY <1>3, <2>1, <2>2 DEF TaskState
  <2>5. \A t \in Task : st[t] = "running" <=> t \in C
    BY <1>0, <1>1
  <2> HIDE DEF C
  <2>6. In(state', "ready") = (R \ {next}) \cup C
    BY <1>1, <2>2, <2>4, <2>5 DEF In
  <2>7. \A t \in Task : state'[t] = "running" <=> t = next
    BY <2>4, <2>5
  <2> HIDE DEF R
  <2>8. ListsInv(rq', state', prio, current')
    BY <1>0, <2>1, <2>2, <2>3, <2>4, <2>6, <2>7 DEF ListsInv
  <2> QED
    BY <2>2, <2>4, <2>5, <2>8
<1>5. CASE ~ready_any(r)
  <2>1. rq' = back(PoppedEmpty(r)) /\ state' = out /\ current' = Idle
    BY <1>5 DEF Yield
  <2>2. PoppedEmpty(r) \in RqType /\ PoppedEmpty(r).q = r.q
    BY <1>0, NewStreak
  <2>3. rq' \in RqType /\ Lists(rq'.q, R \cup C, prio)
    BY <1>0, <1>2, <2>1, <2>2
  <2>4. \A t \in Task : st[t] = "running" <=> t \in C
    BY <1>0, <1>1
  <2> HIDE DEF C, out, back
  <2>5. In(state', "ready") = R \cup C
    BY <1>1, <1>3, <2>1 DEF In
  <2>6. \A t \in Task : state'[t] # "running"
    BY <1>3, <2>1, <2>4
  <2> HIDE DEF R
  <2>7. ListsInv(rq', state', prio, current')
    BY <1>0, <1>1, <1>3, <2>1, <2>3, <2>5, <2>6 DEF ListsInv
  <2> QED
    BY <1>3, <2>1, <2>4, <2>7
<1> QED
  BY <1>4, <1>5

-----------------------------------------------------------------------------
\* The sets that are counted are finite.
LEMMA Countable ==
  ASSUME NEW S \in SUBSET Task
  PROVE  IsFiniteSet(S) /\ Cardinality(S) \in Nat
<1>1. IsFiniteSet(Task)
  BY SchedAssumption, FS_Interval, SMTT(30) DEF Task
<1> QED
  BY <1>1, FS_Subset, FS_CardinalityType

\* A step that puts nobody to sleep, wakes no sleeper and arms and disarms no
\* deadline keeps the counters right.
LEMMA CountKept ==
  ASSUME CountInv, UNCHANGED timers,
         \A t \in Task : /\ state'[t] = "sleeping" <=> state[t] = "sleeping"
                         /\ state[t] = "blocked" /\ deadline[t] # None /\ waiting[t] = NoPid
                              => state'[t] = "blocked" /\ waiting'[t] = NoPid
  PROVE  CountInv'
<1>1. In(state', "sleeping") = In(state, "sleeping")
  BY DEF In
<1> QED
  BY <1>1 DEF CountInv, timers

\* One deadline is taken away, if it was armed, from a task that is not asleep.
LEMMA DisarmCount ==
  ASSUME CountInv, NEW t \in Task, UNCHANGED <<wake_tick, n_sleeping>>,
         deadline' = [deadline EXCEPT ![t] = None],
         n_timed_blocked' = n_timed_blocked - (IF deadline[t] = None THEN 0 ELSE 1),
         \A u \in Task : /\ state'[u] = "sleeping" <=> state[u] = "sleeping"
                         /\ u # t /\ state[u] = "blocked" /\ deadline[u] # None /\ waiting[u] = NoPid
                              => state'[u] = "blocked" /\ waiting'[u] = NoPid
  PROVE  CountInv'
<1> DEFINE D == {u \in Task : deadline[u] # None}
           E == {u \in Task : deadline'[u] # None}
<1>1. In(state', "sleeping") = In(state, "sleeping")
  BY DEF In
<1>2. /\ deadline' \in [Task -> Waits \cup {None}]
      /\ \A u \in Task : deadline'[u] = IF u = t THEN None ELSE deadline[u]
  BY DEF CountInv
<1>3. E = D \ {t}
  BY <1>2
<1>4. IsFiniteSet(D) /\ Cardinality(D) \in Nat
  BY Countable
<1>5. Cardinality(E) = IF t \in D THEN Cardinality(D) - 1 ELSE Cardinality(D)
  BY <1>3, <1>4, FS_RemoveElement
<1>6. n_timed_blocked' = Cardinality(E)
  BY <1>4, <1>5, SMTT(30) DEF CountInv
<1> QED
  BY <1>1, <1>2, <1>6 DEF CountInv

LEMMA WaitOther ==
  ASSUME NEW u \in Task, WaitAt(u), pc'[u] = pc[u], waiting'[u] = waiting[u],
         result'[u] = result[u], cause'[u] = cause[u],
         prio'[u] = prio[u] \/ state[u] # "unused",
         \/ state'[u] = state[u]
         \/ state[u] \in {"ready", "running"} /\ state'[u] \in {"ready", "running"}
  PROVE  WaitAt(u)'
BY DEF WaitAt, UntilResult

LEMMA WaitKept ==
  ASSUME WaitInv, pc' \in [Task \cup {Idle} -> {"user", "kernel", "until", "empty", "hlt"}],
         UNCHANGED <<waiting, result, cause>>,
         \A u \in Task : /\ pc'[u] = pc[u]
                         /\ prio'[u] = prio[u] \/ state[u] # "unused"
                         /\ \/ state'[u] = state[u]
                            \/ state[u] \in {"ready", "running"} /\ state'[u] \in {"ready", "running"}
  PROVE  WaitInv'
<1>1. WaitType'
  BY DEF WaitInv, WaitType
<1>2. \A u \in Task : WaitAt(u)'
  BY WaitOther DEF WaitInv
<1> QED
  BY <1>1, <1>2 DEF WaitInv

\* An interrupt touches idle's place in its loop only.
LEMMA IrqKeeps ==
  ASSUME WaitType
  PROVE  /\ IrqPc \in [Task \cup {Idle} -> {"user", "kernel", "until", "empty", "hlt"}]
         /\ \A u \in Task : IrqPc[u] = pc[u]
<1>1. Idle \notin Task
  BY SMTT(30) DEF Idle, Task
<1> QED
  BY <1>1 DEF WaitType, IrqPc

\* A task in the kernel is the running one.
LEMMA Runs ==
  ASSUME FullInv, NEW t \in Task, current = t
  PROVE  /\ state[t] = "running" /\ deadline[t] = None /\ waiting[t] = NoPid
         /\ \A u \in Task \ {t} : state[u] # "running"
BY DEF FullInv, ListsInv, CountInv, WaitInv, WaitAt

LEMMA InitFull == Init => FullInv
<1> SUFFICES ASSUME Init PROVE FullInv
  OBVIOUS
<1>1. ListsInv(rq, state, prio, current)
  <2>1. Idle \notin Task
    BY SMTT(30) DEF Idle, Task
  <2>2. In(state, "ready") = {}
    BY DEF Init, In
  <2>3. rq \in RqType /\ \A p \in Level : rq.q[p] = <<>>
    BY SMTT(30) DEF Init, EmptyRq, RqType
  <2>4. Lists(rq.q, {}, prio)
    BY <2>3, SMTT(30) DEF Lists, RqType
  <2> QED
    BY <2>1, <2>2, <2>3, <2>4 DEF Init, ListsInv, TaskState, Level
<1>2. CountInv
  <2>1. In(state, "sleeping") = {} /\ {t \in Task : deadline[t] # None} = {}
    BY DEF Init, In
  <2>2. deadline \in [Task -> Waits \cup {None}] /\ wake_tick \in [Task -> Waits]
    BY SchedAssumption, SMTT(30) DEF Init, Waits
  <2> QED
    BY <2>1, <2>2, FS_EmptySet DEF Init, CountInv
<1>3. WaitInv
  <2>1. Idle \notin Task
    BY SMTT(30) DEF Idle, Task
  <2> QED
    BY <2>1, SMTT(30) DEF Init, WaitInv, WaitType, WaitAt, NoWait, NoPid, Task
<1>4. slice_ticks \in 0 .. Quantum - 1
  BY SchedAssumption, SMTT(30) DEF Init
<1> QED
  BY <1>1, <1>2, <1>3, <1>4 DEF FullInv

-----------------------------------------------------------------------------
\* Steps of the running task that move nobody.
LEMMA PlainStep ==
  ASSUME FullInv,
         idle_hlt \/ \E t \in Task : enter_kernel(t) \/ return_to_user(t) \/ task_block_until_return(t)
  PROVE  FullInv'
<1>1. UNCHANGED <<cpu, state, prio, timers, waiting>>
  BY DEF idle_hlt, enter_kernel, return_to_user, task_block_until_return
<1>2. ListsInv(rq, state, prio, current)' /\ slice_ticks' \in 0 .. Quantum - 1
  BY <1>1 DEF FullInv, cpu
<1>3. CountInv'
  BY <1>1, CountKept DEF FullInv
<1>4. WaitInv'
  <2>0. Idle \notin Task /\ WaitType /\ \A u \in Task : WaitAt(u)
    BY SMTT(30) DEF Idle, Task, FullInv, WaitInv
  <2>1. CASE idle_hlt
    <3>1. /\ pc' \in [Task \cup {Idle} -> {"user", "kernel", "until", "empty", "hlt"}]
          /\ \A u \in Task : pc'[u] = pc[u]
      BY <2>0, <2>1 DEF WaitType, idle_hlt
    <3> QED
      BY <1>1, <2>1, <3>1, WaitKept DEF FullInv, idle_hlt
  <2>2. ASSUME NEW t \in Task, enter_kernel(t) \/ return_to_user(t) \/ task_block_until_return(t)
        PROVE  WaitInv'
    <3>1. /\ current = t
          /\ pc' \in [Task \cup {Idle} -> {"user", "kernel", "until", "empty", "hlt"}]
          /\ pc'[t] \in {"user", "kernel"} /\ \A u \in Task \ {t} : pc'[u] = pc[u]
      BY <2>0, <2>2 DEF WaitType, enter_kernel, return_to_user, task_block_until_return, InKernel
    <3>2. /\ result' \in [Task -> [interruptible : BOOLEAN, interrupted : BOOLEAN, timed_out : BOOLEAN]]
          /\ cause' \in [Task -> {"none", "wake", "signal", "timeout"}]
          /\ \A u \in Task \ {t} : result'[u] = result[u] /\ cause'[u] = cause[u]
      <4>1. NoWait \in [interruptible : BOOLEAN, interrupted : BOOLEAN, timed_out : BOOLEAN]
        BY DEF NoWait
      <4>2. \/ UNCHANGED <<result, cause>>
            \/ /\ result' = [result EXCEPT ![t] = NoWait]
               /\ cause' = [cause EXCEPT ![t] = "none"]
        BY <2>2 DEF enter_kernel, return_to_user, task_block_until_return
      <4>3. CASE UNCHANGED <<result, cause>>
        BY <2>0, <4>3 DEF WaitType
      <4>4. CASE /\ result' = [result EXCEPT ![t] = NoWait]
                 /\ cause' = [cause EXCEPT ![t] = "none"]
        BY <2>0, <4>1, <4>4 DEF WaitType
      <4> QED
        BY <4>2, <4>3, <4>4
    <3>3. WaitType'
      BY <1>1, <2>0, <3>1, <3>2 DEF WaitType
    <3>4. \A u \in Task \ {t} : WaitAt(u)'
      BY <1>1, <2>0, <3>1, <3>2, WaitOther
    <3>5. WaitAt(t)'
      BY <1>1, <3>1, Runs, SMTT(30) DEF WaitAt, NoPid, Task
    <3> QED
      BY <3>3, <3>4, <3>5 DEF WaitInv
  <2> QED
    BY <2>1, <2>2
<1> QED
  BY <1>2, <1>3, <1>4 DEF FullInv

\* task_yield and idle's loop.
LEMMA YieldStep ==
  ASSUME FullInv, idle_thread \/ \E t \in Task : task_yield(t)
  PROVE  FullInv'
<1>1. /\ Yield(rq, state) /\ sched_reschedule_done
      /\ UNCHANGED <<prio, timers, waiting, result, cause>>
  BY DEF idle_thread, task_yield
<1>2. /\ ListsInv(rq', state', prio, current')
      /\ \A u \in Task : \/ state'[u] = state[u]
                         \/ state[u] \in {"ready", "running"} /\ state'[u] \in {"ready", "running"}
  BY <1>1, Yielded DEF FullInv
<1>3. ListsInv(rq, state, prio, current)' /\ slice_ticks' \in 0 .. Quantum - 1
  BY <1>1, <1>2, SchedAssumption, SMTT(30) DEF sched_reschedule_done
<1>4. CountInv'
  BY <1>1, <1>2, CountKept DEF FullInv
<1>5. /\ pc' \in [Task \cup {Idle} -> {"user", "kernel", "until", "empty", "hlt"}]
      /\ \A u \in Task : pc'[u] = pc[u]
  <2>1. Idle \notin Task /\ WaitType
    BY SMTT(30) DEF Idle, Task, FullInv, WaitInv
  <2> QED
    BY <2>1 DEF WaitType, idle_thread, task_yield
<1>6. WaitInv'
  BY <1>1, <1>2, <1>5, WaitKept DEF FullInv
<1> QED
  BY <1>3, <1>4, <1>6 DEF FullInv

\* The running task t takes state s, and another task the CPU.
LEMMA ParkLists ==
  ASSUME FullInv, NEW t \in Task, current = t, NEW s \in {"blocked", "sleeping"},
         Switch(rq, [state EXCEPT ![t] = s]), sched_reschedule_done, UNCHANGED prio
  PROVE  /\ ListsInv(rq, state, prio, current)' /\ slice_ticks' \in 0 .. Quantum - 1
         /\ prio' = prio /\ state'[t] = s
         /\ \A u \in Task \ {t} : \/ state'[u] = state[u]
                                  \/ state[u] = "ready" /\ state'[u] = "running"
<1>1. PICK st \in [Task -> TaskState] : st = [state EXCEPT ![t] = s]
  BY DEF FullInv, ListsInv, TaskState
<1>2. /\ st[t] = s /\ \A u \in Task \ {t} : st[u] = state[u] /\ state[u] # "running"
      /\ state[t] = "running"
  BY <1>1, Runs DEF FullInv, ListsInv
<1>3. In(st, "ready") = In(state, "ready") /\ \A u \in Task : st[u] # "running"
  BY <1>2 DEF In
<1>4. rq \in RqType /\ prio \in [Task -> Level] /\ Lists(rq.q, In(st, "ready"), prio)
  BY <1>3 DEF FullInv, ListsInv
<1>5. /\ ListsInv(rq', state', prio, current')
      /\ \A u \in Task : \/ state'[u] = st[u]
                         \/ st[u] = "ready" /\ state'[u] = "running"
  BY <1>1, <1>3, <1>4, SwitchTo
<1>6. slice_ticks' \in 0 .. Quantum - 1
  BY SchedAssumption, SMTT(30) DEF sched_reschedule_done
<1> QED
  BY <1>2, <1>5, <1>6

LEMMA BlockStep ==
  ASSUME FullInv, NEW t \in Task, NEW w \in Task \cup {NoPid}, task_block(t, w)
  PROVE  FullInv'
<1>1. /\ ListsInv(rq, state, prio, current)' /\ slice_ticks' \in 0 .. Quantum - 1
      /\ prio' = prio /\ state'[t] = "blocked"
      /\ \A u \in Task \ {t} : \/ state'[u] = state[u]
                               \/ state[u] = "ready" /\ state'[u] = "running"
  BY ParkLists DEF task_block, InKernel
<1>2. /\ state[t] = "running" /\ pc[t] = "kernel"
      /\ UNCHANGED <<pc, timers, result, cause>>
      /\ waiting' = [waiting EXCEPT ![t] = w] /\ w # t
  BY Runs, SMTT(30) DEF task_block, InKernel, NoPid, Task
<1>3. CountInv'
  <2>1. \A u \in Task \ {t} : waiting'[u] = waiting[u]
    BY <1>2 DEF FullInv, WaitInv, WaitType
  <2> QED
    BY <1>1, <1>2, <2>1, CountKept DEF FullInv
<1>4. WaitType' /\ \A u \in Task \ {t} : waiting'[u] = waiting[u]
  BY <1>2 DEF FullInv, WaitInv, WaitType
<1>5. \A u \in Task \ {t} : WaitAt(u)'
  BY <1>1, <1>2, <1>4, WaitOther DEF FullInv, WaitInv
<1>6. WaitAt(t)'
  <2>1. waiting'[t] = w
    BY <1>2 DEF FullInv, WaitInv, WaitType
  <2> QED
    BY <1>1, <1>2, <2>1 DEF WaitAt
<1> QED
  BY <1>1, <1>3, <1>4, <1>5, <1>6 DEF FullInv, WaitInv

LEMMA BlockUntilStep ==
  ASSUME FullInv, NEW t \in Task, NEW d \in Waits \cup {None}, task_block_until(t, d)
  PROVE  FullInv'
<1> DEFINE nw == [NoWait EXCEPT !.interruptible = TRUE]
<1>1. /\ ListsInv(rq, state, prio, current)' /\ slice_ticks' \in 0 .. Quantum - 1
      /\ prio' = prio /\ state'[t] = "blocked"
      /\ \A u \in Task \ {t} : \/ state'[u] = state[u]
                               \/ state[u] = "ready" /\ state'[u] = "running"
  BY ParkLists DEF task_block_until, InKernel
<1>2. /\ state[t] = "running" /\ pc[t] = "kernel" /\ deadline[t] = None /\ waiting[t] = NoPid
      /\ UNCHANGED <<wake_tick, n_sleeping, waiting>>
      /\ deadline' = [deadline EXCEPT ![t] = d]
      /\ n_timed_blocked' = n_timed_blocked + (IF d = None THEN 0 ELSE 1)
  BY Runs DEF task_block_until, InKernel
<1>3. /\ pc' = [pc EXCEPT ![t] = "until"] /\ cause' = [cause EXCEPT ![t] = "none"]
      /\ result' = [result EXCEPT ![t] = nw]
  BY DEF task_block_until
<1>4. CountInv'
  <2> DEFINE D == {u \in Task : deadline[u] # None}
             E == {u \in Task : deadline'[u] # None}
  <2>1. In(state', "sleeping") = In(state, "sleeping")
    BY <1>1, <1>2 DEF In
  <2>2. /\ deadline' \in [Task -> Waits \cup {None}]
        /\ \A u \in Task : deadline'[u] = IF u = t THEN d ELSE deadline[u]
    BY <1>2 DEF FullInv, CountInv
  <2>3. t \notin D /\ E = IF d = None THEN D ELSE D \cup {t}
    BY <1>2, <2>2
  <2>4. IsFiniteSet(D) /\ Cardinality(D) \in Nat
    BY Countable
  <2>5. Cardinality(E) = IF d = None THEN Cardinality(D) ELSE Cardinality(D) + 1
    BY <2>3, <2>4, FS_AddElement
  <2>6. n_timed_blocked' = Cardinality(E)
    <3>1. n_timed_blocked = Cardinality(D)
      BY DEF FullInv, CountInv
    <3>2. n_timed_blocked' = n_timed_blocked + (IF d = None THEN 0 ELSE 1)
      BY <1>2
    <3> HIDE DEF D, E
    <3> QED
      BY <2>4, <2>5, <3>1, <3>2, SMTT(30)
  <2>7. \A u \in Task : deadline'[u] # None => state'[u] = "blocked" /\ waiting'[u] = NoPid
    BY <1>1, <1>2, <2>2 DEF FullInv, CountInv
  <2> QED
    BY <1>2, <2>1, <2>2, <2>6, <2>7 DEF FullInv, CountInv
<1>5. nw \in [interruptible : BOOLEAN, interrupted : BOOLEAN, timed_out : BOOLEAN]
      /\ ~nw.interrupted /\ ~nw.timed_out
  BY DEF NoWait
<1> HIDE DEF nw
<1>6. /\ WaitType' /\ pc'[t] = "until" /\ result'[t] = nw
      /\ \A u \in Task \ {t} : pc'[u] = pc[u] /\ result'[u] = result[u] /\ cause'[u] = cause[u]
  BY <1>2, <1>3, <1>5 DEF FullInv, WaitInv, WaitType
<1>7. \A u \in Task \ {t} : WaitAt(u)'
  BY <1>1, <1>2, <1>6, WaitOther DEF FullInv, WaitInv
<1>8. WaitAt(t)'
  BY <1>1, <1>2, <1>5, <1>6, SMTT(30) DEF WaitAt, NoPid, Task
<1> QED
  BY <1>1, <1>4, <1>6, <1>7, <1>8 DEF FullInv, WaitInv

LEMMA SleepStep ==
  ASSUME FullInv, NEW t \in Task, NEW n \in Waits \ {0}, task_sleep_ticks(t, n)
  PROVE  FullInv'
<1>1. /\ ListsInv(rq, state, prio, current)' /\ slice_ticks' \in 0 .. Quantum - 1
      /\ prio' = prio /\ state'[t] = "sleeping"
      /\ \A u \in Task \ {t} : \/ state'[u] = state[u]
                               \/ state[u] = "ready" /\ state'[u] = "running"
  BY ParkLists DEF task_sleep_ticks, InKernel
<1>2. /\ state[t] = "running" /\ pc[t] = "kernel" /\ deadline[t] = None /\ waiting[t] = NoPid
      /\ UNCHANGED <<pc, deadline, n_timed_blocked, waiting, result, cause>>
      /\ wake_tick' = [wake_tick EXCEPT ![t] = n] /\ n_sleeping' = n_sleeping + 1
  BY Runs DEF task_sleep_ticks, InKernel
<1>3. CountInv'
  <2> DEFINE D == In(state, "sleeping")
  <2>1. In(state', "sleeping") = D \cup {t} /\ t \notin D
    BY <1>1, <1>2 DEF In
  <2>2. IsFiniteSet(D) /\ Cardinality(D) \in Nat
    BY Countable DEF In
  <2>3. n_sleeping' = Cardinality(In(state', "sleeping"))
    BY <1>2, <2>1, <2>2, FS_AddElement, SMTT(30) DEF FullInv, CountInv
  <2>4. \A u \in Task : deadline'[u] # None => state'[u] = "blocked" /\ waiting'[u] = NoPid
    BY <1>1, <1>2 DEF FullInv, CountInv
  <2> QED
    BY <1>2, <2>3, <2>4 DEF FullInv, CountInv
<1>4. WaitType'
  BY <1>2 DEF FullInv, WaitInv, WaitType
<1>5. \A u \in Task \ {t} : WaitAt(u)'
  BY <1>1, <1>2, WaitOther DEF FullInv, WaitInv
<1>6. WaitAt(t)'
  BY <1>1, <1>2, SMTT(30) DEF WaitAt, NoPid, Task
<1> QED
  BY <1>1, <1>3, <1>4, <1>5, <1>6 DEF FullInv, WaitInv

\* Setting one flag of a task's wait.
LEMMA FlagSet ==
  ASSUME NEW r \in [interruptible : BOOLEAN, interrupted : BOOLEAN, timed_out : BOOLEAN],
         NEW b \in BOOLEAN
  PROVE  /\ [r EXCEPT !.interrupted = TRUE] \in
              [interruptible : BOOLEAN, interrupted : BOOLEAN, timed_out : BOOLEAN]
         /\ [r EXCEPT !.interrupted = TRUE].interrupted
         /\ [r EXCEPT !.timed_out = b] \in
              [interruptible : BOOLEAN, interrupted : BOOLEAN, timed_out : BOOLEAN]
         /\ [r EXCEPT !.timed_out = b].timed_out = b
         /\ [r EXCEPT !.timed_out = b].interrupted = r.interrupted
OBVIOUS
\* A blocked task is made ready, its deadline and what it waited for dropped.
LEMMA WokenLists ==
  ASSUME FullInv, NEW t \in Task, state[t] = "blocked",
         state' = [state EXCEPT ![t] = "ready"], rq' = ready_push(rq, t, prio[t]),
         deadline' = [deadline EXCEPT ![t] = None],
         n_timed_blocked' = n_timed_blocked - (IF deadline[t] = None THEN 0 ELSE 1),
         waiting' = [waiting EXCEPT ![t] = NoPid],
         UNCHANGED <<current, slice_ticks, prio, wake_tick, n_sleeping>>
  PROVE  /\ ListsInv(rq, state, prio, current)' /\ slice_ticks' \in 0 .. Quantum - 1
         /\ CountInv' /\ prio' = prio
         /\ state'[t] = "ready" /\ \A u \in Task \ {t} : state'[u] = state[u]
<1>1. /\ state' \in [Task -> TaskState] /\ state'[t] = "ready"
      /\ \A u \in Task \ {t} : state'[u] = state[u]
  BY DEF FullInv, ListsInv, TaskState
<1>2. In(state', "ready") = In(state, "ready") \cup {t} /\ t \in Task \ In(state, "ready")
  BY <1>1 DEF In
<1>3. /\ rq \in RqType /\ prio \in [Task -> Level] /\ In(state, "ready") \in SUBSET Task
      /\ Lists(rq.q, In(state, "ready"), prio)
  BY DEF FullInv, ListsInv, In
<1>4. rq' \in RqType /\ Lists(rq'.q, In(state', "ready"), prio)
  BY <1>2, <1>3, Push
<1>5. ListsInv(rq, state, prio, current)' /\ slice_ticks' \in 0 .. Quantum - 1
  BY <1>1, <1>4 DEF FullInv, ListsInv
<1>6. CountInv'
  <2>1. \A u \in Task \ {t} : waiting'[u] = waiting[u]
    BY DEF FullInv, WaitInv, WaitType
  <2> QED
    BY <1>1, <2>1, DisarmCount DEF FullInv
<1> QED
  BY <1>1, <1>5, <1>6

LEMMA WakeStep ==
  ASSUME FullInv, NEW t \in Task, task_wakeup(t)
  PROVE  FullInv'
<1>1. /\ ListsInv(rq, state, prio, current)' /\ slice_ticks' \in 0 .. Quantum - 1
      /\ CountInv' /\ prio' = prio
      /\ state'[t] = "ready" /\ \A u \in Task \ {t} : state'[u] = state[u]
  BY WokenLists DEF task_wakeup
<1>2. /\ pc' \in [Task \cup {Idle} -> {"user", "kernel", "until", "empty", "hlt"}]
      /\ \A u \in Task : pc'[u] = pc[u]
  BY IrqKeeps DEF task_wakeup, FullInv, WaitInv
<1>3. /\ WaitType' /\ result' = result /\ waiting'[t] = NoPid
      /\ cause'[t] = IF pc[t] = "until" THEN "wake" ELSE cause[t]
      /\ \A u \in Task \ {t} : waiting'[u] = waiting[u] /\ cause'[u] = cause[u]
  BY <1>2 DEF task_wakeup, FullInv, WaitInv, WaitType
<1>4. \A u \in Task \ {t} : WaitAt(u)'
  BY <1>1, <1>2, <1>3, WaitOther DEF FullInv, WaitInv
<1>5. WaitAt(t)'
  BY <1>1, <1>2, <1>3, SMTT(30) DEF task_wakeup, FullInv, WaitInv, WaitAt, UntilResult, NoPid, Task
<1> QED
  BY <1>1, <1>3, <1>4, <1>5 DEF FullInv, WaitInv

LEMMA InterruptStep ==
  ASSUME FullInv, NEW t \in Task, task_interrupt(t)
  PROVE  FullInv'
<1>1. /\ ListsInv(rq, state, prio, current)' /\ slice_ticks' \in 0 .. Quantum - 1
      /\ CountInv' /\ prio' = prio
      /\ state'[t] = "ready" /\ \A u \in Task \ {t} : state'[u] = state[u]
  BY WokenLists DEF task_interrupt
<1>2. /\ pc' \in [Task \cup {Idle} -> {"user", "kernel", "until", "empty", "hlt"}]
      /\ \A u \in Task : pc'[u] = pc[u]
  BY IrqKeeps DEF task_interrupt, FullInv, WaitInv
<1>3. PICK n \in [interruptible : BOOLEAN, interrupted : BOOLEAN, timed_out : BOOLEAN] :
        n = [result[t] EXCEPT !.interrupted = TRUE] /\ n.interrupted
  <2>1. result[t] \in [interruptible : BOOLEAN, interrupted : BOOLEAN, timed_out : BOOLEAN]
    BY DEF FullInv, WaitInv, WaitType
  <2> QED
    BY <2>1, FlagSet
<1>4. result' = [result EXCEPT ![t] = n]
  BY <1>3 DEF task_interrupt
<1>5. /\ WaitType' /\ waiting'[t] = NoPid /\ cause'[t] = "signal" /\ result'[t] = n
      /\ \A u \in Task \ {t} : /\ waiting'[u] = waiting[u] /\ cause'[u] = cause[u]
                               /\ result'[u] = result[u]
  <2>1. waiting' = [waiting EXCEPT ![t] = NoPid] /\ cause' = [cause EXCEPT ![t] = "signal"]
    BY DEF task_interrupt
  <2> QED
    BY <1>2, <1>4, <2>1 DEF FullInv, WaitInv, WaitType
<1>6. \A u \in Task \ {t} : WaitAt(u)'
  BY <1>1, <1>2, <1>5, WaitOther DEF FullInv, WaitInv
<1>7. WaitAt(t)'
  BY <1>1, <1>3, <1>5, SMTT(30) DEF WaitAt, UntilResult, NoPid, Task
<1> QED
  BY <1>1, <1>5, <1>6, <1>7 DEF FullInv, WaitInv

LEMMA SetPriorityStep ==
  ASSUME FullInv, NEW t \in Task, NEW p \in Moves, sched_set_priority(t, p)
  PROVE  FullInv'
<1>1. /\ UNCHANGED <<current, slice_ticks, state, pc, timers, waiting, result, cause>>
      /\ prio' = [prio EXCEPT ![t] = p]
  BY DEF sched_set_priority
<1>2. /\ rq \in RqType /\ prio \in [Task -> Level] /\ p \in Level
      /\ In(state, "ready") \in SUBSET Task /\ Lists(rq.q, In(state, "ready"), prio)
  BY SchedAssumption DEF FullInv, ListsInv, In
<1>3. /\ prio' \in [Task -> Level] /\ prio'[t] = p
      /\ \A u \in Task \ {t} : prio'[u] = prio[u]
  BY <1>1, <1>2
<1>4. rq' \in RqType /\ Lists(rq'.q, In(state, "ready"), prio')
  <2>1. CASE state[t] = "ready"
    <3> DEFINE R == In(state, "ready") \ {t}
    <3>1. PICK r \in RqType : r = ready_remove(rq, t) /\ Lists(r.q, R, prio)
      BY <1>2, Remove
    <3>2. Lists(r.q, R, prio')
      BY <1>3, <3>1, Relevel DEF In
    <3>3. rq' = ready_push(r, t, prio'[t])
      BY <1>3, <2>1, <3>1 DEF sched_set_priority
    <3>4. R \in SUBSET Task /\ t \in Task \ R /\ R \cup {t} = In(state, "ready")
      BY <2>1 DEF In
    <3> HIDE DEF R
    <3>5. rq' \in RqType /\ Lists(rq'.q, R \cup {t}, prio')
      BY <1>3, <3>2, <3>3, <3>4, Push
    <3> QED
      BY <3>4, <3>5
  <2>2. CASE state[t] # "ready"
    <3>1. rq' = rq /\ t \notin In(state, "ready")
      BY <2>2 DEF sched_set_priority, In
    <3>2. \A u \in In(state, "ready") : prio[u] = prio'[u]
      BY <1>3, <3>1 DEF In
    <3> QED
      BY <1>2, <3>1, <3>2, Relevel
  <2> QED
    BY <2>1, <2>2
<1>5. ListsInv(rq, state, prio, current)' /\ slice_ticks' \in 0 .. Quantum - 1
  BY <1>1, <1>3, <1>4 DEF FullInv, ListsInv
<1>6. CountInv'
  BY <1>1, CountKept DEF FullInv
<1>7. WaitInv'
  BY <1>1, <1>3, WaitKept DEF sched_set_priority, FullInv, WaitInv, WaitType
<1> QED
  BY <1>5, <1>6, <1>7 DEF FullInv

\* mark_task_exited: the deadline counter, and what the tasks that waited for
\* the victim are left with.
LEMMA ExitedWaits ==
  ASSUME FullInv, NEW t \in Task, Exited(t), UNCHANGED <<prio, pc, result>>,
         state'[t] = "zombie",
         \A u \in Task \ {t} :
           \/ state'[u] = AfterExit(t)[u]
           \/ AfterExit(t)[u] = "ready" /\ state'[u] = "running"
  PROVE  WaitInv'
<1>1. /\ waiting' = [w \in Task |-> IF w \in Waiters(t) THEN NoPid ELSE waiting[w]]
      /\ cause' = cause
  BY DEF Exited
<1>2. WaitType'
  BY <1>1 DEF FullInv, WaitInv, WaitType
<1>3. WaitAt(t)'
  <2>1. waiting'[t] # t
    BY <1>1, SMTT(30) DEF FullInv, WaitInv, WaitAt, NoPid, Task
  <2> QED
    BY <2>1 DEF WaitAt
<1>4. ASSUME NEW u \in Task \ {t} PROVE WaitAt(u)'
  <2>1. CASE u \in Waiters(t)
    <3>1. pc[u] # "until" /\ waiting'[u] = NoPid /\ state'[u] \in {"ready", "running"}
      BY <1>1, <2>1, SMTT(60) DEF FullInv, WaitInv, WaitAt, Waiters, AfterExit, NoPid, Task
    <3> QED
      BY <3>1, SMTT(30) DEF WaitAt, NoPid, Task
  <2>2. CASE u \notin Waiters(t)
    <3>1. waiting'[u] = waiting[u] /\ AfterExit(t)[u] = state[u]
      BY <1>1, <2>2 DEF AfterExit
    <3> QED
      BY <1>1, <3>1, WaitOther DEF FullInv, WaitInv
  <2> QED
    BY <2>1, <2>2
<1> QED
  BY <1>2, <1>3, <1>4 DEF WaitInv

\* The victim off the lists, the tasks that waited for it on them.
LEMMA ExitedLists ==
  ASSUME FullInv, NEW t \in Task, state[t] # "unused",
         NEW r \in RqType, Lists(r.q, In(state, "ready") \ {t}, prio)
  PROVE  /\ PushAll(r, Waiters(t)) \in RqType
         /\ AfterExit(t) \in [Task -> TaskState] /\ AfterExit(t)[t] = "zombie"
         /\ Lists(PushAll(r, Waiters(t)).q, In(AfterExit(t), "ready"), prio)
<1> DEFINE R == In(state, "ready") \ {t}
<1>1. /\ prio \in [Task -> Level] /\ state \in [Task -> TaskState]
      /\ R \in SUBSET Task /\ Waiters(t) \in SUBSET Task /\ Waiters(t) \cap R = {}
  BY DEF FullInv, ListsInv, In, Waiters
<1>2. t \notin Waiters(t)
  BY DEF FullInv, WaitInv, WaitAt, Waiters
<1>3. AfterExit(t) \in [Task -> TaskState] /\ AfterExit(t)[t] = "zombie"
  BY <1>1 DEF AfterExit, TaskState
<1>4. In(AfterExit(t), "ready") = R \cup Waiters(t)
  BY <1>1, <1>2 DEF In, AfterExit
<1> QED
  BY <1>1, <1>3, <1>4, PushMany

LEMMA ExitStep ==
  ASSUME FullInv, NEW t \in Task, task_exit(t)
  PROVE  FullInv'
<1>1. state[t] = "running" /\ deadline[t] = None /\ \A u \in Task \ {t} : state[u] # "running"
  BY Runs DEF task_exit, InKernel
<1>2. PICK r \in RqType : r = PushAll(rq, Waiters(t)) /\ Lists(r.q, In(AfterExit(t), "ready"), prio)
  <2>1. rq \in RqType /\ Lists(rq.q, In(state, "ready") \ {t}, prio)
    <3>1. In(state, "ready") \ {t} = In(state, "ready")
      BY <1>1 DEF In
    <3> QED
      BY <3>1 DEF FullInv, ListsInv
  <2> QED
    BY <1>1, <2>1, ExitedLists
<1>3. PICK st \in [Task -> TaskState] :
        /\ st = AfterExit(t) /\ st[t] = "zombie" /\ \A u \in Task : st[u] # "running"
  <2>1. AfterExit(t) \in [Task -> TaskState]
    BY DEF AfterExit, TaskState, FullInv, ListsInv
  <2> QED
    BY <1>1, <2>1 DEF AfterExit
<1>4. /\ ListsInv(rq', state', prio, current')
      /\ \A u \in Task : \/ state'[u] = st[u]
                         \/ st[u] = "ready" /\ state'[u] = "running"
  <2>1. Switch(r, st) /\ prio \in [Task -> Level] /\ Lists(r.q, In(st, "ready"), prio)
    BY <1>2, <1>3 DEF task_exit, FullInv, ListsInv
  <2> QED
    BY <1>3, <2>1, SwitchTo
<1>5. ListsInv(rq, state, prio, current)' /\ slice_ticks' \in 0 .. Quantum - 1
  BY <1>4, SchedAssumption, SMTT(30) DEF task_exit
<1>6. CountInv'
  <2>1. ASSUME NEW u \in Task
        PROVE  /\ state'[u] = "sleeping" <=> state[u] = "sleeping"
               /\ u # t /\ state[u] = "blocked" /\ deadline[u] # None /\ waiting[u] = NoPid
                    => state'[u] = "blocked" /\ waiting'[u] = NoPid
    BY <1>1, <1>3, <1>4, SMTT(30) DEF AfterExit, Waiters, Exited, task_exit, NoPid, Task
  <2> QED
    BY <2>1, DisarmCount DEF FullInv, task_exit, Exited
<1>7. WaitInv'
  BY <1>3, <1>4, ExitedWaits DEF task_exit
<1> QED
  BY <1>5, <1>6, <1>7 DEF FullInv

LEMMA KillStep ==
  ASSUME FullInv, NEW t \in Task, task_kill(t)
  PROVE  FullInv'
<1>1. /\ current \in Task \ {t} /\ state[t] \in {"ready", "blocked", "sleeping"}
      /\ UNCHANGED <<current, slice_ticks, prio, pc, wake_tick, result>>
      /\ state' = AfterExit(t) /\ Exited(t)
      /\ n_sleeping' = n_sleeping - (IF state[t] = "sleeping" THEN 1 ELSE 0)
  BY DEF task_kill
<1>2. PICK r \in RqType : r = ready_remove(rq, t) /\ Lists(r.q, In(state, "ready") \ {t}, prio)
  BY Remove DEF FullInv, ListsInv, In
<1>3. rq' = PushAll(r, Waiters(t))
  BY <1>2 DEF task_kill
<1>4. /\ rq' \in RqType /\ state' \in [Task -> TaskState] /\ state'[t] = "zombie"
      /\ Lists(rq'.q, In(state', "ready"), prio)
  BY <1>1, <1>2, <1>3, ExitedLists
<1>5. \A u \in Task : state'[u] = "running" <=> u = current
  BY <1>1 DEF AfterExit, Waiters, FullInv, ListsInv
<1>6. ListsInv(rq, state, prio, current)' /\ slice_ticks' \in 0 .. Quantum - 1
  BY <1>1, <1>4, <1>5 DEF FullInv, ListsInv
<1>7. CountInv'
  <2> DEFINE D == {u \in Task : deadline[u] # None}
             E == {u \in Task : deadline'[u] # None}
             S == In(state, "sleeping")
  <2>1. IsFiniteSet(D) /\ Cardinality(D) \in Nat /\ IsFiniteSet(S) /\ Cardinality(S) \in Nat
    BY Countable DEF In
  <2>2. /\ deadline' \in [Task -> Waits \cup {None}]
        /\ \A u \in Task : deadline'[u] = IF u = t THEN None ELSE deadline[u]
    BY <1>1 DEF FullInv, CountInv, Exited
  <2>3. In(state', "sleeping") = S \ {t} /\ E = D \ {t}
    <3>1. In(state', "sleeping") = S \ {t}
      BY <1>1 DEF In, AfterExit, Waiters
    <3> QED
      BY <2>2, <3>1
  <2>4. /\ Cardinality(In(state', "sleeping")) = IF t \in S THEN Cardinality(S) - 1 ELSE Cardinality(S)
        /\ Cardinality(E) = IF t \in D THEN Cardinality(D) - 1 ELSE Cardinality(D)
    BY <2>1, <2>3, FS_RemoveElement
  <2>5. n_sleeping' = Cardinality(In(state', "sleeping"))
    <3>1. t \in S <=> state[t] = "sleeping"
      BY DEF In
    <3> QED
      <4>1. n_sleeping = Cardinality(S)
        BY DEF FullInv, CountInv
      <4> HIDE DEF S, D, E
      <4> QED
        BY <1>1, <2>1, <2>4, <3>1, <4>1, SMTT(30)
  <2>6. n_timed_blocked' = Cardinality(E)
    <3>1. n_timed_blocked = Cardinality(D)
      BY DEF FullInv, CountInv
    <3>2. n_timed_blocked' = n_timed_blocked - (IF t \in D THEN 1 ELSE 0)
      BY <1>1 DEF Exited
    <3> HIDE DEF S, D, E
    <3> QED
      BY <2>1, <2>4, <3>1, <3>2, SMTT(30)
  <2>7. ASSUME NEW u \in Task, deadline'[u] # None
        PROVE  state'[u] = "blocked" /\ waiting'[u] = NoPid
    BY <1>1, <2>2, <2>7, SMTT(30) DEF FullInv, CountInv, AfterExit, Waiters, Exited, NoPid, Task
  <2> QED
    BY <1>1, <2>2, <2>5, <2>6, <2>7 DEF FullInv, CountInv
<1>8. WaitInv'
  BY <1>1, <1>4, ExitedWaits
<1> QED
  BY <1>6, <1>7, <1>8 DEF FullInv

LEMMA ReapStep ==
  ASSUME FullInv, NEW t \in Task, task_reap(t)
  PROVE  FullInv'
<1>1. /\ state[t] = "zombie" /\ UNCHANGED <<cpu, n_sleeping, n_timed_blocked>>
      /\ state' = [state EXCEPT ![t] = "unused"] /\ prio' = [prio EXCEPT ![t] = NORMAL]
      /\ pc' = [pc EXCEPT ![t] = "user"] /\ wake_tick' = [wake_tick EXCEPT ![t] = 0]
      /\ deadline' = [deadline EXCEPT ![t] = None] /\ waiting' = [waiting EXCEPT ![t] = NoPid]
      /\ result' = [result EXCEPT ![t] = NoWait] /\ cause' = [cause EXCEPT ![t] = "none"]
  BY DEF task_reap
<1>2. /\ state' \in [Task -> TaskState] /\ state'[t] = "unused"
      /\ \A u \in Task \ {t} : state'[u] = state[u]
      /\ prio' \in [Task -> Level] /\ \A u \in Task \ {t} : prio'[u] = prio[u]
  BY <1>1 DEF FullInv, ListsInv, TaskState, Level, NORMAL
<1>3. \A s \in TaskState \ {"unused", "zombie"} : In(state', s) = In(state, s)
  BY <1>1, <1>2 DEF In
<1>4. ListsInv(rq, state, prio, current)' /\ slice_ticks' \in 0 .. Quantum - 1
  <2>1. In(state', "ready") = In(state, "ready")
    BY <1>3 DEF TaskState
  <2>2. \A u \in In(state, "ready") : prio[u] = prio'[u]
    BY <1>1, <1>2 DEF In
  <2>3. Lists(rq.q, In(state, "ready"), prio')
    BY <2>2, Relevel DEF FullInv, ListsInv, In
  <2>4. \A u \in Task : state'[u] = "running" <=> u = current
    BY <1>1, <1>2 DEF FullInv, ListsInv
  <2> QED
    BY <1>1, <1>2, <2>1, <2>3, <2>4 DEF FullInv, ListsInv, cpu
<1>5. CountInv'
  <2>1. In(state', "sleeping") = In(state, "sleeping")
    BY <1>3 DEF TaskState
  <2>2. deadline' = deadline
    BY <1>1 DEF FullInv, CountInv
  <2>3. wake_tick' \in [Task -> Waits]
    BY <1>1, SchedAssumption, SMTT(30) DEF FullInv, CountInv, Waits
  <2>4. ASSUME NEW u \in Task, deadline[u] # None
        PROVE  state'[u] = "blocked" /\ waiting'[u] = NoPid
    BY <1>1, <1>2, <2>4 DEF FullInv, CountInv, WaitInv, WaitType
  <2> QED
    BY <1>1, <2>1, <2>2, <2>3, <2>4 DEF FullInv, CountInv
<1>6. NoWait \in [interruptible : BOOLEAN, interrupted : BOOLEAN, timed_out : BOOLEAN]
  BY DEF NoWait
<1>7. /\ WaitType' /\ pc'[t] = "user" /\ waiting'[t] = NoPid
      /\ \A u \in Task \ {t} : /\ pc'[u] = pc[u] /\ waiting'[u] = waiting[u]
                               /\ result'[u] = result[u] /\ cause'[u] = cause[u]
  BY <1>1, <1>6 DEF FullInv, WaitInv, WaitType
<1>8. \A u \in Task \ {t} : WaitAt(u)'
  BY <1>2, <1>7, WaitOther DEF FullInv, WaitInv
<1>9. WaitAt(t)'
  BY <1>1, <1>2, <1>7, SMTT(30) DEF WaitAt, NoPid, Task, FullInv, ListsInv
<1> QED
  BY <1>4, <1>5, <1>7, <1>8, <1>9 DEF FullInv, WaitInv

LEMMA SpawnStep ==
  ASSUME FullInv, NEW t \in Task, task_spawn(t)
  PROVE  FullInv'
<1>1. /\ state[t] = "unused" /\ state' = [state EXCEPT ![t] = "ready"]
      /\ rq' = ready_push(rq, t, prio[t])
      /\ UNCHANGED <<current, slice_ticks, prio, timers, waiting, result, cause>>
  BY DEF task_spawn, FullInv, WaitInv, WaitAt
<1>2. /\ state' \in [Task -> TaskState] /\ state'[t] = "ready"
      /\ \A u \in Task \ {t} : state'[u] = state[u]
  BY <1>1 DEF FullInv, ListsInv, TaskState
<1>3. In(state', "ready") = In(state, "ready") \cup {t} /\ t \in Task \ In(state, "ready")
  BY <1>1, <1>2 DEF In
<1>4. /\ rq \in RqType /\ prio \in [Task -> Level] /\ In(state, "ready") \in SUBSET Task
      /\ Lists(rq.q, In(state, "ready"), prio)
  BY DEF FullInv, ListsInv, In
<1>5. rq' \in RqType /\ Lists(rq'.q, In(state', "ready"), prio)
  BY <1>1, <1>3, <1>4, Push
<1>6. \A u \in Task : state'[u] = "running" <=> u = current
  BY <1>1, <1>2 DEF FullInv, ListsInv
<1>7. ListsInv(rq, state, prio, current)' /\ slice_ticks' \in 0 .. Quantum - 1
  BY <1>1, <1>2, <1>5, <1>6 DEF FullInv, ListsInv
<1>8. CountInv'
  BY <1>1, <1>2, CountKept DEF FullInv
<1>9. /\ pc' \in [Task \cup {Idle} -> {"user", "kernel", "until", "empty", "hlt"}]
      /\ \A u \in Task : pc'[u] = pc[u]
  BY IrqKeeps DEF task_spawn, FullInv, WaitInv
<1>10. WaitInv'
  <2>1. WaitType'
    BY <1>1, <1>9 DEF FullInv, WaitInv, WaitType
  <2>2. \A u \in Task \ {t} : WaitAt(u)'
    BY <1>1, <1>2, <1>9, WaitOther DEF FullInv, WaitInv
  <2>3. WaitAt(t)'
    BY <1>1, <1>2, <1>9 DEF WaitAt, FullInv, WaitInv
  <2> QED
    BY <2>1, <2>2, <2>3 DEF WaitInv
<1> QED
  BY <1>7, <1>8, <1>10 DEF FullInv

-----------------------------------------------------------------------------
\* sched_wake_sleepers may skip its walk: with both counters zero there is
\* nobody asleep and no deadline armed.
LEMMA WalkSkipped ==
  ASSUME FullInv
  PROVE  /\ Rested = {t \in Task : state[t] = "sleeping" /\ Ticked(wake_tick[t]) = 0}
         /\ Late = {t \in Task : state[t] = "blocked" /\ Ticked(deadline[t]) = 0}
<1>1. CASE Walks
  BY <1>1 DEF Rested, Late
<1>2. CASE ~Walks
  <2>1. In(state, "sleeping") = {} /\ {t \in Task : deadline[t] # None} = {}
    <3>1. n_sleeping = 0 /\ n_timed_blocked = 0
      BY <1>2 DEF Walks
    <3>2. \A S \in SUBSET Task : Cardinality(S) = 0 => S = {}
      BY Countable, FS_EmptySet
    <3> QED
      BY <3>1, <3>2 DEF FullInv, CountInv, In
  <2>2. \A t \in Task : state[t] # "sleeping" /\ Ticked(deadline[t]) # 0
    BY <2>1, SMTT(30) DEF In, Ticked, None
  <2> QED
    BY <1>2, <2>2 DEF Rested, Late
<1> QED
  BY <1>1, <1>2

LEMMA TickWaits ==
  ASSUME FullInv
  PROVE  /\ \A n \in Waits : Ticked(n) \in Waits
         /\ Ticked(None) = None
         /\ Late \in SUBSET {t \in Task : deadline[t] # None}
         /\ Late \in SUBSET In(state, "blocked") /\ Rested \in SUBSET In(state, "sleeping")
<1>1. \A n \in Waits : Ticked(n) \in Waits
  BY SchedAssumption, SMTT(30) DEF Waits, Ticked
<1>2. Ticked(None) = None /\ None # 0
  BY SMTT(30) DEF Ticked, None
<1> QED
  BY <1>1, <1>2 DEF Late, Rested, In

\* What the tick does to lists and states: the tasks that are due become
\* ready, then the CPU may change hands.
LEMMA TimerStates ==
  ASSUME FullInv, timer_irq
  PROVE  /\ ListsInv(rq', state', prio, current') /\ slice_ticks' \in 0 .. Quantum - 1
         /\ \A t \in Rested \cup Late : state'[t] \in {"ready", "running"}
         /\ \A t \in Task \ (Rested \cup Late) :
              \/ state'[t] = state[t]
              \/ state[t] \in {"ready", "running"} /\ state'[t] \in {"ready", "running"}
<1> DEFINE woken == Rested \cup Late
           r == PushAll(rq, woken)
           st == [t \in Task |-> IF t \in woken THEN "ready" ELSE state[t]]
<1>1. /\ Late \in SUBSET Task /\ Rested \in SUBSET Task
      /\ \A t \in Late : state[t] = "blocked" /\ deadline[t] # None
      /\ \A t \in Rested : state[t] = "sleeping"
  BY TickWaits DEF In
<1>2. st \in [Task -> TaskState] /\ In(st, "ready") = In(state, "ready") \cup woken
  BY <1>1 DEF In, FullInv, ListsInv, TaskState
<1>3. ListsInv(r, st, prio, current)
  <2>1. /\ rq \in RqType /\ prio \in [Task -> Level] /\ In(state, "ready") \in SUBSET Task
        /\ Lists(rq.q, In(state, "ready"), prio) /\ woken \in SUBSET Task
        /\ woken \cap In(state, "ready") = {}
    BY <1>1 DEF FullInv, ListsInv, In
  <2>2. r \in RqType /\ Lists(r.q, In(state, "ready") \cup woken, prio)
    BY <2>1, PushMany
  <2>3. \A t \in Task : st[t] = "running" <=> t = current
    BY <1>1 DEF FullInv, ListsInv
  <2> QED
    BY <1>2, <2>1, <2>2, <2>3 DEF FullInv, ListsInv
<1>4. /\ \/ Yield(r, st)
         \/ rq' = r /\ state' = st /\ UNCHANGED current
      /\ slice_ticks' \in 0 .. Quantum - 1
  BY SchedAssumption, SMTT(30) DEF timer_irq, sched_preempt_tick, sched_reschedule_done, FullInv
<1>5. /\ ListsInv(rq', state', prio, current')
      /\ \A t \in Task : \/ state'[t] = st[t]
                         \/ st[t] \in {"ready", "running"} /\ state'[t] \in {"ready", "running"}
  <2> HIDE DEF r, st
  <2>1. CASE Yield(r, st)
    BY <1>3, <2>1, Yielded
  <2>2. CASE rq' = r /\ state' = st /\ UNCHANGED current
    BY <1>3, <2>2
  <2> QED
    BY <1>4, <2>1, <2>2
<1> QED
  BY <1>1, <1>4, <1>5

LEMMA TimerStep ==
  ASSUME FullInv, timer_irq
  PROVE  FullInv'
<1>1. /\ Late \in SUBSET Task /\ Rested \in SUBSET Task
      /\ \A t \in Late : state[t] = "blocked" /\ deadline[t] # None
      /\ \A t \in Rested : state[t] = "sleeping"
  BY TickWaits DEF In
<1>2. ListsInv(rq', state', prio, current') /\ slice_ticks' \in 0 .. Quantum - 1
  BY TimerStates
<1>3. /\ \A t \in Rested \cup Late : state'[t] \in {"ready", "running"}
      /\ \A t \in Task \ (Rested \cup Late) :
           \/ state'[t] = state[t]
           \/ state[t] \in {"ready", "running"} /\ state'[t] \in {"ready", "running"}
  BY TimerStates
<1>4. sched_wake_sleepers /\ pc' = IrqPc /\ prio' = prio
  BY DEF timer_irq
<1>5. CountInv'
  <2> DEFINE D == {t \in Task : deadline[t] # None}
             S == In(state, "sleeping")
             E == {t \in Task : deadline'[t] # None}
  <2>1. /\ IsFiniteSet(D) /\ IsFiniteSet(S) /\ Late \in SUBSET D /\ Rested \in SUBSET S
        /\ IsFiniteSet(Late) /\ IsFiniteSet(Rested)
    BY <1>1, Countable, TickWaits DEF In
  <2>2. /\ deadline' \in [Task -> Waits \cup {None}] /\ wake_tick' \in [Task -> Waits]
        /\ \A t \in Task : deadline'[t] # None <=> t \in D \ Late
    <3>1. \A n \in Waits : Ticked(n) \in Waits /\ Ticked(n) # None /\ n # None
      BY TickWaits, SMTT(30) DEF Waits, None
    <3> QED
      BY <1>4, <3>1, TickWaits DEF FullInv, CountInv, sched_wake_sleepers
  <2>3. E = D \ Late
    BY <2>2
  <2>4. In(state', "sleeping") = S \ Rested
    BY <1>1, <1>3 DEF In
  <2>5. /\ Cardinality(D \ Late) = Cardinality(D) - Cardinality(D \cap Late)
        /\ Cardinality(S \ Rested) = Cardinality(S) - Cardinality(S \cap Rested)
    BY <2>1, FS_Difference
  <2>6. D \cap Late = Late /\ S \cap Rested = Rested
    BY <2>1
  <2>7. /\ n_sleeping' = Cardinality(In(state', "sleeping"))
        /\ n_timed_blocked' = Cardinality(E)
    BY <1>4, <2>3, <2>4, <2>5, <2>6 DEF FullInv, CountInv, sched_wake_sleepers
  <2>8. ASSUME NEW t \in Task, deadline'[t] # None
        PROVE  state'[t] = "blocked" /\ waiting'[t] = NoPid
    <3>1. t \in D \ Late
      BY <2>2, <2>8
    <3>2. state[t] = "blocked" /\ waiting[t] = NoPid
      BY <3>1 DEF FullInv, CountInv
    <3> QED
      BY <1>1, <1>3, <1>4, <3>1, <3>2 DEF sched_wake_sleepers
  <2> QED
    BY <2>2, <2>7, <2>8 DEF CountInv
<1>6. WaitInv'
  <2>1. /\ pc' \in [Task \cup {Idle} -> {"user", "kernel", "until", "empty", "hlt"}]
        /\ \A u \in Task : pc'[u] = pc[u]
    BY <1>4, IrqKeeps DEF FullInv, WaitInv
  <2>2. /\ \A t \in Task : result'[t] \in [interruptible : BOOLEAN, interrupted : BOOLEAN, timed_out : BOOLEAN]
        /\ \A t \in Task : result'[t].interrupted = result[t].interrupted
        /\ \A t \in Late : result'[t].timed_out
        /\ \A t \in Task \ Late : result'[t] = result[t]
    <3>1. ASSUME NEW t \in Task
          PROVE  /\ result'[t] \in [interruptible : BOOLEAN, interrupted : BOOLEAN, timed_out : BOOLEAN]
                 /\ result'[t].interrupted = result[t].interrupted
                 /\ result'[t].timed_out = (result[t].timed_out \/ t \in Late)
                 /\ t \notin Late => result'[t] = result[t]
      <4>1. PICK o \in [interruptible : BOOLEAN, interrupted : BOOLEAN, timed_out : BOOLEAN] : o = result[t]
        BY DEF FullInv, WaitInv, WaitType
      <4>2. PICK b \in BOOLEAN : b = (o.timed_out \/ t \in Late)
        OBVIOUS
      <4>3. result'[t] = [o EXCEPT !.timed_out = b]
        BY <1>4, <4>1, <4>2 DEF sched_wake_sleepers
      <4>4. t \notin Late => [o EXCEPT !.timed_out = b] = o
        BY <4>2
      <4>5. /\ [o EXCEPT !.timed_out = b] \in [interruptible : BOOLEAN, interrupted : BOOLEAN, timed_out : BOOLEAN]
            /\ [o EXCEPT !.timed_out = b].timed_out = b
            /\ [o EXCEPT !.timed_out = b].interrupted = o.interrupted
        BY FlagSet
      <4> QED
        BY <4>1, <4>2, <4>3, <4>4, <4>5
    <3> QED
      BY <1>1, <3>1
  <2>3. WaitType'
    <3>1. result' \in [Task -> [interruptible : BOOLEAN, interrupted : BOOLEAN, timed_out : BOOLEAN]]
      BY <1>4, <2>2 DEF sched_wake_sleepers
    <3>2. /\ waiting' \in [Task -> Task \cup {NoPid}]
          /\ cause' \in [Task -> {"none", "wake", "signal", "timeout"}]
      BY <1>4 DEF sched_wake_sleepers, FullInv, WaitInv, WaitType
    <3> QED
      BY <2>1, <3>1, <3>2 DEF WaitType
  <2>4. ASSUME NEW u \in Late PROVE WaitAt(u)'
    <3>1. u \in Task /\ waiting'[u] = NoPid /\ cause'[u] = "timeout" /\ state'[u] \in {"ready", "running"}
      BY <1>1, <1>3, <1>4 DEF sched_wake_sleepers
    <3>2. pc[u] = "until" => ~result[u].interrupted
      BY <1>1 DEF FullInv, WaitInv, WaitAt
    <3> QED
      BY <2>1, <2>2, <3>1, <3>2, SMTT(30) DEF WaitAt, UntilResult, NoPid, Task
  <2>5. ASSUME NEW u \in Task \ Late PROVE WaitAt(u)'
    <3>1. waiting'[u] = waiting[u] /\ cause'[u] = cause[u] /\ result'[u] = result[u] /\ pc'[u] = pc[u]
      BY <1>4, <2>1, <2>2 DEF sched_wake_sleepers
    <3>2. CASE u \in Rested
      <4>1. state[u] = "sleeping" /\ state'[u] \in {"ready", "running"} /\ WaitAt(u)
        BY <1>1, <1>3, <3>2 DEF FullInv, WaitInv
      <4> QED
        BY <3>1, <4>1 DEF WaitAt
    <3>3. CASE u \notin Rested
      BY <1>3, <1>4, <3>1, <3>3, WaitOther DEF FullInv, WaitInv
    <3> QED
      BY <3>2, <3>3
  <2> QED
    BY <2>3, <2>4, <2>5 DEF WaitInv
<1> QED
  BY <1>2, <1>4, <1>5, <1>6 DEF FullInv

-----------------------------------------------------------------------------
LEMMA FullStep == FullInv /\ [Next]_vars => FullInv'
<1> SUFFICES ASSUME FullInv, [Next]_vars PROVE FullInv'
  OBVIOUS
<1>1. CASE timer_irq
  BY <1>1, TimerStep
<1>2. CASE idle_thread
  BY <1>2, YieldStep
<1>3. CASE idle_hlt
  BY <1>3, PlainStep
<1>4. ASSUME NEW t \in Task, enter_kernel(t) \/ task_block_until_return(t)
      PROVE  FullInv'
  BY <1>4, PlainStep
<1>5. ASSUME NEW t \in Task, KernelExit(t) PROVE FullInv'
  <2>1. CASE return_to_user(t)
    BY <2>1, PlainStep
  <2>2. CASE task_yield(t)
    BY <2>2, YieldStep
  <2>3. CASE task_exit(t)
    BY <2>3, ExitStep
  <2>4. CASE \E w \in Task \cup {NoPid} : task_block(t, w)
    BY <2>4, BlockStep
  <2>5. CASE \E d \in Waits \cup {None} : task_block_until(t, d)
    BY <2>5, BlockUntilStep
  <2>6. CASE \E n \in Waits \ {0} : task_sleep_ticks(t, n)
    BY <2>6, SleepStep
  <2> QED
    BY <1>5, <2>1, <2>2, <2>3, <2>4, <2>5, <2>6 DEF KernelExit
<1>6. ASSUME NEW t \in Task, task_wakeup(t) PROVE FullInv'
  BY <1>6, WakeStep
<1>7. ASSUME NEW t \in Task, task_interrupt(t) PROVE FullInv'
  BY <1>7, InterruptStep
<1>8. ASSUME NEW t \in Task, task_kill(t) PROVE FullInv'
  BY <1>8, KillStep
<1>9. ASSUME NEW t \in Task, task_reap(t) PROVE FullInv'
  BY <1>9, ReapStep
<1>10. ASSUME NEW t \in Task, task_spawn(t) PROVE FullInv'
  BY <1>10, SpawnStep
<1>11. ASSUME NEW t \in Task, NEW p \in Moves, sched_set_priority(t, p) PROVE FullInv'
  BY <1>11, SetPriorityStep
<1>12. CASE UNCHANGED vars
  <2>1. ListsInv(rq, state, prio, current)' /\ slice_ticks' \in 0 .. Quantum - 1
    BY <1>12, SMTT(30) DEF vars, cpu, FullInv, ListsInv, In, Lists
  <2>2. CountInv'
    BY <1>12 DEF vars, timers, FullInv, CountInv, In
  <2>3. WaitInv'
    BY <1>12 DEF vars, FullInv, WaitInv, WaitType, WaitAt, UntilResult
  <2> QED
    BY <2>1, <2>2, <2>3 DEF FullInv
<1> QED
  BY <1>1, <1>2, <1>3, <1>4, <1>5, <1>6, <1>7, <1>8, <1>9, <1>10, <1>11, <1>12 DEF Next

\* The lists in the form the property gives them: how often a task is queued.
LEMMA QueuedOnce ==
  ASSUME FullInv, NEW t \in Task, NEW p \in Level
  PROVE  Cardinality({i \in DOMAIN rq.q[p] : rq.q[p][i] = t})
           = IF state[t] = "ready" /\ prio[t] = p THEN 1 ELSE 0
<1> DEFINE S == {i \in DOMAIN rq.q[p] : rq.q[p][i] = t}
<1>1. CASE state[t] = "ready" /\ prio[t] = p
  <2>1. PICK i \in DOMAIN rq.q[p] : rq.q[p][i] = t
    BY <1>1 DEF FullInv, ListsInv, Lists, In
  <2>2. S = {i}
    BY <2>1, SMTT(30) DEF FullInv, ListsInv, Lists
  <2> QED
    BY <1>1, <2>2, FS_Singleton
<1>2. CASE ~(state[t] = "ready" /\ prio[t] = p)
  <2>1. S = {}
    BY <1>2, SMTT(30) DEF FullInv, ListsInv, Lists, In
  <2> QED
    BY <1>2, <2>1, FS_EmptySet
<1> QED
  BY <1>1, <1>2

\* Whatever the order of calls, wake-ups, signals, kills and ticks, for any
\* number of tasks: exactly the current task is running, every ready task is
\* on the ready lists once and at its level, nobody else is, and the counters
\* that let sched_wake_sleepers skip its walk are exact.
THEOREM ListsAndCountersAgree == Spec => []SchedInv
<1>1. FullInv => SchedInv
  <2> SUFFICES ASSUME FullInv PROVE SchedInv
    OBVIOUS
  <2>1. TypeOK
    BY DEF FullInv, ListsInv, CountInv, TaskState, TypeOK
  <2>2. ListsMatchStates
    BY QueuedOnce DEF FullInv, ListsInv, ListsMatchStates
  <2>3. CountersAreExact
    BY DEF FullInv, CountInv, CountersAreExact, In
  <2> QED
    BY <2>1, <2>2, <2>3 DEF SchedInv
<1> QED
  BY <1>1, InitFull, FullStep, PTL DEF Spec

\* task_block_until tells its caller what really ended the wait, in every race
\* of a wake-up, a signal, the deadline and another task's exit.
THEOREM WaitReportsItsCause == Spec => []ResultNamesCause
<1>1. FullInv => ResultNamesCause
  BY DEF FullInv, WaitInv, WaitAt, ResultNamesCause
<1> QED
  BY <1>1, InitFull, FullStep, PTL DEF Spec

\* The tick leaves no sleeper and no deadline behind that is due, although
\* sched_wake_sleepers walks the table only when a counter is not zero.
THEOREM TickWakesAllDue == Spec => NobodyOversleeps
<1> DEFINE Due == timer_irq => \A t \in Task :
                    /\ state'[t] = "sleeping" => wake_tick'[t] > 0
                    /\ state'[t] = "blocked" => deadline'[t] # 0
<1>1. FullInv /\ [Next]_vars => [Due]_vars
  <2> SUFFICES ASSUME FullInv, timer_irq, NEW t \in Task
               PROVE  /\ state'[t] = "sleeping" => wake_tick'[t] > 0
                      /\ state'[t] = "blocked" => deadline'[t] # 0
    BY DEF Due
  <2>1. /\ \A u \in Rested \cup Late : state'[u] \in {"ready", "running"}
        /\ \A u \in Task \ (Rested \cup Late) :
             \/ state'[u] = state[u]
             \/ state[u] \in {"ready", "running"} /\ state'[u] \in {"ready", "running"}
    BY TimerStates
  <2>2. /\ Rested = {u \in Task : state[u] = "sleeping" /\ Ticked(wake_tick[u]) = 0}
        /\ Late = {u \in Task : state[u] = "blocked" /\ Ticked(deadline[u]) = 0}
    BY WalkSkipped
  <2>3. /\ wake_tick'[t] = Ticked(wake_tick[t])
        /\ deadline'[t] = IF t \in Late THEN None ELSE Ticked(deadline[t])
    BY DEF timer_irq, sched_wake_sleepers
  <2>4. Ticked(wake_tick[t]) \in Nat
    BY TickWaits, SMTT(30) DEF FullInv, CountInv, Waits
  <2> QED
    BY <2>1, <2>2, <2>3, <2>4, SMTT(30)
<1> QED
  BY <1>1, InitFull, FullStep, PTL DEF Spec, NobodyOversleeps
=============================================================================
