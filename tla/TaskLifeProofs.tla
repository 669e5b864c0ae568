--------------------------- MODULE TaskLifeProofs ---------------------------
(***************************************************************************)
(* Proofs about TaskLife for any table, any number of exit records, any    *)
(* pids and any exit codes.                                                *)
(*                                                                         *)
(* The code changes the table in a few ways, alone or two in a row: a task *)
(* moves between running and parked, a slot is filled, a task dies, a      *)
(* zombie is claimed, a dead slot is cleared.  Each of these is a lemma    *)
(* about a table T and the table U it becomes; an action is shown to be    *)
(* one of them or a composition of two or three.                           *)
(*                                                                         *)
(* LifeInv is inductive here given what WalkProofs shows of the scans of a *)
(* table (WalksOK); the theorems, free of that hypothesis, are in          *)
(* TaskLifeTheorems.                                                       *)
(***************************************************************************)
EXTENDS TaskLife, TLAPS

\* The provers a leaf is tried with, and their seconds.
USE ZenonT(60), SMTT(30)

\* A scan of a table has a last slot, and meets every slot of a set once.
WalksOK ==
  \A N \in Nat : \A S \in SUBSET (1 .. N) :
    /\ S # {} => \E m \in S : \A t \in S : t <= m
    /\ Cardinality(S) \in Nat /\ Cardinality(S) <= N
    /\ InOrder(S) \in [1 .. Cardinality(S) -> S]
    /\ \A i, j \in 1 .. Cardinality(S) : InOrder(S)[i] = InOrder(S)[j] => i = j
    /\ \A t \in S : \E i \in 1 .. Cardinality(S) : InOrder(S)[i] = t

Whats == {"exec", "spawn", "thread"}

TaskType ==
  [pid : 0 .. MaxPid, state : {"free", "loading", "ready", "blocked", "zombie", "dead"},
   parent : 0 .. MaxPid, waiting : 0 .. MaxPid, unclaimed : BOOLEAN, code : Int,
   thread : BOOLEAN, vm : 0 .. MaxPid, pc : {"user", "exec", "wait4", "join", "alloc"},
   arg : Int \cup Whats]

Table == [Slot -> TaskType]
RecType == [pid : Pid, parent : 0 .. MaxPid, code : Int]
Agents == Slot \cup {Reaper}
Closings == [Agents -> 0 .. MAX_TASKS]

\* A slot has a pid of its own while it is in use, and pids only grow.
PidsOK(T, np) ==
  /\ \A s \in Slot : /\ T[s].pid = 0 <=> T[s].state = "free"
                     /\ T[s].pid < np
  /\ \A s, q \in Slot : T[s].pid = T[q].pid /\ T[s].pid # 0 => s = q

\* OneReaperEach; and whoever is asleep in task_reap is parked there and
\* nowhere else, so that nothing wakes, kills or frees it before the reap is
\* done.
ReapsOK(T, cl) ==
  /\ \A a, b \in Agents : cl[a] = cl[b] /\ cl[a] # 0 => a = b
  /\ \A s \in Slot : T[s].state = "dead" <=> \E a \in Agents : cl[a] = s
  /\ \A s \in Slot : cl[s] # 0 =>
       /\ T[s].state = "blocked" /\ T[s].waiting = 0
       /\ \/ T[s].pc = "exec"
          \/ T[s].pc = "alloc" /\ T[s].arg \in Whats

\* Whoever waits for a pid is parked for it in exec or join.
ParkedAt(r) ==
  /\ r.waiting # 0 =>
       \/ r.state \in {"zombie", "dead"}
       \/ r.state = "blocked" /\ r.pc \in {"exec", "join"} /\ r.waiting = r.arg
  /\ r.state = "blocked" /\ r.pc = "join" => r.waiting = r.arg /\ r.arg # 0

ParksOK(T) == \A s \in Slot : ParkedAt(T[s])

JoinsAt(T, r) ==
  r.state = "blocked" /\ r.pc = "join" =>
    \A t \in Slot : r.arg = T[t].pid => T[t].state # "zombie"
JoinsOK(T) == \A s \in Slot : JoinsAt(T, T[s])

\* RequestsMatchLoading, of a table, a queue and an active request.
Asked(lq, la, p) == p = la \/ \E i \in 1 .. Len(lq) : lq[i] = p
LoadsOK(T, lq, la) ==
  /\ \A s \in Slot : T[s].state = "loading" <=> T[s].pid # 0 /\ Asked(lq, la, T[s].pid)
  /\ \A i \in 1 .. Len(lq) : lq[i] # la /\ Has(T, lq[i])
  /\ \A i, j \in 1 .. Len(lq) : lq[i] = lq[j] => i = j
  /\ la # 0 => Has(T, la)

LifeOK(T, np, lq, la, cl) ==
  PidsOK(T, np) /\ ReapsOK(T, cl) /\ ParksOK(T) /\ JoinsOK(T) /\ LoadsOK(T, lq, la)

\* The inductive invariant.
LifeInv ==
  /\ task \in Table /\ next_pid \in 2 .. MaxPid + 1
  /\ records \in Seq(RecType) /\ Len(records) <= TASK_EXIT_RECORDS
  /\ load_q \in Seq(Pid) /\ load_active \in 0 .. MaxPid /\ cancelled \in BOOLEAN
  /\ closing \in Closings
  /\ exited \in [Pid -> [done : BOOLEAN, code : Int, parent : 0 .. MaxPid]]
  /\ taken \in [Pid -> Seq(Int)]
  /\ LifeOK(task, next_pid, load_q, load_active, closing)
  /\ cancelled => load_active # 0
  /\ WalksOK

-----------------------------------------------------------------------------
(* The five ways a table changes.                                          *)

\* The same but for where the task is.
SamePid(T, U) == \A q \in Slot : U[q].pid = T[q].pid
SameAt(r, n) == n.state = r.state /\ n.waiting = r.waiting /\ n.pc = r.pc /\ n.arg = r.arg

\* Tasks that nobody reaps for may move between running and parked.
LEMMA Moves ==
  ASSUME NEW T \in Table, NEW U \in Table, NEW np \in Nat, NEW lq \in Seq(Pid), NEW la \in 0 .. MaxPid,
         NEW cl \in Closings, LifeOK(T, np, lq, la, cl), SamePid(T, U),
         \A q \in Slot :
           \/ SameAt(T[q], U[q])
           \/ /\ cl[q] = 0
              /\ T[q].state \in {"ready", "blocked"} /\ U[q].state \in {"ready", "blocked"}
              /\ ParkedAt(U[q]) /\ JoinsAt(T, U[q])
  PROVE  LifeOK(U, np, lq, la, cl)
<1> \A q \in Slot :
      \/ U[q].state = T[q].state
      \/ T[q].state \in {"ready", "blocked"} /\ U[q].state \in {"ready", "blocked"}
  BY DEF SameAt
<1>1. PidsOK(U, np)
  <2>1. \A q \in Slot : U[q].state = "free" <=> T[q].state = "free"
    OBVIOUS
  <2> QED  BY <2>1, SMTT(30) DEF PidsOK, LifeOK, SamePid
<1>2. ReapsOK(U, cl)
  <2>1. \A s \in Slot : cl[s] # 0 => SameAt(T[s], U[s])
    OBVIOUS
  <2>2. \A s \in Slot : U[s].state = "dead" <=> T[s].state = "dead"
    OBVIOUS
  <2> QED  BY <2>1, <2>2, SMTT(30) DEF ReapsOK, LifeOK, SameAt
<1>3. ParksOK(U)
  BY SMTT(30) DEF ParksOK, ParkedAt, LifeOK, SameAt
<1>4. JoinsOK(U)
  <2>1. \A q \in Slot : JoinsAt(T, U[q])
    BY SMTT(30) DEF JoinsOK, JoinsAt, LifeOK, SameAt
  <2>2. \A s \in Slot : U[s].state = "zombie" <=> T[s].state = "zombie"
    OBVIOUS
  <2> QED  BY <2>1, <2>2, SMTT(30) DEF JoinsOK, JoinsAt, SamePid
<1>5. LoadsOK(U, lq, la)
  <2>1. \A s \in Slot : U[s].state = "loading" <=> T[s].state = "loading"
    OBVIOUS
  <2> QED  BY <2>1, SMTT(30) DEF LoadsOK, LifeOK, SamePid, Has
<1> QED  BY <1>1, <1>2, <1>3, <1>4, <1>5 DEF LifeOK

\* A task nobody joins and nobody reaps for dies; if it was loading, so does
\* its request.
LEMMA Dies ==
  ASSUME NEW T \in Table, NEW U \in Table, NEW np \in Nat, NEW lq \in Seq(Pid), NEW la \in 0 .. MaxPid,
         NEW cl \in Closings, LifeOK(T, np, lq, la, cl), SamePid(T, U),
         NEW v \in Slot, cl[v] = 0, T[v].state \in {"ready", "blocked", "loading"},
         U[v].state = "zombie", \A q \in Slot \ {v} : SameAt(T[q], U[q]),
         \A q \in Slot \ {v} : T[q].state = "blocked" /\ T[q].pc = "join" => T[q].arg # T[v].pid,
         NEW lq2 \in Seq(Pid), NEW la2 \in 0 .. MaxPid, LoadsOK(U, lq2, la2)
  PROVE  LifeOK(U, np, lq2, la2, cl)
<1>1. PidsOK(U, np)
  BY SMTT(30) DEF PidsOK, LifeOK, SamePid, SameAt
<1>2. ReapsOK(U, cl)
  <2>1. \A s \in Slot : cl[s] # 0 => SameAt(T[s], U[s])
    OBVIOUS
  <2>2. \A s \in Slot : U[s].state = "dead" <=> T[s].state = "dead"
    BY DEF SameAt
  <2> QED  BY <2>1, <2>2, SMTT(30) DEF ReapsOK, LifeOK, SameAt
<1>3. ParksOK(U)
  BY SMTT(30) DEF ParksOK, ParkedAt, LifeOK, SameAt
<1>4. JoinsOK(U)
  BY SMTT(30) DEF JoinsOK, JoinsAt, SamePid, LifeOK, SameAt
<1> QED  BY <1>1, <1>2, <1>3, <1>4 DEF LifeOK

\* An agent that is not reaping yet, and is parked for it, claims a zombie.
LEMMA Claims ==
  ASSUME NEW T \in Table, NEW U \in Table, NEW np \in Nat, NEW lq \in Seq(Pid), NEW la \in 0 .. MaxPid,
         NEW cl \in Closings, LifeOK(T, np, lq, la, cl), SamePid(T, U),
         NEW z \in Slot, T[z].state = "zombie", U[z].state = "dead", U[z].waiting = T[z].waiting,
         \A q \in Slot \ {z} : SameAt(T[q], U[q]),
         NEW a \in Agents, cl[a] = 0,
         a # Reaper => /\ T[a].state = "blocked" /\ T[a].waiting = 0
                       /\ T[a].pc = "exec" \/ (T[a].pc = "alloc" /\ T[a].arg \in Whats)
  PROVE  /\ [cl EXCEPT ![a] = z] \in Closings
         /\ LifeOK(U, np, lq, la, [cl EXCEPT ![a] = z])
<1> DEFINE c2 == [cl EXCEPT ![a] = z]
<1> /\ c2 \in Closings /\ \A b \in Agents : c2[b] = IF b = a THEN z ELSE cl[b]
  BY TaskLifeAssumption, SMTT(30) DEF Closings, Slot
<1>1. PidsOK(U, np)
  BY SMTT(30) DEF PidsOK, LifeOK, SamePid, SameAt
<1>2. ReapsOK(U, c2)
  <2>1. \A b \in Agents : cl[b] # z
    BY DEF ReapsOK, LifeOK
  <2> \A s \in Slot : U[s].state = "dead" <=> T[s].state = "dead" \/ s = z
    BY DEF SameAt
  <2>3. \A b, d \in Agents : c2[b] = c2[d] /\ c2[b] # 0 => b = d
    BY <2>1, SMTT(30) DEF ReapsOK, LifeOK
  <2>4. \A s \in Slot : U[s].state = "dead" <=> \E b \in Agents : c2[b] = s
    <3> SUFFICES ASSUME NEW s \in Slot PROVE U[s].state = "dead" <=> \E b \in Agents : c2[b] = s
      OBVIOUS
    <3> CASE s = z
      OBVIOUS
    <3> CASE s # z
      <4>1. (\E b \in Agents : c2[b] = s) <=> \E b \in Agents : cl[b] = s
        BY SMTT(30) DEF Slot
      <4> QED  BY <4>1 DEF ReapsOK, LifeOK
    <3> QED  OBVIOUS
  <2>5. \A s \in Slot : c2[s] # 0 =>
         /\ U[s].state = "blocked" /\ U[s].waiting = 0
         /\ U[s].pc = "exec" \/ (U[s].pc = "alloc" /\ U[s].arg \in Whats)
    BY SMTT(30) DEF ReapsOK, LifeOK, SameAt, Agents, Slot, Reaper
  <2> QED  BY <2>3, <2>4, <2>5 DEF ReapsOK
<1>3. ParksOK(U)
  BY SMTT(30) DEF ParksOK, ParkedAt, LifeOK, SameAt
<1>4. JoinsOK(U)
  BY SMTT(30) DEF JoinsOK, JoinsAt, SamePid, LifeOK, SameAt
<1>5. LoadsOK(U, lq, la)
  <2>1. \A s \in Slot : U[s].state = "loading" <=> T[s].state = "loading"
    BY DEF SameAt
  <2> QED  BY <2>1, SMTT(30) DEF LoadsOK, LifeOK, SamePid, Has
<1> QED  BY <1>1, <1>2, <1>3, <1>4, <1>5 DEF LifeOK

\* The slot an agent has been reaping is cleared.
LEMMA Clears ==
  ASSUME NEW T \in Table, NEW U \in Table, NEW np \in Nat \ {0}, NEW lq \in Seq(Pid), NEW la \in 0 .. MaxPid,
         NEW cl \in Closings, LifeOK(T, np, lq, la, cl),
         NEW a \in Agents, cl[a] # 0, U[cl[a]] = Free, \A q \in Slot \ {cl[a]} : U[q] = T[q]
  PROVE  /\ [cl EXCEPT ![a] = 0] \in Closings /\ cl[a] \in Slot /\ T[cl[a]].state = "dead" /\ cl[a] # a
         /\ LifeOK(U, np, lq, la, [cl EXCEPT ![a] = 0])
<1> DEFINE c2 == [cl EXCEPT ![a] = 0]
           d == cl[a]
<1>0. /\ c2 \in Closings /\ \A b \in Agents : c2[b] = IF b = a THEN 0 ELSE cl[b]
  BY TaskLifeAssumption, SMTT(30) DEF Closings, Slot
<1> d \in Slot /\ T[d].state = "dead" /\ d # a
  <2> d \in Slot
    BY TaskLifeAssumption, SMTT(30) DEF Closings, Slot
  <2> T[d].state = "dead"
    BY DEF LifeOK, ReapsOK
  <2>3. d # a
    BY SMTT(30) DEF LifeOK, ReapsOK
  <2> QED  BY <2>3
<1> U[d].state = "free" /\ U[d].pid = 0 /\ U[d].waiting = 0 /\ U[d].pc = "user"
  BY SMTT(30) DEF Free
<1> HIDE DEF c2, d
<1> \A q \in Slot \ {d} : U[q] = T[q]
  BY DEF d
<1>3. PidsOK(U, np)
  BY SMTT(30) DEF PidsOK, LifeOK
<1>4. ReapsOK(U, c2)
  <2>1. \A b, e \in Agents : c2[b] = c2[e] /\ c2[b] # 0 => b = e
    BY <1>0, SMTT(30) DEF ReapsOK, LifeOK
  <2>2. \A s \in Slot : U[s].state = "dead" <=> \E b \in Agents : c2[b] = s
    <3> SUFFICES ASSUME NEW s \in Slot PROVE U[s].state = "dead" <=> \E b \in Agents : c2[b] = s
      OBVIOUS
    <3> CASE s = d
      <4>1. \A b \in Agents : c2[b] # s
        BY <1>0, SMTT(30) DEF d, ReapsOK, LifeOK, Slot
      <4> QED  BY <4>1
    <3> CASE s # d
      <4>1. (\E b \in Agents : c2[b] = s) <=> \E b \in Agents : cl[b] = s
        BY <1>0, SMTT(30) DEF Slot, d
      <4> QED  BY <4>1, SMTT(30) DEF ReapsOK, LifeOK
    <3> QED  OBVIOUS
  <2>3. \A s \in Slot : c2[s] # 0 =>
         /\ U[s].state = "blocked" /\ U[s].waiting = 0
         /\ U[s].pc = "exec" \/ (U[s].pc = "alloc" /\ U[s].arg \in Whats)
    <3> SUFFICES ASSUME NEW s \in Slot, c2[s] # 0
                 PROVE  /\ U[s].state = "blocked" /\ U[s].waiting = 0
                        /\ U[s].pc = "exec" \/ (U[s].pc = "alloc" /\ U[s].arg \in Whats)
      OBVIOUS
    <3>1. cl[s] # 0 /\ s # d
      BY <1>0, SMTT(30) DEF ReapsOK, LifeOK, Agents
    <3> QED  BY <3>1, SMTT(30) DEF ReapsOK, LifeOK
  <2> QED  BY <2>1, <2>2, <2>3 DEF ReapsOK
<1>5. ParksOK(U)
  BY SMTT(30) DEF ParksOK, ParkedAt, LifeOK
<1>6. JoinsOK(U)
  BY DEF JoinsOK, JoinsAt, LifeOK
<1>7. LoadsOK(U, lq, la)
  <2>1. \A p : Has(T, p) /\ T[d].pid # p => Has(U, p)
    BY DEF Has
  <2>2. ~Asked(lq, la, T[d].pid)
    BY DEF LifeOK, LoadsOK, PidsOK
  <2> QED  BY <2>1, <2>2, SMTT(30) DEF LoadsOK, LifeOK, Asked
<1> QED  BY <1>0, <1>3, <1>4, <1>5, <1>6, <1>7 DEF LifeOK, c2, d

\* A free slot is filled by a new pid, running or with a request behind it.
LEMMA Fills ==
  ASSUME NEW T \in Table, NEW U \in Table, NEW np \in 2 .. MaxPid, NEW lq \in Seq(Pid), NEW la \in 0 .. MaxPid,
         NEW cl \in Closings, LifeOK(T, np, lq, la, cl),
         NEW f \in Slot, T[f].state = "free", \A q \in Slot \ {f} : U[q] = T[q],
         U[f].pid = np, U[f].waiting = 0, U[f].pc = "user",
         NEW lq2, \/ U[f].state = "ready" /\ lq2 = lq
                  \/ U[f].state = "loading" /\ lq2 = Append(lq, np)
  PROVE  lq2 \in Seq(Pid) /\ LifeOK(U, np + 1, lq2, la, cl)
<1>0. np \in Pid /\ np \in Nat /\ np # 0
  BY TaskLifeAssumption, SMTT(30) DEF Pid
<1>1. PidsOK(U, np + 1)
  <2>1. \A q \in Slot : T[q].pid < np /\ T[q].pid \in Nat
    BY TaskLifeAssumption, SMTT(30) DEF LifeOK, PidsOK, Table, TaskType
  <2>2. \A q \in Slot : /\ U[q].pid = 0 <=> U[q].state = "free"
                        /\ U[q].pid < np + 1
    BY <2>1, <1>0, SMTT(30) DEF LifeOK, PidsOK
  <2>3. \A s, q \in Slot : U[s].pid = U[q].pid /\ U[s].pid # 0 => s = q
    BY <2>1, <1>0, SMTT(30) DEF LifeOK, PidsOK
  <2> QED  BY <2>2, <2>3 DEF PidsOK
<1>2. ReapsOK(U, cl)
  <2>1. \A s \in Slot : U[s].state = "dead" <=> T[s].state = "dead"
    OBVIOUS
  <2>2. cl[f] = 0
    BY DEF LifeOK, ReapsOK
  <2> QED  BY <2>1, <2>2, SMTT(30) DEF LifeOK, ReapsOK
<1>3. ParksOK(U)
  BY SMTT(30) DEF ParksOK, ParkedAt, LifeOK
<1>4. JoinsOK(U)
  <2>1. U[f].state # "blocked" /\ U[f].state # "zombie"
    OBVIOUS
  <2> QED  BY <2>1 DEF JoinsOK, JoinsAt, LifeOK
<1>5. LoadsOK(U, lq2, la) /\ lq2 \in Seq(Pid)
  <2>1. \A p \in Pid : Has(T, p) => Has(U, p)
    BY SMTT(30) DEF Has, LifeOK, PidsOK, Pid
  <2>2. Has(U, np)
    BY <1>0, SMTT(30) DEF Has
  <2>3. \A p : Asked(lq, la, p) /\ p # 0 => Has(T, p)
    BY DEF LifeOK, LoadsOK, Asked
  <2>4. ~Has(T, np)
    BY <1>0, SMTT(30) DEF LifeOK, PidsOK, Has
  <2>5. T[f].pid = 0
    BY DEF LifeOK, PidsOK
  <2>6. \A q \in Slot \ {f} : U[q].pid # np
    BY <2>4, <1>0, SMTT(30) DEF Has
  <2>7. ~Asked(lq, la, np)
    BY <2>3, <2>4, <1>0
  <2>8. la # 0 => Has(U, la)
    BY <2>1, SMTT(30) DEF LifeOK, LoadsOK, Pid
  <2>9. \A i \in 1 .. Len(lq) : lq[i] \in Pid /\ lq[i] # la /\ Has(U, lq[i]) /\ lq[i] # np
    BY <2>1, <2>7, SMTT(30) DEF LifeOK, LoadsOK, Asked
  <2>10. CASE U[f].state = "ready" /\ lq2 = lq
    BY <2>10, <2>5, <2>7, <2>8, <2>9 DEF LifeOK, LoadsOK
  <2>11. CASE U[f].state = "loading" /\ lq2 = Append(lq, np)
    <3> /\ lq2 \in Seq(Pid) /\ Len(lq2) = Len(lq) + 1 /\ Len(lq) \in Nat
        /\ \A i \in 1 .. Len(lq) : lq2[i] = lq[i]
        /\ lq2[Len(lq) + 1] = np
      BY <2>11, <1>0, SMTT(30)
    <3> \A i \in 1 .. Len(lq2) : i = Len(lq) + 1 \/ i \in 1 .. Len(lq)
      BY SMTT(30)
    <3>3. \A p : Asked(lq2, la, p) <=> Asked(lq, la, p) \/ p = np
      BY SMTT(30) DEF Asked
    <3>4. \A i \in 1 .. Len(lq2) : lq2[i] # la /\ Has(U, lq2[i])
      BY <2>9, <2>2, <2>7 DEF Asked
    <3>5. \A i, j \in 1 .. Len(lq2) : lq2[i] = lq2[j] => i = j
      BY <2>9, SMTT(30) DEF LifeOK, LoadsOK
    <3>6. \A s \in Slot : U[s].state = "loading" <=> U[s].pid # 0 /\ Asked(lq2, la, U[s].pid)
      BY <3>3, <2>11, <2>6, <1>0, SMTT(30) DEF LifeOK, LoadsOK
    <3> QED  BY <3>4, <3>5, <3>6, <2>8 DEF LoadsOK
  <2> QED  BY <2>10, <2>11
<1> QED  BY <1>1, <1>2, <1>3, <1>4, <1>5 DEF LifeOK

-----------------------------------------------------------------------------
(* What the operators of the model make of a table.                        *)

States == {"free", "loading", "ready", "blocked", "zombie", "dead"}
Places == {"user", "exec", "wait4", "join", "alloc"}

\* What a task keeps from its creation to its death.
SameTask(r, n) ==
  n.pid = r.pid /\ n.parent = r.parent /\ n.thread = r.thread /\ n.vm = r.vm

LEMMA FreeFacts ==
  /\ Free \in TaskType /\ Free.pid = 0 /\ Free.state = "free" /\ Free.waiting = 0 /\ Free.pc = "user"
  /\ Free.parent = 0 /\ Free.code = 0 /\ Free.unclaimed = FALSE /\ Free.thread = FALSE /\ Free.arg = 0
  /\ DOMAIN Free = {"pid", "state", "parent", "waiting", "unclaimed", "code", "thread", "vm", "pc", "arg"}
BY TaskLifeAssumption, SMTT(30) DEF Free, TaskType, Whats

NewAs(n, p, par, st) ==
  /\ n \in TaskType /\ n.pid = p /\ n.parent = par /\ n.state = st
  /\ n.waiting = 0 /\ n.pc = "user" /\ n.code = 0 /\ n.unclaimed = FALSE
  /\ n.thread = FALSE /\ n.arg = 0

LEMMA NewTaskFacts ==
  ASSUME NEW p \in 0 .. MaxPid, NEW par \in 0 .. MaxPid, NEW st \in States
  PROVE  NewAs(NewTask(p, par, st), p, par, st)
BY FreeFacts DEF NewTask, TaskType, States, NewAs

\* Only slot s differs, and it still is the same task.
OnlyAt(T, U, s) ==
  /\ U \in Table /\ SameTask(T[s], U[s]) /\ U[s].code = T[s].code /\ U[s].unclaimed = T[s].unclaimed
  /\ \A q \in Slot \ {s} : U[q] = T[q]

\* Where task s is in table T.
At(T, s, st, w, pc, arg) ==
  T[s].state = st /\ T[s].waiting = w /\ T[s].pc = pc /\ T[s].arg = arg

\* The assignments the actions make to one task.
LEMMA SetState ==
  ASSUME NEW T \in Table, NEW s \in Slot, NEW st \in States
  PROVE  LET U == [T EXCEPT ![s].state = st]
         IN  OnlyAt(T, U, s) /\ At(U, s, st, T[s].waiting, T[s].pc, T[s].arg)
BY SMTT(30) DEF Table, TaskType, OnlyAt, At, SameTask, States

LEMMA SetPc ==
  ASSUME NEW T \in Table, NEW s \in Slot
  PROVE  LET U == [T EXCEPT ![s].pc = "user"]
         IN  OnlyAt(T, U, s) /\ At(U, s, T[s].state, T[s].waiting, "user", T[s].arg)
BY SMTT(30) DEF Table, TaskType, OnlyAt, At, SameTask

LEMMA PutTask ==
  ASSUME NEW T \in Table, NEW s \in Slot, NEW n \in TaskType, SameTask(T[s], n),
         n.code = T[s].code, n.unclaimed = T[s].unclaimed
  PROVE  OnlyAt(T, [T EXCEPT ![s] = n], s) /\ [T EXCEPT ![s] = n][s] = n
BY DEF OnlyAt, Table

LEMMA SetUser ==
  ASSUME NEW T \in Table, NEW s \in Slot
  PROVE  LET U == [T EXCEPT ![s].state = "ready", ![s].pc = "user"]
         IN  OnlyAt(T, U, s) /\ At(U, s, "ready", T[s].waiting, "user", T[s].arg)
BY DEF Table, TaskType, OnlyAt, At, SameTask

LEMMA SetReturn ==
  ASSUME NEW T \in Table, NEW s \in Slot
  PROVE  LET U == [T EXCEPT ![s].pc = "user", ![s].arg = 0]
         IN  OnlyAt(T, U, s) /\ At(U, s, T[s].state, T[s].waiting, "user", 0)
<1> DEFINE n == [T[s] EXCEPT !.pc = "user", !.arg = 0]
<1>1. T[s] \in TaskType /\ 0 \in Int \cup Whats
  BY SMTT(30) DEF Table
<1> /\ n \in TaskType /\ SameTask(T[s], n) /\ n.code = T[s].code /\ n.unclaimed = T[s].unclaimed
    /\ n.state = T[s].state /\ n.waiting = T[s].waiting /\ n.pc = "user" /\ n.arg = 0
  BY <1>1 DEF TaskType, SameTask, Places
<1>3. [T EXCEPT ![s].pc = "user", ![s].arg = 0] = [T EXCEPT ![s] = n]
  BY DEF Table
<1> HIDE DEF n
<1>4. OnlyAt(T, [T EXCEPT ![s] = n], s) /\ [T EXCEPT ![s] = n][s] = n
  BY PutTask
<1> QED  BY <1>3, <1>4 DEF At

LEMMA SetInterrupted ==
  ASSUME NEW T \in Table, NEW s \in Slot
  PROVE  LET U == [T EXCEPT ![s].state = "ready", ![s].pc = "user", ![s].arg = 0]
         IN  OnlyAt(T, U, s) /\ At(U, s, "ready", T[s].waiting, "user", 0)
<1> DEFINE n == [T[s] EXCEPT !.state = "ready", !.pc = "user", !.arg = 0]
<1>1. T[s] \in TaskType /\ 0 \in Int \cup Whats
  BY SMTT(30) DEF Table
<1> /\ n \in TaskType /\ SameTask(T[s], n) /\ n.code = T[s].code /\ n.unclaimed = T[s].unclaimed
    /\ n.state = "ready" /\ n.waiting = T[s].waiting /\ n.pc = "user" /\ n.arg = 0
  BY <1>1 DEF TaskType, SameTask, Places
<1>3. [T EXCEPT ![s].state = "ready", ![s].pc = "user", ![s].arg = 0] = [T EXCEPT ![s] = n]
  BY DEF Table
<1> HIDE DEF n
<1>4. OnlyAt(T, [T EXCEPT ![s] = n], s) /\ [T EXCEPT ![s] = n][s] = n
  BY PutTask
<1> QED  BY <1>3, <1>4 DEF At

LEMMA SetParked ==
  ASSUME NEW T \in Table, NEW s \in Slot, NEW pc \in Places, NEW arg \in Int \cup Whats
  PROVE  LET U == [T EXCEPT ![s].state = "blocked", ![s].pc = pc, ![s].arg = arg]
         IN  OnlyAt(T, U, s) /\ At(U, s, "blocked", T[s].waiting, pc, arg)
<1> DEFINE n == [T[s] EXCEPT !.state = "blocked", !.pc = pc, !.arg = arg]
<1>1. T[s] \in TaskType /\ arg \in Int \cup Whats
  BY DEF Table
<1> /\ n \in TaskType /\ SameTask(T[s], n) /\ n.code = T[s].code /\ n.unclaimed = T[s].unclaimed
    /\ n.state = "blocked" /\ n.waiting = T[s].waiting /\ n.pc = pc /\ n.arg = arg
  BY <1>1 DEF TaskType, SameTask, Places
<1>3. [T EXCEPT ![s].state = "blocked", ![s].pc = pc, ![s].arg = arg] = [T EXCEPT ![s] = n]
  BY DEF Table
<1> HIDE DEF n
<1>4. OnlyAt(T, [T EXCEPT ![s] = n], s) /\ [T EXCEPT ![s] = n][s] = n
  BY PutTask
<1> QED  BY <1>3, <1>4 DEF At

LEMMA SetWaiting ==
  ASSUME NEW T \in Table, NEW s \in Slot, NEW pc \in Places, NEW p \in 0 .. MaxPid
  PROVE  LET U == [T EXCEPT ![s].state = "blocked", ![s].waiting = p, ![s].pc = pc, ![s].arg = p]
         IN  OnlyAt(T, U, s) /\ At(U, s, "blocked", p, pc, p)
<1> DEFINE n == [T[s] EXCEPT !.state = "blocked", !.waiting = p, !.pc = pc, !.arg = p]
<1>1. T[s] \in TaskType /\ p \in Int \cup Whats
  BY SMTT(30) DEF Table
<1> /\ n \in TaskType /\ SameTask(T[s], n) /\ n.code = T[s].code /\ n.unclaimed = T[s].unclaimed
    /\ n.state = "blocked" /\ n.waiting = p /\ n.pc = pc /\ n.arg = p
  BY <1>1 DEF TaskType, SameTask, Places
<1>3. [T EXCEPT ![s].state = "blocked", ![s].waiting = p, ![s].pc = pc, ![s].arg = p] = [T EXCEPT ![s] = n]
  BY DEF Table
<1> HIDE DEF n
<1>4. OnlyAt(T, [T EXCEPT ![s] = n], s) /\ [T EXCEPT ![s] = n][s] = n
  BY PutTask
<1> QED  BY <1>3, <1>4 DEF At

\* The lowest of a set of slots is one of them.
LEMMA LowestIn ==
  ASSUME WalksOK, NEW N \in Nat, NEW S \in SUBSET (1 .. N), S # {}
  PROVE  Lowest(S) \in S /\ \A y \in S : Lowest(S) <= y
<1> DEFINE R == {N + 1 - y : y \in S}
<1>0. \A y \in S : y \in 1 .. N /\ N + 1 - y \in 1 .. N
  BY SMTT(30)
<1>1. R \in SUBSET (1 .. N) /\ R # {}
  BY <1>0
<1>2. PICK m \in R : \A t \in R : t <= m
  <2> HIDE DEF R
  <2> QED  BY <1>1 DEF WalksOK
<1>3. PICK z \in S : m = N + 1 - z
  OBVIOUS
<1>4. ASSUME NEW y \in S PROVE z <= y
  <2>1. N + 1 - y \in R
    OBVIOUS
  <2>2. N + 1 - y <= N + 1 - z
    BY <1>2, <1>3, <2>1
  <2> QED  BY <1>0, <2>2, SMTT(30)
<1> QED  BY <1>4 DEF Lowest

\* The exit of a task in slot s, as other tasks see it.
MarkedAs(T, M, s, code) ==
  /\ M \in Table
  /\ \A q \in Slot : SameTask(T[q], M[q]) /\ M[q].pc = T[q].pc /\ M[q].arg = T[q].arg
  /\ M[s].state = "zombie" /\ M[s].code = code /\ M[s].waiting = T[s].waiting
  /\ M[s].unclaimed = (Waiters(T, s) \ {s} = {})
  /\ \A q \in Slot \ {s} :
       /\ M[q].code = T[q].code
       /\ q \in Waiters(T, s) => M[q].state = "ready" /\ M[q].waiting = 0
       /\ q \notin Waiters(T, s) =>
            /\ M[q].waiting = T[q].waiting
            /\ M[q].state = IF WokenInWait4(T, q) THEN "ready" ELSE T[q].state
       /\ \/ M[q].unclaimed = T[q].unclaimed
          \/ /\ T[s].state = "blocked" /\ T[s].waiting > 0
             /\ T[q].pid = T[s].waiting /\ T[q].state = "zombie"

LEMMA MarkedFacts ==
  ASSUME NEW T \in Table, NEW s \in Slot, NEW code \in Int
  PROVE  MarkedAs(T, Marked(T, s, code), s, code)
<1> DEFINE R == Released(T, s)
           W == Waiters(R, s) \ {s}
           M == Marked(T, s, code)
<1>1. /\ R \in Table
      /\ \A q \in Slot : /\ SameTask(T[q], R[q]) /\ SameAt(T[q], R[q]) /\ R[q].code = T[q].code
                         /\ \/ R[q].unclaimed = T[q].unclaimed
                            \/ /\ T[s].state = "blocked" /\ T[s].waiting > 0
                               /\ T[q].pid = T[s].waiting /\ T[q].state = "zombie"
  <2>1. R = [q \in Slot |-> IF /\ T[s].state = "blocked" /\ T[s].waiting > 0
                               /\ T[q].pid = T[s].waiting /\ T[q].state = "zombie"
                             THEN [T[q] EXCEPT !.unclaimed = TRUE] ELSE T[q]]
    BY DEF Released
  <2> HIDE DEF R
  <2>2. ASSUME NEW q \in Slot
        PROVE  /\ R[q] \in TaskType /\ SameTask(T[q], R[q]) /\ SameAt(T[q], R[q]) /\ R[q].code = T[q].code
               /\ \/ R[q].unclaimed = T[q].unclaimed
                  \/ /\ T[s].state = "blocked" /\ T[s].waiting > 0
                     /\ T[q].pid = T[s].waiting /\ T[q].state = "zombie"
    <3>1. T[q] \in TaskType
      BY DEF Table
    <3>2. CASE R[q] = T[q]
      BY <3>1, <3>2 DEF SameTask, SameAt
    <3>3. CASE /\ T[s].state = "blocked" /\ T[s].waiting > 0
               /\ T[q].pid = T[s].waiting /\ T[q].state = "zombie"
               /\ R[q] = [T[q] EXCEPT !.unclaimed = TRUE]
      BY <3>1, <3>3 DEF TaskType, SameTask, SameAt
    <3> QED  BY <2>1, <3>2, <3>3
  <2> QED  BY <2>1, <2>2 DEF Table
<1>2. Waiters(R, s) = Waiters(T, s) /\ \A q \in Slot : WokenInWait4(R, q) <=> WokenInWait4(T, q)
  <2> HIDE DEF R
  <2> QED  BY <1>1, SMTT(30) DEF Waiters, SameTask, SameAt, WokenInWait4
<1>3. M = [q \in Slot |->
         IF q = s THEN [R[q] EXCEPT !.state = "zombie", !.code = code, !.unclaimed = (W = {})]
         ELSE IF q \in W THEN [R[q] EXCEPT !.state = "ready", !.waiting = 0]
         ELSE IF WokenInWait4(R, q) THEN [R[q] EXCEPT !.state = "ready"]
         ELSE R[q]]
  BY DEF Marked
<1>4. PICK b \in BOOLEAN : b = (W = {})
  OBVIOUS
<1> HIDE DEF R, W, M
<1>5. ASSUME NEW q \in Slot
      PROVE  /\ M[q] \in TaskType /\ SameTask(R[q], M[q]) /\ M[q].pc = R[q].pc /\ M[q].arg = R[q].arg
             /\ q = s => /\ M[q].state = "zombie" /\ M[q].code = code /\ M[q].waiting = R[q].waiting
                         /\ M[q].unclaimed = b
             /\ q # s => /\ M[q].code = R[q].code /\ M[q].unclaimed = R[q].unclaimed
                         /\ q \in W => M[q].state = "ready" /\ M[q].waiting = 0
                         /\ q \notin W => /\ M[q].waiting = R[q].waiting
                                          /\ M[q].state = IF WokenInWait4(R, q) THEN "ready" ELSE R[q].state
  <2>1. R[q] \in TaskType
    BY <1>1 DEF Table
  <2>2. CASE q = s
    <3>1. M[q] = [R[q] EXCEPT !.state = "zombie", !.code = code, !.unclaimed = b]
      BY <2>2, <1>3, <1>4
    <3> QED  BY <3>1, <2>1, <2>2 DEF TaskType, SameTask
  <2>3. CASE q # s /\ q \in W
    <3>1. M[q] = [R[q] EXCEPT !.state = "ready", !.waiting = 0]
      BY <2>3, <1>3
    <3>2. 0 \in 0 .. MaxPid
      BY TaskLifeAssumption, SMTT(30)
    <3> QED  BY <3>1, <3>2, <2>1, <2>3 DEF TaskType, SameTask
  <2> CASE q # s /\ q \notin W /\ WokenInWait4(R, q)
    <3>1. M[q] = [R[q] EXCEPT !.state = "ready"]
      BY <1>3
    <3> QED  BY <3>1, <2>1 DEF TaskType, SameTask
  <2> CASE q # s /\ q \notin W /\ ~WokenInWait4(R, q)
    <3>1. M[q] = R[q]
      BY <1>3
    <3> QED  BY <3>1, <2>1 DEF SameTask
  <2> QED  BY <2>2, <2>3
<1>6. M \in Table
  BY <1>3, <1>5 DEF Table
<1>7. \A q \in Slot \ {s} : q \in W <=> q \in Waiters(T, s)
  BY <1>2 DEF W
<1>8. W = Waiters(T, s) \ {s}
  BY <1>2 DEF W
<1>9. \A q \in Slot : SameTask(T[q], M[q]) /\ M[q].pc = T[q].pc /\ M[q].arg = T[q].arg
  BY <1>1, <1>5, SMTT(30) DEF SameTask, SameAt
<1>10. /\ M[s].state = "zombie" /\ M[s].code = code /\ M[s].waiting = T[s].waiting
       /\ M[s].unclaimed = (Waiters(T, s) \ {s} = {})
  BY <1>1, <1>4, <1>5, <1>8, SMTT(30) DEF SameAt
<1>11. ASSUME NEW q \in Slot \ {s}
       PROVE  /\ M[q].code = T[q].code
              /\ q \in Waiters(T, s) => M[q].state = "ready" /\ M[q].waiting = 0
              /\ q \notin Waiters(T, s) =>
                   /\ M[q].waiting = T[q].waiting
                   /\ M[q].state = IF WokenInWait4(T, q) THEN "ready" ELSE T[q].state
              /\ \/ M[q].unclaimed = T[q].unclaimed
                 \/ /\ T[s].state = "blocked" /\ T[s].waiting > 0
                    /\ T[q].pid = T[s].waiting /\ T[q].state = "zombie"
  BY <1>1, <1>2, <1>5, <1>7, SMTT(30) DEF SameAt
<1> QED  BY <1>6, <1>9, <1>10, <1>11 DEF M, MarkedAs

\* A thread that leaves by task_exit_thread, as other tasks see it.
ThreadGone(T, s) ==
  [q \in Slot |->
     IF q = s THEN [T[q] EXCEPT !.state = "zombie", !.unclaimed = TRUE]
     ELSE IF q \in Waiters(T, s) THEN [T[q] EXCEPT !.state = "ready", !.waiting = 0]
     ELSE T[q]]

LEMMA ThreadGoneFacts ==
  ASSUME NEW T \in Table, NEW s \in Slot, NEW M, M = ThreadGone(T, s)
  PROVE  /\ M \in Table
         /\ \A q \in Slot : SameTask(T[q], M[q]) /\ M[q].pc = T[q].pc /\ M[q].arg = T[q].arg
         /\ M[s].state = "zombie" /\ M[s].waiting = T[s].waiting
         /\ \A q \in Slot \ {s} :
              /\ q \in Waiters(T, s) => M[q].state = "ready" /\ M[q].waiting = 0
              /\ q \notin Waiters(T, s) => M[q].waiting = T[q].waiting /\ M[q].state = T[q].state
<1>1. ASSUME NEW q \in Slot
      PROVE  /\ M[q] \in TaskType /\ SameTask(T[q], M[q]) /\ M[q].pc = T[q].pc /\ M[q].arg = T[q].arg
             /\ q = s => M[q].state = "zombie" /\ M[q].waiting = T[q].waiting
             /\ q # s => /\ q \in Waiters(T, s) => M[q].state = "ready" /\ M[q].waiting = 0
                         /\ q \notin Waiters(T, s) => M[q].waiting = T[q].waiting /\ M[q].state = T[q].state
  <2> T[q] \in TaskType /\ 0 \in 0 .. MaxPid
    BY TaskLifeAssumption, SMTT(30) DEF Table
  <2> CASE q = s
    <3>1. M[q] = [T[q] EXCEPT !.state = "zombie", !.unclaimed = TRUE]
      BY DEF ThreadGone
    <3> QED  BY <3>1 DEF TaskType, SameTask
  <2> CASE q # s /\ q \in Waiters(T, s)
    <3>1. M[q] = [T[q] EXCEPT !.state = "ready", !.waiting = 0]
      BY DEF ThreadGone
    <3> QED  BY <3>1 DEF TaskType, SameTask
  <2> CASE q # s /\ q \notin Waiters(T, s)
    <3>1. M[q] = T[q]
      BY DEF ThreadGone
    <3> QED  BY <3>1 DEF SameTask
  <2> QED  OBVIOUS
<1>2. M \in Table
  BY <1>1 DEF ThreadGone, Table
<1> QED  BY <1>1, <1>2

\* Dropping a parent's records keeps the others, in order.
LEMMA DropFacts ==
  ASSUME WalksOK, NEW R \in Seq(RecType), NEW pid
  PROVE  LET D == exit_records_drop_parent(R, pid)
         IN  /\ D \in Seq(RecType) /\ Len(D) \in Nat /\ Len(D) <= Len(R)
             /\ \E w \in [1 .. Len(D) -> 1 .. Len(R)] :
                  /\ \A k \in 1 .. Len(D) : D[k] = R[w[k]] /\ R[w[k]].parent # pid
                  /\ \A k, l \in 1 .. Len(D) : w[k] = w[l] => k = l
                  /\ \A i \in 1 .. Len(R) : R[i].parent # pid => \E k \in 1 .. Len(D) : w[k] = i
<1> DEFINE kept == {i \in DOMAIN R : R[i].parent # pid}
           w == InOrder(kept)
           n == Cardinality(kept)
           D == exit_records_drop_parent(R, pid)
<1>1. Len(R) \in Nat /\ DOMAIN R = 1 .. Len(R) /\ kept \in SUBSET (1 .. Len(R))
  BY SMTT(30)
<1>2. D = [k \in 1 .. n |-> R[w[k]]]
  BY DEF exit_records_drop_parent
<1> HIDE DEF kept, w, n, D
<1> /\ n \in Nat /\ n <= Len(R) /\ w \in [1 .. n -> kept]
    /\ \A k, l \in 1 .. n : w[k] = w[l] => k = l
    /\ \A i \in kept : \E k \in 1 .. n : w[k] = i
  BY <1>1 DEF w, n, WalksOK
<1> \A i \in kept : i \in 1 .. Len(R) /\ R[i] \in RecType /\ R[i].parent # pid
  BY <1>1, SMTT(30) DEF kept
<1>5. D \in Seq(RecType) /\ Len(D) = n
  <2>1. \A k \in 1 .. n : R[w[k]] \in RecType
    OBVIOUS
  <2> QED  BY <1>2, <2>1, SMTT(30)
<1>6. w \in [1 .. n -> 1 .. Len(R)]
  OBVIOUS
<1>7. \A k \in 1 .. n : D[k] = R[w[k]] /\ R[w[k]].parent # pid
  BY <1>2
<1>8. \A i \in 1 .. Len(R) : R[i].parent # pid => \E k \in 1 .. n : w[k] = i
  BY <1>1 DEF kept
<1>9. /\ w \in [1 .. Len(D) -> 1 .. Len(R)]
      /\ \A k \in 1 .. Len(D) : D[k] = R[w[k]] /\ R[w[k]].parent # pid
      /\ \A k, l \in 1 .. Len(D) : w[k] = w[l] => k = l
      /\ \A i \in 1 .. Len(R) : R[i].parent # pid => \E k \in 1 .. Len(D) : w[k] = i
  BY <1>5, <1>6, <1>7, <1>8
<1>10. Len(D) \in Nat /\ Len(D) <= Len(R)
  BY <1>5
<1> QED  BY <1>5, <1>9, <1>10 DEF D

\* exit_record_add, with a record for a pid that has none.
LEMMA AddFacts ==
  ASSUME NEW D \in Seq(RecType), NEW rec \in RecType, Len(D) <= TASK_EXIT_RECORDS
  PROVE  LET N == exit_record_add(D, rec)
         IN  /\ N \in Seq(RecType) /\ Len(N) <= TASK_EXIT_RECORDS /\ Len(N) \in Nat
             /\ \E o \in {0, 1} :
                  /\ Len(N) = Len(D) + 1 - o /\ Len(N) > 0
                  /\ N[Len(N)] = rec
                  /\ \A k \in 1 .. Len(N) - 1 : k + o \in 1 .. Len(D) /\ N[k] = D[k + o]
                  /\ o = 1 => Len(D) = TASK_EXIT_RECORDS /\ Head(D) = D[1]
<1> Len(D) \in Nat /\ TASK_EXIT_RECORDS \in Nat \ {0}
  BY TaskLifeAssumption, SMTT(30)
<1> CASE Len(D) = TASK_EXIT_RECORDS
  <2>1. D # <<>>
    OBVIOUS
  <2> /\ Tail(D) \in Seq(RecType) /\ Len(Tail(D)) = Len(D) - 1
      /\ \A k \in 1 .. Len(D) - 1 : Tail(D)[k] = D[k + 1]
      /\ Head(D) = D[1]
    BY <2>1, SMTT(30)
  <2> DEFINE t == Tail(D)
             N == Append(t, rec)
  <2>3. exit_record_add(D, rec) = N
    BY DEF exit_record_add
  <2> t \in Seq(RecType) /\ Len(t) = Len(D) - 1 /\ Len(t) \in Nat
    BY SMTT(30)
  <2>5. \A k \in 1 .. Len(t) : t[k] = D[k + 1] /\ k + 1 \in 1 .. Len(D)
    BY SMTT(30)
  <2> HIDE DEF t
  <2>6. /\ N \in Seq(RecType) /\ Len(N) = Len(D) /\ N[Len(N)] = rec
        /\ \A k \in 1 .. Len(N) - 1 : N[k] = t[k] /\ k \in 1 .. Len(t)
    BY SMTT(30)
  <2> HIDE DEF N
  <2> QED  BY <2>3, <2>5, <2>6, SMTT(30)
<1> CASE Len(D) # TASK_EXIT_RECORDS
  <2> DEFINE N == Append(D, rec)
  <2>1. exit_record_add(D, rec) = N
    BY DEF exit_record_add
  <2> /\ N \in Seq(RecType) /\ Len(N) = Len(D) + 1 /\ N[Len(N)] = rec
      /\ \A k \in 1 .. Len(N) - 1 : N[k] = D[k] /\ k \in 1 .. Len(D)
    BY SMTT(30)
  <2> HIDE DEF N
  <2>3. \A k \in 1 .. Len(N) - 1 : k + 0 \in 1 .. Len(D) /\ N[k] = D[k + 0]
    BY SMTT(30)
  <2> QED  BY <2>1, <2>3, SMTT(30)
<1> QED  OBVIOUS

\* The exit records after an exit.
NewRecord(T, s, code) == [pid |-> T[s].pid, parent |-> T[s].parent, code |-> code]

\* N holds the records R that are not of a child of s, but for an evicted one,
\* and then, if it is kept, that of s.
RecordsAre(T, R, s, code, N) ==
  /\ N \in Seq(RecType) /\ Len(N) <= TASK_EXIT_RECORDS
  /\ \A k \in 1 .. Len(N) :
       \/ \E i \in 1 .. Len(R) : N[k] = R[i]
       \/ KeepsRecord(T, s) /\ N[k] = NewRecord(T, s, code)
  /\ /\ \A i, j \in 1 .. Len(R) : R[i].pid = R[j].pid => i = j
     /\ \A i \in 1 .. Len(R) : R[i].pid # T[s].pid
     => \A k, l \in 1 .. Len(N) : N[k].pid = N[l].pid => k = l
  /\ \A i \in 1 .. Len(R) : R[i].parent # T[s].pid =>
       (\E k \in 1 .. Len(N) : N[k] = R[i]) \/ R[i].pid \in Evicted(T, R, s)
  /\ KeepsRecord(T, s) => \E k \in 1 .. Len(N) : N[k] = NewRecord(T, s, code)

LEMMA RecordsFacts ==
  ASSUME WalksOK, NEW T \in Table, NEW R \in Seq(RecType), Len(R) <= TASK_EXIT_RECORDS,
         NEW s \in Slot, T[s].pid # 0, NEW code \in Int
  PROVE  RecordsAre(T, R, s, code, RecordsAfter(T, R, s, code))
<1> DEFINE D == exit_records_drop_parent(R, T[s].pid)
           N == RecordsAfter(T, R, s, code)
           rec == NewRecord(T, s, code)
<1> SUFFICES
      /\ N \in Seq(RecType) /\ Len(N) <= TASK_EXIT_RECORDS
      /\ \A k \in 1 .. Len(N) : (\E i \in 1 .. Len(R) : N[k] = R[i]) \/ (KeepsRecord(T, s) /\ N[k] = rec)
      /\ /\ \A i, j \in 1 .. Len(R) : R[i].pid = R[j].pid => i = j
         /\ \A i \in 1 .. Len(R) : R[i].pid # T[s].pid
         => \A k, l \in 1 .. Len(N) : N[k].pid = N[l].pid => k = l
      /\ \A i \in 1 .. Len(R) : R[i].parent # T[s].pid =>
           (\E k \in 1 .. Len(N) : N[k] = R[i]) \/ R[i].pid \in Evicted(T, R, s)
      /\ KeepsRecord(T, s) => \E k \in 1 .. Len(N) : N[k] = rec
  BY DEF RecordsAre
<1>1. rec \in RecType /\ rec.pid = T[s].pid
  BY SMTT(30) DEF NewRecord, RecType, Table, TaskType, Pid
<1>2. N = IF KeepsRecord(T, s) THEN exit_record_add(D, rec) ELSE D
  BY DEF RecordsAfter, NewRecord
<1>3. Evicted(T, R, s) = IF KeepsRecord(T, s) /\ Len(D) = TASK_EXIT_RECORDS THEN {Head(D).pid} ELSE {}
  BY DEF Evicted
<1>4. /\ D \in Seq(RecType) /\ Len(D) \in Nat /\ Len(D) <= Len(R)
      /\ \E w \in [1 .. Len(D) -> 1 .. Len(R)] :
           /\ \A k \in 1 .. Len(D) : D[k] = R[w[k]] /\ R[w[k]].parent # T[s].pid
           /\ \A k, l \in 1 .. Len(D) : w[k] = w[l] => k = l
           /\ \A i \in 1 .. Len(R) : R[i].parent # T[s].pid => \E k \in 1 .. Len(D) : w[k] = i
  BY DropFacts
<1> HIDE DEF D, N, rec
<1>5. PICK w \in [1 .. Len(D) -> 1 .. Len(R)] :
           /\ \A k \in 1 .. Len(D) : D[k] = R[w[k]] /\ R[w[k]].parent # T[s].pid
           /\ \A k, l \in 1 .. Len(D) : w[k] = w[l] => k = l
           /\ \A i \in 1 .. Len(R) : R[i].parent # T[s].pid => \E k \in 1 .. Len(D) : w[k] = i
  BY <1>4
<1>6. Len(D) <= TASK_EXIT_RECORDS
  BY <1>4, TaskLifeAssumption, SMTT(30)
<1>7. CASE ~KeepsRecord(T, s)
  <2>1. N = D
    BY <1>2, <1>7
  <2>2. \A k \in 1 .. Len(D) : \E i \in 1 .. Len(R) : D[k] = R[i]
    BY <1>5
  <2>3. \A i \in 1 .. Len(R) : R[i].parent # T[s].pid => \E k \in 1 .. Len(D) : D[k] = R[i]
    BY <1>5, SMTT(30)
  <2>4. (\A i, j \in 1 .. Len(R) : R[i].pid = R[j].pid => i = j)
          => \A k, l \in 1 .. Len(D) : D[k].pid = D[l].pid => k = l
    BY <1>5, SMTT(60)
  <2> QED  BY <1>4, <1>6, <1>7, <2>1, <2>2, <2>3, <2>4, SMTT(30)
<1>8. CASE KeepsRecord(T, s)
  <2>1. N = exit_record_add(D, rec)
    BY <1>2, <1>8
  <2>10. LET A == exit_record_add(D, rec)
        IN /\ A \in Seq(RecType) /\ Len(A) <= TASK_EXIT_RECORDS /\ Len(A) \in Nat
           /\ \E o \in {0, 1} :
                  /\ Len(A) = Len(D) + 1 - o /\ Len(A) > 0
                  /\ A[Len(A)] = rec
                  /\ \A k \in 1 .. Len(A) - 1 : k + o \in 1 .. Len(D) /\ A[k] = D[k + o]
                  /\ o = 1 => Len(D) = TASK_EXIT_RECORDS /\ Head(D) = D[1]
    BY <1>1, <1>4, <1>6, AddFacts
  <2>2. /\ N \in Seq(RecType) /\ Len(N) <= TASK_EXIT_RECORDS /\ Len(N) \in Nat
        /\ \E o \in {0, 1} :
                  /\ Len(N) = Len(D) + 1 - o /\ Len(N) > 0
                  /\ N[Len(N)] = rec
                  /\ \A k \in 1 .. Len(N) - 1 : k + o \in 1 .. Len(D) /\ N[k] = D[k + o]
                  /\ o = 1 => Len(D) = TASK_EXIT_RECORDS /\ Head(D) = D[1]
    BY <2>1, <2>10
  <2> PICK o \in {0, 1} :
                /\ Len(N) = Len(D) + 1 - o /\ Len(N) > 0
                /\ N[Len(N)] = rec
                /\ \A k \in 1 .. Len(N) - 1 : k + o \in 1 .. Len(D) /\ N[k] = D[k + o]
                /\ o = 1 => Len(D) = TASK_EXIT_RECORDS /\ Head(D) = D[1]
    BY <2>2
  <2>4. \A k \in 1 .. Len(N) : k = Len(N) \/ k \in 1 .. Len(N) - 1
    BY <2>2, SMTT(30)
  <2>5. \A k \in 1 .. Len(N) - 1 : N[k] = R[w[k + o]] /\ w[k + o] \in 1 .. Len(R)
    BY <1>5
  <2>6. \A k \in 1 .. Len(N) : (\E i \in 1 .. Len(R) : N[k] = R[i]) \/ N[k] = rec
    BY <2>4, <2>5
  <2> ASSUME \A i, j \in 1 .. Len(R) : R[i].pid = R[j].pid => i = j,
             \A i \in 1 .. Len(R) : R[i].pid # T[s].pid,
             NEW k \in 1 .. Len(N), NEW l \in 1 .. Len(N), N[k].pid = N[l].pid
      PROVE  k = l
    <3>1. CASE k = Len(N) /\ l = Len(N)
      BY <3>1
    <3> CASE k = Len(N) /\ l \in 1 .. Len(N) - 1
      <4>1. N[l] = R[w[l + o]] /\ w[l + o] \in 1 .. Len(R)
        BY <2>5
      <4>2. N[l].pid # T[s].pid
        BY <4>1
      <4> QED  BY <4>2, <1>1
    <3> CASE l = Len(N) /\ k \in 1 .. Len(N) - 1
      <4>1. N[k] = R[w[k + o]] /\ w[k + o] \in 1 .. Len(R)
        BY <2>5
      <4>2. N[k].pid # T[s].pid
        BY <4>1
      <4> QED  BY <4>2, <1>1
    <3> CASE l \in 1 .. Len(N) - 1 /\ k \in 1 .. Len(N) - 1
      <4>10. N[k] = R[w[k + o]] /\ w[k + o] \in 1 .. Len(R) /\ N[l] = R[w[l + o]] /\ w[l + o] \in 1 .. Len(R)
        BY <2>5
      <4>1. w[k + o] = w[l + o]
        BY <4>10, SMTT(30)
      <4>2. k + o = l + o
        BY <4>1, <1>5
      <4> QED  BY <4>2, SMTT(30)
    <3> QED  BY <3>1, <2>4
  <2>8. ASSUME NEW i \in 1 .. Len(R), R[i].parent # T[s].pid
        PROVE  (\E k \in 1 .. Len(N) : N[k] = R[i]) \/ R[i].pid \in Evicted(T, R, s)
    <3> PICK k \in 1 .. Len(D) : w[k] = i
      BY <1>5, <2>8
    <3> D[k] = R[i]
      BY <1>5
    <3> CASE o = 1 /\ k = 1
      <4>1. Evicted(T, R, s) = {Head(D).pid} /\ Head(D) = D[1]
        BY <1>3, <1>8
      <4> QED  BY <4>1
    <3> CASE o = 0 \/ k # 1
      <4> k - o \in 1 .. Len(N) - 1 /\ (k - o) + o = k
        BY <2>2, <1>4, SMTT(30)
      <4>10. N[k - o] = D[(k - o) + o]
        OBVIOUS
      <4>2. N[k - o] = R[i] /\ k - o \in 1 .. Len(N)
        BY <4>10, <2>2, SMTT(30)
      <4> QED  BY <4>2
    <3> QED  OBVIOUS
  <2>9. \E k \in 1 .. Len(N) : N[k] = rec
    BY <2>2, SMTT(30)
  <2> QED  BY <2>2, <2>6, <2>8, <2>9, <1>8
<1> QED  BY <1>7, <1>8

-----------------------------------------------------------------------------
(* The steps of the actions.                                               *)

\* One task moves.
LEMMA MovesAt ==
  ASSUME NEW T \in Table, NEW U, NEW np \in Nat, NEW lq \in Seq(Pid), NEW la \in 0 .. MaxPid,
         NEW cl \in Closings, LifeOK(T, np, lq, la, cl), NEW s \in Slot, OnlyAt(T, U, s), cl[s] = 0,
         T[s].state \in {"ready", "blocked"}, U[s].state \in {"ready", "blocked"},
         ParkedAt(U[s]), JoinsAt(T, U[s])
  PROVE  U \in Table /\ LifeOK(U, np, lq, la, cl)
<1>1. U \in Table /\ SamePid(T, U)
  BY DEF OnlyAt, SamePid, SameTask
<1>2. \A q \in Slot : q # s => SameAt(T[q], U[q])
  BY DEF OnlyAt, SameAt
<1> QED  BY <1>1, <1>2, Moves

\* Waking whoever waits for s, and the exit of s after it.  M is the table
\* that mark_task_exited or task_exit_thread leaves.
LEMMA ExitOK ==
  ASSUME NEW T \in Table, NEW M \in Table, NEW np \in Nat, NEW lq \in Seq(Pid), NEW la \in 0 .. MaxPid,
         NEW cl \in Closings, LifeOK(T, np, lq, la, cl),
         NEW s \in Slot, cl[s] = 0, T[s].state \in {"ready", "blocked", "loading"},
         \A q \in Slot : SameTask(T[q], M[q]) /\ M[q].pc = T[q].pc /\ M[q].arg = T[q].arg,
         M[s].state = "zombie",
         \A q \in Slot \ {s} :
            /\ q \in Waiters(T, s) => M[q].state = "ready" /\ M[q].waiting = 0
            /\ q \notin Waiters(T, s) =>
                 /\ M[q].waiting = T[q].waiting
                 /\ M[q].state = T[q].state \/ (WokenInWait4(T, q) /\ M[q].state = "ready"),
         NEW lq2 \in Seq(Pid), NEW la2 \in 0 .. MaxPid, LoadsOK(M, lq2, la2)
  PROVE  LifeOK(M, np, lq2, la2, cl)
<1> DEFINE W == [q \in Slot |-> IF q = s THEN T[q] ELSE M[q]]
<1> W \in Table /\ W[s] = T[s] /\ \A q \in Slot \ {s} : W[q] = M[q]
  BY DEF Table
<1> HIDE DEF W
<1>2. SamePid(T, W) /\ SamePid(W, M)
  BY SMTT(30) DEF SamePid, SameTask
<1>3. T[s].pid # 0
  BY DEF LifeOK, PidsOK
<1>4. ASSUME NEW q \in Slot, ~SameAt(T[q], W[q])
      PROVE  /\ cl[q] = 0
             /\ T[q].state \in {"ready", "blocked"} /\ W[q].state \in {"ready", "blocked"}
             /\ ParkedAt(W[q]) /\ JoinsAt(T, W[q])
  <2> q # s /\ W[q] = M[q]
    BY <1>4 DEF SameAt
  <2> CASE q \in Waiters(T, s)
    <3> T[q].state = "blocked" /\ T[q].waiting # 0 /\ M[q].state = "ready" /\ M[q].waiting = 0
      BY <1>3 DEF Waiters
    <3>2. cl[q] = 0
      BY DEF LifeOK, ReapsOK
    <3> QED  BY <3>2 DEF ParkedAt, JoinsAt
  <2> CASE q \notin Waiters(T, s)
    <3> WokenInWait4(T, q) /\ M[q].state = "ready" /\ M[q].waiting = T[q].waiting
      BY <1>4 DEF SameAt
    <3>2. T[q].state = "blocked" /\ T[q].waiting = 0 /\ cl[q] = 0
      BY DEF WokenInWait4, LifeOK, ParksOK, ParkedAt, ReapsOK
    <3> QED  BY <3>2 DEF ParkedAt, JoinsAt
  <2> QED  OBVIOUS
<1>5. LifeOK(W, np, lq, la, cl)
  BY <1>2, <1>4, Moves
<1>6. \A q \in Slot \ {s} : SameAt(W[q], M[q])
  BY DEF SameAt
<1> ASSUME NEW q \in Slot \ {s}, W[q].state = "blocked", W[q].pc = "join" PROVE W[q].arg # W[s].pid
  <2> q \notin Waiters(T, s) /\ T[q].state = "blocked" /\ T[q].pc = "join" /\ W[q].arg = T[q].arg
    OBVIOUS
  <2>2. T[q].waiting = T[q].arg
    BY DEF LifeOK, ParksOK, ParkedAt
  <2> QED  BY <2>2 DEF Waiters
<1> QED  BY <1>2, <1>5, <1>6, Dies, SMTT(30)

\* mark_task_exited, wherever it is called from.
LEMMA MarkOK ==
  ASSUME LifeInv, NEW s \in Slot, NEW code \in Int, closing[s] = 0,
         task[s].state \in {"ready", "blocked", "loading"}, mark_task_exited(s, code),
         load_q' \in Seq(Pid), load_active' \in 0 .. MaxPid, cancelled' \in BOOLEAN,
         cancelled' => load_active' # 0, LoadsOK(task', load_q', load_active'),
         next_pid' = next_pid, closing' = closing, taken' = taken
  PROVE  LifeInv'
<1>w. WalksOK
  BY DEF LifeInv
<1> USE DEF LifeInv
<1>1. /\ task' \in Table
      /\ \A q \in Slot : SameTask(task[q], task'[q]) /\ task'[q].pc = task[q].pc /\ task'[q].arg = task[q].arg
      /\ task'[s].state = "zombie"
      /\ \A q \in Slot \ {s} :
            /\ q \in Waiters(task, s) => task'[q].state = "ready" /\ task'[q].waiting = 0
            /\ q \notin Waiters(task, s) =>
                 /\ task'[q].waiting = task[q].waiting
                 /\ task'[q].state = task[q].state \/ (WokenInWait4(task, q) /\ task'[q].state = "ready")
  <2>1. task' = Marked(task, s, code)
    BY DEF mark_task_exited
  <2>2. MarkedAs(task, task', s, code)
    BY <2>1, MarkedFacts
  <2> QED  BY <2>2 DEF MarkedAs
<1>2. LifeOK(task', next_pid', load_q', load_active', closing')
  <2>1. next_pid \in Nat
    BY TaskLifeAssumption, SMTT(30)
  <2> QED  BY <1>1, <2>1, ExitOK
<1> task[s].pid # 0 /\ task[s].pid \in Pid /\ task[s].parent \in 0 .. MaxPid
  BY SMTT(30) DEF LifeOK, PidsOK, Table, TaskType, Pid
<1>4. records' \in Seq(RecType) /\ Len(records') <= TASK_EXIT_RECORDS
  <2>1. records' = RecordsAfter(task, records, s, code)
    BY DEF mark_task_exited
  <2> QED  BY <2>1, <1>w, RecordsFacts DEF RecordsAre
<1>5. exited' \in [Pid -> [done : BOOLEAN, code : Int, parent : 0 .. MaxPid]]
  BY DEF mark_task_exited
<1> QED  BY <1>1, <1>2, <1>4, <1>5

\* Dying changes nothing for the loader, unless the task was loading.
LEMMA LoadsKept ==
  ASSUME NEW T \in Table, NEW M \in Table, NEW lq \in Seq(Pid), NEW la \in 0 .. MaxPid, LoadsOK(T, lq, la),
         SamePid(T, M), \A q \in Slot : T[q].state = "loading" <=> M[q].state = "loading"
  PROVE  LoadsOK(M, lq, la)
BY SMTT(30) DEF LoadsOK, SamePid, Has

LEMMA MarkStates ==
  ASSUME LifeInv, NEW s \in Slot, NEW code \in Int, mark_task_exited(s, code)
  PROVE  /\ task' \in Table /\ SamePid(task, task') /\ task'[s].state = "zombie"
         /\ \A q \in Slot \ {s} : task'[q].state = "loading" <=> task[q].state = "loading"
<1>1. MarkedAs(task, task', s, code)
  BY MarkedFacts DEF LifeInv, mark_task_exited
<1> QED  BY <1>1 DEF MarkedAs, SamePid, SameTask, Waiters, WokenInWait4

LEMMA MarkKeepsLoads ==
  ASSUME LifeInv, NEW s \in Slot, task[s].state \in {"ready", "blocked"}, NEW code \in Int,
         mark_task_exited(s, code)
  PROVE  LoadsOK(task', load_q, load_active)
BY MarkStates, LoadsKept DEF LifeInv, LifeOK

\* A running task is parked nowhere and reaps nothing.
LEMMA ReadyFacts ==
  ASSUME NEW T \in Table, NEW np, NEW lq, NEW la, NEW cl \in Closings, LifeOK(T, np, lq, la, cl),
         NEW s \in Slot, T[s].state \in {"ready", "loading"}
  PROVE  cl[s] = 0 /\ T[s].waiting = 0
BY DEF LifeOK, ReapsOK, ParksOK, ParkedAt

\* task_find finds the task it is asked for, and there is no other.
LEMMA FindIs ==
  ASSUME NEW T \in Table, NEW np, PidsOK(T, np), NEW p, Has(T, p)
  PROVE  /\ task_find(T, p) \in Slot /\ T[task_find(T, p)].pid = p
         /\ \A s \in Slot : T[s].pid = p => s = task_find(T, p)
<1> PICK s \in Slot : T[s].pid = p /\ p # 0
  BY SMTT(30) DEF Has
<1>2. task_find(T, p) \in Slot /\ T[task_find(T, p)].pid = p
  BY DEF task_find
<1> QED  BY <1>2 DEF PidsOK

LEMMA FreeSlotFacts ==
  ASSUME WalksOK, NEW T \in Table, FreeSlots(T) # {}
  PROVE  Lowest(FreeSlots(T)) \in Slot /\ T[Lowest(FreeSlots(T))].state = "free"
<1>1. FreeSlots(T) \in SUBSET (1 .. MAX_TASKS) /\ MAX_TASKS \in Nat
  BY TaskLifeAssumption DEF FreeSlots, Slot
<1>2. Lowest(FreeSlots(T)) \in FreeSlots(T)
  BY <1>1, LowestIn
<1> QED  BY <1>2 DEF FreeSlots

LEMMA ReapableFacts ==
  ASSUME WalksOK, NEW T \in Table, NEW S \in SUBSET Reapable(T), S # {}
  PROVE  Lowest(S) \in S /\ Lowest(S) \in Slot /\ T[Lowest(S)].state = "zombie" /\ T[Lowest(S)].unclaimed
<1>1. S \in SUBSET (1 .. MAX_TASKS) /\ MAX_TASKS \in Nat
  BY TaskLifeAssumption DEF Reapable, Slot
<1>2. Lowest(S) \in S
  BY <1>1, LowestIn
<1> QED  BY <1>2 DEF Reapable

\* The record a spawning call puts into the free slot.
Newborn(T, s, what, np) ==
  IF what = "exec" THEN NewTask(np, T[s].pid, "ready")
  ELSE IF what = "spawn" THEN NewTask(np, T[s].pid, "loading")
  ELSE [NewTask(np, T[s].pid, "ready") EXCEPT !.thread = TRUE, !.vm = T[s].vm]

LEMMA NewbornFacts ==
  ASSUME NEW T \in Table, NEW s \in Slot, NEW what \in Whats, NEW np \in 2 .. MaxPid
  PROVE  LET n == Newborn(T, s, what, np)
         IN  /\ n \in TaskType /\ n.pid = np /\ n.parent = T[s].pid /\ n.waiting = 0 /\ n.pc = "user"
             /\ n.state = IF what = "spawn" THEN "loading" ELSE "ready"
             /\ n.thread = (what = "thread") /\ n.arg = 0
<1> np \in 0 .. MaxPid /\ T[s].pid \in 0 .. MaxPid /\ T[s].vm \in 0 .. MaxPid
  BY SMTT(30) DEF Table, TaskType
<1> CASE what = "exec"
  <2>1. NewAs(NewTask(np, T[s].pid, "ready"), np, T[s].pid, "ready")
    BY NewTaskFacts DEF States
  <2> QED  BY <2>1 DEF Newborn, NewAs
<1> CASE what = "spawn"
  <2>1. NewAs(NewTask(np, T[s].pid, "loading"), np, T[s].pid, "loading")
    BY NewTaskFacts DEF States
  <2> QED  BY <2>1 DEF Newborn, NewAs
<1> CASE what = "thread"
  <2> DEFINE m == NewTask(np, T[s].pid, "ready")
             n == [m EXCEPT !.thread = TRUE, !.vm = T[s].vm]
  <2>1. NewAs(m, np, T[s].pid, "ready")
    BY NewTaskFacts DEF States
  <2> HIDE DEF m
  <2>2. /\ n \in TaskType /\ n.pid = np /\ n.parent = T[s].pid /\ n.waiting = 0 /\ n.pc = "user"
        /\ n.state = "ready" /\ n.thread = TRUE /\ n.arg = 0
    BY <2>1 DEF TaskType, NewAs
  <2> QED  BY <2>2 DEF Newborn, m
<1> QED  BY DEF Whats

\* A successful spawning call fills the slot and moves the caller.
LEMMA CreatedFacts ==
  ASSUME WalksOK, NEW T \in Table, NEW s \in Slot, T[s].state \in {"ready", "blocked"}, NEW what \in Whats,
         next_pid \in 2 .. MaxPid, FreeSlots(T) # {}, Create(T, s, what)
  PROVE  /\ next_pid' = next_pid + 1
         /\ load_q' = IF what = "spawn" THEN Append(load_q, next_pid) ELSE load_q
         /\ \E f \in Slot, T1 \in Table :
              /\ T[f].state = "free" /\ f # s
              /\ T1[f] = Newborn(T, s, what, next_pid) /\ \A q \in Slot \ {f} : T1[q] = T[q]
              /\ OnlyAt(T1, task', s)
              /\ IF what = "exec" THEN At(task', s, "blocked", next_pid, "exec", next_pid)
                 ELSE At(task', s, "ready", T[s].waiting, "user", T[s].arg)
<1> DEFINE f == Lowest(FreeSlots(T))
           n == Newborn(T, s, what, next_pid)
           T1 == [T EXCEPT ![f] = n]
<1> f \in Slot /\ T[f].state = "free" /\ f # s
  BY FreeSlotFacts
<1>2. n \in TaskType
  BY NewbornFacts
<1>3. ~(next_pid > MaxPid)
  BY TaskLifeAssumption, SMTT(30)
<1> /\ next_pid' = next_pid + 1
    /\ load_q' = IF what = "spawn" THEN Append(load_q, next_pid) ELSE load_q
    /\ what = "exec" => task' = Execs(T, s, f)
    /\ what = "spawn" => task' = Reserves(T, s, f)
    /\ what = "thread" => task' = SpawnsThread(T, s, f)
  BY <1>3 DEF Create, Whats
<1> /\ what = "exec" => task' = [T1 EXCEPT ![s].state = "blocked", ![s].waiting = next_pid,
                                           ![s].pc = "exec", ![s].arg = next_pid]
    /\ what # "exec" => task' = [T1 EXCEPT ![s].state = "ready", ![s].pc = "user"]
  BY DEF Execs, Reserves, SpawnsThread, Newborn, Whats
<1> HIDE DEF f, n
<1> T1 \in Table /\ T1[f] = n /\ \A q \in Slot \ {f} : T1[q] = T[q]
  BY <1>2 DEF Table
<1> HIDE DEF T1
<1> CASE what = "exec"
  <2>1. OnlyAt(T1, task', s) /\ At(task', s, "blocked", next_pid, "exec", next_pid)
    <3>1. next_pid \in 0 .. MaxPid /\ "exec" \in Places
      BY SMTT(30) DEF Places
    <3>2. task' = [T1 EXCEPT ![s].state = "blocked", ![s].waiting = next_pid, ![s].pc = "exec", ![s].arg = next_pid]
      OBVIOUS
    <3> QED  BY <3>1, <3>2, SetWaiting
  <2> QED  BY <2>1 DEF n
<1> CASE what # "exec"
  <2>1. OnlyAt(T1, task', s) /\ At(task', s, "ready", T1[s].waiting, "user", T1[s].arg)
    BY SetUser
  <2> QED  BY <2>1 DEF n
<1> QED  OBVIOUS

LEMMA CreateOK ==
  ASSUME WalksOK, NEW T \in Table, NEW cl \in Closings, next_pid \in 2 .. MaxPid + 1,
         load_q \in Seq(Pid), load_active \in 0 .. MaxPid, LifeOK(T, next_pid, load_q, load_active, cl),
         NEW s \in Slot, cl[s] = 0, T[s].state \in {"ready", "blocked"}, T[s].waiting = 0,
         NEW what \in Whats, Create(T, s, what)
  PROVE  /\ task' \in Table /\ next_pid' \in 2 .. MaxPid + 1 /\ load_q' \in Seq(Pid)
         /\ LifeOK(task', next_pid', load_q', load_active, cl)
<1>0. next_pid \in Nat
  BY TaskLifeAssumption, SMTT(30)
<1>1. CASE FreeSlots(T) = {} \/ next_pid > MaxPid
  <2>1. task' = [T EXCEPT ![s].state = "ready", ![s].pc = "user"] /\ next_pid' = next_pid /\ load_q' = load_q
    BY <1>1 DEF Create
  <2>2. OnlyAt(T, task', s) /\ At(task', s, "ready", T[s].waiting, "user", T[s].arg)
    BY <2>1, SetUser
  <2>3. ParkedAt(task'[s]) /\ JoinsAt(T, task'[s]) /\ task'[s].state \in {"ready", "blocked"}
    BY <2>2 DEF At, ParkedAt, JoinsAt
  <2>4. task' \in Table /\ LifeOK(task', next_pid, load_q, load_active, cl)
    BY <1>0, <2>2, <2>3, MovesAt
  <2> QED  BY <2>1, <2>4
<1>2. CASE FreeSlots(T) # {} /\ next_pid <= MaxPid
  <2> next_pid \in 2 .. MaxPid
    BY <1>2, TaskLifeAssumption, SMTT(30)
  <2>2. PICK f \in Slot, T1 \in Table :
              /\ T[f].state = "free" /\ f # s
              /\ T1[f] = Newborn(T, s, what, next_pid) /\ \A q \in Slot \ {f} : T1[q] = T[q]
              /\ OnlyAt(T1, task', s)
              /\ IF what = "exec" THEN At(task', s, "blocked", next_pid, "exec", next_pid)
                 ELSE At(task', s, "ready", T[s].waiting, "user", T[s].arg)
    BY <1>2, CreatedFacts, SMTT(30)
  <2>3. /\ next_pid' = next_pid + 1
        /\ load_q' = IF what = "spawn" THEN Append(load_q, next_pid) ELSE load_q
    BY <1>2, CreatedFacts, SMTT(30)
  <2>4. /\ T1[f].pid = next_pid /\ T1[f].waiting = 0 /\ T1[f].pc = "user"
        /\ T1[f].state = IF what = "spawn" THEN "loading" ELSE "ready"
    BY <2>2, NewbornFacts, SMTT(30)
  <2>5. load_q' \in Seq(Pid) /\ LifeOK(T1, next_pid + 1, load_q', load_active, cl)
    <3>1. \/ T1[f].state = "ready" /\ load_q' = load_q
          \/ T1[f].state = "loading" /\ load_q' = Append(load_q, next_pid)
      BY <2>3, <2>4
    <3> QED  BY <2>2, <2>4, <3>1, Fills, SMTT(30)
  <2>6. /\ ParkedAt(task'[s]) /\ JoinsAt(T1, task'[s]) /\ task'[s].state \in {"ready", "blocked"}
        /\ T1[s] = T[s]
    BY <2>2 DEF At, ParkedAt, JoinsAt
  <2>7. task' \in Table /\ LifeOK(task', next_pid + 1, load_q', load_active, cl)
    <3>1. next_pid + 1 \in Nat
      BY <1>0, SMTT(30)
    <3> QED  BY <3>1, <2>2, <2>5, <2>6, MovesAt
  <2>8. next_pid + 1 \in 2 .. MaxPid + 1
    BY TaskLifeAssumption, SMTT(30)
  <2> QED  BY <2>3, <2>5, <2>7, <2>8
<1> QED  BY <1>0, <1>1, <1>2, TaskLifeAssumption, SMTT(30)

-----------------------------------------------------------------------------
(* LifeInv is inductive, action by action.                                 *)

\* A move of one task and nothing else.
LEMMA MoveInv ==
  ASSUME LifeInv, NEW s \in Slot, OnlyAt(task, task', s), closing[s] = 0,
         task[s].state \in {"ready", "blocked"}, task'[s].state \in {"ready", "blocked"},
         ParkedAt(task'[s]), JoinsAt(task, task'[s]),
         UNCHANGED <<next_pid, loader, closing, exited>>,
         records' \in Seq(RecType), Len(records') <= TASK_EXIT_RECORDS, taken' \in [Pid -> Seq(Int)]
  PROVE  LifeInv'
<1>1. next_pid \in Nat
  BY TaskLifeAssumption, SMTT(30) DEF LifeInv
<1>2. task' \in Table /\ LifeOK(task', next_pid, load_q, load_active, closing)
  BY <1>1, MovesAt DEF LifeInv
<1> QED  BY <1>2 DEF LifeInv, loader

LEMMA JoinResumeInv == ASSUME LifeInv, NEW s \in Slot, sys_thread_join_resume(s) PROVE LifeInv'
<1> OnlyAt(task, task', s) /\ At(task', s, task[s].state, task[s].waiting, "user", task[s].arg)
  BY SetPc DEF sys_thread_join_resume, LifeInv
<1> task[s].state = "ready" /\ closing[s] = 0 /\ task[s].waiting = 0
  BY ReadyFacts DEF sys_thread_join_resume, Runs, LifeInv
<1>3. ParkedAt(task'[s]) /\ JoinsAt(task, task'[s]) /\ task'[s].state = "ready"
  BY DEF At, ParkedAt, JoinsAt
<1> QED  BY <1>3, MoveInv DEF sys_thread_join_resume, LifeInv, observers

LEMMA InterruptInv == ASSUME LifeInv, NEW s \in Slot, task_interrupt(s) PROVE LifeInv'
<1> OnlyAt(task, task', s) /\ At(task', s, "ready", task[s].waiting, "user", 0)
  BY SetInterrupted DEF task_interrupt, LifeInv
<1> task[s].state = "blocked" /\ closing[s] = 0 /\ task[s].waiting = 0
  BY DEF task_interrupt, LifeInv, LifeOK, ReapsOK, ParksOK, ParkedAt
<1>3. ParkedAt(task'[s]) /\ JoinsAt(task, task'[s]) /\ task'[s].state = "ready"
  BY DEF At, ParkedAt, JoinsAt
<1> QED  BY <1>3, MoveInv DEF task_interrupt, LifeInv, observers

\* The look at the target and the parking are one step, so the target is no
\* zombie when the joiner sleeps.
LEMMA JoinInv == ASSUME LifeInv, NEW s \in Slot, NEW t \in Slot, sys_thread_join(s, t) PROVE LifeInv'
<1> task[t].pid \in 0 .. MaxPid /\ task[t].pid # 0 /\ "join" \in Places
  BY DEF sys_thread_join, LifeInv, Table, TaskType, Places
<1> OnlyAt(task, task', s) /\ At(task', s, "blocked", task[t].pid, "join", task[t].pid)
  <2>1. task' = [task EXCEPT ![s].state = "blocked", ![s].waiting = task[t].pid,
                             ![s].pc = "join", ![s].arg = task[t].pid]
    BY DEF sys_thread_join
  <2>2. task \in Table
    BY DEF LifeInv
  <2>3. PICK p \in 0 .. MaxPid : p = task[t].pid
    OBVIOUS
  <2> QED  BY <2>1, <2>2, <2>3, SetWaiting
<1>2. task[s].state = "ready" /\ closing[s] = 0 /\ task[s].waiting = 0
  BY ReadyFacts, SMTT(30) DEF sys_thread_join, Runs, Calls, LifeInv
<1>3. JoinsAt(task, task'[s])
  <2>1. task[t].state # "zombie"
    BY DEF sys_thread_join
  <2>2. \A u \in Slot : task[t].pid = task[u].pid => u = t
    BY DEF LifeInv, LifeOK, PidsOK
  <2> QED  BY <2>1, <2>2 DEF At, JoinsAt
<1>4. ParkedAt(task'[s]) /\ task'[s].state = "blocked"
  BY DEF At, ParkedAt
<1> QED  BY <1>2, <1>3, <1>4, MoveInv DEF sys_thread_join, LifeInv, observers

\* What joining two sequences gives.
LEMMA JoinFacts ==
  ASSUME NEW S, NEW a \in Seq(S), NEW b \in Seq(S)
  PROVE  /\ a \o b \in Seq(S) /\ Len(a \o b) = Len(a) + Len(b)
         /\ \A k \in 1 .. Len(a) + Len(b) : (a \o b)[k] = IF k <= Len(a) THEN a[k] ELSE b[k - Len(a)]
<1>0. Len(a) \in Nat /\ Len(b) \in Nat
  BY SMTT(30)
<1>1. Len(a \o b) = Len(a) + Len(b)
  BY SMTT(30)
<1>2. a \o b \in Seq(S)
  BY SMTT(30)
<1>3. \A k \in 1 .. Len(a) : (a \o b)[k] = a[k]
  BY SMTT(30)
<1>4. \A k \in Len(a) + 1 .. Len(a) + Len(b) : (a \o b)[k] = b[k - Len(a)]
  BY SMTT(30)
<1> QED  BY <1>0, <1>1, <1>2, <1>3, <1>4, SMTT(30)

\* Taking an element out of a sequence.
LEMMA UnlinkFacts ==
  ASSUME NEW S, NEW q \in Seq(S), NEW i \in 1 .. Len(q)
  PROVE  LET u == Unlink(q, i)
         IN  /\ u \in Seq(S) /\ Len(u) = Len(q) - 1
             /\ \A k \in 1 .. Len(u) : u[k] = IF k < i THEN q[k] ELSE q[k + 1]
<1> DEFINE a == SubSeq(q, 1, i - 1)
           b == SubSeq(q, i + 1, Len(q))
<1> Len(q) \in Nat /\ i \in Nat /\ i <= Len(q) /\ i >= 1
  BY SMTT(30)
<1> a \in Seq(S) /\ Len(a) = i - 1 /\ \A k \in 1 .. i - 1 : a[k] = q[k]
  BY SMTT(30)
<1>2. b \in Seq(S) /\ Len(b) = Len(q) - i /\ \A k \in 1 .. Len(q) - i : b[k] = q[i + k]
  BY SMTT(30)
<1>3. Unlink(q, i) = a \o b
  BY DEF Unlink
<1> HIDE DEF a, b
<1>4. /\ a \o b \in Seq(S) /\ Len(a \o b) = Len(q) - 1
      /\ \A k \in 1 .. Len(q) - 1 : (a \o b)[k] = IF k <= Len(a) THEN a[k] ELSE b[k - Len(a)]
  <2>1. /\ a \o b \in Seq(S) /\ Len(a \o b) = Len(a) + Len(b)
        /\ \A k \in 1 .. Len(a) + Len(b) : (a \o b)[k] = IF k <= Len(a) THEN a[k] ELSE b[k - Len(a)]
    BY <1>2, JoinFacts
  <2>2. Len(a) + Len(b) = Len(q) - 1
    BY <1>2, SMTT(30)
  <2> QED  BY <2>1, <2>2
<1>5. ASSUME NEW k \in 1 .. Len(q) - 1 PROVE (a \o b)[k] = IF k < i THEN q[k] ELSE q[k + 1]
  <2>1. CASE k < i
    BY <2>1, <1>4, SMTT(30)
  <2>2. CASE ~(k < i)
    <3>1. k - (i - 1) \in 1 .. Len(q) - i /\ i + (k - (i - 1)) = k + 1 /\ ~(k <= Len(a)) /\ ~(k < i)
      BY <2>2, SMTT(30)
    <3> QED  BY <3>1, <1>2, <1>4
  <2> QED  BY <2>1, <2>2
<1> QED  BY <1>3, <1>4, <1>5

\* wait4 takes a record, parks or returns.
LEMMA WaitInv ==
  ASSUME LifeInv, NEW s \in Slot, NEW w \in Pid \cup {AnyChild}, NEW nohang \in BOOLEAN,
         task_wait_child(s, w, nohang)
  PROVE  LifeInv'
<1>w. WalksOK
  BY DEF LifeInv
<1> task \in Table /\ records \in Seq(RecType) /\ Len(records) <= TASK_EXIT_RECORDS /\ taken \in [Pid -> Seq(Int)]
  BY DEF LifeInv
<1> task[s].state = "ready" /\ closing[s] = 0 /\ task[s].waiting = 0
  BY ReadyFacts, SMTT(30) DEF task_wait_child, Runs, Calls, LifeInv
<1>2. UNCHANGED <<next_pid, loader, closing, exited>>
  BY DEF task_wait_child
<1>3. CASE Matching(s, w) # {} /\ Collect(s, w)
  <2> DEFINE i == Lowest(Matching(s, w))
  <2>1. i \in 1 .. Len(records)
    <3>1. Matching(s, w) \in SUBSET (1 .. Len(records)) /\ Len(records) \in Nat
      BY SMTT(30) DEF Matching
    <3> QED  BY <3>1, <1>3, <1>w, LowestIn
  <2> HIDE DEF i
  <2> /\ records' = Unlink(records, i)
      /\ taken' = [taken EXCEPT ![records[i].pid] = Append(@, records[i].code)]
      /\ task' = [task EXCEPT ![s].pc = "user", ![s].arg = 0]
    BY <1>3 DEF Collect, i
  <2>3. records' \in Seq(RecType) /\ Len(records') <= TASK_EXIT_RECORDS
    <3>1. records' \in Seq(RecType) /\ Len(records') = Len(records) - 1 /\ Len(records) \in Nat
      BY <2>1, UnlinkFacts, SMTT(30)
    <3> QED  BY <3>1, TaskLifeAssumption, SMTT(30)
  <2>4. taken' \in [Pid -> Seq(Int)]
    <3>0. records[i] \in RecType
      BY <2>1, SMTT(30)
    <3>1. records[i].pid \in Pid /\ records[i].code \in Int
      BY <3>0 DEF RecType
    <3> QED  BY <3>1, SMTT(30)
  <2> OnlyAt(task, task', s) /\ At(task', s, task[s].state, task[s].waiting, "user", 0)
    BY SetReturn
  <2>6. ParkedAt(task'[s]) /\ JoinsAt(task, task'[s]) /\ task'[s].state = "ready"
    BY DEF At, ParkedAt, JoinsAt
  <2> QED  BY <1>2, <2>3, <2>4, <2>6, MoveInv
<1> CASE Park(s, w)
  <2>1. w \in Int \cup Whats /\ "wait4" \in Places
    BY SMTT(30) DEF Pid, AnyChild, Places
  <2> OnlyAt(task, task', s) /\ At(task', s, "blocked", task[s].waiting, "wait4", w)
    <3>1. task' = [task EXCEPT ![s].state = "blocked", ![s].pc = "wait4", ![s].arg = w]
      BY DEF Park
    <3> QED  BY <2>1, <3>1, SetParked
  <2>3. ParkedAt(task'[s]) /\ JoinsAt(task, task'[s]) /\ task'[s].state = "blocked"
    BY DEF At, ParkedAt, JoinsAt
  <2> QED  BY <1>2, <2>3, MoveInv DEF Park
<1> CASE Return(s)
  <2> OnlyAt(task, task', s) /\ At(task', s, task[s].state, task[s].waiting, "user", 0)
    BY SetReturn DEF Return
  <2>2. ParkedAt(task'[s]) /\ JoinsAt(task, task'[s]) /\ task'[s].state = "ready"
    BY DEF At, ParkedAt, JoinsAt
  <2> QED  BY <1>2, <2>2, MoveInv DEF Return
<1> QED  BY <1>3 DEF task_wait_child

LEMMA ExitInv == ASSUME LifeInv, NEW s \in Slot, NEW c \in Codes, task_exit(s, c) PROVE LifeInv'
<1> task[s].state = "ready" /\ closing[s] = 0
  BY ReadyFacts DEF task_exit, Calls, Runs, LifeInv
<1> mark_task_exited(s, c) /\ UNCHANGED <<next_pid, load_q, load_active, cancelled, closing, taken>> /\ c \in Int
  BY TaskLifeAssumption DEF task_exit, loader
<1>3. LoadsOK(task', load_q, load_active)
  BY MarkKeepsLoads
<1> QED  BY <1>3, MarkOK DEF LifeInv

\* The process whose request the loader holds is only flagged; one whose
\* request is queued dies with it.
LEMMA KillInv == ASSUME LifeInv, NEW s \in Slot, NEW v \in Slot, task_kill(s, v) PROVE LifeInv'
<1>w. WalksOK
  BY DEF LifeInv
<1>0. /\ closing[v] = 0 /\ UNCHANGED <<next_pid, closing, taken>> /\ Killed \in Int
  BY SMTT(30) DEF task_kill, VfsActive, Killed
<1>1. CASE /\ task[v].state \in {"ready", "blocked"} /\ mark_task_exited(v, Killed)
           /\ UNCHANGED <<load_q, load_active, cancelled>>
  <2>1. LoadsOK(task', load_q, load_active)
    BY <1>0, <1>1, MarkKeepsLoads
  <2> QED  BY <1>0, <1>1, <2>1, MarkOK DEF LifeInv
<1>2. CASE /\ task[v].state = "loading" /\ load_active = task[v].pid /\ cancelled' = TRUE
           /\ UNCHANGED <<task, records, exited, lost, load_q, load_active>>
  <2>1. task[v].pid # 0
    BY <1>2 DEF LifeInv, LifeOK, PidsOK
  <2> QED  BY <1>0, <1>2, <2>1 DEF LifeInv
<1>3. CASE /\ task[v].state = "loading" /\ load_active # task[v].pid /\ Requests(task[v].pid) # {}
           /\ load_q' = Unlink(load_q, Lowest(Requests(task[v].pid)))
           /\ mark_task_exited(v, Killed) /\ UNCHANGED <<load_active, cancelled>>
  <2> DEFINE i == Lowest(Requests(task[v].pid))
             p == task[v].pid
  <2>0. load_q \in Seq(Pid) /\ load_active \in 0 .. MaxPid /\ task \in Table /\ p # 0
    BY <1>3 DEF LifeInv, LifeOK, PidsOK
  <2>1. i \in 1 .. Len(load_q) /\ load_q[i] = p
    <3> Requests(p) \in SUBSET (1 .. Len(load_q)) /\ Len(load_q) \in Nat
      BY <2>0, SMTT(30) DEF Requests
    <3>2. i \in Requests(p)
      BY <1>3, <1>w, LowestIn
    <3> QED  BY <3>2 DEF Requests
  <2>2. load_q' = Unlink(load_q, i)
    BY <1>3
  <2> HIDE DEF i, p
  <2> /\ load_q' \in Seq(Pid) /\ Len(load_q') = Len(load_q) - 1 /\ Len(load_q) \in Nat
      /\ \A k \in 1 .. Len(load_q') : load_q'[k] = IF k < i THEN load_q[k] ELSE load_q[k + 1]
    BY <2>0, <2>1, <2>2, UnlinkFacts, SMTT(30)
  <2>4. \A k, l \in 1 .. Len(load_q) : load_q[k] = load_q[l] => k = l
    BY DEF LifeInv, LifeOK, LoadsOK
  <2>5. \A k \in 1 .. Len(load_q') : \E l \in 1 .. Len(load_q) : load_q'[k] = load_q[l] /\ l # i
    <3> SUFFICES ASSUME NEW k \in 1 .. Len(load_q')
                 PROVE  \E l \in 1 .. Len(load_q) : load_q'[k] = load_q[l] /\ l # i
      OBVIOUS
    <3> CASE k < i
      BY <2>1, SMTT(30)
    <3> CASE ~(k < i)
      <4>1. k + 1 \in 1 .. Len(load_q) /\ k + 1 # i
        BY <2>1, SMTT(30)
      <4> QED  BY <4>1
    <3> QED  OBVIOUS
  <2>6. \A l \in 1 .. Len(load_q) : l # i => \E k \in 1 .. Len(load_q') : load_q'[k] = load_q[l]
    <3> SUFFICES ASSUME NEW l \in 1 .. Len(load_q), l # i
                 PROVE  \E k \in 1 .. Len(load_q') : load_q'[k] = load_q[l]
      OBVIOUS
    <3> CASE l < i
      <4>1. l \in 1 .. Len(load_q')
        BY <2>1, SMTT(30)
      <4> QED  BY <4>1
    <3> CASE l > i
      <4> l - 1 \in 1 .. Len(load_q') /\ ~(l - 1 < i) /\ (l - 1) + 1 = l
        BY <2>1, SMTT(30)
      <4>2. load_q'[l - 1] = load_q[(l - 1) + 1]
        OBVIOUS
      <4> QED  BY <4>2
    <3> QED  BY <2>1, SMTT(30)
  <2>7. \A k, l \in 1 .. Len(load_q') : load_q'[k] = load_q'[l] => k = l
    <3> SUFFICES ASSUME NEW k \in 1 .. Len(load_q'), NEW l \in 1 .. Len(load_q'), load_q'[k] = load_q'[l]
                 PROVE  k = l
      OBVIOUS
    <3> DEFINE kk == IF k < i THEN k ELSE k + 1
               ll == IF l < i THEN l ELSE l + 1
    <3>1. kk \in 1 .. Len(load_q) /\ ll \in 1 .. Len(load_q)
      BY <2>1, SMTT(30)
    <3>2. load_q'[k] = load_q[kk] /\ load_q'[l] = load_q[ll]
      OBVIOUS
    <3>3. kk = ll
      BY <3>1, <3>2, <2>4
    <3> QED  BY <3>3, <2>1, SMTT(30)
  <2>8. \A x : Asked(load_q', load_active, x) <=> Asked(load_q, load_active, x) /\ x # p
    <3>1. load_active # p
      BY <1>3 DEF p
    <3>2. \A k \in 1 .. Len(load_q') : load_q'[k] # p
      BY <2>1, <2>4, <2>5, SMTT(30)
    <3>3. \A x : (\E k \in 1 .. Len(load_q') : load_q'[k] = x)
                  <=> (\E l \in 1 .. Len(load_q) : load_q[l] = x) /\ x # p
      <4> TAKE x
      <4> ASSUME NEW k \in 1 .. Len(load_q'), load_q'[k] = x
          PROVE  (\E l \in 1 .. Len(load_q) : load_q[l] = x) /\ x # p
        BY <2>5, <3>2
      <4> ASSUME NEW l \in 1 .. Len(load_q), load_q[l] = x, x # p
          PROVE  \E k \in 1 .. Len(load_q') : load_q'[k] = x
        BY <2>1, <2>6
      <4> QED  OBVIOUS
    <3> QED  BY <3>1, <3>3 DEF Asked
  <2> /\ task' \in Table /\ SamePid(task, task') /\ task'[v].state = "zombie"
      /\ \A q \in Slot \ {v} : task'[q].state = "loading" <=> task[q].state = "loading"
    BY <1>0, <1>3, MarkStates
  <2>10. LoadsOK(task', load_q', load_active')
    <3> LoadsOK(task, load_q, load_active) /\ load_active' = load_active
      BY <1>3 DEF LifeInv, LifeOK
    <3> \A x : Has(task, x) => Has(task', x)
      BY DEF Has, SamePid
    <3>2. \A q \in Slot : task'[q].state = "loading" <=> task'[q].pid # 0 /\ Asked(load_q', load_active, task'[q].pid)
      <4> SUFFICES ASSUME NEW q \in Slot
                   PROVE  task'[q].state = "loading" <=>
                            task'[q].pid # 0 /\ Asked(load_q', load_active, task'[q].pid)
        OBVIOUS
      <4> task'[q].pid = task[q].pid
        BY DEF SamePid
      <4> CASE q = v
        BY <2>8 DEF p
      <4> CASE q # v
        <5>1. task[q].pid # p \/ task[q].pid = 0
          BY DEF LifeInv, LifeOK, PidsOK, p
        <5> QED  BY <5>1, <2>8 DEF LoadsOK
      <4> QED  OBVIOUS
    <3>3. \A k \in 1 .. Len(load_q') : load_q'[k] # load_active /\ Has(task', load_q'[k])
      BY <2>5, SMTT(30) DEF LoadsOK
    <3> QED  BY <3>2, <3>3, <2>7 DEF LoadsOK
  <2> QED  BY <1>0, <1>3, <2>10, MarkOK DEF LifeInv
<1> QED  BY <1>1, <1>2, <1>3 DEF task_kill, loader

LEMMA ThreadExitInv == ASSUME LifeInv, NEW s \in Slot, sys_thread_exit(s) PROVE LifeInv'
<1> task[s].state = "ready" /\ closing[s] = 0
  BY ReadyFacts DEF sys_thread_exit, Calls, Runs, LifeInv
<1> UNCHANGED <<next_pid, load_q, load_active, cancelled, closing, taken>>
  BY DEF sys_thread_exit, loader
<1>1. next_pid \in Nat
  <2>1. next_pid \in 2 .. MaxPid + 1 /\ MaxPid \in Nat
    BY TaskLifeAssumption DEF LifeInv
  <2> QED  BY <2>1, SMTT(30)
<1> CASE mark_task_exited(s, 0)
  <2>1. LoadsOK(task', load_q, load_active)
    BY MarkKeepsLoads, SMTT(30)
  <2> QED  BY <2>1, MarkOK, SMTT(30) DEF LifeInv
<1> CASE /\ task' = ThreadGone(task, s)
         /\ exited' = [exited EXCEPT ![task[s].pid] =
                         [done |-> TRUE, code |-> 0, parent |-> task[s].parent]]
         /\ UNCHANGED <<records, lost>>
  <2> /\ task' \in Table
      /\ \A q \in Slot : SameTask(task[q], task'[q]) /\ task'[q].pc = task[q].pc /\ task'[q].arg = task[q].arg
      /\ task'[s].state = "zombie" /\ task'[s].waiting = task[s].waiting
      /\ \A q \in Slot \ {s} :
           /\ q \in Waiters(task, s) => task'[q].state = "ready" /\ task'[q].waiting = 0
           /\ q \notin Waiters(task, s) => task'[q].waiting = task[q].waiting /\ task'[q].state = task[q].state
    <3>1. task \in Table
      BY DEF LifeInv
    <3> QED  BY <3>1, ThreadGoneFacts
  <2>2. SamePid(task, task')
    BY DEF SamePid, SameTask
  <2>3. ASSUME NEW q \in Slot PROVE task[q].state = "loading" <=> task'[q].state = "loading"
    <3>1. CASE q = s
      BY <3>1
    <3>2. CASE q # s /\ q \in Waiters(task, s)
      BY <3>2 DEF Waiters
    <3>3. CASE q # s /\ q \notin Waiters(task, s)
      BY <3>3
    <3> QED  BY <3>1, <3>2, <3>3
  <2>4. LoadsOK(task', load_q, load_active)
    BY <2>2, <2>3, LoadsKept DEF LifeInv, LifeOK
  <2>5. LifeOK(task', next_pid, load_q, load_active, closing)
    BY <1>1, <2>4, ExitOK DEF LifeInv
  <2>6. exited' \in [Pid -> [done : BOOLEAN, code : Int, parent : 0 .. MaxPid]]
    <3>1. task[s].parent \in 0 .. MaxPid /\ task[s].pid \in Pid
      BY SMTT(30) DEF LifeInv, LifeOK, PidsOK, Table, TaskType, Pid
    <3>2. 0 \in Int
      BY SMTT(30)
    <3> DEFINE R == [done : BOOLEAN, code : Int, parent : 0 .. MaxPid]
               e == [done |-> TRUE, code |-> 0, parent |-> task[s].parent]
    <3>3. e \in R
      BY <3>1, <3>2
    <3>4. exited \in [Pid -> R] /\ exited' = [exited EXCEPT ![task[s].pid] = e]
      BY DEF LifeInv
    <3> HIDE DEF R, e
    <3>5. exited' \in [Pid -> R]
      BY <3>1, <3>3, <3>4
    <3> QED  BY <3>5 DEF R
  <2> QED  BY <2>5, <2>6 DEF LifeInv
<1> QED  BY DEF sys_thread_exit, ThreadGone

LEMMA TakeInv == ASSUME LifeInv, loader_take PROVE LifeInv'
<1> load_q \in Seq(Pid) /\ load_active = 0 /\ load_q # <<>> /\ LoadsOK(task, load_q, load_active)
  BY DEF LifeInv, loader_take, LifeOK
<1> /\ load_q' \in Seq(Pid) /\ Len(load_q') = Len(load_q) - 1 /\ Len(load_q) \in Nat /\ Len(load_q) >= 1
    /\ \A k \in 1 .. Len(load_q) - 1 : load_q'[k] = load_q[k + 1]
    /\ load_active' = load_q[1] /\ load_q[1] \in Pid
  <2>1. load_q' = Tail(load_q) /\ load_active' = Head(load_q)
    BY DEF loader_take
  <2>2. Len(load_q) \in Nat /\ Len(load_q) >= 1
    BY SMTT(30)
  <2> QED  BY <2>1, <2>2, SMTT(30)
<1>2. UNCHANGED <<task, next_pid, records, cancelled, closing, exited, taken>>
  BY DEF loader_take, observers
<1>3. \A k \in 1 .. Len(load_q) : k = 1 \/ (k - 1 \in 1 .. Len(load_q') /\ (k - 1) + 1 = k)
  BY SMTT(30)
<1>4. \A k \in 1 .. Len(load_q') : k + 1 \in 1 .. Len(load_q) /\ load_q'[k] = load_q[k + 1] /\ k + 1 # 1
  BY SMTT(30)
<1>5. \A k \in 1 .. Len(load_q) : k = 1 \/ (k - 1 \in 1 .. Len(load_q') /\ load_q'[k - 1] = load_q[k])
  BY <1>3, <1>4
<1>6. 1 \in 1 .. Len(load_q)
  BY SMTT(30)
<1>7. \A x : x # 0 => (Asked(load_q', load_active', x) <=> Asked(load_q, load_active, x))
  <2> SUFFICES ASSUME NEW x, x # 0
               PROVE  Asked(load_q', load_active', x) <=> Asked(load_q, load_active, x)
    OBVIOUS
  <2>1. Asked(load_q', load_active', x) => Asked(load_q, load_active, x)
    BY <1>4, <1>6 DEF Asked
  <2> ASSUME Asked(load_q, load_active, x) PROVE Asked(load_q', load_active', x)
    <3> PICK k \in 1 .. Len(load_q) : load_q[k] = x
      BY DEF Asked
    <3> CASE k = 1
      BY DEF Asked
    <3> CASE k # 1
      BY <1>5 DEF Asked
    <3> QED  OBVIOUS
  <2> QED  BY <2>1
<1>8. LoadsOK(task, load_q', load_active')
  <2>1. \A s \in Slot : task[s].state = "loading" <=> task[s].pid # 0 /\ Asked(load_q', load_active', task[s].pid)
    BY <1>7 DEF LoadsOK
  <2>2. \A k \in 1 .. Len(load_q') : load_q'[k] # load_active' /\ Has(task, load_q'[k])
    BY <1>4, <1>6 DEF LoadsOK
  <2>3. \A k, l \in 1 .. Len(load_q') : load_q'[k] = load_q'[l] => k = l
    <3> SUFFICES ASSUME NEW k \in 1 .. Len(load_q'), NEW l \in 1 .. Len(load_q'), load_q'[k] = load_q'[l]
                 PROVE  k = l
      OBVIOUS
    <3>1. /\ k + 1 \in 1 .. Len(load_q) /\ l + 1 \in 1 .. Len(load_q)
          /\ load_q[k + 1] = load_q[l + 1]
      BY <1>4
    <3>2. k + 1 = l + 1
      BY <3>1 DEF LoadsOK
    <3> QED  BY <3>2, SMTT(30)
  <2>4. Has(task, load_active')
    BY <1>6 DEF LoadsOK
  <2> QED  BY <2>1, <2>2, <2>3, <2>4 DEF LoadsOK
<1>9. load_active' \in 0 .. MaxPid /\ load_active' # 0
  BY SMTT(30) DEF Pid
<1> QED  BY <1>2, <1>8, <1>9 DEF LifeInv, LifeOK

\* With the active request gone, the others still match.
LEMMA RequestDone ==
  ASSUME NEW T \in Table, NEW U \in Table, NEW np, NEW lq \in Seq(Pid), NEW la \in 0 .. MaxPid,
         PidsOK(T, np), LoadsOK(T, lq, la), SamePid(T, U), NEW s \in Slot, T[s].pid = la, la # 0,
         U[s].state # "loading", \A q \in Slot \ {s} : U[q].state = "loading" <=> T[q].state = "loading"
  PROVE  LoadsOK(U, lq, 0)
<1>1. \A q \in Slot \ {s} : T[q].pid # la
  BY DEF PidsOK
<1> \A i \in 1 .. Len(lq) : lq[i] # la /\ lq[i] # 0 /\ Has(U, lq[i])
  BY SMTT(30) DEF LoadsOK, SamePid, Has, Pid
<1>3. \A q \in Slot : U[q].state = "loading" <=> U[q].pid # 0 /\ Asked(lq, 0, U[q].pid)
  <2> SUFFICES ASSUME NEW q \in Slot PROVE U[q].state = "loading" <=> U[q].pid # 0 /\ Asked(lq, 0, U[q].pid)
    OBVIOUS
  <2> CASE q = s
    BY DEF SamePid, Asked
  <2> CASE q # s
    BY <1>1, SMTT(30) DEF SamePid, Asked, LoadsOK
  <2> QED  OBVIOUS
<1> QED  BY <1>3 DEF LoadsOK

LEMMA FinishInv == ASSUME LifeInv, NEW ok \in BOOLEAN, loader_finish(ok) PROVE LifeInv'
<1> DEFINE s == task_find(task, load_active)
<1>0. /\ task \in Table /\ PidsOK(task, next_pid) /\ LoadsOK(task, load_q, load_active) /\ load_active # 0
      /\ load_q \in Seq(Pid) /\ load_active \in 0 .. MaxPid
  BY DEF LifeInv, LifeOK, loader_finish
<1> s \in Slot /\ task[s].pid = load_active
  BY <1>0, FindIs DEF LoadsOK
<1>2. \/ mark_task_exited(s, Killed) \/ mark_task_exited(s, LoadFailed)
      \/ task' = [task EXCEPT ![s].state = "ready"] /\ UNCHANGED <<records, exited, lost>>
  BY DEF loader_finish
<1>3. load_active' = 0 /\ cancelled' = FALSE /\ UNCHANGED <<next_pid, load_q, closing, taken>>
  BY DEF loader_finish
<1> HIDE DEF s
<1>4. task[s].state = "loading"
  BY <1>0 DEF LoadsOK, Asked
<1>5. closing[s] = 0 /\ task[s].waiting = 0
  BY <1>4, ReadyFacts DEF LifeInv
<1>5a. 0 \in 0 .. MaxPid
  BY TaskLifeAssumption, SMTT(30)
<1>6. ASSUME NEW c \in Int, mark_task_exited(s, c) PROVE LifeInv'
  <2>1. /\ task' \in Table /\ SamePid(task, task') /\ task'[s].state = "zombie"
        /\ \A q \in Slot \ {s} : task'[q].state = "loading" <=> task[q].state = "loading"
    BY <1>6, MarkStates
  <2>2. LoadsOK(task', load_q, 0)
    BY <1>0, <2>1, RequestDone
  <2> QED  BY <1>0, <1>3, <1>4, <1>5, <1>5a, <1>6, <2>2, MarkOK
<1>7. CASE task' = [task EXCEPT ![s].state = "ready"] /\ UNCHANGED <<records, exited, lost>>
  <2>1. OnlyAt(task, task', s) /\ At(task', s, "ready", task[s].waiting, task[s].pc, task[s].arg)
    BY <1>0, <1>7, SetState DEF States
  <2> /\ task' \in Table /\ SamePid(task, task') /\ \A q \in Slot \ {s} : task'[q] = task[q]
      /\ task'[s].state = "ready" /\ task'[s].waiting = 0 /\ task'[s].pid = task[s].pid
    BY <1>5, <2>1 DEF OnlyAt, At, SamePid, SameTask
  <2>3. LoadsOK(task', load_q, 0)
    BY <1>0, RequestDone, SMTT(30)
  <2>4. PidsOK(task', next_pid)
    BY <1>0, <1>4, SMTT(30) DEF PidsOK
  <2>5. ReapsOK(task', closing)
    <3>1. \A q \in Slot : task'[q].state = "dead" <=> task[q].state = "dead"
      BY <1>4
    <3>2. \A q \in Slot : closing[q] # 0 => task'[q] = task[q]
      BY <1>5
    <3>3. ReapsOK(task, closing)
      BY DEF LifeInv, LifeOK
    <3> QED  BY <3>1, <3>2, <3>3, SMTT(30) DEF ReapsOK
  <2>6. ParksOK(task')
    BY DEF LifeInv, LifeOK, ParksOK, ParkedAt
  <2>7. JoinsOK(task')
    BY <1>4 DEF LifeInv, LifeOK, JoinsOK, JoinsAt
  <2> QED  BY <1>3, <1>5a, <1>7, <2>3, <2>4, <2>5, <2>6, <2>7 DEF LifeInv, LifeOK
<1> QED  BY <1>2, <1>6, <1>7, SMTT(30) DEF Killed, LoadFailed

\* An agent that is parked for it claims a zombie in table T.
LEMMA ClaimOK ==
  ASSUME NEW T \in Table, NEW np \in Nat, NEW lq \in Seq(Pid), NEW la \in 0 .. MaxPid,
         NEW cl \in Closings, LifeOK(T, np, lq, la, cl),
         NEW z \in Slot, T[z].state = "zombie", NEW a \in Agents, cl[a] = 0,
         a # Reaper => /\ T[a].state = "blocked" /\ T[a].waiting = 0
                       /\ T[a].pc = "exec" \/ (T[a].pc = "alloc" /\ T[a].arg \in Whats)
  PROVE  /\ Claimed(T, z) \in Table /\ [cl EXCEPT ![a] = z] \in Closings
         /\ LifeOK(Claimed(T, z), np, lq, la, [cl EXCEPT ![a] = z])
<1> DEFINE U == Claimed(T, z)
<1>1. OnlyAt(T, U, z) /\ At(U, z, "dead", T[z].waiting, T[z].pc, T[z].arg)
  BY SetState DEF Claimed, States
<1> HIDE DEF U
<1>2. /\ U \in Table /\ SamePid(T, U) /\ U[z].state = "dead" /\ U[z].waiting = T[z].waiting
      /\ \A q \in Slot \ {z} : SameAt(T[q], U[q])
  BY <1>1 DEF OnlyAt, At, SamePid, SameTask, SameAt
<1> QED  BY <1>2, Claims DEF U

LEMMA SweepInv == ASSUME LifeInv, task_reap_unclaimed PROVE LifeInv'
<1>w. WalksOK
  BY DEF LifeInv
<1> DEFINE z == Lowest(Reapable(task))
<1>1. z \in Slot /\ task[z].state = "zombie"
  BY <1>w, ReapableFacts DEF LifeInv, task_reap_unclaimed
<1>2. task' = Claimed(task, z) /\ closing' = [closing EXCEPT ![Reaper] = z] /\ closing[Reaper] = 0
  BY DEF task_reap_unclaimed
<1> HIDE DEF z
<1>3. next_pid \in Nat /\ Reaper \in Agents
  BY TaskLifeAssumption, SMTT(30) DEF LifeInv, Agents
<1>4. task' \in Table /\ closing' \in Closings /\ LifeOK(task', next_pid, load_q, load_active, closing')
  BY <1>1, <1>2, <1>3, ClaimOK DEF LifeInv
<1> QED  BY <1>4 DEF LifeInv, task_reap_unclaimed, loader, observers

\* The claim of a zombie by a task that parks for it in the same step.  The
\* zombie is another task, so the order of the two assignments is no matter.
LEMMA ParkAndClaim ==
  ASSUME NEW T \in Table, NEW P, NEW np \in Nat, NEW lq \in Seq(Pid), NEW la \in 0 .. MaxPid,
         NEW cl \in Closings, LifeOK(T, np, lq, la, cl),
         NEW s \in Slot, T[s].state = "ready", NEW z \in Slot, T[z].state = "zombie",
         OnlyAt(T, P, s), P[s].state = "blocked", P[s].waiting = 0,
         P[s].pc = "exec" \/ (P[s].pc = "alloc" /\ P[s].arg \in Whats)
  PROVE  /\ Claimed(P, z) \in Table /\ [cl EXCEPT ![s] = z] \in Closings
         /\ LifeOK(Claimed(P, z), np, lq, la, [cl EXCEPT ![s] = z])
<1> cl[s] = 0
  BY ReadyFacts
<1>2. P \in Table /\ LifeOK(P, np, lq, la, cl)
  <2>1. ParkedAt(P[s]) /\ JoinsAt(T, P[s])
    BY DEF ParkedAt, JoinsAt
  <2> QED  BY <2>1, MovesAt
<1>3. P[z].state = "zombie" /\ s \in Agents
  BY DEF OnlyAt, Agents
<1> QED  BY <1>2, <1>3, ClaimOK

LEMMA SpawnInv == ASSUME LifeInv, NEW s \in Slot, NEW what \in Whats, spawn(s, what) PROVE LifeInv'
<1>w. WalksOK
  BY DEF LifeInv
<1> /\ task \in Table /\ next_pid \in Nat /\ next_pid \in 2 .. MaxPid + 1 /\ load_q \in Seq(Pid)
    /\ load_active \in 0 .. MaxPid /\ closing \in Closings
    /\ LifeOK(task, next_pid, load_q, load_active, closing) /\ task[s].state = "ready"
  BY TaskLifeAssumption, SMTT(30) DEF LifeInv, spawn, Calls, Runs
<1>1. UNCHANGED <<records, load_active, cancelled, exited, taken>>
  BY DEF spawn, observers
<1>2. closing[s] = 0 /\ task[s].waiting = 0
  BY ReadyFacts
<1>3. CASE FreeSlots(task) = {} /\ Reapable(task) # {}
  <2> DEFINE z == Lowest(Reapable(task))
             P == [task EXCEPT ![s].state = "blocked", ![s].pc = "alloc", ![s].arg = what]
  <2> /\ task' = [Claimed(task, z) EXCEPT ![s].state = "blocked", ![s].pc = "alloc", ![s].arg = what]
      /\ closing' = [closing EXCEPT ![s] = z] /\ next_pid' = next_pid /\ load_q' = load_q
    BY <1>3 DEF spawn
  <2> z \in Slot /\ task[z].state = "zombie"
    BY <1>3, <1>w, ReapableFacts
  <2> HIDE DEF z
  <2>3. z # s
    OBVIOUS
  <2> OnlyAt(task, P, s) /\ At(P, s, "blocked", task[s].waiting, "alloc", what)
    <3>1. "alloc" \in Places /\ what \in Int \cup Whats
      BY DEF Places
    <3> QED  BY <3>1, SetParked
  <2>5. task' = Claimed(P, z)
    BY <2>3 DEF Claimed, Table, TaskType
  <2> HIDE DEF P
  <2>6. P[s].state = "blocked" /\ P[s].waiting = 0 /\ P[s].pc = "alloc" /\ P[s].arg \in Whats
    BY <1>2 DEF At
  <2>7. /\ Claimed(P, z) \in Table /\ [closing EXCEPT ![s] = z] \in Closings
        /\ LifeOK(Claimed(P, z), next_pid, load_q, load_active, [closing EXCEPT ![s] = z])
    BY <2>6, ParkAndClaim
  <2> QED  BY <1>1, <2>5, <2>7 DEF LifeInv
<1> CASE ~(FreeSlots(task) = {} /\ Reapable(task) # {})
  <2> Create(task, s, what) /\ closing' = closing
    BY DEF spawn
  <2>2. /\ task' \in Table /\ next_pid' \in 2 .. MaxPid + 1 /\ load_q' \in Seq(Pid)
        /\ LifeOK(task', next_pid', load_q', load_active, closing)
    BY <1>2, <1>w, CreateOK
  <2> QED  BY <1>1, <2>2 DEF LifeInv
<1> QED  BY <1>3

LEMMA ExecResumeInv == ASSUME LifeInv, NEW s \in Slot, process_exec_resume(s) PROVE LifeInv'
<1> DEFINE c == task_find(task, task[s].arg)
<1> /\ task \in Table /\ next_pid \in Nat /\ next_pid \in 2 .. MaxPid + 1 /\ load_q \in Seq(Pid)
    /\ load_active \in 0 .. MaxPid /\ closing \in Closings /\ PidsOK(task, next_pid)
    /\ LifeOK(task, next_pid, load_q, load_active, closing)
    /\ task[s].state = "ready" /\ task[s].pc = "exec"
  <2>1. task[s].state = "ready" /\ task[s].pc = "exec"
    BY DEF process_exec_resume, Runs
  <2>2. LifeOK(task, next_pid, load_q, load_active, closing) /\ next_pid \in 2 .. MaxPid + 1
    BY DEF LifeInv
  <2>3. PidsOK(task, next_pid)
    BY <2>2 DEF LifeOK
  <2> QED  BY <2>1, <2>2, <2>3, TaskLifeAssumption, SMTT(30) DEF LifeInv
<1>1. UNCHANGED <<next_pid, records, load_q, load_active, cancelled, exited>>
  BY DEF process_exec_resume, loader
<1>2. closing[s] = 0 /\ task[s].waiting = 0
  BY ReadyFacts
<1>3. Has(task, task[s].arg) => c \in Slot /\ task[c].pid = task[s].arg /\ task[c].pid \in Pid
  <2> SUFFICES ASSUME Has(task, task[s].arg)
               PROVE  c \in Slot /\ task[c].pid = task[s].arg /\ task[c].pid \in Pid
    OBVIOUS
  <2>1. c \in Slot /\ task[c].pid = task[s].arg
    BY FindIs
  <2> HIDE DEF c
  <2>2. task[c].pid > 0
    BY <2>1 DEF Has
  <2> QED  BY <2>1, <2>2, SMTT(30) DEF Table, TaskType, Pid
<1>4. taken' = IF Has(task, task[s].arg) THEN [taken EXCEPT ![task[c].pid] = Append(@, task[c].code)] ELSE taken
  BY DEF process_exec_resume
<1>5. IF Has(task, task[s].arg) /\ task[c].state = "zombie"
        THEN /\ task' = [Claimed(task, c) EXCEPT ![s].state = "blocked"]
             /\ closing' = [closing EXCEPT ![s] = c]
        ELSE task' = [task EXCEPT ![s].pc = "user"] /\ closing' = closing
  BY DEF process_exec_resume
<1> HIDE DEF c
<1>6. taken' \in [Pid -> Seq(Int)]
  <2> CASE Has(task, task[s].arg)
    <3>1. taken \in [Pid -> Seq(Int)] /\ task[c].code \in Int
      BY <1>3 DEF LifeInv, Table, TaskType
    <3>2. Append(taken[task[c].pid], task[c].code) \in Seq(Int)
      BY <1>3, <3>1, SMTT(30)
    <3> QED  BY <1>3, <1>4, <3>1, <3>2
  <2>2. CASE ~Has(task, task[s].arg)
    BY <1>4, <2>2 DEF LifeInv
  <2> QED  BY <2>2
<1>7. CASE Has(task, task[s].arg) /\ task[c].state = "zombie"
  <2> DEFINE P == [task EXCEPT ![s].state = "blocked"]
  <2>1. task' = [Claimed(task, c) EXCEPT ![s].state = "blocked"] /\ closing' = [closing EXCEPT ![s] = c]
    BY <1>5, <1>7
  <2>2. c \in Slot /\ task[c].state = "zombie" /\ c # s
    BY <1>3, <1>7
  <2>3. OnlyAt(task, P, s) /\ At(P, s, "blocked", task[s].waiting, task[s].pc, task[s].arg)
    BY SetState DEF States
  <2>4. task' = Claimed(P, c)
    BY <2>1, <2>2 DEF Claimed, Table, TaskType
  <2> HIDE DEF P
  <2>5. P[s].state = "blocked" /\ P[s].waiting = 0 /\ P[s].pc = "exec"
    BY <1>2, <2>3 DEF At
  <2>6. /\ Claimed(P, c) \in Table /\ [closing EXCEPT ![s] = c] \in Closings
        /\ LifeOK(Claimed(P, c), next_pid, load_q, load_active, [closing EXCEPT ![s] = c])
    BY <2>2, <2>3, <2>5, ParkAndClaim
  <2> QED  BY <1>1, <1>6, <2>1, <2>4, <2>6 DEF LifeInv
<1>8. CASE ~(Has(task, task[s].arg) /\ task[c].state = "zombie")
  <2>1. task' = [task EXCEPT ![s].pc = "user"] /\ closing' = closing
    BY <1>5, <1>8
  <2>2. OnlyAt(task, task', s) /\ At(task', s, task[s].state, task[s].waiting, "user", task[s].arg)
    BY <2>1, SetPc
  <2>3. ParkedAt(task'[s]) /\ JoinsAt(task, task'[s]) /\ task'[s].state \in {"ready", "blocked"}
    BY <1>2, <2>2 DEF At, ParkedAt, JoinsAt
  <2>4. task' \in Table /\ LifeOK(task', next_pid, load_q, load_active, closing)
    BY <1>2, <2>2, <2>3, MovesAt
  <2> QED  BY <1>1, <1>6, <2>1, <2>4 DEF LifeInv
<1> QED  BY <1>7, <1>8

LEMMA ReapDoneInv == ASSUME LifeInv, NEW a \in Agents, task_reap_done(a) PROVE LifeInv'
<1>w. WalksOK
  BY DEF LifeInv
<1>0. /\ task \in Table /\ next_pid \in Nat \ {0} /\ next_pid \in 2 .. MaxPid + 1 /\ load_q \in Seq(Pid)
      /\ load_active \in 0 .. MaxPid /\ closing \in Closings
      /\ LifeOK(task, next_pid, load_q, load_active, closing) /\ closing[a] # 0
  BY TaskLifeAssumption, SMTT(30) DEF LifeInv, task_reap_done
<1>1. UNCHANGED <<records, load_active, cancelled, exited, taken>>
  BY DEF task_reap_done, observers
<1>2. PICK d \in 0 .. MAX_TASKS : d = closing[a]
  BY <1>0 DEF Closings
<1>2a. d \in Slot
  BY <1>0, <1>2, TaskLifeAssumption, SMTT(30) DEF Slot
<1>3. PICK T \in Table : T = [task EXCEPT ![d] = Free]
  BY <1>0, <1>2a, FreeFacts DEF Table
<1>4. T[d] = Free /\ \A q \in Slot \ {d} : T[q] = task[q]
  BY <1>0, <1>2a, <1>3 DEF Table
<1>5. PICK cl \in Closings : cl = [closing EXCEPT ![a] = 0]
  <2>1. 0 \in 0 .. MAX_TASKS
    BY TaskLifeAssumption, SMTT(30)
  <2> QED  BY <1>0, <2>1 DEF Closings
<1>6. /\ LifeOK(T, next_pid, load_q, load_active, cl) /\ d # a /\ cl[a] = 0
      /\ \A x \in Slot : [closing EXCEPT ![a] = x] = [cl EXCEPT ![a] = x]
  <2>1. LifeOK(T, next_pid, load_q, load_active, [closing EXCEPT ![a] = 0]) /\ d # a
    <3>1. T[closing[a]] = Free /\ \A q \in Slot \ {closing[a]} : T[q] = task[q]
      BY <1>2, <1>4
    <3>2. closing[a] # a /\ LifeOK(T, next_pid, load_q, load_active, [closing EXCEPT ![a] = 0])
      BY <1>0, <3>1, Clears
    <3> QED  BY <1>2, <3>2
  <2> QED  BY <1>0, <1>5, <2>1 DEF Closings
<1>7. a # Reaper => /\ a \in Slot /\ T[a] = task[a] /\ T[a].state = "blocked" /\ T[a].waiting = 0
                    /\ T[a].pc = "exec" \/ (T[a].pc = "alloc" /\ T[a].arg \in Whats)
  <2> SUFFICES ASSUME a # Reaper
               PROVE  /\ a \in Slot /\ T[a] = task[a] /\ T[a].state = "blocked" /\ T[a].waiting = 0
                      /\ T[a].pc = "exec" \/ (T[a].pc = "alloc" /\ T[a].arg \in Whats)
    OBVIOUS
  <2>1. a \in Slot /\ T[a] = task[a]
    BY <1>4, <1>6 DEF Agents
  <2> QED  BY <1>0, <2>1, SMTT(30) DEF LifeOK, ReapsOK
<1> DEFINE further == {z \in Reapable(T) : z > d}
           sweeps == a = Reaper \/ T[a].pc = "alloc"
<1>8. IF sweeps /\ further # {}
        THEN /\ task' = Claimed(T, Lowest(further))
             /\ closing' = [closing EXCEPT ![a] = Lowest(further)]
             /\ UNCHANGED <<next_pid, load_q>>
        ELSE /\ closing' = [closing EXCEPT ![a] = 0]
             /\ IF a # Reaper /\ T[a].pc = "alloc"
                  THEN Create(T, a, T[a].arg)
                  ELSE /\ task' = IF a = Reaper THEN T
                                  ELSE [T EXCEPT ![a].state = "ready", ![a].pc = "user"]
                       /\ UNCHANGED <<next_pid, load_q>>
  BY <1>2, <1>3 DEF task_reap_done
<1>9. CASE sweeps /\ further # {}
  <2> DEFINE z == Lowest(further)
  <2>1. z \in Slot /\ T[z].state = "zombie"
    BY <1>9, <1>w, ReapableFacts
  <2>2. /\ task' = Claimed(T, z) /\ closing' = [closing EXCEPT ![a] = z] /\ next_pid' = next_pid
        /\ load_q' = load_q
    BY <1>8, <1>9
  <2> HIDE DEF z, further, sweeps
  <2>3. /\ Claimed(T, z) \in Table /\ [cl EXCEPT ![a] = z] \in Closings
        /\ LifeOK(Claimed(T, z), next_pid, load_q, load_active, [cl EXCEPT ![a] = z])
    BY <1>0, <1>6, <1>7, <2>1, ClaimOK
  <2>4. closing' = [cl EXCEPT ![a] = z]
    BY <1>6, <2>1, <2>2
  <2> QED  BY <1>0, <1>1, <2>2, <2>3, <2>4 DEF LifeInv
<1>10. CASE ~(sweeps /\ further # {})
  <2>1. closing' = cl
    BY <1>5, <1>8, <1>10
  <2>2. CASE a # Reaper /\ T[a].pc = "alloc"
    <3>1. Create(T, a, T[a].arg)
      BY <1>8, <1>10, <2>2
    <3>1a. a \in Slot /\ T[a].state = "blocked" /\ T[a].waiting = 0 /\ T[a].arg \in Whats
      BY <1>7, <2>2
    <3> HIDE DEF sweeps, further
    <3>1b. PICK what \in Whats : what = T[a].arg
      BY <3>1a
    <3>2. /\ task' \in Table /\ next_pid' \in 2 .. MaxPid + 1 /\ load_q' \in Seq(Pid)
          /\ LifeOK(task', next_pid', load_q', load_active, cl)
      BY <1>0, <1>6, <3>1, <3>1a, <3>1b, <1>w, CreateOK
    <3> QED  BY <1>0, <1>1, <2>1, <3>2 DEF LifeInv
  <2>3. CASE ~(a # Reaper /\ T[a].pc = "alloc")
    <3> /\ next_pid' = next_pid /\ load_q' = load_q
        /\ task' = IF a = Reaper THEN T ELSE [T EXCEPT ![a].state = "ready", ![a].pc = "user"]
      BY <1>8, <1>10, <2>3
    <3> HIDE DEF sweeps, further
    <3>2. task' \in Table /\ LifeOK(task', next_pid, load_q, load_active, cl)
      <4>1. CASE a = Reaper
        BY <1>6, <4>1
      <4> CASE a # Reaper
        <5>1. OnlyAt(T, task', a) /\ At(task', a, "ready", T[a].waiting, "user", T[a].arg)
          BY <1>7, SetUser
        <5>2. ParkedAt(task'[a]) /\ JoinsAt(T, task'[a]) /\ task'[a].state \in {"ready", "blocked"}
          BY <1>7, <5>1 DEF At, ParkedAt, JoinsAt
        <5> QED  BY <1>0, <1>6, <1>7, <5>1, <5>2, MovesAt
      <4> QED  BY <4>1
    <3> QED  BY <1>0, <1>1, <2>1, <3>2 DEF LifeInv
  <2> QED  BY <2>2, <2>3
<1> QED  BY <1>9, <1>10

-----------------------------------------------------------------------------
LEMMA InitInv == ASSUME WalksOK, Init PROVE LifeInv
<1> 1 \in Slot /\ 1 \in Pid /\ 2 \in 2 .. MaxPid + 1 /\ 0 \in 0 .. MaxPid /\ 0 \in 0 .. MAX_TASKS
  BY TaskLifeAssumption, SMTT(30) DEF Slot, Pid
<1>2. NewAs(NewTask(1, 0, "ready"), 1, 0, "ready")
  <2>1. "ready" \in States /\ 1 \in 0 .. MaxPid
    BY SMTT(30) DEF States, Pid
  <2> QED  BY <2>1, NewTaskFacts
<1> task \in Table /\ NewAs(task[1], 1, 0, "ready") /\ \A s \in Slot \ {1} : task[s] = Free
  BY <1>2, FreeFacts DEF Init, Table, NewAs
<1> \A s \in Slot : task[s].waiting = 0 /\ task[s].state \in {"ready", "free"} /\ task[s].pid \in {0, 1}
  BY FreeFacts DEF NewAs
<1>5. PidsOK(task, 2)
  BY FreeFacts, SMTT(30) DEF NewAs, PidsOK
<1> closing \in Closings /\ \A x \in Agents : closing[x] = 0
  BY DEF Init, Closings, Agents
<1>7. ReapsOK(task, closing)
  <2>1. \A s \in Slot : s # 0
    BY SMTT(30) DEF Slot
  <2> QED  BY <2>1 DEF ReapsOK, Agents
<1>8. ParksOK(task) /\ JoinsOK(task)
  BY DEF ParksOK, ParkedAt, JoinsOK, JoinsAt
<1>9. LoadsOK(task, load_q, load_active)
  <2>1. load_q = <<>> /\ load_active = 0 /\ Len(load_q) = 0
    BY DEF Init
  <2> QED  BY <2>1, SMTT(30) DEF LoadsOK, Asked
<1>10. /\ records \in Seq(RecType) /\ Len(records) <= TASK_EXIT_RECORDS /\ load_q \in Seq(Pid)
       /\ taken \in [Pid -> Seq(Int)]
  BY TaskLifeAssumption, SMTT(30) DEF Init
<1>11. exited \in [Pid -> [done : BOOLEAN, code : Int, parent : 0 .. MaxPid]]
  BY SMTT(30) DEF Init, NotYet
<1> QED  BY <1>5, <1>7, <1>8, <1>9, <1>10, <1>11 DEF Init, LifeInv, LifeOK

LEMMA StepInv == LifeInv /\ [Next]_vars => LifeInv'
<1> SUFFICES ASSUME LifeInv, [Next]_vars PROVE LifeInv'
  OBVIOUS
<1>1. CASE UNCHANGED vars
  BY <1>1 DEF vars, LifeInv
<1>2. CASE Next
  <2>1. CASE loader_take
    BY <2>1, TakeInv
  <2>2. CASE task_reap_unclaimed
    BY <2>2, SweepInv
  <2>3. ASSUME NEW ok \in BOOLEAN, loader_finish(ok) PROVE LifeInv'
    BY <2>3, FinishInv
  <2>4. ASSUME NEW a \in Slot \cup {Reaper}, task_reap_done(a) PROVE LifeInv'
    BY <2>4, ReapDoneInv DEF Agents
  <2>5. ASSUME NEW s \in Slot, NEW what \in {"exec", "spawn", "thread"}, spawn(s, what) PROVE LifeInv'
    BY <2>5, SpawnInv DEF Whats
  <2>6. ASSUME NEW s \in Slot, process_exec_resume(s) PROVE LifeInv'
    BY <2>6, ExecResumeInv
  <2> ASSUME NEW s \in Slot, sys_thread_join_resume(s) PROVE LifeInv'
    BY JoinResumeInv
  <2> ASSUME NEW s \in Slot, sys_thread_exit(s) PROVE LifeInv'
    BY ThreadExitInv
  <2> ASSUME NEW s \in Slot, task_interrupt(s) PROVE LifeInv'
    BY InterruptInv
  <2> ASSUME NEW s \in Slot, NEW c \in Codes, task_exit(s, c) PROVE LifeInv'
    BY ExitInv
  <2> ASSUME NEW s \in Slot, NEW w \in Pid \cup {AnyChild}, NEW nohang \in BOOLEAN,
             task_wait_child(s, w, nohang)
      PROVE  LifeInv'
    BY WaitInv
  <2> ASSUME NEW s \in Slot, NEW v \in Slot, task_kill(s, v) PROVE LifeInv'
    BY KillInv
  <2> ASSUME NEW s \in Slot, NEW v \in Slot, sys_thread_join(s, v) PROVE LifeInv'
    BY JoinInv
  <2> QED
    BY <1>2, <2>1, <2>2, <2>3, <2>4, <2>5, <2>6 DEF Next
<1> QED  BY <1>1, <1>2

-----------------------------------------------------------------------------
(* What the invariant says.                                                *)

LEMMA LifeTable == ASSUME LifeInv PROVE TableInv
<1> LifeOK(task, next_pid, load_q, load_active, closing) /\ task \in Table /\ load_q \in Seq(Pid)
  BY DEF LifeInv
<1>1. TypeOK
  <2>1. \A s \in Slot :
          /\ task[s].pid \in Pid \cup {0}
          /\ task[s].state \in {"free", "loading", "ready", "blocked", "zombie", "dead"}
          /\ task[s].pc \in {"user", "exec", "wait4", "join", "alloc"}
    BY TaskLifeAssumption, SMTT(30) DEF Table, TaskType, Pid
  <2>2. PidsOK(task, next_pid) /\ Len(records) <= TASK_EXIT_RECORDS
    BY DEF LifeOK, LifeInv
  <2> QED  BY <2>1, <2>2 DEF TypeOK, PidsOK
<1>2. OneReaperEach
  BY DEF LifeOK, ReapsOK, OneReaperEach, Agents
<1>3. RequestsMatchLoading
  <2>1. DOMAIN load_q = 1 .. Len(load_q)
    BY SMTT(30)
  <2>2. LoadsOK(task, load_q, load_active) /\ (cancelled => load_active # 0)
    BY DEF LifeOK, LifeInv
  <2> QED  BY <2>1, <2>2 DEF LoadsOK, Asked, RequestsMatchLoading
<1> QED  BY <1>1, <1>2, <1>3 DEF TableInv

LEMMA LifeJoins == ASSUME LifeInv PROVE JoinersWait
BY DEF LifeInv, LifeOK, JoinsOK, JoinsAt, JoinersWait
\* A loading task keeps its slot.
LoadingStay == \A q \in Slot : task[q].state = "loading" => task'[q].pid = task[q].pid

LEMMA CreateStays ==
  ASSUME WalksOK, NEW T \in Table, NEW s \in Slot, NEW what \in Whats, T[s].state \in {"ready", "blocked"},
         next_pid \in 2 .. MaxPid + 1, Create(T, s, what), NEW q \in Slot, T[q].state = "loading"
  PROVE  task'[q].pid = T[q].pid
<1> CASE FreeSlots(T) = {} \/ next_pid > MaxPid
  <2>1. task' = [T EXCEPT ![s].state = "ready", ![s].pc = "user"]
    BY DEF Create
  <2>2. OnlyAt(T, task', s)
    BY <2>1, SetUser
  <2> QED  BY <2>2 DEF OnlyAt
<1> CASE ~(FreeSlots(T) = {} \/ next_pid > MaxPid)
  <2>0. next_pid \in 2 .. MaxPid /\ FreeSlots(T) # {}
    BY TaskLifeAssumption, SMTT(30)
  <2>1. PICK f \in Slot, T1 \in Table :
              /\ T[f].state = "free" /\ f # s
              /\ \A r \in Slot \ {f} : T1[r] = T[r]
              /\ OnlyAt(T1, task', s)
    BY <2>0, CreatedFacts, SMTT(30)
  <2> QED  BY <2>1 DEF OnlyAt
<1> QED  OBVIOUS

LEMMA ReapStays == ASSUME LifeInv, NEW a \in Agents, task_reap_done(a) PROVE LoadingStay
<1>w. WalksOK
  BY DEF LifeInv
<1> /\ task \in Table /\ closing \in Closings /\ ReapsOK(task, closing) /\ closing[a] # 0
    /\ next_pid \in 2 .. MaxPid + 1
  BY DEF LifeInv, LifeOK, task_reap_done
<1> PICK d \in Slot : d = closing[a]
  BY TaskLifeAssumption, SMTT(30) DEF Closings, Slot
<1>2. task[d].state = "dead" /\ (a # Reaper => a \in Slot /\ task[a].state = "blocked")
  BY DEF ReapsOK, Agents
<1>3. PICK T \in Table : T = [task EXCEPT ![d] = Free]
  BY FreeFacts DEF Table
<1>4. T[d] = Free /\ \A q \in Slot \ {d} : T[q] = task[q]
  BY <1>3 DEF Table
<1>5. \/ \E z : task' = Claimed(T, z)
      \/ a # Reaper /\ T[a].pc = "alloc" /\ Create(T, a, T[a].arg)
      \/ task' = T
      \/ a # Reaper /\ task' = [T EXCEPT ![a].state = "ready", ![a].pc = "user"]
  BY <1>3 DEF task_reap_done
<1> SUFFICES ASSUME NEW q \in Slot, task[q].state = "loading" PROVE task'[q].pid = task[q].pid
  BY DEF LoadingStay
<1> q # d /\ T[q] = task[q] /\ (a # Reaper => q # a /\ a # d)
  BY <1>2, <1>4
<1> ASSUME NEW z, task' = Claimed(T, z) PROVE task'[q].pid = task[q].pid
  BY DEF Claimed, Table, TaskType
<1> CASE a # Reaper /\ T[a].pc = "alloc" /\ Create(T, a, T[a].arg)
  <2> T[a] = task[a] /\ a \in Slot /\ T[a].state = "blocked"
    BY <1>2, <1>4
  <2>2. T[a].arg \in Whats
    BY DEF ReapsOK, Slot
  <2>3. PICK what \in Whats : what = T[a].arg
    BY <2>2
  <2> QED  BY <2>3, <1>w, CreateStays
<1> CASE task' = T
  OBVIOUS
<1> CASE a # Reaper /\ task' = [T EXCEPT ![a].state = "ready", ![a].pc = "user"]
  BY DEF Table
<1> QED  BY <1>5

LEMMA SpawnStays == ASSUME LifeInv, NEW s \in Slot, NEW what \in Whats, spawn(s, what) PROVE LoadingStay
<1>w. WalksOK
  BY DEF LifeInv
<1> task \in Table /\ task[s].state = "ready" /\ next_pid \in 2 .. MaxPid + 1
  BY DEF LifeInv, spawn, Calls, Runs
<1> CASE FreeSlots(task) = {} /\ Reapable(task) # {}
  <2>1. PICK z : task' = [Claimed(task, z) EXCEPT ![s].state = "blocked", ![s].pc = "alloc", ![s].arg = what]
    BY DEF spawn
  <2> QED  BY <2>1 DEF Claimed, Table, TaskType, LoadingStay
<1> CASE ~(FreeSlots(task) = {} /\ Reapable(task) # {})
  BY <1>w, CreateStays DEF spawn, LoadingStay
<1> QED  OBVIOUS

LEMMA MarkStays == ASSUME LifeInv, NEW s \in Slot, NEW c \in Int, mark_task_exited(s, c) PROVE LoadingStay
BY MarkStates DEF SamePid, LoadingStay

LEMMA ExecResumeStays == ASSUME LifeInv, NEW s \in Slot, process_exec_resume(s) PROVE LoadingStay
<1> task \in Table
  BY DEF LifeInv
<1>1. \/ \E c : task' = [Claimed(task, c) EXCEPT ![s].state = "blocked"]
      \/ task' = [task EXCEPT ![s].pc = "user"]
  BY DEF process_exec_resume
<1> ASSUME NEW c, task' = [Claimed(task, c) EXCEPT ![s].state = "blocked"] PROVE LoadingStay
  BY DEF Claimed, Table, TaskType, LoadingStay
<1> CASE task' = [task EXCEPT ![s].pc = "user"]
  BY DEF Table, TaskType, LoadingStay
<1> QED  BY <1>1

LEMMA ThreadExitStays == ASSUME LifeInv, NEW s \in Slot, sys_thread_exit(s) PROVE LoadingStay
<1> task \in Table /\ 0 \in Int
  BY SMTT(60) DEF LifeInv
<1>2. mark_task_exited(s, 0) \/ task' = ThreadGone(task, s)
  BY DEF sys_thread_exit, ThreadGone
<1> CASE task' = ThreadGone(task, s)
  <2>1. \A q \in Slot : SameTask(task[q], task'[q])
    BY ThreadGoneFacts, SMTT(30)
  <2> QED  BY <2>1 DEF SameTask, LoadingStay
<1> QED  BY <1>2, MarkStays

LEMMA WaitStays ==
  ASSUME LifeInv, NEW s \in Slot, NEW w, NEW nohang, task_wait_child(s, w, nohang) PROVE LoadingStay
<1>0. task \in Table
  BY DEF LifeInv
<1>1. \/ task' = [task EXCEPT ![s].pc = "user", ![s].arg = 0]
      \/ task' = [task EXCEPT ![s].state = "blocked", ![s].pc = "wait4", ![s].arg = w]
  BY DEF task_wait_child, Collect, Park, Return
<1> QED  BY <1>0, <1>1, SMTT(30) DEF Table, TaskType, LoadingStay

\* A step of CancelledNeverRuns: while the request is the loader's, a loading
\* task is the only one that has its pid, and only loader_finish ends that,
\* with the flag seen.
CancelledStays ==
  \A s \in Slot : cancelled /\ task[s].pid = load_active /\ load_active # 0 =>
    task'[s].state \in {"loading", "zombie"}

LEMMA CancelledStep == ASSUME LifeInv, LifeInv', [Next]_vars PROVE CancelledStays
<1> SUFFICES ASSUME NEW s \in Slot, cancelled, task[s].pid = load_active, load_active # 0
             PROVE  task'[s].state \in {"loading", "zombie"}
  BY DEF CancelledStays
<1>0. task[s].state = "loading" /\ PidsOK(task, next_pid)
  BY DEF LifeInv, LifeOK, LoadsOK, Asked
<1>1. ASSUME NEW ok \in BOOLEAN, loader_finish(ok) PROVE task'[s].state = "zombie"
  <2>1. mark_task_exited(task_find(task, load_active), Killed)
    BY <1>1 DEF loader_finish
  <2>2. Has(task, load_active)
    BY DEF LifeInv, LifeOK, LoadsOK
  <2>3. task_find(task, load_active) = s
    BY <1>0, <2>2, FindIs DEF LifeInv
  <2> QED  BY <2>1, <2>3, MarkStates, SMTT(30) DEF Killed
<1> ASSUME LoadingStay, load_active' = load_active PROVE task'[s].state = "loading"
  BY <1>0 DEF LifeInv, LifeOK, LoadsOK, Asked, LoadingStay
<1>3. CASE UNCHANGED vars
  BY <1>0, <1>3 DEF vars
<1>4. CASE loader_take
  BY <1>4 DEF loader_take
<1>5. CASE task_reap_unclaimed
  <2>1. PICK z : task' = Claimed(task, z)
    BY <1>5 DEF task_reap_unclaimed
  <2>2. LoadingStay
    BY <2>1, SMTT(30) DEF LifeInv, Table, TaskType, Claimed, LoadingStay
  <2> QED  BY <1>5, <2>2 DEF task_reap_unclaimed, loader
<1>6. ASSUME NEW a \in Slot \cup {Reaper}, task_reap_done(a) PROVE task'[s].state = "loading"
  <2>1. load_active' = load_active
    BY <1>6 DEF task_reap_done
  <2> QED  BY <1>6, <2>1, ReapStays DEF Agents
<1>7. ASSUME NEW r \in Slot, NEW what \in {"exec", "spawn", "thread"}, spawn(r, what)
      PROVE  task'[s].state = "loading"
  <2>1. load_active' = load_active
    BY <1>7 DEF spawn
  <2> QED  BY <1>7, <2>1, SpawnStays DEF Whats
<1>8. ASSUME NEW r \in Slot, process_exec_resume(r) PROVE task'[s].state = "loading"
  <2>1. load_active' = load_active
    BY <1>8 DEF process_exec_resume, loader
  <2> QED  BY <1>8, <2>1, ExecResumeStays
<1>9. ASSUME NEW r \in Slot, sys_thread_exit(r) PROVE task'[s].state = "loading"
  <2>1. load_active' = load_active
    BY <1>9 DEF sys_thread_exit, loader
  <2> QED  BY <1>9, <2>1, ThreadExitStays
<1>10. ASSUME NEW r \in Slot, sys_thread_join_resume(r) \/ task_interrupt(r)
       PROVE  task'[s].state = "loading"
  <2>1. load_active' = load_active
    BY <1>10 DEF sys_thread_join_resume, task_interrupt, loader
  <2>2. task \in Table
    BY DEF LifeInv
  <2>3. LoadingStay
    BY <1>10, <2>2, SMTT(30) DEF sys_thread_join_resume, task_interrupt, Table, TaskType, LoadingStay
  <2> QED  BY <2>1, <2>3
<1>11. ASSUME NEW r \in Slot, NEW c \in Codes, task_exit(r, c) PROVE task'[s].state = "loading"
  <2>1. load_active' = load_active /\ mark_task_exited(r, c) /\ c \in Int
    BY <1>11, TaskLifeAssumption DEF task_exit, loader
  <2> QED  BY <2>1, MarkStays
<1> ASSUME NEW r \in Slot, NEW w \in Pid \cup {AnyChild}, NEW nohang \in BOOLEAN,
           task_wait_child(r, w, nohang)
    PROVE  task'[s].state = "loading"
  <2>1. load_active' = load_active
    BY DEF task_wait_child, loader
  <2> QED  BY <2>1, WaitStays
<1>13. ASSUME NEW r \in Slot, NEW v \in Slot, task_kill(r, v) PROVE task'[s].state = "loading"
  <2> load_active' = load_active /\ (mark_task_exited(v, Killed) \/ task' = task) /\ Killed \in Int
    <3>1. load_active' = load_active /\ (mark_task_exited(v, Killed) \/ task' = task)
      BY <1>13 DEF task_kill, loader
    <3> QED  BY <3>1, SMTT(30) DEF Killed
  <2>2. LoadingStay
    BY MarkStays DEF LoadingStay
  <2> QED  BY <2>2
<1> ASSUME NEW r \in Slot, NEW v \in Slot, sys_thread_join(r, v) PROVE task'[s].state = "loading"
  <2>1. load_active' = load_active
    BY DEF sys_thread_join, loader
  <2>2. task \in Table
    BY DEF LifeInv
  <2>3. LoadingStay
    BY <2>2 DEF sys_thread_join, Table, TaskType, LoadingStay
  <2> QED  BY <2>1, <2>3
<1> QED
  BY <1>1, <1>3, <1>4, <1>5, <1>6, <1>7, <1>8, <1>9, <1>10, <1>11, <1>13 DEF Next

=============================================================================
