-------------------------- MODULE TaskLifeTheorems --------------------------
(***************************************************************************)
(* What becomes of the exit codes of TaskLife, for processes without       *)
(* threads; and the theorems about TaskLife, for any table, any number of  *)
(* exit records, any pids and any exit codes.                              *)
(***************************************************************************)
EXTENDS TaskLifeProofs

\* The provers a leaf is tried with, and their seconds.
USE ZenonT(60), SMTT(30)

-----------------------------------------------------------------------------
(***************************************************************************)
(* What becomes of an exit code, for processes without threads.            *)
(*                                                                         *)
(* A process has exited when it is a zombie or no longer there, and its    *)
(* code is then in one place: taken, on record, or with the parent that is *)
(* in exec for it.                                                         *)
(***************************************************************************)
Alive == {"ready", "blocked", "loading"}

PastAt(s) ==
  task[s].pid # 0 =>
    /\ ~task[s].thread /\ task[s].pc # "join" /\ task[s].parent < next_pid
    /\ task[s].pc = "alloc" => task[s].arg # "thread"
    /\ task[s].state = "loading" => task[s].pc = "user"
    /\ task[s].state \in Alive => ~exited[task[s].pid].done
    /\ task[s].state \in {"zombie", "dead"} =>
         /\ exited[task[s].pid].done
         /\ exited[task[s].pid].code = task[s].code /\ exited[task[s].pid].parent = task[s].parent

ExitAt(p) ==
  /\ p >= next_pid => ~exited[p].done
  /\ exited[p].done => exited[p].parent < next_pid
  /\ ~exited[p].done => taken[p] = <<>>
  /\ taken[p] # <<>> => taken[p] = <<exited[p].code>>

OnRecord(p) == \E i \in 1 .. Len(records) : records[i].pid = p

RecordAt(r) ==
  /\ exited[r.pid].done /\ exited[r.pid].code = r.code /\ exited[r.pid].parent = r.parent
  /\ taken[r.pid] = <<>>

RecordsOK ==
  /\ \A i \in 1 .. Len(records) : RecordAt(records[i])
  /\ \A i, j \in 1 .. Len(records) : records[i].pid = records[j].pid => i = j

\* An exec waits for its own child, then finds it claimed and its code
\* untouched, and has taken the code when it reaps.
ExecAt(s) ==
  /\ task[s].state = "blocked" /\ task[s].pc = "exec" /\ closing[s] = 0 =>
       /\ task[s].waiting = task[s].arg
       /\ \E c \in Slot : /\ task[c].pid = task[s].arg /\ task[c].state \in Alive
                          /\ task[c].parent = task[s].pid
  /\ task[s].state = "ready" /\ task[s].pc = "exec" =>
       \E c \in Slot : /\ task[c].pid = task[s].arg /\ task[c].state = "zombie"
                       /\ ~task[c].unclaimed /\ task[c].parent = task[s].pid
                       /\ taken[task[c].pid] = <<>> /\ ~OnRecord(task[c].pid)
  /\ task[s].state = "blocked" /\ task[s].pc = "exec" /\ closing[s] # 0 =>
       task[s].arg \in Pid /\ taken[task[s].arg] # <<>>

Nothing(s, w) ==
  \A i \in 1 .. Len(records) : records[i].parent = task[s].pid => w # AnyChild /\ records[i].pid # w
Child(s, w) ==
  \E c \in Slot : /\ task[c].parent = task[s].pid /\ ~task[c].thread /\ task[c].state \in Alive
                  /\ w = AnyChild \/ task[c].pid = w
Wait4At(s) ==
  task[s].state = "blocked" /\ task[s].pc = "wait4" => Nothing(s, task[s].arg) /\ Child(s, task[s].arg)

\* NoStatusLost, of pid p and the task q that is its parent.
KeptAt(p, q) ==
  exited[p].done /\ task[q].pid = exited[p].parent /\ task[q].state \in Alive =>
    \/ taken[p] # <<>> \/ p \in lost \/ OnRecord(p)
    \/ task[q].pc = "exec" /\ task[q].arg = p

CodesInv ==
  /\ \A s \in Slot : PastAt(s) /\ ExecAt(s) /\ Wait4At(s)
  /\ \A p \in Pid : ExitAt(p)
  /\ RecordsOK
  /\ \A p \in Pid, q \in Slot : KeptAt(p, q)

\* Most steps exit no task and deliver no code.  In such a step each slot
\* keeps its task, is cleared, or is filled.
Comes(q) ==
  /\ task[q].state \in {"free", "dead"} /\ next_pid' = next_pid + 1
  /\ task'[q].pid = next_pid /\ task'[q].parent < next_pid /\ ~task'[q].thread
  /\ task'[q].state \in {"ready", "loading"} /\ task'[q].pc = "user"

Goes(q) == task[q].state = "dead" /\ task'[q].pid = 0 /\ task'[q].state = "free"

SamePlace(q) ==
  /\ task'[q].pc = task[q].pc /\ task'[q].arg = task[q].arg /\ task'[q].waiting = task[q].waiting
  /\ closing'[q] = closing[q]
  /\ \/ task'[q].state = task[q].state
     \/ task[q].state = "zombie" /\ task[q].unclaimed /\ task'[q].state = "dead"

NewPlace(q) ==
  /\ task[q].state \in Alive /\ task'[q].state \in {"ready", "blocked"}
  /\ task[q].pc # "exec" \/ (task[q].state = "blocked" /\ closing[q] # 0)
  /\ \/ task'[q].pc = "user"
     \/ task'[q].pc = "alloc" /\ task'[q].arg # "thread"
     \/ task'[q].pc = "wait4" /\ Nothing(q, task'[q].arg) /\ Child(q, task'[q].arg)
     \/ /\ task'[q].pc = "exec" /\ task'[q].state = "blocked" /\ closing'[q] = 0
        /\ task'[q].arg = next_pid /\ task'[q].waiting = next_pid
        /\ \E f \in Slot : Comes(f) /\ task'[f].parent = task[q].pid

Stays(q) ==
  /\ SameTask(task[q], task'[q]) /\ task'[q].code = task[q].code
  /\ task'[q].unclaimed = task[q].unclaimed
  /\ SamePlace(q) \/ NewPlace(q)

Quiet ==
  /\ UNCHANGED <<records, exited, taken, lost>> /\ next_pid' \in {next_pid, next_pid + 1}
  /\ \A q \in Slot : Stays(q) \/ Goes(q) \/ Comes(q)

LEMMA QuietCodes == ASSUME LifeInv, LifeInv', CodesInv, Quiet PROVE CodesInv'
<1>0. /\ next_pid \in Nat /\ next_pid' \in Nat /\ next_pid <= next_pid'
      /\ UNCHANGED <<records, exited, taken, lost>>
  BY TaskLifeAssumption, SMTT(30) DEF LifeInv, Quiet
<1>1. ASSUME NEW q \in Slot, task[q].state \in {"ready", "blocked", "loading", "zombie"}
      PROVE  Stays(q)
  BY <1>1 DEF Quiet, Goes, Comes
<1>2. ASSUME NEW q \in Slot, task[q].state \in Alive
      PROVE  /\ task'[q].pid = task[q].pid /\ task'[q].parent = task[q].parent
             /\ task'[q].thread = task[q].thread /\ task'[q].state \in Alive
  BY <1>1, <1>2 DEF Alive, Stays, SameTask, SamePlace, NewPlace
<1>3. ASSUME NEW q \in Slot, task'[q].state \in Alive
      PROVE  (Stays(q) /\ task[q].state \in Alive) \/ Comes(q)
  BY <1>3 DEF Quiet, Stays, Goes, Alive, SamePlace, NewPlace
<1>4. \A p \in Pid : ExitAt(p)'
  <2> SUFFICES ASSUME NEW p \in Pid PROVE ExitAt(p)'
    OBVIOUS
  <2>1. exited[p].parent \in Int /\ p \in Int
    BY SMTT(30) DEF LifeInv, Pid
  <2>2. ExitAt(p)
    BY DEF CodesInv
  <2> QED  BY <1>0, <2>1, <2>2, SMTT(30) DEF ExitAt
<1>5. RecordsOK'
  BY <1>0 DEF CodesInv, RecordsOK, RecordAt
<1>6. ASSUME NEW s \in Slot PROVE PastAt(s)'
  <2> SUFFICES ASSUME task'[s].pid # 0 PROVE PastAt(s)'
    BY DEF PastAt
  <2>0. task'[s].pid \in Pid /\ task[s].pid \in 0 .. MaxPid /\ task[s].parent \in 0 .. MaxPid
    <3>1. task'[s] \in TaskType /\ task[s] \in TaskType
      BY DEF LifeInv, Table
    <3> QED  BY <3>1, TaskLifeAssumption, SMTT(30) DEF TaskType, Pid
  <2> CASE Comes(s)
    <3>1. ~exited[task'[s].pid].done
      BY <1>0, <2>0, SMTT(30) DEF Comes, CodesInv, ExitAt
    <3>2. task'[s].parent \in 0 .. MaxPid
      BY DEF LifeInv, Table, TaskType
    <3> QED  BY <1>0, <3>1, <3>2, SMTT(30) DEF Comes, PastAt, Alive
  <2> CASE Stays(s)
    <3> /\ task'[s].pid = task[s].pid /\ task'[s].parent = task[s].parent
        /\ task'[s].thread = task[s].thread /\ task'[s].code = task[s].code
      BY DEF Stays, SameTask
    <3> PastAt(s) /\ task[s].pid # 0
      BY DEF CodesInv
    <3> task'[s].parent < next_pid'
      BY <1>0, <2>0, SMTT(30) DEF PastAt
    <3> CASE SamePlace(s)
      BY <1>0 DEF SamePlace, PastAt, Alive
    <3> CASE NewPlace(s)
      BY <1>0 DEF NewPlace, PastAt, Alive
    <3> QED  BY DEF Stays
  <2> QED  BY DEF Quiet, Goes
<1>7. ASSUME NEW s \in Slot PROVE ExecAt(s)'
  <2> SUFFICES ASSUME task'[s].state \in {"ready", "blocked"}, task'[s].pc = "exec" PROVE ExecAt(s)'
    BY DEF ExecAt
  <2>1. Stays(s) /\ task[s].state \in Alive
    BY <1>3 DEF Comes, Alive
  <2>2. CASE SamePlace(s)
    <3> /\ task'[s].pid = task[s].pid /\ task'[s].arg = task[s].arg /\ task'[s].waiting = task[s].waiting
        /\ task'[s].state = task[s].state /\ task[s].pc = "exec" /\ closing'[s] = closing[s]
      BY <2>1, <2>2 DEF SamePlace, Stays, SameTask, Alive
    <3> ExecAt(s)
      BY DEF CodesInv
    <3> CASE task[s].state = "blocked" /\ closing[s] = 0
      <4>1. PICK c \in Slot : /\ task[c].pid = task[s].arg /\ task[c].state \in Alive
                              /\ task[c].parent = task[s].pid
        BY DEF ExecAt
      <4>2. task[s].waiting = task[s].arg
        BY DEF ExecAt
      <4>3. task'[c].pid = task'[s].arg /\ task'[c].state \in Alive /\ task'[c].parent = task'[s].pid
        BY <1>2, <4>1
      <4> QED  BY <4>2, <4>3 DEF ExecAt
    <3> CASE task[s].state = "ready"
      <4> PICK c \in Slot : /\ task[c].pid = task[s].arg /\ task[c].state = "zombie"
                            /\ ~task[c].unclaimed /\ task[c].parent = task[s].pid
                            /\ taken[task[c].pid] = <<>> /\ ~OnRecord(task[c].pid)
        BY DEF ExecAt
      <4>2. Stays(c)
        BY <1>1
      <4> /\ task'[c].pid = task[c].pid /\ task'[c].state = "zombie" /\ ~task'[c].unclaimed
          /\ task'[c].parent = task[c].parent
        BY <4>2 DEF Stays, SameTask, SamePlace, NewPlace, Alive
      <4>4. taken'[task'[c].pid] = <<>> /\ ~OnRecord(task[c].pid)'
        BY <1>0 DEF OnRecord
      <4> QED  BY <4>4 DEF ExecAt
    <3> CASE task[s].state = "blocked" /\ closing[s] # 0
      BY <1>0 DEF ExecAt
    <3> QED  OBVIOUS
  <2> CASE NewPlace(s)
    <3> /\ task'[s].state = "blocked" /\ closing'[s] = 0
        /\ task'[s].arg = next_pid /\ task'[s].waiting = next_pid
      BY DEF NewPlace
    <3>2. PICK f \in Slot : Comes(f) /\ task'[f].parent = task[s].pid
      BY DEF NewPlace
    <3>3. task'[f].pid = task'[s].arg /\ task'[f].state \in Alive /\ task'[f].parent = task'[s].pid
      BY <2>1, <3>2 DEF Comes, Alive, Stays, SameTask
    <3> QED  BY <3>3 DEF ExecAt
  <2> QED  BY <2>1, <2>2 DEF Stays
<1>8. ASSUME NEW s \in Slot PROVE Wait4At(s)'
  <2> SUFFICES ASSUME task'[s].state = "blocked", task'[s].pc = "wait4"
               PROVE  Nothing(s, task[s].arg)' /\ Child(s, task[s].arg)'
    BY DEF Wait4At
  <2> Stays(s) /\ task[s].state \in Alive
    BY <1>3 DEF Comes, Alive
  <2> task'[s].pid = task[s].pid
    BY DEF Stays, SameTask
  <2> Nothing(s, task'[s].arg) /\ Child(s, task'[s].arg)
    <3> CASE SamePlace(s)
      BY DEF SamePlace, CodesInv, Wait4At, Alive
    <3> CASE NewPlace(s)
      BY DEF NewPlace
    <3> QED  BY DEF Stays
  <2>4. Nothing(s, task[s].arg)'
    BY <1>0 DEF Nothing
  <2>5. Child(s, task[s].arg)'
    <3>1. PICK c \in Slot : /\ task[c].parent = task[s].pid /\ ~task[c].thread /\ task[c].state \in Alive
                            /\ task'[s].arg = AnyChild \/ task[c].pid = task'[s].arg
      BY DEF Child
    <3> QED  BY <1>2, <3>1 DEF Child
  <2> QED  BY <2>4, <2>5
<1>9. ASSUME NEW p \in Pid, NEW q \in Slot PROVE KeptAt(p, q)'
  <2> SUFFICES ASSUME exited[p].done, task'[q].pid = exited[p].parent, task'[q].state \in Alive
               PROVE  \/ taken[p] # <<>> \/ p \in lost \/ OnRecord(p)
                      \/ task'[q].pc = "exec" /\ task'[q].arg = p
    BY <1>0 DEF KeptAt, OnRecord
  <2>1. ~Comes(q)
    <3>1. exited[p].parent < next_pid
      BY DEF CodesInv, ExitAt
    <3> QED  BY <1>0, <3>1, SMTT(30) DEF Comes
  <2> Stays(q) /\ task[q].state \in Alive
    BY <1>3, <2>1
  <2> KeptAt(p, q) /\ ExecAt(q)
    BY DEF CodesInv
  <2>4. task[q].pid = exited[p].parent
    BY DEF Stays, SameTask
  <2> CASE task[q].pc = "exec" /\ task[q].arg = p
    <3> CASE SamePlace(q)
      BY DEF SamePlace
    <3> CASE NewPlace(q)
      BY DEF NewPlace, ExecAt
    <3> QED  BY DEF Stays
  <2> QED  BY <2>4 DEF KeptAt
<1> QED  BY <1>4, <1>5, <1>6, <1>7, <1>8, <1>9 DEF CodesInv

\* Who waits for s is in exec for it, and is its parent.
LEMMA WaiterIsParent ==
  ASSUME LifeInv, CodesInv, NEW s \in Slot, task[s].pid # 0, NEW w \in Waiters(task, s)
  PROVE  /\ w \in Slot /\ task[w].state = "blocked" /\ task[w].pc = "exec" /\ closing[w] = 0
         /\ task[w].arg = task[s].pid /\ task[s].parent = task[w].pid /\ task[s].state \in Alive
<1> w \in Slot /\ task[w].state = "blocked" /\ task[w].waiting = task[s].pid
  BY DEF Waiters
<1> PidsOK(task, next_pid) /\ ReapsOK(task, closing) /\ ParksOK(task)
  BY DEF LifeInv, LifeOK
<1> closing[w] = 0
  BY DEF ReapsOK
<1> PastAt(w) /\ ExecAt(w) /\ task[w].pid # 0
  BY DEF CodesInv, PidsOK
<1> task[w].pc = "exec" /\ task[w].arg = task[s].pid
  BY DEF ParksOK, ParkedAt, PastAt
<1> PICK c \in Slot : task[c].pid = task[w].arg /\ task[c].state \in Alive /\ task[c].parent = task[w].pid
  BY DEF ExecAt
<1>7. c = s
  BY DEF PidsOK
<1> QED  BY <1>7

LEMMA ExitCodes ==
  ASSUME LifeInv, LifeInv', CodesInv, NEW s \in Slot, task[s].state \in Alive, closing[s] = 0,
         NEW code \in Int, mark_task_exited(s, code), UNCHANGED <<next_pid, closing, taken>>
  PROVE  CodesInv'
<1>w. WalksOK
  BY DEF LifeInv
<1> DEFINE me == task[s].pid
<1>0. /\ task \in Table /\ PidsOK(task, next_pid) /\ ReapsOK(task, closing) /\ ParksOK(task)
      /\ next_pid \in Nat
  BY TaskLifeAssumption, SMTT(30) DEF LifeInv, LifeOK
<1>1. MarkedAs(task, task', s, code)
  BY <1>0, MarkedFacts DEF mark_task_exited
<1>2. me \in Pid /\ me # 0 /\ me < next_pid /\ task[s].parent \in 0 .. MaxPid
  <2>1. me # 0 /\ me < next_pid
    BY <1>0 DEF PidsOK, Alive
  <2>2. task[s] \in TaskType
    BY <1>0 DEF Table
  <2> QED  BY <2>1, <2>2, TaskLifeAssumption, SMTT(30) DEF TaskType, Pid
<1>3. /\ exited'[me] = [done |-> TRUE, code |-> code, parent |-> task[s].parent]
      /\ \A p \in Pid : p # me => exited'[p] = exited[p]
  BY <1>2 DEF mark_task_exited, LifeInv
<1>3a. exited'[me].done /\ exited'[me].code = code /\ exited'[me].parent = task[s].parent
  BY <1>3, SMTT(30)
<1>4. ~exited[me].done /\ taken[me] = <<>> /\ task[s].parent < next_pid
  BY <1>2 DEF CodesInv, PastAt, ExitAt
<1>5. /\ \A k \in 1 .. Len(records') :
           \/ \E i \in 1 .. Len(records) : records'[k] = records[i]
           \/ KeepsRecord(task, s) /\ records'[k] = NewRecord(task, s, code)
      /\ /\ \A i, j \in 1 .. Len(records) : records[i].pid = records[j].pid => i = j
         /\ \A i \in 1 .. Len(records) : records[i].pid # task[s].pid
         => \A k, l \in 1 .. Len(records') : records'[k].pid = records'[l].pid => k = l
      /\ \A i \in 1 .. Len(records) : records[i].parent # task[s].pid =>
           (\E k \in 1 .. Len(records') : records'[k] = records[i]) \/ records[i].pid \in Evicted(task, records, s)
      /\ KeepsRecord(task, s) => \E k \in 1 .. Len(records') : records'[k] = NewRecord(task, s, code)
  <2>1. records \in Seq(RecType) /\ Len(records) <= TASK_EXIT_RECORDS
    BY DEF LifeInv
  <2>2. records' = RecordsAfter(task, records, s, code)
    BY DEF mark_task_exited
  <2>3. RecordsAre(task, records, s, code, RecordsAfter(task, records, s, code))
    BY <1>0, <1>2, <2>1, <1>w, RecordsFacts
  <2>4. RecordsAre(task, records, s, code, records')
    BY <2>2, <2>3
  <2> QED  BY <2>4 DEF RecordsAre
<1>5a. /\ NewRecord(task, s, code).pid = me /\ NewRecord(task, s, code).code = code
       /\ NewRecord(task, s, code).parent = task[s].parent
  BY DEF NewRecord
<1>5b. \A i \in 1 .. Len(records) : records[i] \in RecType
  BY SMTT(30) DEF LifeInv
<1>5c. \A i \in 1 .. Len(records) : records[i].pid \in Pid /\ records[i].pid # me /\ RecordAt(records[i])
  <2>1. \A i \in 1 .. Len(records) : records[i].pid \in Pid
    BY <1>5b DEF RecType
  <2>2. \A i \in 1 .. Len(records) : RecordAt(records[i])
    BY DEF CodesInv, RecordsOK
  <2> QED  BY <1>4, <2>1, <2>2 DEF RecordAt
<1>6. lost' = lost \cup Evicted(task, records, s)
  BY DEF mark_task_exited
<1>7. \A q \in Slot \ {s} : task'[q].unclaimed = task[q].unclaimed
  <2> SUFFICES ASSUME NEW q \in Slot \ {s}, task[s].state = "blocked", task[s].waiting > 0,
                      task[q].pid = task[s].waiting, task[q].state = "zombie"
               PROVE  FALSE
    BY <1>1 DEF MarkedAs
  <2>1. s \in Waiters(task, q) /\ task[q].pid # 0
    BY <1>0 DEF Waiters, PidsOK
  <2> QED  BY <2>1, WaiterIsParent DEF Alive
<1>8. \A q \in Slot : /\ task'[q].pid = task[q].pid /\ task'[q].parent = task[q].parent
                      /\ task'[q].thread = task[q].thread
                      /\ task'[q].pc = task[q].pc /\ task'[q].arg = task[q].arg
  BY <1>1 DEF MarkedAs, SameTask
<1>9. \A q \in Slot \ {s} :
        /\ task'[q].code = task[q].code
        /\ \/ task'[q].state = task[q].state
           \/ task[q].state = "blocked" /\ task'[q].state = "ready"
        /\ task[q].pid # me \/ task[q].pid = 0
  BY <1>0, <1>1, <1>2 DEF MarkedAs, PidsOK, Waiters, WokenInWait4
<1>10. task'[s].state = "zombie" /\ task'[s].code = code
  BY <1>1 DEF MarkedAs
<1>11. ASSUME NEW q \in Slot PROVE PastAt(q)'
  <2>1. PastAt(q)
    BY DEF CodesInv
  <2>2. CASE q = s
    BY <1>2, <1>3a, <1>4, <1>8, <1>10, <2>1, <2>2 DEF PastAt, Alive
  <2> CASE q # s
    <3> SUFFICES ASSUME task[q].pid # 0 PROVE PastAt(q)'
      BY <1>8 DEF PastAt
    <3>1. task[q].pid \in Pid
      BY <1>0, TaskLifeAssumption, SMTT(30) DEF Table, TaskType, Pid
    <3>2. exited'[task[q].pid] = exited[task[q].pid]
      BY <1>3, <1>9, <3>1
    <3> QED  BY <1>8, <1>9, <2>1, <3>2, SMTT(30) DEF PastAt, Alive
  <2> QED  BY <2>2
<1>12. ASSUME NEW p \in Pid PROVE ExitAt(p)'
  <2>1. ExitAt(p)
    BY DEF CodesInv
  <2> CASE p = me
    <3>1. ~(p >= next_pid')
      BY <1>0, <1>2, SMTT(30) DEF Pid
    <3>2. exited'[p].done /\ exited'[p].parent < next_pid' /\ taken'[p] = <<>>
      BY <1>3a, <1>4
    <3> QED  BY <3>1, <3>2 DEF ExitAt
  <2>3. CASE p # me
    BY <1>3, <2>1, <2>3 DEF ExitAt
  <2> QED  BY <2>3
<1>13. RecordsOK'
  <2>1. ASSUME NEW k \in 1 .. Len(records') PROVE RecordAt(records[k])'
    <3>1. CASE records'[k] = NewRecord(task, s, code)
      BY <1>3a, <1>4, <1>5a, <3>1 DEF RecordAt
    <3>2. ASSUME NEW i \in 1 .. Len(records), records'[k] = records[i] PROVE RecordAt(records[k])'
      BY <1>3, <1>5c, <3>2, SMTT(30) DEF RecordAt
    <3> QED  BY <1>5, <3>1, <3>2
  <2>2. \A k, l \in 1 .. Len(records') : records'[k].pid = records'[l].pid => k = l
    BY <1>5, <1>5c DEF CodesInv, RecordsOK
  <2> QED  BY <2>1, <2>2 DEF RecordsOK
<1>14. ASSUME NEW q \in Slot PROVE ExecAt(q)'
  <2> SUFFICES ASSUME task'[q].state \in {"ready", "blocked"}, task'[q].pc = "exec" PROVE ExecAt(q)'
    BY DEF ExecAt
  <2>0. q # s /\ task[q].pc = "exec" /\ ExecAt(q)
    BY <1>8, <1>10 DEF CodesInv
  <2>1. CASE q \in Waiters(task, s)
    <3>1. task'[q].state = "ready" /\ task'[s].unclaimed = FALSE
      BY <1>1, <2>0, <2>1 DEF MarkedAs
    <3>2. task[q].arg = me /\ task[s].parent = task[q].pid
      BY <1>2, <2>1, WaiterIsParent
    <3>3. ~OnRecord(task[s].pid)'
      <4>1. ~KeepsRecord(task, s)
        BY <2>0, <2>1 DEF KeepsRecord
      <4> QED  BY <1>5, <1>5c, <1>8, <4>1, SMTT(30) DEF OnRecord
    <3> QED  BY <1>4, <1>8, <1>10, <3>1, <3>2, <3>3 DEF ExecAt
  <2>2. CASE q \notin Waiters(task, s)
    <3>1. task'[q].state = task[q].state /\ task'[q].waiting = task[q].waiting
      BY <1>1, <2>0, <2>2 DEF MarkedAs, WokenInWait4
    <3>2. CASE task[q].state = "blocked" /\ closing[q] = 0
      <4>1. task[q].waiting = task[q].arg
        BY <2>0, <3>2 DEF ExecAt
      <4> PICK c \in Slot : /\ task[c].pid = task[q].arg /\ task[c].state \in Alive
                            /\ task[c].parent = task[q].pid
        BY <2>0, <3>2 DEF ExecAt
      <4>3. c # s
        BY <2>2, <3>2, <4>1 DEF Waiters
      <4>4. task'[c].state \in Alive
        BY <1>9, <4>3 DEF Alive
      <4> QED  BY <1>8, <3>1, <3>2, <4>1, <4>4 DEF ExecAt
    <3>3. CASE task[q].state = "ready"
      <4> PICK c \in Slot : /\ task[c].pid = task[q].arg /\ task[c].state = "zombie"
                            /\ ~task[c].unclaimed /\ task[c].parent = task[q].pid
                            /\ taken[task[c].pid] = <<>> /\ ~OnRecord(task[c].pid)
        BY <2>0, <3>3 DEF ExecAt
      <4>2. c # s
        BY DEF Alive
      <4>3. task'[c].state = "zombie" /\ task'[c].unclaimed = task[c].unclaimed /\ task[c].pid # me
        BY <1>0, <1>7, <1>9, <4>2 DEF PidsOK
      <4>4. ~OnRecord(task[c].pid)'
        BY <1>5, <1>5a, <1>8, <4>3, SMTT(30) DEF OnRecord
      <4>5. taken'[task'[c].pid] = <<>>
        BY <1>8
      <4> QED  BY <1>8, <3>1, <3>3, <4>3, <4>4, <4>5 DEF ExecAt
    <3>4. CASE task[q].state = "blocked" /\ closing[q] # 0
      BY <1>8, <2>0, <3>1, <3>4 DEF ExecAt
    <3> QED  BY <3>1, <3>2, <3>3, <3>4
  <2> QED  BY <2>1, <2>2
<1>15. ASSUME NEW q \in Slot PROVE Wait4At(q)'
  <2>1. ~(task'[q].state = "blocked" /\ task'[q].pc = "wait4")
    <3>1. CASE q = s
      BY <1>10, <3>1
    <3>2. CASE q # s
      BY <1>1, <1>8, <3>2 DEF MarkedAs, WokenInWait4
    <3> QED  BY <3>1, <3>2
  <2> QED  BY <2>1 DEF Wait4At
<1>16. ASSUME NEW p \in Pid, NEW q \in Slot PROVE KeptAt(p, q)'
  <2> SUFFICES ASSUME exited'[p].done, task'[q].pid = exited'[p].parent, task'[q].state \in Alive
               PROVE  \/ taken'[p] # <<>> \/ p \in lost' \/ OnRecord(p)'
                      \/ task'[q].pc = "exec" /\ task'[q].arg = p
    BY DEF KeptAt
  <2>1. q # s /\ task[q].state \in Alive /\ task[q].pid # 0
    <3>1. q # s
      BY <1>10 DEF Alive
    <3>2. task[q].state \in Alive
      BY <1>9, <3>1 DEF Alive
    <3> QED  BY <1>0, <3>1, <3>2 DEF PidsOK, Alive
  <2>2. CASE p = me
    <3>1. task[q].pid = task[s].parent
      BY <1>3a, <1>8, <2>2
    <3>2. CASE Waiters(task, s) \ {s} # {}
      <4>1. PICK w \in Waiters(task, s) : w # s
        BY <3>2
      <4>2. w \in Slot /\ task[w].pc = "exec" /\ task[w].arg = me /\ task[s].parent = task[w].pid
        BY <1>2, <4>1, WaiterIsParent
      <4>3. w = q
        BY <1>0, <2>1, <3>1, <4>2 DEF PidsOK
      <4> QED  BY <1>8, <2>2, <4>2, <4>3
    <3>3. CASE Waiters(task, s) \ {s} = {}
      <4>1. task[q].pid > 0 /\ task[q].pid \in Int
        BY <1>0, <2>1, SMTT(30) DEF Table, TaskType
      <4>2. Has(task, task[q].pid)
        BY <4>1 DEF Has
      <4>3. task_find(task, task[q].pid) = q
        BY <1>0, <4>2, FindIs
      <4>4. KeepsRecord(task, s)
        BY <2>1, <3>1, <3>3, <4>1, <4>2, <4>3 DEF KeepsRecord, Live, Gone, Alive
      <4> QED  BY <1>5, <1>5a, <2>2, <4>4, SMTT(30) DEF OnRecord
    <3> QED  BY <3>2, <3>3
  <2>3. CASE p # me
    <3>1. exited'[p] = exited[p] /\ task[q].pid = exited[p].parent
      BY <1>3, <1>8, <2>3
    <3>2. \/ taken[p] # <<>> \/ p \in lost \/ OnRecord(p)
          \/ task[q].pc = "exec" /\ task[q].arg = p
      BY <2>1, <3>1 DEF CodesInv, KeptAt
    <3>3. CASE OnRecord(p)
      <4>1. PICK i \in 1 .. Len(records) : records[i].pid = p
        BY <3>3 DEF OnRecord
      <4>2. records[i].parent # task[s].pid
        BY <1>0, <1>5c, <2>1, <3>1, <4>1, SMTT(30) DEF RecordAt, PidsOK
      <4> QED  BY <1>5, <1>6, <4>1, <4>2 DEF OnRecord
    <3> QED  BY <1>6, <1>8, <3>2, <3>3
  <2> QED  BY <2>2, <2>3
<1> QED  BY <1>11, <1>12, <1>13, <1>14, <1>15, <1>16 DEF CodesInv

\* wait4 takes a code off the records.
LEMMA CollectCodes ==
  ASSUME LifeInv, CodesInv, NEW s \in Slot, task[s].state = "ready", task[s].pc # "exec",
         NEW w, Matching(s, w) # {}, Collect(s, w), UNCHANGED <<next_pid, closing, exited, lost>>
  PROVE  CodesInv'
<1>w. WalksOK
  BY DEF LifeInv
<1> DEFINE j == Lowest(Matching(s, w))
<1>0. task \in Table /\ records \in Seq(RecType) /\ Len(records) \in Nat /\ DOMAIN records = 1 .. Len(records)
  BY SMTT(30) DEF LifeInv
<1>1. j \in 1 .. Len(records)
  <2>1. Matching(s, w) \in SUBSET (1 .. Len(records))
    BY <1>0 DEF Matching
  <2> QED  BY <1>0, <2>1, <1>w, LowestIn
<1>2. PICK i \in 1 .. Len(records) : i = j
  BY <1>1
<1>3. /\ records' = Unlink(records, i)
      /\ taken' = [taken EXCEPT ![records[i].pid] = Append(@, records[i].code)]
      /\ task' = [task EXCEPT ![s].pc = "user", ![s].arg = 0]
  BY <1>2 DEF Collect
<1>4. OnlyAt(task, task', s) /\ At(task', s, task[s].state, task[s].waiting, "user", 0)
  BY <1>0, <1>3, SetReturn
<1>5. /\ records' \in Seq(RecType) /\ Len(records') = Len(records) - 1
      /\ \A k \in 1 .. Len(records') : records'[k] = IF k < i THEN records[k] ELSE records[k + 1]
  BY <1>0, <1>3, UnlinkFacts
<1>6. ASSUME NEW k \in 1 .. Len(records')
      PROVE  \E m \in 1 .. Len(records) : /\ m # i /\ records'[k] = records[m]
                                          /\ k < i => m = k
                                          /\ ~(k < i) => m = k + 1
  <2> CASE k < i
    <3>1. k \in 1 .. Len(records) /\ k # i
      BY <1>0, <1>5, SMTT(30)
    <3> QED  BY <1>5, <3>1
  <2> CASE ~(k < i)
    <3>1. k + 1 \in 1 .. Len(records) /\ k + 1 # i
      BY <1>0, <1>5, SMTT(30)
    <3> QED  BY <1>5, <3>1
  <2> QED  OBVIOUS
<1>7. ASSUME NEW m \in 1 .. Len(records), m # i
      PROVE  \E k \in 1 .. Len(records') : records'[k] = records[m]
  <2> CASE m < i
    <3>1. m \in 1 .. Len(records')
      BY <1>0, <1>5, SMTT(30)
    <3> QED  BY <1>5, <3>1
  <2> CASE ~(m < i)
    <3> m - 1 \in 1 .. Len(records') /\ ~(m - 1 < i) /\ (m - 1) + 1 = m
      BY <1>0, <1>5, <1>7, SMTT(30)
    <3>2. records'[m - 1] = records[m]
      BY <1>5
    <3> QED  BY <3>2
  <2> QED  OBVIOUS
<1>8. RecordsOK /\ records[i].pid \in Pid /\ RecordAt(records[i])
  <2>1. records[i] \in RecType
    BY <1>0, SMTT(30)
  <2> QED  BY <2>1 DEF CodesInv, RecordsOK, RecType
<1>9. /\ taken[records[i].pid] = <<>> /\ taken'[records[i].pid] = <<records[i].code>>
      /\ \A p \in Pid : p # records[i].pid => taken'[p] = taken[p]
  <2>1. taken[records[i].pid] = <<>> /\ taken \in [Pid -> Seq(Int)]
    BY <1>8 DEF RecordAt, LifeInv
  <2>2. Append(<<>>, records[i].code) = <<records[i].code>>
    BY SMTT(30)
  <2> QED  BY <1>3, <1>8, <2>1, <2>2
<1>10. \A p \in Pid : taken[p] # <<>> => taken'[p] # <<>>
  <2>1. <<records[i].code>> # <<>>
    OBVIOUS
  <2> QED  BY <1>9, <2>1
<1>11. \A q \in Slot : /\ task'[q].pid = task[q].pid /\ task'[q].parent = task[q].parent
                       /\ task'[q].thread = task[q].thread /\ task'[q].code = task[q].code
                       /\ task'[q].unclaimed = task[q].unclaimed /\ task'[q].state = task[q].state
                       /\ q # s => task'[q] = task[q]
  BY <1>4 DEF OnlyAt, At, SameTask
<1>12. task'[s].pc = "user"
  BY <1>4 DEF At
<1>13. ASSUME NEW q \in Slot PROVE PastAt(q)'
  <2>1. PastAt(q)
    BY DEF CodesInv
  <2>2. (task'[q].pc = task[q].pc /\ task'[q].arg = task[q].arg) \/ task'[q].pc = "user"
    BY <1>11, <1>12
  <2> QED  BY <1>11, <2>1, <2>2 DEF PastAt
<1>14. ASSUME NEW p \in Pid PROVE ExitAt(p)'
  <2> ExitAt(p)
    BY DEF CodesInv
  <2> CASE p = records[i].pid
    BY <1>8, <1>9 DEF ExitAt, RecordAt
  <2> CASE p # records[i].pid
    BY <1>9 DEF ExitAt
  <2> QED  OBVIOUS
<1>15. RecordsOK'
  <2>1. ASSUME NEW k \in 1 .. Len(records') PROVE RecordAt(records[k])'
    <3> PICK m \in 1 .. Len(records) : m # i /\ records'[k] = records[m]
      BY <1>6
    <3> RecordAt(records[m]) /\ records[m].pid # records[i].pid /\ records[m] \in RecType
      BY <1>0, <1>8, SMTT(30) DEF RecordsOK
    <3>3. records[m].pid \in Pid
      BY DEF RecType
    <3> QED  BY <1>9, <3>3 DEF RecordAt
  <2> ASSUME NEW k \in 1 .. Len(records'), NEW l \in 1 .. Len(records'), records'[k].pid = records'[l].pid
      PROVE  k = l
    <3>0. k \in Int /\ l \in Int /\ i \in Int
      BY SMTT(30)
    <3> PICK m \in 1 .. Len(records) : /\ m # i /\ records'[k] = records[m]
                                       /\ k < i => m = k
                                       /\ ~(k < i) => m = k + 1
      BY <1>6
    <3> PICK n \in 1 .. Len(records) : /\ n # i /\ records'[l] = records[n]
                                       /\ l < i => n = l
                                       /\ ~(l < i) => n = l + 1
      BY <1>6
    <3>3. m = n
      BY <1>8 DEF RecordsOK
    <3> QED  BY <3>0, <3>3, SMTT(30)
  <2> QED  BY <2>1 DEF RecordsOK
<1>16. ASSUME NEW p, ~OnRecord(p) PROVE ~OnRecord(p)' /\ p # records[i].pid
  BY <1>6, <1>16 DEF OnRecord
<1>17. ASSUME NEW q \in Slot PROVE ExecAt(q)'
  <2>0. ExecAt(q)
    BY DEF CodesInv
  <2>1. CASE q = s
    BY <1>12, <2>1 DEF ExecAt
  <2>2. CASE q # s
    <3> task'[q] = task[q]
      BY <1>11, <2>2
    <3>2. CASE task[q].state = "blocked" /\ task[q].pc = "exec" /\ closing[q] = 0
      BY <1>11, <2>0, <3>2, SMTT(30) DEF ExecAt
    <3> CASE task[q].state = "ready" /\ task[q].pc = "exec"
      <4> PICK c \in Slot : /\ task[c].pid = task[q].arg /\ task[c].state = "zombie"
                            /\ ~task[c].unclaimed /\ task[c].parent = task[q].pid
                            /\ taken[task[c].pid] = <<>> /\ ~OnRecord(task[c].pid)
        BY <2>0 DEF ExecAt
      <4>2. task[c].pid \in Pid
        <5>1. task[c].pid # 0 /\ task[c] \in TaskType
          BY <1>0 DEF LifeInv, LifeOK, PidsOK, Table
        <5> QED  BY <5>1, TaskLifeAssumption, SMTT(30) DEF TaskType, Pid
      <4>3. taken'[task'[c].pid] = <<>> /\ ~OnRecord(task[c].pid)'
        <5>1. task'[c].pid = task[c].pid
          BY <1>11
        <5>2. task[c].pid # records[i].pid
          BY <1>16
        <5> ASSUME NEW p, p = task[c].pid PROVE ~OnRecord(p)'
          BY <1>16
        <5> QED  BY <1>9, <4>2, <5>1, <5>2 DEF OnRecord
      <4> QED  BY <1>11, <4>3 DEF ExecAt
    <3> CASE task[q].state = "blocked" /\ task[q].pc = "exec" /\ closing[q] # 0
      BY <1>10, <2>0 DEF ExecAt
    <3> QED  BY <3>2 DEF ExecAt
  <2> QED  BY <2>1, <2>2
<1>18. ASSUME NEW q \in Slot PROVE Wait4At(q)'
  <2> SUFFICES ASSUME task'[q].state = "blocked", task'[q].pc = "wait4"
               PROVE  Nothing(q, task[q].arg)' /\ Child(q, task[q].arg)'
    BY DEF Wait4At
  <2> task'[q] = task[q] /\ Wait4At(q)
    BY <1>11, <1>12 DEF CodesInv
  <2> Nothing(q, task[q].arg) /\ Child(q, task[q].arg)
    BY DEF Wait4At
  <2>3. Nothing(q, task[q].arg)'
    BY <1>6 DEF Nothing
  <2>4. Child(q, task[q].arg)'
    BY <1>11, SMTT(30) DEF Child
  <2> QED  BY <2>3, <2>4
<1>19. ASSUME NEW p \in Pid, NEW q \in Slot PROVE KeptAt(p, q)'
  <2>1. KeptAt(p, q)
    BY DEF CodesInv
  <2>2. task[q].pc = "exec" => task'[q] = task[q]
    BY <1>11
  <2>3. OnRecord(p) => OnRecord(p)' \/ p = records[i].pid
    BY <1>7 DEF OnRecord
  <2>4. p = records[i].pid => taken'[p] # <<>>
    <3>1. <<records[i].code>> # <<>>
      BY SMTT(30)
    <3> QED  BY <1>9, <3>1
  <2>5. task'[q].pid = task[q].pid /\ task'[q].state = task[q].state
    BY <1>11
  <2> QED  BY <1>10, <2>1, <2>2, <2>3, <2>4, <2>5 DEF KeptAt
<1> QED  BY <1>13, <1>14, <1>15, <1>17, <1>18, <1>19 DEF CodesInv

\* exec takes its child's code and claims it.
LEMMA TakeCodes ==
  ASSUME LifeInv, CodesInv, NEW s \in Slot, process_exec_resume(s) PROVE CodesInv'
<1>0. /\ task \in Table /\ PidsOK(task, next_pid) /\ closing \in Closings
      /\ task[s].state = "ready" /\ task[s].pc = "exec"
  <2>1. task[s].state = "ready" /\ task[s].pc = "exec"
    BY DEF process_exec_resume, Runs
  <2> QED  BY <2>1 DEF LifeInv, LifeOK
<1>1. PICK c \in Slot : /\ task[c].pid = task[s].arg /\ task[c].state = "zombie"
                        /\ ~task[c].unclaimed /\ task[c].parent = task[s].pid
                        /\ taken[task[c].pid] = <<>> /\ ~OnRecord(task[c].pid)
  BY <1>0 DEF CodesInv, ExecAt
<1>2. c # s /\ task[c].pid # 0 /\ task[c].pid \in Pid /\ task[s].pid # 0 /\ c # 0 /\ task[c].code \in Int
  <2>1. c # s /\ task[c].pid # 0 /\ task[s].pid # 0
    BY <1>0, <1>1 DEF PidsOK
  <2>2. task[c] \in TaskType
    BY <1>0 DEF Table
  <2> QED  BY <2>1, <2>2, TaskLifeAssumption, SMTT(30) DEF TaskType, Pid, Slot
<1>3. Has(task, task[s].arg) /\ task_find(task, task[s].arg) = c
  <2>1. Has(task, task[s].arg)
    BY <1>1, <1>2, SMTT(30) DEF Has, Pid
  <2> QED  BY <1>0, <1>1, <2>1, FindIs, SMTT(30)
<1>4. /\ taken' = [taken EXCEPT ![task[c].pid] = Append(@, task[c].code)]
      /\ task' = [Claimed(task, c) EXCEPT ![s].state = "blocked"]
      /\ closing' = [closing EXCEPT ![s] = c]
      /\ UNCHANGED <<next_pid, records, exited, lost>>
  BY <1>1, <1>3 DEF process_exec_resume
<1> \A q \in Slot : /\ task'[q].pid = task[q].pid /\ task'[q].parent = task[q].parent
                    /\ task'[q].thread = task[q].thread /\ task'[q].code = task[q].code
                    /\ task'[q].unclaimed = task[q].unclaimed /\ task'[q].waiting = task[q].waiting
                    /\ task'[q].pc = task[q].pc /\ task'[q].arg = task[q].arg
                    /\ task'[q].state = IF q = s THEN "blocked" ELSE IF q = c THEN "dead" ELSE task[q].state
  <2> DEFINE P == [task EXCEPT ![s].state = "blocked"]
  <2> OnlyAt(task, P, s) /\ At(P, s, "blocked", task[s].waiting, task[s].pc, task[s].arg)
    BY <1>0, SetState DEF States
  <2>2. task' = Claimed(P, c)
    BY <1>0, <1>2, <1>4 DEF Claimed, Table, TaskType
  <2> HIDE DEF P
  <2>3. OnlyAt(P, task', c) /\ At(task', c, "dead", P[c].waiting, P[c].pc, P[c].arg)
    <3>1. P \in Table /\ "dead" \in States
      BY DEF OnlyAt, States
    <3>2. task' = [P EXCEPT ![c].state = "dead"]
      BY <2>2 DEF Claimed
    <3> QED  BY <3>1, <3>2, SetState
  <2> QED  BY <1>2, <2>3, SMTT(30) DEF OnlyAt, At, SameTask
<1>6. closing'[s] = c /\ \A q \in Slot \ {s} : closing'[q] = closing[q]
  BY <1>0, <1>4 DEF Closings, Agents
<1>7. /\ taken'[task[c].pid] = <<task[c].code>>
      /\ \A p \in Pid : p # task[c].pid => taken'[p] = taken[p]
  <2>1. taken \in [Pid -> Seq(Int)] /\ Append(<<>>, task[c].code) = <<task[c].code>>
    BY SMTT(30) DEF LifeInv
  <2> QED  BY <1>1, <1>2, <1>4, <2>1
<1>8. <<task[c].code>> # <<>>
  OBVIOUS
<1>9. \A q \in Slot : /\ task[q].state \in Alive => task'[q].state \in Alive
                      /\ task'[q].state \in Alive => task[q].state \in Alive
                      /\ q # s => (task'[q].state = task[q].state \/ q = c)
  BY <1>0, <1>1, <1>2 DEF Alive
<1>10. ASSUME NEW q \in Slot PROVE PastAt(q)'
  <2>1. PastAt(q)
    BY DEF CodesInv
  <2>2. /\ task'[q].state \in Alive => task[q].state \in Alive
        /\ task'[q].state = "loading" => task[q].state = "loading"
        /\ task'[q].state \in {"zombie", "dead"} => task[q].state \in {"zombie", "dead"}
    BY <1>1, <1>9
  <2> QED  BY <1>4, <2>1, <2>2 DEF PastAt
<1>11. ASSUME NEW p \in Pid PROVE ExitAt(p)'
  <2> ExitAt(p)
    BY DEF CodesInv
  <2> CASE p = task[c].pid
    <3>1. exited[p].done /\ exited[p].code = task[c].code
      BY <1>1, <1>2 DEF CodesInv, PastAt
    <3> QED  BY <1>4, <1>7, <3>1 DEF ExitAt
  <2> CASE p # task[c].pid
    BY <1>4, <1>7 DEF ExitAt
  <2> QED  OBVIOUS
<1>12. RecordsOK'
  <2>1. ASSUME NEW i \in 1 .. Len(records) PROVE RecordAt(records[i])'
    <3>1. records[i].pid # task[c].pid
      BY <1>1 DEF OnRecord
    <3>2. records[i] \in RecType
      BY SMTT(30) DEF LifeInv
    <3>3. records[i].pid \in Pid /\ RecordAt(records[i])
      BY <3>2 DEF RecType, CodesInv, RecordsOK
    <3> QED  BY <1>4, <1>7, <3>1, <3>3, SMTT(30) DEF RecordAt
  <2> QED  BY <1>4, <2>1 DEF CodesInv, RecordsOK
<1>13. ASSUME NEW q \in Slot PROVE ExecAt(q)'
  <2>0. ExecAt(q)
    BY DEF CodesInv
  <2>1. CASE q = s
    <3>1. task'[q].arg = task[c].pid /\ task'[q].state = "blocked" /\ closing'[q] # 0
      BY <1>1, <1>2, <1>6, <2>1
    <3> QED  BY <1>2, <1>7, <1>8, <3>1 DEF ExecAt
  <2>2. CASE q = c
    BY <1>2, <2>2 DEF ExecAt
  <2>3. CASE q # s /\ q # c
    <3> task'[q].state = task[q].state /\ closing'[q] = closing[q]
      BY <1>6, <2>3
    <3> CASE task[q].state = "blocked" /\ task[q].pc = "exec" /\ closing[q] = 0
      <4>1. PICK d \in Slot : /\ task[d].pid = task[q].arg /\ task[d].state \in Alive
                              /\ task[d].parent = task[q].pid
        BY <2>0 DEF ExecAt
      <4>2. task[q].waiting = task[q].arg
        BY <2>0 DEF ExecAt
      <4> QED  BY <1>9, <4>1, <4>2, SMTT(30) DEF ExecAt
    <3> CASE task[q].state = "ready" /\ task[q].pc = "exec"
      <4> PICK d \in Slot : /\ task[d].pid = task[q].arg /\ task[d].state = "zombie"
                            /\ ~task[d].unclaimed /\ task[d].parent = task[q].pid
                            /\ taken[task[d].pid] = <<>> /\ ~OnRecord(task[d].pid)
        BY <2>0 DEF ExecAt
      <4> d # c /\ d # s
        BY <1>0, <1>1, <1>2, <2>3, SMTT(30) DEF PidsOK
      <4>3. task[d].pid # task[c].pid /\ task[d].pid \in Pid
        <5>1. task[d].pid # 0 /\ task[d].pid # task[c].pid
          BY <1>0 DEF PidsOK
        <5>2. task[d] \in TaskType
          BY <1>0 DEF Table
        <5> QED  BY <5>1, <5>2, TaskLifeAssumption, SMTT(30) DEF TaskType, Pid
      <4>4. taken'[task'[d].pid] = <<>> /\ ~OnRecord(task[d].pid)'
        BY <1>4, <1>7, <4>3, SMTT(30) DEF OnRecord
      <4>5. /\ task'[d].pid = task'[q].arg /\ task'[d].state = "zombie"
            /\ ~task'[d].unclaimed /\ task'[d].parent = task'[q].pid
        OBVIOUS
      <4> QED  BY <4>4, <4>5 DEF ExecAt
    <3> CASE task[q].state = "blocked" /\ task[q].pc = "exec" /\ closing[q] # 0
      <4> task[q].arg \in Pid /\ taken[task[q].arg] # <<>>
        BY <2>0 DEF ExecAt
      <4>2. taken'[task[q].arg] # <<>>
        BY <1>7, <1>8
      <4> QED  BY <4>2 DEF ExecAt
    <3> QED  BY DEF ExecAt
  <2> QED  BY <2>1, <2>2, <2>3
<1>14. ASSUME NEW q \in Slot PROVE Wait4At(q)'
  <2> SUFFICES ASSUME task'[q].state = "blocked", task'[q].pc = "wait4"
               PROVE  Nothing(q, task[q].arg)' /\ Child(q, task[q].arg)'
    BY DEF Wait4At
  <2>1. q # s /\ q # c
    BY <1>0, <1>2
  <2> Nothing(q, task[q].arg) /\ Child(q, task[q].arg)
    BY <2>1 DEF CodesInv, Wait4At
  <2>3. Nothing(q, task[q].arg)'
    BY <1>4, SMTT(30) DEF Nothing
  <2>4. Child(q, task[q].arg)'
    BY <1>9 DEF Child
  <2> QED  BY <2>3, <2>4
<1>15. ASSUME NEW p \in Pid, NEW q \in Slot PROVE KeptAt(p, q)'
  <2>1. KeptAt(p, q)
    BY DEF CodesInv
  <2>2. taken[p] # <<>> => taken'[p] # <<>>
    BY <1>7, <1>8
  <2>3. OnRecord(p)' <=> OnRecord(p)
    BY <1>4 DEF OnRecord
  <2> QED  BY <1>4, <1>9, <2>1, <2>2, <2>3 DEF KeptAt
<1> QED  BY <1>10, <1>11, <1>12, <1>13, <1>14, <1>15 DEF CodesInv

\* The quiet steps that move one task.
LEMMA MoveQuiet ==
  ASSUME LifeInv, NEW s \in Slot, OnlyAt(task, task', s), NewPlace(s),
         UNCHANGED <<next_pid, records, closing, exited, taken, lost>>
  PROVE  Quiet
<1>1. ASSUME NEW q \in Slot PROVE Stays(q)
  BY DEF OnlyAt, Stays, SamePlace, SameTask
<1> QED  BY <1>1 DEF Quiet

\* A sweep claims a zombie, in table T.
LEMMA ClaimQuiet ==
  ASSUME NEW T \in Table, NEW z \in Slot, T[z].state = "zombie", NEW U, U = Claimed(T, z)
  PROVE  /\ \A q \in Slot \ {z} : U[q] = T[q]
         /\ SameTask(T[z], U[z]) /\ U[z].code = T[z].code /\ U[z].unclaimed = T[z].unclaimed
         /\ At(U, z, "dead", T[z].waiting, T[z].pc, T[z].arg)
<1>1. U = [T EXCEPT ![z].state = "dead"] /\ "dead" \in States
  BY DEF Claimed, States
<1>2. OnlyAt(T, U, z) /\ At(U, z, "dead", T[z].waiting, T[z].pc, T[z].arg)
  BY <1>1, SetState
<1> QED  BY <1>2 DEF OnlyAt

\* T is the table with a dead slot cleared, or as it is.
Swept(T) == \A q \in Slot : T[q] = task[q] \/ (task[q].state = "dead" /\ T[q] = Free)

LEMMA CreateQuiet ==
  ASSUME LifeInv, NEW T \in Table, Swept(T), NEW s \in Slot, T[s] = task[s],
         task[s].state \in {"ready", "blocked"},
         task[s].pc # "exec" \/ (task[s].state = "blocked" /\ closing[s] # 0),
         NEW what \in Whats, what # "thread", Create(T, s, what),
         closing'[s] = 0, \A q \in Slot \ {s} : closing'[q] = closing[q],
         UNCHANGED <<records, exited, taken, lost>>
  PROVE  Quiet
<1>w. WalksOK
  BY DEF LifeInv
<1>0. next_pid \in Nat /\ next_pid \in 2 .. MaxPid + 1
  BY TaskLifeAssumption, SMTT(30) DEF LifeInv
<1>0a. \A q \in Slot \ {s} : T[q] # task[q] => task[q].state = "dead" /\ T[q].pid = 0 /\ T[q].state = "free"
  BY FreeFacts DEF Swept
<1>1. CASE FreeSlots(T) = {} \/ next_pid > MaxPid
  <2> task' = [T EXCEPT ![s].state = "ready", ![s].pc = "user"] /\ next_pid' = next_pid
    BY <1>1 DEF Create
  <2> OnlyAt(T, task', s) /\ At(task', s, "ready", T[s].waiting, "user", T[s].arg)
    BY SetUser
  <2>3. ASSUME NEW q \in Slot \ {s} PROVE Stays(q) \/ Goes(q)
    <3>1. task'[q] = T[q]
      BY DEF OnlyAt
    <3> QED  BY <1>0a, <3>1 DEF Stays, SamePlace, SameTask, Goes
  <2>4. Stays(s)
    BY DEF OnlyAt, At, Stays, NewPlace, SameTask, Alive
  <2> QED  BY <2>3, <2>4 DEF Quiet
<1>2. CASE ~(FreeSlots(T) = {} \/ next_pid > MaxPid)
  <2>0. next_pid \in 2 .. MaxPid /\ FreeSlots(T) # {}
    BY <1>0, <1>2, TaskLifeAssumption, SMTT(30)
  <2>1. next_pid' = next_pid + 1
    BY <2>0, <1>w, CreatedFacts
  <2> PICK f \in Slot, T1 \in Table :
            /\ T[f].state = "free" /\ f # s
            /\ T1[f] = Newborn(T, s, what, next_pid) /\ \A q \in Slot \ {f} : T1[q] = T[q]
            /\ OnlyAt(T1, task', s)
            /\ IF what = "exec" THEN At(task', s, "blocked", next_pid, "exec", next_pid)
               ELSE At(task', s, "ready", T[s].waiting, "user", T[s].arg)
    BY <2>0, <1>w, CreatedFacts, SMTT(30)
  <2>3. /\ T1[f].pid = next_pid /\ T1[f].parent = T[s].pid /\ T1[f].pc = "user"
        /\ T1[f].state = IF what = "spawn" THEN "loading" ELSE "ready"
        /\ T1[f].thread = FALSE
    <3>1. LET n == Newborn(T, s, what, next_pid)
          IN  /\ n.pid = next_pid /\ n.parent = T[s].pid /\ n.pc = "user"
              /\ n.state = IF what = "spawn" THEN "loading" ELSE "ready"
              /\ n.thread = (what = "thread")
      BY <2>0, NewbornFacts, SMTT(30)
    <3> QED  BY <3>1
  <2>4. task'[f] = T1[f]
    BY DEF OnlyAt
  <2>5. T[s].pid < next_pid /\ task[f].state \in {"free", "dead"}
    <3>1. PidsOK(task, next_pid)
      BY DEF LifeInv, LifeOK
    <3> QED  BY <3>1 DEF PidsOK, Swept
  <2>6. Comes(f)
    BY <2>1, <2>3, <2>4, <2>5 DEF Comes
  <2>7. ASSUME NEW q \in Slot \ {s, f} PROVE Stays(q) \/ Goes(q)
    <3>1. task'[q] = T[q]
      BY DEF OnlyAt
    <3> QED  BY <1>0a, <3>1 DEF Stays, SamePlace, SameTask, Goes
  <2>8. Stays(s)
    <3>1. /\ SameTask(task[s], task'[s]) /\ task'[s].code = task[s].code
          /\ task'[s].unclaimed = task[s].unclaimed
      <4>1. T1[s] = task[s]
        OBVIOUS
      <4> QED  BY <4>1 DEF OnlyAt, SameTask
    <3>2. NewPlace(s)
      <4> CASE what = "exec"
        <5>1. At(task', s, "blocked", next_pid, "exec", next_pid)
          OBVIOUS
        <5>2. Comes(f) /\ task'[f].parent = task[s].pid
          BY <2>3, <2>4, <2>6
        <5> QED  BY <5>1, <5>2 DEF At, NewPlace, Alive
      <4> CASE what # "exec"
        <5>1. At(task', s, "ready", T[s].waiting, "user", T[s].arg)
          OBVIOUS
        <5> QED  BY <5>1 DEF At, NewPlace, Alive
      <4> QED  OBVIOUS
    <3> QED  BY <3>1, <3>2 DEF Stays
  <2> QED  BY <2>1, <2>6, <2>7, <2>8 DEF Quiet
<1> QED  BY <1>1, <1>2

LEMMA SpawnQuiet ==
  ASSUME ~Threads, LifeInv, NEW s \in Slot, NEW what \in Whats, spawn(s, what) PROVE Quiet
<1>w. WalksOK
  BY DEF LifeInv
<1>0. /\ task \in Table /\ task[s].state = "ready" /\ task[s].pc = "user" /\ what # "thread"
      /\ UNCHANGED <<records, exited, taken, lost>>
  <2>1. task[s].state = "ready" /\ task[s].pc = "user" /\ what # "thread"
    BY DEF spawn, Calls, Runs
  <2>2. UNCHANGED <<records, exited, taken, lost>>
    BY DEF spawn, observers
  <2> QED  BY <2>1, <2>2 DEF LifeInv
<1>1. closing[s] = 0 /\ closing \in Closings
  <2>1. LifeOK(task, next_pid, load_q, load_active, closing) /\ closing \in Closings
    BY DEF LifeInv
  <2> QED  BY <1>0, <2>1, ReadyFacts
<1>2. CASE FreeSlots(task) = {} /\ Reapable(task) # {}
  <2> DEFINE z == Lowest(Reapable(task))
             P == [task EXCEPT ![s].state = "blocked", ![s].pc = "alloc", ![s].arg = what]
  <2>1. /\ task' = [Claimed(task, z) EXCEPT ![s].state = "blocked", ![s].pc = "alloc", ![s].arg = what]
        /\ closing' = [closing EXCEPT ![s] = z] /\ next_pid' = next_pid
    BY <1>2 DEF spawn
  <2> z \in Slot /\ task[z].state = "zombie" /\ task[z].unclaimed
    BY <1>0, <1>2, <1>w, ReapableFacts
  <2> HIDE DEF z
  <2>3. z # s
    BY <1>0
  <2>4. OnlyAt(task, P, s) /\ At(P, s, "blocked", task[s].waiting, "alloc", what)
    <3>1. "alloc" \in Places /\ what \in Int \cup Whats
      BY DEF Places
    <3> QED  BY <1>0, <3>1, SetParked
  <2>5. task' = Claimed(P, z)
    BY <1>0, <2>1, <2>3, SMTT(30) DEF Claimed, Table, TaskType
  <2> HIDE DEF P
  <2> P \in Table /\ P[z] = task[z] /\ \A q \in Slot \ {s} : P[q] = task[q]
    BY <2>3, <2>4 DEF OnlyAt
  <2> /\ \A q \in Slot \ {z} : task'[q] = P[q]
      /\ SameTask(P[z], task'[z]) /\ task'[z].code = P[z].code /\ task'[z].unclaimed = P[z].unclaimed
      /\ At(task', z, "dead", P[z].waiting, P[z].pc, P[z].arg)
    BY <2>5, ClaimQuiet, SMTT(30)
  <2>8. \A q \in Slot \ {s} : closing'[q] = closing[q]
    BY <1>1, <2>1 DEF Closings, Agents
  <2>9. Stays(z)
    BY <2>3, <2>8 DEF Stays, SamePlace, At, SameTask
  <2>10. Stays(s)
    BY <1>0, <2>3, <2>4 DEF Stays, NewPlace, At, OnlyAt, Alive
  <2>11. ASSUME NEW q \in Slot \ {s, z} PROVE Stays(q)
    BY <2>8 DEF Stays, SamePlace, SameTask
  <2> QED  BY <1>0, <2>1, <2>9, <2>10, <2>11 DEF Quiet
<1>3. CASE ~(FreeSlots(task) = {} /\ Reapable(task) # {})
  <2>1. Create(task, s, what) /\ closing' = closing
    BY <1>3 DEF spawn
  <2>2. Swept(task)
    BY DEF Swept
  <2> QED  BY <1>0, <1>1, <2>1, <2>2, CreateQuiet
<1> QED  BY <1>2, <1>3

LEMMA SweepQuiet == ASSUME LifeInv, task_reap_unclaimed PROVE Quiet
<1>w. WalksOK
  BY DEF LifeInv
<1>0. task \in Table /\ closing \in Closings /\ UNCHANGED <<next_pid, records, exited, taken, lost>>
  <2>1. UNCHANGED <<next_pid, records, exited, taken, lost>>
    BY DEF task_reap_unclaimed, observers
  <2> QED  BY <2>1 DEF LifeInv
<1> DEFINE z == Lowest(Reapable(task))
<1>1. task' = Claimed(task, z) /\ closing' = [closing EXCEPT ![Reaper] = z]
  BY DEF task_reap_unclaimed
<1>2. z \in Slot /\ task[z].state = "zombie" /\ task[z].unclaimed
  BY <1>0, <1>w, ReapableFacts DEF task_reap_unclaimed
<1> HIDE DEF z
<1>3. \A q \in Slot : closing'[q] = closing[q]
  BY <1>0, <1>1, SMTT(30) DEF Closings, Agents, Slot, Reaper
<1>4. /\ \A q \in Slot \ {z} : task'[q] = task[q]
      /\ SameTask(task[z], task'[z]) /\ task'[z].code = task[z].code /\ task'[z].unclaimed = task[z].unclaimed
      /\ At(task', z, "dead", task[z].waiting, task[z].pc, task[z].arg)
  BY <1>0, <1>1, <1>2, ClaimQuiet
<1>5. Stays(z)
  BY <1>2, <1>3, <1>4 DEF Stays, SamePlace, At
<1>6. ASSUME NEW q \in Slot \ {z} PROVE Stays(q)
  BY <1>3, <1>4 DEF Stays, SamePlace, SameTask
<1> QED  BY <1>0, <1>5, <1>6 DEF Quiet

LEMMA ReapDoneQuiet == ASSUME LifeInv, CodesInv, NEW a \in Agents, task_reap_done(a) PROVE Quiet
<1>w. WalksOK
  BY DEF LifeInv
<1> /\ task \in Table /\ closing \in Closings /\ ReapsOK(task, closing) /\ closing[a] # 0
    /\ UNCHANGED <<records, exited, taken, lost>>
  <2>1. UNCHANGED <<records, exited, taken, lost>> /\ closing[a] # 0
    BY DEF task_reap_done, observers
  <2> QED  BY <2>1 DEF LifeInv, LifeOK
<1>1. PICK d \in Slot : d = closing[a]
  BY TaskLifeAssumption, SMTT(30) DEF Closings, Slot
<1>2. task[d].state = "dead"
  BY <1>1 DEF ReapsOK
<1>3. PICK T \in Table : T = [task EXCEPT ![d] = Free]
  BY <1>1, FreeFacts DEF Table
<1>4. T[d] = Free /\ \A q \in Slot \ {d} : T[q] = task[q]
  BY <1>1, <1>3 DEF Table
<1>5. T[d].pid = 0 /\ T[d].state = "free" /\ Swept(T)
  BY <1>2, <1>4, FreeFacts DEF Swept
<1>6. a # Reaper =>
        /\ a \in Slot /\ a # d /\ T[a] = task[a] /\ task[a].state = "blocked" /\ closing[a] # 0
        /\ task[a].pc = "exec" \/ (task[a].pc = "alloc" /\ task[a].arg \in Whats /\ task[a].arg # "thread")
  <2> SUFFICES ASSUME a # Reaper
               PROVE  /\ a \in Slot /\ a # d /\ T[a] = task[a] /\ task[a].state = "blocked" /\ closing[a] # 0
                      /\ \/ task[a].pc = "exec"
                         \/ task[a].pc = "alloc" /\ task[a].arg \in Whats /\ task[a].arg # "thread"
    OBVIOUS
  <2> /\ a \in Slot /\ task[a].state = "blocked"
      /\ task[a].pc = "exec" \/ (task[a].pc = "alloc" /\ task[a].arg \in Whats)
    BY DEF ReapsOK, Agents
  <2>2. a # d /\ T[a] = task[a]
    BY <1>2, <1>4
  <2>3. PastAt(a) /\ task[a].pid # 0
    BY DEF CodesInv, LifeInv, LifeOK, PidsOK
  <2> QED  BY <2>2, <2>3 DEF PastAt
<1> DEFINE further == {z \in Reapable(T) : z > d}
           sweeps == a = Reaper \/ T[a].pc = "alloc"
<1>7. IF sweeps /\ further # {}
        THEN /\ task' = Claimed(T, Lowest(further))
             /\ closing' = [closing EXCEPT ![a] = Lowest(further)]
             /\ next_pid' = next_pid
        ELSE /\ closing' = [closing EXCEPT ![a] = 0]
             /\ IF a # Reaper /\ T[a].pc = "alloc"
                  THEN Create(T, a, T[a].arg)
                  ELSE /\ task' = IF a = Reaper THEN T
                                  ELSE [T EXCEPT ![a].state = "ready", ![a].pc = "user"]
                       /\ next_pid' = next_pid
  BY <1>1, <1>3 DEF task_reap_done
<1>8. \A q \in Slot \ {a} : closing'[q] = closing[q]
  BY <1>7 DEF Closings, Agents
<1>9. CASE sweeps /\ further # {}
  <2>0. PICK z \in Slot : z = Lowest(further)
    BY <1>9, <1>w, ReapableFacts
  <2>1. T[z].state = "zombie" /\ T[z].unclaimed
    BY <1>9, <2>0, <1>w, ReapableFacts
  <2>2. task' = Claimed(T, z) /\ closing' = [closing EXCEPT ![a] = z] /\ next_pid' = next_pid
    BY <1>7, <1>9, <2>0
  <2> HIDE DEF further, sweeps
  <2> /\ \A q \in Slot \ {z} : task'[q] = T[q]
      /\ SameTask(T[z], task'[z]) /\ task'[z].code = T[z].code /\ task'[z].unclaimed = T[z].unclaimed
      /\ At(task', z, "dead", T[z].waiting, T[z].pc, T[z].arg)
    <3>1. task' = Claimed(T, z)
      BY <2>2
    <3>2. task' = [T EXCEPT ![z].state = "dead"] /\ "dead" \in States
      BY <3>1 DEF Claimed, States
    <3>3. OnlyAt(T, task', z) /\ At(task', z, "dead", T[z].waiting, T[z].pc, T[z].arg)
      BY <3>2, SetState
    <3> QED  BY <3>3 DEF OnlyAt
  <2> z # d /\ z # a /\ T[z] = task[z]
    BY <1>4, <1>5, <1>6, <2>1, SMTT(30) DEF Slot, Reaper
  <2>5. Stays(z)
    BY <1>8, <2>1 DEF Stays, SamePlace, At
  <2>6. Goes(d)
    BY <1>2, <1>5 DEF Goes
  <2> ASSUME a # Reaper PROVE Stays(a)
    <3>1. task'[a] = task[a] /\ task[a].pc = "alloc" /\ task[a].arg # "thread"
      BY <1>6, <1>9 DEF sweeps
    <3> QED  BY <1>6, <3>1 DEF Stays, NewPlace, SameTask, Alive
  <2>8. ASSUME NEW q \in Slot \ {z, d, a} PROVE Stays(q)
    BY <1>4, <1>8 DEF Stays, SamePlace, SameTask
  <2>9. a = Reaper => a \notin Slot
    BY SMTT(30) DEF Slot, Reaper
  <2> QED  BY <2>2, <2>5, <2>6, <2>8, <2>9 DEF Quiet
<1> CASE ~(sweeps /\ further # {})
  <2>1. closing' = [closing EXCEPT ![a] = 0]
    BY <1>7
  <2> CASE a # Reaper /\ T[a].pc = "alloc"
    <3>1. Create(T, a, T[a].arg)
      BY <1>7
    <3> HIDE DEF sweeps, further
    <3>2. PICK what \in Whats : what = T[a].arg /\ what # "thread"
      BY <1>6
    <3>3. closing'[a] = 0
      BY <2>1 DEF Closings
    <3> QED  BY <1>5, <1>6, <1>8, <3>1, <3>2, <3>3, CreateQuiet
  <2>3. CASE ~(a # Reaper /\ T[a].pc = "alloc")
    <3> /\ next_pid' = next_pid
        /\ task' = IF a = Reaper THEN T ELSE [T EXCEPT ![a].state = "ready", ![a].pc = "user"]
      BY <1>7, <2>3
    <3> HIDE DEF sweeps, further
    <3> ASSUME a # Reaper
        PROVE  OnlyAt(T, task', a) /\ At(task', a, "ready", T[a].waiting, "user", T[a].arg)
      BY <1>6, SetUser
    <3> \A q \in Slot \ {a} : task'[q] = T[q]
      BY DEF OnlyAt
    <3> a = Reaper => a \notin Slot
      BY SMTT(30) DEF Slot, Reaper
    <3>5. Goes(d)
      BY <1>2, <1>5, <1>6 DEF Goes
    <3>6. ASSUME NEW q \in Slot \ {a, d} PROVE Stays(q)
      BY <1>4, <1>8 DEF Stays, SamePlace, SameTask
    <3> ASSUME a # Reaper PROVE Stays(a)
      BY <1>6 DEF Stays, NewPlace, At, OnlyAt, Alive
    <3> QED  BY <3>5, <3>6 DEF Quiet
  <2> QED  BY <2>3
<1> QED  BY <1>9

LEMMA FinishCodes ==
  ASSUME LifeInv, LifeInv', CodesInv, NEW ok \in BOOLEAN, loader_finish(ok) PROVE CodesInv'
<1> DEFINE s == task_find(task, load_active)
<1> /\ task \in Table /\ PidsOK(task, next_pid) /\ LoadsOK(task, load_q, load_active) /\ load_active # 0
    /\ LifeOK(task, next_pid, load_q, load_active, closing) /\ closing \in Closings
  BY DEF LifeInv, LifeOK, loader_finish
<1> s \in Slot /\ task[s].pid = load_active
  BY FindIs DEF LoadsOK
<1>2. \/ mark_task_exited(s, Killed) \/ mark_task_exited(s, LoadFailed)
      \/ task' = [task EXCEPT ![s].state = "ready"] /\ UNCHANGED <<records, exited, lost>>
  BY DEF loader_finish
<1>3. UNCHANGED <<next_pid, closing, taken>>
  BY DEF loader_finish
<1> HIDE DEF s
<1> task[s].state = "loading" /\ task[s].pid # 0
  BY DEF LoadsOK, Asked
<1> closing[s] = 0 /\ task[s].state \in Alive
  BY ReadyFacts DEF Alive
<1> CASE task' = [task EXCEPT ![s].state = "ready"] /\ UNCHANGED <<records, exited, lost>>
  <2> OnlyAt(task, task', s) /\ At(task', s, "ready", task[s].waiting, task[s].pc, task[s].arg)
    BY SetState DEF States
  <2>2. task[s].pc = "user"
    BY DEF CodesInv, PastAt
  <2>3. NewPlace(s)
    BY <2>2 DEF NewPlace, At
  <2>4. Quiet
    BY <1>3, <2>3, MoveQuiet
  <2> QED  BY <2>4, QuietCodes
<1>7. Killed \in Int /\ LoadFailed \in Int
  BY SMTT(30) DEF Killed, LoadFailed
<1> QED  BY <1>2, <1>3, <1>7, ExitCodes

LEMMA InterruptQuiet == ASSUME LifeInv, NEW s \in Slot, task_interrupt(s) PROVE Quiet
<1>0. task \in Table
  BY DEF LifeInv
<1> /\ task[s].state = "blocked" /\ task[s].pc = "wait4"
    /\ task' = [task EXCEPT ![s].state = "ready", ![s].pc = "user", ![s].arg = 0]
    /\ UNCHANGED <<next_pid, records, closing, exited, taken, lost>>
  BY DEF task_interrupt, observers
<1> OnlyAt(task, task', s) /\ At(task', s, "ready", task[s].waiting, "user", 0)
  BY <1>0, SetInterrupted
<1>3. NewPlace(s)
  BY DEF NewPlace, At, Alive
<1> QED  BY <1>3, MoveQuiet

LEMMA WaitCodes ==
  ASSUME LifeInv, LifeInv', CodesInv, NEW s \in Slot, NEW w \in Pid \cup {AnyChild}, NEW nohang,
         task_wait_child(s, w, nohang)
  PROVE  CodesInv'
<1>0. task \in Table /\ records \in Seq(RecType) /\ DOMAIN records = 1 .. Len(records)
  BY SMTT(30) DEF LifeInv
<1> /\ task[s].state = "ready" /\ task[s].pc \in {"user", "wait4"}
    /\ UNCHANGED <<next_pid, closing, exited, lost>>
  BY DEF task_wait_child, Calls, Runs
<1>2. CASE Matching(s, w) # {}
  <2>1. Collect(s, w)
    BY <1>2 DEF task_wait_child
  <2> QED  BY <1>2, <2>1, CollectCodes
<1> CASE Matching(s, w) = {} /\ has_live_child(s, w) /\ ~nohang
  <2>1. /\ task' = [task EXCEPT ![s].state = "blocked", ![s].pc = "wait4", ![s].arg = w]
        /\ UNCHANGED <<records, taken>>
    BY DEF task_wait_child, Park
  <2>2. OnlyAt(task, task', s) /\ At(task', s, "blocked", task[s].waiting, "wait4", w)
    <3>1. "wait4" \in Places /\ w \in Int \cup Whats
      BY SMTT(30) DEF Places, Pid, AnyChild
    <3> QED  BY <1>0, <2>1, <3>1, SetParked
  <2>3. Nothing(s, w)
    BY <1>0 DEF Nothing, Matching, Matches
  <2>4. Child(s, w)
    <3> PICK c \in Slot : /\ task[c].parent = task[s].pid /\ ~task[c].thread
                          /\ w = AnyChild \/ task[c].pid = w
                          /\ ~Gone(task[c].state)
      BY DEF has_live_child
    <3>2. task[c].state \in Alive
      BY <1>0 DEF Gone, Alive, Table, TaskType
    <3> QED  BY <3>2 DEF Child
  <2>5. NewPlace(s)
    BY <2>2, <2>3, <2>4 DEF NewPlace, At, Alive
  <2>6. Quiet
    BY <2>1, <2>2, <2>5, MoveQuiet
  <2> QED  BY <2>6, QuietCodes
<1> CASE Matching(s, w) = {} /\ ~(has_live_child(s, w) /\ ~nohang)
  <2> task' = [task EXCEPT ![s].pc = "user", ![s].arg = 0] /\ UNCHANGED <<records, taken>>
    BY DEF task_wait_child, Return
  <2> OnlyAt(task, task', s) /\ At(task', s, task[s].state, task[s].waiting, "user", 0)
    BY <1>0, SetReturn
  <2>3. NewPlace(s)
    BY DEF NewPlace, At, Alive
  <2>4. Quiet
    BY <2>3, MoveQuiet
  <2> QED  BY <2>4, QuietCodes
<1> QED  BY <1>2

\* A step that leaves the table and the codes alone.
LEMMA StillCodes ==
  ASSUME CodesInv, UNCHANGED <<task, next_pid, records, closing, exited, taken, lost>> PROVE CodesInv'
<1>1. ASSUME NEW s \in Slot PROVE PastAt(s)' /\ ExecAt(s)' /\ Wait4At(s)'
  <2> PastAt(s) /\ ExecAt(s) /\ Wait4At(s)
    BY DEF CodesInv
  <2>2. PastAt(s)'
    BY DEF PastAt
  <2>3. ExecAt(s)'
    BY DEF ExecAt, OnRecord
  <2>4. Wait4At(s)'
    BY DEF Wait4At, Nothing, Child
  <2> QED  BY <2>2, <2>3, <2>4
<1>2. \A p \in Pid : ExitAt(p)'
  BY DEF CodesInv, ExitAt
<1>3. RecordsOK'
  BY DEF CodesInv, RecordsOK, RecordAt
<1>4. \A p \in Pid, q \in Slot : KeptAt(p, q)'
  BY DEF CodesInv, KeptAt, OnRecord
<1> QED  BY <1>1, <1>2, <1>3, <1>4 DEF CodesInv

LEMMA KillCodes ==
  ASSUME LifeInv, LifeInv', CodesInv, NEW s \in Slot, NEW v \in Slot, task_kill(s, v) PROVE CodesInv'
<1>1. UNCHANGED <<next_pid, closing, taken>> /\ closing[v] = 0
  BY DEF task_kill, VfsActive
<1>2. \/ mark_task_exited(v, Killed) /\ task[v].state \in Alive
      \/ UNCHANGED <<task, records, exited, lost>>
  BY DEF task_kill, Alive
<1>3. Killed \in Int
  BY SMTT(30) DEF Killed
<1> QED  BY <1>1, <1>2, <1>3, ExitCodes, StillCodes

-----------------------------------------------------------------------------
LEMMA InitCodes == Init => CodesInv
<1> SUFFICES ASSUME Init PROVE CodesInv
  OBVIOUS
<1> 1 \in Slot /\ 1 \in Pid /\ 0 \in 0 .. MaxPid /\ 1 \in 0 .. MaxPid /\ "ready" \in States
  BY TaskLifeAssumption, SMTT(30) DEF Slot, Pid, States
<1>3. NewAs(NewTask(1, 0, "ready"), 1, 0, "ready")
  BY NewTaskFacts
<1>4. NewAs(task[1], 1, 0, "ready") /\ \A s \in Slot \ {1} : task[s] = Free
  BY <1>3 DEF Init
<1> /\ records = <<>> /\ Len(records) = 0 /\ next_pid = 2
    /\ \A p \in Pid : exited[p] = NotYet /\ taken[p] = <<>>
  BY DEF Init
<1> \A p \in Pid : ~exited[p].done
  BY SMTT(30) DEF NotYet
<1>7. \A p \in Pid : ExitAt(p)
  BY DEF ExitAt
<1>8. RecordsOK
  BY SMTT(30) DEF RecordsOK
<1>9. \A p \in Pid, q \in Slot : KeptAt(p, q)
  BY DEF KeptAt
<1>10. ASSUME NEW s \in Slot PROVE PastAt(s) /\ ExecAt(s) /\ Wait4At(s)
  <2> CASE s = 1
    BY <1>4, SMTT(60) DEF NewAs, PastAt, ExecAt, Wait4At
  <2> CASE s # 1
    BY <1>4, FreeFacts DEF PastAt, ExecAt, Wait4At
  <2> QED  OBVIOUS
<1> QED  BY <1>7, <1>8, <1>9, <1>10 DEF CodesInv

LEMMA CodesStep ==
  ASSUME ~Threads PROVE LifeInv /\ CodesInv /\ [Next]_vars => CodesInv'
<1> SUFFICES ASSUME LifeInv, CodesInv, [Next]_vars PROVE CodesInv'
  OBVIOUS
<1>0. LifeInv'
  BY StepInv
<1>q. Quiet => CodesInv'
  BY <1>0, QuietCodes
<1>1. CASE UNCHANGED vars
  <2>1. UNCHANGED <<task, next_pid, records, closing, exited, taken, lost>>
    BY <1>1 DEF vars, observers
  <2> QED  BY <2>1, StillCodes
<1>2. CASE Next
  <2>1. CASE loader_take
    <3>1. UNCHANGED <<task, next_pid, records, closing, exited, taken, lost>>
      BY <2>1 DEF loader_take, observers
    <3> QED  BY <3>1, StillCodes
  <2>2. CASE task_reap_unclaimed
    BY <1>q, <2>2, SweepQuiet
  <2>3. ASSUME NEW ok \in BOOLEAN, loader_finish(ok) PROVE CodesInv'
    BY <1>0, <2>3, FinishCodes
  <2>4. ASSUME NEW a \in Slot \cup {Reaper}, task_reap_done(a) PROVE CodesInv'
    BY <1>q, <2>4, ReapDoneQuiet DEF Agents
  <2>5. ASSUME NEW s \in Slot, NEW what \in {"exec", "spawn", "thread"}, spawn(s, what) PROVE CodesInv'
    BY <1>q, <2>5, SpawnQuiet DEF Whats
  <2>6. ASSUME NEW s \in Slot, process_exec_resume(s) PROVE CodesInv'
    BY <2>6, TakeCodes
  <2>7. ASSUME NEW s \in Slot PROVE ~sys_thread_join_resume(s)
    <3>1. task[s].state = "ready" => task[s].pid # 0
      BY DEF LifeInv, LifeOK, PidsOK
    <3> QED  BY <3>1 DEF sys_thread_join_resume, Runs, CodesInv, PastAt
  <2>8. ASSUME NEW s \in Slot PROVE ~sys_thread_exit(s) /\ \A v \in Slot : ~sys_thread_join(s, v)
    BY DEF sys_thread_exit, sys_thread_join
  <2>9. ASSUME NEW s \in Slot, task_interrupt(s) PROVE CodesInv'
    BY <1>q, <2>9, InterruptQuiet
  <2> ASSUME NEW s \in Slot, NEW c \in Codes, task_exit(s, c) PROVE CodesInv'
    <3> task[s].state = "ready" /\ mark_task_exited(s, c) /\ UNCHANGED <<next_pid, closing, taken>>
      BY DEF task_exit, Calls, Runs
    <3>2. closing[s] = 0
      <4>1. /\ task \in Table /\ closing \in Closings
            /\ LifeOK(task, next_pid, load_q, load_active, closing)
        BY DEF LifeInv
      <4> QED  BY <4>1, ReadyFacts
    <3>3. c \in Int /\ task[s].state \in Alive
      BY TaskLifeAssumption DEF Alive
    <3> QED  BY <1>0, <3>2, <3>3, ExitCodes
  <2> ASSUME NEW s \in Slot, NEW w \in Pid \cup {AnyChild}, NEW nohang \in BOOLEAN,
             task_wait_child(s, w, nohang)
      PROVE  CodesInv'
    BY <1>0, WaitCodes
  <2> ASSUME NEW s \in Slot, NEW v \in Slot, task_kill(s, v) PROVE CodesInv'
    BY <1>0, KillCodes
  <2> QED
    BY <1>2, <2>1, <2>2, <2>3, <2>4, <2>5, <2>6, <2>7, <2>8, <2>9 DEF Next
<1> QED  BY <1>1, <1>2

\* The task with a live pid is in one of its live states.
LEMMA LiveIs ==
  ASSUME LifeInv, NEW p \in Int
  PROVE  Live(task, p) <=> \E s \in Slot : p # 0 /\ task[s].pid = p /\ task[s].state \in Alive
<1> /\ task \in Table /\ PidsOK(task, next_pid)
    /\ \A s \in Slot : task[s].pid \in 0 .. MaxPid /\ (Gone(task[s].state) <=> task[s].state \notin Alive)
  BY DEF LifeInv, LifeOK, Table, TaskType, States, Gone, Alive
<1> ASSUME Live(task, p) PROVE \E s \in Slot : p # 0 /\ task[s].pid = p /\ task[s].state \in Alive
  <2> Has(task, p) /\ ~Gone(task[task_find(task, p)].state)
    BY DEF Live
  <2>2. task_find(task, p) \in Slot /\ task[task_find(task, p)].pid = p
    BY FindIs
  <2> QED  BY <2>2, SMTT(30) DEF Has
<1> ASSUME NEW s \in Slot, p # 0, task[s].pid = p, task[s].state \in Alive PROVE Live(task, p)
  <2> Has(task, p)
    BY SMTT(30) DEF Has
  <2>2. s = task_find(task, p)
    BY FindIs
  <2> QED  BY <2>2 DEF Live
<1> QED  OBVIOUS

LEMMA CodesStatus == ASSUME LifeInv, CodesInv PROVE StatusAccounted
<1>1. StatusTakenOnce
  BY DEF CodesInv, ExitAt, StatusTakenOnce
<1> ASSUME NEW p \in Pid, exited[p].done, Live(task, exited[p].parent)
    PROVE  \/ taken[p] # <<>> \/ p \in lost
           \/ \E i \in DOMAIN records : records[i].pid = p
           \/ LET q == task[task_find(task, exited[p].parent)] IN q.pc = "exec" /\ q.arg = p
  <2>1. exited[p].parent \in Int
    BY SMTT(30) DEF LifeInv
  <2> PICK s \in Slot : /\ exited[p].parent # 0 /\ task[s].pid = exited[p].parent
                        /\ task[s].state \in Alive
    BY <2>1, LiveIs
  <2>3. s = task_find(task, exited[p].parent)
    <3>1. task \in Table /\ PidsOK(task, next_pid) /\ Has(task, exited[p].parent)
      BY DEF LifeInv, LifeOK, Live
    <3> QED  BY <3>1, FindIs
  <2>4. KeptAt(p, s) /\ records \in Seq(RecType)
    BY DEF CodesInv, LifeInv
  <2>5. DOMAIN records = 1 .. Len(records)
    BY <2>4, SMTT(30)
  <2> QED  BY <2>3, <2>4, <2>5 DEF KeptAt, OnRecord
<1> QED  BY <1>1 DEF NoStatusLost, StatusAccounted

LEMMA CodesWaiters == ASSUME LifeInv, CodesInv PROVE WaitersHaveWork
<1> SUFFICES ASSUME NEW s \in Slot
             PROVE  /\ WokenInWait4(task, s) =>
                         Matching(s, task[s].arg) = {} /\ has_live_child(s, task[s].arg)
                    /\ task[s].state = "blocked" /\ task[s].pc = "exec" /\ closing[s] = 0 =>
                         Live(task, task[s].arg)
  BY DEF WaitersHaveWork
<1> ASSUME WokenInWait4(task, s)
    PROVE  Matching(s, task[s].arg) = {} /\ has_live_child(s, task[s].arg)
  <2> Nothing(s, task[s].arg) /\ Child(s, task[s].arg) /\ DOMAIN records = 1 .. Len(records)
    BY SMTT(30) DEF WokenInWait4, CodesInv, Wait4At, LifeInv
  <2>2. Matching(s, task[s].arg) = {}
    BY DEF Nothing, Matching, Matches
  <2>3. has_live_child(s, task[s].arg)
    BY DEF Child, has_live_child, Gone, Alive
  <2> QED  BY <2>2, <2>3
<1> ASSUME task[s].state = "blocked", task[s].pc = "exec", closing[s] = 0
    PROVE  Live(task, task[s].arg)
  <2> PICK c \in Slot : task[c].pid = task[s].arg /\ task[c].state \in Alive
    BY DEF CodesInv, ExecAt
  <2>2. task[c].pid \in Int /\ task[c].pid # 0
    BY SMTT(30) DEF LifeInv, LifeOK, PidsOK, Table, TaskType, Alive
  <2> QED  BY <2>2, LiveIs
<1> QED  OBVIOUS
-----------------------------------------------------------------------------
(* The theorems.                                                           *)

W == INSTANCE WalkProofs

\* WalkProofs is about the same InOrder and Cardinality.
LEMMA WalksHold == WalksOK
<1>1. \A S : W!Cardinality(S) = Cardinality(S)
  BY DEF W!Cardinality, Cardinality
<1>2. \A S : W!InOrder(S) = InOrder(S)
  BY <1>1 DEF W!InOrder, InOrder, W!Bijection, Bijection, W!Injection, Injection,
              W!Surjection, Surjection, W!IsInjective, IsInjective
<1> SUFFICES ASSUME NEW N \in Nat, NEW S \in SUBSET (1 .. N)
             PROVE  /\ S # {} => \E m \in S : \A t \in S : t <= m
                    /\ Cardinality(S) \in Nat /\ Cardinality(S) <= N
                    /\ InOrder(S) \in [1 .. Cardinality(S) -> S]
                    /\ \A i, j \in 1 .. Cardinality(S) : InOrder(S)[i] = InOrder(S)[j] => i = j
                    /\ \A t \in S : \E i \in 1 .. Cardinality(S) : InOrder(S)[i] = t
  BY DEF WalksOK
<1>3. S # {} => \E m \in S : \A t \in S : t <= m
  BY W!LastSlot
<1>4. /\ W!Cardinality(S) \in Nat /\ W!Cardinality(S) <= N
      /\ W!InOrder(S) \in [1 .. W!Cardinality(S) -> S]
      /\ \A i, j \in 1 .. W!Cardinality(S) : W!InOrder(S)[i] = W!InOrder(S)[j] => i = j
      /\ \A t \in S : \E i \in 1 .. W!Cardinality(S) : W!InOrder(S)[i] = t
  BY W!InOrderWalks
<1> QED  BY <1>1, <1>2, <1>3, <1>4

\* The task table stays well formed (LifeInv, which the properties follow
\* from), whatever tasks, loader and reapers do.
THEOREM LifeHolds == Spec => []LifeInv
<1>1. Init => LifeInv
  BY WalksHold, InitInv
<1> QED  BY <1>1, StepInv, PTL DEF Spec

\* The task table, the reapers and the loader's requests agree (TableInv), for
\* any table: a slot in use has a pid of its own, a dead one exactly one
\* reaper, and a loading one exactly one request.
THEOREM TableAgrees == Spec => []TableInv
<1>1. LifeInv => TableInv
  BY LifeTable
<1> QED  BY <1>1, LifeHolds, PTL

\* Nobody is parked in a join on a thread that has exited (JoinersWait).
THEOREM JoinsAreLive == Spec => []JoinersWait
<1>1. LifeInv => JoinersWait
  BY LifeJoins
<1> QED  BY <1>1, LifeHolds, PTL

\* A load that a kill cancelled never starts the task (CancelledNeverRuns).
THEOREM CancelledStaysDead == Spec => CancelledNeverRuns
<1>1. LifeInv /\ LifeInv' /\ [Next]_vars => [CancelledStays]_vars
  BY CancelledStep
<1>2. Spec => [][CancelledStays]_vars
  BY <1>1, LifeHolds, PTL DEF Spec
<1> QED  BY <1>2 DEF CancelledNeverRuns, CancelledStays

\* The exit codes of a table without threads.
LEMMA CodesHold == ASSUME ~Threads PROVE Spec => [](LifeInv /\ CodesInv)
<1>1. Init => CodesInv
  BY InitCodes
<1>2. LifeInv /\ CodesInv /\ [Next]_vars => CodesInv'
  BY CodesStep
<1> QED  BY <1>1, <1>2, LifeHolds, PTL DEF Spec

\* The exit code of a process is delivered once, or is accounted for while its
\* parent lives (StatusAccounted), in any table of processes without threads.
THEOREM CodesAccounted == ASSUME ~Threads PROVE Spec => []StatusAccounted
<1>1. LifeInv /\ CodesInv => StatusAccounted
  BY CodesStatus
<1> QED  BY <1>1, CodesHold, PTL

\* In any table of processes without threads, whoever sleeps in wait4 has
\* nothing to take and a child left to wake it, and whoever sleeps in exec a
\* live child (WaitersHaveWork).
THEOREM WaitsAreLive == ASSUME ~Threads PROVE Spec => []WaitersHaveWork
<1>1. LifeInv /\ CodesInv => WaitersHaveWork
  BY CodesWaiters
<1> QED  BY <1>1, CodesHold, PTL
=============================================================================
