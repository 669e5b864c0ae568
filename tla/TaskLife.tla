------------------------------ MODULE TaskLife ------------------------------
(***************************************************************************)
(* The life of a task, from its slot in the table to its reaping: exec and *)
(* asynchronous spawn, the loader and its cancellation, exit and kill, the *)
(* exit records that wait4 reads, thread join, and the three places that   *)
(* reap (kernel/sched/sched.c, kernel/loader/process.c and the thread and  *)
(* wait calls of kernel/arch/syscall.c).                                   *)
(*                                                                         *)
(* A step is one stretch of kernel code between two parking points; which  *)
(* runnable task takes it is left open.  Closing a dead task's files may   *)
(* sleep in the VFS, so a reap is two steps.                               *)
(***************************************************************************)
EXTENDS Sequences, Walk

CONSTANTS MAX_TASKS,          \* slots for user tasks
          TASK_EXIT_RECORDS,  \* exit records kept
          MaxPid,             \* bound on next_pid
          Codes,              \* what a task may exit with of its own accord
          Threads             \* TRUE: tasks create, join and exit threads

ASSUME TaskLifeAssumption ==
  /\ MAX_TASKS \in Nat \ {0} /\ TASK_EXIT_RECORDS \in Nat \ {0}
  /\ MaxPid \in Nat \ {0} /\ Codes \subseteq Int /\ Threads \in BOOLEAN

Slot == 1 .. MAX_TASKS
Pid == 1 .. MaxPid
AnyChild == -1
Killed == -9
LoadFailed == -1
NotYet == [done |-> FALSE, code |-> 0, parent |-> 0]
Reaper == 0           \* the reaper kernel thread, among those who reap

VARIABLES
  task,       \* the task table
  next_pid,
  records,    \* exit_records, oldest first
  load_q,     \* queued spawn requests: the pids they reserved
  load_active,\* the request the loader works on, or 0
  cancelled,  \* load_active's cancelled flag
  closing,    \* who is asleep in task_reap: agent -> slot, or 0
  detached,   \* address spaces whose shared record a thread exit has zeroed
  freed,      \* those whose zeroed record a reaper has since freed
  exited,     \* observer: what each pid that has exited left behind
  taken,      \* observer: the codes delivered for each pid, in order
  lost        \* observer: the pids whose record made room for another

vars == <<task, next_pid, records, load_q, load_active, cancelled, closing, detached,
          freed, exited, taken, lost>>
loader == <<load_q, load_active, cancelled>>
spaces == <<detached, freed>>
observers == <<exited, taken, lost>>

Free == [pid |-> 0, state |-> "free", parent |-> 0, waiting |-> 0, unclaimed |-> FALSE,
         code |-> 0, thread |-> FALSE, vm |-> 0, pc |-> "user", arg |-> 0]

\* pc says where a task is parked, or about to resume: "user" (nowhere),
\* "exec", "wait4", "join", or "alloc" (reaping to make room in the table);
\* arg is the pid it names, or what the slot is wanted for.  vm is the pid
\* whose address space the task runs on.
NewTask(pid, parent, st) ==
  [Free EXCEPT !.pid = pid, !.state = st, !.parent = parent, !.vm = pid]

\* One process, which the kernel started, is there from the beginning.
Init ==
  /\ task = [s \in Slot |-> IF s = 1 THEN NewTask(1, 0, "ready") ELSE Free]
  /\ next_pid = 2
  /\ records = <<>>
  /\ load_q = <<>> /\ load_active = 0 /\ cancelled = FALSE
  /\ closing = [a \in Slot \cup {Reaper} |-> 0]
  /\ detached = {} /\ freed = {}
  /\ exited = [p \in Pid |-> NotYet]
  /\ taken = [p \in Pid |-> <<>>]
  /\ lost = {}

\* The task with this pid; pids are unique.
Has(T, pid) == pid > 0 /\ \E s \in Slot : T[s].pid = pid
task_find(T, pid) == CHOOSE s \in Slot : T[s].pid = pid

Runs(s) == task[s].state = "ready"
Calls(s) == Runs(s) /\ task[s].pc = "user"

Gone(st) == st \in {"free", "zombie", "dead"}
Live(T, pid) == Has(T, pid) /\ ~Gone(T[task_find(T, pid)].state)

-----------------------------------------------------------------------------

\* exit_record_add: the oldest record makes room for a new one.
exit_record_add(R, rec) ==
  Append(IF Len(R) = TASK_EXIT_RECORDS THEN Tail(R) ELSE R, rec)

exit_records_drop_parent(R, pid) ==
  LET kept == {i \in DOMAIN R : R[i].parent # pid}
  IN  [k \in 1 .. Cardinality(kept) |-> R[InOrder(kept)[k]]]

\* mark_task_exited, in the code's order.  First a child this task would have
\* reaped is released; then the task dies, and its waiters, if any, claim it;
\* otherwise its code is kept for the parent.  Last, wait4 callers look again.
Released(T, s) ==
  [q \in Slot |->
     IF /\ T[s].state = "blocked" /\ T[s].waiting > 0
        /\ T[q].pid = T[s].waiting /\ T[q].state = "zombie"
       THEN [T[q] EXCEPT !.unclaimed = TRUE]
       ELSE T[q]]

Waiters(T, s) == {w \in Slot : T[w].state = "blocked" /\ T[w].waiting = T[s].pid}

WokenInWait4(T, q) == T[q].state = "blocked" /\ T[q].pc = "wait4"

\* Faulty variant of Marked: the exit does not wake wait4 callers.
SilentExit(T, s, code) ==
  LET W == Waiters(T, s) \ {s}
  IN  [q \in Slot |->
         IF q = s THEN [T[q] EXCEPT !.state = "zombie", !.code = code, !.unclaimed = (W = {})]
         ELSE IF q \in W THEN [T[q] EXCEPT !.state = "ready", !.waiting = 0]
         ELSE T[q]]

Marked(T, s, code) ==
  LET R1 == Released(T, s)
      W == Waiters(R1, s) \ {s}
  IN  [q \in Slot |->
         IF q = s THEN [R1[q] EXCEPT !.state = "zombie", !.code = code, !.unclaimed = (W = {})]
         ELSE IF q \in W THEN [R1[q] EXCEPT !.state = "ready", !.waiting = 0]
         ELSE IF WokenInWait4(R1, q) THEN [R1[q] EXCEPT !.state = "ready"]
         ELSE R1[q]]

KeepsRecord(T, s) ==
  /\ Waiters(T, s) \ {s} = {}
  /\ T[s].parent > 0 /\ Live(T, T[s].parent)

RecordsAfter(T, R, s, code) ==
  LET kept == exit_records_drop_parent(R, T[s].pid)
  IN  IF KeepsRecord(T, s)
        THEN exit_record_add(kept, [pid |-> T[s].pid, parent |-> T[s].parent, code |-> code])
        ELSE kept

Evicted(T, R, s) ==
  LET kept == exit_records_drop_parent(R, T[s].pid)
  IN  IF KeepsRecord(T, s) /\ Len(kept) = TASK_EXIT_RECORDS THEN {Head(kept).pid} ELSE {}

mark_task_exited(s, code) ==
  /\ task' = Marked(task, s, code)
  /\ records' = RecordsAfter(task, records, s, code)
  /\ exited' = [exited EXCEPT ![task[s].pid] =
                  [done |-> TRUE, code |-> code, parent |-> task[s].parent]]
  /\ lost' = lost \cup Evicted(task, records, s)

-----------------------------------------------------------------------------
\* task_reap takes a zombie out of the table in two steps: it is claimed as
\* TASK_DEAD, and its slot cleared once its files are closed.
\*
\* Faulty variant: a sweep that stops a slot short.
AllButLast(T) == {z \in Slot : z < MAX_TASKS /\ T[z].state = "zombie" /\ T[z].unclaimed}

Reapable(T) == {z \in Slot : T[z].state = "zombie" /\ T[z].unclaimed}

Lowest(S) == CHOOSE z \in S : \A y \in S : z <= y

Claimed(T, z) == [T EXCEPT ![z].state = "dead"]

FreeSlots(T) == {f \in Slot : T[f].state = "free"}

\* What a caller does with the slot alloc_slot found for it.
Execs(T, s, f) ==
  [T EXCEPT ![f] = NewTask(next_pid, T[s].pid, "ready"),
            ![s].state = "blocked", ![s].waiting = next_pid,
            ![s].pc = "exec", ![s].arg = next_pid]

Reserves(T, s, f) ==
  [T EXCEPT ![f] = NewTask(next_pid, T[s].pid, "loading"),
            ![s].state = "ready", ![s].pc = "user"]

SpawnsThread(T, s, f) ==
  [T EXCEPT ![f] = [NewTask(next_pid, T[s].pid, "ready") EXCEPT !.thread = TRUE, !.vm = T[s].vm],
            ![s].state = "ready", ![s].pc = "user"]

\* The rest of a spawning call, in table T, once alloc_slot is done looking.
\* With no slot, or no pid left in the model, the call fails.
Create(T, s, what) ==
  IF FreeSlots(T) = {} \/ next_pid > MaxPid
    THEN /\ task' = [T EXCEPT ![s].state = "ready", ![s].pc = "user"]
         /\ UNCHANGED <<next_pid, load_q>>
    ELSE /\ task' = LET f == Lowest(FreeSlots(T))
                    IN  CASE what = "exec" -> Execs(T, s, f)
                          [] what = "spawn" -> Reserves(T, s, f)
                          [] what = "thread" -> SpawnsThread(T, s, f)
         /\ next_pid' = next_pid + 1
         /\ load_q' = IF what = "spawn" THEN Append(load_q, next_pid) ELSE load_q

\* The shared record of an address space still names it, or its memory has
\* been freed and reads as anything.
Intact(vm) == vm \notin detached \/ vm \in freed

\* process_exec, spawn_async_on_tty and sys_thread_create.  With the table
\* full the caller first reaps what nobody will claim.
spawn(s, what) ==
  /\ Calls(s) /\ next_pid <= MaxPid
  /\ what = "thread" => Threads /\ Intact(task[s].vm)
  /\ IF FreeSlots(task) = {} /\ Reapable(task) # {}
       THEN LET z == Lowest(Reapable(task))
            IN  /\ task' = [Claimed(task, z) EXCEPT ![s].state = "blocked",
                                                   ![s].pc = "alloc", ![s].arg = what]
                /\ closing' = [closing EXCEPT ![s] = z]
                /\ UNCHANGED <<next_pid, load_q>>
       ELSE Create(task, s, what) /\ UNCHANGED closing
  /\ UNCHANGED <<records, load_active, cancelled, spaces, observers>>

\* The reaper thread starts a sweep of the table.
task_reap_unclaimed ==
  /\ closing[Reaper] = 0 /\ Reapable(task) # {}
  /\ LET z == Lowest(Reapable(task))
     IN  /\ task' = Claimed(task, z)
         /\ closing' = [closing EXCEPT ![Reaper] = z]
  /\ UNCHANGED <<next_pid, records, loader, spaces, observers>>

\* The files are closed: the slot is cleared.  A sweep goes on to the next
\* zombie further up the table; a spawner that finished its sweep looks for
\* a slot again; an exec returns.
task_reap_done(a) ==
  /\ closing[a] # 0
  /\ LET T == [task EXCEPT ![closing[a]] = Free]
         further == {z \in Reapable(T) : z > closing[a]}
         sweeps == a = Reaper \/ T[a].pc = "alloc"
     IN  IF sweeps /\ further # {}
           THEN /\ task' = Claimed(T, Lowest(further))
                /\ closing' = [closing EXCEPT ![a] = Lowest(further)]
                /\ UNCHANGED <<next_pid, load_q>>
           ELSE /\ closing' = [closing EXCEPT ![a] = 0]
                /\ IF a # Reaper /\ T[a].pc = "alloc"
                     THEN Create(T, a, T[a].arg)
                     ELSE /\ task' = IF a = Reaper THEN T
                                     ELSE [T EXCEPT ![a].state = "ready", ![a].pc = "user"]
                          /\ UNCHANGED <<next_pid, load_q>>
  /\ LET vm == task[closing[a]].vm IN freed' = IF vm \in detached THEN freed \cup {vm} ELSE freed
  /\ UNCHANGED <<records, load_active, cancelled, detached, observers>>

\* process_exec after its child's exit woke it: it takes the code and reaps.
\* The child may be gone, or in the reaper's hands.
process_exec_resume(s) ==
  /\ Runs(s) /\ task[s].pc = "exec"
  /\ LET c == task_find(task, task[s].arg)
         there == Has(task, task[s].arg)
     IN  /\ taken' = IF there THEN [taken EXCEPT ![task[c].pid] = Append(@, task[c].code)] ELSE taken
         /\ IF there /\ task[c].state = "zombie"
              THEN /\ task' = [Claimed(task, c) EXCEPT ![s].state = "blocked"]
                   /\ closing' = [closing EXCEPT ![s] = c]
              ELSE task' = [task EXCEPT ![s].pc = "user"] /\ UNCHANGED closing
  /\ UNCHANGED <<next_pid, records, loader, spaces, exited, lost>>

-----------------------------------------------------------------------------
task_exit(s, code) ==
  /\ Calls(s)
  /\ mark_task_exited(s, code)
  /\ UNCHANGED <<next_pid, loader, closing, spaces, taken>>

\* A task in the middle of a VFS operation is not killed.
VfsActive(s) == closing[s] # 0

\* Faulty variant of task_kill: the queued request outlives its task.
StaleRequestKill(s, v) ==
  /\ Calls(s) /\ v # s
  /\ ~VfsActive(v) /\ ~task[v].thread /\ Intact(task[v].vm)
  /\ task[v].state \in {"ready", "blocked", "loading"}
  /\ mark_task_exited(v, Killed)
  /\ UNCHANGED <<next_pid, loader, closing, spaces, taken>>

\* process_cancel_async: the request is unlinked from the loader's queue.
Unlink(q, i) == SubSeq(q, 1, i - 1) \o SubSeq(q, i + 1, Len(q))
Requests(pid) == {i \in DOMAIN load_q : load_q[i] = pid}

\* A kill reaches a process, not a thread, and one that is still loading is
\* cancelled: at once if its request is queued, by flag if the loader has it.
task_kill(s, v) ==
  /\ Calls(s) /\ v # s
  /\ ~VfsActive(v) /\ ~task[v].thread /\ Intact(task[v].vm)
  /\ \/ /\ task[v].state \in {"ready", "blocked"}
        /\ mark_task_exited(v, Killed)
        /\ UNCHANGED loader
     \/ /\ task[v].state = "loading" /\ load_active = task[v].pid
        /\ cancelled' = TRUE
        /\ UNCHANGED <<task, records, exited, lost, load_q, load_active>>
     \/ /\ task[v].state = "loading" /\ load_active # task[v].pid
        /\ Requests(task[v].pid) # {}
        /\ load_q' = Unlink(load_q, Lowest(Requests(task[v].pid)))
        /\ mark_task_exited(v, Killed)
        /\ UNCHANGED <<load_active, cancelled>>
  /\ UNCHANGED <<next_pid, closing, spaces, taken>>

\* sys_thread_exit: with others on the address space the thread leaves by
\* task_exit_thread, after zeroing the record they share.  Every task on an
\* intact address space counts as one reference to it.
Shared(s) == \E q \in Slot \ {s} : task[q].vm = task[s].vm

sys_thread_exit(s) ==
  /\ Threads /\ Calls(s) /\ Intact(task[s].vm)
  /\ \/ /\ Shared(s) \/ task[s].vm \in freed
        /\ detached' = detached \cup {task[s].vm}
        /\ task' = [q \in Slot |->
             IF q = s THEN [task[q] EXCEPT !.state = "zombie", !.unclaimed = TRUE]
             ELSE IF q \in Waiters(task, s)
               THEN [task[q] EXCEPT !.state = "ready", !.waiting = 0]
             ELSE task[q]]
        /\ exited' = [exited EXCEPT ![task[s].pid] =
                        [done |-> TRUE, code |-> 0, parent |-> task[s].parent]]
        /\ UNCHANGED <<records, lost>>
     \/ /\ ~Shared(s) \/ task[s].vm \in freed
        /\ mark_task_exited(s, 0) /\ UNCHANGED detached
  /\ UNCHANGED <<next_pid, loader, closing, freed, taken>>

\* Faulty variant of sys_thread_join: it does not look at the target first.
LateJoin(s, t) ==
  /\ Threads /\ Calls(s) /\ task[t].pid # 0
  /\ task' = [task EXCEPT ![s].state = "blocked", ![s].waiting = task[t].pid,
                          ![s].pc = "join", ![s].arg = task[t].pid]
  /\ UNCHANGED <<next_pid, records, loader, closing, spaces, observers>>

\* A join, of any pid there is, returns at once from a zombie, and parks
\* otherwise.
sys_thread_join(s, t) ==
  /\ Threads /\ Calls(s) /\ task[t].pid # 0
  /\ task[t].state # "zombie"
  /\ task' = [task EXCEPT ![s].state = "blocked", ![s].waiting = task[t].pid,
                          ![s].pc = "join", ![s].arg = task[t].pid]
  /\ UNCHANGED <<next_pid, records, loader, closing, spaces, observers>>

sys_thread_join_resume(s) ==
  /\ Runs(s) /\ task[s].pc = "join"
  /\ task' = [task EXCEPT ![s].pc = "user"]
  /\ UNCHANGED <<next_pid, records, loader, closing, spaces, observers>>

-----------------------------------------------------------------------------
\* task_wait_child.  A record that matches is taken, oldest first; without
\* one the call fails if no matching child is alive, and otherwise returns
\* nothing (nohang) or parks.
Matches(r, s, w) == r.parent = task[s].pid /\ (w = AnyChild \/ r.pid = w)

Matching(s, w) == {i \in DOMAIN records : Matches(records[i], s, w)}

has_live_child(s, w) ==
  \E c \in Slot : /\ task[c].parent = task[s].pid /\ ~task[c].thread
                  /\ w = AnyChild \/ task[c].pid = w
                  /\ ~Gone(task[c].state)

\* Faulty variant of Collect: every matching record goes with the first.
CollectAll(s, w) ==
  LET r == records[Lowest(Matching(s, w))]
  IN  /\ records' = SelectSeq(records, LAMBDA x : ~Matches(x, s, w))
      /\ taken' = [taken EXCEPT ![r.pid] = Append(@, r.code)]
      /\ task' = [task EXCEPT ![s].pc = "user", ![s].arg = 0]

Collect(s, w) ==
  LET i == Lowest(Matching(s, w))
      r == records[i]
  IN  /\ records' = Unlink(records, i)
      /\ taken' = [taken EXCEPT ![r.pid] = Append(@, r.code)]
      /\ task' = [task EXCEPT ![s].pc = "user", ![s].arg = 0]

Park(s, w) ==
  /\ task' = [task EXCEPT ![s].state = "blocked", ![s].pc = "wait4", ![s].arg = w]
  /\ UNCHANGED <<records, taken>>

Return(s) ==
  /\ task' = [task EXCEPT ![s].pc = "user", ![s].arg = 0]
  /\ UNCHANGED <<records, taken>>

task_wait_child(s, w, nohang) ==
  /\ \/ Calls(s)
     \/ Runs(s) /\ task[s].pc = "wait4" /\ task[s].arg = w /\ ~nohang
  /\ IF Matching(s, w) # {} THEN Collect(s, w)
     ELSE IF has_live_child(s, w) /\ ~nohang THEN Park(s, w)
     ELSE Return(s)
  /\ UNCHANGED <<next_pid, loader, closing, spaces, exited, lost>>

\* A signal sends a parked wait4 back with -EINTR.
task_interrupt(s) ==
  /\ task[s].state = "blocked" /\ task[s].pc = "wait4"
  /\ task' = [task EXCEPT ![s].state = "ready", ![s].pc = "user", ![s].arg = 0]
  /\ UNCHANGED <<next_pid, records, loader, closing, spaces, observers>>

-----------------------------------------------------------------------------
\* The loader thread takes a request, loads the image (asleep in the VFS
\* meanwhile), and then starts the task or fails it.
\*
\* Faulty variant: a cancellation is not looked at.
UncheckedFinish(loaded) ==
  /\ load_active # 0
  /\ LET s == task_find(task, load_active)
     IN  IF ~loaded THEN mark_task_exited(s, LoadFailed)
         ELSE task' = [task EXCEPT ![s].state = "ready"] /\ UNCHANGED <<records, exited, lost>>
  /\ load_active' = 0 /\ cancelled' = FALSE
  /\ UNCHANGED <<next_pid, load_q, closing, spaces, taken>>

loader_take ==
  /\ load_active = 0 /\ load_q # <<>>
  /\ load_active' = Head(load_q) /\ load_q' = Tail(load_q)
  /\ UNCHANGED <<task, next_pid, records, cancelled, closing, spaces, observers>>

loader_finish(loaded) ==
  /\ load_active # 0
  /\ LET s == task_find(task, load_active)
     IN  IF cancelled THEN mark_task_exited(s, Killed)
         ELSE IF ~loaded THEN mark_task_exited(s, LoadFailed)
         ELSE task' = [task EXCEPT ![s].state = "ready"] /\ UNCHANGED <<records, exited, lost>>
  /\ load_active' = 0 /\ cancelled' = FALSE
  /\ UNCHANGED <<next_pid, load_q, closing, spaces, taken>>

Next ==
  \/ loader_take \/ task_reap_unclaimed
  \/ \E ok \in BOOLEAN : loader_finish(ok)
  \/ \E a \in Slot \cup {Reaper} : task_reap_done(a)
  \/ \E s \in Slot :
       \/ \E what \in {"exec", "spawn", "thread"} : spawn(s, what)
       \/ process_exec_resume(s) \/ sys_thread_join_resume(s) \/ sys_thread_exit(s)
       \/ task_interrupt(s)
       \/ \E c \in Codes : task_exit(s, c)
       \/ \E w \in Pid \cup {AnyChild}, nohang \in BOOLEAN : task_wait_child(s, w, nohang)
       \/ \E v \in Slot : task_kill(s, v) \/ sys_thread_join(s, v)

\* A runnable task that is inside wait4 goes on with it, the loader and the
\* reaper get their turns, and a disk operation ends.
Fairness ==
  /\ WF_vars(loader_take) /\ WF_vars(\E ok \in BOOLEAN : loader_finish(ok))
  /\ WF_vars(task_reap_unclaimed)
  /\ \A a \in Slot \cup {Reaper} : WF_vars(task_reap_done(a))
  /\ \A s \in Slot : WF_vars(task[s].pc = "wait4" /\ task_wait_child(s, task[s].arg, FALSE))

Spec == Init /\ [][Next]_vars

FairSpec == Spec /\ Fairness

-----------------------------------------------------------------------------
TypeOK ==
  /\ \A s \in Slot :
       /\ task[s].pid \in Pid \cup {0}
       /\ task[s].state \in {"free", "loading", "ready", "blocked", "zombie", "dead"}
       /\ task[s].pc \in {"user", "exec", "wait4", "join", "alloc"}
       /\ task[s].pid = 0 <=> task[s].state = "free"
  /\ \A s, q \in Slot : task[s].pid = task[q].pid /\ task[s].pid # 0 => s = q
  /\ Len(records) <= TASK_EXIT_RECORDS

\* An exit code reaches whoever waits at most once, and unchanged, whether it
\* went through exec or through an exit record.
StatusTakenOnce ==
  \A p \in Pid : taken[p] # <<>> => exited[p].done /\ taken[p] = <<exited[p].code>>

\* While its parent lives, a process's exit code is never lost between the
\* exit, the reaper and wait4: it has been taken, it is on record, the parent
\* is in exec for it, or its record was the oldest of a full set.
NoStatusLost ==
  \A p \in Pid :
    exited[p].done /\ Live(task, exited[p].parent) =>
      \/ taken[p] # <<>> \/ p \in lost
      \/ \E i \in DOMAIN records : records[i].pid = p
      \/ LET q == task[task_find(task, exited[p].parent)] IN q.pc = "exec" /\ q.arg = p

\* An exit code is delivered once or accounted for, whoever of wait4, exec and
\* the reaper comes first.
StatusAccounted == StatusTakenOnce /\ NoStatusLost

\* Nobody sleeps in wait4 over a code that is there to take, or with no child
\* left whose exit could wake it; and nobody sleeps in exec on a dead child.
WaitersHaveWork ==
  \A s \in Slot :
    /\ WokenInWait4(task, s) =>
         Matching(s, task[s].arg) = {} /\ has_live_child(s, task[s].arg)
    /\ task[s].state = "blocked" /\ task[s].pc = "exec" /\ closing[s] = 0 =>
         Live(task, task[s].arg)

\* A dying task's slot has exactly one reaper, and nothing is reaped that can
\* still run: the slots being cleared are the DEAD ones, each once.
OneReaperEach ==
  /\ \A a, b \in Slot \cup {Reaper} : closing[a] = closing[b] /\ closing[a] # 0 => a = b
  /\ \A s \in Slot : task[s].state = "dead" <=> \E a \in Slot \cup {Reaper} : closing[a] = s

\* Every loading task has exactly one request, queued or in the loader's hands,
\* and every request a loading task.
RequestsMatchLoading ==
  /\ \A s \in Slot :
       task[s].state = "loading" <=>
         task[s].pid # 0 /\ (task[s].pid = load_active \/ \E i \in DOMAIN load_q : load_q[i] = task[s].pid)
  /\ \A i \in DOMAIN load_q :
       /\ load_q[i] # load_active /\ Has(task, load_q[i])
       /\ \A j \in DOMAIN load_q : load_q[i] = load_q[j] => i = j
  /\ load_active # 0 => Has(task, load_active)
  /\ cancelled => load_active # 0

\* The task table, its reapers and the loader's requests agree, though both
\* sleep half-way.
TableInv == TypeOK /\ OneReaperEach /\ RequestsMatchLoading

\* A kill accepted while the image was loading is not undone by the loader:
\* the task never runs.
CancelledNeverRuns ==
  [][\A s \in Slot : cancelled /\ task[s].pid = load_active /\ load_active # 0 =>
        task'[s].state \in {"loading", "zombie"}]_vars

\* Nobody is parked in a join on a thread that has already exited: the look at
\* the target and the parking are one step, and both ways out wake joiners.
JoinersWait ==
  \A s, t \in Slot :
    task[s].state = "blocked" /\ task[s].pc = "join" /\ task[s].arg = task[t].pid =>
      task[t].state # "zombie"

\* mark_task_exited's comment on a task dying while blocked on a child: no
\* claimed zombie is left without a waiter to claim it.
ClaimedHaveWaiter ==
  \A z \in Slot :
    task[z].state = "zombie" /\ ~task[z].unclaimed =>
      \E w \in Slot : ~Gone(task[w].state) /\ task[w].pc \in {"exec", "join"} /\ task[w].arg = task[z].pid

\* Loading ends, in a runnable task or a dead one.
LoadsFinish == \A s \in Slot : []<>(task[s].state # "loading")

\* What nobody will claim is reaped, and a reap under way ends: the slot comes
\* back.
DyingAreReaped ==
  \A s \in Slot :
    []<>(/\ ~(task[s].state = "zombie" /\ task[s].unclaimed)
         /\ task[s].state # "dead")

\* A slot does not stay taken: it is loaded or failed, and reaped when nobody
\* claims it.
SlotsComeBack == LoadsFinish /\ DyingAreReaped

\* A wait4 whose child's code is on record returns.
Wait4Returns ==
  \A s \in Slot : task[s].pc = "wait4" /\ Matching(s, task[s].arg) # {} ~> task[s].pc # "wait4"
=============================================================================
