-------------------------------- MODULE Pipe --------------------------------
(***************************************************************************)
(* An anonymous pipe (kernel/msg/pipe.c) with the descriptors that refer   *)
(* to its ends, the wait queues of kernel/sync/waitqueue.c its readers,    *)
(* writers and pollers park on, and the exits and signals that cut a wait  *)
(* short.                                                                  *)
(*                                                                         *)
(* Interrupts are off from the look at the ring until the caller is        *)
(* parked, so that is one step.  A queue entry stays linked until its task *)
(* runs again.                                                             *)
(***************************************************************************)
EXTENDS Integers, Sequences, FiniteSets

CONSTANTS Task,
          PIPE_CAPACITY,
          PIPE_BUF,
          MaxFds,   \* bound on one task's descriptors for one end
          Lengths,  \* lengths of the writes made
          Reads,    \* lengths of the reads made
          NoTask

ASSUME PipeAssumption ==
  /\ PIPE_CAPACITY \in Nat /\ PIPE_BUF \in Nat
  /\ 0 < PIPE_BUF /\ PIPE_BUF <= PIPE_CAPACITY
  /\ MaxFds \in Nat \ {0} /\ Lengths \subseteq Nat \ {0} /\ Reads \subseteq Nat \ {0}
  /\ NoTask \notin Task /\ IsFiniteSet(Task)

VARIABLES
  live,     \* the pipe is allocated
  data, head, count,
  readers, writers,
  readable, writable,  \* tasks with an entry on each wait queue
  fds,      \* task -> its descriptors for each end
  pc,       \* "none" (no such task), "user", or the call it is parked in
  st,       \* "ready", "blocked", or "cut": made runnable by a signal or a
            \* deadline, and about to leave its wait
  req,      \* the parked call: its length, what is written, what is polled
  out       \* observer: the bytes the latest step handed to a reader

ring == <<data, head, count>>
ends == <<live, readers, writers, fds>>
vars == <<live, data, head, count, readers, writers, readable, writable, fds, pc, st, req, out>>

Cell == 0 .. PIPE_CAPACITY - 1
End == {"r", "w"}
Zero == [by |-> NoTask, at |-> 0, of |-> 0]
NoReq == [n |-> 0, written |-> 0, polled |-> {}]
NoFds == [e \in End |-> 0]

Minimum(a, b) == IF a < b THEN a ELSE b

Init ==
  /\ live = FALSE
  /\ data = [i \in Cell |-> Zero] /\ head = 0 /\ count = 0
  /\ readers = 0 /\ writers = 0
  /\ readable = {} /\ writable = {}
  /\ fds = [t \in Task |-> NoFds]
  /\ \E first \in Task : pc = [t \in Task |-> IF t = first THEN "user" ELSE "none"]
  /\ st = [t \in Task |-> "ready"]
  /\ req = [t \in Task |-> NoReq]
  /\ out = <<>>

Calls(t) == pc[t] = "user"
Resumes(t, call) == pc[t] = call /\ st[t] # "blocked"

\* wq_wake_all on the tasks linked to a queue.
Woken(S) == [t \in Task |-> IF t \in S /\ st[t] = "blocked" THEN "ready" ELSE st[t]]

-----------------------------------------------------------------------------
\* Faulty variant of UnrefWakes: an unref that wakes nobody.
SilentUnref(r, w) == {}

\* pipe_unref of so many references to each end: an end whose last reference
\* goes wakes the other side, and the pipe goes with the last of both.
Unref(r, w) ==
  /\ readers' = readers - r
  /\ writers' = writers - w
  /\ live' = (readers' + writers' > 0)

UnrefWakes(r, w) ==
  (IF w > 0 /\ writers = w THEN readable ELSE {})
    \cup (IF r > 0 /\ readers = r THEN writable ELSE {})

One(e, f) == IF e = f THEN 1 ELSE 0

\* sys_pipe2.
pipe_create(t) ==
  /\ Calls(t) /\ ~live
  /\ live' = TRUE
  /\ data' = [i \in Cell |-> Zero] /\ head' = 0 /\ count' = 0
  /\ readers' = 1 /\ writers' = 1
  /\ readable' = {} /\ writable' = {}
  /\ fds' = [fds EXCEPT ![t] = [e \in End |-> 1]]
  /\ out' = <<>>
  /\ UNCHANGED <<pc, st, req>>

\* sys_dup and dup2 onto an unrelated slot: one more reference.
pipe_ref(t, e) ==
  /\ Calls(t) /\ fds[t][e] \in 1 .. MaxFds - 1
  /\ fds' = [fds EXCEPT ![t][e] = @ + 1]
  /\ readers' = readers + One(e, "r") /\ writers' = writers + One(e, "w")
  /\ out' = <<>>
  /\ UNCHANGED <<live, ring, readable, writable, pc, st, req>>

sys_close(t, e) ==
  /\ Calls(t) /\ fds[t][e] > 0
  /\ fds' = [fds EXCEPT ![t][e] = @ - 1]
  /\ Unref(One(e, "r"), One(e, "w"))
  /\ st' = Woken(UnrefWakes(One(e, "r"), One(e, "w")))
  /\ out' = <<>>
  /\ UNCHANGED <<ring, readable, writable, pc, req>>

\* dup2 of one end onto a slot that holds the other: the new reference is
\* taken before the old one is dropped.
fd_dup_into(t, e, f) ==
  /\ Calls(t) /\ e # f /\ fds[t][e] \in 1 .. MaxFds - 1 /\ fds[t][f] > 0
  /\ fds' = [fds EXCEPT ![t] = [x \in End |-> fds[t][x] + One(x, e) - One(x, f)]]
  /\ readers' = readers + One(e, "r") - One(f, "r")
  /\ writers' = writers + One(e, "w") - One(f, "w")
  /\ st' = Woken(UnrefWakes(One(f, "r"), One(f, "w")))
  /\ out' = <<>>
  /\ UNCHANGED <<live, ring, readable, writable, pc, req>>

\* A child starts with its parent's standard descriptors, or with all of them.
task_inherit_stdio(t, c, r, w) ==
  /\ Calls(t) /\ pc[c] = "none"
  /\ r <= fds[t]["r"] /\ w <= fds[t]["w"]
  /\ pc' = [pc EXCEPT ![c] = "user"]
  /\ fds' = [fds EXCEPT ![c] = [e \in End |-> IF e = "r" THEN r ELSE w]]
  /\ readers' = readers + r /\ writers' = writers + w
  /\ out' = <<>>
  /\ UNCHANGED <<live, ring, readable, writable, st, req>>

\* The exit or kill of a task, parked or not: its queue entries go first, then
\* its descriptors.
mark_task_exited(t) ==
  /\ pc[t] # "none"
  /\ readable' = readable \ {t} /\ writable' = writable \ {t}
  /\ Unref(fds[t]["r"], fds[t]["w"])
  /\ st' = [Woken(UnrefWakes(fds[t]["r"], fds[t]["w"])) EXCEPT ![t] = "ready"]
  /\ fds' = [fds EXCEPT ![t] = NoFds]
  /\ pc' = [pc EXCEPT ![t] = "none"]
  /\ req' = [req EXCEPT ![t] = NoReq]
  /\ out' = <<>>
  /\ UNCHANGED ring

-----------------------------------------------------------------------------
\* Parking on a set of queues, and leaving the call.
Park(t, call, r, onRead, onWrite) ==
  /\ pc' = [pc EXCEPT ![t] = call]
  /\ req' = [req EXCEPT ![t] = r]
  /\ readable' = IF onRead THEN readable \cup {t} ELSE readable \ {t}
  /\ writable' = IF onWrite THEN writable \cup {t} ELSE writable \ {t}

Leave(t) ==
  /\ pc' = [pc EXCEPT ![t] = "user"]
  /\ req' = [req EXCEPT ![t] = NoReq]
  /\ readable' = readable \ {t} /\ writable' = writable \ {t}

\* The bytes a read of k takes: up to the end of the ring, then from its start.
Front(k) ==
  LET first == Minimum(PIPE_CAPACITY - head, k)
  IN  [j \in 1 .. k |-> IF j <= first THEN data[head + j - 1] ELSE data[j - first - 1]]

ReadChunk(t, n) ==
  LET chunk == Minimum(n, count)
  IN  /\ out' = Front(chunk)
      /\ head' = (head + chunk) % PIPE_CAPACITY
      /\ count' = count - chunk
      /\ st' = [Woken(writable) EXCEPT ![t] = "ready"]
      /\ Leave(t)
      /\ UNCHANGED data

\* pipe_read, from its start or from its park: data, end of file, or park.
ReadLoop(t, n, nonblock) ==
  \/ count > 0 /\ ReadChunk(t, n)
  \/ /\ count = 0 /\ out' = <<>>
     /\ UNCHANGED ring
     /\ IF writers = 0 \/ nonblock
          THEN Leave(t) /\ st' = [st EXCEPT ![t] = "ready"]
          ELSE /\ Park(t, "read", [NoReq EXCEPT !.n = n], TRUE, FALSE)
               /\ st' = [st EXCEPT ![t] = "blocked"]

pipe_read(t, n, nonblock) ==
  /\ Calls(t) /\ fds[t]["r"] > 0
  /\ ReadLoop(t, n, nonblock)
  /\ UNCHANGED ends

pipe_read_resume(t) ==
  /\ Resumes(t, "read") /\ st[t] = "ready"
  /\ ReadLoop(t, req[t].n, FALSE)
  /\ UNCHANGED ends

\* The ring after k bytes of a write went in: up to the end, then at the start.
Stored(t, n, written, k) ==
  LET tail == (head + count) % PIPE_CAPACITY
      first == Minimum(PIPE_CAPACITY - tail, k)
      byte(i) == [by |-> t, at |-> written + i, of |-> n]
  IN  [i \in Cell |-> IF i >= tail /\ i < tail + first THEN byte(i - tail + 1)
                     ELSE IF i < k - first THEN byte(first + i + 1)
                     ELSE data[i]]

Space == PIPE_CAPACITY - count

\* Faulty variant of Need: a small write goes in pieces like any other.
AnyRoom(n, written) == 1

Need(n, written) == IF n <= PIPE_BUF THEN n - written ELSE 1

\* A chunk goes in and readers are woken; a write that is not done then finds
\* the ring full, and parks or returns short.
WriteChunk(t, n, written, nonblock) ==
  LET chunk == Minimum(n - written, Space)
      done == written + chunk = n
  IN  /\ data' = Stored(t, n, written, chunk)
      /\ count' = count + chunk
      /\ out' = <<>>
      /\ IF done \/ nonblock
           THEN Leave(t) /\ st' = [Woken(readable) EXCEPT ![t] = "ready"]
           ELSE /\ Park(t, "write", [NoReq EXCEPT !.n = n, !.written = written + chunk], FALSE, TRUE)
                /\ st' = [Woken(readable) EXCEPT ![t] = "blocked"]
      /\ UNCHANGED head

WriteLoop(t, n, written, nonblock) ==
  \/ readers > 0 /\ Space >= Need(n, written) /\ WriteChunk(t, n, written, nonblock)
  \/ /\ readers = 0 \/ Space < Need(n, written)
     /\ out' = <<>>
     /\ UNCHANGED ring
     /\ IF readers = 0 \/ nonblock
          THEN Leave(t) /\ st' = [st EXCEPT ![t] = "ready"]
          ELSE /\ Park(t, "write", [NoReq EXCEPT !.n = n, !.written = written], FALSE, TRUE)
               /\ st' = [st EXCEPT ![t] = "blocked"]

pipe_write(t, n, nonblock) ==
  /\ Calls(t) /\ fds[t]["w"] > 0
  /\ WriteLoop(t, n, 0, nonblock)
  /\ UNCHANGED ends

pipe_write_resume(t) ==
  /\ Resumes(t, "write") /\ st[t] = "ready"
  /\ WriteLoop(t, req[t].n, req[t].written, FALSE)
  /\ UNCHANGED ends

-----------------------------------------------------------------------------
\* poll of some of the task's ends, read ends for input and write ends for
\* output.  poll_scan finds data, room, or the other side gone.
poll_scan(S) ==
  \/ "r" \in S /\ (count > 0 \/ writers = 0)
  \/ "w" \in S /\ (count < PIPE_CAPACITY \/ readers = 0)

PollLoop(t, S, nowait) ==
  /\ out' = <<>>
  /\ IF poll_scan(S) \/ nowait
       THEN Leave(t) /\ st' = [st EXCEPT ![t] = "ready"]
       ELSE /\ Park(t, "poll", [NoReq EXCEPT !.polled = S], "r" \in S, "w" \in S)
            /\ st' = [st EXCEPT ![t] = "blocked"]
  /\ UNCHANGED <<ring, ends>>

sys_poll(t, S, nowait) ==
  /\ Calls(t) /\ S # {} /\ \A e \in S : fds[t][e] > 0
  /\ PollLoop(t, S, nowait)

sys_poll_resume(t) ==
  /\ Resumes(t, "poll") /\ st[t] = "ready"
  /\ PollLoop(t, req[t].polled, FALSE)

\* A signal ends any of the waits; a deadline ends a poll.
task_interrupt(t) ==
  /\ st[t] = "blocked"
  /\ st' = [st EXCEPT ![t] = "cut"]
  /\ out' = <<>>
  /\ UNCHANGED <<ring, ends, readable, writable, pc, req>>

wq_wait_cut(t) ==
  /\ st[t] = "cut"
  /\ Leave(t)
  /\ st' = [st EXCEPT ![t] = "ready"]
  /\ out' = <<>>
  /\ UNCHANGED <<ring, ends>>

Next ==
  \E t \in Task :
    \/ pipe_create(t) \/ mark_task_exited(t)
    \/ pipe_read_resume(t) \/ pipe_write_resume(t) \/ sys_poll_resume(t)
    \/ task_interrupt(t) \/ wq_wait_cut(t)
    \/ \E e \in End : pipe_ref(t, e) \/ sys_close(t, e) \/ \E f \in End : fd_dup_into(t, e, f)
    \/ \E c \in Task, r, w \in 0 .. MaxFds : task_inherit_stdio(t, c, r, w)
    \/ \E n \in Reads, nonblock \in BOOLEAN : pipe_read(t, n, nonblock)
    \/ \E n \in Lengths, nonblock \in BOOLEAN : pipe_write(t, n, nonblock)
    \/ \E S \in SUBSET End, nowait \in BOOLEAN : sys_poll(t, S, nowait)

Spec == Init /\ [][Next]_vars

-----------------------------------------------------------------------------
Byte == [by : Task \cup {NoTask}, at : Nat, of : Nat]

RingType ==
  data \in [Cell -> Byte] /\ head \in Cell /\ count \in 0 .. PIPE_CAPACITY

WaitType ==
  /\ pc \in [Task -> {"none", "user", "read", "write", "poll"}]
  /\ st \in [Task -> {"ready", "blocked", "cut"}]
  /\ req \in [Task -> [n : Nat, written : Nat, polled : SUBSET End]]
  /\ readable \subseteq Task /\ writable \subseteq Task

TypeOK ==
  /\ RingType /\ WaitType
  /\ fds \in [Task -> [End -> 0 .. MaxFds]]

\* A parked task's entries are on the queues its wait is about, and only a
\* task in a call has entries.
ParkedAreLinked ==
  \A t \in Task :
    /\ pc[t] \in {"none", "user"} => st[t] = "ready" /\ t \notin readable \cup writable
    /\ pc[t] = "read" => t \in readable /\ req[t].n \in Reads
    /\ pc[t] = "write" => t \in writable /\ req[t].written < req[t].n
                        /\ (req[t].n <= PIPE_BUF => req[t].written = 0)
                        /\ req[t].n \in Lengths
    /\ pc[t] = "poll" => ("r" \in req[t].polled => t \in readable)
                       /\ ("w" \in req[t].polled => t \in writable)

\* No wake-up is lost: a reader stays parked only on an empty pipe with a
\* writer left, a writer only while its bytes do not fit and a reader is
\* left, a poll only while nothing it asked for is there.
NoLostWakeup ==
  \A t \in Task : st[t] = "blocked" =>
    /\ pc[t] = "read" => count = 0 /\ writers # 0
    /\ pc[t] = "write" => Space < Need(req[t].n, req[t].written) /\ readers # 0
    /\ pc[t] = "poll" => ~poll_scan(req[t].polled)

\* The descriptors for one end, numbered within each task.
Refs(f, e) == {x \in Task \X (1 .. MaxFds) : x[2] <= f[x[1]][e]}

\* The counts are the descriptors there are, whatever order dup, inheritance,
\* close and exit come in; the pipe is allocated while there is one; and a
\* parked task has one for what it waits on, so pipe_unref frees no pipe with
\* a task parked on it.
FreedWhenUnused ==
  /\ readers = Cardinality(Refs(fds, "r")) /\ writers = Cardinality(Refs(fds, "w"))
  /\ live <=> readers # 0 \/ writers # 0
  /\ \A t \in Task :
       /\ pc[t] = "none" => fds[t] = NoFds
       /\ pc[t] = "read" => fds[t]["r"] > 0
       /\ pc[t] = "write" => fds[t]["w"] > 0
       /\ pc[t] = "poll" => req[t].polled # {} /\ \A e \in req[t].polled : fds[t][e] > 0

PipeInv == TypeOK /\ ParkedAreLinked /\ NoLostWakeup /\ FreedWhenUnused

Fifo == [i \in 1 .. count |-> data[(head + i - 1) % PIPE_CAPACITY]]

Abstract == INSTANCE ByteQueue WITH open <- live, fifo <- Fifo

\* The ring is a bounded first-in first-out queue of bytes, across its wrap:
\* reads take the oldest bytes in order, and a write of at most PIPE_BUF bytes
\* goes in whole, with no other writer's bytes inside it.
ImplementsByteQueue == Abstract!Spec

\* What the comment on pipe_write says: a blocking write returns all of n,
\* or an error when nothing could be written.
BlockingWriteIsWhole ==
  [][\A t \in Task : wq_wait_cut(t) /\ pc[t] = "write" => req[t].written = 0]_vars
=============================================================================
