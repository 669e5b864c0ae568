------------------------------ MODULE Sockets ------------------------------
(***************************************************************************)
(* UDP sockets (net/ksocket.c) with the descriptors that hold them         *)
(* (sched/sched.c, arch/syscall.c): binding, ephemeral ports, delivery by  *)
(* the driver poll task, and receivers and pollers that park until a       *)
(* datagram comes.                                                         *)
(*                                                                         *)
(* Interrupts are off from the look at the queue until the caller is       *)
(* parked, so that is one step.  A task's entry stays on the queue of a    *)
(* socket until the task runs again or exits.  Files, sockets included,    *)
(* are closed by the reaper, which may sleep between two of them.          *)
(*                                                                         *)
(* A datagram is counted, not kept: a queue is as long as it is.  The      *)
(* local address is the wildcard.  The kernel's echo thread, which owns a  *)
(* socket without a descriptor for good, is left out.                      *)
(***************************************************************************)
EXTENDS Integers, Sequences, FiniteSets

CONSTANTS Users,               \* tasks
          SocketIds,           \* places a struct socket may be allocated
          FixedPorts,          \* ports programs ask for by number, not of the range
          FirstEphemeral, LastEphemeral,   \* the range, above 0
          MaxRefs,             \* bound on the descriptors for one socket
          MaxQueued            \* bound on rx_queue, which the code lets grow

ASSUME SocketAssumption ==
    /\ IsFiniteSet(Users)
    /\ FirstEphemeral \in Nat /\ LastEphemeral \in Nat /\ 0 < FirstEphemeral
    /\ FixedPorts \cap FirstEphemeral .. LastEphemeral = {}
    /\ MaxRefs \in Nat /\ 0 < MaxRefs

VARIABLES
    socket_list,     \* newest first
    sockets,         \* fd_refs, local port and length of rx_queue
    next_port,
    held,            \* task -> socket -> its descriptors
    user             \* task -> the call it is in, the sockets it waits for,
                     \* and whether it is blocked, ready, or cut short

socketVars == <<socket_list, sockets, next_port, held, user>>

NoSocket == [fd_refs |-> 0, port |-> 0, queued |-> 0]
AtUser == [at |-> "user", on |-> {}, st |-> "ready"]
Absent == [AtUser EXCEPT !.at = "none"]
ParkedIn(call, on) == [at |-> call, on |-> on, st |-> "blocked"]

SocketInit ==
    /\ socket_list = <<>>
    /\ sockets = [s \in SocketIds |-> NoSocket]
    /\ next_port = FirstEphemeral
    /\ held = [t \in Users |-> [s \in SocketIds |-> 0]]
    /\ \E first \in Users : user = [t \in Users |-> IF t = first THEN AtUser ELSE Absent]

Listed == {socket_list[i] : i \in DOMAIN socket_list}
Calls(t) == user[t].at = "user"
Readable(s) == sockets[s].queued > 0

-----------------------------------------------------------------------------
\* sys_socket: socket_create, wherever kmalloc puts the socket, and
\* sock_fd_alloc.
sys_socket(t, s) ==
    /\ Calls(t) /\ s \notin Listed
    /\ socket_list' = <<s>> \o socket_list
    /\ sockets' = [sockets EXCEPT ![s] = [NoSocket EXCEPT !.fd_refs = 1]]
    /\ held' = [held EXCEPT ![t][s] = 1]
    /\ UNCHANGED <<next_port, user>>

Taken == {sockets[s].port : s \in Listed}

\* The port k places after next_port, which wraps at the end of the range.
Ahead(k) ==
    FirstEphemeral + ((next_port - FirstEphemeral + k) % (LastEphemeral - FirstEphemeral + 1))

\* socket_alloc_ephemeral_port for a socket: the first port nobody has, going
\* once around the range.  When all are taken the call fails.
BindEphemeral(s) ==
    \E k \in 0 .. LastEphemeral - FirstEphemeral :
        /\ Ahead(k) \notin Taken
        /\ \A j \in 0 .. k - 1 : Ahead(j) \in Taken
        /\ sockets' = [sockets EXCEPT ![s].port = Ahead(k)]
        /\ next_port' = Ahead(k + 1)
        /\ UNCHANGED <<socket_list, held, user>>

\* sys_bind, also of a socket that is bound already; 0 asks for any port.
sys_bind(t, s, port) ==
    /\ Calls(t) /\ held[t][s] > 0
    /\ \/ port = 0 /\ BindEphemeral(s)
       \/ /\ port # 0
          /\ sockets' = [sockets EXCEPT ![s].port = port]
          /\ UNCHANGED <<socket_list, next_port, held, user>>

\* sys_sendto binds a socket that has no port to answer to.
sys_sendto(t, s) ==
    /\ Calls(t) /\ held[t][s] > 0 /\ sockets[s].port = 0
    /\ BindEphemeral(s)

-----------------------------------------------------------------------------
\* socket_recvfrom from the top of its loop: take a datagram or park.
Receive(t, s) ==
    /\ IF Readable(s)
       THEN /\ sockets' = [sockets EXCEPT ![s].queued = @ - 1]
            /\ user' = [user EXCEPT ![t] = AtUser]
       ELSE /\ user' = [user EXCEPT ![t] = ParkedIn("recv", {s})]
            /\ UNCHANGED sockets
    /\ UNCHANGED <<socket_list, next_port, held>>

socket_recvfrom(t, s) == Calls(t) /\ held[t][s] > 0 /\ Receive(t, s)

\* sys_poll of the sockets S from the top of its loop.
Poll(t, S) ==
    /\ user' = [user EXCEPT ![t] = IF \E s \in S : Readable(s) THEN AtUser
                                   ELSE ParkedIn("poll", S)]
    /\ UNCHANGED <<socket_list, sockets, next_port, held>>

sys_poll(t, S) == Calls(t) /\ (\A s \in S : held[t][s] > 0) /\ Poll(t, S)

\* A parked task runs again: wq_remove_all, then around the loop, or out of it
\* when a signal or poll's deadline ended the wait.
wq_resume(t) ==
    /\ user[t].at \in {"recv", "poll"} /\ user[t].st # "blocked"
    /\ \/ user[t].st = "ready" /\ user[t].at = "recv" /\ \E s \in user[t].on : Receive(t, s)
       \/ user[t].st = "ready" /\ user[t].at = "poll" /\ Poll(t, user[t].on)
       \/ /\ user[t].st = "cut"
          /\ user' = [user EXCEPT ![t] = AtUser]
          /\ UNCHANGED <<socket_list, sockets, next_port, held>>

\* A signal, or the deadline of a poll.
task_interrupt(t) ==
    /\ user[t].st = "blocked"
    /\ user' = [user EXCEPT ![t].st = "cut"]
    /\ UNCHANGED <<socket_list, sockets, next_port, held>>

-----------------------------------------------------------------------------
\* Faulty variant of Woken: only one waiter is woken.
WakesOne(s) ==
    LET waiting == {t \in Users : s \in user[t].on /\ user[t].st = "blocked"}
        one == CHOOSE t \in waiting : TRUE
    IN  IF waiting = {} THEN user ELSE [user EXCEPT ![one].st = "ready"]

\* wq_wake_all on the readers of a socket.
Woken(s) ==
    [t \in Users |-> IF s \in user[t].on /\ user[t].st = "blocked"
                     THEN [user[t] EXCEPT !.st = "ready"] ELSE user[t]]

\* The poll task delivers a datagram to the newest socket with its port; no
\* host sends to port 0, that of a socket not bound.  A datagram for no socket,
\* or without memory for it, is dropped.
socket_handle_incoming(port) ==
    \E i \in DOMAIN socket_list :
        LET s == socket_list[i] IN
        /\ sockets[s].port = port
        /\ \A j \in 1 .. i - 1 : sockets[socket_list[j]].port # port
        /\ sockets[s].queued < MaxQueued
        /\ sockets' = [sockets EXCEPT ![s].queued = @ + 1]
        /\ user' = Woken(s)
        /\ UNCHANGED <<socket_list, next_port, held>>

-----------------------------------------------------------------------------
\* socket_close unlinks s.
ListWithout(s) ==
    LET i == CHOOSE i \in DOMAIN socket_list : socket_list[i] = s
    IN  SubSeq(socket_list, 1, i - 1) \o SubSeq(socket_list, i + 1, Len(socket_list))

\* task_fd_release of one descriptor of t: the last one closes the socket.
Release(t, s) ==
    LET last == sockets[s].fd_refs <= 1 IN
    /\ held' = [held EXCEPT ![t][s] = @ - 1]
    /\ sockets' = [sockets EXCEPT ![s] = IF last THEN NoSocket ELSE [sockets[s] EXCEPT !.fd_refs = @ - 1]]
    /\ socket_list' = IF last THEN ListWithout(s) ELSE socket_list

\* sys_close; execve does the same for each descriptor marked close-on-exec.
sys_close(t, s) ==
    /\ Calls(t) /\ held[t][s] > 0
    /\ Release(t, s)
    /\ UNCHANGED <<next_port, user>>

\* sys_dup, or dup2 onto a slot that holds something else: one reference more.
task_fd_dup(t, s) ==
    /\ Calls(t) /\ held[t][s] > 0 /\ sockets[s].fd_refs < MaxRefs
    /\ held' = [held EXCEPT ![t][s] = @ + 1]
    /\ sockets' = [sockets EXCEPT ![s].fd_refs = @ + 1]
    /\ UNCHANGED <<socket_list, next_port, user>>

\* dup2 of s onto a slot that holds another socket: the new reference is taken
\* before the old one is dropped.
fd_dup_into(t, s, over) ==
    LET last == sockets[over].fd_refs <= 1 IN
    /\ Calls(t) /\ s # over /\ held[t][s] > 0 /\ held[t][over] > 0
    /\ sockets[s].fd_refs < MaxRefs
    /\ held' = [held EXCEPT ![t][s] = @ + 1, ![t][over] = @ - 1]
    /\ sockets' = [sockets EXCEPT
                     ![s].fd_refs = @ + 1,
                     ![over] = IF last THEN NoSocket ELSE [sockets[over] EXCEPT !.fd_refs = @ - 1]]
    /\ socket_list' = IF last THEN ListWithout(over) ELSE socket_list
    /\ UNCHANGED <<next_port, user>>

\* A child gets all descriptors (vfork) or those of the standard slots, which
\* may hold any of its parent's sockets.
task_inherit(t, c, some) ==
    /\ Calls(t) /\ user[c] = Absent
    /\ \A s \in SocketIds :
         some[s] <= held[t][s] /\ sockets[s].fd_refs + some[s] <= MaxRefs
    /\ user' = [user EXCEPT ![c] = AtUser]
    /\ held' = [held EXCEPT ![c] = some]
    /\ sockets' = [s \in SocketIds |-> [sockets[s] EXCEPT !.fd_refs = @ + some[s]]]
    /\ UNCHANGED <<socket_list, next_port>>

\* Exit, or a kill of a task parked or not: its queue entries go, its sockets
\* wait for the reaper.
mark_task_exited(t) ==
    /\ user[t].at \notin {"none", "zombie"}
    /\ user' = [user EXCEPT ![t] = [AtUser EXCEPT !.at = "zombie"]]
    /\ UNCHANGED <<socket_list, sockets, next_port, held>>

\* The reaper closes the descriptors one after another; then the slot is free.
task_close_fds(t) ==
    /\ user[t].at = "zombie" /\ UNCHANGED next_port
    /\ \/ \E s \in SocketIds : held[t][s] > 0 /\ Release(t, s) /\ UNCHANGED user
       \/ /\ \A s \in SocketIds : held[t][s] = 0
          /\ user' = [user EXCEPT ![t] = Absent]
          /\ UNCHANGED <<socket_list, sockets, held>>

SocketNext ==
    \/ \E t \in Users :
         \/ \E s \in SocketIds : sys_socket(t, s)
         \/ \E s \in SocketIds : \E port \in {0} \cup FixedPorts : sys_bind(t, s, port)
         \/ \E s \in SocketIds : sys_sendto(t, s)
         \/ \E s \in SocketIds : socket_recvfrom(t, s)
         \/ \E S \in (SUBSET SocketIds) \ {{}} : sys_poll(t, S)
         \/ wq_resume(t)
         \/ task_interrupt(t)
         \/ \E s \in SocketIds : sys_close(t, s)
         \/ \E s \in SocketIds : task_fd_dup(t, s)
         \/ \E s, over \in SocketIds : fd_dup_into(t, s, over)
         \/ \E c \in Users, some \in [SocketIds -> 0 .. MaxRefs] : task_inherit(t, c, some)
         \/ mark_task_exited(t)
         \/ task_close_fds(t)
    \/ \E port \in FixedPorts \cup FirstEphemeral .. LastEphemeral : socket_handle_incoming(port)

SocketSpec == SocketInit /\ [][SocketNext]_socketVars

-----------------------------------------------------------------------------
\* The descriptors for socket s, each as its task and a number.
Descriptors(s) == {d \in Users \X (1 .. MaxRefs) : d[2] <= held[d[1]][s]}

\* A socket is on the list, once, as long as somebody has a descriptor for it,
\* and fd_refs counts those descriptors: a close neither frees a socket in use
\* nor keeps one nobody has.
RefsAreExact ==
    /\ \A i, j \in DOMAIN socket_list : socket_list[i] = socket_list[j] => i = j
    /\ \A s \in SocketIds :
         /\ sockets[s].fd_refs = Cardinality(Descriptors(s))
         /\ sockets[s].fd_refs > 0 <=> s \in Listed

\* A port from the ephemeral range belongs to one socket: two clients never get
\* each other's answers, however often the range wraps.
EphemeralIsOwn ==
    \A s, r \in Listed :
        sockets[s].port = sockets[r].port /\ s # r =>
            sockets[s].port \notin FirstEphemeral .. LastEphemeral

\* A task parked on a socket's queue waits on a socket that is there, and no
\* datagram lies in a queue while a task sleeps for it.
NobodySleepsOnData ==
    \A t \in Users : user[t].at \in {"recv", "poll"} =>
        /\ user[t].on \subseteq Listed
        /\ user[t].st = "blocked" => \A s \in user[t].on : ~ Readable(s)

\* The socket layer through dup, vfork, spawn, exit and the reaper: fd_refs
\* counts the descriptors of every socket on the list, an ephemeral port
\* belongs to one socket however often socket_alloc_ephemeral_port wraps, and
\* nobody sleeps in recvfrom or poll while a datagram lies in the queue.
SocketsAreSound == RefsAreExact /\ EphemeralIsOwn /\ NobodySleepsOnData
=============================================================================
