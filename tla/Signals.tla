------------------------------ MODULE Signals ------------------------------
(***************************************************************************)
(* Signals to one process (sched/signal.c, the interruptible block of      *)
(* sched/sched.c, sys_rt_sigaction and sys_execve in arch/syscall.c): the  *)
(* dispositions, the pending and blocked sets and the stack of handler     *)
(* frames, while other tasks send.                                         *)
(*                                                                         *)
(* The kernel is not preempted, so a system call that does not sleep is    *)
(* one step, which ends by delivering on the way out.  The frame a handler *)
(* returns through is kept by the program unchanged.  Signals are numbers, *)
(* the lowest is delivered first; the stack has room for MaxDepth frames.  *)
(***************************************************************************)
EXTENDS Integers, Sequences, FiniteSetsExt

CONSTANTS Sigs,                \* SIGKILL and the signals programs use
          SIGKILL, SIGCHLD,
          DefaultIgnored,      \* signals whose default action is nothing
          Actions,             \* what programs pass to sigaction
          MaxDepth             \* bound on nested handlers

SIG_DFL == [handler |-> "DFL", mask |-> {}, nodefer |-> FALSE,
            resethand |-> FALSE, restorer |-> FALSE]

ASSUME SigAssumption ==
    /\ Sigs \subseteq Nat /\ {SIGKILL, SIGCHLD} \subseteq Sigs /\ SIGKILL # SIGCHLD
    /\ MaxDepth \in Nat
    /\ SIG_DFL \in Actions
    /\ Actions \subseteq [handler : {"DFL", "IGN", "H"}, mask : SUBSET Sigs,
                          nodefer : BOOLEAN, resethand : BOOLEAN, restorer : BOOLEAN]

Catchable == Sigs \ {SIGKILL}

VARIABLES
    mode,            \* "parked" can be interrupted, "blocked" and "vfs" cannot;
                     \* "ready" is about to go on in the kernel
    signal_actions, sig_pending, sig_blocked,
    frames           \* the handlers running: signal, nodefer and saved mask

sigVars == <<mode, signal_actions, sig_pending, sig_blocked, frames>>

SigInit ==
    /\ mode = "loading"
    /\ signal_actions = [s \in Sigs |-> SIG_DFL]
    /\ sig_pending = {} /\ sig_blocked = {}
    /\ frames = <<>>

-----------------------------------------------------------------------------
task_signal_deliverable == sig_pending \ sig_blocked # {}

discarded(s) ==
    /\ s # SIGKILL
    /\ \/ signal_actions[s].handler = "IGN"
       \/ signal_actions[s].handler = "DFL" /\ s \in DefaultIgnored

terminate ==
    /\ mode' = "dead"
    /\ UNCHANGED <<signal_actions, sig_pending, sig_blocked, frames>>

\* Back to ring 3 with these actions, pending and blocked sets and frames:
\* deliver() takes the lowest deliverable signal first.
deliver(acts, pend, blk, fr) ==
    LET ready == pend \ blk
        s == Min(ready)
        act == acts[s]
    IN
    IF ready = {} \/ act.handler = "IGN" \/ (act.handler = "DFL" /\ s \in DefaultIgnored)
    THEN /\ mode' = "user"
         /\ signal_actions' = acts
         /\ sig_pending' = IF ready = {} THEN pend ELSE pend \ {s}
         /\ sig_blocked' = blk /\ frames' = fr
    ELSE IF act.handler = "DFL" \/ ~act.restorer \/ Len(fr) = MaxDepth
    THEN terminate
    ELSE /\ mode' = "user"
         /\ signal_actions' = IF act.resethand THEN [acts EXCEPT ![s].handler = "DFL"] ELSE acts
         /\ sig_pending' = pend \ {s}
         /\ sig_blocked' = (blk \cup act.mask \cup (IF act.nodefer THEN {} ELSE {s})) \ {SIGKILL}
         /\ frames' = Append(fr, [sig |-> s, nodefer |-> act.nodefer, sigmask |-> blk])

task_activate_reserved_user ==
    /\ mode = "loading" /\ mode' = "user"
    /\ UNCHANGED <<signal_actions, sig_pending, sig_blocked, frames>>

\* Faulty variant: interrupts return without looking for signals.
IrqIgnoresSignals == mode = "user" /\ UNCHANGED sigVars

\* An interrupt returns to ring 3, or a system call the task slept in does.
signal_deliver_irq ==
    /\ mode = "user"
    /\ deliver(signal_actions, sig_pending, sig_blocked, frames)

signal_deliver_syscall ==
    /\ mode = "ready"
    /\ deliver(signal_actions, sig_pending, sig_blocked, frames)

sys_rt_sigaction(s, act) ==
    /\ mode = "user" /\ s # SIGKILL
    /\ deliver([signal_actions EXCEPT ![s] = act], sig_pending, sig_blocked, frames)

\* Faulty variant: a handler returns to an empty mask and not to the one it
\* interrupted.
ReturnsUnmasked ==
    /\ mode = "user" /\ frames # <<>>
    /\ deliver(signal_actions, sig_pending, {}, SubSeq(frames, 1, Len(frames) - 1))

\* Inside a handler programs only block more.
signal_sigprocmask(set) ==
    /\ mode = "user" /\ (frames # <<>> => sig_blocked \subseteq set)
    /\ deliver(signal_actions, sig_pending, set \ {SIGKILL}, frames)

signal_sigreturn ==
    /\ mode = "user" /\ frames # <<>>
    /\ deliver(signal_actions, sig_pending, frames[Len(frames)].sigmask \ {SIGKILL},
               SubSeq(frames, 1, Len(frames) - 1))

\* Caught signals go back to the default, and the handlers' stack is gone.
sys_execve ==
    /\ mode = "user"
    /\ deliver([s \in Sigs |-> IF signal_actions[s].handler = "IGN"
                               THEN signal_actions[s] ELSE SIG_DFL],
               sig_pending, sig_blocked, <<>>)

\* A system call sleeps interruptibly, or finds a signal waiting and returns
\* EINTR; a woken one may go back to sleep.
task_block_until ==
    /\ mode \in {"user", "ready"}
    /\ IF task_signal_deliverable
       THEN deliver(signal_actions, sig_pending, sig_blocked, frames)
       ELSE /\ mode' = "parked"
            /\ UNCHANGED <<signal_actions, sig_pending, sig_blocked, frames>>

\* A sleep no signal ends, or a wait inside the VFS.
task_block ==
    /\ mode = "user"
    /\ \E m \in {"blocked", "vfs"} : mode' = m
    /\ UNCHANGED <<signal_actions, sig_pending, sig_blocked, frames>>

task_wakeup ==
    /\ mode \in {"parked", "blocked", "vfs"} /\ mode' = "ready"
    /\ UNCHANGED <<signal_actions, sig_pending, sig_blocked, frames>>

\* Faulty variant: the sleeper is not woken.
PendsSilently(s) ==
    /\ sig_pending' = sig_pending \cup {s}
    /\ UNCHANGED <<mode, signal_actions, sig_blocked, frames>>

make_pending(s) ==
    /\ sig_pending' = sig_pending \cup {s}
    /\ mode' = IF mode = "parked" /\ sig_pending' \ sig_blocked # {} THEN "ready" ELSE mode
    /\ UNCHANGED <<signal_actions, sig_blocked, frames>>

\* Another task sends.  (A refused kill changes nothing: the sender may retry.)
Kills(s) == s = SIGKILL \/ (signal_actions[s].handler = "DFL" /\ s \notin sig_blocked)
signal_send(s) ==
    /\ mode # "dead" /\ ~discarded(s)
    /\ \/ (mode = "loading" \/ Kills(s)) /\ mode # "vfs" /\ terminate
       \/ mode # "loading" /\ ~Kills(s) /\ make_pending(s)

\* The process sends to itself.
signal_raise(s) ==
    /\ mode = "user" /\ ~discarded(s)
    /\ IF Kills(s) THEN terminate
       ELSE deliver(signal_actions, sig_pending \cup {s}, sig_blocked, frames)

signal_child_exited ==
    /\ mode # "dead" /\ signal_actions[SIGCHLD].handler = "H"
    /\ make_pending(SIGCHLD)

SigNext ==
    \/ task_activate_reserved_user
    \/ signal_deliver_irq \/ signal_deliver_syscall
    \/ \E s \in Sigs, act \in Actions : sys_rt_sigaction(s, act)
    \/ \E set \in SUBSET Sigs : signal_sigprocmask(set)
    \/ signal_sigreturn \/ sys_execve
    \/ task_block_until \/ task_block \/ task_wakeup
    \/ \E s \in Sigs : signal_send(s) \/ signal_raise(s)
    \/ signal_child_exited

SigSpec == SigInit /\ [][SigNext]_sigVars

-----------------------------------------------------------------------------
(* Properties *)

\* A task does not sleep interruptibly with a signal waiting for it, whether the
\* signal came before it parked, while it was parked or as it was being woken.
ParkedHasNoSignal == mode = "parked" => ~task_signal_deliverable

\* A handler without SA_NODEFER is not entered again before it returned: the
\* masks saved in the frames keep it blocked through nested handlers and their
\* returns.
HandlerNotReentered ==
    \A i, j \in 1 .. Len(frames) :
        i < j /\ ~frames[i].nodefer => frames[i].sig # frames[j].sig

\* A deliverable signal is taken, unless the task is in a sleep no signal ends
\* or a lower-numbered signal comes first.
SignalsAreTaken ==
    \A s \in Catchable :
        []<>(\/ s \notin sig_pending \ sig_blocked
             \/ mode \in {"blocked", "dead"}
             \/ \E r \in sig_pending \ sig_blocked : r < s)
=============================================================================
