----------------------------- MODULE MCServices -----------------------------
(***************************************************************************)
(* Model checking of six parts of the kernel that share no state: the      *)
(* filesystem gate, the processors' work queue, network input, ARP,        *)
(* futexes and signals.                                                    *)
(*                                                                         *)
(* Their behaviours are checked side by side, not interleaved: `part` says *)
(* which of them runs, and the others rest in their initial states.  A     *)
(* property is about the variables of one part, so nothing is lost.        *)
(***************************************************************************)
EXTENDS VfsGate, SmpWork, NicPoll, Arp, Futex, Signals, TLC

CONSTANTS h1, h2, h3, m1, m2, m3,          \* hosts and their addresses
          queue_mutex, log_mutex, own_mutex, page1, page2

VARIABLE part

partVars == <<part, vars, smpVars, nicVars, arpVars, futexVars, sigVars>>

MCMacsOf == h1 :> {m1} @@ h2 :> {m2} @@ h3 :> {m3}

\* Two mutexes in one page, one in a page of its own.
MCPageOf == queue_mutex :> page1 @@ log_mutex :> page1 @@ own_mutex :> page2

Caught == [SIG_DFL EXCEPT !.handler = "H", !.restorer = TRUE]

MCActions == {SIG_DFL, [SIG_DFL EXCEPT !.handler = "IGN"], Caught,
              [Caught EXCEPT !.mask = Catchable, !.resethand = TRUE],
              [Caught EXCEPT !.nodefer = TRUE]}

ServicesInit ==
    /\ part \in {"gate", "smp", "nic", "arp", "futex", "signals"}
    /\ Init /\ SmpInit /\ NicInit /\ ArpInit /\ FutexInit /\ SigInit

ServicesNext ==
    /\ UNCHANGED part
    /\ \/ part = "gate" /\ Next /\ UNCHANGED <<smpVars, nicVars, arpVars, futexVars, sigVars>>
       \/ part = "smp" /\ SmpNext /\ UNCHANGED <<vars, nicVars, arpVars, futexVars, sigVars>>
       \/ part = "nic" /\ NicNext /\ UNCHANGED <<vars, smpVars, arpVars, futexVars, sigVars>>
       \/ part = "arp" /\ ArpNext /\ UNCHANGED <<vars, smpVars, nicVars, futexVars, sigVars>>
       \/ part = "futex" /\ FutexNext /\ UNCHANGED <<vars, smpVars, nicVars, arpVars, sigVars>>
       \/ part = "signals" /\ SigNext /\ UNCHANGED <<vars, smpVars, nicVars, arpVars, futexVars>>

\* Every runnable task gets the CPU, a disk request completes, and an operation
\* parks only finitely often.
GateFairness ==
    \A t \in Task :
        /\ WF_vars(part = "gate" /\ vfs_lock_resume(t))
        /\ SF_vars(part = "gate" /\ vfs_unlock(t))
        /\ WF_vars(part = "gate" /\ pc[t] = "in" /\ vfs_task_wakeup(t))

\* Each processor takes its next step; an AP that never comes up is allowed.
SmpFairness ==
    /\ WF_smpVars(part = "smp" /\ BspStep)
    /\ \A c \in APs : WF_smpVars(part = "smp" /\ ApStep(c))

\* The poll task is dispatched, and its idle timeout fires.  The card owes
\* nothing, and neither does its interrupt.
NicFairness ==
    /\ WF_nicVars(part = "nic" /\ PollStep)
    /\ WF_nicVars(part = "nic" /\ poll_timeout)

\* Time goes on, and the poll task calls arp_tick.  No host has to answer.
ArpFairness ==
    /\ WF_arpVars(part = "arp" /\ arp_tick)
    /\ WF_arpVars(part = "arp" /\ time_passes)

\* A runnable thread gets its turns, and its critical section ends.
FutexFairness == \A t \in Threads : WF_futexVars(part = "futex" /\ MutexStep(t))

\* The timer keeps interrupting ring 3, a ready task is dispatched, and a wait
\* inside the VFS ends.
SigFairness ==
    /\ WF_sigVars(part = "signals" /\ signal_deliver_irq)
    /\ WF_sigVars(part = "signals" /\ signal_deliver_syscall)
    /\ WF_sigVars(part = "signals" /\ mode = "vfs" /\ task_wakeup)

ServicesSpec ==
    /\ ServicesInit /\ [][ServicesNext]_partVars
    /\ GateFairness /\ SmpFairness /\ NicFairness /\ ArpFairness
    /\ FutexFairness /\ SigFairness
=============================================================================
