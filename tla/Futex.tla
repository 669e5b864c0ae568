------------------------------- MODULE Futex -------------------------------
(***************************************************************************)
(* Futexes (sys_futex_wait and sys_futex_wake in arch/syscall.c,           *)
(* task_wake_futex in sched/sched.c) under their user, the mutex of        *)
(* userspace/lib/pthread.c.                                                *)
(*                                                                         *)
(* A thread locks by exchanging 1 into the word and sleeps on the futex    *)
(* while it was not 0; it unlocks by storing 0 and waking one waiter.  The *)
(* kernel keys a futex by the page of the word: the offset in the page is  *)
(* masked away, so the words of a page share their waiters.                *)
(*                                                                         *)
(* Threads are preempted between any two instructions in ring 3; a system  *)
(* call is one step.  Threads are the slots of the task table, which       *)
(* task_wake_futex searches from the first.  No thread is killed: a killed *)
(* holder keeps its mutex, which is the program's affair.                  *)
(***************************************************************************)
EXTENDS Integers

CONSTANTS ThreadCount,         \* the threads are 1 .. ThreadCount
          Mutexes,
          PageOf,              \* the page each mutex lies in
          NoPage

ASSUME FutexAssumption == /\ ThreadCount \in Nat
                          /\ Mutexes # {}
                          /\ \A m \in Mutexes : m \in DOMAIN PageOf /\ PageOf[m] # NoPage

Threads == 1 .. ThreadCount
Pages == {PageOf[m] : m \in Mutexes}

VARIABLES
    word,            \* the mutex words
    at,              \* where each thread is
    want,            \* the mutex it is locking, holding or unlocking
    futex_addr       \* task->futex_addr; a thread blocks only in sys_futex_wait

futexVars == <<word, at, want, futex_addr>>

FutexInit ==
    /\ word = [m \in Mutexes |-> 0]
    /\ at = [t \in Threads |-> "out"]
    /\ want = [t \in Threads |-> CHOOSE m \in Mutexes : TRUE]     \* until its first lock
    /\ futex_addr = [t \in Threads |-> NoPage]

-----------------------------------------------------------------------------
\* The program calls pthread_mutex_lock(m).
lock_call(t, m) ==
    /\ at[t] = "out"
    /\ at' = [at EXCEPT ![t] = "exchange"]
    /\ want' = [want EXCEPT ![t] = m]
    /\ UNCHANGED <<word, futex_addr>>

pthread_mutex_lock(t) ==
    /\ at[t] = "exchange"
    /\ at' = [at EXCEPT ![t] = IF word[want[t]] = 0 THEN "inside" ELSE "wait"]
    /\ word' = [word EXCEPT ![want[t]] = 1]
    /\ UNCHANGED <<want, futex_addr>>

\* Faulty variant: blocks without the compare.
BlocksUncompared(t) ==
    /\ at[t] = "wait"
    /\ at' = [at EXCEPT ![t] = "blocked"]
    /\ futex_addr' = [futex_addr EXCEPT ![t] = PageOf[want[t]]]
    /\ UNCHANGED <<word, want>>

\* Compares and blocks in one step: the kernel is not preempted.
sys_futex_wait(t) ==
    /\ at[t] = "wait"
    /\ IF word[want[t]] # 1
       THEN at' = [at EXCEPT ![t] = "exchange"] /\ UNCHANGED futex_addr
       ELSE /\ at' = [at EXCEPT ![t] = "blocked"]
            /\ futex_addr' = [futex_addr EXCEPT ![t] = PageOf[want[t]]]
    /\ UNCHANGED <<word, want>>

pthread_mutex_unlock(t) ==
    /\ at[t] = "inside"
    /\ word' = [word EXCEPT ![want[t]] = 0]
    /\ at' = [at EXCEPT ![t] = "wake"]
    /\ UNCHANGED <<want, futex_addr>>

Waiters(page) == {t \in Threads : at[t] = "blocked" /\ futex_addr[t] = page}

\* Faulty variant: nobody is woken.
WakesNobody(u, page) == at' = [at EXCEPT ![u] = "out"] /\ UNCHANGED futex_addr

\* task_wake_futex: the first blocked task of the table with this address.
task_wake_futex(u, page) ==
    IF Waiters(page) = {}
    THEN at' = [at EXCEPT ![u] = "out"] /\ UNCHANGED futex_addr
    ELSE \E t \in Waiters(page) :
            /\ \A s \in Waiters(page) : t <= s
            /\ at' = [at EXCEPT ![u] = "out", ![t] = "exchange"]
            /\ futex_addr' = [futex_addr EXCEPT ![t] = NoPage]

sys_futex_wake(t) ==
    /\ at[t] = "wake"
    /\ task_wake_futex(t, PageOf[want[t]])
    /\ UNCHANGED <<word, want>>

MutexStep(t) ==
    \/ pthread_mutex_lock(t)
    \/ sys_futex_wait(t)
    \/ pthread_mutex_unlock(t)
    \/ sys_futex_wake(t)

FutexNext ==
    \E t \in Threads :
        \/ \E m \in Mutexes : lock_call(t, m)
        \/ MutexStep(t)

FutexSpec == FutexInit /\ [][FutexNext]_futexVars

-----------------------------------------------------------------------------
(* Properties *)

FutexTypeOK ==
    /\ word \in [Mutexes -> {0, 1}]
    /\ at \in [Threads -> {"out", "exchange", "wait", "blocked", "inside", "wake"}]
    /\ want \in [Threads -> Mutexes]
    /\ futex_addr \in [Threads -> Pages \cup {NoPage}]

\* One thread at a time holds a mutex, and its word says so.
MutexExcludes ==
    \A t \in Threads :
        at[t] = "inside" =>
            /\ word[want[t]] = 1
            /\ \A s \in Threads : at[s] = "inside" /\ want[s] = want[t] => s = t

\* The mutex has its page to itself.
AloneOnPage(m) == \A n \in Mutexes : PageOf[n] = PageOf[m] => n = m

\* Somebody will still look at the mutex: it holds it, has just released it and
\* not yet called futex_wake, or is about to try it again.
Attended(m) ==
    \E t \in Threads : want[t] = m /\ at[t] \in {"exchange", "wait", "inside", "wake"}

\* No thread sleeps on a mutex nobody attends to, if the mutex does not share
\* its page with another: futex_wake then wakes a waiter of its own mutex, and
\* the compare in futex_wait leaves no window.
NoStrandedWaiter ==
    \A t \in Threads :
        at[t] = "blocked" /\ AloneOnPage(want[t]) => Attended(want[t])

\* The mutex of libgaia on the two calls: exclusive, and no wakeup is lost.
MutexSafe == FutexTypeOK /\ MutexExcludes /\ NoStrandedWaiter

\* A mutex somebody sleeps on is taken again (under the same condition).
MutexProgress ==
    \A m \in Mutexes :
        AloneOnPage(m) =>
            ((\E t \in Threads : at[t] = "blocked" /\ want[t] = m)
                ~> (\E t \in Threads : at[t] = "inside" /\ want[t] = m))
=============================================================================
