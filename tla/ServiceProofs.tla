--------------------------- MODULE ServiceProofs ----------------------------
(***************************************************************************)
(* Proofs about the services tasks wait for: the VFS gate, for any set of  *)
(* tasks; the futex mutex, for any number of threads, any mutexes and any  *)
(* placement of them in pages; signals, for any set of signals, any actions *)
(* installed and any depth of handlers; the ARP cache, for any hosts and   *)
(* addresses, any number of entries and slots and any order of frames,     *)
(* answers and timeouts; and the receive ring, for any length, any frames  *)
(* and any number of busy passes.                                          *)
(***************************************************************************)
EXTENDS VfsGate, Futex, Signals, Arp, NicPoll, TLAPS
LOCAL INSTANCE WellFoundedInduction
LOCAL INSTANCE SequenceTheorems

\* The provers a leaf is tried with, and their seconds.
USE ZenonT(60), SMTT(30)

\* The VFS gate.

\* What the queue operations do to positions, for leaves that need it.
LEMMA AppendedAt ==
  ASSUME NEW S, NEW s \in Seq(S), NEW x \in S
  PROVE  /\ Append(s, x) \in Seq(S)
         /\ DOMAIN Append(s, x) = 1 .. Len(s) + 1
         /\ Append(s, x)[Len(s) + 1] = x
         /\ \A i \in 1 .. Len(s) : Append(s, x)[i] = s[i]
  BY SMTT(30)

LEMMA TailAt ==
  ASSUME NEW S, NEW s \in Seq(S), s # <<>>
  PROVE  /\ Head(s) \in S
         /\ Head(s) = s[1]
         /\ Len(s) \in Nat /\ Len(s) >= 1
         /\ Tail(s) \in Seq(S)
         /\ DOMAIN Tail(s) = 1 .. Len(s) - 1
         /\ \A i \in 1 .. Len(s) - 1 : Tail(s)[i] = s[i + 1]
  BY SMTT(30)

LEMMA InitGate == Init => GateInv
  BY NoTaskAssumption, SMTT(30)
     DEF Init, GateInv, TypeOK, QueueNodesAreLive, NoneQueuedBehindAFreeGate,
         MutualExclusion, Queued

LEMMA GateLockStep ==
  ASSUME GateInv, NEW t \in Task, vfs_lock(t)
  PROVE  GateInv'
  <1> USE NoTaskAssumption
  <1>1. CASE owner = NoTask
    BY <1>1, SMTT(30) DEF GateInv, TypeOK, QueueNodesAreLive, NoneQueuedBehindAFreeGate,
                MutualExclusion, Queued, vfs_lock
  <1>2. CASE owner # NoTask
    <2>1. /\ queue' = Append(queue, t) /\ owner' = owner
          /\ queue \in Seq(Task)
          /\ pc' = [pc EXCEPT ![t] = "wait"]
          /\ state' = [state EXCEPT ![t] = "blocked"]
          /\ active' = [active EXCEPT ![t] = TRUE]
          /\ pc[t] = "out" /\ state[t] = "ready" /\ owner # t
      BY <1>2 DEF vfs_lock, GateInv, TypeOK
    <2>2. TypeOK'
      BY <2>1, SMTT(30) DEF GateInv, TypeOK
    <2>3. \A i \in DOMAIN queue : queue[i] \in Task /\ queue[i] # t
      BY <2>1, SMTT(30) DEF GateInv, TypeOK, QueueNodesAreLive
    <2>4. QueueNodesAreLive'
      BY <2>1, <2>3, AppendedAt, SMTT(30) DEF GateInv, TypeOK, QueueNodesAreLive
    <2>5. \A u \in Queued : u \in Queued'
      BY <2>1, AppendedAt, SMTT(30) DEF Queued
    <2>6. t \in Queued'
      BY <2>1, AppendedAt, SMTT(30) DEF Queued
    <2>7. QED
      BY <1>2, <2>1, <2>2, <2>4, <2>5, <2>6, SMTT(30)
         DEF GateInv, TypeOK, NoneQueuedBehindAFreeGate, MutualExclusion
  <1>3. QED BY <1>1, <1>2

LEMMA GateUnlockStep ==
  ASSUME GateInv, NEW t \in Task, vfs_unlock(t)
  PROVE  GateInv'
  <1> USE NoTaskAssumption
  <1>1. CASE queue = <<>>
    BY <1>1, SMTT(30) DEF GateInv, TypeOK, QueueNodesAreLive, NoneQueuedBehindAFreeGate,
                MutualExclusion, Queued, vfs_unlock
  <1>2. CASE queue # <<>>
    <2> DEFINE h == Head(queue)
    <2>1. /\ queue' = Tail(queue) /\ owner' = h
          /\ queue \in Seq(Task) /\ h \in Task
          /\ pc' = [pc EXCEPT ![t] = "out"]
          /\ state' = [state EXCEPT ![h] = IF @ = "blocked" THEN "ready" ELSE @]
          /\ active' = [active EXCEPT ![t] = FALSE]
          /\ pc[t] = "in" /\ owner = t
      BY <1>2, TailAt DEF vfs_unlock, GateInv, TypeOK
    <2>2. pc[h] = "wait" /\ state[h] # "zombie" /\ h # t /\ h # NoTask
      BY <1>2, <2>1, TailAt, SMTT(30) DEF GateInv, QueueNodesAreLive
    <2>3. TypeOK'
      BY <1>2, <2>1, <2>2, TailAt DEF GateInv, TypeOK
    <2>4. QueueNodesAreLive'
      <3> SUFFICES ASSUME NEW i \in DOMAIN queue', NEW j \in DOMAIN queue'
                   PROVE  /\ queue'[i] = queue'[j] => i = j
                          /\ queue'[i] # owner'
                          /\ pc'[queue'[i]] = "wait"
                          /\ state'[queue'[i]] # "zombie"
        BY DEF QueueNodesAreLive
      <3>1. /\ i + 1 \in DOMAIN queue /\ queue'[i] = queue[i + 1]
            /\ j + 1 \in DOMAIN queue /\ queue'[j] = queue[j + 1]
            /\ 1 \in DOMAIN queue /\ h = queue[1]
            /\ i \in Nat /\ j \in Nat /\ i + 1 # 1
            /\ queue[i + 1] \in Task
        BY <1>2, <2>1, TailAt, SMTT(30)
      <3>2. QED
        BY <2>1, <2>2, <3>1, SMTT(30) DEF GateInv, TypeOK, QueueNodesAreLive
    <2>5. ASSUME NEW u \in Queued PROVE u = h \/ u \in Queued'
      <3>1. PICK i \in DOMAIN queue : u = queue[i]
        BY DEF Queued
      <3>2. CASE i = 1
        BY <1>2, <2>1, <3>1, <3>2, TailAt
      <3>3. CASE i # 1
        <4>1. i - 1 \in DOMAIN queue' /\ queue'[i - 1] = queue[i]
          BY <1>2, <2>1, <3>3, TailAt, SMTT(30)
        <4>2. QED BY <3>1, <4>1 DEF Queued
      <3>4. QED BY <3>2, <3>3
    <2>6. QED
      BY <2>1, <2>2, <2>3, <2>4, <2>5, SMTT(30)
         DEF GateInv, TypeOK, NoneQueuedBehindAFreeGate, MutualExclusion
  <1>3. QED BY <1>1, <1>2

\* Steps that touch neither the owner word nor the queue.
LEMMA GateTaskStep ==
  ASSUME GateInv, NEW t \in Task,
         vfs_lock_resume(t) \/ vfs_task_block(t) \/ vfs_task_wakeup(t) \/ task_kill(t)
  PROVE  GateInv'
  <1>1. queue' = queue /\ owner' = owner /\ active' = active
    BY DEF vfs_lock_resume, vfs_task_block, vfs_task_wakeup, task_kill
  <1>2. \A i \in DOMAIN queue : queue[i] \in Task /\ queue[i] # owner
    BY SMTT(30) DEF GateInv, TypeOK, QueueNodesAreLive
  <1>3. CASE vfs_lock_resume(t)
    BY <1>1, <1>2, <1>3, NoTaskAssumption, SMTT(30)
       DEF GateInv, TypeOK, QueueNodesAreLive, NoneQueuedBehindAFreeGate,
           MutualExclusion, Queued, vfs_lock_resume
  <1>4. CASE vfs_task_block(t)
    BY <1>1, <1>2, <1>4, SMTT(30)
       DEF GateInv, TypeOK, QueueNodesAreLive, NoneQueuedBehindAFreeGate,
           MutualExclusion, Queued, vfs_task_block
  <1>5. CASE vfs_task_wakeup(t)
    BY <1>1, <1>2, <1>5, SMTT(30)
       DEF GateInv, TypeOK, QueueNodesAreLive, NoneQueuedBehindAFreeGate,
           MutualExclusion, Queued, vfs_task_wakeup
  <1>6. CASE task_kill(t)
    <2>1. pc' = pc /\ pc[t] = "out" /\ owner # t
      BY <1>6, NoTaskAssumption DEF task_kill, GateInv, TypeOK
    <2>2. QED
      BY <1>1, <1>2, <1>6, <2>1, SMTT(30)
         DEF GateInv, TypeOK, QueueNodesAreLive, NoneQueuedBehindAFreeGate,
             MutualExclusion, Queued, task_kill
  <1>7. QED BY <1>3, <1>4, <1>5, <1>6

LEMMA NextGate == GateInv /\ [Next]_vars => GateInv'
  <1> SUFFICES ASSUME GateInv, [Next]_vars PROVE GateInv'
    OBVIOUS
  <1>1. CASE UNCHANGED vars
    BY <1>1, SMTT(30) DEF vars, GateInv, TypeOK, QueueNodesAreLive,
                NoneQueuedBehindAFreeGate, MutualExclusion, Queued
  <1>2. CASE Next
    BY <1>2, GateLockStep, GateUnlockStep, GateTaskStep DEF Next
  <1>3. QED BY <1>1, <1>2

\* Exclusion, no waiter behind a free gate, and no dead task on the queue
\* (vfs_lock, vfs_unlock and task_kill's refusal), for any set of tasks.
THEOREM GateInvariant == Spec => []GateInv
  <1>1. Init => GateInv BY InitGate
  <1>2. GateInv /\ [Next]_vars => GateInv' BY NextGate
  <1>3. QED BY <1>1, <1>2, PTL DEF Spec

\* vfs_unlock never leaves the new owner asleep.
THEOREM OwnerWoken == Spec => []OwnerIsWoken
  <1>1. Init => OwnerIsWoken
    BY NoTaskAssumption DEF Init, OwnerIsWoken
  <1>2. GateInv /\ OwnerIsWoken /\ [Next]_vars => OwnerIsWoken'
    <2> SUFFICES ASSUME GateInv, OwnerIsWoken, [Next]_vars
                 PROVE  OwnerIsWoken'
      OBVIOUS
    <2>1. CASE UNCHANGED vars
      BY <2>1 DEF vars, OwnerIsWoken
    <2>2. ASSUME NEW t \in Task, vfs_unlock(t) PROVE OwnerIsWoken'
      <3>1. CASE queue = <<>>
        BY <2>2, <3>1, NoTaskAssumption DEF vfs_unlock, OwnerIsWoken
      <3>2. CASE queue # <<>>
        <4>1. Head(queue) = queue[1] /\ 1 \in DOMAIN queue /\ Head(queue) \in Task
          BY <3>2, TailAt, SMTT(30) DEF GateInv, TypeOK
        <4>2. state[Head(queue)] # "zombie"
          BY <4>1 DEF GateInv, QueueNodesAreLive
        <4>3. QED
          BY <2>2, <3>2, <4>1, <4>2, SMTT(30) DEF vfs_unlock, OwnerIsWoken, GateInv, TypeOK
      <3>3. QED BY <3>1, <3>2
    <2>3. ASSUME NEW t \in Task,
                 vfs_lock(t) \/ vfs_lock_resume(t) \/ vfs_task_block(t)
                   \/ vfs_task_wakeup(t) \/ task_kill(t)
          PROVE  OwnerIsWoken'
      BY <2>3, SMTT(30) DEF vfs_lock, vfs_lock_resume, vfs_task_block, vfs_task_wakeup, task_kill,
                  OwnerIsWoken, GateInv, TypeOK, MutualExclusion
    <2>4. QED BY <2>1, <2>2, <2>3 DEF Next
  <1>3. QED BY <1>1, <1>2, GateInvariant, PTL DEF Spec

-----------------------------------------------------------------------------
\* Every gate step is a step of the abstract first-come first-served line.
LEMMA LineStep == GateInv /\ [Next]_vars => [Abstract!Next]_Line
  <1> SUFFICES ASSUME GateInv, [Next]_vars
               PROVE  Abstract!Next \/ Line' = Line
    OBVIOUS
  <1> USE NoTaskAssumption
  <1>1. CASE UNCHANGED vars
    BY <1>1 DEF vars, Line
  <1>2. ASSUME NEW t \in Task, vfs_lock(t) PROVE Abstract!Enter(t)
    <2>1. queue \in Seq(Task) /\ pc[t] = "out" /\ owner # t
      BY <1>2 DEF vfs_lock, GateInv, TypeOK
    <2>2. CASE owner = NoTask
      <3>1. queue = <<>> /\ queue' = queue /\ owner' = t
        BY <1>2, <2>2 DEF vfs_lock, GateInv, NoneQueuedBehindAFreeGate
      <3>2. Line = <<>> /\ Line' = <<t>> \o <<>>
        BY <2>2, <3>1 DEF Line
      <3>3. Line' = Append(Line, t)
        BY <3>2, SMTT(30)
      <3>4. QED BY <3>2, <3>3, SMTT(30) DEF Abstract!Enter, Abstract!Waiting
    <2>3. CASE owner # NoTask
      <3>1. owner' = owner /\ queue' = Append(queue, t) /\ owner \in Task
        BY <1>2, <2>3 DEF vfs_lock, GateInv, TypeOK
      <3>2. \A i \in DOMAIN queue : queue[i] # t
        BY <2>1 DEF GateInv, QueueNodesAreLive
      <3>3. Line = <<owner>> \o queue /\ Line' = <<owner>> \o Append(queue, t)
        BY <2>3, <3>1 DEF Line
      <3>4. Line' = Append(Line, t)
        BY <2>1, <3>1, <3>3, SMTT(30)
      <3>5. \A i \in DOMAIN Line : Line[i] # t
        BY <2>1, <3>1, <3>2, <3>3, SMTT(30)
      <3>6. QED BY <3>4, <3>5 DEF Abstract!Enter, Abstract!Waiting
    <2>4. QED BY <2>2, <2>3
  <1>3. ASSUME NEW t \in Task, vfs_unlock(t) PROVE Abstract!Leave
    <2>1. queue \in Seq(Task) /\ owner = t
      BY <1>3 DEF vfs_unlock, GateInv, TypeOK
    <2>2. Line = <<t>> \o queue
      BY <2>1 DEF Line
    <2>3. Line' = queue
      <3>1. CASE queue = <<>>
        BY <1>3, <3>1 DEF vfs_unlock, Line
      <3>2. CASE queue # <<>>
        <4>1. Head(queue) \in Task /\ owner' = Head(queue) /\ queue' = Tail(queue)
          BY <1>3, <2>1, <3>2, TailAt DEF vfs_unlock
        <4>2. Line' = <<Head(queue)>> \o Tail(queue)
          BY <4>1 DEF Line
        <4>3. QED BY <2>1, <3>2, <4>2, SMTT(30)
      <3>3. QED BY <3>1, <3>2
    <2>4. QED BY <2>1, <2>2, <2>3, SMTT(30) DEF Abstract!Leave
  <1>4. ASSUME NEW t \in Task,
               vfs_lock_resume(t) \/ vfs_task_block(t) \/ vfs_task_wakeup(t) \/ task_kill(t)
        PROVE  Line' = Line
    BY <1>4 DEF vfs_lock_resume, vfs_task_block, vfs_task_wakeup, task_kill, Line
  <1>5. QED BY <1>1, <1>2, <1>3, <1>4 DEF Next, Abstract!Next

\* The gate implements the abstract lock: no caller ever overtakes another,
\* because vfs_unlock hands the gate over instead of freeing it.
THEOREM GateIsFifo == Spec => ImplementsFifoLock
  <1>1. Init => Abstract!Init
    BY DEF Init, Line, Abstract!Init
  <1>2. GateInv /\ [Next]_vars => [Abstract!Next]_Line
    BY LineStep
  <1>3. QED
    BY <1>1, <1>2, GateInvariant, PTL DEF Spec, ImplementsFifoLock, Abstract!Spec

-----------------------------------------------------------------------------
\* The futex mutex.

\* A word that is 1 has its holder: the exchange that found 0.
WordHeld ==
  \A m \in Mutexes : word[m] = 1 => \E t \in Threads : at[t] = "inside" /\ want[t] = m

\* A blocked thread is filed under the page of the mutex it wants.
BlockedOnPage ==
  \A t \in Threads : at[t] = "blocked" => futex_addr[t] = PageOf[want[t]]

FutexInv == /\ FutexTypeOK /\ WordHeld /\ MutexExcludes
            /\ BlockedOnPage /\ NoStrandedWaiter

LEMMA InitFutex == FutexInit => FutexInv
  <1> SUFFICES ASSUME FutexInit PROVE FutexInv
    OBVIOUS
  <1>1. (CHOOSE m \in Mutexes : TRUE) \in Mutexes
    BY FutexAssumption
  <1>2. QED
    BY <1>1, SMTT(30) DEF FutexInit, FutexInv, FutexTypeOK, WordHeld, MutexExcludes,
                BlockedOnPage, NoStrandedWaiter

\* A call for m changes want only of a thread that attends to nothing.
LEMMA MutexCallStep ==
  ASSUME FutexInv, NEW t \in Threads, NEW m \in Mutexes, lock_call(t, m)
  PROVE  FutexInv'
  <1> USE DEF FutexInv, lock_call
  <1>1. FutexTypeOK' /\ WordHeld' /\ MutexExcludes' /\ BlockedOnPage'
    BY SMTT(30) DEF FutexTypeOK, WordHeld, MutexExcludes, BlockedOnPage
  <1>2. \A n \in Mutexes : Attended(n) => Attended(n)'
    BY DEF Attended, FutexTypeOK
  <1>3. NoStrandedWaiter'
    BY <1>2 DEF NoStrandedWaiter, AloneOnPage, FutexTypeOK
  <1>4. QED
    BY <1>1, <1>3

LEMMA MutexLockStep ==
  ASSUME FutexInv, NEW t \in Threads, pthread_mutex_lock(t)
  PROVE  FutexInv'
  <1> USE DEF FutexInv, pthread_mutex_lock
  <1>1. FutexTypeOK' /\ BlockedOnPage'
    BY DEF FutexTypeOK, BlockedOnPage
  <1>2. WordHeld' /\ MutexExcludes'
    <2>1. CASE word[want[t]] = 0
      <3>1. \A s \in Threads : at[s] = "inside" => want[s] # want[t]
        BY <2>1, SMTT(30) DEF MutexExcludes
      <3>2. QED
        BY <2>1, <3>1, SMTT(30) DEF FutexTypeOK, WordHeld, MutexExcludes
    <2>2. CASE word[want[t]] # 0
      <3>1. word[want[t]] = 1 /\ word' = word
        BY <2>2 DEF FutexTypeOK
      <3>2. QED
        BY <2>2, <3>1, SMTT(30) DEF FutexTypeOK, WordHeld, MutexExcludes
    <2>3. QED
      BY <2>1, <2>2
  <1>3. \A n \in Mutexes : Attended(n) => Attended(n)'
    BY DEF Attended, FutexTypeOK
  <1>4. NoStrandedWaiter'
    BY <1>3 DEF NoStrandedWaiter, AloneOnPage, FutexTypeOK
  <1>5. QED
    BY <1>1, <1>2, <1>4

\* A thread blocks only while another is inside, who will call futex_wake.
LEMMA MutexWaitStep ==
  ASSUME FutexInv, NEW t \in Threads, sys_futex_wait(t)
  PROVE  FutexInv'
  <1> USE DEF FutexInv, sys_futex_wait
  <1>1. CASE word[want[t]] # 1
    <2>1. FutexTypeOK' /\ WordHeld' /\ MutexExcludes' /\ BlockedOnPage'
      BY <1>1, SMTT(30) DEF FutexTypeOK, WordHeld, MutexExcludes, BlockedOnPage
    <2>2. \A n \in Mutexes : Attended(n) => Attended(n)'
      BY <1>1 DEF Attended, FutexTypeOK
    <2>3. NoStrandedWaiter'
      BY <1>1, <2>2 DEF NoStrandedWaiter, AloneOnPage, FutexTypeOK
    <2>4. QED
      BY <2>1, <2>3
  <1>2. CASE word[want[t]] = 1
    <2>1. PICK h \in Threads : at[h] = "inside" /\ want[h] = want[t]
      BY <1>2 DEF WordHeld, FutexTypeOK
    <2>2. FutexTypeOK' /\ WordHeld' /\ MutexExcludes' /\ BlockedOnPage'
      BY <1>2, SMTT(30) DEF FutexTypeOK, WordHeld, MutexExcludes, BlockedOnPage, Pages
    <2>3. Attended(want[t])'
      BY <1>2, <2>1 DEF Attended, FutexTypeOK
    <2>4. \A n \in Mutexes : n # want[t] /\ Attended(n) => Attended(n)'
      BY <1>2 DEF Attended, FutexTypeOK
    <2>5. NoStrandedWaiter'
      BY <1>2, <2>3, <2>4 DEF NoStrandedWaiter, AloneOnPage, FutexTypeOK
    <2>6. QED
      BY <2>2, <2>5
  <1>3. QED
    BY <1>1, <1>2

LEMMA MutexUnlockStep ==
  ASSUME FutexInv, NEW t \in Threads, pthread_mutex_unlock(t)
  PROVE  FutexInv'
  <1> USE DEF FutexInv, pthread_mutex_unlock
  <1>1. FutexTypeOK' /\ BlockedOnPage'
    BY DEF FutexTypeOK, BlockedOnPage
  <1>2. WordHeld' /\ MutexExcludes'
    BY SMTT(30) DEF FutexTypeOK, WordHeld, MutexExcludes
  <1>3. \A n \in Mutexes : Attended(n) => Attended(n)'
    BY DEF Attended, FutexTypeOK
  <1>4. NoStrandedWaiter'
    BY <1>3 DEF NoStrandedWaiter, AloneOnPage, FutexTypeOK
  <1>5. QED
    BY <1>1, <1>2, <1>4

\* A wake for a mutex alone on its page reaches a waiter of that mutex, who then
\* attends to it, or there was none.
LEMMA MutexWakeStep ==
  ASSUME FutexInv, NEW u \in Threads, sys_futex_wake(u)
  PROVE  FutexInv'
  <1> USE DEF FutexInv
  <1> DEFINE page == PageOf[want[u]]
  <1>1. at[u] = "wake" /\ word' = word /\ want' = want /\ task_wake_futex(u, page)
    BY DEF sys_futex_wake
  <1>2. CASE Waiters(page) = {}
    <2>1. at' = [at EXCEPT ![u] = "out"] /\ futex_addr' = futex_addr
      BY <1>1, <1>2 DEF task_wake_futex
    <2>2. FutexTypeOK' /\ WordHeld' /\ MutexExcludes' /\ BlockedOnPage'
      BY <1>1, <2>1, SMTT(30) DEF FutexTypeOK, WordHeld, MutexExcludes, BlockedOnPage
    <2>3. \A t \in Threads : at[t] = "blocked" => want[t] # want[u]
      BY <1>2 DEF Waiters, BlockedOnPage
    <2>4. \A n \in Mutexes : n # want[u] /\ Attended(n) => Attended(n)'
      BY <1>1, <2>1 DEF Attended, FutexTypeOK
    <2>5. NoStrandedWaiter'
      BY <1>1, <2>1, <2>3, <2>4 DEF NoStrandedWaiter, AloneOnPage, FutexTypeOK
    <2>6. QED
      BY <2>2, <2>5
  <1>3. CASE Waiters(page) # {}
    <2>1. PICK t \in Waiters(page) :
             /\ at' = [at EXCEPT ![u] = "out", ![t] = "exchange"]
             /\ futex_addr' = [futex_addr EXCEPT ![t] = NoPage]
      BY <1>1, <1>3 DEF task_wake_futex
    <2>2. t \in Threads /\ at[t] = "blocked" /\ PageOf[want[t]] = page /\ t # u
      BY <1>1, <2>1 DEF Waiters, BlockedOnPage
    <2>3. FutexTypeOK' /\ WordHeld' /\ MutexExcludes' /\ BlockedOnPage'
      BY <1>1, <2>1, <2>2, SMTT(30) DEF FutexTypeOK, WordHeld, MutexExcludes, BlockedOnPage
    <2>4. AloneOnPage(want[u]) => Attended(want[u])'
      BY <1>1, <2>1, <2>2 DEF AloneOnPage, Attended, FutexTypeOK
    <2>5. \A n \in Mutexes : n # want[u] /\ Attended(n) => Attended(n)'
      BY <1>1, <2>1, <2>2 DEF Attended, FutexTypeOK
    <2>6. NoStrandedWaiter'
      BY <1>1, <2>1, <2>2, <2>4, <2>5 DEF NoStrandedWaiter, AloneOnPage, FutexTypeOK
    <2>7. QED
      BY <2>3, <2>6
  <1>4. QED
    BY <1>2, <1>3

LEMMA FutexStep == FutexInv /\ [FutexNext]_futexVars => FutexInv'
  <1> SUFFICES ASSUME FutexInv, [FutexNext]_futexVars PROVE FutexInv'
    OBVIOUS
  <1>1. ASSUME NEW t \in Threads, NEW m \in Mutexes, lock_call(t, m) PROVE FutexInv'
    BY <1>1, MutexCallStep
  <1>2. ASSUME NEW t \in Threads, MutexStep(t) PROVE FutexInv'
    BY <1>2, MutexLockStep, MutexWaitStep, MutexUnlockStep, MutexWakeStep DEF MutexStep
  <1>3. CASE UNCHANGED futexVars
    BY <1>3, SMTT(30) DEF futexVars, FutexInv, FutexTypeOK, WordHeld, MutexExcludes,
                BlockedOnPage, NoStrandedWaiter, AloneOnPage, Attended
  <1>4. QED
    BY <1>1, <1>2, <1>3 DEF FutexNext

\* At most one thread is between pthread_mutex_lock and pthread_mutex_unlock of
\* a mutex, for any number of threads and mutexes.
THEOREM MutexesExclude == FutexSpec => []MutexExcludes
  <1>1. FutexInv => MutexExcludes
    BY DEF FutexInv
  <1>2. QED
    BY <1>1, InitFutex, FutexStep, PTL DEF FutexSpec

\* The page-keyed futex strands no waiter of a mutex that has its page to itself,
\* however many other mutexes share the other pages.
THEOREM WaitersAttended == FutexSpec => []NoStrandedWaiter
  <1>1. FutexInv => NoStrandedWaiter
    BY DEF FutexInv
  <1>2. QED
    BY <1>1, InitFutex, FutexStep, PTL DEF FutexSpec

\* The mutex of libgaia excludes and loses no wakeup, for any threads, mutexes
\* and pages.
THEOREM MutexesSafe == FutexSpec => []MutexSafe
  <1>1. FutexInv => MutexSafe
    BY DEF FutexInv, MutexSafe
  <1>2. QED
    BY <1>1, InitFutex, FutexStep, PTL DEF FutexSpec

-----------------------------------------------------------------------------
\* Signals.

Modes == {"loading", "user", "ready", "parked", "blocked", "vfs", "dead"}

ActionType == [handler : {"DFL", "IGN", "H"}, mask : SUBSET Sigs,
               nodefer : BOOLEAN, resethand : BOOLEAN, restorer : BOOLEAN]
FrameType == [sig : Catchable, nodefer : BOOLEAN, sigmask : SUBSET Sigs]

\* A handler's signal stays blocked while it runs: in the mask in force, and in
\* the masks saved by the handlers that interrupted it.
Chain(fr, blk) ==
  \A i \in 1 .. Len(fr) : ~ fr[i].nodefer =>
      /\ fr[i].sig \in blk
      /\ \A j \in i + 1 .. Len(fr) : fr[i].sig \in fr[j].sigmask

NotReentered(fr) ==
  \A i, j \in 1 .. Len(fr) : i < j /\ ~ fr[i].nodefer => fr[i].sig # fr[j].sig

\* What holds of the actions, the two sets and the frames at every delivery.
Good(acts, pend, blk, fr) ==
  /\ acts \in [Sigs -> ActionType]
  /\ pend \subseteq Catchable /\ blk \subseteq Catchable
  /\ fr \in Seq(FrameType) /\ Len(fr) <= MaxDepth
  /\ Chain(fr, blk) /\ NotReentered(fr)

SigInv == /\ mode \in Modes
          /\ Good(signal_actions, sig_pending, sig_blocked, frames)
          /\ ParkedHasNoSignal

LEMMA SigConstants ==
  /\ Sigs \subseteq Nat /\ SIGKILL \in Sigs /\ SIGCHLD \in Catchable /\ MaxDepth \in Nat
  /\ SIG_DFL \in ActionType /\ Actions \subseteq ActionType
  BY SigAssumption DEF Catchable, ActionType

LEMMA LowestSignal ==
  ASSUME NEW S \in SUBSET Nat, S # {}
  PROVE  Min(S) \in S
  <1> DEFINE less == {ss \in Nat \X Nat : ss[1] < ss[2]}
  <1>1. IsWellFoundedOn(less, Nat)
    BY NatLessThanWellFounded DEF OpToRel
  <1> HIDE DEF less
  <1>2. PICK x \in S : \A y \in S : <<y, x>> \notin less
    BY <1>1, WFMin
  <1>3. \A y \in Nat : y < x => <<y, x>> \in less
    BY DEF less
  <1>4. \A y \in S : ~ (y < x)
    BY <1>2, <1>3
  <1>5. \A y \in S : x <= y
    BY <1>4, SMTT(30)
  <1>6. QED
    BY <1>5 DEF Min

LEMMA NoFrames == Chain(<<>>, {}) /\ \A blk : Chain(<<>>, blk) /\ NotReentered(<<>>)
  BY SMTT(30) DEF Chain, NotReentered

\* Entering a handler of a signal that is not blocked.
LEMMA PushFrame ==
  ASSUME NEW fr \in Seq(FrameType), NEW blk \in SUBSET Catchable,
         NEW more \in SUBSET Sigs, NEW s \in Catchable, NEW nodefer \in BOOLEAN,
         s \notin blk, Chain(fr, blk), NotReentered(fr)
  PROVE  LET new == Append(fr, [sig |-> s, nodefer |-> nodefer, sigmask |-> blk])
             now == (blk \cup more \cup (IF nodefer THEN {} ELSE {s})) \ {SIGKILL}
         IN  /\ new \in Seq(FrameType) /\ Len(new) = Len(fr) + 1
             /\ now \subseteq Catchable
             /\ Chain(new, now) /\ NotReentered(new)
  <1> DEFINE f == [sig |-> s, nodefer |-> nodefer, sigmask |-> blk]
             new == Append(fr, f)
             now == (blk \cup more \cup (IF nodefer THEN {} ELSE {s})) \ {SIGKILL}
             n == Len(fr)
  <1>1. f \in FrameType /\ f.sig = s /\ f.nodefer = nodefer /\ f.sigmask = blk
    BY DEF FrameType, Catchable
  <1>2. /\ blk \subseteq now /\ now \subseteq Catchable
        /\ ~ nodefer => s \in now
    BY DEF Catchable
  <1> HIDE DEF f, now
  <1>3. /\ n \in Nat /\ Len(new) = n + 1 /\ new \in Seq(FrameType)
        /\ new[n + 1] = f /\ \A i \in 1 .. n : new[i] = fr[i]
    BY <1>1, SMTT(30)
  <1> HIDE DEF new
  <1>4. \A i \in 1 .. n + 1 : i \in 1 .. n \/ i = n + 1
    BY <1>3, SMTT(30)
  <1>5. Chain(new, now)
    <2> SUFFICES ASSUME NEW i \in 1 .. n + 1, ~ new[i].nodefer
                 PROVE  /\ new[i].sig \in now
                        /\ \A j \in i + 1 .. n + 1 : new[i].sig \in new[j].sigmask
      BY <1>3 DEF Chain
    <2>1. CASE i = n + 1
      <3>1. i + 1 .. n + 1 = {}
        BY <2>1, <1>3, SMTT(30)
      <3>2. QED
        BY <2>1, <3>1, <1>1, <1>2, <1>3
    <2>2. CASE i \in 1 .. n
      <3>1. new[i] = fr[i] /\ fr[i].sig \in blk
        BY <2>2, <1>3 DEF Chain
      <3>2. ASSUME NEW j \in i + 1 .. n + 1 PROVE new[i].sig \in new[j].sigmask
        <4>1. j \in i + 1 .. n \/ j = n + 1
          BY <1>3, SMTT(30)
        <4>2. CASE j = n + 1
          BY <4>2, <3>1, <1>1, <1>3
        <4>3. CASE j \in i + 1 .. n
          <5>1. j \in 1 .. n
            BY <4>3, <2>2, <1>3, SMTT(30)
          <5>2. fr[i].sig \in fr[j].sigmask
            BY <4>3, <2>2, <3>1 DEF Chain
          <5>3. QED
            BY <5>1, <5>2, <3>1, <1>3
        <4>4. QED
          BY <4>1, <4>2, <4>3
      <3>3. QED
        BY <3>1, <3>2, <1>2
    <2>3. QED
      BY <2>1, <2>2, <1>4
  <1>6. NotReentered(new)
    <2> SUFFICES ASSUME NEW i \in 1 .. n + 1, NEW j \in 1 .. n + 1, i < j, ~ new[i].nodefer
                 PROVE  new[i].sig # new[j].sig
      BY <1>3 DEF NotReentered
    <2>1. i \in 1 .. n
      BY <1>3, SMTT(30)
    <2>2. new[i] = fr[i] /\ fr[i].sig \in blk
      BY <2>1, <1>3 DEF Chain
    <2>3. CASE j = n + 1
      BY <2>2, <2>3, <1>1, <1>3
    <2>4. CASE j \in 1 .. n
      BY <2>1, <2>2, <2>4, <1>3 DEF NotReentered
    <2>5. QED
      BY <2>3, <2>4, <1>4
  <1>7. QED
    BY <1>2, <1>3, <1>5, <1>6 DEF new, now, f

\* Returning from a handler to the mask it saved.
LEMMA PopFrame ==
  ASSUME NEW fr \in Seq(FrameType), fr # <<>>, NEW blk, Chain(fr, blk), NotReentered(fr)
  PROVE  LET old == SubSeq(fr, 1, Len(fr) - 1)
             back == fr[Len(fr)].sigmask \ {SIGKILL}
         IN  /\ old \in Seq(FrameType) /\ Len(old) = Len(fr) - 1
             /\ back \subseteq Catchable
             /\ Chain(old, back) /\ NotReentered(old)
  <1> DEFINE n == Len(fr)
             old == SubSeq(fr, 1, n - 1)
             back == fr[n].sigmask \ {SIGKILL}
  <1>1. n \in Nat /\ n > 0 /\ n \in 1 .. n /\ \A i \in 1 .. n : fr[i] \in FrameType
    BY SMTT(30)
  <1>2. /\ Len(old) = n - 1 /\ old \in Seq(FrameType)
        /\ \A i \in 1 .. n - 1 : old[i] = fr[i]
    <2>1. 1 \in Int /\ n - 1 \in Int /\ \A i \in 1 .. n - 1 : fr[i] \in FrameType
      BY <1>1, SMTT(30)
    <2>2. /\ old \in Seq(FrameType)
          /\ Len(old) = IF 1 <= n - 1 THEN (n - 1) - 1 + 1 ELSE 0
          /\ \A i \in 1 .. (n - 1) - 1 + 1 : old[i] = fr[1 + i - 1]
      BY <2>1, SubSeqProperties, SMTT(30)
    <2> HIDE DEF old
    <2>3. ASSUME NEW i \in 1 .. n - 1
          PROVE  i \in 1 .. (n - 1) - 1 + 1 /\ 1 + i - 1 = i
      BY <1>1, SMTT(30)
    <2>4. Len(old) = n - 1
      <3>1. n \in Nat /\ n > 0
        BY <1>1
      <3>2. Len(old) = IF 1 <= n - 1 THEN (n - 1) - 1 + 1 ELSE 0
        BY <2>2
      <3> HIDE DEF n
      <3>3. QED
        BY ONLY <3>1, <3>2
    <2>5. ASSUME NEW i \in 1 .. n - 1 PROVE old[i] = fr[i]
      BY <2>2, <2>3
    <2>6. QED
      BY <2>2, <2>4, <2>5
  <1>3. back \subseteq Catchable
    <2>1. fr[n].sigmask \subseteq Sigs
      BY <1>1 DEF FrameType
    <2>2. QED
      BY <2>1 DEF Catchable
  <1> HIDE DEF old
  <1>4. \A i \in 1 .. n - 1 : i \in 1 .. n /\ n \in i + 1 .. n /\ fr[i].sig \in Catchable
    <2>1. \A i \in 1 .. n - 1 : i \in 1 .. n /\ n \in i + 1 .. n
      BY <1>1, SMTT(30)
    <2>2. \A i \in 1 .. n : fr[i].sig \in Catchable
      BY <1>1 DEF FrameType
    <2>3. QED
      BY <2>1, <2>2
  <1>5. Chain(old, back)
    <2> SUFFICES ASSUME NEW i \in 1 .. n - 1, ~ old[i].nodefer
                 PROVE  /\ old[i].sig \in back
                        /\ \A j \in i + 1 .. n - 1 : old[i].sig \in old[j].sigmask
      BY <1>2 DEF Chain
    <2>1. old[i] = fr[i] /\ \A j \in i + 1 .. n : fr[i].sig \in fr[j].sigmask
      BY <1>2, <1>4 DEF Chain
    <2>2. old[i].sig \in back
      BY <2>1, <1>4 DEF Catchable
    <2>3. \A j \in i + 1 .. n - 1 : j \in i + 1 .. n /\ old[j] = fr[j]
      BY <1>1, <1>2, SMTT(30)
    <2>4. QED
      BY <2>1, <2>2, <2>3
  <1>6. NotReentered(old)
    BY <1>2, <1>4 DEF NotReentered
  <1>7. QED
    BY <1>2, <1>3, <1>5, <1>6 DEF old

-----------------------------------------------------------------------------
LEMMA InitSignals == SigInit => SigInv
  BY SigConstants, NoFrames, SMTT(30)
     DEF SigInit, SigInv, Modes, Good, ParkedHasNoSignal, Catchable

\* Dying changes nothing but the mode.
LEMMA TerminateStep ==
  ASSUME SigInv, terminate
  PROVE  SigInv'
  BY DEF SigInv, Modes, Good, ParkedHasNoSignal, terminate

\* Whatever goes back to ring 3 leaves with what it came with, or one frame more.
LEMMA DeliverStep ==
  ASSUME SigInv, NEW acts, NEW pend, NEW blk, NEW fr,
         Good(acts, pend, blk, fr), deliver(acts, pend, blk, fr)
  PROVE  SigInv'
  <1> DEFINE ready == pend \ blk
             s == Min(ready)
             act == acts[s]
             now == (blk \cup act.mask \cup (IF act.nodefer THEN {} ELSE {s})) \ {SIGKILL}
             new == Append(fr, [sig |-> s, nodefer |-> act.nodefer, sigmask |-> blk])
             reset == IF act.resethand THEN [acts EXCEPT ![s].handler = "DFL"] ELSE acts
  <1>1. CASE terminate
    BY <1>1, TerminateStep
  <1>2. CASE /\ mode' = "user" /\ signal_actions' = acts
             /\ sig_pending' = (IF ready = {} THEN pend ELSE pend \ {s})
             /\ sig_blocked' = blk /\ frames' = fr
    <2>1. sig_pending' \subseteq Catchable
      BY <1>2 DEF Good
    <2>2. Good(signal_actions', sig_pending', sig_blocked', frames')
      BY <1>2, <2>1 DEF Good
    <2>3. QED
      BY <1>2, <2>2 DEF SigInv, Modes, ParkedHasNoSignal
  <1>3. CASE /\ ready # {} /\ Len(fr) # MaxDepth
             /\ mode' = "user" /\ signal_actions' = reset
             /\ sig_pending' = pend \ {s} /\ sig_blocked' = now /\ frames' = new
    <2>1. s \in ready
      <3>1. ready \in SUBSET Nat
        BY SigConstants DEF Good, Catchable
      <3>2. QED
        BY <1>3, <3>1, LowestSignal
    <2>2. s \in Catchable /\ s \notin blk /\ s \in Sigs
      BY <2>1 DEF Good, Catchable
    <2> HIDE DEF s, ready
    <2>3. act \in ActionType
      BY <2>2 DEF Good
    <2>4. act.mask \in SUBSET Sigs /\ act.nodefer \in BOOLEAN
      BY <2>3 DEF ActionType
    <2>5. /\ new \in Seq(FrameType) /\ Len(new) = Len(fr) + 1
          /\ now \subseteq Catchable
          /\ Chain(new, now) /\ NotReentered(new)
      <3>1. /\ fr \in Seq(FrameType) /\ blk \in SUBSET Catchable
            /\ Chain(fr, blk) /\ NotReentered(fr)
        BY DEF Good
      <3> HIDE DEF act
      <3>2. QED
        BY <2>2, <2>4, <3>1, PushFrame
    <2>6. reset \in [Sigs -> ActionType]
      <3>1. [act EXCEPT !.handler = "DFL"] \in ActionType
        BY <2>3 DEF ActionType
      <3>2. acts \in [Sigs -> ActionType]
        BY DEF Good
      <3>3. QED
        BY <2>2, <3>1, <3>2
    <2> HIDE DEF new, now, reset
    <2>7. Len(new) <= MaxDepth
      <3>1. Len(fr) \in Nat /\ Len(fr) <= MaxDepth
        BY SMTT(30) DEF Good
      <3>2. QED
        BY <1>3, <2>5, <3>1, SigConstants, SMTT(30)
    <2>8. pend \ {s} \subseteq Catchable
      BY DEF Good
    <2>9. Good(signal_actions', sig_pending', sig_blocked', frames')
      BY <1>3, <2>5, <2>6, <2>7, <2>8 DEF Good
    <2>10. QED
      BY <1>3, <2>9 DEF SigInv, Modes, ParkedHasNoSignal
  <1>4. QED
    BY <1>1, <1>2, <1>3 DEF deliver

-----------------------------------------------------------------------------
LEMMA DeliverAsIs ==
  ASSUME SigInv, deliver(signal_actions, sig_pending, sig_blocked, frames)
  PROVE  SigInv'
  <1>1. Good(signal_actions, sig_pending, sig_blocked, frames)
    BY DEF SigInv
  <1>2. QED
    BY <1>1, DeliverStep

LEMMA SigactionStep ==
  ASSUME SigInv, NEW s \in Sigs, NEW act \in Actions, sys_rt_sigaction(s, act)
  PROVE  SigInv'
  <1> DEFINE acts == [signal_actions EXCEPT ![s] = act]
  <1>1. act \in ActionType
    BY SigConstants
  <1>2. Good(acts, sig_pending, sig_blocked, frames)
    BY <1>1 DEF SigInv, Good
  <1>3. deliver(acts, sig_pending, sig_blocked, frames)
    BY DEF sys_rt_sigaction
  <1> HIDE DEF acts
  <1>4. QED
    BY <1>2, <1>3, DeliverStep

\* Inside a handler the mask only grows, and SIGKILL runs no handler.
LEMMA SigprocmaskStep ==
  ASSUME SigInv, NEW set \in SUBSET Sigs, signal_sigprocmask(set)
  PROVE  SigInv'
  <1> DEFINE blk == set \ {SIGKILL}
  <1>1. Chain(frames, blk)
    <2>1. CASE frames = <<>>
      BY <2>1, NoFrames
    <2>2. CASE frames # <<>>
      <3>1. sig_blocked \subseteq blk
        BY <2>2 DEF signal_sigprocmask, SigInv, Good, Catchable
      <3>2. Chain(frames, sig_blocked)
        BY DEF SigInv, Good
      <3> HIDE DEF blk
      <3>3. QED
        BY <3>1, <3>2 DEF Chain
    <2>3. QED
      BY <2>1, <2>2
  <1>2. blk \subseteq Catchable
    BY DEF Catchable
  <1>3. deliver(signal_actions, sig_pending, blk, frames)
    BY DEF signal_sigprocmask
  <1> HIDE DEF blk
  <1>4. Good(signal_actions, sig_pending, blk, frames)
    BY <1>1, <1>2 DEF SigInv, Good
  <1>5. QED
    BY <1>3, <1>4, DeliverStep

LEMMA SigreturnStep ==
  ASSUME SigInv, signal_sigreturn
  PROVE  SigInv'
  <1> DEFINE old == SubSeq(frames, 1, Len(frames) - 1)
             back == frames[Len(frames)].sigmask \ {SIGKILL}
  <1>1. /\ frames \in Seq(FrameType) /\ frames # <<>>
        /\ Chain(frames, sig_blocked) /\ NotReentered(frames)
    BY DEF signal_sigreturn, SigInv, Good
  <1>2. /\ old \in Seq(FrameType) /\ Len(old) = Len(frames) - 1
        /\ back \subseteq Catchable
        /\ Chain(old, back) /\ NotReentered(old)
    BY <1>1, PopFrame
  <1>3. deliver(signal_actions, sig_pending, back, old)
    BY DEF signal_sigreturn
  <1> HIDE DEF old, back
  <1>4. Len(old) <= MaxDepth
    <2>1. Len(frames) \in Nat /\ Len(frames) <= MaxDepth
      BY <1>1, SMTT(30) DEF SigInv, Good
    <2>2. QED
      BY <1>2, <2>1, SigConstants, SMTT(30)
  <1>5. Good(signal_actions, sig_pending, back, old)
    BY <1>2, <1>4 DEF SigInv, Good
  <1>6. QED
    BY <1>3, <1>5, DeliverStep

LEMMA ExecveStep ==
  ASSUME SigInv, sys_execve
  PROVE  SigInv'
  <1> DEFINE acts == [s \in Sigs |-> IF signal_actions[s].handler = "IGN"
                                     THEN signal_actions[s] ELSE SIG_DFL]
  <1>1. acts \in [Sigs -> ActionType]
    BY SigConstants DEF SigInv, Good
  <1>2. deliver(acts, sig_pending, sig_blocked, <<>>)
    BY DEF sys_execve
  <1> HIDE DEF acts
  <1>3. Chain(<<>>, sig_blocked) /\ NotReentered(<<>>)
    BY NoFrames
  <1>4. <<>> \in Seq(FrameType) /\ Len(<<>>) <= MaxDepth
    BY SigConstants, SMTT(30)
  <1>5. Good(acts, sig_pending, sig_blocked, <<>>)
    BY <1>1, <1>3, <1>4 DEF SigInv, Good
  <1>6. QED
    BY <1>2, <1>5, DeliverStep


LEMMA BlockUntilStep ==
  ASSUME SigInv, task_block_until
  PROVE  SigInv'
  <1>1. CASE task_signal_deliverable
    <2>1. deliver(signal_actions, sig_pending, sig_blocked, frames)
      BY <1>1 DEF task_block_until
    <2>2. QED
      BY <2>1, DeliverAsIs
  <1>2. CASE ~ task_signal_deliverable
    BY <1>2 DEF task_block_until, task_signal_deliverable, SigInv, Modes, Good,
                ParkedHasNoSignal
  <1>3. QED
    BY <1>1, <1>2

\* Blocking, waking and starting change the mode alone, and not to "parked".
LEMMA ModeStep ==
  ASSUME SigInv, task_block \/ task_wakeup \/ task_activate_reserved_user
  PROVE  SigInv'
  <1>1. /\ mode' \in Modes /\ mode' # "parked"
        /\ UNCHANGED <<signal_actions, sig_pending, sig_blocked, frames>>
    BY DEF task_block, task_wakeup, task_activate_reserved_user, Modes
  <1>2. QED
    BY <1>1 DEF SigInv, Good, ParkedHasNoSignal

\* A sleeper that can now be interrupted is woken in the same step.
LEMMA MakePendingStep ==
  ASSUME SigInv, NEW s \in Catchable, make_pending(s)
  PROVE  SigInv'
  <1>1. Good(signal_actions', sig_pending', sig_blocked', frames')
    BY DEF SigInv, Good, make_pending
  <1>2. mode' \in Modes /\ ParkedHasNoSignal'
    BY DEF SigInv, make_pending, Modes, ParkedHasNoSignal, task_signal_deliverable
  <1>3. QED
    BY <1>1, <1>2 DEF SigInv

LEMMA SendStep ==
  ASSUME SigInv, NEW s \in Sigs, signal_send(s)
  PROVE  SigInv'
  <1>1. CASE terminate
    BY <1>1, TerminateStep
  <1>2. CASE ~ Kills(s) /\ make_pending(s)
    <2>1. s \in Catchable
      BY <1>2 DEF Kills, Catchable
    <2>2. QED
      BY <1>2, <2>1, MakePendingStep
  <1>3. QED
    BY <1>1, <1>2 DEF signal_send

LEMMA RaiseStep ==
  ASSUME SigInv, NEW s \in Sigs, signal_raise(s)
  PROVE  SigInv'
  <1>1. CASE terminate
    BY <1>1, TerminateStep
  <1>2. CASE /\ ~ Kills(s)
             /\ deliver(signal_actions, sig_pending \cup {s}, sig_blocked, frames)
    <2>1. Good(signal_actions, sig_pending \cup {s}, sig_blocked, frames)
      BY <1>2 DEF Kills, Catchable, SigInv, Good
    <2>2. QED
      BY <1>2, <2>1, DeliverStep
  <1>3. QED
    BY <1>1, <1>2 DEF signal_raise

LEMMA SigStep == SigInv /\ [SigNext]_sigVars => SigInv'
  <1> SUFFICES ASSUME SigInv, [SigNext]_sigVars PROVE SigInv'
    OBVIOUS
  <1>1. CASE UNCHANGED sigVars
    BY <1>1 DEF sigVars, SigInv, Good, ParkedHasNoSignal, task_signal_deliverable
  <1>2. CASE signal_deliver_irq \/ signal_deliver_syscall
    BY <1>2, DeliverAsIs DEF signal_deliver_irq, signal_deliver_syscall
  <1>3. CASE \E s \in Sigs, act \in Actions : sys_rt_sigaction(s, act)
    BY <1>3, SigactionStep
  <1>4. CASE \E set \in SUBSET Sigs : signal_sigprocmask(set)
    BY <1>4, SigprocmaskStep
  <1>5. CASE signal_sigreturn
    BY <1>5, SigreturnStep
  <1>6. CASE sys_execve
    BY <1>6, ExecveStep
  <1>7. CASE task_block_until
    BY <1>7, BlockUntilStep
  <1>8. CASE task_block \/ task_wakeup \/ task_activate_reserved_user
    BY <1>8, ModeStep
  <1>9. CASE \E s \in Sigs : signal_send(s) \/ signal_raise(s)
    BY <1>9, SendStep, RaiseStep
  <1>10. CASE signal_child_exited
    BY <1>10, SigConstants, MakePendingStep DEF signal_child_exited
  <1>11. QED
    BY <1>1, <1>2, <1>3, <1>4, <1>5, <1>6, <1>7, <1>8, <1>9, <1>10 DEF SigNext

LEMMA SigInvariant == SigSpec => []SigInv
  BY InitSignals, SigStep, PTL DEF SigSpec

\* No task sleeps interruptibly in task_block_until with a deliverable signal,
\* however signal_send, sigprocmask and the sleep are ordered.
THEOREM ParkedWithoutSignal == SigSpec => []ParkedHasNoSignal
  <1>1. SigInv => ParkedHasNoSignal
    BY DEF SigInv
  <1>2. QED
    BY <1>1, SigInvariant, PTL

\* A handler installed without SA_NODEFER is never entered again before
\* signal_sigreturn took its frame off, through any nesting of handlers.
THEOREM NoReentry == SigSpec => []HandlerNotReentered
  <1>1. SigInv => HandlerNotReentered
    BY DEF SigInv, Good, NotReentered, HandlerNotReentered
  <1>2. QED
    BY <1>1, SigInvariant, PTL

-----------------------------------------------------------------------------
\* The ARP cache.

\* An entry in use is some host's, and a valid one has an address the host claimed.
EntriesClaimed ==
  \A i \in Entries : cache[i].state # "free" =>
      /\ cache[i].ip \in Hosts
      /\ cache[i].state = "valid" => cache[i].mac \in MacsOf[cache[i].ip]

ArpInv == /\ ArpTypeOK /\ EntriesClaimed /\ OneEntryPerHost
          /\ ParkedBehindOwnEntry /\ SentWhereClaimed

EntryType == [state : {"free", "pending", "valid"}, ip : Hosts \cup {NoHost},
              mac : Macs \cup {NoMac}, retries : Nat, left : Nat]
SlotType == [in_use : BOOLEAN, entry : Entries, to : Hosts \cup {NoHost}, age : Nat]

LEMMA ArpConstants ==
  /\ 0 \in Entries
  /\ FreeSlot \in SlotType /\ ~ FreeSlot.in_use
  /\ FreeEntry \in EntryType /\ FreeEntry.state = "free"
  BY ArpAssumption, SMTT(30) DEF Entries, FreeSlot, FreeEntry, EntryType, SlotType

\* What is made of a host's entry and slot has their type.
LEMMA MadeTypes ==
  ASSUME NEW h \in Hosts, NEW i \in Entries, NEW m \in MacsOf[h]
  PROVE  /\ Asked(h) \in EntryType /\ Learned(h, m) \in EntryType
         /\ Parked(i, h) \in SlotType
         /\ m \in Macs
  BY ArpAssumption DEF Asked, Learned, Parked, EntryType, SlotType, ARP_RETRY

LEMMA AskedType ==
  ASSUME NEW h \in Hosts, NEW i \in Entries
  PROVE  Asked(h) \in EntryType /\ Parked(i, h) \in SlotType
  BY DEF Asked, Parked, EntryType, SlotType, ARP_RETRY

\* Choosing an entry or a slot chooses one of them.
LEMMA AllocRange ==
  /\ \A c : arp_alloc_locked(c) \subseteq Entries
  /\ \A p : arp_pending_alloc_locked(p) \subseteq Slots
  BY DEF arp_alloc_locked, arp_pending_alloc_locked

\* Dropping the frames behind an entry leaves the others and none behind it.
LEMMA DropFacts ==
  ASSUME NEW p \in [Slots -> SlotType], NEW i \in Entries
  PROVE  LET q == arp_drop_pending_locked(p, i)
         IN  /\ q \in [Slots -> SlotType]
             /\ \A s \in Slots : q[s].in_use => q[s] = p[s] /\ p[s].entry # i
  BY ArpConstants DEF arp_drop_pending_locked

LEMMA InitArp == ArpInit => ArpInv
  BY ArpConstants, SMTT(30) DEF ArpInit, ArpInv, ArpTypeOK, EntriesClaimed, OneEntryPerHost,
     ParkedBehindOwnEntry, SentWhereClaimed, EntryType, SlotType

LEMMA ResolvedStep ==
  ASSUME ArpInv, NEW h \in Hosts, arp_send_resolved(h)
  PROVE  ArpInv'
  <1>1. PICK i \in Entries : /\ cache[i].state = "valid" /\ cache[i].ip = h
                             /\ sent' = {<<h, cache[i].mac>>}
    BY DEF arp_send_resolved, arp_find_locked
  <1>2. cache' = cache /\ pending' = pending
    BY DEF arp_send_resolved
  <1>3. cache[i].mac \in MacsOf[h] /\ cache[i].mac \in Macs
    BY <1>1, ArpAssumption DEF ArpInv, EntriesClaimed
  <1>4. ArpTypeOK' /\ SentWhereClaimed'
    BY <1>1, <1>2, <1>3, SMTT(30) DEF ArpInv, ArpTypeOK, SentWhereClaimed
  <1>5. QED
    BY <1>2, <1>4 DEF ArpInv, EntriesClaimed, OneEntryPerHost, ParkedBehindOwnEntry

LEMMA QueueStep ==
  ASSUME ArpInv, NEW h \in Hosts, arp_send_queue(h)
  PROVE  ArpInv'
  <1>1. PICK i \in Entries, s \in Slots :
          /\ cache[i].state # "valid" /\ cache[i].state # "free" /\ cache[i].ip = h
          /\ pending' = [pending EXCEPT ![s] = Parked(i, h)]
    BY AllocRange DEF arp_send_queue, arp_find_locked
  <1>2. cache' = cache /\ sent' = {}
    BY DEF arp_send_queue
  <1>3. ArpTypeOK' /\ SentWhereClaimed'
    BY <1>1, <1>2, AskedType DEF ArpInv, ArpTypeOK, SentWhereClaimed, SlotType
  <1>4. cache[i].state = "pending"
    BY <1>1 DEF ArpInv, ArpTypeOK
  <1>5. ParkedBehindOwnEntry'
    BY <1>1, <1>2, <1>4 DEF ArpInv, ArpTypeOK, ParkedBehindOwnEntry, Parked
  <1>6. QED
    BY <1>2, <1>3, <1>5 DEF ArpInv, EntriesClaimed, OneEntryPerHost

\* The entry that is taken over loses the frames parked behind its old host.
LEMMA AskStep ==
  ASSUME ArpInv, NEW h \in Hosts, arp_send_ask(h)
  PROVE  ArpInv'
  <1>1. PICK i \in Entries :
          /\ cache' = [cache EXCEPT ![i] = Asked(h)]
          /\ \E s \in Slots :
                pending' = [arp_drop_pending_locked(pending, i) EXCEPT ![s] = Parked(i, h)]
    BY AllocRange DEF arp_send_ask
  <1> DEFINE q == arp_drop_pending_locked(pending, i)
  <1>2. PICK s \in Slots : pending' = [q EXCEPT ![s] = Parked(i, h)]
    BY <1>1
  <1>3. sent' = {} /\ \A j \in Entries : cache[j].state # "free" => cache[j].ip # h
    BY DEF arp_send_ask, arp_find_locked
  <1>4. /\ q \in [Slots -> SlotType]
        /\ \A r \in Slots : q[r].in_use => q[r] = pending[r] /\ pending[r].entry # i
    BY DropFacts DEF ArpInv, ArpTypeOK, SlotType
  <1> HIDE DEF q
  <1>5. ArpTypeOK' /\ SentWhereClaimed'
    BY <1>1, <1>2, <1>3, <1>4, AskedType
       DEF ArpInv, ArpTypeOK, SentWhereClaimed, SlotType, EntryType
  <1>6. \A j \in Entries : cache'[j] = IF j = i THEN Asked(h) ELSE cache[j]
    BY <1>1 DEF ArpInv, ArpTypeOK
  <1>7. Asked(h).state = "pending" /\ Asked(h).ip = h
    BY DEF Asked
  <1>8. EntriesClaimed' /\ OneEntryPerHost'
    BY <1>3, <1>6, <1>7, SMTT(30) DEF ArpInv, EntriesClaimed, OneEntryPerHost
  <1>9. \A r \in Slots : pending'[r] = IF r = s THEN Parked(i, h) ELSE q[r]
    BY <1>2, <1>4
  <1>10. ParkedBehindOwnEntry'
    <2> SUFFICES ASSUME NEW r \in Slots, pending'[r].in_use
                 PROVE  /\ cache'[pending'[r].entry].state = "pending"
                        /\ cache'[pending'[r].entry].ip = pending'[r].to
      BY DEF ParkedBehindOwnEntry
    <2>1. CASE r = s
      BY <2>1, <1>6, <1>7, <1>9, SMTT(30) DEF Parked
    <2>2. CASE r # s
      <3>1. pending'[r] = pending[r] /\ pending[r].in_use /\ pending[r].entry # i
        BY <2>2, <1>4, <1>9
      <3>2. pending[r].entry \in Entries
        BY DEF ArpInv, ArpTypeOK
      <3>3. QED
        BY <3>1, <3>2, <1>6, SMTT(30) DEF ArpInv, ParkedBehindOwnEntry
    <2>3. QED
      BY <2>1, <2>2
  <1>11. QED
    BY <1>5, <1>8, <1>10 DEF ArpInv

\* Writing what was learned about h into its entry i keeps the invariant, when
\* the frames behind i have left their slots and those that were sent were for h.
LEMMA LearnInto ==
  ASSUME ArpInv, NEW h \in Hosts, NEW m \in MacsOf[h], NEW i \in Entries,
         \A j \in Entries : cache[j].state # "free" /\ cache[j].ip = h => j = i,
         cache' = [cache EXCEPT ![i] = Learned(h, m)],
         pending' \in [Slots -> SlotType],
         \A s \in Slots : pending'[s].in_use =>
             pending'[s] = pending[s] /\ pending[s].entry # i,
         \A x \in sent' : x = <<h, m>>
  PROVE  ArpInv'
  <1>1. m \in Macs
    BY MadeTypes
  <1>2. sent' \in SUBSET (Hosts \X Macs) /\ SentWhereClaimed'
    BY <1>1, SMTT(30) DEF SentWhereClaimed
  <1>3. \A j \in Entries : cache'[j] = IF j = i THEN Learned(h, m) ELSE cache[j]
    BY DEF ArpInv, ArpTypeOK
  <1>4. Learned(h, m).state = "valid" /\ Learned(h, m).ip = h /\ Learned(h, m).mac = m
    BY DEF Learned
  <1>5. ArpTypeOK'
    BY <1>2, MadeTypes DEF ArpInv, ArpTypeOK, SlotType, EntryType
  <1>6. EntriesClaimed'
    BY <1>3, <1>4, SMTT(30) DEF ArpInv, EntriesClaimed
  <1>7. OneEntryPerHost'
    BY <1>3, <1>4, SMTT(30) DEF ArpInv, OneEntryPerHost
  <1>8. ParkedBehindOwnEntry'
    <2> SUFFICES ASSUME NEW r \in Slots, pending'[r].in_use
                 PROVE  /\ cache'[pending'[r].entry].state = "pending"
                        /\ cache'[pending'[r].entry].ip = pending'[r].to
      BY DEF ParkedBehindOwnEntry
    <2>1. pending'[r] = pending[r] /\ pending[r].in_use /\ pending[r].entry # i
      OBVIOUS
    <2>2. pending[r].entry \in Entries
      BY DEF ArpInv, ArpTypeOK
    <2>3. QED
      BY <2>1, <2>2, <1>3, SMTT(30) DEF ArpInv, ParkedBehindOwnEntry
  <1>9. QED
    BY <1>2, <1>5, <1>6, <1>7, <1>8 DEF ArpInv

LEMMA KnownStep ==
  ASSUME ArpInv, NEW h \in Hosts, NEW m \in MacsOf[h], arp_learn_known(h, m)
  PROVE  ArpInv'
  <1>1. PICK i \in Entries : /\ cache[i].state # "free" /\ cache[i].ip = h
                             /\ cache' = [cache EXCEPT ![i] = Learned(h, m)]
                             /\ arp_flush_pending(pending, i, m)
    BY DEF arp_learn_known, arp_find_locked
  <1>2. \A j \in Entries : cache[j].state # "free" /\ cache[j].ip = h => j = i
    BY <1>1 DEF ArpInv, OneEntryPerHost
  <1>3. pending \in [Slots -> SlotType]
    BY DEF ArpInv, ArpTypeOK, SlotType
  <1>4. \A s \in Slots : pending[s].in_use /\ pending[s].entry = i => pending[s].to = h
    BY <1>1 DEF ArpInv, ParkedBehindOwnEntry
  <1>5. /\ pending' \in [Slots -> SlotType]
        /\ \A s \in Slots : pending'[s].in_use =>
               pending'[s] = pending[s] /\ pending[s].entry # i
    BY <1>1, <1>3, DropFacts, SMTT(30) DEF arp_flush_pending
  <1>6. \A x \in sent' : x = <<h, m>>
    BY <1>1, <1>4 DEF arp_flush_pending
  <1>7. QED
    BY <1>1, <1>2, <1>5, <1>6, LearnInto

LEMMA NewStep ==
  ASSUME ArpInv, NEW h \in Hosts, NEW m \in MacsOf[h], arp_learn_new(h, m)
  PROVE  ArpInv'
  <1>1. PICK i \in Entries :
          /\ cache' = [cache EXCEPT ![i] = Learned(h, m)]
          /\ arp_flush_pending(arp_drop_pending_locked(pending, i), i, m)
    BY AllocRange DEF arp_learn_new
  <1> DEFINE p == arp_drop_pending_locked(pending, i)
  <1>2. \A j \in Entries : cache[j].state # "free" /\ cache[j].ip = h => j = i
    BY DEF arp_learn_new, arp_find_locked
  <1>3. /\ p \in [Slots -> SlotType]
        /\ \A s \in Slots : p[s].in_use => p[s] = pending[s] /\ pending[s].entry # i
    BY DropFacts DEF ArpInv, ArpTypeOK, SlotType
  <1>4. arp_flush_pending(p, i, m)
    BY <1>1
  <1> HIDE DEF p
  <1>5. /\ pending' \in [Slots -> SlotType]
        /\ \A s \in Slots : pending'[s].in_use => pending'[s] = p[s]
    BY <1>3, <1>4, DropFacts, SMTT(30) DEF arp_flush_pending
  <1>6. \A x \in sent' : x = <<h, m>>
    BY <1>3, <1>4 DEF arp_flush_pending
  <1>7. QED
    BY <1>1, <1>2, <1>3, <1>5, <1>6, LearnInto

\* An entry that arp_tick leaves in use keeps its host and its address, and one
\* that it frees has no frames behind it or loses them.
LEMMA ArpTickStep ==
  ASSUME ArpInv, arp_tick
  PROVE  ArpInv'
  <1> USE DEF ArpInv
  <1>1. /\ cache' = [i \in Entries |-> Ticked(i)]
        /\ pending' = [s \in Slots |-> IF pending[s].in_use /\ GivenUp(pending[s].entry)
                                       THEN FreeSlot ELSE pending[s]]
        /\ sent' = {}
    BY DEF arp_tick
  <1>2. \A i \in Entries : cache[i] \in EntryType
    BY DEF ArpTypeOK, EntryType
  <1>3. \A i \in Entries : Ticked(i) \in EntryType
    <2> TAKE i \in Entries
    <2>1. [cache[i] EXCEPT !.state = "free"] \in EntryType
      BY <1>2 DEF EntryType
    <2>2. [cache[i] EXCEPT !.retries = @ + 1, !.left = ARP_RETRY] \in EntryType
      <3>1. cache[i] \in EntryType /\ cache[i].retries + 1 \in Nat /\ ARP_RETRY \in Nat
        BY <1>2, SMTT(30) DEF EntryType, ARP_RETRY
      <3>2. QED
        BY ONLY <3>1 DEF EntryType
    <2>3. \/ Ticked(i) = cache[i] \/ Ticked(i) = FreeEntry
          \/ Ticked(i) = [cache[i] EXCEPT !.state = "free"]
          \/ Ticked(i) = [cache[i] EXCEPT !.retries = @ + 1, !.left = ARP_RETRY]
      BY DEF Ticked
    <2>4. QED
      BY <1>2, <2>1, <2>2, <2>3, ArpConstants
  <1>4. \A i \in Entries : Ticked(i).state # "free" =>
            /\ Ticked(i).state = cache[i].state
            /\ Ticked(i).ip = cache[i].ip /\ Ticked(i).mac = cache[i].mac
    BY <1>2, ArpConstants DEF Ticked, EntryType
  <1>5. \A i \in Entries : cache[i].state = "pending" /\ ~ GivenUp(i) =>
            Ticked(i).state = "pending" /\ Ticked(i).ip = cache[i].ip
    BY <1>2 DEF Ticked, EntryType
  <1>6. ArpTypeOK' /\ SentWhereClaimed'
    BY <1>1, <1>3, ArpConstants DEF ArpTypeOK, EntryType, SlotType, SentWhereClaimed
  <1>7. EntriesClaimed' /\ OneEntryPerHost'
    BY <1>1, <1>4, SMTT(30) DEF EntriesClaimed, OneEntryPerHost
  <1>8. ParkedBehindOwnEntry'
    <2> SUFFICES ASSUME NEW r \in Slots, pending'[r].in_use
                 PROVE  /\ cache'[pending'[r].entry].state = "pending"
                        /\ cache'[pending'[r].entry].ip = pending'[r].to
      BY DEF ParkedBehindOwnEntry
    <2>1. /\ pending'[r] = pending[r] /\ pending[r].in_use
          /\ ~ GivenUp(pending[r].entry)
      BY <1>1, ArpConstants
    <2>2. pending[r].entry \in Entries
      BY DEF ArpTypeOK
    <2>3. QED
      BY <2>1, <2>2, <1>1, <1>5 DEF ParkedBehindOwnEntry
  <1>9. QED
    BY <1>6, <1>7, <1>8

LEMMA ArpTimeStep ==
  ASSUME ArpInv, time_passes
  PROVE  ArpInv'
  <1> USE DEF ArpInv
  <1>1. \A i \in Entries :
          /\ cache'[i] \in EntryType
          /\ cache'[i].state = cache[i].state
          /\ cache'[i].ip = cache[i].ip /\ cache'[i].mac = cache[i].mac
    BY SMTT(30) DEF time_passes, ArpTypeOK, EntryType
  <1>2. \A s \in Slots :
          /\ pending'[s] \in SlotType
          /\ pending'[s].in_use = pending[s].in_use
          /\ pending'[s].entry = pending[s].entry /\ pending'[s].to = pending[s].to
    <2> TAKE s \in Slots
    <2>1. pending[s] \in SlotType
      BY DEF ArpTypeOK, SlotType
    <2>2. \/ pending'[s] = pending[s]
          \/ pending'[s] = [pending[s] EXCEPT !.age = @ + 1]
      BY DEF time_passes
    <2>3. QED
      BY <2>1, <2>2, SMTT(30) DEF SlotType
  <1>3. ArpTypeOK' /\ SentWhereClaimed'
    BY <1>1, <1>2 DEF time_passes, ArpTypeOK, EntryType, SlotType, SentWhereClaimed
  <1>4. EntriesClaimed' /\ OneEntryPerHost'
    BY <1>1 DEF EntriesClaimed, OneEntryPerHost
  <1>5. ParkedBehindOwnEntry'
    BY <1>1, <1>2, SMTT(30) DEF ParkedBehindOwnEntry, ArpTypeOK
  <1>6. QED
    BY <1>3, <1>4, <1>5

LEMMA ArpStep == ArpInv /\ [ArpNext]_arpVars => ArpInv'
  <1> SUFFICES ASSUME ArpInv, [ArpNext]_arpVars PROVE ArpInv'
    OBVIOUS
  <1>1. ASSUME NEW h \in Hosts, arp_send_or_queue(h) PROVE ArpInv'
    BY <1>1, ResolvedStep, QueueStep, AskStep DEF arp_send_or_queue
  <1>2. ASSUME NEW h \in Hosts, NEW m \in MacsOf[h], arp_input(h, m) PROVE ArpInv'
    BY <1>2, KnownStep, NewStep DEF arp_input
  <1>3. CASE UNCHANGED arpVars
    BY <1>3 DEF arpVars, ArpInv, ArpTypeOK, EntriesClaimed, OneEntryPerHost,
                ParkedBehindOwnEntry, SentWhereClaimed
  <1>4. QED
    BY <1>1, <1>2, <1>3, ArpTickStep, ArpTimeStep DEF ArpNext

\* However entries are reused, a parked frame stays behind the entry of its own
\* destination while that is being asked for, and a host has one entry.
THEOREM ParkedFramesKept == ArpSpec => [](OneEntryPerHost /\ ParkedBehindOwnEntry)
  <1>1. ArpInv => OneEntryPerHost /\ ParkedBehindOwnEntry
    BY DEF ArpInv
  <1>2. QED
    BY <1>1, InitArp, ArpStep, PTL DEF ArpSpec

\* Every frame leaves for an address its destination has claimed, late and
\* repeated answers and reused entries included.
THEOREM FramesSentWhereClaimed == ArpSpec => []FramesFindHost
  <1>1. ArpInv => FramesFindHost
    BY DEF ArpInv, FramesFindHost
  <1>2. QED
    BY <1>1, InitArp, ArpStep, PTL DEF ArpSpec

-----------------------------------------------------------------------------
\* The receive ring and the poll thread.

N == E1000_NUM_RX_DESC

\* The descriptor k places after i, without the remainder.
Place(i, k) == IF i + k < N THEN i + k ELSE i + k - N

LEMMA RingSize == N \in Nat /\ N > 1 /\ MaxBusy \in Nat
  BY NicAssumption DEF N

LEMMA WrapOnce ==
  ASSUME NEW C \in Nat, 0 < C, NEW x \in Nat, x < 2 * C
  PROVE  x % C = IF x < C THEN x ELSE x - C
  <1>1. CASE x < C
    BY <1>1, Z3
  <1>2. CASE x >= C
    BY <1>2, Z3
  <1>3. QED
    BY <1>1, <1>2, SMTT(30)

LEMMA PlaceFacts ==
  ASSUME NEW i \in Desc, NEW k \in 0 .. N - 1
  PROVE  Place(i, k) \in Desc /\ (i + k) % N = Place(i, k)
  <1>1. i \in Nat /\ k \in Nat /\ i < N /\ k < N
    BY RingSize, SMTT(30) DEF Desc, N
  <1>2. (i + k) % N = Place(i, k)
    BY <1>1, RingSize, WrapOnce, SMTT(30) DEF Place
  <1>3. Place(i, k) \in Desc
    BY <1>1, RingSize, SMTT(30) DEF Place, Desc, N
  <1>4. QED
    BY <1>2, <1>3

\* Different places are different descriptors.
LEMMA PlaceInjective ==
  ASSUME NEW i \in Desc, NEW k \in 0 .. N - 1, NEW l \in 0 .. N - 1,
         Place(i, k) = Place(i, l)
  PROVE  k = l
  BY RingSize, SMTT(30) DEF Place, Desc, N

LEMMA NextIsPlace ==
  ASSUME NEW i \in Desc
  PROVE  NextDesc(i) = Place(i, 1) /\ NextDesc(i) \in Desc
  BY RingSize, PlaceFacts, SMTT(30) DEF NextDesc, N

\* Seen from the next descriptor every place is one nearer, and i is the last.
LEMMA PlaceShift ==
  ASSUME NEW i \in Desc
  PROVE  /\ \A k \in 0 .. N - 2 : Place(NextDesc(i), k) = Place(i, k + 1)
         /\ Place(NextDesc(i), N - 1) = i
         /\ Place(i, 0) = i
  <1>1. i \in Nat /\ i < N
    BY RingSize, SMTT(30) DEF Desc, N
  <1>2. NextDesc(i) = Place(i, 1)
    BY NextIsPlace
  <1>3. QED
    BY <1>1, <1>2, RingSize, SMTT(30) DEF Place

\* What the ring holds, without the remainder: the frames of `line` from
\* rx_current on, and nothing in the other descriptors.
RingHolds ==
  /\ Len(line) < N
  /\ \A k \in 0 .. N - 1 :
        desc[Place(rx_current, k)] = IF k < Len(line) THEN <<line[k + 1]>> ELSE NoFrame

\* Head and tail of the card: behind the last frame, and one kept back.
RingEnds == /\ rdh = Place(rx_current, Len(line))
            /\ rdt = Place(rx_current, N - 1)

\* Outside a pass the budget is whole, and a parked task has no kick waiting.
BetweenPasses == /\ poll # "rx" => budget = 0
                 /\ poll = "parked" => ~ poll_kicked

NicInv == NicTypeOK /\ RingHolds /\ RingEnds /\ BetweenPasses /\ PassCoversKick

LEMMA RingInLine == NicTypeOK /\ RingHolds => FramesInOrder
  <1> SUFFICES ASSUME NicTypeOK, RingHolds PROVE FramesInOrder
    OBVIOUS
  <1>1. Len(line) \in Nat /\ rx_current \in Desc /\ rx_current \in Nat
    BY RingSize, SMTT(30) DEF NicTypeOK, Desc
  <1>2. ASSUME NEW k \in 1 .. N
        PROVE  desc[(rx_current + k - 1) % N] =
                 IF k <= Len(line) THEN <<line[k]>> ELSE NoFrame
    <2>1. k - 1 \in 0 .. N - 1 /\ rx_current + k - 1 = rx_current + (k - 1) /\ k - 1 + 1 = k
      BY <1>1, RingSize, SMTT(30)
    <2>2. (rx_current + k - 1) % N = Place(rx_current, k - 1)
      BY <1>1, <2>1, PlaceFacts
    <2>3. k - 1 < Len(line) <=> k <= Len(line)
      BY <1>1, RingSize, SMTT(30)
    <2>4. QED
      BY <2>1, <2>2, <2>3 DEF RingHolds
  <1>3. QED
    BY <1>2 DEF FramesInOrder, RingHolds, N

LEMMA InitNic == NicInit => NicInv
  <1> SUFFICES ASSUME NicInit PROVE NicInv
    OBVIOUS
  <1>1. 0 \in Desc /\ N - 1 \in Desc /\ Len(line) = 0
    BY RingSize, SMTT(30) DEF NicInit, Desc, N
  <1>2. NicTypeOK
    BY <1>1, RingSize, SMTT(30) DEF NicInit, NicTypeOK, N
  <1>3. \A k \in 0 .. N - 1 : Place(0, k) = k /\ k \in Desc
    BY RingSize, SMTT(30) DEF Place, Desc, N
  <1>4. RingHolds
    BY <1>1, <1>3, RingSize, SMTT(30) DEF NicInit, RingHolds
  <1>5. RingEnds
    BY <1>1, <1>3, RingSize, SMTT(30) DEF NicInit, RingEnds, N
  <1>6. BetweenPasses /\ PassCoversKick
    BY <1>1, RingSize, SMTT(30) DEF NicInit, BetweenPasses, PassCoversKick, N
  <1>7. QED
    BY <1>2, <1>4, <1>5, <1>6 DEF NicInv

\* The card stops short of the tail, so it never fills the last descriptor.
LEMMA RoomAtHead ==
  ASSUME NicTypeOK, RingHolds, RingEnds
  PROVE  rdh # rdt <=> Len(line) < N - 1
  <1>1. Len(line) \in 0 .. N - 1 /\ N - 1 \in 0 .. N - 1
    BY RingSize, SMTT(30) DEF NicTypeOK, RingHolds
  <1>2. Len(line) = N - 1 <=> rdh = rdt
    BY <1>1, PlaceInjective DEF RingEnds, NicTypeOK
  <1>3. QED
    BY <1>1, <1>2, RingSize, SMTT(30)

LEMMA ReceiveStep ==
  ASSUME NicInv, NEW f \in Frames, nic_receive(f)
  PROVE  NicInv'
  <1> DEFINE n == Len(line)
  <1>1. n \in Nat /\ n < N - 1 /\ rx_current \in Desc /\ rdh \in Desc
    BY RoomAtHead, SMTT(30) DEF NicInv, NicTypeOK, nic_receive
  <1>2. /\ desc' = [desc EXCEPT ![rdh] = <<f>>] /\ rdh' = NextDesc(rdh) /\ cause' = TRUE
        /\ line' = Append(line, f) /\ rx_current' = rx_current /\ rdt' = rdt
        /\ UNCHANGED <<poll_kicked, poll, budget, busy>>
    BY DEF nic_receive
  <1>3. /\ Len(line') = n + 1 /\ line'[n + 1] = f
        /\ \A k \in 1 .. n : line'[k] = line[k]
    BY <1>2, SMTT(30) DEF NicInv, NicTypeOK
  <1>4. NicTypeOK'
    BY <1>1, <1>2, NextIsPlace, SMTT(30) DEF NicInv, NicTypeOK
  <1>5. rdh = Place(rx_current, n) /\ n \in 0 .. N - 1
    BY <1>1, RingSize, SMTT(30) DEF NicInv, RingEnds
  <1> HIDE DEF n
  <1>6. RingHolds'
    <2>1. Len(line') < N
      BY <1>1, <1>3, RingSize, SMTT(30)
    <2>2. ASSUME NEW k \in 0 .. N - 1
          PROVE  desc'[Place(rx_current, k)] =
                   IF k < n + 1 THEN <<line'[k + 1]>> ELSE NoFrame
      <3>1. Place(rx_current, k) \in Desc
        BY <1>1, PlaceFacts
      <3>2. CASE k = n
        <4>1. desc'[rdh] = <<f>>
          BY <1>1, <1>2 DEF NicInv, NicTypeOK
        <4>2. QED
          BY <4>1, <3>2, <1>1, <1>3, <1>5, SMTT(30)
      <3>3. CASE k # n
        <4>1. Place(rx_current, k) # rdh
          BY <3>3, <1>1, <1>5, PlaceInjective
        <4>2. desc'[Place(rx_current, k)] = desc[Place(rx_current, k)]
          BY <4>1, <3>1, <1>2 DEF NicInv, NicTypeOK
        <4>3. k < n + 1 <=> k < n
          BY <3>3, <1>1, RingSize, SMTT(30)
        <4>4. k < n => line'[k + 1] = line[k + 1]
          BY <1>1, <1>3, RingSize, SMTT(30)
        <4>5. QED
          BY <4>2, <4>3, <4>4 DEF NicInv, RingHolds, n
      <3>4. QED
        BY <3>2, <3>3
    <2>3. QED
      BY <1>2, <1>3, <2>1, <2>2 DEF RingHolds
  <1>7. RingEnds'
    <2>1. NextDesc(rdh) = Place(rx_current, n + 1)
      <3>1. rx_current \in Nat /\ rx_current < N
        BY <1>1, RingSize, SMTT(30) DEF Desc, N
      <3>2. NextDesc(rdh) = Place(rdh, 1)
        BY <1>1, NextIsPlace
      <3>3. QED
        BY <1>1, <1>5, <3>1, <3>2, RingSize, SMTT(30) DEF Place
    <2>2. QED
      BY <2>1, <1>2, <1>3 DEF NicInv, RingEnds
  <1>8. BetweenPasses' /\ PassCoversKick'
    BY <1>2 DEF NicInv, BetweenPasses, PassCoversKick
  <1>9. QED
    BY <1>4, <1>6, <1>7, <1>8 DEF NicInv

\* The descriptor at rx_current is empty exactly when no frame waits.
LEMMA OldestAtCurrent ==
  ASSUME NicInv
  PROVE  /\ Len(line) \in Nat /\ Len(line) < N
         /\ desc[rx_current] = NoFrame <=> Len(line) = 0
  <1>1. Len(line) \in Nat /\ Len(line) < N /\ rx_current \in Desc /\ 0 \in 0 .. N - 1
    BY RingSize, SMTT(30) DEF NicInv, NicTypeOK, RingHolds
  <1>2. desc[Place(rx_current, 0)] = IF 0 < Len(line) THEN <<line[0 + 1]>> ELSE NoFrame
    BY <1>1 DEF NicInv, RingHolds
  <1>3. Place(rx_current, 0) = rx_current
    BY <1>1, PlaceShift
  <1>4. <<line[0 + 1]>> # NoFrame
    BY DEF NoFrame
  <1>5. QED
    BY <1>1, <1>2, <1>3, <1>4, SMTT(30)

LEMMA HandOverStep ==
  ASSUME NicInv, e1000_poll_rx
  PROVE  NicInv'
  <1> DEFINE n == Len(line)
             next == NextDesc(rx_current)
  <1>1. n \in Nat /\ n < N /\ n # 0 /\ rx_current \in Desc
    BY OldestAtCurrent DEF e1000_poll_rx, NicInv, NicTypeOK
  <1>2. /\ desc' = [desc EXCEPT ![rx_current] = NoFrame] /\ rdt' = rx_current
        /\ rx_current' = next /\ budget' = budget + 1 /\ line' = Tail(line)
        /\ UNCHANGED <<rdh, cause, poll_kicked, poll, busy>>
        /\ poll = "rx" /\ budget < N
    BY DEF e1000_poll_rx, N
  <1>3. /\ Len(line') = n - 1 /\ line' \in Seq(Frames)
        /\ \A k \in 1 .. n - 1 : line'[k] = line[k + 1]
    BY <1>1, <1>2, SMTT(30) DEF NicInv, NicTypeOK
  <1>4. /\ next \in Desc /\ Place(next, N - 1) = rx_current /\ Place(rx_current, 0) = rx_current
        /\ \A k \in 0 .. N - 2 : Place(next, k) = Place(rx_current, k + 1)
    BY <1>1, NextIsPlace, PlaceShift
  <1> HIDE DEF n, next
  <1>5. NicTypeOK'
    BY <1>1, <1>2, <1>3, <1>4, RingSize, SMTT(30) DEF NicInv, NicTypeOK, N
  <1>6. RingHolds'
    <2>1. ASSUME NEW k \in 0 .. N - 1
          PROVE  desc'[Place(next, k)] =
                   IF k < n - 1 THEN <<line'[k + 1]>> ELSE NoFrame
      <3>1. CASE k = N - 1
        <4>1. desc'[rx_current] = NoFrame
          BY <1>1, <1>2 DEF NicInv, NicTypeOK
        <4>2. ~ (k < n - 1)
          BY <3>1, <1>1, RingSize, SMTT(30)
        <4>3. QED
          BY <3>1, <4>1, <4>2, <1>4
      <3>2. CASE k # N - 1
        <4>1. /\ k \in 0 .. N - 2 /\ k + 1 \in 0 .. N - 1 /\ k + 1 # 0
              /\ 0 \in 0 .. N - 1
          BY <3>2, RingSize, SMTT(30)
        <4>2. Place(next, k) = Place(rx_current, k + 1) /\ Place(rx_current, k + 1) \in Desc
          BY <4>1, <1>1, <1>4, PlaceFacts
        <4>3. Place(rx_current, k + 1) # rx_current
          BY <4>1, <1>1, <1>4, PlaceInjective
        <4>4. desc'[Place(next, k)] = desc[Place(rx_current, k + 1)]
          BY <4>2, <4>3, <1>2 DEF NicInv, NicTypeOK
        <4>5. desc[Place(rx_current, k + 1)] =
                 IF k + 1 < n THEN <<line[k + 1 + 1]>> ELSE NoFrame
          BY <4>1 DEF NicInv, RingHolds, n
        <4>6. (k + 1 < n <=> k < n - 1) /\ (k < n - 1 => k + 1 \in 1 .. n - 1)
          BY <4>1, <1>1, RingSize, SMTT(30)
        <4>7. QED
          BY <4>4, <4>5, <4>6, <1>3
      <3>3. QED
        BY <3>1, <3>2
    <2>2. n - 1 < N
      BY <1>1, RingSize, SMTT(30)
    <2>3. QED
      BY <1>2, <1>3, <2>1, <2>2 DEF RingHolds
  <1>7. RingEnds'
    <2>1. n - 1 \in 0 .. N - 2 /\ n - 1 + 1 = n
      BY <1>1, RingSize, SMTT(30)
    <2>2. Place(next, n - 1) = rdh
      BY <2>1, <1>4 DEF NicInv, RingEnds, n
    <2>3. QED
      BY <2>2, <1>2, <1>3, <1>4 DEF RingEnds
  <1>8. BetweenPasses'
    BY <1>2 DEF NicInv, BetweenPasses
  <1>9. PassCoversKick'
    <2>1. budget \in Nat
      BY RingSize, SMTT(30) DEF NicInv, NicTypeOK, N
    <2>2. ~ cause /\ ~ poll_kicked => n + budget <= N
      BY <1>2 DEF NicInv, PassCoversKick, n, N
    <2>3. ~ cause /\ ~ poll_kicked => Len(line') + budget' <= N
      BY <2>1, <2>2, <1>1, <1>2, <1>3, RingSize, SMTT(30)
    <2>4. QED
      BY <2>3, <1>2 DEF PassCoversKick, N
  <1>10. QED
    BY <1>5, <1>6, <1>7, <1>8, <1>9 DEF NicInv

\* A pass that nothing kicked meanwhile ends with an empty ring.
LEMMA PassEndStep ==
  ASSUME NicInv, driver_poll_thread
  PROVE  NicInv'
  <1>1. /\ poll = "rx" /\ budget' = 0
        /\ budget = N \/ desc[rx_current] = NoFrame
        /\ \/ busy < MaxBusy /\ busy' = busy + 1 /\ poll' = "rx"
           \/ busy' = 0 /\ poll' = "wait"
        /\ UNCHANGED <<desc, rdh, rdt, rx_current, cause, poll_kicked, line>>
    BY DEF driver_poll_thread, N
  <1>2. Len(line) \in Nat /\ Len(line) < N /\ (desc[rx_current] = NoFrame <=> Len(line) = 0)
    BY OldestAtCurrent
  <1>3. NicTypeOK'
    BY <1>1, RingSize, SMTT(30) DEF NicInv, NicTypeOK, N
  <1>4. RingHolds' /\ RingEnds' /\ BetweenPasses'
    BY <1>1 DEF NicInv, RingHolds, RingEnds, BetweenPasses
  <1>5. ~ cause /\ ~ poll_kicked => Len(line) = 0
    <2> SUFFICES ASSUME ~ cause, ~ poll_kicked PROVE Len(line) = 0
      OBVIOUS
    <2>1. Len(line) + budget <= N
      BY <1>1 DEF NicInv, PassCoversKick, N
    <2>2. QED
      BY <2>1, <1>1, <1>2, RingSize, SMTT(30)
  <1>6. ~ cause /\ ~ poll_kicked => line = <<>>
    BY <1>5, SMTT(30) DEF NicInv, NicTypeOK
  <1>7. Len(line) + 0 <= N
    BY <1>2, RingSize, SMTT(30)
  <1>8. PassCoversKick'
    BY <1>1, <1>6, <1>7 DEF PassCoversKick, N
  <1>9. QED
    BY <1>3, <1>4, <1>8 DEF NicInv

\* The steps around the park: only poll, poll_kicked and cause change.
LEMMA ParkingStep ==
  ASSUME NicInv, e1000_irq_handler \/ poll_wait \/ poll_timeout \/ poll_resume
  PROVE  NicInv'
  <1>1. UNCHANGED <<desc, rdh, rdt, rx_current, budget, busy, line>>
    BY DEF e1000_irq_handler, poll_wait, poll_timeout, poll_resume
  <1>2. NicTypeOK'
    BY <1>1 DEF NicInv, NicTypeOK, e1000_irq_handler, poll_wait, poll_timeout, poll_resume
  <1>3. RingHolds' /\ RingEnds'
    BY <1>1 DEF NicInv, RingHolds, RingEnds
  <1>4. BetweenPasses'
    BY <1>1 DEF NicInv, NicTypeOK, BetweenPasses, e1000_irq_handler, poll_wait,
                poll_timeout, poll_resume
  <1>5. Len(line) + 0 <= N
    BY OldestAtCurrent, RingSize, SMTT(30)
  <1>6. PassCoversKick'
    BY <1>1, <1>5 DEF NicInv, BetweenPasses, PassCoversKick, e1000_irq_handler,
                      poll_wait, poll_timeout, poll_resume, N
  <1>7. QED
    BY <1>2, <1>3, <1>4, <1>6 DEF NicInv

LEMMA NicStep == NicInv /\ [NicNext]_nicVars => NicInv'
  <1> SUFFICES ASSUME NicInv, [NicNext]_nicVars PROVE NicInv'
    OBVIOUS
  <1>1. CASE UNCHANGED nicVars
    BY <1>1 DEF nicVars, NicInv, NicTypeOK, RingHolds, RingEnds, BetweenPasses,
                PassCoversKick
  <1>2. QED
    BY <1>1, ReceiveStep, HandOverStep, PassEndStep, ParkingStep DEF NicNext, PollStep

\* Frames are handed over in the order they were stored, none is overwritten,
\* and the ring never wedges, for a ring of any length.
THEOREM RingInOrder == NicSpec => []RingIsQueue
  <1>1. NicInv => FramesInOrder
    BY RingInLine DEF NicInv
  <1>2. NicInv => NeverWedged
    BY RoomAtHead DEF NicInv, NeverWedged, N
  <1>3. NicInv => RingIsQueue
    BY <1>1, <1>2 DEF NicInv, RingIsQueue
  <1>4. QED
    BY <1>3, InitNic, NicStep, PTL DEF NicSpec

\* The poll task does not sleep through a kick, though it clears the flag before
\* it looks at the ring and hands over one ring at most.
THEOREM NoKickLost == NicSpec => [](PassCoversKick /\ KickNotLost)
  <1>1. NicInv => PassCoversKick /\ KickNotLost
    BY DEF NicInv, NicTypeOK, KickNotLost, BetweenPasses, PassCoversKick
  <1>2. QED
    BY <1>1, InitNic, NicStep, PTL DEF NicSpec

=============================================================================
