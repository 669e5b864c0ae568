--------------------------- MODULE MemoryProofs -----------------------------
(***************************************************************************)
(* Proofs about memory: the address spaces and the pages they share, for   *)
(* any number of tasks, spaces and shared pages; and the kernel heap, for  *)
(* any page and heap size and any sizes asked for.                         *)
(***************************************************************************)
EXTENDS AddressSpace, Heap, FiniteSetTheorems, TLAPS

\* The provers a leaf is tried with, and their seconds.
USE ZenonT(60), SMTT(30)

\* The address spaces.

TaskState == {"unborn", "loading", "ready", "parked", "woken", "zombie", "claimed", "dead", "gone"}
RecType == [mem : {"none", "live", "freed"}, user_pml4 : BOOLEAN,
            pml4_ref_count : {NoRefs} \cup 1 .. MaxPid, shmem_shared_out : 0 .. MaxShared]

\* The pages a record has shared out and that are still mapped elsewhere.
Borrowers(v) == {r \in Vms : <<v, r>> \in maps}

\* What holds of one record and its space: it is held by nobody before it is
\* allocated and after it is freed, by one task that does not run while it has no
\* page tables, and is counted exactly in between.
RecordInv(v) ==
  /\ rec[v].mem = "none" =>
       v \notin detached /\ ~rec[v].user_pml4 /\ space[v] = "none" /\ Holders(v) = {}
  /\ v \in detached =>
       /\ ~rec[v].user_pml4 /\ rec[v].pml4_ref_count = NoRefs /\ space[v] = "live"
       /\ \A t \in Holders(v) : tstate[t] # "loading"
  /\ v \notin detached =>
       /\ space[v] = "live" <=> rec[v].mem = "live" /\ rec[v].user_pml4
       /\ rec[v].mem = "freed" => Holders(v) = {}
       /\ rec[v].mem = "live" /\ ~rec[v].user_pml4 =>
            \A t \in Holders(v) : Holders(v) = {t} /\ tstate[t] \notin Alive
       /\ rec[v].mem = "live" /\ rec[v].user_pml4 =>
            /\ \A t \in Holders(v) : tstate[t] # "loading"
            /\ Holders(v) = {} => rec[v].shmem_shared_out > 0
            /\ Holders(v) # {} =>
                 \/ rec[v].pml4_ref_count = Cardinality(Holders(v))
                 \/ rec[v].pml4_ref_count = NoRefs /\ Cardinality(Holders(v)) = 1

\* A child that still runs on its parent's memory has a parent that is in the
\* kernel for it, or dead.
VforkInv ==
  /\ \A t \in Pids : tstate[t] \in {"unborn", "loading"} => vfork_parent[t] = NoPid
  /\ \A t \in Pids : tstate[t] \in InKernel => vfork_child[t] # NoPid
  /\ \A t, p \in Pids :
       tstate[t] \in Alive /\ vfork_parent[t] = p =>
         \/ tstate[p] \in {"zombie", "claimed", "dead", "gone"}
         \/ tstate[p] \in InKernel /\ vfork_child[p] = t
  /\ \A p, c \in Pids :
       tstate[p] \in InKernel /\ vfork_child[p] = c /\ vfork_parent[c] = p /\ vm[p] \notin detached =>
         tstate[c] \in Alive /\ vm[c] = vm[p]
  /\ \A p, c \in Pids :
       tstate[p] = "parked" /\ vfork_child[p] = c /\ vm[p] \notin detached => vfork_parent[c] = p

OwnersInv ==
  /\ AsTypeOK
  /\ \A t \in Pids : vm[t] = 0 <=> tstate[t] \in {"unborn", "gone"}
  /\ \A v \in Vms : RecordInv(v)
  /\ \A v \in Vms : rec[v].shmem_shared_out >= Cardinality(Borrowers(v))
  /\ VforkInv

LEMMA RecTypes ==
  ASSUME NEW r \in RecType, NEW c \in {NoRefs} \cup 1 .. MaxPid, NEW u \in BOOLEAN,
         NEW m \in {"none", "live", "freed"}
  PROVE  /\ [r EXCEPT !.pml4_ref_count = c] \in RecType
         /\ [r EXCEPT !.user_pml4 = u, !.pml4_ref_count = c] \in RecType
         /\ [r EXCEPT !.mem = m, !.user_pml4 = u, !.pml4_ref_count = c] \in RecType
         /\ [r EXCEPT !.pml4_ref_count = c, !.mem = m] \in RecType
<1>1. r = [mem |-> r.mem, user_pml4 |-> r.user_pml4, pml4_ref_count |-> r.pml4_ref_count,
           shmem_shared_out |-> r.shmem_shared_out]
  BY DEF RecType
<1> QED
  BY <1>1 DEF RecType

-----------------------------------------------------------------------------
\* The sets that are counted are finite, and small enough for the counters.
LEMMA HoldersCount ==
  ASSUME NEW v
  PROVE  /\ IsFiniteSet(Holders(v))
         /\ Cardinality(Holders(v)) \in Nat
         /\ Cardinality(Holders(v)) <= MaxPid
<1>1. IsFiniteSet(Pids) /\ Cardinality(Pids) = MaxPid
  BY AsAssumption, FS_Interval, SMTT(30) DEF Pids
<1>2. Holders(v) \in SUBSET Pids
  BY DEF Holders
<1> QED
  BY <1>1, <1>2, FS_Subset, FS_CardinalityType

\* The same of the holders after a step.
LEMMA HoldersCountAfter ==
  ASSUME NEW v
  PROVE  /\ IsFiniteSet(Holders(v)')
         /\ Cardinality(Holders(v)') \in Nat
         /\ Cardinality(Holders(v)') <= MaxPid
<1>1. IsFiniteSet(Pids) /\ Cardinality(Pids) = MaxPid
  BY AsAssumption, FS_Interval, SMTT(30) DEF Pids
<1>2. Holders(v)' \in SUBSET Pids
  BY DEF Holders
<1> QED
  BY <1>1, <1>2, FS_Subset, FS_CardinalityType

LEMMA BorrowersCount ==
  ASSUME NEW v
  PROVE  IsFiniteSet(Borrowers(v)) /\ Cardinality(Borrowers(v)) \in Nat
<1>1. IsFiniteSet(Vms)
  BY AsAssumption, FS_Interval, SMTT(30) DEF Vms
<1>2. Borrowers(v) \in SUBSET Vms
  BY DEF Borrowers
<1> QED
  BY <1>1, <1>2, FS_Subset, FS_CardinalityType

\* A record whose fields, space and holders a step leaves alone, none of which it
\* brings to life, stays as it was.
LEMMA RecordKept ==
  ASSUME NEW v, RecordInv(v),
         Holders(v)' = Holders(v), rec'[v] = rec[v], space'[v] = space[v],
         v \in detached' <=> v \in detached,
         \A t \in Holders(v) : /\ tstate'[t] \in Alive => tstate[t] \in Alive
                               /\ tstate'[t] = "loading" => tstate[t] = "loading"
  PROVE  RecordInv(v)'
BY SMTT(30) DEF RecordInv, Alive, InKernel

\* The record of a task: it exists, and in it the task is counted.
LEMMA Held ==
  ASSUME OwnersInv, NEW t \in Pids, vm[t] # 0
  PROVE  /\ vm[t] \in Vms /\ t \in Holders(vm[t]) /\ RecordInv(vm[t])
         /\ rec[vm[t]].mem # "none"
         /\ vm[t] \notin detached => rec[vm[t]].mem = "live"
<1>1. vm[t] \in Vms
  BY DEF OwnersInv, AsTypeOK
<1>2. t \in Holders(vm[t])
  BY DEF OwnersInv, Holders
<1>3. RecordInv(vm[t]) /\ rec[vm[t]].mem \in {"none", "live", "freed"}
  BY <1>1 DEF OwnersInv, AsTypeOK
<1> QED
  BY <1>1, <1>2, <1>3 DEF RecordInv

\* A task that runs on a record nobody detached has page tables, counted.
LEMMA Counted ==
  ASSUME OwnersInv, NEW t \in Pids, tstate[t] \in Alive
  PROVE  /\ vm[t] \in Vms /\ t \in Holders(vm[t])
         /\ vm[t] \notin detached => rec[vm[t]].mem = "live" /\ rec[vm[t]].user_pml4
<1>1. vm[t] # 0
  BY DEF OwnersInv, Alive, InKernel
<1> QED
  BY <1>1, Held DEF RecordInv

LEMMA InitOwners == AsInit => OwnersInv
<1> SUFFICES ASSUME AsInit PROVE OwnersInv
  OBVIOUS
<1>1. AsTypeOK
  BY AsAssumption, SMTT(30) DEF AsInit, AsTypeOK, NoRefs, NoPid
<1>2. \A v \in Vms : RecordInv(v)
  BY DEF AsInit, RecordInv, Holders
<1>3. ASSUME NEW v \in Vms PROVE rec[v].shmem_shared_out >= Cardinality(Borrowers(v))
  <2>1. Borrowers(v) = {}
    BY DEF AsInit, Borrowers
  <2> QED
    BY <2>1, FS_EmptySet, SMTT(30) DEF AsInit
<1>4. VforkInv
  BY DEF AsInit, VforkInv, InKernel, Alive
<1> QED
  BY <1>1, <1>2, <1>3, <1>4 DEF OwnersInv, AsInit

-----------------------------------------------------------------------------
\* The shares are only touched by the two calls and by the end of a space: a
\* step that adds no mapping and takes no count away keeps the inequality.
LEMMA SharesKept ==
  ASSUME OwnersInv, maps' \subseteq maps,
         NEW v \in Vms, rec'[v].shmem_shared_out = rec[v].shmem_shared_out
  PROVE  rec'[v].shmem_shared_out >= Cardinality(Borrowers(v)')
<1>1. Borrowers(v)' \in SUBSET Borrowers(v)
  BY DEF Borrowers
<1>2. /\ Cardinality(Borrowers(v)') <= Cardinality(Borrowers(v))
      /\ Cardinality(Borrowers(v)') \in Nat /\ Cardinality(Borrowers(v)) \in Nat
  BY <1>1, BorrowersCount, FS_Subset, FS_CardinalityType
<1>3. rec[v].shmem_shared_out >= Cardinality(Borrowers(v)) /\ rec[v].shmem_shared_out \in Nat
  BY AsAssumption, SMTT(30) DEF OwnersInv, AsTypeOK
<1> QED
  BY <1>2, <1>3, SMTT(30)

LEMMA ReserveStep ==
  ASSUME OwnersInv, NEW t \in Pids, NEW v \in Vms, task_reserve_user(t, v)
  PROVE  OwnersInv'
<1> USE DEF task_reserve_user, NewRecord, Newborn, FreshVm
<1>1. AsTypeOK'
  BY SMTT(30) DEF OwnersInv, AsTypeOK
<1>2. \A u \in Pids : vm'[u] = 0 <=> tstate'[u] \in {"unborn", "gone"}
  BY AsAssumption, SMTT(30) DEF OwnersInv, AsTypeOK, Vms
<1>3. \A w \in Vms : w # v => Holders(w)' = Holders(w)
  BY DEF OwnersInv, AsTypeOK, Holders
<1>4. Holders(v)' = {t}
  <2>1. Holders(v) = {}
    BY DEF OwnersInv, RecordInv
  <2> QED
    BY <2>1 DEF OwnersInv, AsTypeOK, Holders
<1>5. ASSUME NEW w \in Vms PROVE RecordInv(w)'
  <2>1. CASE w # v
    <3>1. t \notin Holders(w)
      BY DEF Holders
    <3>2. \A u \in Holders(w) : tstate'[u] = tstate[u]
      BY <3>1 DEF OwnersInv, AsTypeOK, Holders
    <3>3. rec'[w] = rec[w] /\ space'[w] = space[w] /\ RecordInv(w)
      BY <2>1 DEF OwnersInv, AsTypeOK
    <3> QED
      BY <2>1, <1>3, <3>2, <3>3, RecordKept
  <2>2. CASE w = v
    <3>1. /\ rec'[v].mem = "live" /\ ~rec'[v].user_pml4 /\ space'[v] = "none"
          /\ v \notin detached' /\ tstate'[t] = "loading"
      BY SMTT(30) DEF OwnersInv, AsTypeOK, RecordInv
    <3> QED
      BY <2>2, <1>4, <3>1 DEF RecordInv, Alive, InKernel
  <2> QED
    BY <2>1, <2>2
<1>6. \A w \in Vms : rec'[w].shmem_shared_out >= Cardinality(Borrowers(w)')
  BY SharesKept, SMTT(30) DEF OwnersInv, AsTypeOK
<1>7. VforkInv'
  BY SMTT(30) DEF OwnersInv, AsTypeOK, VforkInv, InKernel, Alive
<1> QED
  BY <1>1, <1>2, <1>5, <1>6, <1>7 DEF OwnersInv

\* The image is loaded: the one holder of the record gets its page tables.
LEMMA ActivateStep ==
  ASSUME OwnersInv, NEW t \in Pids, task_activate_reserved_user(t)
  PROVE  OwnersInv'
<1> USE DEF task_activate_reserved_user
<1> DEFINE v == vm[t]
<1>1. v \in Vms /\ t \in Holders(v) /\ RecordInv(v) /\ rec[v].mem # "none"
  BY Held DEF OwnersInv
<1>2. v \notin detached /\ rec[v].mem = "live" /\ ~rec[v].user_pml4 /\ Holders(v) = {t}
  BY <1>1, Held DEF OwnersInv, RecordInv
<1>3. MaxPid >= 1
  BY AsAssumption, SMTT(30) DEF Pids
<1>4. AsTypeOK'
  <2>1. rec' \in [Vms -> RecType]
    <3> DEFINE r == [rec[v] EXCEPT !.user_pml4 = TRUE, !.pml4_ref_count = 1]
    <3>1. rec \in [Vms -> RecType]
      BY DEF OwnersInv, AsTypeOK, RecType
    <3>2. r \in RecType
      <4>1. rec[v] \in RecType /\ 1 \in {NoRefs} \cup 1 .. MaxPid
        BY <1>1, <1>3, <3>1, AsAssumption, SMTT(30)
      <4> QED
        BY <4>1, RecTypes
    <3>3. rec' = [rec EXCEPT ![v] = r]
      BY <1>1, <3>1
    <3> QED
      BY <3>1, <3>2, <3>3
  <2> QED
    BY <1>1, <2>1 DEF OwnersInv, AsTypeOK, RecType
<1>5. \A u \in Pids : vm'[u] = 0 <=> tstate'[u] \in {"unborn", "gone"}
  BY DEF OwnersInv, AsTypeOK
<1>6. \A w \in Vms : Holders(w)' = Holders(w)
  BY DEF OwnersInv, AsTypeOK, Holders
<1>7. ASSUME NEW w \in Vms PROVE RecordInv(w)'
  <2>1. CASE w # v
    <3>1. t \notin Holders(w)
      BY <2>1 DEF Holders
    <3>2. \A u \in Holders(w) : tstate'[u] = tstate[u]
      BY <3>1 DEF OwnersInv, AsTypeOK, Holders
    <3>3. rec'[w] = rec[w] /\ space'[w] = space[w] /\ RecordInv(w)
      BY <2>1 DEF OwnersInv, AsTypeOK
    <3> QED
      BY <1>6, <3>2, <3>3, RecordKept
  <2>2. CASE w = v
    <3>1. /\ rec'[v].mem = "live" /\ rec'[v].user_pml4 /\ space'[v] = "live"
          /\ v \notin detached' /\ tstate'[t] = "ready" /\ rec'[v].pml4_ref_count = 1
      BY <1>1, <1>2, SMTT(30) DEF OwnersInv, AsTypeOK
    <3>2. Holders(v)' = {t} /\ Cardinality({t}) = 1
      BY <1>2, <1>6, <1>1, FS_Singleton
    <3> QED
      BY <2>2, <3>1, <3>2 DEF RecordInv
  <2> QED
    BY <2>1, <2>2
<1>8. \A w \in Vms : rec'[w].shmem_shared_out >= Cardinality(Borrowers(w)')
  BY <1>1, SharesKept, SMTT(30) DEF OwnersInv, AsTypeOK
<1>9. VforkInv'
  <2>1. \A u \in Pids : u # NoPid /\ tstate'[u] = IF u = t THEN "ready" ELSE tstate[u]
    BY SMTT(30) DEF OwnersInv, AsTypeOK, Pids, NoPid
  <2> QED
    BY <2>1, SMTT(30) DEF OwnersInv, VforkInv, InKernel, Alive
<1> QED
  BY <1>4, <1>5, <1>7, <1>8, <1>9 DEF OwnersInv

\* A child on its parent's memory: one holder more, and one reference.
LEMMA ShareRecords ==
  ASSUME OwnersInv, NEW p \in Pids, NEW t \in Pids, ShareSpace(p, t),
         tstate' \in [Pids -> TaskState],
         tstate'[t] = "ready", tstate'[p] \in {"ready", "parked"},
         \A u \in Pids \ {p, t} : tstate'[u] = tstate[u]
  PROVE  /\ vm' \in [Pids -> Vms \cup {0}]
         /\ rec' \in [Vms -> RecType]
         /\ p # t /\ vm[p] \in Vms /\ vm[p] \notin detached
         /\ vm'[t] = vm[p] /\ \A u \in Pids \ {t} : vm'[u] = vm[u]
         /\ \A u \in Pids : vm'[u] = 0 <=> tstate'[u] \in {"unborn", "gone"}
         /\ \A w \in Vms : RecordInv(w)'
         /\ \A w \in Vms : rec'[w].shmem_shared_out >= Cardinality(Borrowers(w)')
<1> USE DEF ShareSpace
<1> DEFINE v == vm[p]
<1>1. tstate[p] = "ready" /\ tstate[t] = "unborn" /\ p # t
  BY DEF Running, Newborn
<1>2. v \in Vms /\ p \in Holders(v) /\ RecordInv(v) /\ v # 0
  BY <1>1, Held DEF OwnersInv
<1>3. v \notin detached /\ rec[v].mem = "live" /\ rec[v].user_pml4
  BY <1>2 DEF HasSpace, Sound, RecordInv
<1>4. rec[v].pml4_ref_count = Cardinality(Holders(v))
  BY <1>2, <1>3 DEF RecordInv
<1>5. \A u \in Pids : vm'[u] = IF u = t THEN v ELSE vm[u]
  BY DEF OwnersInv, AsTypeOK
<1>6. Holders(v)' = Holders(v) \cup {t}
  BY <1>1, <1>5 DEF Holders
<1>7. t \notin Holders(v)
  BY <1>1 DEF Holders
<1>8. Cardinality(Holders(v)') = Cardinality(Holders(v)) + 1
  BY <1>6, <1>7, HoldersCount, FS_AddElement, SMTT(30)
<1>9. rec[v].pml4_ref_count + 1 \in 1 .. MaxPid
  BY <1>4, <1>8, HoldersCount, HoldersCountAfter, AsAssumption, SMTT(30)
<1>10. /\ rec' \in [Vms -> RecType]
       /\ vm' \in [Pids -> Vms \cup {0}]
  BY <1>2, <1>9, SMTT(30) DEF OwnersInv, AsTypeOK, RecType
<1>11. \A u \in Pids : vm'[u] = 0 <=> tstate'[u] \in {"unborn", "gone"}
  BY <1>1, <1>2, <1>5 DEF OwnersInv
<1>12. ASSUME NEW w \in Vms PROVE RecordInv(w)'
  <2>1. CASE w # v
    <3>1. Holders(w)' = Holders(w)
      BY <1>1, <1>2, <1>5, <2>1 DEF Holders
    <3>2. \A u \in Holders(w) : tstate'[u] = tstate[u]
      BY <1>1, <2>1 DEF Holders
    <3>3. rec'[w] = rec[w] /\ space'[w] = space[w] /\ RecordInv(w)
      BY <2>1 DEF OwnersInv, AsTypeOK
    <3> QED
      BY <3>1, <3>2, <3>3, RecordKept
  <2>2. CASE w = v
    <3>1. /\ rec'[v].mem = "live" /\ rec'[v].user_pml4 /\ space'[v] = space[v]
          /\ v \notin detached' /\ rec'[v].pml4_ref_count = rec[v].pml4_ref_count + 1
      BY <1>2, <1>3, SMTT(30) DEF OwnersInv, AsTypeOK
    <3>2. \A u \in Holders(v)' : tstate'[u] # "loading"
      BY <1>2, <1>3, <1>6 DEF RecordInv, Holders
    <3>3. space[v] = "live"
      BY <1>2, <1>3 DEF RecordInv
    <3> QED
      BY <2>2, <1>4, <1>6, <1>8, <3>1, <3>2, <3>3, SMTT(30) DEF RecordInv
  <2> QED
    BY <2>1, <2>2
<1>13. \A w \in Vms : rec'[w].shmem_shared_out >= Cardinality(Borrowers(w)')
  BY <1>2, SharesKept, SMTT(30) DEF OwnersInv, AsTypeOK
<1> QED
  BY <1>1, <1>2, <1>3, <1>5, <1>10, <1>11, <1>12, <1>13

LEMMA ThreadStep ==
  ASSUME OwnersInv, NEW p \in Pids, NEW t \in Pids, task_spawn_thread(p, t)
  PROVE  OwnersInv'
<1> USE DEF task_spawn_thread
<1>1. tstate[p] = "ready" /\ tstate[t] = "unborn"
  BY DEF ShareSpace, Running, Newborn
<1>2. /\ tstate' \in [Pids -> TaskState]
      /\ \A u \in Pids : tstate'[u] = IF u = t THEN "ready" ELSE tstate[u]
  BY DEF OwnersInv, AsTypeOK, TaskState
<1>3. /\ vm' \in [Pids -> Vms \cup {0}]
      /\ rec' \in [Vms -> RecType]
      /\ p # t /\ vm[p] \in Vms /\ vm[p] \notin detached
      /\ vm'[t] = vm[p] /\ \A u \in Pids \ {t} : vm'[u] = vm[u]
      /\ \A u \in Pids : vm'[u] = 0 <=> tstate'[u] \in {"unborn", "gone"}
      /\ \A w \in Vms : RecordInv(w)'
      /\ \A w \in Vms : rec'[w].shmem_shared_out >= Cardinality(Borrowers(w)')
  BY <1>1, <1>2, ShareRecords
<1>4. AsTypeOK'
  BY <1>2, <1>3 DEF ShareSpace, OwnersInv, AsTypeOK, TaskState, RecType
<1>5. VforkInv'
  <2>1. \A u \in Pids : u # NoPid
    BY SMTT(30) DEF Pids, NoPid
  <2> QED
    BY <1>1, <1>2, <1>3, <2>1, SMTT(30) DEF ShareSpace, OwnersInv, VforkInv, InKernel, Alive
<1> QED
  BY <1>3, <1>4, <1>5 DEF OwnersInv

LEMMA VforkStep ==
  ASSUME OwnersInv, NEW p \in Pids, NEW t \in Pids, task_spawn_vfork(p, t)
  PROVE  OwnersInv'
<1> USE DEF task_spawn_vfork
<1>1. tstate[p] = "ready" /\ tstate[t] = "unborn"
  BY DEF ShareSpace, Running, Newborn
<1>2. /\ tstate' \in [Pids -> TaskState]
      /\ \A u \in Pids : tstate'[u] = IF u = p THEN "parked" ELSE IF u = t THEN "ready" ELSE tstate[u]
  BY <1>1 DEF OwnersInv, AsTypeOK, TaskState
<1>3. /\ vm' \in [Pids -> Vms \cup {0}]
      /\ rec' \in [Vms -> RecType]
      /\ p # t /\ vm[p] \in Vms /\ vm[p] \notin detached
      /\ vm'[t] = vm[p] /\ \A u \in Pids \ {t} : vm'[u] = vm[u]
      /\ \A u \in Pids : vm'[u] = 0 <=> tstate'[u] \in {"unborn", "gone"}
      /\ \A w \in Vms : RecordInv(w)'
      /\ \A w \in Vms : rec'[w].shmem_shared_out >= Cardinality(Borrowers(w)')
  BY <1>1, <1>2, ShareRecords
<1>4. AsTypeOK'
  BY <1>2, <1>3 DEF ShareSpace, OwnersInv, AsTypeOK, TaskState, RecType
<1>5. VforkInv'
  <2>1. \A u \in Pids : /\ vfork_parent'[u] = IF u = t THEN p ELSE vfork_parent[u]
                        /\ vfork_child'[u] = IF u = p THEN t ELSE vfork_child[u]
    BY DEF OwnersInv, AsTypeOK
  <2>2. p # NoPid /\ t # NoPid
    BY SMTT(30) DEF NoPid, Pids
  <2> QED
    BY <1>1, <1>2, <1>3, <2>1, <2>2, SMTT(30) DEF ShareSpace, OwnersInv, VforkInv, InKernel, Alive
<1> QED
  BY <1>3, <1>4, <1>5 DEF OwnersInv

\* Steps that move a task from one state to another and leave its record alone.
LEMMA StatesOnly ==
  ASSUME OwnersInv, UNCHANGED <<vm, rec, space, maps, detached>>,
         tstate' \in [Pids -> TaskState],
         vfork_parent' \in [Pids -> Pids \cup {NoPid}], vfork_child' \in [Pids -> Pids \cup {NoPid}],
         \A u \in Pids : /\ tstate'[u] \in {"unborn", "gone"} <=> tstate[u] \in {"unborn", "gone"}
                         /\ tstate'[u] \in Alive => tstate[u] \in Alive
                         /\ tstate'[u] = "loading" => tstate[u] = "loading",
         VforkInv'
  PROVE  OwnersInv'
<1>1. AsTypeOK'
  BY DEF OwnersInv, AsTypeOK, TaskState
<1>2. \A u \in Pids : vm'[u] = 0 <=> tstate'[u] \in {"unborn", "gone"}
  BY DEF OwnersInv
<1>3. ASSUME NEW w \in Vms PROVE RecordInv(w)'
  <2>1. Holders(w)' = Holders(w)
    BY DEF Holders
  <2>2. \A u \in Holders(w) : u \in Pids
    BY DEF Holders
  <2> QED
    BY <2>1, <2>2, RecordKept DEF OwnersInv
<1>4. \A w \in Vms : rec'[w].shmem_shared_out >= Cardinality(Borrowers(w)')
  BY SharesKept
<1> QED
  BY <1>1, <1>2, <1>3, <1>4 DEF OwnersInv

LEMMA VforkWaitStep ==
  ASSUME OwnersInv, NEW p \in Pids, task_vfork_wait(p)
  PROVE  OwnersInv'
<1> USE DEF task_vfork_wait
<1> DEFINE c == vfork_child[p]
<1>1. tstate[p] = "woken" /\ c \in Pids
  BY SMTT(30) DEF OwnersInv, AsTypeOK, VforkInv, InKernel
<1>2. /\ tstate' \in [Pids -> TaskState]
      /\ vfork_parent' \in [Pids -> Pids \cup {NoPid}] /\ vfork_child' \in [Pids -> Pids \cup {NoPid}]
      /\ \A u \in Pids \ {p} : tstate'[u] = tstate[u] /\ vfork_child'[u] = vfork_child[u]
  BY SMTT(30) DEF OwnersInv, AsTypeOK, TaskState
<1>3. VforkInv'
  <2>0. \A u \in Pids : u # NoPid
    BY SMTT(30) DEF Pids, NoPid
  <2>1. CASE tstate[c] = "gone" \/ vfork_parent[c] # p
    <3>1. tstate'[p] = "ready" /\ vfork_child'[p] = NoPid
      BY <2>1 DEF OwnersInv, AsTypeOK
    <3>2. \A u \in Pids : ~(tstate[u] \in Alive /\ vfork_parent[u] = p)
      BY <1>1, <2>1, SMTT(30) DEF OwnersInv, VforkInv, InKernel, Alive
    <3> QED
      BY <1>1, <1>2, <2>0, <3>1, <3>2, SMTT(30) DEF OwnersInv, VforkInv, InKernel, Alive
  <2>2. CASE ~(tstate[c] = "gone" \/ vfork_parent[c] # p)
    <3>1. tstate'[p] = "parked" /\ vfork_child' = vfork_child
      BY <2>2 DEF OwnersInv, AsTypeOK
    <3> QED
      BY <1>1, <1>2, <2>0, <2>2, <3>1, SMTT(30) DEF OwnersInv, VforkInv, InKernel, Alive
  <2> QED
    BY <2>1, <2>2
<1>4. tstate'[p] \in {"ready", "parked"}
  BY DEF OwnersInv, AsTypeOK
<1> QED
  BY <1>1, <1>2, <1>3, <1>4, StatesOnly DEF Alive, InKernel

\* A task ends: if it was a vfork child, every parked parent is woken.
LEMMA Ended ==
  ASSUME OwnersInv, NEW t \in Pids, tstate[t] \in Alive \cup {"loading"},
         mark_task_exited(t)
  PROVE  /\ tstate' \in [Pids -> TaskState]
         /\ vfork_parent' \in [Pids -> Pids \cup {NoPid}]
         /\ tstate'[t] \in ZombieKind
         /\ \A u \in Pids \ {t} : \/ tstate'[u] = tstate[u]
                                  \/ tstate[u] = "parked" /\ tstate'[u] = "woken"
         /\ VforkInv'
<1> USE DEF mark_task_exited, task_vfork_release
<1>1. PICK z \in ZombieKind :
        /\ \A u \in Pids : tstate'[u] = IF u = t THEN z
                                        ELSE IF vfork_parent[t] # NoPid /\ tstate[u] = "parked"
                                             THEN "woken" ELSE tstate[u]
        /\ tstate' = [u \in Pids |-> IF u = t THEN z
                                     ELSE IF vfork_parent[t] # NoPid /\ tstate[u] = "parked"
                                          THEN "woken" ELSE tstate[u]]
  BY DEF OwnersInv, AsTypeOK
<1>2. z \in {"zombie", "claimed"}
  BY DEF ZombieKind
<1>3. tstate' \in [Pids -> TaskState]
  BY <1>1, <1>2 DEF OwnersInv, AsTypeOK, TaskState
<1>4. /\ vfork_parent' \in [Pids -> Pids \cup {NoPid}]
      /\ \A u \in Pids : vfork_parent'[u] = IF u = t THEN NoPid ELSE vfork_parent[u]
  BY DEF OwnersInv, AsTypeOK
<1>5. \A u \in Pids : u # NoPid
  BY SMTT(30) DEF Pids, NoPid
<1>6. VforkInv'
  BY <1>1, <1>2, <1>4, <1>5, SMTT(30) DEF OwnersInv, VforkInv, InKernel, Alive
<1> QED
  BY <1>1, <1>2, <1>3, <1>4, <1>6 DEF ZombieKind

LEMMA EndStep ==
  ASSUME OwnersInv, NEW t \in Pids,
         task_fail_reserved_user(t) \/ task_exit(t) \/ task_kill(t)
  PROVE  OwnersInv'
<1>1. tstate[t] \in Alive \cup {"loading"} /\ mark_task_exited(t) /\ UNCHANGED <<rec, space>>
  BY DEF task_fail_reserved_user, task_exit, task_kill, Running, Alive
<1>2. UNCHANGED <<vm, vfork_child, maps, detached>>
  BY <1>1 DEF mark_task_exited
<1>3. /\ tstate' \in [Pids -> TaskState]
      /\ vfork_parent' \in [Pids -> Pids \cup {NoPid}]
      /\ tstate'[t] \in ZombieKind
      /\ \A u \in Pids \ {t} : \/ tstate'[u] = tstate[u]
                               \/ tstate[u] = "parked" /\ tstate'[u] = "woken"
      /\ VforkInv'
  BY <1>1, Ended
<1>4. vfork_child' \in [Pids -> Pids \cup {NoPid}]
  BY <1>2 DEF OwnersInv, AsTypeOK
<1>5. \A u \in Pids : /\ tstate'[u] \in {"unborn", "gone"} <=> tstate[u] \in {"unborn", "gone"}
                      /\ tstate'[u] \in Alive => tstate[u] \in Alive
                      /\ tstate'[u] = "loading" => tstate[u] = "loading"
  BY <1>1, <1>3 DEF ZombieKind, Alive, InKernel
<1> QED
  BY <1>1, <1>2, <1>3, <1>4, <1>5, StatesOnly

LEMMA ClaimStep ==
  ASSUME OwnersInv, NEW t \in Pids, task_reap_unclaimed(t) \/ process_exec(t)
  PROVE  OwnersInv'
<1>1. /\ tstate[t] \in {"zombie", "claimed"} /\ tstate' = [tstate EXCEPT ![t] = "dead"]
      /\ UNCHANGED <<vm, vfork_parent, vfork_child, rec, space, maps, detached>>
  BY DEF task_reap_unclaimed, process_exec
<1>2. /\ tstate' \in [Pids -> TaskState]
      /\ \A u \in Pids : tstate'[u] = IF u = t THEN "dead" ELSE tstate[u]
  BY <1>1 DEF OwnersInv, AsTypeOK, TaskState
<1>3. VforkInv'
  BY <1>1, <1>2, SMTT(30) DEF OwnersInv, VforkInv, InKernel, Alive
<1>4. vfork_parent' \in [Pids -> Pids \cup {NoPid}] /\ vfork_child' \in [Pids -> Pids \cup {NoPid}]
  BY <1>1 DEF OwnersInv, AsTypeOK
<1> QED
  BY <1>1, <1>2, <1>3, <1>4, StatesOnly DEF Alive, InKernel

\* The caller of thread_exit is counted, on a record nobody has detached.
LEMMA ThreadCounted ==
  ASSUME OwnersInv, NEW t \in Pids, sys_thread_exit(t)
  PROVE  /\ tstate[t] = "ready" /\ vm[t] \in Vms /\ t \in Holders(vm[t]) /\ RecordInv(vm[t])
         /\ vm[t] \notin detached /\ rec[vm[t]].mem = "live" /\ rec[vm[t]].user_pml4
         /\ space[vm[t]] = "live"
         /\ rec[vm[t]].pml4_ref_count = Cardinality(Holders(vm[t]))
         /\ rec \in [Vms -> RecType] /\ rec[vm[t]] \in RecType
<1>1. tstate[t] = "ready" /\ rec[vm[t]].pml4_ref_count # NoRefs /\ rec[vm[t]].mem = "live"
  BY DEF sys_thread_exit, Running, Sound
<1>2. vm[t] \in Vms /\ t \in Holders(vm[t]) /\ RecordInv(vm[t])
  BY <1>1, Held DEF OwnersInv
<1>3. vm[t] \notin detached
  BY <1>1, <1>2 DEF RecordInv
<1>4. rec[vm[t]].user_pml4
  BY <1>1, <1>3, Counted DEF Alive
<1>5. rec \in [Vms -> RecType]
  BY DEF OwnersInv, AsTypeOK, RecType
<1> QED
  BY <1>1, <1>2, <1>3, <1>4, <1>5 DEF RecordInv

\* The last task of a space leaves through thread_exit: the count goes, the space
\* stays until the task is reaped.
LEMMA LastThreadStep ==
  ASSUME OwnersInv, NEW t \in Pids, sys_thread_exit(t), rec[vm[t]].pml4_ref_count - 1 <= 0
  PROVE  OwnersInv'
<1> DEFINE v == vm[t]
<1>1. /\ tstate[t] = "ready" /\ v \in Vms /\ t \in Holders(v) /\ RecordInv(v)
      /\ v \notin detached /\ rec[v].mem = "live" /\ rec[v].user_pml4 /\ space[v] = "live"
      /\ rec[v].pml4_ref_count = Cardinality(Holders(v))
      /\ rec \in [Vms -> RecType] /\ rec[v] \in RecType
  BY ThreadCounted
<1>2. /\ rec' = [rec EXCEPT ![v].pml4_ref_count = NoRefs]
      /\ mark_task_exited(t) /\ UNCHANGED <<space, vm, vfork_child, maps, detached>>
  BY DEF sys_thread_exit, mark_task_exited
<1>3. /\ tstate' \in [Pids -> TaskState]
      /\ vfork_parent' \in [Pids -> Pids \cup {NoPid}]
      /\ tstate'[t] \in ZombieKind
      /\ \A u \in Pids \ {t} : \/ tstate'[u] = tstate[u]
                               \/ tstate[u] = "parked" /\ tstate'[u] = "woken"
      /\ VforkInv'
  BY <1>1, <1>2, Ended DEF Alive
<1>4. \A u \in Pids : /\ tstate'[u] \in {"unborn", "gone"} <=> tstate[u] \in {"unborn", "gone"}
                      /\ tstate'[u] \in Alive => tstate[u] \in Alive
                      /\ tstate'[u] = "loading" => tstate[u] = "loading"
  BY <1>1, <1>3 DEF ZombieKind, Alive, InKernel
<1>5. rec' \in [Vms -> RecType]
  BY <1>1, <1>2 DEF RecType
<1>6. AsTypeOK'
  BY <1>2, <1>3, <1>5 DEF OwnersInv, AsTypeOK, TaskState, RecType
<1>7. \A u \in Pids : vm'[u] = 0 <=> tstate'[u] \in {"unborn", "gone"}
  BY <1>2, <1>4 DEF OwnersInv
<1>8. \A w \in Vms : Holders(w)' = Holders(w)
  BY <1>2, <1>4 DEF Holders
<1>9. ASSUME NEW w \in Vms PROVE RecordInv(w)'
  <2>0. \A u \in Holders(w) : u \in Pids
    BY DEF Holders
  <2>1. CASE w # v
    <3>1. rec'[w] = rec[w] /\ space'[w] = space[w] /\ RecordInv(w)
      BY <1>1, <1>2, <2>1 DEF OwnersInv
    <3> QED
      BY <1>2, <1>4, <1>8, <2>0, <3>1, RecordKept
  <2>2. CASE w = v
    <3>1. /\ rec'[v].mem = "live" /\ rec'[v].user_pml4 /\ space'[v] = "live" /\ v \notin detached'
          /\ rec'[v].pml4_ref_count = NoRefs
      BY <1>1, <1>2 DEF RecType
    <3>2. Cardinality(Holders(v)) = 1
      <4>1. rec[v].pml4_ref_count \in {NoRefs} \cup 1 .. MaxPid
        BY <1>1 DEF RecType
      <4>2. Cardinality(Holders(v)) # 0
        BY <1>1, HoldersCount, FS_EmptySet
      <4> QED
        BY <1>1, <4>2, HoldersCount, SMTT(30)
    <3>3. \A u \in Holders(v) : tstate'[u] # "loading"
      BY <1>1, <1>4, <2>0, <2>2 DEF RecordInv
    <3> QED
      BY <1>1, <1>8, <2>2, <3>1, <3>2, <3>3 DEF RecordInv
  <2> QED
    BY <2>1, <2>2
<1>10. \A w \in Vms : rec'[w].shmem_shared_out >= Cardinality(Borrowers(w)')
  BY <1>1, <1>2, SharesKept DEF RecType
<1> QED
  BY <1>3, <1>6, <1>7, <1>9, <1>10 DEF OwnersInv

\* A thread with siblings detaches the record they share.
LEMMA DetachStep ==
  ASSUME OwnersInv, NEW t \in Pids, sys_thread_exit(t), ~(rec[vm[t]].pml4_ref_count - 1 <= 0)
  PROVE  OwnersInv'
<1> DEFINE v == vm[t]
<1>1. /\ tstate[t] = "ready" /\ v \in Vms /\ t \in Holders(v) /\ RecordInv(v)
      /\ v \notin detached /\ rec[v].mem = "live" /\ rec[v].user_pml4 /\ space[v] = "live"
      /\ rec \in [Vms -> RecType] /\ rec[v] \in RecType
  BY ThreadCounted
<1>2. /\ rec' = [rec EXCEPT ![v] = [@ EXCEPT !.user_pml4 = FALSE, !.pml4_ref_count = NoRefs]]
      /\ tstate' = [tstate EXCEPT ![t] = "zombie"]
      /\ detached' = detached \cup {v}
      /\ UNCHANGED <<vm, vfork_parent, vfork_child, maps, space>>
  BY DEF sys_thread_exit
<1>3. /\ tstate' \in [Pids -> TaskState]
      /\ \A u \in Pids : tstate'[u] = IF u = t THEN "zombie" ELSE tstate[u]
  BY <1>2 DEF OwnersInv, AsTypeOK, TaskState
<1>4. rec' \in [Vms -> RecType]
  <2>1. [rec[v] EXCEPT !.user_pml4 = FALSE, !.pml4_ref_count = NoRefs] \in RecType
    BY <1>1, RecTypes
  <2> QED
    BY <1>1, <1>2, <2>1
<1>5. AsTypeOK'
  BY <1>1, <1>2, <1>3, <1>4, SMTT(30) DEF OwnersInv, AsTypeOK, TaskState, RecType
<1>6. \A u \in Pids : vm'[u] = 0 <=> tstate'[u] \in {"unborn", "gone"}
  BY <1>1, <1>2, <1>3 DEF OwnersInv
<1>7. \A w \in Vms : Holders(w)' = Holders(w)
  BY <1>1, <1>2, <1>3 DEF Holders
<1>8. ASSUME NEW w \in Vms PROVE RecordInv(w)'
  <2>0. \A u \in Holders(w) : u \in Pids
    BY DEF Holders
  <2>1. CASE w # v
    <3>1. /\ rec'[w] = rec[w] /\ space'[w] = space[w] /\ RecordInv(w)
          /\ w \in detached' <=> w \in detached
      BY <1>1, <1>2, <2>1 DEF OwnersInv
    <3> QED
      BY <1>3, <1>7, <2>0, <3>1, RecordKept DEF Alive, InKernel
  <2>2. CASE w = v
    <3>1. /\ rec'[v].mem = "live" /\ ~rec'[v].user_pml4 /\ space'[v] = "live" /\ v \in detached'
          /\ rec'[v].pml4_ref_count = NoRefs
      BY <1>1, <1>2 DEF RecType
    <3>2. \A u \in Holders(v) : tstate'[u] # "loading"
      BY <1>1, <1>3, <2>0, <2>2 DEF RecordInv
    <3> QED
      BY <1>7, <2>2, <3>1, <3>2 DEF RecordInv
  <2> QED
    BY <2>1, <2>2
<1>9. \A w \in Vms : rec'[w].shmem_shared_out >= Cardinality(Borrowers(w)')
  BY <1>1, <1>2, SharesKept DEF RecType
<1>10. VforkInv'
  BY <1>1, <1>2, <1>3, SMTT(30) DEF OwnersInv, VforkInv, InKernel, Alive
<1> QED
  BY <1>5, <1>6, <1>8, <1>9, <1>10 DEF OwnersInv

\* A holder goes.
LEMMA OneHolderLess ==
  ASSUME NEW v, NEW t \in Holders(v), Holders(v)' = Holders(v) \ {t}
  PROVE  /\ Cardinality(Holders(v)) \in Nat /\ Cardinality(Holders(v)) >= 1
         /\ Cardinality(Holders(v)') = Cardinality(Holders(v)) - 1
         /\ Cardinality(Holders(v)) = 1 => Holders(v)' = {}
<1>1. Cardinality(Holders(v)) \in Nat /\ IsFiniteSet(Holders(v))
  BY HoldersCount
<1>2. Cardinality(Holders(v)') = Cardinality(Holders(v)) - 1
  BY <1>1, FS_RemoveElement
<1>3. Cardinality(Holders(v)') \in Nat /\ IsFiniteSet(Holders(v)')
  BY HoldersCountAfter
<1>4. Cardinality(Holders(v)') = 0 => Holders(v)' = {}
  BY <1>3, FS_EmptySet
<1> QED
  BY <1>1, <1>2, <1>3, <1>4, SMTT(30)

\* The reaper lets go of a record: one holder less, or the record is freed, and
\* with it the space.
LEMMA ReapStep ==
  ASSUME OwnersInv, NEW t \in Pids, task_reap(t)
  PROVE  OwnersInv'
<1>0. PICK v \in Vms : v = vm[t]
  BY Held DEF task_reap, Sound
<1> DEFINE r == rec[v]
<1>1. tstate[t] = "dead" /\ r.mem = "live"
  BY <1>0 DEF task_reap, Sound
<1>2. v \in Vms /\ t \in Holders(v) /\ RecordInv(v)
  BY <1>0, <1>1, Held DEF task_reap, Sound
<1>3. /\ tstate' = [tstate EXCEPT ![t] = "gone"] /\ vm' = [vm EXCEPT ![t] = 0]
      /\ vfork_parent' = [vfork_parent EXCEPT ![t] = NoPid]
      /\ vfork_child' = [vfork_child EXCEPT ![t] = NoPid]
      /\ detached' = detached
  BY DEF task_reap
<1>4. \A u \in Pids : /\ tstate'[u] = IF u = t THEN "gone" ELSE tstate[u]
                      /\ vm'[u] = IF u = t THEN 0 ELSE vm[u]
                      /\ vfork_parent'[u] = IF u = t THEN NoPid ELSE vfork_parent[u]
                      /\ vfork_child'[u] = IF u = t THEN NoPid ELSE vfork_child[u]
  BY <1>3 DEF OwnersInv, AsTypeOK
<1>5. rec \in [Vms -> RecType] /\ r \in RecType
  BY <1>2 DEF OwnersInv, AsTypeOK, RecType
<1>6. \/ /\ ~r.user_pml4
         /\ rec' = [rec EXCEPT ![v].mem = "freed"] /\ UNCHANGED <<space, maps>>
      \/ /\ r.user_pml4 /\ r.pml4_ref_count # NoRefs /\ r.pml4_ref_count > 1
         /\ rec' = [rec EXCEPT ![v].pml4_ref_count = @ - 1] /\ UNCHANGED <<space, maps>>
      \/ /\ r.user_pml4 /\ ~(r.pml4_ref_count # NoRefs /\ r.pml4_ref_count > 1)
         /\ rec' = [rec EXCEPT ![v] = [@ EXCEPT !.mem = "freed", !.user_pml4 = FALSE,
                                                !.pml4_ref_count = NoRefs]]
         /\ space' = [space EXCEPT ![v] = "freed"]
         /\ maps' = {m \in maps : m[2] # v}
  BY <1>0 DEF task_reap, task_release_address_space, StillOwned, KeepSpace, free_user_pml4
<1> DEFINE Gone == [rec EXCEPT ![v] = [@ EXCEPT !.mem = "freed", !.user_pml4 = FALSE,
                                                !.pml4_ref_count = NoRefs]]
<1>6a. /\ Gone[v].mem = "freed" /\ Gone[v].user_pml4 = FALSE
       /\ Gone[v].shmem_shared_out = r.shmem_shared_out
       /\ \A w \in Vms \ {v} : Gone[w] = rec[w]
  <2>1. Gone[v] = [r EXCEPT !.mem = "freed", !.user_pml4 = FALSE, !.pml4_ref_count = NoRefs]
    BY <1>2, <1>5
  <2>2. \A w \in Vms \ {v} : Gone[w] = rec[w]
    BY <1>5
  <2> HIDE DEF Gone
  <2> QED
    BY <1>5, <2>1, <2>2 DEF RecType
<1> HIDE DEF Gone
<1>7. rec' \in [Vms -> RecType]
  <2>1. [r EXCEPT !.mem = "freed", !.user_pml4 = FALSE, !.pml4_ref_count = NoRefs] \in RecType
    BY <1>5, RecTypes
  <2>2. r.pml4_ref_count # NoRefs /\ r.pml4_ref_count > 1 => r.pml4_ref_count - 1 \in 1 .. MaxPid
    BY <1>5, AsAssumption, SMTT(30) DEF RecType
  <2>3. CASE rec' = [rec EXCEPT ![v].mem = "freed"]
    BY <1>2, <1>5, <2>3 DEF RecType
  <2>4. CASE /\ r.pml4_ref_count # NoRefs /\ r.pml4_ref_count > 1
             /\ rec' = [rec EXCEPT ![v].pml4_ref_count = @ - 1]
    BY <1>2, <1>5, <2>2, <2>4 DEF RecType
  <2>5. CASE rec' = [rec EXCEPT ![v] = [@ EXCEPT !.mem = "freed", !.user_pml4 = FALSE,
                                                 !.pml4_ref_count = NoRefs]]
    BY <1>2, <1>5, <2>1, <2>5
  <2> QED
    BY <1>6, <2>3, <2>4, <2>5
<1>8. AsTypeOK'
  <2>1. space' \in [Vms -> {"none", "live", "freed"}] /\ maps' \subseteq Vms \X Vms
    BY <1>6 DEF OwnersInv, AsTypeOK
  <2> QED
    BY <1>3, <1>7, <2>1 DEF OwnersInv, AsTypeOK, RecType
<1>9. \A u \in Pids : vm'[u] = 0 <=> tstate'[u] \in {"unborn", "gone"}
  BY <1>4 DEF OwnersInv
<1>10. ASSUME NEW w \in Vms PROVE RecordInv(w)'
  <2>0. w # 0
    BY SMTT(30) DEF Vms
  <2>1. CASE w # v
    <3>1. Holders(w)' = Holders(w)
      BY <1>0, <1>4, <2>0, <2>1 DEF Holders
    <3>2. \A u \in Holders(w) : tstate'[u] = tstate[u]
      BY <1>0, <1>4, <2>1 DEF Holders
    <3>3. rec'[w] = rec[w] /\ space'[w] = space[w] /\ RecordInv(w)
      BY <1>2, <1>6, <2>1 DEF OwnersInv, AsTypeOK
    <3> QED
      BY <1>3, <3>1, <3>2, <3>3, RecordKept
  <2>2. CASE w = v
    <3>1. Holders(v)' = Holders(v) \ {t}
      BY <1>0, <1>2, <1>4, <2>0, <2>2 DEF Holders
    <3>2. /\ Cardinality(Holders(v)) \in Nat /\ Cardinality(Holders(v)) >= 1
          /\ Cardinality(Holders(v)') = Cardinality(Holders(v)) - 1
          /\ Cardinality(Holders(v)) = 1 => Holders(v)' = {}
      BY <1>2, <3>1, OneHolderLess
    <3>3. \A u \in Holders(v)' : u \in Holders(v) /\ tstate'[u] = tstate[u]
      BY <1>4, <3>1 DEF Holders
    <3>4. CASE v \in detached
      <4>1. ~r.user_pml4
        BY <1>2, <3>4 DEF RecordInv
      <4>2. /\ rec'[v].mem = "freed" /\ ~rec'[v].user_pml4 /\ rec'[v].pml4_ref_count = r.pml4_ref_count
            /\ space'[v] = space[v] /\ v \in detached'
        BY <1>2, <1>3, <1>5, <1>6, <3>4, <4>1, SMTT(30) DEF RecType
      <4> QED
        BY <1>2, <2>2, <3>3, <3>4, <4>2 DEF RecordInv
    <3>5. CASE v \notin detached /\ ~r.user_pml4
      <4>1. Holders(v)' = {}
        BY <1>1, <1>2, <3>1, <3>5 DEF RecordInv
      <4>2. /\ rec'[v].mem = "freed" /\ ~rec'[v].user_pml4
            /\ space'[v] = space[v] /\ v \notin detached'
        BY <1>2, <1>3, <1>5, <1>6, <3>5, SMTT(30) DEF RecType
      <4> QED
        BY <1>2, <2>2, <3>5, <4>1, <4>2 DEF RecordInv
    <3>6. CASE v \notin detached /\ r.user_pml4 /\ r.pml4_ref_count # NoRefs /\ r.pml4_ref_count > 1
      <4>1. r.pml4_ref_count = Cardinality(Holders(v)) /\ space[v] = "live"
        BY <1>1, <1>2, <3>6 DEF RecordInv
      <4>2. /\ rec'[v].mem = "live" /\ rec'[v].user_pml4
            /\ rec'[v].pml4_ref_count = Cardinality(Holders(v)')
            /\ space'[v] = space[v] /\ v \notin detached'
        BY <1>1, <1>2, <1>3, <1>5, <1>6, <3>2, <3>6, <4>1, SMTT(30) DEF RecType
      <4>3. Holders(v)' # {}
        BY <3>2, <3>6, <4>1, FS_EmptySet, SMTT(30)
      <4> QED
        BY <1>1, <1>2, <2>2, <3>3, <3>6, <4>1, <4>2, <4>3 DEF RecordInv
    <3>7. CASE v \notin detached /\ r.user_pml4 /\ ~(r.pml4_ref_count # NoRefs /\ r.pml4_ref_count > 1)
      <4>1. Cardinality(Holders(v)) = 1
        BY <1>1, <1>2, <3>2, <3>7, SMTT(30) DEF RecordInv, NoRefs
      <4>2. space' = [space EXCEPT ![v] = "freed"] /\ v \notin detached' /\ rec' = Gone
        BY <1>3, <1>6, <3>7 DEF Gone
      <4>3. rec'[v].mem = "freed" /\ ~rec'[v].user_pml4 /\ space'[v] = "freed"
        BY <1>2, <1>6a, <4>2 DEF OwnersInv, AsTypeOK
      <4> QED
        BY <2>2, <3>2, <4>1, <4>2, <4>3 DEF RecordInv
    <3> QED
      BY <3>4, <3>5, <3>6, <3>7
  <2> QED
    BY <2>1, <2>2
<1>11. \A w \in Vms : rec'[w].shmem_shared_out >= Cardinality(Borrowers(w)')
  <2>1. maps' \subseteq maps
    BY <1>6
  <2>2. \A w \in Vms : rec'[w].shmem_shared_out = rec[w].shmem_shared_out
    <3>1. rec' = Gone => \A w \in Vms : rec'[w].shmem_shared_out = rec[w].shmem_shared_out
      BY <1>2, <1>5, <1>6a
    <3>2. CASE rec' # Gone
      BY <1>2, <1>5, <1>6, <3>2, SMTT(30) DEF RecType, Gone
    <3> QED
      BY <3>1, <3>2
  <2> QED
    BY <2>1, <2>2, SharesKept
<1>12. VforkInv'
  <2>1. \A u \in Pids : u # NoPid
    BY SMTT(30) DEF Pids, NoPid
  <2> QED
    BY <1>1, <1>3, <1>4, <2>1, SMTT(30) DEF OwnersInv, VforkInv, InKernel, Alive
<1> QED
  BY <1>8, <1>9, <1>10, <1>11, <1>12 DEF OwnersInv

\* execve moves a task to a record of its own; the old one loses a holder, and is
\* freed with the last of them unless it shared pages out.
LEMMA ExecStep ==
  ASSUME OwnersInv, NEW t \in Pids, NEW v \in Vms, task_exec_address_space(t, v)
  PROVE  OwnersInv'
<1>0. PICK old \in Vms : old = vm[t]
  BY Held DEF task_exec_address_space, Running, Sound
<1> DEFINE r == rec[old]
           count == IF ~r.user_pml4 THEN r.pml4_ref_count
                    ELSE IF StillOwned(r) THEN r.pml4_ref_count - 1 ELSE NoRefs
           mem == IF ExecFrees(r) THEN "freed" ELSE r.mem
           fresh == [rec[v] EXCEPT !.mem = "live", !.user_pml4 = TRUE, !.pml4_ref_count = 1]
           left == [r EXCEPT !.pml4_ref_count = count, !.mem = mem]
<1>1. tstate[t] = "ready" /\ r.mem = "live" /\ rec[v].mem = "none" /\ v # old
  BY <1>0 DEF task_exec_address_space, Running, Sound, FreshVm
<1>2. t \in Holders(old) /\ RecordInv(old) /\ RecordInv(v) /\ Holders(v) = {} /\ v \notin detached
  BY <1>0, <1>1, Held DEF task_exec_address_space, Running, Sound, OwnersInv, RecordInv
<1>3. rec \in [Vms -> RecType] /\ r \in RecType /\ rec[v] \in RecType
  BY DEF OwnersInv, AsTypeOK, RecType
<1>4. /\ vm' = [vm EXCEPT ![t] = v]
      /\ rec' = [rec EXCEPT ![v] = fresh, ![old] = left]
      /\ space' = [space EXCEPT ![v] = "live", ![old] = IF ExecFrees(r) THEN "freed" ELSE @]
      /\ maps' = IF ExecFrees(r) THEN {m \in maps : m[2] # old} ELSE maps
      /\ vfork_child' = vfork_child /\ detached' = detached
  BY <1>0 DEF task_exec_address_space
<1>5. /\ tstate' = [u \in Pids |-> IF u = t THEN "ready"
                                   ELSE IF vfork_parent[t] # NoPid /\ tstate[u] = "parked"
                                        THEN "woken" ELSE tstate[u]]
      /\ vfork_parent' = [vfork_parent EXCEPT ![t] = NoPid]
  BY DEF task_exec_address_space, task_vfork_release
<1>6. \A u \in Pids : /\ vm'[u] = IF u = t THEN v ELSE vm[u]
                      /\ vfork_parent'[u] = IF u = t THEN NoPid ELSE vfork_parent[u]
                      /\ tstate'[u] = IF u = t THEN "ready"
                                      ELSE IF vfork_parent[t] # NoPid /\ tstate[u] = "parked"
                                           THEN "woken" ELSE tstate[u]
  BY <1>4, <1>5 DEF OwnersInv, AsTypeOK
<1>7. \A u \in Pids : /\ tstate'[u] \in {"unborn", "gone"} <=> tstate[u] \in {"unborn", "gone"}
                      /\ tstate'[u] \in Alive => tstate[u] \in Alive
                      /\ tstate'[u] = "loading" => tstate[u] = "loading"
  BY <1>1, <1>6 DEF Alive, InKernel
<1>8. count \in {NoRefs} \cup 1 .. MaxPid /\ mem \in {"none", "live", "freed"}
  BY <1>3, AsAssumption, SMTT(30) DEF RecType, StillOwned
<1>9. fresh \in RecType /\ left \in RecType
  <2>1. 1 \in {NoRefs} \cup 1 .. MaxPid
    BY AsAssumption, SMTT(30) DEF Pids
  <2> HIDE DEF count, mem
  <2> QED
    BY <1>3, <1>8, <2>1, RecTypes
<1>10. /\ fresh.mem = "live" /\ fresh.user_pml4 = TRUE /\ fresh.pml4_ref_count = 1
       /\ fresh.shmem_shared_out = rec[v].shmem_shared_out
       /\ left.mem = mem /\ left.user_pml4 = r.user_pml4 /\ left.pml4_ref_count = count
       /\ left.shmem_shared_out = r.shmem_shared_out
  <2> HIDE DEF count, mem
  <2> QED
    BY <1>3 DEF RecType
<1> HIDE DEF fresh, left
<1>11. /\ rec' \in [Vms -> RecType]
       /\ rec'[v] = fresh /\ rec'[old] = left
       /\ \A w \in Vms \ {v, old} : rec'[w] = rec[w]
  BY <1>1, <1>3, <1>4, <1>9
<1>12. /\ space' \in [Vms -> {"none", "live", "freed"}]
       /\ space'[v] = "live" /\ space'[old] = IF ExecFrees(r) THEN "freed" ELSE space[old]
       /\ \A w \in Vms \ {v, old} : space'[w] = space[w]
  BY <1>1, <1>4 DEF OwnersInv, AsTypeOK
<1>13. AsTypeOK'
  <2>1. tstate' \in [Pids -> TaskState]
    BY <1>5 DEF OwnersInv, AsTypeOK, TaskState
  <2>2. maps' \subseteq Vms \X Vms
    BY <1>4 DEF OwnersInv, AsTypeOK
  <2>3. /\ vm' \in [Pids -> Vms \cup {0}] /\ vfork_parent' \in [Pids -> Pids \cup {NoPid}]
        /\ vfork_child' \in [Pids -> Pids \cup {NoPid}] /\ detached' \subseteq Vms
    BY <1>4, <1>5 DEF OwnersInv, AsTypeOK
  <2> QED
    BY <1>11, <1>12, <2>1, <2>2, <2>3 DEF AsTypeOK, TaskState, RecType
<1>14. \A u \in Pids : vm'[u] = 0 <=> tstate'[u] \in {"unborn", "gone"}
  <2>1. v # 0
    BY SMTT(30) DEF Vms
  <2> QED
    BY <1>1, <1>6, <1>7, <2>1 DEF OwnersInv
<1>15. ASSUME NEW w \in Vms PROVE RecordInv(w)'
  <2>1. CASE w \notin {v, old}
    <3>1. Holders(w)' = Holders(w)
      BY <1>0, <1>6, <1>7, <2>1 DEF Holders
    <3>2. \A u \in Holders(w) : u \in Pids
      BY DEF Holders
    <3>3. rec'[w] = rec[w] /\ space'[w] = space[w] /\ RecordInv(w)
      BY <1>11, <1>12, <2>1 DEF OwnersInv
    <3> QED
      BY <1>4, <1>7, <3>1, <3>2, <3>3, RecordKept
  <2>2. CASE w = v
    <3>1. Holders(v)' = {t}
      BY <1>1, <1>2, <1>6, <1>7 DEF Holders
    <3>2. Cardinality({t}) = 1
      BY FS_Singleton
    <3>3. tstate'[t] = "ready" /\ v \notin detached'
      BY <1>2, <1>4, <1>6
    <3> QED
      BY <1>10, <1>11, <1>12, <2>2, <3>1, <3>2, <3>3 DEF RecordInv
  <2>3. CASE w = old
    <3>1. Holders(old)' = Holders(old) \ {t}
      BY <1>0, <1>1, <1>6, <1>7 DEF Holders
    <3>2. /\ Cardinality(Holders(old)) \in Nat /\ Cardinality(Holders(old)) >= 1
          /\ Cardinality(Holders(old)') = Cardinality(Holders(old)) - 1
          /\ Cardinality(Holders(old)) = 1 => Holders(old)' = {}
      BY <1>2, <3>1, OneHolderLess
    <3>3. \A u \in Holders(old)' : /\ u \in Holders(old) /\ u \in Pids
                                   /\ tstate'[u] = "loading" => tstate[u] = "loading"
      BY <1>7, <3>1 DEF Holders
    <3>4. CASE old \in detached
      <4>1. ~r.user_pml4 /\ count = r.pml4_ref_count /\ mem = r.mem /\ ~ExecFrees(r)
        BY <1>2, <3>4 DEF RecordInv, ExecFrees
      <4>2. old \in detached'
        BY <1>4, <3>4
      <4> QED
        BY <1>1, <1>2, <1>10, <1>11, <1>12, <2>3, <3>3, <3>4, <4>1, <4>2 DEF RecordInv
    <3>5. CASE old \notin detached
      <4>1. r.user_pml4 /\ space[old] = "live" /\ old \notin detached'
        BY <1>0, <1>1, <1>2, <1>4, <3>5, Counted DEF RecordInv, Alive
      <4>2. CASE StillOwned(r)
        <5>1. r.pml4_ref_count = Cardinality(Holders(old)) /\ r.pml4_ref_count > 1
          BY <1>1, <1>2, <3>5, <4>1, <4>2 DEF RecordInv, StillOwned
        <5>2. count = Cardinality(Holders(old)') /\ mem = "live" /\ ~ExecFrees(r)
          BY <1>1, <3>2, <4>1, <4>2, <5>1 DEF ExecFrees
        <5>3. Holders(old)' # {}
          BY <3>2, <5>1, FS_EmptySet, SMTT(30)
        <5> QED
          BY <1>1, <1>2, <1>10, <1>11, <1>12, <2>3, <3>3, <3>5, <4>1, <5>2, <5>3 DEF RecordInv
      <4>3. CASE ~StillOwned(r)
        <5>1. Holders(old)' = {}
          BY <1>1, <1>2, <3>2, <3>5, <4>1, <4>3, SMTT(30) DEF RecordInv, StillOwned, NoRefs
        <5>2. CASE r.shmem_shared_out = 0
          <6>1. ExecFrees(r) /\ mem = "freed"
            BY <4>1, <4>3, <5>2 DEF ExecFrees
          <6> QED
            BY <1>10, <1>11, <1>12, <2>3, <4>1, <5>1, <6>1 DEF RecordInv
        <5>3. CASE r.shmem_shared_out # 0
          <6>1. ~ExecFrees(r) /\ mem = "live" /\ r.shmem_shared_out > 0
            BY <1>1, <1>3, <5>3, AsAssumption, SMTT(30) DEF ExecFrees, RecType
          <6> QED
            BY <1>10, <1>11, <1>12, <2>3, <4>1, <5>1, <6>1 DEF RecordInv
        <5> QED
          BY <5>2, <5>3
      <4> QED
        BY <4>2, <4>3
    <3> QED
      BY <3>4, <3>5
  <2> QED
    BY <2>1, <2>2, <2>3
<1>16. \A w \in Vms : rec'[w].shmem_shared_out >= Cardinality(Borrowers(w)')
  <2>1. maps' \subseteq maps
    BY <1>4
  <2>2. \A w \in Vms : rec'[w].shmem_shared_out = rec[w].shmem_shared_out
    BY <1>10, <1>11
  <2> QED
    BY <2>1, <2>2, SharesKept
<1>17. VforkInv'
  <2>1. \A u \in Pids : u # NoPid
    BY SMTT(30) DEF Pids, NoPid
  <2> QED
    BY <1>1, <1>4, <1>6, <2>1, SMTT(30) DEF OwnersInv, VforkInv, InKernel, Alive
<1> QED
  BY <1>13, <1>14, <1>15, <1>16, <1>17 DEF OwnersInv

\* A record of which only the number of shared pages changes stays as it was as
\* long as a task holds it.
LEMMA SharerKept ==
  ASSUME NEW v, RecordInv(v), Holders(v) # {}, UNCHANGED <<tstate, vm, space, detached>>,
         /\ rec'[v].mem = rec[v].mem /\ rec'[v].user_pml4 = rec[v].user_pml4
         /\ rec'[v].pml4_ref_count = rec[v].pml4_ref_count
  PROVE  RecordInv(v)'
<1>1. Holders(v)' = Holders(v)
  BY DEF Holders
<1> QED
  BY <1>1 DEF RecordInv

LEMMA ShareStep ==
  ASSUME OwnersInv, NEW t \in Pids, NEW u \in Pids,
         sys_shmem_share(t, u) \/ sys_shmem_unshare(t, u)
  PROVE  OwnersInv'
<1>0. PICK v \in Vms, w \in Vms : v = vm[t] /\ w = vm[u]
  BY Held DEF sys_shmem_share, sys_shmem_unshare, HasSpace, Sound
<1>1. UNCHANGED <<tstate, vm, vfork_parent, vfork_child, space, detached>>
  BY DEF sys_shmem_share, sys_shmem_unshare
<1>2. t \in Holders(v)
  BY <1>0, Held, SMTT(30) DEF Vms
<1>3. rec \in [Vms -> RecType] /\ rec[v] \in RecType
  BY DEF OwnersInv, AsTypeOK, RecType
<1>4. PICK n \in 0 .. MaxShared :
        /\ rec' = [rec EXCEPT ![v].shmem_shared_out = n]
        /\ \/ <<v, w>> \notin maps /\ maps' = maps \cup {<<v, w>>} /\ n = rec[v].shmem_shared_out + 1
           \/ <<v, w>> \in maps /\ maps' = maps \ {<<v, w>>}
              /\ n = IF 1 >= rec[v].shmem_shared_out THEN 0 ELSE rec[v].shmem_shared_out - 1
  <2>0. rec[v].shmem_shared_out \in 0 .. MaxShared
    BY <1>3 DEF RecType
  <2>1. CASE sys_shmem_share(t, u)
    <3>1. /\ rec[v].shmem_shared_out + 1 \in 0 .. MaxShared
          /\ rec' = [rec EXCEPT ![v].shmem_shared_out = rec[v].shmem_shared_out + 1]
          /\ <<v, w>> \notin maps /\ maps' = maps \cup {<<v, w>>}
      BY <1>0, <1>3, <2>0, <2>1, AsAssumption, SMTT(30) DEF sys_shmem_share
    <3> QED
      BY <3>1
  <2>2. CASE sys_shmem_unshare(t, u)
    <3> DEFINE less == IF 1 >= rec[v].shmem_shared_out THEN 0 ELSE rec[v].shmem_shared_out - 1
    <3>1. less \in 0 .. MaxShared
      BY <2>0, AsAssumption, SMTT(30)
    <3>2. /\ rec' = [rec EXCEPT ![v].shmem_shared_out = less]
          /\ <<v, w>> \in maps /\ maps' = maps \ {<<v, w>>}
      BY <1>0, <1>3, <2>0, <2>2 DEF sys_shmem_unshare
    <3> QED
      BY <3>1, <3>2
  <2> QED
    BY <2>1, <2>2
<1>5. /\ rec' \in [Vms -> RecType] /\ rec'[v].shmem_shared_out = n
      /\ rec'[v].mem = rec[v].mem /\ rec'[v].user_pml4 = rec[v].user_pml4
      /\ rec'[v].pml4_ref_count = rec[v].pml4_ref_count
      /\ \A x \in Vms \ {v} : rec'[x] = rec[x]
  BY <1>3, <1>4 DEF RecType
<1>6. AsTypeOK'
  <2>1. maps' \subseteq Vms \X Vms
    BY <1>4, SMTT(30) DEF OwnersInv, AsTypeOK
  <2> QED
    BY <1>1, <1>5, <2>1 DEF OwnersInv, AsTypeOK, RecType
<1>7. ASSUME NEW x \in Vms PROVE RecordInv(x)'
  <2>1. CASE x = v
    BY <1>1, <1>2, <1>5, <2>1, SharerKept DEF OwnersInv
  <2>2. CASE x # v
    <3>1. Holders(x)' = Holders(x)
      BY <1>1 DEF Holders
    <3> QED
      BY <1>1, <1>5, <2>2, <3>1, RecordKept DEF OwnersInv
  <2> QED
    BY <2>1, <2>2
<1>8. ASSUME NEW x \in Vms PROVE rec'[x].shmem_shared_out >= Cardinality(Borrowers(x)')
  <2>1. CASE x # v
    <3>1. Borrowers(x)' = Borrowers(x)
      BY <1>4, <2>1 DEF Borrowers
    <3> QED
      BY <1>5, <2>1, <3>1 DEF OwnersInv
  <2>2. CASE x = v
    <3>0. /\ IsFiniteSet(Borrowers(v)) /\ Cardinality(Borrowers(v)) \in Nat
          /\ rec[v].shmem_shared_out >= Cardinality(Borrowers(v)) /\ rec[v].shmem_shared_out \in Nat
      BY <1>3, BorrowersCount, AsAssumption, SMTT(30) DEF OwnersInv, RecType
    <3>1. CASE <<v, w>> \notin maps /\ maps' = maps \cup {<<v, w>>} /\ n = rec[v].shmem_shared_out + 1
      <4>1. Borrowers(v)' = Borrowers(v) \cup {w} /\ w \notin Borrowers(v)
        BY <3>1 DEF Borrowers
      <4>2. Cardinality(Borrowers(v)') = Cardinality(Borrowers(v)) + 1
        BY <3>0, <4>1, FS_AddElement
      <4> QED
        BY <1>5, <2>2, <3>0, <3>1, <4>2, SMTT(30)
    <3>2. CASE <<v, w>> \in maps /\ maps' = maps \ {<<v, w>>}
               /\ n = IF 1 >= rec[v].shmem_shared_out THEN 0 ELSE rec[v].shmem_shared_out - 1
      <4>1. Borrowers(v)' = Borrowers(v) \ {w} /\ w \in Borrowers(v)
        BY <3>2 DEF Borrowers
      <4>2. Cardinality(Borrowers(v)') = Cardinality(Borrowers(v)) - 1
        BY <3>0, <4>1, FS_RemoveElement
      <4> QED
        BY <1>5, <2>2, <3>0, <3>2, <4>2, SMTT(30)
    <3> QED
      BY <1>4, <3>1, <3>2
  <2> QED
    BY <2>1, <2>2
<1>9. VforkInv'
  BY <1>1 DEF OwnersInv, VforkInv
<1> QED
  BY <1>1, <1>6, <1>7, <1>8, <1>9 DEF OwnersInv

-----------------------------------------------------------------------------
LEMMA OwnersStep == OwnersInv /\ [AsNext]_asVars => OwnersInv'
<1> SUFFICES ASSUME OwnersInv, [AsNext]_asVars PROVE OwnersInv'
  OBVIOUS
<1>1. CASE UNCHANGED asVars
  <2>1. \A v : Holders(v)' = Holders(v) /\ Borrowers(v)' = Borrowers(v)
    BY <1>1 DEF asVars, Holders, Borrowers
  <2>2. AsTypeOK' /\ VforkInv' /\ \A v \in Vms : RecordInv(v)'
    BY <1>1, <2>1, SMTT(30) DEF asVars, OwnersInv, AsTypeOK, VforkInv, RecordInv
  <2> QED
    BY <1>1, <2>1, <2>2 DEF asVars, OwnersInv
<1>2. ASSUME NEW t \in Pids, NEW v \in Vms, task_reserve_user(t, v) \/ task_exec_address_space(t, v)
      PROVE  OwnersInv'
  BY <1>2, ReserveStep, ExecStep
<1>3. ASSUME NEW t \in Pids, NEW p \in Pids, task_spawn_thread(p, t) \/ task_spawn_vfork(p, t)
      PROVE  OwnersInv'
  BY <1>3, ThreadStep, VforkStep
<1>4. ASSUME NEW t \in Pids,
             \/ task_activate_reserved_user(t) \/ task_fail_reserved_user(t)
             \/ task_vfork_wait(t)
             \/ task_exit(t) \/ task_kill(t) \/ sys_thread_exit(t)
             \/ task_reap_unclaimed(t) \/ process_exec(t) \/ task_reap(t)
      PROVE  OwnersInv'
  BY <1>4, ActivateStep, EndStep, VforkWaitStep, LastThreadStep, DetachStep, ClaimStep, ReapStep
<1>5. ASSUME NEW t \in Pids, NEW u \in Pids, sys_shmem_share(t, u) \/ sys_shmem_unshare(t, u)
      PROVE  OwnersInv'
  BY <1>5, ShareStep
<1> QED
  BY <1>1, <1>2, <1>3, <1>4, <1>5 DEF AsNext

LEMMA OwnersAlways == AsSpec => []OwnersInv
BY InitOwners, OwnersStep, PTL DEF AsSpec

\* The invariant says what the ownership rules promise.
LEMMA OwnersEnough == OwnersInv => SpaceOwnership
<1> SUFFICES ASSUME OwnersInv PROVE SpaceOwnership
  OBVIOUS
<1>1. RefsExact
  BY DEF OwnersInv, RecordInv, RefsExact
<1>2. SpaceOutlivesTasks
  <2> SUFFICES ASSUME NEW t \in Pids, tstate[t] \in Alive PROVE vm[t] # 0 /\ space[vm[t]] = "live"
    BY DEF SpaceOutlivesTasks
  <2>1. vm[t] # 0
    BY DEF OwnersInv, Alive, InKernel
  <2> QED
    BY <2>1, Held, Counted DEF RecordInv
<1>3. RecordOutlivesTasks
  BY Held DEF RecordOutlivesTasks
<1>4. NoSpaceLeak
  BY DEF OwnersInv, RecordInv, NoSpaceLeak
<1>5. VforkParentWaits
  BY SMTT(30) DEF OwnersInv, AsTypeOK, VforkInv, VforkParentWaits, Alive, InKernel
<1>6. VforkWakeNotLost
  <2> SUFFICES ASSUME NEW p \in Pids, tstate[p] = "parked", vm[p] \notin detached
               PROVE  /\ vfork_parent[vfork_child[p]] = p
                      /\ tstate[vfork_child[p]] \in Alive /\ vm[vfork_child[p]] = vm[p]
    BY DEF VforkWakeNotLost
  <2>1. vfork_child[p] \in Pids /\ tstate[p] \in InKernel
    BY SMTT(30) DEF OwnersInv, AsTypeOK, VforkInv, InKernel
  <2> QED
    BY <2>1, SMTT(30) DEF OwnersInv, VforkInv
<1> QED
  BY <1>1, <1>2, <1>3, <1>4, <1>5, <1>6 DEF OwnersInv, SpaceOwnership

\* Who owns an address space, for any number of tasks, of records and of shared
\* pages: the count in pml4_ref_count is the number of tasks on the space; no task
\* that can run loses its page tables or its record; a space nobody holds is
\* freed; and a vfork parent waits exactly while its child is on its memory.
THEOREM SpacesOwned == AsSpec => []SpaceOwnership
BY OwnersAlways, OwnersEnough, PTL

\* execve never frees frames that a live space still maps: only a reap under way
\* does.  It frees a space only when shmem_shared_out is 0, and that counter is
\* never below the number of spaces that map a shared page.
THEOREM SharesOutliveExec == AsSpec => SharedFramesKept
<1> DEFINE Kept == \A v, r \in Vms :
                     /\ <<v, r>> \in maps /\ v \notin detached
                     /\ space[v] = "live" /\ space'[v] = "freed" /\ space'[r] = "live"
                     => \E t \in Pids : vm[t] = v /\ tstate[t] = "dead"
<1>1. OwnersInv /\ [AsNext]_asVars => [Kept]_asVars
  <2> SUFFICES ASSUME OwnersInv, AsNext, NEW v \in Vms, NEW r \in Vms,
                      <<v, r>> \in maps, space[v] = "live", space'[v] = "freed"
               PROVE  \E t \in Pids : vm[t] = v /\ tstate[t] = "dead"
    OBVIOUS
  <2>0. space \in [Vms -> {"none", "live", "freed"}]
    BY DEF OwnersInv, AsTypeOK
  <2>1. space' # space
    OBVIOUS
  <2>2. PICK t \in Pids : \/ task_activate_reserved_user(t) \/ task_reap(t)
                          \/ \E w \in Vms : task_exec_address_space(t, w)
    BY <2>1 DEF AsNext, task_reserve_user, task_spawn_thread, task_spawn_vfork, ShareSpace,
       task_fail_reserved_user, task_vfork_wait, task_exit, task_kill, sys_thread_exit,
       task_reap_unclaimed, process_exec, sys_shmem_share, sys_shmem_unshare
  <2>3. CASE task_activate_reserved_user(t)
    BY <2>0, <2>3 DEF task_activate_reserved_user
  <2>4. CASE task_reap(t)
    <3>1. space' = [space EXCEPT ![vm[t]] = "freed"]
      BY <2>1, <2>4 DEF task_reap, task_release_address_space, free_user_pml4, KeepSpace
    <3>2. vm[t] = v
      BY <2>0, <3>1
    <3> QED
      BY <2>4, <3>2 DEF task_reap
  <2>5. CASE \E w \in Vms : task_exec_address_space(t, w)
    <3>1. PICK w \in Vms : task_exec_address_space(t, w)
      BY <2>5
    <3>2. space' = [space EXCEPT ![w] = "live",
                                 ![vm[t]] = IF ExecFrees(rec[vm[t]]) THEN "freed" ELSE @]
      BY <3>1 DEF task_exec_address_space
    <3>3. vm[t] = v /\ ExecFrees(rec[v])
      BY <2>0, <3>2
    <3>4. rec[v].shmem_shared_out = 0
      BY <3>3 DEF ExecFrees
    <3>5. Borrowers(v) = {}
      <4>1. Cardinality(Borrowers(v)) <= 0 /\ Cardinality(Borrowers(v)) \in Nat
        BY <3>4, BorrowersCount DEF OwnersInv
      <4> QED
        BY <4>1, BorrowersCount, FS_EmptySet, SMTT(30)
    <3> QED
      BY <3>5 DEF Borrowers
  <2> QED
    BY <2>2, <2>3, <2>4, <2>5
<1> QED
  BY <1>1, OwnersAlways, PTL DEF AsSpec, SharedFramesKept

-----------------------------------------------------------------------------
\* The kernel heap.

BlockType == [size : Nat, free : BOOLEAN, next : Int, prev : Int]

\* The blocks B tile the heap from 0 to e in the order of their addresses, and
\* are linked in that order; t is the last.
Tiled(B, t, e) ==
  /\ DOMAIN B \subseteq Nat /\ B \in [DOMAIN B -> BlockType] /\ e \in Nat
  /\ 0 \in DOMAIN B /\ B[0].prev = Null /\ t \in DOMAIN B /\ B[t].next = Null
  /\ t + Header + B[t].size = e
  /\ \A a \in DOMAIN B :
       /\ B[a].size > 0 /\ a <= t
       /\ a # t => /\ B[a].next = a + Header + B[a].size
                   /\ B[a].next \in DOMAIN B /\ B[B[a].next].prev = a
       /\ a # 0 => B[a].prev \in DOMAIN B /\ B[a].prev < a /\ B[B[a].prev].next = a
  /\ \A a, c \in DOMAIN B : a < c => a + Header + B[a].size <= c

\* Block a and the one after it are not both free.
NotBothFree(B, a) == ~(B[a].free /\ B[B[a].next].free)

\* No two neighbours are free, unless the second is x.
Merged(B, t, x) == \A a \in DOMAIN B : a # t /\ B[a].next # x => NotBothFree(B, a)

\* The blocks in use are the payloads given out.
Lent(B, g) ==
  /\ DOMAIN g = {a + Header : a \in {x \in DOMAIN B : ~B[x].free}}
  /\ \A p \in DOMAIN g : g[p] \in Nat /\ g[p] <= B[p - Header].size

\* A heap with these blocks, last block and end.
HeapIs(h, B, t, e) ==
  /\ h = [x \in {"blocks", "head", "tail", "end"} |-> h[x]]
  /\ h.blocks = B /\ h.head = 0 /\ h.tail = t /\ h.end = e

\* The inductive invariant.
HeapInv ==
  /\ head = 0
  /\ Tiled(blocks, tail, heap_end) /\ Merged(blocks, tail, Null) /\ Lent(blocks, given)

LEMMA HeapSays == HeapInv => HeapIsSound
  <1> SUFFICES ASSUME HeapInv PROVE HeapIsSound
    OBVIOUS
  <1>1. head = 0 /\ Tiled(blocks, tail, heap_end)
    BY DEF HeapInv
  <1>2. \A a \in DOMAIN blocks : a # tail => ~(blocks[a].free /\ blocks[blocks[a].next].free)
    BY <1>1, SMTT(30) DEF HeapInv, Merged, NotBothFree, Tiled, Null
  <1>3. /\ {a + Header : a \in {x \in DOMAIN blocks : ~blocks[x].free}} = DOMAIN given
        /\ \A ptr \in DOMAIN given : given[ptr] <= blocks[ptr - Header].size
    BY DEF HeapInv, Lent
  <1>4. QED
    BY <1>1, <1>2, <1>3, SMTT(30) DEF HeapIsSound, Tiled

-----------------------------------------------------------------------------
\* Marking a block changes no link.
Marked(B, U, a, f) ==
  /\ U \in [DOMAIN B -> BlockType] /\ U[a].free = f
  /\ \A c \in DOMAIN B : /\ c # a => U[c] = B[c]
                         /\ U[c].size = B[c].size /\ U[c].next = B[c].next /\ U[c].prev = B[c].prev

LEMMA MarkedIs ==
  ASSUME NEW B, NEW t, NEW e, Tiled(B, t, e), NEW a \in DOMAIN B
  PROVE  \A f \in BOOLEAN : Marked(B, [B EXCEPT ![a].free = f], a, f)
  BY SMTT(30) DEF Marked, Tiled, BlockType

LEMMA MarkedTiles ==
  ASSUME NEW B, NEW t, NEW e, Tiled(B, t, e), NEW a, NEW f, NEW U, Marked(B, U, a, f)
  PROVE  Tiled(U, t, e) /\ DOMAIN U = DOMAIN B
  BY SMTT(30) DEF Marked, Tiled

\* The block at a takes over the one after it.
Absorbed(B, t, U, l, a) ==
  LET n == B[a].next
  IN  /\ U \in [DOMAIN B \ {n} -> BlockType] /\ l = (IF n = t THEN a ELSE t)
      /\ U[a].size = B[a].size + Header + B[n].size
      /\ U[a].next = B[n].next /\ U[a].prev = B[a].prev /\ U[a].free = B[a].free
      /\ \A c \in DOMAIN B \ {a, n} :
           /\ U[c].size = B[c].size /\ U[c].next = B[c].next /\ U[c].free = B[c].free
           /\ U[c].prev = IF n # t /\ c = B[n].next THEN a ELSE B[c].prev

LEMMA AbsorbIs ==
  ASSUME NEW h, NEW B, NEW t, NEW e, HeapIs(h, B, t, e), Tiled(B, t, e),
         NEW a \in DOMAIN B, a # t
  PROVE  \E U, l : HeapIs(Absorb(h, a), U, l, e) /\ Absorbed(B, t, U, l, a)
  <1> DEFINE n == h.blocks[a].next
             after == h.blocks[n].next
             wide == [h.blocks[a] EXCEPT !.size = @ + Header + h.blocks[n].size, !.next = after]
             V == [h.blocks EXCEPT ![a] = wide]
             X == Link(V, after, "prev", a)
             U == Without(X, n)
             l == IF after = Null THEN a ELSE h.tail
  <1>0. h.blocks = B /\ h.tail = t
    BY DEF HeapIs
  <1>2. HeapIs(Absorb(h, a), U, l, e)
    <2>1. Absorb(h, a) = [h EXCEPT !.blocks = U, !.tail = l]
      BY DEF Absorb
    <2> HIDE DEF U, l
    <2>2. QED
      BY <2>1 DEF HeapIs
  <1>1. /\ DOMAIN B \subseteq Nat /\ B \in [DOMAIN B -> BlockType] /\ n \in DOMAIN B /\ n # a
        /\ n = B[a].next /\ after = B[n].next
        /\ after = Null <=> n = t
        /\ after # Null => after \in DOMAIN B /\ after # n /\ after # a
    BY <1>0, SMTT(30) DEF Tiled, Null, Header, BlockType
  <1>3. wide \in BlockType /\ V \in [DOMAIN B -> BlockType]
    <2>1. B[a] \in BlockType /\ B[a].size + Header + B[n].size \in Nat /\ after \in Int
      BY <1>1, SMTT(30) DEF BlockType, Header
    <2> HIDE DEF n, after
    <2>2. wide \in BlockType
      BY <1>0, <2>1 DEF BlockType
    <2>3. QED
      BY <1>0, <1>1, <2>2
  <1>4. /\ V[a].size = B[a].size + Header + B[n].size /\ V[a].next = after
        /\ V[a].prev = B[a].prev /\ V[a].free = B[a].free
        /\ \A c \in DOMAIN B \ {a} : V[c] = B[c]
    <2> HIDE DEF n, after
    <2>1. B[a] \in BlockType
      BY <1>1
    <2>2. /\ wide.size = B[a].size + Header + B[n].size /\ wide.next = after
          /\ wide.prev = B[a].prev /\ wide.free = B[a].free
      BY <1>0, <2>1, SMTT(30) DEF BlockType
    <2> HIDE DEF wide
    <2>3. V[a] = wide /\ \A c \in DOMAIN B \ {a} : V[c] = B[c]
      BY <1>0, <1>1
    <2> QED
      BY <2>2, <2>3
  <1> HIDE DEF n, V, after
  <1>5. /\ X \in [DOMAIN B -> BlockType]
        /\ \A c \in DOMAIN B :
             /\ X[c].size = V[c].size /\ X[c].next = V[c].next /\ X[c].free = V[c].free
             /\ X[c].prev = IF c = after THEN a ELSE V[c].prev
    <2>1. CASE after = Null
      <3>1. X = V /\ after \notin DOMAIN B
        BY <1>1, <2>1 DEF Link, Null
      <3> QED
        BY <1>3, <3>1
    <2>2. CASE after # Null
      <3> DEFINE moved == [V[after] EXCEPT !.prev = a]
      <3>1. V[after] \in BlockType /\ a \in Int
        BY <1>1, <1>3, <2>2
      <3>2. /\ moved \in BlockType /\ moved.prev = a /\ moved.size = V[after].size
            /\ moved.next = V[after].next /\ moved.free = V[after].free
        BY <3>1, SMTT(30) DEF BlockType
      <3>3. X = [V EXCEPT ![after] = moved]
        BY <1>3, <2>2 DEF Link
      <3> HIDE DEF moved
      <3>4. \A c \in DOMAIN B : X[c] = IF c = after THEN moved ELSE V[c]
        BY <1>3, <3>3
      <3>5. X \in [DOMAIN B -> BlockType]
        BY <1>3, <3>2, <3>3
      <3> QED
        BY <3>2, <3>4, <3>5
    <2> QED
      BY <2>1, <2>2
  <1> HIDE DEF X
  <1>6. U \in [DOMAIN B \ {n} -> BlockType] /\ \A c \in DOMAIN B \ {n} : U[c] = X[c]
    BY <1>5 DEF Without
  <1> HIDE DEF U
  <1>7. /\ U[a].size = B[a].size + Header + B[n].size
        /\ U[a].next = after /\ U[a].prev = B[a].prev /\ U[a].free = B[a].free
    BY <1>1, <1>4, <1>5, <1>6, SMTT(30) DEF Null
  <1>8. \A c \in DOMAIN B \ {a, n} :
          /\ U[c].size = B[c].size /\ U[c].next = B[c].next /\ U[c].free = B[c].free
          /\ U[c].prev = IF n # t /\ c = after THEN a ELSE B[c].prev
    BY <1>1, <1>4, <1>5, <1>6, SMTT(30) DEF Null
  <1>9. l = IF n = t THEN a ELSE t
    BY <1>0, <1>1
  <1> HIDE DEF l
  <1>10. Absorbed(B, t, U, l, a)
    BY <1>1, <1>6, <1>7, <1>8, <1>9, SMTT(30) DEF Absorbed
  <1>11. QED
    BY <1>2, <1>10

LEMMA AbsorbTiles ==
  ASSUME NEW B, NEW t, NEW e, Tiled(B, t, e), NEW a \in DOMAIN B, a # t,
         NEW U, NEW l, Absorbed(B, t, U, l, a)
  PROVE  Tiled(U, l, e)
  <1> DEFINE n == B[a].next
  <1>1. /\ DOMAIN B \subseteq Nat /\ B \in [DOMAIN B -> BlockType] /\ e \in Nat
        /\ n \in DOMAIN B /\ n = a + Header + B[a].size /\ B[n].prev = a /\ n # 0
    BY SMTT(30) DEF Tiled, BlockType, Header
  <1>2. /\ DOMAIN U = DOMAIN B \ {n} /\ U \in [DOMAIN U -> BlockType]
        /\ a \in DOMAIN U /\ 0 \in DOMAIN U /\ l \in DOMAIN U
        /\ l = IF n = t THEN a ELSE t
    BY <1>1, SMTT(30) DEF Absorbed, Tiled, BlockType, Header
  <1>3. \A c \in DOMAIN U : c # a =>
          /\ U[c].size = B[c].size /\ U[c].next = B[c].next
          /\ U[c].prev = IF n # t /\ c = B[n].next THEN a ELSE B[c].prev
    BY <1>1, <1>2 DEF Absorbed
  <1>4. U[a].size = B[a].size + Header + B[n].size /\ U[a].next = B[n].next /\ U[a].prev = B[a].prev
    BY DEF Absorbed
  <1>5. \A c \in DOMAIN B : c < n => c <= a
    BY <1>1, SMTT(30) DEF Tiled, BlockType, Header
  <1> HIDE DEF n
  <1>6. \A c \in DOMAIN U : U[c].size > 0 /\ c <= l
    <2>1. \A c \in DOMAIN U : U[c].size > 0
      BY <1>1, <1>2, <1>3, <1>4, SMTT(30) DEF Tiled, BlockType, Header
    <2>2. \A c \in DOMAIN U : c \in DOMAIN B /\ c # n /\ c \in Nat /\ n \in Nat /\ c <= t
      BY <1>1, <1>2 DEF Tiled
    <2>3. \A c \in DOMAIN U : c <= l
      BY <1>2, <1>5, <2>2, SMTT(30)
    <2>4. QED
      BY <2>1, <2>3
  <1>7. ASSUME NEW c \in DOMAIN U, NEW d \in DOMAIN U, c < d
        PROVE  c + Header + U[c].size <= d
    <2>1. c \in DOMAIN B /\ d \in DOMAIN B /\ c + Header + B[c].size <= d
      BY <1>2, <1>7 DEF Tiled
    <2>2. CASE c # a
      BY <1>3, <2>1, <2>2
    <2>3. CASE c = a
      <3>1. d \in Nat /\ n \in Nat /\ n < d
        BY <1>1, <1>2, <1>5, <1>7, <2>1, <2>3, SMTT(30)
      <3>2. n + Header + B[n].size <= d
        BY <1>1, <2>1, <3>1 DEF Tiled
      <3>3. B[a].size \in Nat /\ B[n].size \in Nat
        BY <1>1 DEF BlockType
      <3>4. QED
        BY <1>1, <1>4, <2>3, <3>1, <3>2, <3>3, SMTT(30) DEF Header
    <2>4. QED
      BY <2>2, <2>3
  <1>8. U[0].prev = Null /\ U[l].next = Null /\ l + Header + U[l].size = e
    BY <1>1, <1>2, <1>3, <1>4, <1>5, SMTT(30) DEF Tiled, BlockType, Header, Null
  <1>9. ASSUME NEW c \in DOMAIN U, c # l
        PROVE  /\ U[c].next = c + Header + U[c].size
               /\ U[c].next \in DOMAIN U /\ U[U[c].next].prev = c
    BY <1>1, <1>2, <1>3, <1>4, <1>5, <1>9, SMTT(30) DEF Tiled, BlockType, Header, Null
  <1>10. ASSUME NEW c \in DOMAIN U, c # 0
         PROVE  U[c].prev \in DOMAIN U /\ U[c].prev < c /\ U[U[c].prev].next = c
    BY <1>1, <1>2, <1>3, <1>4, <1>5, <1>10, SMTT(30) DEF Tiled, BlockType, Header, Null
  <1>11. QED
    BY <1>1, <1>2, <1>6, <1>7, <1>8, <1>9, <1>10 DEF Tiled

\* Absorbing a free block leaves no pair of free neighbours that was not there.
LEMMA AbsorbMerges ==
  ASSUME NEW B, NEW t, NEW e, Tiled(B, t, e), NEW a \in DOMAIN B, a # t, B[B[a].next].free,
         NEW U, NEW l, Absorbed(B, t, U, l, a), Tiled(U, l, e), NEW x,
         B[B[a].next].next = x => x = Null,
         \A c \in DOMAIN B \ {a} : c # t /\ B[c].next # x => NotBothFree(B, c)
  PROVE  Merged(U, l, x)
  <1> DEFINE n == B[a].next
  <1>1. /\ DOMAIN B \subseteq Nat /\ n \in DOMAIN B /\ n # a
        /\ \A c \in DOMAIN B : c # t /\ B[c].next = n => c = a
        /\ \A c \in DOMAIN B : c # t => B[c].next \in DOMAIN B /\ B[c].next # Null
    BY SMTT(30) DEF Tiled, BlockType, Header, Null
  <1>2. DOMAIN U = DOMAIN B \ {n} /\ l = (IF n = t THEN a ELSE t) /\ U[a].next = B[n].next
    BY DEF Absorbed
  <1>3. \A c \in DOMAIN U : U[c].free = B[c].free /\ (c # a => U[c].next = B[c].next)
    BY <1>2 DEF Absorbed
  <1> HIDE DEF n
  <1> SUFFICES ASSUME NEW c \in DOMAIN U, c # l, U[c].next # x PROVE NotBothFree(U, c)
    BY DEF Merged
  <1>4. CASE c = a
    <2>1. n # t /\ B[n].next \in DOMAIN U /\ B[n].next # x
      BY <1>1, <1>2, <1>4 DEF Tiled
    <2>2. NotBothFree(B, n)
      BY <1>1, <2>1
    <2>3. QED
      BY <1>2, <1>3, <1>4, <2>1, <2>2 DEF NotBothFree, n
  <1>5. CASE c # a
    <2>1. c \in DOMAIN B /\ c # t /\ B[c].next \in DOMAIN U /\ U[c].next = B[c].next
      BY <1>1, <1>2, <1>3, <1>5
    <2>2. NotBothFree(B, c)
      BY <1>5, <2>1
    <2>3. QED
      BY <1>3, <2>1, <2>2 DEF NotBothFree
  <1>6. QED
    BY <1>4, <1>5

\* A free block that takes over a free one leaves the blocks in use alone.
LEMMA AbsorbLends ==
  ASSUME NEW B, NEW t, NEW a \in DOMAIN B, B[a].free, B[B[a].next].free,
         DOMAIN B \subseteq Nat, NEW U, NEW l, Absorbed(B, t, U, l, a), NEW g, Lent(B, g)
  PROVE  Lent(U, g)
  <1>1. {x \in DOMAIN U : ~U[x].free} = {x \in DOMAIN B : ~B[x].free}
    BY DEF Absorbed
  <1>2. \A x \in DOMAIN B : ~B[x].free => U[x].size = B[x].size
    BY DEF Absorbed
  <1>3. \A p \in DOMAIN g : p - Header \in DOMAIN B /\ ~B[p - Header].free
    BY SMTT(30) DEF Lent, Header
  <1>4. QED
    BY <1>1, <1>2, <1>3 DEF Lent

\* What the two merges of kfree need and give: block a and the one after it are
\* free, and no other pair but one that ends in x.
LEMMA AbsorbFree ==
  ASSUME NEW h, NEW B, NEW t, NEW e, HeapIs(h, B, t, e), Tiled(B, t, e), NEW g, Lent(B, g),
         NEW a \in DOMAIN B, a # t, B[a].free, B[B[a].next].free, NEW x,
         B[B[a].next].next = x => x = Null,
         \A c \in DOMAIN B \ {a} : c # t /\ B[c].next # x => NotBothFree(B, c)
  PROVE  \E U, l : /\ HeapIs(Absorb(h, a), U, l, e) /\ Tiled(U, l, e) /\ Lent(U, g)
                  /\ Merged(U, l, x) /\ a \in DOMAIN U /\ U[a].free
  <1>1. PICK U, l : HeapIs(Absorb(h, a), U, l, e) /\ Absorbed(B, t, U, l, a)
    BY AbsorbIs
  <1>2. Tiled(U, l, e)
    BY <1>1, AbsorbTiles
  <1>3. Merged(U, l, x)
    BY <1>1, <1>2, AbsorbMerges, SMTT(30)
  <1>4. Lent(U, g)
    BY <1>1, AbsorbLends DEF Tiled
  <1>5. a \in DOMAIN U /\ U[a].free
    BY <1>1, SMTT(30) DEF Absorbed, Tiled, BlockType, Header
  <1>6. QED
    BY <1>1, <1>2, <1>3, <1>4, <1>5

\* The block at a keeps `size` units, and a free block holds the rest.
Cut(B, t, U, l, a, size) ==
  LET x == a + Header + size
  IN  /\ U \in [DOMAIN B \cup {x} -> BlockType] /\ l = (IF a = t THEN x ELSE t)
      /\ U[a].size = size /\ U[a].next = x /\ U[a].prev = B[a].prev /\ U[a].free = FALSE
      /\ U[x].size = B[a].size - size - Header /\ U[x].next = B[a].next
      /\ U[x].prev = a /\ U[x].free = TRUE
      /\ \A c \in DOMAIN B \ {a} :
           /\ U[c].size = B[c].size /\ U[c].next = B[c].next /\ U[c].free = B[c].free
           /\ U[c].prev = IF a # t /\ c = B[a].next THEN x ELSE B[c].prev

\* A block with room to split has no block inside it.
LEMMA CutRoom ==
  ASSUME NEW B, NEW t, NEW e, Tiled(B, t, e), NEW a \in DOMAIN B, NEW size \in Nat,
         size > 0, B[a].size >= size + Header + SPLIT_THRESHOLD
  PROVE  LET x == a + Header + size
         IN  /\ x \in Nat /\ x \notin DOMAIN B /\ x # a /\ B[a] \in BlockType
             /\ a # t => B[a].next \in DOMAIN B /\ B[a].next # a
             /\ a = t <=> B[a].next = Null
  BY SMTT(30) DEF Tiled, BlockType, Header, SPLIT_THRESHOLD, Null

LEMMA CutTiles ==
  ASSUME NEW B, NEW t, NEW e, Tiled(B, t, e), NEW a \in DOMAIN B, NEW size \in Nat,
         size > 0, B[a].size >= size + Header + SPLIT_THRESHOLD,
         NEW U, NEW l, Cut(B, t, U, l, a, size)
  PROVE  Tiled(U, l, e)
  <1> DEFINE x == a + Header + size
  <1>1. /\ DOMAIN B \subseteq Nat /\ B \in [DOMAIN B -> BlockType] /\ e \in Nat
        /\ a \in Nat /\ B[a].size \in Nat
    BY DEF Tiled, BlockType
  <1>2. /\ x \in Nat /\ x \notin DOMAIN B /\ x # a
        /\ a # t => B[a].next \in DOMAIN B /\ B[a].next # a
    BY CutRoom
  <1>3. /\ DOMAIN U = DOMAIN B \cup {x} /\ U \in [DOMAIN U -> BlockType]
        /\ l = IF a = t THEN x ELSE t
    BY DEF Cut
  <1>4. /\ U[a].size = size /\ U[a].next = x /\ U[a].prev = B[a].prev
        /\ U[x].size = B[a].size - size - Header /\ U[x].next = B[a].next /\ U[x].prev = a
    BY DEF Cut
  <1>5. \A c \in DOMAIN B : c # a =>
          /\ U[c].size = B[c].size /\ U[c].next = B[c].next
          /\ U[c].prev = IF a # t /\ c = B[a].next THEN x ELSE B[c].prev
    BY DEF Cut
  <1>6. x = a + Header + size /\ x + Header + U[x].size = a + Header + B[a].size
    BY <1>1, <1>4, SMTT(30) DEF Header
  <1> HIDE DEF x
  <1>7. \A c \in DOMAIN U : U[c].size > 0 /\ c <= l
    BY <1>1, <1>2, <1>3, <1>4, <1>5, <1>6, SMTT(30) DEF Tiled, BlockType, Header, SPLIT_THRESHOLD
  <1>8. ASSUME NEW c \in DOMAIN U, NEW d \in DOMAIN U, c < d
        PROVE  c + Header + U[c].size <= d
    BY <1>1, <1>2, <1>3, <1>4, <1>5, <1>6, <1>8, SMTT(30) DEF Tiled, BlockType, Header
  <1>9. U[0].prev = Null /\ U[l].next = Null /\ l + Header + U[l].size = e /\ l \in DOMAIN U
    BY <1>1, <1>2, <1>3, <1>4, <1>5, <1>6, SMTT(30) DEF Tiled, BlockType, Header, Null
  <1>10. ASSUME NEW c \in DOMAIN U, c # l
         PROVE  /\ U[c].next = c + Header + U[c].size
                /\ U[c].next \in DOMAIN U /\ U[U[c].next].prev = c
    BY <1>1, <1>2, <1>3, <1>4, <1>5, <1>6, <1>10, SMTT(30) DEF Tiled, BlockType, Header, Null
  <1>11. ASSUME NEW c \in DOMAIN U, c # 0
         PROVE  U[c].prev \in DOMAIN U /\ U[c].prev < c /\ U[U[c].prev].next = c
    <2>1. CASE c = x
      BY <1>1, <1>2, <1>3, <1>4, <1>6, <2>1, SMTT(30) DEF Header
    <2>2. CASE a # t /\ c = B[a].next
      BY <1>1, <1>2, <1>3, <1>4, <1>5, <1>6, <2>2, SMTT(30) DEF Tiled, Header, SPLIT_THRESHOLD
    <2>3. CASE c # x /\ ~(a # t /\ c = B[a].next)
      <3>1. U[c].prev = B[c].prev /\ c \in DOMAIN B
        BY <1>3, <1>4, <1>5, <2>3
      <3>2. B[c].prev \in DOMAIN B /\ B[c].prev < c /\ B[B[c].prev].next = c /\ B[c].prev # t
        BY <1>1, <1>11, <3>1, SMTT(30) DEF Tiled, Null
      <3>3. B[c].prev # a
        BY <2>3, <3>2
      <3>4. QED
        BY <1>3, <1>5, <3>1, <3>2, <3>3
    <2>4. QED
      BY <2>1, <2>2, <2>3
  <1>12. QED
    BY <1>1, <1>2, <1>3, <1>7, <1>8, <1>9, <1>10, <1>11, SMTT(30) DEF Tiled

LEMMA CutMerges ==
  ASSUME NEW B, NEW t, NEW e, Tiled(B, t, e), Merged(B, t, Null), NEW a \in DOMAIN B, B[a].free,
         NEW size \in Nat, size > 0, B[a].size >= size + Header + SPLIT_THRESHOLD,
         NEW U, NEW l, Cut(B, t, U, l, a, size)
  PROVE  Merged(U, l, Null)
  <1> DEFINE x == a + Header + size
  <1>1. /\ x \notin DOMAIN B /\ x # a
        /\ a # t => B[a].next \in DOMAIN B /\ B[a].next # a
    BY CutRoom, SMTT(30)
  <1>2. DOMAIN U = DOMAIN B \cup {x} /\ l = IF a = t THEN x ELSE t
    BY DEF Cut
  <1>3. U[a].next = x /\ ~U[a].free /\ U[x].next = B[a].next
    BY DEF Cut
  <1>4. \A c \in DOMAIN B : c # a => U[c].next = B[c].next /\ U[c].free = B[c].free
    BY DEF Cut
  <1> HIDE DEF x
  <1> SUFFICES ASSUME NEW c \in DOMAIN U, c # l, U[c].next # Null PROVE NotBothFree(U, c)
    BY DEF Merged
  <1>5. CASE c = a
    BY <1>3, <1>5 DEF NotBothFree
  <1>6. CASE c = x
    <2>1. a # t /\ B[a].next # Null
      BY <1>2, <1>3, <1>6
    <2>2. ~B[B[a].next].free
      BY <2>1 DEF Merged, NotBothFree
    <2>3. QED
      BY <1>1, <1>3, <1>4, <1>6, <2>1, <2>2 DEF NotBothFree
  <1>7. CASE c # a /\ c # x
    <2>1. /\ c \in DOMAIN B /\ c # t /\ U[c].next = B[c].next /\ U[c].free = B[c].free
          /\ B[c].next \in DOMAIN B
      BY <1>2, <1>4, <1>7 DEF Tiled
    <2>2. ~(B[c].free /\ B[B[c].next].free)
      BY <2>1 DEF Merged, NotBothFree
    <2>3. QED
      BY <1>3, <1>4, <2>1, <2>2 DEF NotBothFree
  <1>8. QED
    BY <1>5, <1>6, <1>7

\* Block a, free until now, is given out.
LEMMA GiveLends ==
  ASSUME NEW B, NEW U, DOMAIN B \subseteq Nat, NEW a \in DOMAIN B, B[a].free,
         a \in DOMAIN U, ~U[a].free, NEW size \in Nat, size <= U[a].size,
         \A c \in DOMAIN U : c # a /\ ~U[c].free => c \in DOMAIN B,
         \A c \in DOMAIN B : c # a => c \in DOMAIN U /\ U[c].free = B[c].free /\ U[c].size = B[c].size,
         NEW g, Lent(B, g)
  PROVE  Lent(U, With(g, a + Header, size))
  <1> DEFINE k == With(g, a + Header, size)
  <1>1. /\ DOMAIN k = DOMAIN g \cup {a + Header}
        /\ \A p \in DOMAIN k : k[p] = IF p = a + Header THEN size ELSE g[p]
    BY DEF With
  <1> HIDE DEF k
  <1>2. {c \in DOMAIN U : ~U[c].free} = {c \in DOMAIN B : ~B[c].free} \cup {a}
    OBVIOUS
  <1>3. DOMAIN k = {c + Header : c \in {c \in DOMAIN U : ~U[c].free}}
    BY <1>1, <1>2, SMTT(30) DEF Lent
  <1>4. ASSUME NEW p \in DOMAIN k PROVE k[p] \in Nat /\ k[p] <= U[p - Header].size
    <2>1. CASE p = a + Header
      <3>1. p - Header = a
        BY <2>1, SMTT(30) DEF Header
      <3>2. QED
        BY <1>1, <2>1, <3>1
    <2>2. CASE p # a + Header
      <3>1. p \in DOMAIN g /\ g[p] \in Nat /\ g[p] <= B[p - Header].size
        BY <1>1, <2>2 DEF Lent
      <3>2. p - Header \in DOMAIN B /\ p - Header # a
        BY <2>2, <3>1, SMTT(30) DEF Lent, Header
      <3>3. QED
        BY <1>1, <2>2, <3>1, <3>2
    <2>3. QED
      BY <2>1, <2>2
  <1>5. QED
    BY <1>3, <1>4 DEF Lent, k

\* The lowest of a set of addresses is one of them.
LEMMA LowestAddress ==
  ASSUME NEW S \in SUBSET Nat, S # {}
  PROVE  Min(S) \in S
  <1> DEFINE less == {ss \in Nat \X Nat : ss[1] < ss[2]}
  <1>1. IsWellFoundedOn(less, Nat)
    BY NatLessThanWellFounded DEF OpToRel
  <1> HIDE DEF less
  <1>2. PICK x \in S : \A y \in S : <<y, x>> \notin less
    BY <1>1, WFMin
  <1>3. \A y \in Nat : y < x => <<y, x>> \in less
    BY DEF less
  <1>4. \A y \in S : ~ (y < x)
    BY <1>2, <1>3
  <1>5. \A y \in S : x <= y
    BY <1>4, SMTT(30)
  <1>6. QED
    BY <1>5 DEF Min

\* The first fit is given out, whole or cut.
LEMMA PlaceStep ==
  ASSUME NEW h, NEW B, NEW t, NEW e, HeapIs(h, B, t, e), Tiled(B, t, e), Merged(B, t, Null),
         NEW g, Lent(B, g), NEW size \in Nat, size > 0, FitFor(h, size) # {}
  PROVE  \E U, l : /\ HeapIs(Place(h, size), U, l, e) /\ Tiled(U, l, e) /\ Merged(U, l, Null)
                  /\ Lent(U, With(g, Min(FitFor(h, size)) + Header, size))
  <1> DEFINE a == Min(FitFor(h, size))
             b == h.blocks[a]
             x == a + Header + size
             rest == [size |-> b.size - size - Header, free |-> TRUE, next |-> b.next, prev |-> a]
             cut == [b EXCEPT !.size = size, !.next = x, !.free = FALSE]
             X == Link(h.blocks, b.next, "prev", x)
             Y == [X EXCEPT ![a] = cut]
             U == With(Y, x, rest)
             l == IF b.next = Null THEN x ELSE h.tail
  <1>1. h.blocks = B /\ h.tail = t
    BY DEF HeapIs
  <1>2. a \in DOMAIN B /\ B[a].free /\ B[a].size >= size
    <2>1. FitFor(h, size) \in SUBSET Nat
      BY <1>1 DEF FitFor, Tiled
    <2>2. a \in FitFor(h, size)
      BY <2>1, LowestAddress
    <2>3. QED
      BY <1>1, <2>2 DEF FitFor
  <1>3. CASE ~(b.size >= size + Header + SPLIT_THRESHOLD)
    <2> DEFINE V == [B EXCEPT ![a].free = FALSE]
    <2>1. Place(h, size) = [h EXCEPT !.blocks[a].free = FALSE]
      BY <1>3 DEF Place
    <2> HIDE DEF a
    <2>2. HeapIs(Place(h, size), V, t, e)
      BY <1>1, <2>1 DEF HeapIs
    <2>3. Marked(B, V, a, FALSE)
      BY <1>2, MarkedIs
    <2> HIDE DEF V
    <2>4. Tiled(V, t, e) /\ DOMAIN V = DOMAIN B
      BY <2>3, MarkedTiles
    <2>5. Merged(V, t, Null)
      BY <1>2, <2>3, <2>4, SMTT(30) DEF Marked, Merged, NotBothFree, Tiled
    <2>6. Lent(V, With(g, a + Header, size))
      <3>1. /\ DOMAIN B \subseteq Nat /\ a \in DOMAIN V /\ ~V[a].free /\ V[a].size = B[a].size
            /\ \A c \in DOMAIN B : c # a => V[c] = B[c]
        BY <1>2, <2>3, <2>4 DEF Marked, Tiled
      <3>2. size <= V[a].size
        BY <1>2, <3>1
      <3> QED
        BY <1>2, <2>4, <3>1, <3>2, GiveLends
    <2>7. QED
      BY <2>2, <2>4, <2>5, <2>6 DEF a
  <1>4. CASE b.size >= size + Header + SPLIT_THRESHOLD
    <2>1. Place(h, size) = [h EXCEPT !.blocks = U, !.tail = l]
      BY <1>4 DEF Place
    <2>2. HeapIs(Place(h, size), U, l, e)
      <3> HIDE DEF U, l
      <3> QED
        BY <2>1 DEF HeapIs
    <2> HIDE DEF a
    <2>3. Cut(B, t, U, l, a, size)
      <3>1. /\ DOMAIN B \subseteq Nat /\ B \in [DOMAIN B -> BlockType] /\ b = B[a] /\ B[a] \in BlockType
            /\ x \in Nat /\ x \notin DOMAIN B /\ x # a /\ a \in Nat
            /\ a # t => b.next \in DOMAIN B /\ b.next # a
            /\ a = t <=> b.next = Null
        BY <1>1, <1>2, <1>4, CutRoom, SMTT(30) DEF Tiled
      <3> HIDE DEF x, b
      <3>2. /\ rest \in BlockType /\ rest.size = b.size - size - Header /\ rest.next = b.next
            /\ rest.prev = a /\ rest.free = TRUE
        BY <1>4, <3>1, SMTT(30) DEF BlockType, Header, SPLIT_THRESHOLD
      <3>3. /\ cut \in BlockType /\ cut.size = size /\ cut.next = x
            /\ cut.prev = b.prev /\ cut.free = FALSE
        <4>1. b \in BlockType /\ x \in Int
          BY <3>1, SMTT(30)
        <4>2. cut \in BlockType
          BY <4>1 DEF BlockType
        <4>3. cut.size = size /\ cut.next = x /\ cut.prev = b.prev /\ cut.free = FALSE
          BY <4>1 DEF BlockType
        <4>4. QED
          BY <4>2, <4>3
      <3> HIDE DEF rest, cut
      <3>4. /\ X \in [DOMAIN B -> BlockType]
            /\ \A c \in DOMAIN B :
                 /\ X[c].size = B[c].size /\ X[c].next = B[c].next /\ X[c].free = B[c].free
                 /\ X[c].prev = IF c = b.next THEN x ELSE B[c].prev
        BY <1>1, <3>1, SMTT(30) DEF Link, BlockType, Null
      <3> HIDE DEF X
      <3>5. Y \in [DOMAIN B -> BlockType] /\ Y[a] = cut /\ \A c \in DOMAIN B \ {a} : Y[c] = X[c]
        BY <1>2, <3>3, <3>4
      <3> HIDE DEF Y
      <3>6. /\ U \in [DOMAIN B \cup {x} -> BlockType] /\ U[x] = rest
            /\ \A c \in DOMAIN B : U[c] = Y[c]
        BY <3>1, <3>2, <3>5 DEF With
      <3> HIDE DEF U
      <3>7. /\ U[a].size = size /\ U[a].next = x /\ U[a].prev = B[a].prev /\ U[a].free = FALSE
            /\ U[x].size = B[a].size - size - Header /\ U[x].next = B[a].next
            /\ U[x].prev = a /\ U[x].free = TRUE
        BY <1>2, <3>1, <3>2, <3>3, <3>5, <3>6, Zenon
      <3>8. \A c \in DOMAIN B \ {a} :
              /\ U[c].size = B[c].size /\ U[c].next = B[c].next /\ U[c].free = B[c].free
              /\ U[c].prev = IF a # t /\ c = B[a].next THEN x ELSE B[c].prev
        BY <3>1, <3>4, <3>5, <3>6, SMTT(30) DEF Null
      <3>9. l = IF a = t THEN x ELSE t
        BY <1>1, <3>1
      <3> HIDE DEF l
      <3>10. QED
        BY <3>6, <3>7, <3>8, <3>9 DEF Cut, x
    <2> HIDE DEF U, l
    <2>4. B[a].size >= size + Header + SPLIT_THRESHOLD
      BY <1>1, <1>4
    <2>5. Tiled(U, l, e)
      BY <1>2, <2>3, <2>4, CutTiles
    <2>6. Merged(U, l, Null)
      BY <1>2, <2>3, <2>4, CutMerges
    <2>7. Lent(U, With(g, a + Header, size))
      <3>1. /\ a \in DOMAIN U /\ ~U[a].free /\ U[a].size = size /\ DOMAIN B \subseteq Nat
            /\ \A c \in DOMAIN U : c # a /\ ~U[c].free => c \in DOMAIN B
            /\ \A c \in DOMAIN B : c # a => c \in DOMAIN U /\ U[c].free = B[c].free /\ U[c].size = B[c].size
        BY <1>2, <2>3, SMTT(30) DEF Cut, Tiled
      <3>2. QED
        BY <1>2, <3>1, GiveLends, SMTT(30)
    <2>8. QED
      BY <2>2, <2>5, <2>6, <2>7 DEF a
  <1>5. QED
    BY <1>3, <1>4

\* Pages always hold more than a header.
LEMMA PagesHold ==
  ASSUME NEW pages \in Nat, pages > 0
  PROVE  pages * PageUnits \in Nat /\ pages * PageUnits > Header
  <1>1. PageUnits \in Nat /\ PageUnits > Header
    BY HeapAssumption
  <1>2. pages * PageUnits \in Nat /\ pages * PageUnits >= PageUnits
    BY <1>1, SMTT(30)
  <1>3. QED
    BY <1>1, <1>2, SMTT(30) DEF Header

\* The new pages widen a free last block.
LEMMA WidenStep ==
  ASSUME NEW B, NEW t, NEW e, Tiled(B, t, e), Merged(B, t, Null), B[t].free, NEW g, Lent(B, g),
         NEW bytes \in Nat
  PROVE  LET U == [B EXCEPT ![t].size = @ + bytes]
         IN  Tiled(U, t, e + bytes) /\ Merged(U, t, Null) /\ Lent(U, g)
  <1> DEFINE U == [B EXCEPT ![t].size = @ + bytes]
  <1>1. DOMAIN B \subseteq Nat /\ B \in [DOMAIN B -> BlockType] /\ t \in DOMAIN B /\ e \in Nat
    BY DEF Tiled
  <1>2. /\ U \in [DOMAIN B -> BlockType] /\ DOMAIN U = DOMAIN B
        /\ U[t].size = B[t].size + bytes /\ B[t].size \in Nat
        /\ \A c \in DOMAIN B : /\ c # t => U[c] = B[c]
                               /\ U[c].next = B[c].next /\ U[c].prev = B[c].prev
                               /\ U[c].free = B[c].free
    BY <1>1, SMTT(30) DEF BlockType
  <1> HIDE DEF U
  <1>3. Tiled(U, t, e + bytes)
    BY <1>1, <1>2, SMTT(30) DEF Tiled, Header
  <1>4. Merged(U, t, Null)
    BY <1>1, <1>2, SMTT(30) DEF Merged, NotBothFree, Tiled
  <1>5. Lent(U, g)
    <2>1. {x \in DOMAIN U : ~U[x].free} = {x \in DOMAIN B : ~B[x].free}
      BY <1>2
    <2>2. \A p \in DOMAIN g : p - Header \in DOMAIN B /\ ~B[p - Header].free
      BY <1>1, SMTT(30) DEF Lent, Header
    <2>3. QED
      BY <1>2, <2>1, <2>2 DEF Lent
  <1>6. QED
    BY <1>3, <1>4, <1>5 DEF U

\* Or they become a free block of their own behind a block in use.
LEMMA ExtendStep ==
  ASSUME NEW B, NEW t, NEW e, Tiled(B, t, e), Merged(B, t, Null), ~B[t].free, NEW g, Lent(B, g),
         NEW bytes \in Nat, bytes > Header
  PROVE  LET new == [size |-> bytes - Header, free |-> TRUE, next |-> Null, prev |-> t]
             U == With(Link(B, t, "next", e), e, new)
         IN  Tiled(U, e, e + bytes) /\ Merged(U, e, Null) /\ Lent(U, g)
  <1> DEFINE new == [size |-> bytes - Header, free |-> TRUE, next |-> Null, prev |-> t]
             X == Link(B, t, "next", e)
             U == With(X, e, new)
  <1>1. /\ DOMAIN B \subseteq Nat /\ B \in [DOMAIN B -> BlockType] /\ t \in DOMAIN B /\ e \in Nat
        /\ t \in Nat /\ B[t].size \in Nat /\ t + Header + B[t].size = e
        /\ t # Null /\ e # Null /\ t < e /\ \A c \in DOMAIN B : c < e
    BY SMTT(30) DEF Tiled, Null, Header, BlockType
  <1>2. /\ new \in BlockType /\ new.size = bytes - Header /\ new.size > 0 /\ new.next = Null
        /\ new.prev = t /\ new.free
    BY <1>1, SMTT(30) DEF BlockType, Header, Null
  <1> HIDE DEF new
  <1>3. /\ X \in [DOMAIN B -> BlockType] /\ X[t].next = e
        /\ \A c \in DOMAIN B : /\ c # t => X[c] = B[c]
                               /\ X[c].size = B[c].size /\ X[c].prev = B[c].prev
                               /\ X[c].free = B[c].free
    BY <1>1, SMTT(30) DEF Link, BlockType
  <1> HIDE DEF X
  <1>4. /\ U \in [DOMAIN B \cup {e} -> BlockType] /\ U[e] = new
        /\ \A c \in DOMAIN B : U[c] = X[c]
    BY <1>1, <1>2, <1>3, SMTT(30) DEF With
  <1> HIDE DEF U
  <1>5. /\ DOMAIN U = DOMAIN B \cup {e} /\ e \notin DOMAIN B /\ U[t].next = e
        /\ \A c \in DOMAIN B : /\ c # t => U[c].next = B[c].next
                               /\ U[c].size = B[c].size /\ U[c].prev = B[c].prev
                               /\ U[c].free = B[c].free
    BY <1>1, <1>3, <1>4, SMTT(30)
  <1>6. Tiled(U, e, e + bytes)
    <2>1. \A c \in DOMAIN U : U[c].size > 0 /\ c <= e
      BY <1>1, <1>2, <1>4, <1>5, SMTT(30) DEF Tiled
    <2>2. \A c, d \in DOMAIN U : c < d => c + Header + U[c].size <= d
      BY <1>1, <1>2, <1>4, <1>5, SMTT(30) DEF Tiled, BlockType, Header
    <2>3. ASSUME NEW c \in DOMAIN U, c # e
          PROVE  /\ U[c].next = c + Header + U[c].size
                 /\ U[c].next \in DOMAIN U /\ U[U[c].next].prev = c
      BY <1>1, <1>2, <1>4, <1>5, <2>3, SMTT(30) DEF Tiled
    <2>4. ASSUME NEW c \in DOMAIN U, c # 0
          PROVE  U[c].prev \in DOMAIN U /\ U[c].prev < c /\ U[U[c].prev].next = c
      BY <1>1, <1>2, <1>4, <1>5, <2>4, SMTT(30) DEF Tiled, Null
    <2>5. U[0].prev = Null /\ 0 \in DOMAIN U /\ U[e].next = Null /\ e + Header + U[e].size = e + bytes
      BY <1>1, <1>2, <1>4, <1>5, SMTT(30) DEF Tiled, Header
    <2>6. QED
      BY <1>1, <1>4, <1>5, <2>1, <2>2, <2>3, <2>4, <2>5, SMTT(30) DEF Tiled
  <1>7. Merged(U, e, Null)
    BY <1>1, <1>4, <1>5, SMTT(30) DEF Merged, NotBothFree, Tiled
  <1>8. Lent(U, g)
    <2>1. {x \in DOMAIN U : ~U[x].free} = {x \in DOMAIN B : ~B[x].free}
      BY <1>2, <1>4, <1>5
    <2>2. \A p \in DOMAIN g : p - Header \in DOMAIN B /\ ~B[p - Header].free
      BY <1>1, SMTT(30) DEF Lent, Header
    <2>3. QED
      BY <1>5, <2>1, <2>2 DEF Lent
  <1>9. QED
    BY <1>6, <1>7, <1>8 DEF U, X, new

\* Growing the heap.
LEMMA AppendStep ==
  ASSUME NEW h, NEW B, NEW t, NEW e, HeapIs(h, B, t, e), Tiled(B, t, e), Merged(B, t, Null),
         NEW g, Lent(B, g), NEW pages \in Nat, pages > 0
  PROVE  \E U, l, m : /\ HeapIs(list_append(h, pages), U, l, m)
                     /\ Tiled(U, l, m) /\ Merged(U, l, Null) /\ Lent(U, g)
  <1> DEFINE bytes == pages * PageUnits
             grown == [h EXCEPT !.end = @ + bytes]
             new == [size |-> bytes - Header, free |-> TRUE, next |-> Null, prev |-> h.tail]
  <1>1. h.blocks = B /\ h.tail = t /\ h.end = e
    BY DEF HeapIs
  <1>2. bytes \in Nat /\ bytes > Header
    BY PagesHold
  <1>3. CASE B[t].free
    <2> DEFINE U == [B EXCEPT ![t].size = @ + bytes]
    <2>1. list_append(h, pages) = [grown EXCEPT !.blocks[h.tail].size = @ + bytes]
      BY <1>1, <1>3 DEF list_append
    <2> HIDE DEF bytes
    <2>2. HeapIs(list_append(h, pages), U, t, e + bytes)
      BY <1>1, <2>1 DEF HeapIs
    <2>3. Tiled(U, t, e + bytes) /\ Merged(U, t, Null) /\ Lent(U, g)
      BY <1>2, <1>3, WidenStep
    <2>4. QED
      BY <2>2, <2>3
  <1>4. CASE ~B[t].free
    <2> DEFINE V == With(Link(grown.blocks, h.tail, "next", h.end), h.end, new)
    <2>1. list_append(h, pages) = [grown EXCEPT !.blocks = V, !.tail = h.end]
      BY <1>1, <1>4 DEF list_append
    <2>2. HeapIs(list_append(h, pages), V, e, e + bytes)
      <3> HIDE DEF V, bytes
      <3> QED
        BY <1>1, <2>1 DEF HeapIs
    <2>3. V = With(Link(B, t, "next", e), e,
                   [size |-> bytes - Header, free |-> TRUE, next |-> Null, prev |-> t])
      <3>1. grown.blocks = B
        BY <1>1 DEF HeapIs
      <3>2. QED
        BY <1>1, <3>1, Zenon
    <2> HIDE DEF V, bytes
    <2>4. Tiled(V, e, e + bytes) /\ Merged(V, e, Null) /\ Lent(V, g)
      BY <1>2, <1>4, <2>3, ExtendStep
    <2>5. QED
      BY <2>2, <2>4
  <1>5. QED
    BY <1>3, <1>4

LEMMA MallocStep ==
  ASSUME HeapInv, NEW size \in Sizes, NEW frames \in 0 .. HeapPages, kmalloc(size, frames)
  PROVE  HeapInv'
  <1> DEFINE needed == (size + Header + PageUnits - 1) \div PageUnits
             mapped == Min({needed, frames})
             h == IF FitFor(Now, size) # {} \/ mapped = 0 THEN Now ELSE list_append(Now, mapped)
             a == Min(FitFor(h, size))
  <1>1. size \in Nat /\ size > 0 /\ frames \in Nat
    BY HeapAssumption, SMTT(30)
  <1>2. HeapIs(Now, blocks, tail, heap_end)
    BY DEF HeapInv, HeapIs, Now
  <1>3. mapped \in Nat
    <2>1. needed \in Nat
      <3>1. PageUnits \in Nat /\ PageUnits > 0 /\ size + Header + PageUnits - 1 \in Nat
        BY <1>1, HeapAssumption, SMTT(30) DEF Header
      <3>2. QED
        BY <3>1, SMTT(30)
    <2> HIDE DEF needed
    <2>2. {needed, frames} \in SUBSET Nat /\ {needed, frames} # {}
      BY <1>1, <2>1
    <2>3. QED
      BY <2>2, LowestAddress
  <1>4. /\ FitFor(h, size) = {} => Becomes(h) /\ UNCHANGED given
        /\ FitFor(h, size) # {} => /\ Becomes(Place(h, size))
                                   /\ given' = With(given, a + Header, size)
    BY Zenon DEF kmalloc
  <1> HIDE DEF mapped
  <1>5. \E B, t, e : /\ HeapIs(h, B, t, e) /\ Tiled(B, t, e) /\ Merged(B, t, Null) /\ Lent(B, given)
    <2>1. CASE FitFor(Now, size) # {} \/ mapped = 0
      BY <1>2, <2>1 DEF HeapInv
    <2>2. CASE ~(FitFor(Now, size) # {} \/ mapped = 0)
      <3>1. mapped > 0 /\ h = list_append(Now, mapped)
        BY <1>3, <2>2, SMTT(30)
      <3> HIDE DEF h
      <3>2. \E U, l, m : /\ HeapIs(list_append(Now, mapped), U, l, m)
                        /\ Tiled(U, l, m) /\ Merged(U, l, Null) /\ Lent(U, given)
        BY <1>2, <1>3, <3>1, AppendStep DEF HeapInv
      <3>3. QED
        BY <3>1, <3>2
    <2>3. QED
      BY <2>1, <2>2
  <1> HIDE DEF h
  <1>6. PICK B, t, e : /\ HeapIs(h, B, t, e) /\ Tiled(B, t, e) /\ Merged(B, t, Null) /\ Lent(B, given)
    BY <1>5
  <1>7. CASE FitFor(h, size) = {}
    BY <1>4, <1>6, <1>7 DEF HeapInv, HeapIs, Becomes
  <1>8. CASE FitFor(h, size) # {}
    <2>1. PICK U, l : /\ HeapIs(Place(h, size), U, l, e) /\ Tiled(U, l, e) /\ Merged(U, l, Null)
                      /\ Lent(U, With(given, a + Header, size))
      BY <1>1, <1>6, <1>8, PlaceStep
    <2> HIDE DEF a
    <2>2. QED
      BY <1>4, <1>8, <2>1 DEF HeapInv, HeapIs, Becomes
  <1>9. QED
    BY <1>7, <1>8

\* kfree marks the block, which takes over a free one after it, and is taken
\* over by a free one before it.
LEMMA FreeStep ==
  ASSUME HeapInv, NEW ptr \in DOMAIN given, kfree(ptr)
  PROVE  HeapInv'
  <1> DEFINE b == ptr - Header
             h == [Now EXCEPT !.blocks[b].free = TRUE]
             B == [blocks EXCEPT ![b].free = TRUE]
             forward == IF IsFree(h, h.blocks[b].next) THEN Absorb(h, b) ELSE h
             p == forward.blocks[b].prev
             final == IF IsFree(forward, p) THEN Absorb(forward, p) ELSE forward
             g == Without(given, ptr)
  <1>0. Becomes(final) /\ given' = g
    BY DEF kfree
  <1>1. /\ b \in DOMAIN blocks /\ ptr = b + Header /\ b \in Nat /\ ~blocks[b].free
        /\ Tiled(blocks, tail, heap_end)
    BY SMTT(30) DEF HeapInv, Lent, Tiled, Header
  <1>2. HeapIs(h, B, tail, heap_end)
    BY DEF HeapIs, Now, HeapInv
  <1>3. Marked(blocks, B, b, TRUE)
    BY <1>1, MarkedIs
  <1> HIDE DEF B, h, g
  <1>3a. Tiled(B, tail, heap_end) /\ DOMAIN B = DOMAIN blocks
    BY <1>1, <1>3, MarkedTiles
  <1>4. \A c \in DOMAIN B \ {b} : c # tail /\ B[c].next # b => NotBothFree(B, c)
    BY <1>1, <1>3, <1>3a, SMTT(30) DEF HeapInv, Marked, Merged, NotBothFree, Tiled, Null
  <1>5. Lent(B, g)
    <2>1. {x \in DOMAIN B : ~B[x].free} = {x \in DOMAIN blocks : ~blocks[x].free} \ {b}
      BY <1>1, <1>3, <1>3a DEF Marked
    <2>2. DOMAIN g = DOMAIN given \ {ptr} /\ \A q \in DOMAIN g : g[q] = given[q]
      BY DEF g, Without
    <2>3. QED
      BY <1>1, <1>3, <2>1, <2>2, SMTT(30) DEF HeapInv, Marked, Lent, Tiled, Header
  <1>6. \E U, l : /\ HeapIs(forward, U, l, heap_end) /\ Tiled(U, l, heap_end) /\ Lent(U, g)
                 /\ Merged(U, l, b) /\ b \in DOMAIN U /\ U[b].free
    <2>1. h.blocks = B
      BY <1>2 DEF HeapIs
    <2>2. CASE IsFree(h, h.blocks[b].next)
      <3>1. b # tail /\ B[B[b].next].free /\ B[B[b].next].next # b
        BY <1>1, <1>3a, <2>1, <2>2, SMTT(30) DEF IsFree, Tiled, Null, BlockType, Header
      <3>2. QED
        <4>1. b \in DOMAIN B /\ B[b].free
          BY <1>1, <1>3, <1>3a DEF Marked
        <4>2. \E U, l : /\ HeapIs(Absorb(h, b), U, l, heap_end) /\ Tiled(U, l, heap_end)
                        /\ Lent(U, g) /\ Merged(U, l, b) /\ b \in DOMAIN U /\ U[b].free
          BY <1>2, <1>3a, <1>4, <1>5, <3>1, <4>1, AbsorbFree
        <4>3. forward = Absorb(h, b)
          BY <2>2
        <4> QED
          BY <4>2, <4>3
    <2>3. CASE ~IsFree(h, h.blocks[b].next)
      <3>1. Merged(B, tail, b)
        BY <1>1, <1>3a, <1>4, <2>1, <2>3, SMTT(30) DEF IsFree, Merged, NotBothFree, Tiled, Null
      <3>2. QED
        BY <1>1, <1>2, <1>3, <1>3a, <1>5, <2>3, <3>1 DEF Marked
    <2>4. QED
      BY <2>2, <2>3
  <1>7. PICK U, l : /\ HeapIs(forward, U, l, heap_end) /\ Tiled(U, l, heap_end) /\ Lent(U, g)
                    /\ Merged(U, l, b) /\ b \in DOMAIN U /\ U[b].free
    BY <1>6
  <1> HIDE DEF forward
  <1>8. \E V, k : /\ HeapIs(final, V, k, heap_end) /\ Tiled(V, k, heap_end) /\ Lent(V, g)
                 /\ Merged(V, k, Null)
    <2>1. forward.blocks = U /\ p = U[b].prev
      BY <1>7 DEF HeapIs
    <2>2. \A c \in DOMAIN U : c # l /\ U[c].next = b => c = p
      BY <1>7, <2>1, SMTT(30) DEF Tiled
    <2> HIDE DEF p
    <2>3. CASE IsFree(forward, p)
      <3>1. /\ p \in DOMAIN U /\ p # l /\ U[p].next = b /\ U[p].free
        BY <1>7, <2>1, <2>3, SMTT(30) DEF IsFree, Tiled, Null
      <3>2. \A c \in DOMAIN U \ {p} : c # l /\ U[c].next # Null => NotBothFree(U, c)
        BY <1>7, <2>2 DEF Merged
      <3>3. QED
        BY <1>7, <2>3, <3>1, <3>2, AbsorbFree
    <2>4. CASE ~IsFree(forward, p)
      <3>1. ASSUME NEW c \in DOMAIN U, c # l, U[c].next = b PROVE NotBothFree(U, c)
        <4>1. c = p /\ c # Null
          BY <1>7, <2>2, <3>1, SMTT(30) DEF Tiled, Null
        <4>2. QED
          BY <2>1, <2>4, <4>1 DEF IsFree, NotBothFree
      <3>2. Merged(U, l, Null)
        BY <1>7, <3>1 DEF Merged
      <3>3. QED
        BY <1>7, <2>4, <3>2
    <2>5. QED
      BY <2>3, <2>4
  <1> HIDE DEF final
  <1>9. QED
    BY <1>0, <1>8 DEF HeapInv, HeapIs, Becomes
LEMMA InitHeap == HeapInit => HeapInv
  <1> SUFFICES ASSUME HeapInit PROVE HeapInv
    OBVIOUS
  <1>1. PICK pages \in 1 .. InitialPages :
          /\ blocks = [a \in {0} |-> [size |-> pages * PageUnits - Header, free |-> TRUE,
                                      next |-> Null, prev |-> Null]]
          /\ head = 0 /\ tail = 0 /\ heap_end = pages * PageUnits
          /\ given = [a \in {} |-> 0]
    BY DEF HeapInit
  <1>2. pages \in Nat /\ pages > 0
    BY <1>1, HeapAssumption, SMTT(30)
  <1> DEFINE bytes == pages * PageUnits
  <1>3. bytes \in Nat /\ bytes > Header
    BY <1>2, PagesHold
  <1>4. DOMAIN blocks = {0} /\ blocks[0] \in BlockType /\ blocks[0].size = bytes - Header
        /\ blocks[0].free /\ blocks[0].next = Null /\ blocks[0].prev = Null /\ heap_end = bytes
        /\ blocks \in [DOMAIN blocks -> BlockType]
    BY <1>1, <1>3, SMTT(30) DEF BlockType, Null, Header
  <1> HIDE DEF bytes
  <1>5. Tiled(blocks, tail, heap_end)
    BY <1>1, <1>3, <1>4, SMTT(30) DEF Tiled, Header
  <1>6. Merged(blocks, tail, Null) /\ DOMAIN given = {}
    BY <1>1, <1>4 DEF Merged
  <1>7. Lent(blocks, given)
    BY <1>4, <1>6 DEF Lent
  <1>8. QED
    BY <1>1, <1>5, <1>6, <1>7 DEF HeapInv

\* The blocks of the kernel heap tile it, linked in order, with no two free
\* neighbours, and those in use are the ones kmalloc gave out (HeapIsSound), for
\* any sizes, any page and any frames the allocator has left at each call.
THEOREM HeapSound == HeapSpec => []HeapIsSound
  <1>1. HeapInv /\ [HeapNext]_heapVars => HeapInv'
    <2> SUFFICES ASSUME HeapInv, [HeapNext]_heapVars PROVE HeapInv'
      OBVIOUS
    <2>1. CASE UNCHANGED heapVars
      BY <2>1 DEF heapVars, HeapInv
    <2>2. QED
      BY <2>1, MallocStep, FreeStep DEF HeapNext
  <1>2. QED
    BY <1>1, InitHeap, HeapSays, PTL DEF HeapSpec
=============================================================================
