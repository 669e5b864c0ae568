---------------------------- MODULE AddressSpace ----------------------------
(***************************************************************************)
(* Who owns a user address space: the struct task_vm record, the PML4 and  *)
(* its reference count, through spawn, thread creation, vfork, exec, exit, *)
(* kill and reap (sched/sched.c), sys_thread_exit and the share counts of  *)
(* sys_shmem_share (arch/syscall.c).                                       *)
(*                                                                         *)
(* A record and the PML4 it is created for have one identity, v \in Vms;   *)
(* neither is reused, so that what a stale pointer would reach stays       *)
(* visible.  Pids are handed out in order, as next_pid++ does.  A step is  *)
(* the kernel code between two places it can sleep: task_reap sleeps       *)
(* closing files between claiming its victim and freeing the space, and    *)
(* execve has slept before task_exec_address_space and sleeps no more.     *)
(*                                                                         *)
(* sys_thread_exit of a thread with siblings clears the fields of the      *)
(* record they all share.  `detached` remembers those records: the         *)
(* properties are about the others.  Nothing is modelled of a task whose   *)
(* record has been freed.                                                  *)
(***************************************************************************)
EXTENDS Integers, FiniteSets

CONSTANTS MaxPid,              \* bound on next_pid
          MaxVm,               \* bound on the records ever allocated
          MaxShared            \* bound on a record's pages shared out

ASSUME AsAssumption == MaxPid \in Nat /\ MaxVm \in Nat /\ MaxShared \in Nat

Pids == 1 .. MaxPid
Vms == 1 .. MaxVm
NoPid == 0
NoRefs == -1                   \* a null pml4_ref_count

VARIABLES
    tstate,          \* "zombie" is unclaimed, "claimed" a zombie with a waiter
    vm,              \* task->vm; 0 before it is born
    vfork_parent,
    vfork_child,     \* the argument of the task_vfork_wait a task is in
    rec,             \* the records: allocation state and fields
    space,           \* the PML4s and the user frames they own
    maps,            \* <<owner, receiver>>: receiver maps a page owner shared
    detached

asVars == <<tstate, vm, vfork_parent, vfork_child, rec, space, maps, detached>>

AsInit ==
    /\ tstate = [t \in Pids |-> "unborn"]
    /\ vm = [t \in Pids |-> 0]
    /\ vfork_parent = [t \in Pids |-> NoPid]
    /\ vfork_child = [t \in Pids |-> NoPid]
    /\ rec = [v \in Vms |-> [mem |-> "none", user_pml4 |-> FALSE,
                             pml4_ref_count |-> NoRefs, shmem_shared_out |-> 0]]
    /\ space = [v \in Vms |-> "none"]
    /\ maps = {}
    /\ detached = {}

-----------------------------------------------------------------------------
InKernel == {"parked", "woken"}             \* a vfork parent, waiting
Alive == {"ready"} \cup InKernel
Holders(v) == {t \in Pids : vm[t] = v /\ tstate[t] \notin {"unborn", "gone"}}

Newborn(t) == tstate[t] = "unborn" /\ \A s \in 1 .. (t - 1) : tstate[s] # "unborn"
FreshVm(v) == rec[v].mem = "none" /\ \A w \in 1 .. (v - 1) : rec[w].mem # "none"

\* A task the model follows: its record has not been freed under it.
Sound(t) == vm[t] # 0 /\ rec[vm[t]].mem = "live"
Running(t) == tstate[t] = "ready" /\ Sound(t)
HasSpace(t) == Sound(t) /\ rec[vm[t]].user_pml4      \* task_pml4(t)

NewRecord(v) == rec' = [rec EXCEPT ![v].mem = "live"]

task_reserve_user(t, v) ==
    /\ Newborn(t) /\ FreshVm(v)
    /\ tstate' = [tstate EXCEPT ![t] = "loading"]
    /\ vm' = [vm EXCEPT ![t] = v]
    /\ NewRecord(v)
    /\ UNCHANGED <<vfork_parent, vfork_child, space, maps, detached>>

task_activate_reserved_user(t) ==
    /\ tstate[t] = "loading"
    /\ tstate' = [tstate EXCEPT ![t] = "ready"]
    /\ rec' = [rec EXCEPT ![vm[t]] = [@ EXCEPT !.user_pml4 = TRUE, !.pml4_ref_count = 1]]
    /\ space' = [space EXCEPT ![vm[t]] = "live"]
    /\ UNCHANGED <<vm, vfork_parent, vfork_child, maps, detached>>

\* Faulty variant: a child is not counted.
SharesUncounted(p, t) ==
    /\ Running(p) /\ HasSpace(p) /\ rec[vm[p]].pml4_ref_count # NoRefs
    /\ Newborn(t)
    /\ vm' = [vm EXCEPT ![t] = vm[p]]
    /\ UNCHANGED <<rec, space, maps, detached>>

\* Both kinds of child that run on their parent's address space.
ShareSpace(p, t) ==
    /\ Running(p) /\ HasSpace(p) /\ rec[vm[p]].pml4_ref_count # NoRefs
    /\ Newborn(t)
    /\ vm' = [vm EXCEPT ![t] = vm[p]]
    /\ rec' = [rec EXCEPT ![vm[p]].pml4_ref_count = @ + 1]
    /\ UNCHANGED <<space, maps, detached>>

task_spawn_thread(p, t) ==
    /\ ShareSpace(p, t)
    /\ tstate' = [tstate EXCEPT ![t] = "ready"]
    /\ UNCHANGED <<vfork_parent, vfork_child>>

\* vfork_from: spawns the child and parks in task_vfork_wait.
task_spawn_vfork(p, t) ==
    /\ ShareSpace(p, t)
    /\ tstate' = [tstate EXCEPT ![t] = "ready", ![p] = "parked"]
    /\ vfork_parent' = [vfork_parent EXCEPT ![t] = p]
    /\ vfork_child' = [vfork_child EXCEPT ![p] = t]

\* A woken vfork parent looks at its own child, and parks again or returns.
task_vfork_wait(p) ==
    LET c == vfork_child[p] IN
    /\ tstate[p] = "woken"
    /\ IF tstate[c] = "gone" \/ vfork_parent[c] # p
       THEN /\ tstate' = [tstate EXCEPT ![p] = "ready"]
            /\ vfork_child' = [vfork_child EXCEPT ![p] = NoPid]
       ELSE tstate' = [tstate EXCEPT ![p] = "parked"] /\ UNCHANGED vfork_child
    /\ UNCHANGED <<vm, vfork_parent, rec, space, maps, detached>>

\* The task states after t moves to s and, if it was a vfork child, wakes every
\* vfork parent.
task_vfork_release(t, s) ==
    /\ tstate' = [p \in Pids |->
                    IF p = t THEN s
                    ELSE IF vfork_parent[t] # NoPid /\ tstate[p] = "parked"
                         THEN "woken" ELSE tstate[p]]
    /\ vfork_parent' = [vfork_parent EXCEPT ![t] = NoPid]

\* free_user_pml4: the frames go back, and what the space received is unmapped.
free_user_pml4(v) ==
    /\ space' = [space EXCEPT ![v] = "freed"]
    /\ maps' = {m \in maps : m[2] # v}

KeepSpace == UNCHANGED <<space, maps>>

\* Another task still counts on the space of record r.
StillOwned(r) == r.pml4_ref_count # NoRefs /\ r.pml4_ref_count > 1

\* Faulty variant: pages shared out do not keep an old image.
FreesSharer(r) == r.user_pml4 /\ ~StillOwned(r)

ExecFrees(r) == r.user_pml4 /\ ~StillOwned(r) /\ r.shmem_shared_out = 0

task_exec_address_space(t, v) ==
    LET old == vm[t]
        r == rec[old]
        fresh == [rec[v] EXCEPT !.mem = "live", !.user_pml4 = TRUE, !.pml4_ref_count = 1]
        left == [r EXCEPT !.pml4_ref_count = IF ~r.user_pml4 THEN @
                                             ELSE IF StillOwned(r) THEN @ - 1 ELSE NoRefs,
                          !.mem = IF ExecFrees(r) THEN "freed" ELSE @]
    IN
    /\ Running(t) /\ FreshVm(v)
    /\ vm' = [vm EXCEPT ![t] = v]
    /\ task_vfork_release(t, "ready")
    /\ rec' = [rec EXCEPT ![v] = fresh, ![old] = left]
    /\ space' = [space EXCEPT ![v] = "live", ![old] = IF ExecFrees(r) THEN "freed" ELSE @]
    /\ maps' = IF ExecFrees(r) THEN {m \in maps : m[2] # old} ELSE maps
    /\ UNCHANGED <<vfork_child, detached>>

\* Whether a process_exec is waiting for the task's exit code.
ZombieKind == {"zombie", "claimed"}

mark_task_exited(t) ==
    /\ \E z \in ZombieKind : task_vfork_release(t, z)
    /\ UNCHANGED <<vm, vfork_child, maps, detached>>

task_fail_reserved_user(t) ==
    /\ tstate[t] = "loading"
    /\ mark_task_exited(t)
    /\ UNCHANGED <<rec, space>>

task_exit(t) ==
    /\ Running(t)
    /\ mark_task_exited(t)
    /\ UNCHANGED <<rec, space>>

task_kill(t) ==
    /\ tstate[t] \in Alive /\ HasSpace(t)
    /\ mark_task_exited(t)
    /\ UNCHANGED <<rec, space>>

sys_thread_exit(t) ==
    LET left == rec[vm[t]].pml4_ref_count - 1 IN
    /\ Running(t) /\ rec[vm[t]].pml4_ref_count # NoRefs
    /\ IF left <= 0
       THEN /\ rec' = [rec EXCEPT ![vm[t]].pml4_ref_count = NoRefs]
            /\ mark_task_exited(t)
       ELSE /\ rec' = [rec EXCEPT ![vm[t]] = [@ EXCEPT !.user_pml4 = FALSE,
                                                       !.pml4_ref_count = NoRefs]]
            /\ tstate' = [tstate EXCEPT ![t] = "zombie"]      \* task_exit_thread
            /\ detached' = detached \cup {vm[t]}
            /\ UNCHANGED <<vm, vfork_parent, vfork_child, maps>>
    /\ UNCHANGED space

\* The reaper's sweep passes over a space with pages shared out; process_exec
\* reaps the child it waited for in any case.  task_reap claims its victim ...
task_reap_unclaimed(t) ==
    /\ tstate[t] = "zombie" /\ Sound(t) /\ rec[vm[t]].shmem_shared_out = 0
    /\ tstate' = [tstate EXCEPT ![t] = "dead"]
    /\ UNCHANGED <<vm, vfork_parent, vfork_child, rec, space, maps, detached>>

process_exec(t) ==
    /\ tstate[t] = "claimed"
    /\ tstate' = [tstate EXCEPT ![t] = "dead"]
    /\ UNCHANGED <<vm, vfork_parent, vfork_child, rec, space, maps, detached>>

\* The space, and with it the record (task_state_free), unless somebody else
\* still owns them.
task_release_address_space(v) ==
    IF ~rec[v].user_pml4
    THEN rec' = [rec EXCEPT ![v].mem = "freed"] /\ KeepSpace
    ELSE IF StillOwned(rec[v])
    THEN rec' = [rec EXCEPT ![v].pml4_ref_count = @ - 1] /\ KeepSpace
    ELSE /\ rec' = [rec EXCEPT ![v] = [@ EXCEPT !.mem = "freed", !.user_pml4 = FALSE,
                                                !.pml4_ref_count = NoRefs]]
         /\ free_user_pml4(v)

\* ... and lets go of the space when the files are closed.
task_reap(t) ==
    /\ tstate[t] = "dead" /\ Sound(t)
    /\ tstate' = [tstate EXCEPT ![t] = "gone"]
    /\ vm' = [vm EXCEPT ![t] = 0]
    /\ vfork_parent' = [vfork_parent EXCEPT ![t] = NoPid]
    /\ vfork_child' = [vfork_child EXCEPT ![t] = NoPid]
    /\ task_release_address_space(vm[t])
    /\ UNCHANGED detached

\* One page, into another space, and each pair of spaces once.
sys_shmem_share(t, u) ==
    /\ Running(t) /\ HasSpace(t) /\ HasSpace(u)
    /\ vm[t] # vm[u] /\ <<vm[t], vm[u]>> \notin maps
    /\ rec[vm[t]].shmem_shared_out < MaxShared
    /\ maps' = maps \cup {<<vm[t], vm[u]>>}
    /\ rec' = [rec EXCEPT ![vm[t]].shmem_shared_out = @ + 1]
    /\ UNCHANGED <<tstate, vm, vfork_parent, vfork_child, space, detached>>

\* Programs take back what they shared.
sys_shmem_unshare(t, u) ==
    /\ Running(t) /\ HasSpace(t) /\ HasSpace(u)
    /\ <<vm[t], vm[u]>> \in maps
    /\ maps' = maps \ {<<vm[t], vm[u]>>}
    /\ rec' = [rec EXCEPT ![vm[t]].shmem_shared_out = IF 1 >= @ THEN 0 ELSE @ - 1]
    /\ UNCHANGED <<tstate, vm, vfork_parent, vfork_child, space, detached>>

AsNext ==
    \E t \in Pids :
        \/ \E v \in Vms : task_reserve_user(t, v) \/ task_exec_address_space(t, v)
        \/ \E p \in Pids : task_spawn_thread(p, t) \/ task_spawn_vfork(p, t)
        \/ task_activate_reserved_user(t) \/ task_fail_reserved_user(t)
        \/ task_vfork_wait(t)
        \/ task_exit(t) \/ task_kill(t) \/ sys_thread_exit(t)
        \/ task_reap_unclaimed(t) \/ process_exec(t) \/ task_reap(t)
        \/ \E u \in Pids : sys_shmem_share(t, u) \/ sys_shmem_unshare(t, u)

AsSpec == AsInit /\ [][AsNext]_asVars

-----------------------------------------------------------------------------
(* Properties *)

AsTypeOK ==
    /\ tstate \in [Pids -> {"unborn", "loading", "ready", "parked", "woken",
                            "zombie", "claimed", "dead", "gone"}]
    /\ vm \in [Pids -> Vms \cup {0}]
    /\ vfork_parent \in [Pids -> Pids \cup {NoPid}]
    /\ vfork_child \in [Pids -> Pids \cup {NoPid}]
    /\ rec \in [Vms -> [mem : {"none", "live", "freed"}, user_pml4 : BOOLEAN,
                        pml4_ref_count : {NoRefs} \cup 1 .. MaxPid,
                        shmem_shared_out : 0 .. MaxShared]]
    /\ space \in [Vms -> {"none", "live", "freed"}]
    /\ maps \subseteq Vms \X Vms
    /\ detached \subseteq Vms

\* The reference count of a space is the number of tasks that hold it, zombies
\* included, at every step of spawn, vfork, exec, exit and reap.  Only a space
\* whose last holder called thread_exit has no count any more.
RefsExact ==
    \A v \in Vms \ detached :
        rec[v].mem = "live" /\ rec[v].user_pml4 /\ Holders(v) # {} =>
            \/ rec[v].pml4_ref_count = Cardinality(Holders(v))
            \/ rec[v].pml4_ref_count = NoRefs /\ Cardinality(Holders(v)) = 1

\* A task that can still run finds its page tables in place, even when a
\* sibling detached the record.
SpaceOutlivesTasks ==
    \A t \in Pids : tstate[t] \in Alive => vm[t] # 0 /\ space[vm[t]] = "live"

\* The record of a task is not freed before the task is reaped, unless some
\* thread with siblings called thread_exit.
RecordOutlivesTasks ==
    \A t \in Pids : vm[t] # 0 /\ vm[t] \notin detached => rec[vm[t]].mem = "live"

\* A space nobody holds has been freed, unless its pages were shared out.
NoSpaceLeak ==
    \A v \in Vms \ detached :
        space[v] = "live" /\ Holders(v) = {} => rec[v].shmem_shared_out > 0

\* While a vfork child runs on its parent's memory, the parent does not.
VforkParentWaits ==
    \A t \in Pids :
        tstate[t] \in Alive /\ vfork_parent[t] # NoPid =>
            tstate[vfork_parent[t]] \notin {"unborn", "loading", "ready"}

\* exec never frees frames a live space still maps: only a reap that was already
\* under way does.
SharedFramesKept ==
    [][\A v, r \in Vms :
            /\ <<v, r>> \in maps /\ v \notin detached
            /\ space[v] = "live" /\ space'[v] = "freed" /\ space'[r] = "live"
            => \E t \in Pids : vm[t] = v /\ tstate[t] = "dead"]_asVars

\* A parent parked in vfork has a child that is still on its memory: the wakeup
\* of task_vfork_release, which goes to every parked parent at once and which
\* each answers by looking at its own child, is never lost.  A child that leaves
\* through thread_exit wakes nobody, and is excepted.
VforkWakeNotLost ==
    \A p \in Pids :
        tstate[p] = "parked" /\ vm[p] \notin detached =>
            /\ vfork_parent[vfork_child[p]] = p
            /\ tstate[vfork_child[p]] \in Alive
            /\ vm[vfork_child[p]] = vm[p]

\* Who owns an address space: counted exactly, freed with its last task and not
\* before, and a vfork parent waits as long as its child is on its memory, and no
\* longer.
SpaceOwnership ==
    /\ AsTypeOK /\ RefsExact /\ SpaceOutlivesTasks /\ RecordOutlivesTasks /\ NoSpaceLeak
    /\ VforkParentWaits /\ VforkWakeNotLost
=============================================================================
