----------------------------- MODULE PipeProofs -----------------------------
(***************************************************************************)
(* Proofs about Pipe, for any finite set of tasks, any capacity and any    *)
(* lengths: the invariant PipeInv, and that the ring implements ByteQueue. *)
(***************************************************************************)
EXTENDS Pipe, WalkProofs, SequenceTheorems

\* The provers a leaf is tried with, and their seconds.
USE ZenonT(60), SMTT(30)

\* An index past the end of the ring, by less than a turn, wraps once.
LEMMA Wrap ==
  ASSUME NEW C \in Nat, 0 < C, NEW x \in Nat, x < 2 * C
  PROVE  x % C = IF x < C THEN x ELSE x - C
<1>1. CASE x < C
  BY <1>1, Z3
<1>2. CASE x >= C
  BY <1>2, Z3
<1> QED
  BY <1>1, <1>2, SMTT(30)

LEMMA Constants ==
  /\ PIPE_CAPACITY \in Nat /\ 0 < PIPE_CAPACITY
  /\ PIPE_BUF \in Nat /\ PIPE_BUF <= PIPE_CAPACITY /\ MaxFds \in Nat /\ 0 < MaxFds
  /\ \A n \in Lengths : n \in Nat /\ 0 < n
  /\ \A n \in Reads : n \in Nat /\ 0 < n
BY PipeAssumption, SMTT(30)

-----------------------------------------------------------------------------
\* Counting descriptors.
FdTable == [Task -> [End -> 0 .. MaxFds]]

\* The descriptors of one end.
Of(f, e) == [t \in Task |-> f[t][e]]

LEMMA RefsFds ==
  ASSUME NEW f, NEW e
  PROVE  Refs(f, e) = Fds(Task, MaxFds, Of(f, e))
BY DEF Refs, Fds, Of

LEMMA RefsCount ==
  ASSUME NEW f, NEW e
  PROVE  Cardinality(Refs(f, e)) \in Nat
<1> DEFINE T == 1 .. MaxFds
<1>1. IsFiniteSet(T) /\ IsFiniteSet(Task)
  BY PipeAssumption, FS_Interval, SMTT(30)
<1>2. Refs(f, e) \subseteq Task \X T
  BY DEF Refs
<1> HIDE DEF T
<1>3. IsFiniteSet(Task \X T)
  BY <1>1, Products
<1>4. IsFiniteSet(Refs(f, e))
  BY <1>2, <1>3, FS_Subset
<1> QED
  BY <1>4, FS_CardinalityType

\* When one task's descriptors change, each count moves by the difference.
LEMMA RefsChange ==
  ASSUME NEW t \in Task, NEW e \in End, NEW f \in FdTable, NEW g \in [End -> 0 .. MaxFds]
  PROVE  LET h == [f EXCEPT ![t] = g]
         IN  /\ Cardinality(Refs(f, e)) \in Nat /\ Cardinality(Refs(h, e)) \in Nat
             /\ Cardinality(Refs(h, e)) = Cardinality(Refs(f, e)) - f[t][e] + g[e]
             /\ f[t][e] <= Cardinality(Refs(f, e))
<1> DEFINE h == [f EXCEPT ![t] = g]
<1>1. /\ Of(f, e) \in [Task -> 0 .. MaxFds] /\ Of(h, e) \in [Task -> 0 .. MaxFds]
      /\ Of(f, e)[t] = f[t][e] /\ Of(h, e)[t] = g[e]
      /\ \A u \in Task \ {t} : Of(h, e)[u] = Of(f, e)[u]
  BY DEF FdTable, Of
<1>2. Refs(f, e) = Fds(Task, MaxFds, Of(f, e)) /\ Refs(h, e) = Fds(Task, MaxFds, Of(h, e))
  BY RefsFds
<1> HIDE DEF h
<1>3. IsFiniteSet(Task) /\ MaxFds \in Nat
  BY PipeAssumption, Constants
<1>4. /\ Cardinality(Fds(Task, MaxFds, Of(f, e))) \in Nat /\ Cardinality(Fds(Task, MaxFds, Of(h, e))) \in Nat
      /\ Cardinality(Fds(Task, MaxFds, Of(h, e))) = Cardinality(Fds(Task, MaxFds, Of(f, e))) - Of(f, e)[t] + Of(h, e)[t]
      /\ Of(f, e)[t] <= Cardinality(Fds(Task, MaxFds, Of(f, e)))
  BY <1>1, <1>3, FdsChange, SMTT(30)
<1> QED
  BY <1>1, <1>2, <1>4 DEF h

-----------------------------------------------------------------------------
LEMMA InitInv == Init => PipeInv
<1> SUFFICES ASSUME Init PROVE PipeInv
  OBVIOUS
<1>1. RingType
  BY Constants, SMTT(30) DEF Init, RingType, Cell, Zero, Byte
<1>2. WaitType
  BY DEF Init, WaitType, NoReq, End
<1>3. fds \in FdTable
  BY Constants, SMTT(30) DEF Init, FdTable, NoFds
<1>4. ParkedAreLinked
  BY DEF Init, ParkedAreLinked
<1>5. NoLostWakeup
  BY DEF Init, NoLostWakeup
<1>6. FreedWhenUnused
  <2>1. \A e \in End : Refs(fds, e) = {}
    BY Constants, SMTT(30) DEF Init, Refs, NoFds
  <2>2. Cardinality(Refs(fds, "r")) = 0 /\ Cardinality(Refs(fds, "w")) = 0
    BY <2>1, FS_EmptySet DEF End
  <2> QED
    BY <2>2 DEF Init, FreedWhenUnused
<1> QED
  BY <1>1, <1>2, <1>3, <1>4, <1>5, <1>6 DEF PipeInv, TypeOK, FdTable

\* wq_wake_all leaves nobody blocked on the queue, and touches nobody else.
LEMMA WokenFacts ==
  ASSUME WaitType, NEW S \in SUBSET Task
  PROVE  /\ Woken(S) \in [Task -> {"ready", "blocked", "cut"}]
         /\ \A t \in Task : Woken(S)[t] = "blocked" => st[t] = "blocked" /\ t \notin S
         /\ \A t \in Task : st[t] = "ready" => Woken(S)[t] = "ready"
BY DEF WaitType, Woken

\* Every count is at least any one task's share, and a pipe that is not
\* allocated has no descriptors and nobody parked.
LEMMA Shares ==
  ASSUME PipeInv
  PROVE  /\ readers \in Nat /\ writers \in Nat
         /\ \A t \in Task : /\ fds[t] \in [End -> 0 .. MaxFds]
                             /\ fds[t]["r"] \in Nat /\ fds[t]["w"] \in Nat
                             /\ fds[t]["r"] <= readers /\ fds[t]["w"] <= writers
<1>1. fds \in FdTable /\ "r" \in End /\ "w" \in End
  BY DEF PipeInv, TypeOK, FdTable, End
<1>2. readers = Cardinality(Refs(fds, "r")) /\ writers = Cardinality(Refs(fds, "w"))
  BY DEF PipeInv, FreedWhenUnused
<1>3. ASSUME NEW t \in Task
      PROVE  /\ fds[t] \in [End -> 0 .. MaxFds]
             /\ fds[t]["r"] \in Nat /\ fds[t]["w"] \in Nat
             /\ fds[t]["r"] <= readers /\ fds[t]["w"] <= writers
  BY <1>1, <1>2, RefsChange, Constants, SMTT(30) DEF FdTable
<1>4. readers \in Nat /\ writers \in Nat
  BY <1>2, RefsCount
<1> QED
  BY <1>3, <1>4

LEMMA Unallocated ==
  ASSUME PipeInv, ~live
  PROVE  \A t \in Task : fds[t] = NoFds /\ pc[t] \in {"none", "user"}
<1> SUFFICES ASSUME NEW t \in Task PROVE fds[t] = NoFds /\ pc[t] \in {"none", "user"}
  OBVIOUS
<1>1. readers = 0 /\ writers = 0
  BY Shares DEF PipeInv, FreedWhenUnused
<1>2. fds[t]["r"] = 0 /\ fds[t]["w"] = 0
  BY <1>1, Shares, SMTT(30)
<1>3. fds[t] = NoFds
  BY <1>2, Shares DEF NoFds, End
<1>4. pc[t] \notin {"read", "write"}
  BY <1>2, SMTT(30) DEF PipeInv, FreedWhenUnused
<1>5. pc[t] # "poll"
  <2>1. req[t].polled \subseteq End
    BY DEF PipeInv, TypeOK, WaitType
  <2> QED
    BY <1>2, <2>1, SMTT(30) DEF PipeInv, FreedWhenUnused, End
<1> QED
  BY <1>3, <1>4, <1>5 DEF PipeInv, TypeOK, WaitType

\* The counts after one task's descriptors changed to g.
LEMMA CountsAfter ==
  ASSUME PipeInv, NEW t \in Task, NEW g \in [End -> 0 .. MaxFds],
         fds' = [fds EXCEPT ![t] = g],
         readers' = readers - fds[t]["r"] + g["r"],
         writers' = writers - fds[t]["w"] + g["w"]
  PROVE  /\ fds' \in FdTable
         /\ readers' = Cardinality(Refs(fds', "r")) /\ writers' = Cardinality(Refs(fds', "w"))
         /\ readers' \in Nat /\ writers' \in Nat
         /\ \A u \in Task : fds'[u] = IF u = t THEN g ELSE fds[u]
<1> DEFINE h == [fds EXCEPT ![t] = g]
<1>1. fds \in FdTable /\ "r" \in End /\ "w" \in End
  BY DEF PipeInv, TypeOK, FdTable, End
<1>2. readers = Cardinality(Refs(fds, "r")) /\ writers = Cardinality(Refs(fds, "w"))
  BY DEF PipeInv, FreedWhenUnused
<1>3. h \in FdTable /\ \A u \in Task : h[u] = IF u = t THEN g ELSE fds[u]
  BY <1>1 DEF FdTable
<1>4. /\ Cardinality(Refs(h, "r")) = Cardinality(Refs(fds, "r")) - fds[t]["r"] + g["r"]
      /\ Cardinality(Refs(h, "w")) = Cardinality(Refs(fds, "w")) - fds[t]["w"] + g["w"]
  BY <1>1, RefsChange
<1>5. fds' = h
  OBVIOUS
<1> HIDE DEF h
<1>6. Cardinality(Refs(h, "r")) \in Nat /\ Cardinality(Refs(h, "w")) \in Nat
  BY RefsCount
<1>7. readers' = Cardinality(Refs(h, "r")) /\ writers' = Cardinality(Refs(h, "w"))
  BY <1>2, <1>4
<1> QED
  BY <1>3, <1>5, <1>6, <1>7

-----------------------------------------------------------------------------
LEMMA CreateInv ==
  ASSUME PipeInv, NEW t \in Task, pipe_create(t)
  PROVE  PipeInv'
<1> USE DEF pipe_create
<1> DEFINE g == [e \in End |-> 1]
<1>1. \A u \in Task : fds[u] = NoFds /\ pc[u] \in {"none", "user"}
  BY Unallocated
<1>2. readers = 0 /\ writers = 0
  BY Shares DEF PipeInv, FreedWhenUnused
<1>3. RingType'
  BY Constants, SMTT(30) DEF RingType, Cell, Zero, Byte
<1>4. WaitType'
  BY DEF PipeInv, TypeOK, WaitType
<1>5. fds' \in FdTable /\ readers' = Cardinality(Refs(fds', "r")) /\ writers' = Cardinality(Refs(fds', "w"))
  <2>1. g \in [End -> 0 .. MaxFds] /\ g["r"] = 1 /\ g["w"] = 1
    BY Constants, SMTT(30) DEF End
  <2>2. fds[t]["r"] = 0 /\ fds[t]["w"] = 0
    BY <1>1 DEF NoFds, End
  <2>3. fds' = [fds EXCEPT ![t] = g]
    OBVIOUS
  <2> HIDE DEF g
  <2>4. readers' = readers - fds[t]["r"] + g["r"] /\ writers' = writers - fds[t]["w"] + g["w"]
    BY <1>2, <2>1, <2>2, SMTT(30)
  <2> QED
    BY <2>1, <2>3, <2>4, CountsAfter
<1>6. ParkedAreLinked'
  BY <1>1 DEF PipeInv, ParkedAreLinked
<1>7. NoLostWakeup'
  BY <1>1 DEF PipeInv, NoLostWakeup, ParkedAreLinked
<1>8. FreedWhenUnused'
  <2>1. \A u \in Task : pc'[u] = "none" => fds'[u] = NoFds
    BY <1>1 DEF Calls, PipeInv, TypeOK, WaitType
  <2> QED
    BY <1>1, <1>5, <2>1, SMTT(30) DEF FreedWhenUnused
<1> QED
  BY <1>3, <1>4, <1>5, <1>6, <1>7, <1>8 DEF PipeInv, TypeOK, FdTable

\* Steps that change one task's descriptors while it is not parked, or that
\* take it out of the system, and wake the queues that must be woken.
LEMMA RefInv ==
  ASSUME PipeInv, NEW t \in Task, pc[t] = "user",
         NEW g \in [End -> 0 .. MaxFds],
         fds' = [fds EXCEPT ![t] = g],
         readers' = readers - fds[t]["r"] + g["r"],
         writers' = writers - fds[t]["w"] + g["w"],
         live' <=> readers' # 0 \/ writers' # 0,
         NEW S \in SUBSET Task, st' = Woken(S),
         readers # 0 /\ readers' = 0 => writable \subseteq S,
         writers # 0 /\ writers' = 0 => readable \subseteq S,
         UNCHANGED <<ring, readable, writable, pc, req>>
  PROVE  PipeInv'
<1>1. RingType'
  BY DEF PipeInv, TypeOK, RingType, ring
<1>2. WaitType'
  BY WokenFacts DEF PipeInv, TypeOK, WaitType
<1>3. /\ fds' \in FdTable
      /\ readers' = Cardinality(Refs(fds', "r")) /\ writers' = Cardinality(Refs(fds', "w"))
      /\ readers' \in Nat /\ writers' \in Nat
      /\ \A u \in Task : fds'[u] = IF u = t THEN g ELSE fds[u]
  BY CountsAfter
<1>4. ParkedAreLinked'
  BY WokenFacts DEF PipeInv, TypeOK, ParkedAreLinked
<1>5. NoLostWakeup'
  <2> SUFFICES ASSUME NEW u \in Task, st'[u] = "blocked"
               PROVE  /\ pc[u] = "read" => count = 0 /\ writers' # 0
                      /\ pc[u] = "write" => Space < Need(req[u].n, req[u].written) /\ readers' # 0
                      /\ pc[u] = "poll" => ~poll_scan(req[u].polled)'
    BY DEF NoLostWakeup, ring, Space, Need
  <2>1. st[u] = "blocked" /\ u \notin S
    BY WokenFacts DEF PipeInv, TypeOK
  <2>2. u \in readable /\ writers # 0 => writers' # 0
    BY <2>1
  <2>3. u \in writable /\ readers # 0 => readers' # 0
    BY <2>1
  <2>4. pc[u] = "read" => count = 0 /\ writers' # 0
    BY <2>1, <2>2 DEF PipeInv, NoLostWakeup, ParkedAreLinked
  <2>5. pc[u] = "write" => Space < Need(req[u].n, req[u].written) /\ readers' # 0
    BY <2>1, <2>3 DEF PipeInv, NoLostWakeup, ParkedAreLinked
  <2>6. ASSUME pc[u] = "poll" PROVE ~poll_scan(req[u].polled)'
    <3>1. ~poll_scan(req[u].polled)
      BY <2>1, <2>6 DEF PipeInv, NoLostWakeup
    <3>2. "r" \in req[u].polled => u \in readable
      BY <2>6 DEF PipeInv, ParkedAreLinked
    <3>3. "w" \in req[u].polled => u \in writable
      BY <2>6 DEF PipeInv, ParkedAreLinked
    <3> QED
      BY <2>2, <2>3, <3>1, <3>2, <3>3 DEF poll_scan, ring
  <2> QED
    BY <2>4, <2>5, <2>6
<1>6. FreedWhenUnused'
  <2>1. \A u \in Task : u # t => fds'[u] = fds[u]
    BY <1>3
  <2>2. \A u \in Task :
          /\ pc[u] = "none" => fds'[u] = NoFds
          /\ pc[u] = "read" => fds'[u]["r"] > 0
          /\ pc[u] = "write" => fds'[u]["w"] > 0
          /\ pc[u] = "poll" => req[u].polled # {} /\ \A e \in req[u].polled : fds'[u][e] > 0
    BY <2>1 DEF PipeInv, FreedWhenUnused
  <2> QED
    BY <1>3, <2>2 DEF FreedWhenUnused
<1> QED
  BY <1>1, <1>2, <1>3, <1>4, <1>5, <1>6 DEF PipeInv, TypeOK, FdTable

LEMMA DupInv ==
  ASSUME PipeInv, NEW t \in Task, NEW e \in End, pipe_ref(t, e)
  PROVE  PipeInv'
<1> USE DEF pipe_ref, Calls
<1> DEFINE g == [fds[t] EXCEPT ![e] = @ + 1]
<1>1. fds[t] \in [End -> 0 .. MaxFds] /\ e \in {"r", "w"}
  BY Shares DEF End
<1>2. g \in [End -> 0 .. MaxFds] /\ fds' = [fds EXCEPT ![t] = g]
  BY <1>1, Constants, SMTT(30)
<1>3. readers' = readers - fds[t]["r"] + g["r"] /\ writers' = writers - fds[t]["w"] + g["w"]
  BY <1>1, Shares, SMTT(30) DEF One, End
<1>4. readers' >= readers /\ writers' >= writers /\ (readers' # 0 \/ writers' # 0) /\ (readers # 0 \/ writers # 0)
  BY <1>1, Shares, SMTT(30) DEF One
<1>5. live /\ live'
  BY <1>4 DEF PipeInv, FreedWhenUnused
<1>6. st' = Woken({})
  BY DEF Woken, PipeInv, TypeOK, WaitType
<1>7. ~(readers # 0 /\ readers' = 0) /\ ~(writers # 0 /\ writers' = 0)
  BY <1>4, Shares, SMTT(30)
<1> HIDE DEF g
<1> QED
  BY <1>2, <1>3, <1>4, <1>5, <1>6, <1>7, RefInv, ZenonT(30)

LEMMA CloseInv ==
  ASSUME PipeInv, NEW t \in Task, NEW e \in End, sys_close(t, e)
  PROVE  PipeInv'
<1> USE DEF sys_close, Calls
<1> DEFINE g == [fds[t] EXCEPT ![e] = @ - 1]
           S == UnrefWakes(One(e, "r"), One(e, "w"))
<1>1. fds[t] \in [End -> 0 .. MaxFds] /\ e \in {"r", "w"}
  BY Shares DEF End
<1>2. g \in [End -> 0 .. MaxFds] /\ fds' = [fds EXCEPT ![t] = g]
  BY <1>1, Constants, SMTT(30)
<1>3. readers' = readers - fds[t]["r"] + g["r"] /\ writers' = writers - fds[t]["w"] + g["w"]
  BY <1>1, Shares, SMTT(30) DEF One, End, Unref
<1>4. readers' \in Nat /\ writers' \in Nat
  BY <1>1, Shares, SMTT(30) DEF One, Unref
<1>5. live' <=> readers' # 0 \/ writers' # 0
  <2>1. (readers' + writers' > 0) <=> readers' # 0 \/ writers' # 0
    BY <1>4, SMTT(30)
  <2> QED
    BY <2>1 DEF Unref
<1>6. S \in SUBSET Task
  BY DEF UnrefWakes, PipeInv, TypeOK, WaitType
<1>7. readers # 0 /\ readers' = 0 => writable \subseteq S
  BY <1>1, Shares, SMTT(30) DEF UnrefWakes, One, Unref
<1>8. writers # 0 /\ writers' = 0 => readable \subseteq S
  BY <1>1, Shares, SMTT(30) DEF UnrefWakes, One, Unref
<1> HIDE DEF g
<1> QED
  BY <1>2, <1>3, <1>5, <1>6, <1>7, <1>8, RefInv

LEMMA DupIntoInv ==
  ASSUME PipeInv, NEW t \in Task, NEW e \in End, NEW f \in End, fd_dup_into(t, e, f)
  PROVE  PipeInv'
<1> DEFINE g == [x \in End |-> fds[t][x] + One(x, e) - One(x, f)]
           S == UnrefWakes(One(f, "r"), One(f, "w"))
<1>1. /\ pc[t] = "user" /\ UNCHANGED <<live, ring, readable, writable, pc, req>>
      /\ fds' = [fds EXCEPT ![t] = g] /\ st' = Woken(S)
  BY DEF fd_dup_into, Calls
<1>2. /\ readers' = readers + One(e, "r") - One(f, "r")
      /\ writers' = writers + One(e, "w") - One(f, "w")
      /\ e # f /\ fds[t][e] > 0 /\ fds[t][e] < MaxFds /\ fds[t][f] > 0
  BY Shares, Constants, SMTT(30) DEF fd_dup_into
<1>3. fds[t] \in [End -> 0 .. MaxFds] /\ ((e = "r" /\ f = "w") \/ (e = "w" /\ f = "r"))
  <2>1. e \in {"r", "w"} /\ f \in {"r", "w"} /\ e # f
    BY <1>2 DEF End
  <2>2. (e = "r" /\ f = "w") \/ (e = "w" /\ f = "r")
    BY <2>1
  <2> QED
    BY <2>2, Shares
<1>4. /\ g["r"] = fds[t]["r"] + One(e, "r") - One(f, "r")
      /\ g["w"] = fds[t]["w"] + One(e, "w") - One(f, "w")
  BY DEF End, One
<1>5. g \in [End -> 0 .. MaxFds]
  <2> SUFFICES ASSUME NEW x \in End PROVE fds[t][x] + One(x, e) - One(x, f) \in 0 .. MaxFds
    OBVIOUS
  <2>1. fds[t][x] \in Nat /\ fds[t][x] <= MaxFds
    BY <1>3, Constants, SMTT(30)
  <2>2. x = e \/ x = f
    BY <1>3 DEF End
  <2> QED
    BY <1>2, <2>1, <2>2, Constants, SMTT(30) DEF One
<1> HIDE DEF g
<1>6. One(e, "r") \in {0, 1} /\ One(f, "r") \in {0, 1} /\ One(e, "w") \in {0, 1} /\ One(f, "w") \in {0, 1}
  BY DEF One
<1>7. readers' = readers - fds[t]["r"] + g["r"] /\ writers' = writers - fds[t]["w"] + g["w"]
  BY <1>2, <1>4, <1>6, Shares, SMTT(30)
<1>8. (readers # 0 \/ writers # 0) /\ (readers' # 0 \/ writers' # 0)
  BY <1>2, <1>3, Shares, SMTT(30) DEF One
<1>9. live /\ live'
  BY <1>1, <1>8 DEF PipeInv, FreedWhenUnused
<1>10. S \in SUBSET Task
  BY DEF UnrefWakes, PipeInv, TypeOK, WaitType
<1>11. readers # 0 /\ readers' = 0 => writable \subseteq S
  BY <1>2, <1>3, Shares, SMTT(30) DEF UnrefWakes, One
<1>12. writers # 0 /\ writers' = 0 => readable \subseteq S
  BY <1>2, <1>3, Shares, SMTT(30) DEF UnrefWakes, One
<1> HIDE DEF S
<1> QED
  BY <1>1, <1>5, <1>7, <1>8, <1>9, <1>10, <1>11, <1>12, RefInv, ZenonT(30)

\* A child appears, with descriptors.
LEMMA InheritInv ==
  ASSUME PipeInv, NEW t \in Task, NEW c \in Task, NEW r \in 0 .. MaxFds, NEW w \in 0 .. MaxFds,
         task_inherit_stdio(t, c, r, w)
  PROVE  PipeInv'
<1> DEFINE g == [e \in End |-> IF e = "r" THEN r ELSE w]
<1>1. /\ pc[t] = "user" /\ pc[c] = "none" /\ pc' = [pc EXCEPT ![c] = "user"]
      /\ fds' = [fds EXCEPT ![c] = g]
      /\ readers' = readers + r /\ writers' = writers + w
      /\ UNCHANGED <<live, ring, readable, writable, st, req>>
      /\ r <= fds[t]["r"] /\ w <= fds[t]["w"]
  BY DEF task_inherit_stdio, Calls
<1>2. g \in [End -> 0 .. MaxFds] /\ g["r"] = r /\ g["w"] = w
  BY DEF End
<1>3. fds[c]["r"] = 0 /\ fds[c]["w"] = 0 /\ r \in Nat /\ w \in Nat
  BY <1>1, Constants, SMTT(30) DEF PipeInv, FreedWhenUnused, NoFds, End
<1> HIDE DEF g
<1>4. readers' = readers - fds[c]["r"] + g["r"] /\ writers' = writers - fds[c]["w"] + g["w"]
  BY <1>1, <1>2, <1>3, Shares, SMTT(30)
<1>5. /\ fds' \in FdTable
      /\ readers' = Cardinality(Refs(fds', "r")) /\ writers' = Cardinality(Refs(fds', "w"))
      /\ \A u \in Task : fds'[u] = IF u = c THEN g ELSE fds[u]
  BY <1>1, <1>2, <1>4, CountsAfter
<1>6. (readers' = 0 <=> readers = 0) /\ (writers' = 0 <=> writers = 0)
  BY <1>1, <1>3, Shares, SMTT(30)
<1>7. RingType'
  BY <1>1 DEF PipeInv, TypeOK, RingType, ring
<1>8. WaitType'
  BY <1>1 DEF PipeInv, TypeOK, WaitType
<1>9. \A u \in Task : pc'[u] = IF u = c THEN "user" ELSE pc[u]
  BY <1>1 DEF PipeInv, TypeOK, WaitType
<1>10. ParkedAreLinked'
  BY <1>1, <1>9, SMTT(30) DEF PipeInv, ParkedAreLinked
<1>11. NoLostWakeup'
  <2> SUFFICES ASSUME NEW u \in Task, st[u] = "blocked"
               PROVE  /\ pc'[u] = "read" => count = 0 /\ writers' # 0
                      /\ pc'[u] = "write" => Space < Need(req[u].n, req[u].written) /\ readers' # 0
                      /\ pc'[u] = "poll" => ~poll_scan(req[u].polled)'
    BY <1>1 DEF NoLostWakeup, ring, Space, Need
  <2>1. pc'[u] \in {"read", "write", "poll"} => pc'[u] = pc[u]
    BY <1>9, SMTT(30)
  <2>2. poll_scan(req[u].polled)' <=> poll_scan(req[u].polled)
    BY <1>1, <1>6 DEF poll_scan, ring
  <2> QED
    BY <1>6, <2>1, <2>2, SMTT(30) DEF PipeInv, NoLostWakeup
<1>12. FreedWhenUnused'
  <2>1. live' <=> readers' # 0 \/ writers' # 0
    BY <1>1, <1>6 DEF PipeInv, FreedWhenUnused
  <2>2. \A u \in Task :
          /\ pc'[u] = "none" => fds'[u] = NoFds
          /\ pc'[u] = "read" => fds'[u]["r"] > 0
          /\ pc'[u] = "write" => fds'[u]["w"] > 0
          /\ pc'[u] = "poll" => req'[u].polled # {} /\ \A e \in req'[u].polled : fds'[u][e] > 0
    BY <1>1, <1>5, <1>9, SMTT(30) DEF PipeInv, FreedWhenUnused
  <2> QED
    BY <1>5, <2>1, <2>2 DEF FreedWhenUnused
<1> QED
  BY <1>5, <1>7, <1>8, <1>10, <1>11, <1>12, SMTT(30) DEF PipeInv, TypeOK, FdTable

\* A task leaves: its entries go before its references do.
LEMMA ExitInv ==
  ASSUME PipeInv, NEW t \in Task, mark_task_exited(t)
  PROVE  PipeInv'
<1> DEFINE S == UnrefWakes(fds[t]["r"], fds[t]["w"])
<1>1. /\ readable' = readable \ {t} /\ writable' = writable \ {t}
      /\ readers' = readers - fds[t]["r"] /\ writers' = writers - fds[t]["w"]
      /\ st' = [Woken(S) EXCEPT ![t] = "ready"]
      /\ fds' = [fds EXCEPT ![t] = NoFds]
      /\ pc' = [pc EXCEPT ![t] = "none"]
      /\ req' = [req EXCEPT ![t] = NoReq]
      /\ UNCHANGED ring
  BY DEF mark_task_exited, Unref
<1>2. NoFds \in [End -> 0 .. MaxFds] /\ NoFds["r"] = 0 /\ NoFds["w"] = 0
  BY Constants, SMTT(30) DEF NoFds, End
<1>3. readers' = readers - fds[t]["r"] + NoFds["r"] /\ writers' = writers - fds[t]["w"] + NoFds["w"]
  BY <1>1, <1>2, Shares, SMTT(30)
<1>4. /\ fds' \in FdTable
      /\ readers' = Cardinality(Refs(fds', "r")) /\ writers' = Cardinality(Refs(fds', "w"))
      /\ readers' \in Nat /\ writers' \in Nat
      /\ \A u \in Task : fds'[u] = IF u = t THEN NoFds ELSE fds[u]
  BY <1>1, <1>2, <1>3, CountsAfter
<1>5. S \in SUBSET Task
  BY DEF UnrefWakes, PipeInv, TypeOK, WaitType
<1>6. readers # 0 /\ readers' = 0 => writable \subseteq S
  BY <1>1, Shares, SMTT(30) DEF UnrefWakes
<1>7. writers # 0 /\ writers' = 0 => readable \subseteq S
  BY <1>1, Shares, SMTT(30) DEF UnrefWakes
<1> HIDE DEF S
<1>8. /\ st' \in [Task -> {"ready", "blocked", "cut"}] /\ st'[t] = "ready"
      /\ \A u \in Task : st'[u] = "blocked" => u # t /\ st[u] = "blocked" /\ u \notin S
      /\ \A u \in Task : st[u] = "ready" => st'[u] = "ready"
  BY <1>1, <1>5, WokenFacts, SMTT(30) DEF PipeInv, TypeOK
<1>9. \A u \in Task : /\ pc'[u] = IF u = t THEN "none" ELSE pc[u]
                      /\ u # t => req'[u] = req[u]
  BY <1>1 DEF PipeInv, TypeOK, WaitType
<1>10. RingType'
  BY <1>1 DEF PipeInv, TypeOK, RingType, ring
<1>11. WaitType'
  BY <1>1, <1>8 DEF PipeInv, TypeOK, WaitType, NoReq
<1>12. ParkedAreLinked'
  <2> SUFFICES ASSUME NEW u \in Task
               PROVE  /\ pc'[u] \in {"none", "user"} => st'[u] = "ready" /\ u \notin readable' \cup writable'
                      /\ pc'[u] = "read" => u \in readable' /\ req'[u].n \in Reads
                      /\ pc'[u] = "write" => u \in writable' /\ req'[u].written < req'[u].n
                                          /\ (req'[u].n <= PIPE_BUF => req'[u].written = 0)
                                          /\ req'[u].n \in Lengths
                      /\ pc'[u] = "poll" => ("r" \in req'[u].polled => u \in readable')
                                         /\ ("w" \in req'[u].polled => u \in writable')
    BY DEF ParkedAreLinked
  <2>1. CASE u = t
    BY <1>1, <1>8, <1>9, <2>1, SMTT(30)
  <2>2. CASE u # t
    <3>1. /\ pc'[u] = pc[u] /\ req'[u] = req[u] /\ (st[u] = "ready" => st'[u] = "ready")
          /\ (u \in readable' <=> u \in readable) /\ (u \in writable' <=> u \in writable)
      BY <1>1, <1>8, <1>9, <2>2
    <3>2. /\ pc[u] \in {"none", "user"} => st[u] = "ready" /\ u \notin readable \cup writable
          /\ pc[u] = "read" => u \in readable /\ req[u].n \in Reads
          /\ pc[u] = "write" => u \in writable /\ req[u].written < req[u].n
                              /\ (req[u].n <= PIPE_BUF => req[u].written = 0)
                              /\ req[u].n \in Lengths
          /\ pc[u] = "poll" => ("r" \in req[u].polled => u \in readable)
                             /\ ("w" \in req[u].polled => u \in writable)
      BY DEF PipeInv, ParkedAreLinked
    <3> QED
      BY ONLY <3>1, <3>2
  <2> QED
    BY <2>1, <2>2
<1>13. NoLostWakeup'
  <2> SUFFICES ASSUME NEW u \in Task, st'[u] = "blocked"
               PROVE  /\ pc'[u] = "read" => count' = 0 /\ writers' # 0
                      /\ pc'[u] = "write" => Space' < Need(req'[u].n, req'[u].written) /\ readers' # 0
                      /\ pc'[u] = "poll" => ~poll_scan(req[u].polled)'
    BY DEF NoLostWakeup, Need
  <2>1. st[u] = "blocked" /\ u # t /\ u \notin S /\ pc'[u] = pc[u] /\ req'[u] = req[u]
    BY <1>8, <1>9
  <2>2. u \in readable /\ writers # 0 => writers' # 0
    BY <1>7, <2>1
  <2>3. u \in writable /\ readers # 0 => readers' # 0
    BY <1>6, <2>1
  <2>4. pc[u] = "read" => count' = 0 /\ writers' # 0
    BY <1>1, <2>1, <2>2, SMTT(30) DEF PipeInv, NoLostWakeup, ParkedAreLinked, ring
  <2>5. pc[u] = "write" => Space' < Need(req[u].n, req[u].written) /\ readers' # 0
    BY <1>1, <2>1, <2>3, SMTT(30) DEF PipeInv, NoLostWakeup, ParkedAreLinked, ring, Space
  <2>6. ASSUME pc[u] = "poll" PROVE ~poll_scan(req[u].polled)'
    <3>1. ~poll_scan(req[u].polled)
      BY <2>1, <2>6 DEF PipeInv, NoLostWakeup
    <3>2. "r" \in req[u].polled => u \in readable
      BY <2>6 DEF PipeInv, ParkedAreLinked
    <3>3. "w" \in req[u].polled => u \in writable
      BY <2>6 DEF PipeInv, ParkedAreLinked
    <3> QED
      BY <1>1, <2>1, <2>2, <2>3, <3>1, <3>2, <3>3, SMTT(30) DEF poll_scan, ring
  <2> QED
    BY <2>1, <2>4, <2>5, <2>6, SMTT(30)
<1>14. FreedWhenUnused'
  <2>1. live' <=> readers' # 0 \/ writers' # 0
    <3>1. (readers' + writers' > 0) <=> readers' # 0 \/ writers' # 0
      BY <1>4, SMTT(30)
    <3> QED
      BY <3>1 DEF mark_task_exited, Unref
  <2>2. \A u \in Task :
          /\ pc'[u] = "none" => fds'[u] = NoFds
          /\ pc'[u] = "read" => fds'[u]["r"] > 0
          /\ pc'[u] = "write" => fds'[u]["w"] > 0
          /\ pc'[u] = "poll" => req'[u].polled # {} /\ \A e \in req'[u].polled : fds'[u][e] > 0
    BY <1>4, <1>9 DEF PipeInv, FreedWhenUnused
  <2> QED
    BY <1>4, <2>1, <2>2 DEF FreedWhenUnused
<1> QED
  BY <1>4, <1>10, <1>11, <1>12, <1>13, <1>14 DEF PipeInv, TypeOK, FdTable

-----------------------------------------------------------------------------
\* What task t is after its step: out of the call, or parked with cause.
Settled(t, call, r) ==
  \/ call = "user" /\ st'[t] = "ready" /\ t \notin readable' /\ t \notin writable'
  \/ call = "read" /\ t \in readable' /\ r.n \in Reads /\ fds[t]["r"] > 0 /\ count' = 0 /\ writers # 0
  \/ /\ call = "write" /\ t \in writable' /\ fds[t]["w"] > 0
     /\ r.written < r.n /\ (r.n <= PIPE_BUF => r.written = 0) /\ r.n \in Lengths
     /\ Space' < Need(r.n, r.written) /\ readers # 0
  \/ /\ call = "poll" /\ r.polled # {} /\ \A e \in r.polled : fds[t][e] > 0
     /\ ("r" \in r.polled => t \in readable') /\ ("w" \in r.polled => t \in writable')
     /\ ~poll_scan(r.polled)'

\* A step of one task in read, write or poll keeps the invariant if it leaves
\* the task settled, and wakes readers when bytes went in and writers when
\* bytes came out.
LEMMA CallInv ==
  ASSUME PipeInv, NEW t \in Task, RingType', UNCHANGED ends,
         NEW call \in {"user", "read", "write", "poll"},
         NEW r \in [n : Nat, written : Nat, polled : SUBSET End],
         NEW s \in {"ready", "blocked"},
         NEW S \in SUBSET Task,
         pc' = [pc EXCEPT ![t] = call], req' = [req EXCEPT ![t] = r],
         st' = [Woken(S) EXCEPT ![t] = s],
         readable' \subseteq Task, writable' \subseteq Task,
         \A u \in Task \ {t} : (u \in readable' <=> u \in readable) /\ (u \in writable' <=> u \in writable),
         count' > count => readable \subseteq S,
         count' < count => writable \subseteq S,
         Settled(t, call, r)
  PROVE  PipeInv'
<1>1. /\ st' \in [Task -> {"ready", "blocked", "cut"}] /\ st'[t] = s
      /\ \A u \in Task \ {t} : st'[u] = "blocked" => st[u] = "blocked" /\ u \notin S
      /\ \A u \in Task \ {t} : st[u] = "ready" => st'[u] = "ready"
  BY WokenFacts, SMTT(30) DEF PipeInv, TypeOK
<1>2. /\ \A u \in Task \ {t} : pc'[u] = pc[u] /\ req'[u] = req[u]
      /\ pc'[t] = call /\ req'[t] = r
  BY DEF PipeInv, TypeOK, WaitType
<1>3. WaitType'
  BY <1>1 DEF PipeInv, TypeOK, WaitType
<1>4. UNCHANGED <<live, readers, writers, fds>>
  BY DEF ends
<1>5. count \in Nat /\ count' \in Nat /\ count <= PIPE_CAPACITY /\ count' <= PIPE_CAPACITY
  BY Constants, SMTT(30) DEF PipeInv, TypeOK, RingType
<1>6. ParkedAreLinked'
  <2> SUFFICES ASSUME NEW u \in Task
               PROVE  /\ pc'[u] \in {"none", "user"} => st'[u] = "ready" /\ u \notin readable' \cup writable'
                      /\ pc'[u] = "read" => u \in readable' /\ req'[u].n \in Reads
                      /\ pc'[u] = "write" => u \in writable' /\ req'[u].written < req'[u].n
                                          /\ (req'[u].n <= PIPE_BUF => req'[u].written = 0)
                                          /\ req'[u].n \in Lengths
                      /\ pc'[u] = "poll" => ("r" \in req'[u].polled => u \in readable')
                                         /\ ("w" \in req'[u].polled => u \in writable')
    BY DEF ParkedAreLinked
  <2>1. CASE u = t
    BY <1>2, <2>1, SMTT(30) DEF Settled
  <2>2. CASE u # t
    <3>1. /\ pc'[u] = pc[u] /\ req'[u] = req[u] /\ (st[u] = "ready" => st'[u] = "ready")
          /\ (u \in readable' <=> u \in readable) /\ (u \in writable' <=> u \in writable)
      BY <1>1, <1>2, <2>2, SMTT(30)
    <3>2. /\ pc[u] \in {"none", "user"} => st[u] = "ready" /\ u \notin readable \cup writable
          /\ pc[u] = "read" => u \in readable /\ req[u].n \in Reads
          /\ pc[u] = "write" => u \in writable /\ req[u].written < req[u].n
                              /\ (req[u].n <= PIPE_BUF => req[u].written = 0)
                              /\ req[u].n \in Lengths
          /\ pc[u] = "poll" => ("r" \in req[u].polled => u \in readable)
                             /\ ("w" \in req[u].polled => u \in writable)
      BY DEF PipeInv, ParkedAreLinked
    <3> QED
      BY ONLY <3>1, <3>2
  <2> QED
    BY <2>1, <2>2
<1>7. NoLostWakeup'
  <2> SUFFICES ASSUME NEW u \in Task, st'[u] = "blocked"
               PROVE  /\ pc'[u] = "read" => count' = 0 /\ writers' # 0
                      /\ pc'[u] = "write" => Space' < Need(req'[u].n, req'[u].written) /\ readers' # 0
                      /\ pc'[u] = "poll" => ~poll_scan(req[u].polled)'
    BY SMTT(30) DEF NoLostWakeup, Need
  <2>1. CASE u = t
    BY <1>2, <1>4, <2>1, SMTT(30) DEF Settled, poll_scan
  <2>2. CASE u # t
    <3>1. st[u] = "blocked" /\ u \notin S /\ pc'[u] = pc[u] /\ req'[u] = req[u]
      BY <1>1, <1>2, <2>2, SMTT(30)
    <3>2. (u \in readable => count' <= count) /\ (u \in writable => count' >= count)
      BY <1>5, <3>1, SMTT(30)
    <3>3. pc[u] = "read" => count' = 0 /\ writers' # 0
      <4>1. pc[u] = "read" => u \in readable /\ count = 0 /\ writers # 0
        BY <3>1, SMTT(30) DEF PipeInv, ParkedAreLinked, NoLostWakeup
      <4> QED
        BY <1>4, <1>5, <3>2, <4>1, SMTT(30)
    <3>4. pc[u] = "write" => Space' < Need(req[u].n, req[u].written) /\ readers' # 0
      <4>1. pc[u] = "write" => u \in writable /\ Space < Need(req[u].n, req[u].written) /\ readers # 0
        BY <3>1 DEF PipeInv, ParkedAreLinked, NoLostWakeup
      <4>2. Need(req[u].n, req[u].written) \in Int
        BY SMTT(30) DEF PipeInv, TypeOK, WaitType, Need
      <4> QED
        BY <1>4, <1>5, <3>2, <4>1, <4>2, Constants, SMTT(30) DEF Space
    <3>5. ASSUME pc[u] = "poll" PROVE ~poll_scan(req[u].polled)'
      <4>1. ~poll_scan(req[u].polled)
        BY <3>1, <3>5, SMTT(30) DEF PipeInv, NoLostWakeup
      <4>2. ("r" \in req[u].polled => u \in readable) /\ ("w" \in req[u].polled => u \in writable)
        BY <3>5, SMTT(30) DEF PipeInv, ParkedAreLinked
      <4> QED
        BY <1>4, <1>5, <3>1, <3>2, <4>1, <4>2, Constants, SMTT(30) DEF poll_scan
    <3> QED
      BY <3>1, <3>3, <3>4, <3>5, SMTT(30)
  <2> QED
    BY <2>1, <2>2
<1>8. FreedWhenUnused'
  <2>1. \A u \in Task :
          /\ pc'[u] = "none" => fds[u] = NoFds
          /\ pc'[u] = "read" => fds[u]["r"] > 0
          /\ pc'[u] = "write" => fds[u]["w"] > 0
          /\ pc'[u] = "poll" => req'[u].polled # {} /\ \A e \in req'[u].polled : fds[u][e] > 0
    <3> SUFFICES ASSUME NEW u \in Task
                 PROVE /\ pc'[u] = "none" => fds[u] = NoFds
                       /\ pc'[u] = "read" => fds[u]["r"] > 0
                       /\ pc'[u] = "write" => fds[u]["w"] > 0
                       /\ pc'[u] = "poll" => req'[u].polled # {} /\ \A e \in req'[u].polled : fds[u][e] > 0
      BY SMTT(30)
    <3>1. CASE u = t
      BY <1>2, <3>1, SMTT(30) DEF Settled
    <3>2. CASE u # t
      BY <1>2, <3>2 DEF PipeInv, FreedWhenUnused
    <3> QED
      BY <3>1, <3>2, SMTT(30)
  <2> QED
    BY <1>4, <2>1, ZenonT(30) DEF PipeInv, FreedWhenUnused
<1> QED
  BY <1>3, <1>4, <1>6, <1>7, <1>8 DEF PipeInv, TypeOK

\* Leaving without moving a byte.
LEMMA LeaveInv ==
  ASSUME PipeInv, NEW t \in Task, UNCHANGED <<ring, ends>>,
         Leave(t), st' = [st EXCEPT ![t] = "ready"]
  PROVE  PipeInv'
<1> DEFINE S == {}
<1>1. RingType' /\ ~(count' > count) /\ ~(count' < count)
  BY Constants, SMTT(30) DEF PipeInv, TypeOK, RingType, ring
<1>2. st' = [Woken(S) EXCEPT ![t] = "ready"] /\ st'[t] = "ready"
  BY ZenonT(30) DEF Woken, PipeInv, TypeOK, WaitType
<1>3. NoReq \in [n : Nat, written : Nat, polled : SUBSET End]
  BY DEF NoReq
<1>4. /\ pc' = [pc EXCEPT ![t] = "user"] /\ req' = [req EXCEPT ![t] = NoReq]
      /\ readable' = readable \ {t} /\ writable' = writable \ {t}
  BY DEF Leave
<1>5. readable' \subseteq Task /\ writable' \subseteq Task
  BY <1>4 DEF PipeInv, TypeOK, WaitType
<1>6. Settled(t, "user", NoReq)
  BY <1>2, <1>4 DEF Settled
<1>7. \A u \in Task \ {t} : (u \in readable' <=> u \in readable) /\ (u \in writable' <=> u \in writable)
  BY <1>4
<1>8. S \in SUBSET Task /\ UNCHANGED ends
  OBVIOUS
<1> HIDE DEF S
<1> QED
  BY <1>1, <1>2, <1>3, <1>4, <1>5, <1>6, <1>7, <1>8, CallInv, ZenonT(30)

\* Parking without moving a byte.
LEMMA ParkInv ==
  ASSUME PipeInv, NEW t \in Task, UNCHANGED <<ring, ends>>,
         NEW call \in {"read", "write", "poll"},
         NEW r \in [n : Nat, written : Nat, polled : SUBSET End],
         NEW onRead, NEW onWrite,
         Park(t, call, r, onRead, onWrite), st' = [st EXCEPT ![t] = "blocked"],
         Settled(t, call, r)
  PROVE  PipeInv'
<1> DEFINE S == {}
<1>1. RingType' /\ ~(count' > count) /\ ~(count' < count)
  BY Constants, SMTT(30) DEF PipeInv, TypeOK, RingType, ring
<1>2. st' = [Woken(S) EXCEPT ![t] = "blocked"]
  BY DEF Woken, PipeInv, TypeOK, WaitType
<1>3. /\ pc' = [pc EXCEPT ![t] = call] /\ req' = [req EXCEPT ![t] = r]
      /\ readable' = IF onRead THEN readable \cup {t} ELSE readable \ {t}
      /\ writable' = IF onWrite THEN writable \cup {t} ELSE writable \ {t}
  BY DEF Park
<1>4. readable' \subseteq Task /\ writable' \subseteq Task
  BY <1>3 DEF PipeInv, TypeOK, WaitType
<1>5. \A u \in Task \ {t} : (u \in readable' <=> u \in readable) /\ (u \in writable' <=> u \in writable)
  BY <1>3
<1>6. S \in SUBSET Task /\ UNCHANGED ends /\ call \in {"user", "read", "write", "poll"}
  OBVIOUS
<1> HIDE DEF S
<1> QED
  BY <1>1, <1>2, <1>3, <1>4, <1>5, <1>6, CallInv, ZenonT(30)

\* The bytes a read takes leave the ring in its shape.
LEMMA ReadRing ==
  ASSUME RingType, NEW t \in Task, NEW n \in Nat, 0 < n, count > 0, ReadChunk(t, n)
  PROVE  RingType' /\ count' < count
<1>1. /\ head' = (head + Minimum(n, count)) % PIPE_CAPACITY
      /\ count' = count - Minimum(n, count) /\ data' = data
  BY DEF ReadChunk
<1>2. head \in Nat /\ head < PIPE_CAPACITY /\ count \in Nat /\ count <= PIPE_CAPACITY
  BY Constants, SMTT(30) DEF RingType, Cell
<1>3. Minimum(n, count) \in Nat /\ 0 < Minimum(n, count) /\ Minimum(n, count) <= count
  BY <1>2, SMTT(30) DEF Minimum
<1>4. head' \in Cell
  BY <1>1, <1>2, <1>3, Wrap, Constants, SMTT(30) DEF Cell
<1>5. count' \in 0 .. PIPE_CAPACITY /\ count' < count
  BY <1>1, <1>2, <1>3, Constants, SMTT(30)
<1> QED
  BY <1>1, <1>4, <1>5 DEF RingType

LEMMA ReadInv ==
  ASSUME PipeInv, NEW t \in Task, NEW n \in Reads, NEW nonblock \in BOOLEAN,
         fds[t]["r"] > 0, ReadLoop(t, n, nonblock), UNCHANGED ends
  PROVE  PipeInv'
<1>1. CASE count > 0 /\ ReadChunk(t, n)
  <2>1. RingType' /\ count' < count
    BY <1>1, ReadRing, Constants DEF PipeInv, TypeOK
  <2>2. ~(count' > count)
    BY <2>1, Constants, SMTT(30) DEF PipeInv, TypeOK, RingType
  <2>3. writable \in SUBSET Task /\ readable \subseteq Task
    BY DEF PipeInv, TypeOK, WaitType
  <2>4. /\ pc' = [pc EXCEPT ![t] = "user"] /\ req' = [req EXCEPT ![t] = NoReq]
        /\ readable' = readable \ {t} /\ writable' = writable \ {t}
        /\ st' = [Woken(writable) EXCEPT ![t] = "ready"]
    BY <1>1 DEF ReadChunk, Leave
  <2>5. NoReq \in [n : Nat, written : Nat, polled : SUBSET End]
    BY DEF NoReq
  <2>6. Settled(t, "user", NoReq)
    <3>1. Woken(writable) \in [Task -> {"ready", "blocked", "cut"}]
      BY <2>3, WokenFacts DEF PipeInv, TypeOK
    <3>2. st'[t] = "ready"
      BY <2>4, <3>1
    <3> QED
      BY <2>4, <3>2 DEF Settled
  <2> QED
    BY <2>1, <2>2, <2>3, <2>4, <2>5, <2>6, CallInv
<1>2. CASE count = 0 /\ UNCHANGED ring /\ Leave(t) /\ st' = [st EXCEPT ![t] = "ready"]
  BY <1>2, LeaveInv
<1>3. CASE /\ count = 0 /\ UNCHANGED ring /\ writers # 0
           /\ Park(t, "read", [NoReq EXCEPT !.n = n], TRUE, FALSE)
           /\ st' = [st EXCEPT ![t] = "blocked"]
  <2> DEFINE r == [NoReq EXCEPT !.n = n]
  <2>1. r \in [n : Nat, written : Nat, polled : SUBSET End] /\ r.n = n
    BY Constants DEF NoReq
  <2>2. Settled(t, "read", r)
    BY <1>3, <2>1 DEF Settled, Park, ring
  <2> HIDE DEF r
  <2> QED
    BY <1>3, <2>1, <2>2, ParkInv DEF r
<1> QED
  BY <1>1, <1>2, <1>3 DEF ReadLoop

LEMMA WriteRing ==
  ASSUME RingType, NEW t \in Task, NEW n \in Nat, NEW written \in Nat, NEW nonblock \in BOOLEAN,
         written < n, Space >= 1, WriteChunk(t, n, written, nonblock)
  PROVE  /\ RingType' /\ count' > count /\ count' - count <= n - written
         /\ count' - count = n - written \/ count' = PIPE_CAPACITY
<1> DEFINE k == Minimum(n - written, Space)
<1>1. data' = Stored(t, n, written, k) /\ count' = count + k /\ head' = head
  BY DEF WriteChunk
<1>2. head \in Nat /\ head < PIPE_CAPACITY /\ count \in Nat /\ count <= PIPE_CAPACITY
  BY Constants, SMTT(30) DEF RingType, Cell
<1>3. /\ k \in Nat /\ 0 < k /\ k <= n - written /\ k <= PIPE_CAPACITY - count
      /\ k = n - written \/ k = PIPE_CAPACITY - count
  BY <1>2, Constants, SMTT(30) DEF Minimum, Space
<1> HIDE DEF k
<1>4. data' \in [Cell -> Byte]
  <2> DEFINE tail == (head + count) % PIPE_CAPACITY
             first == Minimum(PIPE_CAPACITY - tail, k)
             byte(i) == [by |-> t, at |-> written + i, of |-> n]
  <2>1. tail \in Nat /\ tail < PIPE_CAPACITY
    BY <1>2, Wrap, Constants, SMTT(30)
  <2> HIDE DEF tail
  <2>2. first \in Nat
    BY <1>3, <2>1, Constants, SMTT(30) DEF Minimum
  <2> HIDE DEF first
  <2>3. ASSUME NEW i \in Nat PROVE byte(i) \in Byte
    BY SMTT(30) DEF Byte
  <2>4. ASSUME NEW i \in Cell
        PROVE  (IF i >= tail /\ i < tail + first THEN byte(i - tail + 1)
                ELSE IF i < k - first THEN byte(first + i + 1) ELSE data[i]) \in Byte
    <3>1. i \in Nat
      BY SMTT(30) DEF Cell
    <3>2. i >= tail => i - tail + 1 \in Nat
      BY <2>1, <3>1, SMTT(30)
    <3>3. first + i + 1 \in Nat
      BY <2>2, <3>1, SMTT(30)
    <3>4. data[i] \in Byte
      BY DEF RingType
    <3> HIDE DEF byte
    <3> QED
      BY <2>3, <3>2, <3>3, <3>4
  <2>5. data' = [i \in Cell |-> IF i >= tail /\ i < tail + first THEN byte(i - tail + 1)
                               ELSE IF i < k - first THEN byte(first + i + 1) ELSE data[i]]
    BY <1>1 DEF Stored, tail, first
  <2> HIDE DEF byte
  <2> QED
    BY <2>4, <2>5
<1>5. /\ count' \in 0 .. PIPE_CAPACITY /\ count' > count /\ count' - count <= n - written
      /\ count' - count = n - written \/ count' = PIPE_CAPACITY
  BY <1>1, <1>2, <1>3, Constants, SMTT(30)
<1> QED
  BY <1>1, <1>4, <1>5 DEF RingType

LEMMA WriteInv ==
  ASSUME PipeInv, NEW t \in Task, NEW n \in Lengths, NEW written \in Nat, NEW nonblock \in BOOLEAN,
         written < n, n <= PIPE_BUF => written = 0,
         fds[t]["w"] > 0, WriteLoop(t, n, written, nonblock), UNCHANGED ends
  PROVE  PipeInv'
<1>0. /\ n \in Nat /\ readers \in Nat /\ count \in Nat /\ count <= PIPE_CAPACITY /\ Need(n, written) \in Nat
      /\ Need(n, written) >= 1
  BY Constants, Shares, SMTT(30) DEF PipeInv, TypeOK, RingType, Need
<1>1. CASE readers > 0 /\ Space >= Need(n, written) /\ WriteChunk(t, n, written, nonblock)
  <2> DEFINE k == Minimum(n - written, Space)
             r == [NoReq EXCEPT !.n = n, !.written = written + k]
  <2>1. Space \in Nat /\ Space >= 1
    <3>1. Space \in Int
      BY <1>0, Constants, SMTT(30) DEF Space
    <3>2. Space >= Need(n, written)
      BY <1>1
    <3> QED
      BY <1>0, <3>1, <3>2, SMTT(30)
  <2>2. /\ RingType' /\ count' > count /\ count' - count <= n - written
        /\ count' - count = n - written \/ count' = PIPE_CAPACITY
    BY <1>0, <1>1, <2>1, WriteRing DEF PipeInv, TypeOK
  <2>3. count' = count + k /\ count' \in Nat /\ k \in Nat
    <3>1. count' = count + k
      BY <1>1 DEF WriteChunk
    <3>2. k \in Nat
      <4>1. n - written \in Nat
        BY <1>0, SMTT(30)
      <4> QED
        BY <2>1, <4>1 DEF Minimum
    <3> QED
      BY <1>0, <3>1, <3>2, SMTT(30)
  <2>4. ~(count' < count)
    BY <1>0, <2>2, <2>3, SMTT(30)
  <2>5. readable \in SUBSET Task /\ writable \subseteq Task
    BY DEF PipeInv, TypeOK, WaitType
  <2> HIDE DEF k
  <2>6. CASE /\ Leave(t) /\ st' = [Woken(readable) EXCEPT ![t] = "ready"]
    <3>1. /\ pc' = [pc EXCEPT ![t] = "user"] /\ req' = [req EXCEPT ![t] = NoReq]
          /\ readable' = readable \ {t} /\ writable' = writable \ {t}
      BY <2>6 DEF Leave
    <3>2. NoReq \in [n : Nat, written : Nat, polled : SUBSET End]
      BY ZenonT(30) DEF NoReq
    <3>3. Settled(t, "user", NoReq)
      <4>1. Woken(readable) \in [Task -> {"ready", "blocked", "cut"}]
        BY <2>5, WokenFacts DEF PipeInv, TypeOK
      <4>2. st'[t] = "ready"
        BY <2>6, <4>1
      <4> QED
        BY <3>1, <4>2 DEF Settled
    <3>4. \A u \in Task \ {t} : (u \in readable' <=> u \in readable) /\ (u \in writable' <=> u \in writable)
      BY <3>1
    <3> QED
      BY <2>2, <2>4, <2>5, <2>6, <3>1, <3>2, <3>3, <3>4, CallInv, ZenonT(30)
  <2>7. CASE /\ written + k # n /\ Park(t, "write", r, FALSE, TRUE)
             /\ st' = [Woken(readable) EXCEPT ![t] = "blocked"]
    <3>1. /\ pc' = [pc EXCEPT ![t] = "write"] /\ req' = [req EXCEPT ![t] = r]
          /\ readable' = readable \ {t} /\ writable' = writable \cup {t}
      BY <2>7 DEF Park
    <3>2. r \in [n : Nat, written : Nat, polled : SUBSET End] /\ r.n = n /\ r.written = written + k
      <4> DEFINE w == written + k
      <4>1. w \in Nat
        BY <2>3, SMTT(30)
      <4> HIDE DEF w
      <4>2. /\ [NoReq EXCEPT !.n = n, !.written = w] \in [n : Nat, written : Nat, polled : SUBSET End]
            /\ [NoReq EXCEPT !.n = n, !.written = w].n = n
            /\ [NoReq EXCEPT !.n = n, !.written = w].written = w
        BY <1>0, <4>1 DEF NoReq
      <4> QED
        BY <4>2 DEF w
    <3>3. count' = PIPE_CAPACITY /\ written + k < n
      BY <1>0, <2>2, <2>3, <2>7, SMTT(30)
    <3>4. ~(n <= PIPE_BUF)
      <4>1. n <= PIPE_BUF => k = n - written
        <5>1. n <= PIPE_BUF => Space >= n - written
          BY <1>1 DEF Need
        <5> QED
          BY <5>1, <1>0, Constants, SMTT(30) DEF k, Minimum, Space
      <4> QED
        BY <1>0, <2>3, <2>7, <4>1, SMTT(30)
    <3>5. Space' = 0 /\ Need(n, written + k) = 1
      BY <3>3, <3>4, Constants, SMTT(30) DEF Space, Need
    <3> HIDE DEF r
    <3>6. Settled(t, "write", r)
      <4>1. t \in writable' /\ readers # 0
        BY <1>0, <1>1, <3>1, SMTT(30)
      <4>2. Space' < Need(r.n, r.written)
        <5>1. Need(r.n, r.written) = Need(n, written + k)
          BY <3>2
        <5> QED
          BY <3>5, <5>1, SMTT(30)
      <4>3. r.written < r.n /\ (r.n <= PIPE_BUF => r.written = 0) /\ r.n \in Lengths
        BY <3>2, <3>3, <3>4
      <4> QED
        BY <4>1, <4>2, <4>3, SMTT(30) DEF Settled
    <3>7. \A u \in Task \ {t} : (u \in readable' <=> u \in readable) /\ (u \in writable' <=> u \in writable)
      BY <3>1
    <3>8. readable' \subseteq Task /\ writable' \subseteq Task
      BY <2>5, <3>1
    <3> QED
      BY <2>2, <2>4, <2>5, <2>7, <3>1, <3>2, <3>6, <3>7, <3>8, CallInv, ZenonT(30)
  <2> QED
    BY <1>1, <2>6, <2>7, ZenonT(30) DEF WriteChunk, k
<1>2. CASE UNCHANGED ring /\ Leave(t) /\ st' = [st EXCEPT ![t] = "ready"]
  BY <1>2, LeaveInv
<1>3. CASE /\ UNCHANGED ring /\ readers # 0 /\ Space < Need(n, written)
           /\ Park(t, "write", [NoReq EXCEPT !.n = n, !.written = written], FALSE, TRUE)
           /\ st' = [st EXCEPT ![t] = "blocked"]
  <2> DEFINE r == [NoReq EXCEPT !.n = n, !.written = written]
  <2>1. r \in [n : Nat, written : Nat, polled : SUBSET End] /\ r.n = n /\ r.written = written
    BY <1>0 DEF NoReq
  <2>2. Space' < Need(n, written) /\ t \in writable'
    BY <1>3 DEF Park, ring, Space
  <2> HIDE DEF r
  <2>3. Settled(t, "write", r)
    BY <1>3, <2>1, <2>2 DEF Settled
  <2> QED
    BY <1>3, <2>1, <2>3, ParkInv DEF r
<1> QED
  BY <1>1, <1>2, <1>3 DEF WriteLoop

LEMMA PollInv ==
  ASSUME PipeInv, NEW t \in Task, NEW S \in SUBSET End, NEW nowait \in BOOLEAN,
         S # {}, \A e \in S : fds[t][e] > 0, PollLoop(t, S, nowait)
  PROVE  PipeInv'
<1>1. UNCHANGED <<ring, ends>>
  BY DEF PollLoop
<1>2. CASE Leave(t) /\ st' = [st EXCEPT ![t] = "ready"]
  BY <1>1, <1>2, LeaveInv
<1>3. CASE /\ ~poll_scan(S)
           /\ Park(t, "poll", [NoReq EXCEPT !.polled = S], "r" \in S, "w" \in S)
           /\ st' = [st EXCEPT ![t] = "blocked"]
  <2> DEFINE r == [NoReq EXCEPT !.polled = S]
  <2>1. r \in [n : Nat, written : Nat, polled : SUBSET End] /\ r.polled = S
    BY DEF NoReq
  <2>2. ("r" \in S => t \in readable') /\ ("w" \in S => t \in writable')
    BY <1>3 DEF Park
  <2>3. ~poll_scan(S)'
    BY <1>1, <1>3 DEF poll_scan, ring, ends
  <2> HIDE DEF r
  <2>4. Settled(t, "poll", r)
    BY <2>1, <2>2, <2>3 DEF Settled, poll_scan
  <2> QED
    BY <1>1, <1>3, <2>1, <2>4, ParkInv DEF r
<1> QED
  BY <1>2, <1>3 DEF PollLoop

LEMMA InterruptInv ==
  ASSUME PipeInv, NEW t \in Task, task_interrupt(t)
  PROVE  PipeInv'
<1>1. /\ st[t] = "blocked" /\ st' = [st EXCEPT ![t] = "cut"]
      /\ UNCHANGED <<live, data, head, count, readers, writers, readable, writable, fds, pc, req>>
  BY DEF task_interrupt, ring, ends
<1>2. RingType' /\ WaitType' /\ fds' \in [Task -> [End -> 0 .. MaxFds]]
  BY <1>1 DEF PipeInv, TypeOK, RingType, WaitType
<1>3. \A u \in Task : st'[u] = "blocked" => st[u] = "blocked"
  BY <1>1 DEF PipeInv, TypeOK, WaitType
<1>4. ParkedAreLinked'
  BY <1>1 DEF PipeInv, TypeOK, WaitType, ParkedAreLinked
<1>5. NoLostWakeup'
  BY <1>1, <1>3, SMTT(30) DEF PipeInv, NoLostWakeup, Space, Need, poll_scan
<1>6. FreedWhenUnused'
  BY <1>1 DEF PipeInv, FreedWhenUnused
<1> QED
  BY <1>2, <1>4, <1>5, <1>6 DEF PipeInv, TypeOK

-----------------------------------------------------------------------------
LEMMA NextInv ==
  ASSUME PipeInv, Next
  PROVE  PipeInv'
<1>a. PICK t \in Task :
    \/ pipe_create(t) \/ mark_task_exited(t)
    \/ pipe_read_resume(t) \/ pipe_write_resume(t) \/ sys_poll_resume(t)
    \/ task_interrupt(t) \/ wq_wait_cut(t)
    \/ \E e \in End : pipe_ref(t, e) \/ sys_close(t, e) \/ \E f \in End : fd_dup_into(t, e, f)
    \/ \E c \in Task, r, w \in 0 .. MaxFds : task_inherit_stdio(t, c, r, w)
    \/ \E n \in Reads, nonblock \in BOOLEAN : pipe_read(t, n, nonblock)
    \/ \E n \in Lengths, nonblock \in BOOLEAN : pipe_write(t, n, nonblock)
    \/ \E S \in SUBSET End, nowait \in BOOLEAN : sys_poll(t, S, nowait)
  BY DEF Next
<1>1. CASE pipe_create(t)
  BY <1>1, CreateInv
<1>2. CASE mark_task_exited(t)
  BY <1>2, ExitInv
<1>3. CASE \E n \in Reads, nonblock \in BOOLEAN : pipe_read(t, n, nonblock)
  BY <1>3, ReadInv, ZenonT(30) DEF pipe_read
<1>4. CASE \E n \in Lengths, nonblock \in BOOLEAN : pipe_write(t, n, nonblock)
  BY <1>4, WriteInv, Constants DEF pipe_write
<1>5. CASE \E S \in SUBSET End, nowait \in BOOLEAN : sys_poll(t, S, nowait)
  BY <1>5, PollInv, ZenonT(30) DEF sys_poll
<1>6. CASE pipe_read_resume(t)
  <2>1. fds[t]["r"] > 0 /\ req[t].n \in Reads
    BY <1>6, ZenonT(30) DEF PipeInv, FreedWhenUnused, ParkedAreLinked, pipe_read_resume, Resumes
  <2> QED
    BY <1>6, <2>1, ReadInv, ZenonT(30) DEF pipe_read_resume
<1>7. CASE pipe_write_resume(t)
  <2>1. /\ fds[t]["w"] > 0 /\ req[t].n \in Lengths /\ req[t].written \in Nat
        /\ req[t].written < req[t].n /\ (req[t].n <= PIPE_BUF => req[t].written = 0)
    BY <1>7 DEF PipeInv, FreedWhenUnused, ParkedAreLinked, TypeOK, WaitType, pipe_write_resume, Resumes
  <2> QED
    BY <1>7, <2>1, WriteInv, ZenonT(30) DEF pipe_write_resume
<1>8. CASE sys_poll_resume(t)
  <2>1. /\ req[t].polled \in SUBSET End /\ req[t].polled # {}
        /\ \A e \in req[t].polled : fds[t][e] > 0
    BY <1>8 DEF PipeInv, FreedWhenUnused, TypeOK, WaitType, sys_poll_resume, Resumes
  <2> QED
    BY <1>8, <2>1, PollInv, ZenonT(30) DEF sys_poll_resume
<1>9. CASE task_interrupt(t)
  BY <1>9, InterruptInv
<1>10. CASE wq_wait_cut(t)
  BY <1>10, LeaveInv DEF wq_wait_cut
<1>11. CASE \E e \in End : pipe_ref(t, e) \/ sys_close(t, e) \/ \E f \in End : fd_dup_into(t, e, f)
  BY <1>11, DupInv, CloseInv, DupIntoInv
<1>12. CASE \E c \in Task, r, w \in 0 .. MaxFds : task_inherit_stdio(t, c, r, w)
  BY <1>12, InheritInv
<1> QED
  BY <1>a, <1>1, <1>2, <1>3, <1>4, <1>5, <1>6, <1>7, <1>8, <1>9, <1>10, <1>11, <1>12, SMTT(30)

LEMMA StutterInv ==
  ASSUME PipeInv, UNCHANGED vars
  PROVE  PipeInv'
<1>1. UNCHANGED <<live, data, head, count, readers, writers, readable, writable, fds, pc, st, req>>
  BY DEF vars
<1>2. RingType' /\ WaitType' /\ fds' \in [Task -> [End -> 0 .. MaxFds]] /\ ParkedAreLinked'
  BY <1>1 DEF PipeInv, TypeOK, RingType, WaitType, ParkedAreLinked
<1>3. NoLostWakeup'
  BY <1>1, ZenonT(30) DEF PipeInv, NoLostWakeup, Space, Need, poll_scan
<1>4. FreedWhenUnused'
  BY <1>1, ZenonT(30) DEF PipeInv, FreedWhenUnused
<1> QED
  BY <1>2, <1>3, <1>4 DEF PipeInv, TypeOK

\* However descriptors are duplicated, inherited, closed and dropped by exits
\* while reads, writes and polls park, are woken or are cut short: the end
\* counts are exact, no pipe is freed under a parked task, and nobody stays
\* blocked once what it waits for is there.
THEOREM PipeInvariant == Spec => []PipeInv
<1>1. Init => PipeInv
  BY InitInv
<1>2. PipeInv /\ [Next]_vars => PipeInv'
  BY NextInv, StutterInv
<1> QED
  BY <1>1, <1>2, PTL DEF Spec

-----------------------------------------------------------------------------
\* The bytes between head and tail of a ring, as the mapping reads them.
Queue(d, h, c) == [i \in 1 .. c |-> d[(h + i - 1) % PIPE_CAPACITY]]

LEMMA FunctionIsSeq ==
  ASSUME NEW S, NEW n \in Nat, NEW f \in [1 .. n -> S]
  PROVE  f \in Seq(S) /\ Len(f) = n
<1>1. f \in Seq(S)
  BY SeqDef
<1>2. DOMAIN f = 1 .. n /\ DOMAIN f = 1 .. Len(f) /\ Len(f) \in Nat
  BY <1>1, LenProperties
<1> QED
  BY <1>1, <1>2, SMTT(30)

\* Cell i of the bytes from h on, and that different bytes lie in different cells.
LEMMA CellOf ==
  ASSUME NEW h \in Cell, NEW i \in Nat, i < PIPE_CAPACITY
  PROVE  /\ (h + i) % PIPE_CAPACITY = IF h + i < PIPE_CAPACITY THEN h + i ELSE h + i - PIPE_CAPACITY
         /\ (h + i) % PIPE_CAPACITY \in Cell
<1>1. h \in Nat /\ h < PIPE_CAPACITY
  BY Constants, SMTT(30) DEF Cell
<1>2. (h + i) % PIPE_CAPACITY = IF h + i < PIPE_CAPACITY THEN h + i ELSE h + i - PIPE_CAPACITY
  BY <1>1, Wrap, Constants, SMTT(30)
<1> QED
  BY <1>1, <1>2, Constants, SMTT(30) DEF Cell

LEMMA QueueSeq ==
  ASSUME NEW d \in [Cell -> Byte], NEW h \in Cell, NEW c \in 0 .. PIPE_CAPACITY
  PROVE  /\ Queue(d, h, c) \in Seq(Byte) /\ Len(Queue(d, h, c)) = c
         /\ \A i \in 1 .. c : Queue(d, h, c)[i] = d[(h + (i - 1)) % PIPE_CAPACITY]
<1>1. c \in Nat /\ c <= PIPE_CAPACITY
  BY Constants, SMTT(30)
<1>2. \A i \in 1 .. c : h + i - 1 = h + (i - 1) /\ (h + (i - 1)) % PIPE_CAPACITY \in Cell
  <2> SUFFICES ASSUME NEW i \in 1 .. c
               PROVE  h + i - 1 = h + (i - 1) /\ (h + (i - 1)) % PIPE_CAPACITY \in Cell
    OBVIOUS
  <2>1. i - 1 \in Nat /\ i - 1 < PIPE_CAPACITY /\ h \in Nat
    BY <1>1, Constants, SMTT(30) DEF Cell
  <2> QED
    BY <2>1, CellOf
<1>3. \A i \in 1 .. c : Queue(d, h, c)[i] = d[(h + (i - 1)) % PIPE_CAPACITY]
  BY <1>2 DEF Queue
<1>4. Queue(d, h, c) \in [1 .. c -> Byte]
  BY <1>2 DEF Queue
<1> HIDE DEF Queue
<1> QED
  BY <1>1, <1>3, <1>4, FunctionIsSeq

LEMMA TakeRefines ==
  ASSUME RingType, NEW t \in Task, NEW n \in Nat, 0 < n, count > 0, ReadChunk(t, n),
         live, live' = live
  PROVE  Abstract!Next
<1> DEFINE k == Minimum(n, count)
           F == Queue(data, head, count)
           G == Queue(data, head', count')
<1>1. /\ head' = (head + k) % PIPE_CAPACITY
      /\ count' = count - k /\ data' = data /\ out' = Front(k)
  BY DEF ReadChunk
<1>2. /\ head \in Nat /\ head < PIPE_CAPACITY /\ count \in Nat /\ count <= PIPE_CAPACITY
      /\ head \in Cell /\ count \in 0 .. PIPE_CAPACITY /\ data \in [Cell -> Byte]
  BY Constants, SMTT(30) DEF RingType, Cell
<1>3. k \in Nat /\ 0 < k /\ k <= count
  BY <1>2, SMTT(30) DEF Minimum
<1> HIDE DEF k
<1>4. RingType'
  BY ReadRing
<1>5. /\ F \in Seq(Byte) /\ Len(F) = count
      /\ \A i \in 1 .. count : F[i] = data[(head + (i - 1)) % PIPE_CAPACITY]
  BY <1>2, QueueSeq
<1>6. /\ G \in Seq(Byte) /\ Len(G) = count'
      /\ \A i \in 1 .. count' : G[i] = data[(head' + (i - 1)) % PIPE_CAPACITY]
  BY <1>1, <1>2, <1>4, QueueSeq DEF RingType
<1>7. Fifo = F /\ Fifo' = G
  BY <1>1 DEF Fifo, Queue
<1> HIDE DEF F, G
<1>8. G = SubSeq(F, k + 1, Len(F))
  <2> DEFINE s == SubSeq(F, k + 1, Len(F))
  <2>1. \A i \in k + 1 .. Len(F) : F[i] \in Byte
    BY <1>3, <1>5, ElementOfSeq, SMTT(30)
  <2>2. /\ s \in Seq(Byte) /\ Len(s) = IF k + 1 <= count THEN count - (k + 1) + 1 ELSE 0
        /\ \A i \in 1 .. count - (k + 1) + 1 : s[i] = F[k + 1 + i - 1]
    BY <1>2, <1>3, <1>5, <2>1, SubSeqProperties, SMTT(30)
  <2> HIDE DEF s
  <2>3. Len(s) = count' /\ count' \in Nat
    BY <1>1, <1>2, <1>3, <2>2, SMTT(30)
  <2>4. ASSUME NEW i \in 1 .. Len(G) PROVE G[i] = s[i]
    <3>1. i \in 1 .. count' /\ i \in 1 .. count - (k + 1) + 1 /\ k + i \in 1 .. count /\ k + 1 + i - 1 = k + i
      BY <1>1, <1>2, <1>3, <1>6, <2>4, SMTT(30)
    <3>2. s[i] = data[(head + (k + i - 1)) % PIPE_CAPACITY]
      <4>1. s[i] = F[k + 1 + i - 1]
        BY <2>2, <3>1
      <4>2. s[i] = F[k + i]
        BY <3>1, <4>1
      <4>3. F[k + i] = data[(head + (k + i - 1)) % PIPE_CAPACITY]
        <5> DEFINE j == k + i
        <5>1. j \in 1 .. count
          BY <3>1
        <5> HIDE DEF j
        <5>2. F[j] = data[(head + (j - 1)) % PIPE_CAPACITY]
          BY <1>5, <5>1
        <5>3. j - 1 = k + i - 1
          BY <1>2, <1>3, <3>1, SMTT(30) DEF j
        <5> QED
          BY <5>2, <5>3 DEF j
      <4> QED
        BY <4>2, <4>3
    <3>3. G[i] = data[(head' + (i - 1)) % PIPE_CAPACITY]
      BY <1>6, <3>1, SMTT(30)
    <3>4. /\ k \in Nat /\ k <= PIPE_CAPACITY /\ i - 1 \in Nat /\ i - 1 < PIPE_CAPACITY
          /\ k + i - 1 \in Nat /\ k + i - 1 < PIPE_CAPACITY
      BY <1>2, <1>3, <3>1, Constants, SMTT(30)
    <3>5. (head' + (i - 1)) % PIPE_CAPACITY = (head + (k + i - 1)) % PIPE_CAPACITY
      <4>1. head' = IF head + k < PIPE_CAPACITY THEN head + k ELSE head + k - PIPE_CAPACITY
        BY <1>1, <1>2, <3>4, Wrap, Constants, SMTT(30)
      <4>2. head' \in Nat /\ head' < PIPE_CAPACITY /\ head' \in Cell
        BY <1>2, <3>4, <4>1, Constants, SMTT(30) DEF Cell
      <4>3. (head' + (i - 1)) % PIPE_CAPACITY
              = IF head' + (i - 1) < PIPE_CAPACITY THEN head' + (i - 1) ELSE head' + (i - 1) - PIPE_CAPACITY
        BY <3>4, <4>2, CellOf
      <4>4. (head + (k + i - 1)) % PIPE_CAPACITY
              = IF head + (k + i - 1) < PIPE_CAPACITY THEN head + (k + i - 1) ELSE head + (k + i - 1) - PIPE_CAPACITY
        BY <1>2, <3>4, CellOf
      <4> QED
        BY <1>2, <3>4, <4>1, <4>2, <4>3, <4>4, Constants, SMTT(30)
    <3> QED
      BY <3>2, <3>3, <3>5
  <2>5. G = s
    BY <1>6, <2>2, <2>3, <2>4, SeqEqual
  <2> QED
    BY <2>5 DEF s
<1>9. out' = SubSeq(F, 1, k)
  <2> DEFINE s == SubSeq(F, 1, k)
             first == Minimum(PIPE_CAPACITY - head, k)
  <2>1. \A i \in 1 .. k : F[i] \in Byte
    BY <1>2, <1>3, <1>5, ElementOfSeq, SMTT(30)
  <2>2. /\ s \in Seq(Byte) /\ Len(s) = IF 1 <= k THEN k - 1 + 1 ELSE 0
        /\ \A i \in 1 .. k - 1 + 1 : s[i] = F[1 + i - 1]
    BY <1>3, <2>1, SubSeqProperties, SMTT(30)
  <2> HIDE DEF s
  <2>3. first \in Nat /\ (first = k \/ first = PIPE_CAPACITY - head) /\ first <= k /\ first <= PIPE_CAPACITY - head
    BY <1>2, <1>3, Constants, SMTT(30) DEF Minimum
  <2>4. Front(k) = [j \in 1 .. k |-> IF j <= first THEN data[head + j - 1] ELSE data[j - first - 1]]
    BY DEF Front
  <2> HIDE DEF first
  <2>5. ASSUME NEW i \in 1 .. k PROVE Front(k)[i] = s[i]
    <3>1. /\ i \in Nat /\ 1 <= i /\ i <= k /\ i \in 1 .. count /\ i \in 1 .. k - 1 + 1 /\ 1 + i - 1 = i
          /\ i - 1 \in Nat /\ i - 1 < PIPE_CAPACITY
      BY <1>2, <1>3, <2>5, Constants, SMTT(30)
    <3>2. s[i] = F[i]
      <4>1. s[i] = F[1 + i - 1]
        BY <2>2, <3>1
      <4> QED
        BY <3>1, <4>1
    <3>3. F[i] = data[(head + (i - 1)) % PIPE_CAPACITY]
      BY <1>5, <3>1
    <3>4. (head + (i - 1)) % PIPE_CAPACITY
            = IF head + (i - 1) < PIPE_CAPACITY THEN head + (i - 1) ELSE head + (i - 1) - PIPE_CAPACITY
      BY <1>2, <3>1, CellOf
    <3>5. (head + (i - 1)) % PIPE_CAPACITY = IF i <= first THEN head + i - 1 ELSE i - first - 1
      BY <1>2, <1>3, <2>3, <3>1, <3>4, Constants, SMTT(30)
    <3>6. Front(k)[i] = IF i <= first THEN data[head + i - 1] ELSE data[i - first - 1]
      BY <2>4, <2>5
    <3> QED
      BY <3>2, <3>3, <3>5, <3>6, SMTT(30)
  <2>6. Front(k) \in [1 .. k -> Byte]
    <3>1. \A i \in 1 .. k : s[i] \in Byte
      BY <1>3, <2>2, ElementOfSeq, SMTT(30)
    <3> QED
      BY <2>4, <2>5, <3>1
  <2>7. Front(k) \in Seq(Byte) /\ Len(Front(k)) = k
    BY <1>3, <2>6, FunctionIsSeq
  <2>8. Len(s) = k
    BY <1>3, <2>2, SMTT(30)
  <2>9. Front(k) = s
    BY <2>2, <2>5, <2>7, <2>8, SeqEqual, SMTT(30)
  <2> QED
    BY <1>1, <2>9 DEF s
<1>10. k \in 1 .. PIPE_CAPACITY /\ k <= Len(F)
  BY <1>2, <1>3, <1>5, Constants, SMTT(30)
<1>11. Abstract!Take(k)
  BY <1>7, <1>8, <1>9, <1>10, SMTT(30) DEF Abstract!Take
<1> QED
  BY <1>10, <1>11 DEF Abstract!Next

\* Place i of a ring of c bytes from h on, to which k are added: a byte that
\* was there is not overwritten, and a new one is where Stored puts it.
Placed(h, c, k, i) ==
  LET tail == (h + c) % PIPE_CAPACITY
      first == Minimum(PIPE_CAPACITY - tail, k)
      x == (h + (i - 1)) % PIPE_CAPACITY
  IN  /\ x \in Cell
      /\ i <= c => ~(x >= tail /\ x < tail + first) /\ ~(x < k - first)
      /\ i > c => \/ x >= tail /\ x < tail + first /\ x - tail + 1 = i - c
                  \/ ~(x >= tail /\ x < tail + first) /\ x < k - first /\ first + x + 1 = i - c

LEMMA CellOfWrite ==
  ASSUME NEW h \in Nat, h < PIPE_CAPACITY, NEW c \in Nat, NEW k \in Nat, 0 < k, c + k <= PIPE_CAPACITY,
         NEW i \in 1 .. c + k
  PROVE  Placed(h, c, k, i)
<1> DEFINE tail == (h + c) % PIPE_CAPACITY
           first == Minimum(PIPE_CAPACITY - tail, k)
           x == (h + (i - 1)) % PIPE_CAPACITY
<1>1. tail = IF h + c < PIPE_CAPACITY THEN h + c ELSE h + c - PIPE_CAPACITY
  BY Wrap, Constants, SMTT(30)
<1> HIDE DEF tail
<1>2. tail \in Nat /\ tail < PIPE_CAPACITY
  BY <1>1, Constants, SMTT(30)
<1>3. first \in Nat /\ first = IF PIPE_CAPACITY - tail < k THEN PIPE_CAPACITY - tail ELSE k
  BY <1>2, Constants, SMTT(30) DEF Minimum
<1> HIDE DEF first
<1>4. x = IF h + (i - 1) < PIPE_CAPACITY THEN h + (i - 1) ELSE h + (i - 1) - PIPE_CAPACITY
  BY Wrap, Constants, SMTT(30)
<1> HIDE DEF x
<1>5. x \in Nat /\ x < PIPE_CAPACITY
  BY <1>4, Constants, SMTT(30)
<1>6. x \in Cell
  BY <1>5, Constants, SMTT(30) DEF Cell
<1>7. i <= c => ~(x >= tail /\ x < tail + first) /\ ~(x < k - first)
  BY <1>1, <1>2, <1>3, <1>4, <1>5, Constants, SMTT(30)
<1>8. i > c => \/ x >= tail /\ x < tail + first /\ x - tail + 1 = i - c
               \/ ~(x >= tail /\ x < tail + first) /\ x < k - first /\ first + x + 1 = i - c
  BY <1>1, <1>2, <1>3, <1>4, <1>5, Constants, SMTT(30)
<1> QED
  BY <1>6, <1>7, <1>8 DEF Placed, tail, first, x

LEMMA PutRefines ==
  ASSUME RingType, NEW t \in Task, NEW n \in Lengths, NEW written \in Nat, NEW nonblock \in BOOLEAN,
         written < n, n <= PIPE_BUF => written = 0,
         Space >= Need(n, written), WriteChunk(t, n, written, nonblock),
         live, live' = live
  PROVE  Abstract!Next
<1> DEFINE k == Minimum(n - written, Space)
           F == Queue(data, head, count)
           G == Queue(data', head, count')
           B == Abstract!Bytes(t, n, written, k)
<1>0. n \in Nat /\ Need(n, written) \in Nat /\ Need(n, written) >= 1
  BY Constants, SMTT(30) DEF Need
<1>1. /\ head' = head /\ count' = count + k /\ data' = Stored(t, n, written, k) /\ out' = <<>>
  BY DEF WriteChunk
<1>2. /\ head \in Nat /\ head < PIPE_CAPACITY /\ count \in Nat /\ count <= PIPE_CAPACITY
      /\ head \in Cell /\ count \in 0 .. PIPE_CAPACITY /\ data \in [Cell -> Byte]
  BY Constants, SMTT(30) DEF RingType, Cell
<1>3. /\ k \in Nat /\ 0 < k /\ count + k <= PIPE_CAPACITY /\ k <= n - written
      /\ n <= PIPE_BUF => k = n
  <2>1. Space = PIPE_CAPACITY - count /\ Space >= 1
    BY <1>0, <1>2, Constants, SMTT(30) DEF Space
  <2>2. n <= PIPE_BUF => Space >= n - written
    BY DEF Need
  <2> QED
    BY <1>0, <1>2, <2>1, <2>2, Constants, SMTT(30) DEF Minimum
<1>4. RingType'
  <2>1. Space >= 1
    BY <1>0, <1>2, Constants, SMTT(30) DEF Space
  <2> QED
    BY <1>0, <2>1, WriteRing
<1> HIDE DEF k
<1>5. /\ F \in Seq(Byte) /\ Len(F) = count
      /\ \A i \in 1 .. count : F[i] = data[(head + (i - 1)) % PIPE_CAPACITY]
  BY <1>2, QueueSeq
<1>6. /\ G \in Seq(Byte) /\ Len(G) = count'
      /\ \A i \in 1 .. count' : G[i] = data'[(head + (i - 1)) % PIPE_CAPACITY]
  BY <1>1, <1>2, <1>4, QueueSeq DEF RingType
<1>7. Fifo = F /\ Fifo' = G
  BY <1>1, SMTT(30) DEF Fifo, Queue
<1> HIDE DEF F, G
<1>8. /\ B \in Seq(Byte) /\ Len(B) = k
      /\ \A m \in 1 .. k : B[m] = [by |-> t, at |-> written + m, of |-> n]
  <2>1. \A m \in 1 .. k : B[m] = [by |-> t, at |-> written + m, of |-> n]
    BY DEF Abstract!Bytes
  <2>2. \A m \in 1 .. k : [by |-> t, at |-> written + m, of |-> n] \in Byte
    BY <1>0, <1>3, SMTT(30) DEF Byte
  <2>3. B \in [1 .. k -> Byte]
    BY <2>2 DEF Abstract!Bytes
  <2> HIDE DEF B
  <2> QED
    BY <1>3, <2>1, <2>3, FunctionIsSeq, SMTT(30)
<1> HIDE DEF B
<1>9. G = F \o B
  <2>1. /\ F \o B \in Seq(Byte) /\ Len(F \o B) = count + k
        /\ \A i \in 1 .. count + k : (F \o B)[i] = IF i <= count THEN F[i] ELSE B[i - count]
    <3>1. F \in Seq(Byte) /\ B \in Seq(Byte)
      BY <1>5, <1>8
    <3>2. /\ F \o B \in Seq(Byte) /\ Len(F \o B) = Len(F) + Len(B)
          /\ \A i \in 1 .. Len(F) + Len(B) : (F \o B)[i] = IF i <= Len(F) THEN F[i] ELSE B[i - Len(F)]
      BY <3>1, ConcatProperties, SMTT(30)
    <3>3. Len(F) = count /\ Len(B) = k
      BY <1>5, <1>8
    <3> QED
      BY <3>2, <3>3, ZenonT(30)
  <2>2. ASSUME NEW i \in 1 .. count + k PROVE G[i] = (F \o B)[i]
    <3> DEFINE tail == (head + count) % PIPE_CAPACITY
               first == Minimum(PIPE_CAPACITY - tail, k)
               byte(j) == [by |-> t, at |-> written + j, of |-> n]
               x == (head + (i - 1)) % PIPE_CAPACITY
    <3>1. data' = [j \in Cell |-> IF j >= tail /\ j < tail + first THEN byte(j - tail + 1)
                                  ELSE IF j < k - first THEN byte(first + j + 1) ELSE data[j]]
      BY <1>1 DEF Stored
    <3>2. /\ x \in Cell
          /\ i <= count => ~(x >= tail /\ x < tail + first) /\ ~(x < k - first)
          /\ i > count => \/ x >= tail /\ x < tail + first /\ x - tail + 1 = i - count
                          \/ ~(x >= tail /\ x < tail + first) /\ x < k - first /\ first + x + 1 = i - count
      <4>1. /\ head \in Nat /\ head < PIPE_CAPACITY /\ count \in Nat /\ k \in Nat /\ 0 < k
            /\ count + k <= PIPE_CAPACITY /\ i \in 1 .. count + k
        BY <1>2, <1>3
      <4>2. Placed(head, count, k, i)
        BY <4>1, CellOfWrite
      <4> QED
        BY <4>2 DEF Placed
    <3>3. G[i] = data'[x]
      BY <1>1, <1>6, ZenonT(30)
    <3>4. i <= count => (F \o B)[i] = data[x]
      <4>1. i <= count => i \in 1 .. count
        BY <1>2, <1>3, SMTT(30)
      <4> QED
        BY <1>5, <2>1, <4>1, ZenonT(30)
    <3>5. i > count => (F \o B)[i] = byte(i - count)
      <4>1. i > count => ~(i <= count) /\ i - count \in 1 .. k
        BY <1>2, <1>3, SMTT(30)
      <4> QED
        BY <1>8, <2>1, <4>1, ZenonT(30)
    <3> HIDE DEF tail, first, x, byte
    <3>6. data'[x] = IF x >= tail /\ x < tail + first THEN byte(x - tail + 1)
                     ELSE IF x < k - first THEN byte(first + x + 1) ELSE data[x]
      BY <3>1, <3>2
    <3>7. CASE i <= count
      BY <3>2, <3>3, <3>4, <3>6, <3>7
    <3>8. CASE i > count
      BY <3>2, <3>3, <3>5, <3>6, <3>8, ZenonT(30)
    <3>9. i <= count \/ i > count
      BY <1>2, <1>3, SMTT(30)
    <3> QED
      BY <3>7, <3>8, <3>9, ZenonT(30)
  <2> QED
    BY <1>1, <1>6, <2>1, <2>2, SeqEqual
<1>10. k \in 1 .. PIPE_CAPACITY /\ Len(F) + k <= PIPE_CAPACITY /\ written \in 0 .. n
  BY <1>0, <1>2, <1>3, <1>5, Constants, SMTT(30)
<1>11. Abstract!Put(t, n, written, k)
  BY <1>1, <1>3, <1>7, <1>9, <1>10 DEF Abstract!Put, B
<1> QED
  BY <1>10, <1>11 DEF Abstract!Next

LEMMA OtherRefines ==
  ASSUME UNCHANGED ring, out' = <<>>, live' => live
  PROVE  Abstract!Next
<1>1. Fifo' = Fifo
  BY DEF Fifo, ring
<1> QED
  BY <1>1 DEF Abstract!Next, Abstract!Other

LEMMA EmptyQueue ==
  ASSUME NEW d, NEW h
  PROVE  Queue(d, h, 0) = <<>>
<1>1. Queue(d, h, 0) \in [1 .. 0 -> {}]
  BY SMTT(30) DEF Queue
<1>2. Queue(d, h, 0) \in Seq({}) /\ Len(Queue(d, h, 0)) = 0
  BY <1>1, FunctionIsSeq
<1> QED
  BY <1>2, EmptySeq

LEMMA NextRefines ==
  ASSUME PipeInv, Next
  PROVE  Abstract!Next
<1>a. PICK t \in Task :
    \/ pipe_create(t) \/ mark_task_exited(t)
    \/ pipe_read_resume(t) \/ pipe_write_resume(t) \/ sys_poll_resume(t)
    \/ task_interrupt(t) \/ wq_wait_cut(t)
    \/ \E e \in End : pipe_ref(t, e) \/ sys_close(t, e) \/ \E f \in End : fd_dup_into(t, e, f)
    \/ \E c \in Task, r, w \in 0 .. MaxFds : task_inherit_stdio(t, c, r, w)
    \/ \E n \in Reads, nonblock \in BOOLEAN : pipe_read(t, n, nonblock)
    \/ \E n \in Lengths, nonblock \in BOOLEAN : pipe_write(t, n, nonblock)
    \/ \E S \in SUBSET End, nowait \in BOOLEAN : sys_poll(t, S, nowait)
  BY DEF Next
<1>0. RingType
  BY DEF PipeInv, TypeOK
<1>10. /\ readers \in Nat /\ writers \in Nat
       /\ fds[t]["r"] \in Nat /\ fds[t]["w"] \in Nat
       /\ live <=> readers # 0 \/ writers # 0
       /\ fds[t]["r"] > 0 \/ fds[t]["w"] > 0 => live
  <2>1. live <=> readers # 0 \/ writers # 0
    BY ZenonT(30) DEF PipeInv, FreedWhenUnused
  <2>2. /\ readers \in Nat /\ writers \in Nat
        /\ fds[t]["r"] \in Nat /\ fds[t]["w"] \in Nat
        /\ fds[t]["r"] <= readers /\ fds[t]["w"] <= writers
    BY Shares, ZenonT(30)
  <2>3. fds[t]["r"] > 0 \/ fds[t]["w"] > 0 => readers # 0 \/ writers # 0
    BY ONLY <2>2
  <2> QED
    BY <2>1, <2>2, <2>3, ZenonT(30)
<1>1. CASE pipe_create(t)
  <2>1. count' = 0 /\ out' = <<>> /\ ~live /\ live' = TRUE
    BY <1>1 DEF pipe_create
  <2>2. Fifo' = Queue(data', head', 0)
    BY <2>1 DEF Fifo, Queue
  <2> QED
    BY <2>1, <2>2, EmptyQueue DEF Abstract!Next, Abstract!Create
<1>2. ASSUME NEW n \in Reads, NEW nonblock \in BOOLEAN, ReadLoop(t, n, nonblock),
             live, live' = live
      PROVE  Abstract!Next
  <2>1. CASE count > 0 /\ ReadChunk(t, n)
    BY <1>0, <1>2, <2>1, TakeRefines, Constants
  <2>2. CASE out' = <<>> /\ UNCHANGED ring
    BY <1>2, <2>2, OtherRefines
  <2> QED
    BY <1>2, <2>1, <2>2 DEF ReadLoop
<1>3. ASSUME NEW n \in Lengths, NEW written \in Nat, NEW nonblock \in BOOLEAN,
             written < n, n <= PIPE_BUF => written = 0, WriteLoop(t, n, written, nonblock),
             live, live' = live
      PROVE  Abstract!Next
  <2>1. CASE Space >= Need(n, written) /\ WriteChunk(t, n, written, nonblock)
    BY <1>0, <1>3, <2>1, PutRefines
  <2>2. CASE out' = <<>> /\ UNCHANGED ring
    BY <1>3, <2>2, OtherRefines
  <2> QED
    BY <1>3, <2>1, <2>2 DEF WriteLoop
<1>4. CASE \E n \in Reads, nonblock \in BOOLEAN : pipe_read(t, n, nonblock)
  <2>1. live /\ live' = live
    BY <1>4, <1>10, ZenonT(30) DEF pipe_read, ends
  <2> QED
    BY <1>2, <1>4, <2>1, ZenonT(30) DEF pipe_read
<1>5. CASE \E n \in Lengths, nonblock \in BOOLEAN : pipe_write(t, n, nonblock)
  <2>1. live /\ live' = live
    BY <1>5, <1>10 DEF pipe_write, ends
  <2> QED
    BY <1>3, <1>5, <2>1, Constants, ZenonT(30) DEF pipe_write
<1>6. CASE pipe_read_resume(t)
  <2>1. req[t].n \in Reads
    BY <1>6, ZenonT(30) DEF PipeInv, ParkedAreLinked, pipe_read_resume, Resumes
  <2>2. fds[t]["r"] > 0 /\ live' = live
    BY <1>6 DEF PipeInv, FreedWhenUnused, pipe_read_resume, Resumes, ends
  <2> QED
    BY <1>2, <1>6, <1>10, <2>1, <2>2 DEF pipe_read_resume
<1>7. CASE pipe_write_resume(t)
  <2>1. /\ req[t].n \in Lengths /\ req[t].written \in Nat
        /\ req[t].written < req[t].n /\ (req[t].n <= PIPE_BUF => req[t].written = 0)
    BY <1>7 DEF PipeInv, ParkedAreLinked, TypeOK, WaitType, pipe_write_resume, Resumes
  <2>2. fds[t]["w"] > 0 /\ live' = live
    BY <1>7 DEF PipeInv, FreedWhenUnused, pipe_write_resume, Resumes, ends
  <2> QED
    BY <1>3, <1>7, <1>10, <2>1, <2>2, ZenonT(30) DEF pipe_write_resume
<1>8. CASE UNCHANGED ring /\ out' = <<>> /\ (live' => live)
  BY <1>8, OtherRefines
<1>11. CASE mark_task_exited(t)
  <2>1. /\ UNCHANGED ring /\ out' = <<>>
        /\ readers' = readers - fds[t]["r"] /\ writers' = writers - fds[t]["w"]
        /\ live' = (readers' + writers' > 0)
    BY <1>11 DEF mark_task_exited, Unref
  <2>2. readers' + writers' > 0 => readers # 0 \/ writers # 0
    <3>1. readers' = readers - fds[t]["r"] /\ writers' = writers - fds[t]["w"]
      BY <2>1
    <3>2. /\ readers \in Nat /\ writers \in Nat
          /\ fds[t]["r"] \in Nat /\ fds[t]["w"] \in Nat
      BY <1>10
    <3> QED
      BY ONLY <3>1, <3>2
  <2> QED
    BY <1>8, <1>10, <2>1, <2>2, ZenonT(30)
<1>12. CASE \E e \in End : sys_close(t, e)
  <2>1. UNCHANGED ring /\ out' = <<>> /\ \E e \in End : fds[t][e] > 0
    BY <1>12 DEF sys_close
  <2> QED
    BY <1>8, <1>10, <2>1, ZenonT(30) DEF End
<1>9. ASSUME \/ sys_poll_resume(t) \/ task_interrupt(t) \/ wq_wait_cut(t)
             \/ \E e \in End : pipe_ref(t, e) \/ \E f \in End : fd_dup_into(t, e, f)
             \/ \E c \in Task, r, w \in 0 .. MaxFds : task_inherit_stdio(t, c, r, w)
             \/ \E S \in SUBSET End, nowait \in BOOLEAN : sys_poll(t, S, nowait)
      PROVE  UNCHANGED ring /\ out' = <<>> /\ (live' => live)
  <2>1. UNCHANGED ring /\ out' = <<>>
    BY <1>9 DEF sys_poll_resume, sys_poll, PollLoop, task_interrupt, wq_wait_cut,
                       pipe_ref, fd_dup_into, task_inherit_stdio
  <2>2. live' = live
    <3>1. UNCHANGED ends => live' = live
      BY DEF ends
    <3> QED
      BY <1>9, <3>1 DEF sys_poll_resume, sys_poll, PollLoop, task_interrupt, wq_wait_cut,
                               pipe_ref, fd_dup_into, task_inherit_stdio
  <2> QED
    BY <2>1, <2>2
<1> QED
  BY <1>a, <1>1, <1>4, <1>5, <1>6, <1>7, <1>8, <1>9, <1>11, <1>12, SMTT(30)

\* The ring buffer and its blocking protocol implement the bounded queue of
\* bytes: order is kept across the wrap, and small writes go in whole.
THEOREM PipeIsQueue == Spec => ImplementsByteQueue
<1>1. Init => Abstract!Init
  <2> SUFFICES ASSUME Init PROVE Abstract!Init
    OBVIOUS
  <2>1. Fifo = Queue(data, head, 0) /\ out = <<>> /\ live = FALSE
    BY DEF Init, Fifo, Queue
  <2> QED
    BY <2>1, EmptyQueue DEF Abstract!Init
<1>2. PipeInv /\ [Next]_vars => [Abstract!Next]_<<live, Fifo, out>>
  <2>1. UNCHANGED vars => UNCHANGED <<live, Fifo, out>>
    BY DEF vars, Fifo
  <2> QED
    BY <2>1, NextRefines
<1> QED
  BY <1>1, <1>2, PipeInvariant, PTL DEF Spec, ImplementsByteQueue, Abstract!Spec
=============================================================================
