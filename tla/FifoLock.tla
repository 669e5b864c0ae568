------------------------------ MODULE FifoLock ------------------------------
(***************************************************************************)
(* What the VFS gate (kernel/fs/vfs/lock.c) promises, without its queue,   *)
(* its owner word or the scheduler: callers form one line, the head of the *)
(* line is inside, and a caller leaves only from the head.  The gate is    *)
(* shown to implement this in VfsGate and VfsGateProofs.                   *)
(***************************************************************************)
EXTENDS Sequences

CONSTANT Task

VARIABLE line

Waiting == {line[i] : i \in DOMAIN line}

Init == line = <<>>

Enter(t) ==
  /\ t \notin Waiting
  /\ line' = Append(line, t)

Leave ==
  /\ line # <<>>
  /\ line' = Tail(line)

Next == Leave \/ \E t \in Task : Enter(t)

Spec == Init /\ [][Next]_line
=============================================================================
