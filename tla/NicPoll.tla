------------------------------ MODULE NicPoll ------------------------------
(***************************************************************************)
(* Network input: the receive ring of the e1000                            *)
(* (drivers/network/eth/e1000/e1000.c), its interrupt, and the driver poll *)
(* task (drivers/driver.c) that empties the ring.                          *)
(*                                                                         *)
(* The card stores a frame in the descriptor at its head while the head    *)
(* has not reached the tail, sets Descriptor Done and an interrupt cause.  *)
(* The interrupt only acknowledges and kicks the poll task.  A pass of the *)
(* poll task hands over at most one ring of frames and gives each          *)
(* descriptor back by moving the tail.  The card runs beside the           *)
(* processor: it may store a frame between any two descriptors of a pass.  *)
(* Interrupts come between any two steps; the test of poll_kicked and the  *)
(* park are one step, with interrupts off.                                 *)
(***************************************************************************)
EXTENDS Integers, Sequences

CONSTANTS Frames,              \* what a frame may hold
          E1000_NUM_RX_DESC,
          MaxBusy              \* busy passes before the task parks (8)

ASSUME NicAssumption == /\ E1000_NUM_RX_DESC \in Nat /\ E1000_NUM_RX_DESC > 1
                        /\ MaxBusy \in Nat

NoFrame == <<>>
Desc == 0 .. E1000_NUM_RX_DESC - 1

VARIABLES
    desc,            \* rx_ring_virt: the frame in a descriptor that is done
    rdh, rdt,        \* REG_RXDESCHEAD, REG_RXDESCTAIL
    rx_current,
    cause,           \* REG_ICR is not zero
    poll_kicked,
    poll,            \* where the poll task is
    budget,          \* frames handed over in this pass
    busy,
    line             \* observer: frames stored and not handed over, oldest first

nicVars == <<desc, rdh, rdt, rx_current, cause, poll_kicked, poll, budget, busy, line>>

NextDesc(i) == (i + 1) % E1000_NUM_RX_DESC

NicInit ==
    /\ desc = [i \in Desc |-> NoFrame]
    /\ rdh = 0
    /\ rdt = E1000_NUM_RX_DESC - 1
    /\ rx_current = 0
    /\ cause = FALSE
    /\ poll_kicked = FALSE
    /\ poll = "rx"
    /\ budget = 0
    /\ busy = 0
    /\ line = <<>>

-----------------------------------------------------------------------------
(* The card *)

nic_receive(f) ==
    /\ rdh # rdt
    /\ desc' = [desc EXCEPT ![rdh] = <<f>>]
    /\ rdh' = NextDesc(rdh)
    /\ cause' = TRUE
    /\ line' = Append(line, f)
    /\ UNCHANGED <<rdt, rx_current, poll_kicked, poll, budget, busy>>

-----------------------------------------------------------------------------
(* The interrupt: reading ICR acknowledges it, wq_wake_all wakes the task *)

e1000_irq_handler ==
    /\ cause
    /\ cause' = FALSE
    /\ poll_kicked' = TRUE
    /\ poll' = IF poll = "parked" THEN "ready" ELSE poll
    /\ UNCHANGED <<desc, rdh, rdt, rx_current, budget, busy, line>>

-----------------------------------------------------------------------------
(* The poll task *)

\* Faulty variant: the tail is moved one further.
PollTailAhead ==
    /\ poll = "rx"
    /\ budget < E1000_NUM_RX_DESC
    /\ desc[rx_current] # NoFrame
    /\ desc' = [desc EXCEPT ![rx_current] = NoFrame]
    /\ rdt' = NextDesc(rx_current)
    /\ rx_current' = NextDesc(rx_current)
    /\ budget' = budget + 1
    /\ line' = Tail(line)
    /\ UNCHANGED <<rdh, cause, poll_kicked, poll, busy>>

\* One turn of the loop of e1000_poll_rx.
e1000_poll_rx ==
    /\ poll = "rx"
    /\ budget < E1000_NUM_RX_DESC
    /\ desc[rx_current] # NoFrame
    /\ desc' = [desc EXCEPT ![rx_current] = NoFrame]
    /\ rdt' = rx_current
    /\ rx_current' = NextDesc(rx_current)
    /\ budget' = budget + 1
    /\ line' = Tail(line)
    /\ UNCHANGED <<rdh, cause, poll_kicked, poll, busy>>

\* Faulty variants: the kick is cleared after the pass instead of before it, and
\* the budget is not renewed.
ClearAfterPass ==
    /\ poll = "rx"
    /\ budget = E1000_NUM_RX_DESC \/ desc[rx_current] = NoFrame
    /\ poll' = IF budget > 0 /\ busy < MaxBusy THEN "rx" ELSE "wait"
    /\ busy' = IF budget > 0 /\ busy < MaxBusy THEN busy + 1 ELSE 0
    /\ budget' = 0
    /\ poll_kicked' = FALSE
    /\ UNCHANGED <<desc, rdh, rdt, rx_current, cause, line>>

SpentBudget ==
    /\ poll = "rx"
    /\ budget = E1000_NUM_RX_DESC \/ desc[rx_current] = NoFrame
    /\ poll' = "wait"
    /\ UNCHANGED <<desc, rdh, rdt, rx_current, cause, poll_kicked, budget, busy, line>>

\* The loop is over: with the ring empty, or the budget spent.  Another device
\* of the pass may have had work.  A pass that worked yields and goes round.
driver_poll_thread ==
    /\ poll = "rx"
    /\ budget = E1000_NUM_RX_DESC \/ desc[rx_current] = NoFrame
    /\ \E other \in BOOLEAN :
          IF (other \/ budget > 0) /\ busy < MaxBusy
          THEN busy' = busy + 1 /\ poll' = "rx"
          ELSE busy' = 0 /\ poll' = "wait"
    /\ budget' = 0
    /\ UNCHANGED <<desc, rdh, rdt, rx_current, cause, poll_kicked, line>>

\* if (!poll_kicked) wq_wait(...)
poll_wait ==
    /\ poll = "wait"
    /\ poll' = IF poll_kicked THEN "rx" ELSE "parked"
    /\ poll_kicked' = FALSE
    /\ UNCHANGED <<desc, rdh, rdt, rx_current, cause, budget, busy, line>>

\* DRIVER_IDLE_MS are over.
poll_timeout ==
    /\ poll = "parked"
    /\ poll' = "ready"
    /\ UNCHANGED <<desc, rdh, rdt, rx_current, cause, poll_kicked, budget, busy, line>>

\* wq_wait has returned.
poll_resume ==
    /\ poll = "ready"
    /\ poll_kicked' = FALSE
    /\ poll' = "rx"
    /\ UNCHANGED <<desc, rdh, rdt, rx_current, cause, budget, busy, line>>

PollStep == e1000_poll_rx \/ driver_poll_thread \/ poll_wait \/ poll_resume

NicNext ==
    \/ \E f \in Frames : nic_receive(f)
    \/ e1000_irq_handler
    \/ PollStep
    \/ poll_timeout

NicSpec == NicInit /\ [][NicNext]_nicVars

-----------------------------------------------------------------------------
(* Properties *)

NicTypeOK ==
    /\ desc \in [Desc -> {NoFrame} \cup {<<f>> : f \in Frames}]
    /\ rdh \in Desc /\ rdt \in Desc /\ rx_current \in Desc
    /\ cause \in BOOLEAN
    /\ poll_kicked \in BOOLEAN
    /\ poll \in {"rx", "wait", "parked", "ready"}
    /\ budget \in 0 .. E1000_NUM_RX_DESC
    /\ busy \in 0 .. MaxBusy
    /\ line \in Seq(Frames)

\* The task hands frames over in the order in which the card stored them, and
\* none is overwritten: the descriptors from rx_current on hold exactly the
\* frames still to be handed over.
FramesInOrder ==
    /\ Len(line) < E1000_NUM_RX_DESC
    /\ \A k \in 1 .. E1000_NUM_RX_DESC :
          desc[(rx_current + k - 1) % E1000_NUM_RX_DESC] =
              IF k <= Len(line) THEN <<line[k]>> ELSE NoFrame

\* The ring never wedges: as long as a descriptor beyond the one kept back is
\* empty, the card has somewhere to put a frame.
NeverWedged ==
    Len(line) < E1000_NUM_RX_DESC - 1 => rdh # rdt

\* The receive ring is a queue the card and the driver share: in order, nothing
\* overwritten, never wedged.
RingIsQueue == NicTypeOK /\ FramesInOrder /\ NeverWedged

\* The task does not sleep through a kick: when it is parked with a frame in
\* the ring, the interrupt for it is still to come.
KickNotLost ==
    poll = "parked" /\ line # <<>> => cause

\* What makes the clearing of poll_kicked safe: the frames stored before it are
\* at most one ring, and the pass that follows has the budget for them.
PassCoversKick ==
    ~ cause /\ ~ poll_kicked =>
        CASE poll = "rx"     -> Len(line) + budget <= E1000_NUM_RX_DESC
          [] poll = "wait"   -> line = <<>>
          [] poll = "parked" -> line = <<>>
          [] OTHER           -> TRUE

\* The oldest frame in the ring is handed over, if only after the idle timeout:
\* no descriptor stays the current one for ever while frames wait.
FramesHandled == \A i \in Desc : []<>(line = <<>> \/ rx_current # i)
=============================================================================
