---------------------------- MODULE MCRingBuffer ----------------------------
(***************************************************************************)
(* RingBuffer for TLC, with the fairness under which blocked calls return. *)
(***************************************************************************)
EXTENDS RingBuffer

CONSTANT Observed   \* threads are interchangeable: one stands for all

\* The scheduler runs every thread that is not asleep.  Nothing is assumed
\* of timeouts and spurious wakeups.
FairSpec == Spec /\ \A t \in Threads : WF_vars(Step(t))

\* close() "wakes the waiting threads": no call stays blocked.
CloseWakesAll ==
  \A t \in Observed : (closed /\ pc[t] = "asleep") ~> (pc[t] = "idle")

\* A consumer does not sleep on while there is something to take, nor a
\* producer while there is room.
WaitEnds ==
  \A t \in Observed :
    /\ (pc[t] = "asleep" /\ op[t] \in Pops) ~> (pc[t] # "asleep" \/ size = 0)
    /\ (pc[t] = "asleep" /\ op[t] \in Pushes) ~> (pc[t] # "asleep" \/ size = Capacity)
=============================================================================
