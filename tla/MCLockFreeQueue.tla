-------------------------- MODULE MCLockFreeQueue --------------------------
(***************************************************************************)
(* LockFreeQueue for TLC, with the fairness under which its calls return.  *)
(***************************************************************************)
EXTENDS LockFreeQueue, TLC

CONSTANT Stalled    \* a thread that may be suspended for ever at any step

Symmetry == Permutations(Threads) \cup Permutations(Values)

\* The scheduler runs every other thread.  A compare-exchange that is tried
\* again and again while it could succeed does not fail spuriously for ever.
Fairness ==
  \A t \in Threads \ {Stalled} :
    /\ WF_vars(PushStep(t) \/ PopStep(t))
    /\ SF_vars(PushCas(t)) /\ SF_vars(PopCas(t))

FairSpec == Spec /\ Fairness

\* "Operations are non-blocking": every call returns, wherever in a call the
\* Stalled thread has stopped.
NonBlocking ==
  \A t \in Threads \ {Stalled} : (pc[t] # "idle") ~> (pc[t] = "idle")
=============================================================================
