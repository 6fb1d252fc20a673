------------------------ MODULE MCMemoryLeakDetector ------------------------
(***************************************************************************)
(* MemoryLeakDetector for TLC, with the fairness under which calls return. *)
(***************************************************************************)
EXTENDS MemoryLeakDetector

\* A block of no bytes, which has an address and a record all the same.
MCRequests == {<<0, FALSE>>, <<2, TRUE>>}

CONSTANT Observed   \* threads are interchangeable: one stands for all

\* The scheduler runs a thread that can go on.
FairSpec == Spec /\ \A t \in Threads : WF_vars(Step(t))

\* Every call returns: the detector's own use of operator new and delete
\* under its mutex does not come back to that mutex, and no failure leaves
\* it locked.
CallsReturn == \A t \in Observed : (pc[t] # "idle") ~> (pc[t] = "idle")
=============================================================================
