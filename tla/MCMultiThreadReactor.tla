------------------------ MODULE MCMultiThreadReactor ------------------------
(***************************************************************************)
(* MultiThreadReactor for TLC, with the fairness under which stop() ends.  *)
(***************************************************************************)
EXTENDS MultiThreadReactor

CallbackEnds(l) == CallbackReturns(l) /\ UNCHANGED <<table, life, arg, at>>

\* The scheduler runs every thread, and callbacks return.
Fairness ==
  /\ \A t \in Threads : WF_vars(CallStep(t))
  /\ \A l \in Loops : WF_vars(WorkerStep(l)) /\ SF_vars(CallbackEnds(l))

FairSpec == Spec /\ Fairness

\* stop() "tells all loops to stop and waits for the worker threads to exit"
\* -- and returns, whatever the workers were doing.
StopReturns == \A t \in Stoppers : (pc[t] = "stop") ~> (pc[t] = Home(t))
=============================================================================
