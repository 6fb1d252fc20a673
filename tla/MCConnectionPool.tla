-------------------------- MODULE MCConnectionPool --------------------------
(***************************************************************************)
(* ConnectionPool for TLC, with the fairness under which shutdown() ends.  *)
(***************************************************************************)
EXTENDS ConnectionPool

Symmetry == Permutations(Clients) \cup Permutations(Connections)

\* The scheduler runs every thread, borrowers return what they borrowed, and
\* factory(), ping() and close() return.  Nothing is assumed of deadlines
\* and spurious wakeups: a sleeping thread may depend on being notified.
Fairness ==
  /\ \A p \in Clients : WF_vars(AcquireStep(p) \/ ReleaseStep(p) \/ WarmUpStep(p))
  /\ WF_vars(CleanerStep)
  /\ WF_vars(ShutdownStep)

FairSpec == Spec /\ Fairness

\* "waits until active borrowed connections have been returned": shutdown()
\* returns, although it sleeps while a connection is borrowed.
ShutdownReturns == (pc[Closer] = "shut_join") ~> (pc[Closer] = "shut_down")

\* Where a client is between the first lock of tryAcquireFor() and its return.
InTryAcquireFor == ClientLabels \ {"out", "hold", "close_release"}

\* shutdown() "wakes waiting callers": a client that is anywhere inside
\* tryAcquireFor() when it begins -- asleep, awake or expired in wait_until(),
\* in the factory, in ping() or retiring a connection -- gets out of the call,
\* whatever its deadline.
ShutdownEndsCalls ==
  \A p \in Clients : (shutting_down /\ pc[p] \in InTryAcquireFor) ~> (pc[p] = "out")
=============================================================================
