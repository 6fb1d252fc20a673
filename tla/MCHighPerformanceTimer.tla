----------------------- MODULE MCHighPerformanceTimer -----------------------
(***************************************************************************)
(* HighPerformanceTimer for TLC, with the fairness under which timers fire *)
(* and shutdown() ends.                                                    *)
(***************************************************************************)
EXTENDS HighPerformanceTimer

\* The scheduler of the system runs every thread, a timed wait ends when its
\* time has come, and callbacks return.  Nothing is assumed of spurious
\* wakeups, nor that the clock advances.
Fairness ==
  /\ \A t \in Callers : WF_vars(CallStep(t))
  /\ WF_vars(SchedulerStep)
  /\ \A w \in Workers : WF_vars(WorkerStep(w)) /\ SF_vars(CallbackReturns(w))

FairSpec == Spec /\ Fairness

\* shutdown() returns, whatever the scheduler and the callbacks were doing.
ShutdownReturns ==
  (\E t \in Shutters : pc[t] = "shut_notify") ~> (\A t \in Shutters : pc[t] \notin ShutdownLabels)

\* A timer whose deadline has come does not stay in the table with it: it
\* fires, or is cancelled.
DueFires ==
  \A id \in Ids :
    (Active(id) /\ timers[id].deadline <= now) ~> ~(Active(id) /\ timers[id].deadline <= now)

\* Queued callbacks are run: the workers are woken for them.
QueuedRun == (ready_callbacks # <<>>) ~> (ready_callbacks = <<>>)
=============================================================================
