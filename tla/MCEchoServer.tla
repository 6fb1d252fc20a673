---------------------------- MODULE MCEchoServer ----------------------------
(***************************************************************************)
(* EchoServer for TLC, with the fairness under which it answers and stops. *)
(***************************************************************************)
EXTENDS EchoServer

\* The scheduler runs the thread in run(), and stop() once it is called, and
\* a peer reads what reaches it.  Nothing is assumed of what peers send.
FairSpec ==
  /\ Spec
  /\ WF_vars(ServerStep) /\ WF_vars(StopWake)
  /\ \A c \in Conns : WF_vars(PeerReads(c))

\* Every byte comes back while its connection is open and run() goes on: no
\* edge is lost between the EAGAIN of recv() or send() and modify().
Delivered ==
  \A c \in Conns :
    LET owed == net[c].state = "open" /\ Len(net[c].got) < net[c].sent
    IN owed ~> (~owed \/ pc = "returned")

\* stop() ends run() wherever the loop is when it comes: before its test,
\* asleep in epoll_wait(), draining the eventfd or in a callback.
StopWakesLoop == (stopping /\ pc # "run") ~> (pc = "returned")
=============================================================================
