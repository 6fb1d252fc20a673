----------------------------- MODULE EventLoop -----------------------------
(***************************************************************************)
(* EventLoop of multi_thread_reactor/src/multi_thread_reactor.cpp: one     *)
(* epoll instance, its eventfd and its watchers, run by a worker thread    *)
(* while other threads call add(), modify(), remove(), wake() and stop().  *)
(* There is a loop per worker; the worker's thread is named by its loop.   *)
(*                                                                         *)
(* A section under the loop's mutex is one step, and epoll_ctl() is in it, *)
(* so `watchers` is also what is in the epoll instance.  Which watched     *)
(* descriptors are ready, and which of the ready ones fit in one call of   *)
(* epoll_wait(), is the environment's choice.  Event masks are left out:   *)
(* modify() only wakes the loop.                                           *)
(***************************************************************************)
EXTENDS Integers, FiniteSets

CONSTANTS Workers,    \* the number of loops
          Users,      \* the other threads
          Fds,        \* file descriptors
          None        \* no descriptor, no loop, no thread

ASSUME WorkersAssumption == Workers \in Nat \ {0}

Loops == 0 .. Workers - 1
Threads == Users \cup Loops
Eventfd == "eventfd"      \* the loop's own descriptor

ASSUME NamesAssumption ==
  Users \cap Loops = {} /\ None \notin Threads \cup Fds /\ Eventfd \notin Fds

VARIABLES
  watchers,   \* watchers[l]: the descriptors registered with loop l
  wake_fd,    \* wake_fd[l]: the eventfd of l is readable
  stopping,   \* stopping[l]
  batch,      \* batch[l]: what runOnce() has in hand: events, then callbacks
  cur,        \* cur[l]: the descriptor whose callback the worker is in
  pc          \* where each thread is

loop == <<watchers, wake_fd, stopping, batch, cur>>

LoopInit ==
  /\ watchers = [l \in Loops |-> {}]
  /\ wake_fd = [l \in Loops |-> FALSE]
  /\ stopping = [l \in Loops |-> FALSE]
  /\ batch = [l \in Loops |-> {}]
  /\ cur = [l \in Loops |-> None]

Goto(t, label) == pc' = [pc EXCEPT ![t] = label]

\* A call made by t is over: a worker makes its calls inside a callback.
Home(t) == IF t \in Loops THEN "callback" ELSE "idle"

-----------------------------------------------------------------------------
(* What run() does, with an infinite timeout in runOnce().                 *)

RunCheck(l) ==
  /\ pc[l] = "check"
  /\ Goto(l, IF stopping[l] THEN "exited" ELSE "wait")
  /\ UNCHANGED loop

\* epoll_wait(): returns ready descriptors, up to max_events of them.
RunWait(l) ==
  /\ pc[l] = "wait"
  /\ \E ready \in SUBSET (watchers[l] \cup {Eventfd}) \ {{}} :
       /\ Eventfd \in ready => wake_fd[l]
       /\ batch' = [batch EXCEPT ![l] = ready]
  /\ Goto(l, "collect")
  /\ UNCHANGED <<watchers, wake_fd, stopping, cur>>

\* The section that drains the eventfd, if it was reported, and copies the
\* callbacks of what is still registered.
RunCollect(l) ==
  /\ pc[l] = "collect"
  /\ wake_fd' = [wake_fd EXCEPT ![l] = @ /\ Eventfd \notin batch[l]]
  /\ batch' = [batch EXCEPT ![l] = @ \cap watchers[l]]
  /\ Goto(l, "dispatch")
  /\ UNCHANGED <<watchers, stopping, cur>>

\* The copied callbacks run without the lock.
RunCallback(l) ==
  /\ pc[l] = "dispatch"
  /\ \E f \in batch[l] :
       /\ cur' = [cur EXCEPT ![l] = f]
       /\ batch' = [batch EXCEPT ![l] = @ \ {f}]
  /\ Goto(l, "callback")
  /\ UNCHANGED <<watchers, wake_fd, stopping>>

CallbackReturns(l) ==
  /\ pc[l] = "callback"
  /\ cur' = [cur EXCEPT ![l] = None]
  /\ Goto(l, "dispatch")
  /\ UNCHANGED <<watchers, wake_fd, stopping, batch>>

RunAgain(l) ==
  /\ pc[l] = "dispatch"
  /\ batch[l] = {}
  /\ Goto(l, "check")
  /\ UNCHANGED loop

RunStep(l) == \/ RunCheck(l) \/ RunWait(l) \/ RunCollect(l)
              \/ RunCallback(l) \/ CallbackReturns(l) \/ RunAgain(l)

-----------------------------------------------------------------------------
(* What other threads do to a loop.  Each leaves the caller's pc alone.    *)

\* add(): the emplace finds nothing there and epoll_ctl() succeeds.
LoopAdd(l, f) == /\ f \notin watchers[l]
                 /\ watchers' = [watchers EXCEPT ![l] = @ \cup {f}]
                 /\ UNCHANGED <<wake_fd, stopping, batch, cur>>

LoopRemove(l, f) == /\ f \in watchers[l]
                    /\ watchers' = [watchers EXCEPT ![l] = @ \ {f}]
                    /\ UNCHANGED <<wake_fd, stopping, batch, cur>>

\* wake(): a write to the eventfd.
LoopWake(l) == /\ wake_fd' = [wake_fd EXCEPT ![l] = TRUE]
               /\ UNCHANGED <<watchers, stopping, batch, cur>>

\* The first half of stop(); wake() is the second.
LoopStop(l) == /\ stopping' = [stopping EXCEPT ![l] = TRUE]
               /\ UNCHANGED <<watchers, wake_fd, batch, cur>>
=============================================================================
