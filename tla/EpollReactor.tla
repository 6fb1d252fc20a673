---------------------------- MODULE EpollReactor ----------------------------
(***************************************************************************)
(* EpollReactor of epoll/src/epoll_reactor.cpp: one epoll instance, its    *)
(* eventfd and its watchers, with the part of the kernel's epoll that the  *)
(* callers depend on.  The operators are the reactor's calls and the steps *)
(* of run(); a module that composes them says what the callbacks do, and   *)
(* by poll[f] in which state the descriptor f is.                          *)
(*                                                                         *)
(* add(), modify() and remove() change the table and the epoll instance in *)
(* one section, so `watchers` is both.                                     *)
(***************************************************************************)
EXTENDS Integers, Sequences, FiniteSetsExt

CONSTANTS
  Fds,         \* the descriptors that callers register
  max_events   \* how many of them one epoll_wait() returns

Eventfd == -1          \* the reactor's own descriptor, level-triggered

ASSUME EventfdAssumption == Eventfd \notin Fds /\ max_events \in Nat \ {0}

VARIABLES
  watchers,     \* watchers[f]: the events f is registered for, {} if it is not
  ready_list,   \* the kernel's: descriptors that may have something to report
  wake_fd,      \* the eventfd is readable
  stopping,
  callbacks,    \* callbacks[f]: the events runOnce() has in hand for f, or {}
  pc            \* where the thread in run() is

reactor == <<watchers, ready_list, wake_fd, stopping, callbacks>>

NoEvents == [f \in Fds \cup {Eventfd} |-> {}]

ReactorInit(registered) ==
  /\ watchers = registered /\ ready_list = {}
  /\ wake_fd = FALSE /\ stopping = FALSE /\ callbacks = NoEvents /\ pc = "run"

\* What epoll is asked for; errors and hangups are always reported.
toNativeEvents(events) ==
  {"rdhup", "err", "hup"} \cup (IF "read" \in events THEN {"in"} ELSE {})
                          \cup (IF "write" \in events THEN {"out"} ELSE {})

\* What is reported of f in state `poll`.
Reported(f, poll) == IF watchers[f] = {} THEN {} ELSE poll \cap toNativeEvents(watchers[f])

\* ADD and MOD look at the descriptor: what is ready by then is reported,
\* edge-triggered or not.
Queued(f, events, poll) ==
  IF poll \cap toNativeEvents(events) # {} THEN ready_list \cup {f} ELSE ready_list \ {f}

-----------------------------------------------------------------------------
(* The calls.  add() of a registered descriptor, and modify() of any other, *)
(* throw: they are not enabled.                                             *)

add(f, events, poll) ==
  /\ watchers[f] = {}
  /\ watchers' = [watchers EXCEPT ![f] = events]
  /\ ready_list' = Queued(f, events, poll)

modify(f, events, poll) ==
  /\ watchers[f] # {}
  /\ watchers' = [watchers EXCEPT ![f] = events]
  /\ ready_list' = Queued(f, events, poll)

remove(f) ==
  /\ watchers' = [watchers EXCEPT ![f] = {}]
  /\ ready_list' = ready_list \ {f}

StopStore == stopping' = TRUE /\ UNCHANGED <<watchers, ready_list, wake_fd, callbacks>>
wake == wake_fd' = TRUE /\ UNCHANGED <<watchers, ready_list, stopping, callbacks>>

\* Seeded fault: the loop is woken before there is anything to see.
stop_WakesFirst(step) == IF step = 1 THEN wake ELSE StopStore

stop(step) == IF step = 1 THEN StopStore ELSE wake

-----------------------------------------------------------------------------
(* run(), by one thread.                                                   *)

RunStore == /\ pc = "run" /\ pc' = "check"
            /\ stopping' = FALSE
            /\ UNCHANGED <<watchers, ready_list, wake_fd, callbacks>>

RunCheck == /\ pc = "check" /\ pc' = IF stopping THEN "returned" ELSE "wait"
            /\ UNCHANGED reactor

\* epoll_wait() without a timeout: max_events of the ready descriptors, or all
\* if there are no more.  The rest stay in the list, and so does what is
\* level-triggered.
RunWait(poll) ==
  LET live == {f \in ready_list : Reported(f, poll[f]) # {}}
      ready == live \cup (IF wake_fd THEN {Eventfd} ELSE {})
  IN /\ pc = "wait" /\ pc' = "collect"
     /\ ready # {}
     /\ \E batch \in kSubset(Min({max_events, Cardinality(ready)}), ready) :
          /\ callbacks' = [f \in Fds \cup {Eventfd} |->
                             IF f \notin batch THEN {}
                             ELSE IF f = Eventfd THEN {"in"} ELSE Reported(f, poll[f])]
          /\ ready_list' = {f \in live : f \in batch => "et" \notin watchers[f]}
     /\ UNCHANGED <<watchers, wake_fd, stopping>>

\* drainWake(), when the eventfd was reported.
Drained == wake_fd /\ callbacks[Eventfd] = {}

\* The section that drains the eventfd and copies the callbacks.
RunCollect ==
  /\ pc = "collect" /\ pc' = "dispatch"
  /\ wake_fd' = Drained
  /\ callbacks' = [f \in Fds \cup {Eventfd} |->
                     IF f # Eventfd /\ watchers[f] # {} THEN callbacks[f] ELSE {}]
  /\ UNCHANGED <<watchers, ready_list, stopping>>

\* Every callback has run.
RunAgain == /\ pc = "dispatch" /\ callbacks = NoEvents
            /\ pc' = "check"
            /\ UNCHANGED reactor
=============================================================================
