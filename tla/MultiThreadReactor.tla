------------------------- MODULE MultiThreadReactor -------------------------
(***************************************************************************)
(* MultiThreadReactor of multi_thread_reactor/src/multi_thread_reactor.cpp *)
(* over its event loops: start() and stop() under the lifecycle mutex, and *)
(* add(), modify() and remove(), which look up or change `owners` in one   *)
(* section and the owning loop in another.  Users call them, and callbacks *)
(* on the worker threads do.                                               *)
(***************************************************************************)
EXTENDS EventLoop

CONSTANTS Stoppers,     \* the threads that may call stop()
          SerialCalls   \* do callers keep calls on one descriptor, and the
                        \* calls to start() and stop(), from overlapping?

ASSUME CallersAssumption == Stoppers \subseteq Threads /\ SerialCalls \in BOOLEAN

VARIABLES
  owners,               \* owners[f]: the loop of f, or None
  next_loop,            \* modulo the number of loops
  is_running, stopped_after_start,
  lifecycle_mutex,      \* the thread that holds it, or None
  threads,              \* the loops whose std::thread is joinable
  stopped_by,           \* history: the thread whose stop() found it running, or None
  arg, at               \* each caller's fd and loop_index

table == <<owners, next_loop>>
life == <<is_running, stopped_after_start, lifecycle_mutex, threads, stopped_by>>
vars == <<loop, pc, table, life, arg, at>>

Init ==
  /\ LoopInit
  /\ pc = [t \in Threads |-> IF t \in Loops THEN "unborn" ELSE "idle"]
  /\ owners = [f \in Fds |-> None] /\ next_loop = 0
  /\ is_running = FALSE /\ stopped_after_start = FALSE
  /\ lifecycle_mutex = None /\ threads = {} /\ stopped_by = None
  /\ arg = [t \in Threads |-> None]
  /\ at = [t \in Threads |-> 0]

-----------------------------------------------------------------------------
(* Who may call.                                                           *)

CanCall(t) == pc[t] = Home(t)

LifeLabels == {"start", "spawn", "fail_flag", "fail_wake", "fail_join",
               "stop", "stop_flag", "stop_wake", "stop_join"}

CanUse(t, f) ==
  CanCall(t) /\ (SerialCalls => \A u \in Threads : arg[u] # f)

CanRule(t) ==
  CanCall(t) /\ (SerialCalls => \A u \in Threads : pc[u] \notin LifeLabels)

Return(t) == Goto(t, Home(t)) /\ arg' = [arg EXCEPT ![t] = None]

-----------------------------------------------------------------------------
(* add(), modify() and remove()                                            *)

\* The check that the reactor runs, and the choice of a loop.
add(t, f) ==
  /\ CanUse(t, f)
  /\ is_running
  /\ arg' = [arg EXCEPT ![t] = f]
  /\ at' = [at EXCEPT ![t] = next_loop]
  /\ next_loop' = (next_loop + 1) % Workers
  /\ Goto(t, "add_owner")
  /\ UNCHANGED <<loop, owners, life>>

AddOwner(t) ==
  /\ pc[t] = "add_owner"
  /\ \/ /\ owners[arg[t]] = None
        /\ owners' = [owners EXCEPT ![arg[t]] = at[t]]
        /\ Goto(t, "add_loop")
        /\ UNCHANGED arg
     \/ /\ owners[arg[t]] # None     \* throws
        /\ Return(t)
        /\ UNCHANGED owners
  /\ UNCHANGED <<loop, next_loop, life, at>>

AddLoop(t) ==
  /\ pc[t] = "add_loop"
  /\ \/ LoopAdd(at[t], arg[t]) /\ Goto(t, "call_wake")
     \/ Goto(t, "add_undo") /\ UNCHANGED loop   \* already there, or epoll_ctl() fails
  /\ UNCHANGED <<table, life, arg, at>>

\* Seeded fault: the exception leaves the entry in the table.
AddUndo_Forgets(t) ==
  /\ pc[t] = "add_undo"
  /\ Return(t)
  /\ UNCHANGED <<loop, table, life, at>>

\* The handler of that exception.
AddUndo(t) ==
  /\ pc[t] = "add_undo"
  /\ owners' = [owners EXCEPT ![arg[t]] = None]
  /\ Return(t)
  /\ UNCHANGED <<loop, next_loop, life, at>>

\* The last step of the loop's add(), modify() and remove().
CallWake(t) ==
  /\ pc[t] = "call_wake"
  /\ LoopWake(at[t])
  /\ Return(t)
  /\ UNCHANGED <<table, life, at>>

\* remove(), when the table has the descriptor.
remove(t, f) ==
  /\ CanUse(t, f)
  /\ owners[f] # None
  /\ arg' = [arg EXCEPT ![t] = f]
  /\ at' = [at EXCEPT ![t] = owners[f]]
  /\ owners' = [owners EXCEPT ![f] = None]
  /\ Goto(t, "remove_loop")
  /\ UNCHANGED <<loop, next_loop, life>>

RemoveLoop(t) ==
  /\ pc[t] = "remove_loop"
  /\ \/ LoopRemove(at[t], arg[t]) /\ Goto(t, "call_wake") /\ UNCHANGED arg
     \/ LoopRemove(at[t], arg[t]) /\ Return(t)     \* epoll_ctl() fails
     \/ arg[t] \notin watchers[at[t]] /\ Return(t) /\ UNCHANGED loop
  /\ UNCHANGED <<table, life, at>>

\* modify(), when the table has the descriptor.
modify(t, f) ==
  /\ CanUse(t, f)
  /\ owners[f] # None
  /\ arg' = [arg EXCEPT ![t] = f]
  /\ at' = [at EXCEPT ![t] = owners[f]]
  /\ Goto(t, "modify_loop")
  /\ UNCHANGED <<loop, table, life>>

ModifyLoop(t) ==
  /\ pc[t] = "modify_loop"
  /\ \/ arg[t] \in watchers[at[t]] /\ Goto(t, "call_wake") /\ UNCHANGED arg
     \/ Return(t)                               \* not there, or epoll_ctl() fails
  /\ UNCHANGED <<loop, table, life, at>>

-----------------------------------------------------------------------------
(* start() and stop().  `at` is the loop the caller's iteration has reached. *)

Lock(t) == lifecycle_mutex = None /\ lifecycle_mutex' = t

\* One more loop, or on to the next stage.
Iterate(t, label, after) ==
  IF at[t] + 1 < Workers
    THEN Goto(t, label) /\ at' = [at EXCEPT ![t] = @ + 1]
    ELSE Goto(t, after) /\ at' = [at EXCEPT ![t] = 0]

start(t) ==
  /\ CanRule(t) /\ t \in Users
  /\ ~is_running /\ ~stopped_after_start     \* else it returns or throws
  /\ Lock(t)
  /\ is_running' = TRUE
  /\ at' = [at EXCEPT ![t] = 0]
  /\ Goto(t, "spawn")
  /\ UNCHANGED <<loop, table, stopped_after_start, threads, stopped_by, arg>>

\* threads.emplace_back() succeeds, for the last loop or for one before it,
\* or throws.
Spawn(t) ==
  /\ pc[t] = "spawn"
  /\ threads' = threads \cup {at[t]}
  /\ IF at[t] + 1 < Workers
       THEN /\ pc' = [pc EXCEPT ![at[t]] = "check"]
            /\ at' = [at EXCEPT ![t] = @ + 1]
            /\ UNCHANGED lifecycle_mutex
       ELSE /\ pc' = [pc EXCEPT ![at[t]] = "check", ![t] = Home(t)]
            /\ lifecycle_mutex' = None
            /\ UNCHANGED at
  /\ UNCHANGED <<loop, table, is_running, stopped_after_start, stopped_by, arg>>

SpawnFails(t) ==
  /\ pc[t] = "spawn"
  /\ Goto(t, "fail_flag")
  /\ at' = [at EXCEPT ![t] = 0]
  /\ UNCHANGED <<loop, table, life, arg>>

stop(t) ==
  /\ t \in Stoppers /\ CanRule(t)
  /\ Goto(t, "stop")
  /\ UNCHANGED <<loop, table, life, arg, at>>

StopLocked(t) ==
  /\ pc[t] = "stop"
  /\ lifecycle_mutex = None
  /\ \/ /\ is_running
        /\ lifecycle_mutex' = t
        /\ is_running' = FALSE /\ stopped_after_start' = TRUE
        /\ stopped_by' = t
        /\ at' = [at EXCEPT ![t] = 0]
        /\ Goto(t, "stop_flag")
     \/ /\ ~is_running
        /\ Goto(t, Home(t))
        /\ UNCHANGED <<lifecycle_mutex, is_running, stopped_after_start, stopped_by, at>>
  /\ UNCHANGED <<loop, table, threads, arg>>

\* Seeded fault: the eventfd of the loops that follow the first is not written.
StopWake_OnlyFirst(t) ==
  /\ IF at[t] = 0 THEN LoopWake(at[t]) ELSE UNCHANGED loop
  /\ \/ pc[t] = "stop_wake" /\ Iterate(t, "stop_flag", "stop_join")
     \/ pc[t] = "fail_wake" /\ Iterate(t, "fail_flag", "fail_join")
  /\ UNCHANGED <<table, life, arg>>

\* loop->stop() of every loop: the flag, then the eventfd.
StopFlag(t) ==
  /\ pc[t] \in {"stop_flag", "fail_flag"}
  /\ LoopStop(at[t])
  /\ Goto(t, IF pc[t] = "stop_flag" THEN "stop_wake" ELSE "fail_wake")
  /\ UNCHANGED <<table, life, arg, at>>

StopWake(t) ==
  /\ LoopWake(at[t])
  /\ \/ pc[t] = "stop_wake" /\ Iterate(t, "stop_flag", "stop_join")
     \/ pc[t] = "fail_wake" /\ Iterate(t, "fail_flag", "fail_join")
  /\ UNCHANGED <<table, life, arg>>

\* Seeded fault: a start() that fails detaches the threads it has made.
JoinOne_FailDetaches(t, label) ==
  /\ pc[t] = label
  /\ threads # {}
  /\ \E l \in threads : /\ \A k \in threads : l <= k
                        /\ l = t \/ pc[l] = "exited" \/ label = "fail_join"
                        /\ threads' = threads \ {l}
  /\ UNCHANGED <<loop, pc, table, is_running, stopped_after_start, lifecycle_mutex, stopped_by,
                 arg, at>>

\* join() every joinable thread; stop() detaches its own.
JoinOne(t, label) ==
  /\ pc[t] = label
  /\ threads # {}
  /\ \E l \in threads : /\ \A k \in threads : l <= k
                        /\ l = t \/ pc[l] = "exited"
                        /\ threads' = threads \ {l}
  /\ UNCHANGED <<loop, pc, table, is_running, stopped_after_start, lifecycle_mutex, stopped_by,
                 arg, at>>

Joined(t) ==
  /\ threads = {}
  /\ \/ pc[t] = "stop_join" /\ UNCHANGED <<is_running, stopped_after_start>>
     \/ pc[t] = "fail_join" /\ is_running' = FALSE /\ stopped_after_start' = TRUE
  /\ lifecycle_mutex' = None
  /\ Goto(t, Home(t))
  /\ UNCHANGED <<loop, table, threads, stopped_by, arg, at>>

StopStep(t) == \/ StopLocked(t) \/ StopFlag(t) \/ StopWake(t)
               \/ JoinOne(t, "stop_join") \/ JoinOne(t, "fail_join") \/ Joined(t)

-----------------------------------------------------------------------------
\* The rest of a call that has begun.
CallStep(t) == \/ AddOwner(t) \/ AddLoop(t) \/ AddUndo(t) \/ CallWake(t)
               \/ RemoveLoop(t) \/ ModifyLoop(t)
               \/ Spawn(t) \/ SpawnFails(t) \/ StopStep(t)

WorkerStep(l) == RunStep(l) /\ UNCHANGED <<table, life, arg, at>>

Next == \/ \E t \in Threads :
             \/ \E f \in Fds : add(t, f) \/ remove(t, f) \/ modify(t, f)
             \/ start(t) \/ stop(t) \/ CallStep(t)
        \/ \E l \in Loops : WorkerStep(l)

Spec == Init /\ [][Next]_vars

-----------------------------------------------------------------------------
TypeOK ==
  /\ watchers \in [Loops -> SUBSET Fds]
  /\ wake_fd \in [Loops -> BOOLEAN] /\ stopping \in [Loops -> BOOLEAN]
  /\ batch \in [Loops -> SUBSET (Fds \cup {Eventfd})]
  /\ cur \in [Loops -> Fds \cup {None}]
  /\ pc \in [Threads -> {"unborn", "check", "wait", "collect", "dispatch", "callback",
                          "exited", "idle", "add_owner", "add_loop", "add_undo", "call_wake",
                          "remove_loop", "modify_loop"} \cup LifeLabels]
  /\ owners \in [Fds -> Loops \cup {None}] /\ next_loop \in Loops
  /\ is_running \in BOOLEAN /\ stopped_after_start \in BOOLEAN
  /\ lifecycle_mutex \in Threads \cup {None} /\ threads \subseteq Loops
  /\ stopped_by \in Threads \cup {None}
  /\ arg \in [Threads -> Fds \cup {None}] /\ at \in [Threads -> Loops]

\* While no call on f is under way, the table and the loops agree: f is in
\* the loop the table names and in no other.  Two sections of add() and of
\* remove(), an exception between them, and a stop() in the middle must
\* leave nothing behind.
OwnersAgree ==
  \A f \in Fds :
    (\A t \in Threads : arg[t] # f) =>
      \A l \in Loops : f \in watchers[l] <=> owners[f] = l

\* Once a stop(), or a start() that failed, has given up the lifecycle
\* mutex, no worker thread is left but the one whose callback made that
\* stop(), which cannot join itself.  After a start() that failed there is
\* none at all.
StopJoinsWorkers ==
  (stopped_after_start /\ lifecycle_mutex = None) =>
    \A l \in Loops : l = stopped_by \/ pc[l] \in {"unborn", "exited"}
=============================================================================
