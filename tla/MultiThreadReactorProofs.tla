---------------------- MODULE MultiThreadReactorProofs ----------------------
(***************************************************************************)
(* For every number of loops, of other threads and of descriptors: stop()  *)
(* joins every worker but its own caller, and, if callers keep calls       *)
(* on one descriptor from overlapping, the table of owners and the loops   *)
(* agree.                                                                  *)
(***************************************************************************)
EXTENDS MultiThreadReactor, TLAPS

-----------------------------------------------------------------------------
(* The inductive invariant.                                                *)

CallLabels == {"add_owner", "add_loop", "add_undo", "call_wake", "remove_loop", "modify_loop"}
RunLabels == {"check", "wait", "collect", "dispatch"}
StartLabels == {"spawn", "fail_flag", "fail_wake", "fail_join"}
StopLabels == {"stop_flag", "stop_wake", "stop_join"}

\* Who can be where.
PlacesOK ==
  \A t \in Threads :
    /\ pc[t] \in {"unborn", "exited", "callback"} \cup RunLabels => t \in Loops
    /\ pc[t] \in {"idle"} \cup StartLabels => t \in Users
    /\ pc[t] \in {"stop"} \cup StopLabels => t \in Stoppers
    /\ pc[t] # "start"

\* The lifecycle mutex is held by the thread that is inside start() or stop().
MutexOK == \A t \in Threads : pc[t] \in StartLabels \cup StopLabels <=> lifecycle_mutex = t

\* Workers are started once, and one stop() finds the reactor running.  A
\* worker that runs can still be joined, or made that stop() and detached
\* itself.
LifeOK ==
  /\ is_running => ~stopped_after_start
  /\ ~is_running /\ ~stopped_after_start => threads = {} /\ \A l \in Loops : pc[l] = "unborn"
  /\ \A t \in Threads : pc[t] = "spawn" =>
       is_running /\ \A l \in Loops : l >= at[t] => pc[l] = "unborn"
  /\ stopped_after_start /\ lifecycle_mutex = None => threads = {}
  /\ stopped_by # None => stopped_after_start
  /\ \A t \in Threads : pc[t] \in StopLabels => stopped_by = t
  /\ \A l \in Loops : pc[l] \in {"unborn", "exited"} \/ l \in threads \/ l = stopped_by

\* A thread has a descriptor in hand while its call on it is under way.
CallsOK == \A t \in Threads : arg[t] # None <=> pc[t] \in CallLabels

\* Only registered descriptors have callbacks: not the eventfd.
BatchOK == \A l \in Loops : pc[l] # "collect" => batch[l] \subseteq Fds

\* What holds however callers overlap.
Lifecycle == TypeOK /\ PlacesOK /\ MutexOK /\ LifeOK /\ CallsOK /\ BatchOK

\* The table and the loops agree on f.
Agree(f) == \A l \in Loops : f \in watchers[l] <=> owners[f] = l

\* What they say of f while thread t is inside a call on it.
Between(t, f) ==
  /\ pc[t] \in {"add_owner", "call_wake", "modify_loop"} => Agree(f)
  /\ pc[t] \in {"add_loop", "add_undo"} =>
       owners[f] = at[t] /\ \A l \in Loops : f \notin watchers[l]
  /\ pc[t] = "remove_loop" =>
       owners[f] = None /\ \A l \in Loops : f \in watchers[l] <=> l = at[t]

\* One call at a time on a descriptor, and what it leaves to the next.
SerialOK ==
  /\ \A t, u \in Threads : arg[t] # None /\ arg[t] = arg[u] => t = u
  /\ \A t \in Threads, f \in Fds : arg[t] = f => Between(t, f)

-----------------------------------------------------------------------------
\* The loop that round robin chooses is one of them.
LEMMA Remainder ==
  ASSUME NEW a \in Nat, NEW n \in Nat \ {0}
  PROVE  a % n \in 0 .. n - 1
OBVIOUS

\* Loops are numbered from 0 and are threads; users are others.
LEMMA LoopFacts ==
  /\ Loops \subseteq Nat /\ Loops \subseteq Threads /\ 0 \in Loops /\ Users \subseteq Threads
  /\ Users \cap Loops = {} /\ None \notin Threads /\ None \notin Loops /\ None \notin Fds
  /\ \A l \in Loops : l + 1 < Workers => l + 1 \in Loops
BY WorkersAssumption, NamesAssumption DEF Loops, Threads

(* The lifecycle, step by step.                                            *)

AllLabels == {"unborn", "check", "wait", "collect", "dispatch", "callback",
              "exited", "idle", "add_owner", "add_loop", "add_undo", "call_wake",
              "remove_loop", "modify_loop"} \cup LifeLabels

\* Where a call returns to.
LEMMA HomePlace ==
  ASSUME NEW t \in Threads
  PROVE  /\ Home(t) \in AllLabels /\ Home(t) \notin StartLabels \cup StopLabels \cup CallLabels
         /\ Home(t) \notin {"stop", "unborn", "exited", "start"} \cup RunLabels
         /\ Home(t) = "callback" => t \in Loops
         /\ Home(t) = "idle" => t \in Users
BY DEF Home, AllLabels, StartLabels, StopLabels, CallLabels, RunLabels, Threads

\* A thread moves and the lifecycle does not.
LEMMA LifecycleKept ==
  ASSUME Lifecycle, NEW t \in Threads, NEW label, pc' = [pc EXCEPT ![t] = label],
         UNCHANGED life, at' \in [Threads -> Loops],
         \A u \in Threads : u # t => at'[u] = at[u],
         pc[t] \notin {"unborn", "exited"} \cup StartLabels \cup StopLabels,
         label \notin {"unborn"} \cup StartLabels \cup StopLabels
  PROVE  MutexOK' /\ LifeOK'
<1> USE DEF life
<1>1. \A u \in Threads : pc'[u] = IF u = t THEN label ELSE pc[u]
  BY DEF Lifecycle, TypeOK
<1>2. MutexOK'
  BY <1>1 DEF Lifecycle, MutexOK
<1>3. LifeOK'
  <2>1. ~(~is_running /\ ~stopped_after_start) \/ t \notin Loops
    BY DEF Lifecycle, LifeOK
  <2>2. \A u \in Threads : pc'[u] = "spawn" => pc[u] = "spawn" /\ at'[u] = at[u]
    BY <1>1 DEF StartLabels
  <2>3. \A l \in Loops : pc[l] = "unborn" => pc'[l] = "unborn"
    BY <1>1, LoopFacts
  <2>4. \A l \in Loops : pc'[l] \in {"unborn", "exited"} \/ l \in threads \/ l = stopped_by
    BY <1>1, LoopFacts DEF Lifecycle, LifeOK
  <2>5. \A u \in Threads : pc'[u] \in StopLabels => stopped_by = u
    BY <1>1 DEF Lifecycle, LifeOK
  <2> QED BY <2>1, <2>2, <2>3, <2>4, <2>5 DEF Lifecycle, LifeOK
<1> QED BY <1>2, <1>3

\* A worker's step in run().
LEMMA RunLifecycle ==
  ASSUME Lifecycle, NEW l \in Loops, WorkerStep(l)
  PROVE  Lifecycle'
<1>1. l \in Threads /\ l \notin Users
  BY LoopFacts
<1>2. PICK label \in {"exited", "callback"} \cup RunLabels :
        /\ pc[l] \in {"callback"} \cup RunLabels /\ pc' = [pc EXCEPT ![l] = label]
        /\ UNCHANGED <<watchers, stopping>>
  BY DEF WorkerStep, RunStep, RunCheck, RunWait, RunCollect, RunCallback, CallbackReturns, RunAgain,
         Goto, loop, RunLabels
<1>3. UNCHANGED <<table, life, arg, at>>
  BY DEF WorkerStep
<1>4. wake_fd' \in [Loops -> BOOLEAN]
  <2>1. CASE RunCollect(l)
    <3>1. (wake_fd[l] /\ Eventfd \notin batch[l]) \in BOOLEAN
      BY <1>1 DEF Lifecycle, TypeOK
    <3> QED BY <2>1, <3>1 DEF RunCollect, Lifecycle, TypeOK
  <2>2. CASE UNCHANGED wake_fd
    BY <2>2 DEF Lifecycle, TypeOK
  <2> QED BY <2>1, <2>2 DEF WorkerStep, RunStep, RunCheck, RunWait, RunCallback, CallbackReturns, RunAgain, loop
<1>5. batch' \in [Loops -> SUBSET (Fds \cup {Eventfd})] /\ cur' \in [Loops -> Fds \cup {None}]
  <2>1. CASE RunWait(l)
    BY <2>1 DEF RunWait, Lifecycle, TypeOK
  <2>2. CASE RunCollect(l)
    BY <2>2 DEF RunCollect, Lifecycle, TypeOK
  <2>3. CASE RunCallback(l)
    <3>1. PICK f \in batch[l] : cur' = [cur EXCEPT ![l] = f] /\ batch' = [batch EXCEPT ![l] = @ \ {f}]
      BY <2>3 DEF RunCallback
    <3>2. f \in Fds
      BY <2>3, <3>1 DEF RunCallback, Lifecycle, BatchOK
    <3> QED BY <3>1, <3>2 DEF Lifecycle, TypeOK
  <2>4. CASE CallbackReturns(l)
    BY <2>4 DEF CallbackReturns, Lifecycle, TypeOK
  <2>5. CASE RunCheck(l) \/ RunAgain(l)
    BY <2>5 DEF RunCheck, RunAgain, loop, Lifecycle, TypeOK
  <2> QED BY <2>1, <2>2, <2>3, <2>4, <2>5 DEF WorkerStep, RunStep
<1>6. TypeOK'
  <2>1. pc' \in [Threads -> AllLabels]
    BY <1>1, <1>2 DEF Lifecycle, TypeOK, AllLabels, RunLabels
  <2> QED BY <1>2, <1>3, <1>4, <1>5, <2>1 DEF Lifecycle, TypeOK, AllLabels, table, life
<1>7. \A u \in Threads : pc'[u] = IF u = l THEN label ELSE pc[u]
  BY <1>1, <1>2 DEF Lifecycle, TypeOK
<1>8. PlacesOK' /\ CallsOK'
  BY <1>1, <1>2, <1>3, <1>7 DEF Lifecycle, PlacesOK, CallsOK, RunLabels, StartLabels, StopLabels, CallLabels
<1>9. MutexOK' /\ LifeOK'
  <2>1. /\ pc[l] \notin {"unborn", "exited"} \cup StartLabels \cup StopLabels
        /\ label \notin {"unborn"} \cup StartLabels \cup StopLabels
        /\ at' \in [Threads -> Loops] /\ \A u \in Threads : at'[u] = at[u]
    BY <1>2, <1>3 DEF RunLabels, StartLabels, StopLabels, Lifecycle, TypeOK
  <2> QED BY <1>1, <1>2, <1>3, <2>1, LifecycleKept
<1>10. BatchOK'
  <2>1. \A k \in Loops : k # l => batch'[k] = batch[k] /\ pc'[k] = pc[k]
    BY <1>1, <1>7, LoopFacts DEF WorkerStep, RunStep, RunCheck, RunWait, RunCollect, RunCallback,
       CallbackReturns, RunAgain, loop, Lifecycle, TypeOK
  <2>2. pc'[l] # "collect" => batch'[l] \subseteq Fds
    <3>1. CASE RunWait(l)
      BY <1>1, <3>1 DEF RunWait, Goto, Lifecycle, TypeOK
    <3>2. CASE RunCollect(l)
      BY <1>1, <3>2 DEF RunCollect, Lifecycle, TypeOK
    <3>3. CASE RunCallback(l)
      BY <1>1, <3>3 DEF RunCallback, Lifecycle, TypeOK, BatchOK
    <3>4. CASE CallbackReturns(l) \/ RunCheck(l) \/ RunAgain(l)
      BY <1>1, <3>4 DEF CallbackReturns, RunCheck, RunAgain, loop, Lifecycle, BatchOK
    <3> QED BY <3>1, <3>2, <3>3, <3>4 DEF WorkerStep, RunStep
  <2> QED BY <2>1, <2>2 DEF Lifecycle, BatchOK
<1> QED BY <1>6, <1>8, <1>9, <1>10 DEF Lifecycle

\* A step of a call on a descriptor: what it may change, and where it goes.
LEMMA CallLifecycle ==
  ASSUME Lifecycle, NEW t \in Threads, NEW label \in CallLabels \cup {Home(t)},
         pc' = [pc EXCEPT ![t] = label], pc[t] \in CallLabels \cup {Home(t)},
         arg' \in [Threads -> Fds \cup {None}], at' \in [Threads -> Loops],
         \A u \in Threads : u # t => at'[u] = at[u] /\ arg'[u] = arg[u],
         arg'[t] # None <=> label \in CallLabels,
         watchers' \in [Loops -> SUBSET Fds], wake_fd' \in [Loops -> BOOLEAN],
         owners' \in [Fds -> Loops \cup {None}], next_loop' \in Loops,
         UNCHANGED <<life, stopping, batch, cur>>
  PROVE  Lifecycle'
<1>1. label \in AllLabels
  BY HomePlace DEF AllLabels, CallLabels
<1>2. TypeOK'
  <2>1. pc' \in [Threads -> AllLabels]
    BY <1>1 DEF Lifecycle, TypeOK, AllLabels
  <2> QED BY <2>1 DEF Lifecycle, TypeOK, AllLabels, life
<1>3. \A u \in Threads : pc'[u] = IF u = t THEN label ELSE pc[u]
  BY DEF Lifecycle, TypeOK
<1>4. /\ pc[t] \notin {"unborn", "exited"} \cup StartLabels \cup StopLabels
      /\ label \notin {"unborn", "exited", "stop", "start"} \cup StartLabels \cup StopLabels \cup RunLabels
      /\ label = "idle" => t \in Users
      /\ label = "callback" => t \in Loops
  BY HomePlace DEF CallLabels, StartLabels, StopLabels, RunLabels
<1>5. PlacesOK'
  BY <1>3, <1>4 DEF Lifecycle, PlacesOK
<1>6. CallsOK'
  BY <1>3 DEF Lifecycle, CallsOK
<1>7. MutexOK' /\ LifeOK'
  BY <1>4, LifecycleKept
<1>8. BatchOK'
  <2>1. pc[t] # "collect"
    BY HomePlace DEF CallLabels, RunLabels
  <2> QED BY <1>3, <2>1, LoopFacts DEF Lifecycle, BatchOK
<1> QED BY <1>2, <1>5, <1>6, <1>7, <1>8 DEF Lifecycle

\* The step of a call that has begun.
CallOn(t) == \/ AddOwner(t) \/ AddLoop(t) \/ AddUndo(t) \/ CallWake(t)
             \/ RemoveLoop(t) \/ ModifyLoop(t)

\* Every call on a descriptor, begun or not, is a step of that kind.
LEMMA CallsLifecycle ==
  ASSUME Lifecycle, NEW t \in Threads,
         CallOn(t) \/ \E f \in Fds : add(t, f) \/ remove(t, f) \/ modify(t, f)
  PROVE  Lifecycle'
<1> USE DEF Goto, Return, loop, table
<1>1. /\ arg \in [Threads -> Fds \cup {None}] /\ at \in [Threads -> Loops] /\ at[t] \in Loops
      /\ watchers \in [Loops -> SUBSET Fds] /\ wake_fd \in [Loops -> BOOLEAN]
      /\ owners \in [Fds -> Loops \cup {None}] /\ next_loop \in Loops
  BY DEF Lifecycle, TypeOK
<1>2. None \notin Fds /\ Home(t) \notin CallLabels
  BY LoopFacts, HomePlace
<1>3. pc[t] \in CallLabels => arg[t] \in Fds
  BY <1>1 DEF Lifecycle, CallsOK
<1>4. CASE \E f \in Fds : add(t, f)
  <2>1. PICK f \in Fds : add(t, f)
    BY <1>4
  <2>2. next_loop' \in Loops
    <3>1. next_loop + 1 \in Nat /\ Workers \in Nat \ {0} /\ next_loop' = (next_loop + 1) % Workers
      BY <1>1, <2>1, WorkersAssumption, LoopFacts DEF add
    <3> QED BY <3>1, Remainder DEF Loops
  <2>3. /\ pc' = [pc EXCEPT ![t] = "add_owner"] /\ pc[t] = Home(t) /\ arg' = [arg EXCEPT ![t] = f]
        /\ at' = [at EXCEPT ![t] = next_loop] /\ UNCHANGED <<watchers, wake_fd, owners>>
        /\ UNCHANGED <<life, stopping, batch, cur>>
    BY <2>1 DEF add, CanUse, CanCall
  <2>4. "add_owner" \in CallLabels
    BY DEF CallLabels
  <2> QED BY <1>1, <1>2, <2>2, <2>3, <2>4, CallLifecycle
<1>5. CASE \E f \in Fds : remove(t, f)
  <2>1. PICK f \in Fds : remove(t, f)
    BY <1>5
  <2>2. /\ pc' = [pc EXCEPT ![t] = "remove_loop"] /\ pc[t] = Home(t) /\ arg' = [arg EXCEPT ![t] = f]
        /\ at' = [at EXCEPT ![t] = owners[f]] /\ owners[f] # None /\ owners' = [owners EXCEPT ![f] = None]
        /\ UNCHANGED <<watchers, wake_fd, next_loop>> /\ UNCHANGED <<life, stopping, batch, cur>>
    BY <2>1 DEF remove, CanUse, CanCall
  <2>3. "remove_loop" \in CallLabels /\ owners[f] \in Loops
    BY <1>1, <2>2 DEF CallLabels
  <2> QED BY <1>1, <1>2, <2>2, <2>3, CallLifecycle
<1>6. CASE \E f \in Fds : modify(t, f)
  <2>1. PICK f \in Fds : modify(t, f)
    BY <1>6
  <2>2. /\ pc' = [pc EXCEPT ![t] = "modify_loop"] /\ pc[t] = Home(t) /\ arg' = [arg EXCEPT ![t] = f]
        /\ at' = [at EXCEPT ![t] = owners[f]] /\ owners[f] # None
        /\ UNCHANGED <<watchers, wake_fd, owners, next_loop>> /\ UNCHANGED <<life, stopping, batch, cur>>
    BY <2>1 DEF modify, CanUse, CanCall
  <2>3. "modify_loop" \in CallLabels /\ owners[f] \in Loops
    BY <1>1, <2>2 DEF CallLabels
  <2> QED BY <1>1, <1>2, <2>2, <2>3, CallLifecycle
<1>7. CASE CallOn(t)
  <2>1. pc[t] \in CallLabels /\ arg[t] \in Fds
    BY <1>3, <1>7 DEF CallOn, AddOwner, AddLoop, AddUndo, CallWake, RemoveLoop, ModifyLoop, CallLabels
  <2>2. PICK label \in {"add_loop", "add_undo", "call_wake", Home(t)} :
          /\ pc' = [pc EXCEPT ![t] = label]
          /\ label = Home(t) => arg' = [arg EXCEPT ![t] = None]
          /\ label # Home(t) => arg' = arg
    BY <1>2, <1>7 DEF CallOn, AddOwner, AddLoop, AddUndo, CallWake, RemoveLoop, ModifyLoop, CallLabels
  <2>3. UNCHANGED <<at, next_loop>> /\ UNCHANGED <<life, stopping, batch, cur>>
    BY <1>7 DEF CallOn, AddOwner, AddLoop, AddUndo, CallWake, RemoveLoop, ModifyLoop,
       LoopAdd, LoopRemove, LoopWake
  <2>4. watchers' \in [Loops -> SUBSET Fds]
    <3>1. CASE LoopAdd(at[t], arg[t])
      BY <1>1, <2>1, <3>1 DEF LoopAdd
    <3>2. CASE LoopRemove(at[t], arg[t])
      BY <1>1, <3>2 DEF LoopRemove
    <3>3. CASE watchers' = watchers
      BY <1>1, <3>3
    <3> QED BY <1>7, <3>1, <3>2, <3>3 DEF CallOn, AddOwner, AddLoop, AddUndo, CallWake, RemoveLoop,
          ModifyLoop, LoopWake
  <2>5. wake_fd' \in [Loops -> BOOLEAN]
    <3>1. CASE LoopWake(at[t])
      BY <1>1, <3>1 DEF LoopWake
    <3>2. CASE wake_fd' = wake_fd
      BY <1>1, <3>2
    <3> QED BY <1>7, <3>1, <3>2 DEF CallOn, AddOwner, AddLoop, AddUndo, CallWake, RemoveLoop,
          ModifyLoop, LoopAdd, LoopRemove
  <2>6. owners' \in [Fds -> Loops \cup {None}]
    BY <1>1, <1>7, <2>1 DEF CallOn, AddOwner, AddLoop, AddUndo, CallWake, RemoveLoop, ModifyLoop
  <2>7. label \in CallLabels \cup {Home(t)} /\ (label \in CallLabels <=> label # Home(t))
    BY <1>2 DEF CallLabels
  <2>8. arg' \in [Threads -> Fds \cup {None}] /\ (\A u \in Threads : u # t => arg'[u] = arg[u])
        /\ (arg'[t] # None <=> label \in CallLabels)
    BY <1>1, <1>2, <2>1, <2>2, <2>7
  <2> QED BY <1>1, <2>1, <2>2, <2>3, <2>4, <2>5, <2>6, <2>7, <2>8, CallLifecycle
<1> QED BY <1>4, <1>5, <1>6, <1>7

\* A step of start() or stop() other than Spawn: the caller goes to another
\* of their places, or returns.
LEMMA RuleLifecycle ==
  ASSUME Lifecycle, NEW t \in Threads,
         NEW label \in {"stop", Home(t)} \cup StartLabels \cup StopLabels,
         pc' = [pc EXCEPT ![t] = label],
         pc[t] \in {"stop", Home(t)} \cup StartLabels \cup StopLabels,
         label \in StartLabels => t \in Users,
         label \in {"stop"} \cup StopLabels => t \in Stoppers,
         UNCHANGED <<watchers, batch, cur, table, arg>>,
         wake_fd' \in [Loops -> BOOLEAN], stopping' \in [Loops -> BOOLEAN],
         is_running' \in BOOLEAN, stopped_after_start' \in BOOLEAN,
         lifecycle_mutex' \in Threads \cup {None}, threads' \subseteq threads,
         stopped_by' \in Threads \cup {None},
         at' \in [Threads -> Loops], \A u \in Threads : u # t => at'[u] = at[u],
         \/ lifecycle_mutex' = lifecycle_mutex /\ (label \in StartLabels \cup StopLabels
                                                     <=> pc[t] \in StartLabels \cup StopLabels)
         \/ lifecycle_mutex = None /\ lifecycle_mutex' = t /\ label \in StartLabels \cup StopLabels
         \/ lifecycle_mutex' = None /\ pc[t] \in StartLabels \cup StopLabels
              /\ label \notin StartLabels \cup StopLabels,
         LifeOK'
  PROVE  Lifecycle'
<1>1. label \in AllLabels /\ label \notin CallLabels \cup {"collect"} /\ pc[t] \notin CallLabels \cup {"collect"}
  BY HomePlace DEF AllLabels, LifeLabels, StartLabels, StopLabels, CallLabels, RunLabels
<1>2. \A u \in Threads : pc'[u] = IF u = t THEN label ELSE pc[u]
  BY DEF Lifecycle, TypeOK
<1>3. TypeOK'
  <2>1. pc' \in [Threads -> AllLabels]
    BY <1>1 DEF Lifecycle, TypeOK, AllLabels
  <2> QED BY <2>1 DEF Lifecycle, TypeOK, AllLabels, table
<1>4. CallsOK' /\ BatchOK'
  BY <1>1, <1>2, LoopFacts DEF Lifecycle, CallsOK, BatchOK
<1>5. PlacesOK'
  <2>1. /\ label \in {"unborn", "exited", "callback"} \cup RunLabels => t \in Loops
        /\ label \in {"idle"} \cup StartLabels => t \in Users
        /\ label \in {"stop"} \cup StopLabels => t \in Stoppers
        /\ label # "start"
    BY HomePlace DEF StartLabels, StopLabels, RunLabels
  <2> QED BY <1>2, <2>1 DEF Lifecycle, PlacesOK
<1>6. MutexOK'
  BY <1>2, LoopFacts DEF Lifecycle, MutexOK
<1> QED BY <1>3, <1>4, <1>5, <1>6 DEF Lifecycle

\* Only one thread is inside start() or stop(), and holds the mutex.
LEMMA Holder ==
  ASSUME Lifecycle, NEW t \in Threads, pc[t] \in StartLabels \cup StopLabels
  PROVE  lifecycle_mutex = t /\ \A u \in Threads : u # t => pc[u] \notin StartLabels \cup StopLabels
BY DEF Lifecycle, MutexOK

\* Nobody is inside start() or stop() while the mutex is free.
LEMMA NoHolder ==
  ASSUME Lifecycle, lifecycle_mutex = None
  PROVE  \A u \in Threads : pc[u] \notin StartLabels \cup StopLabels
BY LoopFacts DEF Lifecycle, MutexOK

\* start() keeps the invariant.
LEMMA StartLifecycle ==
  ASSUME Lifecycle, NEW t \in Threads, start(t)
  PROVE  Lifecycle'
<1>1. /\ pc[t] = Home(t) /\ t \in Users /\ ~is_running /\ ~stopped_after_start
      /\ lifecycle_mutex = None /\ lifecycle_mutex' = t /\ is_running' = TRUE
      /\ at' = [at EXCEPT ![t] = 0] /\ pc' = [pc EXCEPT ![t] = "spawn"]
      /\ UNCHANGED <<watchers, wake_fd, stopping, batch, cur, table, stopped_after_start, threads,
                     stopped_by, arg>>
  BY DEF start, CanRule, CanCall, Lock, Goto, loop
<1>2. \A u \in Threads : pc'[u] = IF u = t THEN "spawn" ELSE pc[u]
  BY <1>1 DEF Lifecycle, TypeOK
<1>3. threads = {} /\ \A l \in Loops : pc[l] = "unborn" /\ pc'[l] = "unborn"
  BY <1>1, <1>2, LoopFacts DEF Lifecycle, LifeOK
<1>4. LifeOK'
  <2>1. \A u \in Threads : pc'[u] = "spawn" => u = t
    BY <1>1, <1>2, NoHolder DEF StartLabels
  <2>2. \A u \in Threads : pc'[u] \notin StopLabels
    BY <1>1, <1>2, NoHolder DEF StopLabels
  <2>3. stopped_by' = None
    BY <1>1 DEF Lifecycle, LifeOK
  <2> QED BY <1>1, <1>3, <2>1, <2>2, <2>3 DEF LifeOK
<1>5. at' \in [Threads -> Loops] /\ (\A u \in Threads : u # t => at'[u] = at[u])
      /\ wake_fd' \in [Loops -> BOOLEAN] /\ stopping' \in [Loops -> BOOLEAN]
  BY <1>1, LoopFacts DEF Lifecycle, TypeOK
<1>6. /\ is_running' \in BOOLEAN /\ stopped_after_start' \in BOOLEAN
      /\ stopped_by' \in Threads \cup {None}
  BY <1>1 DEF Lifecycle, TypeOK
<1>7. "spawn" \in StartLabels /\ "spawn" \notin {"stop"} \cup StopLabels
  BY DEF StartLabels, StopLabels
<1> QED BY <1>1, <1>4, <1>5, <1>6, <1>7, RuleLifecycle

\* start() creates one worker after the other.
LEMMA SpawnLifecycle ==
  ASSUME Lifecycle, NEW t \in Threads, Spawn(t)
  PROVE  Lifecycle'
<1>1. /\ pc[t] = "spawn" /\ threads' = threads \cup {at[t]}
      /\ UNCHANGED <<watchers, wake_fd, stopping, batch, cur, table, is_running, stopped_after_start,
                     stopped_by, arg>>
  BY DEF Spawn, loop
<1>2. PICK l \in Loops : l = at[t]
  BY DEF Lifecycle, TypeOK
<1>3. t \in Users /\ t # l /\ l \in Threads /\ lifecycle_mutex = t /\ pc[t] \in StartLabels
  BY <1>1, LoopFacts, Holder DEF Lifecycle, PlacesOK, StartLabels
<1>4. is_running /\ ~stopped_after_start /\ \A k \in Loops : k >= l => pc[k] = "unborn"
  BY <1>1, <1>2 DEF Lifecycle, LifeOK
<1>5. PICK label \in {"spawn", "idle"} :
        /\ \A u \in Threads : pc'[u] = IF u = l THEN "check" ELSE IF u = t THEN label ELSE pc[u]
        /\ pc' \in [Threads -> AllLabels]
        /\ label = "spawn" => /\ l + 1 < Workers /\ lifecycle_mutex' = lifecycle_mutex
                              /\ at' = [at EXCEPT ![t] = l + 1]
        /\ label = "idle" => lifecycle_mutex' = None /\ at' = at
  <2>1. Home(t) = "idle"
    BY <1>3, LoopFacts DEF Home
  <2>2. pc \in [Threads -> AllLabels] /\ "check" \in AllLabels /\ "idle" \in AllLabels
    BY DEF Lifecycle, TypeOK, AllLabels
  <2>3. CASE l + 1 < Workers
    <3>1. /\ pc' = [pc EXCEPT ![l] = "check"] /\ at' = [at EXCEPT ![t] = l + 1]
          /\ lifecycle_mutex' = lifecycle_mutex
      BY <1>2, <2>3 DEF Spawn, Lifecycle, TypeOK
    <3> QED BY <1>1, <1>3, <2>2, <2>3, <3>1
  <2>4. CASE ~(l + 1 < Workers)
    <3>1. pc' = [pc EXCEPT ![l] = "check", ![t] = "idle"] /\ at' = at /\ lifecycle_mutex' = None
      BY <1>2, <2>1, <2>4 DEF Spawn
    <3> QED BY <1>3, <2>2, <3>1
  <2> QED BY <2>3, <2>4
<1>6. at' \in [Threads -> Loops] /\ \A u \in Threads : u # t => at'[u] = at[u]
  BY <1>2, <1>5, LoopFacts DEF Lifecycle, TypeOK
<1>7. TypeOK'
  <2>1. lifecycle_mutex' \in Threads \cup {None}
    BY <1>5 DEF Lifecycle, TypeOK
  <2>2. threads' \subseteq Loops
    BY <1>1, <1>2 DEF Lifecycle, TypeOK
  <2> QED BY <1>1, <1>5, <1>6, <2>1, <2>2 DEF Lifecycle, TypeOK, AllLabels, table
<1>8. pc[l] = "unborn"
  BY <1>4, LoopFacts
<1>9. CallsOK' /\ BatchOK'
  BY <1>1, <1>3, <1>5, <1>8, LoopFacts DEF Lifecycle, CallsOK, BatchOK, CallLabels
<1>10. PlacesOK'
  BY <1>1, <1>3, <1>5 DEF Lifecycle, PlacesOK, StartLabels, StopLabels, RunLabels
<1>11. MutexOK'
  BY <1>1, <1>3, <1>5, <1>8, LoopFacts DEF Lifecycle, MutexOK, StartLabels, StopLabels
<1>12. LifeOK'
  <2>1. ASSUME NEW u \in Threads, pc'[u] = "spawn"
        PROVE  u = t /\ at'[u] = l + 1
    <3>1. pc[u] = "spawn" /\ u # l
      BY <1>1, <1>5, <2>1
    <3>2. u = t
      BY <1>3, <3>1, Holder DEF StartLabels
    <3> QED BY <1>1, <1>2, <1>3, <1>5, <2>1, <3>2 DEF Lifecycle, TypeOK
  <2>2. \A k \in Loops : k >= l + 1 => pc'[k] = "unborn"
    <3> SUFFICES ASSUME NEW k \in Loops, k >= l + 1 PROVE pc'[k] = "unborn"
      OBVIOUS
    <3>1. k # l /\ k >= l /\ k # t /\ k \in Threads
      BY <1>3, LoopFacts
    <3> QED BY <1>4, <1>5, <3>1
  <2>3. \A k \in Loops : pc'[k] \in {"unborn", "exited"} \/ k \in threads' \/ k = stopped_by'
    BY <1>1, <1>2, <1>3, <1>5, LoopFacts DEF Lifecycle, LifeOK
  <2>4. stopped_by' = None /\ \A u \in Threads : pc'[u] \notin StopLabels
    <3>1. \A u \in Threads : u # t => pc[u] \notin StopLabels
      BY <1>3, Holder
    <3>2. stopped_by' = None
      BY <1>1, <1>4 DEF Lifecycle, LifeOK
    <3> QED BY <1>5, <3>1, <3>2 DEF StopLabels
  <2> QED BY <1>1, <1>4, <2>1, <2>2, <2>3, <2>4 DEF LifeOK
<1> QED BY <1>7, <1>9, <1>10, <1>11, <1>12 DEF Lifecycle

\* A stage of start() or stop() that goes on over the loops.
LEMMA IterateAt ==
  ASSUME Lifecycle, NEW t \in Threads, NEW label, NEW after, Iterate(t, label, after)
  PROVE  /\ at' \in [Threads -> Loops] /\ \A u \in Threads : u # t => at'[u] = at[u]
         /\ Goto(t, label) \/ Goto(t, after)
<1>1. at \in [Threads -> Loops] /\ at[t] \in Loops
  BY DEF Lifecycle, TypeOK
<1>2. CASE at[t] + 1 < Workers
  BY <1>1, <1>2, LoopFacts DEF Iterate
<1>3. CASE ~(at[t] + 1 < Workers)
  BY <1>1, <1>3, LoopFacts DEF Iterate
<1> QED BY <1>2, <1>3

\* While a thread that is not spawning goes on in start() or stop(), holding
\* the mutex or returning it, what LifeOK says of the loops stands.
LEMMA LifeGoesOn ==
  ASSUME Lifecycle, NEW t \in Threads, NEW label, pc' = [pc EXCEPT ![t] = label],
         pc[t] \notin {"unborn", "exited"}, label # "spawn",
         is_running' => is_running /\ ~stopped_after_start',
         stopped_after_start => stopped_after_start',
         is_running /\ ~is_running' => stopped_after_start',
         pc[t] \in StartLabels \cup StopLabels \/ lifecycle_mutex = None \/
           (is_running' = is_running /\ stopped_after_start' = stopped_after_start),
         stopped_after_start' /\ lifecycle_mutex' = None => threads' = {},
         threads' \subseteq threads,
         stopped_by' = stopped_by \/ (stopped_by = None /\ stopped_by' = t /\ stopped_after_start'),
         label \in StopLabels => stopped_by' = t,
         \A l \in threads \ threads' : l = stopped_by' \/ (l # t /\ pc[l] = "exited"),
         \A u \in Threads : u # t => at'[u] = at[u]
  PROVE  LifeOK'
<1>1. \A u \in Threads : pc'[u] = IF u = t THEN label ELSE pc[u]
  BY DEF Lifecycle, TypeOK
<1>2. \A l \in Loops : pc[l] = "unborn" => pc'[l] = "unborn"
  BY <1>1, LoopFacts
<1>3. ASSUME NEW u \in Threads, pc'[u] = "spawn"
      PROVE  is_running' /\ \A l \in Loops : l >= at'[u] => pc'[l] = "unborn"
  <2>1. u # t /\ pc[u] = "spawn"
    BY <1>1, <1>3
  <2>2. pc[t] \notin StartLabels \cup StopLabels /\ lifecycle_mutex # None
    BY <2>1, Holder, LoopFacts DEF StartLabels
  <2>3. is_running /\ \A l \in Loops : l >= at[u] => pc[l] = "unborn"
    BY <2>1 DEF Lifecycle, LifeOK
  <2> QED BY <1>2, <2>1, <2>2, <2>3
<1>4. \A l \in Loops : pc'[l] \in {"unborn", "exited"} \/ l \in threads' \/ l = stopped_by'
  BY <1>1, LoopFacts DEF Lifecycle, LifeOK
<1>5. ~is_running' /\ ~stopped_after_start' => threads' = {} /\ \A l \in Loops : pc'[l] = "unborn"
  BY <1>2 DEF Lifecycle, LifeOK
<1>6. \A u \in Threads : pc'[u] \in StopLabels => stopped_by' = u
  BY <1>1, LoopFacts DEF Lifecycle, LifeOK
<1>7. stopped_by' # None => stopped_after_start'
  BY DEF Lifecycle, LifeOK
<1> QED BY <1>3, <1>4, <1>5, <1>6, <1>7 DEF LifeOK

\* The steps of stop(), and of a start() that failed, keep the invariant.
LEMMA StopLifecycle ==
  ASSUME Lifecycle, NEW t \in Threads, SpawnFails(t) \/ stop(t) \/ StopStep(t)
  PROVE  Lifecycle'
<1> USE DEF Goto, life
<1>1. /\ at \in [Threads -> Loops] /\ at[t] \in Loops /\ 0 \in Loops
      /\ wake_fd \in [Loops -> BOOLEAN] /\ stopping \in [Loops -> BOOLEAN]
      /\ is_running \in BOOLEAN /\ stopped_after_start \in BOOLEAN
      /\ lifecycle_mutex \in Threads \cup {None} /\ stopped_by \in Threads \cup {None}
  BY LoopFacts DEF Lifecycle, TypeOK
<1>2. /\ is_running => ~stopped_after_start
      /\ stopped_after_start /\ lifecycle_mutex = None => threads = {}
      /\ pc[t] \in StopLabels => stopped_by = t
      /\ stopped_by # None => stopped_after_start
  BY DEF Lifecycle, LifeOK
<1>3. pc[t] \in StartLabels => t \in Users
  BY DEF Lifecycle, PlacesOK
<1>4. pc[t] \in {"stop"} \cup StopLabels => t \in Stoppers
  BY DEF Lifecycle, PlacesOK
<1>5. Home(t) \notin {"unborn", "exited", "spawn", "stop"} \cup StartLabels \cup StopLabels
  BY HomePlace DEF StartLabels
<1>6. CASE SpawnFails(t)
  <2>1. /\ pc[t] = "spawn" /\ pc' = [pc EXCEPT ![t] = "fail_flag"] /\ at' = [at EXCEPT ![t] = 0]
        /\ UNCHANGED <<watchers, batch, cur, table, arg, wake_fd, stopping>> /\ UNCHANGED life
    BY <1>6 DEF SpawnFails, loop
  <2>2. "fail_flag" \in StartLabels /\ "spawn" \in StartLabels /\ "fail_flag" \notin {"stop"} \cup StopLabels
    BY DEF StartLabels, StopLabels
  <2>3. LifeOK'
    BY <1>1, <1>2, <2>1, <2>2, LifeGoesOn
  <2> QED BY <1>1, <1>3, <2>1, <2>2, <2>3, RuleLifecycle
<1>7. CASE stop(t)
  <2>1. /\ pc[t] = Home(t) /\ pc' = [pc EXCEPT ![t] = "stop"] /\ t \in Stoppers
        /\ UNCHANGED <<watchers, batch, cur, table, arg, wake_fd, stopping, at>> /\ UNCHANGED life
    BY <1>7 DEF stop, CanRule, CanCall, loop
  <2>2. "stop" \notin StartLabels \cup StopLabels
    BY DEF StartLabels, StopLabels
  <2>3. LifeOK'
    BY <1>1, <1>2, <1>5, <2>1, <2>2, LifeGoesOn
  <2> QED BY <1>1, <1>5, <2>1, <2>2, <2>3, RuleLifecycle
<1>8. CASE StopLocked(t)
  <2>1. /\ pc[t] = "stop" /\ lifecycle_mutex = None
        /\ UNCHANGED <<watchers, batch, cur, table, arg, wake_fd, stopping, threads>>
    BY <1>8 DEF StopLocked, loop
  <2>2. "stop" \notin StartLabels \cup StopLabels /\ "stop_flag" \in StopLabels /\ "stop_flag" \notin StartLabels
    BY DEF StartLabels, StopLabels
  <2>3. CASE is_running /\ pc' = [pc EXCEPT ![t] = "stop_flag"]
    <3>1. /\ lifecycle_mutex' = t /\ is_running' = FALSE /\ stopped_after_start' = TRUE
          /\ stopped_by = None /\ stopped_by' = t /\ at' = [at EXCEPT ![t] = 0]
      BY <1>2, <1>8, <2>3 DEF StopLocked
    <3>2. LifeOK'
      <4>1. t # None /\ "stop_flag" # "spawn" /\ pc[t] \notin {"unborn", "exited"}
        BY <2>1, LoopFacts
      <4>2. ~is_running' /\ stopped_after_start' /\ lifecycle_mutex' # None
        BY <3>1, <4>1
      <4>3. threads' = threads /\ \A u \in Threads : u # t => at'[u] = at[u]
        BY <1>1, <2>1, <3>1
      <4> QED BY <2>1, <2>3, <3>1, <4>1, <4>2, <4>3, LifeGoesOn
    <3>3. is_running' \in BOOLEAN /\ stopped_after_start' \in BOOLEAN
      BY <3>1
    <3> QED BY <1>1, <1>4, <2>1, <2>2, <2>3, <3>1, <3>2, <3>3, RuleLifecycle
  <2>4. CASE ~is_running /\ pc' = [pc EXCEPT ![t] = Home(t)]
    <3>1. UNCHANGED <<lifecycle_mutex, is_running, stopped_after_start, stopped_by, at>>
      BY <1>8, <2>4 DEF StopLocked
    <3>2. LifeOK'
      BY <1>1, <1>2, <1>5, <2>1, <2>4, <3>1, LifeGoesOn
    <3> QED BY <1>1, <1>5, <2>1, <2>2, <2>4, <3>1, <3>2, RuleLifecycle
  <2> QED BY <1>8, <2>3, <2>4 DEF StopLocked
<1>9. CASE StopFlag(t)
  <2>1. PICK label \in {"stop_wake", "fail_wake"} :
          /\ pc[t] = (IF label = "stop_wake" THEN "stop_flag" ELSE "fail_flag")
          /\ pc' = [pc EXCEPT ![t] = label]
          /\ stopping' = [stopping EXCEPT ![at[t]] = TRUE]
          /\ UNCHANGED <<watchers, batch, cur, table, arg, wake_fd, at>> /\ UNCHANGED life
    BY <1>9 DEF StopFlag, LoopStop
  <2>2. /\ pc[t] \in StartLabels \cup StopLabels /\ label \in StartLabels \cup StopLabels
        /\ (label \in StartLabels <=> pc[t] \in StartLabels)
        /\ (label \in {"stop"} \cup StopLabels <=> pc[t] \in StopLabels)
        /\ label # "spawn" /\ pc[t] \notin {"unborn", "exited"}
    BY <2>1 DEF StartLabels, StopLabels
  <2>3. LifeOK'
    BY <1>1, <1>2, <2>1, <2>2, LifeGoesOn
  <2>4. stopping' \in [Loops -> BOOLEAN]
    BY <1>1, <2>1
  <2> QED BY <1>1, <1>3, <1>4, <2>1, <2>2, <2>3, <2>4, RuleLifecycle
<1>10. CASE StopWake(t)
  <2>1. /\ wake_fd' = [wake_fd EXCEPT ![at[t]] = TRUE]
        /\ UNCHANGED <<watchers, batch, cur, table, arg, stopping>> /\ UNCHANGED life
        /\ \/ pc[t] = "stop_wake" /\ Iterate(t, "stop_flag", "stop_join")
           \/ pc[t] = "fail_wake" /\ Iterate(t, "fail_flag", "fail_join")
    BY <1>10 DEF StopWake, LoopWake
  <2>2. /\ at' \in [Threads -> Loops] /\ \A u \in Threads : u # t => at'[u] = at[u]
        /\ \/ pc[t] = "stop_wake" /\ (Goto(t, "stop_flag") \/ Goto(t, "stop_join"))
           \/ pc[t] = "fail_wake" /\ (Goto(t, "fail_flag") \/ Goto(t, "fail_join"))
    BY <2>1, IterateAt
  <2>3. PICK label \in StartLabels \cup StopLabels :
          /\ pc' = [pc EXCEPT ![t] = label] /\ pc[t] \in StartLabels \cup StopLabels
          /\ (label \in StartLabels <=> pc[t] \in StartLabels)
          /\ (label \in {"stop"} \cup StopLabels <=> pc[t] \in StopLabels)
          /\ label # "spawn" /\ pc[t] \notin {"unborn", "exited"}
    BY <2>2 DEF StartLabels, StopLabels
  <2>4. LifeOK'
    BY <1>1, <1>2, <2>1, <2>2, <2>3, LifeGoesOn
  <2>5. wake_fd' \in [Loops -> BOOLEAN]
    BY <1>1, <2>1
  <2> QED BY <1>1, <1>3, <1>4, <2>1, <2>2, <2>3, <2>4, <2>5, RuleLifecycle
<1>11. ASSUME NEW label \in {"stop_join", "fail_join"}, JoinOne(t, label)
       PROVE  Lifecycle'
  <2>1. /\ pc[t] = label
        /\ UNCHANGED <<watchers, batch, cur, table, arg, wake_fd, stopping, at, pc,
                       is_running, stopped_after_start, lifecycle_mutex, stopped_by>>
    BY <1>11 DEF JoinOne, loop
  <2>2. PICK l \in threads : (l = t \/ pc[l] = "exited") /\ threads' = threads \ {l}
    BY <1>11 DEF JoinOne
  <2>3. l \in Loops
    BY DEF Lifecycle, TypeOK
  <2>4. /\ label \in StartLabels \cup StopLabels /\ label # "spawn" /\ label \notin {"unborn", "exited"}
        /\ label \in {"stop"} \cup StopLabels <=> label \in StopLabels
    BY DEF StartLabels, StopLabels
  <2>5. l = t => l = stopped_by'
    BY <1>2, <1>3, <2>1, <2>3, <2>4, LoopFacts
  <2>6. pc' = [pc EXCEPT ![t] = label]
    BY <2>1 DEF Lifecycle, TypeOK
  <2>7. lifecycle_mutex = t /\ t # None
    BY <2>1, <2>4, Holder, LoopFacts
  <2>8. LifeOK'
    BY <1>1, <1>2, <2>1, <2>2, <2>4, <2>5, <2>6, <2>7, LifeGoesOn
  <2> QED BY <1>1, <1>3, <1>4, <2>1, <2>2, <2>4, <2>6, <2>8, RuleLifecycle
<1>12. CASE Joined(t)
  <2>1. /\ threads = {} /\ threads' = {} /\ pc[t] \in {"stop_join", "fail_join"}
        /\ \/ UNCHANGED <<is_running, stopped_after_start>>
           \/ is_running' = FALSE /\ stopped_after_start' = TRUE
        /\ lifecycle_mutex' = None /\ pc' = [pc EXCEPT ![t] = Home(t)]
        /\ UNCHANGED <<watchers, batch, cur, table, arg, wake_fd, stopping, stopped_by, at>>
    BY <1>12 DEF Joined, loop
  <2>2. pc[t] \in StartLabels \cup StopLabels /\ pc[t] \notin {"unborn", "exited"}
    BY <2>1 DEF StartLabels, StopLabels
  <2>3. is_running' \in BOOLEAN /\ stopped_after_start' \in BOOLEAN
    BY <1>1, <2>1
  <2>4. LifeOK'
    <3>1. /\ is_running' => is_running /\ ~stopped_after_start'
          /\ stopped_after_start => stopped_after_start'
          /\ is_running /\ ~is_running' => stopped_after_start'
      BY <1>2, <2>1
    <3>2. Home(t) # "spawn" /\ \A u \in Threads : at'[u] = at[u]
      BY <1>5, <2>1
    <3> QED BY <1>5, <2>1, <2>2, <3>1, <3>2, LifeGoesOn
  <2> QED BY <1>1, <1>5, <2>1, <2>2, <2>3, <2>4, RuleLifecycle
<1> QED BY <1>6, <1>7, <1>8, <1>9, <1>10, <1>11, <1>12 DEF StopStep

\* A new reactor satisfies the invariant.
LEMMA LifecycleInit ==
  ASSUME Init
  PROVE  Lifecycle
<1> USE DEF Init, LoopInit
<1>1. \A t \in Threads : pc[t] = IF t \in Loops THEN "unborn" ELSE "idle"
  OBVIOUS
<1>2. TypeOK
  <2>1. pc \in [Threads -> AllLabels]
    BY DEF AllLabels
  <2>2. wake_fd \in [Loops -> BOOLEAN] /\ stopping \in [Loops -> BOOLEAN]
    OBVIOUS
  <2>3. is_running \in BOOLEAN /\ stopped_after_start \in BOOLEAN
    OBVIOUS
  <2> QED BY <2>1, <2>2, <2>3, LoopFacts DEF TypeOK, AllLabels
<1>3. PlacesOK
  BY <1>1 DEF PlacesOK, RunLabels, StartLabels, StopLabels, Threads
<1>4. MutexOK
  BY <1>1, LoopFacts DEF MutexOK, StartLabels, StopLabels
<1>5. LifeOK
  <2>1. \A l \in Loops : pc[l] = "unborn"
    BY <1>1, LoopFacts
  <2>2. \A t \in Threads : pc[t] # "spawn"
    BY <1>1
  <2>3. ~is_running /\ ~stopped_after_start /\ threads = {} /\ stopped_by = None
    OBVIOUS
  <2>4. \A t \in Threads : pc[t] \notin StopLabels
    BY <1>1 DEF StopLabels
  <2> QED BY <2>1, <2>2, <2>3, <2>4 DEF LifeOK
<1>6. CallsOK /\ BatchOK
  BY <1>1, LoopFacts DEF CallsOK, BatchOK, CallLabels
<1> QED BY <1>2, <1>3, <1>4, <1>5, <1>6 DEF Lifecycle

\* The invariant is inductive.
LEMMA LifecycleStep ==
  ASSUME Lifecycle, [Next]_vars
  PROVE  Lifecycle'
<1>1. CASE UNCHANGED vars
  BY <1>1 DEF vars, loop, table, life, Lifecycle, TypeOK, PlacesOK, MutexOK, LifeOK, CallsOK, BatchOK
<1>2. ASSUME NEW t \in Threads, \E f \in Fds : add(t, f) \/ remove(t, f) \/ modify(t, f)
      PROVE  Lifecycle'
  BY <1>2, CallsLifecycle
<1>3. ASSUME NEW t \in Threads, start(t) \/ stop(t) \/ CallStep(t)
      PROVE  Lifecycle'
  BY <1>3, StartLifecycle, StopLifecycle, SpawnLifecycle, CallsLifecycle DEF CallStep, CallOn
<1>4. ASSUME NEW l \in Loops, WorkerStep(l)
      PROVE  Lifecycle'
  BY <1>4, RunLifecycle
<1> QED BY <1>1, <1>2, <1>3, <1>4 DEF Next

-----------------------------------------------------------------------------
(* The table of owners, when calls on one descriptor do not overlap.       *)

\* A step that touches neither the table, nor a loop's watchers, nor a call.
LEMMA SerialKept ==
  ASSUME SerialOK, OwnersAgree, UNCHANGED <<watchers, owners, arg>>,
         \A t \in Threads : arg[t] # None => pc'[t] = pc[t] /\ at'[t] = at[t]
  PROVE  SerialOK' /\ OwnersAgree'
<1>1. ASSUME NEW t \in Threads, NEW f \in Fds, arg'[t] = f
      PROVE  Between(t, f)'
  <2>1. Between(t, f) /\ pc'[t] = pc[t] /\ at'[t] = at[t]
    BY <1>1, LoopFacts DEF SerialOK
  <2> QED BY <2>1 DEF Between, Agree
<1> QED BY <1>1 DEF SerialOK, OwnersAgree

\* A step of t, in its call on f, that touches f alone.
LEMMA SerialCall ==
  ASSUME SerialOK, OwnersAgree, NEW t \in Threads, NEW f \in Fds,
         \A u \in Threads : u # t => /\ pc'[u] = pc[u] /\ at'[u] = at[u]
                                     /\ arg'[u] = arg[u] /\ arg[u] # f,
         \A g \in Fds : g # f => /\ owners'[g] = owners[g]
                                 /\ \A l \in Loops : g \in watchers'[l] <=> g \in watchers[l],
         arg[t] \in {None, f}, arg'[t] \in {None, f},
         arg'[t] = f => Between(t, f)',
         arg'[t] = None => Agree(f)'
  PROVE  SerialOK' /\ OwnersAgree'
<1>1. ASSUME NEW u \in Threads, NEW g \in Fds, arg'[u] = g
      PROVE  Between(u, g)'
  <2>1. CASE u = t
    BY <1>1, <2>1, LoopFacts
  <2>2. CASE u # t
    <3>1. Between(u, g) /\ g # f /\ pc'[u] = pc[u] /\ at'[u] = at[u]
      BY <1>1, <2>2 DEF SerialOK
    <3> QED BY <3>1 DEF Between, Agree
  <2> QED BY <2>1, <2>2
<1>2. \A u, v \in Threads : arg'[u] # None /\ arg'[u] = arg'[v] => u = v
  BY DEF SerialOK
<1>3. ASSUME NEW g \in Fds, \A u \in Threads : arg'[u] # g
      PROVE  Agree(g)'
  <2>1. CASE g = f
    BY <1>3, <2>1
  <2>2. CASE g # f
    <3>1. \A u \in Threads : arg[u] # g
      BY <1>3, <2>2, LoopFacts
    <3>2. Agree(g)
      BY <3>1 DEF OwnersAgree, Agree
    <3> QED BY <2>2, <3>2 DEF Agree
  <2> QED BY <2>1, <2>2
<1>4. OwnersAgree'
  BY <1>3 DEF OwnersAgree, Agree
<1> QED BY <1>1, <1>2, <1>4 DEF SerialOK

\* The first section of a call: nobody else has the descriptor.
LEMMA SerialBegin ==
  ASSUME SerialCalls, Lifecycle, SerialOK, OwnersAgree, NEW t \in Threads, NEW f \in Fds,
         add(t, f) \/ remove(t, f) \/ modify(t, f)
  PROVE  SerialOK' /\ OwnersAgree'
<1> USE DEF Goto, loop, table
<1>1. /\ arg \in [Threads -> Fds \cup {None}] /\ at \in [Threads -> Loops]
      /\ owners \in [Fds -> Loops \cup {None}] /\ pc \in [Threads -> AllLabels]
  BY DEF Lifecycle, TypeOK, AllLabels
<1>2. pc[t] = Home(t) /\ \A u \in Threads : arg[u] # f
  BY DEF add, remove, modify, CanUse, CanCall
<1>3. Agree(f) /\ arg[t] = None
  BY <1>2, HomePlace DEF OwnersAgree, Agree, Lifecycle, CallsOK
<1>4. UNCHANGED watchers /\ arg' = [arg EXCEPT ![t] = f] /\ arg'[t] = f
  BY <1>1 DEF add, remove, modify
<1>5. \A u \in Threads : u # t => /\ pc'[u] = pc[u] /\ at'[u] = at[u]
                                  /\ arg'[u] = arg[u] /\ arg[u] # f
  BY <1>1, <1>2, <1>4 DEF add, remove, modify
<1>6. \A g \in Fds : g # f => owners'[g] = owners[g]
  BY <1>1 DEF add, remove, modify
<1>7. Between(t, f)'
  <2>1. CASE add(t, f)
    BY <1>1, <1>3, <2>1 DEF add, Between, Agree
  <2>2. CASE remove(t, f)
    BY <1>1, <1>3, <2>2 DEF remove, Between, Agree
  <2>3. CASE modify(t, f)
    BY <1>1, <1>3, <2>3 DEF modify, Between, Agree
  <2> QED BY <2>1, <2>2, <2>3
<1>8. f # None
  BY LoopFacts
<1> QED BY <1>3, <1>4, <1>5, <1>6, <1>7, <1>8, SerialCall

\* The later sections of a call.
LEMMA SerialGoesOn ==
  ASSUME Lifecycle, SerialOK, OwnersAgree, NEW t \in Threads, CallOn(t)
  PROVE  SerialOK' /\ OwnersAgree'
<1> USE DEF Goto, loop, table
<1>1. /\ arg \in [Threads -> Fds \cup {None}] /\ at \in [Threads -> Loops] /\ at[t] \in Loops
      /\ owners \in [Fds -> Loops \cup {None}] /\ pc \in [Threads -> AllLabels]
      /\ watchers \in [Loops -> SUBSET Fds]
  BY DEF Lifecycle, TypeOK, AllLabels
<1>2. pc[t] \in CallLabels /\ at' = at
  BY DEF CallOn, AddOwner, AddLoop, AddUndo, CallWake, RemoveLoop, ModifyLoop, CallLabels
<1>3. PICK f \in Fds : arg[t] = f
  BY <1>1, <1>2 DEF Lifecycle, CallsOK
<1>4. Between(t, f) /\ f # None /\ None \notin Loops
  BY <1>3, LoopFacts DEF SerialOK
<1>5. \A u \in Threads : u # t => /\ pc'[u] = pc[u] /\ at'[u] = at[u]
                                  /\ arg'[u] = arg[u] /\ arg[u] # f
  <2>1. \A u \in Threads : u # t => arg[u] # f
    BY <1>3, <1>4 DEF SerialOK
  <2>2. \A u \in Threads : u # t => pc'[u] = pc[u] /\ arg'[u] = arg[u]
    BY <1>1 DEF CallOn, AddOwner, AddLoop, AddUndo, CallWake, RemoveLoop, ModifyLoop, Return
  <2> QED BY <1>2, <2>1, <2>2
<1>6. arg'[t] \in {None, f}
  BY <1>1, <1>3 DEF CallOn, AddOwner, AddLoop, AddUndo, CallWake, RemoveLoop, ModifyLoop, Return
<1>7. \A g \in Fds : g # f => /\ owners'[g] = owners[g]
                              /\ \A l \in Loops : g \in watchers'[l] <=> g \in watchers[l]
  <2>1. \A g \in Fds : g # f => owners'[g] = owners[g]
    BY <1>1, <1>3 DEF CallOn, AddOwner, AddLoop, AddUndo, CallWake, RemoveLoop, ModifyLoop
  <2>2. \/ watchers' = watchers
        \/ watchers' = [watchers EXCEPT ![at[t]] = @ \cup {f}]
        \/ watchers' = [watchers EXCEPT ![at[t]] = @ \ {f}]
    BY <1>3 DEF CallOn, AddOwner, AddLoop, AddUndo, CallWake, RemoveLoop, ModifyLoop,
       LoopAdd, LoopRemove, LoopWake
  <2> QED BY <1>1, <2>1, <2>2
<1>8. (arg'[t] = f => Between(t, f)') /\ (arg'[t] = None => Agree(f)')
  <2> USE DEF Return
  <2>1. CASE AddOwner(t)
    BY <1>1, <1>3, <1>4, <2>1 DEF AddOwner, Between, Agree
  <2>2. CASE AddLoop(t)
    <3>1. owners[f] = at[t] /\ (\A l \in Loops : f \notin watchers[l]) /\ UNCHANGED <<owners, arg, at>>
      BY <1>4, <2>2 DEF AddLoop, Between
    <3>2. CASE LoopAdd(at[t], f) /\ pc'[t] = "call_wake"
      <4>1. \A l \in Loops : f \in watchers'[l] <=> l = at[t]
        BY <1>1, <3>1, <3>2 DEF LoopAdd
      <4> QED BY <1>3, <1>4, <3>1, <3>2, <4>1 DEF Between, Agree
    <3>3. CASE UNCHANGED watchers /\ pc'[t] = "add_undo"
      BY <1>3, <1>4, <3>1, <3>3 DEF Between
    <3> QED BY <1>1, <1>3, <2>2, <3>2, <3>3 DEF AddLoop
  <2>3. CASE AddUndo(t)
    BY <1>1, <1>3, <1>4, <2>3 DEF AddUndo, Between, Agree
  <2>4. CASE CallWake(t)
    BY <1>1, <1>3, <1>4, <2>4 DEF CallWake, LoopWake, Between, Agree
  <2>5. CASE RemoveLoop(t)
    <3>1. owners[f] = None /\ (\A l \in Loops : f \in watchers[l] <=> l = at[t]) /\ UNCHANGED <<owners, at>>
      BY <1>4, <2>5 DEF RemoveLoop, Between
    <3>2. LoopRemove(at[t], f) /\ (pc'[t] = "call_wake" \/ arg'[t] = None)
      BY <1>1, <1>3, <2>5, <3>1 DEF RemoveLoop
    <3>3. \A l \in Loops : f \notin watchers'[l]
      BY <1>1, <3>1, <3>2 DEF LoopRemove
    <3>4. Agree(f)'
      BY <1>4, <3>1, <3>3 DEF Agree
    <3> QED BY <1>4, <3>2, <3>4 DEF Between
  <2>6. CASE ModifyLoop(t)
    BY <1>1, <1>3, <1>4, <2>6 DEF ModifyLoop, Between, Agree
  <2> QED BY <2>1, <2>2, <2>3, <2>4, <2>5, <2>6 DEF CallOn
<1> QED BY <1>3, <1>5, <1>6, <1>7, <1>8, SerialCall

\* With serial calls the table and the loops agree between calls.
LEMMA SerialStep ==
  ASSUME SerialCalls, Lifecycle, SerialOK, OwnersAgree, [Next]_vars
  PROVE  SerialOK' /\ OwnersAgree'
<1> USE DEF Goto, loop, table, life
<1>1. CASE UNCHANGED vars
  BY <1>1, SerialKept DEF vars
<1>2. ASSUME NEW t \in Threads, NEW f \in Fds, add(t, f) \/ remove(t, f) \/ modify(t, f)
      PROVE  SerialOK' /\ OwnersAgree'
  BY <1>2, SerialBegin
<1>3. ASSUME NEW t \in Threads, CallOn(t)
      PROVE  SerialOK' /\ OwnersAgree'
  BY <1>3, SerialGoesOn
<1>4. pc \in [Threads -> AllLabels] /\ at \in [Threads -> Loops]
  BY DEF Lifecycle, TypeOK, AllLabels
<1>5. ASSUME NEW t \in Threads, start(t) \/ stop(t) \/ SpawnFails(t) \/ StopStep(t)
      PROVE  SerialOK' /\ OwnersAgree'
  <2>1. pc[t] \notin CallLabels
    BY <1>5, HomePlace DEF start, stop, SpawnFails, StopStep, StopLocked, StopFlag, StopWake, JoinOne,
       Joined, CanRule, CanCall, CallLabels
  <2>2. UNCHANGED <<watchers, owners, arg>>
    BY <1>5 DEF start, stop, SpawnFails, StopStep, StopLocked, StopFlag, StopWake, JoinOne,
       Joined, LoopStop, LoopWake
  <2>3. \A u \in Threads : u # t => pc'[u] = pc[u] /\ at'[u] = at[u]
    BY <1>4, <1>5 DEF start, stop, SpawnFails, StopStep, StopLocked, StopFlag, StopWake, JoinOne,
       Joined, Iterate
  <2> QED BY <2>1, <2>2, <2>3, SerialKept DEF Lifecycle, CallsOK
<1>6. ASSUME NEW t \in Threads, Spawn(t)
      PROVE  SerialOK' /\ OwnersAgree'
  <2>1. pc[t] = "spawn" /\ at[t] \in Loops /\ at[t] \in Threads /\ UNCHANGED <<watchers, owners, arg>>
    BY <1>4, <1>6, LoopFacts DEF Spawn
  <2>2. pc[at[t]] = "unborn"
    <3>1. PICK l \in Loops : l = at[t]
      BY <2>1
    <3>2. l >= l
      BY <3>1, LoopFacts
    <3> QED BY <2>1, <3>1, <3>2 DEF Lifecycle, LifeOK
  <2>3. \A u \in Threads : u # t /\ u # at[t] => pc'[u] = pc[u] /\ at'[u] = at[u]
    BY <1>4, <1>6, <2>1 DEF Spawn
  <2>4. arg[t] = None /\ arg[at[t]] = None
    BY <2>1, <2>2 DEF Lifecycle, CallsOK, CallLabels
  <2> QED BY <2>1, <2>3, <2>4, SerialKept
<1>7. ASSUME NEW l \in Loops, WorkerStep(l)
      PROVE  SerialOK' /\ OwnersAgree'
  <2>1. l \in Threads /\ pc[l] \notin CallLabels
    BY <1>7, LoopFacts DEF WorkerStep, RunStep, RunCheck, RunWait, RunCollect, RunCallback,
       CallbackReturns, RunAgain, CallLabels
  <2>2. UNCHANGED <<watchers, owners, arg, at>>
    BY <1>7 DEF WorkerStep, RunStep, RunCheck, RunWait, RunCollect, RunCallback, CallbackReturns, RunAgain
  <2>3. \A u \in Threads : u # l => pc'[u] = pc[u]
    BY <1>4, <1>7 DEF WorkerStep, RunStep, RunCheck, RunWait, RunCollect, RunCallback,
       CallbackReturns, RunAgain
  <2> QED BY <2>1, <2>2, <2>3, SerialKept DEF Lifecycle, CallsOK
<1> QED BY <1>1, <1>2, <1>3, <1>5, <1>6, <1>7 DEF Next, CallStep, CallOn

-----------------------------------------------------------------------------
(* The theorems.                                                           *)

\* However calls overlap: each thread is where it can be, only the thread
\* inside start() or stop() holds the lifecycle mutex, and a worker that
\* runs can be joined or has called stop() itself.
THEOREM LifecycleInvariance == Spec => []Lifecycle
<1>1. Init => Lifecycle
  BY LifecycleInit
<1>2. Lifecycle /\ [Next]_vars => Lifecycle'
  BY LifecycleStep
<1> QED BY <1>1, <1>2, PTL DEF Spec

\* Every variable of the reactor and of its loops keeps its type.
THEOREM TypeCorrect == Spec => []TypeOK
<1>1. Lifecycle => TypeOK
  BY DEF Lifecycle
<1> QED BY <1>1, LifecycleInvariance, PTL

\* stop() leaves no worker but the one whose callback made it, and a start()
\* that failed leaves none, whatever overlaps: the mutex is given up only
\* when `threads` is empty, and a worker leaves `threads` by ending or, in
\* the stop() that found the reactor running, by detaching itself.
THEOREM StopLeavesNoWorker == Spec => []StopJoinsWorkers
<1>1. Lifecycle => StopJoinsWorkers
  BY DEF Lifecycle, LifeOK, StopJoinsWorkers
<1> QED BY <1>1, LifecycleInvariance, PTL

\* If callers keep calls on one descriptor from overlapping, the two
\* sections of add() and of remove(), and an exception between them, leave
\* every descriptor in the loop the table names and in no other.
THEOREM OwnersStayTogether == ASSUME SerialCalls PROVE Spec => []OwnersAgree
<1>1. Init => SerialOK /\ OwnersAgree
  <2> SUFFICES ASSUME Init PROVE SerialOK /\ OwnersAgree
    OBVIOUS
  <2>1. \A t \in Threads : arg[t] = None
    BY DEF Init
  <2>2. \A f \in Fds : owners[f] = None /\ \A l \in Loops : f \notin watchers[l]
    BY DEF Init, LoopInit
  <2> QED BY <2>1, <2>2, LoopFacts DEF SerialOK, OwnersAgree
<1>2. Lifecycle /\ (SerialOK /\ OwnersAgree) /\ [Next]_vars => (SerialOK /\ OwnersAgree)'
  BY SerialStep
<1> QED BY <1>1, <1>2, LifecycleInvariance, PTL DEF Spec
=============================================================================
