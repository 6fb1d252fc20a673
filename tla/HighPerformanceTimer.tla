------------------------ MODULE HighPerformanceTimer ------------------------
(***************************************************************************)
(* HighPerformanceTimer of high_performance_timer/src/                     *)
(* high_performance_timer.cpp: a scheduler thread that waits for the       *)
(* earliest deadline in a heap and queues the callbacks of timers that are *)
(* due, worker threads that run them, and callers, among them callbacks,   *)
(* that add and cancel timers and shut everything down.                    *)
(*                                                                         *)
(* A section under `mutex` or `callback_mutex` is one step; notifications  *)
(* come after the unlock and are steps of their own.  The clock is a       *)
(* counter that may advance at any time.                                   *)
(***************************************************************************)
EXTENDS Integers, Sequences, FiniteSets

CONSTANTS Clients, Workers, Scheduler,
          Shutters,      \* the callers that may call shutdown()
          Intervals,     \* of repeating timers
          Never,         \* the alarm of a wait without a deadline
          MaxTimers,     \* bound: timers added
          MaxDelay,      \* bound: how far ahead a deadline is
          MaxLag,        \* bound: ticks between reading the clock and the lock
          Horizon        \* bound: the clock stops there

Callers == Clients \cup Workers
Threads == Callers \cup {Scheduler}

ASSUME TimerAssumption ==
  /\ Intervals \subseteq Nat \ {0} /\ Never \notin Nat
  /\ Scheduler \notin Callers /\ Clients \cap Workers = {} /\ Workers # {}
  /\ Shutters \subseteq Callers
  /\ MaxTimers \in Nat /\ MaxDelay \in Nat /\ MaxLag \in Nat /\ Horizon \in Nat

VARIABLES
  timers,              \* timers[id]; generation 0: no such timer
  heap,                \* the set of its HeapItems
  next_id, shutting_down,
  ready_callbacks,     \* the timers whose callbacks are queued
  callback_stopping,
  cancelled,           \* the timers that cancel() or cancelAll() counted
  fired,               \* fired[id]: how often id was counted as fired
  ran,                 \* ran[id]: how often a worker began its callback
  now, pc,
  alarm,               \* what the scheduler waits until
  due_callbacks        \* its local

table == <<timers, heap, next_id, shutting_down, cancelled, fired>>
queue == <<ready_callbacks, callback_stopping, ran>>
vars == <<table, queue, now, pc, alarm, due_callbacks>>

Ids == 1 .. MaxTimers
NoTimer == [deadline |-> 0, interval |-> 0, generation |-> 0]
Active(id) == timers[id].generation # 0

Init ==
  /\ timers = [id \in Ids |-> NoTimer] /\ heap = {} /\ next_id = 1
  /\ shutting_down = FALSE /\ ready_callbacks = <<>> /\ callback_stopping = FALSE
  /\ cancelled = {} /\ fired = [id \in Ids |-> 0] /\ ran = [id \in Ids |-> 0]
  /\ now = 0 /\ alarm = Never /\ due_callbacks = <<>>
  /\ pc = [t \in Threads |-> IF t \in Clients THEN "idle"
                             ELSE IF t = Scheduler THEN "schedule" ELSE "work"]

Goto(t, label) == pc' = [pc EXCEPT ![t] = label]

\* Workers make their calls inside callbacks.
Home(t) == IF t \in Workers THEN "callback" ELSE "idle"
CanCall(t) == pc[t] = Home(t)

\* Steady_clock: it may advance at any time.
Tick == now < Horizon /\ now' = now + 1
        /\ UNCHANGED <<table, queue, pc, alarm, due_callbacks>>

-----------------------------------------------------------------------------
(* addTimer(), cancel() and cancelAll().                                   *)

\* Seeded fault: the scheduler is not told of a new timer.
addTimer_Silent(t, d, i) ==
  /\ CanCall(t) /\ ~shutting_down /\ next_id \in Ids
  /\ timers' = [timers EXCEPT ![next_id] =
                  [deadline |-> d, interval |-> i, generation |-> 1]]
  /\ heap' = heap \cup {[deadline |-> d, id |-> next_id, generation |-> 1]}
  /\ next_id' = next_id + 1
  /\ UNCHANGED <<shutting_down, cancelled, fired, queue, now, pc, alarm, due_callbacks>>

\* addTimer() when not shut down.  The deadline is computed before the lock
\* is taken and may have passed by then.
addTimer(t, d, i) ==
  /\ CanCall(t) /\ ~shutting_down /\ next_id \in Ids
  /\ timers' = [timers EXCEPT ![next_id] =
                  [deadline |-> d, interval |-> i, generation |-> 1]]
  /\ heap' = heap \cup {[deadline |-> d, id |-> next_id, generation |-> 1]}
  /\ next_id' = next_id + 1
  /\ Goto(t, "notify")
  /\ UNCHANGED <<shutting_down, cancelled, fired, queue, now, alarm, due_callbacks>>

\* What the clock may have shown before the lock was taken.
Readings == {r \in 0 .. now : r >= now - MaxLag}

scheduleAt(t) == \E d \in UNION {r .. r + MaxDelay : r \in Readings} : addTimer(t, d, 0)

scheduleEvery(t) == \E i \in Intervals, r \in Readings : addTimer(t, r + i, i)

\* cancel() of a timer that is there; the heap keeps its item.
cancel(t, id) ==
  /\ CanCall(t) /\ Active(id)
  /\ timers' = [timers EXCEPT ![id] = NoTimer]
  /\ cancelled' = cancelled \cup {id}
  /\ Goto(t, "notify")
  /\ UNCHANGED <<heap, next_id, shutting_down, fired, queue, now, alarm, due_callbacks>>

cancelAll(t) ==
  /\ CanCall(t)
  /\ timers' = [id \in Ids |-> NoTimer]
  /\ cancelled' = cancelled \cup {id \in Ids : Active(id)}
  /\ Goto(t, "notify")
  /\ UNCHANGED <<heap, next_id, shutting_down, fired, queue, now, alarm, due_callbacks>>

\* timer_changed.notify_one(), or _all(): the scheduler alone waits for it.
NotifyScheduler(t, label) ==
  pc' = [pc EXCEPT ![t] = label,
                   ![Scheduler] = IF @ = "asleep" THEN "schedule" ELSE @]

Notify(t) ==
  /\ pc[t] = "notify"
  /\ NotifyScheduler(t, Home(t))
  /\ UNCHANGED <<table, queue, now, alarm, due_callbacks>>

-----------------------------------------------------------------------------
(* schedulerLoop()                                                         *)

Before(x, y) == x.deadline < y.deadline \/ (x.deadline = y.deadline /\ x.id < y.id)

\* Seeded fault: the items of cancelled timers are taken for current.
isCurrent_Always(tab, x) == TRUE

isCurrent(tab, x) ==
  tab[x.id].generation = x.generation /\ tab[x.id].deadline = x.deadline

\* Items leave the top of the heap until a current one is there.
discardStaleHeapItems(tab, h) ==
  {x \in h : \E y \in h : isCurrent(tab, y) /\ (y = x \/ Before(y, x))}

\* The deadline on top of a heap.
Top(h) == CHOOSE d \in {x.deadline : x \in h} : \A x \in h : d <= x.deadline

SchedulerExits ==
  /\ pc[Scheduler] = "schedule"
  /\ shutting_down
  /\ Goto(Scheduler, "exited")
  /\ UNCHANGED <<table, queue, now, alarm, due_callbacks>>

\* Seeded fault: wait() where the code has wait_until().
SchedulerSleeps_Forever ==
  LET h == discardStaleHeapItems(timers, heap)
  IN /\ pc[Scheduler] = "schedule" /\ ~shutting_down
     /\ \A x \in h : x.deadline > now
     /\ heap' = h
     /\ alarm' = Never
     /\ Goto(Scheduler, "asleep")
     /\ UNCHANGED <<timers, next_id, shutting_down, cancelled, fired, queue, now, due_callbacks>>

\* timer_changed.wait(), or wait_until() the earliest deadline.
SchedulerSleeps ==
  LET h == discardStaleHeapItems(timers, heap)
  IN /\ pc[Scheduler] = "schedule" /\ ~shutting_down
     /\ \A x \in h : x.deadline > now
     /\ heap' = h
     /\ alarm' = IF h = {} THEN Never ELSE Top(h)
     /\ Goto(Scheduler, "asleep")
     /\ UNCHANGED <<timers, next_id, shutting_down, cancelled, fired, queue, now, due_callbacks>>

\* The wait ends at the deadline.
AlarmRings ==
  /\ pc[Scheduler] = "asleep"
  /\ alarm # Never /\ alarm <= now
  /\ Goto(Scheduler, "schedule")
  /\ UNCHANGED <<table, queue, now, alarm, due_callbacks>>

SchedulerSpurious ==
  /\ pc[Scheduler] = "asleep"
  /\ Goto(Scheduler, "schedule")
  /\ UNCHANGED <<table, queue, now, alarm, due_callbacks>>

Due == {x \in heap : x.deadline <= now /\ isCurrent(timers, x)}

\* A repeating timer that fires goes on at the first multiple of its
\* interval that has not been missed.
NextDeadline(e) == e.deadline + e.interval * ((now - e.deadline) \div e.interval + 1)

AfterFiring(e) ==
  IF e.interval = 0 THEN NoTimer
  ELSE [e EXCEPT !.deadline = NextDeadline(e), !.generation = @ + 1]

\* Seeded fault: repeating timers are not pushed again.
Rearmed_Forgotten == {}

Rearmed == {[deadline |-> AfterFiring(timers[x.id]).deadline, id |-> x.id,
             generation |-> AfterFiring(timers[x.id]).generation] :
              x \in {y \in Due : timers[y.id].interval # 0}}

\* The order in which items leave the heap.
InOrder(items) ==
  CHOOSE s \in [1 .. Cardinality(items) -> items] : \A i, j \in DOMAIN s : i < j => Before(s[i], s[j])

\* The section that fires every timer that is due, in the heap's order.
SchedulerFires ==
  LET ids == {x.id : x \in Due}
      after == [id \in Ids |-> IF id \in ids THEN AfterFiring(timers[id]) ELSE timers[id]]
      rest == {x \in heap : x.deadline > now} \cup Rearmed
      order == InOrder(Due)
  IN /\ pc[Scheduler] = "schedule" /\ ~shutting_down
     /\ Due # {}
     /\ timers' = after
     /\ heap' = discardStaleHeapItems(after, rest)
     /\ fired' = [id \in Ids |-> IF id \in ids THEN fired[id] + 1 ELSE fired[id]]
     /\ due_callbacks' = [k \in DOMAIN order |-> order[k].id]
     /\ Goto(Scheduler, "enqueue")
     /\ UNCHANGED <<next_id, shutting_down, cancelled, queue, now, alarm>>

enqueueCallbacks ==
  /\ pc[Scheduler] = "enqueue"
  /\ ready_callbacks' = ready_callbacks \o due_callbacks
  /\ due_callbacks' = <<>>
  /\ Goto(Scheduler, "announce")
  /\ UNCHANGED <<table, callback_stopping, ran, now, alarm>>

\* callback_available.notify_all(): the workers that sleep go to work.
Roused(f) == [t \in Threads |-> IF f[t] = "resting" THEN "work" ELSE f[t]]

\* Seeded fault: nobody is told of the queued callbacks.
Announce_Silent ==
  /\ pc[Scheduler] = "announce"
  /\ Goto(Scheduler, "schedule")
  /\ UNCHANGED <<table, queue, now, alarm, due_callbacks>>

Announce ==
  /\ pc[Scheduler] = "announce"
  /\ pc' = Roused([pc EXCEPT ![Scheduler] = "schedule"])
  /\ UNCHANGED <<table, queue, now, alarm, due_callbacks>>

-----------------------------------------------------------------------------
(* callbackLoop()                                                          *)

WorkerTakes(w) ==
  /\ pc[w] = "work"
  /\ ready_callbacks # <<>>
  /\ ran' = [ran EXCEPT ![Head(ready_callbacks)] = @ + 1]
  /\ ready_callbacks' = Tail(ready_callbacks)
  /\ Goto(w, "callback")
  /\ UNCHANGED <<table, callback_stopping, now, alarm, due_callbacks>>

WorkerWaits(w) ==
  /\ pc[w] = "work"
  /\ ready_callbacks = <<>>
  /\ Goto(w, IF callback_stopping THEN "exited" ELSE "resting")
  /\ UNCHANGED <<table, queue, now, alarm, due_callbacks>>

WorkerSpurious(w) ==
  /\ pc[w] = "resting"
  /\ Goto(w, "work")
  /\ UNCHANGED <<table, queue, now, alarm, due_callbacks>>

\* A callback returns, or throws.
CallbackReturns(w) ==
  /\ pc[w] = "callback"
  /\ Goto(w, "work")
  /\ UNCHANGED <<table, queue, now, alarm, due_callbacks>>

-----------------------------------------------------------------------------
(* shutdown(), one caller at a time.                                       *)

ShutdownLabels == {"shut_notify", "shut_join", "shut_rouse", "shut_workers"}

shutdown(t) ==
  /\ CanCall(t) /\ t \in Shutters
  /\ \A u \in Callers : pc[u] \notin ShutdownLabels
  /\ shutting_down' = TRUE
  /\ timers' = [id \in Ids |-> NoTimer]
  /\ Goto(t, "shut_notify")
  /\ UNCHANGED <<heap, next_id, cancelled, fired, queue, now, alarm, due_callbacks>>

\* Seeded fault: the scheduler sleeps on.
ShutdownNotify_Silent(t) ==
  /\ pc[t] = "shut_notify"
  /\ Goto(t, "shut_join")
  /\ UNCHANGED <<table, queue, now, alarm, due_callbacks>>

ShutdownNotify(t) ==
  /\ pc[t] = "shut_notify"
  /\ NotifyScheduler(t, "shut_join")
  /\ UNCHANGED <<table, queue, now, alarm, due_callbacks>>

\* Seeded fault: the workers are told to stop while the scheduler runs.
ShutdownJoin_Skipped(t) ==
  /\ pc[t] = "shut_join"
  /\ callback_stopping' = TRUE
  /\ Goto(t, "shut_rouse")
  /\ UNCHANGED <<table, ready_callbacks, ran, now, alarm, due_callbacks>>

\* scheduler.join(), then the section that stops the workers.
ShutdownJoin(t) ==
  /\ pc[t] = "shut_join"
  /\ pc[Scheduler] = "exited"
  /\ callback_stopping' = TRUE
  /\ Goto(t, "shut_rouse")
  /\ UNCHANGED <<table, ready_callbacks, ran, now, alarm, due_callbacks>>

ShutdownRouse(t) ==
  /\ pc[t] = "shut_rouse"
  /\ pc' = Roused([pc EXCEPT ![t] = "shut_workers"])
  /\ UNCHANGED <<table, queue, now, alarm, due_callbacks>>

\* Join every worker but oneself.
ShutdownWorkers(t) ==
  /\ pc[t] = "shut_workers"
  /\ \A w \in Workers \ {t} : pc[w] = "exited"
  /\ Goto(t, Home(t))
  /\ UNCHANGED <<table, queue, now, alarm, due_callbacks>>

-----------------------------------------------------------------------------
Call(t) == \/ scheduleAt(t) \/ scheduleEvery(t) \/ cancelAll(t) \/ shutdown(t)
           \/ \E id \in Ids : cancel(t, id)

CallStep(t) == \/ Notify(t) \/ ShutdownNotify(t) \/ ShutdownJoin(t)
               \/ ShutdownRouse(t) \/ ShutdownWorkers(t)

SchedulerStep == \/ SchedulerExits \/ SchedulerSleeps \/ AlarmRings \/ SchedulerFires
                 \/ enqueueCallbacks \/ Announce

WorkerStep(w) == WorkerTakes(w) \/ WorkerWaits(w) \/ CallbackReturns(w)

Next == \/ Tick
        \/ \E t \in Callers : Call(t) \/ CallStep(t)
        \/ SchedulerStep \/ SchedulerSpurious
        \/ \E w \in Workers : WorkerStep(w) \/ WorkerSpurious(w)

Spec == Init /\ [][Next]_vars

-----------------------------------------------------------------------------
Entries == [deadline : Nat, interval : Nat, generation : Nat]

TypeOK ==
  /\ timers \in [Ids -> Entries]
  /\ heap \subseteq [deadline : Nat, id : Ids, generation : Nat]
  /\ next_id \in 1 .. MaxTimers + 1
  /\ shutting_down \in BOOLEAN /\ callback_stopping \in BOOLEAN
  /\ ready_callbacks \in Seq(Ids) /\ due_callbacks \in Seq(Ids)
  /\ cancelled \subseteq Ids /\ fired \in [Ids -> Nat] /\ ran \in [Ids -> Nat]
  /\ now \in Nat /\ alarm \in Nat \cup {Never}
  /\ pc \in [Threads -> {"idle", "notify", "schedule", "asleep", "enqueue", "announce",
                          "work", "resting", "callback", "exited"} \cup ShutdownLabels]

\* Cancellation is lazy, and the heap is all the scheduler looks at: every
\* timer in the table has its current item there, once.
HeapTracksTimers ==
  \A id \in Ids : Active(id) =>
    /\ [deadline |-> timers[id].deadline, id |-> id,
        generation |-> timers[id].generation] \in heap
    /\ Cardinality({x \in heap : x.id = id}) = 1

\* The scheduler does not sleep through a deadline, nor through shutdown():
\* if a timer is earlier than its alarm, a notification is on its way.
NoOversleep ==
  pc[Scheduler] = "asleep" =>
    \/ \E t \in Callers : pc[t] \in {"notify", "shut_notify"}
    \/ /\ ~shutting_down
       /\ \A id \in Ids : Active(id) => alarm # Never /\ alarm <= timers[id].deadline

\* What fires was neither cancelled nor cleared by shutdown(), though its item
\* is still in the heap, and a one-shot fires once: a cancel() that returned
\* true is final.
CancelIsFinal ==
  [][\A id \in Ids : fired'[id] # fired[id] =>
       /\ id \notin cancelled /\ ~shutting_down
       /\ timers[id].interval = 0 => fired[id] = 0]_vars

\* After shutdown() only a worker that called it may be left, and once all
\* have gone every timer that was counted as fired has had its callback run.
ShutdownDrains ==
  (callback_stopping /\ \A t \in Callers : pc[t] \notin ShutdownLabels) =>
    /\ pc[Scheduler] = "exited"
    /\ \A w \in Workers \ Shutters : pc[w] = "exited"
    /\ (\A w \in Workers : pc[w] = "exited") => ran = fired
=============================================================================
