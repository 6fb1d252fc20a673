---------------------------- MODULE LockFreeQueue ----------------------------
(***************************************************************************)
(* LockFreeQueue<T> of lock_free_queue/include/lock_free_queue.hpp: a      *)
(* bounded multi-producer multi-consumer ring.  Every atomic access of     *)
(* tryPush() and tryPop() is a step of its own, and so are the two         *)
(* accesses to a cell's storage, which are not atomic in the code.         *)
(*                                                                         *)
(* Positions are natural numbers: the wrap-around of std::size_t is not    *)
(* part of this module.                                                    *)
(***************************************************************************)
EXTENDS Integers, FiniteSets

CONSTANTS Capacity,   \* constructor argument
          Threads,    \* the threads that call the queue
          Values,     \* the values of type T
          Raw,        \* storage, or a local, that holds no object
          MaxCalls    \* bound: the number of calls the threads make

\* The constructor rejects a capacity of 0 and nothing else.
ASSUME CapacityAssumption == Capacity \in Nat \ {0}
ASSUME RawAssumption == Raw \notin Values
ASSUME MaxCallsAssumption == MaxCalls \in Nat
ASSUME ThreadsAssumption == IsFiniteSet(Threads)

VARIABLES
  sequence,      \* sequence[c]: Cell::sequence of cell c
  storage,       \* storage[c]: the object constructed in cell c, or Raw
  enqueue_pos, dequeue_pos, closed,
  stats,         \* pushes_, pops_, failed_pushes_, failed_pops_, closed_pushes_
  pc, pos,       \* where each thread is, and its local `pos`
  value,         \* the argument of its tryPush / the result of its tryPop
  calls,         \* calls made so far
  phase          \* "live", then "draining" in the destructor, then "destroyed"

shared == <<sequence, storage, enqueue_pos, dequeue_pos, closed>>
vars == <<shared, stats, pc, pos, value, calls, phase>>

Cells == 0 .. Capacity - 1
Cell(p) == p % Capacity

Goto(t, label) == pc' = [pc EXCEPT ![t] = label]
AllIdle == \A t \in Threads : pc[t] = "idle"

Init ==
  /\ sequence = [c \in Cells |-> c]
  /\ storage = [c \in Cells |-> Raw]
  /\ enqueue_pos = 0 /\ dequeue_pos = 0 /\ closed = FALSE
  /\ stats = [pushes |-> 0, pops |-> 0, failed_pushes |-> 0,
              failed_pops |-> 0, closed_pushes |-> 0]
  /\ pc = [t \in Threads |-> "idle"]
  /\ pos = [t \in Threads |-> 0]
  /\ value = [t \in Threads |-> Raw]
  /\ calls = 0
  /\ phase = "live"

-----------------------------------------------------------------------------
(* tryPush(T&&); tryPush(const T&) and tryEmplace() build the T and call it. *)

tryPush(t, v) ==
  /\ pc[t] = "idle" /\ phase = "live" /\ calls < MaxCalls
  /\ calls' = calls + 1
  /\ value' = [value EXCEPT ![t] = v]
  /\ Goto(t, "push_closed")
  /\ UNCHANGED <<shared, stats, pos, phase>>

\* Both ways a push gives up: the argument is dropped by the caller.
PushFails(t) == /\ Goto(t, "idle")
                /\ value' = [value EXCEPT ![t] = Raw]

\* Seeded fault: a push to a closed queue is not counted as failed.
PushCheckClosed_Uncounted(t) ==
  /\ pc[t] = "push_closed"
  /\ \/ /\ closed
        /\ stats' = [stats EXCEPT !.closed_pushes = @ + 1]
        /\ PushFails(t)
     \/ /\ ~closed
        /\ Goto(t, "push_load")
        /\ UNCHANGED <<stats, value>>
  /\ UNCHANGED <<shared, pos, calls, phase>>

PushCheckClosed(t) ==
  /\ pc[t] = "push_closed"
  /\ \/ /\ closed
        /\ stats' = [stats EXCEPT !.closed_pushes = @ + 1, !.failed_pushes = @ + 1]
        /\ PushFails(t)
     \/ /\ ~closed
        /\ Goto(t, "push_load")
        /\ UNCHANGED <<stats, value>>
  /\ UNCHANGED <<shared, pos, calls, phase>>

PushLoadPos(t) ==
  /\ pc[t] = "push_load"
  /\ pos' = [pos EXCEPT ![t] = enqueue_pos]
  /\ Goto(t, "push_seq")
  /\ UNCHANGED <<shared, stats, value, calls, phase>>

\* Seeded fault: a full ring is not recognised (diff <= 0 reserves).
PushLoadSeq_IgnoresFull(t) ==
  LET diff == sequence[Cell(pos[t])] - pos[t]
  IN /\ pc[t] = "push_seq"
     /\ Goto(t, IF diff <= 0 THEN "push_cas" ELSE "push_load")
     /\ UNCHANGED <<shared, stats, pos, value, calls, phase>>

\* Seeded fault: a push waits for room instead of failing.
PushLoadSeq_Waits(t) ==
  LET diff == sequence[Cell(pos[t])] - pos[t]
  IN /\ pc[t] = "push_seq"
     /\ Goto(t, IF diff = 0 THEN "push_cas" ELSE "push_load")
     /\ UNCHANGED <<shared, stats, pos, value, calls, phase>>

\* diff = 0: try to reserve; diff < 0: report full; diff > 0: reload pos.
PushLoadSeq(t) ==
  LET diff == sequence[Cell(pos[t])] - pos[t]
  IN /\ pc[t] = "push_seq"
     /\ \/ /\ diff = 0
           /\ Goto(t, "push_cas")
           /\ UNCHANGED <<stats, value>>
        \/ /\ diff < 0
           /\ stats' = [stats EXCEPT !.failed_pushes = @ + 1]
           /\ PushFails(t)
        \/ /\ diff > 0
           /\ Goto(t, "push_load")
           /\ UNCHANGED <<stats, value>>
     /\ UNCHANGED <<shared, pos, calls, phase>>

\* Seeded fault: a plain store instead of the compare-exchange.
PushCas_Store(t) ==
  /\ pc[t] = "push_cas"
  /\ enqueue_pos' = pos[t] + 1
  /\ Goto(t, "push_construct")
  /\ UNCHANGED <<sequence, storage, dequeue_pos, closed, stats, pos, value, calls, phase>>

PushCas(t) ==
  /\ pc[t] = "push_cas"
  /\ enqueue_pos = pos[t]
  /\ enqueue_pos' = pos[t] + 1
  /\ Goto(t, "push_construct")
  /\ UNCHANGED <<sequence, storage, dequeue_pos, closed, stats, pos, value, calls, phase>>

\* compare_exchange_weak reloads pos, and may fail without a reason.
PushCasFails(t) ==
  /\ pc[t] = "push_cas"
  /\ pos' = [pos EXCEPT ![t] = enqueue_pos]
  /\ Goto(t, "push_seq")
  /\ UNCHANGED <<shared, stats, value, calls, phase>>

PushConstruct(t) ==
  /\ pc[t] = "push_construct"
  /\ storage' = [storage EXCEPT ![Cell(pos[t])] = value[t]]
  /\ value' = [value EXCEPT ![t] = Raw]
  /\ Goto(t, "push_publish")
  /\ UNCHANGED <<sequence, enqueue_pos, dequeue_pos, closed, stats, pos, calls, phase>>

PushPublish(t) ==
  /\ pc[t] = "push_publish"
  /\ sequence' = [sequence EXCEPT ![Cell(pos[t])] = pos[t] + 1]
  /\ Goto(t, "push_count")
  /\ UNCHANGED <<storage, enqueue_pos, dequeue_pos, closed, stats, pos, value, calls, phase>>

PushCount(t) ==
  /\ pc[t] = "push_count"
  /\ stats' = [stats EXCEPT !.pushes = @ + 1]
  /\ Goto(t, "idle")
  /\ UNCHANGED <<shared, pos, value, calls, phase>>

-----------------------------------------------------------------------------
(* tryPop(); tryPop(T&) moves its result on.                               *)

tryPop(t) ==
  /\ pc[t] = "idle" /\ phase = "live" /\ calls < MaxCalls
  /\ calls' = calls + 1
  /\ Goto(t, "pop_load")
  /\ UNCHANGED <<shared, stats, pos, value, phase>>

PopLoadPos(t) ==
  /\ pc[t] = "pop_load"
  /\ pos' = [pos EXCEPT ![t] = dequeue_pos]
  /\ Goto(t, "pop_seq")
  /\ UNCHANGED <<shared, stats, value, calls, phase>>

PopDiff(t) == sequence[Cell(pos[t])] - (pos[t] + 1)

\* The step at which tryPop() decides to return nullopt; in the destructor
\* it ends the loop.
PopFails(t) ==
  /\ pc[t] = "pop_seq"
  /\ PopDiff(t) < 0
  /\ stats' = [stats EXCEPT !.failed_pops = @ + 1]
  /\ Goto(t, "idle")
  /\ phase' = IF phase = "draining" THEN "destroyed" ELSE phase
  /\ UNCHANGED <<shared, pos, value, calls>>

PopLoadSeq(t) ==
  /\ pc[t] = "pop_seq"
  /\ \/ PopDiff(t) = 0 /\ Goto(t, "pop_cas")
     \/ PopDiff(t) > 0 /\ Goto(t, "pop_load")
  /\ UNCHANGED <<shared, stats, pos, value, calls, phase>>

\* Seeded fault: a plain store instead of the compare-exchange.
PopCas_Store(t) ==
  /\ pc[t] = "pop_cas"
  /\ dequeue_pos' = pos[t] + 1
  /\ Goto(t, "pop_move")
  /\ UNCHANGED <<sequence, storage, enqueue_pos, closed, stats, pos, value, calls, phase>>

PopCas(t) ==
  /\ pc[t] = "pop_cas"
  /\ dequeue_pos = pos[t]
  /\ dequeue_pos' = pos[t] + 1
  /\ Goto(t, "pop_move")
  /\ UNCHANGED <<sequence, storage, enqueue_pos, closed, stats, pos, value, calls, phase>>

PopCasFails(t) ==
  /\ pc[t] = "pop_cas"
  /\ pos' = [pos EXCEPT ![t] = dequeue_pos]
  /\ Goto(t, "pop_seq")
  /\ UNCHANGED <<shared, stats, value, calls, phase>>

\* Seeded fault: the destructor call is forgotten.
PopMove_Leaks(t) ==
  /\ pc[t] = "pop_move"
  /\ value' = [value EXCEPT ![t] = storage[Cell(pos[t])]]
  /\ Goto(t, "pop_release")
  /\ UNCHANGED <<shared, stats, pos, calls, phase>>

\* Move the object out and end its lifetime.
PopMove(t) ==
  /\ pc[t] = "pop_move"
  /\ value' = [value EXCEPT ![t] = storage[Cell(pos[t])]]
  /\ storage' = [storage EXCEPT ![Cell(pos[t])] = Raw]
  /\ Goto(t, "pop_release")
  /\ UNCHANGED <<sequence, enqueue_pos, dequeue_pos, closed, stats, pos, calls, phase>>

\* Seeded fault: the cell is released for the wrong lap.
PopRelease_PreviousLap(t) ==
  /\ pc[t] = "pop_release"
  /\ sequence' = [sequence EXCEPT ![Cell(pos[t])] = pos[t] - Capacity]
  /\ Goto(t, "pop_count")
  /\ UNCHANGED <<storage, enqueue_pos, dequeue_pos, closed, stats, pos, value, calls, phase>>

PopRelease(t) ==
  /\ pc[t] = "pop_release"
  /\ sequence' = [sequence EXCEPT ![Cell(pos[t])] = pos[t] + Capacity]
  /\ Goto(t, "pop_count")
  /\ UNCHANGED <<storage, enqueue_pos, dequeue_pos, closed, stats, pos, value, calls, phase>>

\* Seeded fault: the destructor pops once instead of until empty.
PopCount_Once(t) ==
  /\ pc[t] = "pop_count"
  /\ stats' = [stats EXCEPT !.pops = @ + 1]
  /\ value' = [value EXCEPT ![t] = Raw]
  /\ Goto(t, "idle")
  /\ phase' = IF phase = "draining" THEN "destroyed" ELSE phase
  /\ UNCHANGED <<shared, pos, calls>>

\* The destructor drops the result and calls tryPop() again.
PopCount(t) ==
  /\ pc[t] = "pop_count"
  /\ stats' = [stats EXCEPT !.pops = @ + 1]
  /\ value' = [value EXCEPT ![t] = Raw]
  /\ Goto(t, IF phase = "draining" THEN "pop_load" ELSE "idle")
  /\ UNCHANGED <<shared, pos, calls, phase>>

-----------------------------------------------------------------------------
close ==
  /\ phase = "live"
  /\ closed' = TRUE
  /\ UNCHANGED <<sequence, storage, enqueue_pos, dequeue_pos, stats, pc, pos, value, calls, phase>>

\* ~LockFreeQueue(): once no call is in flight, tryPop() until it fails.
Destroy(t) ==
  /\ AllIdle
  /\ phase = "live"
  /\ phase' = "draining"
  /\ Goto(t, "pop_load")
  /\ UNCHANGED <<shared, stats, pos, value, calls>>

PushStep(t) == \/ PushCheckClosed(t) \/ PushLoadPos(t) \/ PushLoadSeq(t)
               \/ PushCas(t) \/ PushCasFails(t)
               \/ PushConstruct(t) \/ PushPublish(t) \/ PushCount(t)

PopStep(t) == \/ PopLoadPos(t) \/ PopFails(t) \/ PopLoadSeq(t)
              \/ PopCas(t) \/ PopCasFails(t)
              \/ PopMove(t) \/ PopRelease(t) \/ PopCount(t)

\* Nothing may use the queue any more.
Destroyed == phase = "destroyed" /\ UNCHANGED vars

Next == \/ \E t \in Threads :
             \/ \E v \in Values : tryPush(t, v)
             \/ tryPop(t) \/ Destroy(t)
             \/ PushStep(t) \/ PopStep(t)
        \/ close
        \/ Destroyed

Spec == Init /\ [][Next]_vars

-----------------------------------------------------------------------------
(* Where a thread is in possession of a cell, and what it may find there.  *)

Producing(t) == pc[t] \in {"push_construct", "push_publish"}
Consuming(t) == pc[t] \in {"pop_move", "pop_release"}

Labels == {"idle", "push_closed", "push_load", "push_seq", "push_cas",
           "push_construct", "push_publish", "push_count", "pop_load", "pop_seq",
           "pop_cas", "pop_move", "pop_release", "pop_count"}

LockFreeQueueStats == [pushes : Nat, pops : Nat, failed_pushes : Nat,
                       failed_pops : Nat, closed_pushes : Nat]

TypeOK ==
  /\ sequence \in [Cells -> Nat]
  /\ storage \in [Cells -> Values \cup {Raw}]
  /\ enqueue_pos \in Nat /\ dequeue_pos \in Nat /\ closed \in BOOLEAN
  /\ stats \in LockFreeQueueStats
  /\ pc \in [Threads -> Labels]
  /\ pos \in [Threads -> Nat]
  /\ value \in [Threads -> Values \cup {Raw}]
  /\ calls \in Nat
  /\ phase \in {"live", "draining", "destroyed"}

\* A cell's storage is plain memory: a thread that reserved a cell is the
\* only one between its compare-exchange and its store to `sequence`.
ExclusiveCell ==
  \A t, u \in Threads :
    (t # u /\ (Producing(t) \/ Consuming(t)) /\ (Producing(u) \/ Consuming(u)))
      => Cell(pos[t]) # Cell(pos[u])

\* tryPush() constructs only into raw storage and tryPop() moves from, and
\* destroys, only a live object: no object is leaked, overwritten, read
\* before its constructor or destroyed twice.
ObjectLifetime ==
  \A t \in Threads :
    /\ pc[t] = "push_construct" => storage[Cell(pos[t])] = Raw
    /\ pc[t] = "pop_move" => storage[Cell(pos[t])] # Raw

\* tryPush() reserves no more than Capacity cells ahead of the consumers
\* (and tryPop() none ahead of the producers): "full" is seen in time.
NeverOverfull ==
  /\ dequeue_pos <= enqueue_pos
  /\ enqueue_pos - dequeue_pos <= Capacity

\* After the destructor's loop no cell holds an object: nothing leaks.
DestroyedClean == phase = "destroyed" => \A c \in Cells : storage[c] = Raw

\* The statistics account for every call that returned, and once all have,
\* for every element in the ring.
StatsBalance ==
  (AllIdle /\ phase = "live") =>
    /\ calls = stats.pushes + stats.failed_pushes + stats.pops + stats.failed_pops
    /\ stats.pushes - stats.pops = enqueue_pos - dequeue_pos

-----------------------------------------------------------------------------
(* The queue implements a bounded FIFO.  An element is in it from the      *)
(* producer's compare-exchange to the consumer's, wherever it is stored.   *)

ElementAt(p) ==
  IF \E t \in Threads : pc[t] = "push_construct" /\ pos[t] = p
    THEN value[CHOOSE t \in Threads : pc[t] = "push_construct" /\ pos[t] = p]
    ELSE storage[Cell(p)]

TakenBy(t) ==
  CASE pc[t] = "pop_move" -> storage[Cell(pos[t])]
    [] pc[t] \in {"pop_release", "pop_count"} -> value[t]
    [] OTHER -> Raw

BQ == INSTANCE BoundedQueue WITH
        queue <- [i \in 1 .. enqueue_pos - dequeue_pos |-> ElementAt(dequeue_pos + i - 1)],
        taken <- [t \in Threads |-> TakenBy(t)],
        overwrites <- FALSE, Clears <- FALSE

\* Elements come out exactly once, in the order in which the producers
\* reserved their cells, and never more than Capacity are inside.
ImplementsBoundedQueue == BQ!Spec
=============================================================================
