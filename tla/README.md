# TLA+ models of cpp-foundation-components

The repository is a collection of small foundational components in C and C++.
They do not call each other: each is a system of its own, shared by the threads
of a program that uses it. This directory models the ones that compile, checks the
models with TLC and proves with TLAPS, for every size of the instance, every
safety property that the runs check.

    tlc -config LockFreeQueue.cfg MCLockFreeQueue
    tlapm LockFreeQueueProofs.tla

## Inventory

| component | state | operations | what is hard | correct when |
|---|---|---|---|---|
| `lock_free_queue` | a ring of cells (sequence number, raw storage), two cursors, `closed`, five tallies | `tryPush`, `tryPop`, `close`, destructor | every atomic access interleaves; the storage is not atomic; a thread may stop anywhere | nobody shares a cell, objects live exactly once, FIFO, non-blocking |
| `connection_pool` | idle queue, counters, `shutting_down`, three condition variables | `acquire`, `warmUp`, the deleter of a loan (`release`), the cleaner thread, `shutdown` | user code (factory, ping, close) runs between the locked sections and may fail; notifications; shutdown racing everything | counters match what threads do, one owner per connection, no lost wakeup, shutdown returns and is final |
| `ring_buffer` | circular array, head, tail, size, `closed`, policy, two condition variables | non-blocking, blocking and timed push and pop, `close`, `clear` | notification after the unlock; overwriting; timeouts racing notifications | index and lifetime discipline, FIFO, no lost wakeup |
| `multi_thread_reactor` | event loops (watchers, eventfd, stop flag), owner table, lifecycle flags, worker threads | `start`, `stop`, `add`, `modify`, `remove`; callbacks that call them | table and loop change in separate sections; copied callbacks; joins under a mutex; failing `epoll_ctl` and thread creation | table and loops agree, `stop` returns and joins |
| `high_performance_timer` | heap, timer table, generations, queue of ready callbacks, scheduler and workers | `scheduleAt/After/Every`, `cancel`, `cancelAll`, `shutdown` | cancel racing a firing; wait without a predicate; shutdown from callbacks | each one-shot fires at most once, never long after its deadline; stale heap items are skipped; shutdown returns |
| `epoll` | watchers, eventfd, stop flag | `add`, `modify`, `remove`, `runOnce`, `run`, `stop` | `run` clears the stop flag; the flag and the eventfd are two writes | `stop` ends a `run` that has begun |
| `epoll/examples/echo_server` | the output of each client, the sockets | accept, receive, flush, close, change of interest | edge-triggered events between any two system calls; descriptor numbers used again; partial sends; resets and half-closes | bytes come back in order to whom sent them, none is forgotten |
| `memory_leak_detector` | record table, tallies, sequence number, enabled flag, a depth per thread | allocation and deallocation hooks, snapshots, scopes, `reset` | addresses used again between free and record; the detector allocates under its own mutex, and that may fail; nested scopes | one record per live tracked block, tallies agree with the table, scopes report what was allocated in them |
| `lru_cache` | two lists, index, reference counts | `get`, `put`, moves and releases of handles, destructor | sequences of calls with handles alive across evictions | lists partition the entries by reference count, no handle dangles |
| `memory_pool/main.c` | a free list in one page | init, malloc, free | | its initialisation writes past the page: see below |
| `memory_pool/slab.c`, `thread_pool` | | | | neither compiles: nothing to model |

`PROJECT.json` has the hazards at their lines, with the property that watches
each, or the reason why none does yet.

## Modules

| module | role |
|---|---|
| `BoundedQueue` | abstract: a bounded FIFO shared by threads; an optional overwrite policy and clear |
| `LockFreeQueue` | the queue, one atomic access per action; implements `BoundedQueue` |
| `ConnectionPool` | clients, cleaner and shutdown |
| `RingBuffer` | the buffer and its condition variables; implements `BoundedQueue` |
| `EventLoop`, `MultiThreadReactor` | the loops, and the reactor composed over them (`EXTENDS`) |
| `HighPerformanceTimer` | scheduler, callback workers and callers of the timer |
| `EpollReactor`, `EchoServer` | the reactor with the kernel's epoll, and the echo server composed over it (`EXTENDS`) |
| `MemoryLeakDetector` | the replaced operators, the table and the scopes |
| `LRUCache` | the cache and the handles of its user |
| `LockFreeQueueProofs`, `RingBufferProofs`, `ConnectionPoolProofs`, `MultiThreadReactorProofs`, `HighPerformanceTimerProofs`, `EchoServerProofs`, `MemoryLeakDetectorProofs`, `LRUCacheProofs` | the inductive invariant of each component, and the proofs |
| `MC*` | symmetry sets, fairness and liveness properties for TLC |

Definitions whose comment begins "Seeded fault" are deliberately wrong variants
of the action that follows them. They are not part of any specification; each is
the fault that one property was seen to catch. Only the queue's `TypeOK` is among
the runs' properties: the others' is there for the proofs, which show it.

Three operators say what a loop or a library call of the code computes without
recursion, so that the prover can use them: `Remaining` of the pool (the idle
connections that `cleanupIdle()` leaves, in their order), `InOrder` of the timer
(the order in which `heap.pop()` gives items) and `Unlink` of the cache (a list
without the node at `list_pos`).

### LockFreeQueue

`sequence`, `storage`, `enqueue_pos`, `dequeue_pos` and `closed` are the members
of the class; `stats` the five tallies; `pc`, `pos` and `value` each thread's
place and locals. `tryPush` and `tryPop` are split at every atomic access:
load the cursor, load the sequence (which decides between reserve, fail and
retry), compare-exchange (which may fail spuriously, it is the weak form),
construct or move, store the sequence, count. The destructor is a loop of
`tryPop` with no call in flight. The two tallies of a push that finds the queue
closed are one step, since nothing reads them separately.

Abstractions: atomics are sequentially consistent. The acquire/release pair on
`sequence` is what orders the plain accesses to the storage; the model takes that
ordering as given and checks that no two threads are in a cell at once. Positions
are natural numbers, not 64-bit words.

### ConnectionPool

One action per section under `mutex`; `createEntry()`, `ping()` (in
`AcquireCheck`) and `closeEntry()` are actions without the lock. `held[p]` are
the entries in a thread's local variables, `open` the connections that exist.
Condition variables are sets of sleeping threads: a notification moves one, or
all, from "asleep" to "awake"; a wait may also return spuriously or at its
deadline. Time is nondeterministic: whether an entry has expired, or a deadline
has passed, is chosen at each step that looks. The factory may fail at any call.
The tallies `acquired` and `timeouts` are not read by anything and are left out;
`waiting` is a set of threads.

### RingBuffer

One action per section under `mutex_`, and one per notification after it.
`buffer[i] = Raw` is `occupied == false`. The policy is chosen in `Init`.
`RingBufferStats` is left out. The destructor's `clear()` is a `clear()`.

### EventLoop and MultiThreadReactor

A worker checks the flag, waits for events, collects callbacks under the loop's
mutex, runs them without it and starts again. While it is in a callback it may
make any call a user thread may make, but for `start()`. `add()`, `modify()` and
`remove()` are split at their sections: the table under `owner_mutex`, the
watchers under the loop's mutex, the write to the eventfd. `start()` and `stop()`
hold `lifecycle_mutex` over all their steps; `at` is the loop their iteration has
reached. `epoll_ctl()` and thread creation may fail. `epoll_wait()` returns any
non-empty set of ready descriptors, so every `max_events` is covered. `stopped_by`
is a history variable: the thread whose `stop()` found the reactor running. Only
that one may be a worker that outlives the call, when it is a callback that cannot
join its own thread; `StopJoinsWorkers` exempts it alone. A `start()` that failed
sets no `stopped_by`, and must have joined every worker it made.

Left out: event masks (and so edge triggering and one-shot), `runOnce()` with a
finite timeout, which `run()` never uses, callbacks that use the `EventLoop&` they
are given to bypass the table, and exceptions that leave a callback (they end the
process).

`SerialCalls` is about the callers. When it is true, no two calls on the same
descriptor overlap, nor two of `start()` and `stop()`; that is what the tests and
examples do. `ReactorStop.cfg` sets it to false.

### HighPerformanceTimer

`timers` is the table (a generation of 0: no such timer), `heap` the set of heap
items; `Before` is the order of the heap and `discardStaleHeapItems` what is left
when stale items have been taken from its top. The scheduler's loop is three
sections: sleep, fire everything that is due (`SchedulerFires`), queue the
callbacks, which is announced after the unlock. A worker that runs a callback may
make any call. `NextDeadline` is the loop that skips missed periods, in closed
form. Callbacks are named by their timers; an exception that leaves one is caught,
so that it returns either way. `cancelled` and `fired` are the tallies of the
class, kept per timer, and `ran` counts the callbacks that began.

The clock is a counter that may advance at any step. A caller computes its
deadline before it takes the lock, so that a deadline may have passed when the
timer is added (`Readings`). `shutdown()` is called by one thread at a time:
overlapping joins of one thread are undefined. Calls that change nothing (an
unknown identifier, adding after shutdown, `stats()`) are stuttering.

What `CancelIsFinal` does not say: a cancelled timer's callbacks that are already
queued still run.

### EpollReactor and EchoServer

`EpollReactor` has no next-state relation of its own: its operators are the
calls of the class and the steps of `run()` (clear the flag, test it, wait,
collect the callbacks under the mutex, go round again), and `EchoServer` says what
callbacks do. `add()`, `modify()` and `remove()` change the table and the epoll
instance in one section, so `watchers` is both. The kernel's part, marked external
in the map, is small: `ready_list` holds descriptors that may have something to
report; a wakeup queues a descriptor if it waits for that event, `ADD` and `MOD`
queue it if it is ready by then, and `epoll_wait()` looks at the state of what is
queued, reports up to `max_events` of it, and forgets what it reported if that is
edge-triggered. Which descriptors of a longer list are reported is left open. The
echo server gives its reactor 256 and does not limit its clients, so the list may be
longer; the run has four descriptors with the eventfd, and two to a call.

In `EchoServer` every system call is a step: `accept4()`, `recv()`, `send()`, and
the `modify()` at the end of `handleClient()`; `closeClient()` is one step, since
nothing can reach the descriptor between its three calls. Peers connect, send,
read, half-close and reset between any two steps. A byte is the pair of its
connection and its number, so that `EchoInOrder` notices one that strays;
`accept4()` gives the lowest free descriptor, so that descriptors are used again
at once. The second thread, which calls `stop()`, is the one of
`epoll/tests/epoll_reactor_test.cpp`.

A by-product: a `handleClient()` that read only once per event would still echo
everything, because the `modify()` at its end queues a descriptor that is still
readable. The loop to `EAGAIN`, which `epoll/README.md` insists on, is needed by
callbacks that do not end with a `modify()`, such as `acceptClients()`.

Left out: finite timeouts of `runOnce()`, `OneShot`, calls of other threads but
`stop()`, and exceptions, which end the program.

### MemoryLeakDetector

An allocation is: take memory, test `enabled` without the lock, count the thread's
depth, lock and take a sequence number, emplace the record (whose node is allocated
through the same operator, and may fail) and count. A free is: remove the record
in one section, then give the memory back. `heap` is what the users know of the
blocks, independent of the table. The nested call of operator new is the conjunct
`insideDetector(t)`: without it the thread would wait for the mutex that it holds.
In a scope, `before` and `after` are the blocks held when its baseline was taken
and those allocated since.

A scope's constructor is three steps: it loads `enabled` (`ScopeBegin`), stores true
if it is to check (`ScopeEnable`) and takes the baseline (`ScopeSnapshot`). Other
threads act in between, with constructors of their own. `reset()` marks its thread
before it takes the mutex, as recording does, since `clear()` frees nodes through the
replaced operator.

The callers keep two rules, which the tests keep too: scopes end in the reverse of
the order in which their constructors began, over all threads, and `reset()` and
`setEnabled()` overlap no scope. Without the first a scope restores a flag that
another has changed and allocations go unseen; without the second `reset()` takes
away the records a scope should report.

The rules are not enough for scopes of several threads. If a second constructor
loads `enabled` between the first one's load and its store, both remember false; the
second scope ends first, as it should, and turns the detector off while the first is
open, and the first does not see what is allocated from then on. `overlapped` marks
such a first scope. `ScopeSeesLeaks` promises it only that it reports no block held
before it; without that exception TLC finds the sequence above in nine states. The
second scope, and any other, is promised all.

Left out: file, line, thread id and alignment, which are only copied, and the
reports. `report()` reads the table and the tallies in two sections, so that its
totals may differ from its lines.

### LRUCache

Sequential. The cache is one record and its private members are functions of it,
so that an operation is their composition in the order of the code: `h = put(k)`
inserts, takes a reference, evicts, and then releases what `h` held. Nodes have
addresses, which are used again, and a handle remembers the key it was asked for.
Values are left out. Two things about them: `put()` overwrites one without calling
the deleter, and `DefaultValueDeleter` takes a `T*` and is called with a `T&`, so
that the class only compiles with a deleter of the user's.

## What the runs show

| run | instance | result |
|---|---|---|
| `lfq_safety` | 3 threads, 2 cells, 2 values, 6 calls | invariants and refinement hold |
| `lfq_live` | 3 threads, one of which may stop for ever, 4 calls | every call of the others returns |
| `lfq_capacity_one` | 1 thread, 1 cell | **violated**: a second push is accepted and overwrites the first |
| `pool_safety` | 4 clients, max 2, min idle 1, 3 creations | invariants hold |
| `pool_live` | 3 clients, max 1, min idle 1, 2 creations | shutdown returns, and so does every `tryAcquireFor()` it finds under way |
| `ring` | 3 threads, 2 cells, 2 values, both policies | invariants and refinement hold, blocked calls return |
| `reactor` | 2 loops, 1 user, 1 descriptor, user and worker 0 may stop | invariants hold, stop returns |
| `reactor_stop` | 2 loops, 1 user, calls overlap | **violated**: two `stop()` calls wait for each other |
| `timer` | 1 user, 2 workers, 2 timers, repeating ones every tick, clock to 2; the user and worker 1 may shut down | invariants hold, due timers fire, shutdown returns |
| `echo` | 2 connections, 3 bytes, send buffer and `recv()` of 1 byte, 2 events to an `epoll_wait()`, a thread that stops the loop | invariants hold, bytes come back, `stop()` ends `run()` |
| `leak` | 2 threads, 2 addresses, 2 allocations, 2 scopes, one `reset()` or `setEnabled()` | invariants hold, calls return |
| `lru` | 4 keys, 3 handles, capacities 0 (no limit), 1 and 2 | invariant and action property hold |

The two violations are disagreements between the code and its documentation;
`PROJECT.json` quotes the lines. With a capacity of 1 the lock-free queue is
broken (a cell's "published" and "free for the next lap" numbers coincide), and
`stop()` from a callback deadlocks with a `stop()` elsewhere.

Two documents promise a little more than the code keeps, as the models show:
`max_size` caps what the pool counts and not what is open, since the slot of a
connection is given away before the connection is closed; and a removed
descriptor's callback may still be running in one loop when another loop gets the
descriptor. And a `stop()` that comes before `run()` is lost, because `run()`
begins by clearing the flag; `StopWakesLoop` is about a `run()` that has begun.

### Bounds

- `MaxCalls` (lock-free queue): calls made by all threads together. Six calls on
  two cells fill the ring, empty it and go into a third lap, with three threads
  at different places of it; the proofs need no such bound.
- `MaxCreated` (pool): after that many the factory only fails. Three is more than
  `max_size`, so that a connection is retired and replaced.
- Four clients on a pool of two leave two asleep while two hold connections: the
  smallest case in which one notification can go to the wrong thread.
- Three threads on two cells of the ring buffer: two asleep on one condition
  variable and one that takes, clears or closes, and then notifies.
- One descriptor and two loops: a descriptor interacts with another only through
  the batch of a loop, which the properties do not relate.
- `MaxTimers`, `MaxDelay`, `MaxLag`, `Horizon` (timer): two timers and two ticks
  let a repeating timer fire twice, both timers be due in either order, and one be
  cancelled while its item is in the heap.
- `NConns`, `MaxBytes`, `SndBuf`, `Chunk`, `max_events` (echo server): two events to
  a call leave up to two descriptors, or the eventfd, to a later one; with room for one byte in
  the socket, one connection has a byte under way, one in `Client::out` and one not
  read, and readable and writable are reported together; with two connections a
  descriptor is used again while the first connection's bytes are not all gone.
- `MaxNew`, `MaxResets`, `MaxScopes` (leak detector): an address is used again by
  another thread while the first is still in its free; two scopes nest, of one
  thread or of two, and two constructors overlap at each of their steps.
- `Keys`, `Handles` (cache): with three handles and capacity 1 the cache holds three
  entries beyond its capacity, which later go in one `put()`. No other bound.

`Observed`, in the ring buffer's and the leak detector's runs, is one thread for
which a liveness property is checked: threads are interchangeable.

### Fairness

Weak fairness of each thread's own steps: the scheduler runs every thread that
can run. Nothing is assumed of timeouts and spurious wakeups, so that a sleeping
thread depends on its notification. Beyond that:

- queue: strong fairness of the compare-exchange, which may fail spuriously but
  not for ever while it could succeed; and calls are bounded by `MaxCalls`, so
  that `NonBlocking` is the lock-free guarantee (some thread completes) seen by
  threads with finitely many competitors, not wait-freedom;
- pool: borrowers return their loans, and the user's functions return;
- reactor: strong fairness of the return of a callback, since a callback that
  makes calls leaves and re-enters the place from which it returns;
- timer: the same, and a timed wait ends when the clock has reached its deadline.
  That the clock advances is not assumed;
- echo server: a peer reads what reaches it. Nothing is assumed of what it sends,
  nor of which ready descriptors `epoll_wait()` reports first: what is reported
  leaves the list and peers send finitely much, so the others have their turn (the
  kernel takes them in turn, which a server with endless input needs);
- leak detector: calls are bounded, so that a thread that waits for the mutex gets
  it in the end.

## What is proved

`tlapm <Component>Proofs.tla` checks the proofs of a component. They are about the
same `Spec` that TLC runs, without the bounds of an instance: any number of threads
(or clients, keys, connections, timers), of cells, values and calls. Every safety
property that a passing run checks is a theorem:

| module | theorem | property |
|---|---|---|
| `LockFreeQueueProofs` | `TypeCorrect`, `StatisticsAgree` | `TypeOK`, `StatsBalance` |
| | `NoDataRace`, `LifetimesRespected`, `CapacityRespected`, `NothingLeaks`, `Refinement`, if `Capacity >= 2` | `ExclusiveCell`, `ObjectLifetime`, `NeverOverfull`, `DestroyedClean`, `ImplementsBoundedQueue` |
| `RingBufferProofs` | `TypeCorrect`, `CellsInOrder`, `Refinement`, `NoWakeupIsLost` | `TypeOK`, `Occupancy`, `ImplementsBoundedQueue`, `NoLostWakeup` |
| `ConnectionPoolProofs` | `TypeCorrect`, `CountersAgree`, `OneOwner`, `NoWakeupIsLost`, `ShutdownIsFinal` | `TypeOK`, `Accounting`, `SoleOwner`, `NoLostWakeup`, `ShutdownFinal` |
| `MultiThreadReactorProofs` | `TypeCorrect`, `StopLeavesNoWorker` | `TypeOK`, `StopJoinsWorkers` |
| | `OwnersStayTogether`, if `SerialCalls` | `OwnersAgree` |
| `HighPerformanceTimerProofs` | `TypeCorrect`, `HeapIsExact`, `NoDeadlineIsMissed`, `CancelHolds`, `ShutdownLosesNothing` | `TypeOK`, `HeapTracksTimers`, `NoOversleep`, `CancelIsFinal`, `ShutdownDrains` |
| `EchoServerProofs` | `TypeCorrect`, `TablesStayTogether`, `InterestIsExact`, `BytesComeBackInOrder` | `TypeOK`, `TablesAgree`, `WriteInterestExact`, `EchoInOrder` |
| `MemoryLeakDetectorProofs` | `TypeCorrect`, `RecordsAreLive`, `ScopesSeeLeaks`, `StatisticsAgree` | `TypeOK`, `RecordsLive`, `ScopeSeesLeaks`, `StatsAgree` |
| `LRUCacheProofs` | `TypeCorrect`, `ReferencesCounted`, `CapacityKept` | `TypeOK`, `RefsCountHandles`, `Bounded` |

### Assumptions

They are the `ASSUME`s of the modules, which TLC evaluates in every run: sizes are
positive numbers where the constructors demand it (a timer has at least one
callback thread, `high_performance_timer.cpp:331`; a pool has `min_idle <=
max_size`), the sets of threads, clients, keys and handles are finite, and the
values that stand for "nothing" (`Raw`, `None`, `NoRecord`, `NoNode`, `nullptr`)
are none of the things they are told apart from. Two hypotheses are restrictions
that the code needs: `Capacity >= 2` (`lfq_capacity_one` is the counterexample), and
`SerialCalls`, the rule of the reactor's callers. With it set to false TLC finds
`OwnersAgree` violated, by a `remove()` between the two sections of an `add()`.
`StopLeavesNoWorker` does not need it.

### The lock-free queue

`ExclusiveCell` needs to know that the thread in a cell has a position within the
current lap and that the cell's sequence number tells at which stage it is; that a
compare-exchange may reserve needs that what its thread read earlier is still so if
the cursor has not moved. The invariant `IndInv` says, for the Capacity positions
from `dequeue_pos` on:

- positions below `enqueue_pos` are published (`sequence = p + 1`, an object in
  the cell) or owned by exactly one producer (`FilledOK`, `ProducersOK`);
- positions from there to the end of the lap are free (`sequence = p`, raw) or
  still owned by the consumer of the previous lap (`FreeOK`, `ConsumersOK`);
- producers, and consumers, have different positions (`DistinctOK`);
- a thread about to compare-exchange has an outdated position or a true belief
  (`ReservingOK`), and a push still has its element (`ArgumentsOK`).

The arithmetic is in a few lemmas on `Cell(p) == p % Capacity`: positions less
than one lap apart are in different cells (`CellInjective`), and one lap later is
the same cell (`CellLap`). There is a lemma for each step that changes the ring, and
one for each kind of step that does not. For the refinement, the abstract queue is
the elements at the positions between the cursors, each in its cell or still in its
producer's hands (`ElementIs`): a push takes effect at its compare-exchange. The
tallies need no cell: `CountsOK` adds the calls under way to them.

### The ring buffer

`OccupancyByOffset` is `Occupancy` with the distance of a cell from `head` in place
of the search for it, and `CallOK` says what a thread has in hand at each place. The
abstract queue is read off the cells from `head` on. `NoLostWakeup` is split into
the half of the consumers and the half of the producers; each is a comparison of
cardinalities, which a step moves by one.

### The connection pool

`Accounting` is inductive once it is known that a thread in a call holds exactly
the connections its place says (`HeldOK`), that nobody holds what is in the queue
(`OwnersOK`), and how far a shutdown has come (`ShutOK`). A step changes three
counts of places by `Delta`, and the lemma `AccountingStep` needs only that the
counters change by as much. `NoLostWakeup` is inductive on top of that.

### The reactor

`Lifecycle` ties `threads`, the workers' places and the lifecycle mutex together and
holds however calls overlap. A reactor is started once, so that at most one `stop()`
finds it running, and a worker that runs is in `threads`, to be joined, or is the
one that made that `stop()` (`LifeOK`). `OwnersAgree` holds between calls only: `Between` says
what is true of a descriptor inside one, and `SerialOK` that there is one at a time.

### The timer

`HeapTracksTimers` needs that identifiers are not used again (`HeapOK`): what a
cancelled timer left in the heap never becomes current. `ShutdownDrains` needs the
order in which the threads stop (`StopOK`) and that each firing is run, queued or
due (`CountsOK`, with `Count` of a concatenation). That `InOrder` has a value, that
is, that finitely many items can be sorted, is `OrderExists`: the place of an item
is the number of items before it, which needs no induction.

### The echo server

`StreamOK` is the point: what a peer got, what is on its way, what the server holds
for it (`Client::out`) and what the server has not read are, put together, what the
peer sent, as long as nobody closed or reset the connection; afterwards what is
delivered remains a beginning of it. That needs `ConnsOK` (a connection has one
place), `TablesAgree` and `CallbacksOK` (a callback works on an open descriptor).

### The leak detector

A call owns its block (`CallsOK`), and whoever makes a record has the mutex
(`GuardOK`); `RecordsLive` is inductive with these. A scope needs that sequence
numbers are given in order, that `reset()` overlaps no scope (`ResetOK`), that scopes
nest, and `BaselineOK`, which says what records its blocks have. Nesting (`NestingOK`)
is about the scopes that check and are not overlapped (`Sure`): once such a
constructor has stored, `enabled` stays set, because every later one has read it as
true and restores that. The byte count is a sum over the table, which the model
writes as a fold. The invariant carries a function that is additive over sets of
addresses (`Additive`) instead, and `SumIsFold` shows that it is that fold. The
induction theorems of the library cannot be used for this, but the existence of a
minimal element can: a smallest set on which the two differ is contradictory.

### The cache

`CacheOK(c, r)` says what a cache is when the handles hold `r[n]` references to
node `n`: the map and the nodes are inverse to each other, the two lists have each
node once, by its count. There is a lemma for each private member: `RefNode` and
`UnrefNode` change `r` by one, `InsertNode` adds a node, `EvictNodes` takes nodes
with `r[n] = 0`. An operation composes them, and `Reheld` says how `r` follows the
handles. A free node exists (`FreeNode`) because a key is missing from the map.

### Only model-checked

The liveness properties, which are out of the prover's reach: `NonBlocking` of the
queue, `ShutdownReturns` and `ShutdownEndsCalls` of the pool, `CloseWakesAll` and
`WaitEnds` of the ring buffer, `StopReturns` of the reactor, `DueFires`, `QueuedRun`
and `ShutdownReturns` of the timer, `Delivered` and `StopWakesLoop` of the echo
server, `CallsReturn` of the leak detector. The invariants above are what they rest
on: a sleeping thread always has its notification on the way. And the two
violations, which are counterexamples.

## Plan

1. Done: models of every component that compiles, but for the free list of
   `memory_pool`; proofs of every safety property that the runs check.
2. For the timer, how many callbacks of a repeating timer may run after its
   `cancel()`, against the bound its test asserts. Statistics of the ring buffer.
3. For the reactor, what still holds of the table and the loops when calls on one
   descriptor overlap.

## Not modelled

The slab allocator and the thread pool do not compile. `memory_pool/main.c` is a
practice program whose initialisation writes the terminator of its list one block
past the page (`main.c:27`); what follows is undefined, and its list is otherwise
a stack guarded by a counter. The handwritten reactor is a sketch of the one
modelled, and the echo server of the multi-threaded reactor treats a client as the
modelled one does. Weak memory beyond sequential consistency, the wrap of 64-bit
positions, finite poll timeouts and report texts are outside these models.
