------------------------- MODULE MemoryLeakDetector -------------------------
(***************************************************************************)
(* memory_leak_detector/src/memory_leak_detector.cpp: the replaced         *)
(* operators new and delete, the table of live allocations behind one      *)
(* mutex, and ScopedMemoryLeakCheck.                                       *)
(*                                                                         *)
(* All forms of operator new and delete are one operation each, with the   *)
(* array flag they pass; file, line, thread id and alignment are only      *)
(* copied into the record.  An operator new that fails changes nothing.    *)
(***************************************************************************)
EXTENDS Integers, Sequences, FiniteSetsExt

CONSTANTS
  Threads,
  Addrs,       \* what malloc() may return
  Requests,    \* what is asked of operator new: <<size, array form>>
  MaxNew,      \* bound: calls of operator new
  MaxResets,   \* bound: calls of reset() and setEnabled()
  MaxScopes    \* bound: objects of ScopedMemoryLeakCheck

CONSTANTS NoThread, NoRecord   \* values that are no thread and no record

nullptr == 0
Records == [size : Nat, array : BOOLEAN, sequence : Nat]

ASSUME LeakAssumption ==
  /\ IsFiniteSet(Addrs) /\ nullptr \notin Addrs /\ Requests \subseteq Nat \X BOOLEAN
  /\ MaxNew \in Nat /\ MaxResets \in Nat /\ MaxScopes \in Nat
  /\ NoThread \notin Threads /\ NoRecord \notin Records

VARIABLES
  mutex,              \* the thread that holds it, or NoThread
  g_detector_depth,   \* thread_local
  live_allocations,   \* live_allocations[a]: the record of address a, or NoRecord
  stats, next_sequence, enabled,
  heap,               \* heap[a]: the block at a, as its user knows it
  scopes,             \* the ScopedMemoryLeakCheck objects, a stack
  pc, arg,            \* arg[t]: the address that thread t's call works on
  calls               \* what the bounds have left

table == <<live_allocations, stats, next_sequence>>
vars == <<table, mutex, g_detector_depth, enabled, heap, scopes, pc, arg, calls>>

\* No block: `lost` says that the node of its record could not be allocated.
Free == [state |-> "free", size |-> 0, array |-> FALSE, lost |-> FALSE]

NoStats == [live_allocations |-> 0, live_bytes |-> 0, peak_live_bytes |-> 0,
            total_allocations |-> 0, total_bytes |-> 0, total_frees |-> 0,
            mismatched_deletes |-> 0]

Init ==
  /\ mutex = NoThread /\ g_detector_depth = [t \in Threads |-> 0]
  /\ live_allocations = [a \in Addrs |-> NoRecord] /\ stats = NoStats
  /\ next_sequence = 1 /\ enabled = FALSE
  /\ heap = [a \in Addrs |-> Free] /\ scopes = <<>>
  /\ pc = [t \in Threads |-> "idle"] /\ arg = [t \in Threads |-> nullptr]
  /\ calls = [new |-> MaxNew, reset |-> MaxResets, scope |-> MaxScopes]

-----------------------------------------------------------------------------

Here(t, next) == pc' = [pc EXCEPT ![t] = next]
Return(t) == Here(t, "idle") /\ arg' = [arg EXCEPT ![t] = nullptr]
Lock(t) == mutex = NoThread /\ mutex' = t
Unlock == mutex' = NoThread

\* Seeded fault: recordAllocation() does not mark its thread.
Guard_None(t) == g_detector_depth

\* DetectorInternalScope, and its destructor.
Guard(t) == [g_detector_depth EXCEPT ![t] = @ + 1]
Unguard(t) == [g_detector_depth EXCEPT ![t] = @ - 1]

insideDetector(t) == g_detector_depth[t] > 0

Recorded == {a \in Addrs : live_allocations[a] # NoRecord}
Held == {a \in Addrs : heap[a].state = "held"}

\* What the open scopes note (see ScopeBegin) when block a is made or freed.
Noted(a, born) ==
  [i \in DOMAIN scopes |->
    [scopes[i] EXCEPT !.before = @ \ {a},
                      !.after = IF born /\ scopes[i].ready THEN @ \cup {a} ELSE @ \ {a}]]

(* operator new: allocateRaw(), and then the record.                       *)

allocateRaw(a, request) ==
  [heap EXCEPT ![a] = [state |-> "new", size |-> request[1], array |-> request[2],
                       lost |-> FALSE]]

New(t) ==
  /\ pc[t] = "idle" /\ calls.new > 0
  /\ calls' = [calls EXCEPT !.new = @ - 1]
  /\ \E a \in Addrs, request \in Requests :
       /\ heap[a] = Free
       /\ heap' = allocateRaw(a, request)
       /\ arg' = [arg EXCEPT ![t] = a]
       /\ scopes' = Noted(a, TRUE)
  /\ Here(t, "enabled?")
  /\ UNCHANGED <<table, mutex, g_detector_depth, enabled>>

\* operator new returns arg[t] to its caller.
Returned(t) == [heap EXCEPT ![arg[t]].state = "held"]

\* recordAllocation() looks at `enabled` before it takes the mutex.
TestEnabled(t) ==
  /\ pc[t] = "enabled?"
  /\ IF enabled THEN /\ g_detector_depth' = Guard(t)
                     /\ Here(t, "record") /\ UNCHANGED <<heap, arg>>
     ELSE Return(t) /\ heap' = Returned(t) /\ UNCHANGED g_detector_depth
  /\ UNCHANGED <<table, mutex, enabled, scopes, calls>>

RecordLock(t) ==
  /\ pc[t] = "record" /\ Here(t, "node")
  /\ Lock(t)
  /\ next_sequence' = next_sequence + 1
  /\ UNCHANGED <<live_allocations, stats, g_detector_depth, enabled, heap, scopes, arg, calls>>

\* The rest of recordAllocation().  The node of the table comes from operator
\* new, called again by this thread: outside the detector it would ask for
\* the mutex that the thread holds.
Emplace(t) ==
  LET a == arg[t]
      old == live_allocations[a]
      size == heap[a].size
      bytes == size + (IF old = NoRecord THEN stats.live_bytes
                       ELSE Max({stats.live_bytes - old.size, 0}))
  IN /\ pc[t] = "node" /\ Return(t)
     /\ insideDetector(t)
     /\ live_allocations' = [live_allocations EXCEPT ![a] =
          [size |-> size, array |-> heap[a].array, sequence |-> next_sequence - 1]]
     /\ stats' = [stats EXCEPT
          !.live_allocations = IF old = NoRecord THEN @ + 1 ELSE @,
          !.live_bytes = bytes,
          !.total_allocations = @ + 1, !.total_bytes = @ + size,
          !.peak_live_bytes = Max({@, bytes})]
     /\ heap' = Returned(t)
     /\ g_detector_depth' = Unguard(t) /\ Unlock
     /\ UNCHANGED <<next_sequence, enabled, scopes, calls>>

\* The node cannot be allocated: catch (...) {}.
EmplaceFails(t) ==
  /\ pc[t] = "node" /\ Return(t)
  /\ insideDetector(t) /\ live_allocations[arg[t]] = NoRecord
  /\ heap' = [Returned(t) EXCEPT ![arg[t]].lost = TRUE]
  /\ g_detector_depth' = Unguard(t) /\ Unlock
  /\ UNCHANGED <<table, enabled, scopes, calls>>

(* operator delete: the record, and then freeRaw().                        *)

\* Seeded fault: the memory is freed before its record is removed.
AtDelete_Freed(a) == [heap EXCEPT ![a] = Free]

AtDelete(a) == [heap EXCEPT ![a].state = "delete"]

\* A block may be freed by another thread than its own, with either form.
Delete(t, a) ==
  /\ pc[t] = "idle" /\ heap[a].state = "held"
  /\ arg' = [arg EXCEPT ![t] = a]
  /\ heap' = AtDelete(a) /\ scopes' = Noted(a, FALSE)
  /\ g_detector_depth' = Guard(t)
  /\ \E array_delete \in BOOLEAN : Here(t, IF array_delete THEN "erase[]" ELSE "erase")
  /\ UNCHANGED <<table, mutex, enabled, calls>>

\* Seeded fault: the free of a block without a record is counted.
NotFound_Counted == [stats EXCEPT !.total_frees = @ + 1]

NotFound == stats

\* recordDeallocation(): the erased node goes to operator delete, called
\* again by this thread.
Erase(t) ==
  LET record == live_allocations[arg[t]]
  IN /\ pc[t] \in {"erase", "erase[]"} /\ Here(t, "free")
     /\ mutex = NoThread /\ insideDetector(t)
     /\ IF record = NoRecord THEN stats' = NotFound /\ UNCHANGED live_allocations
        ELSE /\ live_allocations' = [live_allocations EXCEPT ![arg[t]] = NoRecord]
             /\ stats' = [stats EXCEPT
                  !.mismatched_deletes =
                     IF record.array # (pc[t] = "erase[]") THEN @ + 1 ELSE @,
                  !.live_bytes = Max({@ - record.size, 0}),
                  !.live_allocations = Cardinality(Recorded) - 1,
                  !.total_frees = @ + 1]
     /\ g_detector_depth' = Unguard(t)
     /\ UNCHANGED <<next_sequence, mutex, enabled, heap, scopes, arg, calls>>

FreeRaw(t) ==
  /\ pc[t] = "free" /\ Return(t)
  /\ heap' = [heap EXCEPT ![arg[t]] = Free]
  /\ UNCHANGED <<table, mutex, g_detector_depth, enabled, scopes, calls>>

-----------------------------------------------------------------------------
(* The switches.  Both are used between the scopes, as the tests do.       *)

setEnabled(t, on) ==
  /\ pc[t] = "idle" /\ scopes = <<>> /\ calls.reset > 0
  /\ enabled' = on
  /\ calls' = [calls EXCEPT !.reset = @ - 1]
  /\ UNCHANGED <<table, mutex, g_detector_depth, heap, scopes, pc, arg>>

\* reset() marks its thread, as the nodes that clear() frees under the mutex
\* go to operator delete, and then takes the mutex.
reset(t) ==
  /\ pc[t] = "idle" /\ scopes = <<>> /\ calls.reset > 0
  /\ calls' = [calls EXCEPT !.reset = @ - 1]
  /\ g_detector_depth' = Guard(t)
  /\ Here(t, "reset")
  /\ UNCHANGED <<table, mutex, enabled, heap, scopes, arg>>

ResetLocked(t) ==
  /\ pc[t] = "reset" /\ Here(t, "idle")
  /\ mutex = NoThread /\ insideDetector(t)
  /\ live_allocations' = [a \in Addrs |-> NoRecord] /\ stats' = NoStats
  /\ next_sequence' = 1
  /\ g_detector_depth' = Unguard(t)
  /\ UNCHANGED <<mutex, enabled, heap, scopes, arg, calls>>

(* ScopedMemoryLeakCheck.  The objects of all threads end in the reverse of *)
(* the order in which their constructors began; the constructors may        *)
(* overlap.  `overlapped`: another constructor read `enabled` between this  *)
(* one's load and its store.  `before` and `after` are the blocks that      *)
(* their users held before the scope and allocated in it.                   *)

\* The constructor of scope i has read `enabled` and is about to set it.
Storing(i) == ~scopes[i].ready /\ pc[scopes[i].thread] = "enable"

\* previous_enabled_ = detector.enabled(), and the branch on enable_detector.
ScopeBegin(t) ==
  /\ pc[t] = "idle" /\ calls.scope > 0
  /\ \A u \in Threads : pc[u] # "reset"
  /\ calls' = [calls EXCEPT !.scope = @ - 1]
  /\ \E enable_detector \in BOOLEAN :
       /\ Here(t, IF enable_detector THEN "enable" ELSE "snapshot")
       /\ scopes' = Append(
            [i \in DOMAIN scopes |-> [scopes[i] EXCEPT !.overlapped = @ \/ Storing(i)]],
            [thread |-> t, previous_enabled |-> enabled, on |-> enabled \/ enable_detector,
             overlapped |-> FALSE, ready |-> FALSE, baseline |-> 0, before |-> {}, after |-> {}])
  /\ UNCHANGED <<table, mutex, g_detector_depth, enabled, heap, arg>>

\* setEnabled(true)
ScopeEnable(t) ==
  /\ pc[t] = "enable" /\ Here(t, "snapshot")
  /\ enabled' = TRUE
  /\ UNCHANGED <<table, mutex, g_detector_depth, heap, scopes, arg, calls>>

\* Seeded fault: the baseline is the last sequence that was given.
snapshot_Last == next_sequence - 1

\* snapshot().next_sequence
snapshot == next_sequence

ScopeSnapshot(t) ==
  /\ pc[t] = "snapshot" /\ Here(t, "idle")
  /\ mutex = NoThread
  /\ scopes' = [i \in DOMAIN scopes |->
       IF scopes[i].thread = t /\ ~scopes[i].ready
       THEN [scopes[i] EXCEPT !.ready = TRUE, !.baseline = snapshot, !.before = Held]
       ELSE scopes[i]]
  /\ UNCHANGED <<table, mutex, g_detector_depth, enabled, heap, arg, calls>>

ScopeEnd(t) ==
  /\ pc[t] = "idle" /\ scopes # <<>>
  /\ LET scope == scopes[Len(scopes)]
     IN /\ scope.thread = t /\ scope.ready
        /\ enabled' = scope.previous_enabled
  /\ scopes' = SubSeq(scopes, 1, Len(scopes) - 1)
  /\ UNCHANGED <<table, mutex, g_detector_depth, heap, pc, arg, calls>>

-----------------------------------------------------------------------------

\* The rest of a call that has begun.
Step(t) == \/ TestEnabled(t) \/ RecordLock(t) \/ Emplace(t) \/ EmplaceFails(t)
           \/ Erase(t) \/ FreeRaw(t) \/ ResetLocked(t)
           \/ ScopeEnable(t) \/ ScopeSnapshot(t)

Call(t) == \/ New(t) \/ ScopeBegin(t) \/ ScopeEnd(t) \/ reset(t)
           \/ \E a \in Addrs : Delete(t, a)
           \/ \E on \in BOOLEAN : setEnabled(t, on)

Next == \E t \in Threads : Step(t) \/ Call(t)

Spec == Init /\ [][Next]_vars

-----------------------------------------------------------------------------
(* Properties.                                                             *)

Blocks == [state : {"free", "new", "held", "delete"}, size : Nat, array : BOOLEAN, lost : BOOLEAN]
Scopes == [thread : Threads, previous_enabled : BOOLEAN, on : BOOLEAN,
           overlapped : BOOLEAN, ready : BOOLEAN, baseline : Nat, before : SUBSET Addrs, after : SUBSET Addrs]
Stats == [live_allocations : Nat, live_bytes : Nat, peak_live_bytes : Nat,
          total_allocations : Nat, total_bytes : Nat, total_frees : Nat, mismatched_deletes : Nat]

TypeOK ==
  /\ mutex \in Threads \cup {NoThread} /\ g_detector_depth \in [Threads -> 0 .. 1]
  /\ live_allocations \in [Addrs -> Records \cup {NoRecord}]
  /\ stats \in Stats /\ next_sequence \in Nat \ {0} /\ enabled \in BOOLEAN
  /\ heap \in [Addrs -> Blocks] /\ scopes \in Seq(Scopes)
  /\ pc \in [Threads -> {"idle", "enabled?", "record", "node", "erase", "erase[]", "free",
                          "reset", "enable", "snapshot"}]
  /\ arg \in [Threads -> Addrs \cup {nullptr}]
  /\ calls \in [new : Nat, reset : Nat, scope : Nat]

\* leaksSince(baseline)
leaksSince(baseline) == {a \in Recorded : live_allocations[a].sequence >= baseline}

\* A record names a block that is allocated, as it was asked for, although
\* malloc() gives an address to another thread as soon as it is free: the
\* record comes after allocateRaw() and goes before freeRaw().
RecordsLive ==
  \A a \in Recorded :
    /\ heap[a].state # "free"
    /\ live_allocations[a].size = heap[a].size
    /\ live_allocations[a].array = heap[a].array

\* The tallies are those of the table whenever stats() can read them, after
\* records that failed, frees of unrecorded blocks and reset() too, and the
\* branches that replace a record or repair live_bytes are not needed.
StatsAgree ==
  mutex = NoThread =>
    LET bytes == MapThenSumSet(LAMBDA a : live_allocations[a].size, Recorded)
    IN /\ stats.live_allocations = Cardinality(Recorded)
       /\ stats.live_bytes = bytes
       /\ stats.total_allocations = stats.total_frees + Cardinality(Recorded)
       /\ bytes <= stats.peak_live_bytes /\ stats.peak_live_bytes <= stats.total_bytes
       /\ stats.mismatched_deletes <= stats.total_frees

\* A scope that checks reports every block that any thread allocated in it
\* and still holds, unless its record could not be made, and none that was
\* held when the scope began.  The first half is promised to a scope whose
\* constructor was not overlapped: one that another thread's constructor
\* overlaps may have `enabled` taken away by that one's destructor.
ScopeSeesLeaks ==
  \A i \in DOMAIN scopes :
    LET scope == scopes[i]
        leaks == leaksSince(scope.baseline)
    IN scope.ready =>
         /\ scope.before \cap leaks = {}
         /\ scope.on /\ ~scope.overlapped =>
              {a \in scope.after \cap Held : ~heap[a].lost} \subseteq leaks
=============================================================================
