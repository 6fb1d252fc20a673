--------------------------- MODULE ConnectionPool ---------------------------
(***************************************************************************)
(* ConnectionPool of connection_pool/src/connection_pool.cpp: clients that *)
(* borrow and return connections, the cleaner thread, and the thread that  *)
(* calls shutdown().                                                       *)
(*                                                                         *)
(* A section under `mutex` is one step; what the code does between two     *)
(* sections (the factory, ping(), close()) is a step without the lock.     *)
(* Time is abstracted: a connection may be found expired, or a deadline    *)
(* passed, at any step that looks.  The tallies `acquired` and `timeouts`  *)
(* are left out, and `waiting` is the number of threads in wait_until().   *)
(***************************************************************************)
EXTENDS Integers, Sequences, FiniteSets, SequencesExt

CONSTANTS Clients,        \* threads that call acquire(), warmUp() and release()
          Cleaner,        \* the thread that runs cleanerLoop()
          Closer,         \* the thread that calls shutdown()
          Connections,    \* the connections the factory can hand out
          min_idle, max_size,
          MaxCreated      \* bound: the factory fails after that many

\* What the constructor demands of its configuration.
ASSUME ConfigAssumption == /\ max_size \in Nat \ {0}
                           /\ min_idle \in 0 .. max_size
ASSUME ThreadsAssumption == /\ Cleaner \notin Clients /\ Closer \notin Clients
                            /\ Cleaner # Closer
                            /\ IsFiniteSet(Clients)
ASSUME MaxCreatedAssumption == MaxCreated \in Nat

VARIABLES
  idle, total, active, created, destroyed, shutting_down,
  pc,       \* where each thread is
  held,     \* held[p]: the connections in a local variable of p
  open,     \* the connections the factory made and nobody closed
  made      \* how many the factory made

counters == <<total, active, created, destroyed>>
env == <<open, made>>
vars == <<idle, counters, shutting_down, pc, held, env>>

Threads == Clients \cup {Cleaner, Closer}

Init ==
  /\ idle = <<>>
  /\ total = 0 /\ active = 0 /\ created = 0 /\ destroyed = 0
  /\ shutting_down = FALSE
  /\ pc = [p \in Threads |-> IF p = Cleaner THEN "clean_wait"
                             ELSE IF p = Closer THEN "running" ELSE "out"]
  /\ held = [p \in Threads |-> {}]
  /\ open = {} /\ made = 0

-----------------------------------------------------------------------------
(* The condition variables.  pc maps threads to where they go next.        *)

Asleep(f) == {q \in Threads : f[q] = "asleep"}

\* available.notify_one(): the possible values of pc afterwards.
NotifyOne(f) ==
  IF Asleep(f) = {} THEN {f} ELSE {[f EXCEPT ![q] = "awake"] : q \in Asleep(f)}

\* available.notify_all()
NotifyAll(f) == [q \in Threads |-> IF f[q] = "asleep" THEN "awake" ELSE f[q]]

\* if (active == 0) shutdown_done.notify_all();
NotifyDone(f, n) ==
  IF n = 0 /\ f[Closer] = "shut_asleep" THEN [f EXCEPT ![Closer] = "shut_wait"] ELSE f

Goto(p, label) == [pc EXCEPT ![p] = label]

\* The predicate of available.wait_until().
Ready == shutting_down \/ idle # <<>> \/ total < max_size

-----------------------------------------------------------------------------
(* The factory and close().                                                *)

\* createEntry(): a connection nobody has, or nothing.
createEntry(p, made_it, failed) ==
  \/ \E c \in Connections \ open :
       /\ made < MaxCreated
       /\ made' = made + 1
       /\ open' = open \cup {c}
       /\ held' = [held EXCEPT ![p] = {c}]
       /\ pc' = Goto(p, made_it)
  \/ pc' = Goto(p, failed) /\ UNCHANGED <<held, env>>

\* closeEntry() of one connection of p, which then is at `label`.
closeEntry(p, label) ==
  \E c \in held[p] :
    /\ open' = open \ {c}
    /\ held' = [held EXCEPT ![p] = @ \ {c}]
    /\ pc' = Goto(p, IF held[p] = {c} THEN label ELSE pc[p])
    /\ UNCHANGED <<idle, counters, shutting_down, made>>

-----------------------------------------------------------------------------
(* tryAcquireFor(); acquire() calls it with the configured timeout.        *)

tryAcquireFor(p) ==
  /\ pc[p] = "out"
  /\ pc' = Goto(p, "lock")
  /\ UNCHANGED <<idle, counters, shutting_down, held, env>>

\* Seeded fault: the idle connection is taken but left in the queue.
AcquireLocked_Peeks(p) ==
  /\ pc[p] = "lock" /\ ~shutting_down /\ idle # <<>>
  /\ held' = [held EXCEPT ![p] = {Head(idle)}]
  /\ active' = active + 1
  /\ pc' = Goto(p, "check")
  /\ UNCHANGED <<idle, total, created, destroyed, shutting_down, env>>

\* The first section of the loop.
AcquireLocked(p) ==
  /\ pc[p] = "lock"
  /\ \/ /\ shutting_down
        /\ pc' = Goto(p, "out")
        /\ UNCHANGED <<idle, total, active, held>>
     \/ /\ ~shutting_down /\ idle # <<>>
        /\ held' = [held EXCEPT ![p] = {Head(idle)}]
        /\ idle' = Tail(idle)
        /\ active' = active + 1
        /\ pc' = Goto(p, "check")
        /\ UNCHANGED total
     \/ /\ ~shutting_down /\ idle = <<>> /\ total < max_size
        /\ total' = total + 1 /\ active' = active + 1
        /\ pc' = Goto(p, "create")
        /\ UNCHANGED <<idle, held>>
     \/ /\ ~Ready
        /\ pc' = Goto(p, "asleep")
        /\ UNCHANGED <<idle, total, active, held>>
  /\ UNCHANGED <<created, destroyed, shutting_down, env>>

\* wait_until() returns to check its predicate: spuriously, or at the deadline.
WaitReturns(p) ==
  /\ pc[p] = "asleep"
  /\ \E label \in {"awake", "expired"} : pc' = Goto(p, label)
  /\ UNCHANGED <<idle, counters, shutting_down, held, env>>

\* The predicate is checked under the lock: the loop starts again, the
\* thread sleeps again, or, at the deadline, the call returns nothing.
WaitChecks(p) ==
  /\ pc[p] \in {"awake", "expired"}
  /\ pc' = Goto(p, IF Ready THEN "lock" ELSE IF pc[p] = "awake" THEN "asleep" ELSE "out")
  /\ UNCHANGED <<idle, counters, shutting_down, held, env>>

AcquireCreate(p) ==
  /\ pc[p] = "create"
  /\ createEntry(p, "created", "create_failed")
  /\ UNCHANGED <<idle, counters, shutting_down>>

\* Seeded fault: a failed creation gives back the slot but not the loan.
AcquireCreateFailed_StaysActive(p) ==
  /\ pc[p] = "create_failed"
  /\ total' = total - 1
  /\ pc' \in NotifyOne(Goto(p, "out"))
  /\ UNCHANGED <<idle, active, created, destroyed, shutting_down, held, env>>

\* Seeded fault: shutdown() is not told that the last loan is gone.
AcquireCreateFailed_Silent(p) ==
  /\ pc[p] = "create_failed"
  /\ active' = active - 1 /\ total' = total - 1
  /\ pc' \in NotifyOne(Goto(p, "out"))
  /\ UNCHANGED <<idle, created, destroyed, shutting_down, held, env>>

AcquireCreateFailed(p) ==
  /\ pc[p] = "create_failed"
  /\ active' = active - 1 /\ total' = total - 1
  /\ pc' \in NotifyOne(NotifyDone(Goto(p, "out"), active - 1))
  /\ UNCHANGED <<idle, created, destroyed, shutting_down, held, env>>

AcquireCreated(p) ==
  /\ pc[p] = "created"
  /\ created' = created + 1
  /\ pc' = Goto(p, "publish")
  /\ UNCHANGED <<idle, total, active, destroyed, shutting_down, held, env>>

\* shouldRetire() || !isHealthy()
AcquireCheck(p) ==
  /\ pc[p] = "check"
  /\ \E label \in {"publish", "close_retry"} : pc' = Goto(p, label)
  /\ UNCHANGED <<idle, counters, shutting_down, held, env>>

AcquirePublish(p) ==
  /\ pc[p] = "publish"
  /\ pc' = Goto(p, IF shutting_down THEN "close_quit" ELSE "hold")
  /\ UNCHANGED <<idle, counters, shutting_down, held, env>>

\* retireActive(): close() without the lock, then the section; the caller
\* goes round its loop again, or returns nothing.
RetireClose(p) ==
  \/ pc[p] = "close_retry" /\ closeEntry(p, "retire_retry")
  \/ pc[p] = "close_quit" /\ closeEntry(p, "retire_quit")

RetireActive(p) ==
  /\ pc[p] \in {"retire_retry", "retire_quit"}
  /\ active' = active - 1 /\ total' = total - 1 /\ destroyed' = destroyed + 1
  /\ pc' \in NotifyOne(NotifyDone(Goto(p, IF pc[p] = "retire_retry" THEN "lock" ELSE "out"),
                                  active - 1))
  /\ UNCHANGED <<idle, created, shutting_down, held, env>>

\* Seeded fault: a waiting client is told of a closed connection's slot, but
\* not of a returned connection.
release_Silent(p) ==
  /\ pc[p] = "hold"
  /\ active' = active - 1
  /\ \/ /\ total' = total - 1 /\ destroyed' = destroyed + 1
        /\ pc' \in NotifyOne(NotifyDone(Goto(p, "close_release"), active - 1))
        /\ UNCHANGED <<idle, held>>
     \/ /\ ~shutting_down
        /\ \E c \in held[p] : idle' = Append(idle, c)
        /\ held' = [held EXCEPT ![p] = {}]
        /\ pc' = NotifyDone(Goto(p, "out"), active - 1)
        /\ UNCHANGED <<total, destroyed>>
  /\ UNCHANGED <<created, shutting_down, env>>

\* The last copy of the shared_ptr goes: release().
release(p) ==
  /\ pc[p] = "hold"
  /\ active' = active - 1
  /\ \/ /\ total' = total - 1 /\ destroyed' = destroyed + 1
        /\ pc' \in NotifyOne(NotifyDone(Goto(p, "close_release"), active - 1))
        /\ UNCHANGED <<idle, held>>
     \/ /\ ~shutting_down
        /\ \E c \in held[p] : idle' = Append(idle, c)
        /\ held' = [held EXCEPT ![p] = {}]
        /\ pc' \in NotifyOne(NotifyDone(Goto(p, "out"), active - 1))
        /\ UNCHANGED <<total, destroyed>>
  /\ UNCHANGED <<created, shutting_down, env>>

ReleaseClose(p) == pc[p] = "close_release" /\ closeEntry(p, "out")

-----------------------------------------------------------------------------
(* warmUp(), called by clients and by the cleaner.                         *)

warmUp(p) ==
  /\ pc[p] = "out"
  /\ pc' = Goto(p, "warm")
  /\ UNCHANGED <<idle, counters, shutting_down, held, env>>

AfterWarmUp(p) == IF p = Cleaner THEN "clean_wait" ELSE "out"

WarmUpReserve(p) ==
  /\ pc[p] = "warm"
  /\ \/ /\ shutting_down \/ Len(idle) >= min_idle \/ total >= max_size
        /\ pc' = Goto(p, AfterWarmUp(p))
        /\ UNCHANGED total
     \/ /\ ~shutting_down /\ Len(idle) < min_idle /\ total < max_size
        /\ total' = total + 1
        /\ pc' = Goto(p, "warm_create")
  /\ UNCHANGED <<idle, active, created, destroyed, shutting_down, held, env>>

WarmUpCreate(p) ==
  /\ pc[p] = "warm_create"
  /\ createEntry(p, "warm_add", "warm_failed")
  /\ UNCHANGED <<idle, counters, shutting_down>>

WarmUpFailed(p) ==
  /\ pc[p] = "warm_failed"
  /\ total' = total - 1
  /\ pc' \in NotifyOne(Goto(p, AfterWarmUp(p)))
  /\ UNCHANGED <<idle, active, created, destroyed, shutting_down, held, env>>

\* Seeded fault: shutting_down is not checked again after the factory.
WarmUpAdd_Unchecked(p) ==
  /\ pc[p] = "warm_add"
  /\ created' = created + 1
  /\ \E c \in held[p] : idle' = Append(idle, c)
  /\ held' = [held EXCEPT ![p] = {}]
  /\ pc' \in NotifyOne(Goto(p, "warm"))
  /\ UNCHANGED <<total, active, destroyed, shutting_down, env>>

WarmUpAdd(p) ==
  /\ pc[p] = "warm_add"
  /\ \/ /\ shutting_down
        /\ total' = total - 1
        /\ pc' = Goto(p, "warm_close")
        /\ UNCHANGED <<idle, created, held>>
     \/ /\ ~shutting_down
        /\ created' = created + 1
        /\ \E c \in held[p] : idle' = Append(idle, c)
        /\ held' = [held EXCEPT ![p] = {}]
        /\ pc' \in NotifyOne(Goto(p, "warm"))
        /\ UNCHANGED total
  /\ UNCHANGED <<active, destroyed, shutting_down, env>>

WarmUpClose(p) == pc[p] = "warm_close" /\ closeEntry(p, "warm")

-----------------------------------------------------------------------------
(* cleanerLoop()                                                           *)

\* cleaner_wakeup.wait_for() ends at shutdown or after cleaner_interval.
CleanerWait ==
  /\ pc[Cleaner] = "clean_wait"
  /\ pc' = Goto(Cleaner, IF shutting_down THEN "clean_done" ELSE "clean")
  /\ UNCHANGED <<idle, counters, shutting_down, held, env>>

\* idle without the connections of S, in the order they are in.
Remaining(S) ==
  {rest \in [1 .. Len(idle) - Cardinality(S) -> ToSet(idle) \ S] :
     \A i, j \in DOMAIN rest : i < j =>
       \E k, l \in DOMAIN idle : k < l /\ idle[k] = rest[i] /\ idle[l] = rest[j]}

\* cleanupIdle(): whichever connections have expired, they are removed from
\* the front while total > min_idle.  Any set S no larger than that can be
\* the one removed.
cleanupIdle ==
  /\ pc[Cleaner] = "clean"
  /\ \E S \in SUBSET ToSet(idle) :
       /\ S # {} => Cardinality(S) <= total - min_idle
       /\ idle' \in Remaining(S)
       /\ total' = total - Cardinality(S)
       /\ destroyed' = destroyed + Cardinality(S)
       /\ held' = [held EXCEPT ![Cleaner] = S]
       /\ pc' = IF S = {} THEN Goto(Cleaner, "warm") ELSE NotifyAll(Goto(Cleaner, "clean_close"))
  /\ UNCHANGED <<active, created, shutting_down, env>>

CleanerClose == pc[Cleaner] = "clean_close" /\ closeEntry(Cleaner, "warm")

-----------------------------------------------------------------------------
(* shutdown(), called once or several times, also by the destructor.       *)

\* Seeded fault: only the cleaner is notified.
shutdown_Silent ==
  /\ pc[Closer] \in {"running", "shut_down"}
  /\ shutting_down' = TRUE
  /\ pc' = Goto(Closer, "shut_join")
  /\ UNCHANGED <<idle, counters, held, env>>

shutdown ==
  /\ pc[Closer] \in {"running", "shut_down"}
  /\ shutting_down' = TRUE
  /\ pc' = NotifyAll(Goto(Closer, "shut_join"))
  /\ UNCHANGED <<idle, counters, held, env>>

ShutdownJoin ==
  /\ pc[Closer] = "shut_join"
  /\ pc[Cleaner] = "clean_done"
  /\ pc' = Goto(Closer, "shut_wait")
  /\ UNCHANGED <<idle, counters, shutting_down, held, env>>

\* shutdown_done.wait(): sleep while a connection is borrowed.
ShutdownSleep ==
  /\ pc[Closer] = "shut_wait"
  /\ active # 0
  /\ pc' = Goto(Closer, "shut_asleep")
  /\ UNCHANGED <<idle, counters, shutting_down, held, env>>

ShutdownSpurious ==
  /\ pc[Closer] = "shut_asleep"
  /\ pc' = Goto(Closer, "shut_wait")
  /\ UNCHANGED <<idle, counters, shutting_down, held, env>>

ShutdownSwap ==
  /\ pc[Closer] = "shut_wait"
  /\ active = 0
  /\ held' = [held EXCEPT ![Closer] = ToSet(idle)]
  /\ idle' = <<>>
  /\ destroyed' = destroyed + Len(idle) /\ total' = total - Len(idle)
  /\ pc' = Goto(Closer, IF idle = <<>> THEN "shut_down" ELSE "shut_close")
  /\ UNCHANGED <<active, created, shutting_down, env>>

ShutdownClose == pc[Closer] = "shut_close" /\ closeEntry(Closer, "shut_down")

-----------------------------------------------------------------------------
\* The rest of a tryAcquireFor() that has begun, but for what may never
\* happen: a spurious return of wait_until(), or its deadline.
AcquireStep(p) == \/ AcquireLocked(p) \/ WaitChecks(p)
                  \/ AcquireCreate(p) \/ AcquireCreateFailed(p) \/ AcquireCreated(p)
                  \/ AcquireCheck(p) \/ AcquirePublish(p)
                  \/ RetireClose(p) \/ RetireActive(p)

ReleaseStep(p) == release(p) \/ ReleaseClose(p)

WarmUpStep(p) == \/ WarmUpReserve(p) \/ WarmUpCreate(p) \/ WarmUpFailed(p)
                 \/ WarmUpAdd(p) \/ WarmUpClose(p)

CleanerStep == CleanerWait \/ cleanupIdle \/ CleanerClose \/ WarmUpStep(Cleaner)

ShutdownStep == ShutdownJoin \/ ShutdownSleep \/ ShutdownSwap \/ ShutdownClose

Next == \/ \E p \in Clients :
             \/ tryAcquireFor(p) \/ AcquireStep(p) \/ WaitReturns(p) \/ ReleaseStep(p)
             \/ warmUp(p) \/ WarmUpStep(p)
        \/ CleanerStep
        \/ shutdown \/ ShutdownStep \/ ShutdownSpurious

Spec == Init /\ [][Next]_vars

-----------------------------------------------------------------------------
(* Who is counted where.                                                   *)

At(labels) == {p \in Threads : pc[p] \in labels}

Waiters == At({"asleep", "awake", "expired"})          \* `waiting`
Creators == At({"create", "create_failed", "created"}) \* counted in active, not in created
Borrowers == At({"check", "publish", "hold", "close_retry", "retire_retry",
                 "close_quit", "retire_quit"})
Warmers == At({"warm_create", "warm_failed", "warm_add"})

ClientLabels == {"out", "lock", "asleep", "awake", "expired", "create", "create_failed",
                 "created", "check", "publish", "close_retry", "retire_retry", "close_quit",
                 "retire_quit", "hold", "close_release"}
WarmUpLabels == {"warm", "warm_create", "warm_failed", "warm_add", "warm_close"}

TypeOK ==
  /\ idle \in Seq(Connections)
  /\ total \in Nat /\ active \in Nat /\ created \in Nat /\ destroyed \in Nat
  /\ shutting_down \in BOOLEAN
  /\ pc \in [Threads -> ClientLabels \cup WarmUpLabels \cup
                {"clean_wait", "clean", "clean_close", "clean_done", "running", "shut_join",
                 "shut_wait", "shut_asleep", "shut_close", "shut_down"}]
  /\ held \in [Threads -> SUBSET Connections]
  /\ open \subseteq Connections
  /\ made \in Nat

\* max_size caps what the pool counts, and its counters agree with what the
\* threads are doing: no interleaving of the sections loses or repeats an
\* increment or a decrement.
Accounting ==
  /\ total <= max_size
  /\ active = Cardinality(Creators) + Cardinality(Borrowers)
  /\ total = active + Len(idle) + Cardinality(Warmers)
  /\ total = created - destroyed + Cardinality(Creators) + Cardinality(Warmers)

\* A connection is in one place only: in the idle queue once, or with one
\* thread.  And an open one is somewhere: none is leaked, and none that is
\* idle or borrowed has been closed.
SoleOwner ==
  /\ Cardinality(ToSet(idle)) = Len(idle)
  /\ \A p \in Threads : held[p] \cap ToSet(idle) = {}
  /\ \A p, q \in Threads : p # q => held[p] \cap held[q] = {}
  /\ open = ToSet(idle) \cup UNION {held[p] : p \in Threads}

\* No lost wakeup: while a client sleeps in wait_until(), every connection
\* it could have is matched by a client that was woken, or is about to take
\* the lock, for it.
NoLostWakeup ==
  Asleep(pc) # {} =>
    Len(idle) + (max_size - total) <= Cardinality(At({"awake", "expired", "lock"}))

\* Once shutdown() has returned nothing is idle or borrowed, and nothing
\* will be again.
ShutdownFinal ==
  pc[Closer] = "shut_down" => idle = <<>> /\ active = 0 /\ At({"hold"}) = {}
=============================================================================
