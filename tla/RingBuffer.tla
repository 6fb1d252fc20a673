----------------------------- MODULE RingBuffer -----------------------------
(***************************************************************************)
(* RingBuffer<T> of ring_buffer/include/ring_buffer.hpp: a circular array  *)
(* under one mutex, with blocking, timed and non-blocking push and pop,    *)
(* two policies for a full buffer, close() and clear().                    *)
(*                                                                         *)
(* A section under `mutex_` is one step.  The notification of a condition  *)
(* variable comes after the unlock and is a step of its own.  The          *)
(* statistics are left out.                                                *)
(***************************************************************************)
EXTENDS Integers, Sequences, FiniteSets

CONSTANTS Capacity, Threads, Values,
          Raw      \* storage, or a local, without an object

\* The constructor rejects a capacity of 0.
ASSUME CapacityAssumption == Capacity \in Nat \ {0}
ASSUME RawAssumption == Raw \notin Values
ASSUME ThreadsAssumption == IsFiniteSet(Threads)

VARIABLES buffer, head, tail, size, closed,
          full_policy,   \* chosen by the constructor, never changed
          op,      \* the method each thread is in, or "none"
          pc,      \* where in it
          value    \* the argument of its push, or the result of its pop

ring == <<buffer, head, tail, size>>
vars == <<ring, closed, full_policy, op, pc, value>>

Cells == 0 .. Capacity - 1

nextIndex(i) == IF i + 1 = Capacity THEN 0 ELSE i + 1

\* The cell of the k-th element from the oldest.
Index(k) == IF head + k < Capacity THEN head + k ELSE head + k - Capacity

Pushes == {"tryPush", "waitPush", "waitPushFor"}
Pops == {"tryPop", "waitPop", "waitPopFor"}
Timed == {"waitPushFor", "waitPopFor"}

Init == /\ buffer = [i \in Cells |-> Raw]
        /\ head = 0 /\ tail = 0 /\ size = 0 /\ closed = FALSE
        /\ full_policy \in {"Reject", "OverwriteOldest"}
        /\ op = [t \in Threads |-> "none"]
        /\ pc = [t \in Threads |-> "idle"]
        /\ value = [t \in Threads |-> Raw]

-----------------------------------------------------------------------------
Call(t, m, label, v) == /\ op' = [op EXCEPT ![t] = m]
                        /\ pc' = [pc EXCEPT ![t] = label]
                        /\ value' = [value EXCEPT ![t] = v]

\* The call returns, with whatever it had in hand.
Return(t) == Call(t, "none", "idle", Raw)

hasWritableSlotLocked == size < Capacity \/ full_policy = "OverwriteOldest"

\* Seeded fault: overwriting does not advance head_.
Store_KeepsHead(t, m, v) ==
  /\ buffer' = [buffer EXCEPT ![tail] = v]
  /\ tail' = nextIndex(tail)
  /\ size' = IF size = Capacity THEN size ELSE size + 1
  /\ Call(t, m, "notify", Raw)
  /\ UNCHANGED <<head, closed, full_policy>>

\* pushLocked(v) by t in method m: into a free slot, or over the oldest
\* element; the thread notifies after the unlock.
Store(t, m, v) ==
  LET full == size = Capacity
      emptied == IF full THEN [buffer EXCEPT ![head] = Raw] ELSE buffer
  IN /\ buffer' = [emptied EXCEPT ![tail] = v]
     /\ head' = IF full THEN nextIndex(head) ELSE head
     /\ tail' = nextIndex(tail)
     /\ size' = IF full THEN size ELSE size + 1
     /\ Call(t, m, "notify", Raw)
     /\ UNCHANGED <<closed, full_policy>>

\* A push that has the lock at place `at`: it stores, fails, or sleeps.
PushSection(t, m, v, at) ==
  \/ ~closed /\ hasWritableSlotLocked /\ Store(t, m, v)
  \/ /\ closed \/ (~hasWritableSlotLocked /\ (m = "tryPush" \/ at = "expired"))
     /\ Return(t)
     /\ UNCHANGED <<ring, closed, full_policy>>
  \/ /\ ~closed /\ ~hasWritableSlotLocked /\ m # "tryPush" /\ at # "expired"
     /\ Call(t, m, "asleep", v)
     /\ UNCHANGED <<ring, closed, full_policy>>

\* popLocked()
Take(t, m) ==
  /\ buffer' = [buffer EXCEPT ![head] = Raw]
  /\ head' = nextIndex(head)
  /\ size' = size - 1
  /\ Call(t, m, "notify", buffer[head])
  /\ UNCHANGED <<tail, closed, full_policy>>

PopSection(t, m, at) ==
  \/ size > 0 /\ Take(t, m)
  \/ /\ size = 0 /\ (closed \/ m = "tryPop" \/ at = "expired")
     /\ Return(t)
     /\ UNCHANGED <<ring, closed, full_policy>>
  \/ /\ size = 0 /\ ~closed /\ m # "tryPop" /\ at # "expired"
     /\ Call(t, m, "asleep", Raw)
     /\ UNCHANGED <<ring, closed, full_policy>>

\* tryPush(), waitPush() and waitPushFor(), up to the first unlock or wait.
push(t, m, v) == pc[t] = "idle" /\ PushSection(t, m, v, "idle")

\* tryPop(), waitPop() and waitPopFor(), likewise.
pop(t, m) == pc[t] = "idle" /\ PopSection(t, m, "idle")

\* A wait returns without a notification: spuriously, or at its timeout.
WaitReturns(t) ==
  /\ pc[t] = "asleep"
  /\ \/ Call(t, op[t], "awake", value[t])
     \/ op[t] \in Timed /\ Call(t, op[t], "expired", value[t])
  /\ UNCHANGED <<ring, closed, full_policy>>

\* The woken thread has the lock again and evaluates the predicate.
Recheck(t) ==
  /\ pc[t] \in {"awake", "expired"}
  /\ \/ op[t] \in Pushes /\ PushSection(t, op[t], value[t], pc[t])
     \/ op[t] \in Pops /\ PopSection(t, op[t], pc[t])

-----------------------------------------------------------------------------
close(t) ==
  /\ pc[t] = "idle"
  /\ closed' = TRUE
  /\ Call(t, "close", "notify", Raw)
  /\ UNCHANGED <<ring, full_policy>>

\* Seeded fault: tail_ is not reset.
clear_KeepsTail(t) ==
  /\ pc[t] = "idle"
  /\ buffer' = [i \in Cells |-> Raw]
  /\ head' = 0 /\ size' = 0
  /\ Call(t, "clear", "notify", Raw)
  /\ UNCHANGED <<tail, closed, full_policy>>

\* clear(), which is also the destructor.
clear(t) ==
  /\ pc[t] = "idle"
  /\ buffer' = [i \in Cells |-> IF \E k \in 0 .. size - 1 : i = Index(k)
                                  THEN Raw ELSE buffer[i]]
  /\ head' = 0 /\ tail' = 0 /\ size' = 0
  /\ Call(t, "clear", "notify", Raw)
  /\ UNCHANGED <<closed, full_policy>>

-----------------------------------------------------------------------------
(* The condition variables, after the unlock.                              *)

Sleepers(methods) == {u \in Threads : pc[u] = "asleep" /\ op[u] \in methods}

\* notify_one() on the condition variable of `methods`; then t returns.
NotifyOne(t, methods) ==
  LET returned == [pc EXCEPT ![t] = "idle"]
  IN IF Sleepers(methods) = {}
       THEN pc' = returned
       ELSE \E u \in Sleepers(methods) : pc' = [returned EXCEPT ![u] = "awake"]

NotifyAll(t, methods, label) ==
  pc' = [u \in Threads |-> IF u = t THEN label
                           ELSE IF u \in Sleepers(methods) THEN "awake" ELSE pc[u]]

Returned(t) == /\ op' = [op EXCEPT ![t] = "none"]
               /\ value' = [value EXCEPT ![t] = Raw]

NotifyAfterPush(t) ==
  /\ pc[t] = "notify" /\ op[t] \in Pushes
  /\ NotifyOne(t, Pops)
  /\ Returned(t)
  /\ UNCHANGED <<ring, closed, full_policy>>

\* Seeded fault: a pop notifies the consumers' condition variable.
NotifyAfterPop_WrongCv(t) ==
  /\ pc[t] = "notify" /\ op[t] \in Pops
  /\ NotifyOne(t, Pops)
  /\ Returned(t)
  /\ UNCHANGED <<ring, closed, full_policy>>

NotifyAfterPop(t) ==
  /\ pc[t] = "notify" /\ op[t] \in Pops
  /\ NotifyOne(t, Pushes)
  /\ Returned(t)
  /\ UNCHANGED <<ring, closed, full_policy>>

\* Seeded fault: clear() frees several slots and wakes one producer.
NotifyAfterClear_One(t) ==
  /\ pc[t] = "notify" /\ op[t] = "clear"
  /\ NotifyOne(t, Pushes)
  /\ Returned(t)
  /\ UNCHANGED <<ring, closed, full_policy>>

NotifyAfterClear(t) ==
  /\ pc[t] = "notify" /\ op[t] = "clear"
  /\ NotifyAll(t, Pushes, "idle")
  /\ Returned(t)
  /\ UNCHANGED <<ring, closed, full_policy>>

\* Seeded fault: close() wakes the consumers only.
NotifyAfterClose_Consumers(t) ==
  /\ pc[t] = "notify" /\ op[t] = "close"
  /\ NotifyAll(t, Pops, "idle")
  /\ Returned(t)
  /\ UNCHANGED <<ring, closed, full_policy>>

\* not_empty_.notify_all(), then not_full_.notify_all()
NotifyAfterClose(t) ==
  \/ /\ pc[t] = "notify" /\ op[t] = "close"
     /\ NotifyAll(t, Pops, "notify_full")
     /\ UNCHANGED <<ring, closed, full_policy, op, value>>
  \/ /\ pc[t] = "notify_full"
     /\ NotifyAll(t, Pushes, "idle")
     /\ Returned(t)
     /\ UNCHANGED <<ring, closed, full_policy>>

\* What a thread in a call does, unless it sleeps.
Step(t) == \/ Recheck(t) \/ NotifyAfterPush(t) \/ NotifyAfterPop(t)
           \/ NotifyAfterClear(t) \/ NotifyAfterClose(t)

Next == \E t \in Threads :
          \/ \E m \in Pushes, v \in Values : push(t, m, v)
          \/ \E m \in Pops : pop(t, m)
          \/ close(t) \/ clear(t)
          \/ WaitReturns(t) \/ Step(t)

Spec == Init /\ [][Next]_vars

-----------------------------------------------------------------------------
TypeOK ==
  /\ buffer \in [Cells -> Values \cup {Raw}]
  /\ head \in Cells /\ tail \in Cells /\ size \in 0 .. Capacity
  /\ closed \in BOOLEAN /\ full_policy \in {"Reject", "OverwriteOldest"}
  /\ op \in [Threads -> Pushes \cup Pops \cup {"none", "close", "clear"}]
  /\ pc \in [Threads -> {"idle", "asleep", "awake", "expired", "notify", "notify_full"}]
  /\ value \in [Threads -> Values \cup {Raw}]

\* head, tail and size agree, and exactly the cells between them hold an
\* object: none is leaked by an overwrite or by clear(), none is destroyed
\* or moved from twice, and none is constructed over another.
Occupancy ==
  /\ tail = IF size = Capacity THEN head ELSE Index(size)
  /\ \A i \in Cells : buffer[i] # Raw <=> \E k \in 0 .. size - 1 : i = Index(k)

At(labels, methods) == {t \in Threads : pc[t] \in labels /\ op[t] \in methods}

\* No lost wakeup, although notifications come after the unlock: a consumer
\* sleeps beside an element, or a producer beside a free slot, only while a
\* thread that is awake for it, or the notification, is on its way.
NoLostWakeup ==
  /\ Sleepers(Pops) # {} =>
       \/ At({"notify"}, {"close"}) # {}
       \/ /\ ~closed
          /\ size <= Cardinality(At({"awake", "expired"}, Pops) \cup At({"notify"}, Pushes))
  /\ Sleepers(Pushes) # {} =>
       \/ At({"notify", "notify_full"}, {"close"}) # {}
       \/ /\ ~closed
          /\ \/ At({"notify"}, {"clear"}) # {}
             \/ Capacity - size <=
                  Cardinality(At({"awake", "expired"}, Pushes) \cup At({"notify"}, Pops))

-----------------------------------------------------------------------------
(* The buffer implements the bounded FIFO, with its full policy.           *)

BQ == INSTANCE BoundedQueue WITH
        queue <- [k \in 1 .. size |-> buffer[Index(k - 1)]],
        taken <- [t \in Threads |-> IF op[t] \in Pops THEN value[t] ELSE Raw],
        overwrites <- full_policy = "OverwriteOldest", Clears <- TRUE

\* Elements leave in the order they came, each to one consumer; only a push
\* to a full buffer under OverwriteOldest, and clear(), drop any.
ImplementsBoundedQueue == BQ!Spec
=============================================================================
