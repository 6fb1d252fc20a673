--------------------- MODULE HighPerformanceTimerProofs ---------------------
(***************************************************************************)
(* For every number of clients, workers and timers, and every clock: the   *)
(* heap tracks the timers, the scheduler does not oversleep, a cancelled   *)
(* timer does not fire, and shutdown() leaves no callback behind.          *)
(***************************************************************************)
EXTENDS HighPerformanceTimer, FiniteSetTheorems, SequenceTheorems, WellFoundedInduction, TLAPS

-----------------------------------------------------------------------------
(* The inductive invariant.                                                *)

SchedulerLabels == {"schedule", "asleep", "enqueue", "announce", "exited"}
ClientLabels == {"idle", "notify"} \cup ShutdownLabels
WorkerLabels == {"work", "resting", "callback", "exited", "notify"} \cup ShutdownLabels

\* Who can be where.
PlacesOK ==
  /\ pc[Scheduler] \in SchedulerLabels
  /\ \A t \in Clients : pc[t] \in ClientLabels
  /\ \A w \in Workers : pc[w] \in WorkerLabels
  /\ \A t \in Callers : pc[t] \in ShutdownLabels => t \in Shutters

\* The current item of a timer.
Item(id) == [deadline |-> timers[id].deadline, id |-> id, generation |-> timers[id].generation]

\* A timer that is there has one item in the heap, its current one.  Ids are
\* not used again: what cancelled timers left in the heap never becomes
\* current.
HeapOK ==
  /\ \A id \in Ids : Active(id) => Item(id) \in heap
  /\ \A x \in heap : Active(x.id) => x = Item(x.id)
  /\ \A x \in heap : x.id < next_id /\ x.generation # 0
  /\ \A id \in Ids : id >= next_id => ~Active(id) /\ id \notin cancelled /\ fired[id] = 0

\* A timer that is there was not cancelled, and a one-shot has not fired.
FiringOK ==
  \A id \in Ids : Active(id) => id \notin cancelled /\ (timers[id].interval = 0 => fired[id] = 0)

\* The workers stop after the scheduler, and with an empty queue.
StopOK ==
  /\ callback_stopping => pc[Scheduler] = "exited"
  /\ pc[Scheduler] # "enqueue" => due_callbacks = <<>>
  /\ \A w \in Workers : pc[w] = "exited" => callback_stopping /\ ready_callbacks = <<>>
  /\ callback_stopping => \/ \E t \in Callers : pc[t] \in ShutdownLabels
                          \/ \A w \in Workers \ Shutters : pc[w] = "exited"

\* How often id is in a queue of callbacks.
Count(s, id) == Cardinality({k \in 1 .. Len(s) : s[k] = id})

\* A timer that fired has had its callback run, or it is queued.
CountsOK ==
  \A id \in Ids : fired[id] = ran[id] + (Count(ready_callbacks, id) + Count(due_callbacks, id))

Stopping == TypeOK /\ PlacesOK /\ StopOK
IndInv == Stopping /\ HeapOK /\ FiringOK /\ NoOversleep /\ CountsOK

-----------------------------------------------------------------------------
(* Least elements, counting in sequences, and the order of the heap.       *)

\* A set of numbers has a least element.
LEMMA Least ==
  ASSUME NEW T, T \subseteq Nat, T # {}
  PROVE  \E x \in T : \A y \in T : x <= y
<1> DEFINE R == {p \in Nat \X Nat : p[1] < p[2]}
<1>1. IsWellFoundedOn(R, Nat)
  BY NatLessThanWellFounded, Zenon DEF OpToRel
<1>2. \A x, y \in T : y < x => <<y, x>> \in R
  OBVIOUS
<1> HIDE DEF R
<1>3. PICK x \in T : \A y \in T : <<y, x>> \notin R
  BY <1>1, WFMin
<1>4. \A y \in T : ~(y < x)
  BY <1>2, <1>3
<1> QED BY <1>3, <1>4

\* A count is a number.
LEMMA CountType ==
  ASSUME NEW S, NEW s \in Seq(S), NEW id
  PROVE  /\ IsFiniteSet({k \in 1 .. Len(s) : s[k] = id})
         /\ Count(s, id) \in Nat
<1>1. IsFiniteSet(1 .. Len(s))
  BY FS_Interval, LenProperties
<1>2. IsFiniteSet({k \in 1 .. Len(s) : s[k] = id})
  BY <1>1, FS_Subset
<1> QED BY <1>2, FS_CardinalityType DEF Count

\* Nothing is in an empty queue.
LEMMA CountEmpty ==
  ASSUME NEW id
  PROVE  Count(<< >>, id) = 0
<1>1. {k \in 1 .. Len(<< >>) : << >>[k] = id} = {}
  OBVIOUS
<1> QED BY <1>1, FS_EmptySet DEF Count

\* A block of positions that is moved up keeps its size.
LEMMA ShiftCount ==
  ASSUME NEW A \in SUBSET Nat, IsFiniteSet(A), NEW m \in Nat
  PROVE  /\ IsFiniteSet({k + m : k \in A})
         /\ Cardinality({k + m : k \in A}) = Cardinality(A)
<1> DEFINE B == {k + m : k \in A}
           f == [k \in A |-> k + m]
<1>1. f \in [A -> B] /\ \A j, k \in A : f[j] = f[k] => j = k
  OBVIOUS
<1>2. \A b \in B : \E k \in A : f[k] = b
  OBVIOUS
<1> HIDE DEF f, B
<1>3. f \in Bijection(A, B)
  BY <1>1, <1>2 DEF Bijection, Injection, Surjection, IsInjective
<1>4. ExistsBijection(A, B)
  BY <1>3 DEF ExistsBijection
<1>5. IsFiniteSet(B) /\ Cardinality(B) = Cardinality(A)
  BY <1>4, FS_Bijection
<1> QED BY <1>5 DEF B

\* The count of two queues.
LEMMA CountConcat ==
  ASSUME NEW S, NEW s \in Seq(S), NEW t \in Seq(S), NEW id
  PROVE  Count(s \o t, id) = Count(s, id) + Count(t, id)
<1> DEFINE A == {k \in 1 .. Len(s) : s[k] = id}
           B == {k \in 1 .. Len(t) : t[k] = id}
           C == {k + Len(s) : k \in B}
           D == {k \in 1 .. Len(s \o t) : (s \o t)[k] = id}
<1>1. Len(s) \in Nat /\ Len(t) \in Nat
  OBVIOUS
<1>2. D = A \cup C
  <2>1. /\ Len(s \o t) = Len(s) + Len(t)
        /\ \A k \in 1 .. Len(s) + Len(t) :
             (s \o t)[k] = IF k <= Len(s) THEN s[k] ELSE t[k - Len(s)]
    BY ConcatProperties
  <2>2. ASSUME NEW k \in D PROVE k \in A \cup C
    <3>1. CASE k <= Len(s)
      BY <1>1, <2>1, <3>1
    <3>2. CASE k > Len(s)
      <4>1. k - Len(s) \in 1 .. Len(t) /\ t[k - Len(s)] = id /\ k = (k - Len(s)) + Len(s)
        BY <1>1, <2>1, <3>2
      <4> QED BY <4>1
    <3> QED BY <1>1, <3>1, <3>2
  <2>3. A \subseteq D
    BY <1>1, <2>1
  <2>4. ASSUME NEW k \in C PROVE k \in D
    <3>1. PICK j \in 1 .. Len(t) : t[j] = id /\ k = j + Len(s)
      OBVIOUS
    <3>2. k \in 1 .. Len(s) + Len(t) /\ ~(k <= Len(s)) /\ k - Len(s) = j
      BY <1>1, <3>1
    <3> QED BY <2>1, <3>1, <3>2
  <2> QED BY <2>2, <2>3, <2>4
<1>3. A \cap C = {}
  BY <1>1
<1>4. IsFiniteSet(A) /\ IsFiniteSet(B)
  BY CountType
<1>5. B \in SUBSET Nat
  OBVIOUS
<1>6. Count(s, id) = Cardinality(A) /\ Count(t, id) = Cardinality(B) /\ Count(s \o t, id) = Cardinality(D)
  BY DEF Count
<1>7. IsFiniteSet(C) /\ Cardinality(C) = Cardinality(B)
  BY <1>1, <1>4, <1>5, ShiftCount
<1> HIDE DEF A, B, C, D
<1>8. Cardinality(A) \in Nat /\ Cardinality(B) \in Nat /\ Cardinality({}) = 0
  BY <1>4, FS_CardinalityType, FS_EmptySet
<1>9. Cardinality(A \cup C) = Cardinality(A) + Cardinality(C) - Cardinality(A \cap C)
  BY <1>4, <1>7, FS_Union
<1>10. Cardinality(D) = Cardinality(A) + Cardinality(B)
  <2>1. Cardinality(A \cap C) = 0
    BY <1>3, <1>8, Zenon
  <2>2. Cardinality(D) = Cardinality(A) + Cardinality(B) - Cardinality(A \cap C)
    BY <1>2, <1>7, <1>9, Zenon
  <2> QED BY <1>8, <2>1, <2>2
<1> QED BY <1>6, <1>10

\* The count of one callback.
LEMMA CountOne ==
  ASSUME NEW S, NEW x \in S, NEW id
  PROVE  Count(<<x>>, id) = IF x = id THEN 1 ELSE 0
<1>1. CASE x = id
  <2>1. {k \in 1 .. Len(<<x>>) : <<x>>[k] = id} = {1}
    BY <1>1
  <2> QED BY <1>1, <2>1, FS_Singleton DEF Count
<1>2. CASE x # id
  <2>1. {k \in 1 .. Len(<<x>>) : <<x>>[k] = id} = {}
    BY <1>2
  <2> QED BY <1>2, <2>1, FS_EmptySet DEF Count
<1> QED BY <1>1, <1>2

\* What taking the first callback does to a count.
LEMMA CountTail ==
  ASSUME NEW S, NEW s \in Seq(S), s # << >>, NEW id
  PROVE  Count(s, id) = (IF Head(s) = id THEN 1 ELSE 0) + Count(Tail(s), id)
<1>1. /\ Head(s) \in S /\ Tail(s) \in Seq(S) /\ <<Head(s)>> \in Seq(S)
      /\ s = <<Head(s)>> \o Tail(s)
  OBVIOUS
<1>2. Count(<<Head(s)>> \o Tail(s), id) = Count(<<Head(s)>>, id) + Count(Tail(s), id)
  BY <1>1, CountConcat
<1> QED BY <1>1, <1>2, CountOne

\* A sequence without repetitions.
LEMMA CountOnce ==
  ASSUME NEW S, NEW s \in Seq(S), \A j, k \in 1 .. Len(s) : s[j] = s[k] => j = k, NEW id
  PROVE  Count(s, id) = IF \E k \in 1 .. Len(s) : s[k] = id THEN 1 ELSE 0
<1>1. CASE \E k \in 1 .. Len(s) : s[k] = id
  <2>1. PICK k \in 1 .. Len(s) : s[k] = id
    BY <1>1
  <2>2. {j \in 1 .. Len(s) : s[j] = id} = {k}
    BY <2>1
  <2> QED BY <1>1, <2>2, FS_Singleton DEF Count
<1>2. CASE ~ \E k \in 1 .. Len(s) : s[k] = id
  <2>1. {j \in 1 .. Len(s) : s[j] = id} = {}
    BY <1>2
  <2> QED BY <1>2, <2>1, FS_EmptySet DEF Count
<1> QED BY <1>1, <1>2

HeapItems == [deadline : Nat, id : Ids, generation : Nat]

\* Items that can be told apart leave the heap in one order, each once: the
\* number of items before it is the place of an item.
LEMMA OrderExists ==
  ASSUME NEW S \in SUBSET HeapItems, IsFiniteSet(S),
         \A x, y \in S : x # y => Before(x, y) \/ Before(y, x)
  PROVE  /\ InOrder(S) \in [1 .. Cardinality(S) -> S]
         /\ \A i, j \in 1 .. Cardinality(S) : InOrder(S)[i] = InOrder(S)[j] => i = j
         /\ \A x \in S : \E i \in 1 .. Cardinality(S) : InOrder(S)[i] = x
<1> DEFINE n == Cardinality(S)
           Below(x) == {y \in S : Before(y, x)}
           rank == [x \in S |-> Cardinality(Below(x)) + 1]
<1>1. n \in Nat /\ IsFiniteSet(1 .. n) /\ Cardinality(1 .. n) = n
  BY FS_CardinalityType, FS_Interval
<1>2. /\ \A x \in S : ~Before(x, x)
      /\ \A x, y, z \in S : Before(x, y) /\ Before(y, z) => Before(x, z)
  BY DEF Before, HeapItems, Ids
<1>3. \A x \in S : IsFiniteSet(Below(x)) /\ Cardinality(Below(x)) \in Nat
  <2> SUFFICES ASSUME NEW x \in S PROVE IsFiniteSet(Below(x)) /\ Cardinality(Below(x)) \in Nat
    OBVIOUS
  <2>1. Below(x) \in SUBSET S
    OBVIOUS
  <2> HIDE DEF Below
  <2> QED BY <2>1, FS_Subset, FS_CardinalityType
<1>4. ASSUME NEW x \in S PROVE Cardinality(Below(x)) < n
  <2>1. Below(x) \in SUBSET S /\ x \notin Below(x) /\ x \in S
    BY <1>2
  <2> HIDE DEF Below
  <2>2. Cardinality(Below(x)) <= n /\ Cardinality(Below(x)) # n
    BY <2>1, FS_Subset
  <2> QED BY <1>1, <1>3, <2>2
<1>5. ASSUME NEW x \in S, NEW y \in S, Before(x, y)
      PROVE  Cardinality(Below(x)) < Cardinality(Below(y))
  <2>1. Below(x) \in SUBSET Below(y) /\ x \in Below(y) /\ x \notin Below(x)
    BY <1>2, <1>5
  <2>2. IsFiniteSet(Below(y)) /\ Cardinality(Below(y)) \in Nat /\ Cardinality(Below(x)) \in Nat
    BY <1>3
  <2> HIDE DEF Below
  <2>3. Cardinality(Below(x)) <= Cardinality(Below(y)) /\ Cardinality(Below(x)) # Cardinality(Below(y))
    BY <2>1, <2>2, FS_Subset
  <2> QED BY <2>2, <2>3
<1>6. rank \in [S -> 1 .. n]
  <2>1. ASSUME NEW x \in S PROVE Cardinality(Below(x)) + 1 \in 1 .. n
    <3>1. Cardinality(Below(x)) \in Nat /\ Cardinality(Below(x)) < n
      BY <1>3, <1>4
    <3> HIDE DEF Below, n
    <3> QED BY <1>1, <3>1
  <2> QED BY <2>1
<1>7. ASSUME NEW x \in S, NEW y \in S, Before(x, y)
      PROVE  rank[x] < rank[y]
  <2>1. /\ Cardinality(Below(x)) \in Nat /\ Cardinality(Below(y)) \in Nat
        /\ Cardinality(Below(x)) < Cardinality(Below(y))
    BY <1>3, <1>5, <1>7
  <2>2. rank[x] = Cardinality(Below(x)) + 1 /\ rank[y] = Cardinality(Below(y)) + 1
    OBVIOUS
  <2> HIDE DEF Below, rank
  <2> QED BY <2>1, <2>2
<1> HIDE DEF rank, Below
<1>8. \A x, y \in S : rank[x] = rank[y] => x = y
  BY <1>1, <1>6, <1>7
<1>9. rank \in Injection(S, 1 .. n)
  BY <1>6, <1>8 DEF Injection, IsInjective
<1>10. rank \in Surjection(S, 1 .. n)
  BY <1>1, <1>9, FS_Injection
<1>11. \A i \in 1 .. n : \E x \in S : rank[x] = i
  BY <1>10 DEF Surjection
<1> DEFINE s == [i \in 1 .. n |-> CHOOSE x \in S : rank[x] = i]
<1>12. s \in [1 .. n -> S] /\ \A i \in 1 .. n : rank[s[i]] = i
  BY <1>11
<1> HIDE DEF s
<1>13. \A i, j \in 1 .. n : i < j => Before(s[i], s[j])
  <2> SUFFICES ASSUME NEW i \in 1 .. n, NEW j \in 1 .. n, i < j PROVE Before(s[i], s[j])
    OBVIOUS
  <2>1. s[i] \in S /\ s[j] \in S /\ rank[s[i]] = i /\ rank[s[j]] = j
    BY <1>12
  <2>2. s[i] # s[j] /\ ~(j < i)
    BY <1>1, <2>1
  <2>3. ~Before(s[j], s[i])
    BY <1>7, <2>1, <2>2
  <2> QED BY <2>1, <2>2, <2>3
<1> DEFINE o == InOrder(S)
<1>14. o \in [1 .. n -> S] /\ \A i, j \in 1 .. n : i < j => Before(o[i], o[j])
  <2>1. \E q \in [1 .. n -> S] : \A i, j \in DOMAIN q : i < j => Before(q[i], q[j])
    BY <1>12, <1>13
  <2>2. o = CHOOSE q \in [1 .. n -> S] : \A i, j \in DOMAIN q : i < j => Before(q[i], q[j])
    BY DEF InOrder
  <2> HIDE DEF o, n
  <2>3. o \in [1 .. n -> S] /\ \A i, j \in DOMAIN o : i < j => Before(o[i], o[j])
    BY <2>1, <2>2, Zenon
  <2> QED BY <2>3
<1>15. \A i, j \in 1 .. n : o[i] = o[j] => i = j
  <2> SUFFICES ASSUME NEW i \in 1 .. n, NEW j \in 1 .. n, o[i] = o[j] PROVE i = j
    OBVIOUS
  <2> HIDE DEF o
  <2>1. ~(i < j) /\ ~(j < i)
    BY <1>2, <1>14
  <2> QED BY <1>1, <2>1
<1>16. \A x \in S : \E i \in 1 .. n : o[i] = x
  <2> HIDE DEF o
  <2>1. o \in Injection(1 .. n, S)
    BY <1>14, <1>15 DEF Injection, IsInjective
  <2>2. o \in Surjection(1 .. n, S)
    BY <1>1, <2>1, FS_Injection
  <2> QED BY <2>2 DEF Surjection
<1> QED BY <1>14, <1>15, <1>16

-----------------------------------------------------------------------------
(* Where the threads are.                                                  *)

AllLabels == {"idle", "notify", "schedule", "asleep", "enqueue", "announce",
              "work", "resting", "callback", "exited"} \cup ShutdownLabels

\* The scheduler, the clients and the workers are different threads.
LEMMA NameFacts ==
  /\ Scheduler \in Threads /\ Callers \subseteq Threads /\ Scheduler \notin Callers
  /\ Clients \subseteq Callers /\ Workers \subseteq Callers /\ Clients \cap Workers = {}
  /\ \A t \in Callers : t \in Clients <=> t \notin Workers
  /\ Workers # {} /\ Ids \subseteq Nat
BY TimerAssumption DEF Threads, Callers, Ids

\* Where a call returns to.
LEMMA HomePlace ==
  ASSUME NEW t \in Callers
  PROVE  /\ t \in Clients => Home(t) = "idle"
         /\ t \in Workers => Home(t) = "callback"
         /\ Home(t) \notin ShutdownLabels \cup {"notify", "exited"}
BY NameFacts DEF Home, ShutdownLabels

\* One thread moves.
LEMMA PlacesGoto ==
  ASSUME TypeOK, PlacesOK, NEW t \in Threads, NEW label, pc' = [pc EXCEPT ![t] = label],
         t = Scheduler => label \in SchedulerLabels,
         t \in Clients => label \in ClientLabels,
         t \in Workers => label \in WorkerLabels,
         label \in ShutdownLabels => t \in Shutters
  PROVE  pc' \in [Threads -> AllLabels] /\ PlacesOK'
<1>1. label \in AllLabels
  BY DEF Threads, Callers, AllLabels, SchedulerLabels, ClientLabels, WorkerLabels
<1>2. pc \in [Threads -> AllLabels]
  BY DEF TypeOK, AllLabels
<1>3. \A u \in Threads : pc'[u] = IF u = t THEN label ELSE pc[u]
  BY <1>2
<1>4. PlacesOK'
  BY <1>3, NameFacts DEF PlacesOK
<1> QED BY <1>1, <1>2, <1>4

\* notify_all() of callback_available.
LEMMA PlacesRoused ==
  ASSUME NEW f \in [Threads -> AllLabels]
  PROVE  /\ Roused(f) \in [Threads -> AllLabels]
         /\ \A u \in Threads : Roused(f)[u] = IF f[u] = "resting" THEN "work" ELSE f[u]
BY DEF Roused, AllLabels

\* Every thread stays where it can be.
LEMMA PlacesStep ==
  ASSUME TypeOK, PlacesOK, [Next]_vars
  PROVE  pc' \in [Threads -> AllLabels] /\ PlacesOK'
<1> USE DEF Goto
<1>1. pc \in [Threads -> AllLabels]
  BY DEF TypeOK, AllLabels
<1>2. CASE UNCHANGED pc
  BY <1>1, <1>2 DEF PlacesOK
<1>3. ASSUME NEW t \in Callers, NEW label \in {"notify", Home(t)}, pc' = [pc EXCEPT ![t] = label]
      PROVE  pc' \in [Threads -> AllLabels] /\ PlacesOK'
  <2>1. /\ t \in Clients => label \in ClientLabels
        /\ t \in Workers => label \in WorkerLabels
        /\ label \notin ShutdownLabels
    BY HomePlace DEF ClientLabels, WorkerLabels, ShutdownLabels
  <2> QED BY <1>3, <2>1, NameFacts, PlacesGoto
<1>4. ASSUME NEW t \in Callers, NEW label \in ShutdownLabels, t \in Shutters,
             pc' = [pc EXCEPT ![t] = label]
      PROVE  pc' \in [Threads -> AllLabels] /\ PlacesOK'
  <2>1. label \in ClientLabels /\ label \in WorkerLabels
    BY DEF ClientLabels, WorkerLabels
  <2> QED BY <1>4, <2>1, NameFacts, PlacesGoto
<1>5. ASSUME NEW t \in Callers, Call(t)
      PROVE  pc' \in [Threads -> AllLabels] /\ PlacesOK'
  <2>1. CASE shutdown(t)
    BY <1>4, <2>1 DEF shutdown, ShutdownLabels
  <2>2. CASE pc' = [pc EXCEPT ![t] = "notify"]
    BY <1>3, <2>2
  <2> QED BY <1>5, <2>1, <2>2 DEF Call, scheduleAt, scheduleEvery, addTimer, cancel, cancelAll
<1>6. ASSUME NEW t \in Callers, NEW label, NotifyScheduler(t, label),
             label = Home(t) \/ (label = "shut_join" /\ t \in Shutters)
      PROVE  pc' \in [Threads -> AllLabels] /\ PlacesOK'
  <2>1. label \in AllLabels /\ "schedule" \in AllLabels /\ t \in Threads /\ t # Scheduler
    BY <1>6, HomePlace, NameFacts DEF AllLabels, ShutdownLabels
  <2>2. PICK there \in {pc[Scheduler], "schedule"} :
          pc' = [pc EXCEPT ![t] = label, ![Scheduler] = there]
    <3>1. pc' = [pc EXCEPT ![t] = label, ![Scheduler] = IF @ = "asleep" THEN "schedule" ELSE @]
      BY <1>6 DEF NotifyScheduler
    <3> QED BY <1>1, <2>1, <3>1, NameFacts
  <2>3. there \in SchedulerLabels /\ there \in AllLabels
    BY DEF PlacesOK, SchedulerLabels, AllLabels
  <2>4. /\ pc' \in [Threads -> AllLabels]
        /\ \A u \in Threads : pc'[u] = IF u = t THEN label ELSE IF u = Scheduler THEN there ELSE pc[u]
    BY <1>1, <2>1, <2>2, <2>3, NameFacts
  <2>5. /\ t \in Clients => label \in ClientLabels
        /\ t \in Workers => label \in WorkerLabels
        /\ label \in ShutdownLabels => t \in Shutters
    BY <1>6, HomePlace DEF ClientLabels, WorkerLabels, ShutdownLabels
  <2> QED BY <2>1, <2>3, <2>4, <2>5, NameFacts DEF PlacesOK
<1>7. ASSUME NEW t \in Threads, NEW label, pc' = Roused([pc EXCEPT ![t] = label]),
             \/ t = Scheduler /\ label = "schedule"
             \/ t \in Callers /\ t \in Shutters /\ label = "shut_workers"
      PROVE  pc' \in [Threads -> AllLabels] /\ PlacesOK'
  <2>1. [pc EXCEPT ![t] = label] \in [Threads -> AllLabels]
    BY <1>1, <1>7 DEF AllLabels, ShutdownLabels
  <2>2. /\ pc' \in [Threads -> AllLabels]
        /\ \A u \in Threads : pc'[u] = LET l == IF u = t THEN label ELSE pc[u]
                                       IN IF l = "resting" THEN "work" ELSE l
    BY <1>1, <1>7, <2>1, PlacesRoused
  <2> QED BY <1>7, <2>2, NameFacts
          DEF PlacesOK, SchedulerLabels, ClientLabels, WorkerLabels, ShutdownLabels
<1>8. ASSUME NEW t \in Callers, CallStep(t)
      PROVE  pc' \in [Threads -> AllLabels] /\ PlacesOK'
  <2>1. pc[t] \in ShutdownLabels => t \in Shutters
    BY DEF PlacesOK
  <2>2. CASE Notify(t)
    BY <1>6, <2>2 DEF Notify
  <2>3. CASE ShutdownNotify(t)
    BY <1>6, <2>1, <2>3 DEF ShutdownNotify, ShutdownLabels
  <2>4. CASE ShutdownJoin(t)
    BY <1>4, <2>1, <2>4 DEF ShutdownJoin, ShutdownLabels
  <2>5. CASE ShutdownRouse(t)
    BY <1>7, <2>1, <2>5, NameFacts DEF ShutdownRouse, ShutdownLabels
  <2>6. CASE ShutdownWorkers(t)
    BY <1>3, <2>6 DEF ShutdownWorkers
  <2> QED BY <1>8, <2>2, <2>3, <2>4, <2>5, <2>6 DEF CallStep
<1>9. CASE SchedulerStep \/ SchedulerSpurious
  <2>1. CASE Announce
    BY <1>7, <2>1, NameFacts DEF Announce
  <2>2. ASSUME NEW label \in SchedulerLabels, pc' = [pc EXCEPT ![Scheduler] = label]
        PROVE  pc' \in [Threads -> AllLabels] /\ PlacesOK'
    <3>1. label \notin ShutdownLabels
      BY DEF SchedulerLabels, ShutdownLabels
    <3> QED BY <2>2, <3>1, NameFacts, PlacesGoto
  <2> QED BY <1>9, <2>1, <2>2 DEF SchedulerStep, SchedulerSpurious, SchedulerExits, SchedulerSleeps,
          AlarmRings, SchedulerFires, enqueueCallbacks, SchedulerLabels
<1>10. ASSUME NEW w \in Workers, WorkerStep(w) \/ WorkerSpurious(w)
       PROVE  pc' \in [Threads -> AllLabels] /\ PlacesOK'
  <2>1. PICK label \in {"work", "resting", "callback", "exited"} : pc' = [pc EXCEPT ![w] = label]
    BY <1>10 DEF WorkerStep, WorkerSpurious, WorkerTakes, WorkerWaits, CallbackReturns
  <2>2. label \in WorkerLabels /\ label \notin ShutdownLabels
    BY DEF WorkerLabels, ShutdownLabels
  <2> QED BY <2>1, <2>2, NameFacts, PlacesGoto
<1> QED BY <1>2, <1>5, <1>8, <1>9, <1>10 DEF Next, vars, Tick

-----------------------------------------------------------------------------
(* The timers and the heap.                                                *)

\* What is due: the current items of timers that are there, one of each.
LEMMA DueFacts ==
  ASSUME TypeOK, HeapOK
  PROVE  /\ \A x \in Due : /\ x.id \in Ids /\ Active(x.id) /\ x = Item(x.id)
                           /\ x \in heap /\ timers[x.id].deadline <= now
         /\ \A x, y \in Due : x.id = y.id => x = y
         /\ \A id \in Ids : Active(id) /\ timers[id].deadline <= now => Item(id) \in Due
<1>1. ASSUME NEW x \in Due
      PROVE  x.id \in Ids /\ Active(x.id) /\ x = Item(x.id) /\ x \in heap /\ timers[x.id].deadline <= now
  <2>1. x \in heap /\ x.deadline <= now /\ isCurrent(timers, x) /\ x.id \in Ids
    BY DEF Due, TypeOK
  <2>2. Active(x.id) /\ timers[x.id].deadline = x.deadline
    BY <2>1 DEF HeapOK, isCurrent, Active
  <2> QED BY <2>1, <2>2 DEF HeapOK
<1>2. ASSUME NEW id \in Ids, Active(id), timers[id].deadline <= now
      PROVE  Item(id) \in Due
  <2>1. Item(id) \in heap
    BY <1>2 DEF HeapOK
  <2>2. Item(id).deadline = timers[id].deadline /\ Item(id).id = id /\ Item(id).generation = timers[id].generation
    BY DEF Item
  <2> QED BY <1>2, <2>1, <2>2 DEF Due, isCurrent
<1> QED BY <1>1, <1>2

\* The deadline of a repeating timer that fires is a time to come.
LEMMA NextDeadlineType ==
  ASSUME NEW d \in Nat, NEW i \in Nat \ {0}, NEW n \in Nat, d <= n
  PROVE  d + i * ((n - d) \div i + 1) \in Nat
<1>1. PICK q \in Nat : q = (n - d) \div i
  <2>1. n - d \in Nat
    OBVIOUS
  <2>2. \A a \in Nat, b \in Nat \ {0} : a \div b \in Nat
    OBVIOUS
  <2> QED BY <2>1, <2>2
<1>2. \A a, b \in Nat : a * (b + 1) \in Nat
  OBVIOUS
<1>3. i * (q + 1) \in Nat
  BY <1>2
<1> QED BY <1>1, <1>3

\* What firing leaves of a timer: nothing of a one-shot, a current deadline
\* of a repeating one.
LEMMA AfterFiringType ==
  ASSUME TypeOK, HeapOK, NEW id \in Ids, timers[id].deadline <= now
  PROVE  /\ AfterFiring(timers[id]) \in Entries
         /\ timers[id].interval = 0 => AfterFiring(timers[id]).generation = 0
         /\ timers[id].interval # 0 =>
              /\ AfterFiring(timers[id]).interval = timers[id].interval
              /\ AfterFiring(timers[id]).generation # 0
<1>1. /\ timers[id] \in Entries /\ timers[id].deadline \in Nat /\ timers[id].interval \in Nat
      /\ timers[id].generation \in Nat /\ now \in Nat
  BY DEF TypeOK, Entries
<1>2. CASE timers[id].interval = 0
  BY <1>2 DEF AfterFiring, NoTimer, Entries
<1>3. CASE timers[id].interval # 0
  <2>1. NextDeadline(timers[id]) \in Nat
    BY <1>1, <1>3, NextDeadlineType DEF NextDeadline
  <2>2. AfterFiring(timers[id]) =
          [timers[id] EXCEPT !.deadline = NextDeadline(timers[id]), !.generation = @ + 1]
    BY <1>3 DEF AfterFiring
  <2>3. PICK n \in Nat, g \in Nat : n = NextDeadline(timers[id]) /\ g = timers[id].generation + 1 /\ g # 0
    BY <1>1, <2>1
  <2>4. AfterFiring(timers[id]) = [deadline |-> n, interval |-> timers[id].interval, generation |-> g]
    BY <1>1, <2>2, <2>3 DEF Entries
  <2> QED BY <1>1, <1>3, <2>3, <2>4 DEF Entries
<1> QED BY <1>2, <1>3

\* The order of what is due has every timer once.
LEMMA DueOrder ==
  ASSUME TypeOK, HeapOK
  PROVE  LET ids == [k \in DOMAIN InOrder(Due) |-> InOrder(Due)[k].id]
         IN /\ ids \in Seq(Ids)
            /\ \A j, k \in 1 .. Len(ids) : ids[j] = ids[k] => j = k
            /\ \A id \in Ids : (\E k \in 1 .. Len(ids) : ids[k] = id) <=> id \in {x.id : x \in Due}
<1> DEFINE o == InOrder(Due)
           ids == [k \in DOMAIN o |-> o[k].id]
           n == Cardinality(Due)
<1>1. Due \in SUBSET HeapItems
  BY DEF Due, TypeOK, HeapItems
<1>2. IsFiniteSet(Due)
  <2> DEFINE f == [x \in Due |-> x.id]
  <2>1. f \in [Due -> Ids] /\ \A x, y \in Due : f[x] = f[y] => x = y
    BY DueFacts
  <2>2. f \in Injection(Due, Ids)
    BY <2>1 DEF Injection, IsInjective
  <2>3. IsFiniteSet(Ids)
    BY TimerAssumption, FS_Interval DEF Ids
  <2> HIDE DEF f
  <2> QED BY <2>2, <2>3, FS_Injection
<1>3. \A x, y \in Due : x # y => Before(x, y) \/ Before(y, x)
  <2> SUFFICES ASSUME NEW x \in Due, NEW y \in Due, x # y PROVE Before(x, y) \/ Before(y, x)
    OBVIOUS
  <2>1. /\ x.id \in Nat /\ y.id \in Nat /\ x.deadline \in Nat /\ y.deadline \in Nat
        /\ x.id # y.id
    BY <1>1, DueFacts, NameFacts DEF HeapItems
  <2> QED BY <2>1 DEF Before
<1>4. /\ o \in [1 .. n -> Due]
      /\ \A i, j \in 1 .. n : o[i] = o[j] => i = j
      /\ \A x \in Due : \E i \in 1 .. n : o[i] = x
  BY <1>1, <1>2, <1>3, OrderExists
<1>5. n \in Nat
  BY <1>2, FS_CardinalityType
<1> HIDE DEF o, n
<1>6. ids \in [1 .. n -> Ids] /\ \A k \in 1 .. n : ids[k] = o[k].id
  BY <1>4, DueFacts
<1>7. ids \in Seq(Ids) /\ Len(ids) = n
  BY <1>5, <1>6
<1>8. \A j, k \in 1 .. n : ids[j] = ids[k] => j = k
  BY <1>4, <1>6, DueFacts
<1>9. \A id \in Ids : (\E k \in 1 .. n : ids[k] = id) <=> id \in {x.id : x \in Due}
  <2>1. ASSUME NEW k \in 1 .. n PROVE ids[k] \in {x.id : x \in Due}
    BY <1>4, <1>6
  <2>2. ASSUME NEW x \in Due PROVE \E k \in 1 .. n : ids[k] = x.id
    <3>1. PICK k \in 1 .. n : o[k] = x
      BY <1>4
    <3> QED BY <1>6, <3>1
  <2> HIDE DEF ids
  <2> QED BY <2>1, <2>2
<1> HIDE DEF ids
<1>10. /\ ids \in Seq(Ids)
       /\ \A j, k \in 1 .. Len(ids) : ids[j] = ids[k] => j = k
       /\ \A id \in Ids : (\E k \in 1 .. Len(ids) : ids[k] = id) <=> id \in {x.id : x \in Due}
  BY <1>7, <1>8, <1>9
<1> QED BY <1>10 DEF ids, o

\* What the section that fires timers does to the table and the heap.
LEMMA FiresTable ==
  ASSUME TypeOK, HeapOK, FiringOK, SchedulerFires
  PROVE  /\ timers' \in [Ids -> Entries] /\ heap' \subseteq HeapItems /\ fired' \in [Ids -> Nat]
         /\ HeapOK' /\ FiringOK'
<1> DEFINE ids == {x.id : x \in Due}
           rest == {x \in heap : x.deadline > now} \cup Rearmed
<1>1. /\ timers' = [id \in Ids |-> IF id \in ids THEN AfterFiring(timers[id]) ELSE timers[id]]
      /\ heap' = discardStaleHeapItems(timers', rest)
      /\ fired' = [id \in Ids |-> IF id \in ids THEN fired[id] + 1 ELSE fired[id]]
      /\ UNCHANGED <<next_id, cancelled>>
  BY DEF SchedulerFires
<1>2. \A id \in ids : /\ id \in Ids /\ Active(id) /\ timers[id].deadline <= now
                      /\ Item(id) \in Due /\ id < next_id
  BY DueFacts, Zenon DEF HeapOK
<1>3. \A id \in Ids : timers[id] \in Entries /\ timers[id].deadline \in Nat
  BY DEF TypeOK, Entries
<1>4. /\ \A id \in Ids : id \in ids => timers'[id] = AfterFiring(timers[id])
      /\ \A id \in Ids : id \notin ids => timers'[id] = timers[id]
      /\ \A id \in Ids : fired'[id] = IF id \in ids THEN fired[id] + 1 ELSE fired[id]
  BY <1>1
<1>5. timers' \in [Ids -> Entries] /\ fired' \in [Ids -> Nat]
  <2>1. \A id \in ids : AfterFiring(timers[id]) \in Entries
    BY <1>2, AfterFiringType
  <2>2. fired \in [Ids -> Nat]
    BY DEF TypeOK
  <2> HIDE DEF ids
  <2> QED BY <1>1, <1>3, <2>1, <2>2
<1>6. \A id \in ids : timers[id].interval # 0 => Item(id)' \in Rearmed
  <2> SUFFICES ASSUME NEW id \in ids, timers[id].interval # 0 PROVE Item(id)' \in Rearmed
    OBVIOUS
  <2>1. Item(id) \in Due /\ Item(id).id = id /\ id \in Ids
    BY <1>2 DEF Item
  <2>2. Item(id)' = [deadline |-> AfterFiring(timers[id]).deadline, id |-> id,
                     generation |-> AfterFiring(timers[id]).generation]
    BY <1>4, <2>1 DEF Item
  <2> HIDE DEF ids
  <2> QED BY <2>1, <2>2 DEF Rearmed
<1>7. \A x \in Rearmed : /\ x.id \in ids /\ timers[x.id].interval # 0 /\ x = Item(x.id)'
  <2> SUFFICES ASSUME NEW x \in Rearmed
               PROVE  x.id \in ids /\ timers[x.id].interval # 0 /\ x = Item(x.id)'
    OBVIOUS
  <2>1. PICK y \in Due : /\ timers[y.id].interval # 0
                         /\ x = [deadline |-> AfterFiring(timers[y.id]).deadline, id |-> y.id,
                                 generation |-> AfterFiring(timers[y.id]).generation]
    BY DEF Rearmed
  <2>2. x.id = y.id /\ y.id \in ids /\ y.id \in Ids
    BY <1>2, <2>1
  <2>3. PICK id \in ids : id = y.id /\ id \in Ids
    BY <2>2
  <2>4. Item(id)' = x
    BY <1>4, <2>1, <2>3 DEF Item
  <2> QED BY <2>1, <2>2, <2>3, <2>4
<1>8. heap' \subseteq rest
  BY <1>1 DEF discardStaleHeapItems
<1>9. \A x \in rest : isCurrent(timers', x) => x \in heap'
  BY <1>1 DEF discardStaleHeapItems
<1>10. \A id \in Ids : Item(id)'.id = id /\ isCurrent(timers', Item(id)')
  BY DEF Item, isCurrent
<1>11. \A x \in heap : x.deadline > now => x.id \notin ids
  <2> SUFFICES ASSUME NEW x \in heap, x.deadline > now, x.id \in ids PROVE FALSE
    OBVIOUS
  <2>1. x = Item(x.id) /\ x.id \in Ids /\ timers[x.id].deadline <= now
    BY <1>2 DEF HeapOK
  <2>2. x.deadline = timers[x.id].deadline
    BY <2>1 DEF Item
  <2> QED BY <1>3, <2>1, <2>2 DEF TypeOK
<1>12. \A id \in Ids : id \in ids /\ timers'[id].generation # 0 =>
          timers[id].interval # 0 /\ timers'[id].interval = timers[id].interval
  BY <1>2, <1>4, AfterFiringType
<1> HIDE DEF rest, ids
<1>13. heap' \subseteq HeapItems
  <2>1. \A x \in rest : x \in HeapItems
    <3>1. heap \subseteq HeapItems
      BY DEF TypeOK, HeapItems
    <3>2. ASSUME NEW x \in Rearmed PROVE x \in HeapItems
      <4>1. PICK id \in Ids : id = x.id /\ x = Item(id)'
        BY <1>2, <1>7
      <4>2. timers'[id] \in Entries
        BY <1>5
      <4> QED BY <4>1, <4>2 DEF Item, HeapItems, Entries
    <3> QED BY <3>1, <3>2 DEF rest
  <2> QED BY <1>8, <2>1
<1>14. ASSUME NEW id \in Ids, Active(id)' PROVE Item(id)' \in heap'
  <2>1. CASE id \in ids
    <3>1. Item(id)' \in Rearmed
      BY <1>6, <1>12, <1>14, <2>1 DEF Active
    <3> QED BY <1>9, <1>10, <3>1 DEF rest
  <2>2. CASE id \notin ids
    <3>1. timers'[id] = timers[id] /\ Active(id) /\ Item(id)' = Item(id)
      BY <1>4, <1>14, <2>2 DEF Active, Item
    <3>2. Item(id) \in heap
      BY <3>1 DEF HeapOK
    <3>3. ~(timers[id].deadline <= now)
      BY <2>2, <3>1, DueFacts DEF ids, Item
    <3>4. Item(id).deadline > now
      BY <1>3, <3>3 DEF Item, TypeOK
    <3> QED BY <1>9, <1>10, <3>1, <3>2, <3>4 DEF rest
  <2> QED BY <2>1, <2>2
<1>15. ASSUME NEW x \in heap' PROVE (Active(x.id)' => x = Item(x.id)') /\ x.id < next_id' /\ x.generation # 0
  <2>1. PICK id \in Ids : id = x.id
    BY <1>13 DEF HeapItems
  <2>2. CASE x \in Rearmed
    <3>1. timers'[id].generation # 0 /\ x = Item(id)'
      BY <1>2, <1>4, <1>7, <2>1, <2>2, AfterFiringType
    <3>2. x.generation # 0
      BY <3>1 DEF Item
    <3>3. x.id < next_id'
      BY <1>1, <1>2, <1>7, <2>2
    <3> QED BY <1>7, <2>2, <3>2, <3>3
  <2>3. CASE x \in heap /\ x.deadline > now
    <3>1. timers'[id] = timers[id]
      BY <1>4, <1>11, <2>1, <2>3
    <3> QED BY <1>1, <2>1, <2>3, <3>1 DEF HeapOK, Active, Item
  <2> QED BY <1>8, <2>2, <2>3 DEF rest
<1>16. ASSUME NEW id \in Ids, id >= next_id'
       PROVE  ~Active(id)' /\ id \notin cancelled' /\ fired'[id] = 0
  <2>1. next_id \in Nat /\ next_id' = next_id
    BY <1>1, TimerAssumption DEF TypeOK
  <2>2. id \notin ids
    BY <1>2, <1>16, <2>1, NameFacts
  <2>3. timers'[id] = timers[id] /\ fired'[id] = fired[id]
    BY <1>4, <2>2
  <2> QED BY <1>1, <1>16, <2>3 DEF HeapOK, Active
<1>17. HeapOK'
  BY <1>14, <1>15, <1>16 DEF HeapOK
<1>18. FiringOK'
  <2> SUFFICES ASSUME NEW id \in Ids, Active(id)'
               PROVE  id \notin cancelled' /\ (timers'[id].interval = 0 => fired'[id] = 0)
    BY DEF FiringOK
  <2>1. CASE id \in ids
    BY <1>1, <1>2, <1>12, <2>1 DEF FiringOK, Active
  <2>2. CASE id \notin ids
    BY <1>1, <1>4, <2>2 DEF FiringOK, Active
  <2> QED BY <2>1, <2>2
<1> QED BY <1>5, <1>13, <1>17, <1>18

\* A new timer.
LEMMA AddTable ==
  ASSUME TypeOK, HeapOK, FiringOK, NEW t, NEW d \in Nat, NEW i \in Nat, addTimer(t, d, i)
  PROVE  /\ timers' \in [Ids -> Entries] /\ heap' \subseteq HeapItems
         /\ next_id' \in 1 .. MaxTimers + 1 /\ HeapOK' /\ FiringOK'
<1>1. PICK n \in Ids : n = next_id
  BY DEF addTimer
<1> DEFINE entry == [deadline |-> d, interval |-> i, generation |-> 1]
           item == [deadline |-> d, id |-> n, generation |-> 1]
<1>2. /\ timers' = [timers EXCEPT ![n] = entry] /\ heap' = heap \cup {item}
      /\ next_id' = n + 1 /\ UNCHANGED <<cancelled, fired>>
  BY <1>1 DEF addTimer
<1>3. /\ timers \in [Ids -> Entries] /\ entry \in Entries /\ heap \subseteq HeapItems /\ item \in HeapItems
      /\ n \in Nat /\ next_id' \in 1 .. MaxTimers + 1
  BY <1>1, <1>2, TimerAssumption DEF TypeOK, Entries, HeapItems, Ids
<1>4. /\ timers'[n] = entry /\ \A id \in Ids : id # n => timers'[id] = timers[id]
      /\ timers' \in [Ids -> Entries] /\ heap' \subseteq HeapItems
  BY <1>2, <1>3
<1>5. Item(n)' = item /\ \A id \in Ids : id # n => Item(id)' = Item(id) /\ (Active(id)' <=> Active(id))
  BY <1>4 DEF Item, Active
<1>6. \A x \in heap : x.id \in Ids /\ x.id < n /\ x.id # n
  BY <1>1, <1>3, NameFacts DEF HeapOK, HeapItems
<1>7. \A id \in Ids : Active(id)' => Item(id)' \in heap'
  BY <1>2, <1>5 DEF HeapOK
<1>8. ASSUME NEW x \in heap'
      PROVE  (Active(x.id)' => x = Item(x.id)') /\ x.id < next_id' /\ x.generation # 0
  <2>1. CASE x = item
    <3>1. x.id = n /\ x.generation = 1
      BY <2>1
    <3> QED BY <1>2, <1>3, <1>5, <2>1, <3>1
  <2>2. CASE x \in heap
    <3>1. PICK id \in Ids : id = x.id /\ id < n /\ id # n
      BY <1>6, <2>2
    <3>2. Item(id)' = Item(id) /\ (Active(id)' <=> Active(id))
      BY <1>5, <3>1
    <3>3. x.id < next_id'
      <4>1. id \in Nat /\ n \in Nat /\ id < n
        BY <1>3, <3>1, NameFacts
      <4>2. id < n + 1
        BY <4>1
      <4> QED BY <1>2, <3>1, <4>2
    <3>4. (Active(id) => x = Item(id)) /\ x.generation # 0
      BY <2>2, <3>1 DEF HeapOK
    <3> QED BY <3>1, <3>2, <3>3, <3>4
  <2> QED BY <1>2, <2>1, <2>2
<1>9. ASSUME NEW id \in Ids, id >= next_id'
      PROVE  ~Active(id)' /\ id \notin cancelled' /\ fired'[id] = 0
  <2>1. id # n /\ id >= n
    BY <1>2, <1>3, <1>9, NameFacts
  <2> QED BY <1>1, <1>2, <1>5, <2>1 DEF HeapOK
<1>10. HeapOK'
  BY <1>7, <1>8, <1>9 DEF HeapOK
<1>11. n \notin cancelled /\ fired[n] = 0
  <2>1. n >= n
    BY <1>3
  <2> QED BY <1>1, <2>1 DEF HeapOK
<1>12. FiringOK'
  BY <1>2, <1>4, <1>5, <1>11 DEF FiringOK, Active
<1> QED BY <1>3, <1>4, <1>10, <1>12

\* Timers are cancelled, one or all, or cleared by shutdown().
LEMMA ClearTable ==
  ASSUME TypeOK, HeapOK, FiringOK, UNCHANGED <<heap, next_id, fired>>, timers' \in [Ids -> Entries],
         \A id \in Ids : timers'[id] = timers[id] \/ timers'[id] = NoTimer,
         cancelled' \subseteq Ids,
         \A id \in cancelled' : id \in cancelled \/ (Active(id) /\ timers'[id] = NoTimer)
  PROVE  HeapOK' /\ FiringOK'
<1>1. \A id \in Ids : Active(id)' => Active(id) /\ timers'[id] = timers[id] /\ Item(id)' = Item(id)
  BY DEF Active, NoTimer, Item
<1>2. \A id \in Ids : Active(id)' => id \notin cancelled'
  BY <1>1 DEF FiringOK, Active, NoTimer
<1>3. ASSUME NEW x \in heap', Active(x.id)'
      PROVE  x = Item(x.id)'
  <2>1. PICK id \in Ids : id = x.id
    BY DEF TypeOK
  <2> QED BY <1>1, <1>3, <2>1 DEF HeapOK
<1>4. \A id \in Ids : id >= next_id => ~Active(id)' /\ id \notin cancelled' /\ fired[id] = 0
  BY <1>1 DEF HeapOK
<1>5. HeapOK'
  BY <1>1, <1>3, <1>4 DEF HeapOK
<1>6. FiringOK'
  BY <1>1, <1>2 DEF FiringOK
<1> QED BY <1>5, <1>6

\* Discarding stale items before the wait takes no current one.
LEMMA SleepsTable ==
  ASSUME TypeOK, HeapOK, FiringOK, SchedulerSleeps
  PROVE  heap' \subseteq heap /\ HeapOK' /\ FiringOK'
<1>1. heap' = discardStaleHeapItems(timers, heap) /\ UNCHANGED <<timers, next_id, cancelled, fired>>
  BY DEF SchedulerSleeps
<1>2. heap' \subseteq heap /\ \A x \in heap : isCurrent(timers, x) => x \in heap'
  BY <1>1 DEF discardStaleHeapItems
<1>3. \A id \in Ids : isCurrent(timers, Item(id)) /\ Item(id)' = Item(id) /\ (Active(id)' <=> Active(id))
  BY <1>1 DEF isCurrent, Item, Active
<1>4. ASSUME NEW x \in heap', Active(x.id)'
      PROVE  x = Item(x.id)'
  <2>1. PICK id \in Ids : id = x.id
    BY <1>2 DEF TypeOK
  <2> QED BY <1>2, <1>3, <1>4, <2>1 DEF HeapOK
<1>5. HeapOK'
  BY <1>1, <1>2, <1>3, <1>4 DEF HeapOK
<1>6. FiringOK'
  BY <1>1 DEF FiringOK, Active
<1> QED BY <1>2, <1>5, <1>6

\* The steps that touch the table of timers.
TableStep ==
  \/ \E t \in Callers : Call(t)
  \/ SchedulerSleeps
  \/ SchedulerFires

\* The steps that leave the table and the heap alone.
LEMMA OtherSteps ==
  ASSUME [Next]_vars, ~TableStep
  PROVE  UNCHANGED table
BY DEF Next, TableStep, SchedulerStep, CallStep, WorkerStep, vars, Tick, Notify, ShutdownNotify, ShutdownJoin,
   ShutdownRouse, ShutdownWorkers, SchedulerExits, AlarmRings, enqueueCallbacks, Announce,
   SchedulerSpurious, WorkerTakes, WorkerWaits, CallbackReturns, WorkerSpurious

\* What a call does: a timer is added, or timers go.
LEMMA CallTable ==
  ASSUME TypeOK, NEW t \in Callers, Call(t)
  PROVE  \/ \E d, i \in Nat : addTimer(t, d, i)
         \/ /\ UNCHANGED <<heap, next_id, fired>> /\ timers' \in [Ids -> Entries]
            /\ \A id \in Ids : timers'[id] = timers[id] \/ timers'[id] = NoTimer
            /\ cancelled' \subseteq Ids
            /\ \A id \in cancelled' : id \in cancelled \/ (Active(id) /\ timers'[id] = NoTimer)
            /\ shutting_down' \in BOOLEAN
<1>1. timers \in [Ids -> Entries] /\ NoTimer \in Entries /\ now \in Nat /\ cancelled \subseteq Ids
      /\ shutting_down \in BOOLEAN
  BY DEF TypeOK, Entries, NoTimer
<1>2. CASE scheduleAt(t)
  <2>1. PICK r \in Readings : \E d \in r .. r + MaxDelay : addTimer(t, d, 0)
    BY <1>2 DEF scheduleAt
  <2>2. PICK d \in r .. r + MaxDelay : addTimer(t, d, 0)
    BY <2>1
  <2>3. d \in Nat /\ 0 \in Nat
    BY <1>1, TimerAssumption DEF Readings
  <2> QED BY <2>2, <2>3
<1>3. CASE scheduleEvery(t)
  <2>1. PICK i \in Intervals, r \in Readings : addTimer(t, r + i, i)
    BY <1>3 DEF scheduleEvery
  <2>2. r + i \in Nat /\ i \in Nat
    BY <1>1, TimerAssumption DEF Readings
  <2> QED BY <2>1, <2>2
<1>4. CASE cancelAll(t)
  BY <1>1, <1>4 DEF cancelAll
<1>5. CASE shutdown(t)
  <2>1. shutting_down' \in BOOLEAN
    BY <1>5 DEF shutdown
  <2> QED BY <1>1, <1>5, <2>1 DEF shutdown
<1>6. CASE \E id \in Ids : cancel(t, id)
  BY <1>1, <1>6 DEF cancel
<1> QED BY <1>2, <1>3, <1>4, <1>5, <1>6 DEF Call

\* No step separates the table from the heap.
LEMMA HeapStep ==
  ASSUME TypeOK, HeapOK, FiringOK, [Next]_vars
  PROVE  HeapOK' /\ FiringOK'
<1>1. CASE UNCHANGED table
  BY <1>1 DEF table, HeapOK, FiringOK, Active, Item
<1>2. ASSUME NEW t \in Callers, Call(t)
      PROVE  HeapOK' /\ FiringOK'
  BY <1>2, CallTable, AddTable, ClearTable
<1> QED BY <1>1, <1>2, OtherSteps, SleepsTable, FiresTable DEF TableStep

-----------------------------------------------------------------------------
(* Types.                                                                  *)

\* The deadline on top of a heap is the least.
LEMMA TopIsLeast ==
  ASSUME NEW h \in SUBSET HeapItems, h # {}
  PROVE  Top(h) \in Nat /\ \A x \in h : Top(h) <= x.deadline
<1> DEFINE D == {x.deadline : x \in h}
<1>1. D \subseteq Nat /\ D # {}
  BY DEF HeapItems
<1> HIDE DEF D
<1>2. \E d \in D : \A e \in D : d <= e
  BY <1>1, Least
<1>3. \A x \in h : x.deadline \in D
  BY DEF D
<1>4. \E d \in D : \A x \in h : d <= x.deadline
  BY <1>2, <1>3
<1>5. Top(h) = CHOOSE d \in D : \A x \in h : d <= x.deadline
  BY DEF Top, D
<1>6. Top(h) \in D /\ \A x \in h : Top(h) <= x.deadline
  BY <1>4, <1>5, Zenon
<1> QED BY <1>1, <1>6

\* The types are kept.
LEMMA TypeStep ==
  ASSUME TypeOK, PlacesOK, HeapOK, FiringOK, [Next]_vars
  PROVE  TypeOK'
<1> USE DEF table, queue
<1>1. pc' \in [Threads -> AllLabels]
  BY PlacesStep
<1>2. /\ timers' \in [Ids -> Entries] /\ heap' \subseteq HeapItems
      /\ next_id' \in 1 .. MaxTimers + 1 /\ shutting_down' \in BOOLEAN
      /\ cancelled' \subseteq Ids /\ fired' \in [Ids -> Nat]
  <2>1. /\ timers \in [Ids -> Entries] /\ heap \subseteq HeapItems
        /\ next_id \in 1 .. MaxTimers + 1 /\ shutting_down \in BOOLEAN
        /\ cancelled \subseteq Ids /\ fired \in [Ids -> Nat]
    BY DEF TypeOK, HeapItems
  <2>2. CASE UNCHANGED table
    BY <2>1, <2>2
  <2>3. CASE SchedulerFires
    BY <2>1, <2>3, FiresTable DEF SchedulerFires
  <2>4. CASE SchedulerSleeps
    BY <2>1, <2>4, SleepsTable DEF SchedulerSleeps
  <2>5. ASSUME NEW t \in Callers, NEW d \in Nat, NEW i \in Nat, addTimer(t, d, i)
        PROVE  /\ timers' \in [Ids -> Entries] /\ heap' \subseteq HeapItems
               /\ next_id' \in 1 .. MaxTimers + 1 /\ shutting_down' \in BOOLEAN
               /\ cancelled' \subseteq Ids /\ fired' \in [Ids -> Nat]
    BY <2>1, <2>5, AddTable DEF addTimer
  <2>6. ASSUME NEW t \in Callers, Call(t)
        PROVE  /\ timers' \in [Ids -> Entries] /\ heap' \subseteq HeapItems
               /\ next_id' \in 1 .. MaxTimers + 1 /\ shutting_down' \in BOOLEAN
               /\ cancelled' \subseteq Ids /\ fired' \in [Ids -> Nat]
    BY <2>1, <2>5, <2>6, CallTable
  <2> QED BY <2>2, <2>3, <2>4, <2>6, OtherSteps DEF TableStep
<1>3. now' \in Nat
  <2>1. now \in Nat
    BY DEF TypeOK
  <2>2. CASE Tick
    BY <2>1, <2>2 DEF Tick
  <2>3. CASE UNCHANGED now
    BY <2>1, <2>3
  <2> QED BY <2>2, <2>3 DEF Next, vars, Call, CallStep, SchedulerStep, WorkerStep, scheduleAt, scheduleEvery,
          addTimer, cancel, cancelAll, shutdown, Notify, ShutdownNotify, ShutdownJoin, ShutdownRouse,
          ShutdownWorkers, SchedulerExits, SchedulerSleeps, AlarmRings, SchedulerFires, enqueueCallbacks,
          Announce, SchedulerSpurious, WorkerTakes, WorkerWaits, CallbackReturns, WorkerSpurious
<1>4. alarm' \in Nat \cup {Never}
  <2>1. CASE SchedulerSleeps
    <3> DEFINE h == discardStaleHeapItems(timers, heap)
    <3>1. h \in SUBSET HeapItems
      BY DEF discardStaleHeapItems, TypeOK, HeapItems
    <3>2. alarm' = IF h = {} THEN Never ELSE Top(h)
      BY <2>1 DEF SchedulerSleeps
    <3> HIDE DEF h
    <3> QED BY <3>1, <3>2, TopIsLeast
  <2>2. CASE UNCHANGED alarm
    BY <2>2 DEF TypeOK
  <2> QED BY <2>1, <2>2 DEF Next, vars, Call, CallStep, SchedulerStep, WorkerStep, scheduleAt, scheduleEvery,
          addTimer, cancel, cancelAll, shutdown, Notify, ShutdownNotify, ShutdownJoin, ShutdownRouse,
          ShutdownWorkers, SchedulerExits, AlarmRings, SchedulerFires, enqueueCallbacks, Tick,
          Announce, SchedulerSpurious, WorkerTakes, WorkerWaits, CallbackReturns, WorkerSpurious
<1>5. /\ ready_callbacks' \in Seq(Ids) /\ due_callbacks' \in Seq(Ids) /\ ran' \in [Ids -> Nat]
      /\ callback_stopping' \in BOOLEAN
  <2>1. /\ ready_callbacks \in Seq(Ids) /\ due_callbacks \in Seq(Ids) /\ ran \in [Ids -> Nat]
        /\ callback_stopping \in BOOLEAN
    BY DEF TypeOK
  <2>2. CASE SchedulerFires
    <3>1. due_callbacks' = [k \in DOMAIN InOrder(Due) |-> InOrder(Due)[k].id] /\ UNCHANGED queue
      BY <2>2 DEF SchedulerFires
    <3>2. [k \in DOMAIN InOrder(Due) |-> InOrder(Due)[k].id] \in Seq(Ids)
      BY DueOrder
    <3> QED BY <2>1, <3>1, <3>2
  <2>3. CASE enqueueCallbacks
    <3>1. ready_callbacks \o due_callbacks \in Seq(Ids) /\ << >> \in Seq(Ids)
      BY <2>1, ConcatProperties, EmptySeq
    <3> QED BY <2>1, <2>3, <3>1 DEF enqueueCallbacks
  <2>4. ASSUME NEW w \in Workers, WorkerTakes(w)
        PROVE  /\ ready_callbacks' \in Seq(Ids) /\ due_callbacks' \in Seq(Ids) /\ ran' \in [Ids -> Nat]
               /\ callback_stopping' \in BOOLEAN
    <3>1. Head(ready_callbacks) \in Ids /\ Tail(ready_callbacks) \in Seq(Ids)
      BY <2>1, <2>4, HeadTailProperties DEF WorkerTakes
    <3>2. ran' = [ran EXCEPT ![Head(ready_callbacks)] = @ + 1] /\ ready_callbacks' = Tail(ready_callbacks)
          /\ UNCHANGED <<due_callbacks, callback_stopping>>
      BY <2>4 DEF WorkerTakes
    <3>3. ran' \in [Ids -> Nat]
      BY <2>1, <3>1, <3>2
    <3> QED BY <2>1, <3>1, <3>2, <3>3
  <2>5. ASSUME NEW t \in Callers, ShutdownJoin(t)
        PROVE  /\ ready_callbacks' \in Seq(Ids) /\ due_callbacks' \in Seq(Ids) /\ ran' \in [Ids -> Nat]
               /\ callback_stopping' \in BOOLEAN
    <3>1. callback_stopping' \in BOOLEAN
      BY <2>5 DEF ShutdownJoin
    <3> QED BY <2>1, <2>5, <3>1 DEF ShutdownJoin
  <2>6. CASE UNCHANGED <<queue, due_callbacks>>
    BY <2>1, <2>6
  <2> QED BY <2>2, <2>3, <2>4, <2>5, <2>6 DEF Next, vars, Call, CallStep, SchedulerStep, WorkerStep,
          scheduleAt, scheduleEvery, addTimer, cancel, cancelAll, shutdown, Notify, ShutdownNotify, ShutdownRouse,
          ShutdownWorkers, SchedulerExits, SchedulerSleeps, AlarmRings, Tick,
          Announce, SchedulerSpurious, WorkerWaits, CallbackReturns, WorkerSpurious
<1> QED BY <1>1, <1>2, <1>3, <1>4, <1>5 DEF TypeOK, AllLabels, HeapItems

-----------------------------------------------------------------------------
(* The scheduler's alarm.                                                  *)

\* Whom notify_one() of timer_changed moves.
LEMMA NotifyMoves ==
  ASSUME TypeOK, NEW t \in Callers, NEW label, NotifyScheduler(t, label)
  PROVE  /\ pc'[t] = label
         /\ pc'[Scheduler] = IF pc[Scheduler] = "asleep" THEN "schedule" ELSE pc[Scheduler]
         /\ \A u \in Threads : u # t /\ u # Scheduler => pc'[u] = pc[u]
BY NameFacts DEF TypeOK, NotifyScheduler

\* Whom notify_all() of callback_available moves.
LEMMA RousedMoves ==
  ASSUME TypeOK, NEW t \in Threads, NEW label, label # "resting", pc' = Roused([pc EXCEPT ![t] = label])
  PROVE  /\ pc'[t] = label
         /\ \A u \in Threads : u # t => pc'[u] = IF pc[u] = "resting" THEN "work" ELSE pc[u]
BY DEF TypeOK, Roused

\* No step leaves the scheduler asleep past a deadline or a shutdown.
LEMMA SleepStep ==
  ASSUME TypeOK, PlacesOK, HeapOK, NoOversleep, [Next]_vars
  PROVE  NoOversleep'
<1> USE DEF Goto
<1>1. pc \in [Threads -> AllLabels] /\ Scheduler \in Threads
  BY NameFacts DEF TypeOK, AllLabels
<1>2. CASE pc'[Scheduler] # "asleep"
  BY <1>2 DEF NoOversleep
<1>3. ASSUME NEW t \in Callers, pc'[t] \in {"notify", "shut_notify"}
      PROVE  NoOversleep'
  BY <1>3 DEF NoOversleep
<1>4. CASE /\ UNCHANGED table /\ UNCHANGED alarm /\ pc'[Scheduler] = pc[Scheduler]
           /\ \A u \in Callers : pc[u] \in {"notify", "shut_notify"} => pc'[u] = pc[u]
  BY <1>4 DEF NoOversleep, table, Active
<1>5. CASE SchedulerSleeps
  <2> DEFINE h == discardStaleHeapItems(timers, heap)
  <2>1. /\ alarm' = IF h = {} THEN Never ELSE Top(h)
        /\ UNCHANGED <<timers, shutting_down>> /\ ~shutting_down
    BY <1>5 DEF SchedulerSleeps
  <2>2. h \in SUBSET HeapItems
    BY DEF discardStaleHeapItems, TypeOK, HeapItems
  <2>3. \A id \in Ids : Active(id) => Item(id) \in h
    BY DEF discardStaleHeapItems, HeapOK, isCurrent, Item
  <2> HIDE DEF h
  <2>4. ASSUME NEW id \in Ids, Active(id)'
        PROVE  alarm' # Never /\ alarm' <= timers'[id].deadline
    <3>1. Item(id) \in h /\ h # {} /\ Item(id).deadline = timers[id].deadline
      BY <2>1, <2>3, <2>4 DEF Active, Item
    <3>2. alarm' = Top(h) /\ Top(h) \in Nat /\ Top(h) <= Item(id).deadline
      BY <2>1, <2>2, <3>1, TopIsLeast
    <3> QED BY <2>1, <3>1, <3>2, TimerAssumption
  <2> QED BY <2>1, <2>4 DEF NoOversleep
<1>6. ASSUME NEW t \in Callers, Call(t)
      PROVE  NoOversleep'
  <2>1. pc'[t] \in {"notify", "shut_notify"}
    BY <1>1, <1>6, NameFacts DEF Call, scheduleAt, scheduleEvery, addTimer, cancel, cancelAll, shutdown
  <2> QED BY <1>3, <2>1
<1>7. ASSUME NEW t \in Callers, Notify(t) \/ ShutdownNotify(t)
      PROVE  NoOversleep'
  <2>1. pc'[Scheduler] # "asleep"
    BY <1>7, NotifyMoves DEF Notify, ShutdownNotify
  <2> QED BY <1>2, <2>1
<1>8. ASSUME NEW t \in Callers, ShutdownJoin(t) \/ ShutdownWorkers(t)
      PROVE  NoOversleep'
  BY <1>1, <1>4, <1>8, NameFacts DEF ShutdownJoin, ShutdownWorkers, queue
<1>9. ASSUME NEW t \in Callers, ShutdownRouse(t)
      PROVE  NoOversleep'
  <2>1. t \in Threads /\ t # Scheduler /\ pc[t] = "shut_rouse" /\ pc[Scheduler] # "resting"
    BY <1>9, NameFacts DEF ShutdownRouse, PlacesOK, SchedulerLabels
  <2>2. \A u \in Threads : u # t => pc'[u] = IF pc[u] = "resting" THEN "work" ELSE pc[u]
    BY <1>9, <2>1, RousedMoves DEF ShutdownRouse
  <2> QED BY <1>1, <1>4, <1>9, <2>1, <2>2, NameFacts DEF ShutdownRouse
<1>10. ASSUME NEW w \in Workers, WorkerStep(w) \/ WorkerSpurious(w)
       PROVE  NoOversleep'
  <2>1. w \in Threads /\ w # Scheduler /\ pc[w] \notin {"notify", "shut_notify"}
    BY <1>10, NameFacts DEF WorkerStep, WorkerSpurious, WorkerTakes, WorkerWaits, CallbackReturns
  <2>2. \A u \in Threads : u # w => pc'[u] = pc[u]
    BY <1>1, <1>10, <2>1 DEF WorkerStep, WorkerSpurious, WorkerTakes, WorkerWaits, CallbackReturns
  <2>3. UNCHANGED table /\ UNCHANGED alarm
    BY <1>10 DEF WorkerStep, WorkerSpurious, WorkerTakes, WorkerWaits, CallbackReturns
  <2> QED BY <1>1, <1>4, <2>1, <2>2, <2>3, NameFacts
<1>11. CASE Announce
  <2>1. pc'[Scheduler] = "schedule"
    BY <1>1, <1>11, RousedMoves DEF Announce
  <2> QED BY <1>2, <2>1
<1>12. CASE SchedulerExits \/ AlarmRings \/ SchedulerFires \/ enqueueCallbacks \/ SchedulerSpurious
  <2>1. pc'[Scheduler] # "asleep"
    BY <1>1, <1>12 DEF SchedulerExits, AlarmRings, SchedulerFires, enqueueCallbacks, SchedulerSpurious
  <2> QED BY <1>2, <2>1
<1>13. CASE Tick \/ UNCHANGED vars
  BY <1>4, <1>13 DEF Tick, vars
<1> QED BY <1>5, <1>6, <1>7, <1>8, <1>9, <1>10, <1>11, <1>12, <1>13
        DEF Next, CallStep, SchedulerStep

-----------------------------------------------------------------------------
(* The end of the threads.                                                 *)

\* A thread that has ended stays so.
LEMMA ExitedStays ==
  ASSUME TypeOK, [Next]_vars, NEW u \in Threads, pc[u] = "exited"
  PROVE  pc'[u] = "exited"
<1> USE DEF Goto
<1>1. pc \in [Threads -> AllLabels] /\ Scheduler \in Threads
  BY NameFacts DEF TypeOK, AllLabels
<1>2. ASSUME NEW t \in Callers, Call(t)
      PROVE  pc'[u] = "exited"
  <2>1. pc[t] # "exited" /\ t \in Threads
    BY <1>2, HomePlace, NameFacts DEF Call, scheduleAt, scheduleEvery, addTimer, cancel, cancelAll, shutdown, CanCall
  <2> QED BY <1>1, <1>2, <2>1 DEF Call, scheduleAt, scheduleEvery, addTimer, cancel, cancelAll, shutdown
<1>3. ASSUME NEW t \in Callers, Notify(t) \/ ShutdownNotify(t)
      PROVE  pc'[u] = "exited"
  BY <1>3, NotifyMoves DEF Notify, ShutdownNotify
<1>4. ASSUME NEW t \in Callers, ShutdownJoin(t) \/ ShutdownWorkers(t)
      PROVE  pc'[u] = "exited"
  BY <1>1, <1>4, NameFacts DEF ShutdownJoin, ShutdownWorkers
<1>5. ASSUME NEW t \in Callers, ShutdownRouse(t)
      PROVE  pc'[u] = "exited"
  BY <1>5, NameFacts, RousedMoves DEF ShutdownRouse
<1>6. CASE Announce
  BY <1>1, <1>6, RousedMoves DEF Announce
<1>7. CASE \/ SchedulerExits \/ SchedulerSleeps \/ AlarmRings \/ SchedulerFires \/ enqueueCallbacks
           \/ SchedulerSpurious
  BY <1>1, <1>7 DEF SchedulerExits, SchedulerSleeps, AlarmRings, SchedulerFires, enqueueCallbacks,
     SchedulerSpurious
<1>8. ASSUME NEW w \in Workers, WorkerStep(w) \/ WorkerSpurious(w)
      PROVE  pc'[u] = "exited"
  BY <1>1, <1>8, NameFacts DEF WorkerStep, WorkerSpurious, WorkerTakes, WorkerWaits, CallbackReturns
<1>9. CASE Tick \/ UNCHANGED vars
  BY <1>9 DEF Tick, vars
<1> QED BY <1>2, <1>3, <1>4, <1>5, <1>6, <1>7, <1>8, <1>9 DEF Next, CallStep, SchedulerStep

\* How a worker ends, how shutdown() ends, and how the scheduler gives up
\* what is due.
LEMMA Moves ==
  ASSUME TypeOK, PlacesOK, [Next]_vars
  PROVE  /\ \A u \in Callers : pc'[u] = "exited" /\ pc[u] # "exited" => u \in Workers /\ WorkerWaits(u)
         /\ \A u \in Callers : pc[u] \in ShutdownLabels => pc'[u] \in ShutdownLabels \/ ShutdownWorkers(u)
         /\ pc[Scheduler] = "enqueue" => pc'[Scheduler] = "enqueue" \/ enqueueCallbacks
<1> DEFINE G ==
      /\ \A u \in Callers : pc'[u] = "exited" /\ pc[u] # "exited" => u \in Workers /\ WorkerWaits(u)
      /\ \A u \in Callers : pc[u] \in ShutdownLabels => pc'[u] \in ShutdownLabels \/ ShutdownWorkers(u)
      /\ pc[Scheduler] = "enqueue" => pc'[Scheduler] = "enqueue" \/ enqueueCallbacks
<1> SUFFICES G
  OBVIOUS
<1> USE DEF Goto
<1>1. pc \in [Threads -> AllLabels] /\ Scheduler \in Threads
  BY NameFacts DEF TypeOK, AllLabels
<1>2. \A u \in Callers : u \in Threads /\ u # Scheduler
  BY NameFacts
<1>3. ASSUME NEW t \in Callers, NEW label, pc' = [pc EXCEPT ![t] = label], label # "exited",
             pc[t] \notin ShutdownLabels \/ label \in ShutdownLabels \/ ShutdownWorkers(t)
      PROVE  G
  <2>1. \A u \in Threads : pc'[u] = IF u = t THEN label ELSE pc[u]
    BY <1>1, <1>2, <1>3
  <2> QED BY <1>1, <1>2, <1>3, <2>1
<1>4. ASSUME NEW t \in Callers, Call(t)
      PROVE  G
  <2>1. pc[t] \notin ShutdownLabels
    BY <1>4, HomePlace DEF Call, scheduleAt, scheduleEvery, addTimer, cancel, cancelAll, shutdown, CanCall
  <2>2. PICK label \in {"notify", "shut_notify"} : pc' = [pc EXCEPT ![t] = label]
    BY <1>4 DEF Call, scheduleAt, scheduleEvery, addTimer, cancel, cancelAll, shutdown
  <2> QED BY <1>3, <2>1, <2>2
<1>5. ASSUME NEW t \in Callers, Notify(t) \/ ShutdownNotify(t)
      PROVE  G
  <2>1. PICK label : /\ NotifyScheduler(t, label) /\ label # "exited"
                     /\ pc[t] \notin ShutdownLabels \/ label \in ShutdownLabels
    BY <1>5, HomePlace DEF Notify, ShutdownNotify, ShutdownLabels
  <2>2. /\ pc'[t] = label /\ \A u \in Callers : u # t => pc'[u] = pc[u]
        /\ pc[Scheduler] = "enqueue" => pc'[Scheduler] = "enqueue"
    BY <1>2, <2>1, NotifyMoves
  <2> QED BY <2>1, <2>2
<1>6. ASSUME NEW t \in Callers, ShutdownJoin(t)
      PROVE  G
  BY <1>3, <1>6 DEF ShutdownJoin, ShutdownLabels
<1>7. ASSUME NEW t \in Callers, ShutdownWorkers(t)
      PROVE  G
  <2>1. pc' = [pc EXCEPT ![t] = Home(t)] /\ Home(t) # "exited"
    BY <1>7, HomePlace DEF ShutdownWorkers
  <2> QED BY <1>3, <1>7, <2>1
<1>8. ASSUME NEW t \in Callers, ShutdownRouse(t)
      PROVE  G
  <2>1. pc'[t] = "shut_workers" /\ \A u \in Threads : u # t => pc'[u] = IF pc[u] = "resting" THEN "work" ELSE pc[u]
    BY <1>2, <1>8, RousedMoves DEF ShutdownRouse
  <2> QED BY <1>1, <1>2, <2>1 DEF ShutdownLabels
<1>9. CASE Announce
  <2>1. \A u \in Threads : u # Scheduler => pc'[u] = IF pc[u] = "resting" THEN "work" ELSE pc[u]
    BY <1>1, <1>9, RousedMoves DEF Announce
  <2>2. pc[Scheduler] = "announce"
    BY <1>9 DEF Announce
  <2> QED BY <1>2, <2>1, <2>2 DEF ShutdownLabels
<1>10. CASE \/ SchedulerExits \/ SchedulerSleeps \/ AlarmRings \/ SchedulerFires \/ enqueueCallbacks
            \/ SchedulerSpurious
  <2>1. \A u \in Threads : u # Scheduler => pc'[u] = pc[u]
    BY <1>1, <1>10 DEF SchedulerExits, SchedulerSleeps, AlarmRings, SchedulerFires, enqueueCallbacks,
       SchedulerSpurious
  <2>2. pc[Scheduler] # "enqueue" \/ enqueueCallbacks
    BY <1>10 DEF SchedulerExits, SchedulerSleeps, AlarmRings, SchedulerFires, SchedulerSpurious
  <2> QED BY <1>2, <2>1, <2>2
<1>11. ASSUME NEW w \in Workers, WorkerStep(w) \/ WorkerSpurious(w)
       PROVE  G
  <2>1. w \in Callers /\ w \in Threads /\ w # Scheduler
    BY NameFacts
  <2>2. CASE WorkerWaits(w)
    <3>1. pc[w] = "work" /\ \A u \in Threads : u # w => pc'[u] = pc[u]
      BY <1>1, <2>1, <2>2 DEF WorkerWaits
    <3> QED BY <1>1, <1>2, <2>1, <2>2, <3>1 DEF ShutdownLabels
  <2>3. CASE WorkerTakes(w) \/ CallbackReturns(w) \/ WorkerSpurious(w)
    <3>1. PICK label \in {"work", "callback"} : pc' = [pc EXCEPT ![w] = label]
      BY <2>3 DEF WorkerTakes, CallbackReturns, WorkerSpurious
    <3>2. pc[w] \notin ShutdownLabels
      BY <2>3 DEF WorkerTakes, CallbackReturns, WorkerSpurious, ShutdownLabels
    <3> QED BY <1>3, <2>1, <3>1, <3>2
  <2> QED BY <1>11, <2>2, <2>3 DEF WorkerStep
<1>12. CASE Tick \/ UNCHANGED vars
  BY <1>12 DEF Tick, vars
<1> HIDE DEF G
<1> QED BY <1>4, <1>5, <1>6, <1>7, <1>8, <1>9, <1>10, <1>11, <1>12 DEF Next, CallStep, SchedulerStep

\* The steps that touch the queue of callbacks, what is due, or the counts.
QueueStep ==
  \/ SchedulerFires
  \/ enqueueCallbacks
  \/ \E w \in Workers : WorkerTakes(w)

\* The steps that leave the callbacks alone.
LEMMA QueueSame ==
  ASSUME [Next]_vars, ~QueueStep
  PROVE  UNCHANGED <<ready_callbacks, due_callbacks, ran, fired>>
BY DEF QueueStep, table, queue, Next, vars, Call, CallStep, SchedulerStep, WorkerStep,
   scheduleAt, scheduleEvery, addTimer, cancel, cancelAll, shutdown, Notify, ShutdownNotify, ShutdownJoin,
   ShutdownRouse, ShutdownWorkers, SchedulerExits, SchedulerSleeps, AlarmRings, Tick,
   Announce, SchedulerSpurious, WorkerWaits, CallbackReturns, WorkerSpurious

\* Only shutdown() stops the workers.
LEMMA StoppingSame ==
  ASSUME [Next]_vars, ~ \E t \in Callers : ShutdownJoin(t)
  PROVE  UNCHANGED callback_stopping
BY DEF table, queue, Next, vars, Call, CallStep, SchedulerStep, WorkerStep,
   scheduleAt, scheduleEvery, addTimer, cancel, cancelAll, shutdown, Notify, ShutdownNotify,
   ShutdownRouse, ShutdownWorkers, SchedulerExits, SchedulerSleeps, AlarmRings, SchedulerFires, Tick,
   enqueueCallbacks, Announce, SchedulerSpurious, WorkerTakes, WorkerWaits, CallbackReturns, WorkerSpurious

\* The order of the shutdown is kept.
LEMMA StopStep ==
  ASSUME TypeOK, PlacesOK, StopOK, [Next]_vars
  PROVE  StopOK'
<1> USE DEF Goto
<1>1. pc \in [Threads -> AllLabels] /\ Scheduler \in Threads /\ \A u \in Callers : u \in Threads /\ u # Scheduler
  BY NameFacts DEF TypeOK, AllLabels
<1>2. callback_stopping => callback_stopping'
  BY StoppingSame DEF ShutdownJoin
<1>3. ~callback_stopping /\ callback_stopping' => \E t \in Callers : ShutdownJoin(t)
  BY StoppingSame
<1>4. callback_stopping' => pc'[Scheduler] = "exited"
  BY <1>1, <1>3, ExitedStays DEF StopOK, ShutdownJoin
<1>5. pc'[Scheduler] # "enqueue" => due_callbacks' = << >>
  <2>1. CASE SchedulerFires
    BY <1>1, <2>1 DEF SchedulerFires
  <2>2. CASE enqueueCallbacks
    BY <2>2 DEF enqueueCallbacks
  <2>3. CASE ~SchedulerFires /\ ~enqueueCallbacks
    <3>1. UNCHANGED due_callbacks
      BY <2>3, QueueSame DEF QueueStep, WorkerTakes
    <3> QED BY <2>3, <3>1, Moves DEF StopOK
  <2> QED BY <2>1, <2>2, <2>3
<1>6. ASSUME NEW w \in Workers, pc'[w] = "exited"
      PROVE  callback_stopping' /\ ready_callbacks' = << >>
  <2>1. w \in Callers /\ w \in Threads
    BY NameFacts
  <2>2. CASE pc[w] = "exited"
    <3>1. callback_stopping /\ ready_callbacks = << >> /\ pc[Scheduler] = "exited"
      BY <2>2 DEF StopOK
    <3>2. ~QueueStep \/ SchedulerFires
      BY <3>1 DEF QueueStep, enqueueCallbacks, WorkerTakes
    <3>3. UNCHANGED ready_callbacks
      BY <3>2, QueueSame DEF SchedulerFires, queue
    <3> QED BY <1>2, <3>1, <3>3
  <2>3. CASE pc[w] # "exited"
    <3>1. WorkerWaits(w)
      BY <1>6, <2>1, <2>3, Moves
    <3>2. callback_stopping /\ ready_callbacks = << >> /\ UNCHANGED queue
      BY <1>1, <1>6, <2>1, <3>1 DEF WorkerWaits
    <3> QED BY <3>2 DEF queue
  <2> QED BY <2>2, <2>3
<1>7. ASSUME callback_stopping'
      PROVE  \/ \E t \in Callers : pc'[t] \in ShutdownLabels
             \/ \A w \in Workers \ Shutters : pc'[w] = "exited"
  <2>1. ASSUME NEW t \in Callers, ShutdownJoin(t) PROVE pc'[t] \in ShutdownLabels
    BY <1>1, <2>1 DEF ShutdownJoin, ShutdownLabels
  <2>2. ASSUME NEW t \in Callers, pc[t] \in ShutdownLabels, ShutdownWorkers(t), NEW w \in Workers \ Shutters
        PROVE  pc[w] = "exited"
    BY <2>2 DEF PlacesOK, ShutdownWorkers
  <2>3. \A w \in Workers : pc[w] = "exited" => pc'[w] = "exited"
    BY <1>1, ExitedStays, NameFacts
  <2>4. CASE callback_stopping /\ \A w \in Workers \ Shutters : pc[w] = "exited"
    BY <2>3, <2>4
  <2>5. CASE \E t \in Callers : pc[t] \in ShutdownLabels
    BY <2>2, <2>3, <2>5, Moves
  <2> QED BY <1>3, <1>7, <2>1, <2>4, <2>5 DEF StopOK
<1> QED BY <1>4, <1>5, <1>6, <1>7 DEF StopOK

\* Every callback that was counted as fired is run, queued or due.
LEMMA CountStep ==
  ASSUME TypeOK, HeapOK, StopOK, CountsOK, [Next]_vars
  PROVE  CountsOK'
<1>1. /\ ready_callbacks \in Seq(Ids) /\ due_callbacks \in Seq(Ids)
      /\ ran \in [Ids -> Nat] /\ fired \in [Ids -> Nat]
  BY DEF TypeOK
<1>2. \A id \in Ids : /\ fired[id] \in Nat /\ ran[id] \in Nat
                      /\ Count(ready_callbacks, id) \in Nat /\ Count(due_callbacks, id) \in Nat
                      /\ fired[id] = ran[id] + (Count(ready_callbacks, id) + Count(due_callbacks, id))
  BY <1>1, CountType DEF CountsOK
<1>3. CASE SchedulerFires
  <2> DEFINE ids == {x.id : x \in Due}
  <2>1. /\ fired' = [id \in Ids |-> IF id \in ids THEN fired[id] + 1 ELSE fired[id]]
        /\ UNCHANGED <<ready_callbacks, ran>> /\ pc[Scheduler] = "schedule"
        /\ due_callbacks' = [k \in DOMAIN InOrder(Due) |-> InOrder(Due)[k].id]
    BY <1>3 DEF SchedulerFires, queue
  <2>2. due_callbacks = << >>
    BY <2>1 DEF StopOK
  <2>3. /\ due_callbacks' \in Seq(Ids)
        /\ \A j, k \in 1 .. Len(due_callbacks') : due_callbacks'[j] = due_callbacks'[k] => j = k
        /\ \A id \in Ids : (\E k \in 1 .. Len(due_callbacks') : due_callbacks'[k] = id) <=> id \in ids
    BY <2>1, DueOrder
  <2> HIDE DEF ids
  <2>4. \A id \in Ids : Count(due_callbacks', id) = IF id \in ids THEN 1 ELSE 0
    BY <2>3, CountOnce
  <2>5. ASSUME NEW id \in Ids
        PROVE  fired'[id] = ran'[id] + (Count(ready_callbacks', id) + Count(due_callbacks', id))
    <3>1. Count(due_callbacks, id) = 0
      BY <2>2, CountEmpty
    <3>2. PICK a \in Nat, b \in Nat, c \in Nat :
            a = fired[id] /\ b = ran[id] /\ c = Count(ready_callbacks, id) /\ a = b + (c + 0)
      BY <1>2, <3>1
    <3>3. fired'[id] = (IF id \in ids THEN a + 1 ELSE a) /\ ran'[id] = b /\ Count(ready_callbacks', id) = c
      BY <2>1, <3>2
    <3> QED BY <2>4, <3>2, <3>3
  <2> QED BY <2>5 DEF CountsOK
<1>4. CASE enqueueCallbacks
  <2>1. /\ ready_callbacks' = ready_callbacks \o due_callbacks /\ due_callbacks' = << >>
        /\ UNCHANGED <<ran, fired>>
    BY <1>4 DEF enqueueCallbacks, table
  <2>2. ASSUME NEW id \in Ids
        PROVE  fired'[id] = ran'[id] + (Count(ready_callbacks', id) + Count(due_callbacks', id))
    <3>1. Count(ready_callbacks \o due_callbacks, id) =
            Count(ready_callbacks, id) + Count(due_callbacks, id)
      BY <1>1, CountConcat
    <3>2. Count(ready_callbacks', id) = Count(ready_callbacks, id) + Count(due_callbacks, id)
          /\ Count(due_callbacks', id) = 0
      BY <2>1, <3>1, CountEmpty
    <3> QED BY <1>2, <2>1, <3>2
  <2> QED BY <2>2 DEF CountsOK
<1>5. ASSUME NEW w \in Workers, WorkerTakes(w)
      PROVE  CountsOK'
  <2>1. PICK h \in Ids : h = Head(ready_callbacks)
    BY <1>1, <1>5, HeadTailProperties DEF WorkerTakes
  <2>2. /\ ready_callbacks # << >> /\ ready_callbacks' = Tail(ready_callbacks)
        /\ ran' = [ran EXCEPT ![h] = @ + 1] /\ UNCHANGED <<fired, due_callbacks>>
    BY <1>5, <2>1 DEF WorkerTakes, table
  <2>3. ASSUME NEW id \in Ids
        PROVE  fired'[id] = ran'[id] + (Count(ready_callbacks', id) + Count(due_callbacks', id))
    <3>1. Count(ready_callbacks, id) = (IF h = id THEN 1 ELSE 0) + Count(ready_callbacks', id)
      BY <1>1, <2>1, <2>2, CountTail
    <3>2. Count(ready_callbacks', id) \in Nat
      <4>1. Tail(ready_callbacks) \in Seq(Ids)
        BY <1>1, <2>2, HeadTailProperties
      <4> QED BY <2>2, <4>1, CountType
    <3>3. ran'[id] = ran[id] + (IF h = id THEN 1 ELSE 0)
      BY <1>1, <2>2
    <3>4. fired'[id] = fired[id] /\ Count(due_callbacks', id) = Count(due_callbacks, id)
      BY <2>2
    <3>5. PICK c \in Nat : c = Count(ready_callbacks', id)
      BY <3>2
    <3>6. CASE h = id
      BY <1>2, <3>1, <3>3, <3>4, <3>5, <3>6
    <3>7. CASE h # id
      BY <1>2, <3>1, <3>3, <3>4, <3>5, <3>7
    <3> QED BY <3>6, <3>7
  <2> QED BY <2>3 DEF CountsOK
<1>6. CASE UNCHANGED <<ready_callbacks, due_callbacks, ran, fired>>
  BY <1>6 DEF CountsOK
<1> QED BY <1>3, <1>4, <1>5, <1>6, QueueSame DEF QueueStep

-----------------------------------------------------------------------------
(* The theorems.                                                           *)

\* A new timer satisfies the invariant.
LEMMA InitInv ==
  ASSUME Init
  PROVE  IndInv
<1> USE DEF Init
<1>1. \A t \in Threads : pc[t] = IF t \in Clients THEN "idle"
                                 ELSE IF t = Scheduler THEN "schedule" ELSE "work"
  OBVIOUS
<1>2. pc \in [Threads -> AllLabels]
  BY DEF AllLabels
<1>3. NoTimer \in Entries /\ << >> \in Seq(Ids) /\ \A id \in Ids : ~Active(id)
  BY EmptySeq DEF NoTimer, Entries, Active
<1>4. TypeOK
  <2>1. shutting_down \in BOOLEAN /\ callback_stopping \in BOOLEAN
    OBVIOUS
  <2>2. next_id \in 1 .. MaxTimers + 1
    BY TimerAssumption
  <2> QED BY <1>2, <1>3, <2>1, <2>2 DEF TypeOK, AllLabels
<1>5. PlacesOK
  BY <1>1, NameFacts DEF PlacesOK, SchedulerLabels, ClientLabels, WorkerLabels, ShutdownLabels
<1>6. StopOK
  <2>1. \A w \in Workers : pc[w] = "work"
    BY <1>1, NameFacts
  <2> QED BY <2>1 DEF StopOK
<1>7. HeapOK /\ FiringOK
  BY <1>3 DEF HeapOK, FiringOK
<1>8. NoOversleep
  BY <1>1, NameFacts DEF NoOversleep
<1>9. CountsOK
  <2>1. \A id \in Ids : Count(<< >>, id) = 0
    BY CountEmpty
  <2> QED BY <2>1 DEF CountsOK
<1> QED BY <1>4, <1>5, <1>6, <1>7, <1>8, <1>9 DEF IndInv, Stopping

\* The inductive invariant: the threads are where they can be, a timer that
\* is there has one item in the heap, the scheduler's alarm is early enough,
\* and every callback that fired is run, queued or due.
THEOREM Invariance == Spec => []IndInv
<1>1. Init => IndInv
  BY InitInv
<1>2. IndInv /\ [Next]_vars => IndInv'
  BY TypeStep, PlacesStep, StopStep, HeapStep, SleepStep, CountStep DEF IndInv, Stopping
<1> QED BY <1>1, <1>2, PTL DEF Spec

\* Every variable of the timer keeps its type.
THEOREM TypeCorrect == Spec => []TypeOK
<1>1. IndInv => TypeOK
  BY DEF IndInv, Stopping
<1> QED BY <1>1, Invariance, PTL

\* Although cancel() leaves stale items in the heap, and firing replaces
\* items, every timer in the table has exactly its current item there.
THEOREM HeapIsExact == Spec => []HeapTracksTimers
<1>1. IndInv => HeapTracksTimers
  <2> SUFFICES ASSUME IndInv, NEW id \in Ids, Active(id)
               PROVE  /\ Item(id) \in heap
                      /\ Cardinality({x \in heap : x.id = id}) = 1
    BY DEF HeapTracksTimers, Item
  <2>1. Item(id) \in heap /\ Item(id).id = id
    BY DEF IndInv, HeapOK, Item
  <2>2. {x \in heap : x.id = id} = {Item(id)}
    BY <2>1 DEF IndInv, HeapOK
  <2> QED BY <2>1, <2>2, FS_Singleton
<1> QED BY <1>1, Invariance, PTL

\* Whatever callers do between the scheduler's look at the heap and its
\* wait, it sleeps through no deadline and through no shutdown() without a
\* notification on its way.
THEOREM NoDeadlineIsMissed == Spec => []NoOversleep
<1>1. IndInv => NoOversleep
  BY DEF IndInv
<1> QED BY <1>1, Invariance, PTL

\* A timer that cancel() counted, or that shutdown() cleared, does not fire
\* any more, and a one-shot timer fires once.
THEOREM CancelHolds == Spec => CancelIsFinal
<1> DEFINE A == \A id \in Ids : fired'[id] # fired[id] =>
                  /\ id \notin cancelled /\ ~shutting_down
                  /\ timers[id].interval = 0 => fired[id] = 0
<1>1. IndInv /\ [Next]_vars => [A]_vars
  <2> SUFFICES ASSUME IndInv, [Next]_vars, NEW id \in Ids, fired'[id] # fired[id]
               PROVE  /\ id \notin cancelled /\ ~shutting_down
                      /\ timers[id].interval = 0 => fired[id] = 0
    OBVIOUS
  <2>1. TypeOK /\ HeapOK /\ FiringOK
    BY DEF IndInv, Stopping
  <2>2. SchedulerFires
    BY QueueSame DEF QueueStep, enqueueCallbacks, WorkerTakes, table
  <2>3. id \in {x.id : x \in Due} /\ ~shutting_down
    BY <2>2 DEF SchedulerFires
  <2>4. Active(id)
    BY <2>1, <2>3, DueFacts
  <2> QED BY <2>1, <2>3, <2>4 DEF FiringOK
<1> HIDE DEF A
<1>2. Spec => [][A]_vars
  BY <1>1, Invariance, PTL DEF Spec
<1> QED BY <1>2 DEF CancelIsFinal, A

\* When shutdown() has returned the scheduler has ended, and every worker
\* but one that called it; when all have, no callback that fired was lost.
THEOREM ShutdownLosesNothing == Spec => []ShutdownDrains
<1>1. IndInv => ShutdownDrains
  <2> SUFFICES ASSUME IndInv, callback_stopping, \A t \in Callers : pc[t] \notin ShutdownLabels
               PROVE  /\ pc[Scheduler] = "exited"
                      /\ \A w \in Workers \ Shutters : pc[w] = "exited"
                      /\ (\A w \in Workers : pc[w] = "exited") => ran = fired
    BY DEF ShutdownDrains
  <2>1. pc[Scheduler] = "exited" /\ \A w \in Workers \ Shutters : pc[w] = "exited"
    BY DEF IndInv, Stopping, StopOK
  <2>2. ASSUME \A w \in Workers : pc[w] = "exited"
        PROVE  ran = fired
    <3>1. ready_callbacks = << >> /\ due_callbacks = << >>
      BY <2>1, <2>2, NameFacts DEF IndInv, Stopping, StopOK
    <3>2. ran \in [Ids -> Nat] /\ fired \in [Ids -> Nat]
      BY DEF IndInv, Stopping, TypeOK
    <3>3. ASSUME NEW id \in Ids PROVE ran[id] = fired[id]
      <4>1. Count(ready_callbacks, id) = 0 /\ Count(due_callbacks, id) = 0
        BY <3>1, CountEmpty
      <4>2. fired[id] = ran[id] + (0 + 0)
        BY <4>1 DEF IndInv, CountsOK
      <4> QED BY <3>2, <4>2
    <3> QED BY <3>2, <3>3
  <2> QED BY <2>1, <2>2
<1> QED BY <1>1, Invariance, PTL
=============================================================================
