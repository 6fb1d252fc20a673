-------------------------- MODULE RingBufferProofs --------------------------
(***************************************************************************)
(* For every capacity, every finite set of threads and every set of        *)
(* values, the ring buffer keeps its cells in order, loses no wakeup and   *)
(* implements the bounded FIFO.                                            *)
(***************************************************************************)
EXTENDS RingBuffer, FiniteSetTheorems, SequenceTheorems, TLAPS

\* How far cell i is from the oldest element.
Offset(i) == IF i >= head THEN i - head ELSE i - head + Capacity

\* Occupancy, with the offset of a cell in place of the search for it.
OccupancyByOffset ==
  /\ tail = IF size = Capacity THEN head ELSE Index(size)
  /\ \A i \in Cells : buffer[i] # Raw <=> Offset(i) < size

\* What a thread has in hand, by the method it is in and its place there.
CallOK ==
  \A t \in Threads :
    /\ pc[t] = "idle" => op[t] = "none"
    /\ pc[t] \in {"asleep", "awake", "expired"} => op[t] \in Pushes \cup Pops
    /\ pc[t] = "notify_full" => op[t] = "close"
    /\ op[t] = "none" => pc[t] = "idle"
    /\ op[t] \in Pushes => (value[t] = Raw <=> pc[t] = "notify")
    /\ op[t] \in Pops => (value[t] # Raw <=> pc[t] = "notify")

IndInv == TypeOK /\ OccupancyByOffset /\ CallOK

\* The cell at offset k is the one Index() names: Occupancy and its form by
\* offsets say the same.
LEMMA OffsetIndex ==
  ASSUME TypeOK
  PROVE  /\ \A k \in 0 .. Capacity - 1 : Index(k) \in Cells /\ Offset(Index(k)) = k
         /\ \A i \in Cells : Offset(i) \in Cells /\ Index(Offset(i)) = i
BY CapacityAssumption DEF TypeOK, Cells, Index, Offset

\* The two forms of Occupancy.
LEMMA OccupancyForms ==
  ASSUME TypeOK
  PROVE  Occupancy <=> OccupancyByOffset
<1>1. ASSUME NEW i \in Cells
      PROVE  (\E k \in 0 .. size - 1 : i = Index(k)) <=> Offset(i) < size
  <2>1. size \in 0 .. Capacity /\ Offset(i) \in 0 .. Capacity - 1 /\ i = Index(Offset(i))
    BY OffsetIndex DEF TypeOK, Cells
  <2>2. ASSUME NEW k \in 0 .. size - 1, i = Index(k)
        PROVE  Offset(i) < size
    BY <2>1, <2>2, CapacityAssumption, OffsetIndex
  <2>3. ASSUME Offset(i) < size
        PROVE  Offset(i) \in 0 .. size - 1
    BY <2>1, <2>3, CapacityAssumption
  <2> QED BY <2>1, <2>2, <2>3
<1> QED BY <1>1 DEF Occupancy, OccupancyByOffset

\* Is thread t, in method m, at a place where it takes the mutex?
Entering(t, m) == \/ pc[t] = "idle"
                  \/ pc[t] \in {"awake", "expired"} /\ op[t] = m

-----------------------------------------------------------------------------
\* A new buffer satisfies the invariant.
LEMMA InitInv == Init => IndInv
<1> SUFFICES ASSUME Init PROVE IndInv
  OBVIOUS
<1> USE DEF Init
<1>1. TypeOK
  <2>1. closed \in BOOLEAN
    OBVIOUS
  <2> QED BY <2>1, CapacityAssumption DEF TypeOK, Cells
<1>2. OccupancyByOffset
  BY CapacityAssumption DEF OccupancyByOffset, Cells, Index, Offset
<1>3. CallOK
  BY DEF CallOK, Pushes, Pops
<1> QED BY <1>1, <1>2, <1>3 DEF IndInv

\* pushLocked(), overwriting too, keeps the invariant.
LEMMA StoreInv ==
  ASSUME IndInv, NEW t \in Threads, NEW m \in Pushes, NEW v \in Values, Store(t, m, v)
  PROVE  IndInv'
<1> USE DEF IndInv
<1>1. TypeOK'
  BY CapacityAssumption DEF TypeOK, Store, Call, Cells, nextIndex, Pushes, Pops
<1>2. OccupancyByOffset'
  BY CapacityAssumption, RawAssumption
     DEF TypeOK, OccupancyByOffset, Store, Cells, nextIndex, Index, Offset
<1>3. CallOK'
  BY RawAssumption DEF TypeOK, CallOK, Store, Call, Pushes, Pops
<1> QED BY <1>1, <1>2, <1>3

\* popLocked() keeps the invariant.
LEMMA TakeInv ==
  ASSUME IndInv, NEW t \in Threads, NEW m \in Pops, size > 0, Take(t, m)
  PROVE  IndInv'
<1> USE DEF IndInv
<1>1. TypeOK'
  BY CapacityAssumption DEF TypeOK, Take, Call, Cells, nextIndex, Pushes, Pops
<1>2. OccupancyByOffset'
  BY CapacityAssumption, RawAssumption
     DEF TypeOK, OccupancyByOffset, Take, Cells, nextIndex, Index, Offset
<1>3. buffer[head] # Raw
  BY CapacityAssumption DEF TypeOK, OccupancyByOffset, Offset, Cells
<1>4. CallOK'
  BY <1>3 DEF TypeOK, CallOK, Take, Call, Pushes, Pops
<1> QED BY <1>1, <1>2, <1>4

\* A call that leaves the ring alone: it returns, or goes to sleep or awakes.
LEMMA CallInv ==
  ASSUME IndInv, NEW t \in Threads, NEW m, NEW label, NEW v, Call(t, m, label, v),
         UNCHANGED <<ring, closed, full_policy>>,
         \/ m = "none" /\ label = "idle" /\ v = Raw
         \/ m \in Pushes /\ label \in {"asleep", "awake", "expired"} /\ v \in Values
         \/ m \in Pops /\ label \in {"asleep", "awake", "expired"} /\ v = Raw
  PROVE  IndInv'
<1> USE DEF IndInv
<1>1. TypeOK'
  BY DEF TypeOK, Call, ring, Pushes, Pops
<1>2. OccupancyByOffset'
  BY DEF OccupancyByOffset, ring, Index, Offset
<1>3. CallOK'
  BY RawAssumption DEF TypeOK, CallOK, Call, Pushes, Pops
<1> QED BY <1>1, <1>2, <1>3

\* The section of a push keeps the invariant, whether it stores, fails or
\* sleeps.
LEMMA PushSectionInv ==
  ASSUME IndInv, NEW t \in Threads, NEW m \in Pushes, NEW v \in Values, NEW at,
         PushSection(t, m, v, at)
  PROVE  IndInv'
BY StoreInv, CallInv DEF PushSection, Return

\* The section of a pop keeps the invariant, whether it takes, fails or
\* sleeps.
LEMMA PopSectionInv ==
  ASSUME IndInv, NEW t \in Threads, NEW m \in Pops, NEW at, PopSection(t, m, at)
  PROVE  IndInv'
BY TakeInv, CallInv DEF PopSection, Return

\* A thread that woke looks again, as a push or a pop.
LEMMA RecheckInv ==
  ASSUME IndInv, NEW t \in Threads, Recheck(t)
  PROVE  IndInv'
<1>1. CASE op[t] \in Pushes /\ PushSection(t, op[t], value[t], pc[t])
  <2>1. value[t] \in Values
    BY <1>1 DEF Recheck, IndInv, CallOK, TypeOK
  <2> QED BY <1>1, <2>1, PushSectionInv
<1>2. CASE op[t] \in Pops /\ PopSection(t, op[t], pc[t])
  BY <1>2, PopSectionInv
<1> QED BY <1>1, <1>2 DEF Recheck

\* A wait that returns by itself or by its deadline keeps the invariant.
LEMMA WaitReturnsInv ==
  ASSUME IndInv, NEW t \in Threads, WaitReturns(t)
  PROVE  IndInv'
<1>1. \/ op[t] \in Pushes /\ value[t] \in Values
      \/ op[t] \in Pops /\ value[t] = Raw
  BY DEF WaitReturns, IndInv, CallOK, TypeOK
<1> QED BY <1>1, CallInv DEF WaitReturns

\* close() keeps the invariant.
LEMMA CloseInv ==
  ASSUME IndInv, NEW t \in Threads, close(t)
  PROVE  IndInv'
<1> USE DEF IndInv, close, ring
<1>1. TypeOK'
  BY DEF TypeOK, Call
<1>2. OccupancyByOffset'
  BY DEF OccupancyByOffset, Index, Offset
<1>3. CallOK'
  BY DEF TypeOK, CallOK, Call, Pushes, Pops
<1> QED BY <1>1, <1>2, <1>3

\* clear() keeps the invariant.
LEMMA ClearInv ==
  ASSUME IndInv, NEW t \in Threads, clear(t)
  PROVE  IndInv'
<1> USE DEF IndInv
<1>0. \A i \in Cells : buffer'[i] = Raw
  BY OccupancyForms DEF clear, Occupancy
<1>1. TypeOK'
  BY CapacityAssumption DEF TypeOK, clear, Call, Cells
<1>2. OccupancyByOffset'
  BY <1>0, CapacityAssumption DEF OccupancyByOffset, clear, Index, Offset, Cells
<1>3. CallOK'
  BY DEF TypeOK, CallOK, clear, Call, Pushes, Pops
<1> QED BY <1>1, <1>2, <1>3

\* A notification changes nothing but the places of its thread and of the
\* sleepers it wakes.
LEMMA NotifyInv ==
  ASSUME IndInv, NEW t \in Threads,
         NotifyAfterPush(t) \/ NotifyAfterPop(t) \/ NotifyAfterClear(t) \/ NotifyAfterClose(t)
  PROVE  IndInv'
<1> USE DEF IndInv, NotifyAfterPush, NotifyAfterPop, NotifyAfterClear, NotifyAfterClose,
            NotifyOne, NotifyAll, Returned, Sleepers, ring
<1>1. TypeOK'
  BY DEF TypeOK
<1>2. OccupancyByOffset'
  BY DEF OccupancyByOffset, Index, Offset
<1>3. CallOK'
  BY DEF TypeOK, CallOK, Pushes, Pops
<1> QED BY <1>1, <1>2, <1>3

\* The invariant is inductive.
LEMMA StepInv == IndInv /\ [Next]_vars => IndInv'
<1> SUFFICES ASSUME IndInv, [Next]_vars PROVE IndInv'
  OBVIOUS
<1>1. CASE UNCHANGED vars
  BY <1>1 DEF vars, ring, IndInv, TypeOK, OccupancyByOffset, CallOK, Index, Offset
<1>2. ASSUME NEW t \in Threads, NEW m \in Pushes, NEW v \in Values, push(t, m, v)
      PROVE  IndInv'
  BY <1>2, PushSectionInv DEF push
<1>3. ASSUME NEW t \in Threads, NEW m \in Pops, pop(t, m)
      PROVE  IndInv'
  BY <1>3, PopSectionInv DEF pop
<1> QED BY <1>1, <1>2, <1>3, CloseInv, ClearInv, WaitReturnsInv, RecheckInv, NotifyInv
        DEF Next, Step

\* The inductive invariant of the ring buffer.
LEMMA Invariance == Spec => []IndInv
BY InitInv, StepInv, PTL DEF Spec

\* The ring is well typed: in particular no cursor leaves the array, and
\* size_ never exceeds the capacity.
THEOREM TypeCorrect == Spec => []TypeOK
BY Invariance, PTL DEF IndInv

\* Exactly the cells between head_ and tail_ hold an object.
THEOREM CellsInOrder == Spec => []Occupancy
<1>1. IndInv => Occupancy
  BY OccupancyForms DEF IndInv
<1> QED BY <1>1, Invariance, PTL

-----------------------------------------------------------------------------
(* The buffer implements the bounded FIFO.                                 *)

\* The refinement mapping.
Queue == [k \in 1 .. size |-> buffer[Index(k - 1)]]
Taken == [t \in Threads |-> IF op[t] \in Pops THEN value[t] ELSE Raw]

QueueOK == /\ Queue \in Seq(Values)
           /\ Len(Queue) = size
           /\ \A k \in 1 .. size : Queue[k] = buffer[Index(k - 1)]

\* Occupied cells hold values, so the mapped queue is a sequence of values.
LEMMA QueueIsSeq == IndInv => QueueOK
<1> SUFFICES ASSUME IndInv PROVE QueueOK
  OBVIOUS
<1> USE DEF IndInv
<1>1. size \in Nat
  BY CapacityAssumption DEF TypeOK
<1>2. ASSUME NEW k \in 1 .. size
      PROVE  buffer[Index(k - 1)] \in Values
  <2>1. k - 1 \in 0 .. Capacity - 1 /\ k - 1 < size
    BY <1>1, CapacityAssumption DEF TypeOK
  <2>2. Index(k - 1) \in Cells /\ Offset(Index(k - 1)) < size
    BY <2>1, OffsetIndex
  <2> QED BY <2>2 DEF TypeOK, OccupancyByOffset
<1>3. Queue \in [1 .. size -> Values]
  BY <1>2 DEF Queue
<1>4. Queue \in Seq(Values)
  BY <1>1, <1>3, SeqDef
<1> QED BY <1>1, <1>3, <1>4 DEF Queue, QueueOK

\* The same after a step.
LEMMA QueueIsSeqNext == IndInv' => QueueOK'
BY QueueIsSeq, PTL

\* A push into a free slot appends; one over the oldest element drops that.
LEMMA StoreAppends ==
  ASSUME IndInv, IndInv', NEW t \in Threads, NEW m, NEW v \in Values, Store(t, m, v)
  PROVE  /\ size < Capacity => Queue' = Append(Queue, v)
         /\ size = Capacity => Queue' = Append(Tail(Queue), v)
<1>0. size \in 0 .. Capacity /\ Queue \in Seq(Values) /\ Len(Queue) = size
      /\ \A k \in 1 .. size : Queue[k] = buffer[Index(k - 1)]
  BY QueueIsSeq DEF IndInv, TypeOK, QueueOK
<1>1. Queue' \in Seq(Values) /\ Len(Queue') = size'
      /\ \A k \in 1 .. size' : Queue'[k] = buffer'[Index(k - 1)']
  BY QueueIsSeqNext DEF QueueOK
<1>2. CASE size < Capacity
  <2>1. size' = size + 1
    BY <1>2, <1>0, CapacityAssumption DEF Store
  <2>2. ASSUME NEW k \in 1 .. size PROVE buffer'[Index(k - 1)'] = buffer[Index(k - 1)]
    BY <1>2, <1>0, CapacityAssumption
       DEF IndInv, TypeOK, OccupancyByOffset, Store, Index, Cells
  <2>3. buffer'[Index(size - 1)'] = v
    BY <1>2, <1>0, <2>1, CapacityAssumption
       DEF IndInv, TypeOK, OccupancyByOffset, Store, Index, Cells
  <2>4. Append(Queue, v) \in Seq(Values) /\ Len(Append(Queue, v)) = size + 1
        /\ (\A k \in 1 .. size : Append(Queue, v)[k] = Queue[k])
        /\ Append(Queue, v)[size + 1] = v
    BY <1>0
  <2>5. \A k \in 1 .. size + 1 : Queue'[k] = Append(Queue, v)[k]
    <3> TAKE k \in 1 .. size + 1
    <3>1. CASE k \in 1 .. size
      BY <3>1, <1>0, <1>1, <2>1, <2>2, <2>4
    <3>2. CASE k = size + 1
      <4>1. k - 1 = size' - 1 /\ k \in 1 .. size'
        BY <3>2, <1>0, <2>1, CapacityAssumption
      <4>2. Queue'[k] = buffer'[Index(k - 1)']
        BY <4>1, <1>1
      <4>3. Queue'[k] = v
        BY <4>1, <4>2, <2>3 DEF Index
      <4> QED BY <4>3, <3>2, <2>4
    <3> QED BY <3>1, <3>2, <1>0, CapacityAssumption
  <2>6. Queue' = Append(Queue, v)
    BY <1>1, <2>1, <2>4, <2>5, SeqEqual
  <2> QED BY <2>6, <1>2, <1>0, CapacityAssumption
<1>3. CASE size = Capacity
  <2>1. size' = size /\ size \in Nat \ {0} /\ Queue # <<>>
    BY <1>3, <1>0, CapacityAssumption DEF Store
  <2>2. ASSUME NEW k \in 1 .. size - 1 PROVE buffer'[Index(k - 1)'] = buffer[Index(k)]
    BY <1>3, <1>0, CapacityAssumption
       DEF IndInv, TypeOK, OccupancyByOffset, Store, Index, Cells, nextIndex
  <2>3. buffer'[Index(size - 1)'] = v
    BY <1>3, <1>0, CapacityAssumption
       DEF IndInv, TypeOK, OccupancyByOffset, Store, Index, Cells, nextIndex
  <2>4. Tail(Queue) \in Seq(Values) /\ Len(Tail(Queue)) = size - 1
        /\ \A k \in 1 .. size - 1 : Tail(Queue)[k] = Queue[k + 1]
    BY <1>0, <2>1, HeadTailProperties
  <2>5. Append(Tail(Queue), v) \in Seq(Values) /\ Len(Append(Tail(Queue), v)) = size
        /\ (\A k \in 1 .. size - 1 : Append(Tail(Queue), v)[k] = Tail(Queue)[k])
        /\ Append(Tail(Queue), v)[size] = v
    BY <2>4, <2>1
  <2>6. \A k \in 1 .. size : Queue'[k] = Append(Tail(Queue), v)[k]
    <3> TAKE k \in 1 .. size
    <3>1. CASE k \in 1 .. size - 1
      <4>1. k + 1 \in 1 .. size /\ (k + 1) - 1 = k
        BY <3>1, <2>1
      <4>2. Queue[k + 1] = buffer[Index(k)]
        BY <4>1, <1>0
      <4>3. Queue'[k] = buffer'[Index(k - 1)']
        BY <1>1, <2>1
      <4>4. Append(Tail(Queue), v)[k] = Queue[k + 1]
        BY <3>1, <2>4, <2>5
      <4> QED BY <3>1, <4>2, <4>3, <4>4, <2>2
    <3>2. CASE k = size
      <4>1. k - 1 = size' - 1 /\ k \in 1 .. size'
        BY <3>2, <2>1
      <4>2. Queue'[k] = buffer'[Index(k - 1)']
        BY <4>1, <1>1
      <4>3. Queue'[k] = v
        BY <4>1, <4>2, <2>3 DEF Index
      <4>4. Append(Tail(Queue), v)[k] = v
        BY <3>2, <2>5
      <4> QED BY <4>3, <4>4
    <3>3. k \in 1 .. size - 1 \/ k = size
      BY <2>1
    <3> QED BY <3>1, <3>2, <3>3, Zenon
  <2>7. Queue' = Append(Tail(Queue), v)
    BY <1>1, <2>1, <2>5, <2>6, SeqEqual
  <2> QED BY <2>7, <1>3, <1>0, CapacityAssumption
<1> QED BY <1>2, <1>3

\* A pop takes the oldest element.
LEMMA TakeRemovesHead ==
  ASSUME IndInv, IndInv', NEW t \in Threads, NEW m, size > 0, Take(t, m)
  PROVE  Queue # <<>> /\ buffer[head] = Head(Queue) /\ Queue' = Tail(Queue)
<1>0. size \in 1 .. Capacity /\ Queue \in Seq(Values) /\ Len(Queue) = size
      /\ \A k \in 1 .. size : Queue[k] = buffer[Index(k - 1)]
  BY QueueIsSeq, CapacityAssumption DEF IndInv, TypeOK, QueueOK
<1>1. Queue' \in Seq(Values) /\ Len(Queue') = size - 1
      /\ \A k \in 1 .. size - 1 : Queue'[k] = buffer'[Index(k - 1)']
  BY QueueIsSeqNext DEF QueueOK, Take
<1>2. Queue # <<>>
  BY <1>0
<1>3. buffer[head] = Head(Queue)
  <2>1. 1 \in 1 .. size /\ Index(1 - 1) = head
    BY <1>0, CapacityAssumption DEF IndInv, TypeOK, Index, Cells
  <2> QED BY <2>1, <1>0
<1>4. ASSUME NEW k \in 1 .. size - 1 PROVE buffer'[Index(k - 1)'] = buffer[Index(k)]
  BY <1>0, CapacityAssumption
     DEF IndInv, TypeOK, OccupancyByOffset, Take, Index, Cells, nextIndex
<1>5. Tail(Queue) \in Seq(Values) /\ Len(Tail(Queue)) = size - 1
      /\ \A k \in 1 .. size - 1 : Tail(Queue)[k] = Queue[k + 1]
  BY <1>0, <1>2, HeadTailProperties
<1>6. \A k \in 1 .. size - 1 : Queue'[k] = Tail(Queue)[k]
  <2> TAKE k \in 1 .. size - 1
  <2>1. k + 1 \in 1 .. size /\ (k + 1) - 1 = k
    BY <1>0, CapacityAssumption
  <2>2. Queue[k + 1] = buffer[Index(k)]
    BY <2>1, <1>0
  <2> QED BY <2>2, <1>1, <1>4, <1>5
<1> QED BY <1>1, <1>2, <1>3, <1>5, <1>6, SeqEqual

\* What a step that leaves the ring alone does to the mapping.
LEMMA RingUnchanged ==
  ASSUME UNCHANGED <<ring, full_policy>>
  PROVE  Queue' = Queue /\ (full_policy = "OverwriteOldest")' = (full_policy = "OverwriteOldest")
BY DEF Queue, Index, ring

\* Calls that return without an element, sleep or awake are not seen.
LEMMA CallStutters ==
  ASSUME IndInv, NEW t \in Threads, NEW m, NEW label, NEW v, Call(t, m, label, v),
         UNCHANGED <<ring, closed, full_policy>>,
         \/ m \notin Pops
         \/ m \in Pops /\ v = Raw,
         pc[t] # "notify"
  PROVE  UNCHANGED BQ!vars
<1>1. Taken' = Taken
  BY DEF Taken, Call, IndInv, TypeOK, CallOK
<1> QED BY <1>1, RingUnchanged DEF BQ!vars, Queue, Taken

\* A push appends to the abstract queue, or replaces its oldest element, or
\* changes nothing.
LEMMA PushSectionRefines ==
  ASSUME IndInv, IndInv', NEW t \in Threads, NEW m \in Pushes, NEW v \in Values, NEW at,
         Entering(t, m), PushSection(t, m, v, at)
  PROVE  [BQ!Next]_BQ!vars
<1>0. pc[t] # "notify" /\ (op[t] \in Pops => FALSE) /\ m \notin Pops
  BY DEF Entering, IndInv, CallOK, Pushes, Pops
<1>1. CASE hasWritableSlotLocked /\ Store(t, m, v)
  <2>1. Taken' = Taken
    BY <1>0, <1>1 DEF Taken, Store, Call, IndInv, TypeOK
  <2>2. (full_policy = "OverwriteOldest")' = (full_policy = "OverwriteOldest")
    BY <1>1 DEF Store
  <2>3. Len(Queue) = size /\ size \in 0 .. Capacity
    BY QueueIsSeq DEF QueueOK, IndInv, TypeOK
  <2>4. CASE size < Capacity
    <3>1. BQ!Enqueue(v)
      BY <1>1, <2>1, <2>2, <2>3, <2>4, StoreAppends DEF BQ!Enqueue, Queue, Taken
    <3> QED BY <3>1 DEF BQ!Next
  <2>5. CASE size = Capacity
    <3>1. full_policy = "OverwriteOldest"
      BY <1>1, <2>5, CapacityAssumption DEF hasWritableSlotLocked
    <3>2. Queue' = Append(Tail(Queue), v)
      BY <1>1, <2>5, StoreAppends
    <3>3. BQ!Overwrite(v)
      BY <2>1, <2>2, <2>3, <2>5, <3>1, <3>2 DEF BQ!Overwrite, Queue, Taken
    <3> QED BY <3>3 DEF BQ!Next
  <2> QED BY <2>3, <2>4, <2>5, CapacityAssumption
<1>2. CASE Return(t) /\ UNCHANGED <<ring, closed, full_policy>>
  BY <1>0, <1>2, CallStutters DEF Return, Pops
<1>3. CASE Call(t, m, "asleep", v) /\ UNCHANGED <<ring, closed, full_policy>>
  BY <1>0, <1>3, CallStutters
<1> QED BY <1>1, <1>2, <1>3 DEF PushSection

\* A pop takes the abstract queue's oldest element, or changes nothing.
LEMMA PopSectionRefines ==
  ASSUME IndInv, IndInv', NEW t \in Threads, NEW m \in Pops, NEW at,
         Entering(t, m), PopSection(t, m, at)
  PROVE  [BQ!Next]_BQ!vars
<1>0. pc[t] # "notify"
  BY DEF Entering
<1>1. CASE size > 0 /\ Take(t, m)
  <2>1. Taken[t] = Raw
    BY <1>0 DEF Taken, IndInv, CallOK
  <2>2. Taken' = [Taken EXCEPT ![t] = buffer[head]]
    BY <1>1 DEF Taken, Take, Call, IndInv, TypeOK
  <2>3. BQ!Dequeue(t)
    BY <1>1, <2>1, <2>2, TakeRemovesHead DEF BQ!Dequeue, Queue, Taken, Take
  <2> QED BY <2>3 DEF BQ!Next
<1>2. CASE Return(t) /\ UNCHANGED <<ring, closed, full_policy>>
  BY <1>0, <1>2, CallStutters DEF Return, Pops
<1>3. CASE Call(t, m, "asleep", Raw) /\ UNCHANGED <<ring, closed, full_policy>>
  BY <1>0, <1>3, CallStutters
<1> QED BY <1>1, <1>2, <1>3 DEF PopSection

\* A thread that woke does what a push or a pop does.
LEMMA RecheckRefines ==
  ASSUME IndInv, IndInv', NEW t \in Threads, Recheck(t)
  PROVE  [BQ!Next]_BQ!vars
<1>0. Entering(t, op[t])
  BY DEF Recheck, Entering
<1>1. CASE op[t] \in Pushes /\ PushSection(t, op[t], value[t], pc[t])
  <2>1. value[t] \in Values
    BY <1>1 DEF Recheck, IndInv, CallOK, TypeOK
  <2> QED BY <1>0, <1>1, <2>1, PushSectionRefines
<1>2. CASE op[t] \in Pops /\ PopSection(t, op[t], pc[t])
  BY <1>0, <1>2, PopSectionRefines
<1> QED BY <1>1, <1>2 DEF Recheck

\* clear() is the abstract one.
LEMMA ClearRefines ==
  ASSUME IndInv, IndInv', NEW t \in Threads, clear(t)
  PROVE  BQ!Clear
<1>1. Queue' = <<>>
  <2>1. Queue' \in Seq(Values) /\ Len(Queue') = 0
    BY QueueIsSeqNext DEF clear, QueueOK
  <2> QED BY <2>1
<1>2. Taken' = Taken
  BY DEF clear, Call, Taken, IndInv, TypeOK, CallOK, Pops
<1> QED BY <1>1, <1>2 DEF BQ!Clear, Queue, Taken, clear

\* The notification after a pop is where its element is delivered.
LEMMA NotifyAfterPopRefines ==
  ASSUME IndInv, NEW t \in Threads, NotifyAfterPop(t)
  PROVE  BQ!Deliver(t)
<1>1. Taken[t] # Raw
  BY DEF NotifyAfterPop, Taken, IndInv, CallOK
<1>2. Taken' = [Taken EXCEPT ![t] = Raw]
  BY DEF NotifyAfterPop, Returned, Taken, IndInv, TypeOK, Pops
<1>3. Queue' = Queue /\ (full_policy = "OverwriteOldest")' = (full_policy = "OverwriteOldest")
  BY RingUnchanged DEF NotifyAfterPop
<1> QED BY <1>1, <1>2, <1>3 DEF BQ!Deliver, Queue, Taken

\* A notification that hands out no element is a stutter.
LEMMA OtherNotifyRefines ==
  ASSUME IndInv, NEW t \in Threads,
         NotifyAfterPush(t) \/ NotifyAfterClear(t) \/ NotifyAfterClose(t)
  PROVE  UNCHANGED BQ!vars
<1>1. Taken' = Taken
  BY DEF NotifyAfterPush, NotifyAfterClear, NotifyAfterClose, Returned, Taken, IndInv,
         TypeOK, CallOK, Pushes, Pops
<1>2. Queue' = Queue /\ (full_policy = "OverwriteOldest")' = (full_policy = "OverwriteOldest")
  BY RingUnchanged DEF NotifyAfterPush, NotifyAfterClear, NotifyAfterClose
<1> QED BY <1>1, <1>2 DEF BQ!vars, Queue, Taken

\* Every step is a step of the bounded FIFO or a stutter.
LEMMA StepRefines == IndInv /\ IndInv' /\ [Next]_vars => [BQ!Next]_BQ!vars
<1> SUFFICES ASSUME IndInv, IndInv', [Next]_vars PROVE [BQ!Next]_BQ!vars
  OBVIOUS
<1>1. CASE UNCHANGED vars
  BY <1>1, RingUnchanged DEF vars, BQ!vars, Queue
<1>2. ASSUME NEW t \in Threads, NEW m \in Pushes, NEW v \in Values, push(t, m, v)
      PROVE  [BQ!Next]_BQ!vars
  BY <1>2, PushSectionRefines DEF push, Entering
<1>3. ASSUME NEW t \in Threads, NEW m \in Pops, pop(t, m)
      PROVE  [BQ!Next]_BQ!vars
  BY <1>3, PopSectionRefines DEF pop, Entering
<1>4. ASSUME NEW t \in Threads, close(t)
      PROVE  [BQ!Next]_BQ!vars
  <2>1. Taken' = Taken
    BY <1>4 DEF close, Call, Taken, IndInv, TypeOK, CallOK, Pops
  <2> QED BY <1>4, <2>1, RingUnchanged DEF close, BQ!vars, Queue, Taken
<1>5. ASSUME NEW t \in Threads, clear(t)
      PROVE  [BQ!Next]_BQ!vars
  BY <1>5, ClearRefines DEF BQ!Next
<1>6. ASSUME NEW t \in Threads, WaitReturns(t)
      PROVE  [BQ!Next]_BQ!vars
  <2>1. op[t] \notin Pops \/ value[t] = Raw
    BY <1>6 DEF WaitReturns, IndInv, CallOK
  <2> QED BY <1>6, <2>1, CallStutters DEF WaitReturns
<1>7. ASSUME NEW t \in Threads, NotifyAfterPop(t)
      PROVE  [BQ!Next]_BQ!vars
  BY <1>7, NotifyAfterPopRefines DEF BQ!Next
<1> QED BY <1>1, <1>2, <1>3, <1>4, <1>5, <1>6, <1>7, RecheckRefines, OtherNotifyRefines
        DEF Next, Step

\* Every behaviour of the ring buffer is one of the bounded FIFO: elements
\* leave in the order they came, each to one consumer, and only overwriting
\* and clear() drop any.
THEOREM Refinement == Spec => ImplementsBoundedQueue
<1>1. Init => BQ!Init
  <2> SUFFICES ASSUME Init PROVE BQ!Init
    OBVIOUS
  <2>1. Queue = <<>>
    <3>1. Queue \in Seq(Values) /\ Len(Queue) = 0
      BY InitInv, QueueIsSeq DEF QueueOK, Init
    <3> QED BY <3>1
  <2>2. Taken = [t \in Threads |-> Raw]
    BY DEF Init, Taken
  <2> QED BY <2>1, <2>2 DEF BQ!Init, Queue, Taken
<1> QED BY <1>1, StepRefines, Invariance, PTL DEF Spec, ImplementsBoundedQueue, BQ!Spec

-----------------------------------------------------------------------------
(* No wakeup is lost.                                                      *)

\* Threads that will take an element, or tell a consumer of one; and those
\* that will fill a slot, or tell a producer of one.
Takers == At({"awake", "expired"}, Pops) \cup At({"notify"}, Pushes)
Putters == At({"awake", "expired"}, Pushes) \cup At({"notify"}, Pops)
Closers(labels) == At(labels, {"close"})
Clearers == At({"notify"}, {"clear"})

\* The two halves of NoLostWakeup.
ConsumersOK ==
  Sleepers(Pops) # {} =>
    \/ Closers({"notify"}) # {}
    \/ ~closed /\ size <= Cardinality(Takers)
ProducersOK ==
  Sleepers(Pushes) # {} =>
    \/ Closers({"notify", "notify_full"}) # {}
    \/ ~closed /\ (Clearers # {} \/ Capacity - size <= Cardinality(Putters))

\* NoLostWakeup is one statement of consumers and one of producers.
LEMMA WakeupHalves == NoLostWakeup <=> ConsumersOK /\ ProducersOK
BY DEF NoLostWakeup, ConsumersOK, ProducersOK, Takers, Putters, Closers, Clearers

\* Sets of threads are finite; how their sizes compare.
LEMMA Counting ==
  ASSUME NEW S \in SUBSET Threads, NEW T \in SUBSET Threads
  PROVE  /\ Cardinality(S) \in Nat /\ Cardinality(T) \in Nat
         /\ S \subseteq T => Cardinality(S) <= Cardinality(T)
         /\ \A t \in Threads : S \subseteq T \cup {t} => Cardinality(S) <= Cardinality(T) + 1
         /\ \A t \in Threads : t \notin S /\ S \cup {t} \subseteq T
                               => Cardinality(S) + 1 <= Cardinality(T)
         /\ \A t, u \in Threads : u \notin S /\ (S \ {t}) \cup {u} \subseteq T
                               => Cardinality(S) <= Cardinality(T)
<1>1. IsFiniteSet(S) /\ IsFiniteSet(T)
  BY ThreadsAssumption, FS_Subset
<1>2. Cardinality(S) \in Nat /\ Cardinality(T) \in Nat
  BY <1>1, FS_CardinalityType
<1>3. S \subseteq T => Cardinality(S) <= Cardinality(T)
  BY <1>1, FS_Subset
<1>4. ASSUME NEW t \in Threads, S \subseteq T \cup {t}
      PROVE  Cardinality(S) <= Cardinality(T) + 1
  <2>1. /\ IsFiniteSet(T \cup {t})
        /\ Cardinality(T \cup {t}) = IF t \in T THEN Cardinality(T) ELSE Cardinality(T) + 1
    BY <1>1, FS_AddElement
  <2>2. Cardinality(S) <= Cardinality(T \cup {t}) /\ Cardinality(T \cup {t}) \in Nat
    BY <2>1, <1>4, FS_Subset, FS_CardinalityType
  <2> QED BY <1>2, <2>1, <2>2
<1>5. ASSUME NEW t \in Threads, t \notin S, S \cup {t} \subseteq T
      PROVE  Cardinality(S) + 1 <= Cardinality(T)
  <2>1. IsFiniteSet(S \cup {t}) /\ Cardinality(S \cup {t}) = Cardinality(S) + 1
    BY <1>1, <1>5, FS_AddElement
  <2> QED BY <1>1, <1>5, <2>1, FS_Subset
<1>6. ASSUME NEW t \in Threads, NEW u \in Threads, u \notin S, (S \ {t}) \cup {u} \subseteq T
      PROVE  Cardinality(S) <= Cardinality(T)
  <2>1. CASE t \notin S
    <3>1. S \subseteq T
      BY <1>6, <2>1
    <3> QED BY <1>3, <3>1
  <2>2. CASE t \in S
    <3>1. IsFiniteSet(S \ {t}) /\ Cardinality(S \ {t}) = Cardinality(S) - 1
      BY <1>1, <2>2, FS_RemoveElement
    <3>2. Cardinality((S \ {t}) \cup {u}) = Cardinality(S) - 1 + 1
          /\ IsFiniteSet((S \ {t}) \cup {u})
      BY <1>6, <3>1, FS_AddElement
    <3>3. Cardinality((S \ {t}) \cup {u}) <= Cardinality(T)
      BY <1>1, <1>6, <3>2, FS_Subset
    <3> QED BY <1>2, <3>2, <3>3
  <2> QED BY <2>1, <2>2
<1> QED BY <1>2, <1>3, <1>4, <1>5, <1>6

\* An element that is stored has its producer on the way to notify a
\* consumer.
LEMMA StoreWakes ==
  ASSUME IndInv, IndInv', NoLostWakeup, NEW t \in Threads, NEW m \in Pushes, NEW v \in Values,
         Entering(t, m), Store(t, m, v)
  PROVE  NoLostWakeup'
<1> DEFINE Wakers == <<Sleepers(Pops), Sleepers(Pushes), Closers({"notify"}),
                       Closers({"notify", "notify_full"}), Clearers, closed>>
<1>1. UNCHANGED Wakers
  BY DEF Store, Call, Entering, IndInv, TypeOK, CallOK, Sleepers, Closers, Clearers, At,
         Pushes, Pops
<1>2. t \notin Takers /\ Takers \cup {t} \subseteq Takers'
  BY DEF Store, Call, Entering, IndInv, TypeOK, CallOK, Takers, At, Pushes, Pops
<1>3. Putters \subseteq Putters' \cup {t}
  BY DEF Store, Call, Entering, IndInv, TypeOK, CallOK, Putters, At, Pushes, Pops
<1>4. Takers \in SUBSET Threads /\ Takers' \in SUBSET Threads
      /\ Putters \in SUBSET Threads /\ Putters' \in SUBSET Threads
  BY DEF Takers, Putters, At
<1>5. size \in 0 .. Capacity /\ size' = IF size = Capacity THEN size ELSE size + 1
  BY DEF Store, IndInv, TypeOK
<1>6. Cardinality(Takers) \in Nat /\ Cardinality(Takers') \in Nat
      /\ Cardinality(Takers) + 1 <= Cardinality(Takers')
  BY <1>2, <1>4, Counting
<1>7. Cardinality(Putters) \in Nat /\ Cardinality(Putters') \in Nat
      /\ Cardinality(Putters) <= Cardinality(Putters') + 1
  BY <1>3, <1>4, Counting
<1>8. ConsumersOK'
  BY <1>1, <1>5, <1>6, WakeupHalves, CapacityAssumption DEF ConsumersOK
<1>9. ProducersOK'
  BY <1>1, <1>5, <1>7, WakeupHalves, CapacityAssumption DEF ProducersOK
<1> QED BY <1>8, <1>9, WakeupHalves, PTL

\* A slot that is freed has its consumer on the way to notify a producer.
LEMMA TakeWakes ==
  ASSUME IndInv, IndInv', NoLostWakeup, NEW t \in Threads, NEW m \in Pops,
         Entering(t, m), size > 0, Take(t, m)
  PROVE  NoLostWakeup'
<1> DEFINE Wakers == <<Sleepers(Pops), Sleepers(Pushes), Closers({"notify"}),
                       Closers({"notify", "notify_full"}), Clearers, closed>>
<1>1. UNCHANGED Wakers
  BY DEF Take, Call, Entering, IndInv, TypeOK, CallOK, Sleepers, Closers, Clearers, At,
         Pushes, Pops
<1>2. t \notin Putters /\ Putters \cup {t} \subseteq Putters'
  BY DEF Take, Call, Entering, IndInv, TypeOK, CallOK, Putters, At, Pushes, Pops
<1>3. Takers \subseteq Takers' \cup {t}
  BY DEF Take, Call, Entering, IndInv, TypeOK, CallOK, Takers, At, Pushes, Pops
<1>4. Takers \in SUBSET Threads /\ Takers' \in SUBSET Threads
      /\ Putters \in SUBSET Threads /\ Putters' \in SUBSET Threads
  BY DEF Takers, Putters, At
<1>5. size \in 1 .. Capacity /\ size' = size - 1
  BY CapacityAssumption DEF Take, IndInv, TypeOK
<1>6. Cardinality(Putters) \in Nat /\ Cardinality(Putters') \in Nat
      /\ Cardinality(Putters) + 1 <= Cardinality(Putters')
  BY <1>2, <1>4, Counting
<1>7. Cardinality(Takers) \in Nat /\ Cardinality(Takers') \in Nat
      /\ Cardinality(Takers) <= Cardinality(Takers') + 1
  BY <1>3, <1>4, Counting
<1>8. ConsumersOK'
  BY <1>1, <1>5, <1>7, WakeupHalves, CapacityAssumption DEF ConsumersOK
<1>9. ProducersOK'
  BY <1>1, <1>5, <1>6, WakeupHalves, CapacityAssumption DEF ProducersOK
<1> QED BY <1>8, <1>9, WakeupHalves, PTL

\* A half of the invariant is kept by a step that adds no sleeper of its
\* side, no work for it, and takes away nobody who is on the way.
LEMMA ConsumersFrame ==
  ASSUME IndInv, IndInv', NoLostWakeup, UNCHANGED <<size, closed>>,
         Sleepers(Pops)' \subseteq Sleepers(Pops),
         Closers({"notify"}) \subseteq Closers({"notify"})',
         Takers \subseteq Takers'
  PROVE  ConsumersOK'
<1>1. Takers \in SUBSET Threads /\ Takers' \in SUBSET Threads
  BY DEF Takers, At
<1>2. Cardinality(Takers) \in Nat /\ Cardinality(Takers') \in Nat
      /\ Cardinality(Takers) <= Cardinality(Takers')
  BY <1>1, Counting
<1> QED BY <1>2, WakeupHalves, CapacityAssumption DEF ConsumersOK, IndInv, TypeOK

\* The half of the producers depends on the size and on who is on the way
\* to them.
LEMMA ProducersFrame ==
  ASSUME IndInv, IndInv', NoLostWakeup, UNCHANGED <<size, closed>>,
         Sleepers(Pushes)' \subseteq Sleepers(Pushes),
         Closers({"notify", "notify_full"}) \subseteq Closers({"notify", "notify_full"})',
         Clearers \subseteq Clearers',
         Putters \subseteq Putters'
  PROVE  ProducersOK'
<1>1. Putters \in SUBSET Threads /\ Putters' \in SUBSET Threads
  BY DEF Putters, At
<1>2. Cardinality(Putters) \in Nat /\ Cardinality(Putters') \in Nat
      /\ Cardinality(Putters) <= Cardinality(Putters')
  BY <1>1, Counting
<1> QED BY <1>2, WakeupHalves, CapacityAssumption DEF ProducersOK, IndInv, TypeOK

\* A push that fails or goes to sleep: nothing is free, or all are told.
LEMMA PushSectionWakes ==
  ASSUME IndInv, IndInv', NoLostWakeup, NEW t \in Threads, NEW m \in Pushes,
         NEW v \in Values, NEW at, Entering(t, m), PushSection(t, m, v, at)
  PROVE  NoLostWakeup'
<1>1. CASE Store(t, m, v)
  BY <1>1, StoreWakes
<1>2. CASE /\ closed \/ ~hasWritableSlotLocked
           /\ Return(t) \/ (~closed /\ Call(t, m, "asleep", v))
           /\ UNCHANGED <<ring, closed, full_policy>>
  <2> USE <1>2 DEF Return, Call, Entering, IndInv, TypeOK, CallOK, At, Pushes, Pops, ring
  <2>1. UNCHANGED <<size, closed>>
    OBVIOUS
  <2>2. Sleepers(Pops)' = Sleepers(Pops) /\ Takers \subseteq Takers'
        /\ Closers({"notify"})' = Closers({"notify"})
    BY DEF Sleepers, Closers, Takers
  <2>3. ConsumersOK'
    BY <2>1, <2>2, ConsumersFrame
  <2>4. Closers({"notify", "notify_full"})' = Closers({"notify", "notify_full"})
    BY DEF Closers
  <2>5. CASE closed
    <3>1. Sleepers(Pushes)' \subseteq Sleepers(Pushes)
      BY <2>5 DEF Sleepers
    <3>2. ProducersOK'
      BY <2>1, <2>4, <2>5, <3>1, WakeupHalves DEF ProducersOK
    <3> QED BY <2>3, <3>2, WakeupHalves, PTL
  <2>6. CASE ~closed
    <3>1. Putters' \in SUBSET Threads
      BY DEF Putters
    <3>2. Cardinality(Putters') \in Nat
      BY <3>1, Counting
    <3>3. Capacity - size' = 0
      BY <2>1, <2>6, CapacityAssumption DEF hasWritableSlotLocked
    <3>4. ProducersOK'
      BY <2>1, <2>6, <3>2, <3>3 DEF ProducersOK
    <3> QED BY <2>3, <3>4, WakeupHalves, PTL
  <2> QED BY <2>5, <2>6
<1> QED BY <1>1, <1>2 DEF PushSection

\* No pop loses a wakeup.
LEMMA PopSectionWakes ==
  ASSUME IndInv, IndInv', NoLostWakeup, NEW t \in Threads, NEW m \in Pops, NEW at,
         Entering(t, m), PopSection(t, m, at)
  PROVE  NoLostWakeup'
<1>1. CASE size > 0 /\ Take(t, m)
  BY <1>1, TakeWakes
<1>2. CASE /\ size = 0
           /\ Return(t) \/ (~closed /\ Call(t, m, "asleep", Raw))
           /\ UNCHANGED <<ring, closed, full_policy>>
  <2> USE <1>2 DEF Return, Call, Entering, IndInv, TypeOK, CallOK, At, Pushes, Pops, ring
  <2>1. UNCHANGED <<size, closed>>
    OBVIOUS
  <2>2. Sleepers(Pushes)' = Sleepers(Pushes) /\ Putters \subseteq Putters'
        /\ Closers({"notify", "notify_full"})' = Closers({"notify", "notify_full"})
        /\ Clearers' = Clearers
    BY DEF Sleepers, Closers, Putters, Clearers
  <2>3. ProducersOK'
    BY <2>1, <2>2, ProducersFrame
  <2>4. Closers({"notify"})' = Closers({"notify"})
    BY DEF Closers
  <2>5. CASE closed
    <3>1. Sleepers(Pops)' \subseteq Sleepers(Pops)
      BY <2>5 DEF Sleepers
    <3>2. ConsumersOK'
      BY <2>1, <2>4, <2>5, <3>1, WakeupHalves DEF ConsumersOK
    <3> QED BY <2>3, <3>2, WakeupHalves, PTL
  <2>6. CASE ~closed
    <3>1. Takers' \in SUBSET Threads
      BY DEF Takers
    <3>2. Cardinality(Takers') \in Nat
      BY <3>1, Counting
    <3>3. ConsumersOK'
      BY <2>1, <2>6, <3>2 DEF ConsumersOK
    <3> QED BY <2>3, <3>3, WakeupHalves, PTL
  <2> QED BY <2>5, <2>6
<1> QED BY <1>1, <1>2 DEF PopSection

\* A thread that woke loses no wakeup.
LEMMA RecheckWakes ==
  ASSUME IndInv, IndInv', NoLostWakeup, NEW t \in Threads, Recheck(t)
  PROVE  NoLostWakeup'
<1>0. Entering(t, op[t])
  BY DEF Recheck, Entering
<1>1. CASE op[t] \in Pushes /\ PushSection(t, op[t], value[t], pc[t])
  <2>1. value[t] \in Values
    BY <1>1 DEF Recheck, IndInv, CallOK, TypeOK
  <2> QED BY <1>0, <1>1, <2>1, PushSectionWakes
<1>2. CASE op[t] \in Pops /\ PopSection(t, op[t], pc[t])
  BY <1>0, <1>2, PopSectionWakes
<1> QED BY <1>1, <1>2 DEF Recheck

\* A wait that returns without a notification loses none.
LEMMA WaitReturnsWakes ==
  ASSUME IndInv, IndInv', NoLostWakeup, NEW t \in Threads, WaitReturns(t)
  PROVE  NoLostWakeup'
<1> USE DEF WaitReturns, Call, IndInv, TypeOK, CallOK, At, Pushes, Pops, ring
<1>1. UNCHANGED <<size, closed>>
  OBVIOUS
<1>2. Sleepers(Pops)' \subseteq Sleepers(Pops) /\ Takers \subseteq Takers'
      /\ Closers({"notify"})' = Closers({"notify"})
  BY DEF Sleepers, Closers, Takers
<1>3. Sleepers(Pushes)' \subseteq Sleepers(Pushes) /\ Putters \subseteq Putters'
      /\ Closers({"notify", "notify_full"})' = Closers({"notify", "notify_full"})
      /\ Clearers' = Clearers
  BY DEF Sleepers, Closers, Putters, Clearers
<1>4. ConsumersOK'
  BY <1>1, <1>2, ConsumersFrame
<1>5. ProducersOK'
  BY <1>1, <1>3, ProducersFrame
<1> QED BY <1>4, <1>5, WakeupHalves, PTL

\* close() will notify both condition variables.
LEMMA CloseWakes ==
  ASSUME IndInv, NEW t \in Threads, close(t)
  PROVE  NoLostWakeup'
<1>1. t \in Closers({"notify"})' /\ t \in Closers({"notify", "notify_full"})'
  BY DEF close, Call, IndInv, TypeOK, Closers, At
<1>2. ConsumersOK' /\ ProducersOK'
  BY <1>1 DEF ConsumersOK, ProducersOK
<1> QED BY <1>2, WakeupHalves, PTL

\* clear() leaves nothing to take, and will wake all producers.
LEMMA ClearWakes ==
  ASSUME IndInv, NoLostWakeup, NEW t \in Threads, clear(t)
  PROVE  NoLostWakeup'
<1> USE DEF clear, Call, IndInv, TypeOK, CallOK, At
<1>1. size' = 0 /\ closed' = closed
  OBVIOUS
<1>2. Sleepers(Pops)' = Sleepers(Pops) /\ Sleepers(Pushes)' = Sleepers(Pushes)
  BY DEF Sleepers, Pushes, Pops
<1>3. Closers({"notify"})' = Closers({"notify"})
      /\ Closers({"notify", "notify_full"})' = Closers({"notify", "notify_full"})
  BY DEF Closers
<1>4. t \in Clearers'
  BY DEF Clearers
<1>5. Takers' \in SUBSET Threads
  BY DEF Takers
<1>6. Cardinality(Takers') \in Nat
  BY <1>5, Counting
<1>7. ConsumersOK'
  BY <1>1, <1>2, <1>3, <1>6, WakeupHalves DEF ConsumersOK
<1>8. ProducersOK'
  BY <1>1, <1>2, <1>3, <1>4, WakeupHalves DEF ProducersOK
<1> QED BY <1>7, <1>8, WakeupHalves, PTL

\* notify_one() replaces the notifier by the sleeper it wakes.
LEMMA NotifyAfterPushWakes ==
  ASSUME IndInv, IndInv', NoLostWakeup, NEW t \in Threads, NotifyAfterPush(t)
  PROVE  NoLostWakeup'
<1> USE DEF NotifyAfterPush, NotifyOne, Returned, IndInv, TypeOK, CallOK, At, Pushes, Pops, ring
<1>1. UNCHANGED <<size, closed>>
  OBVIOUS
<1>2. Sleepers(Pushes)' \subseteq Sleepers(Pushes) /\ Putters \subseteq Putters'
      /\ Closers({"notify", "notify_full"})' = Closers({"notify", "notify_full"})
      /\ Clearers' = Clearers
  BY DEF Sleepers, Closers, Putters, Clearers
<1>3. ProducersOK'
  BY <1>1, <1>2, ProducersFrame
<1>4. Closers({"notify"})' = Closers({"notify"})
  BY DEF Closers, Sleepers
<1>5. CASE Sleepers(Pops) = {}
  <2>1. Sleepers(Pops)' = {}
    BY <1>5 DEF Sleepers
  <2>2. ConsumersOK'
    BY <2>1 DEF ConsumersOK
  <2> QED BY <1>3, <2>2, WakeupHalves, PTL
<1>6. CASE Sleepers(Pops) # {}
  <2>1. PICK u \in Sleepers(Pops) : pc' = [[pc EXCEPT ![t] = "idle"] EXCEPT ![u] = "awake"]
    BY <1>6
  <2>2. u \in Threads /\ u # t /\ u \notin Takers
    BY DEF Sleepers, Takers
  <2>3. (Takers \ {t}) \cup {u} \subseteq Takers'
    BY <2>1, <2>2 DEF Sleepers, Takers
  <2>4. Takers \in SUBSET Threads /\ Takers' \in SUBSET Threads
    BY DEF Takers
  <2>5. Cardinality(Takers) \in Nat /\ Cardinality(Takers') \in Nat
        /\ Cardinality(Takers) <= Cardinality(Takers')
    BY <2>2, <2>3, <2>4, Counting
  <2>6. ConsumersOK'
    BY <1>1, <1>4, <1>6, <2>5, WakeupHalves, CapacityAssumption DEF ConsumersOK
  <2> QED BY <1>3, <2>6, WakeupHalves, PTL
<1> QED BY <1>5, <1>6

\* A notification after a pop wakes a producer, if one sleeps.
LEMMA NotifyAfterPopWakes ==
  ASSUME IndInv, IndInv', NoLostWakeup, NEW t \in Threads, NotifyAfterPop(t)
  PROVE  NoLostWakeup'
<1> USE DEF NotifyAfterPop, NotifyOne, Returned, IndInv, TypeOK, CallOK, At, Pushes, Pops, ring
<1>1. UNCHANGED <<size, closed>>
  OBVIOUS
<1>2. Sleepers(Pops)' \subseteq Sleepers(Pops) /\ Takers \subseteq Takers'
      /\ Closers({"notify"})' = Closers({"notify"})
  BY DEF Sleepers, Closers, Takers
<1>3. ConsumersOK'
  BY <1>1, <1>2, ConsumersFrame
<1>4. Closers({"notify", "notify_full"})' = Closers({"notify", "notify_full"})
      /\ Clearers' = Clearers
  BY DEF Closers, Clearers, Sleepers
<1>5. CASE Sleepers(Pushes) = {}
  <2>1. Sleepers(Pushes)' = {}
    BY <1>5 DEF Sleepers
  <2>2. ProducersOK'
    BY <2>1 DEF ProducersOK
  <2> QED BY <1>3, <2>2, WakeupHalves, PTL
<1>6. CASE Sleepers(Pushes) # {}
  <2>1. PICK u \in Sleepers(Pushes) : pc' = [[pc EXCEPT ![t] = "idle"] EXCEPT ![u] = "awake"]
    BY <1>6
  <2>2. u \in Threads /\ u # t /\ u \notin Putters
    BY DEF Sleepers, Putters
  <2>3. (Putters \ {t}) \cup {u} \subseteq Putters'
    BY <2>1, <2>2 DEF Sleepers, Putters
  <2>4. Putters \in SUBSET Threads /\ Putters' \in SUBSET Threads
    BY DEF Putters
  <2>5. Cardinality(Putters) \in Nat /\ Cardinality(Putters') \in Nat
        /\ Cardinality(Putters) <= Cardinality(Putters')
    BY <2>2, <2>3, <2>4, Counting
  <2>6. ProducersOK'
    BY <1>1, <1>4, <1>6, <2>5, WakeupHalves, CapacityAssumption DEF ProducersOK
  <2> QED BY <1>3, <2>6, WakeupHalves, PTL
<1> QED BY <1>5, <1>6

\* notify_all() leaves no sleeper of the side it is for.
LEMMA NotifyAfterClearWakes ==
  ASSUME IndInv, IndInv', NoLostWakeup, NEW t \in Threads, NotifyAfterClear(t)
  PROVE  NoLostWakeup'
<1> USE DEF NotifyAfterClear, NotifyAll, Returned, IndInv, TypeOK, CallOK, At, Pushes, Pops, ring
<1>1. UNCHANGED <<size, closed>>
  OBVIOUS
<1>2. Sleepers(Pops)' \subseteq Sleepers(Pops) /\ Takers \subseteq Takers'
      /\ Closers({"notify"}) \subseteq Closers({"notify"})'
  BY DEF Sleepers, Closers, Takers
<1>3. ConsumersOK'
  BY <1>1, <1>2, ConsumersFrame
<1>4. Sleepers(Pushes)' = {}
  BY DEF Sleepers
<1>5. ProducersOK'
  BY <1>4 DEF ProducersOK
<1> QED BY <1>3, <1>5, WakeupHalves, PTL

\* close() wakes all of one side, then all of the other.
LEMMA NotifyAfterCloseWakes ==
  ASSUME IndInv, IndInv', NoLostWakeup, NEW t \in Threads, NotifyAfterClose(t)
  PROVE  NoLostWakeup'
<1> USE DEF NotifyAll, IndInv, TypeOK, CallOK, At, Pushes, Pops, ring
<1>1. CASE /\ pc[t] = "notify" /\ op[t] = "close"
           /\ NotifyAll(t, Pops, "notify_full")
           /\ UNCHANGED <<ring, closed, full_policy, op, value>>
  <2>1. Sleepers(Pushes)' \subseteq Sleepers(Pushes) /\ Putters \subseteq Putters'
        /\ Closers({"notify", "notify_full"}) \subseteq Closers({"notify", "notify_full"})'
        /\ Clearers \subseteq Clearers'
    BY <1>1 DEF Sleepers, Closers, Putters, Clearers
  <2>2. UNCHANGED <<size, closed>>
    BY <1>1
  <2>3. ProducersOK'
    BY <2>1, <2>2, ProducersFrame
  <2>4. Sleepers(Pops)' = {}
    BY <1>1 DEF Sleepers
  <2>5. ConsumersOK'
    BY <2>4 DEF ConsumersOK
  <2> QED BY <2>3, <2>5, WakeupHalves, PTL
<1>2. CASE /\ pc[t] = "notify_full"
           /\ NotifyAll(t, Pushes, "idle")
           /\ Returned(t)
           /\ UNCHANGED <<ring, closed, full_policy>>
  <2>1. Sleepers(Pops)' \subseteq Sleepers(Pops) /\ Takers \subseteq Takers'
        /\ Closers({"notify"}) \subseteq Closers({"notify"})'
    BY <1>2 DEF Sleepers, Closers, Takers, Returned
  <2>2. UNCHANGED <<size, closed>>
    BY <1>2
  <2>3. ConsumersOK'
    BY <2>1, <2>2, ConsumersFrame
  <2>4. Sleepers(Pushes)' = {}
    BY <1>2 DEF Sleepers, Returned
  <2>5. ProducersOK'
    BY <2>4 DEF ProducersOK
  <2> QED BY <2>3, <2>5, WakeupHalves, PTL
<1> QED BY <1>1, <1>2 DEF NotifyAfterClose

\* No step loses a wakeup.
LEMMA StepWakes == IndInv /\ IndInv' /\ NoLostWakeup /\ [Next]_vars => NoLostWakeup'
<1> SUFFICES ASSUME IndInv, IndInv', NoLostWakeup, [Next]_vars PROVE NoLostWakeup'
  OBVIOUS
<1>1. CASE UNCHANGED vars
  BY <1>1 DEF vars, ring, NoLostWakeup, Sleepers, At
<1>2. ASSUME NEW t \in Threads, NEW m \in Pushes, NEW v \in Values, push(t, m, v)
      PROVE  NoLostWakeup'
  BY <1>2, PushSectionWakes DEF push, Entering
<1>3. ASSUME NEW t \in Threads, NEW m \in Pops, pop(t, m)
      PROVE  NoLostWakeup'
  BY <1>3, PopSectionWakes DEF pop, Entering
<1> QED BY <1>1, <1>2, <1>3, CloseWakes, ClearWakes, WaitReturnsWakes, RecheckWakes,
           NotifyAfterPushWakes, NotifyAfterPopWakes, NotifyAfterClearWakes,
           NotifyAfterCloseWakes
        DEF Next, Step

\* Although notify_one() comes after the unlock and wakes one thread only,
\* no consumer sleeps beside an element and no producer beside a free slot
\* unless somebody is on the way.
THEOREM NoWakeupIsLost == Spec => []NoLostWakeup
<1>1. Init => NoLostWakeup
  BY DEF Init, NoLostWakeup, Sleepers
<1> QED BY <1>1, StepWakes, Invariance, PTL DEF Spec
=============================================================================
