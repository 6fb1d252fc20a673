------------------------- MODULE LockFreeQueueProofs -------------------------
(***************************************************************************)
(* For every capacity of at least two, every set of threads and every set  *)
(* of values, a thread in possession of a cell is alone there and finds it *)
(* in the right state, the ring never holds more than Capacity elements,   *)
(* it implements the bounded FIFO, its destructor empties it, and its      *)
(* statistics add up.                                                      *)
(***************************************************************************)
EXTENDS LockFreeQueue, FiniteSetTheorems, SequenceTheorems, TLAPS

\* The cursors are at most one lap apart.
CursorsOK == dequeue_pos <= enqueue_pos /\ enqueue_pos <= dequeue_pos + Capacity

\* The positions reserved by producers and not yet by consumers: the cell is
\* published, or its producer is still at work.
FilledOK ==
  \A p \in dequeue_pos .. enqueue_pos - 1 :
    \/ sequence[Cell(p)] = p + 1 /\ storage[Cell(p)] \in Values
    \/ sequence[Cell(p)] = p /\ \E t \in Threads : Producing(t) /\ pos[t] = p

\* The rest of the lap: the cell is free, or the consumer of the lap before
\* is still at work.
FreeOK ==
  \A p \in enqueue_pos .. dequeue_pos + Capacity - 1 :
    \/ sequence[Cell(p)] = p /\ storage[Cell(p)] = Raw
    \/ /\ sequence[Cell(p)] = p - Capacity + 1
       /\ \E t \in Threads : Consuming(t) /\ pos[t] + Capacity = p

ProducersOK ==
  \A t \in Threads : Producing(t) =>
    /\ pos[t] \in dequeue_pos .. enqueue_pos - 1
    /\ sequence[Cell(pos[t])] = pos[t]
    /\ pc[t] = "push_construct" => storage[Cell(pos[t])] = Raw
    /\ pc[t] = "push_publish" => storage[Cell(pos[t])] \in Values

ConsumersOK ==
  \A t \in Threads : Consuming(t) =>
    /\ pos[t] + Capacity \in enqueue_pos .. dequeue_pos + Capacity - 1
    /\ sequence[Cell(pos[t])] = pos[t] + 1
    /\ pc[t] = "pop_move" => storage[Cell(pos[t])] \in Values
    /\ pc[t] = "pop_release" => storage[Cell(pos[t])] = Raw

DistinctOK ==
  \A t, u \in Threads :
    (t # u /\ ((Producing(t) /\ Producing(u)) \/ (Consuming(t) /\ Consuming(u))))
      => pos[t] # pos[u]

\* What a thread learned from its loads still holds if its compare-exchange
\* is going to succeed.
ReservingOK ==
  \A t \in Threads :
    /\ pc[t] \in {"push_seq", "push_cas"} => pos[t] <= enqueue_pos
    /\ pc[t] = "push_cas" /\ pos[t] = enqueue_pos =>
         /\ enqueue_pos < dequeue_pos + Capacity
         /\ sequence[Cell(pos[t])] = pos[t]
    /\ pc[t] \in {"pop_seq", "pop_cas"} => pos[t] <= dequeue_pos
    /\ pc[t] = "pop_cas" /\ pos[t] = dequeue_pos =>
         /\ dequeue_pos < enqueue_pos
         /\ sequence[Cell(pos[t])] = pos[t] + 1

\* A push carries an element until it has constructed it in its cell, a pop
\* from when it has moved it out.
ArgumentsOK ==
  \A t \in Threads :
    pc[t] \in {"push_closed", "push_load", "push_seq", "push_cas", "push_construct",
               "pop_release", "pop_count"}
      => value[t] \in Values

IndInv == /\ TypeOK /\ CursorsOK /\ FilledOK /\ FreeOK /\ ProducersOK
          /\ ConsumersOK /\ DistinctOK /\ ReservingOK /\ ArgumentsOK

-----------------------------------------------------------------------------
(* Positions and cells.                                                    *)

\* A position is a lap number and a cell: the index pos % capacity_ is in range.
LEMMA CellDivision ==
  ASSUME NEW p \in Nat
  PROVE  /\ Cell(p) \in Cells
         /\ p \div Capacity \in Nat
         /\ p = Capacity * (p \div Capacity) + Cell(p)
BY CapacityAssumption DEF Cell, Cells

\* The lap of a position is determined by the position.
LEMMA LapUnique ==
  ASSUME NEW j \in Int, NEW k \in Int, NEW c \in Cells, NEW d \in Cells,
         Capacity * j + c = Capacity * k + d
  PROVE  j = k
<1> USE CapacityAssumption DEF Cells
<1>1. ASSUME j < k PROVE FALSE
  <2>1. Capacity * k = Capacity * j + Capacity * (k - j)
    OBVIOUS
  <2>2. Capacity * (k - j) >= Capacity
    BY <1>1
  <2> QED BY <2>1, <2>2
<1>2. ASSUME k < j PROVE FALSE
  <2>1. Capacity * j = Capacity * k + Capacity * (j - k)
    OBVIOUS
  <2>2. Capacity * (j - k) >= Capacity
    BY <1>2
  <2> QED BY <2>1, <2>2
<1> QED BY <1>1, <1>2

\* A position one lap later is in the same cell.
LEMMA CellLap ==
  ASSUME NEW p \in Nat
  PROVE  Cell(p + Capacity) = Cell(p)
<1> USE CapacityAssumption
<1> DEFINE j == p \div Capacity
           k == (p + Capacity) \div Capacity
<1>1. p = Capacity * j + Cell(p) /\ j \in Nat /\ Cell(p) \in Cells
  BY CellDivision
<1>2. /\ p + Capacity = Capacity * k + Cell(p + Capacity)
      /\ k \in Nat /\ Cell(p + Capacity) \in Cells
  BY CellDivision
<1>3. p + Capacity = Capacity * (j + 1) + Cell(p)
  <2> HIDE DEF j
  <2> QED BY <1>1 DEF Cells
<1> HIDE DEF j, k
<1>4. j + 1 = k
  <2>1. Capacity * (j + 1) + Cell(p) = Capacity * k + Cell(p + Capacity)
    BY <1>2, <1>3
  <2>2. j + 1 \in Int /\ k \in Int
    BY <1>1, <1>2
  <2> QED BY <1>1, <1>2, <2>1, <2>2, LapUnique, Zenon
<1> QED BY <1>1, <1>2, <1>3, <1>4 DEF Cells

\* Positions less than one lap apart are in different cells.
LEMMA CellInjective ==
  ASSUME NEW p \in Nat, NEW q \in Nat, p < q, q < p + Capacity
  PROVE  Cell(p) # Cell(q)
<1> USE CapacityAssumption
<1> DEFINE j == p \div Capacity
           k == q \div Capacity
<1> SUFFICES ASSUME Cell(p) = Cell(q) PROVE FALSE
  OBVIOUS
<1>1. p = Capacity * j + Cell(p) /\ j \in Nat /\ Cell(p) \in Cells
  BY CellDivision
<1>2. q = Capacity * k + Cell(p) /\ k \in Nat
  BY CellDivision
<1> HIDE DEF j, k
<1>3. q - p = Capacity * (k - j)
  BY <1>1, <1>2 DEF Cells
<1>4. CASE k - j <= 0
  BY <1>1, <1>2, <1>3, <1>4 DEF Cells
<1>5. CASE k - j >= 1
  BY <1>1, <1>2, <1>3, <1>5 DEF Cells
<1> QED BY <1>1, <1>2, <1>4, <1>5

\* The positions of one lap are in pairwise different cells.
LEMMA WindowInjective ==
  ASSUME NEW d \in Nat, NEW p \in d .. d + Capacity - 1, NEW q \in d .. d + Capacity - 1,
         Cell(p) = Cell(q)
  PROVE  p = q
BY CapacityAssumption, CellInjective

-----------------------------------------------------------------------------
(* The inductive invariant.                                                *)

\* The constructor establishes the invariant.
LEMMA InitInv == ASSUME Init PROVE IndInv
<1> USE CapacityAssumption DEF Init
<1>1. TypeOK
  <2>1. sequence \in [Cells -> Nat] /\ storage \in [Cells -> Values \cup {Raw}]
    BY DEF Cells
  <2>2. closed \in BOOLEAN /\ phase \in {"live", "draining", "destroyed"}
    BY Zenon
  <2>3. /\ pc \in [Threads -> Labels] /\ pos \in [Threads -> Nat]
        /\ value \in [Threads -> Values \cup {Raw}]
    BY DEF Labels
  <2>4. stats \in LockFreeQueueStats
    BY DEF LockFreeQueueStats
  <2> QED BY <2>1, <2>2, <2>3, <2>4 DEF TypeOK
<1>2. \A p \in Cells : Cell(p) = p
  <2> SUFFICES ASSUME NEW p \in Cells PROVE Cell(p) = p
    OBVIOUS
  <2> QED BY DEF Cells, Cell
<1>3. CursorsOK /\ FilledOK
  BY DEF CursorsOK, FilledOK
<1>4. FreeOK
  BY <1>2 DEF FreeOK, Cells
<1>5. ProducersOK /\ ConsumersOK /\ DistinctOK /\ ReservingOK /\ ArgumentsOK
  BY DEF ProducersOK, ConsumersOK, DistinctOK, ReservingOK, ArgumentsOK, Producing, Consuming
<1> QED BY <1>1, <1>3, <1>4, <1>5 DEF IndInv

\* The cells are not affected by a step of a thread that has no cell before
\* or after it and changes only its own control state.
CellsOK == CursorsOK /\ FilledOK /\ FreeOK /\ ProducersOK /\ ConsumersOK /\ DistinctOK

\* A step that leaves the ring alone, and every thread in a cell where it
\* is, keeps what the invariant says of the cells.
LEMMA QuietStep ==
  ASSUME CellsOK, TypeOK,
         UNCHANGED <<sequence, storage, enqueue_pos, dequeue_pos>>,
         \A u \in Threads : (Producing(u) \/ Consuming(u) \/ Producing(u)' \/ Consuming(u)')
                            => pc'[u] = pc[u] /\ pos'[u] = pos[u]
  PROVE  CellsOK'
<1>1. \A u \in Threads : /\ Producing(u)' <=> Producing(u)
                         /\ Consuming(u)' <=> Consuming(u)
  BY DEF Producing, Consuming
<1>2. CursorsOK'
  BY DEF CellsOK, CursorsOK
<1>3. FilledOK'
  BY <1>1 DEF CellsOK, FilledOK, Cell
<1>4. FreeOK'
  BY <1>1 DEF CellsOK, FreeOK, Cell
<1>5. ProducersOK'
  BY <1>1 DEF CellsOK, ProducersOK, Cell
<1>6. ConsumersOK'
  BY <1>1 DEF CellsOK, ConsumersOK, Cell
<1>7. DistinctOK'
  BY <1>1 DEF CellsOK, DistinctOK
<1> QED BY <1>2, <1>3, <1>4, <1>5, <1>6, <1>7 DEF CellsOK

\* A push that finds the queue closed keeps the statistics well-typed.
LEMMA TwoTallies ==
  ASSUME NEW s \in LockFreeQueueStats, NEW m \in Nat, NEW n \in Nat
  PROVE  [s EXCEPT !.closed_pushes = m, !.failed_pushes = n] \in LockFreeQueueStats
BY DEF LockFreeQueueStats

\* Every step keeps the variables in their types.
LEMMA TypeStep == ASSUME TypeOK, [Next]_vars PROVE TypeOK'
<1> USE CapacityAssumption DEF TypeOK, Labels, Goto, shared
<1>1. ASSUME NEW t \in Threads, NEW v \in Values, tryPush(t, v) PROVE TypeOK'
  BY <1>1 DEF tryPush
<1>2. ASSUME NEW t \in Threads, tryPop(t) PROVE TypeOK'
  BY <1>2 DEF tryPop
<1>3. ASSUME NEW t \in Threads, Destroy(t) PROVE TypeOK'
  BY <1>3 DEF Destroy
<1>4. ASSUME NEW t \in Threads, PushCheckClosed(t) PROVE TypeOK'
  <2>1. CASE closed
    <3>1. stats' = [stats EXCEPT !.closed_pushes = stats.closed_pushes + 1,
                                 !.failed_pushes = stats.failed_pushes + 1]
      BY <1>4, <2>1 DEF PushCheckClosed
    <3>2. stats.closed_pushes + 1 \in Nat /\ stats.failed_pushes + 1 \in Nat
      BY DEF LockFreeQueueStats
    <3>3. stats' \in LockFreeQueueStats
      BY <3>1, <3>2, TwoTallies
    <3> QED BY <1>4, <2>1, <3>3 DEF PushCheckClosed, PushFails
  <2>2. CASE ~closed
    BY <1>4, <2>2 DEF PushCheckClosed
  <2> QED BY <2>1, <2>2
<1>5. ASSUME NEW t \in Threads, PushLoadPos(t) \/ PushCasFails(t) PROVE TypeOK'
  BY <1>5 DEF PushLoadPos, PushCasFails
<1>6. ASSUME NEW t \in Threads, PushLoadSeq(t) PROVE TypeOK'
  BY <1>6 DEF PushLoadSeq, PushFails, LockFreeQueueStats
<1>7. ASSUME NEW t \in Threads, PushCas(t) PROVE TypeOK'
  BY <1>7 DEF PushCas
<1>8. ASSUME NEW t \in Threads, PushConstruct(t) PROVE TypeOK'
  BY <1>8 DEF PushConstruct
<1>9. ASSUME NEW t \in Threads, PushPublish(t) PROVE TypeOK'
  <2>1. sequence' \in [Cells -> Nat]
    <3>1. pos[t] + 1 \in Nat
      OBVIOUS
    <3> QED BY <1>9, <3>1, Zenon DEF PushPublish
  <2> QED BY <1>9, <2>1 DEF PushPublish
<1>10. ASSUME NEW t \in Threads, PushCount(t) PROVE TypeOK'
  BY <1>10 DEF PushCount, LockFreeQueueStats
<1>11. ASSUME NEW t \in Threads, PopLoadPos(t) \/ PopCasFails(t) PROVE TypeOK'
  BY <1>11 DEF PopLoadPos, PopCasFails
<1>12. ASSUME NEW t \in Threads, PopFails(t) PROVE TypeOK'
  BY <1>12 DEF PopFails, LockFreeQueueStats
<1>13. ASSUME NEW t \in Threads, PopLoadSeq(t) PROVE TypeOK'
  BY <1>13 DEF PopLoadSeq
<1>14. ASSUME NEW t \in Threads, PopCas(t) PROVE TypeOK'
  BY <1>14 DEF PopCas
<1>15. ASSUME NEW t \in Threads, PopMove(t) PROVE TypeOK'
  BY <1>15, CellDivision DEF PopMove
<1>16. ASSUME NEW t \in Threads, PopRelease(t) PROVE TypeOK'
  <2>1. sequence' \in [Cells -> Nat]
    <3>1. pos[t] + Capacity \in Nat
      OBVIOUS
    <3> QED BY <1>16, <3>1, Zenon DEF PopRelease
  <2> QED BY <1>16, <2>1 DEF PopRelease
<1>17. ASSUME NEW t \in Threads, PopCount(t) PROVE TypeOK'
  BY <1>17 DEF PopCount, LockFreeQueueStats
<1>18. ASSUME close PROVE TypeOK'
  BY <1>18 DEF close
<1>19. ASSUME UNCHANGED vars PROVE TypeOK'
  BY <1>19 DEF vars
<1> QED
  BY <1>1, <1>2, <1>3, <1>4, <1>5, <1>6, <1>7, <1>8, <1>9, <1>10, <1>11, <1>12, <1>13,
     <1>14, <1>15, <1>16, <1>17, <1>18, <1>19, Zenon DEF Next, PushStep, PopStep, Destroyed

-----------------------------------------------------------------------------
(* The steps that reserve, fill, empty or release a cell.                  *)

\* The cells of the lap that starts at dequeue_pos: a write to the cell of
\* one of its positions leaves the others alone.
LEMMA OtherCells ==
  ASSUME TypeOK, CursorsOK
  PROVE  /\ \A p, q \in dequeue_pos .. dequeue_pos + Capacity - 1 :
              p # q => Cell(p) # Cell(q)
         /\ \A p \in Nat : Cell(p) \in Cells /\ Cell(p + Capacity) = Cell(p)
BY WindowInjective, CellDivision, CellLap DEF TypeOK, CursorsOK

\* A producer's compare-exchange reserves a cell that nobody else is in.
LEMMA PushCasStep ==
  ASSUME Capacity >= 2, IndInv, NEW t \in Threads, PushCas(t)
  PROVE  CellsOK' /\ ReservingOK' /\ ArgumentsOK'
<1> USE CapacityAssumption, OtherCells DEF IndInv, TypeOK, PushCas, Goto
<1>1. /\ pos[t] = enqueue_pos /\ enqueue_pos < dequeue_pos + Capacity
      /\ sequence[Cell(enqueue_pos)] = enqueue_pos
  BY DEF ReservingOK
<1>2. storage[Cell(enqueue_pos)] = Raw
  BY <1>1 DEF FreeOK, CursorsOK
<1>3. \A u \in Threads : Producing(u)' <=> u = t \/ Producing(u)
  BY DEF Producing
<1>4. \A u \in Threads : Consuming(u)' <=> Consuming(u)
  BY DEF Consuming
<1>5. CursorsOK'
  BY <1>1 DEF CursorsOK
<1>6. FilledOK'
  BY <1>1, <1>3 DEF FilledOK, CursorsOK
<1>7. FreeOK'
  BY <1>1, <1>4 DEF FreeOK, CursorsOK
<1>8. ProducersOK'
  BY <1>1, <1>2, <1>3 DEF ProducersOK, CursorsOK
<1>9. ConsumersOK'
  BY <1>1, <1>4 DEF ConsumersOK, CursorsOK
<1>10. DistinctOK'
  BY <1>1, <1>3, <1>4 DEF DistinctOK, ProducersOK
<1>11. ReservingOK'
  BY <1>1 DEF ReservingOK, CursorsOK
<1>12. ArgumentsOK'
  BY DEF ArgumentsOK
<1> QED BY <1>5, <1>6, <1>7, <1>8, <1>9, <1>10, <1>11, <1>12 DEF CellsOK

\* A consumer's compare-exchange reserves a published cell for it alone.
LEMMA PopCasStep ==
  ASSUME Capacity >= 2, IndInv, NEW t \in Threads, PopCas(t)
  PROVE  CellsOK' /\ ReservingOK' /\ ArgumentsOK'
<1> USE CapacityAssumption, OtherCells DEF IndInv, TypeOK, PopCas, Goto
<1>1. /\ pos[t] = dequeue_pos /\ dequeue_pos < enqueue_pos
      /\ sequence[Cell(dequeue_pos)] = dequeue_pos + 1
  BY DEF ReservingOK
<1>2. storage[Cell(dequeue_pos)] \in Values
  BY <1>1 DEF FilledOK, CursorsOK
<1>3. \A u \in Threads : Consuming(u)' <=> u = t \/ Consuming(u)
  BY DEF Consuming
<1>4. \A u \in Threads : Producing(u)' <=> Producing(u)
  BY DEF Producing
<1>5. CursorsOK'
  BY <1>1 DEF CursorsOK
<1>6. FilledOK'
  BY <1>1, <1>4 DEF FilledOK, CursorsOK
<1>7. FreeOK'
  <2> SUFFICES ASSUME NEW p \in enqueue_pos .. dequeue_pos + Capacity
               PROVE  \/ sequence[Cell(p)] = p /\ storage[Cell(p)] = Raw
                      \/ /\ sequence[Cell(p)] = p - Capacity + 1
                         /\ \E u \in Threads : Consuming(u)' /\ pos[u] + Capacity = p
    BY <1>1 DEF FreeOK
  <2>1. CASE p = dequeue_pos + Capacity
    BY <1>1, <1>3, <2>1
  <2>2. CASE p # dequeue_pos + Capacity
    BY <1>1, <1>3, <2>2 DEF FreeOK, CursorsOK
  <2> QED BY <2>1, <2>2
<1>8. ProducersOK'
  BY <1>1, <1>4 DEF ProducersOK, CursorsOK
<1>9. ConsumersOK'
  BY <1>1, <1>2, <1>3 DEF ConsumersOK, CursorsOK
<1>10. DistinctOK'
  BY <1>1, <1>3, <1>4 DEF DistinctOK, ConsumersOK
<1>11. ReservingOK'
  BY <1>1 DEF ReservingOK, CursorsOK
<1>12. ArgumentsOK'
  BY DEF ArgumentsOK
<1> QED BY <1>5, <1>6, <1>7, <1>8, <1>9, <1>10, <1>11, <1>12 DEF CellsOK

\* The producer at position k finds its cell raw and leaves it constructed.
LEMMA PushConstructStep ==
  ASSUME Capacity >= 2, IndInv, NEW t \in Threads, PushConstruct(t)
  PROVE  CellsOK' /\ ReservingOK' /\ ArgumentsOK'
<1> USE CapacityAssumption, OtherCells DEF IndInv, TypeOK, PushConstruct, Goto
<1> DEFINE k == pos[t]
<1>1. /\ k \in dequeue_pos .. enqueue_pos - 1 /\ sequence[Cell(k)] = k
      /\ value[t] \in Values
  BY DEF ProducersOK, ArgumentsOK, Producing
<1>2. \A u \in Threads : Producing(u)' <=> Producing(u)
  BY DEF Producing
<1>3. \A u \in Threads : Consuming(u)' <=> Consuming(u)
  BY DEF Consuming
<1>4. /\ storage'[Cell(k)] \in Values
      /\ \A p \in dequeue_pos .. dequeue_pos + Capacity - 1 :
           p # k => storage'[Cell(p)] = storage[Cell(p)]
  BY <1>1 DEF CursorsOK
<1>5. CursorsOK'
  BY DEF CursorsOK
<1>6. FilledOK'
  BY <1>1, <1>2, <1>4 DEF FilledOK, CursorsOK
<1>7. FreeOK'
  BY <1>1, <1>3, <1>4 DEF FreeOK, CursorsOK
<1>8. ProducersOK'
  BY <1>1, <1>2, <1>4 DEF ProducersOK, CursorsOK, DistinctOK, Producing
<1>9. ConsumersOK'
  <2> SUFFICES ASSUME NEW u \in Threads, Consuming(u) PROVE ConsumersOK!(u)'
    BY <1>3 DEF ConsumersOK
  <2>1. storage'[Cell(pos[u])] = storage[Cell(pos[u])]
    BY <1>1, <1>4 DEF ConsumersOK, CursorsOK
  <2> QED BY <2>1 DEF ConsumersOK, Consuming
<1>10. DistinctOK'
  BY <1>2, <1>3 DEF DistinctOK
<1>11. ReservingOK'
  BY DEF ReservingOK
<1>12. ArgumentsOK'
  BY DEF ArgumentsOK
<1> QED BY <1>5, <1>6, <1>7, <1>8, <1>9, <1>10, <1>11, <1>12 DEF CellsOK

\* The store of pos + 1 hands the producer's cell to the consumers.
LEMMA PushPublishStep ==
  ASSUME Capacity >= 2, IndInv, NEW t \in Threads, PushPublish(t)
  PROVE  CellsOK' /\ ReservingOK' /\ ArgumentsOK'
<1> USE CapacityAssumption, OtherCells DEF IndInv, TypeOK, PushPublish, Goto
<1> DEFINE k == pos[t]
<1>1. /\ k \in dequeue_pos .. enqueue_pos - 1 /\ sequence[Cell(k)] = k
      /\ storage[Cell(k)] \in Values
  BY DEF ProducersOK, Producing
<1>2. \A u \in Threads : Producing(u)' <=> Producing(u) /\ u # t
  BY DEF Producing
<1>3. \A u \in Threads : Consuming(u)' <=> Consuming(u)
  BY DEF Consuming
<1>4. /\ sequence'[Cell(k)] = k + 1
      /\ \A p \in dequeue_pos .. dequeue_pos + Capacity - 1 :
           p # k => sequence'[Cell(p)] = sequence[Cell(p)]
  BY <1>1 DEF CursorsOK
<1>5. CursorsOK'
  BY DEF CursorsOK
<1>6. FilledOK'
  <2> SUFFICES ASSUME NEW p \in dequeue_pos .. enqueue_pos - 1
               PROVE  \/ sequence'[Cell(p)] = p + 1 /\ storage[Cell(p)] \in Values
                      \/ /\ sequence'[Cell(p)] = p
                         /\ \E u \in Threads : Producing(u)' /\ pos[u] = p
    BY DEF FilledOK
  <2>1. CASE p = k
    BY <1>1, <1>4, <2>1
  <2>2. CASE p # k
    <3>1. sequence'[Cell(p)] = sequence[Cell(p)]
      BY <1>4, <2>2 DEF CursorsOK
    <3> QED BY <1>2, <2>2, <3>1 DEF FilledOK
  <2> QED BY <2>1, <2>2
<1>7. FreeOK'
  BY <1>1, <1>3, <1>4 DEF FreeOK, CursorsOK
<1>8. ProducersOK'
  BY <1>1, <1>2, <1>4 DEF ProducersOK, CursorsOK, DistinctOK, Producing
<1>9. ConsumersOK'
  <2> SUFFICES ASSUME NEW u \in Threads, Consuming(u) PROVE ConsumersOK!(u)'
    BY <1>3 DEF ConsumersOK
  <2>1. sequence'[Cell(pos[u])] = sequence[Cell(pos[u])]
    BY <1>1, <1>4 DEF ConsumersOK, CursorsOK
  <2> QED BY <2>1 DEF ConsumersOK, Consuming
<1>10. DistinctOK'
  BY <1>2, <1>3 DEF DistinctOK
<1>11. ReservingOK'
  BY <1>1, <1>4 DEF ReservingOK, CursorsOK
<1>12. ArgumentsOK'
  BY DEF ArgumentsOK
<1> QED BY <1>5, <1>6, <1>7, <1>8, <1>9, <1>10, <1>11, <1>12 DEF CellsOK

\* The consumer of position k works in the cell of k + Capacity, which no
\* producer has reserved.
LEMMA PopMoveStep ==
  ASSUME Capacity >= 2, IndInv, NEW t \in Threads, PopMove(t)
  PROVE  CellsOK' /\ ReservingOK' /\ ArgumentsOK'
<1> USE CapacityAssumption, OtherCells DEF IndInv, TypeOK, PopMove, Goto
<1> DEFINE k == pos[t] + Capacity
<1>1. /\ k \in enqueue_pos .. dequeue_pos + Capacity - 1
      /\ Cell(k) = Cell(pos[t]) /\ sequence[Cell(k)] = k - Capacity + 1
  BY DEF ConsumersOK, Consuming
<1>2. \A u \in Threads : Producing(u)' <=> Producing(u)
  BY DEF Producing
<1>3. \A u \in Threads : Consuming(u)' <=> Consuming(u)
  BY DEF Consuming
<1>4. /\ storage'[Cell(k)] = Raw
      /\ \A p \in dequeue_pos .. dequeue_pos + Capacity - 1 :
           p # k => storage'[Cell(p)] = storage[Cell(p)]
  BY <1>1 DEF CursorsOK
<1>5. CursorsOK'
  BY DEF CursorsOK
<1>6. FilledOK'
  BY <1>1, <1>2, <1>4 DEF FilledOK, CursorsOK
<1>7. FreeOK'
  BY <1>1, <1>3, <1>4 DEF FreeOK, CursorsOK
<1>8. ProducersOK'
  BY <1>1, <1>2, <1>4 DEF ProducersOK, CursorsOK, Producing
<1>9. ConsumersOK'
  <2> SUFFICES ASSUME NEW u \in Threads, Consuming(u) PROVE ConsumersOK!(u)'
    BY <1>3 DEF ConsumersOK
  <2>1. CASE u = t
    BY <1>1, <1>4, <2>1 DEF ConsumersOK, Consuming
  <2>2. CASE u # t
    <3>1. pos[u] # pos[t]
      BY <2>2 DEF DistinctOK, Consuming
    <3>2. storage'[Cell(pos[u])] = storage[Cell(pos[u])]
      BY <1>1, <1>4, <3>1 DEF ConsumersOK, CursorsOK
    <3> QED BY <2>2, <3>2 DEF ConsumersOK, Consuming
  <2> QED BY <2>1, <2>2
<1>10. DistinctOK'
  BY <1>2, <1>3 DEF DistinctOK
<1>11. ReservingOK'
  BY DEF ReservingOK
<1>12. ArgumentsOK'
  BY DEF ArgumentsOK, ConsumersOK, Consuming
<1> QED BY <1>5, <1>6, <1>7, <1>8, <1>9, <1>10, <1>11, <1>12 DEF CellsOK

\* The store of pos + capacity_ frees the consumer's cell for the next lap.
LEMMA PopReleaseStep ==
  ASSUME Capacity >= 2, IndInv, NEW t \in Threads, PopRelease(t)
  PROVE  CellsOK' /\ ReservingOK' /\ ArgumentsOK'
<1> USE CapacityAssumption, OtherCells DEF IndInv, TypeOK, PopRelease, Goto
<1> DEFINE k == pos[t] + Capacity
<1>1. /\ k \in enqueue_pos .. dequeue_pos + Capacity - 1
      /\ Cell(k) = Cell(pos[t]) /\ sequence[Cell(k)] = k - Capacity + 1
      /\ storage[Cell(k)] = Raw
  BY DEF ConsumersOK, Consuming
<1>2. \A u \in Threads : Producing(u)' <=> Producing(u)
  BY DEF Producing
<1>3. \A u \in Threads : Consuming(u)' <=> Consuming(u) /\ u # t
  BY DEF Consuming
<1>4. /\ sequence'[Cell(k)] = k
      /\ \A p \in dequeue_pos .. dequeue_pos + Capacity - 1 :
           p # k => sequence'[Cell(p)] = sequence[Cell(p)]
  BY <1>1 DEF CursorsOK
<1>5. CursorsOK'
  BY DEF CursorsOK
<1>6. FilledOK'
  BY <1>1, <1>2, <1>4 DEF FilledOK, CursorsOK
<1>7. FreeOK'
  BY <1>1, <1>3, <1>4 DEF FreeOK, CursorsOK
<1>8. ProducersOK'
  BY <1>1, <1>2, <1>4 DEF ProducersOK, CursorsOK, Producing
<1>9. ConsumersOK'
  <2> SUFFICES ASSUME NEW u \in Threads, Consuming(u), u # t PROVE ConsumersOK!(u)'
    BY <1>3 DEF ConsumersOK
  <2>1. pos[u] # pos[t]
    BY DEF DistinctOK, Consuming
  <2>2. sequence'[Cell(pos[u])] = sequence[Cell(pos[u])]
    BY <1>1, <1>4, <2>1 DEF ConsumersOK, CursorsOK
  <2> QED BY <2>2 DEF ConsumersOK, Consuming
<1>10. DistinctOK'
  BY <1>2, <1>3 DEF DistinctOK
<1>11. ReservingOK'
  BY <1>1, <1>4 DEF ReservingOK, CursorsOK
<1>12. ArgumentsOK'
  BY DEF ArgumentsOK
<1> QED BY <1>5, <1>6, <1>7, <1>8, <1>9, <1>10, <1>11, <1>12 DEF CellsOK

-----------------------------------------------------------------------------
(* The other steps change only what a thread is about to do.               *)

\* Steps that begin or end a call keep the invariant.
LEMMA BeginStep ==
  ASSUME IndInv, NEW t \in Threads,
         \/ \E v \in Values : tryPush(t, v)
         \/ tryPop(t) \/ Destroy(t)
         \/ PushCheckClosed(t) \/ PushCount(t) \/ PopFails(t) \/ PopCount(t)
  PROVE  CellsOK' /\ ReservingOK' /\ ArgumentsOK'
<1> USE DEF IndInv, TypeOK, Goto, shared, tryPush, tryPop, Destroy, AllIdle,
            PushCheckClosed, PushFails, PushCount, PopFails, PopCount
<1>1. CellsOK'
  <2>1. UNCHANGED <<sequence, storage, enqueue_pos, dequeue_pos>>
    OBVIOUS
  <2>2. \A u \in Threads : (Producing(u) \/ Consuming(u) \/ Producing(u)' \/ Consuming(u)')
                           => pc'[u] = pc[u] /\ pos'[u] = pos[u]
    BY DEF Producing, Consuming
  <2>3. CellsOK
    BY DEF CellsOK
  <2> QED BY <2>1, <2>2, <2>3, QuietStep
<1>2. ReservingOK'
  BY DEF ReservingOK
<1>3. ArgumentsOK'
  BY DEF ArgumentsOK
<1> QED BY <1>1, <1>2, <1>3

\* Loads of a cursor or a sequence, and lost compare-exchanges, keep the
\* invariant: what a thread then believes is true while its cursor stays.
LEMMA LoadStep ==
  ASSUME Capacity >= 2, IndInv, NEW t \in Threads,
         \/ PushLoadPos(t) \/ PushCasFails(t) \/ PushLoadSeq(t)
         \/ PopLoadPos(t) \/ PopCasFails(t) \/ PopLoadSeq(t)
  PROVE  CellsOK' /\ ReservingOK' /\ ArgumentsOK'
<1> USE CapacityAssumption DEF IndInv, TypeOK, Goto, shared, PushLoadPos, PushCasFails,
        PushLoadSeq, PushFails, PopLoadPos, PopCasFails, PopLoadSeq, PopDiff
<1>1. CellsOK'
  <2>1. UNCHANGED <<sequence, storage, enqueue_pos, dequeue_pos>>
    OBVIOUS
  <2>2. \A u \in Threads : (Producing(u) \/ Consuming(u) \/ Producing(u)' \/ Consuming(u)')
                           => pc'[u] = pc[u] /\ pos'[u] = pos[u]
    BY DEF Producing, Consuming
  <2>3. CellsOK
    BY DEF CellsOK
  <2> QED BY <2>1, <2>2, <2>3, QuietStep
<1>2. ReservingOK'
  \* The cell of enqueue_pos cannot be free when a whole lap is filled, nor
  \* that of dequeue_pos published when the ring is empty.
  <2>1. sequence[Cell(enqueue_pos)] = enqueue_pos => enqueue_pos < dequeue_pos + Capacity
    BY OtherCells DEF FilledOK, CursorsOK
  <2>2. sequence[Cell(dequeue_pos)] = dequeue_pos + 1 => dequeue_pos < enqueue_pos
    BY OtherCells DEF FreeOK, CursorsOK
  <2>3. CASE PushLoadPos(t) \/ PushCasFails(t) \/ PopLoadPos(t) \/ PopCasFails(t)
    BY <2>3 DEF ReservingOK
  <2>4. CASE PushLoadSeq(t)
    <3>1. sequence[Cell(pos[t])] \in Nat
      BY OtherCells
    <3> QED BY <2>1, <2>4, <3>1 DEF ReservingOK
  <2>5. CASE PopLoadSeq(t)
    <3>1. sequence[Cell(pos[t])] \in Nat
      BY OtherCells
    <3> QED BY <2>2, <2>5, <3>1 DEF ReservingOK
  <2> QED BY <2>3, <2>4, <2>5
<1>3. ArgumentsOK'
  BY DEF ArgumentsOK
<1> QED BY <1>1, <1>2, <1>3

\* Every step of the queue keeps the inductive invariant.
LEMMA IndInvStep ==
  ASSUME Capacity >= 2, IndInv, [Next]_vars
  PROVE  IndInv'
<1>1. TypeOK'
  BY TypeStep DEF IndInv
<1>2. ASSUME NEW t \in Threads,
             (\E v \in Values : tryPush(t, v)) \/ tryPop(t) \/ Destroy(t) \/ PushStep(t) \/ PopStep(t)
      PROVE  CellsOK' /\ ReservingOK' /\ ArgumentsOK'
  BY <1>2, BeginStep, LoadStep, PushCasStep, PushConstructStep, PushPublishStep,
     PopCasStep, PopMoveStep, PopReleaseStep, Zenon DEF PushStep, PopStep
<1>3. ASSUME close \/ Destroyed \/ UNCHANGED vars
      PROVE  CellsOK' /\ ReservingOK' /\ ArgumentsOK'
  <2>1. UNCHANGED <<sequence, storage, enqueue_pos, dequeue_pos, pc, pos, value>>
    BY <1>3 DEF close, Destroyed, vars, shared
  <2>2. CellsOK'
    BY <2>1, QuietStep DEF IndInv, CellsOK
  <2>3. ReservingOK' /\ ArgumentsOK'
    BY <2>1 DEF IndInv, ReservingOK, ArgumentsOK
  <2> QED BY <2>2, <2>3
<1>4. CellsOK' /\ ReservingOK' /\ ArgumentsOK'
  BY <1>2, <1>3, Zenon DEF Next
<1> QED BY <1>1, <1>4 DEF IndInv, CellsOK

\* The inductive invariant implies the three safety properties.
LEMMA IndInvImplies ==
  ASSUME IndInv
  PROVE  ExclusiveCell /\ ObjectLifetime /\ NeverOverfull
<1> USE CapacityAssumption, OtherCells DEF IndInv, TypeOK, CursorsOK
<1>1. NeverOverfull
  BY DEF NeverOverfull
<1>2. ObjectLifetime
  BY RawAssumption DEF ObjectLifetime, ProducersOK, ConsumersOK, Producing, Consuming
<1>3. ExclusiveCell
  <2> DEFINE slot(t) == IF Producing(t) THEN pos[t] ELSE pos[t] + Capacity
  <2>1. \A t \in Threads : Producing(t) \/ Consuming(t) =>
          /\ slot(t) \in dequeue_pos .. dequeue_pos + Capacity - 1
          /\ Cell(slot(t)) = Cell(pos[t])
    BY DEF ProducersOK, ConsumersOK
  <2>2. ASSUME NEW t \in Threads, NEW u \in Threads, t # u,
               Producing(t) \/ Consuming(t), Producing(u) \/ Consuming(u)
        PROVE  slot(t) # slot(u)
    <3>1. \A r \in Threads :
            /\ slot(r) \in Nat /\ pos[r] \in Nat
            /\ Producing(r) => slot(r) = pos[r] /\ slot(r) < enqueue_pos
            /\ Consuming(r) => slot(r) = pos[r] + Capacity /\ slot(r) >= enqueue_pos
      BY DEF ProducersOK, ConsumersOK, Producing, Consuming
    <3> HIDE DEF slot
    <3>2. CASE (Producing(t) /\ Producing(u)) \/ (Consuming(t) /\ Consuming(u))
      <4>1. pos[t] # pos[u]
        BY <2>2, <3>2 DEF DistinctOK
      <4>2. CASE Producing(t) /\ Producing(u)
        BY <3>1, <4>1, <4>2
      <4>3. CASE Consuming(t) /\ Consuming(u)
        <5>1. slot(t) = pos[t] + Capacity /\ slot(u) = pos[u] + Capacity
          BY <3>1, <4>3
        <5>2. pos[t] \in Nat /\ pos[u] \in Nat
          OBVIOUS
        <5> QED BY <4>1, <5>1, <5>2
      <4> QED BY <3>2, <4>2, <4>3
    <3>3. CASE (Producing(t) /\ Consuming(u)) \/ (Consuming(t) /\ Producing(u))
      BY <3>1, <3>3
    <3> QED BY <2>2, <3>2, <3>3
  <2> HIDE DEF slot
  <2> QED BY <2>1, <2>2 DEF ExclusiveCell
<1> QED BY <1>1, <1>2, <1>3

-----------------------------------------------------------------------------
(* The destructor.                                                         *)

PopLabels == {"pop_load", "pop_seq", "pop_cas", "pop_move", "pop_release", "pop_count"}

\* From the destructor on one thread at most is in a call, it pops, and it
\* gives up only when the ring is empty.
DrainOK ==
  /\ phase # "live" =>
       /\ \A t \in Threads : pc[t] \in {"idle"} \cup PopLabels
       /\ \A t, u \in Threads : pc[t] # "idle" /\ pc[u] # "idle" => t = u
       /\ \A t \in Threads : pc[t] = "pop_seq" => pos[t] = dequeue_pos
  /\ phase = "destroyed" => AllIdle /\ dequeue_pos = enqueue_pos

\* A failed pop of the destructor has seen an empty ring.
LEMMA DrainEnds ==
  ASSUME IndInv, DrainOK, NEW t \in Threads, PopFails(t), phase = "draining"
  PROVE  dequeue_pos = enqueue_pos
<1>1. pos[t] = dequeue_pos /\ sequence[Cell(dequeue_pos)] - (dequeue_pos + 1) < 0
  BY DEF DrainOK, PopFails, PopDiff
<1>2. \A u \in Threads : ~Producing(u)
  BY DEF DrainOK, Producing, PopLabels
<1>3. dequeue_pos \in Nat /\ enqueue_pos \in Nat /\ dequeue_pos <= enqueue_pos
  BY DEF IndInv, TypeOK, CursorsOK
<1>4. CASE dequeue_pos < enqueue_pos
  <2>1. dequeue_pos \in dequeue_pos .. enqueue_pos - 1
    BY <1>3, <1>4
  <2>2. sequence[Cell(dequeue_pos)] = dequeue_pos + 1
    BY <1>2, <2>1 DEF IndInv, FilledOK
  <2> QED BY <1>1, <1>3, <2>2
<1> QED BY <1>3, <1>4

\* What the destructor has drained stays drained.
LEMMA DrainStep == IndInv /\ DrainOK /\ [Next]_vars => DrainOK'
<1> SUFFICES ASSUME IndInv, DrainOK, [Next]_vars PROVE DrainOK'
  OBVIOUS
<1> USE DEF DrainOK, AllIdle, PopLabels, Goto, shared
<1>0. /\ pc \in [Threads -> Labels] /\ pos \in [Threads -> Nat]
      /\ phase \in {"live", "draining", "destroyed"}
  BY DEF IndInv, TypeOK
<1>1. ASSUME NEW t \in Threads, NEW v \in Values, tryPush(t, v) PROVE DrainOK'
  BY <1>0, <1>1 DEF tryPush
<1>2. ASSUME NEW t \in Threads, tryPop(t) PROVE DrainOK'
  BY <1>0, <1>2 DEF tryPop
<1>3. ASSUME NEW t \in Threads, Destroy(t) PROVE DrainOK'
  BY <1>0, <1>3 DEF Destroy
<1>4. ASSUME NEW t \in Threads, PushStep(t) PROVE DrainOK'
  <2>1. phase = "live" /\ phase' = phase
    BY <1>0, <1>4 DEF PushStep, PushCheckClosed, PushLoadPos, PushLoadSeq, PushCas, PushCasFails,
                      PushConstruct, PushPublish, PushCount
  <2> QED BY <2>1
<1>5. ASSUME NEW t \in Threads, PopLoadPos(t) \/ PopCasFails(t) PROVE DrainOK'
  BY <1>0, <1>5 DEF PopLoadPos, PopCasFails
<1>6. ASSUME NEW t \in Threads, PopFails(t) PROVE DrainOK'
  <2>1. CASE phase = "draining"
    BY <1>0, <1>6, <2>1, DrainEnds DEF PopFails
  <2>2. CASE phase # "draining"
    BY <1>0, <1>6, <2>2 DEF PopFails
  <2> QED BY <2>1, <2>2
<1>7. ASSUME NEW t \in Threads, PopLoadSeq(t) PROVE DrainOK'
  BY <1>0, <1>7 DEF PopLoadSeq
<1>8. ASSUME NEW t \in Threads, PopCas(t) PROVE DrainOK'
  BY <1>0, <1>8 DEF PopCas
<1>9. ASSUME NEW t \in Threads, PopMove(t) PROVE DrainOK'
  BY <1>0, <1>9 DEF PopMove
<1>10. ASSUME NEW t \in Threads, PopRelease(t) PROVE DrainOK'
  BY <1>0, <1>10 DEF PopRelease
<1>11. ASSUME NEW t \in Threads, PopCount(t) PROVE DrainOK'
  BY <1>0, <1>11 DEF PopCount
<1>12. ASSUME close \/ Destroyed \/ UNCHANGED vars PROVE DrainOK'
  BY <1>12 DEF close, Destroyed, vars
<1> QED BY <1>1, <1>2, <1>3, <1>4, <1>5, <1>6, <1>7, <1>8, <1>9, <1>10, <1>11, <1>12, Zenon
        DEF Next, PopStep

\* Every cell is that of some position of a lap.
LEMMA LapCovers ==
  ASSUME NEW d \in Nat, NEW c \in Cells
  PROVE  \E p \in d .. d + Capacity - 1 : Cell(p) = c
<1> USE CapacityAssumption
<1> DEFINE j == d \div Capacity
<1>1. d = Capacity * j + Cell(d) /\ j \in Nat /\ Cell(d) \in Cells
  BY CellDivision
<1> HIDE DEF j
<1> DEFINE q == Capacity * j + c
<1>2. q \in Nat /\ q + Capacity \in Nat
  BY <1>1 DEF Cells
<1>3. Cell(q) = c
  <2> DEFINE k == q \div Capacity
  <2>1. q = Capacity * k + Cell(q) /\ k \in Nat /\ Cell(q) \in Cells
    BY <1>2, CellDivision
  <2> HIDE DEF k
  <2>2. j = k
    <3>1. Capacity * j + c = Capacity * k + Cell(q)
      BY <2>1
    <3>2. j \in Int /\ k \in Int
      BY <1>1, <2>1
    <3> HIDE DEF q
    <3> QED BY <2>1, <3>1, <3>2, LapUnique, Zenon
  <2> DEFINE m == Capacity * j
  <2>3. m \in Nat /\ m + c = m + Cell(q)
    BY <1>1, <2>1, <2>2
  <2> HIDE DEF m, q
  <2> QED BY <2>1, <2>3 DEF Cells
<1>4. Cell(q + Capacity) = c
  BY <1>2, <1>3, CellLap
<1>5. CASE c >= Cell(d)
  <2>1. q \in d .. d + Capacity - 1
    BY <1>1, <1>5 DEF Cells
  <2> QED BY <1>3, <2>1
<1>6. CASE c < Cell(d)
  <2>1. q + Capacity \in d .. d + Capacity - 1
    BY <1>1, <1>6 DEF Cells
  <2> QED BY <1>4, <2>1
<1> QED BY <1>1, <1>5, <1>6 DEF Cells

\* When the destructor has returned, every cell is raw.
LEMMA DrainImplies == IndInv /\ DrainOK => DestroyedClean
<1> SUFFICES ASSUME IndInv, DrainOK, phase = "destroyed", NEW c \in Cells
             PROVE  storage[c] = Raw
  BY DEF DestroyedClean
<1>1. dequeue_pos \in Nat /\ dequeue_pos = enqueue_pos /\ \A t \in Threads : ~Consuming(t)
  BY DEF IndInv, TypeOK, DrainOK, AllIdle, Consuming
<1>2. PICK p \in dequeue_pos .. dequeue_pos + Capacity - 1 : Cell(p) = c
  BY <1>1, LapCovers
<1> QED BY <1>1, <1>2 DEF IndInv, FreeOK

-----------------------------------------------------------------------------
(* The statistics.                                                         *)

At(labels) == {t \in Threads : pc[t] \in labels}

CallLabels == Labels \ {"idle"}
PushedLabels == {"push_construct", "push_publish", "push_count"}
PoppedLabels == {"pop_move", "pop_release", "pop_count"}

\* The tallies miss exactly the calls that have not returned, and of the
\* cursors' steps those not yet counted.
CountsOK ==
  phase = "live" =>
    /\ calls = stats.pushes + stats.failed_pushes + stats.pops + stats.failed_pops
                 + Cardinality(At(CallLabels))
    /\ enqueue_pos = stats.pushes + Cardinality(At(PushedLabels))
    /\ dequeue_pos = stats.pops + Cardinality(At(PoppedLabels))

\* What the step of t to `label` adds to the number of threads in L.
Delta(t, label, L) == (IF label \in L THEN 1 ELSE 0) - (IF pc[t] \in L THEN 1 ELSE 0)

\* A step of one thread changes a count of places by what it leaves and
\* enters.
LEMMA CountMove ==
  ASSUME TypeOK, NEW t \in Threads, NEW label, NEW L, pc' = [pc EXCEPT ![t] = label]
  PROVE  /\ Cardinality(At(L)) \in Nat /\ Cardinality(At(L)') \in Nat
         /\ Cardinality(At(L)') = Cardinality(At(L)) + Delta(t, label, L)
<1>1. At(L) \in SUBSET Threads /\ At(L)' \in SUBSET Threads
  BY DEF At
<1>2. IsFiniteSet(At(L)) /\ IsFiniteSet(At(L)')
      /\ Cardinality(At(L)) \in Nat /\ Cardinality(At(L)') \in Nat
  BY <1>1, ThreadsAssumption, FS_Subset, FS_CardinalityType
<1>3. At(L)' = IF label \in L THEN (At(L) \ {t}) \cup {t} ELSE At(L) \ {t}
  BY DEF At, TypeOK
<1>4. t \in At(L) <=> pc[t] \in L
  BY DEF At
<1>5. IsFiniteSet(At(L) \ {t}) /\ Cardinality(At(L) \ {t}) \in Nat
      /\ Cardinality(At(L) \ {t}) = IF pc[t] \in L THEN Cardinality(At(L)) - 1 ELSE Cardinality(At(L))
  BY <1>2, <1>4, FS_RemoveElement, FS_CardinalityType
<1>6. Cardinality((At(L) \ {t}) \cup {t}) = Cardinality(At(L) \ {t}) + 1
  BY <1>5, FS_AddElement
<1> QED BY <1>2, <1>3, <1>5, <1>6 DEF Delta

\* What a step adds to each tally agrees with where its thread goes.
LEMMA CountsKept ==
  ASSUME TypeOK, TypeOK', CountsOK, phase' = phase, NEW t \in Threads, NEW label, Goto(t, label),
         (calls' - calls) = (stats'.pushes - stats.pushes)
                              + (stats'.failed_pushes - stats.failed_pushes)
                              + (stats'.pops - stats.pops)
                              + (stats'.failed_pops - stats.failed_pops)
                              + Delta(t, label, CallLabels),
         enqueue_pos' - enqueue_pos = (stats'.pushes - stats.pushes) + Delta(t, label, PushedLabels),
         dequeue_pos' - dequeue_pos = (stats'.pops - stats.pops) + Delta(t, label, PoppedLabels)
  PROVE  CountsOK'
<1> SUFFICES ASSUME phase = "live" PROVE CountsOK'
  BY DEF CountsOK
<1> DEFINE a == stats.pushes a1 == stats'.pushes b == stats.failed_pushes b1 == stats'.failed_pushes
           c == stats.pops c1 == stats'.pops d == stats.failed_pops d1 == stats'.failed_pops
           n == calls n1 == calls' e == enqueue_pos e1 == enqueue_pos' f == dequeue_pos
           f1 == dequeue_pos'
           i == Cardinality(At(CallLabels)) i1 == Cardinality(At(CallLabels)')
           j == Cardinality(At(PushedLabels)) j1 == Cardinality(At(PushedLabels)')
           k == Cardinality(At(PoppedLabels)) k1 == Cardinality(At(PoppedLabels)')
           x == Delta(t, label, CallLabels) y == Delta(t, label, PushedLabels)
           z == Delta(t, label, PoppedLabels)
<1>1. a \in Nat /\ b \in Nat /\ c \in Nat /\ d \in Nat /\ a1 \in Nat /\ b1 \in Nat /\ c1 \in Nat
      /\ d1 \in Nat /\ n \in Nat /\ n1 \in Nat /\ e \in Nat /\ e1 \in Nat /\ f \in Nat /\ f1 \in Nat
  BY DEF TypeOK, LockFreeQueueStats
<1>2. i \in Nat /\ i1 \in Nat /\ i1 = i + x /\ j \in Nat /\ j1 \in Nat /\ j1 = j + y
      /\ k \in Nat /\ k1 \in Nat /\ k1 = k + z
  BY CountMove DEF Goto
<1>3. x \in Int /\ y \in Int /\ z \in Int
  BY DEF Delta
<1>4. n = a + b + c + d + i /\ e = a + j /\ f = c + k
  BY DEF CountsOK
<1>5. n1 - n = (a1 - a) + (b1 - b) + (c1 - c) + (d1 - d) + x /\ e1 - e = (a1 - a) + y
      /\ f1 - f = (c1 - c) + z
  OBVIOUS
<1>6. n1 = a1 + b1 + c1 + d1 + i1 /\ e1 = a1 + j1 /\ f1 = c1 + k1 => CountsOK'
  BY DEF CountsOK
<1> HIDE DEF a, a1, b, b1, c, c1, d, d1, n, n1, e, e1, f, f1, i, i1, j, j1, k, k1, x, y, z
<1> QED BY <1>1, <1>2, <1>3, <1>4, <1>5, <1>6

\* The tallies follow the calls.
LEMMA CountsStep == TypeOK /\ TypeOK' /\ CountsOK /\ [Next]_vars => CountsOK'
<1> SUFFICES ASSUME TypeOK, TypeOK', CountsOK, [Next]_vars PROVE CountsOK'
  OBVIOUS
<1> USE DEF Delta, CallLabels, PushedLabels, PoppedLabels, Labels
<1>0. /\ stats.pushes \in Nat /\ stats.pops \in Nat /\ stats.failed_pushes \in Nat
      /\ stats.failed_pops \in Nat /\ stats.closed_pushes \in Nat
      /\ calls \in Nat /\ enqueue_pos \in Nat /\ dequeue_pos \in Nat
  BY DEF TypeOK, LockFreeQueueStats
<1>1. ASSUME NEW t \in Threads, NEW v \in Values, tryPush(t, v) PROVE CountsOK'
  BY <1>0, <1>1, CountsKept DEF tryPush, shared
<1>2. ASSUME NEW t \in Threads, tryPop(t) PROVE CountsOK'
  BY <1>0, <1>2, CountsKept DEF tryPop, shared
<1>3. ASSUME NEW t \in Threads, Destroy(t) PROVE CountsOK'
  BY <1>3 DEF Destroy, CountsOK
<1>4. ASSUME NEW t \in Threads, PushCheckClosed(t) PROVE CountsOK'
  <2>1. CASE closed
    <3>1. /\ stats'.pushes = stats.pushes /\ stats'.pops = stats.pops
          /\ stats'.failed_pushes = stats.failed_pushes + 1
          /\ stats'.failed_pops = stats.failed_pops
      BY <1>4, <2>1 DEF PushCheckClosed, TypeOK, LockFreeQueueStats
    <3> QED BY <1>0, <1>4, <2>1, <3>1, CountsKept DEF PushCheckClosed, PushFails, shared
  <2>2. CASE ~closed
    BY <1>0, <1>4, <2>2, CountsKept DEF PushCheckClosed, shared
  <2> QED BY <2>1, <2>2
<1>5. ASSUME NEW t \in Threads, PushLoadPos(t) \/ PushCasFails(t) PROVE CountsOK'
  BY <1>0, <1>5, CountsKept DEF PushLoadPos, PushCasFails, shared
<1>6. ASSUME NEW t \in Threads, PushLoadSeq(t) PROVE CountsOK'
  <2>1. CASE PushFails(t) /\ stats' = [stats EXCEPT !.failed_pushes = @ + 1]
    <3>1. /\ stats'.pushes = stats.pushes /\ stats'.pops = stats.pops
          /\ stats'.failed_pushes = stats.failed_pushes + 1
          /\ stats'.failed_pops = stats.failed_pops
      BY <2>1 DEF TypeOK, LockFreeQueueStats
    <3> QED BY <1>0, <1>6, <2>1, <3>1, CountsKept DEF PushLoadSeq, PushFails, shared
  <2>2. CASE (Goto(t, "push_cas") \/ Goto(t, "push_load")) /\ UNCHANGED stats
    BY <1>0, <1>6, <2>2, CountsKept DEF PushLoadSeq, shared
  <2> QED BY <1>6, <2>1, <2>2 DEF PushLoadSeq
<1>7. ASSUME NEW t \in Threads, PushCas(t) PROVE CountsOK'
  BY <1>0, <1>7, CountsKept DEF PushCas
<1>8. ASSUME NEW t \in Threads, PushConstruct(t) \/ PushPublish(t) PROVE CountsOK'
  BY <1>0, <1>8, CountsKept DEF PushConstruct, PushPublish
<1>9. ASSUME NEW t \in Threads, PushCount(t) PROVE CountsOK'
  <2>1. /\ stats'.pushes = stats.pushes + 1 /\ stats'.pops = stats.pops
        /\ stats'.failed_pushes = stats.failed_pushes
        /\ stats'.failed_pops = stats.failed_pops
    BY <1>9 DEF PushCount, TypeOK, LockFreeQueueStats
  <2> QED BY <1>0, <1>9, <2>1, CountsKept DEF PushCount, shared
<1>10. ASSUME NEW t \in Threads, PopLoadPos(t) \/ PopCasFails(t) \/ PopLoadSeq(t) PROVE CountsOK'
  BY <1>0, <1>10, CountsKept DEF PopLoadPos, PopCasFails, PopLoadSeq, shared
<1>11. ASSUME NEW t \in Threads, PopFails(t) PROVE CountsOK'
  <2>1. CASE phase = "live"
    <3>1. /\ stats'.pushes = stats.pushes /\ stats'.pops = stats.pops
          /\ stats'.failed_pushes = stats.failed_pushes
          /\ stats'.failed_pops = stats.failed_pops + 1
      BY <1>11 DEF PopFails, TypeOK, LockFreeQueueStats
    <3> QED BY <1>0, <1>11, <2>1, <3>1, CountsKept DEF PopFails, shared
  <2>2. CASE phase # "live"
    BY <1>11, <2>2 DEF PopFails, CountsOK
  <2> QED BY <2>1, <2>2
<1>12. ASSUME NEW t \in Threads, PopCas(t) PROVE CountsOK'
  BY <1>0, <1>12, CountsKept DEF PopCas
<1>13. ASSUME NEW t \in Threads, PopMove(t) \/ PopRelease(t) PROVE CountsOK'
  BY <1>0, <1>13, CountsKept DEF PopMove, PopRelease
<1>14. ASSUME NEW t \in Threads, PopCount(t) PROVE CountsOK'
  <2>1. CASE phase = "live"
    <3>1. /\ stats'.pushes = stats.pushes /\ stats'.pops = stats.pops + 1
          /\ stats'.failed_pushes = stats.failed_pushes
          /\ stats'.failed_pops = stats.failed_pops
      BY <1>14 DEF PopCount, TypeOK, LockFreeQueueStats
    <3> QED BY <1>0, <1>14, <2>1, <3>1, CountsKept DEF PopCount, shared
  <2>2. CASE phase # "live"
    BY <1>14, <2>2 DEF PopCount, CountsOK
  <2> QED BY <2>1, <2>2
<1>15. ASSUME close \/ Destroyed \/ UNCHANGED vars PROVE CountsOK'
  BY <1>15 DEF close, Destroyed, vars, shared, CountsOK, At
<1> QED BY <1>1, <1>2, <1>3, <1>4, <1>5, <1>6, <1>7, <1>8, <1>9, <1>10, <1>11, <1>12, <1>13,
           <1>14, <1>15, Zenon
        DEF Next, PushStep, PopStep

\* With no call under way the tallies balance.
LEMMA CountsImply == TypeOK /\ CountsOK => StatsBalance
<1> SUFFICES ASSUME TypeOK, CountsOK, AllIdle, phase = "live"
             PROVE  /\ calls = stats.pushes + stats.failed_pushes + stats.pops + stats.failed_pops
                    /\ stats.pushes - stats.pops = enqueue_pos - dequeue_pos
  BY DEF StatsBalance
<1>1. At(CallLabels) = {} /\ At(PushedLabels) = {} /\ At(PoppedLabels) = {}
  BY DEF At, AllIdle, CallLabels, PushedLabels, PoppedLabels
<1>2. /\ calls = stats.pushes + stats.failed_pushes + stats.pops + stats.failed_pops + 0
      /\ enqueue_pos = stats.pushes + 0 /\ dequeue_pos = stats.pops + 0
  BY <1>1, FS_EmptySet DEF CountsOK
<1>3. stats.pushes \in Nat /\ stats.pops \in Nat /\ stats.failed_pushes \in Nat
      /\ stats.failed_pops \in Nat
  BY DEF TypeOK, LockFreeQueueStats
<1> QED BY <1>2, <1>3

-----------------------------------------------------------------------------
(* The queue implements the bounded FIFO.                                  *)

\* The refinement mapping.
Queue == [i \in 1 .. enqueue_pos - dequeue_pos |-> ElementAt(dequeue_pos + i - 1)]
Taken == [t \in Threads |-> TakenBy(t)]

\* v is the element of position p: its producer still has it, or has
\* constructed it in its cell.
ElementIs(p, v) ==
  \/ \E t \in Threads : pc[t] = "push_construct" /\ pos[t] = p /\ value[t] = v
  \/ /\ \A t \in Threads : ~(pc[t] = "push_construct" /\ pos[t] = p)
     /\ v = storage[Cell(p)]

QueueOK == /\ Queue \in Seq(Values)
           /\ Len(Queue) = enqueue_pos - dequeue_pos
           /\ \A i \in 1 .. enqueue_pos - dequeue_pos : ElementIs(dequeue_pos + i - 1, Queue[i])

\* A position has one element.
LEMMA ElementUnique ==
  IndInv => \A p, v, w : ElementIs(p, v) /\ ElementIs(p, w) => v = w
BY DEF IndInv, DistinctOK, Producing, ElementIs

\* The same after a step.
LEMMA ElementUniqueNext ==
  IndInv' => \A p, v, w : ElementIs(p, v)' /\ ElementIs(p, w)' => v = w
BY DEF IndInv, DistinctOK, Producing, ElementIs

\* The abstract queue is as long as the cursors are apart.
LEMMA QueueIsSeq == IndInv => QueueOK
<1> SUFFICES ASSUME IndInv PROVE QueueOK
  OBVIOUS
<1>1. enqueue_pos \in Nat /\ dequeue_pos \in Nat /\ enqueue_pos - dequeue_pos \in Nat
  BY DEF IndInv, TypeOK, CursorsOK
<1>2. ASSUME NEW p \in dequeue_pos .. enqueue_pos - 1
      PROVE  ElementAt(p) \in Values /\ ElementIs(p, ElementAt(p))
  <2>1. CASE \E t \in Threads : pc[t] = "push_construct" /\ pos[t] = p
    <3> DEFINE u == CHOOSE t \in Threads : pc[t] = "push_construct" /\ pos[t] = p
    <3>1. u \in Threads /\ pc[u] = "push_construct" /\ pos[u] = p
      BY <2>1
    <3>2. ElementAt(p) = value[u]
      BY <2>1 DEF ElementAt
    <3> HIDE DEF u
    <3> QED BY <3>1, <3>2 DEF ElementIs, IndInv, ArgumentsOK
  <2>2. CASE ~\E t \in Threads : pc[t] = "push_construct" /\ pos[t] = p
    <3>1. ElementAt(p) = storage[Cell(p)]
      BY <2>2 DEF ElementAt
    <3>2. storage[Cell(p)] \in Values
      BY <2>2 DEF IndInv, FilledOK, ProducersOK, Producing
    <3> QED BY <2>2, <3>1, <3>2 DEF ElementIs
  <2> QED BY <2>1, <2>2
<1>3. ASSUME NEW i \in 1 .. enqueue_pos - dequeue_pos
      PROVE  dequeue_pos + i - 1 \in dequeue_pos .. enqueue_pos - 1
  BY <1>1
<1>4. Queue \in [1 .. enqueue_pos - dequeue_pos -> Values]
  BY <1>2, <1>3 DEF Queue
<1>5. Queue \in Seq(Values) /\ Len(Queue) = enqueue_pos - dequeue_pos
  BY <1>1, <1>4, SeqDef
<1>6. \A i \in 1 .. enqueue_pos - dequeue_pos : ElementIs(dequeue_pos + i - 1, Queue[i])
  BY <1>2, <1>3 DEF Queue
<1> QED BY <1>5, <1>6 DEF QueueOK

\* The same after a step.
LEMMA QueueIsSeqNext == IndInv' => QueueOK'
BY QueueIsSeq, PTL

\* The elements after a step, from where they are.
LEMMA QueueSame ==
  ASSUME IndInv, IndInv', UNCHANGED <<enqueue_pos, dequeue_pos>>,
         \A p \in dequeue_pos .. enqueue_pos - 1 : \A v : ElementIs(p, v) => ElementIs(p, v)'
  PROVE  Queue' = Queue
<1>1. enqueue_pos \in Nat /\ dequeue_pos \in Nat /\ enqueue_pos - dequeue_pos \in Nat
  BY DEF IndInv, TypeOK, CursorsOK
<1>2. Queue \in Seq(Values) /\ Len(Queue) = enqueue_pos - dequeue_pos
      /\ \A i \in 1 .. enqueue_pos - dequeue_pos : ElementIs(dequeue_pos + i - 1, Queue[i])
  BY QueueIsSeq DEF QueueOK
<1>3. Queue' \in Seq(Values) /\ Len(Queue') = enqueue_pos - dequeue_pos
      /\ \A i \in 1 .. enqueue_pos - dequeue_pos :
           \E p, v : p = dequeue_pos + i - 1 /\ v = Queue'[i] /\ ElementIs(p, v)'
  BY QueueIsSeqNext DEF QueueOK, ElementIs
<1>4. ASSUME NEW i \in 1 .. enqueue_pos - dequeue_pos
      PROVE  Queue'[i] = Queue[i]
  <2>1. dequeue_pos + i - 1 \in dequeue_pos .. enqueue_pos - 1
    BY <1>1
  <2>2. PICK p, v : p = dequeue_pos + i - 1 /\ v = Queue'[i] /\ ElementIs(p, v)'
    BY <1>3
  <2>3. ElementIs(p, Queue[i])
    BY <1>2, <2>2
  <2>4. PICK w : w = Queue[i]
    OBVIOUS
  <2>5. ElementIs(p, w)'
    BY <2>1, <2>2, <2>3, <2>4
  <2> QED BY <2>2, <2>4, <2>5, ElementUniqueNext
<1> QED BY <1>2, <1>3, <1>4, SeqEqual

\* A position that is reserved at the end is one element more.
LEMMA QueueGrows ==
  ASSUME IndInv, IndInv', NEW e, e = enqueue_pos, enqueue_pos' = e + 1, dequeue_pos' = dequeue_pos,
         \A p \in dequeue_pos .. enqueue_pos - 1 : \A v : ElementIs(p, v) => ElementIs(p, v)',
         NEW x \in Values, ElementIs(e, x)'
  PROVE  Queue' = Append(Queue, x)
<1> DEFINE n == enqueue_pos - dequeue_pos
<1>1. e \in Nat /\ dequeue_pos \in Nat /\ n \in Nat /\ enqueue_pos' - dequeue_pos = n + 1
      /\ dequeue_pos + (n + 1) - 1 = e /\ n = e - dequeue_pos
  BY DEF IndInv, TypeOK, CursorsOK
<1>2. Queue \in Seq(Values) /\ Len(Queue) = n
      /\ \A i \in 1 .. n : ElementIs(dequeue_pos + i - 1, Queue[i])
  BY QueueIsSeq DEF QueueOK
<1>3. Queue' \in Seq(Values) /\ Len(Queue') = n + 1
      /\ \A i \in 1 .. n + 1 :
           \E p, v : p = dequeue_pos + i - 1 /\ v = Queue'[i] /\ ElementIs(p, v)'
  BY <1>1, QueueIsSeqNext DEF QueueOK, ElementIs
<1>4. \A i \in 1 .. n : dequeue_pos + i - 1 \in dequeue_pos .. enqueue_pos - 1
  BY <1>1
<1> HIDE DEF n
<1>5. ASSUME NEW i \in 1 .. n
      PROVE  Queue'[i] = Queue[i]
  <2>1. dequeue_pos + i - 1 \in dequeue_pos .. enqueue_pos - 1 /\ i \in 1 .. n + 1
    BY <1>1, <1>4
  <2>2. PICK p, v : p = dequeue_pos + i - 1 /\ v = Queue'[i] /\ ElementIs(p, v)'
    BY <1>3, <2>1
  <2>3. ElementIs(p, Queue[i])
    BY <1>2, <2>2
  <2>4. PICK w : w = Queue[i]
    OBVIOUS
  <2>5. ElementIs(p, w)'
    BY <2>1, <2>2, <2>3, <2>4
  <2> QED BY <2>2, <2>4, <2>5, ElementUniqueNext
<1>6. Queue'[n + 1] = x
  <2>1. n + 1 \in 1 .. n + 1
    BY <1>1
  <2>2. PICK p, v : p = dequeue_pos + (n + 1) - 1 /\ v = Queue'[n + 1] /\ ElementIs(p, v)'
    BY <1>3, <2>1
  <2>3. p = e
    BY <1>1, <2>2
  <2> QED BY <2>2, <2>3, ElementUniqueNext
<1>7. Append(Queue, x) \in Seq(Values) /\ Len(Append(Queue, x)) = n + 1
      /\ (\A i \in 1 .. n : Append(Queue, x)[i] = Queue[i]) /\ Append(Queue, x)[n + 1] = x
  BY <1>2
<1>8. ASSUME NEW i \in 1 .. n + 1
      PROVE  Queue'[i] = Append(Queue, x)[i]
  <2>1. i \in 1 .. n \/ i = n + 1
    BY <1>1
  <2> QED BY <1>5, <1>6, <1>7, <2>1
<1> QED BY <1>3, <1>7, <1>8, SeqEqual

\* A position that is taken at the front is the oldest element.
LEMMA QueueShrinks ==
  ASSUME IndInv, IndInv', NEW d, d = dequeue_pos, dequeue_pos' = d + 1, enqueue_pos' = enqueue_pos,
         \A p \in dequeue_pos + 1 .. enqueue_pos - 1 : \A v : ElementIs(p, v) => ElementIs(p, v)',
         dequeue_pos < enqueue_pos
  PROVE  Queue # <<>> /\ Queue' = Tail(Queue) /\ ElementIs(d, Head(Queue))
<1> DEFINE n == enqueue_pos - dequeue_pos
<1>1. enqueue_pos \in Nat /\ d \in Nat /\ n \in Nat \ {0} /\ enqueue_pos' - dequeue_pos' = n - 1
      /\ n = enqueue_pos - d
  BY DEF IndInv, TypeOK, CursorsOK
<1>2. Queue \in Seq(Values) /\ Len(Queue) = n
      /\ \A i \in 1 .. n : ElementIs(d + i - 1, Queue[i])
  BY QueueIsSeq DEF QueueOK
<1>3. Queue' \in Seq(Values) /\ Len(Queue') = n - 1
      /\ \A i \in 1 .. n - 1 :
           \E p, v : p = (d + 1) + i - 1 /\ v = Queue'[i] /\ ElementIs(p, v)'
  BY <1>1, QueueIsSeqNext DEF QueueOK, ElementIs
<1>4. \A i \in 1 .. n - 1 : /\ (d + 1) + i - 1 \in dequeue_pos + 1 .. enqueue_pos - 1
                            /\ (d + 1) + i - 1 = d + (i + 1) - 1 /\ i + 1 \in 1 .. n
  BY <1>1
<1> HIDE DEF n
<1>5. Queue # <<>>
  BY <1>1, <1>2
<1>6. Tail(Queue) \in Seq(Values) /\ Len(Tail(Queue)) = n - 1 /\ Head(Queue) = Queue[1]
      /\ \A i \in 1 .. n - 1 : Tail(Queue)[i] = Queue[i + 1]
  BY <1>2, <1>5, HeadTailProperties
<1>7. ElementIs(d, Head(Queue))
  <2>1. 1 \in 1 .. n /\ d + 1 - 1 = d
    BY <1>1
  <2> QED BY <1>2, <1>6, <2>1
<1>8. ASSUME NEW i \in 1 .. n - 1
      PROVE  Queue'[i] = Tail(Queue)[i]
  <2>1. PICK p, v : p = (d + 1) + i - 1 /\ v = Queue'[i] /\ ElementIs(p, v)'
    BY <1>3
  <2>2. ElementIs(p, Queue[i + 1]) /\ p \in dequeue_pos + 1 .. enqueue_pos - 1
    BY <1>2, <1>4, <2>1
  <2>3. PICK w : w = Queue[i + 1]
    OBVIOUS
  <2>4. ElementIs(p, w)'
    BY <2>2, <2>3
  <2> QED BY <1>6, <2>1, <2>3, <2>4, ElementUniqueNext
<1> QED BY <1>3, <1>5, <1>6, <1>7, <1>8, SeqEqual

\* A producer's compare-exchange puts its element at the back.
LEMMA PushCasRefines ==
  ASSUME Capacity >= 2, IndInv, IndInv', NEW t \in Threads, PushCas(t)
  PROVE  \E v \in Values : BQ!Enqueue(v)
<1>1. PICK e : e = enqueue_pos
  OBVIOUS
<1>2. PICK x : x = value[t]
  OBVIOUS
<1>3. x \in Values /\ pos[t] = e /\ enqueue_pos' = e + 1 /\ dequeue_pos' = dequeue_pos
      /\ UNCHANGED <<storage, pos, value>> /\ pc' = [pc EXCEPT ![t] = "push_construct"]
      /\ pc[t] = "push_cas" /\ e \in Nat /\ dequeue_pos \in Nat
      /\ pc \in [Threads -> Labels]
  BY <1>1, <1>2 DEF PushCas, Goto, IndInv, ArgumentsOK, TypeOK
<1>4. ElementIs(e, x)'
  BY <1>2, <1>3 DEF ElementIs
<1>5. ASSUME NEW p \in dequeue_pos .. enqueue_pos - 1, NEW v, ElementIs(p, v)
      PROVE  ElementIs(p, v)'
  <2>1. p # e
    BY <1>1, <1>3
  <2> QED BY <1>3, <1>5, <2>1 DEF ElementIs
<1>6. Queue' = Append(Queue, x)
  BY <1>1, <1>3, <1>4, <1>5, QueueGrows
<1>7. Taken' = Taken
  BY <1>3 DEF Taken, TakenBy
<1>8. Len(Queue) < Capacity
  <2>1. Len(Queue) = enqueue_pos - dequeue_pos
    BY QueueIsSeq DEF QueueOK
  <2>2. enqueue_pos < dequeue_pos + Capacity
    BY <1>1, <1>3 DEF IndInv, ReservingOK
  <2> QED BY <1>1, <1>3, <2>1, <2>2, CapacityAssumption
<1>9. BQ!Enqueue(x)
  BY <1>6, <1>7, <1>8 DEF BQ!Enqueue, Queue, Taken
<1> QED BY <1>3, <1>9

\* A consumer's compare-exchange takes the element at the front.
LEMMA PopCasRefines ==
  ASSUME Capacity >= 2, IndInv, IndInv', NEW t \in Threads, PopCas(t)
  PROVE  BQ!Dequeue(t)
<1>1. PICK d : d = dequeue_pos
  OBVIOUS
<1>2. pos[t] = d /\ dequeue_pos' = d + 1 /\ enqueue_pos' = enqueue_pos
      /\ UNCHANGED <<storage, pos, value>> /\ pc' = [pc EXCEPT ![t] = "pop_move"]
      /\ pc[t] = "pop_cas" /\ d \in Nat /\ enqueue_pos \in Nat
      /\ pc \in [Threads -> Labels]
  BY <1>1 DEF PopCas, Goto, IndInv, TypeOK
<1>3. dequeue_pos < enqueue_pos /\ sequence[Cell(d)] = d + 1
  BY <1>1, <1>2 DEF IndInv, ReservingOK
<1>4. \A p, v : ElementIs(p, v) => ElementIs(p, v)'
  BY <1>2 DEF ElementIs
<1>5. Queue # <<>> /\ Queue' = Tail(Queue) /\ ElementIs(d, Head(Queue))
  BY <1>1, <1>2, <1>3, <1>4, QueueShrinks
<1>6. Head(Queue) = storage[Cell(d)]
  <2>1. \A u \in Threads : ~(pc[u] = "push_construct" /\ pos[u] = d)
    BY <1>2, <1>3 DEF IndInv, ProducersOK, Producing
  <2> QED BY <1>5, <2>1 DEF ElementIs
<1>7. Taken[t] = Raw /\ Taken' = [Taken EXCEPT ![t] = Head(Queue)]
  BY <1>2, <1>6 DEF Taken, TakenBy
<1> QED BY <1>5, <1>7 DEF BQ!Dequeue, Queue, Taken

\* The construction in the cell moves the element, and is not seen.
LEMMA PushConstructRefines ==
  ASSUME Capacity >= 2, IndInv, IndInv', NEW t \in Threads, PushConstruct(t)
  PROVE  UNCHANGED BQ!vars
<1> USE CapacityAssumption
<1>1. /\ pc[t] = "push_construct" /\ pc' = [pc EXCEPT ![t] = "push_publish"]
      /\ value' = [value EXCEPT ![t] = Raw] /\ storage' = [storage EXCEPT ![Cell(pos[t])] = value[t]]
      /\ UNCHANGED <<enqueue_pos, dequeue_pos, pos>>
      /\ pc \in [Threads -> Labels] /\ value \in [Threads -> Values \cup {Raw}]
      /\ storage \in [Cells -> Values \cup {Raw}] /\ pos \in [Threads -> Nat]
      /\ enqueue_pos \in Nat /\ dequeue_pos \in Nat
  BY DEF PushConstruct, Goto, IndInv, TypeOK
<1>2. pos[t] \in dequeue_pos .. enqueue_pos - 1 /\ enqueue_pos <= dequeue_pos + Capacity
  BY <1>1 DEF IndInv, ProducersOK, Producing, CursorsOK
<1>3. \A p, q \in dequeue_pos .. dequeue_pos + Capacity - 1 : p # q => Cell(p) # Cell(q)
  BY OtherCells DEF IndInv
<1>4. \A p \in Nat : Cell(p) \in Cells
  BY OtherCells DEF IndInv
<1>5. ASSUME NEW p \in dequeue_pos .. enqueue_pos - 1, NEW v, ElementIs(p, v)
      PROVE  ElementIs(p, v)'
  <2>1. p \in Nat /\ Cell(p) \in Cells /\ p \in dequeue_pos .. dequeue_pos + Capacity - 1
        /\ pos[t] \in dequeue_pos .. dequeue_pos + Capacity - 1
    BY <1>1, <1>2, <1>4
  <2>2. CASE p = pos[t]
    <3>1. \A u \in Threads : u # t => ~(pc[u] = "push_construct" /\ pos[u] = p)
      BY <1>1, <2>2 DEF IndInv, DistinctOK, Producing
    <3>2. v = value[t]
      BY <1>1, <1>5, <2>2, <3>1 DEF ElementIs
    <3>3. storage'[Cell(p)] = v
      BY <1>1, <2>1, <2>2, <3>2
    <3>4. \A u \in Threads : ~(pc'[u] = "push_construct" /\ pos'[u] = p)
      BY <1>1, <3>1
    <3> QED BY <3>3, <3>4 DEF ElementIs, Cell
  <2>3. CASE p # pos[t]
    <3>1. storage'[Cell(p)] = storage[Cell(p)]
      BY <1>1, <1>3, <2>1, <2>3
    <3> QED BY <1>1, <1>5, <2>3, <3>1 DEF ElementIs, Cell
  <2> QED BY <2>2, <2>3
<1>6. Queue' = Queue
  BY <1>1, <1>5, QueueSame
<1>7. ASSUME NEW u \in Threads
      PROVE  TakenBy(u)' = TakenBy(u)
  <2>1. pc[u] = "pop_move" => Cell(pos[u]) # Cell(pos[t])
    BY <1>1, IndInvImplies DEF ExclusiveCell, Producing, Consuming
  <2>2. pc[u] = "pop_move" => storage'[Cell(pos[u])] = storage[Cell(pos[u])]
    BY <1>1, <1>4, <2>1
  <2> QED BY <1>1, <2>2 DEF TakenBy, Cell
<1>8. Taken' = Taken
  BY <1>7 DEF Taken
<1> QED BY <1>6, <1>8 DEF BQ!vars, Queue, Taken

\* So does the move out of the cell.
LEMMA PopMoveRefines ==
  ASSUME Capacity >= 2, IndInv, IndInv', NEW t \in Threads, PopMove(t)
  PROVE  UNCHANGED BQ!vars
<1> USE CapacityAssumption
<1>1. /\ pc[t] = "pop_move" /\ pc' = [pc EXCEPT ![t] = "pop_release"]
      /\ value' = [value EXCEPT ![t] = storage[Cell(pos[t])]]
      /\ storage' = [storage EXCEPT ![Cell(pos[t])] = Raw]
      /\ UNCHANGED <<enqueue_pos, dequeue_pos, pos>>
      /\ pc \in [Threads -> Labels] /\ value \in [Threads -> Values \cup {Raw}]
      /\ storage \in [Cells -> Values \cup {Raw}] /\ pos \in [Threads -> Nat]
      /\ enqueue_pos \in Nat /\ dequeue_pos \in Nat
  BY DEF PopMove, Goto, IndInv, TypeOK
<1>2. pos[t] + Capacity \in enqueue_pos .. dequeue_pos + Capacity - 1
      /\ dequeue_pos <= enqueue_pos /\ enqueue_pos <= dequeue_pos + Capacity
  BY <1>1 DEF IndInv, ConsumersOK, Consuming, CursorsOK
<1>3. \A p, q \in dequeue_pos .. dequeue_pos + Capacity - 1 : p # q => Cell(p) # Cell(q)
  BY OtherCells DEF IndInv
<1>4. \A p \in Nat : Cell(p) \in Cells /\ Cell(p + Capacity) = Cell(p)
  BY OtherCells DEF IndInv
<1>5. ASSUME NEW p \in dequeue_pos .. enqueue_pos - 1, NEW v, ElementIs(p, v)
      PROVE  ElementIs(p, v)'
  <2>1. p \in Nat /\ Cell(p) \in Cells /\ p \in dequeue_pos .. dequeue_pos + Capacity - 1
        /\ pos[t] + Capacity \in dequeue_pos .. dequeue_pos + Capacity - 1 /\ p # pos[t] + Capacity
    BY <1>1, <1>2, <1>4
  <2>2. Cell(p) # Cell(pos[t] + Capacity)
    BY <1>3, <2>1
  <2>3. storage'[Cell(p)] = storage[Cell(p)]
    BY <1>1, <1>4, <2>1, <2>2
  <2>4. \A u \in Threads : pc[u] = "push_construct" <=> pc'[u] = "push_construct"
    BY <1>1
  <2>5. \A u \in Threads : pc[u] = "push_construct" => value'[u] = value[u]
    BY <1>1
  <2> QED BY <1>1, <1>5, <2>3, <2>4, <2>5 DEF ElementIs, Cell
<1>6. Queue' = Queue
  BY <1>1, <1>5, QueueSame
<1>7. ASSUME NEW u \in Threads
      PROVE  TakenBy(u)' = TakenBy(u)
  <2>1. CASE u = t
    BY <1>1, <2>1 DEF TakenBy
  <2>2. CASE u # t
    <3>1. pc[u] = "pop_move" => Cell(pos[u]) # Cell(pos[t])
      BY <1>1, <2>2, IndInvImplies DEF ExclusiveCell, Consuming
    <3>2. pc[u] = "pop_move" => storage'[Cell(pos[u])] = storage[Cell(pos[u])]
      BY <1>1, <1>4, <3>1
    <3> QED BY <1>1, <2>2, <3>2 DEF TakenBy, Cell
  <2> QED BY <2>1, <2>2
<1>8. Taken' = Taken
  BY <1>7 DEF Taken
<1> QED BY <1>6, <1>8 DEF BQ!vars, Queue, Taken

\* Steps that touch neither the cells nor an element in a thread's hands.
LEMMA OtherStepRefines ==
  ASSUME IndInv, IndInv', UNCHANGED <<enqueue_pos, dequeue_pos, storage>>,
         \A u \in Threads :
           /\ pc[u] = "push_construct" <=> pc'[u] = "push_construct"
           /\ pc[u] = "push_construct" => pos'[u] = pos[u] /\ value'[u] = value[u]
           /\ TakenBy(u)' = TakenBy(u)
  PROVE  UNCHANGED BQ!vars
<1>1. \A p, v : ElementIs(p, v) => ElementIs(p, v)'
  BY DEF ElementIs, Cell
<1>2. Queue' = Queue
  BY <1>1, QueueSame
<1>3. Taken' = Taken
  BY DEF Taken
<1> QED BY <1>2, <1>3 DEF BQ!vars, Queue, Taken

\* A pop that has counted itself delivers its element.
LEMMA PopCountRefines ==
  ASSUME IndInv, IndInv', NEW t \in Threads, PopCount(t)
  PROVE  BQ!Deliver(t)
<1>1. /\ pc[t] = "pop_count" /\ value' = [value EXCEPT ![t] = Raw]
      /\ UNCHANGED <<enqueue_pos, dequeue_pos, storage, pos>>
      /\ \E label \in {"pop_load", "idle"} : pc' = [pc EXCEPT ![t] = label]
      /\ pc \in [Threads -> Labels] /\ value \in [Threads -> Values \cup {Raw}]
  BY DEF PopCount, Goto, shared, IndInv, TypeOK
<1>2. \A p, v : ElementIs(p, v) => ElementIs(p, v)'
  BY <1>1 DEF ElementIs, Cell
<1>3. Queue' = Queue
  BY <1>1, <1>2, QueueSame
<1>4. Taken[t] # Raw
  <2>1. value[t] \in Values /\ Taken[t] = value[t]
    BY <1>1 DEF IndInv, ArgumentsOK, Taken, TakenBy
  <2> QED BY <2>1, RawAssumption
<1>5. Taken' = [Taken EXCEPT ![t] = Raw]
  BY <1>1 DEF Taken, TakenBy, Cell
<1> QED BY <1>3, <1>4, <1>5 DEF BQ!Deliver, Queue, Taken

\* Every step is a step of the bounded FIFO or a stutter.
LEMMA StepRefines ==
  ASSUME Capacity >= 2
  PROVE  IndInv /\ IndInv' /\ [Next]_vars => [BQ!Next]_BQ!vars
<1> SUFFICES ASSUME IndInv, IndInv', [Next]_vars PROVE [BQ!Next]_BQ!vars
  OBVIOUS
<1>0. pc \in [Threads -> Labels] /\ value \in [Threads -> Values \cup {Raw}]
      /\ pos \in [Threads -> Nat]
  BY DEF IndInv, TypeOK
<1>1. ASSUME NEW t \in Threads,
             (\E v \in Values : tryPush(t, v)) \/ tryPop(t) \/ Destroy(t)
      PROVE  UNCHANGED BQ!vars
  <2>1. pc[t] = "idle" /\ UNCHANGED <<enqueue_pos, dequeue_pos, storage, pos>>
        /\ \E label \in {"push_closed", "pop_load"} : pc' = [pc EXCEPT ![t] = label]
    BY <1>1 DEF tryPush, tryPop, Destroy, Goto, shared, AllIdle
  <2>2. \A u \in Threads : u # t => value'[u] = value[u]
    BY <1>0, <1>1 DEF tryPush, tryPop, Destroy
  <2> QED BY <1>0, <2>1, <2>2, OtherStepRefines DEF TakenBy, Cell
<1>2. ASSUME NEW t \in Threads,
             \/ PushCheckClosed(t) \/ PushLoadPos(t) \/ PushLoadSeq(t) \/ PushCasFails(t)
             \/ PushCount(t)
      PROVE  UNCHANGED BQ!vars
  <2>1. /\ pc[t] \in {"push_closed", "push_load", "push_seq", "push_cas", "push_count"}
        /\ UNCHANGED <<enqueue_pos, dequeue_pos, storage>>
        /\ \E label \in {"idle", "push_load", "push_seq", "push_cas"} :
             pc' = [pc EXCEPT ![t] = label]
    BY <1>2 DEF PushCheckClosed, PushLoadPos, PushLoadSeq, PushCasFails, PushCount, PushFails, Goto,
                shared
  <2>2. \A u \in Threads : u # t => value'[u] = value[u] /\ pos'[u] = pos[u]
    BY <1>0, <1>2 DEF PushCheckClosed, PushLoadPos, PushLoadSeq, PushCasFails, PushCount, PushFails
  <2> QED BY <1>0, <2>1, <2>2, OtherStepRefines DEF TakenBy, Cell
<1>3. ASSUME NEW t \in Threads,
             \/ PopLoadPos(t) \/ PopFails(t) \/ PopLoadSeq(t) \/ PopCasFails(t)
      PROVE  UNCHANGED BQ!vars
  <2>1. /\ pc[t] \in {"pop_load", "pop_seq", "pop_cas"}
        /\ UNCHANGED <<enqueue_pos, dequeue_pos, storage, value>>
        /\ \E label \in {"idle", "pop_load", "pop_seq", "pop_cas"} :
             pc' = [pc EXCEPT ![t] = label]
    BY <1>3 DEF PopLoadPos, PopFails, PopLoadSeq, PopCasFails, Goto, shared
  <2>2. \A u \in Threads : u # t => pos'[u] = pos[u]
    BY <1>0, <1>3 DEF PopLoadPos, PopFails, PopLoadSeq, PopCasFails
  <2> QED BY <1>0, <2>1, <2>2, OtherStepRefines DEF TakenBy, Cell
<1>4. ASSUME NEW t \in Threads, PushPublish(t) \/ PopRelease(t)
      PROVE  UNCHANGED BQ!vars
  <2>1. /\ UNCHANGED <<enqueue_pos, dequeue_pos, storage, pos, value>>
        /\ \/ pc[t] = "push_publish" /\ pc' = [pc EXCEPT ![t] = "push_count"]
           \/ pc[t] = "pop_release" /\ pc' = [pc EXCEPT ![t] = "pop_count"]
    BY <1>4 DEF PushPublish, PopRelease, Goto
  <2> QED BY <1>0, <2>1, OtherStepRefines DEF TakenBy, Cell
<1>5. CASE close \/ Destroyed \/ UNCHANGED vars
  <2>1. UNCHANGED <<enqueue_pos, dequeue_pos, storage, pos, value, pc>>
    BY <1>5 DEF close, Destroyed, vars, shared
  <2>2. UNCHANGED BQ!vars
    BY <2>1, OtherStepRefines DEF TakenBy, Cell
  <2> QED BY <2>2
<1>6. ASSUME NEW t \in Threads, PushCas(t) PROVE BQ!Next
  BY <1>6, PushCasRefines DEF BQ!Next
<1>7. ASSUME NEW t \in Threads, PopCas(t) \/ PopCount(t) PROVE BQ!Next
  BY <1>7, PopCasRefines, PopCountRefines DEF BQ!Next
<1>8. ASSUME NEW t \in Threads, PushConstruct(t) \/ PopMove(t) PROVE UNCHANGED BQ!vars
  BY <1>8, PushConstructRefines, PopMoveRefines
<1> QED BY <1>1, <1>2, <1>3, <1>4, <1>5, <1>6, <1>7, <1>8 DEF Next, PushStep, PopStep

-----------------------------------------------------------------------------
(* The theorems.                                                           *)

\* The variables keep their types, for every capacity the constructor accepts.
THEOREM TypeCorrect == Spec => []TypeOK
<1>1. Init => TypeOK
  BY InitInv DEF IndInv
<1>2. TypeOK /\ [Next]_vars => TypeOK'
  BY TypeStep
<1> QED BY <1>1, <1>2, PTL DEF Spec

\* The inductive invariant, for every capacity of at least two.
THEOREM Invariance ==
  ASSUME Capacity >= 2
  PROVE  Spec => []IndInv
<1>1. Init => IndInv
  BY InitInv
<1>2. IndInv /\ [Next]_vars => IndInv'
  BY IndInvStep
<1> QED BY <1>1, <1>2, PTL DEF Spec

\* No two threads ever access the same cell's storage: tryPush() and
\* tryPop() have no data race on it.
THEOREM NoDataRace ==
  ASSUME Capacity >= 2
  PROVE  Spec => []ExclusiveCell
<1>1. IndInv => ExclusiveCell
  BY IndInvImplies
<1> QED BY <1>1, Invariance, PTL

\* Objects are constructed in raw storage and consumed alive.
THEOREM LifetimesRespected ==
  ASSUME Capacity >= 2
  PROVE  Spec => []ObjectLifetime
<1>1. IndInv => ObjectLifetime
  BY IndInvImplies
<1> QED BY <1>1, Invariance, PTL

\* A queue of capacity two or more never reserves more than its capacity.
THEOREM CapacityRespected ==
  ASSUME Capacity >= 2
  PROVE  Spec => []NeverOverfull
<1>1. IndInv => NeverOverfull
  BY IndInvImplies
<1> QED BY <1>1, Invariance, PTL

\* The destructor leaves no object in a cell.
THEOREM NothingLeaks ==
  ASSUME Capacity >= 2
  PROVE  Spec => []DestroyedClean
<1>1. Init => DrainOK
  BY DEF Init, DrainOK
<1>2. IndInv /\ DrainOK => DestroyedClean
  BY DrainImplies
<1> QED BY <1>1, <1>2, DrainStep, Invariance, PTL DEF Spec

\* Once every call has returned, the statistics count each of them once, and
\* pushes less pops is what the ring holds.  This needs nothing of the
\* cells: it holds for capacity one too.
THEOREM StatisticsAgree == Spec => []StatsBalance
<1>1. Init => CountsOK
  <2> SUFFICES ASSUME Init PROVE CountsOK
    OBVIOUS
  <2>1. At(CallLabels) = {} /\ At(PushedLabels) = {} /\ At(PoppedLabels) = {}
    BY DEF Init, At, CallLabels, PushedLabels, PoppedLabels
  <2> QED BY <2>1, FS_EmptySet DEF Init, CountsOK
<1> QED BY <1>1, CountsStep, CountsImply, TypeCorrect, PTL DEF Spec

\* Every behaviour of a queue of capacity two or more is one of the bounded
\* FIFO: elements leave exactly once, in the order in which the producers'
\* compare-exchanges reserved their cells.
THEOREM Refinement ==
  ASSUME Capacity >= 2
  PROVE  Spec => ImplementsBoundedQueue
<1>1. Init => BQ!Init
  <2> SUFFICES ASSUME Init PROVE BQ!Init
    OBVIOUS
  <2>1. Queue = <<>>
    <3>1. QueueOK
      BY InitInv, QueueIsSeq
    <3>2. enqueue_pos = 0 /\ dequeue_pos = 0
      BY DEF Init
    <3>3. Queue \in Seq(Values) /\ Len(Queue) = 0
      BY <3>1, <3>2 DEF QueueOK
    <3> QED BY <3>3
  <2>2. Taken = [t \in Threads |-> Raw]
    BY DEF Init, Taken, TakenBy
  <2> QED BY <2>1, <2>2 DEF BQ!Init, Queue, Taken
<1>2. IndInv /\ IndInv' /\ [Next]_vars => [BQ!Next]_BQ!vars
  BY StepRefines
<1> QED BY <1>1, <1>2, Invariance, PTL DEF Spec, ImplementsBoundedQueue, BQ!Spec
=============================================================================
