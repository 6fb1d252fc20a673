---------------------------- MODULE BoundedQueue ----------------------------
(***************************************************************************)
(* What a bounded FIFO container shared by several threads promises, with  *)
(* no cells, cursors, locks or sequence numbers.  An element enters at the *)
(* back in one step; it leaves from the front in one step, into the hands  *)
(* of exactly one thread, which later delivers it to its caller.  A failed *)
(* operation changes nothing and is a stuttering step.                     *)
(***************************************************************************)
EXTENDS Naturals, Sequences

CONSTANTS Capacity, Threads, Values,
          Raw,          \* "no element"
          Clears        \* may the container be emptied at once?

VARIABLES queue,        \* the elements in the container, oldest first
          taken,        \* taken[t]: removed by t and not yet delivered, or Raw
          overwrites    \* its policy: does a push to a full one replace the oldest?

vars == <<queue, taken, overwrites>>

Init == /\ queue = <<>>
        /\ taken = [t \in Threads |-> Raw]
        /\ overwrites \in BOOLEAN

\* A push succeeds only when there is room.
Enqueue(v) == /\ Len(queue) < Capacity
              /\ queue' = Append(queue, v)
              /\ UNCHANGED <<taken, overwrites>>

\* Where that is the policy, a push to a full container drops the oldest.
Overwrite(v) == /\ overwrites
                /\ Len(queue) = Capacity
                /\ queue' = Append(Tail(queue), v)
                /\ UNCHANGED <<taken, overwrites>>

Clear == /\ Clears
         /\ queue' = <<>>
         /\ UNCHANGED <<taken, overwrites>>

\* A pop removes the oldest element and nothing else.
Dequeue(t) == /\ queue # <<>>
              /\ taken[t] = Raw
              /\ taken' = [taken EXCEPT ![t] = Head(queue)]
              /\ queue' = Tail(queue)
              /\ UNCHANGED overwrites

Deliver(t) == /\ taken[t] # Raw
              /\ taken' = [taken EXCEPT ![t] = Raw]
              /\ UNCHANGED <<queue, overwrites>>

Next == \/ \E v \in Values : Enqueue(v) \/ Overwrite(v)
        \/ Clear
        \/ \E t \in Threads : Dequeue(t) \/ Deliver(t)

Spec == Init /\ [][Next]_vars
=============================================================================
