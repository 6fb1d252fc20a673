------------------------------ MODULE LRUCache ------------------------------
(***************************************************************************)
(* LRUCache of lru_cache/lrucache.h: a map to the nodes of two lists, the  *)
(* nodes that only the cache holds (not_use, the least recently released   *)
(* first) and the nodes that handles hold (in_use).  It is used by one     *)
(* thread.                                                                 *)
(*                                                                         *)
(* Nodes have addresses, which are used again.  A value is only stored and *)
(* handed out, and is left out.                                            *)
(***************************************************************************)
EXTENDS Integers, SequencesExt

CONSTANTS
  Keys,
  Handles,      \* the variables of type HandleGuard that the user has
  Capacities,   \* what the constructor may be called with; 0 is no limit
  NoNode        \* nullptr

Nodes == 1 .. Cardinality(Keys)

\* The caches that the types of the members allow.
Caches == [nodes : [Nodes -> [key : Keys \cup {NoNode}, ref : Nat]],
           not_use : Seq(Nodes), in_use : Seq(Nodes),
           cache : [Keys -> Nodes \cup {NoNode}], size : Nat]

ASSUME LRUAssumption ==
  /\ Capacities \subseteq Nat /\ IsFiniteSet(Keys) /\ IsFiniteSet(Handles)
  /\ NoNode \notin Keys /\ NoNode \notin Nodes /\ NoNode \notin Caches

VARIABLES
  capacity,
  lru,       \* the cache, NoNode once it is destroyed
  handles    \* handles[h]: the node of h, and the key that it was asked for

vars == <<capacity, lru, handles>>

NoHandle == [node |-> NoNode, key |-> NoNode]
NoEntry == [key |-> NoNode, ref |-> 0]   \* free memory
Empty == [nodes |-> [n \in Nodes |-> NoEntry], not_use |-> <<>>, in_use |-> <<>>,
          cache |-> [k \in Keys |-> NoNode], size |-> 0]

Init == /\ capacity \in Capacities
        /\ lru = Empty
        /\ handles = [h \in Handles |-> NoHandle]

-----------------------------------------------------------------------------
(* The private members, as functions of the cache.                         *)

\* splice() takes the node out of its list, where list_pos says that it is.
Unlink(list, n) == RemoveAt(list, CHOOSE i \in DOMAIN list : list[i] = n)

ref_node(c, n) ==
  [c EXCEPT !.nodes[n].ref = @ + 1,
            !.in_use = IF c.nodes[n].ref = 1 THEN Append(@, n) ELSE @,
            !.not_use = IF c.nodes[n].ref = 1 THEN Unlink(@, n) ELSE @]

unref_node(c, n) ==
  LET last == c.nodes[n].ref = 2
  IN [c EXCEPT !.nodes[n].ref = @ - 1,
               !.not_use = IF last THEN Append(@, n) ELSE @,
               !.in_use = IF last THEN Unlink(@, n) ELSE @]

\* Seeded fault: one entry goes for the one that comes.
Excess_One(c) == IF capacity > 0 /\ c.size > capacity /\ c.not_use # <<>> THEN 1 ELSE 0

\* How often the loop of evict() runs.
Excess(c) == IF capacity > 0 /\ c.size > capacity
             THEN Min({c.size - capacity, Len(c.not_use)}) ELSE 0

evict(c) ==
  LET gone == ToSet(SubSeq(c.not_use, 1, Excess(c)))
  IN [nodes |-> [n \in Nodes |-> IF n \in gone THEN NoEntry ELSE c.nodes[n]],
      not_use |-> SubSeq(c.not_use, Excess(c) + 1, Len(c.not_use)),
      in_use |-> c.in_use,
      cache |-> [k \in Keys |-> IF c.cache[k] \in gone THEN NoNode ELSE c.cache[k]],
      size |-> c.size - Excess(c)]

\* A new node at the end of not_use.
Insert(c, n, key) ==
  [c EXCEPT !.nodes[n] = [key |-> key, ref |-> 1], !.not_use = Append(@, n),
            !.cache[key] = n, !.size = @ + 1]

\* Seeded fault: operator= of HandleGuard forgets what it held.
Released_None(c, h) == c

\* reset() of handle h.
Released(c, h) == IF handles[h] = NoHandle THEN c ELSE unref_node(c, handles[h].node)

-----------------------------------------------------------------------------
(* The user.  The handle that get() and put() return is moved into h: it   *)
(* is made before the one that h holds is released.                        *)

Alive == lru # NoNode

get(h, key) ==
  /\ Alive
  /\ LET n == lru.cache[key]
     IN IF n = NoNode
          THEN /\ lru' = Released(lru, h)
               /\ handles' = [handles EXCEPT ![h] = NoHandle]
          ELSE /\ lru' = Released(ref_node(lru, n), h)
               /\ handles' = [handles EXCEPT ![h] = [node |-> n, key |-> key]]
  /\ UNCHANGED capacity

\* put() of a new key.  Of a key that is there it replaces the value and
\* does what get() does.
put(h, key) ==
  /\ Alive /\ lru.cache[key] = NoNode
  /\ LET n == Min({m \in Nodes : lru.nodes[m] = NoEntry})
     IN /\ lru' = Released(evict(ref_node(Insert(lru, n, key), n)), h)
        /\ handles' = [handles EXCEPT ![h] = [node |-> n, key |-> key]]
  /\ UNCHANGED capacity

\* h = std::move(other), of two different handles
move(h, other) ==
  /\ Alive /\ h # other
  /\ lru' = Released(lru, h)
  /\ handles' = [handles EXCEPT ![h] = handles[other], ![other] = NoHandle]
  /\ UNCHANGED capacity

reset(h) ==
  /\ Alive /\ handles[h] # NoHandle
  /\ lru' = Released(lru, h)
  /\ handles' = [handles EXCEPT ![h] = NoHandle]
  /\ UNCHANGED capacity

\* The destructor asserts that nothing is in use, and empties not_use.
destroy ==
  /\ Alive /\ lru.in_use = <<>>
  /\ lru' = NoNode
  /\ UNCHANGED <<capacity, handles>>

Next == \/ \E h \in Handles, key \in Keys : get(h, key) \/ put(h, key)
        \/ \E h, other \in Handles : move(h, other)
        \/ \E h \in Handles : reset(h)
        \/ destroy

Spec == Init /\ [][Next]_vars

-----------------------------------------------------------------------------
(* Properties.                                                             *)

TypeOK ==
  /\ capacity \in Nat /\ lru \in Caches \cup {NoNode}
  /\ handles \in [Handles -> [node : Nodes \cup {NoNode}, key : Keys \cup {NoNode}]]

\* No handle dangles and nothing leaks, whatever the order of moves,
\* releases and evictions, although addresses are reused: a node in memory
\* is in the map under its key, has one reference of the cache and one of
\* each handle that holds it, and is in the list that its count says; a
\* handle holds a node of its key; a destroyed cache left no handle behind.
RefsCountHandles ==
  LET live == {n \in Nodes : lru.nodes[n] # NoEntry}
      holders(n) == {h \in Handles : handles[h].node = n}
  IN IF ~Alive THEN \A h \in Handles : handles[h] = NoHandle
     ELSE /\ \A n \in live : /\ lru.cache[lru.nodes[n].key] = n
                             /\ lru.nodes[n].ref = 1 + Cardinality(holders(n))
          /\ lru.size = Cardinality({k \in Keys : lru.cache[k] # NoNode})
          /\ lru.size = Cardinality(live)
          /\ ToSet(lru.in_use) = {n \in live : holders(n) # {}}
          /\ ToSet(lru.not_use) = {n \in live : holders(n) = {}}
          /\ Len(lru.in_use) + Len(lru.not_use) = lru.size
          /\ \A h \in Handles : handles[h] # NoHandle =>
               handles[h].node \in live /\ lru.nodes[handles[h].node].key = handles[h].key

\* After a put() that adds an entry the cache is within its capacity, or
\* holds only what was in use and the new entry: what it grew beyond its
\* capacity while everything was in use goes with the first put() after.
Bounded ==
  [][\A h \in Handles, key \in Keys :
       put(h, key) /\ capacity > 0 => lru'.size <= Max({capacity, Len(lru.in_use) + 1})]_vars
=============================================================================
