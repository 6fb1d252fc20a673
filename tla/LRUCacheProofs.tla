--------------------------- MODULE LRUCacheProofs ---------------------------
(***************************************************************************)
(* For every set of keys, handles and capacities: references are counted,  *)
(* no handle dangles, nothing leaks, and put() leaves no more than the     *)
(* capacity or what is in use.                                             *)
(***************************************************************************)
EXTENDS LRUCache, FiniteSetTheorems, SequenceTheorems, WellFoundedInduction, TLAPS

-----------------------------------------------------------------------------
(* Lists of nodes.                                                         *)

\* No node is in list s twice.
Distinct(s) == \A i, j \in DOMAIN s : s[i] = s[j] => i = j

\* Such a list is as long as it has nodes.
LEMMA DistinctLength ==
  ASSUME NEW s \in Seq(Nodes), Distinct(s)
  PROVE  IsFiniteSet(ToSet(s)) /\ Cardinality(ToSet(s)) = Len(s)
<1>1. s \in Bijection(1 .. Len(s), ToSet(s))
  BY DEF Distinct, ToSet, Bijection, Injection, Surjection, IsInjective
<1>2. PICK len \in Nat : len = Len(s)
  BY LenProperties
<1>3. IsFiniteSet(1 .. len) /\ Cardinality(1 .. len) = len
  BY FS_Interval
<1> QED BY <1>1, <1>2, <1>3, FS_Bijection DEF ExistsBijection

\* The first k nodes of a list, and the others.
LEMMA Prefix ==
  ASSUME NEW s \in Seq(Nodes), NEW k \in 0 .. Len(s)
  PROVE  \E r \in Seq(Nodes) : /\ r = SubSeq(s, 1, k) /\ Len(r) = k /\ DOMAIN r = 1 .. (k)
                               /\ \A i \in 1 .. (k) : r[i] = s[i]
<1>1. PICK len \in Nat : len = Len(s) /\ DOMAIN s = 1 .. len /\ k \in 0 .. len
  BY LenProperties
<1>2. PICK r : r = SubSeq(s, 1, k)
  OBVIOUS
<1>3. PICK m \in Int, n \in Int : m = 1 /\ n = k
  BY <1>1
<1>4. \A i \in m .. n : s[i] \in Nodes
  BY <1>1, <1>3
<1>5. /\ r \in Seq(Nodes) /\ Len(r) = (IF m <= n THEN n - m + 1 ELSE 0)
      /\ \A i \in 1 .. n - m + 1 : r[i] = s[m + i - 1]
  BY <1>1, <1>2, <1>3, <1>4, SubSeqProperties
<1>6. Len(r) = k /\ n - m + 1 = k
  BY <1>1, <1>3, <1>5
<1>7. DOMAIN r = 1 .. (k)
  BY <1>5, <1>6, LenProperties
<1>8. ASSUME NEW i \in 1 .. (k)
      PROVE  r[i] = s[i]
  <2>1. i \in 1 .. n - m + 1 /\ m + i - 1 = i
    BY <1>1, <1>3
  <2> QED BY <1>5, <2>1
<1> QED BY <1>1, <1>2, <1>5, <1>6, <1>7, <1>8

\* The same of the nodes after them.
LEMMA Suffix ==
  ASSUME NEW s \in Seq(Nodes), NEW k \in 0 .. Len(s)
  PROVE  \E r \in Seq(Nodes) : /\ r = SubSeq(s, k + 1, Len(s)) /\ Len(r) = Len(s) - k /\ DOMAIN r = 1 .. (Len(s) - k)
                               /\ \A i \in 1 .. (Len(s) - k) : r[i] = s[k + i]
<1>1. PICK len \in Nat : len = Len(s) /\ DOMAIN s = 1 .. len /\ k \in 0 .. len
  BY LenProperties
<1>2. PICK r : r = SubSeq(s, k + 1, Len(s))
  OBVIOUS
<1>3. PICK m \in Int, n \in Int : m = k + 1 /\ n = len
  BY <1>1
<1>4. \A i \in m .. n : s[i] \in Nodes
  BY <1>1, <1>3
<1>5. /\ r \in Seq(Nodes) /\ Len(r) = (IF m <= n THEN n - m + 1 ELSE 0)
      /\ \A i \in 1 .. n - m + 1 : r[i] = s[m + i - 1]
  BY <1>1, <1>2, <1>3, <1>4, SubSeqProperties
<1>6. Len(r) = len - k /\ n - m + 1 = len - k
  BY <1>1, <1>3, <1>5
<1>7. DOMAIN r = 1 .. (len - k)
  BY <1>5, <1>6, LenProperties
<1>8. ASSUME NEW i \in 1 .. (len - k)
      PROVE  r[i] = s[k + i]
  <2>1. i \in 1 .. n - m + 1 /\ m + i - 1 = k + i
    BY <1>1, <1>3
  <2> QED BY <1>5, <2>1
<1> QED BY <1>1, <1>2, <1>5, <1>6, <1>7, <1>8

\* splice() to the end of a list.
LEMMA AppendNode ==
  ASSUME NEW s \in Seq(Nodes), Distinct(s), NEW n \in Nodes, n \notin ToSet(s)
  PROVE  /\ Append(s, n) \in Seq(Nodes) /\ Distinct(Append(s, n))
         /\ ToSet(Append(s, n)) = ToSet(s) \cup {n} /\ Len(Append(s, n)) = Len(s) + 1
<1> DEFINE r == Append(s, n)
<1>1. /\ r \in Seq(Nodes) /\ Len(s) \in Nat /\ DOMAIN s = 1 .. Len(s) /\ DOMAIN r = 1 .. (Len(s) + 1)
      /\ \A i \in 1 .. Len(s) : r[i] = s[i]
      /\ r[Len(s) + 1] = n /\ Len(r) = Len(s) + 1
  OBVIOUS
<1> HIDE DEF r
<1>2. Distinct(r)
  BY <1>1 DEF Distinct, ToSet
<1>3. ToSet(r) = ToSet(s) \cup {n}
  BY <1>1 DEF ToSet
<1> QED BY <1>1, <1>2, <1>3 DEF r

\* splice() out of a list.
LEMMA UnlinkNode ==
  ASSUME NEW s \in Seq(Nodes), Distinct(s), NEW n \in ToSet(s)
  PROVE  /\ Unlink(s, n) \in Seq(Nodes) /\ Distinct(Unlink(s, n))
         /\ ToSet(Unlink(s, n)) = ToSet(s) \ {n} /\ Len(Unlink(s, n)) = Len(s) - 1
<1>1. \E i \in DOMAIN s : s[i] = n
  BY DEF ToSet
<1>2. PICK k \in DOMAIN s : k = (CHOOSE i \in DOMAIN s : s[i] = n) /\ s[k] = n
  BY <1>1, Zenon
<1>3. PICK len \in Nat : len = Len(s) /\ DOMAIN s = 1 .. len
  OBVIOUS
<1> DEFINE r == RemoveAt(s, k)
<1>4. /\ r \in Seq(Nodes) /\ Len(r) = len - 1 /\ DOMAIN r = 1 .. (len - 1)
      /\ \A i \in 1 .. (len - 1) : r[i] = IF i < k THEN s[i] ELSE s[i + 1]
  <2>1. k \in 1 .. len
    BY <1>3
  <2>2. PICK a \in Seq(Nodes) : a = SubSeq(s, 1, k - 1) /\ Len(a) = k - 1 /\ \A i \in 1 .. (k - 1) : a[i] = s[i]
    <3>1. PICK m : m = k - 1 /\ m \in 0 .. len
      BY <2>1
    <3> QED BY <1>3, <3>1, Prefix
  <2>3. PICK b \in Seq(Nodes) : b = SubSeq(s, k + 1, len) /\ Len(b) = len - k /\ \A i \in 1 .. (len - k) : b[i] = s[k + i]
    <3>1. k \in 0 .. len
      BY <2>1
    <3> QED BY <1>3, <3>1, Suffix
  <2>4. r = a \o b
    BY <1>3, <2>2, <2>3 DEF RemoveAt
  <2> HIDE DEF r
  <2>5. /\ Len(r) = len - 1 /\ DOMAIN r = 1 .. (len - 1) /\ r \in Seq(Nodes)
        /\ \A i \in 1 .. (len - 1) : r[i] = IF i <= k - 1 THEN a[i] ELSE b[i - (k - 1)]
    <3>1. PICK la \in Nat, lb \in Nat : la = k - 1 /\ lb = len - k /\ la + lb = len - 1
      BY <2>1
    <3>2. /\ r \in Seq(Nodes) /\ Len(r) = Len(a) + Len(b)
          /\ \A i \in 1 .. Len(a) + Len(b) : r[i] = IF i <= Len(a) THEN a[i] ELSE b[i - Len(a)]
      <4>1. a \in Seq(Nodes) /\ b \in Seq(Nodes)
        BY <2>2, <2>3
      <4> QED BY <2>4, <4>1, ConcatProperties, Zenon
    <3>3. DOMAIN r = 1 .. Len(r)
      BY <3>2, LenProperties
    <3> QED BY <2>2, <2>3, <3>1, <3>2, <3>3
  <2>6. ASSUME NEW i \in 1 .. (len - 1)
        PROVE  r[i] = IF i < k THEN s[i] ELSE s[i + 1]
    <3>1. CASE i < k
      <4>1. i \in 1 .. (k - 1) /\ i <= k - 1
        BY <2>1, <3>1
      <4> QED BY <2>2, <2>5, <3>1, <4>1
    <3>2. CASE ~(i < k)
      <4>1. i - (k - 1) \in 1 .. (len - k) /\ k + (i - (k - 1)) = i + 1
        BY <2>1, <3>2
      <4>2. r[i] = b[i - (k - 1)]
        BY <2>1, <2>5, <3>2
      <4> QED BY <2>3, <3>2, <4>1, <4>2
    <3> QED BY <3>1, <3>2
  <2> QED BY <2>5, <2>6
<1> HIDE DEF r
<1>5. ASSUME NEW i \in 1 .. (len - 1)
      PROVE  \E j \in 1 .. len : r[i] = s[j] /\ j # k /\ j = IF i < k THEN i ELSE i + 1
  <2>1. CASE i < k
    BY <1>3, <1>4, <2>1
  <2>2. CASE ~(i < k)
    BY <1>3, <1>4, <2>2
  <2> QED BY <2>1, <2>2
<1>7. Distinct(r)
  <2> SUFFICES ASSUME NEW i \in 1 .. (len - 1), NEW j \in 1 .. (len - 1), r[i] = r[j] PROVE i = j
    BY <1>4 DEF Distinct
  <2>1. PICK x \in 1 .. len : r[i] = s[x] /\ x = IF i < k THEN i ELSE i + 1
    BY <1>5
  <2>2. PICK y \in 1 .. len : r[j] = s[y] /\ y = IF j < k THEN j ELSE j + 1
    BY <1>5
  <2>3. x = y /\ k \in 1 .. len
    BY <1>3, <2>1, <2>2 DEF Distinct
  <2> QED BY <2>1, <2>2, <2>3
<1>6. ToSet(r) = ToSet(s) \ {n}
  <2>1. ASSUME NEW i \in 1 .. (len - 1)
        PROVE  r[i] \in ToSet(s) \ {n}
    <3>1. PICK j \in 1 .. len : r[i] = s[j] /\ j # k
      BY <1>5
    <3> QED BY <1>2, <1>3, <3>1 DEF Distinct, ToSet
  <2>2. ASSUME NEW m \in ToSet(s), m # n
        PROVE  m \in ToSet(r)
    <3>1. PICK j \in 1 .. len : s[j] = m
      BY <1>3 DEF ToSet
    <3>2. j # k /\ k \in 1 .. len
      BY <1>2, <1>3, <2>2, <3>1
    <3>3. CASE j < k
      <4>1. j \in 1 .. (len - 1) /\ r[j] = s[j]
        BY <1>4, <3>2, <3>3
      <4> QED BY <1>4, <3>1, <4>1 DEF ToSet
    <3>4. CASE j > k
      <4>1. j - 1 \in 1 .. (len - 1) /\ ~(j - 1 < k) /\ (j - 1) + 1 = j
        BY <3>2, <3>4
      <4>2. r[j - 1] = s[j]
        BY <1>4, <4>1
      <4> QED BY <1>4, <3>1, <4>1, <4>2 DEF ToSet
    <3> QED BY <3>2, <3>3, <3>4
  <2> QED BY <1>4, <2>1, <2>2 DEF ToSet
<1> QED BY <1>2, <1>3, <1>4, <1>6, <1>7 DEF Unlink, r

\* evict() takes the first k nodes: they are k, and the others stay.
LEMMA CutList ==
  ASSUME NEW s \in Seq(Nodes), Distinct(s), NEW k \in 0 .. Len(s)
  PROVE  LET gone == ToSet(SubSeq(s, 1, k))
             rest == SubSeq(s, k + 1, Len(s))
         IN /\ gone \subseteq ToSet(s) /\ IsFiniteSet(gone) /\ Cardinality(gone) = k
            /\ rest \in Seq(Nodes) /\ Distinct(rest) /\ Len(rest) = Len(s) - k
            /\ ToSet(rest) = ToSet(s) \ gone
<1>1. PICK len \in Nat : len = Len(s) /\ DOMAIN s = 1 .. len
  OBVIOUS
<1>2. PICK a \in Seq(Nodes) : a = SubSeq(s, 1, k) /\ Len(a) = k /\ DOMAIN a = 1 .. k /\ \A i \in 1 .. k : a[i] = s[i]
  BY Prefix
<1>3. PICK b \in Seq(Nodes) : /\ b = SubSeq(s, k + 1, len) /\ Len(b) = len - k /\ DOMAIN b = 1 .. (len - k)
                              /\ \A i \in 1 .. (len - k) : b[i] = s[k + i]
  BY <1>1, Suffix
<1>4. Distinct(a) /\ ToSet(a) \subseteq ToSet(s)
  BY <1>1, <1>2 DEF Distinct, ToSet
<1>5. Distinct(b)
  <2> SUFFICES ASSUME NEW i \in 1 .. (len - k), NEW j \in 1 .. (len - k), b[i] = b[j] PROVE i = j
    BY <1>3 DEF Distinct
  <2>1. k + i \in 1 .. len /\ k + j \in 1 .. len /\ s[k + i] = s[k + j]
    BY <1>1, <1>3
  <2>2. k + i = k + j
    BY <1>1, <2>1 DEF Distinct
  <2> QED BY <2>2
<1>6. ToSet(b) = ToSet(s) \ ToSet(a)
  <2>1. ASSUME NEW i \in 1 .. (len - k)
        PROVE  b[i] \in ToSet(s) \ ToSet(a)
    <3>1. k + i \in 1 .. len /\ b[i] = s[k + i]
      BY <1>1, <1>3
    <3>2. \A j \in 1 .. k : j \in 1 .. len /\ j # k + i
      BY <1>1
    <3> QED BY <1>1, <1>2, <3>1, <3>2 DEF Distinct, ToSet
  <2>2. ASSUME NEW m \in ToSet(s), m \notin ToSet(a)
        PROVE  m \in ToSet(b)
    <3>1. PICK j \in 1 .. len : s[j] = m
      BY <1>1 DEF ToSet
    <3>2. j \notin 1 .. k
      BY <1>2, <2>2, <3>1 DEF ToSet
    <3>3. j - k \in 1 .. (len - k) /\ k + (j - k) = j
      BY <3>2
    <3> QED BY <1>3, <3>1, <3>3 DEF ToSet
  <2> QED BY <1>3, <2>1, <2>2 DEF ToSet
<1>7. IsFiniteSet(ToSet(a)) /\ Cardinality(ToSet(a)) = k
  BY <1>2, <1>4, DistinctLength
<1> QED BY <1>1, <1>2, <1>3, <1>4, <1>5, <1>6, <1>7

-----------------------------------------------------------------------------
(* A cache of which the handles hold r[n] references to node n.            *)

Entries == [key : Keys \cup {NoNode}, ref : Nat]
Live(c) == {n \in Nodes : c.nodes[n] # NoEntry}

CacheOK(c, r) ==
  /\ c \in Caches /\ r \in [Nodes -> Nat]
  /\ \A n \in Live(c) : /\ c.nodes[n].key \in Keys /\ c.cache[c.nodes[n].key] = n
                        /\ c.nodes[n].ref = 1 + r[n]
  /\ \A n \in Nodes : r[n] > 0 => n \in Live(c)
  /\ \A k \in Keys : c.cache[k] # NoNode => c.cache[k] \in Live(c) /\ c.nodes[c.cache[k]].key = k
  /\ c.size = Cardinality(Live(c))
  /\ Distinct(c.in_use) /\ ToSet(c.in_use) = {n \in Live(c) : r[n] > 0}
  /\ Distinct(c.not_use) /\ ToSet(c.not_use) = {n \in Live(c) : r[n] = 0}

\* One reference more, or less, to node p; none when p is no node.
Plus(r, p) == [n \in Nodes |-> IF n = p THEN r[n] + 1 ELSE r[n]]
Minus(r, p) == [n \in Nodes |-> IF n = p THEN r[n] - 1 ELSE r[n]]

\* Cache d has the nodes of cache c, under the same keys.
SameEntries(c, d) ==
  /\ Live(d) = Live(c) /\ d.cache = c.cache /\ d.size = c.size
  /\ \A n \in Nodes : d.nodes[n].key = c.nodes[n].key

\* The members of a cache.
LEMMA CacheFields ==
  ASSUME NEW c \in Caches
  PROVE  /\ c.nodes \in [Nodes -> Entries] /\ c.not_use \in Seq(Nodes) /\ c.in_use \in Seq(Nodes)
         /\ c.cache \in [Keys -> Nodes \cup {NoNode}] /\ c.size \in Nat
BY DEF Caches, Entries

\* A cache made of its members.
LEMMA CacheRecord ==
  ASSUME NEW N \in [Nodes -> Entries], NEW A \in Seq(Nodes), NEW B \in Seq(Nodes),
         NEW K \in [Keys -> Nodes \cup {NoNode}], NEW z \in Nat, NEW d,
         d = [nodes |-> N, not_use |-> A, in_use |-> B, cache |-> K, size |-> z]
  PROVE  d \in Caches /\ d.nodes = N /\ d.not_use = A /\ d.in_use = B /\ d.cache = K /\ d.size = z
BY DEF Caches, Entries

\* Nodes are as many as keys, and finitely many.
LEMMA NodesFinite ==
  /\ Cardinality(Keys) \in Nat /\ IsFiniteSet(Nodes) /\ Cardinality(Nodes) = Cardinality(Keys)
  /\ Nodes \subseteq Nat /\ \A T \in SUBSET Nodes : IsFiniteSet(T) /\ Cardinality(T) \in Nat
<1>1. PICK n \in Nat : n = Cardinality(Keys)
  BY LRUAssumption, FS_CardinalityType
<1>2. IsFiniteSet(1 .. n) /\ Cardinality(1 .. n) = n
  BY FS_Interval
<1>3. IsFiniteSet(Nodes) /\ Cardinality(Nodes) = n /\ Nodes \subseteq Nat
  BY <1>1, <1>2 DEF Nodes
<1> QED BY <1>1, <1>3, FS_Subset, FS_CardinalityType

\* As many keys as nodes are in use.
LEMMA KeysCounted ==
  ASSUME NEW c, NEW r, CacheOK(c, r)
  PROVE  Cardinality({k \in Keys : c.cache[k] # NoNode}) = c.size
<1> DEFINE U == {k \in Keys : c.cache[k] # NoNode}
           f == [k \in U |-> c.cache[k]]
<1>1. f \in [U -> Live(c)]
  BY DEF CacheOK
<1>2. \A k, l \in U : f[k] = f[l] => k = l
  BY DEF CacheOK
<1>3. \A n \in Live(c) : \E k \in U : f[k] = n
  <2> SUFFICES ASSUME NEW n \in Live(c) PROVE \E k \in U : f[k] = n
    OBVIOUS
  <2>1. c.nodes[n].key \in Keys /\ c.cache[c.nodes[n].key] = n /\ n # NoNode
    BY LRUAssumption DEF CacheOK, Live
  <2> QED BY <2>1
<1>4. f \in Bijection(U, Live(c))
  BY <1>1, <1>2, <1>3 DEF Bijection, Injection, Surjection, IsInjective
<1>5. IsFiniteSet(U)
  BY LRUAssumption, FS_Subset
<1> HIDE DEF f, U
<1>6. Cardinality(Live(c)) = Cardinality(U)
  BY <1>4, <1>5, FS_Bijection DEF ExistsBijection
<1> QED BY <1>6 DEF CacheOK, U

\* The lists hold every node once.
LEMMA ListsCounted ==
  ASSUME NEW c, NEW r, CacheOK(c, r)
  PROVE  Len(c.in_use) + Len(c.not_use) = c.size
<1> DEFINE A == {n \in Live(c) : r[n] > 0}
           B == {n \in Live(c) : r[n] = 0}
<1>1. c.in_use \in Seq(Nodes) /\ c.not_use \in Seq(Nodes)
  BY CacheFields DEF CacheOK
<1>2. Cardinality(A) = Len(c.in_use) /\ Cardinality(B) = Len(c.not_use)
  BY <1>1, DistinctLength DEF CacheOK
<1>3. A \cap B = {} /\ A \cup B = Live(c)
  <2>1. \A n \in Live(c) : r[n] \in Nat
    BY DEF CacheOK, Live
  <2> QED BY <2>1
<1>4. IsFiniteSet(A) /\ IsFiniteSet(B)
  BY NodesFinite DEF Live
<1> HIDE DEF A, B
<1>5. Cardinality(A \cup B) = Cardinality(A) + Cardinality(B) - Cardinality(A \cap B)
  BY <1>4, FS_Union
<1>6. Cardinality(A) \in Nat /\ Cardinality(B) \in Nat /\ Cardinality(A \cap B) = 0
  BY <1>3, <1>4, FS_CardinalityType, FS_EmptySet
<1>7. c.size = Cardinality(A \cup B)
  BY <1>3 DEF CacheOK
<1> QED BY <1>2, <1>5, <1>6, <1>7

\* Lists not_use = A and in_use = B of nodes L with references q.
ListsOK(L, q, A, B) ==
  /\ Distinct(A) /\ ToSet(A) = {m \in L : q[m] = 0}
  /\ Distinct(B) /\ ToSet(B) = {m \in L : q[m] > 0}

\* A handle more, or less, changes the count of its node n and moves n to
\* the other list when it was the first or the last.
Recount(c, r, n, d, q) ==
  /\ n \in Live(c) /\ d \in Caches /\ q \in [Nodes -> Nat]
  /\ d.cache = c.cache /\ d.size = c.size
  /\ d.nodes[n].key = c.nodes[n].key /\ d.nodes[n].ref = 1 + q[n]
  /\ \A m \in Nodes : m # n => d.nodes[m] = c.nodes[m] /\ q[m] = r[m]
  /\ ListsOK(Live(c), q, d.not_use, d.in_use)

\* Such a change keeps everything in agreement.
LEMMA Recounted ==
  ASSUME NEW c, NEW r, CacheOK(c, r), NEW n, NEW d, NEW q, Recount(c, r, n, d, q)
  PROVE  CacheOK(d, q) /\ SameEntries(c, d)
<1> USE DEF Recount
<1>1. n \in Nodes /\ q[n] \in Nat
  BY DEF Live
<1>2. d.nodes[n] # NoEntry
  BY <1>1 DEF NoEntry
<1>3. Live(d) = Live(c)
  BY <1>2 DEF Live
<1>4. \A m \in Nodes : d.nodes[m].key = c.nodes[m].key
  OBVIOUS
<1>5. SameEntries(c, d)
  BY <1>3, <1>4 DEF SameEntries
<1>6. ASSUME NEW m \in Live(d)
      PROVE  d.nodes[m].key \in Keys /\ d.cache[d.nodes[m].key] = m /\ d.nodes[m].ref = 1 + q[m]
  <2>1. m \in Live(c) /\ m \in Nodes
    BY <1>3 DEF Live
  <2>2. d.nodes[m].ref = 1 + q[m]
    BY <2>1 DEF CacheOK
  <2> QED BY <1>4, <2>1, <2>2 DEF CacheOK
<1>7. \A m \in Nodes : q[m] > 0 => m \in Live(d)
  BY <1>3 DEF CacheOK
<1>8. \A k \in Keys : d.cache[k] # NoNode => d.cache[k] \in Live(d) /\ d.nodes[d.cache[k]].key = k
  BY <1>3, <1>4 DEF CacheOK, Live
<1>9. d.size = Cardinality(Live(d))
  BY <1>3 DEF CacheOK
<1> QED BY <1>3, <1>5, <1>6, <1>7, <1>8, <1>9 DEF CacheOK, ListsOK

\* ref_node() counts one handle more.
LEMMA RefNode ==
  ASSUME NEW c, NEW r, CacheOK(c, r), NEW n \in Live(c)
  PROVE  /\ CacheOK(ref_node(c, n), Plus(r, n)) /\ SameEntries(c, ref_node(c, n))
         /\ r[n] = 0 => Len(ref_node(c, n).in_use) = Len(c.in_use) + 1
<1>1. /\ c \in Caches /\ n \in Nodes /\ r \in [Nodes -> Nat] /\ r[n] \in Nat /\ c.nodes[n].ref = 1 + r[n]
      /\ c.nodes \in [Nodes -> Entries] /\ c.not_use \in Seq(Nodes) /\ c.in_use \in Seq(Nodes)
  BY CacheFields DEF CacheOK, Live
<1>2. PICK v \in Nat : v = r[n] + 1 /\ c.nodes[n].ref + 1 = 1 + v
  BY <1>1
<1>3. PICK q : q = Plus(r, n)
  OBVIOUS
<1>4. q \in [Nodes -> Nat] /\ q[n] = v /\ \A m \in Nodes : m # n => q[m] = r[m]
  BY <1>1, <1>2, <1>3 DEF Plus
<1>5. PICK A, B : /\ A = IF c.nodes[n].ref = 1 THEN Unlink(c.not_use, n) ELSE c.not_use
                  /\ B = IF c.nodes[n].ref = 1 THEN Append(c.in_use, n) ELSE c.in_use
  OBVIOUS
<1>6. /\ A \in Seq(Nodes) /\ Distinct(A) /\ ToSet(A) = {m \in Live(c) : q[m] = 0}
      /\ B \in Seq(Nodes) /\ Distinct(B) /\ ToSet(B) = {m \in Live(c) : q[m] > 0}
      /\ r[n] = 0 => Len(B) = Len(c.in_use) + 1
  <2>1. CASE r[n] = 0
    <3>1. n \in ToSet(c.not_use) /\ n \notin ToSet(c.in_use) /\ Distinct(c.not_use) /\ Distinct(c.in_use)
      BY <1>1, <2>1 DEF CacheOK
    <3>2. A = Unlink(c.not_use, n) /\ B = Append(c.in_use, n)
      BY <1>1, <1>5, <2>1
    <3>3. A \in Seq(Nodes) /\ Distinct(A) /\ ToSet(A) = ToSet(c.not_use) \ {n}
      BY <1>1, <3>1, <3>2, UnlinkNode
    <3>4. B \in Seq(Nodes) /\ Distinct(B) /\ ToSet(B) = ToSet(c.in_use) \cup {n} /\ Len(B) = Len(c.in_use) + 1
      BY <1>1, <3>1, <3>2, AppendNode
    <3>5. /\ {m \in Live(c) : q[m] = 0} = {m \in Live(c) : r[m] = 0} \ {n}
          /\ {m \in Live(c) : q[m] > 0} = {m \in Live(c) : r[m] > 0} \cup {n}
      BY <1>1, <1>2, <1>4 DEF Live
    <3> QED BY <3>3, <3>4, <3>5 DEF CacheOK
  <2>2. CASE r[n] # 0
    <3>1. A = c.not_use /\ B = c.in_use
      BY <1>1, <1>5, <2>2
    <3>2. /\ {m \in Live(c) : q[m] = 0} = {m \in Live(c) : r[m] = 0}
          /\ {m \in Live(c) : q[m] > 0} = {m \in Live(c) : r[m] > 0}
      <4>1. \A m \in Live(c) : (q[m] = 0 <=> r[m] = 0) /\ (q[m] > 0 <=> r[m] > 0)
        <5> SUFFICES ASSUME NEW m \in Live(c) PROVE (q[m] = 0 <=> r[m] = 0) /\ (q[m] > 0 <=> r[m] > 0)
          OBVIOUS
        <5>1. m \in Nodes /\ r[m] \in Nat
          BY <1>1 DEF Live
        <5>2. CASE m = n
          BY <1>1, <1>2, <1>4, <2>2, <5>2
        <5>3. CASE m # n
          BY <1>4, <5>1, <5>3
        <5> QED BY <5>2, <5>3
      <4> QED BY <4>1
    <3> QED BY <1>1, <2>2, <3>1, <3>2 DEF CacheOK
  <2> QED BY <2>1, <2>2
<1>7. PICK d : d = ref_node(c, n)
  OBVIOUS
<1>8. PICK e \in Entries : e = [c.nodes[n] EXCEPT !.ref = 1 + v] /\ e.key = c.nodes[n].key /\ e.ref = 1 + v
  <2>1. PICK x \in Entries : x = c.nodes[n]
    BY <1>1 DEF Live
  <2>2. [x EXCEPT !.ref = 1 + v] \in Entries /\ [x EXCEPT !.ref = 1 + v].key = x.key
        /\ [x EXCEPT !.ref = 1 + v].ref = 1 + v
    BY DEF Entries
  <2> QED BY <2>1, <2>2
<1>9. PICK N \in [Nodes -> Entries] : N = [c.nodes EXCEPT ![n] = e] /\ N[n] = e /\ \A m \in Nodes : m # n => N[m] = c.nodes[m]
  <2>1. PICK M \in [Nodes -> Entries] : M = c.nodes
    BY <1>1
  <2>2. PICK N : N = [M EXCEPT ![n] = e]
    OBVIOUS
  <2>3. N \in [Nodes -> Entries] /\ N[n] = e /\ \A m \in Nodes : m # n => N[m] = M[m]
    BY <1>1, <2>2
  <2> QED BY <2>1, <2>2, <2>3
<1>10. d = [nodes |-> N, not_use |-> A, in_use |-> B, cache |-> c.cache, size |-> c.size]
  <2>1. d = [c EXCEPT !.nodes = N, !.in_use = B, !.not_use = A]
    BY <1>2, <1>5, <1>7, <1>8, <1>9 DEF ref_node
  <2> QED BY <1>1, <2>1 DEF Caches
<1>11. d \in Caches /\ d.nodes = N /\ d.not_use = A /\ d.in_use = B /\ d.cache = c.cache /\ d.size = c.size
  <2>1. PICK K \in [Keys -> Nodes \cup {NoNode}], z \in Nat : K = c.cache /\ z = c.size
    BY <1>1, CacheFields
  <2>2. d = [nodes |-> N, not_use |-> A, in_use |-> B, cache |-> K, size |-> z]
    BY <1>10, <2>1
  <2>3. A \in Seq(Nodes) /\ B \in Seq(Nodes)
    BY <1>6
  <2> QED BY <2>1, <2>2, <2>3, CacheRecord
<1>12. CacheOK(d, q) /\ SameEntries(c, d)
  <2>1. d.nodes[n].key = c.nodes[n].key /\ d.nodes[n].ref = 1 + q[n]
    BY <1>4, <1>8, <1>9, <1>11
  <2>2. \A m \in Nodes : m # n => d.nodes[m] = c.nodes[m] /\ q[m] = r[m]
    BY <1>4, <1>9, <1>11
  <2>3. ListsOK(Live(c), q, d.not_use, d.in_use)
    BY <1>6, <1>11 DEF ListsOK
  <2>4. n \in Live(c) /\ d \in Caches /\ q \in [Nodes -> Nat] /\ d.cache = c.cache /\ d.size = c.size
    BY <1>1, <1>4, <1>11
  <2>5. Recount(c, r, n, d, q)
    BY <2>1, <2>2, <2>3, <2>4 DEF Recount
  <2> QED BY <2>5, Recounted
<1> QED BY <1>3, <1>6, <1>7, <1>11, <1>12

\* unref_node() counts one handle less.
LEMMA UnrefNode ==
  ASSUME NEW c, NEW r, CacheOK(c, r), NEW n \in Nodes, r[n] > 0
  PROVE  CacheOK(unref_node(c, n), Minus(r, n)) /\ SameEntries(c, unref_node(c, n))
<1>1. /\ c \in Caches /\ n \in Live(c) /\ r \in [Nodes -> Nat] /\ r[n] \in Nat /\ c.nodes[n].ref = 1 + r[n]
      /\ c.nodes \in [Nodes -> Entries] /\ c.not_use \in Seq(Nodes) /\ c.in_use \in Seq(Nodes)
  BY CacheFields DEF CacheOK, Live
<1>2. PICK v \in Nat : v = r[n] - 1 /\ c.nodes[n].ref - 1 = 1 + v
  BY <1>1
<1>3. PICK q : q = Minus(r, n)
  OBVIOUS
<1>4. q \in [Nodes -> Nat] /\ q[n] = v /\ \A m \in Nodes : m # n => q[m] = r[m]
  BY <1>1, <1>2, <1>3 DEF Minus
<1>5. PICK A, B : /\ A = IF c.nodes[n].ref = 2 THEN Append(c.not_use, n) ELSE c.not_use
                  /\ B = IF c.nodes[n].ref = 2 THEN Unlink(c.in_use, n) ELSE c.in_use
  OBVIOUS
<1>6. /\ A \in Seq(Nodes) /\ Distinct(A) /\ ToSet(A) = {m \in Live(c) : q[m] = 0}
      /\ B \in Seq(Nodes) /\ Distinct(B) /\ ToSet(B) = {m \in Live(c) : q[m] > 0}
  <2>1. CASE r[n] = 1
    <3>1. n \in ToSet(c.in_use) /\ n \notin ToSet(c.not_use) /\ Distinct(c.not_use) /\ Distinct(c.in_use)
      BY <1>1, <2>1 DEF CacheOK
    <3>2. A = Append(c.not_use, n) /\ B = Unlink(c.in_use, n)
      BY <1>1, <1>5, <2>1
    <3>3. B \in Seq(Nodes) /\ Distinct(B) /\ ToSet(B) = ToSet(c.in_use) \ {n}
      BY <1>1, <3>1, <3>2, UnlinkNode
    <3>4. A \in Seq(Nodes) /\ Distinct(A) /\ ToSet(A) = ToSet(c.not_use) \cup {n}
      BY <1>1, <3>1, <3>2, AppendNode
    <3>5. /\ {m \in Live(c) : q[m] = 0} = {m \in Live(c) : r[m] = 0} \cup {n}
          /\ {m \in Live(c) : q[m] > 0} = {m \in Live(c) : r[m] > 0} \ {n}
      BY <1>1, <1>2, <1>4, <2>1 DEF Live
    <3> QED BY <3>3, <3>4, <3>5 DEF CacheOK
  <2>2. CASE r[n] # 1
    <3>1. A = c.not_use /\ B = c.in_use
      BY <1>1, <1>5, <2>2
    <3>2. /\ {m \in Live(c) : q[m] = 0} = {m \in Live(c) : r[m] = 0}
          /\ {m \in Live(c) : q[m] > 0} = {m \in Live(c) : r[m] > 0}
      <4>1. \A m \in Live(c) : (q[m] = 0 <=> r[m] = 0) /\ (q[m] > 0 <=> r[m] > 0)
        <5> SUFFICES ASSUME NEW m \in Live(c) PROVE (q[m] = 0 <=> r[m] = 0) /\ (q[m] > 0 <=> r[m] > 0)
          OBVIOUS
        <5>1. m \in Nodes /\ r[m] \in Nat
          BY <1>1 DEF Live
        <5>2. CASE m = n
          BY <1>1, <1>2, <1>4, <2>2, <5>2
        <5>3. CASE m # n
          BY <1>4, <5>1, <5>3
        <5> QED BY <5>2, <5>3
      <4> QED BY <4>1
    <3> QED BY <1>1, <2>2, <3>1, <3>2 DEF CacheOK
  <2> QED BY <2>1, <2>2
<1>7. PICK d : d = unref_node(c, n)
  OBVIOUS
<1>8. PICK e \in Entries : e = [c.nodes[n] EXCEPT !.ref = 1 + v] /\ e.key = c.nodes[n].key /\ e.ref = 1 + v
  <2>1. PICK x \in Entries : x = c.nodes[n]
    BY <1>1 DEF Live
  <2>2. [x EXCEPT !.ref = 1 + v] \in Entries /\ [x EXCEPT !.ref = 1 + v].key = x.key
        /\ [x EXCEPT !.ref = 1 + v].ref = 1 + v
    BY DEF Entries
  <2> QED BY <2>1, <2>2
<1>9. PICK N \in [Nodes -> Entries] : N = [c.nodes EXCEPT ![n] = e] /\ N[n] = e /\ \A m \in Nodes : m # n => N[m] = c.nodes[m]
  <2>1. PICK M \in [Nodes -> Entries] : M = c.nodes
    BY <1>1
  <2>2. PICK N : N = [M EXCEPT ![n] = e]
    OBVIOUS
  <2>3. N \in [Nodes -> Entries] /\ N[n] = e /\ \A m \in Nodes : m # n => N[m] = M[m]
    BY <1>1, <2>2
  <2> QED BY <2>1, <2>2, <2>3
<1>10. d = [nodes |-> N, not_use |-> A, in_use |-> B, cache |-> c.cache, size |-> c.size]
  <2>1. d = [c EXCEPT !.nodes = N, !.not_use = A, !.in_use = B]
    BY <1>2, <1>5, <1>7, <1>8, <1>9 DEF unref_node
  <2> QED BY <1>1, <2>1 DEF Caches
<1>11. d \in Caches /\ d.nodes = N /\ d.not_use = A /\ d.in_use = B /\ d.cache = c.cache /\ d.size = c.size
  <2>1. PICK K \in [Keys -> Nodes \cup {NoNode}], z \in Nat : K = c.cache /\ z = c.size
    BY <1>1, CacheFields
  <2>2. d = [nodes |-> N, not_use |-> A, in_use |-> B, cache |-> K, size |-> z]
    BY <1>10, <2>1
  <2>3. A \in Seq(Nodes) /\ B \in Seq(Nodes)
    BY <1>6
  <2> QED BY <2>1, <2>2, <2>3, CacheRecord
<1>12. CacheOK(d, q) /\ SameEntries(c, d)
  <2>1. d.nodes[n].key = c.nodes[n].key /\ d.nodes[n].ref = 1 + q[n]
    BY <1>4, <1>8, <1>9, <1>11
  <2>2. \A m \in Nodes : m # n => d.nodes[m] = c.nodes[m] /\ q[m] = r[m]
    BY <1>4, <1>9, <1>11
  <2>3. ListsOK(Live(c), q, d.not_use, d.in_use)
    BY <1>6, <1>11 DEF ListsOK
  <2>4. n \in Live(c) /\ d \in Caches /\ q \in [Nodes -> Nat] /\ d.cache = c.cache /\ d.size = c.size
    BY <1>1, <1>4, <1>11
  <2>5. Recount(c, r, n, d, q)
    BY <2>1, <2>2, <2>3, <2>4 DEF Recount
  <2> QED BY <2>5, Recounted
<1> QED BY <1>3, <1>7, <1>12

-----------------------------------------------------------------------------
(* put(): a free node, its entry, and evict().                             *)

\* A set of numbers has a least element.
LEMMA Least ==
  ASSUME NEW T, T \subseteq Nat, T # {}
  PROVE  \E x \in T : \A y \in T : x <= y
<1> DEFINE R == {p \in Nat \X Nat : p[1] < p[2]}
<1>1. IsWellFoundedOn(R, Nat)
  BY NatLessThanWellFounded, Zenon DEF OpToRel
<1>2. \A x, y \in T : y < x => <<y, x>> \in R
  OBVIOUS
<1> HIDE DEF R
<1>3. PICK x \in T : \A y \in T : <<y, x>> \notin R
  BY <1>1, WFMin
<1>4. \A y \in T : ~(y < x)
  BY <1>2, <1>3
<1> QED BY <1>3, <1>4

\* Min() of a set is in it.
LEMMA MinMember ==
  ASSUME NEW T, T \subseteq Nat, T # {}
  PROVE  Min(T) \in T /\ \A y \in T : Min(T) <= y
<1>1. \E x \in T : \A y \in T : x <= y
  BY Least
<1> QED BY <1>1, Zenon DEF Min

\* There is memory for a key that is not in the map.
LEMMA FreeNode ==
  ASSUME NEW c, NEW r, CacheOK(c, r), NEW key \in Keys, c.cache[key] = NoNode
  PROVE  LET n == Min({m \in Nodes : c.nodes[m] = NoEntry}) IN n \in Nodes /\ n \notin Live(c)
<1> DEFINE U == {k \in Keys : c.cache[k] # NoNode}
           F == {m \in Nodes : c.nodes[m] = NoEntry}
<1>1. IsFiniteSet(Keys \ {key}) /\ Cardinality(Keys \ {key}) = Cardinality(Keys) - 1
  BY LRUAssumption, FS_RemoveElement
<1>2. U \in SUBSET (Keys \ {key})
  OBVIOUS
<1>3. Cardinality(U) = Cardinality(Live(c))
  BY KeysCounted DEF CacheOK
<1>4. Live(c) # Nodes
  <2>1. Cardinality(U) <= Cardinality(Keys \ {key})
    BY <1>1, <1>2, FS_Subset
  <2>2. Cardinality(Live(c)) <= Cardinality(Keys) - 1
    BY <1>1, <1>3, <2>1
  <2>3. Cardinality(Nodes) = Cardinality(Keys) /\ Cardinality(Keys) \in Nat
    BY NodesFinite
  <2> QED BY <2>2, <2>3
<1>5. F # {} /\ F \subseteq Nat /\ F \cap Live(c) = {} /\ F \subseteq Nodes
  BY <1>4, NodesFinite DEF Live
<1> HIDE DEF F
<1>6. Min(F) \in F
  BY <1>5, MinMember
<1> QED BY <1>5, <1>6 DEF F

\* The entry of a new key at a free node.
LEMMA InsertNode ==
  ASSUME NEW c, NEW r, CacheOK(c, r), NEW n \in Nodes, n \notin Live(c),
         NEW key \in Keys, c.cache[key] = NoNode
  PROVE  LET d == Insert(c, n, key)
         IN /\ CacheOK(d, r) /\ Live(d) = Live(c) \cup {n} /\ r[n] = 0
            /\ d.nodes[n].key = key /\ \A m \in Live(c) : d.nodes[m] = c.nodes[m]
            /\ d.in_use = c.in_use /\ d.size = c.size + 1
<1>1. /\ c \in Caches /\ r \in [Nodes -> Nat] /\ c.size \in Nat /\ c.cache \in [Keys -> Nodes \cup {NoNode}]
      /\ c.nodes \in [Nodes -> Entries] /\ c.not_use \in Seq(Nodes) /\ c.in_use \in Seq(Nodes)
  BY CacheFields DEF CacheOK
<1>2. r[n] = 0
  BY <1>1 DEF CacheOK
<1>3. PICK e \in Entries : e = [key |-> key, ref |-> 1] /\ e.key = key /\ e.ref = 1
  <2>1. PICK e : e = [key |-> key, ref |-> 1]
    OBVIOUS
  <2> QED BY <2>1 DEF Entries
<1>4. e # NoEntry
  BY <1>3 DEF NoEntry
<1>5. PICK N \in [Nodes -> Entries] : N = [c.nodes EXCEPT ![n] = e] /\ N[n] = e /\ \A m \in Nodes : m # n => N[m] = c.nodes[m]
  <2>1. PICK M \in [Nodes -> Entries] : M = c.nodes
    BY <1>1
  <2>2. PICK N : N = [M EXCEPT ![n] = e]
    OBVIOUS
  <2>3. N \in [Nodes -> Entries] /\ N[n] = e /\ \A m \in Nodes : m # n => N[m] = M[m]
    BY <2>2
  <2> QED BY <2>1, <2>2, <2>3
<1>6. PICK K \in [Keys -> Nodes \cup {NoNode}] : K = [c.cache EXCEPT ![key] = n] /\ K[key] = n /\ \A k \in Keys : k # key => K[k] = c.cache[k]
  <2>1. PICK M \in [Keys -> Nodes \cup {NoNode}] : M = c.cache
    BY <1>1
  <2>2. PICK K : K = [M EXCEPT ![key] = n]
    OBVIOUS
  <2>3. K \in [Keys -> Nodes \cup {NoNode}] /\ K[key] = n /\ \A k \in Keys : k # key => K[k] = M[k]
    BY <2>2
  <2> QED BY <2>1, <2>2, <2>3
<1>7. n \notin ToSet(c.not_use) /\ Distinct(c.not_use)
  BY DEF CacheOK
<1>8. PICK A \in Seq(Nodes) : A = Append(c.not_use, n) /\ Distinct(A) /\ ToSet(A) = ToSet(c.not_use) \cup {n}
  BY <1>1, <1>7, AppendNode
<1>9. PICK z \in Nat : z = c.size + 1
  BY <1>1
<1>20. PICK B \in Seq(Nodes) : B = c.in_use
  BY <1>1
<1>21. PICK d : d = Insert(c, n, key)
  OBVIOUS
<1>10. d = [nodes |-> N, not_use |-> A, in_use |-> B, cache |-> K, size |-> z]
  <2>1. d = [c EXCEPT !.nodes = N, !.not_use = A, !.cache = K, !.size = z]
    BY <1>3, <1>5, <1>6, <1>8, <1>9, <1>20, <1>21 DEF Insert
  <2> QED BY <1>1, <1>9, <1>20, <2>1 DEF Caches
<1>11. d \in Caches /\ d.nodes = N /\ d.not_use = A /\ d.in_use = B /\ d.cache = K /\ d.size = z
  BY <1>10, CacheRecord
<1>12. Live(d) = Live(c) \cup {n}
  BY <1>4, <1>5, <1>11 DEF Live
<1>13. \A m \in Live(c) : m \in Nodes /\ m # n /\ d.nodes[m] = c.nodes[m]
  BY <1>5, <1>11 DEF Live
<1>14. ASSUME NEW m \in Live(d)
       PROVE  d.nodes[m].key \in Keys /\ d.cache[d.nodes[m].key] = m /\ d.nodes[m].ref = 1 + r[m]
  <2>1. CASE m = n
    BY <1>2, <1>3, <1>5, <1>6, <1>11, <2>1
  <2>2. CASE m # n
    <3>1. m \in Live(c) /\ d.nodes[m] = c.nodes[m]
      BY <1>12, <1>13, <2>2
    <3>2. c.nodes[m].key \in Keys /\ c.cache[c.nodes[m].key] = m /\ c.nodes[m].ref = 1 + r[m]
      BY <3>1 DEF CacheOK
    <3>3. c.nodes[m].key # key
      BY <3>1, <3>2, LRUAssumption DEF Live
    <3> QED BY <1>6, <1>11, <3>1, <3>2, <3>3
  <2> QED BY <2>1, <2>2
<1>15. \A m \in Nodes : r[m] > 0 => m \in Live(d)
  BY <1>12 DEF CacheOK
<1>16. ASSUME NEW k \in Keys, d.cache[k] # NoNode
       PROVE  d.cache[k] \in Live(d) /\ d.nodes[d.cache[k]].key = k
  <2>1. CASE k = key
    BY <1>3, <1>5, <1>6, <1>11, <1>12, <2>1
  <2>2. CASE k # key
    <3>1. d.cache[k] = c.cache[k] /\ c.cache[k] \in Live(c) /\ c.nodes[c.cache[k]].key = k
      BY <1>6, <1>11, <1>16, <2>2 DEF CacheOK
    <3> QED BY <1>12, <1>13, <3>1
  <2> QED BY <2>1, <2>2
<1>17. d.size = Cardinality(Live(d))
  <2>1. IsFiniteSet(Live(c)) /\ c.size = Cardinality(Live(c))
    BY NodesFinite DEF CacheOK, Live
  <2>2. Cardinality(Live(c) \cup {n}) = Cardinality(Live(c)) + 1
    BY <2>1, FS_AddElement
  <2> QED BY <1>11, <1>12, <1>9, <1>20, <2>1, <2>2
<1>18. ListsOK(Live(d), r, d.not_use, d.in_use)
  <2>1. {m \in Live(d) : r[m] = 0} = {m \in Live(c) : r[m] = 0} \cup {n}
    BY <1>2, <1>12
  <2>2. {m \in Live(d) : r[m] > 0} = {m \in Live(c) : r[m] > 0}
    BY <1>2, <1>12
  <2> QED BY <1>8, <1>11, <1>9, <1>20, <2>1, <2>2 DEF ListsOK, CacheOK
<1>19. CacheOK(d, r)
  BY <1>1, <1>11, <1>14, <1>15, <1>16, <1>17, <1>18 DEF CacheOK, ListsOK
<1> QED BY <1>2, <1>3, <1>5, <1>11, <1>12, <1>13, <1>19, <1>9, <1>20, <1>21

\* evict() takes as many nodes as are too many, if not_use has them.
LEMMA ExcessRange ==
  ASSUME capacity \in Nat, NEW c \in Caches
  PROVE  /\ Excess(c) \in 0 .. Len(c.not_use)
         /\ capacity > 0 => (c.size - Excess(c) <= capacity \/ Excess(c) = Len(c.not_use))
<1>1. PICK len \in Nat, z \in Nat, k \in Nat : len = Len(c.not_use) /\ z = c.size /\ k = capacity
  BY CacheFields, LenProperties
<1>2. CASE k > 0 /\ z > k
  <2>1. PICK x \in Nat : x = z - k
    BY <1>2
  <2>2. PICK y : y = Min({x, len})
    OBVIOUS
  <2>3. y \in {x, len} /\ y <= x /\ y <= len
    BY <2>2, MinMember
  <2>4. Excess(c) = y
    BY <1>1, <1>2, <2>1, <2>2 DEF Excess
  <2> QED BY <1>1, <1>2, <2>1, <2>3, <2>4
<1>3. CASE ~(k > 0 /\ z > k)
  <2>1. Excess(c) = 0
    BY <1>1, <1>3 DEF Excess
  <2> QED BY <1>1, <1>3, <2>1
<1> QED BY <1>2, <1>3

\* evict() takes only nodes that nobody holds, and enough of them or all.
LEMMA EvictNodes ==
  ASSUME capacity \in Nat, NEW c, NEW r, CacheOK(c, r)
  PROVE  LET d == evict(c)
         IN /\ CacheOK(d, r) /\ Live(d) \subseteq Live(c) /\ \A m \in Live(d) : d.nodes[m] = c.nodes[m]
            /\ d.in_use = c.in_use
            /\ capacity > 0 => (d.size <= capacity \/ d.size = Len(c.in_use))
<1>1. /\ c \in Caches /\ r \in [Nodes -> Nat] /\ c.size \in Nat /\ c.cache \in [Keys -> Nodes \cup {NoNode}]
      /\ c.nodes \in [Nodes -> Entries] /\ c.not_use \in Seq(Nodes) /\ c.in_use \in Seq(Nodes)
      /\ Distinct(c.not_use)
  BY CacheFields DEF CacheOK
<1>2. PICK x \in 0 .. Len(c.not_use) : x = Excess(c)
  BY <1>1, ExcessRange
<1>3. PICK gone, A : gone = ToSet(SubSeq(c.not_use, 1, x)) /\ A = SubSeq(c.not_use, x + 1, Len(c.not_use))
  OBVIOUS
<1>4. /\ gone \subseteq ToSet(c.not_use) /\ IsFiniteSet(gone) /\ Cardinality(gone) = x
      /\ A \in Seq(Nodes) /\ Distinct(A) /\ ToSet(A) = ToSet(c.not_use) \ gone
  BY <1>1, <1>3, CutList
<1>5. gone \subseteq Live(c) /\ gone \subseteq Nodes /\ \A m \in gone : r[m] = 0
  BY <1>4 DEF CacheOK, Live
<1>6. NoEntry \in Entries
  <2>1. PICK e : e = NoEntry
    OBVIOUS
  <2> QED BY <2>1 DEF NoEntry, Entries
<1>7. PICK N \in [Nodes -> Entries] : /\ N = [n \in Nodes |-> IF n \in gone THEN NoEntry ELSE c.nodes[n]]
                                      /\ \A m \in Nodes : N[m] = IF m \in gone THEN NoEntry ELSE c.nodes[m]
  <2>1. PICK M \in [Nodes -> Entries] : M = c.nodes
    BY <1>1
  <2>2. PICK N : N = [n \in Nodes |-> IF n \in gone THEN NoEntry ELSE M[n]]
    OBVIOUS
  <2>3. N \in [Nodes -> Entries] /\ \A m \in Nodes : N[m] = IF m \in gone THEN NoEntry ELSE M[m]
    BY <1>6, <2>2
  <2> QED BY <2>1, <2>2, <2>3
<1>8. PICK K \in [Keys -> Nodes \cup {NoNode}] : /\ K = [k \in Keys |-> IF c.cache[k] \in gone THEN NoNode ELSE c.cache[k]]
                                                 /\ \A k \in Keys : K[k] = IF c.cache[k] \in gone THEN NoNode ELSE c.cache[k]
  <2>1. PICK M \in [Keys -> Nodes \cup {NoNode}] : M = c.cache
    BY <1>1
  <2>2. PICK K : K = [k \in Keys |-> IF M[k] \in gone THEN NoNode ELSE M[k]]
    OBVIOUS
  <2>3. K \in [Keys -> Nodes \cup {NoNode}] /\ \A k \in Keys : K[k] = IF M[k] \in gone THEN NoNode ELSE M[k]
    BY <2>2
  <2> QED BY <2>1, <2>2, <2>3
<1>9. PICK B \in Seq(Nodes) : B = c.in_use
  BY <1>1
<1>10. IsFiniteSet(Live(c)) /\ c.size = Cardinality(Live(c)) /\ Cardinality(Live(c) \ gone) = c.size - x /\ c.size - x \in Nat
  <2>1. IsFiniteSet(Live(c)) /\ c.size = Cardinality(Live(c))
    BY NodesFinite DEF CacheOK, Live
  <2>2. Live(c) \cap gone = gone
    BY <1>5
  <2>3. Cardinality(Live(c) \ gone) = Cardinality(Live(c)) - Cardinality(Live(c) \cap gone)
    BY <2>1, FS_Difference
  <2>4. Cardinality(Live(c) \ gone) \in Nat
    BY NodesFinite DEF Live
  <2> QED BY <1>4, <2>1, <2>2, <2>3, <2>4
<1>11. PICK z \in Nat : z = c.size - x
  BY <1>10
<1>12. PICK d : d = evict(c)
  OBVIOUS
<1>13. d = [nodes |-> N, not_use |-> A, in_use |-> B, cache |-> K, size |-> z]
  BY <1>2, <1>3, <1>7, <1>8, <1>9, <1>11, <1>12 DEF evict
<1>14. d \in Caches /\ d.nodes = N /\ d.not_use = A /\ d.in_use = B /\ d.cache = K /\ d.size = z
  BY <1>4, <1>13, CacheRecord
<1>15. Live(d) = Live(c) \ gone
  BY <1>7, <1>14 DEF Live
<1>16. \A m \in Live(d) : d.nodes[m] = c.nodes[m]
  BY <1>7, <1>14, <1>15 DEF Live
<1>17. ASSUME NEW m \in Live(d)
       PROVE  d.nodes[m].key \in Keys /\ d.cache[d.nodes[m].key] = m /\ d.nodes[m].ref = 1 + r[m]
  <2>1. m \in Live(c) /\ m \notin gone /\ d.nodes[m] = c.nodes[m]
    BY <1>15, <1>16
  <2>2. c.nodes[m].key \in Keys /\ c.cache[c.nodes[m].key] = m /\ c.nodes[m].ref = 1 + r[m]
    BY <2>1 DEF CacheOK
  <2> QED BY <1>8, <1>14, <2>1, <2>2
<1>18. \A m \in Nodes : r[m] > 0 => m \in Live(d)
  BY <1>5, <1>15 DEF CacheOK
<1>19. ASSUME NEW k \in Keys, d.cache[k] # NoNode
       PROVE  d.cache[k] \in Live(d) /\ d.nodes[d.cache[k]].key = k
  <2>1. d.cache[k] = c.cache[k] /\ c.cache[k] \notin gone
    BY <1>8, <1>14, <1>19
  <2>2. c.cache[k] \in Live(c) /\ c.nodes[c.cache[k]].key = k
    BY <1>19, <2>1 DEF CacheOK
  <2> QED BY <1>15, <1>16, <2>1, <2>2
<1>20. ListsOK(Live(d), r, d.not_use, d.in_use)
  <2>1. {m \in Live(d) : r[m] = 0} = {m \in Live(c) : r[m] = 0} \ gone
    BY <1>15
  <2>2. {m \in Live(d) : r[m] > 0} = {m \in Live(c) : r[m] > 0}
    BY <1>5, <1>15
  <2> QED BY <1>4, <1>9, <1>14, <2>1, <2>2 DEF ListsOK, CacheOK
<1>21. d.size = Cardinality(Live(d))
  BY <1>10, <1>11, <1>14, <1>15
<1>22. CacheOK(d, r)
  BY <1>1, <1>14, <1>17, <1>18, <1>19, <1>20, <1>21 DEF CacheOK, ListsOK
<1>23. capacity > 0 => (d.size <= capacity \/ d.size = Len(c.in_use))
  <2>1. Len(c.in_use) + Len(c.not_use) = c.size /\ Len(c.in_use) \in Nat /\ Len(c.not_use) \in Nat
    BY <1>1, ListsCounted, LenProperties
  <2>2. capacity > 0 => (c.size - x <= capacity \/ x = Len(c.not_use))
    BY <1>1, <1>2, ExcessRange
  <2>3. d.size = c.size - x
    BY <1>11, <1>14
  <2>4. ASSUME x = Len(c.not_use)
        PROVE  c.size - x = Len(c.in_use)
    <3>1. PICK a \in Nat, b \in Nat : a = Len(c.in_use) /\ b = Len(c.not_use)
      BY <2>1
    <3>2. c.size = a + b /\ x = b
      BY <2>1, <2>4, <3>1
    <3>3. (a + b) - b = a
      OBVIOUS
    <3> QED BY <3>1, <3>2, <3>3, Zenon
  <2> QED BY <2>2, <2>3, <2>4
<1> QED BY <1>9, <1>12, <1>14, <1>15, <1>16, <1>22, <1>23

-----------------------------------------------------------------------------
(* The handles.                                                            *)

Guards == [node : Nodes \cup {NoNode}, key : Keys \cup {NoNode}]

\* How many of the handles H hold each node.
RefsOf(H) == [n \in Nodes |-> Cardinality({h \in Handles : H[h].node = n})]

\* The handles H hold nodes of cache c, of their keys.
Holds(c, H) ==
  \A h \in Handles : H[h] # NoHandle => H[h].node \in Live(c) /\ c.nodes[H[h].node].key = H[h].key

\* A node is counted exactly if a handle holds it.
LEMMA RefsType ==
  ASSUME NEW H, NEW n \in Nodes
  PROVE  /\ RefsOf(H)[n] \in Nat /\ (RefsOf(H)[n] > 0 <=> \E h \in Handles : H[h].node = n)
         /\ RefsOf(H) \in [Nodes -> Nat]
<1>1. ASSUME NEW m \in Nodes
      PROVE  /\ IsFiniteSet({h \in Handles : H[h].node = m}) /\ RefsOf(H)[m] = Cardinality({h \in Handles : H[h].node = m})
             /\ RefsOf(H)[m] \in Nat
  BY LRUAssumption, FS_Subset, FS_CardinalityType DEF RefsOf
<1>2. RefsOf(H)[n] = 0 <=> {h \in Handles : H[h].node = n} = {}
  BY <1>1, FS_EmptySet
<1>3. RefsOf(H) \in [Nodes -> Nat]
  BY <1>1 DEF RefsOf
<1> QED BY <1>1, <1>2, <1>3

\* An empty handle holds no node.
LEMMA NoGuard == NoHandle \in Guards /\ NoHandle.node = NoNode /\ NoNode \notin Nodes
BY LRUAssumption DEF NoHandle, Guards

\* Nothing is added or taken at no node.
LEMMA NoChange ==
  ASSUME NEW r \in [Nodes -> Nat]
  PROVE  Plus(r, NoNode) = r /\ Minus(r, NoNode) = r
BY LRUAssumption DEF Plus, Minus

\* Handle h gets value v instead of its own.
LEMMA Reheld ==
  ASSUME NEW H \in [Handles -> Guards], NEW h \in Handles, NEW v \in Guards,
         NEW G, G = [H EXCEPT ![h] = v]
  PROVE  RefsOf(G) = Minus(Plus(RefsOf(H), v.node), H[h].node)
<1>1. G[h] = v /\ \A g \in Handles : g # h => G[g] = H[g]
  OBVIOUS
<1>2. ASSUME NEW n \in Nodes
      PROVE  RefsOf(G)[n] = Minus(Plus(RefsOf(H), v.node), H[h].node)[n]
  <2> DEFINE S == {g \in Handles : H[g].node = n}
             T == {g \in Handles : G[g].node = n}
  <2>1. IsFiniteSet(S) /\ RefsOf(H)[n] = Cardinality(S) /\ RefsOf(G)[n] = Cardinality(T)
    BY LRUAssumption, FS_Subset DEF RefsOf
  <2>2. PICK s \in Nat : s = Cardinality(S)
    BY <2>1, FS_CardinalityType
  <2>3. Minus(Plus(RefsOf(H), v.node), H[h].node)[n] =
          IF n = H[h].node THEN (IF n = v.node THEN s + 1 ELSE s) - 1
                           ELSE IF n = v.node THEN s + 1 ELSE s
    BY <2>1, <2>2 DEF Plus, Minus
  <2>4. Cardinality(S \cup {h}) = IF h \in S THEN s ELSE s + 1
    BY <2>1, <2>2, FS_AddElement
  <2>5. Cardinality(S \ {h}) = IF h \in S THEN s - 1 ELSE s
    BY <2>1, <2>2, FS_RemoveElement
  <2>6. (h \in S <=> n = H[h].node) /\ (h \in T <=> n = v.node) /\ S \ {h} = T \ {h}
    BY <1>1
  <2> HIDE DEF S, T
  <2>7. CASE n = v.node
    <3>1. T = S \cup {h}
      BY <2>6, <2>7
    <3> QED BY <2>1, <2>2, <2>3, <2>4, <2>6, <2>7, <3>1
  <2>8. CASE n # v.node
    <3>1. T = S \ {h}
      BY <2>6, <2>8
    <3> QED BY <2>1, <2>2, <2>3, <2>5, <2>6, <2>8, <3>1
  <2> QED BY <2>7, <2>8
<1> QED BY <1>2 DEF RefsOf, Minus

\* reset() of a handle that holds what it has.
LEMMA ReleasedNode ==
  ASSUME NEW h \in Handles, NEW d, NEW q, CacheOK(d, q),
         handles[h] # NoHandle => handles[h].node \in Nodes /\ q[handles[h].node] > 0
  PROVE  CacheOK(Released(d, h), Minus(q, handles[h].node)) /\ SameEntries(d, Released(d, h))
<1>1. CASE handles[h] = NoHandle
  <2>1. Released(d, h) = d /\ handles[h].node = NoNode
    BY <1>1, NoGuard DEF Released
  <2>2. Minus(q, NoNode) = q
    BY NoChange DEF CacheOK
  <2> QED BY <2>1, <2>2 DEF SameEntries
<1>2. CASE handles[h] # NoHandle
  <2>1. PICK n : n = handles[h].node
    OBVIOUS
  <2>2. Released(d, h) = unref_node(d, n) /\ n \in Nodes /\ q[n] > 0
    BY <1>2, <2>1 DEF Released
  <2> QED BY <2>1, <2>2, UnrefNode
<1> QED BY <1>1, <1>2

\* What is true of cache c with handles H.
Kept(c, H) == H \in [Handles -> Guards] /\ CacheOK(c, RefsOf(H)) /\ Holds(c, H)

\* Handle h gets value v, which cache d, made from cache c, has counted.
Given(c, H, d, v) ==
  /\ v \in Guards /\ CacheOK(d, Plus(RefsOf(H), v.node))
  /\ \A n \in Live(c) : n \in Live(d) => d.nodes[n].key = c.nodes[n].key
  /\ v # NoHandle => v.node \in Live(d) /\ d.nodes[v.node].key = v.key

\* The nodes that are held.
LEMMA HeldNode ==
  ASSUME NEW c, NEW H, Kept(c, H), NEW h \in Handles, H[h] # NoHandle
  PROVE  /\ H[h].node \in Nodes /\ H[h].node \in Live(c) /\ RefsOf(H)[H[h].node] > 0
         /\ c.nodes[H[h].node].key = H[h].key
<1>1. PICK n : n = H[h].node
  OBVIOUS
<1>2. n \in Live(c) /\ n \in Nodes /\ c.nodes[n].key = H[h].key
  BY <1>1 DEF Kept, Holds, Live
<1>3. RefsOf(H)[n] > 0
  BY <1>1, <1>2, RefsType
<1> QED BY <1>1, <1>2, <1>3

\* A node that is held stays so when another reference is counted.
LEMMA PlusHeld ==
  ASSUME NEW H, NEW p, NEW n \in Nodes, RefsOf(H)[n] > 0
  PROVE  Plus(RefsOf(H), p)[n] > 0
BY RefsType DEF Plus

\* Assigning to a handle releases what it held, after the new value was
\* counted.
LEMMA HandleGiven ==
  ASSUME NEW c, NEW H, Kept(c, H), H = handles, NEW h \in Handles, NEW d, NEW v, Given(c, H, d, v)
  PROVE  Kept(Released(d, h), [H EXCEPT ![h] = v]) /\ Released(d, h).size = d.size
<1>1. PICK e, G, q : e = Released(d, h) /\ G = [H EXCEPT ![h] = v] /\ q = Plus(RefsOf(H), v.node)
  OBVIOUS
<1>2. CacheOK(d, q) /\ v \in Guards /\ H \in [Handles -> Guards]
  BY <1>1 DEF Given, Kept
<1>3. handles[h] # NoHandle => handles[h].node \in Nodes /\ q[handles[h].node] > 0
  BY <1>1, HeldNode, PlusHeld
<1>4. CacheOK(e, Minus(q, H[h].node)) /\ SameEntries(d, e)
  BY <1>1, <1>2, <1>3, ReleasedNode
<1>5. RefsOf(G) = Minus(q, H[h].node)
  BY <1>1, <1>2, Reheld
<1>6. G \in [Handles -> Guards] /\ G[h] = v /\ \A g \in Handles : g # h => G[g] = H[g]
  BY <1>1, <1>2
<1>7. ASSUME NEW g \in Handles, G[g] # NoHandle
      PROVE  G[g].node \in Live(e) /\ e.nodes[G[g].node].key = G[g].key
  <2>1. CASE g = h
    <3>1. v.node \in Live(d) /\ d.nodes[v.node].key = v.key
      BY <1>6, <1>7, <2>1 DEF Given
    <3> QED BY <1>4, <1>6, <2>1, <3>1 DEF SameEntries, Live
  <2>2. CASE g # h
    <3>1. PICK n : n = H[g].node
      OBVIOUS
    <3>2. n \in Nodes /\ n \in Live(c) /\ RefsOf(H)[n] > 0 /\ c.nodes[n].key = H[g].key /\ G[g] = H[g]
      BY <1>6, <1>7, <2>2, <3>1, HeldNode
    <3>3. q[n] > 0
      BY <1>1, <3>2, PlusHeld
    <3>4. n \in Live(d)
      BY <1>2, <3>2, <3>3 DEF CacheOK
    <3>5. d.nodes[n].key = H[g].key
      BY <3>2, <3>4 DEF Given
    <3> QED BY <1>4, <3>1, <3>2, <3>4, <3>5 DEF SameEntries
  <2> QED BY <2>1, <2>2
<1> QED BY <1>1, <1>4, <1>5, <1>6, <1>7 DEF Kept, Holds, SameEntries

\* What get() hands out.
LEMMA GivenByGet ==
  ASSUME NEW c, NEW H, Kept(c, H), NEW key \in Keys, c.cache[key] # NoNode, NEW n, n = c.cache[key]
  PROVE  Given(c, H, ref_node(c, n), [node |-> n, key |-> key])
<1>1. PICK d, v : d = ref_node(c, n) /\ v = [node |-> n, key |-> key]
  OBVIOUS
<1>2. n \in Live(c) /\ c.nodes[n].key = key /\ n \in Nodes
  BY DEF Kept, CacheOK, Live
<1>3. v \in Guards /\ v.node = n /\ v.key = key
  BY <1>1, <1>2 DEF Guards
<1>4. CacheOK(d, Plus(RefsOf(H), n)) /\ SameEntries(c, d)
  BY <1>1, <1>2, RefNode DEF Kept
<1>5. Live(d) = Live(c) /\ \A m \in Nodes : d.nodes[m].key = c.nodes[m].key
  BY <1>4 DEF SameEntries
<1>6. \A m \in Live(c) : m \in Nodes
  BY DEF Live
<1> QED BY <1>1, <1>2, <1>3, <1>4, <1>5, <1>6 DEF Given

\* What get() hands out when it finds nothing, and what reset() leaves.
LEMMA GivenNothing ==
  ASSUME NEW c, NEW H, Kept(c, H)
  PROVE  Given(c, H, c, NoHandle)
<1>1. Plus(RefsOf(H), NoNode) = RefsOf(H)
  BY NoChange DEF Kept, CacheOK
<1>2. NoHandle \in Guards /\ NoHandle.node = NoNode
  BY NoGuard
<1> QED BY <1>1, <1>2 DEF Given, Kept

\* What put() hands out, and how many entries it leaves.
LEMMA GivenByPut ==
  ASSUME capacity \in Nat, NEW c, NEW H, Kept(c, H), NEW key \in Keys, c.cache[key] = NoNode,
         NEW n, n = Min({m \in Nodes : c.nodes[m] = NoEntry}),
         NEW d, d = evict(ref_node(Insert(c, n, key), n))
  PROVE  /\ Given(c, H, d, [node |-> n, key |-> key])
         /\ capacity > 0 => (d.size <= capacity \/ d.size = Len(c.in_use) + 1)
<1>1. PICK a, b, r : a = Insert(c, n, key) /\ b = ref_node(a, n) /\ r = RefsOf(H)
  OBVIOUS
<1>2. CacheOK(c, r)
  BY <1>1 DEF Kept
<1>3. n \in Nodes /\ n \notin Live(c)
  BY <1>2, FreeNode
<1>4. /\ CacheOK(a, r) /\ Live(a) = Live(c) \cup {n} /\ r[n] = 0
      /\ a.nodes[n].key = key /\ \A m \in Live(c) : a.nodes[m] = c.nodes[m]
      /\ a.in_use = c.in_use
  <2>1. /\ CacheOK(Insert(c, n, key), r) /\ Live(Insert(c, n, key)) = Live(c) \cup {n} /\ r[n] = 0
        /\ Insert(c, n, key).nodes[n].key = key /\ \A m \in Live(c) : Insert(c, n, key).nodes[m] = c.nodes[m]
        /\ Insert(c, n, key).in_use = c.in_use
    BY ONLY <1>2, <1>3, key \in Keys, c.cache[key] = NoNode, InsertNode
  <2> QED BY <1>1, <2>1
<1>5. CacheOK(b, Plus(r, n)) /\ SameEntries(a, b) /\ Len(b.in_use) = Len(a.in_use) + 1
  BY <1>1, <1>4, RefNode
<1>6. /\ CacheOK(d, Plus(r, n)) /\ Live(d) \subseteq Live(b) /\ \A m \in Live(d) : d.nodes[m] = b.nodes[m]
      /\ capacity > 0 => (d.size <= capacity \/ d.size = Len(b.in_use))
  BY <1>1, <1>5, EvictNodes
<1>7. n \in Live(d)
  <2>1. Plus(r, n)[n] > 0
    BY <1>3, <1>4 DEF Plus
  <2> QED BY <1>3, <1>6, <2>1 DEF CacheOK
<1>8. d.nodes[n].key = key
  BY <1>3, <1>4, <1>5, <1>6, <1>7 DEF SameEntries
<1>9. ASSUME NEW m \in Live(c), m \in Live(d)
      PROVE  d.nodes[m].key = c.nodes[m].key
  <2>1. m \in Nodes /\ d.nodes[m] = b.nodes[m] /\ a.nodes[m] = c.nodes[m]
    BY <1>4, <1>6, <1>9 DEF Live
  <2>2. b.nodes[m].key = a.nodes[m].key
    BY <1>5, <2>1 DEF SameEntries
  <2> QED BY <2>1, <2>2
<1>10. PICK v : v = [node |-> n, key |-> key]
  OBVIOUS
<1>11. v \in Guards /\ v.node = n /\ v.key = key
  BY <1>3, <1>10 DEF Guards
<1>12. Given(c, H, d, v)
  BY <1>1, <1>6, <1>7, <1>8, <1>9, <1>11 DEF Given
<1> QED BY <1>4, <1>5, <1>6, <1>10, <1>12

\* std::move() of one handle into another.
LEMMA HandleMoved ==
  ASSUME NEW c, NEW H, Kept(c, H), H = handles, NEW h \in Handles, NEW other \in Handles, h # other
  PROVE  Kept(Released(c, h), [H EXCEPT ![h] = H[other], ![other] = NoHandle])
<1>1. PICK e, r, F, G : /\ e = Released(c, h) /\ r = RefsOf(H)
                        /\ F = [H EXCEPT ![h] = H[other]] /\ G = [F EXCEPT ![other] = NoHandle]
  OBVIOUS
<1>2. H \in [Handles -> Guards] /\ F \in [Handles -> Guards] /\ G \in [Handles -> Guards] /\ CacheOK(c, r) /\ r \in [Nodes -> Nat]
  BY <1>1, NoGuard DEF Kept, CacheOK
<1>3. /\ F[other] = H[other] /\ G[h] = H[other] /\ G[other] = NoHandle
      /\ \A g \in Handles : g # h /\ g # other => G[g] = H[g]
  BY <1>1, <1>2
<1>4. RefsOf(F) = Minus(Plus(r, H[other].node), H[h].node)
  <2>1. PICK v \in Guards : v = H[other]
    BY <1>2
  <2>2. F = [H EXCEPT ![h] = v]
    BY <1>1, <2>1
  <2>3. RefsOf(F) = Minus(Plus(RefsOf(H), v.node), H[h].node)
    BY <1>2, <2>2, Reheld
  <2> QED BY <1>1, <2>1, <2>3
<1>5. RefsOf(G) = Minus(Plus(RefsOf(F), NoNode), H[other].node)
  <2>1. PICK v \in Guards : v = NoHandle /\ v.node = NoNode
    BY NoGuard
  <2>2. G = [F EXCEPT ![other] = v]
    BY <1>1, <2>1
  <2>3. RefsOf(G) = Minus(Plus(RefsOf(F), v.node), F[other].node)
    BY <1>2, <2>2, Reheld
  <2> QED BY <1>3, <2>1, <2>3
<1>6. RefsOf(G) = Minus(r, H[h].node)
  <2>1. ASSUME NEW n \in Nodes
        PROVE  RefsOf(G)[n] = Minus(r, H[h].node)[n]
    <3>1. r[n] \in Nat /\ n # NoNode
      BY <1>2, LRUAssumption
    <3>2. RefsOf(G)[n] = IF n = H[other].node THEN RefsOf(F)[n] - 1 ELSE RefsOf(F)[n]
      BY <1>5, <3>1 DEF Plus, Minus
    <3>3. RefsOf(F)[n] = IF n = H[h].node THEN (IF n = H[other].node THEN r[n] + 1 ELSE r[n]) - 1
                                          ELSE IF n = H[other].node THEN r[n] + 1 ELSE r[n]
      BY <1>4 DEF Plus, Minus
    <3>4. Minus(r, H[h].node)[n] = IF n = H[h].node THEN r[n] - 1 ELSE r[n]
      BY DEF Minus
    <3> QED BY <3>1, <3>2, <3>3, <3>4
  <2> QED BY <2>1 DEF RefsOf, Minus
<1>7. handles[h] # NoHandle => handles[h].node \in Nodes /\ r[handles[h].node] > 0
  BY <1>1, HeldNode
<1>8. CacheOK(e, Minus(r, H[h].node)) /\ SameEntries(c, e)
  BY <1>1, <1>2, <1>7, ReleasedNode
<1>9. ASSUME NEW g \in Handles, G[g] # NoHandle
      PROVE  G[g].node \in Live(e) /\ e.nodes[G[g].node].key = G[g].key
  <2>1. PICK f \in Handles : G[g] = H[f]
    BY <1>3, <1>9
  <2>2. H[f].node \in Nodes /\ H[f].node \in Live(c) /\ c.nodes[H[f].node].key = H[f].key
    BY <1>9, <2>1, HeldNode
  <2> QED BY <1>8, <2>1, <2>2 DEF SameEntries
<1>10. Kept(e, G)
  BY <1>2, <1>6, <1>8, <1>9 DEF Kept, Holds
<1>11. G = [H EXCEPT ![h] = H[other], ![other] = NoHandle]
  BY <1>1
<1> QED BY <1>1, <1>10, <1>11

-----------------------------------------------------------------------------
(* The invariant.                                                          *)

IndInv ==
  /\ capacity \in Nat /\ lru \in Caches \cup {NoNode}
  /\ handles \in [Handles -> Guards]
  /\ IF Alive THEN Kept(lru, handles) ELSE \A h \in Handles : handles[h] = NoHandle

\* Before the first put() nothing is there.
LEMMA InitOK ==
  ASSUME Init
  PROVE  IndInv
<1>1. PICK c, H : c = lru /\ H = handles
  OBVIOUS
<1>2. H \in [Handles -> Guards] /\ \A h \in Handles : H[h] = NoHandle
  BY <1>1, NoGuard DEF Init
<1>3. NoEntry \in Entries
  <2>1. PICK e : e = NoEntry
    OBVIOUS
  <2> QED BY <2>1 DEF NoEntry, Entries
<1>4. PICK N \in [Nodes -> Entries], K \in [Keys -> Nodes \cup {NoNode}] :
        /\ N = [n \in Nodes |-> NoEntry] /\ K = [k \in Keys |-> NoNode]
  BY <1>3
<1>5. PICK A \in Seq(Nodes), z \in Nat : A = <<>> /\ z = 0
  BY EmptySeq
<1>6. c = [nodes |-> N, not_use |-> A, in_use |-> A, cache |-> K, size |-> z]
  BY <1>1, <1>4, <1>5 DEF Init, Empty
<1>7. c \in Caches /\ c.nodes = N /\ c.not_use = A /\ c.in_use = A /\ c.cache = K /\ c.size = z
  BY <1>6, CacheRecord
<1>8. Live(c) = {}
  BY <1>4, <1>7 DEF Live
<1>9. PICK r : r = RefsOf(H)
  OBVIOUS
<1>10. r \in [Nodes -> Nat] /\ \A n \in Nodes : r[n] = 0
  <2>1. ASSUME NEW n \in Nodes
        PROVE  r[n] \in Nat /\ r[n] = 0
    <3>1. ~ \E h \in Handles : H[h].node = n
      BY <1>2, NoGuard
    <3> QED BY <1>9, <3>1, RefsType
  <2> QED BY <1>9, <2>1 DEF RefsOf
<1>11. Distinct(A) /\ ToSet(A) = {}
  BY <1>5 DEF Distinct, ToSet
<1>12. c.size = Cardinality(Live(c))
  BY <1>5, <1>7, <1>8, FS_EmptySet
<1>13. \A k \in Keys : c.cache[k] = NoNode
  BY <1>4, <1>7
<1>14. CacheOK(c, r)
  BY <1>7, <1>8, <1>10, <1>11, <1>12, <1>13 DEF CacheOK
<1>15. Kept(c, H)
  BY <1>2, <1>9, <1>14 DEF Kept, Holds
<1>16. capacity \in Nat
  BY LRUAssumption DEF Init
<1> QED BY <1>1, <1>2, <1>7, <1>15, <1>16 DEF IndInv

\* A step that leaves cache e with handles G.
LEMMA KeptStep ==
  ASSUME NEW e, NEW G, Kept(e, G)
  PROVE  e \in Caches /\ e # NoNode /\ G \in [Handles -> Guards]
BY LRUAssumption DEF Kept, CacheOK


\* get(), put(), move() and reset() leave a cache that its handles agree
\* with.
LEMMA UserStep ==
  ASSUME IndInv, Alive,
         \/ \E h \in Handles, key \in Keys : get(h, key) \/ put(h, key)
         \/ \E h, other \in Handles : move(h, other)
         \/ \E h \in Handles : reset(h)
  PROVE  Kept(lru', handles') /\ UNCHANGED capacity
<1>1. PICK c, H : c = lru /\ H = handles
  OBVIOUS
<1>2. Kept(c, H) /\ H \in [Handles -> Guards] /\ capacity \in Nat
  BY <1>1 DEF IndInv
<1>3. PICK e, G : e = lru' /\ G = handles'
  OBVIOUS
<1>4. ASSUME NEW h \in Handles, NEW key \in Keys, get(h, key)
      PROVE  Kept(e, G) /\ UNCHANGED capacity
  <2>1. PICK n : n = c.cache[key]
    OBVIOUS
  <2>2. CASE n = NoNode
    <3>1. e = Released(c, h) /\ G = [H EXCEPT ![h] = NoHandle]
      BY <1>1, <1>3, <1>4, <2>1, <2>2 DEF get
    <3>2. Given(c, H, c, NoHandle)
      BY <1>2, GivenNothing
    <3>3. Kept(e, G)
      BY <1>1, <1>2, <3>1, <3>2, HandleGiven
    <3> QED BY <1>4, <3>3 DEF get
  <2>3. CASE n # NoNode
    <3>1. PICK v : v = [node |-> n, key |-> key]
      OBVIOUS
    <3>2. e = Released(ref_node(c, n), h) /\ G = [H EXCEPT ![h] = v]
      BY <1>1, <1>3, <1>4, <2>1, <2>3, <3>1 DEF get
    <3>3. Given(c, H, ref_node(c, n), v)
      BY <1>2, <2>1, <2>3, <3>1, GivenByGet
    <3>4. Kept(e, G)
      BY <1>1, <1>2, <3>2, <3>3, HandleGiven
    <3> QED BY <1>4, <3>4 DEF get
  <2> QED BY <2>2, <2>3
<1>5. ASSUME NEW h \in Handles, NEW key \in Keys, put(h, key)
      PROVE  Kept(e, G) /\ UNCHANGED capacity
  <2>1. PICK n : n = Min({m \in Nodes : c.nodes[m] = NoEntry})
    OBVIOUS
  <2>2. PICK d, v : d = evict(ref_node(Insert(c, n, key), n)) /\ v = [node |-> n, key |-> key]
    OBVIOUS
  <2>3. c.cache[key] = NoNode /\ e = Released(d, h) /\ G = [H EXCEPT ![h] = v]
    BY <1>1, <1>3, <1>5, <2>1, <2>2 DEF put
  <2>4. Given(c, H, d, v)
    BY <1>2, <2>1, <2>2, <2>3, GivenByPut
  <2>5. Kept(e, G)
    BY <1>1, <1>2, <2>3, <2>4, HandleGiven
  <2> QED BY <1>5, <2>5 DEF put
<1>6. ASSUME NEW h \in Handles, NEW other \in Handles, move(h, other)
      PROVE  Kept(e, G) /\ UNCHANGED capacity
  <2>1. h # other /\ e = Released(c, h) /\ G = [H EXCEPT ![h] = H[other], ![other] = NoHandle]
    BY <1>1, <1>3, <1>6 DEF move
  <2>2. Kept(e, G)
    BY <1>1, <1>2, <2>1, HandleMoved
  <2> QED BY <1>6, <2>2 DEF move
<1>7. ASSUME NEW h \in Handles, reset(h)
      PROVE  Kept(e, G) /\ UNCHANGED capacity
  <2>1. e = Released(c, h) /\ G = [H EXCEPT ![h] = NoHandle]
    BY <1>1, <1>3, <1>7 DEF reset
  <2>2. Given(c, H, c, NoHandle)
    BY <1>2, GivenNothing
  <2>3. Kept(e, G)
    BY <1>1, <1>2, <2>1, <2>2, HandleGiven
  <2> QED BY <1>7, <2>3 DEF reset
<1> QED BY <1>3, <1>4, <1>5, <1>6, <1>7

\* The destructor finds no handle: what a handle holds is in in_use.
LEMMA DestroyStep ==
  ASSUME IndInv, destroy
  PROVE  IndInv'
<1>1. PICK c, H : c = lru /\ H = handles
  OBVIOUS
<1>2. Kept(c, H) /\ c.in_use = <<>>
  BY <1>1 DEF IndInv, destroy
<1>3. ASSUME NEW h \in Handles, H[h] # NoHandle
      PROVE  FALSE
  <2>1. PICK n : n = H[h].node
    OBVIOUS
  <2>2. n \in Live(c) /\ RefsOf(H)[n] > 0
    BY <1>2, <1>3, <2>1, HeldNode
  <2>3. n \in ToSet(c.in_use)
    BY <1>2, <2>2 DEF Kept, CacheOK
  <2> QED BY <1>2, <2>3 DEF ToSet
<1>4. lru' = NoNode /\ handles' = handles /\ capacity' = capacity
  BY DEF destroy
<1> QED BY <1>1, <1>3, <1>4 DEF IndInv, Alive

\* A cache after the destructor has no operations.
LEMMA NextOK ==
  ASSUME IndInv, [Next]_vars
  PROVE  IndInv'
<1>1. CASE destroy
  BY <1>1, DestroyStep
<1>2. CASE UNCHANGED vars
  BY <1>2 DEF IndInv, vars, Alive
<1>3. CASE Next /\ ~destroy
  <2>1. Alive
    BY <1>3 DEF Next, get, put, move, reset
  <2>2. Kept(lru', handles') /\ UNCHANGED capacity
    BY <1>3, <2>1, UserStep DEF Next
  <2>3. PICK e, G : e = lru' /\ G = handles'
    OBVIOUS
  <2>4. e \in Caches /\ e # NoNode /\ G \in [Handles -> Guards]
    BY <2>2, <2>3, KeptStep
  <2> QED BY <2>2, <2>3, <2>4 DEF IndInv, Alive
<1> QED BY <1>1, <1>2, <1>3

\* In every state the cache and its handles agree: the map, the two lists,
\* the counts and the handles describe the same nodes.
THEOREM Invariance == Spec => []IndInv
<1>1. Init => IndInv
  BY InitOK
<1>2. IndInv /\ [Next]_vars => IndInv'
  BY NextOK
<1> QED BY <1>1, <1>2, PTL DEF Spec

\* The variables have the types of the members of LRUCache.
THEOREM TypeCorrect == Spec => []TypeOK
<1>1. IndInv => TypeOK
  BY DEF IndInv, TypeOK, Guards
<1> QED BY <1>1, Invariance, PTL

\* RefsCountHandles for every number of keys, handles and capacities: no
\* order of get(), put(), moves, resets and evictions leaves a handle that
\* dangles, a node that leaks or a count that is off.
THEOREM ReferencesCounted == Spec => []RefsCountHandles
<1>1. ASSUME IndInv
      PROVE  RefsCountHandles
  <2>1. CASE ~Alive
    BY <1>1, <2>1 DEF IndInv, RefsCountHandles
  <2>2. CASE Alive
    <3>1. PICK r : r = RefsOf(handles)
      OBVIOUS
    <3>2. Kept(lru, handles) /\ CacheOK(lru, r)
      BY <1>1, <2>2, <3>1 DEF IndInv, Kept
    <3> DEFINE live == {n \in Nodes : lru.nodes[n] # NoEntry}
               holders(n) == {h \in Handles : handles[h].node = n}
    <3>3. live = Live(lru)
      BY DEF Live
    <3>4. ASSUME NEW n \in Live(lru)
          PROVE  /\ lru.cache[lru.nodes[n].key] = n /\ lru.nodes[n].ref = 1 + Cardinality(holders(n))
                 /\ (holders(n) # {} <=> r[n] > 0) /\ (holders(n) = {} <=> r[n] = 0)
      <4>1. n \in Nodes /\ r[n] = Cardinality(holders(n))
        BY <3>1 DEF Live, RefsOf
      <4>2. r[n] \in Nat /\ (r[n] > 0 <=> holders(n) # {})
        BY <3>1, <4>1, RefsType
      <4>3. lru.cache[lru.nodes[n].key] = n /\ lru.nodes[n].ref = 1 + r[n]
        BY <3>2 DEF CacheOK
      <4> QED BY <4>1, <4>2, <4>3
    <3>5. lru.size = Cardinality({k \in Keys : lru.cache[k] # NoNode}) /\ lru.size = Cardinality(live)
      BY <3>2, <3>3, KeysCounted DEF CacheOK
    <3>6. /\ ToSet(lru.in_use) = {n \in live : holders(n) # {}}
          /\ ToSet(lru.not_use) = {n \in live : holders(n) = {}}
      <4>1. ToSet(lru.in_use) = {n \in Live(lru) : r[n] > 0} /\ ToSet(lru.not_use) = {n \in Live(lru) : r[n] = 0}
        BY <3>2 DEF CacheOK
      <4>2. \A n \in Live(lru) : (holders(n) # {} <=> r[n] > 0) /\ (holders(n) = {} <=> r[n] = 0)
        BY <3>4
      <4> HIDE DEF holders
      <4>3. /\ {n \in Live(lru) : r[n] > 0} = {n \in Live(lru) : holders(n) # {}}
            /\ {n \in Live(lru) : r[n] = 0} = {n \in Live(lru) : holders(n) = {}}
        BY <4>2
      <4> HIDE DEF live
      <4> QED BY <3>3, <4>1, <4>3
    <3>7. Len(lru.in_use) + Len(lru.not_use) = lru.size
      BY <3>2, ListsCounted
    <3>8. \A h \in Handles : handles[h] # NoHandle =>
            handles[h].node \in live /\ lru.nodes[handles[h].node].key = handles[h].key
      BY <3>2, <3>3 DEF Kept, Holds
    <3> HIDE DEF live, holders
    <3>9. \A n \in live : lru.cache[lru.nodes[n].key] = n /\ lru.nodes[n].ref = 1 + Cardinality(holders(n))
      BY <3>3, <3>4
    <3> QED BY <2>2, <3>5, <3>6, <3>7, <3>8, <3>9, Zenon DEF RefsCountHandles, live, holders
  <2> QED BY <2>1, <2>2
<1> QED BY <1>1, Invariance, PTL

\* Bounded for every capacity: an entry that put() adds pushes out what the
\* cache has too many, as far as handles allow.
THEOREM CapacityKept == Spec => Bounded
<1> DEFINE Within == \A h \in Handles, key \in Keys :
             put(h, key) /\ capacity > 0 => lru'.size <= Max({capacity, Len(lru.in_use) + 1})
<1>1. ASSUME IndInv
      PROVE  Within
  <2> SUFFICES ASSUME NEW h \in Handles, NEW key \in Keys, put(h, key), capacity > 0
               PROVE  lru'.size <= Max({capacity, Len(lru.in_use) + 1})
    OBVIOUS
  <2>1. PICK c, H : c = lru /\ H = handles
    OBVIOUS
  <2>2. Kept(c, H) /\ capacity \in Nat
    BY <1>1, <2>1 DEF IndInv, put
  <2>3. PICK n : n = Min({m \in Nodes : c.nodes[m] = NoEntry})
    OBVIOUS
  <2>4. PICK d, v, e : /\ d = evict(ref_node(Insert(c, n, key), n)) /\ v = [node |-> n, key |-> key]
                       /\ e = lru'
    OBVIOUS
  <2>5. c.cache[key] = NoNode /\ e = Released(d, h)
    BY <2>1, <2>3, <2>4 DEF put
  <2>6. Given(c, H, d, v) /\ (d.size <= capacity \/ d.size = Len(c.in_use) + 1)
    BY <2>2, <2>3, <2>4, <2>5, GivenByPut
  <2>7. e.size = d.size
    BY <2>1, <2>2, <2>5, <2>6, HandleGiven
  <2>8. PICK a \in Nat, b \in Nat, z \in Nat : a = capacity /\ b = Len(c.in_use) + 1 /\ z = d.size
    <3>1. c \in Caches /\ d \in Caches
      BY <2>2, <2>6 DEF Kept, Given, CacheOK
    <3>2. PICK l \in Nat : l = Len(c.in_use)
      BY <3>1, CacheFields, LenProperties
    <3>3. d.size \in Nat /\ l + 1 \in Nat
      BY <3>1, CacheFields
    <3> QED BY <2>2, <3>2, <3>3
  <2>9. \E x \in {a, b} : \A y \in {a, b} : x >= y
    OBVIOUS
  <2>10. PICK x \in {a, b} : x = Max({a, b}) /\ x >= a /\ x >= b
    BY <2>9, Zenon DEF Max
  <2> QED BY <2>1, <2>4, <2>6, <2>7, <2>8, <2>10
<1>2. IndInv /\ [Next]_vars => [Within]_vars
  BY <1>1
<1> QED BY <1>2, Invariance, PTL DEF Bounded, Spec
=============================================================================
