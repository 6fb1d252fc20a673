------------------------ MODULE ConnectionPoolProofs ------------------------
(***************************************************************************)
(* For every finite set of clients, every set of connections and every     *)
(* configuration the constructor accepts: the pool's counters agree with   *)
(* what its threads do, a connection has one owner, no wakeup is lost, and *)
(* shutdown is final.                                                      *)
(***************************************************************************)
EXTENDS ConnectionPool, FiniteSetTheorems, SequenceTheorems, TLAPS

-----------------------------------------------------------------------------
(* The inductive invariant.                                                *)

CleanerLabels == WarmUpLabels \cup {"clean_wait", "clean", "clean_close", "clean_done"}
CloserLabels == {"running", "shut_join", "shut_wait", "shut_asleep", "shut_close", "shut_down"}

\* Which places each thread can be at.
PlacesOK == /\ \A p \in Clients : pc[p] \in ClientLabels \cup WarmUpLabels
            /\ pc[Cleaner] \in CleanerLabels
            /\ pc[Closer] \in CloserLabels

\* Where a thread has one connection in hand, and where it may have several.
OneLabels == {"created", "check", "publish", "hold", "close_retry", "close_quit",
              "close_release", "warm_add", "warm_close"}
ManyLabels == {"clean_close", "shut_close"}

HeldOK ==
  \A p \in Threads :
    /\ pc[p] \in OneLabels => \E c \in Connections : held[p] = {c}
    /\ pc[p] \notin OneLabels \cup ManyLabels => held[p] = {}

\* SoleOwner, with "no connection is twice in the queue" said of its places.
OwnersOK ==
  /\ \A i, j \in 1 .. Len(idle) : idle[i] = idle[j] => i = j
  /\ \A p \in Threads : held[p] \cap ToSet(idle) = {}
  /\ \A p, q \in Threads : p # q => held[p] \cap held[q] = {}
  /\ \A c : c \in open <=> (c \in ToSet(idle) \/ \E p \in Threads : c \in held[p])

\* How far shutdown() is says what is left of the pool.
ShutOK ==
  /\ pc[Closer] # "running" => shutting_down
  /\ pc[Closer] \in {"shut_close", "shut_down"} => idle = <<>> /\ active = 0
  /\ shutting_down => Asleep(pc) = {}

IndInv == TypeOK /\ PlacesOK /\ HeldOK /\ OwnersOK /\ Accounting /\ ShutOK

-----------------------------------------------------------------------------
(* Sequences without repetition.                                           *)

\* A queue without repetition is as long as it has connections.
LEMMA InjectiveLength ==
  ASSUME NEW s \in Seq(Connections), \A i, j \in 1 .. Len(s) : s[i] = s[j] => i = j
  PROVE  IsFiniteSet(ToSet(s)) /\ Cardinality(ToSet(s)) = Len(s)
<1>1. Len(s) \in Nat /\ DOMAIN s = 1 .. Len(s)
  BY LenProperties
<1>2. s \in Surjection(1 .. Len(s), ToSet(s)) /\ s \in Injection(1 .. Len(s), ToSet(s))
  <2>1. s \in [1 .. Len(s) -> ToSet(s)]
    BY <1>1, LenProperties DEF ToSet
  <2>2. \A c \in ToSet(s) : \E i \in 1 .. Len(s) : s[i] = c
    BY <1>1 DEF ToSet
  <2>3. IsInjective(s)
    BY <1>1 DEF IsInjective
  <2> QED BY <2>1, <2>2, <2>3 DEF Surjection, Injection
<1>3. ExistsBijection(1 .. Len(s), ToSet(s))
  BY <1>2 DEF ExistsBijection, Bijection
<1> QED BY <1>1, <1>3, FS_CountingElements, FS_NatBijection

\* What push_back() adds to the queue.
LEMMA AppendSet ==
  ASSUME NEW s \in Seq(Connections), NEW c \in Connections
  PROVE  /\ Append(s, c) \in Seq(Connections) /\ Len(Append(s, c)) = Len(s) + 1
         /\ ToSet(Append(s, c)) = ToSet(s) \cup {c}
<1>1. Append(s, c) \in Seq(Connections) /\ Len(Append(s, c)) = Len(s) + 1 /\ Len(s) \in Nat
      /\ (\A i \in 1 .. Len(s) : Append(s, c)[i] = s[i]) /\ Append(s, c)[Len(s) + 1] = c
  OBVIOUS
<1>2. DOMAIN Append(s, c) = 1 .. Len(s) + 1 /\ DOMAIN s = 1 .. Len(s)
  BY <1>1, LenProperties
<1>3. \A d : d \in ToSet(Append(s, c)) <=> d \in ToSet(s) \cup {c}
  <2> TAKE d
  <2>1. ASSUME NEW i \in 1 .. Len(s) + 1, d = Append(s, c)[i] PROVE d \in ToSet(s) \cup {c}
    <3>1. CASE i \in 1 .. Len(s)
      BY <1>1, <1>2, <2>1, <3>1 DEF ToSet
    <3>2. CASE i = Len(s) + 1
      BY <1>1, <2>1, <3>2
    <3> QED BY <1>1, <3>1, <3>2
  <2>2. ASSUME NEW i \in 1 .. Len(s), d = s[i] PROVE d \in ToSet(Append(s, c))
    BY <1>1, <1>2, <2>2 DEF ToSet
  <2>3. c \in ToSet(Append(s, c))
    BY <1>1, <1>2 DEF ToSet
  <2> QED BY <1>2, <2>1, <2>2, <2>3 DEF ToSet
<1> QED BY <1>1, <1>3

\* What pop_front() takes from the queue.
LEMMA TailSet ==
  ASSUME NEW s \in Seq(Connections), s # <<>>,
         \A i, j \in 1 .. Len(s) : s[i] = s[j] => i = j
  PROVE  /\ Tail(s) \in Seq(Connections) /\ Len(Tail(s)) = Len(s) - 1
         /\ Head(s) \in Connections
         /\ ToSet(s) = ToSet(Tail(s)) \cup {Head(s)} /\ Head(s) \notin ToSet(Tail(s))
         /\ \A i, j \in 1 .. Len(Tail(s)) : Tail(s)[i] = Tail(s)[j] => i = j
<1>1. Len(s) \in Nat \ {0} /\ Head(s) = s[1] /\ Head(s) \in Connections
      /\ Tail(s) \in Seq(Connections) /\ Len(Tail(s)) = Len(s) - 1
      /\ \A i \in 1 .. Len(s) - 1 : Tail(s)[i] = s[i + 1]
  BY EmptySeq, HeadTailProperties
<1>2. DOMAIN Tail(s) = 1 .. Len(s) - 1 /\ DOMAIN s = 1 .. Len(s)
  BY <1>1, LenProperties
<1>3. \A d : d \in ToSet(s) <=> d \in ToSet(Tail(s)) \cup {Head(s)}
  <2> TAKE d
  <2>1. ASSUME NEW i \in 1 .. Len(s), d = s[i] PROVE d \in ToSet(Tail(s)) \cup {Head(s)}
    <3>1. CASE i = 1
      BY <1>1, <2>1, <3>1
    <3>2. CASE i # 1
      <4>1. i - 1 \in 1 .. Len(s) - 1 /\ (i - 1) + 1 = i
        BY <1>1, <3>2
      <4>2. Tail(s)[i - 1] = d
        BY <1>1, <2>1, <4>1
      <4> QED BY <1>2, <4>1, <4>2 DEF ToSet
    <3> QED BY <3>1, <3>2
  <2>2. ASSUME NEW i \in 1 .. Len(s) - 1, d = Tail(s)[i] PROVE d \in ToSet(s)
    <3>1. i + 1 \in 1 .. Len(s)
      BY <1>1
    <3> QED BY <1>1, <1>2, <2>2, <3>1 DEF ToSet
  <2>3. Head(s) \in ToSet(s)
    BY <1>1, <1>2 DEF ToSet
  <2> QED BY <1>2, <2>1, <2>2, <2>3 DEF ToSet
<1>4. Head(s) \notin ToSet(Tail(s))
  <2> SUFFICES ASSUME NEW i \in 1 .. Len(s) - 1, Tail(s)[i] = Head(s) PROVE FALSE
    BY <1>2 DEF ToSet
  <2>1. i + 1 \in 1 .. Len(s) /\ 1 \in 1 .. Len(s) /\ s[i + 1] = s[1] /\ i + 1 # 1
    BY <1>1
  <2> QED BY <2>1
<1>5. ASSUME NEW i \in 1 .. Len(s) - 1, NEW j \in 1 .. Len(s) - 1, Tail(s)[i] = Tail(s)[j]
      PROVE  i = j
  <2>1. i + 1 \in 1 .. Len(s) /\ j + 1 \in 1 .. Len(s) /\ s[i + 1] = s[j + 1]
    BY <1>1, <1>5
  <2> QED BY <2>1
<1> QED BY <1>1, <1>3, <1>4, <1>5

\* What cleanupIdle() leaves in the queue.
LEMMA RemainingSet ==
  ASSUME idle \in Seq(Connections), \A i, j \in 1 .. Len(idle) : idle[i] = idle[j] => i = j,
         NEW S \in SUBSET ToSet(idle), NEW rest \in Remaining(S)
  PROVE  /\ Cardinality(S) \in 0 .. Len(idle) /\ (Cardinality(S) = 0 <=> S = {})
         /\ rest \in Seq(Connections) /\ Len(rest) = Len(idle) - Cardinality(S)
         /\ ToSet(rest) = ToSet(idle) \ S
         /\ \A i, j \in 1 .. Len(rest) : rest[i] = rest[j] => i = j
<1>1. IsFiniteSet(ToSet(idle)) /\ Cardinality(ToSet(idle)) = Len(idle) /\ Len(idle) \in Nat
      /\ DOMAIN idle = 1 .. Len(idle)
  BY InjectiveLength, LenProperties
<1>2. IsFiniteSet(S) /\ Cardinality(S) \in Nat /\ Cardinality(S) <= Len(idle)
  BY <1>1, FS_Subset, FS_CardinalityType
<1>3. Cardinality(S) = 0 <=> S = {}
  BY <1>2, FS_EmptySet
<1> DEFINE n == Len(idle) - Cardinality(S)
<1>4. n \in Nat
  BY <1>1, <1>2
<1> HIDE DEF n
<1>5. rest \in [1 .. n -> ToSet(idle) \ S]
      /\ \A i, j \in 1 .. n : i < j =>
           \E k, l \in 1 .. Len(idle) : k < l /\ idle[k] = rest[i] /\ idle[l] = rest[j]
  BY <1>1 DEF Remaining, n
<1>6. ToSet(idle) \subseteq Connections
  <2>1. idle \in [1 .. Len(idle) -> Connections]
    BY LenProperties
  <2> QED BY <2>1 DEF ToSet
<1>7. rest \in Seq(Connections) /\ Len(rest) = n /\ DOMAIN rest = 1 .. n
  <2>1. rest \in [1 .. n -> Connections]
    BY <1>5, <1>6
  <2>2. rest \in Seq(Connections)
    BY <1>4, <2>1, SeqDef
  <2> QED BY <1>4, <2>1, <2>2, LenProperties
<1>8. ASSUME NEW i \in 1 .. n, NEW j \in 1 .. n, rest[i] = rest[j], i < j
      PROVE  FALSE
  <2>1. PICK k \in 1 .. Len(idle), l \in 1 .. Len(idle) :
          k < l /\ idle[k] = rest[i] /\ idle[l] = rest[j]
    BY <1>5, <1>8
  <2>2. k = l
    BY <2>1, <1>8
  <2> QED BY <2>1, <2>2, <1>1
<1>9. \A i, j \in 1 .. n : rest[i] = rest[j] => i = j
  BY <1>4, <1>8
<1>10. IsFiniteSet(ToSet(rest)) /\ Cardinality(ToSet(rest)) = n
  BY <1>7, <1>9, InjectiveLength
<1>11. ToSet(rest) \subseteq ToSet(idle) \ S
  BY <1>5, <1>7 DEF ToSet
<1>12. IsFiniteSet(ToSet(idle) \ S) /\ Cardinality(ToSet(idle) \ S) = n
  <2>1. ToSet(idle) \cap S = S
    OBVIOUS
  <2>2. IsFiniteSet(ToSet(idle) \ S)
        /\ Cardinality(ToSet(idle) \ S) = Cardinality(ToSet(idle)) - Cardinality(ToSet(idle) \cap S)
    BY <1>1, FS_Difference, Zenon
  <2> QED BY <1>1, <2>1, <2>2 DEF n
<1>13. ToSet(rest) = ToSet(idle) \ S
  BY <1>10, <1>11, <1>12, FS_Subset
<1> QED BY <1>1, <1>2, <1>3, <1>7, <1>9, <1>13 DEF n

-----------------------------------------------------------------------------
(* Where the threads are.                                                  *)

Labels == ClientLabels \cup WarmUpLabels \cup
            {"clean_wait", "clean", "clean_close", "clean_done", "running", "shut_join",
             "shut_wait", "shut_asleep", "shut_close", "shut_down"}

\* Thread p goes to `label`; meanwhile sleepers may be woken.
Moves(p, label) ==
  /\ pc' \in [Threads -> Labels]
  /\ pc'[p] = label
  /\ \A q \in Threads \ {p} :
       \/ pc'[q] = pc[q]
       \/ pc[q] = "asleep" /\ pc'[q] = "awake"
       \/ q = Closer /\ pc[q] = "shut_asleep" /\ pc'[q] = "shut_wait"

\* The labels whose threads are counted.
Uncounted == {"asleep", "awake", "shut_asleep", "shut_wait"}
CreatorLabels == {"create", "create_failed", "created"}
BorrowerLabels == {"check", "publish", "hold", "close_retry", "retire_retry", "close_quit",
                   "retire_quit"}
WarmerLabels == {"warm_create", "warm_failed", "warm_add"}

\* A thread that goes on moves nobody else.
LEMMA GotoMoves ==
  ASSUME TypeOK, NEW p \in Threads, NEW label \in Labels, pc' = Goto(p, label)
  PROVE  Moves(p, label)
BY DEF TypeOK, Moves, Goto, Labels

\* A thread that notifies goes on and wakes sleepers, which are not counted
\* anywhere.
LEMMA NotifyMoves ==
  ASSUME TypeOK, NEW p \in Threads, NEW label \in Labels, label # "asleep", NEW n,
         \/ pc' = NotifyAll(Goto(p, label))
         \/ pc' \in NotifyOne(Goto(p, label))
         \/ p # Closer /\ pc' \in NotifyOne(NotifyDone(Goto(p, label), n))
  PROVE  Moves(p, label)
<1> USE DEF TypeOK, Moves, Goto, NotifyAll, NotifyOne, NotifyDone, Asleep, Threads
<1>0. "awake" \in Labels /\ "shut_wait" \in Labels
      /\ \A q \in Threads : pc[q] \in Labels
  BY DEF Labels, ClientLabels
<1>1. CASE pc' = NotifyAll(Goto(p, label))
  BY <1>0, <1>1
<1>2. CASE pc' \in NotifyOne(Goto(p, label))
  BY <1>0, <1>2
<1>3. CASE p # Closer /\ pc' \in NotifyOne(NotifyDone(Goto(p, label), n))
  BY <1>0, <1>3
<1> QED BY <1>1, <1>2, <1>3

\* One counted set after such a move.
LEMMA CountMove ==
  ASSUME TypeOK, NEW p \in Threads, NEW label, Moves(p, label),
         NEW L, L \cap Uncounted = {}
  PROVE  /\ Cardinality(At(L)) \in Nat /\ Cardinality(At(L)') \in Nat
         /\ pc[p] \in L => Cardinality(At(L)) >= 1
         /\ Cardinality(At(L)') = Cardinality(At(L)) - (IF pc[p] \in L THEN 1 ELSE 0)
                                                   + (IF label \in L THEN 1 ELSE 0)
<1>1. IsFiniteSet(Threads)
  <2>1. IsFiniteSet((Clients \cup {Cleaner}) \cup {Closer})
    BY ThreadsAssumption, FS_AddElement
  <2>2. Threads = (Clients \cup {Cleaner}) \cup {Closer}
    BY DEF Threads
  <2> QED BY <2>1, <2>2
<1>2. At(L) \in SUBSET Threads /\ At(L)' \in SUBSET Threads
  BY DEF At
<1>3. IsFiniteSet(At(L)) /\ IsFiniteSet(At(L)')
      /\ Cardinality(At(L)) \in Nat /\ Cardinality(At(L)') \in Nat
  BY <1>1, <1>2, FS_Subset, FS_CardinalityType
<1>4. At(L)' = IF label \in L THEN (At(L) \ {p}) \cup {p} ELSE At(L) \ {p}
  BY DEF At, Moves, Uncounted
<1>5. p \in At(L) <=> pc[p] \in L
  BY DEF At
<1>6. IsFiniteSet(At(L) \ {p})
      /\ Cardinality(At(L) \ {p}) = IF pc[p] \in L THEN Cardinality(At(L)) - 1 ELSE Cardinality(At(L))
  BY <1>3, <1>5, FS_RemoveElement
<1>7. Cardinality((At(L) \ {p}) \cup {p}) = Cardinality(At(L) \ {p}) + 1
  BY <1>6, FS_AddElement
<1>8. Cardinality(At(L) \ {p}) \in Nat
  BY <1>6, FS_CardinalityType
<1>9. pc[p] \in L => Cardinality(At(L)) >= 1
  BY <1>3, <1>6, <1>8
<1> QED BY <1>3, <1>4, <1>6, <1>7, <1>8, <1>9

\* The three counted sets, after a step of p.
Delta(p, label, L) == (IF label \in L THEN 1 ELSE 0) - (IF pc[p] \in L THEN 1 ELSE 0)

\* A step of one thread changes how many create, borrow or warm up by what
\* it leaves and enters.
LEMMA Counts ==
  ASSUME TypeOK, NEW p \in Threads, NEW label, Moves(p, label)
  PROVE  /\ Cardinality(Creators) \in Nat /\ Cardinality(Creators') \in Nat
         /\ Cardinality(Borrowers) \in Nat /\ Cardinality(Borrowers') \in Nat
         /\ Cardinality(Warmers) \in Nat /\ Cardinality(Warmers') \in Nat
         /\ pc[p] \in CreatorLabels => Cardinality(Creators) >= 1
         /\ pc[p] \in BorrowerLabels => Cardinality(Borrowers) >= 1
         /\ pc[p] \in WarmerLabels => Cardinality(Warmers) >= 1
         /\ Cardinality(Creators') = Cardinality(Creators) + Delta(p, label, CreatorLabels)
         /\ Cardinality(Borrowers') = Cardinality(Borrowers) + Delta(p, label, BorrowerLabels)
         /\ Cardinality(Warmers') = Cardinality(Warmers) + Delta(p, label, WarmerLabels)
<1>1. /\ Creators = At(CreatorLabels) /\ Creators' = At(CreatorLabels)'
      /\ Borrowers = At(BorrowerLabels) /\ Borrowers' = At(BorrowerLabels)'
      /\ Warmers = At(WarmerLabels) /\ Warmers' = At(WarmerLabels)'
  BY DEF Creators, Borrowers, Warmers, CreatorLabels, BorrowerLabels, WarmerLabels, At
<1>2. CreatorLabels \cap Uncounted = {} /\ BorrowerLabels \cap Uncounted = {}
      /\ WarmerLabels \cap Uncounted = {}
  BY DEF Uncounted, CreatorLabels, BorrowerLabels, WarmerLabels
<1>3. /\ Cardinality(At(CreatorLabels)) \in Nat /\ Cardinality(At(CreatorLabels)') \in Nat
      /\ pc[p] \in CreatorLabels => Cardinality(At(CreatorLabels)) >= 1
      /\ Cardinality(At(CreatorLabels)')
           = Cardinality(At(CreatorLabels)) + Delta(p, label, CreatorLabels)
  BY <1>2, CountMove DEF Delta
<1>4. /\ Cardinality(At(BorrowerLabels)) \in Nat /\ Cardinality(At(BorrowerLabels)') \in Nat
      /\ pc[p] \in BorrowerLabels => Cardinality(At(BorrowerLabels)) >= 1
      /\ Cardinality(At(BorrowerLabels)')
           = Cardinality(At(BorrowerLabels)) + Delta(p, label, BorrowerLabels)
  BY <1>2, CountMove DEF Delta
<1>5. /\ Cardinality(At(WarmerLabels)) \in Nat /\ Cardinality(At(WarmerLabels)') \in Nat
      /\ pc[p] \in WarmerLabels => Cardinality(At(WarmerLabels)) >= 1
      /\ Cardinality(At(WarmerLabels)')
           = Cardinality(At(WarmerLabels)) + Delta(p, label, WarmerLabels)
  BY <1>2, CountMove DEF Delta
<1> QED BY <1>1, <1>3, <1>4, <1>5

\* The changes of the counters agree with those of the sets they count.
Balanced ==
  LET creators == Cardinality(Creators') - Cardinality(Creators)
      borrowers == Cardinality(Borrowers') - Cardinality(Borrowers)
      warmers == Cardinality(Warmers') - Cardinality(Warmers)
  IN /\ active' - active = creators + borrowers
     /\ total' - total = (active' - active) + (Len(idle') - Len(idle)) + warmers
     /\ total' - total = (created' - created) - (destroyed' - destroyed) + creators + warmers

\* The typing facts that sums need.
Sums == /\ total \in Nat /\ active \in Nat /\ created \in Nat /\ destroyed \in Nat
        /\ Len(idle) \in Nat
        /\ Cardinality(Creators) \in Nat /\ Cardinality(Borrowers) \in Nat
        /\ Cardinality(Warmers) \in Nat

\* Accounting survives a step that changes the counters by as much as the
\* places.
LEMMA AccountingStep ==
  ASSUME Sums, Sums', Accounting, Balanced, total' <= max_size
  PROVE  Accounting'
<1> DEFINE t == total t1 == total' a == active a1 == active' l == Len(idle) l1 == Len(idle')
           c == Cardinality(Creators) c1 == Cardinality(Creators')
           b == Cardinality(Borrowers) b1 == Cardinality(Borrowers')
           w == Cardinality(Warmers) w1 == Cardinality(Warmers')
           m == created m1 == created' d == destroyed d1 == destroyed'
<1>1. t \in Nat /\ a \in Nat /\ l \in Nat /\ c \in Nat /\ b \in Nat /\ w \in Nat
      /\ m \in Nat /\ d \in Nat /\ t1 \in Nat /\ a1 \in Nat /\ l1 \in Nat /\ c1 \in Nat
      /\ b1 \in Nat /\ w1 \in Nat /\ m1 \in Nat /\ d1 \in Nat
  BY DEF Sums
<1>2. a = c + b /\ t = a + l + w /\ t = m - d + c + w
  BY DEF Accounting
<1>3. a1 - a = (c1 - c) + (b1 - b) /\ t1 - t = (a1 - a) + (l1 - l) + (w1 - w)
      /\ t1 - t = (m1 - m) - (d1 - d) + (c1 - c) + (w1 - w)
  BY DEF Balanced
<1>4. (a1 = c1 + b1 /\ t1 = a1 + l1 + w1 /\ t1 = m1 - d1 + c1 + w1 /\ t1 <= max_size) => Accounting'
  BY DEF Accounting
<1> HIDE DEF t, t1, a, a1, l, l1, c, c1, b, b1, w, w1, m, m1, d, d1
<1>5. a1 = c1 + b1 /\ t1 = a1 + l1 + w1 /\ t1 = m1 - d1 + c1 + w1
  BY <1>1, <1>2, <1>3
<1>6. t1 <= max_size
  BY DEF t1
<1> QED BY <1>4, <1>5, <1>6

-----------------------------------------------------------------------------
(* Who has the connections.                                                *)

\* Ownership does not change with the places.
LEMMA OwnersKept ==
  ASSUME OwnersOK, UNCHANGED <<idle, held, open>>
  PROVE  OwnersOK'
BY DEF OwnersOK

\* createEntry(): a connection that nobody has.
LEMMA OwnersCreate ==
  ASSUME TypeOK, OwnersOK, NEW p \in Threads, held[p] = {}, NEW c \in Connections, c \notin open,
         open' = open \cup {c}, held' = [held EXCEPT ![p] = {c}], idle' = idle
  PROVE  OwnersOK'
BY DEF TypeOK, OwnersOK

\* closeEntry() closes a connection of its thread.
LEMMA OwnersClose ==
  ASSUME TypeOK, OwnersOK, NEW p \in Threads, NEW c \in held[p],
         open' = open \ {c}, held' = [held EXCEPT ![p] = @ \ {c}], idle' = idle
  PROVE  OwnersOK'
BY DEF TypeOK, OwnersOK

\* A client takes the first idle connection.
LEMMA OwnersTake ==
  ASSUME TypeOK, OwnersOK, NEW p \in Threads, held[p] = {}, idle # <<>>,
         held' = [held EXCEPT ![p] = {Head(idle)}], idle' = Tail(idle), open' = open
  PROVE  OwnersOK'
<1>1. /\ ToSet(idle) = ToSet(idle') \cup {Head(idle)} /\ Head(idle) \notin ToSet(idle')
      /\ \A i, j \in 1 .. Len(idle') : idle'[i] = idle'[j] => i = j
  BY TailSet DEF TypeOK, OwnersOK
<1> QED BY <1>1 DEF TypeOK, OwnersOK

\* release() and warmUp() append a connection of their thread.
LEMMA OwnersReturn ==
  ASSUME TypeOK, OwnersOK, NEW p \in Threads, NEW c \in Connections, held[p] = {c},
         held' = [held EXCEPT ![p] = {}], idle' = Append(idle, c), open' = open
  PROVE  OwnersOK'
<1>1. idle \in Seq(Connections) /\ Len(idle) \in Nat /\ idle' \in Seq(Connections)
      /\ Len(idle') = Len(idle) + 1 /\ ToSet(idle') = ToSet(idle) \cup {c}
  BY AppendSet DEF TypeOK
<1>2. (\A i \in 1 .. Len(idle) : idle'[i] = idle[i]) /\ idle'[Len(idle) + 1] = c
  BY <1>1
<1>3. \A i \in 1 .. Len(idle) : idle[i] # c
  <2>1. DOMAIN idle = 1 .. Len(idle)
    BY <1>1, LenProperties
  <2> QED BY <2>1 DEF OwnersOK, ToSet
<1>4. ASSUME NEW i \in 1 .. Len(idle'), NEW j \in 1 .. Len(idle'), idle'[i] = idle'[j]
      PROVE  i = j
  <2>1. (i \in 1 .. Len(idle) \/ i = Len(idle) + 1) /\ (j \in 1 .. Len(idle) \/ j = Len(idle) + 1)
    BY <1>1
  <2> QED BY <1>2, <1>3, <1>4, <2>1 DEF OwnersOK
<1> QED BY <1>1, <1>4 DEF TypeOK, OwnersOK

\* cleanupIdle() takes the expired connections.
LEMMA OwnersClean ==
  ASSUME TypeOK, OwnersOK, NEW p \in Threads, held[p] = {}, NEW S \in SUBSET ToSet(idle),
         held' = [held EXCEPT ![p] = S], idle' \in Remaining(S), open' = open
  PROVE  OwnersOK'
<1>1. /\ ToSet(idle') = ToSet(idle) \ S
      /\ \A i, j \in 1 .. Len(idle') : idle'[i] = idle'[j] => i = j
  BY RemainingSet DEF TypeOK, OwnersOK
<1> QED BY <1>1 DEF TypeOK, OwnersOK

\* shutdown() swaps the whole queue.
LEMMA OwnersSwap ==
  ASSUME TypeOK, OwnersOK, NEW p \in Threads, held[p] = {},
         held' = [held EXCEPT ![p] = ToSet(idle)], idle' = <<>>, open' = open
  PROVE  OwnersOK'
<1>1. Len(idle') = 0 /\ ToSet(idle') = {}
  BY DEF ToSet
<1> QED BY <1>1 DEF TypeOK, OwnersOK

\* The invariant about owners is SoleOwner.
LEMMA OwnersSole ==
  ASSUME TypeOK, OwnersOK
  PROVE  SoleOwner
<1>1. Cardinality(ToSet(idle)) = Len(idle)
  BY InjectiveLength DEF TypeOK, OwnersOK
<1>2. open = ToSet(idle) \cup UNION {held[p] : p \in Threads}
  BY DEF OwnersOK
<1> QED BY <1>1, <1>2 DEF OwnersOK, SoleOwner

-----------------------------------------------------------------------------
(* The steps of the clients and of the cleaner.                            *)

PlacesOf(p) == IF p = Cleaner THEN CleanerLabels ELSE ClientLabels \cup WarmUpLabels

\* May a thread at `label` have the connections H in hand?
Fits(label, H) == /\ label \in OneLabels => \E c \in Connections : H = {c}
                  /\ label \notin OneLabels \cup ManyLabels => H = {}

Workers == Clients \cup {Cleaner}

\* What holds after any step of a client or the cleaner, from where it goes
\* and what it then has in hand.
LEMMA WorkerStep ==
  ASSUME IndInv, NEW p \in Workers, NEW label \in PlacesOf(p), Moves(p, label),
         NEW H \in SUBSET Connections, held' = [held EXCEPT ![p] = H], Fits(label, H),
         shutting_down' = shutting_down, shutting_down => label # "asleep",
         shutting_down /\ idle = <<>> /\ active = 0 => idle' = <<>> /\ active' = 0
  PROVE  /\ PlacesOK' /\ HeldOK' /\ ShutOK'
         /\ pc' \in [Threads -> Labels] /\ held' \in [Threads -> SUBSET Connections]
<1> USE DEF IndInv
<1>0. p \in Threads /\ p # Closer /\ (\A q \in Threads : held[q] \in SUBSET Connections)
      /\ (\A q \in Clients : q # Cleaner /\ q # Closer)
  BY ThreadsAssumption DEF Workers, Threads, TypeOK
<1>1. PlacesOK'
  <2>1. "awake" \in ClientLabels /\ "shut_wait" \in CloserLabels
        /\ "asleep" \notin CleanerLabels /\ "asleep" \notin CloserLabels
    BY DEF ClientLabels, CloserLabels, CleanerLabels, WarmUpLabels
  <2>2. \A q \in Clients : pc'[q] \in ClientLabels \cup WarmUpLabels
    BY <1>0, <2>1 DEF PlacesOK, PlacesOf, Moves, Threads
  <2>3. pc'[Cleaner] \in CleanerLabels
    BY <1>0, <2>1, ThreadsAssumption DEF PlacesOK, PlacesOf, Moves, Threads
  <2>4. pc'[Closer] \in CloserLabels
    BY <1>0, <2>1 DEF PlacesOK, Moves, Threads
  <2> QED BY <2>2, <2>3, <2>4 DEF PlacesOK
<1>2. pc' \in [Threads -> Labels] /\ held' \in [Threads -> SUBSET Connections]
  BY DEF Moves, TypeOK
<1>3. ASSUME NEW q \in Threads
      PROVE  Fits(pc'[q], held'[q])
  <2>1. CASE q = p
    BY <1>0, <2>1 DEF Moves, TypeOK
  <2>2. CASE q # p
    <3>1. held'[q] = held[q]
      BY <2>2 DEF TypeOK
    <3>2. CASE pc'[q] = pc[q]
      BY <3>1, <3>2 DEF HeldOK, Fits
    <3>3. CASE pc[q] \in Uncounted /\ pc'[q] \in Uncounted
      BY <3>1, <3>3 DEF HeldOK, Fits, OneLabels, ManyLabels, Uncounted
    <3> QED BY <2>2, <3>2, <3>3 DEF Moves, Uncounted
  <2> QED BY <2>1, <2>2
<1>4. HeldOK'
  BY <1>3 DEF HeldOK, Fits
<1>5. ShutOK'
  <2>1. Closer \in Threads \ {p}
    BY <1>0 DEF Threads
  <2>2. pc'[Closer] = pc[Closer] \/ (pc[Closer] # "running" /\ pc'[Closer] = "shut_wait")
    BY <2>1 DEF Moves, PlacesOK, CloserLabels
  <2>3. shutting_down => Asleep(pc)' = {}
    BY <1>0 DEF ShutOK, Asleep, Moves
  <2> QED BY <2>2, <2>3 DEF ShutOK
<1> QED BY <1>1, <1>2, <1>4, <1>5

\* A step that touches neither counters nor connections.
LEMMA QuietStep ==
  ASSUME IndInv, NEW p \in Workers, NEW label \in PlacesOf(p), pc' = Goto(p, label),
         UNCHANGED <<idle, counters, shutting_down, held, env>>,
         Fits(label, held[p]), shutting_down => label # "asleep",
         pc[p] \in CreatorLabels <=> label \in CreatorLabels,
         pc[p] \in BorrowerLabels <=> label \in BorrowerLabels,
         pc[p] \in WarmerLabels <=> label \in WarmerLabels
  PROVE  IndInv'
<1> USE DEF IndInv, counters, env
<1>0. p \in Threads /\ label \in Labels /\ held[p] \in SUBSET Connections
      /\ held' = [held EXCEPT ![p] = held[p]]
  BY DEF Workers, Threads, PlacesOf, CleanerLabels, Labels, TypeOK
<1>1. Moves(p, label)
  BY <1>0, GotoMoves
<1>2. PlacesOK' /\ HeldOK' /\ ShutOK' /\ pc' \in [Threads -> Labels]
  BY <1>0, <1>1, WorkerStep
<1>3. TypeOK'
  BY <1>2 DEF TypeOK, Labels
<1>4. OwnersOK'
  BY OwnersKept
<1>5. Accounting'
  <2>1. /\ Cardinality(Creators') = Cardinality(Creators)
        /\ Cardinality(Borrowers') = Cardinality(Borrowers)
        /\ Cardinality(Warmers') = Cardinality(Warmers)
    BY <1>0, <1>1, Counts DEF Delta
  <2> QED BY <2>1 DEF Accounting
<1> QED BY <1>2, <1>3, <1>4, <1>5

\* Steps of a client that change only where it is.
LEMMA QuietActions ==
  ASSUME IndInv, NEW p \in Clients,
         \/ tryAcquireFor(p) \/ WaitReturns(p) \/ WaitChecks(p) \/ AcquireCheck(p)
         \/ AcquirePublish(p) \/ warmUp(p)
  PROVE  IndInv'
<1>0. p \in Workers /\ PlacesOf(p) = ClientLabels \cup WarmUpLabels /\ p \in Threads
  BY ThreadsAssumption DEF Workers, PlacesOf, Threads
<1>1. PICK label \in ClientLabels \cup WarmUpLabels :
        /\ pc' = Goto(p, label)
        /\ label \in OneLabels <=> pc[p] \in OneLabels
        /\ label \notin ManyLabels /\ pc[p] \notin ManyLabels
        /\ shutting_down => label # "asleep"
        /\ pc[p] \in CreatorLabels <=> label \in CreatorLabels
        /\ pc[p] \in BorrowerLabels <=> label \in BorrowerLabels
        /\ pc[p] \in WarmerLabels <=> label \in WarmerLabels
  <2> USE DEF OneLabels, ManyLabels, CreatorLabels, BorrowerLabels, WarmerLabels, ClientLabels,
              WarmUpLabels
  <2>1. CASE tryAcquireFor(p) \/ warmUp(p)
    BY <2>1 DEF tryAcquireFor, warmUp
  <2>2. CASE WaitReturns(p)
    BY <2>2 DEF WaitReturns
  <2>3. CASE WaitChecks(p)
    <3>1. CASE Ready
      BY <2>3, <3>1 DEF WaitChecks
    <3>2. CASE ~Ready /\ pc[p] = "awake"
      BY <2>3, <3>2 DEF WaitChecks, Ready
    <3>3. CASE ~Ready /\ pc[p] = "expired"
      BY <2>3, <3>3 DEF WaitChecks
    <3> QED BY <2>3, <3>1, <3>2, <3>3 DEF WaitChecks
  <2>4. CASE AcquireCheck(p)
    BY <2>4 DEF AcquireCheck
  <2>5. CASE AcquirePublish(p)
    BY <2>5 DEF AcquirePublish
  <2> QED BY <2>1, <2>2, <2>3, <2>4, <2>5
<1>2. Fits(label, held[p])
  BY <1>0, <1>1 DEF IndInv, HeldOK, Fits
<1>3. UNCHANGED <<idle, counters, shutting_down, held, env>>
  BY DEF tryAcquireFor, WaitReturns, WaitChecks, AcquireCheck, AcquirePublish, warmUp
<1> QED BY <1>0, <1>1, <1>2, <1>3, QuietStep

\* A client is no cleaner and no closer.
LEMMA ClientFacts ==
  ASSUME NEW p \in Clients
  PROVE  p \in Workers /\ p \in Threads /\ p # Closer /\ p # Cleaner
         /\ PlacesOf(p) = ClientLabels \cup WarmUpLabels
BY ThreadsAssumption DEF Workers, PlacesOf, Threads

\* Clients and the cleaner are the threads that warm up.
LEMMA WorkerFacts ==
  ASSUME NEW p \in Workers
  PROVE  /\ p \in Threads /\ p # Closer /\ WarmUpLabels \subseteq PlacesOf(p)
         /\ PlacesOf(p) \subseteq Labels
         /\ AfterWarmUp(p) \in PlacesOf(p) \cap Labels /\ AfterWarmUp(p) \in {"out", "clean_wait"}
BY ThreadsAssumption
   DEF Workers, PlacesOf, Threads, CleanerLabels, Labels, AfterWarmUp, ClientLabels

\* The first section of tryAcquireFor() keeps the invariant.
LEMMA AcquireLockedInv ==
  ASSUME IndInv, NEW p \in Clients, AcquireLocked(p)
  PROVE  IndInv'
<1> USE DEF IndInv
<1>0. p \in Workers /\ p \in Threads /\ PlacesOf(p) = ClientLabels \cup WarmUpLabels
      /\ pc[p] = "lock" /\ held[p] = {}
  BY ClientFacts DEF AcquireLocked, HeldOK, OneLabels, ManyLabels
<1>1. CASE (shutting_down /\ pc' = Goto(p, "out")) \/ (~Ready /\ pc' = Goto(p, "asleep"))
  <2>1. PICK label \in {"out", "asleep"} : pc' = Goto(p, label) /\ (shutting_down => label # "asleep")
    BY <1>1 DEF Ready
  <2>2. UNCHANGED <<idle, counters, shutting_down, held, env>>
    BY <1>0, <1>1, <2>1 DEF AcquireLocked, counters, env, Ready, TypeOK, Goto
  <2>3. label \in PlacesOf(p) /\ Fits(label, held[p])
    BY <1>0, <2>1 DEF ClientLabels, Fits, OneLabels
  <2> QED BY <1>0, <2>1, <2>2, <2>3, QuietStep
          DEF CreatorLabels, BorrowerLabels, WarmerLabels
<1>2. CASE /\ ~shutting_down /\ idle # <<>>
           /\ held' = [held EXCEPT ![p] = {Head(idle)}]
           /\ idle' = Tail(idle)
           /\ active' = active + 1
           /\ pc' = Goto(p, "check")
           /\ UNCHANGED <<total, created, destroyed, shutting_down, env>>
  <2>1. "check" \in PlacesOf(p) /\ "check" \in Labels
    BY <1>0 DEF ClientLabels, Labels
  <2>2. Moves(p, "check")
    BY <1>0, <1>2, <2>1, GotoMoves
  <2>3. idle' \in Seq(Connections) /\ Len(idle') = Len(idle) - 1 /\ Head(idle) \in Connections
    BY <1>2, TailSet DEF TypeOK, OwnersOK
  <2>4. Fits("check", {Head(idle)})
    BY <2>3 DEF Fits, OneLabels
  <2>5. PlacesOK' /\ HeldOK' /\ ShutOK' /\ pc' \in [Threads -> Labels]
        /\ held' \in [Threads -> SUBSET Connections]
    BY <1>0, <1>2, <2>1, <2>2, <2>3, <2>4, WorkerStep
  <2>6. OwnersOK'
    BY <1>0, <1>2, OwnersTake DEF env
  <2>7. TypeOK'
    BY <1>2, <2>3, <2>5 DEF TypeOK, Labels, env
  <2>8. /\ Cardinality(Creators') = Cardinality(Creators)
        /\ Cardinality(Borrowers') = Cardinality(Borrowers) + 1
        /\ Cardinality(Warmers') = Cardinality(Warmers)
        /\ Cardinality(Creators) \in Nat /\ Cardinality(Borrowers) \in Nat
        /\ Cardinality(Warmers) \in Nat
    BY <1>0, <2>2, Counts DEF Delta, CreatorLabels, BorrowerLabels, WarmerLabels
  <2>9. Accounting'
    <3>1. Sums /\ Sums'
      BY <1>0, <2>2, <2>7, Counts DEF Sums, TypeOK
    <3>2. Balanced
      BY <1>2, <2>3, <2>8, <3>1 DEF Balanced, Sums
    <3>3. total' <= max_size
      BY <1>2 DEF Accounting
    <3> QED BY <3>1, <3>2, <3>3, AccountingStep
  <2> QED BY <2>5, <2>6, <2>7, <2>9
<1>3. CASE /\ ~shutting_down /\ idle = <<>> /\ total < max_size
           /\ total' = total + 1 /\ active' = active + 1
           /\ pc' = Goto(p, "create")
           /\ UNCHANGED <<idle, held, created, destroyed, shutting_down, env>>
  <2>1. "create" \in PlacesOf(p) /\ "create" \in Labels
    BY <1>0 DEF ClientLabels, Labels
  <2>2. Moves(p, "create")
    BY <1>0, <1>3, <2>1, GotoMoves
  <2>3. held' = [held EXCEPT ![p] = {}] /\ Fits("create", {}) /\ {} \in SUBSET Connections
    BY <1>0, <1>3 DEF TypeOK, Fits, OneLabels
  <2>4. PlacesOK' /\ HeldOK' /\ ShutOK' /\ pc' \in [Threads -> Labels]
    BY <1>0, <1>3, <2>1, <2>2, <2>3, WorkerStep
  <2>5. OwnersOK'
    BY <1>3, OwnersKept DEF env
  <2>6. TypeOK'
    BY <1>3, <2>4 DEF TypeOK, Labels, env
  <2>7. /\ Cardinality(Creators') = Cardinality(Creators) + 1
        /\ Cardinality(Borrowers') = Cardinality(Borrowers)
        /\ Cardinality(Warmers') = Cardinality(Warmers)
        /\ Cardinality(Creators) \in Nat /\ Cardinality(Borrowers) \in Nat
        /\ Cardinality(Warmers) \in Nat
    BY <1>0, <2>2, Counts DEF Delta, CreatorLabels, BorrowerLabels, WarmerLabels
  <2>8. Accounting'
    <3>1. Sums /\ Sums'
      BY <1>0, <2>2, <2>6, Counts DEF Sums, TypeOK
    <3>2. Balanced
      BY <1>3, <2>7, <3>1 DEF Balanced, Sums
    <3>3. total' <= max_size
      BY <1>3, ConfigAssumption DEF TypeOK
    <3> QED BY <3>1, <3>2, <3>3, AccountingStep
  <2> QED BY <2>4, <2>5, <2>6, <2>8
<1> QED BY <1>1, <1>2, <1>3 DEF AcquireLocked

\* createEntry() by a thread that has reserved a slot.
LEMMA CreateEntryInv ==
  ASSUME IndInv, NEW p \in Workers, NEW made_it \in Labels, NEW failed \in Labels,
         \/ p \in Clients /\ pc[p] = "create" /\ made_it = "created" /\ failed = "create_failed"
         \/ pc[p] = "warm_create" /\ made_it = "warm_add" /\ failed = "warm_failed",
         createEntry(p, made_it, failed), UNCHANGED <<idle, counters, shutting_down>>
  PROVE  IndInv'
<1> USE DEF IndInv, counters, env
<1>0. p \in Threads /\ held[p] = {} /\ made_it \in PlacesOf(p) /\ failed \in PlacesOf(p)
  BY WorkerFacts, ClientFacts
     DEF HeldOK, OneLabels, ManyLabels, ClientLabels, WarmUpLabels
<1> DEFINE Kept(label) == /\ pc[p] \in CreatorLabels <=> label \in CreatorLabels
                          /\ pc[p] \in BorrowerLabels <=> label \in BorrowerLabels
                          /\ pc[p] \in WarmerLabels <=> label \in WarmerLabels
                          /\ label # "asleep"
<1>1. Kept(made_it) /\ Kept(failed) /\ made_it \in OneLabels /\ failed \notin OneLabels
  BY DEF CreatorLabels, BorrowerLabels, WarmerLabels, OneLabels
<1>2. CASE pc' = Goto(p, failed) /\ UNCHANGED <<held, env>>
  <2>1. Fits(failed, held[p])
    BY <1>0, <1>1 DEF Fits
  <2> QED BY <1>0, <1>1, <1>2, <2>1, QuietStep
<1>3. ASSUME NEW c \in Connections \ open, made' = made + 1, open' = open \cup {c},
             held' = [held EXCEPT ![p] = {c}], pc' = Goto(p, made_it)
      PROVE  IndInv'
  <2>1. Moves(p, made_it)
    BY <1>0, <1>3, GotoMoves
  <2>2. Fits(made_it, {c})
    BY <1>1, <1>3 DEF Fits, OneLabels, ManyLabels
  <2>3. PlacesOK' /\ HeldOK' /\ ShutOK' /\ pc' \in [Threads -> Labels]
        /\ held' \in [Threads -> SUBSET Connections]
    BY <1>0, <1>1, <1>3, <2>1, <2>2, WorkerStep
  <2>4. OwnersOK'
    BY <1>0, <1>3, OwnersCreate
  <2>5. TypeOK'
    BY <1>3, <2>3 DEF TypeOK, Labels
  <2>6. /\ Cardinality(Creators') = Cardinality(Creators)
        /\ Cardinality(Borrowers') = Cardinality(Borrowers)
        /\ Cardinality(Warmers') = Cardinality(Warmers)
    <3>1. /\ Delta(p, made_it, CreatorLabels) = 0 /\ Delta(p, made_it, BorrowerLabels) = 0
          /\ Delta(p, made_it, WarmerLabels) = 0
      BY <1>1 DEF Delta
    <3> QED BY <1>0, <2>1, <3>1, Counts
  <2>7. Accounting'
    BY <2>6 DEF Accounting
  <2> QED BY <2>3, <2>4, <2>5, <2>7
<1> QED BY <1>2, <1>3 DEF createEntry

\* closeEntry() of a client or the cleaner, outside the lock.
LEMMA CloseEntryInv ==
  ASSUME IndInv, NEW p \in Workers, NEW label \in PlacesOf(p), closeEntry(p, label),
         pc[p] \in OneLabels \cup ManyLabels, label \notin OneLabels \cup ManyLabels, label # "asleep",
         pc[p] \in CreatorLabels <=> label \in CreatorLabels,
         pc[p] \in BorrowerLabels <=> label \in BorrowerLabels,
         pc[p] \in WarmerLabels <=> label \in WarmerLabels
  PROVE  IndInv'
<1> USE DEF IndInv, counters, env
<1>0. p \in Threads /\ PlacesOf(p) \subseteq Labels /\ pc[p] \in PlacesOf(p)
  BY WorkerFacts DEF PlacesOK, PlacesOf, Workers
<1>1. PICK c \in held[p] :
        /\ open' = open \ {c}
        /\ held' = [held EXCEPT ![p] = @ \ {c}]
        /\ pc' = Goto(p, IF held[p] = {c} THEN label ELSE pc[p])
        /\ UNCHANGED <<idle, counters, shutting_down, made>>
  BY DEF closeEntry
<1> DEFINE next == IF held[p] = {c} THEN label ELSE pc[p]
           H == held[p] \ {c}
<1>2. next \in PlacesOf(p) /\ next \in Labels /\ next # "asleep" /\ pc' = Goto(p, next)
      /\ held' = [held EXCEPT ![p] = H] /\ H \in SUBSET Connections
  BY <1>0, <1>1 DEF TypeOK, OneLabels, ManyLabels
<1>3. Fits(next, H)
  <2>1. CASE held[p] = {c}
    BY <2>1 DEF Fits
  <2>2. CASE held[p] # {c}
    <3>1. pc[p] \notin OneLabels
      BY <1>0, <2>2 DEF HeldOK
    <3> QED BY <2>2, <3>1 DEF Fits
  <2> QED BY <2>1, <2>2
<1>4. /\ pc[p] \in CreatorLabels <=> next \in CreatorLabels
      /\ pc[p] \in BorrowerLabels <=> next \in BorrowerLabels
      /\ pc[p] \in WarmerLabels <=> next \in WarmerLabels
  OBVIOUS
<1> HIDE DEF next, H
<1>5. Moves(p, next)
  BY <1>0, <1>2, GotoMoves
<1>6. PlacesOK' /\ HeldOK' /\ ShutOK' /\ pc' \in [Threads -> Labels]
      /\ held' \in [Threads -> SUBSET Connections]
  BY <1>1, <1>2, <1>3, <1>5, WorkerStep
<1>7. OwnersOK'
  BY <1>0, <1>1, OwnersClose
<1>8. TypeOK'
  BY <1>1, <1>6 DEF TypeOK, Labels
<1>9. /\ Cardinality(Creators') = Cardinality(Creators)
      /\ Cardinality(Borrowers') = Cardinality(Borrowers)
      /\ Cardinality(Warmers') = Cardinality(Warmers)
  BY <1>0, <1>4, <1>5, Counts DEF Delta
<1>10. Accounting'
  BY <1>1, <1>9 DEF Accounting
<1> QED BY <1>6, <1>7, <1>8, <1>10

\* What Accounting says about one thread: a place in a call is a slot that
\* is counted.
LEMMA SumsHold ==
  ASSUME IndInv
  PROVE  /\ Sums
         /\ total >= Len(idle)
         /\ active = 0 => Borrowers = {}
         /\ \A p \in Threads : pc[p] \in CreatorLabels \cup BorrowerLabels => active >= 1 /\ total >= 1
         /\ \A p \in Threads : pc[p] \in WarmerLabels => total >= 1
<1> DEFINE c == Cardinality(Creators) b == Cardinality(Borrowers) w == Cardinality(Warmers)
           l == Len(idle)
<1>1. IsFiniteSet(Threads)
  <2>1. IsFiniteSet((Clients \cup {Cleaner}) \cup {Closer})
    BY ThreadsAssumption, FS_AddElement
  <2>2. Threads = (Clients \cup {Cleaner}) \cup {Closer}
    BY DEF Threads
  <2> QED BY <2>1, <2>2
<1>2. Creators \subseteq Threads /\ Borrowers \subseteq Threads /\ Warmers \subseteq Threads
  BY DEF Creators, Borrowers, Warmers, At
<1>3. IsFiniteSet(Creators) /\ IsFiniteSet(Borrowers) /\ IsFiniteSet(Warmers)
      /\ c \in Nat /\ b \in Nat /\ w \in Nat
  BY <1>1, <1>2, FS_Subset, FS_CardinalityType
<1>4. (c = 0 <=> Creators = {}) /\ (b = 0 <=> Borrowers = {}) /\ (w = 0 <=> Warmers = {})
  BY <1>3, FS_EmptySet
<1>5. Sums
  BY <1>3 DEF IndInv, TypeOK, Sums
<1>6. active = c + b /\ total = active + l + w /\ l \in Nat /\ active \in Nat /\ total \in Nat
  BY DEF IndInv, Accounting, TypeOK
<1>7. ASSUME NEW p \in Threads
      PROVE  /\ pc[p] \in CreatorLabels => Creators # {}
             /\ pc[p] \in BorrowerLabels => Borrowers # {}
             /\ pc[p] \in WarmerLabels => Warmers # {}
  BY DEF Creators, Borrowers, Warmers, At, CreatorLabels, BorrowerLabels, WarmerLabels
<1> HIDE DEF c, b, w, l
<1>8. total >= l /\ (active = 0 => b = 0)
      /\ (c # 0 \/ b # 0 => active >= 1 /\ total >= 1) /\ (w # 0 => total >= 1)
  BY <1>3, <1>6
<1>9. ASSUME NEW p \in Threads
      PROVE  /\ pc[p] \in CreatorLabels \cup BorrowerLabels => active >= 1 /\ total >= 1
             /\ pc[p] \in WarmerLabels => total >= 1
  BY <1>4, <1>7, <1>8
<1> QED BY <1>4, <1>5, <1>8, <1>9 DEF l

\* The parts of the invariant together, after a step of a client or the
\* cleaner that has been shown to keep the books and the owners.
LEMMA WorkerInv ==
  ASSUME IndInv, NEW p \in Workers, NEW label \in PlacesOf(p), Moves(p, label),
         NEW H \in SUBSET Connections, held' = [held EXCEPT ![p] = H], Fits(label, H),
         shutting_down' = shutting_down, label # "asleep",
         shutting_down /\ idle = <<>> /\ active = 0 => idle' = <<>> /\ active' = 0,
         OwnersOK', idle' \in Seq(Connections), env' = env,
         total' \in Nat /\ active' \in Nat /\ created' \in Nat /\ destroyed' \in Nat,
         Balanced, total' <= max_size
  PROVE  IndInv'
<1> USE DEF IndInv
<1>1. PlacesOK' /\ HeldOK' /\ ShutOK' /\ pc' \in [Threads -> Labels]
      /\ held' \in [Threads -> SUBSET Connections]
  BY WorkerStep
<1>2. TypeOK'
  BY <1>1 DEF TypeOK, Labels, env
<1>3. p \in Threads
  BY WorkerFacts
<1>4. Sums /\ Sums'
  BY <1>2, <1>3, Counts DEF Sums, TypeOK
<1>5. Accounting'
  BY <1>4, AccountingStep
<1> QED BY <1>1, <1>2, <1>5

\* A factory that fails gives its slot back.
LEMMA AcquireCreateFailedInv ==
  ASSUME IndInv, NEW p \in Clients, AcquireCreateFailed(p)
  PROVE  IndInv'
<1> USE DEF AcquireCreateFailed
<1>0. p \in Workers /\ p \in Threads /\ p # Closer /\ "out" \in PlacesOf(p) /\ "out" \in Labels
  BY ClientFacts DEF ClientLabels, Labels
<1>1. Moves(p, "out")
  BY <1>0, NotifyMoves DEF IndInv
<1>2. held' = [held EXCEPT ![p] = {}] /\ Fits("out", {})
  BY <1>0 DEF IndInv, TypeOK, HeldOK, Fits, OneLabels, ManyLabels
<1>3. Sums /\ active >= 1 /\ total >= 1 /\ total <= max_size
  BY <1>0, SumsHold DEF CreatorLabels, IndInv, Accounting
<1>4. OwnersOK' /\ idle' \in Seq(Connections) /\ env' = env
  BY OwnersKept DEF IndInv, TypeOK, env
<1>5. /\ Cardinality(Creators') = Cardinality(Creators) - 1
      /\ Cardinality(Borrowers') = Cardinality(Borrowers)
      /\ Cardinality(Warmers') = Cardinality(Warmers)
  BY <1>0, <1>1, Counts DEF IndInv, Delta, CreatorLabels, BorrowerLabels, WarmerLabels
<1>6. Balanced
  BY <1>3, <1>5 DEF Balanced, Sums
<1>7. total' \in Nat /\ active' \in Nat /\ created' \in Nat /\ destroyed' \in Nat
      /\ total' <= max_size /\ active # 0
  BY <1>3, ConfigAssumption DEF Sums
<1> QED BY <1>0, <1>1, <1>2, <1>4, <1>6, <1>7, WorkerInv

\* A created connection is counted.
LEMMA AcquireCreatedInv ==
  ASSUME IndInv, NEW p \in Clients, AcquireCreated(p)
  PROVE  IndInv'
<1> USE DEF AcquireCreated
<1>0. p \in Workers /\ p \in Threads /\ "publish" \in PlacesOf(p) /\ "publish" \in Labels
  BY ClientFacts DEF ClientLabels, Labels
<1>1. Moves(p, "publish")
  BY <1>0, GotoMoves DEF IndInv
<1>2. held' = [held EXCEPT ![p] = held[p]] /\ Fits("publish", held[p])
      /\ held[p] \in SUBSET Connections
  BY <1>0 DEF IndInv, TypeOK, HeldOK, Fits, OneLabels, ManyLabels
<1>3. Sums /\ total <= max_size
  BY SumsHold DEF IndInv, Accounting
<1>4. OwnersOK' /\ idle' \in Seq(Connections) /\ env' = env
  BY OwnersKept DEF IndInv, TypeOK, env
<1>5. /\ Cardinality(Creators') = Cardinality(Creators) - 1
      /\ Cardinality(Borrowers') = Cardinality(Borrowers) + 1
      /\ Cardinality(Warmers') = Cardinality(Warmers)
  BY <1>0, <1>1, Counts DEF IndInv, Delta, CreatorLabels, BorrowerLabels, WarmerLabels
<1>6. Balanced
  BY <1>3, <1>5 DEF Balanced, Sums
<1>7. total' \in Nat /\ active' \in Nat /\ created' \in Nat /\ destroyed' \in Nat
  BY <1>3 DEF Sums
<1> QED BY <1>0, <1>1, <1>2, <1>3, <1>4, <1>6, <1>7, WorkerInv

\* retireActive() counts a closed connection.
LEMMA RetireActiveInv ==
  ASSUME IndInv, NEW p \in Clients, RetireActive(p)
  PROVE  IndInv'
<1> USE DEF RetireActive
<1> DEFINE label == IF pc[p] = "retire_retry" THEN "lock" ELSE "out"
<1>0. p \in Workers /\ p \in Threads /\ p # Closer /\ label \in PlacesOf(p) /\ label \in Labels
      /\ label \in {"lock", "out"}
  BY ClientFacts DEF ClientLabels, Labels
<1>1. pc' \in NotifyOne(NotifyDone(Goto(p, label), active - 1))
  OBVIOUS
<1> HIDE DEF label
<1>2. Moves(p, label)
  BY <1>0, <1>1, NotifyMoves DEF IndInv
<1>3. held' = [held EXCEPT ![p] = {}] /\ Fits(label, {})
  BY <1>0 DEF IndInv, TypeOK, HeldOK, Fits, OneLabels, ManyLabels
<1>4. Sums /\ active >= 1 /\ total >= 1 /\ total <= max_size
  BY <1>0, SumsHold DEF BorrowerLabels, IndInv, Accounting
<1>5. OwnersOK' /\ idle' \in Seq(Connections) /\ env' = env
  BY OwnersKept DEF IndInv, TypeOK, env
<1>6. /\ Cardinality(Creators') = Cardinality(Creators)
      /\ Cardinality(Borrowers') = Cardinality(Borrowers) - 1
      /\ Cardinality(Warmers') = Cardinality(Warmers)
  BY <1>0, <1>2, Counts DEF IndInv, Delta, CreatorLabels, BorrowerLabels, WarmerLabels
<1>7. Balanced
  BY <1>4, <1>6 DEF Balanced, Sums
<1>8. total' \in Nat /\ active' \in Nat /\ created' \in Nat /\ destroyed' \in Nat
      /\ total' <= max_size /\ active # 0
  BY <1>4, ConfigAssumption DEF Sums
<1> QED BY <1>0, <1>2, <1>3, <1>5, <1>7, <1>8, WorkerInv

\* release() keeps the invariant, whether it returns or retires its
\* connection.
LEMMA ReleaseInv ==
  ASSUME IndInv, NEW p \in Clients, release(p)
  PROVE  IndInv'
<1>0. p \in Workers /\ p \in Threads /\ p # Closer /\ pc[p] = "hold" /\ active' = active - 1
      /\ "out" \in PlacesOf(p) /\ "close_release" \in PlacesOf(p)
      /\ "out" \in Labels /\ "close_release" \in Labels
      /\ UNCHANGED <<created, shutting_down, env>>
  BY ClientFacts DEF release, ClientLabels, Labels
<1>1. Sums /\ active >= 1 /\ total >= 1 /\ total <= max_size
  BY <1>0, SumsHold DEF BorrowerLabels, IndInv, Accounting
<1>2. PICK c \in Connections : held[p] = {c}
  BY <1>0 DEF IndInv, HeldOK, OneLabels
<1>3. CASE /\ total' = total - 1 /\ destroyed' = destroyed + 1
           /\ pc' \in NotifyOne(NotifyDone(Goto(p, "close_release"), active - 1))
           /\ UNCHANGED <<idle, held>>
  <2>1. Moves(p, "close_release")
    BY <1>0, <1>3, NotifyMoves DEF IndInv
  <2>2. held' = [held EXCEPT ![p] = {c}] /\ Fits("close_release", {c}) /\ {c} \in SUBSET Connections
    BY <1>0, <1>2, <1>3 DEF IndInv, TypeOK, Fits, OneLabels
  <2>3. OwnersOK' /\ idle' \in Seq(Connections) /\ env' = env
    BY <1>0, <1>3, OwnersKept DEF IndInv, TypeOK, env
  <2>4. /\ Cardinality(Creators') = Cardinality(Creators)
        /\ Cardinality(Borrowers') = Cardinality(Borrowers) - 1
        /\ Cardinality(Warmers') = Cardinality(Warmers)
    BY <1>0, <2>1, Counts DEF IndInv, Delta, CreatorLabels, BorrowerLabels, WarmerLabels
  <2>5. Balanced
    BY <1>0, <1>1, <1>3, <2>4 DEF Balanced, Sums
  <2>6. total' \in Nat /\ active' \in Nat /\ created' \in Nat /\ destroyed' \in Nat
        /\ total' <= max_size /\ active # 0
    BY <1>0, <1>1, <1>3, ConfigAssumption DEF Sums
  <2> QED BY <1>0, <2>1, <2>2, <2>3, <2>5, <2>6, WorkerInv
<1>4. CASE /\ ~shutting_down
           /\ \E d \in held[p] : idle' = Append(idle, d)
           /\ held' = [held EXCEPT ![p] = {}]
           /\ pc' \in NotifyOne(NotifyDone(Goto(p, "out"), active - 1))
           /\ UNCHANGED <<total, destroyed>>
  <2>1. Moves(p, "out")
    BY <1>0, <1>4, NotifyMoves DEF IndInv
  <2>2. Fits("out", {})
    BY DEF Fits, OneLabels
  <2>3. idle' = Append(idle, c)
    BY <1>2, <1>4
  <2>4. OwnersOK' /\ env' = env
    BY <1>0, <1>2, <1>4, <2>3, OwnersReturn DEF IndInv, env
  <2>5. idle' \in Seq(Connections) /\ Len(idle') = Len(idle) + 1
    BY <2>3, AppendSet DEF IndInv, TypeOK
  <2>6. /\ Cardinality(Creators') = Cardinality(Creators)
        /\ Cardinality(Borrowers') = Cardinality(Borrowers) - 1
        /\ Cardinality(Warmers') = Cardinality(Warmers)
    BY <1>0, <2>1, Counts DEF IndInv, Delta, CreatorLabels, BorrowerLabels, WarmerLabels
  <2>7. Balanced
    BY <1>0, <1>1, <1>4, <2>5, <2>6 DEF Balanced, Sums
  <2>8. total' \in Nat /\ active' \in Nat /\ created' \in Nat /\ destroyed' \in Nat
        /\ total' <= max_size /\ active # 0
    BY <1>0, <1>1, <1>4, ConfigAssumption DEF Sums
  <2> QED BY <1>0, <1>4, <2>1, <2>2, <2>4, <2>5, <2>7, <2>8, WorkerInv
<1> QED BY <1>3, <1>4 DEF release

\* warmUp() reserves a slot below min_idle.
LEMMA WarmUpReserveInv ==
  ASSUME IndInv, NEW p \in Workers, WarmUpReserve(p)
  PROVE  IndInv'
<1>0. p \in Threads /\ pc[p] = "warm" /\ held[p] = {} /\ "warm_create" \in PlacesOf(p)
      /\ "warm_create" \in Labels /\ AfterWarmUp(p) \in PlacesOf(p)
      /\ AfterWarmUp(p) \in {"out", "clean_wait"}
      /\ UNCHANGED <<idle, active, created, destroyed, shutting_down, held, env>>
  BY WorkerFacts DEF WarmUpReserve, IndInv, HeldOK, OneLabels, ManyLabels, WarmUpLabels, Labels
<1>1. CASE pc' = Goto(p, AfterWarmUp(p)) /\ UNCHANGED total
  <2>1. Fits(AfterWarmUp(p), held[p])
    BY <1>0 DEF Fits, OneLabels
  <2>2. UNCHANGED <<idle, counters, shutting_down, held, env>>
    BY <1>0, <1>1 DEF counters
  <2> QED BY <1>0, <1>1, <2>1, <2>2, QuietStep DEF CreatorLabels, BorrowerLabels, WarmerLabels
<1>2. CASE ~shutting_down /\ total < max_size /\ total' = total + 1 /\ pc' = Goto(p, "warm_create")
  <2>1. Moves(p, "warm_create")
    BY <1>0, <1>2, GotoMoves DEF IndInv
  <2>2. held' = [held EXCEPT ![p] = {}] /\ Fits("warm_create", {})
    BY <1>0 DEF IndInv, TypeOK, Fits, OneLabels
  <2>3. OwnersOK' /\ idle' \in Seq(Connections) /\ env' = env
    BY <1>0, OwnersKept DEF IndInv, TypeOK, env
  <2>4. /\ Cardinality(Creators') = Cardinality(Creators)
        /\ Cardinality(Borrowers') = Cardinality(Borrowers)
        /\ Cardinality(Warmers') = Cardinality(Warmers) + 1
    BY <1>0, <2>1, Counts DEF IndInv, Delta, CreatorLabels, BorrowerLabels, WarmerLabels
  <2>5. Sums
    BY SumsHold
  <2>6. Balanced
    BY <1>0, <1>2, <2>4, <2>5 DEF Balanced, Sums
  <2>7. total' \in Nat /\ active' \in Nat /\ created' \in Nat /\ destroyed' \in Nat
        /\ total' <= max_size
    BY <1>0, <1>2, <2>5, ConfigAssumption DEF Sums
  <2> QED BY <1>0, <1>2, <2>1, <2>2, <2>3, <2>6, <2>7, WorkerInv
<1> QED BY <1>1, <1>2 DEF WarmUpReserve

\* A factory that fails gives the slot of warmUp() back.
LEMMA WarmUpFailedInv ==
  ASSUME IndInv, NEW p \in Workers, WarmUpFailed(p)
  PROVE  IndInv'
<1> USE DEF WarmUpFailed
<1>0. p \in Threads /\ AfterWarmUp(p) \in PlacesOf(p) /\ AfterWarmUp(p) \in Labels
      /\ AfterWarmUp(p) \in {"out", "clean_wait"}
  BY WorkerFacts
<1>1. Moves(p, AfterWarmUp(p))
  BY <1>0, NotifyMoves DEF IndInv
<1>2. held' = [held EXCEPT ![p] = {}] /\ Fits(AfterWarmUp(p), {})
  BY <1>0 DEF IndInv, TypeOK, HeldOK, Fits, OneLabels, ManyLabels
<1>3. Sums /\ total >= 1 /\ total <= max_size
  BY <1>0, SumsHold DEF WarmerLabels, IndInv, Accounting
<1>4. OwnersOK' /\ idle' \in Seq(Connections) /\ env' = env
  BY OwnersKept DEF IndInv, TypeOK, env
<1>5. /\ Cardinality(Creators') = Cardinality(Creators)
      /\ Cardinality(Borrowers') = Cardinality(Borrowers)
      /\ Cardinality(Warmers') = Cardinality(Warmers) - 1
  BY <1>0, <1>1, Counts DEF IndInv, Delta, CreatorLabels, BorrowerLabels, WarmerLabels
<1>6. Balanced
  BY <1>3, <1>5 DEF Balanced, Sums
<1>7. total' \in Nat /\ active' \in Nat /\ created' \in Nat /\ destroyed' \in Nat
      /\ total' <= max_size
  BY <1>3, ConfigAssumption DEF Sums
<1> QED BY <1>0, <1>1, <1>2, <1>4, <1>6, <1>7, WorkerInv

\* warmUp() adds its connection, or closes it during shutdown.
LEMMA WarmUpAddInv ==
  ASSUME IndInv, NEW p \in Workers, WarmUpAdd(p)
  PROVE  IndInv'
<1>0. p \in Threads /\ pc[p] = "warm_add" /\ "warm" \in PlacesOf(p) /\ "warm_close" \in PlacesOf(p)
      /\ "warm" \in Labels /\ "warm_close" \in Labels
      /\ UNCHANGED <<active, destroyed, shutting_down, env>>
  BY WorkerFacts DEF WarmUpAdd, WarmUpLabels, Labels
<1>1. Sums /\ total >= 1 /\ total <= max_size
  BY <1>0, SumsHold DEF WarmerLabels, IndInv, Accounting
<1>2. PICK c \in Connections : held[p] = {c}
  BY <1>0 DEF IndInv, HeldOK, OneLabels
<1>3. CASE total' = total - 1 /\ pc' = Goto(p, "warm_close") /\ UNCHANGED <<idle, created, held>>
  <2>1. Moves(p, "warm_close")
    BY <1>0, <1>3, GotoMoves DEF IndInv
  <2>2. held' = [held EXCEPT ![p] = {c}] /\ Fits("warm_close", {c}) /\ {c} \in SUBSET Connections
    BY <1>0, <1>2, <1>3 DEF IndInv, TypeOK, Fits, OneLabels
  <2>3. OwnersOK' /\ idle' \in Seq(Connections) /\ env' = env
    BY <1>0, <1>3, OwnersKept DEF IndInv, TypeOK, env
  <2>4. /\ Cardinality(Creators') = Cardinality(Creators)
        /\ Cardinality(Borrowers') = Cardinality(Borrowers)
        /\ Cardinality(Warmers') = Cardinality(Warmers) - 1
    BY <1>0, <2>1, Counts DEF IndInv, Delta, CreatorLabels, BorrowerLabels, WarmerLabels
  <2>5. Balanced
    BY <1>0, <1>1, <1>3, <2>4 DEF Balanced, Sums
  <2>6. total' \in Nat /\ active' \in Nat /\ created' \in Nat /\ destroyed' \in Nat
        /\ total' <= max_size
    BY <1>0, <1>1, <1>3, ConfigAssumption DEF Sums
  <2> QED BY <1>0, <1>3, <2>1, <2>2, <2>3, <2>5, <2>6, WorkerInv
<1>4. CASE /\ ~shutting_down
           /\ created' = created + 1
           /\ \E d \in held[p] : idle' = Append(idle, d)
           /\ held' = [held EXCEPT ![p] = {}]
           /\ pc' \in NotifyOne(Goto(p, "warm"))
           /\ UNCHANGED total
  <2>1. Moves(p, "warm")
    BY <1>0, <1>4, NotifyMoves DEF IndInv
  <2>2. Fits("warm", {})
    BY DEF Fits, OneLabels
  <2>3. idle' = Append(idle, c)
    BY <1>2, <1>4
  <2>4. OwnersOK' /\ env' = env
    BY <1>0, <1>2, <1>4, <2>3, OwnersReturn DEF IndInv, env
  <2>5. idle' \in Seq(Connections) /\ Len(idle') = Len(idle) + 1
    BY <2>3, AppendSet DEF IndInv, TypeOK
  <2>6. /\ Cardinality(Creators') = Cardinality(Creators)
        /\ Cardinality(Borrowers') = Cardinality(Borrowers)
        /\ Cardinality(Warmers') = Cardinality(Warmers) - 1
    BY <1>0, <2>1, Counts DEF IndInv, Delta, CreatorLabels, BorrowerLabels, WarmerLabels
  <2>7. Balanced
    BY <1>0, <1>1, <1>4, <2>5, <2>6 DEF Balanced, Sums
  <2>8. total' \in Nat /\ active' \in Nat /\ created' \in Nat /\ destroyed' \in Nat
        /\ total' <= max_size
    BY <1>0, <1>1, <1>4 DEF Sums
  <2> QED BY <1>0, <1>4, <2>1, <2>2, <2>4, <2>5, <2>7, <2>8, WorkerInv
<1> QED BY <1>3, <1>4 DEF WarmUpAdd

\* cleanupIdle() keeps the invariant.
LEMMA CleanupIdleInv ==
  ASSUME IndInv, cleanupIdle
  PROVE  IndInv'
<1>0. Cleaner \in Workers /\ Cleaner \in Threads /\ Cleaner # Closer /\ pc[Cleaner] = "clean"
      /\ held[Cleaner] = {} /\ UNCHANGED <<active, created, shutting_down, env>>
      /\ PlacesOf(Cleaner) = CleanerLabels
  BY ThreadsAssumption
     DEF Workers, Threads, PlacesOf, cleanupIdle, IndInv, HeldOK, OneLabels, ManyLabels
<1>1. PICK S \in SUBSET ToSet(idle) :
        /\ idle' \in Remaining(S)
        /\ total' = total - Cardinality(S)
        /\ destroyed' = destroyed + Cardinality(S)
        /\ held' = [held EXCEPT ![Cleaner] = S]
        /\ pc' = IF S = {} THEN Goto(Cleaner, "warm") ELSE NotifyAll(Goto(Cleaner, "clean_close"))
  BY DEF cleanupIdle
<1> DEFINE label == IF S = {} THEN "warm" ELSE "clean_close"
<1>2. label \in PlacesOf(Cleaner) /\ label \in Labels /\ label \in {"warm", "clean_close"}
      /\ (label # "clean_close" => S = {})
  BY <1>0 DEF CleanerLabels, WarmUpLabels, Labels
<1>3. Moves(Cleaner, label)
  <2>1. CASE S = {}
    BY <1>0, <1>1, <1>2, <2>1, GotoMoves DEF IndInv
  <2>2. CASE S # {}
    BY <1>0, <1>1, <1>2, <2>2, NotifyMoves DEF IndInv
  <2> QED BY <2>1, <2>2
<1> HIDE DEF label
<1>4. /\ Cardinality(S) \in 0 .. Len(idle)
      /\ idle' \in Seq(Connections) /\ Len(idle') = Len(idle) - Cardinality(S)
      /\ ToSet(idle) = {} => S = {}
  BY <1>1, RemainingSet DEF IndInv, TypeOK, OwnersOK
<1>5. S \in SUBSET Connections
  <2>1. idle \in [1 .. Len(idle) -> Connections] /\ DOMAIN idle = 1 .. Len(idle)
    BY LenProperties DEF IndInv, TypeOK
  <2> QED BY <2>1 DEF ToSet
<1>6. Fits(label, S)
  BY <1>2 DEF Fits, OneLabels, ManyLabels
<1>7. OwnersOK' /\ env' = env
  BY <1>0, <1>1, OwnersClean DEF IndInv, env
<1>8. Sums /\ total >= Len(idle) /\ total <= max_size
  BY SumsHold DEF IndInv, Accounting
<1>9. /\ Cardinality(Creators') = Cardinality(Creators)
      /\ Cardinality(Borrowers') = Cardinality(Borrowers)
      /\ Cardinality(Warmers') = Cardinality(Warmers)
  BY <1>0, <1>2, <1>3, Counts DEF IndInv, Delta, CreatorLabels, BorrowerLabels, WarmerLabels
<1>10. Balanced
  <2> DEFINE n == Cardinality(S)
  <2>1. n \in Int /\ Len(idle') = Len(idle) - n /\ total' = total - n /\ destroyed' = destroyed + n
    BY <1>1, <1>4, <1>8 DEF Sums
  <2> HIDE DEF n
  <2>2. total' - total = -n /\ Len(idle') - Len(idle) = -n /\ destroyed' - destroyed = n
    BY <1>8, <2>1 DEF Sums
  <2> QED BY <1>0, <1>8, <1>9, <2>1, <2>2 DEF Balanced, Sums
<1>11. total' \in Nat /\ active' \in Nat /\ created' \in Nat /\ destroyed' \in Nat
       /\ total' <= max_size
  BY <1>0, <1>1, <1>4, <1>8, ConfigAssumption DEF Sums
<1>12. idle = <<>> => idle' = <<>>
  BY <1>4
<1> QED BY <1>0, <1>1, <1>2, <1>3, <1>4, <1>5, <1>6, <1>7, <1>10, <1>11, <1>12, WorkerInv

-----------------------------------------------------------------------------
(* The steps of the thread in shutdown().                                  *)

\* A step of shutdown() moves no client.
LEMMA CloserStep ==
  ASSUME IndInv, NEW label \in CloserLabels, Moves(Closer, label),
         NEW H \in SUBSET Connections, held' = [held EXCEPT ![Closer] = H], Fits(label, H)
  PROVE  /\ PlacesOK' /\ HeldOK'
         /\ pc' \in [Threads -> Labels] /\ held' \in [Threads -> SUBSET Connections]
         /\ Cardinality(Creators') = Cardinality(Creators)
         /\ Cardinality(Borrowers') = Cardinality(Borrowers)
         /\ Cardinality(Warmers') = Cardinality(Warmers)
         /\ Asleep(pc) = {} => Asleep(pc)' = {}
<1> USE DEF IndInv
<1>0. Closer \in Threads /\ Cleaner \in Threads /\ Cleaner # Closer
      /\ \A q \in Clients : q \in Threads /\ q # Closer
  BY ThreadsAssumption DEF Threads
<1>1. PlacesOK'
  <2>1. "awake" \in ClientLabels /\ "asleep" \notin CleanerLabels
    BY DEF ClientLabels, CleanerLabels, WarmUpLabels
  <2>2. \A q \in Clients : pc'[q] \in ClientLabels \cup WarmUpLabels
    BY <1>0, <2>1 DEF PlacesOK, Moves
  <2>3. pc'[Cleaner] \in CleanerLabels
    BY <1>0, <2>1 DEF PlacesOK, Moves
  <2> QED BY <2>2, <2>3 DEF PlacesOK, Moves
<1>2. pc' \in [Threads -> Labels] /\ held' \in [Threads -> SUBSET Connections]
  BY DEF Moves, TypeOK
<1>3. ASSUME NEW q \in Threads
      PROVE  Fits(pc'[q], held'[q])
  <2>1. CASE q = Closer
    BY <2>1 DEF Moves, TypeOK
  <2>2. CASE q # Closer
    <3>1. held'[q] = held[q]
      BY <2>2 DEF TypeOK
    <3>2. CASE pc'[q] = pc[q]
      BY <3>1, <3>2 DEF HeldOK, Fits
    <3>3. CASE pc[q] \in Uncounted /\ pc'[q] \in Uncounted
      BY <3>1, <3>3 DEF HeldOK, Fits, OneLabels, ManyLabels, Uncounted
    <3> QED BY <2>2, <3>2, <3>3 DEF Moves, Uncounted
  <2> QED BY <2>1, <2>2
<1>4. HeldOK'
  BY <1>3 DEF HeldOK, Fits
<1>5. \A L \in {CreatorLabels, BorrowerLabels, WarmerLabels} : Delta(Closer, label, L) = 0
  BY DEF PlacesOK, CloserLabels, CreatorLabels, BorrowerLabels, WarmerLabels, Delta
<1>6. /\ Cardinality(Creators') = Cardinality(Creators)
      /\ Cardinality(Borrowers') = Cardinality(Borrowers)
      /\ Cardinality(Warmers') = Cardinality(Warmers)
  BY <1>0, <1>5, Counts
<1>7. Asleep(pc) = {} => Asleep(pc)' = {}
  BY DEF Asleep, Moves, CloserLabels
<1> QED BY <1>1, <1>2, <1>4, <1>6, <1>7

\* shutdown() joins and waits.
LEMMA CloserQuietInv ==
  ASSUME IndInv, shutdown \/ ShutdownJoin \/ ShutdownSleep \/ ShutdownSpurious
  PROVE  IndInv'
<1> USE DEF IndInv, counters, env
<1>0. Closer \in Threads /\ held[Closer] = {} /\ UNCHANGED <<idle, counters, held, env>>
  BY DEF shutdown, ShutdownJoin, ShutdownSleep, ShutdownSpurious, HeldOK, OneLabels, ManyLabels,
         Threads
<1>1. PICK label \in {"shut_join", "shut_wait", "shut_asleep"} :
        /\ Moves(Closer, label)
        /\ label = "shut_join" => shutting_down' = TRUE /\ pc' = NotifyAll(Goto(Closer, label))
        /\ label # "shut_join" => shutting_down' = shutting_down /\ pc[Closer] # "running"
  <2> USE DEF TypeOK, Labels
  <2>0. \A label \in {"shut_join", "shut_wait", "shut_asleep"} : label \in Labels /\ label # "asleep"
    BY DEF Labels
  <2>1. CASE shutdown
    <3>1. Moves(Closer, "shut_join")
      BY <1>0, <2>0, <2>1, NotifyMoves DEF shutdown
    <3> QED BY <2>1, <3>1 DEF shutdown
  <2>2. CASE ShutdownJoin \/ ShutdownSpurious
    <3>1. Moves(Closer, "shut_wait")
      BY <1>0, <2>0, <2>2, GotoMoves DEF ShutdownJoin, ShutdownSpurious
    <3> QED BY <2>2, <3>1 DEF ShutdownJoin, ShutdownSpurious
  <2>3. CASE ShutdownSleep
    <3>1. Moves(Closer, "shut_asleep")
      BY <1>0, <2>0, <2>3, GotoMoves DEF ShutdownSleep
    <3> QED BY <2>3, <3>1 DEF ShutdownSleep
  <2> QED BY <2>1, <2>2, <2>3
<1>2. held' = [held EXCEPT ![Closer] = {}] /\ Fits(label, {}) /\ label \in CloserLabels
  BY <1>0, <1>1 DEF TypeOK, Fits, OneLabels, CloserLabels
<1>3. /\ PlacesOK' /\ HeldOK' /\ pc' \in [Threads -> Labels]
      /\ Cardinality(Creators') = Cardinality(Creators)
      /\ Cardinality(Borrowers') = Cardinality(Borrowers)
      /\ Cardinality(Warmers') = Cardinality(Warmers)
      /\ Asleep(pc) = {} => Asleep(pc)' = {}
  BY <1>1, <1>2, CloserStep
<1>4. TypeOK'
  <2>1. shutting_down' \in BOOLEAN
    BY <1>1 DEF TypeOK
  <2> QED BY <1>0, <1>3, <2>1 DEF TypeOK, Labels
<1>5. OwnersOK'
  BY <1>0, OwnersKept
<1>6. Accounting'
  BY <1>0, <1>3 DEF Accounting
<1>7. ShutOK'
  <2>1. pc'[Closer] = label
    BY <1>1 DEF Moves
  <2>2. CASE label = "shut_join"
    <3>1. Asleep(pc)' = {}
      BY <1>1, <2>2 DEF Asleep, NotifyAll
    <3> QED BY <1>1, <2>1, <2>2, <3>1 DEF ShutOK
  <2>3. CASE label # "shut_join"
    BY <1>1, <1>3, <2>1, <2>3 DEF ShutOK
  <2> QED BY <2>2, <2>3
<1> QED BY <1>3, <1>4, <1>5, <1>6, <1>7

\* shutdown() takes the queue once nobody borrows.
LEMMA ShutdownSwapInv ==
  ASSUME IndInv, ShutdownSwap
  PROVE  IndInv'
<1> USE DEF IndInv
<1>0. Closer \in Threads /\ held[Closer] = {} /\ pc[Closer] = "shut_wait" /\ active = 0
  BY DEF ShutdownSwap, HeldOK, OneLabels, ManyLabels, Threads
<1> DEFINE label == IF idle = <<>> THEN "shut_down" ELSE "shut_close"
<1>1. label \in CloserLabels /\ label \in Labels /\ label \in {"shut_down", "shut_close"}
      /\ pc' = Goto(Closer, label) /\ (label = "shut_down" => idle = <<>>)
  BY DEF ShutdownSwap, CloserLabels, Labels
<1> HIDE DEF label
<1>2. Moves(Closer, label)
  BY <1>0, <1>1, GotoMoves
<1>3. ToSet(idle) \in SUBSET Connections /\ (idle = <<>> => ToSet(idle) = {})
  <2>1. idle \in [1 .. Len(idle) -> Connections] /\ DOMAIN idle = 1 .. Len(idle)
    BY LenProperties DEF TypeOK
  <2> QED BY <2>1 DEF ToSet
<1>4. held' = [held EXCEPT ![Closer] = ToSet(idle)] /\ Fits(label, ToSet(idle))
  BY <1>1, <1>3 DEF ShutdownSwap, Fits, OneLabels, ManyLabels
<1>5. /\ PlacesOK' /\ HeldOK' /\ pc' \in [Threads -> Labels]
      /\ held' \in [Threads -> SUBSET Connections]
      /\ Cardinality(Creators') = Cardinality(Creators)
      /\ Cardinality(Borrowers') = Cardinality(Borrowers)
      /\ Cardinality(Warmers') = Cardinality(Warmers)
      /\ Asleep(pc) = {} => Asleep(pc)' = {}
  BY <1>1, <1>2, <1>3, <1>4, CloserStep
<1>6. OwnersOK'
  BY <1>0, OwnersSwap DEF ShutdownSwap, env
<1>7. Sums /\ total >= Len(idle) /\ total <= max_size
  BY SumsHold DEF Accounting
<1>8. idle' \in Seq(Connections) /\ Len(idle') = 0 /\ total' \in Nat /\ active' = active
      /\ created' = created /\ destroyed' \in Nat /\ shutting_down' = shutting_down
      /\ total' = total - Len(idle) /\ destroyed' = destroyed + Len(idle) /\ total' <= max_size
  BY <1>7, ConfigAssumption DEF ShutdownSwap, Sums
<1>9. TypeOK'
  BY <1>5, <1>8 DEF TypeOK, Labels, ShutdownSwap, env
<1>10. Balanced
  <2> DEFINE n == Len(idle)
  <2>1. n \in Int /\ Len(idle') - n = -n /\ total' - total = -n /\ destroyed' - destroyed = n
    BY <1>7, <1>8 DEF Sums
  <2> HIDE DEF n
  <2>2. Len(idle') - Len(idle) = -n
    BY <2>1 DEF n
  <2> QED BY <1>5, <1>7, <1>8, <2>1, <2>2 DEF Balanced, Sums
<1>11. Accounting'
  <2>1. Sums'
    BY <1>5, <1>7, <1>9 DEF Sums, TypeOK
  <2> QED BY <1>7, <1>8, <1>10, <2>1, AccountingStep
<1>12. ShutOK'
  BY <1>0, <1>5, <1>8 DEF ShutOK, ShutdownSwap
<1> QED BY <1>5, <1>6, <1>9, <1>11, <1>12

\* shutdown() closes what it took.
LEMMA ShutdownCloseInv ==
  ASSUME IndInv, ShutdownClose
  PROVE  IndInv'
<1> USE DEF IndInv, counters, env
<1>0. Closer \in Threads /\ pc[Closer] = "shut_close"
  BY DEF ShutdownClose, Threads
<1>1. PICK c \in held[Closer] :
        /\ open' = open \ {c}
        /\ held' = [held EXCEPT ![Closer] = @ \ {c}]
        /\ pc' = Goto(Closer, IF held[Closer] = {c} THEN "shut_down" ELSE pc[Closer])
        /\ UNCHANGED <<idle, counters, shutting_down, made>>
  BY DEF ShutdownClose, closeEntry
<1> DEFINE label == IF held[Closer] = {c} THEN "shut_down" ELSE "shut_close"
           H == held[Closer] \ {c}
<1>2. label \in CloserLabels /\ label \in Labels /\ label \in {"shut_down", "shut_close"}
      /\ pc' = Goto(Closer, label) /\ held' = [held EXCEPT ![Closer] = H]
      /\ H \in SUBSET Connections /\ Fits(label, H)
  BY <1>0, <1>1 DEF CloserLabels, Labels, TypeOK, Fits, OneLabels, ManyLabels
<1> HIDE DEF label, H
<1>3. Moves(Closer, label)
  BY <1>0, <1>2, GotoMoves
<1>4. /\ PlacesOK' /\ HeldOK' /\ pc' \in [Threads -> Labels]
      /\ held' \in [Threads -> SUBSET Connections]
      /\ Cardinality(Creators') = Cardinality(Creators)
      /\ Cardinality(Borrowers') = Cardinality(Borrowers)
      /\ Cardinality(Warmers') = Cardinality(Warmers)
      /\ Asleep(pc) = {} => Asleep(pc)' = {}
  BY <1>2, <1>3, CloserStep
<1>5. OwnersOK'
  BY <1>0, <1>1, OwnersClose
<1>6. TypeOK'
  BY <1>1, <1>4 DEF TypeOK, Labels
<1>7. Accounting'
  BY <1>1, <1>4 DEF Accounting
<1>8. ShutOK'
  BY <1>0, <1>1, <1>4 DEF ShutOK
<1> QED BY <1>4, <1>5, <1>6, <1>7, <1>8

-----------------------------------------------------------------------------
\* A new pool satisfies the invariant.
LEMMA InitInv == Init => IndInv
<1> SUFFICES ASSUME Init PROVE IndInv
  OBVIOUS
<1> USE DEF Init
<1>1. TypeOK
  <2>1. shutting_down \in BOOLEAN
    OBVIOUS
  <2>2. idle \in Seq(Connections)
    BY EmptySeq
  <2>3. pc \in [Threads -> Labels]
    BY DEF Labels, ClientLabels
  <2> QED BY <2>1, <2>2, <2>3 DEF TypeOK, Labels
<1>2. PlacesOK /\ HeldOK
  BY ThreadsAssumption
     DEF PlacesOK, HeldOK, Threads, ClientLabels, CleanerLabels, CloserLabels, OneLabels
<1>3. OwnersOK
  <2>1. Len(idle) = 0 /\ ToSet(idle) = {}
    BY DEF ToSet
  <2> QED BY <2>1 DEF OwnersOK
<1>4. Accounting
  <2>1. Creators = {} /\ Borrowers = {} /\ Warmers = {}
    BY DEF Creators, Borrowers, Warmers, At
  <2> QED BY <2>1, FS_EmptySet, ConfigAssumption DEF Accounting
<1>5. ShutOK
  BY ThreadsAssumption DEF ShutOK, Threads
<1> QED BY <1>1, <1>2, <1>3, <1>4, <1>5 DEF IndInv

\* What warmUp() does, for a client and for the cleaner.
LEMMA WarmUpInv ==
  ASSUME IndInv, NEW p \in Workers, WarmUpStep(p)
  PROVE  IndInv'
<1>1. CASE WarmUpCreate(p)
  <2>1. "warm_add" \in Labels /\ "warm_failed" \in Labels
    BY DEF Labels, WarmUpLabels
  <2> QED BY <1>1, <2>1, CreateEntryInv DEF WarmUpCreate
<1>2. CASE WarmUpClose(p)
  <2>1. "warm" \in PlacesOf(p)
    BY WorkerFacts DEF WarmUpLabels
  <2> QED BY <1>2, <2>1, CloseEntryInv
          DEF WarmUpClose, OneLabels, ManyLabels, CreatorLabels, BorrowerLabels, WarmerLabels
<1> QED BY <1>1, <1>2, WarmUpReserveInv, WarmUpFailedInv, WarmUpAddInv DEF WarmUpStep

\* Every step of acquire() and release() keeps the invariant.
LEMMA ClientInv ==
  ASSUME IndInv, NEW p \in Clients, AcquireStep(p) \/ ReleaseStep(p)
  PROVE  IndInv'
<1>0. p \in Workers /\ PlacesOf(p) = ClientLabels \cup WarmUpLabels
  BY ClientFacts
<1>1. CASE AcquireCreate(p)
  <2>1. "created" \in Labels /\ "create_failed" \in Labels
    BY DEF Labels, ClientLabels
  <2> QED BY <1>0, <1>1, <2>1, CreateEntryInv DEF AcquireCreate
<1>2. CASE RetireClose(p) \/ ReleaseClose(p)
  <2>1. \A label \in {"retire_retry", "retire_quit", "out"} : label \in PlacesOf(p)
    BY <1>0 DEF ClientLabels
  <2> USE DEF RetireClose, ReleaseClose, OneLabels, ManyLabels, CreatorLabels, BorrowerLabels,
              WarmerLabels
  <2>2. CASE pc[p] = "close_retry" /\ closeEntry(p, "retire_retry")
    BY <1>0, <2>1, <2>2, CloseEntryInv
  <2>3. CASE pc[p] = "close_quit" /\ closeEntry(p, "retire_quit")
    BY <1>0, <2>1, <2>3, CloseEntryInv
  <2>4. CASE pc[p] = "close_release" /\ closeEntry(p, "out")
    BY <1>0, <2>1, <2>4, CloseEntryInv
  <2> QED BY <1>2, <2>2, <2>3, <2>4
<1> QED BY <1>1, <1>2, AcquireLockedInv, QuietActions, AcquireCreateFailedInv, AcquireCreatedInv,
           RetireActiveInv, ReleaseInv
        DEF AcquireStep, ReleaseStep

\* Every step of the cleaner keeps the invariant.
LEMMA CleanerInv ==
  ASSUME IndInv, CleanerStep
  PROVE  IndInv'
<1>0. Cleaner \in Workers /\ PlacesOf(Cleaner) = CleanerLabels
      /\ Cleaner \in Threads
  BY DEF Workers, PlacesOf, Threads
<1>1. CASE CleanerWait
  <2>1. PICK label \in {"clean", "clean_done"} : pc' = Goto(Cleaner, label)
    BY <1>1 DEF CleanerWait
  <2>2. held[Cleaner] = {} /\ Fits(label, held[Cleaner]) /\ label \in PlacesOf(Cleaner)
    BY <1>0, <1>1
       DEF CleanerWait, IndInv, HeldOK, Fits, OneLabels, ManyLabels, CleanerLabels
  <2> QED BY <1>0, <1>1, <2>1, <2>2, QuietStep
          DEF CleanerWait, CreatorLabels, BorrowerLabels, WarmerLabels
<1>2. CASE CleanerClose
  <2>1. "warm" \in PlacesOf(Cleaner)
    BY <1>0 DEF CleanerLabels, WarmUpLabels
  <2> QED BY <1>0, <1>2, <2>1, CloseEntryInv
          DEF CleanerClose, OneLabels, ManyLabels, CreatorLabels, BorrowerLabels, WarmerLabels
<1> QED BY <1>0, <1>1, <1>2, CleanupIdleInv, WarmUpInv DEF CleanerStep

\* The invariant is inductive.
LEMMA StepInv == IndInv /\ [Next]_vars => IndInv'
<1> SUFFICES ASSUME IndInv, [Next]_vars PROVE IndInv'
  OBVIOUS
<1>1. CASE UNCHANGED vars
  BY <1>1 DEF vars, counters, env, IndInv, TypeOK, PlacesOK, HeldOK, OwnersOK, Accounting, ShutOK,
              Creators, Borrowers, Warmers, At, Asleep
<1>2. ASSUME NEW p \in Clients, WarmUpStep(p)
      PROVE  IndInv'
  BY <1>2, ClientFacts, WarmUpInv
<1> QED BY <1>1, <1>2, ClientInv, QuietActions, CleanerInv, CloserQuietInv, ShutdownSwapInv,
           ShutdownCloseInv
        DEF Next, ShutdownStep

-----------------------------------------------------------------------------
(* No wakeup is lost.                                                      *)

\* Threads that will look at the pool again before they sleep, and the
\* connections or slots there are for them.
WakerLabels == {"awake", "expired", "lock"}
Spare == Len(idle) + (max_size - total)

\* NoLostWakeup by what is spare and who is awake.
LEMMA NoLostWakeupIs ==
  NoLostWakeup <=> (Asleep(pc) # {} => Spare <= Cardinality(At(WakerLabels)))
BY DEF NoLostWakeup, Spare, WakerLabels

\* A thread that moves takes at most itself from the wakers, and nothing if
\* it was not one of them or stays one.
LEMMA WakersMove ==
  ASSUME TypeOK, NEW p \in Threads, NEW label, Moves(p, label)
  PROVE  /\ Cardinality(At(WakerLabels)) \in Nat /\ Cardinality(At(WakerLabels)') \in Nat
         /\ Cardinality(At(WakerLabels)) <= Cardinality(At(WakerLabels)') + 1
         /\ pc[p] \notin WakerLabels \/ label \in WakerLabels =>
              /\ At(WakerLabels) \subseteq At(WakerLabels)'
              /\ Cardinality(At(WakerLabels)) <= Cardinality(At(WakerLabels)')
         /\ IsFiniteSet(At(WakerLabels)) /\ IsFiniteSet(At(WakerLabels)')
<1> DEFINE W == At(WakerLabels)
<1>1. IsFiniteSet(Threads)
  <2>1. IsFiniteSet((Clients \cup {Cleaner}) \cup {Closer})
    BY ThreadsAssumption, FS_AddElement
  <2>2. Threads = (Clients \cup {Cleaner}) \cup {Closer}
    BY DEF Threads
  <2> QED BY <2>1, <2>2
<1>2. IsFiniteSet(W) /\ IsFiniteSet(W') /\ Cardinality(W) \in Nat /\ Cardinality(W') \in Nat
  <2>1. W \subseteq Threads /\ W' \subseteq Threads
    BY DEF At
  <2> QED BY <1>1, <2>1, FS_Subset, FS_CardinalityType
<1>3. W \subseteq W' \cup {p}
  BY DEF At, Moves, WakerLabels
<1>4. pc[p] \notin WakerLabels \/ label \in WakerLabels => W \subseteq W'
  BY DEF At, Moves, WakerLabels
<1>5. IsFiniteSet(W' \cup {p}) /\ Cardinality(W' \cup {p}) <= Cardinality(W') + 1
  <2>1. IsFiniteSet(W' \cup {p})
        /\ Cardinality(W' \cup {p}) = IF p \in W' THEN Cardinality(W') ELSE Cardinality(W') + 1
    BY <1>2, FS_AddElement
  <2> QED BY <1>2, <2>1
<1>6. Cardinality(W) <= Cardinality(W' \cup {p}) /\ Cardinality(W' \cup {p}) \in Nat
  BY <1>3, <1>5, FS_Subset, FS_CardinalityType
<1>7. W \subseteq W' => Cardinality(W) <= Cardinality(W')
  BY <1>2, FS_Subset
<1> HIDE DEF W
<1>8. Cardinality(W) <= Cardinality(W') + 1
  BY <1>2, <1>5, <1>6
<1> QED BY <1>2, <1>4, <1>7, <1>8 DEF W

\* notify_one() adds a waker, or there is no sleeper left to wake.
LEMMA WakersNotify ==
  ASSUME TypeOK, NEW p \in Threads, NEW label \in Labels, label # "asleep",
         pc[p] \notin WakerLabels, NEW n,
         \/ pc' \in NotifyOne(Goto(p, label))
         \/ p # Closer /\ pc' \in NotifyOne(NotifyDone(Goto(p, label), n))
  PROVE  \/ Asleep(pc)' = {}
         \/ Cardinality(At(WakerLabels)') >= Cardinality(At(WakerLabels)) + 1
<1>1. Moves(p, label)
  BY NotifyMoves
<1> DEFINE W == At(WakerLabels)
<1>2. IsFiniteSet(W) /\ IsFiniteSet(W') /\ W \subseteq W' /\ Cardinality(W) \in Nat
  BY <1>1, WakersMove
<1>3. PICK f : /\ f = Goto(p, label) \/ (p # Closer /\ f = NotifyDone(Goto(p, label), n))
               /\ pc' \in NotifyOne(f)
  OBVIOUS
<1>4. CASE Asleep(f) = {}
  BY <1>3, <1>4 DEF NotifyOne, Asleep
<1>5. CASE Asleep(f) # {}
  <2>1. PICK q \in Threads : f[q] = "asleep" /\ pc' = [f EXCEPT ![q] = "awake"]
    BY <1>3, <1>5 DEF NotifyOne, Asleep
  <2>2. f \in [Threads -> Labels]
    <3>1. Goto(p, label) \in [Threads -> Labels] /\ "shut_wait" \in Labels
      BY DEF TypeOK, Goto, Labels
    <3> QED BY <1>3, <3>1 DEF NotifyDone
  <2>3. q # p /\ pc[q] = "asleep"
    BY <1>3, <2>1 DEF TypeOK, Goto, NotifyDone, Threads
  <2>4. pc'[q] = "awake"
    BY <2>1, <2>2
  <2>5. q \notin W /\ W \cup {q} \subseteq W'
    BY <1>2, <2>3, <2>4 DEF At, WakerLabels
  <2>6. IsFiniteSet(W \cup {q}) /\ Cardinality(W \cup {q}) = Cardinality(W) + 1
    BY <1>2, <2>5, FS_AddElement
  <2>7. Cardinality(W \cup {q}) <= Cardinality(W') /\ Cardinality(W') \in Nat
    BY <1>2, <2>5, FS_Subset, FS_CardinalityType
  <2> QED BY <1>2, <2>6, <2>7
<1> QED BY <1>4, <1>5

\* The four ways in which a step keeps the balance.
LEMMA WakeupKept ==
  ASSUME TypeOK, TypeOK', NoLostWakeup, NEW p \in Threads, NEW label, Moves(p, label),
         label # "asleep", Spare' <= Spare,
         pc[p] \notin WakerLabels \/ label \in WakerLabels
  PROVE  NoLostWakeup'
<1>1. Spare \in Int /\ Spare' \in Int
  BY ConfigAssumption DEF Spare, TypeOK
<1>2. Cardinality(At(WakerLabels)) \in Nat /\ Cardinality(At(WakerLabels)') \in Nat
      /\ Cardinality(At(WakerLabels)) <= Cardinality(At(WakerLabels)')
  BY WakersMove
<1>3. Asleep(pc)' # {} => Asleep(pc) # {}
  BY DEF Asleep, Moves
<1>4. Asleep(pc) # {} => Spare <= Cardinality(At(WakerLabels))
  BY NoLostWakeupIs
<1>5. Asleep(pc)' # {} => Spare' <= Cardinality(At(WakerLabels)')
  BY <1>1, <1>2, <1>3, <1>4
<1> QED BY <1>5 DEF NoLostWakeup, Spare, WakerLabels

\* A thread that takes a connection or slot uses up one waker at most.
LEMMA WakeupTaken ==
  ASSUME TypeOK, TypeOK', NoLostWakeup, NEW p \in Threads, NEW label, Moves(p, label),
         label # "asleep", Spare' = Spare - 1
  PROVE  NoLostWakeup'
<1>1. Spare \in Int /\ Spare' \in Int
  BY ConfigAssumption DEF Spare, TypeOK
<1>2. Cardinality(At(WakerLabels)) \in Nat /\ Cardinality(At(WakerLabels)') \in Nat
      /\ Cardinality(At(WakerLabels)) <= Cardinality(At(WakerLabels)') + 1
  BY WakersMove
<1>3. Asleep(pc)' # {} => Asleep(pc) # {}
  BY DEF Asleep, Moves
<1>4. Asleep(pc) # {} => Spare <= Cardinality(At(WakerLabels))
  BY NoLostWakeupIs
<1>5. Asleep(pc)' # {} => Spare' <= Cardinality(At(WakerLabels)')
  BY <1>1, <1>2, <1>3, <1>4
<1> QED BY <1>5 DEF NoLostWakeup, Spare, WakerLabels

\* A thread that gives one back wakes a sleeper for it, if there is one.
LEMMA WakeupGiven ==
  ASSUME TypeOK, TypeOK', NoLostWakeup, NEW p \in Threads, NEW label \in Labels,
         label # "asleep", pc[p] \notin WakerLabels, Spare' = Spare + 1, NEW n,
         \/ pc' \in NotifyOne(Goto(p, label))
         \/ p # Closer /\ pc' \in NotifyOne(NotifyDone(Goto(p, label), n))
  PROVE  NoLostWakeup'
<1>0. Moves(p, label)
  BY NotifyMoves
<1>1. Spare \in Int /\ Spare' \in Int
  BY ConfigAssumption DEF Spare, TypeOK
<1>2. Cardinality(At(WakerLabels)) \in Nat /\ Cardinality(At(WakerLabels)') \in Nat
  BY <1>0, WakersMove
<1>3. \/ Asleep(pc)' = {}
      \/ Cardinality(At(WakerLabels)') >= Cardinality(At(WakerLabels)) + 1
  BY WakersNotify
<1>4. Asleep(pc)' # {} => Asleep(pc) # {}
  BY <1>0 DEF Asleep, Moves
<1>5. Asleep(pc) # {} => Spare <= Cardinality(At(WakerLabels))
  BY NoLostWakeupIs
<1>6. Asleep(pc)' # {} => Spare' <= Cardinality(At(WakerLabels)')
  BY <1>1, <1>2, <1>3, <1>4, <1>5
<1> QED BY <1>6 DEF NoLostWakeup, Spare, WakerLabels

\* With nothing to be had nobody can miss it.
LEMMA WakeupNone ==
  ASSUME IndInv, NEW p \in Threads, NEW label, Moves(p, label), ~Ready,
         UNCHANGED <<idle, total>>
  PROVE  NoLostWakeup'
<1>1. idle = <<>> /\ Len(idle) = 0 /\ total = max_size /\ max_size \in Nat
  BY ConfigAssumption DEF Ready, IndInv, TypeOK, Accounting
<1>2. Cardinality(At(WakerLabels)') \in Nat
  BY WakersMove DEF IndInv
<1>3. Len(idle') + (max_size - total') <= Cardinality(At(WakerLabels)')
  BY <1>1, <1>2
<1> QED BY <1>3 DEF NoLostWakeup, WakerLabels

\* The quiet steps: nothing becomes available, no waker goes to sleep.
LEMMA WakeupQuiet ==
  ASSUME IndInv, IndInv', NoLostWakeup, NEW p \in Threads, NEW label \in Labels,
         pc' = Goto(p, label), label # "asleep", UNCHANGED <<idle, total>>,
         pc[p] \notin WakerLabels \/ label \in WakerLabels
  PROVE  NoLostWakeup'
<1>1. Moves(p, label)
  BY GotoMoves DEF IndInv
<1>2. Spare' <= Spare
  BY ConfigAssumption DEF Spare, IndInv, TypeOK
<1> QED BY <1>1, <1>2, WakeupKept DEF IndInv

\* Closing a connection gives nothing back.
LEMMA WakeupClose ==
  ASSUME IndInv, IndInv', NoLostWakeup, NEW p \in Threads, NEW label \in Labels,
         closeEntry(p, label), label # "asleep", pc[p] \notin WakerLabels, pc[p] # "asleep"
  PROVE  NoLostWakeup'
<1>1. PICK next \in {label, pc[p]} : pc' = Goto(p, next)
  BY DEF closeEntry
<1>2. next \in Labels /\ next # "asleep" /\ UNCHANGED <<idle, total>>
  BY <1>1 DEF closeEntry, counters, IndInv, TypeOK, Labels
<1> QED BY <1>1, <1>2, WakeupQuiet

\* No step of a client loses a wakeup.
LEMMA WakeupClient ==
  ASSUME IndInv, IndInv', NoLostWakeup, NEW p \in Clients,
         \/ tryAcquireFor(p) \/ AcquireStep(p) \/ WaitReturns(p) \/ ReleaseStep(p) \/ warmUp(p)
  PROVE  NoLostWakeup'
<1>0. p \in Threads /\ p # Closer
  BY ClientFacts
<1>1. \A label \in ClientLabels \cup WarmUpLabels : label \in Labels
  BY DEF Labels
<1>2. CASE \/ tryAcquireFor(p) \/ WaitReturns(p) \/ AcquireCreated(p) \/ AcquireCheck(p)
           \/ AcquirePublish(p) \/ warmUp(p)
  <2>1. PICK label \in {"lock", "awake", "expired", "publish", "close_retry", "close_quit", "hold",
                        "warm"} :
          /\ pc' = Goto(p, label)
          /\ pc[p] \notin WakerLabels
    BY <1>2 DEF tryAcquireFor, WaitReturns, AcquireCreated, AcquireCheck, AcquirePublish, warmUp,
                WakerLabels
  <2>2. UNCHANGED <<idle, total>>
    BY <1>2 DEF tryAcquireFor, WaitReturns, AcquireCreated, AcquireCheck, AcquirePublish, warmUp,
                counters
  <2>3. label \in Labels /\ label # "asleep"
    BY <1>1, <2>1 DEF ClientLabels, WarmUpLabels
  <2> QED BY <1>0, <2>1, <2>2, <2>3, WakeupQuiet
<1>3. CASE AcquireCreate(p)
  <2>1. PICK label \in {"created", "create_failed"} : pc' = Goto(p, label)
    BY <1>3 DEF AcquireCreate, createEntry
  <2>2. pc[p] \notin WakerLabels /\ UNCHANGED <<idle, total>>
    BY <1>3 DEF AcquireCreate, WakerLabels, counters
  <2>3. label \in Labels /\ label # "asleep"
    BY <1>1, <2>1 DEF ClientLabels
  <2> QED BY <1>0, <2>1, <2>2, <2>3, WakeupQuiet
<1>4. CASE RetireClose(p) \/ ReleaseClose(p)
  <2>1. PICK label \in {"retire_retry", "retire_quit", "out"} :
          closeEntry(p, label) /\ pc[p] \notin WakerLabels /\ pc[p] # "asleep"
    BY <1>4 DEF RetireClose, ReleaseClose, WakerLabels
  <2>2. label \in Labels /\ label # "asleep"
    BY <1>1, <2>1 DEF ClientLabels
  <2> QED BY <1>0, <2>1, <2>2, WakeupClose
<1>5. CASE WaitChecks(p)
  <2>1. CASE Ready
    <3>1. pc' = Goto(p, "lock") /\ UNCHANGED <<idle, total>> /\ "lock" \in Labels
      BY <1>1, <1>5, <2>1 DEF WaitChecks, counters, ClientLabels
    <3> QED BY <1>0, <3>1, WakeupQuiet DEF WakerLabels
  <2>2. CASE ~Ready
    <3>1. PICK label \in {"asleep", "out"} : pc' = Goto(p, label)
      BY <1>5, <2>2 DEF WaitChecks
    <3>2. label \in Labels /\ UNCHANGED <<idle, total>>
      BY <1>1, <1>5, <3>1 DEF ClientLabels, WaitChecks, counters
    <3>3. Moves(p, label)
      BY <1>0, <3>1, <3>2, GotoMoves DEF IndInv
    <3> QED BY <1>0, <2>2, <3>2, <3>3, WakeupNone
  <2> QED BY <2>1, <2>2
<1>6. CASE AcquireLocked(p)
  <2>1. CASE shutting_down
    <3>1. Asleep(pc)' = {}
      BY <1>6, <2>1 DEF IndInv, ShutOK, AcquireLocked
    <3> QED BY <3>1 DEF NoLostWakeup
  <2>2. CASE ~Ready
    <3>1. pc' = Goto(p, "asleep") /\ UNCHANGED <<idle, total>> /\ "asleep" \in Labels
      BY <1>1, <1>6, <2>2 DEF AcquireLocked, Ready, ClientLabels
    <3>2. Moves(p, "asleep")
      BY <1>0, <3>1, GotoMoves DEF IndInv
    <3> QED BY <1>0, <2>2, <3>1, <3>2, WakeupNone
  <2>3. CASE ~shutting_down /\ Ready
    <3>1. PICK label \in {"check", "create"} : pc' = Goto(p, label) /\
            \/ idle # <<>> /\ idle' = Tail(idle) /\ total' = total
            \/ idle' = idle /\ total' = total + 1
      BY <1>6, <2>3 DEF AcquireLocked
    <3>2. label \in Labels /\ label # "asleep"
      BY <1>1, <3>1 DEF ClientLabels
    <3>3. Moves(p, label)
      BY <1>0, <3>1, <3>2, GotoMoves DEF IndInv
    <3>4. idle # <<>> => Len(Tail(idle)) = Len(idle) - 1
      BY TailSet DEF IndInv, TypeOK, OwnersOK
    <3>5. Spare' = Spare - 1
      <4>1. total \in Nat /\ max_size \in Nat /\ Len(idle) \in Nat
        BY ConfigAssumption DEF IndInv, TypeOK
      <4>2. (Len(idle') = Len(idle) - 1 /\ total' = total)
            \/ (Len(idle') = Len(idle) /\ total' = total + 1)
        BY <3>1, <3>4
      <4> QED BY <4>1, <4>2 DEF Spare
    <3> QED BY <1>0, <3>2, <3>3, <3>5, WakeupTaken DEF IndInv
  <2> QED BY <2>1, <2>2, <2>3
<1>7. CASE AcquireCreateFailed(p) \/ RetireActive(p) \/ release(p)
  <2>1. PICK label \in {"out", "lock", "close_release"} :
          /\ pc' \in NotifyOne(NotifyDone(Goto(p, label), active - 1))
          /\ pc[p] \notin WakerLabels
          /\ \/ idle' = idle /\ total' = total - 1
             \/ total' = total /\ \E c \in held[p] : idle' = Append(idle, c)
    <3>1. CASE AcquireCreateFailed(p)
      BY <3>1 DEF AcquireCreateFailed, WakerLabels
    <3>2. CASE RetireActive(p)
      <4>1. pc[p] \notin WakerLabels
        BY <3>2 DEF RetireActive, WakerLabels
      <4>2. CASE pc[p] = "retire_retry"
        BY <3>2, <4>1, <4>2 DEF RetireActive
      <4>3. CASE pc[p] # "retire_retry"
        BY <3>2, <4>1, <4>3 DEF RetireActive
      <4> QED BY <4>2, <4>3
    <3>3. CASE release(p)
      BY <3>3 DEF release, WakerLabels
    <3> QED BY <1>7, <3>1, <3>2, <3>3
  <2>2. label \in Labels /\ label # "asleep"
    BY <1>1, <2>1 DEF ClientLabels
  <2>3. total \in Nat /\ max_size \in Nat /\ Len(idle) \in Nat
    BY ConfigAssumption DEF IndInv, TypeOK
  <2>4. ASSUME NEW c \in held[p], idle' = Append(idle, c)
        PROVE  Len(idle') = Len(idle) + 1
    <3>1. c \in Connections
      BY <1>0, <2>4 DEF IndInv, TypeOK
    <3> QED BY <2>4, <3>1, AppendSet DEF IndInv, TypeOK
  <2>5. Spare' = Spare + 1
    BY <2>1, <2>3, <2>4 DEF Spare
  <2> QED BY <1>0, <2>1, <2>2, <2>5, WakeupGiven DEF IndInv
<1> QED BY <1>2, <1>3, <1>4, <1>5, <1>6, <1>7 DEF AcquireStep, ReleaseStep

\* No step of warmUp() loses a wakeup.
LEMMA WakeupWarmUp ==
  ASSUME IndInv, IndInv', NoLostWakeup, NEW p \in Workers, WarmUpStep(p)
  PROVE  NoLostWakeup'
<1>0. p \in Threads /\ AfterWarmUp(p) \in Labels /\ AfterWarmUp(p) \in {"out", "clean_wait"}
  BY WorkerFacts
<1>1. \A label \in WarmUpLabels : label \in Labels /\ label # "asleep"
  BY DEF Labels, WarmUpLabels
<1>2. total \in Nat /\ max_size \in Nat /\ Len(idle) \in Nat
  BY ConfigAssumption DEF IndInv, TypeOK
<1>3. pc[p] \notin WakerLabels /\ pc[p] # "asleep"
  BY DEF WarmUpStep, WarmUpReserve, WarmUpCreate, WarmUpFailed, WarmUpAdd, WarmUpClose, WakerLabels
<1>4. CASE WarmUpReserve(p)
  <2>1. PICK label \in {AfterWarmUp(p), "warm_create"} :
          pc' = Goto(p, label) /\ idle' = idle /\ (total' = total \/ total' = total + 1)
    BY <1>4 DEF WarmUpReserve
  <2>2. label \in Labels /\ label # "asleep"
    BY <1>0, <1>1, <2>1 DEF WarmUpLabels
  <2>3. Moves(p, label)
    BY <1>0, <2>1, <2>2, GotoMoves DEF IndInv
  <2>4. Spare' <= Spare
    BY <1>2, <2>1 DEF Spare
  <2> QED BY <1>0, <1>3, <2>2, <2>3, <2>4, WakeupKept DEF IndInv
<1>5. CASE WarmUpCreate(p)
  <2>1. PICK label \in {"warm_add", "warm_failed"} : pc' = Goto(p, label)
    BY <1>5 DEF WarmUpCreate, createEntry
  <2>2. label \in Labels /\ label # "asleep" /\ UNCHANGED <<idle, total>>
    BY <1>1, <1>5, <2>1 DEF WarmUpLabels, WarmUpCreate, counters
  <2> QED BY <1>0, <1>3, <2>1, <2>2, WakeupQuiet
<1>6. CASE WarmUpFailed(p)
  <2>1. Spare' = Spare + 1
    BY <1>2, <1>6 DEF WarmUpFailed, Spare
  <2>2. pc' \in NotifyOne(Goto(p, AfterWarmUp(p)))
    BY <1>6 DEF WarmUpFailed
  <2> QED BY <1>0, <1>3, <2>1, <2>2, WakeupGiven DEF IndInv
<1>7. CASE WarmUpAdd(p)
  <2>1. CASE shutting_down
    <3>1. Asleep(pc)' = {}
      BY <1>7, <2>1 DEF IndInv, ShutOK, WarmUpAdd
    <3> QED BY <3>1 DEF NoLostWakeup
  <2>2. CASE ~shutting_down
    <3>1. PICK c \in held[p] : idle' = Append(idle, c)
      BY <1>7, <2>2 DEF WarmUpAdd
    <3>2. c \in Connections
      BY <1>0, <3>1 DEF IndInv, TypeOK
    <3>3. Len(idle') = Len(idle) + 1 /\ total' = total
      BY <1>7, <2>2, <3>1, <3>2, AppendSet DEF WarmUpAdd, IndInv, TypeOK
    <3>4. Spare' = Spare + 1
      BY <1>2, <3>3 DEF Spare
    <3>5. pc' \in NotifyOne(Goto(p, "warm")) /\ "warm" \in Labels
      BY <1>1, <1>7, <2>2 DEF WarmUpAdd, WarmUpLabels
    <3> QED BY <1>0, <1>3, <3>4, <3>5, WakeupGiven DEF IndInv
  <2> QED BY <2>1, <2>2
<1>8. CASE WarmUpClose(p)
  <2>1. closeEntry(p, "warm") /\ "warm" \in Labels
    BY <1>1, <1>8 DEF WarmUpClose, WarmUpLabels
  <2> QED BY <1>0, <1>3, <2>1, WakeupClose
<1> QED BY <1>4, <1>5, <1>6, <1>7, <1>8 DEF WarmUpStep

\* No step of the cleaner loses a wakeup.
LEMMA WakeupCleaner ==
  ASSUME IndInv, IndInv', NoLostWakeup, CleanerWait \/ cleanupIdle \/ CleanerClose
  PROVE  NoLostWakeup'
<1>0. Cleaner \in Threads /\ \A label \in {"clean", "clean_done", "warm"} : label \in Labels
  BY DEF Threads, Labels, WarmUpLabels
<1>1. CASE CleanerWait
  <2>1. PICK label \in {"clean", "clean_done"} : pc' = Goto(Cleaner, label)
    BY <1>1 DEF CleanerWait
  <2>2. pc[Cleaner] \notin WakerLabels /\ UNCHANGED <<idle, total>> /\ label # "asleep"
    BY <1>1 DEF CleanerWait, WakerLabels, counters
  <2> QED BY <1>0, <2>1, <2>2, WakeupQuiet
<1>2. CASE cleanupIdle
  <2>1. PICK S \in SUBSET ToSet(idle) :
          /\ idle' \in Remaining(S)
          /\ total' = total - Cardinality(S)
          /\ pc' = IF S = {} THEN Goto(Cleaner, "warm") ELSE NotifyAll(Goto(Cleaner, "clean_close"))
    BY <1>2 DEF cleanupIdle
  <2>2. CASE S # {}
    <3>1. Asleep(pc)' = {}
      BY <2>1, <2>2 DEF Asleep, NotifyAll
    <3> QED BY <3>1 DEF NoLostWakeup
  <2>3. CASE S = {}
    <3>1. Cardinality(S) = 0 /\ Len(idle') = Len(idle) - Cardinality(S)
      BY <2>1, <2>3, RemainingSet DEF IndInv, TypeOK, OwnersOK
    <3>2. Spare' <= Spare
      BY <2>1, <3>1, ConfigAssumption DEF Spare, IndInv, TypeOK
    <3>3. Moves(Cleaner, "warm")
      BY <1>0, <2>1, <2>3, GotoMoves DEF IndInv
    <3> QED BY <1>0, <1>2, <3>2, <3>3, WakeupKept DEF IndInv, cleanupIdle, WakerLabels
  <2> QED BY <2>2, <2>3
<1>3. CASE CleanerClose
  BY <1>0, <1>3, WakeupClose DEF CleanerClose, WakerLabels
<1> QED BY <1>1, <1>2, <1>3

\* No step loses a wakeup.
LEMMA WakeupStep == IndInv /\ IndInv' /\ NoLostWakeup /\ [Next]_vars => NoLostWakeup'
<1> SUFFICES ASSUME IndInv, IndInv', NoLostWakeup, [Next]_vars PROVE NoLostWakeup'
  OBVIOUS
<1>1. CASE UNCHANGED vars
  BY <1>1 DEF vars, counters, NoLostWakeup, At, Asleep
<1>2. CASE shutdown \/ ShutdownStep \/ ShutdownSpurious
  <2>1. shutting_down'
    BY <1>2 DEF shutdown, ShutdownStep, ShutdownSpurious, ShutdownJoin, ShutdownSleep, ShutdownSwap,
                ShutdownClose, closeEntry, IndInv, ShutOK
  <2>2. Asleep(pc)' = {}
    BY <2>1 DEF IndInv, ShutOK
  <2> QED BY <2>2 DEF NoLostWakeup
<1>3. CASE CleanerStep
  BY <1>3, WakeupCleaner, WakeupWarmUp DEF CleanerStep, Workers
<1>4. ASSUME NEW p \in Clients, WarmUpStep(p)
      PROVE  NoLostWakeup'
  BY <1>4, WakeupWarmUp, ClientFacts
<1> QED BY <1>1, <1>2, <1>3, <1>4, WakeupClient DEF Next

-----------------------------------------------------------------------------
(* The theorems.                                                           *)

\* The inductive invariant of the pool.
LEMMA Invariance == Spec => []IndInv
BY InitInv, StepInv, PTL DEF Spec

\* The pool is well typed; in particular no counter becomes negative.
THEOREM TypeCorrect == Spec => []TypeOK
BY Invariance, PTL DEF IndInv

\* total, active, created and destroyed agree with the queue and with what
\* every thread is doing, and total never exceeds max_size.
THEOREM CountersAgree == Spec => []Accounting
BY Invariance, PTL DEF IndInv

\* No two threads share a connection, none is in the queue as well, none is
\* leaked, and none in use has been closed.
THEOREM OneOwner == Spec => []SoleOwner
<1>1. IndInv => SoleOwner
  BY OwnersSole DEF IndInv
<1> QED BY <1>1, Invariance, PTL

\* While a client sleeps in wait_until(), each connection or slot it could
\* have is matched by a client that is awake for it: no section that gives
\* one back forgets its notification.
THEOREM NoWakeupIsLost == Spec => []NoLostWakeup
<1>1. Init => NoLostWakeup
  BY ThreadsAssumption DEF Init, NoLostWakeup, Asleep, Threads
<1>2. IndInv /\ IndInv' /\ NoLostWakeup /\ [Next]_vars => NoLostWakeup'
  BY WakeupStep
<1> QED BY <1>1, <1>2, Invariance, PTL DEF Spec

\* After shutdown() has returned nothing is idle or borrowed.
THEOREM ShutdownIsFinal == Spec => []ShutdownFinal
<1>1. IndInv => ShutdownFinal
  <2> SUFFICES ASSUME IndInv, pc[Closer] = "shut_down"
               PROVE  idle = <<>> /\ active = 0 /\ At({"hold"}) = {}
    BY DEF ShutdownFinal
  <2>1. idle = <<>> /\ active = 0
    BY DEF IndInv, ShutOK
  <2>2. Borrowers = {}
    BY <2>1, SumsHold
  <2>3. At({"hold"}) \subseteq Borrowers
    BY DEF At, Borrowers
  <2> QED BY <2>1, <2>2, <2>3
<1> QED BY <1>1, Invariance, PTL
=============================================================================
