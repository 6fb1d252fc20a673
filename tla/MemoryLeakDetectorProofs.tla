---------------------- MODULE MemoryLeakDetectorProofs ----------------------
(***************************************************************************)
(* For every number of threads, addresses, requests and scopes: a record   *)
(* names a block that is allocated, a scope reports what was allocated in  *)
(* it and still is, and the counts are those of the table.                 *)
(***************************************************************************)
EXTENDS MemoryLeakDetector, FiniteSetTheorems, SequenceTheorems, WellFoundedInduction, TLAPS

-----------------------------------------------------------------------------
(* The inductive invariant.                                                *)

NewLabels == {"enabled?", "record", "node"}
DeleteLabels == {"erase", "erase[]", "free"}
InsideLabels == {"record", "node", "erase", "erase[]", "reset"}

\* The state of block a.
State(a) == heap[a].state

\* A call owns the block it works on: no other call has its address.
CallsOK ==
  /\ \A t \in Threads : arg[t] # nullptr <=> pc[t] \in NewLabels \cup DeleteLabels
  /\ \A t, u \in Threads : arg[t] # nullptr /\ arg[t] = arg[u] => t = u
  /\ \A t \in Threads : pc[t] \in NewLabels =>
       State(arg[t]) = "new" /\ live_allocations[arg[t]] = NoRecord
  /\ \A t \in Threads : pc[t] \in DeleteLabels => State(arg[t]) = "delete"
  /\ \A t \in Threads : pc[t] = "free" => live_allocations[arg[t]] = NoRecord

\* The thread that makes a record holds the mutex, and a thread is marked
\* while it is inside the detector.
GuardOK ==
  \A t \in Threads :
    /\ pc[t] = "node" <=> mutex = t
    /\ pc[t] \in InsideLabels <=> g_detector_depth[t] = 1

\* reset() overlaps no scope.
ResetOK == \A t \in Threads : pc[t] = "reset" => DOMAIN scopes = {}

\* Sequence numbers are given in order.
SequencesOK == \A a \in Recorded : live_allocations[a].sequence < next_sequence

\* Scope i checks, and no constructor read `enabled` before it was set.
Sure(i) == scopes[i].on /\ ~scopes[i].overlapped

\* The scopes nest, and the detector is on while one that checks is open:
\* a scope that began later found `enabled` set and will leave it so.
NestingOK ==
  \A i \in DOMAIN scopes :
    /\ Sure(i) /\ ~Storing(i) => enabled
    /\ ~scopes[i].ready => scopes[i].before = {} /\ scopes[i].after = {}
    /\ scopes[i].ready => scopes[i].baseline <= next_sequence
    /\ \A j \in DOMAIN scopes : j < i /\ Sure(j) => scopes[i].previous_enabled

\* What was held before a scope has an older record or none, and what was
\* allocated in it gets a newer one.
BaselineOK ==
  \A i \in DOMAIN scopes :
    /\ \A a \in scopes[i].before :
         State(a) = "held" /\ (a \in Recorded => live_allocations[a].sequence < scopes[i].baseline)
    /\ \A a \in scopes[i].after :
         /\ Sure(i) /\ State(a) = "held" /\ ~heap[a].lost =>
              a \in Recorded /\ live_allocations[a].sequence >= scopes[i].baseline
         /\ \A t \in Threads : pc[t] = "node" /\ arg[t] = a => scopes[i].baseline < next_sequence

\* The counts.  They hold while a record is being made, too.
CountsAgree ==
  /\ stats.live_allocations = Cardinality(Recorded)
  /\ stats.total_allocations = stats.total_frees + Cardinality(Recorded)
  /\ stats.mismatched_deletes <= stats.total_frees

\* f sums w over every set of addresses, in whatever order.
Additive(f, w) ==
  /\ f \in [SUBSET Addrs -> Nat] /\ f[{}] = 0
  /\ \A s \in SUBSET Addrs : \A x \in s : f[s] = w[x] + f[s \ {x}]

\* What the records of the table say of their blocks' sizes.
Sizes == [a \in Addrs |-> IF live_allocations[a] = NoRecord THEN 0 ELSE live_allocations[a].size]

\* The bytes, by a sum that each step can be followed in.
BytesAgree ==
  /\ \E f \in [SUBSET Addrs -> Nat] : Additive(f, Sizes) /\ f[Recorded] = stats.live_bytes
  /\ stats.live_bytes <= stats.peak_live_bytes /\ stats.peak_live_bytes <= stats.total_bytes

Base == TypeOK /\ CallsOK /\ GuardOK /\ RecordsLive
IndInv == Base /\ ResetOK /\ SequencesOK /\ NestingOK /\ BaselineOK /\ CountsAgree /\ BytesAgree

-----------------------------------------------------------------------------
(* Blocks, scopes and tallies.                                             *)

States == {"free", "new", "held", "delete"}

\* A block changes its state and nothing else.
LEMMA BlockState ==
  ASSUME NEW h \in [Addrs -> Blocks], NEW a \in Addrs, NEW st \in States
  PROVE  /\ [h EXCEPT ![a].state = st] \in [Addrs -> Blocks]
         /\ [h EXCEPT ![a].state = st][a].state = st
         /\ [h EXCEPT ![a].state = st][a].size = h[a].size
         /\ [h EXCEPT ![a].state = st][a].array = h[a].array
         /\ [h EXCEPT ![a].state = st][a].lost = h[a].lost
         /\ \A b \in Addrs : b # a => [h EXCEPT ![a].state = st][b] = h[b]
BY DEF Blocks, States

\* A block loses its record and nothing else.
LEMMA BlockLost ==
  ASSUME NEW h \in [Addrs -> Blocks], NEW a \in Addrs
  PROVE  /\ [h EXCEPT ![a].lost = TRUE] \in [Addrs -> Blocks]
         /\ [h EXCEPT ![a].lost = TRUE][a].state = h[a].state
         /\ [h EXCEPT ![a].lost = TRUE][a].size = h[a].size
         /\ [h EXCEPT ![a].lost = TRUE][a].array = h[a].array
         /\ [h EXCEPT ![a].lost = TRUE][a].lost = TRUE
         /\ \A b \in Addrs : b # a => [h EXCEPT ![a].lost = TRUE][b] = h[b]
BY DEF Blocks

\* The members of a scope.
LEMMA ScopeFields ==
  ASSUME NEW s \in Scopes
  PROVE  /\ s.thread \in Threads /\ s.baseline \in Nat
         /\ s.before \in SUBSET Addrs /\ s.after \in SUBSET Addrs
         /\ s.previous_enabled \in BOOLEAN /\ s.on \in BOOLEAN /\ s.ready \in BOOLEAN
         /\ s.overlapped \in BOOLEAN
BY DEF Scopes

\* What becomes of the open scopes when a block is made or freed.
LEMMA NotedStep ==
  ASSUME TypeOK, NEW a \in Addrs, NEW born \in BOOLEAN, scopes' = Noted(a, born)
  PROVE  /\ scopes' \in Seq(Scopes) /\ DOMAIN scopes' = DOMAIN scopes
         /\ \A i \in DOMAIN scopes :
              /\ scopes'[i].before = scopes[i].before \ {a}
              /\ scopes'[i].after \subseteq scopes[i].after \cup {a}
              /\ ~scopes[i].ready \/ ~born => scopes'[i].after = scopes[i].after \ {a}
              /\ scopes'[i].baseline = scopes[i].baseline /\ scopes'[i].ready = scopes[i].ready
              /\ scopes'[i].previous_enabled = scopes[i].previous_enabled /\ scopes'[i].on = scopes[i].on
              /\ scopes'[i].overlapped = scopes[i].overlapped /\ scopes'[i].thread = scopes[i].thread
<1> DEFINE n == Len(scopes)
           r == Noted(a, born)
<1>1. n \in Nat /\ DOMAIN scopes = 1 .. n /\ \A i \in 1 .. n : scopes[i] \in Scopes
  BY DEF TypeOK
<1>2. /\ DOMAIN r = 1 .. n
      /\ \A i \in 1 .. n :
           r[i] = [scopes[i] EXCEPT !.before = @ \ {a},
                                    !.after = IF born /\ scopes[i].ready THEN @ \cup {a} ELSE @ \ {a}]
      /\ r = [i \in 1 .. n |-> r[i]]
  BY <1>1 DEF Noted
<1> HIDE DEF r, n
<1>3. ASSUME NEW i \in 1 .. n
      PROVE  /\ r[i] \in Scopes
             /\ r[i].before = scopes[i].before \ {a}
             /\ r[i].after = IF born /\ scopes[i].ready THEN scopes[i].after \cup {a} ELSE scopes[i].after \ {a}
             /\ r[i].thread = scopes[i].thread /\ r[i].baseline = scopes[i].baseline
             /\ r[i].previous_enabled = scopes[i].previous_enabled
             /\ r[i].on = scopes[i].on /\ r[i].ready = scopes[i].ready
             /\ r[i].overlapped = scopes[i].overlapped
  <2>1. PICK s \in Scopes : s = scopes[i]
    BY <1>1
  <2>2. PICK B \in SUBSET Addrs : B = s.before \ {a}
    BY ScopeFields
  <2>3. PICK A \in SUBSET Addrs : A = IF born /\ s.ready THEN s.after \cup {a} ELSE s.after \ {a}
    BY ScopeFields
  <2>4. r[i] = [s EXCEPT !.before = B, !.after = A]
    BY <1>2, <2>1, <2>2, <2>3
  <2>5. /\ r[i] \in Scopes /\ r[i].before = B /\ r[i].after = A /\ r[i].thread = s.thread
        /\ r[i].baseline = s.baseline /\ r[i].previous_enabled = s.previous_enabled
        /\ r[i].on = s.on /\ r[i].ready = s.ready /\ r[i].overlapped = s.overlapped
    BY <2>4 DEF Scopes
  <2> QED BY <2>1, <2>2, <2>3, <2>5
<1>4. r \in Seq(Scopes)
  <2>1. r \in [1 .. n -> Scopes]
    BY <1>2, <1>3
  <2> QED BY <1>1, <2>1
<1>5. scopes' = r
  BY DEF r
<1>6. ASSUME NEW i \in 1 .. n
      PROVE  /\ scopes'[i].after \subseteq scopes[i].after \cup {a}
             /\ ~scopes[i].ready \/ ~born => scopes'[i].after = scopes[i].after \ {a}
  BY <1>3, <1>5
<1>7. DOMAIN scopes' = DOMAIN scopes /\ scopes' \in Seq(Scopes)
  BY <1>1, <1>2, <1>4, <1>5
<1> QED BY <1>1, <1>3, <1>5, <1>6, <1>7, Zenon

\* What becomes of them when thread t takes the baseline of its new scope.
LEMMA SnapshotFacts ==
  ASSUME TypeOK, NEW t \in Threads, ScopeSnapshot(t)
  PROVE  /\ scopes' \in Seq(Scopes) /\ DOMAIN scopes' = DOMAIN scopes
         /\ \A i \in DOMAIN scopes :
              LET r == scopes'[i]
                  s == scopes[i]
              IN \/ r = s
                 \/ /\ ~s.ready /\ r.ready /\ r.baseline = next_sequence /\ r.before = Held
                    /\ r.after = s.after /\ r.on = s.on /\ r.previous_enabled = s.previous_enabled
                    /\ r.overlapped = s.overlapped /\ r.thread = s.thread /\ s.thread = t
<1>1. scopes \in Seq(Scopes) /\ next_sequence \in Nat
  BY DEF TypeOK
<1>2. PICK n \in Nat, B \in SUBSET Addrs : n = next_sequence /\ B = Held
  BY <1>1 DEF Held
<1>3. scopes' = [i \in DOMAIN scopes |->
        IF scopes[i].thread = t /\ ~scopes[i].ready
        THEN [scopes[i] EXCEPT !.ready = TRUE, !.baseline = n, !.before = B] ELSE scopes[i]]
  BY <1>2 DEF ScopeSnapshot, snapshot
<1>4. PICK len \in Nat : DOMAIN scopes = 1 .. len
  BY <1>1
<1>5. ASSUME NEW s \in Scopes, NEW r, r = [s EXCEPT !.ready = TRUE, !.baseline = n, !.before = B]
      PROVE  /\ r \in Scopes /\ r.ready /\ r.baseline = n /\ r.before = B
             /\ r.after = s.after /\ r.on = s.on /\ r.previous_enabled = s.previous_enabled
             /\ r.overlapped = s.overlapped /\ r.thread = s.thread
  BY <1>5 DEF Scopes
<1>6. ASSUME NEW i \in 1 .. len
      PROVE  /\ scopes'[i] \in Scopes
             /\ \/ scopes'[i] = scopes[i]
                \/ /\ ~scopes[i].ready /\ scopes'[i].ready /\ scopes'[i].baseline = n /\ scopes'[i].before = B
                   /\ scopes'[i].after = scopes[i].after /\ scopes'[i].on = scopes[i].on
                   /\ scopes'[i].previous_enabled = scopes[i].previous_enabled
                   /\ scopes'[i].overlapped = scopes[i].overlapped
                   /\ scopes'[i].thread = scopes[i].thread /\ scopes[i].thread = t
  <2>1. PICK s \in Scopes : s = scopes[i]
    BY <1>1, <1>4
  <2>2. CASE s.thread = t /\ ~s.ready
    <3>1. scopes'[i] = [s EXCEPT !.ready = TRUE, !.baseline = n, !.before = B]
      BY <1>3, <1>4, <2>1, <2>2
    <3>2. PICK r : r = scopes'[i]
      OBVIOUS
    <3>3. /\ r \in Scopes /\ r.ready /\ r.baseline = n /\ r.before = B
          /\ r.after = s.after /\ r.on = s.on /\ r.previous_enabled = s.previous_enabled
          /\ r.overlapped = s.overlapped /\ r.thread = s.thread
      BY <1>5, <3>1, <3>2
    <3> QED BY <2>1, <2>2, <3>2, <3>3
  <2>3. CASE ~(s.thread = t /\ ~s.ready)
    BY <1>3, <1>4, <2>1, <2>3
  <2> QED BY <2>2, <2>3
<1>7. scopes' = [i \in 1 .. len |-> scopes'[i]]
  BY <1>3, <1>4
<1>8. scopes' \in [1 .. len -> Scopes]
  BY <1>6, <1>7
<1>9. scopes' \in Seq(Scopes)
  BY <1>8
<1> QED BY <1>2, <1>4, <1>6, <1>8, <1>9

\* And when a constructor reads `enabled`: the scopes whose constructor is
\* about to set it are overlapped, and there is one more.
LEMMA BeginFacts ==
  ASSUME TypeOK, NEW t \in Threads, ScopeBegin(t)
  PROVE  /\ scopes' \in Seq(Scopes) /\ DOMAIN scopes = 1 .. Len(scopes) /\ Len(scopes) \in Nat
         /\ DOMAIN scopes' = 1 .. (Len(scopes) + 1)
         /\ \A i \in 1 .. Len(scopes) :
              LET r == scopes'[i]
                  s == scopes[i]
              IN /\ r.thread = s.thread /\ r.on = s.on /\ r.previous_enabled = s.previous_enabled
                 /\ r.ready = s.ready /\ r.baseline = s.baseline /\ r.before = s.before
                 /\ r.after = s.after /\ (r.overlapped <=> s.overlapped \/ Storing(i))
         /\ LET r == scopes'[Len(scopes) + 1]
            IN /\ r.thread = t /\ ~r.ready /\ r.before = {} /\ r.after = {}
               /\ r.previous_enabled <=> enabled
               /\ r.on => enabled \/ pc'[t] = "enable"
<1>1. scopes \in Seq(Scopes) /\ enabled \in BOOLEAN /\ DOMAIN pc = Threads
  BY DEF TypeOK
<1>2. PICK n \in Nat : n = Len(scopes) /\ DOMAIN scopes = 1 .. n
  BY <1>1
<1>3. PICK e \in BOOLEAN :
        /\ pc' = [pc EXCEPT ![t] = IF e THEN "enable" ELSE "snapshot"]
        /\ scopes' = Append(
             [i \in DOMAIN scopes |-> [scopes[i] EXCEPT !.overlapped = @ \/ Storing(i)]],
             [thread |-> t, previous_enabled |-> enabled, on |-> enabled \/ e,
              overlapped |-> FALSE, ready |-> FALSE, baseline |-> 0, before |-> {}, after |-> {}])
  BY DEF ScopeBegin, Here
<1>4. PICK v \in BOOLEAN : v <=> (enabled \/ e)
  OBVIOUS
<1>5. PICK new : new = [thread |-> t, previous_enabled |-> enabled, on |-> v, overlapped |-> FALSE,
                       ready |-> FALSE, baseline |-> 0, before |-> {}, after |-> {}]
  OBVIOUS
<1>6. new \in Scopes
  BY <1>1, <1>5 DEF Scopes
<1>7. PICK old : old = [i \in 1 .. n |-> [scopes[i] EXCEPT !.overlapped = @ \/ Storing(i)]]
  OBVIOUS
<1>8. ASSUME NEW i \in 1 .. n
      PROVE  /\ old[i] \in Scopes
             /\ old[i].thread = scopes[i].thread /\ old[i].on = scopes[i].on
             /\ old[i].previous_enabled = scopes[i].previous_enabled
             /\ old[i].ready = scopes[i].ready /\ old[i].baseline = scopes[i].baseline
             /\ old[i].before = scopes[i].before /\ old[i].after = scopes[i].after
             /\ old[i].overlapped <=> scopes[i].overlapped \/ Storing(i)
  <2>1. PICK s \in Scopes : s = scopes[i]
    BY <1>1, <1>2
  <2>2. PICK o \in BOOLEAN : o = (s.overlapped \/ Storing(i))
    BY ScopeFields
  <2>3. old[i] = [s EXCEPT !.overlapped = o]
    BY <1>7, <2>1, <2>2
  <2>4. /\ old[i] \in Scopes /\ old[i].overlapped = o /\ old[i].thread = s.thread /\ old[i].on = s.on
        /\ old[i].previous_enabled = s.previous_enabled /\ old[i].ready = s.ready
        /\ old[i].baseline = s.baseline /\ old[i].before = s.before /\ old[i].after = s.after
    BY <2>3 DEF Scopes
  <2> QED BY <2>1, <2>2, <2>4
<1>9. old \in Seq(Scopes) /\ Len(old) = n
  <2>1. old \in [1 .. n -> Scopes]
    BY <1>7, <1>8
  <2> QED BY <2>1
<1>10. scopes' = Append(old, new)
  <2>1. new = [thread |-> t, previous_enabled |-> enabled, on |-> enabled \/ e, overlapped |-> FALSE,
               ready |-> FALSE, baseline |-> 0, before |-> {}, after |-> {}]
    BY <1>4, <1>5
  <2> QED BY <1>2, <1>3, <1>7, <2>1
<1>11. /\ scopes' \in Seq(Scopes) /\ DOMAIN scopes' = 1 .. (n + 1) /\ scopes'[n + 1] = new
       /\ \A i \in 1 .. n : scopes'[i] = old[i]
  BY <1>6, <1>9, <1>10
<1>12. /\ new.thread = t /\ ~new.ready /\ new.before = {} /\ new.after = {} /\ new.previous_enabled = enabled
       /\ new.on = v
  BY <1>5
<1>13. new.on => enabled \/ pc'[t] = "enable"
  BY <1>1, <1>3, <1>4, <1>12
<1> QED BY <1>2, <1>8, <1>11, <1>12, <1>13

\* Tallies are numbers, whatever a call adds or takes away.
LEMMA MaxType ==
  ASSUME NEW x \in Int
  PROVE  Max({x, 0}) \in Nat /\ (x >= 0 => Max({x, 0}) = x)
<1>1. CASE x >= 0
  <2>1. Max({x, 0}) = x
    <3>1. \A m \in {x, 0} : (\A y \in {x, 0} : y <= m) <=> m = x
      BY <1>1
    <3> QED BY <3>1 DEF Max
  <2> QED BY <1>1, <2>1
<1>2. CASE ~(x >= 0)
  <2>1. \A m \in {x, 0} : (\A y \in {x, 0} : y <= m) <=> m = 0
    BY <1>2
  <2> QED BY <1>2, <2>1 DEF Max
<1> QED BY <1>1, <1>2

\* The greater of two numbers.
LEMMA MaxOfTwo ==
  ASSUME NEW x \in Nat, NEW y \in Nat
  PROVE  Max({x, y}) \in Nat /\ Max({x, y}) >= x /\ Max({x, y}) >= y /\ Max({x, y}) \in {x, y}
<1>1. \E m \in {x, y} : \A z \in {x, y} : z <= m
  <2>1. CASE x <= y
    BY <2>1
  <2>2. CASE y <= x
    BY <2>2
  <2> QED BY <2>1, <2>2
<1>2. Max({x, y}) \in {x, y} /\ \A z \in {x, y} : z <= Max({x, y})
  BY <1>1, Zenon DEF Max
<1> QED BY <1>2

-----------------------------------------------------------------------------
(* Types.                                                                  *)

Labels == {"idle", "enabled?", "record", "node", "erase", "erase[]", "free",
           "reset", "enable", "snapshot"}

\* The address of a call that is under way.
LEMMA ArgType ==
  ASSUME TypeOK, CallsOK, NEW t \in Threads, pc[t] \in NewLabels \cup DeleteLabels
  PROVE  arg[t] \in Addrs /\ nullptr \notin Addrs
BY LeakAssumption DEF TypeOK, CallsOK

\* A thread enters the detector from outside and leaves it from inside.
LEMMA DepthType ==
  ASSUME TypeOK, GuardOK, NEW t \in Threads
  PROVE  /\ pc[t] \in InsideLabels =>
              /\ Unguard(t) \in [Threads -> 0 .. 1] /\ Unguard(t)[t] = 0
              /\ \A u \in Threads : u # t => Unguard(t)[u] = g_detector_depth[u]
         /\ pc[t] \notin InsideLabels =>
              /\ Guard(t) \in [Threads -> 0 .. 1] /\ Guard(t)[t] = 1
              /\ \A u \in Threads : u # t => Guard(t)[u] = g_detector_depth[u]
<1>1. g_detector_depth \in [Threads -> 0 .. 1]
  BY DEF TypeOK
<1>2. CASE pc[t] \in InsideLabels
  <2>1. g_detector_depth[t] = 1
    BY <1>2 DEF GuardOK
  <2> QED BY <1>1, <1>2, <2>1 DEF Unguard
<1>3. CASE pc[t] \notin InsideLabels
  <2>1. g_detector_depth[t] = 0
    BY <1>1, <1>3 DEF GuardOK
  <2> QED BY <1>1, <1>3, <2>1 DEF Guard
<1> QED BY <1>2, <1>3

\* The type of the blocks.
LEMMA HeapType ==
  ASSUME TypeOK, CallsOK, [Next]_vars
  PROVE  heap' \in [Addrs -> Blocks]
<1>1. heap \in [Addrs -> Blocks] /\ Free \in Blocks
  BY DEF TypeOK, Free, Blocks
<1>2. ASSUME NEW t \in Threads, New(t)
      PROVE  heap' \in [Addrs -> Blocks]
  <2>1. PICK a \in Addrs, request \in Requests : heap' = allocateRaw(a, request)
    BY <1>2 DEF New
  <2>2. [state |-> "new", size |-> request[1], array |-> request[2], lost |-> FALSE] \in Blocks
    BY LeakAssumption DEF Blocks
  <2> QED BY <1>1, <2>1, <2>2 DEF allocateRaw
<1>3. ASSUME NEW t \in Threads, arg[t] \in Addrs
      PROVE  Returned(t) \in [Addrs -> Blocks]
  BY <1>1, <1>3, BlockState DEF Returned, States
<1>4. ASSUME NEW t \in Threads, TestEnabled(t) \/ Emplace(t)
      PROVE  heap' \in [Addrs -> Blocks]
  <2>1. arg[t] \in Addrs
    BY <1>4, ArgType DEF TestEnabled, Emplace, NewLabels
  <2> QED BY <1>1, <1>3, <1>4, <2>1 DEF TestEnabled, Emplace
<1>5. ASSUME NEW t \in Threads, EmplaceFails(t)
      PROVE  heap' \in [Addrs -> Blocks]
  <2>1. arg[t] \in Addrs
    BY <1>5, ArgType DEF EmplaceFails, NewLabels
  <2>2. PICK h \in [Addrs -> Blocks] : h = Returned(t)
    BY <1>3, <2>1
  <2>3. heap' = [h EXCEPT ![arg[t]].lost = TRUE]
    BY <1>5, <2>2 DEF EmplaceFails
  <2> QED BY <2>1, <2>3, BlockLost
<1>6. ASSUME NEW t \in Threads, NEW a \in Addrs, Delete(t, a)
      PROVE  heap' \in [Addrs -> Blocks]
  BY <1>1, <1>6, BlockState DEF Delete, AtDelete, States
<1>7. ASSUME NEW t \in Threads, FreeRaw(t)
      PROVE  heap' \in [Addrs -> Blocks]
  BY <1>1, <1>7, ArgType DEF FreeRaw, DeleteLabels
<1>8. CASE UNCHANGED heap
  BY <1>1, <1>8
<1> QED BY <1>2, <1>4, <1>5, <1>6, <1>7, <1>8 DEF Next, Step, Call, vars, RecordLock, Erase, ScopeSnapshot,
        ScopeBegin, ScopeEnable, ScopeEnd, reset, ResetLocked, setEnabled

\* The type of the scopes.
LEMMA ScopesType ==
  ASSUME TypeOK, [Next]_vars
  PROVE  scopes' \in Seq(Scopes)
<1>1. scopes \in Seq(Scopes) /\ next_sequence \in Nat
  BY DEF TypeOK
<1>2. ASSUME NEW t \in Threads, New(t)
      PROVE  scopes' \in Seq(Scopes)
  <2>1. PICK a \in Addrs : scopes' = Noted(a, TRUE)
    BY <1>2 DEF New
  <2>2. TRUE \in BOOLEAN
    OBVIOUS
  <2> QED BY <2>1, <2>2, NotedStep
<1>3. ASSUME NEW t \in Threads, NEW a \in Addrs, Delete(t, a)
      PROVE  scopes' \in Seq(Scopes)
  <2>1. FALSE \in BOOLEAN
    OBVIOUS
  <2> QED BY <1>3, <2>1, NotedStep DEF Delete
<1>4. ASSUME NEW t \in Threads, ScopeBegin(t)
      PROVE  scopes' \in Seq(Scopes)
  BY <1>4, BeginFacts
<1>5. ASSUME NEW t \in Threads, ScopeSnapshot(t)
      PROVE  scopes' \in Seq(Scopes)
  BY <1>5, SnapshotFacts
<1>6. ASSUME NEW t \in Threads, ScopeEnd(t)
      PROVE  scopes' \in Seq(Scopes)
  <2>1. scopes # << >> /\ scopes' = SubSeq(scopes, 1, Len(scopes) - 1)
    BY <1>6 DEF ScopeEnd
  <2> QED BY <1>1, <2>1
<1>7. CASE UNCHANGED scopes
  BY <1>1, <1>7
<1> QED BY <1>2, <1>3, <1>4, <1>5, <1>6, <1>7 DEF Next, Step, Call, vars, TestEnabled, RecordLock, Emplace,
        EmplaceFails, Erase, FreeRaw, reset, ResetLocked, setEnabled, ScopeEnable

\* A record that is made or removed.
LEMMA TableType ==
  ASSUME TypeOK, CallsOK, [Next]_vars
  PROVE  live_allocations' \in [Addrs -> Records \cup {NoRecord}] /\ next_sequence' \in Nat \ {0}
<1>1. /\ live_allocations \in [Addrs -> Records \cup {NoRecord}] /\ heap \in [Addrs -> Blocks]
      /\ next_sequence \in Nat \ {0}
  BY DEF TypeOK
<1>2. ASSUME NEW t \in Threads, Emplace(t)
      PROVE  live_allocations' \in [Addrs -> Records \cup {NoRecord}]
  <2>1. PICK a \in Addrs : a = arg[t]
    BY <1>2, ArgType DEF Emplace, NewLabels
  <2>2. PICK r : r = [size |-> heap[a].size, array |-> heap[a].array, sequence |-> next_sequence - 1]
    OBVIOUS
  <2>3. r \in Records
    BY <1>1, <2>2 DEF Blocks, Records
  <2>4. live_allocations' = [live_allocations EXCEPT ![a] = r]
    BY <1>2, <2>1, <2>2 DEF Emplace
  <2> QED BY <1>1, <2>3, <2>4
<1>3. ASSUME NEW t \in Threads, Erase(t)
      PROVE  live_allocations' \in [Addrs -> Records \cup {NoRecord}]
  BY <1>1, <1>3 DEF Erase
<1>4. ASSUME NEW t \in Threads, ResetLocked(t)
      PROVE  live_allocations' \in [Addrs -> Records \cup {NoRecord}] /\ next_sequence' \in Nat \ {0}
  BY <1>4 DEF ResetLocked
<1>5. ASSUME NEW t \in Threads, RecordLock(t)
      PROVE  next_sequence' \in Nat \ {0} /\ UNCHANGED live_allocations
  BY <1>1, <1>5 DEF RecordLock
<1>6. UNCHANGED live_allocations => live_allocations' \in [Addrs -> Records \cup {NoRecord}]
  BY <1>1
<1>7. UNCHANGED next_sequence => next_sequence' \in Nat \ {0}
  BY <1>1
<1> QED BY <1>2, <1>3, <1>4, <1>5, <1>6, <1>7 DEF Next, Step, Call, vars, table, New, TestEnabled, Emplace, Erase,
        EmplaceFails, Delete, FreeRaw, ScopeSnapshot, ScopeBegin, ScopeEnable, ScopeEnd, setEnabled, reset

\* The tallies.
LEMMA StatsFields ==
  ASSUME NEW s \in Stats
  PROVE  /\ s.live_allocations \in Nat /\ s.live_bytes \in Nat /\ s.peak_live_bytes \in Nat
         /\ s.total_allocations \in Nat /\ s.total_bytes \in Nat /\ s.total_frees \in Nat
         /\ s.mismatched_deletes \in Nat
BY DEF Stats

\* The tallies after a record is made: it replaces no other.
LEMMA EmplaceStats ==
  ASSUME TypeOK, CallsOK, NEW t \in Threads, Emplace(t)
  PROVE  /\ stats' \in Stats
         /\ stats'.live_allocations = stats.live_allocations + 1
         /\ stats'.total_allocations = stats.total_allocations + 1
         /\ stats'.total_frees = stats.total_frees
         /\ stats'.mismatched_deletes = stats.mismatched_deletes
         /\ stats'.live_bytes = heap[arg[t]].size + stats.live_bytes
         /\ stats'.total_bytes = stats.total_bytes + heap[arg[t]].size
         /\ stats'.live_bytes <= stats'.peak_live_bytes
         /\ stats'.peak_live_bytes \in {stats.peak_live_bytes, stats'.live_bytes}
<1>1. PICK a \in Addrs : a = arg[t]
  BY ArgType DEF Emplace, NewLabels
<1>2. live_allocations[a] = NoRecord
  BY <1>1 DEF Emplace, CallsOK, NewLabels
<1>3. PICK s \in Stats : s = stats
  BY DEF TypeOK
<1>4. PICK size \in Nat : size = heap[a].size
  BY DEF TypeOK, Blocks
<1>5. s.live_bytes \in Nat /\ s.peak_live_bytes \in Nat /\ s.total_bytes \in Nat
  BY DEF Stats
<1>6. PICK bytes \in Nat : bytes = size + s.live_bytes
  BY <1>5
<1>7. PICK peak \in Nat : /\ peak = Max({s.peak_live_bytes, bytes})
                          /\ bytes <= peak /\ peak \in {s.peak_live_bytes, bytes}
  BY <1>5, MaxOfTwo
<1>8. PICK total \in Nat : total = s.total_bytes + size
  BY <1>5
<1>9. stats' = [s EXCEPT !.live_allocations = @ + 1, !.live_bytes = bytes, !.total_allocations = @ + 1,
                         !.total_bytes = total, !.peak_live_bytes = peak]
  <2>1. stats' = [s EXCEPT !.live_allocations = @ + 1, !.live_bytes = size + s.live_bytes,
                           !.total_allocations = @ + 1, !.total_bytes = @ + size,
                           !.peak_live_bytes = Max({@, size + s.live_bytes})]
    BY <1>1, <1>2, <1>3, <1>4, Zenon DEF Emplace
  <2> QED BY <1>3, <1>6, <1>7, <1>8, <2>1 DEF Stats
<1>10. PICK live \in Nat, made \in Nat : live = s.live_allocations + 1 /\ made = s.total_allocations + 1
  BY StatsFields
<1>11. stats' = [live_allocations |-> live, live_bytes |-> bytes, peak_live_bytes |-> peak,
                 total_allocations |-> made, total_bytes |-> total, total_frees |-> s.total_frees,
                 mismatched_deletes |-> s.mismatched_deletes]
  BY <1>9, <1>10 DEF Stats
<1>12. s.total_frees \in Nat /\ s.mismatched_deletes \in Nat
  BY StatsFields
<1>13. stats' \in Stats
  BY <1>11, <1>12 DEF Stats
<1> QED BY <1>1, <1>3, <1>4, <1>6, <1>7, <1>8, <1>10, <1>11, <1>13

\* The tallies after one is removed.
LEMMA EraseStats ==
  ASSUME TypeOK, NEW t \in Threads, Erase(t), live_allocations[arg[t]] # NoRecord, arg[t] \in Addrs
  PROVE  /\ stats' \in Stats
         /\ stats'.live_allocations = Cardinality(Recorded) - 1
         /\ stats'.total_allocations = stats.total_allocations
         /\ stats'.total_frees = stats.total_frees + 1
         /\ stats'.mismatched_deletes \in {stats.mismatched_deletes, stats.mismatched_deletes + 1}
         /\ stats'.live_bytes = Max({stats.live_bytes - live_allocations[arg[t]].size, 0})
         /\ stats'.peak_live_bytes = stats.peak_live_bytes /\ stats'.total_bytes = stats.total_bytes
<1>1. PICK a \in Addrs : a = arg[t]
  OBVIOUS
<1>2. PICK s \in Stats : s = stats
  BY DEF TypeOK
<1>3. s.live_bytes \in Nat /\ s.mismatched_deletes \in Nat
  BY DEF Stats
<1>4. PICK size \in Nat : size = live_allocations[a].size
  BY <1>1 DEF TypeOK, Records
<1>5. PICK bytes \in Nat : bytes = Max({s.live_bytes - size, 0})
  BY <1>3, MaxType
<1>6. PICK wrong \in Nat : /\ wrong = IF live_allocations[a].array # (pc[t] = "erase[]") THEN s.mismatched_deletes + 1
                                   ELSE s.mismatched_deletes
                           /\ wrong \in {s.mismatched_deletes, s.mismatched_deletes + 1}
  BY <1>3
<1>7. Cardinality(Recorded) - 1 \in Nat
  <2>1. IsFiniteSet(Recorded)
    BY LeakAssumption, FS_Subset DEF Recorded
  <2>2. a \in Recorded
    BY <1>1 DEF Recorded
  <2>3. Cardinality(Recorded) \in Nat /\ Cardinality(Recorded) # 0
    BY <2>1, <2>2, FS_CardinalityType, FS_EmptySet
  <2> QED BY <2>3
<1>8. PICK live \in Nat : live = Cardinality(Recorded) - 1
  BY <1>7
<1>9. stats' = [s EXCEPT !.mismatched_deletes = wrong, !.live_bytes = bytes, !.live_allocations = live,
                         !.total_frees = @ + 1]
  <2>1. stats' = [s EXCEPT
                  !.mismatched_deletes =
                     IF live_allocations[a].array # (pc[t] = "erase[]") THEN @ + 1 ELSE @,
                  !.live_bytes = Max({@ - live_allocations[a].size, 0}),
                  !.live_allocations = Cardinality(Recorded) - 1,
                  !.total_frees = @ + 1]
    BY <1>1, <1>2, Zenon DEF Erase
  <2> QED BY <1>2, <1>4, <1>5, <1>6, <1>8, <2>1 DEF Stats
<1>10. PICK frees \in Nat : frees = s.total_frees + 1
  BY StatsFields
<1>11. stats' = [live_allocations |-> live, live_bytes |-> bytes, peak_live_bytes |-> s.peak_live_bytes,
                 total_allocations |-> s.total_allocations, total_bytes |-> s.total_bytes,
                 total_frees |-> frees, mismatched_deletes |-> wrong]
  BY <1>9, <1>10 DEF Stats
<1>12. s.peak_live_bytes \in Nat /\ s.total_allocations \in Nat /\ s.total_bytes \in Nat
  BY StatsFields
<1>13. stats' \in Stats
  BY <1>11, <1>12 DEF Stats
<1> QED BY <1>1, <1>2, <1>4, <1>5, <1>6, <1>8, <1>10, <1>11, <1>13

\* The type of the tallies: a record that is erased was counted.
LEMMA StatsType ==
  ASSUME TypeOK, CallsOK, [Next]_vars
  PROVE  stats' \in Stats
<1>1. stats \in Stats /\ NoStats \in Stats
  BY DEF TypeOK, NoStats, Stats
<1>2. ASSUME NEW t \in Threads, Emplace(t)
      PROVE  stats' \in Stats
  BY <1>2, EmplaceStats
<1>3. ASSUME NEW t \in Threads, Erase(t)
      PROVE  stats' \in Stats
  <2>1. arg[t] \in Addrs
    BY <1>3, ArgType DEF Erase, DeleteLabels
  <2>2. CASE live_allocations[arg[t]] # NoRecord
    BY <1>3, <2>1, <2>2, EraseStats
  <2>3. CASE live_allocations[arg[t]] = NoRecord
    BY <1>1, <1>3, <2>3 DEF Erase, NotFound
  <2> QED BY <2>2, <2>3
<1>4. ASSUME NEW t \in Threads, ResetLocked(t)
      PROVE  stats' \in Stats
  BY <1>1, <1>4 DEF ResetLocked
<1>5. CASE UNCHANGED stats
  BY <1>1, <1>5
<1> QED BY <1>2, <1>3, <1>4, <1>5 DEF Next, Step, Call, vars, table, New, TestEnabled, RecordLock,
        EmplaceFails, Delete, FreeRaw, ScopeSnapshot, ScopeBegin, ScopeEnable, ScopeEnd, setEnabled, reset

\* The types of the threads' own variables.
LEMMA CallType ==
  ASSUME TypeOK, [Next]_vars
  PROVE  /\ mutex' \in Threads \cup {NoThread} /\ enabled' \in BOOLEAN
         /\ pc' \in [Threads -> Labels] /\ arg' \in [Threads -> Addrs \cup {nullptr}]
         /\ calls' \in [new : Nat, reset : Nat, scope : Nat]
<1>1. mutex' \in Threads \cup {NoThread}
  BY DEF TypeOK, Next, Step, Call, vars, New, TestEnabled, RecordLock, Lock, Unlock, Emplace, EmplaceFails, Delete,
         Erase, FreeRaw, ScopeSnapshot, ScopeBegin, ScopeEnable, ScopeEnd, setEnabled, reset, ResetLocked
<1>2. pc' \in [Threads -> Labels]
  <2>1. pc \in [Threads -> Labels]
    BY DEF TypeOK, Labels
  <2>2. ASSUME NEW t \in Threads, NEW l \in Labels, Here(t, l)
        PROVE  pc' \in [Threads -> Labels]
    BY <2>1, <2>2 DEF Here
  <2>3. ASSUME NEW t \in Threads, Step(t) \/ Call(t)
        PROVE  UNCHANGED pc \/ \E l \in Labels : Here(t, l)
    BY <2>3, Zenon DEF Step, Call, New, TestEnabled, RecordLock, Emplace, EmplaceFails, Delete, Return, Labels,
         Erase, FreeRaw, ScopeSnapshot, ScopeBegin, ScopeEnable, ScopeEnd, setEnabled, reset, ResetLocked
  <2> QED BY <2>1, <2>2, <2>3 DEF Next, vars
<1>3. arg' \in [Threads -> Addrs \cup {nullptr}]
  <2>1. arg \in [Threads -> Addrs \cup {nullptr}]
    BY DEF TypeOK
  <2>2. ASSUME NEW t \in Threads, NEW a \in Addrs \cup {nullptr}, arg' = [arg EXCEPT ![t] = a]
        PROVE  arg' \in [Threads -> Addrs \cup {nullptr}]
    BY <2>1, <2>2
  <2>3. ASSUME NEW t \in Threads, Step(t) \/ Call(t)
        PROVE  UNCHANGED arg \/ \E a \in Addrs \cup {nullptr} : arg' = [arg EXCEPT ![t] = a]
    BY <2>3, Zenon DEF Step, Call, New, TestEnabled, RecordLock, Emplace, EmplaceFails, Delete, Return,
         Erase, FreeRaw, ScopeSnapshot, ScopeBegin, ScopeEnable, ScopeEnd, setEnabled, reset, ResetLocked
  <2> QED BY <2>1, <2>2, <2>3 DEF Next, vars
<1>4. enabled' \in BOOLEAN
  <2>1. enabled \in BOOLEAN /\ scopes \in Seq(Scopes)
    BY DEF TypeOK
  <2>2. ASSUME NEW t \in Threads, ScopeEnd(t)
        PROVE  enabled' \in BOOLEAN
    <3>1. scopes # << >> /\ enabled' = scopes[Len(scopes)].previous_enabled
      BY <2>2 DEF ScopeEnd
    <3>2. scopes[Len(scopes)] \in Scopes
      BY <2>1, <3>1
    <3> QED BY <3>1, <3>2, ScopeFields
  <2>3. ASSUME NEW t \in Threads, ScopeEnable(t) \/ \E on \in BOOLEAN : setEnabled(t, on)
        PROVE  enabled' \in BOOLEAN
    BY <2>1, <2>3 DEF ScopeEnable, setEnabled
  <2>4. CASE UNCHANGED enabled
    BY <2>1, <2>4
  <2> QED BY <2>2, <2>3, <2>4 DEF Next, Step, Call, vars, New, TestEnabled, RecordLock, Emplace, EmplaceFails,
          Delete, Erase, FreeRaw, ScopeSnapshot, ScopeBegin, reset, ResetLocked
<1>5. calls' \in [new : Nat, reset : Nat, scope : Nat]
  <2>1. calls \in [new : Nat, reset : Nat, scope : Nat]
    BY DEF TypeOK
  <2>2. ASSUME NEW t \in Threads, New(t)
        PROVE  calls' \in [new : Nat, reset : Nat, scope : Nat]
    BY <2>1, <2>2 DEF New
  <2>3. ASSUME NEW t \in Threads, ScopeBegin(t)
        PROVE  calls' \in [new : Nat, reset : Nat, scope : Nat]
    BY <2>1, <2>3 DEF ScopeBegin
  <2>4. ASSUME NEW t \in Threads, reset(t) \/ \E on \in BOOLEAN : setEnabled(t, on)
        PROVE  calls' \in [new : Nat, reset : Nat, scope : Nat]
    BY <2>1, <2>4 DEF setEnabled, reset
  <2>5. CASE UNCHANGED calls
    BY <2>1, <2>5
  <2> QED BY <2>2, <2>3, <2>4, <2>5 DEF Next, Step, Call, vars, TestEnabled, RecordLock, Emplace, EmplaceFails,
          Delete, Erase, FreeRaw, ScopeSnapshot, ScopeEnable, ScopeEnd, ResetLocked
<1> QED BY <1>1, <1>2, <1>3, <1>4, <1>5

\* The types are kept.
LEMMA TypeStep ==
  ASSUME TypeOK, CallsOK, GuardOK, [Next]_vars
  PROVE  TypeOK'
<1>1. g_detector_depth' \in [Threads -> 0 .. 1]
  <2>1. ASSUME NEW t \in Threads, TestEnabled(t) \/ reset(t) \/ \E a \in Addrs : Delete(t, a)
        PROVE  g_detector_depth' \in [Threads -> 0 .. 1]
    BY <2>1, DepthType DEF TestEnabled, Delete, reset, TypeOK, InsideLabels
  <2>2. ASSUME NEW t \in Threads, Emplace(t) \/ EmplaceFails(t) \/ Erase(t) \/ ResetLocked(t)
        PROVE  g_detector_depth' \in [Threads -> 0 .. 1]
    BY <2>2, DepthType DEF Emplace, EmplaceFails, Erase, ResetLocked, InsideLabels
  <2>3. CASE UNCHANGED g_detector_depth
    BY <2>3 DEF TypeOK
  <2> QED BY <2>1, <2>2, <2>3 DEF Next, Step, Call, vars, New, RecordLock, FreeRaw, ScopeSnapshot,
          ScopeBegin, ScopeEnable, ScopeEnd, setEnabled
<1> QED BY <1>1, HeapType, ScopesType, TableType, StatsType, CallType DEF TypeOK, Labels

-----------------------------------------------------------------------------
(* A call owns its block.                                                  *)

\* Thread t works on block c and leaves the other blocks and calls alone.
LEMMA CallFrame ==
  ASSUME TypeOK, TypeOK', CallsOK, NEW t \in Threads, NEW c \in Addrs,
         \A u \in Threads : u # t => pc'[u] = pc[u] /\ arg'[u] = arg[u] /\ arg[u] # c,
         \A b \in Addrs : b # c => State(b)' = State(b) /\ live_allocations'[b] = live_allocations[b],
         arg'[t] \in {c, nullptr},
         arg'[t] # nullptr <=> pc'[t] \in NewLabels \cup DeleteLabels,
         pc'[t] \in NewLabels => State(c)' = "new" /\ live_allocations'[c] = NoRecord,
         pc'[t] \in DeleteLabels => State(c)' = "delete",
         pc'[t] = "free" => live_allocations'[c] = NoRecord
  PROVE  CallsOK'
<1>1. nullptr \notin Addrs
  BY LeakAssumption
<1>2. ASSUME NEW u \in Threads
      PROVE  /\ arg'[u] # nullptr <=> pc'[u] \in NewLabels \cup DeleteLabels
             /\ pc'[u] \in NewLabels => State(arg[u])' = "new" /\ live_allocations'[arg'[u]] = NoRecord
             /\ pc'[u] \in DeleteLabels => State(arg[u])' = "delete"
             /\ pc'[u] = "free" => live_allocations'[arg'[u]] = NoRecord
  <2>1. CASE u = t
    BY <2>1 DEF State, DeleteLabels
  <2>2. CASE u # t
    <3>1. pc'[u] = pc[u] /\ arg'[u] = arg[u] /\ arg[u] # c /\ (arg[u] # nullptr => arg[u] \in Addrs)
      BY <2>2 DEF TypeOK
    <3>2. arg[u] # nullptr => heap'[arg[u]].state = heap[arg[u]].state /\ live_allocations'[arg[u]] = live_allocations[arg[u]]
      BY <3>1 DEF State
    <3> QED BY <3>1, <3>2 DEF CallsOK, State, DeleteLabels
  <2> QED BY <2>1, <2>2
<1>3. ASSUME NEW u \in Threads, NEW w \in Threads, arg'[u] # nullptr, arg'[u] = arg'[w]
      PROVE  u = w
  BY <1>3 DEF CallsOK
<1> QED BY <1>2, <1>3 DEF CallsOK

\* Where a thread is that works on no block.
OtherLabels == {"idle", "reset", "enable", "snapshot"}

\* A step that is no part of such a call.
LEMMA CallFrameIdle ==
  ASSUME CallsOK, UNCHANGED <<heap, arg>>,
         \A u \in Threads : pc'[u] = pc[u] \/ (pc[u] \in OtherLabels /\ pc'[u] \in OtherLabels),
         \A u \in Threads : arg[u] # nullptr =>
            live_allocations'[arg[u]] = live_allocations[arg[u]] \/ live_allocations'[arg[u]] = NoRecord
  PROVE  CallsOK'
BY DEF CallsOK, State, NewLabels, DeleteLabels, OtherLabels

\* operator new gets an address that no call has.
LEMMA CallsNew ==
  ASSUME Base, TypeOK', NEW t \in Threads, New(t)
  PROVE  CallsOK'
<1>1. PICK a \in Addrs, request \in Requests :
        heap[a] = Free /\ heap' = allocateRaw(a, request) /\ arg' = [arg EXCEPT ![t] = a]
  BY DEF New
<1>2. /\ pc[t] = "idle" /\ pc' = [pc EXCEPT ![t] = "enabled?"] /\ UNCHANGED live_allocations
      /\ TypeOK /\ CallsOK /\ RecordsLive
  BY DEF New, Here, table, Base
<1>3. nullptr \notin Addrs
  BY LeakAssumption
<1>4. \A u \in Threads : u # t => pc'[u] = pc[u] /\ arg'[u] = arg[u] /\ arg[u] # a
  <2>1. State(a) = "free"
    BY <1>1 DEF State, Free
  <2>2. \A u \in Threads : arg[u] # a
    BY <1>2, <1>3, <2>1 DEF CallsOK
  <2> QED BY <1>1, <1>2, <2>2 DEF TypeOK
<1>5. live_allocations[a] = NoRecord
  BY <1>1, <1>2 DEF RecordsLive, Recorded, Free
<1>6. /\ \A b \in Addrs : b # a => heap'[b] = heap[b]
      /\ heap'[a].state = "new" /\ arg'[t] = a /\ pc'[t] = "enabled?"
  BY <1>1, <1>2 DEF allocateRaw, TypeOK
<1> QED BY <1>2, <1>3, <1>4, <1>5, <1>6, CallFrame DEF State, NewLabels, DeleteLabels

\* The rest of operator new: nothing is recorded, the mutex is taken, the
\* record is made or is not.
LEMMA ReturnedFacts ==
  ASSUME TypeOK, NEW t \in Threads, arg[t] \in Addrs
  PROVE  /\ Returned(t)[arg[t]].state = "held" /\ Returned(t)[arg[t]].lost = heap[arg[t]].lost
         /\ Returned(t)[arg[t]].size = heap[arg[t]].size
         /\ Returned(t)[arg[t]].array = heap[arg[t]].array
         /\ \A b \in Addrs : b # arg[t] => Returned(t)[b] = heap[b]
<1>1. heap \in [Addrs -> Blocks] /\ "held" \in States
  BY DEF TypeOK, States
<1> QED BY <1>1, BlockState DEF Returned

\* The same when the node could not be allocated.
LEMMA LostFacts ==
  ASSUME TypeOK, NEW t \in Threads, arg[t] \in Addrs, EmplaceFails(t)
  PROVE  /\ heap'[arg[t]].state = "held" /\ heap'[arg[t]].lost
         /\ heap'[arg[t]].size = heap[arg[t]].size
         /\ heap'[arg[t]].array = heap[arg[t]].array
         /\ \A b \in Addrs : b # arg[t] => heap'[b] = heap[b]
<1>1. heap \in [Addrs -> Blocks] /\ "held" \in States
  BY DEF TypeOK, States
<1>2. PICK h \in [Addrs -> Blocks] : h = Returned(t)
  BY <1>1, BlockState DEF Returned
<1>3. heap' = [h EXCEPT ![arg[t]].lost = TRUE]
  BY <1>2 DEF EmplaceFails
<1> QED BY <1>2, <1>3, BlockLost, ReturnedFacts

\* The steps of recordAllocation() keep the block their call owns.
LEMMA CallsReturn ==
  ASSUME Base, TypeOK', NEW t \in Threads, TestEnabled(t) \/ RecordLock(t) \/ Emplace(t) \/ EmplaceFails(t)
  PROVE  CallsOK'
<1>1. TypeOK /\ CallsOK /\ pc[t] \in NewLabels
  BY DEF Base, TestEnabled, RecordLock, Emplace, EmplaceFails, NewLabels
<1>2. PICK c \in Addrs : c = arg[t]
  BY <1>1, ArgType
<1>3. nullptr \notin Addrs /\ State(c) = "new" /\ live_allocations[c] = NoRecord
  BY <1>1, <1>2, LeakAssumption DEF CallsOK
<1>4. \A b \in Addrs : b # c => heap'[b] = heap[b] /\ live_allocations'[b] = live_allocations[b]
  <2>1. CASE TestEnabled(t) \/ RecordLock(t) \/ Emplace(t)
    BY <1>1, <1>2, <2>1, ReturnedFacts DEF TestEnabled, RecordLock, Emplace, table, TypeOK
  <2>2. CASE EmplaceFails(t)
    BY <1>1, <1>2, <2>2, LostFacts DEF EmplaceFails, table
  <2> QED BY <2>1, <2>2
<1>5. \A u \in Threads : u # t => pc'[u] = pc[u] /\ arg'[u] = arg[u] /\ arg[u] # c
  BY <1>1, <1>2, <1>3 DEF TestEnabled, RecordLock, Emplace, EmplaceFails, Here, Return, TypeOK, CallsOK
<1>6. \/ pc'[t] = "idle" /\ arg'[t] = nullptr
      \/ /\ pc'[t] \in {"record", "node"} /\ arg'[t] = c
         /\ heap'[c].state = "new" /\ live_allocations'[c] = NoRecord
  BY <1>1, <1>2, <1>3 DEF TestEnabled, RecordLock, Emplace, EmplaceFails, Here, Return, TypeOK, State, table
<1> QED BY <1>1, <1>3, <1>4, <1>5, <1>6, CallFrame DEF State, NewLabels, DeleteLabels

\* operator delete gets a block that somebody holds.
LEMMA CallsDelete ==
  ASSUME Base, TypeOK', NEW t \in Threads, NEW a \in Addrs, Delete(t, a)
  PROVE  CallsOK'
<1>1. /\ TypeOK /\ CallsOK /\ pc[t] = "idle" /\ State(a) = "held"
      /\ arg' = [arg EXCEPT ![t] = a] /\ UNCHANGED live_allocations
  BY DEF Base, Delete, State, table
<1>2. nullptr \notin Addrs /\ heap \in [Addrs -> Blocks] /\ "delete" \in States
  BY <1>1, LeakAssumption DEF TypeOK, States
<1>3. heap'[a].state = "delete" /\ \A b \in Addrs : b # a => heap'[b] = heap[b]
  BY <1>2, BlockState DEF Delete, AtDelete
<1>4. /\ \A u \in Threads : u # t => pc'[u] = pc[u] /\ arg'[u] = arg[u] /\ arg[u] # a
      /\ arg'[t] = a /\ pc'[t] \in {"erase", "erase[]"}
  BY <1>1, <1>2 DEF Delete, Here, TypeOK, CallsOK, NewLabels, DeleteLabels
<1> QED BY <1>1, <1>2, <1>3, <1>4, CallFrame DEF State, NewLabels, DeleteLabels

\* The record goes before the memory.
LEMMA CallsErase ==
  ASSUME Base, TypeOK', NEW t \in Threads, Erase(t) \/ FreeRaw(t)
  PROVE  CallsOK'
<1>1. TypeOK /\ CallsOK /\ pc[t] \in DeleteLabels
  BY DEF Base, Erase, FreeRaw, DeleteLabels
<1>2. PICK c \in Addrs : c = arg[t]
  BY <1>1, ArgType
<1>3. nullptr \notin Addrs /\ State(c) = "delete"
  BY <1>1, <1>2, LeakAssumption DEF CallsOK
<1>4. \A b \in Addrs : b # c => heap'[b] = heap[b] /\ live_allocations'[b] = live_allocations[b]
  BY <1>1, <1>2 DEF Erase, FreeRaw, table, TypeOK
<1>5. \A u \in Threads : u # t => pc'[u] = pc[u] /\ arg'[u] = arg[u] /\ arg[u] # c
  BY <1>1, <1>2, <1>3 DEF Erase, FreeRaw, Here, Return, TypeOK, CallsOK
<1>6. \/ pc'[t] = "idle" /\ arg'[t] = nullptr
      \/ /\ pc'[t] = "free" /\ arg'[t] = c
         /\ heap'[c].state = "delete" /\ live_allocations'[c] = NoRecord
  BY <1>1, <1>2, <1>3 DEF Erase, FreeRaw, Here, Return, TypeOK, State
<1> QED BY <1>1, <1>3, <1>4, <1>5, <1>6, CallFrame DEF State, NewLabels, DeleteLabels

\* No two calls have one block.
LEMMA CallsStep ==
  ASSUME Base, TypeOK', [Next]_vars
  PROVE  CallsOK'
<1>1. TypeOK /\ CallsOK
  BY DEF Base
<1>2. ASSUME NEW t \in Threads, ScopeSnapshot(t) \/ ScopeBegin(t) \/ ScopeEnable(t) \/ reset(t)
      PROVE  CallsOK'
  BY <1>1, <1>2, CallFrameIdle DEF ScopeSnapshot, ScopeBegin, ScopeEnable, reset, Here, table, TypeOK, OtherLabels
<1>3. ASSUME NEW t \in Threads, ScopeEnd(t) \/ (\E on \in BOOLEAN : setEnabled(t, on)) \/ ResetLocked(t)
      PROVE  CallsOK'
  BY <1>1, <1>3, CallFrameIdle DEF ScopeEnd, setEnabled, ResetLocked, Here, table, TypeOK, OtherLabels
<1>4. CASE UNCHANGED vars
  BY <1>1, <1>4, CallFrameIdle DEF vars, table
<1> QED BY <1>2, <1>3, <1>4, CallsNew, CallsReturn, CallsDelete, CallsErase DEF Next, Step, Call

\* The depth and the mutex say who is inside the detector.
LEMMA GuardStep ==
  ASSUME Base, TypeOK', [Next]_vars
  PROVE  GuardOK'
<1>1. TypeOK /\ GuardOK /\ NoThread \notin Threads
  BY LeakAssumption DEF Base
<1> USE DEF InsideLabels
<1>2. ASSUME NEW t \in Threads, TestEnabled(t) \/ reset(t) \/ \E a \in Addrs : Delete(t, a)
      PROVE  GuardOK'
  <2>1. /\ pc[t] \in {"idle", "enabled?"} /\ UNCHANGED mutex /\ \A u \in Threads : u # t => pc'[u] = pc[u]
        /\ \/ g_detector_depth' = Guard(t) /\ pc'[t] \in {"record", "erase", "erase[]", "reset"}
           \/ UNCHANGED g_detector_depth /\ pc'[t] = "idle"
    BY <1>1, <1>2 DEF TestEnabled, Delete, reset, Here, Return, TypeOK
  <2>2. \A u \in Threads : u # t => g_detector_depth'[u] = g_detector_depth[u]
    BY <1>1, <2>1, DepthType
  <2>3. pc'[t] \in InsideLabels <=> g_detector_depth'[t] = 1
    BY <1>1, <2>1, DepthType DEF GuardOK
  <2> QED BY <1>1, <2>1, <2>2, <2>3 DEF GuardOK
<1>3. ASSUME NEW t \in Threads, Emplace(t) \/ EmplaceFails(t)
      PROVE  GuardOK'
  <2>1. /\ pc[t] = "node" /\ mutex' = NoThread /\ g_detector_depth' = Unguard(t)
        /\ pc'[t] = "idle" /\ \A u \in Threads : u # t => pc'[u] = pc[u]
    BY <1>1, <1>3 DEF Emplace, EmplaceFails, Return, Here, Unlock, TypeOK
  <2>2. g_detector_depth'[t] = 0 /\ \A u \in Threads : u # t => g_detector_depth'[u] = g_detector_depth[u]
    BY <1>1, <2>1, DepthType
  <2> QED BY <1>1, <2>1, <2>2 DEF GuardOK
<1>4. ASSUME NEW t \in Threads, Erase(t) \/ ResetLocked(t)
      PROVE  GuardOK'
  <2>1. /\ pc[t] \in {"erase", "erase[]", "reset"} /\ UNCHANGED mutex /\ g_detector_depth' = Unguard(t)
        /\ pc'[t] \in {"free", "idle"} /\ \A u \in Threads : u # t => pc'[u] = pc[u]
    BY <1>1, <1>4 DEF Erase, ResetLocked, Here, TypeOK
  <2>2. g_detector_depth'[t] = 0 /\ \A u \in Threads : u # t => g_detector_depth'[u] = g_detector_depth[u]
    BY <1>1, <2>1, DepthType
  <2> QED BY <1>1, <2>1, <2>2 DEF GuardOK
<1>5. ASSUME NEW t \in Threads, RecordLock(t)
      PROVE  GuardOK'
  BY <1>1, <1>5 DEF RecordLock, Lock, Here, TypeOK, GuardOK
<1>6. ASSUME NEW t \in Threads, New(t) \/ ScopeBegin(t) \/ ScopeEnable(t) \/ ScopeSnapshot(t) \/ FreeRaw(t)
      PROVE  GuardOK'
  <2>1. /\ pc[t] \notin InsideLabels /\ pc'[t] \notin InsideLabels /\ UNCHANGED <<mutex, g_detector_depth>>
        /\ \A u \in Threads : u # t => pc'[u] = pc[u]
    BY <1>1, <1>6 DEF New, ScopeBegin, ScopeEnable, ScopeSnapshot, FreeRaw, Here, Return, TypeOK
  <2> QED BY <1>1, <2>1 DEF GuardOK
<1>7. CASE UNCHANGED <<pc, mutex, g_detector_depth>>
  BY <1>1, <1>7 DEF GuardOK
<1> QED BY <1>2, <1>3, <1>4, <1>5, <1>6, <1>7 DEF Next, Step, Call, vars, ScopeEnd, setEnabled

\* The records: one is made for a block that is allocated and goes before it.
LEMMA RecordsStep ==
  ASSUME Base, TypeOK', [Next]_vars
  PROVE  RecordsLive'
<1>1. TypeOK /\ CallsOK /\ RecordsLive
  BY DEF Base
<1>3. ASSUME NEW t \in Threads, New(t)
      PROVE  RecordsLive'
  <2>1. PICK a \in Addrs, request \in Requests : heap[a] = Free /\ heap' = allocateRaw(a, request)
    BY <1>3 DEF New
  <2>2. UNCHANGED live_allocations /\ live_allocations[a] = NoRecord
    BY <1>1, <1>3, <2>1 DEF New, table, RecordsLive, Recorded, Free
  <2>3. \A b \in Addrs : b # a => heap'[b] = heap[b]
    BY <1>1, <2>1 DEF allocateRaw, TypeOK
  <2> QED BY <1>1, <2>2, <2>3 DEF RecordsLive, Recorded
<1>4. ASSUME NEW t \in Threads, TestEnabled(t) \/ EmplaceFails(t)
      PROVE  RecordsLive'
  <2>1. pc[t] \in NewLabels /\ UNCHANGED live_allocations
    BY <1>4 DEF TestEnabled, EmplaceFails, NewLabels, table
  <2>2. arg[t] \in Addrs /\ live_allocations[arg[t]] = NoRecord
    BY <1>1, <2>1, ArgType DEF CallsOK
  <2>3. \A b \in Addrs : b # arg[t] => heap'[b] = heap[b]
    BY <1>1, <1>4, <2>2, ReturnedFacts, LostFacts DEF TestEnabled
  <2> QED BY <1>1, <2>1, <2>2, <2>3 DEF RecordsLive, Recorded
<1>5. ASSUME NEW t \in Threads, Emplace(t)
      PROVE  RecordsLive'
  <2>1. PICK c \in Addrs : c = arg[t]
    BY <1>1, <1>5, ArgType DEF Emplace, NewLabels
  <2>2. heap' = Returned(t)
    BY <1>5 DEF Emplace
  <2>3. /\ \A b \in Addrs : b # c => heap'[b] = heap[b] /\ live_allocations'[b] = live_allocations[b]
        /\ heap'[c].state = "held" /\ heap'[c].size = heap[c].size /\ heap'[c].array = heap[c].array
    BY <1>1, <1>5, <2>1, <2>2, ReturnedFacts DEF Emplace, TypeOK
  <2>4. live_allocations'[c].size = heap[c].size /\ live_allocations'[c].array = heap[c].array
    BY <1>1, <1>5, <2>1 DEF Emplace, TypeOK
  <2> QED BY <1>1, <2>3, <2>4 DEF RecordsLive, Recorded
<1>6. ASSUME NEW t \in Threads, NEW a \in Addrs, Delete(t, a)
      PROVE  RecordsLive'
  <2>1. heap \in [Addrs -> Blocks] /\ "delete" \in States /\ heap' = AtDelete(a) /\ UNCHANGED live_allocations
    BY <1>1, <1>6 DEF TypeOK, States, Delete, table
  <2>2. /\ heap'[a].state = "delete" /\ heap'[a].size = heap[a].size /\ heap'[a].array = heap[a].array
        /\ \A b \in Addrs : b # a => heap'[b] = heap[b]
    BY <2>1, BlockState DEF AtDelete
  <2> QED BY <1>1, <2>1, <2>2 DEF RecordsLive, Recorded
<1>7. ASSUME NEW t \in Threads, Erase(t)
      PROVE  RecordsLive'
  BY <1>1, <1>7 DEF Erase, TypeOK, RecordsLive, Recorded
<1>8. ASSUME NEW t \in Threads, FreeRaw(t)
      PROVE  RecordsLive'
  <2>1. arg[t] \in Addrs /\ live_allocations[arg[t]] = NoRecord /\ UNCHANGED live_allocations
    BY <1>1, <1>8, ArgType DEF CallsOK, FreeRaw, DeleteLabels, table
  <2>2. \A b \in Addrs : b # arg[t] => heap'[b] = heap[b]
    BY <1>1, <1>8 DEF FreeRaw, TypeOK
  <2> QED BY <1>1, <2>1, <2>2 DEF RecordsLive, Recorded
<1>9. ASSUME NEW t \in Threads, ResetLocked(t)
      PROVE  RecordsLive'
  BY <1>9 DEF ResetLocked, RecordsLive, Recorded
<1>10. CASE UNCHANGED <<heap, live_allocations>>
  BY <1>1, <1>10 DEF RecordsLive, Recorded
<1> QED BY <1>3, <1>4, <1>5, <1>6, <1>7, <1>8, <1>9, <1>10 DEF Next, Step, Call, vars, table, RecordLock, ScopeSnapshot,
        ScopeBegin, ScopeEnable, ScopeEnd, setEnabled, reset

\* The part of the invariant about blocks and calls is inductive.
LEMMA BaseStep ==
  ASSUME Base, [Next]_vars
  PROVE  Base'
<1>1. TypeOK'
  BY TypeStep DEF Base
<1> QED BY <1>1, CallsStep, GuardStep, RecordsStep DEF Base

\* A new detector satisfies it.
LEMMA BaseInit ==
  ASSUME Init
  PROVE  Base
<1>1. TypeOK
  <2>1. NoStats \in Stats /\ Free \in Blocks /\ << >> \in Seq(Scopes)
    BY EmptySeq DEF NoStats, Stats, Free, Blocks
  <2>2. calls \in [new : Nat, reset : Nat, scope : Nat]
    BY LeakAssumption DEF Init
  <2>3. stats \in Stats /\ scopes \in Seq(Scopes) /\ heap \in [Addrs -> Blocks]
    BY <2>1 DEF Init
  <2>4. /\ pc \in [Threads -> Labels] /\ arg \in [Threads -> Addrs \cup {nullptr}]
        /\ mutex \in Threads \cup {NoThread}
        /\ live_allocations \in [Addrs -> Records \cup {NoRecord}]
    BY DEF Init, Labels
  <2>5. g_detector_depth \in [Threads -> 0 .. 1] /\ next_sequence \in Nat \ {0}
    BY DEF Init
  <2>6. enabled \in BOOLEAN
    BY DEF Init
  <2> QED BY <2>2, <2>3, <2>4, <2>5, <2>6 DEF TypeOK, Labels
<1>2. CallsOK
  BY DEF Init, CallsOK, NewLabels, DeleteLabels
<1>3. GuardOK
  BY LeakAssumption DEF Init, GuardOK, InsideLabels
<1>4. RecordsLive
  BY DEF Init, RecordsLive, Recorded
<1> QED BY <1>1, <1>2, <1>3, <1>4 DEF Base

-----------------------------------------------------------------------------
(* Scopes and sequence numbers.                                            *)

\* Sequence numbers stay in order.
LEMMA SequencesStep ==
  ASSUME Base, SequencesOK, [Next]_vars
  PROVE  SequencesOK'
<1>1. TypeOK /\ CallsOK /\ next_sequence \in Nat
  BY DEF Base, TypeOK
<1>2. \A a \in Recorded : live_allocations[a].sequence \in Nat
  BY <1>1 DEF TypeOK, Recorded, Records
<1>3. ASSUME NEW t \in Threads, Emplace(t)
      PROVE  SequencesOK'
  <2>1. PICK c \in Addrs : c = arg[t]
    BY <1>1, <1>3, ArgType DEF Emplace, NewLabels
  <2>2. /\ live_allocations'[c].sequence = next_sequence - 1 /\ UNCHANGED next_sequence
        /\ \A b \in Addrs : b # c => live_allocations'[b] = live_allocations[b]
    BY <1>1, <1>3, <2>1 DEF Emplace, TypeOK
  <2>3. next_sequence - 1 < next_sequence
    BY <1>1
  <2> QED BY <2>2, <2>3 DEF SequencesOK, Recorded
<1>4. ASSUME NEW t \in Threads, Erase(t)
      PROVE  SequencesOK'
  BY <1>1, <1>4 DEF Erase, SequencesOK, Recorded, TypeOK
<1>5. ASSUME NEW t \in Threads, RecordLock(t)
      PROVE  SequencesOK'
  BY <1>1, <1>2, <1>5 DEF RecordLock, SequencesOK, Recorded
<1>6. ASSUME NEW t \in Threads, ResetLocked(t)
      PROVE  SequencesOK'
  BY <1>6 DEF ResetLocked, SequencesOK, Recorded
<1>7. CASE UNCHANGED table
  BY <1>7 DEF table, SequencesOK, Recorded
<1> QED BY <1>3, <1>4, <1>5, <1>6, <1>7 DEF Next, Step, Call, vars, New, TestEnabled, EmplaceFails, Delete,
        FreeRaw, ScopeSnapshot, ScopeBegin, ScopeEnable, ScopeEnd, setEnabled, reset

\* reset() and the scopes stay apart.
LEMMA ResetStep ==
  ASSUME TypeOK, ResetOK, [Next]_vars
  PROVE  ResetOK'
<1>1. scopes \in Seq(Scopes) /\ pc \in [Threads -> Labels]
  BY DEF TypeOK, Labels
<1>2. ASSUME DOMAIN scopes' = DOMAIN scopes, \A u \in Threads : pc'[u] = "reset" => pc[u] = "reset"
      PROVE  ResetOK'
  BY <1>2 DEF ResetOK
<1>3. ASSUME NEW t \in Threads, NEW l, Here(t, l), l # "reset"
      PROVE  \A u \in Threads : pc'[u] = "reset" => pc[u] = "reset"
  BY <1>1, <1>3 DEF Here
<1>4. ASSUME NEW t \in Threads, New(t) \/ \E a \in Addrs : Delete(t, a)
      PROVE  ResetOK'
  <2>1. PICK a \in Addrs, born \in BOOLEAN : scopes' = Noted(a, born)
    BY <1>4 DEF New, Delete
  <2>2. DOMAIN scopes' = DOMAIN scopes
    BY <2>1, NotedStep
  <2>3. PICK l : l # "reset" /\ Here(t, l)
    BY <1>4 DEF New, Delete
  <2> QED BY <1>2, <1>3, <2>2, <2>3
<1>5. ASSUME NEW t \in Threads, ScopeBegin(t)
      PROVE  ResetOK'
  BY <1>1, <1>5 DEF ScopeBegin, Here, ResetOK
<1>6. ASSUME NEW t \in Threads, ScopeEnd(t)
      PROVE  ResetOK'
  <2>1. scopes # << >> /\ UNCHANGED pc
    BY <1>6 DEF ScopeEnd
  <2>2. PICK n \in Nat \ {0} : n = Len(scopes)
    BY <1>1, <2>1, EmptySeq, Zenon
  <2>3. DOMAIN scopes = 1 .. n /\ 1 \in 1 .. n
    BY <1>1, <2>2
  <2>4. DOMAIN scopes # {}
    BY <2>3
  <2> QED BY <2>1, <2>4 DEF ResetOK
<1>7. ASSUME NEW t \in Threads, ScopeSnapshot(t)
      PROVE  ResetOK'
  BY <1>2, <1>3, <1>7, SnapshotFacts DEF ScopeSnapshot
<1>8. ASSUME NEW t \in Threads, reset(t)
      PROVE  ResetOK'
  BY <1>8 DEF reset, ResetOK
<1>9. ASSUME NEW t \in Threads,
             \/ TestEnabled(t) \/ RecordLock(t) \/ Emplace(t) \/ EmplaceFails(t) \/ Erase(t) \/ FreeRaw(t)
             \/ ResetLocked(t) \/ ScopeEnable(t)
      PROVE  ResetOK'
  <2>1. UNCHANGED scopes /\ \E l : l # "reset" /\ Here(t, l)
    BY <1>9 DEF TestEnabled, RecordLock, Emplace, EmplaceFails, Erase, FreeRaw, ResetLocked, ScopeEnable, Return
  <2> QED BY <1>2, <1>3, <2>1
<1>10. CASE UNCHANGED <<scopes, pc>>
  BY <1>2, <1>10
<1> QED BY <1>4, <1>5, <1>6, <1>7, <1>8, <1>9, <1>10 DEF Next, Step, Call, vars, setEnabled

\* Scopes may change what they note and be ready, and keep the rest.
LEMMA NestingFrame ==
  ASSUME TypeOK, TypeOK', NestingOK, enabled => enabled', next_sequence' >= next_sequence,
         DOMAIN scopes' = DOMAIN scopes,
         \A i \in DOMAIN scopes :
           /\ (Sure(i)' <=> Sure(i)) /\ scopes'[i].previous_enabled = scopes[i].previous_enabled
           /\ (Storing(i) => Storing(i)') \/ enabled'
           /\ ~scopes'[i].ready => ~scopes[i].ready /\ scopes'[i].before = {} /\ scopes'[i].after = {}
           /\ scopes'[i].ready => scopes'[i].baseline = next_sequence \/
                                  (scopes[i].ready /\ scopes'[i].baseline = scopes[i].baseline)
  PROVE  NestingOK'
<1>1. next_sequence \in Nat /\ next_sequence' \in Nat
  BY DEF TypeOK
<1>2. \A i \in DOMAIN scopes : scopes[i].baseline \in Nat
  BY ScopeFields DEF TypeOK
<1>3. \A i \in DOMAIN scopes : Sure(i)' /\ ~Storing(i)' => enabled'
  BY DEF NestingOK
<1>4. \A i, j \in DOMAIN scopes : j < i /\ Sure(j)' => scopes'[i].previous_enabled
  BY DEF NestingOK
<1>5. \A i \in DOMAIN scopes :
        /\ ~scopes'[i].ready => scopes'[i].before = {} /\ scopes'[i].after = {}
        /\ scopes'[i].ready => scopes'[i].baseline <= next_sequence'
  BY <1>1, <1>2 DEF NestingOK
<1> QED BY <1>3, <1>4, <1>5 DEF NestingOK

\* A thread that is about to set `enabled` only does so.
LEMMA StoringKept ==
  ASSUME TypeOK, NEW t \in Threads, NEW l, Here(t, l), pc[t] # "enable",
         NEW i \in DOMAIN scopes, Storing(i),
         scopes'[i].thread = scopes[i].thread, scopes'[i].ready = scopes[i].ready
  PROVE  Storing(i)'
<1>1. scopes[i].thread \in Threads
  BY ScopeFields DEF TypeOK
<1> QED BY <1>1 DEF Storing, Here, TypeOK

\* Scopes stay nested.
LEMMA NestingStep ==
  ASSUME Base, TypeOK', ResetOK, NestingOK, [Next]_vars
  PROVE  NestingOK'
<1>1. TypeOK /\ scopes \in Seq(Scopes) /\ next_sequence \in Nat /\ enabled \in BOOLEAN
  BY DEF Base, TypeOK
<1>2. ASSUME NEW t \in Threads, New(t) \/ \E a \in Addrs : Delete(t, a)
      PROVE  NestingOK'
  <2>1. PICK a \in Addrs, born \in BOOLEAN : scopes' = Noted(a, born)
    BY <1>2 DEF New, Delete
  <2>2. UNCHANGED <<enabled, next_sequence>> /\ pc[t] = "idle" /\ \E l : Here(t, l)
    BY <1>2 DEF New, Delete, table
  <2>3. /\ DOMAIN scopes' = DOMAIN scopes
        /\ \A i \in DOMAIN scopes :
             /\ scopes'[i].on = scopes[i].on /\ scopes'[i].previous_enabled = scopes[i].previous_enabled
             /\ scopes'[i].ready = scopes[i].ready /\ scopes'[i].baseline = scopes[i].baseline
             /\ scopes'[i].before = scopes[i].before \ {a}
             /\ ~scopes[i].ready => scopes'[i].after = scopes[i].after \ {a}
             /\ scopes'[i].overlapped = scopes[i].overlapped /\ scopes'[i].thread = scopes[i].thread
    BY <1>1, <2>1, NotedStep, Zenon
  <2>4. \A i \in DOMAIN scopes : ~scopes'[i].ready => scopes'[i].before = {} /\ scopes'[i].after = {}
    BY <2>3 DEF NestingOK
  <2>5. \A i \in DOMAIN scopes : (Storing(i) => Storing(i)') /\ (Sure(i)' <=> Sure(i))
    BY <1>1, <2>2, <2>3, StoringKept DEF Sure
  <2> QED BY <1>1, <2>2, <2>3, <2>4, <2>5, NestingFrame
<1>3. ASSUME NEW t \in Threads, ScopeSnapshot(t)
      PROVE  NestingOK'
  <2>1. UNCHANGED <<enabled, next_sequence>> /\ pc[t] = "snapshot" /\ Here(t, "idle")
    BY <1>3 DEF ScopeSnapshot, table
  <2>2. /\ DOMAIN scopes' = DOMAIN scopes
        /\ \A i \in DOMAIN scopes :
             \/ scopes'[i] = scopes[i]
             \/ /\ ~scopes[i].ready /\ scopes'[i].ready /\ scopes'[i].baseline = next_sequence
                /\ scopes'[i].on = scopes[i].on /\ scopes'[i].previous_enabled = scopes[i].previous_enabled
                /\ scopes'[i].overlapped = scopes[i].overlapped /\ scopes[i].thread = t
    BY <1>1, <1>3, SnapshotFacts
  <2>3. ASSUME NEW i \in DOMAIN scopes
        PROVE  (Storing(i) => Storing(i)') /\ (Sure(i)' <=> Sure(i))
    <3>1. CASE scopes'[i] = scopes[i]
      BY <1>1, <2>1, <3>1, StoringKept DEF Sure
    <3>2. CASE scopes[i].thread = t /\ scopes'[i].on = scopes[i].on /\ scopes'[i].overlapped = scopes[i].overlapped
      BY <2>1, <3>2 DEF Storing, Sure
    <3> QED BY <2>2, <3>1, <3>2
  <2>4. \A i \in DOMAIN scopes :
          /\ scopes'[i].previous_enabled = scopes[i].previous_enabled
          /\ ~scopes'[i].ready => ~scopes[i].ready /\ scopes'[i].before = {} /\ scopes'[i].after = {}
          /\ scopes'[i].ready => scopes'[i].baseline = next_sequence \/
                                 (scopes[i].ready /\ scopes'[i].baseline = scopes[i].baseline)
    BY <2>2 DEF NestingOK
  <2> QED BY <1>1, <2>1, <2>2, <2>3, <2>4, NestingFrame
<1>4. ASSUME NEW t \in Threads, ScopeBegin(t)
      PROVE  NestingOK'
  <2>1. PICK n \in Nat : n = Len(scopes) /\ DOMAIN scopes = 1 .. n /\ DOMAIN scopes' = 1 .. (n + 1)
    BY <1>1, <1>4, BeginFacts
  <2>2. UNCHANGED <<enabled, next_sequence>> /\ pc[t] = "idle" /\ \E l : Here(t, l)
    BY <1>4 DEF ScopeBegin, table
  <2>3. ASSUME NEW i \in 1 .. n
        PROVE  /\ scopes'[i].previous_enabled = scopes[i].previous_enabled
               /\ scopes'[i].ready = scopes[i].ready /\ scopes'[i].baseline = scopes[i].baseline
               /\ scopes'[i].before = scopes[i].before /\ scopes'[i].after = scopes[i].after
               /\ (Sure(i)' <=> (Sure(i) /\ ~Storing(i)))
               /\ Storing(i) => Storing(i)'
    BY <1>1, <1>4, <2>1, <2>2, BeginFacts, StoringKept DEF Sure
  <2>4. /\ ~scopes'[n + 1].ready /\ scopes'[n + 1].before = {} /\ scopes'[n + 1].after = {}
        /\ scopes'[n + 1].previous_enabled <=> enabled
        /\ Sure(n + 1)' => enabled \/ Storing(n + 1)'
    BY <1>1, <1>4, <2>1, BeginFacts DEF Sure, Storing
  <2>5. \A i \in 1 .. (n + 1) : i \in 1 .. n \/ i = n + 1
    OBVIOUS
  <2>6. \A j \in 1 .. n : Sure(j)' => enabled
    BY <2>1, <2>3 DEF NestingOK
  <2>7. ASSUME NEW i \in 1 .. (n + 1)
        PROVE  /\ Sure(i)' /\ ~Storing(i)' => enabled'
               /\ ~scopes'[i].ready => scopes'[i].before = {} /\ scopes'[i].after = {}
               /\ scopes'[i].ready => scopes'[i].baseline <= next_sequence'
    <3>1. CASE i = n + 1
      BY <2>2, <2>4, <3>1
    <3>2. CASE i \in 1 .. n
      BY <2>1, <2>2, <2>3, <2>6, <3>2 DEF NestingOK
    <3> QED BY <2>5, <3>1, <3>2
  <2>8. ASSUME NEW i \in 1 .. (n + 1), NEW j \in 1 .. (n + 1), j < i, Sure(j)'
        PROVE  scopes'[i].previous_enabled
    <3>1. j \in 1 .. n
      BY <2>8
    <3>2. CASE i = n + 1
      BY <2>4, <2>6, <2>8, <3>1, <3>2
    <3>3. CASE i \in 1 .. n
      BY <2>1, <2>3, <2>8, <3>1, <3>3 DEF NestingOK
    <3> QED BY <2>5, <3>2, <3>3
  <2> QED BY <2>1, <2>7, <2>8 DEF NestingOK
<1>5. ASSUME NEW t \in Threads, ScopeEnd(t)
      PROVE  NestingOK'
  <2>1. PICK n \in Nat : n = Len(scopes) /\ DOMAIN scopes = 1 .. n
    BY <1>1
  <2>2. /\ n # 0 /\ scopes' = SubSeq(scopes, 1, n - 1) /\ enabled' = scopes[n].previous_enabled
        /\ UNCHANGED <<next_sequence, pc>>
    BY <1>1, <1>5, <2>1 DEF ScopeEnd, table
  <2>3. DOMAIN scopes' = 1 .. (n - 1) /\ \A i \in 1 .. (n - 1) : scopes'[i] = scopes[i]
    BY <1>1, <2>1, <2>2
  <2>4. \A i \in 1 .. (n - 1) : i \in 1 .. n /\ (Sure(i)' <=> Sure(i)) /\ (Storing(i)' <=> Storing(i))
    BY <2>2, <2>3 DEF Sure, Storing
  <2>5. \A i \in 1 .. (n - 1) : Sure(i) => enabled'
    BY <2>1, <2>2 DEF NestingOK
  <2> QED BY <2>1, <2>2, <2>3, <2>4, <2>5 DEF NestingOK
<1>6. ASSUME NEW t \in Threads, UNCHANGED scopes, \E l : Here(t, l), enabled => enabled',
             next_sequence' >= next_sequence, pc[t] # "enable" \/ enabled'
      PROVE  NestingOK'
  <2>1. \A i \in DOMAIN scopes : ((Storing(i) => Storing(i)') \/ enabled') /\ (Sure(i)' <=> Sure(i))
    BY <1>1, <1>6, StoringKept DEF Sure
  <2>2. \A i \in DOMAIN scopes :
          ~scopes'[i].ready => ~scopes[i].ready /\ scopes'[i].before = {} /\ scopes'[i].after = {}
    BY <1>6 DEF NestingOK
  <2> QED BY <1>1, <1>6, <2>1, <2>2, NestingFrame
<1>7. ASSUME NEW t \in Threads,
             TestEnabled(t) \/ RecordLock(t) \/ Emplace(t) \/ EmplaceFails(t) \/ Erase(t) \/ FreeRaw(t)
      PROVE  NestingOK'
  <2>1. UNCHANGED <<scopes, enabled>> /\ (\E l : Here(t, l)) /\ pc[t] # "enable"
    BY <1>7 DEF TestEnabled, RecordLock, Emplace, EmplaceFails, Erase, FreeRaw, Return
  <2>2. next_sequence' >= next_sequence
    BY <1>1, <1>7 DEF TestEnabled, RecordLock, Emplace, EmplaceFails, Erase, FreeRaw, table
  <2> QED BY <1>6, <2>1, <2>2
<1>8. ASSUME NEW t \in Threads, ScopeEnable(t)
      PROVE  NestingOK'
  <2>1. UNCHANGED <<scopes, next_sequence>> /\ Here(t, "snapshot") /\ enabled'
    BY <1>8 DEF ScopeEnable, table
  <2> QED BY <1>1, <1>6, <2>1
<1>9. ASSUME NEW t \in Threads, reset(t) \/ ResetLocked(t) \/ \E on \in BOOLEAN : setEnabled(t, on)
      PROVE  NestingOK'
  BY <1>9 DEF setEnabled, reset, ResetLocked, ResetOK, NestingOK
<1>10. CASE UNCHANGED <<scopes, enabled, next_sequence, pc>>
  BY <1>10 DEF NestingOK, Sure, Storing
<1> QED BY <1>2, <1>3, <1>4, <1>5, <1>7, <1>8, <1>9, <1>10 DEF Next, Step, Call, vars, table

\* Thread t works on block c: what it must show of the scopes that c is in.
LEMMA BaselineFrame ==
  ASSUME Base, TypeOK', BaselineOK, NEW t \in Threads, NEW c \in Addrs,
         next_sequence' >= next_sequence, DOMAIN scopes' = DOMAIN scopes,
         \A b \in Addrs : b # c => heap'[b] = heap[b] /\ live_allocations'[b] = live_allocations[b],
         \A u \in Threads : u # t => pc'[u] = pc[u] /\ arg'[u] = arg[u] /\ arg[u] # c,
         \A i \in DOMAIN scopes :
           /\ scopes'[i].baseline = scopes[i].baseline /\ (Sure(i)' <=> Sure(i))
           /\ scopes'[i].before \subseteq scopes[i].before /\ c \notin scopes'[i].before
           /\ scopes'[i].after \subseteq scopes[i].after \cup {c}
           /\ c \in scopes'[i].after /\ Sure(i) /\ heap'[c].state = "held" /\ ~heap'[c].lost =>
                live_allocations'[c] # NoRecord /\ live_allocations'[c].sequence >= scopes[i].baseline
           /\ c \in scopes'[i].after /\ pc'[t] = "node" => scopes[i].baseline < next_sequence',
         pc'[t] = "node" => arg'[t] = c
  PROVE  BaselineOK'
<1>1. TypeOK /\ scopes \in Seq(Scopes) /\ next_sequence \in Nat /\ next_sequence' \in Nat
  BY DEF Base, TypeOK
<1>2. ASSUME NEW i \in DOMAIN scopes
      PROVE  scopes[i].baseline \in Nat /\ scopes[i].before \subseteq Addrs /\ scopes[i].after \subseteq Addrs
  BY <1>1, ScopeFields
<1>3. ASSUME NEW i \in DOMAIN scopes, NEW a \in scopes'[i].before
      PROVE  heap'[a].state = "held" /\
             (live_allocations'[a] # NoRecord => live_allocations'[a].sequence < scopes'[i].baseline)
  <2>1. a \in scopes[i].before /\ a \in Addrs /\ a # c
    BY <1>2
  <2>2. heap'[a] = heap[a] /\ live_allocations'[a] = live_allocations[a]
    BY <2>1
  <2> QED BY <2>1, <2>2 DEF BaselineOK, State, Recorded
<1>4. ASSUME NEW i \in DOMAIN scopes, NEW a \in scopes'[i].after
      PROVE  /\ Sure(i)' /\ heap'[a].state = "held" /\ ~heap'[a].lost =>
                  live_allocations'[a] # NoRecord /\ live_allocations'[a].sequence >= scopes'[i].baseline
             /\ \A u \in Threads : pc'[u] = "node" /\ arg'[u] = a => scopes'[i].baseline < next_sequence'
  <2>1. CASE a = c
    BY <2>1
  <2>2. CASE a # c
    <3>1. a \in scopes[i].after /\ a \in Addrs
      BY <1>2, <2>2
    <3>2. heap'[a] = heap[a] /\ live_allocations'[a] = live_allocations[a]
      BY <2>2, <3>1
    <3>3. \A u \in Threads : pc[u] = "node" /\ arg[u] = a => scopes[i].baseline < next_sequence'
      BY <1>1, <1>2, <3>1 DEF BaselineOK
    <3> QED BY <2>2, <3>1, <3>2, <3>3 DEF BaselineOK, State, Recorded
  <2> QED BY <2>1, <2>2
<1>5. \A i \in DOMAIN scopes : scopes'[i].before \subseteq Addrs /\ scopes'[i].after \subseteq Addrs
  BY <1>2
<1> QED BY <1>3, <1>4, <1>5 DEF BaselineOK, State, Recorded

\* An allocation belongs to the scopes that have their baseline.
LEMMA BaselineNew ==
  ASSUME IndInv, TypeOK', NEW t \in Threads, New(t)
  PROVE  BaselineOK'
<1>1. Base /\ TypeOK /\ CallsOK /\ BaselineOK /\ NestingOK /\ nullptr \notin Addrs
  BY LeakAssumption DEF IndInv, Base
<1>2. PICK a \in Addrs, request \in Requests :
        /\ heap[a] = Free /\ heap' = allocateRaw(a, request) /\ scopes' = Noted(a, TRUE)
        /\ arg' = [arg EXCEPT ![t] = a]
  BY DEF New
<1>3. UNCHANGED table /\ pc' = [pc EXCEPT ![t] = "enabled?"]
  BY DEF New, Here
<1>4. State(a) = "free"
  BY <1>2 DEF State, Free
<1>5. \A u \in Threads : u # t => pc'[u] = pc[u] /\ arg'[u] = arg[u] /\ arg[u] # a
  BY <1>1, <1>2, <1>3, <1>4 DEF CallsOK, TypeOK
<1>6. heap'[a].state = "new" /\ pc'[t] = "enabled?" /\ \A b \in Addrs : b # a => heap'[b] = heap[b]
  BY <1>1, <1>2, <1>3 DEF allocateRaw, TypeOK
<1>7. UNCHANGED <<live_allocations, next_sequence>> /\ next_sequence \in Nat
  BY <1>1, <1>3 DEF table, TypeOK
<1>8. /\ DOMAIN scopes' = DOMAIN scopes
      /\ \A i \in DOMAIN scopes :
           /\ scopes'[i].baseline = scopes[i].baseline /\ (Sure(i)' <=> Sure(i))
           /\ scopes'[i].before = scopes[i].before \ {a}
           /\ scopes'[i].after \subseteq scopes[i].after \cup {a}
  <2>1. TRUE \in BOOLEAN
    OBVIOUS
  <2> QED BY <1>1, <1>2, <2>1, NotedStep DEF Sure
<1> QED BY <1>1, <1>5, <1>6, <1>7, <1>8, BaselineFrame

\* A block that is freed belongs to no scope.
LEMMA BaselineDelete ==
  ASSUME IndInv, TypeOK', NEW t \in Threads, NEW a \in Addrs, Delete(t, a)
  PROVE  BaselineOK'
<1>1. Base /\ TypeOK /\ CallsOK /\ BaselineOK /\ nullptr \notin Addrs
  BY LeakAssumption DEF IndInv, Base
<1>2. heap \in [Addrs -> Blocks] /\ "delete" \in States /\ heap' = AtDelete(a) /\ scopes' = Noted(a, FALSE)
  BY <1>1 DEF TypeOK, States, Delete
<1>3. /\ heap'[a].state = "delete" /\ \A b \in Addrs : b # a => heap'[b] = heap[b]
  BY <1>2, BlockState DEF AtDelete
<1>4. /\ UNCHANGED <<live_allocations, next_sequence>> /\ next_sequence \in Nat
      /\ arg' = [arg EXCEPT ![t] = a] /\ State(a) = "held"
  BY <1>1 DEF Delete, table, TypeOK, State
<1>5. /\ \A u \in Threads : u # t => pc'[u] = pc[u] /\ arg'[u] = arg[u] /\ arg[u] # a
      /\ pc'[t] # "node"
  BY <1>1, <1>4 DEF CallsOK, TypeOK, Delete, Here
<1>6. /\ DOMAIN scopes' = DOMAIN scopes
      /\ \A i \in DOMAIN scopes :
           /\ scopes'[i].baseline = scopes[i].baseline /\ (Sure(i)' <=> Sure(i))
           /\ scopes'[i].before = scopes[i].before \ {a}
           /\ scopes'[i].after = scopes[i].after \ {a}
  <2>1. FALSE \in BOOLEAN
    OBVIOUS
  <2> QED BY <1>1, <1>2, <2>1, NotedStep DEF Sure
<1> QED BY <1>1, <1>3, <1>4, <1>5, <1>6, BaselineFrame

\* The rest of operator new.  A block of a scope that checks is held without
\* a record only when its node could not be allocated.
LEMMA BaselineReturn ==
  ASSUME IndInv, TypeOK', NEW t \in Threads, TestEnabled(t) \/ RecordLock(t) \/ Emplace(t) \/ EmplaceFails(t)
  PROVE  BaselineOK'
<1>1. Base /\ TypeOK /\ CallsOK /\ BaselineOK /\ NestingOK /\ pc[t] \in NewLabels /\ next_sequence \in Nat
  BY DEF IndInv, Base, TypeOK, TestEnabled, RecordLock, Emplace, EmplaceFails, NewLabels
<1>2. PICK c \in Addrs : c = arg[t]
  BY <1>1, ArgType
<1>3. nullptr \notin Addrs /\ State(c) = "new" /\ UNCHANGED scopes
  BY <1>1, <1>2, LeakAssumption DEF CallsOK, TestEnabled, RecordLock, Emplace, EmplaceFails
<1>4. /\ \A i \in DOMAIN scopes : c \notin scopes[i].before
      /\ \A i \in DOMAIN scopes : scopes[i].baseline \in Nat
      /\ \A i \in DOMAIN scopes : Sure(i)' <=> Sure(i)
  BY <1>1, <1>3, ScopeFields DEF BaselineOK, TypeOK, Sure
<1>5. \A u \in Threads : u # t => pc'[u] = pc[u] /\ arg'[u] = arg[u] /\ arg[u] # c
  BY <1>1, <1>2, <1>3 DEF TestEnabled, RecordLock, Emplace, EmplaceFails, Here, Return, TypeOK, CallsOK
<1>6. CASE TestEnabled(t)
  <2>1. UNCHANGED <<live_allocations, next_sequence>> /\ pc'[t] # "node"
    BY <1>1, <1>6 DEF TestEnabled, table, Here, Return, TypeOK
  <2>2. \A b \in Addrs : b # c => heap'[b] = heap[b]
    BY <1>1, <1>2, <1>6, ReturnedFacts DEF TestEnabled
  <2>3. ASSUME NEW i \in DOMAIN scopes, Sure(i), c \in scopes[i].after
        PROVE  heap'[c].state # "held"
    <3>1. ~Storing(i)
      BY <1>1, <2>3 DEF NestingOK, Storing
    <3>2. enabled
      BY <1>1, <2>3, <3>1 DEF NestingOK
    <3> QED BY <1>3, <1>6, <3>2 DEF TestEnabled, State
  <2> QED BY <1>1, <1>3, <1>4, <1>5, <2>1, <2>2, <2>3, BaselineFrame
<1>7. CASE RecordLock(t)
  <2>1. UNCHANGED <<live_allocations, heap, arg>> /\ next_sequence' = next_sequence + 1
    BY <1>7 DEF RecordLock
  <2>2. ASSUME NEW i \in DOMAIN scopes, c \in scopes[i].after
        PROVE  scopes[i].baseline < next_sequence'
    <3>1. scopes[i].baseline <= next_sequence
      BY <1>1, <2>2 DEF NestingOK
    <3> QED BY <1>1, <1>4, <2>1, <3>1
  <2>3. heap'[c].state # "held" /\ arg'[t] = c /\ next_sequence' >= next_sequence
    BY <1>1, <1>2, <1>3, <2>1 DEF State
  <2> QED BY <1>1, <1>3, <1>4, <1>5, <2>1, <2>2, <2>3, BaselineFrame
<1>8. CASE Emplace(t)
  <2>1. UNCHANGED next_sequence /\ pc[t] = "node" /\ pc'[t] = "idle" /\ heap' = Returned(t)
    BY <1>1, <1>8 DEF Emplace, Return, Here, TypeOK
  <2>2. \A b \in Addrs : b # c => heap'[b] = heap[b]
    BY <1>1, <1>2, <2>1, ReturnedFacts
  <2>3. PICK r \in Records :
          /\ live_allocations'[c] = r /\ r.sequence = next_sequence - 1
          /\ \A b \in Addrs : b # c => live_allocations'[b] = live_allocations[b]
    <3>1. PICK r : r = [size |-> heap[c].size, array |-> heap[c].array, sequence |-> next_sequence - 1]
      OBVIOUS
    <3>2. r \in Records /\ r.sequence = next_sequence - 1
      BY <1>1, <3>1 DEF TypeOK, Blocks, Records
    <3>3. live_allocations' = [live_allocations EXCEPT ![c] = r]
      BY <1>2, <1>8, <3>1 DEF Emplace
    <3> QED BY <1>1, <3>2, <3>3 DEF TypeOK
  <2>4. ASSUME NEW i \in DOMAIN scopes, c \in scopes[i].after
        PROVE  next_sequence - 1 >= scopes[i].baseline
    <3>1. scopes[i].baseline < next_sequence
      BY <1>1, <1>2, <2>1, <2>4 DEF BaselineOK
    <3> QED BY <1>1, <1>4, <3>1
  <2>5. live_allocations'[c] # NoRecord /\ live_allocations'[c].sequence = next_sequence - 1
    BY <2>3, LeakAssumption
  <2> QED BY <1>1, <1>3, <1>4, <1>5, <2>1, <2>2, <2>3, <2>4, <2>5, BaselineFrame
<1>9. CASE EmplaceFails(t)
  <2>1. UNCHANGED <<live_allocations, next_sequence>> /\ pc'[t] = "idle"
    BY <1>1, <1>9 DEF EmplaceFails, table, Return, Here, TypeOK
  <2>2. heap'[c].lost /\ \A b \in Addrs : b # c => heap'[b] = heap[b]
    BY <1>1, <1>2, <1>9, LostFacts
  <2> QED BY <1>1, <1>3, <1>4, <1>5, <2>1, <2>2, BaselineFrame
<1> QED BY <1>6, <1>7, <1>8, <1>9

\* Erasing a record concerns no block that is held.
LEMMA BaselineErase ==
  ASSUME IndInv, TypeOK', NEW t \in Threads, Erase(t) \/ FreeRaw(t)
  PROVE  BaselineOK'
<1>1. Base /\ TypeOK /\ CallsOK /\ BaselineOK /\ pc[t] \in DeleteLabels /\ next_sequence \in Nat
  BY DEF IndInv, Base, TypeOK, Erase, FreeRaw, DeleteLabels
<1>2. PICK c \in Addrs : c = arg[t]
  BY <1>1, ArgType
<1>3. nullptr \notin Addrs /\ State(c) = "delete" /\ UNCHANGED <<scopes, next_sequence>>
  BY <1>1, <1>2, LeakAssumption DEF CallsOK, Erase, FreeRaw, table
<1>4. \A i \in DOMAIN scopes : c \notin scopes[i].before /\ (Sure(i)' <=> Sure(i))
  BY <1>1, <1>3 DEF BaselineOK, Sure
<1>5. /\ \A u \in Threads : u # t => pc'[u] = pc[u] /\ arg'[u] = arg[u] /\ arg[u] # c
      /\ pc'[t] # "node"
  BY <1>1, <1>2, <1>3 DEF Erase, FreeRaw, Here, Return, TypeOK, CallsOK
<1>6. /\ heap'[c].state # "held"
      /\ \A b \in Addrs : b # c => heap'[b] = heap[b] /\ live_allocations'[b] = live_allocations[b]
  BY <1>1, <1>2, <1>3 DEF Erase, FreeRaw, State, TypeOK, Free, table
<1> QED BY <1>1, <1>3, <1>4, <1>5, <1>6, BaselineFrame

\* A scope that notes nothing begins, and one that is ready notes what is held.
LEMMA BaselineScope ==
  ASSUME IndInv, TypeOK', NEW t \in Threads,
         ScopeBegin(t) \/ ScopeEnable(t) \/ ScopeSnapshot(t) \/ ScopeEnd(t)
  PROVE  BaselineOK'
<1> DEFINE SameNotes(i) ==
      /\ scopes'[i].before = scopes[i].before /\ scopes'[i].after = scopes[i].after
      /\ scopes'[i].baseline = scopes[i].baseline /\ (Sure(i)' => Sure(i))
<1> HIDE DEF SameNotes
<1>1. TypeOK /\ scopes \in Seq(Scopes) /\ BaselineOK /\ NestingOK /\ SequencesOK
  BY DEF IndInv, Base, TypeOK
<1>2. /\ UNCHANGED <<live_allocations, next_sequence, heap, arg>>
      /\ \A u \in Threads : pc'[u] = "node" => pc[u] = "node"
  BY <1>1 DEF ScopeBegin, ScopeEnable, ScopeSnapshot, ScopeEnd, table, Here, TypeOK
<1>3. ASSUME \A i \in DOMAIN scopes' :
               \/ i \in DOMAIN scopes /\ SameNotes(i)
               \/ scopes'[i].before = {} /\ scopes'[i].after = {}
               \/ scopes'[i].before = Held /\ scopes'[i].after = {} /\ scopes'[i].baseline = next_sequence
      PROVE  BaselineOK'
  <2> USE DEF SameNotes
  <2>1. \A a \in Held : heap'[a].state = "held" /\ (live_allocations'[a] # NoRecord =>
          live_allocations'[a].sequence < next_sequence)
    BY <1>1, <1>2 DEF Held, SequencesOK, Recorded
  <2> QED BY <1>1, <1>2, <1>3, <2>1 DEF BaselineOK, State, Recorded, Sure
<1>4. CASE ScopeBegin(t)
  <2>1. PICK n \in Nat : n = Len(scopes) /\ DOMAIN scopes = 1 .. n /\ DOMAIN scopes' = 1 .. (n + 1)
    BY <1>1, <1>4, BeginFacts
  <2>2. ASSUME NEW i \in 1 .. n
        PROVE  SameNotes(i)
    BY <1>1, <1>4, <2>1, <2>2, BeginFacts DEF SameNotes, Sure
  <2>3. scopes'[n + 1].before = {} /\ scopes'[n + 1].after = {}
    BY <1>1, <1>4, <2>1, BeginFacts
  <2>4. \A i \in 1 .. (n + 1) : i \in 1 .. n \/ i = n + 1
    OBVIOUS
  <2> QED BY <1>3, <2>1, <2>2, <2>3, <2>4
<1>5. CASE ScopeSnapshot(t)
  <2>1. /\ DOMAIN scopes' = DOMAIN scopes
        /\ \A i \in DOMAIN scopes :
             \/ scopes'[i] = scopes[i]
             \/ /\ ~scopes[i].ready /\ scopes'[i].baseline = next_sequence /\ scopes'[i].before = Held
                /\ scopes'[i].after = scopes[i].after
    BY <1>1, <1>5, SnapshotFacts
  <2>2. \A i \in DOMAIN scopes : ~scopes[i].ready => scopes[i].after = {}
    BY <1>1 DEF NestingOK
  <2> QED BY <1>3, <2>1, <2>2 DEF SameNotes, Sure
<1>6. CASE ScopeEnd(t)
  <2>1. scopes # << >> /\ scopes' = SubSeq(scopes, 1, Len(scopes) - 1)
    BY <1>6 DEF ScopeEnd
  <2>2. \A i \in DOMAIN scopes' : i \in DOMAIN scopes /\ scopes'[i] = scopes[i]
    BY <1>1, <2>1
  <2> QED BY <1>3, <2>2 DEF SameNotes, Sure
<1>7. CASE ScopeEnable(t)
  BY <1>3, <1>7 DEF ScopeEnable, SameNotes, Sure
<1> QED BY <1>4, <1>5, <1>6, <1>7

\* The baselines stay between old and new records.
LEMMA BaselineStep ==
  ASSUME IndInv, TypeOK', [Next]_vars
  PROVE  BaselineOK'
<1>1. ASSUME NEW t \in Threads, reset(t) \/ ResetLocked(t) \/ \E on \in BOOLEAN : setEnabled(t, on)
      PROVE  BaselineOK'
  BY <1>1 DEF reset, ResetLocked, setEnabled, BaselineOK, IndInv, ResetOK
<1>2. CASE UNCHANGED vars
  BY <1>2 DEF IndInv, vars, table, BaselineOK, State, Recorded, Sure
<1> QED BY <1>1, <1>2, BaselineNew, BaselineDelete, BaselineReturn, BaselineErase, BaselineScope DEF Next, Step, Call

-----------------------------------------------------------------------------
(* The counts.                                                             *)

\* The counts follow the table.
LEMMA CountsStep ==
  ASSUME Base, CountsAgree, [Next]_vars
  PROVE  CountsAgree'
<1>1. TypeOK /\ CallsOK /\ stats \in Stats
  BY DEF Base, TypeOK
<1>2. IsFiniteSet(Recorded) /\ Cardinality(Recorded) \in Nat
  BY LeakAssumption, FS_Subset, FS_CardinalityType DEF Recorded
<1>3. ASSUME NEW t \in Threads, Emplace(t)
      PROVE  CountsAgree'
  <2>1. PICK c \in Addrs : c = arg[t]
    BY <1>1, <1>3, ArgType DEF Emplace, NewLabels
  <2>2. c \notin Recorded
    BY <1>1, <1>3, <2>1 DEF CallsOK, Emplace, NewLabels, Recorded
  <2>3. PICK r : r = [size |-> heap[c].size, array |-> heap[c].array, sequence |-> next_sequence - 1]
    OBVIOUS
  <2>4. r \in Records
    BY <1>1, <2>3 DEF TypeOK, Blocks, Records
  <2>5. live_allocations' = [live_allocations EXCEPT ![c] = r]
    BY <1>3, <2>1, <2>3 DEF Emplace
  <2>6. Recorded' = Recorded \cup {c}
    BY <1>1, <2>4, <2>5, LeakAssumption DEF Recorded, TypeOK
  <2>7. Cardinality(Recorded') = Cardinality(Recorded) + 1
    BY <1>2, <2>2, <2>6, FS_AddElement
  <2>8. /\ stats'.live_allocations = stats.live_allocations + 1
        /\ stats'.total_allocations = stats.total_allocations + 1
        /\ stats'.total_frees = stats.total_frees
        /\ stats'.mismatched_deletes = stats.mismatched_deletes
    BY <1>1, <1>3, EmplaceStats
  <2>9. stats.total_frees \in Nat
    BY <1>1, StatsFields
  <2> QED BY <1>2, <2>7, <2>8, <2>9 DEF CountsAgree
<1>4. ASSUME NEW t \in Threads, Erase(t)
      PROVE  CountsAgree'
  <2>1. PICK c \in Addrs : c = arg[t]
    BY <1>1, <1>4, ArgType DEF Erase, DeleteLabels
  <2>2. CASE live_allocations[c] = NoRecord
    BY <1>4, <2>1, <2>2 DEF Erase, NotFound, CountsAgree, Recorded
  <2>3. CASE live_allocations[c] # NoRecord
    <3>1. live_allocations' = [live_allocations EXCEPT ![c] = NoRecord]
      BY <1>4, <2>1, <2>3 DEF Erase
    <3>2. c \in Recorded /\ Recorded' = Recorded \ {c}
      BY <1>1, <2>3, <3>1 DEF Recorded, TypeOK
    <3>3. Cardinality(Recorded') = Cardinality(Recorded) - 1
      BY <1>2, <3>2, FS_RemoveElement
    <3>4. /\ stats'.live_allocations = Cardinality(Recorded) - 1
          /\ stats'.total_allocations = stats.total_allocations
          /\ stats'.total_frees = stats.total_frees + 1
          /\ stats'.mismatched_deletes \in {stats.mismatched_deletes, stats.mismatched_deletes + 1}
      BY <1>1, <1>4, <2>1, <2>3, EraseStats
    <3>5. stats.total_frees \in Nat /\ stats.mismatched_deletes \in Nat
      BY <1>1, StatsFields
    <3> QED BY <1>2, <3>3, <3>4, <3>5 DEF CountsAgree
  <2> QED BY <2>2, <2>3
<1>5. ASSUME NEW t \in Threads, ResetLocked(t)
      PROVE  CountsAgree'
  <2>1. Recorded' = {} /\ stats' = NoStats
    BY <1>5 DEF ResetLocked, Recorded
  <2>2. Cardinality(Recorded') = 0
    BY <2>1, FS_EmptySet
  <2> QED BY <2>1, <2>2 DEF CountsAgree, NoStats
<1>6. CASE UNCHANGED <<live_allocations, stats>>
  BY <1>6 DEF CountsAgree, Recorded
<1> QED BY <1>3, <1>4, <1>5, <1>6 DEF Next, Step, Call, vars, table, New, TestEnabled, RecordLock, EmplaceFails,
        Delete, FreeRaw, ScopeSnapshot, ScopeBegin, ScopeEnable, ScopeEnd, setEnabled, reset

-----------------------------------------------------------------------------
(* The bytes.                                                              *)

\* When one address has another weight, the sums are those of the rest and it.
LEMMA AdditiveExcept ==
  ASSUME NEW w \in [Addrs -> Nat], NEW f, Additive(f, w), NEW c \in Addrs, NEW n \in Nat
  PROVE  Additive([s \in SUBSET Addrs |-> IF c \in s THEN n + f[s \ {c}] ELSE f[s]], [w EXCEPT ![c] = n])
<1> DEFINE g == [s \in SUBSET Addrs |-> IF c \in s THEN n + f[s \ {c}] ELSE f[s]]
           v == [w EXCEPT ![c] = n]
<1>1. f \in [SUBSET Addrs -> Nat] /\ f[{}] = 0 /\ {} \in SUBSET Addrs
  BY DEF Additive
<1>2. \A s \in SUBSET Addrs : g[s] = IF c \in s THEN n + f[s \ {c}] ELSE f[s]
  OBVIOUS
<1>3. \A s \in SUBSET Addrs : \A x : s \ {x} \in SUBSET Addrs /\ f[s] \in Nat
  BY <1>1
<1>4. g \in [SUBSET Addrs -> Nat] /\ g[{}] = 0
  BY <1>1, <1>3
<1>5. v[c] = n /\ \A x \in Addrs : x # c => v[x] = w[x]
  OBVIOUS
<1> HIDE DEF g, v
<1>6. ASSUME NEW s \in SUBSET Addrs, NEW x \in s
      PROVE  g[s] = v[x] + g[s \ {x}]
  <2>1. CASE x = c
    <3>1. g[s] = n + f[s \ {c}] /\ g[s \ {c}] = f[s \ {c}] /\ v[x] = n
      BY <1>2, <1>3, <1>5, <2>1
    <3> QED BY <2>1, <3>1
  <2>2. CASE x # c /\ c \in s
    <3>1. (s \ {c}) \ {x} = (s \ {x}) \ {c} /\ x \in s \ {c}
      BY <2>2
    <3>2. f[s \ {c}] = w[x] + f[(s \ {c}) \ {x}]
      BY <1>3, <3>1 DEF Additive
    <3>3. g[s] = n + f[s \ {c}] /\ g[s \ {x}] = n + f[(s \ {x}) \ {c}] /\ v[x] = w[x]
      BY <1>2, <1>3, <1>5, <2>2
    <3>4. PICK k \in Nat, m \in Nat : k = f[(s \ {x}) \ {c}] /\ m = w[x]
      BY <1>1, <1>3
    <3>5. g[s] = n + (m + k) /\ g[s \ {x}] = n + k /\ v[x] = m
      BY <3>1, <3>2, <3>3, <3>4
    <3> QED BY <3>5
  <2>3. CASE c \notin s
    <3>1. f[s] = w[x] + f[s \ {x}] /\ x # c
      BY <2>3 DEF Additive
    <3>2. g[s] = f[s] /\ g[s \ {x}] = f[s \ {x}] /\ v[x] = w[x]
      BY <1>2, <1>3, <1>5, <2>3, <3>1
    <3> QED BY <3>1, <3>2
  <2> QED BY <2>1, <2>2, <2>3
<1> QED BY <1>4, <1>6 DEF Additive, g, v

\* A set of numbers has a least element.
LEMMA Least ==
  ASSUME NEW T, T \subseteq Nat, T # {}
  PROVE  \E x \in T : \A y \in T : x <= y
<1> DEFINE R == {p \in Nat \X Nat : p[1] < p[2]}
<1>1. IsWellFoundedOn(R, Nat)
  BY NatLessThanWellFounded, Zenon DEF OpToRel
<1>2. \A x, y \in T : y < x => <<y, x>> \in R
  OBVIOUS
<1> HIDE DEF R
<1>3. PICK x \in T : \A y \in T : <<y, x>> \notin R
  BY <1>1, WFMin
<1>4. \A y \in T : ~(y < x)
  BY <1>2, <1>3
<1> QED BY <1>3, <1>4

\* Sizes are numbers.
LEMMA SizesType ==
  ASSUME TypeOK
  PROVE  Sizes \in [Addrs -> Nat]
BY DEF TypeOK, Sizes, Records

\* No record, no bytes.
LEMMA NoBytes ==
  ASSUME \A a \in Addrs : live_allocations[a] = NoRecord
  PROVE  \E f \in [SUBSET Addrs -> Nat] : Additive(f, Sizes) /\ f[Recorded] = 0
<1> DEFINE f == [s \in SUBSET Addrs |-> 0]
<1>1. \A a \in Addrs : Sizes[a] = 0
  BY DEF Sizes
<1>2. f \in [SUBSET Addrs -> Nat] /\ f[Recorded] = 0
  BY DEF Recorded
<1>3. Additive(f, Sizes)
  BY <1>1, <1>2 DEF Additive
<1> QED BY <1>2, <1>3

\* The bytes follow the table.
LEMMA BytesStep ==
  ASSUME Base, BytesAgree, [Next]_vars
  PROVE  BytesAgree'
<1>1. TypeOK /\ CallsOK /\ RecordsLive /\ stats \in Stats /\ Sizes \in [Addrs -> Nat]
  BY SizesType DEF Base, TypeOK
<1>2. PICK f \in [SUBSET Addrs -> Nat] : Additive(f, Sizes) /\ f[Recorded] = stats.live_bytes
  BY DEF BytesAgree
<1>3. /\ stats.live_bytes \in Nat /\ stats.peak_live_bytes \in Nat /\ stats.total_bytes \in Nat
      /\ stats.live_bytes <= stats.peak_live_bytes /\ stats.peak_live_bytes <= stats.total_bytes
  BY <1>1, StatsFields DEF BytesAgree
<1>4. ASSUME NEW c \in Addrs, NEW n \in Nat, Sizes' = [Sizes EXCEPT ![c] = n]
      PROVE  \E g \in [SUBSET Addrs -> Nat] :
               /\ Additive(g, Sizes')
               /\ \A s \in SUBSET Addrs : g[s] = IF c \in s THEN n + f[s \ {c}] ELSE f[s]
  <2>1. PICK g : g = [s \in SUBSET Addrs |-> IF c \in s THEN n + f[s \ {c}] ELSE f[s]]
    OBVIOUS
  <2>2. Additive(g, Sizes')
    BY <1>1, <1>2, <1>4, <2>1, AdditiveExcept
  <2>3. g \in [SUBSET Addrs -> Nat]
    BY <2>2 DEF Additive
  <2> QED BY <2>1, <2>2, <2>3
<1>5. ASSUME NEW t \in Threads, Emplace(t)
      PROVE  BytesAgree'
  <2>1. PICK c \in Addrs : c = arg[t]
    BY <1>1, <1>5, ArgType DEF Emplace, NewLabels
  <2>2. c \notin Recorded /\ Recorded \subseteq Addrs
    BY <1>1, <1>5, <2>1 DEF CallsOK, Emplace, NewLabels, Recorded
  <2>3. PICK size \in Nat : size = heap[c].size
    BY <1>1 DEF TypeOK, Blocks
  <2>4. PICK r : r = [size |-> size, array |-> heap[c].array, sequence |-> next_sequence - 1]
    OBVIOUS
  <2>5. r \in Records /\ r.size = size
    BY <1>1, <2>4 DEF TypeOK, Blocks, Records
  <2>6. live_allocations' = [live_allocations EXCEPT ![c] = r]
    BY <1>5, <2>1, <2>3, <2>4 DEF Emplace
  <2>7. Recorded' = Recorded \cup {c}
    BY <1>1, <2>5, <2>6, LeakAssumption DEF Recorded, TypeOK
  <2>8. Sizes' = [Sizes EXCEPT ![c] = size]
    BY <1>1, <2>5, <2>6, LeakAssumption DEF Sizes, TypeOK
  <2>9. PICK g \in [SUBSET Addrs -> Nat] :
          Additive(g, Sizes') /\ \A s \in SUBSET Addrs : g[s] = IF c \in s THEN size + f[s \ {c}] ELSE f[s]
    BY <1>4, <2>8
  <2>10. (Recorded \cup {c}) \ {c} = Recorded
    BY <2>2
  <2>11. g[Recorded'] = size + stats.live_bytes
    BY <1>2, <2>2, <2>7, <2>9, <2>10
  <2>12. /\ stats'.live_bytes = size + stats.live_bytes /\ stats'.total_bytes = stats.total_bytes + size
         /\ stats'.live_bytes <= stats'.peak_live_bytes
         /\ stats'.peak_live_bytes \in {stats.peak_live_bytes, stats'.live_bytes}
    BY <1>1, <1>5, <2>1, <2>3, EmplaceStats
  <2>13. stats'.peak_live_bytes <= stats'.total_bytes
    BY <1>3, <2>12
  <2> QED BY <2>9, <2>11, <2>12, <2>13 DEF BytesAgree
<1>6. ASSUME NEW t \in Threads, Erase(t)
      PROVE  BytesAgree'
  <2>1. PICK c \in Addrs : c = arg[t]
    BY <1>1, <1>6, ArgType DEF Erase, DeleteLabels
  <2>2. CASE live_allocations[c] = NoRecord
    <3>1. UNCHANGED <<live_allocations, stats>>
      BY <1>6, <2>1, <2>2 DEF Erase, NotFound
    <3>2. Sizes' = Sizes /\ Recorded' = Recorded
      BY <3>1 DEF Sizes, Recorded
    <3> QED BY <1>2, <1>3, <3>1, <3>2 DEF BytesAgree
  <2>3. CASE live_allocations[c] # NoRecord
    <3>1. live_allocations' = [live_allocations EXCEPT ![c] = NoRecord]
      BY <1>6, <2>1, <2>3 DEF Erase
    <3>2. c \in Recorded /\ Recorded' = Recorded \ {c} /\ Recorded \subseteq Addrs
      BY <1>1, <2>3, <3>1 DEF Recorded, TypeOK
    <3>3. Sizes' = [Sizes EXCEPT ![c] = 0]
      BY <1>1, <3>1 DEF Sizes, TypeOK
    <3>4. PICK g \in [SUBSET Addrs -> Nat] :
            Additive(g, Sizes') /\ \A s \in SUBSET Addrs : g[s] = IF c \in s THEN 0 + f[s \ {c}] ELSE f[s]
      BY <1>4, <3>3
    <3>5. PICK size \in Nat, rest \in Nat : size = live_allocations[c].size /\ rest = f[Recorded \ {c}]
      BY <1>1, <2>3, <3>2 DEF TypeOK, Records
    <3>6. Sizes[c] = size
      BY <2>3, <3>5 DEF Sizes
    <3>7. f[Recorded] = Sizes[c] + f[Recorded \ {c}]
      BY <1>2, <3>2 DEF Additive
    <3>8. stats.live_bytes = size + rest
      BY <1>2, <3>5, <3>6, <3>7
    <3>9. g[Recorded'] = rest
      BY <3>2, <3>4, <3>5
    <3>10. Max({stats.live_bytes - size, 0}) = rest
      <4>1. stats.live_bytes - size = rest
        BY <3>8
      <4> QED BY <4>1, MaxType
    <3>11. /\ stats'.live_bytes = Max({stats.live_bytes - size, 0})
           /\ stats'.peak_live_bytes = stats.peak_live_bytes /\ stats'.total_bytes = stats.total_bytes
      BY <1>1, <1>6, <2>1, <2>3, <3>5, EraseStats
    <3>12. rest <= stats.peak_live_bytes
      BY <1>3, <3>8
    <3> QED BY <1>3, <3>4, <3>9, <3>10, <3>11, <3>12 DEF BytesAgree
  <2> QED BY <2>2, <2>3
<1>7. ASSUME NEW t \in Threads, ResetLocked(t)
      PROVE  BytesAgree'
  <2>1. stats' = NoStats /\ \A a \in Addrs : live_allocations'[a] = NoRecord
    BY <1>7 DEF ResetLocked
  <2>2. \E g \in [SUBSET Addrs -> Nat] : Additive(g, Sizes') /\ g[Recorded'] = 0
    <3> DEFINE g == [s \in SUBSET Addrs |-> 0]
    <3>1. \A a \in Addrs : Sizes'[a] = 0
      BY <2>1 DEF Sizes
    <3>2. g \in [SUBSET Addrs -> Nat] /\ g[Recorded'] = 0
      BY DEF Recorded
    <3>3. Additive(g, Sizes')
      BY <3>1, <3>2 DEF Additive
    <3> QED BY <3>2, <3>3
  <2> QED BY <2>1, <2>2 DEF BytesAgree, NoStats
<1>8. CASE UNCHANGED <<live_allocations, stats>>
  <2>1. Sizes' = Sizes /\ Recorded' = Recorded
    BY <1>8 DEF Sizes, Recorded
  <2> QED BY <1>2, <1>3, <1>8, <2>1 DEF BytesAgree
<1> QED BY <1>5, <1>6, <1>7, <1>8 DEF Next, Step, Call, vars, table, New, TestEnabled, RecordLock, EmplaceFails,
        Delete, FreeRaw, ScopeSnapshot, ScopeBegin, ScopeEnable, ScopeEnd, setEnabled, reset

\* Such a sum is the fold that StatsAgree takes, whatever element it chooses.
\* A set on which they differ would have a smallest one.
LEMMA SumIsFold ==
  ASSUME NEW f, Additive(f, Sizes)
  PROVE  MapThenSumSet(LAMBDA a : live_allocations[a].size, Recorded) = f[Recorded]
<1> DEFINE S == Recorded
           body(h) == [s \in SUBSET S |-> IF s = {} THEN 0
                         ELSE LET x == CHOOSE x \in s : TRUE
                              IN live_allocations[x].size + h[s \ {x}]]
           iter == CHOOSE h : h = body(h)
           g == [s \in SUBSET S |-> f[s]]
<1>1. MapThenSumSet(LAMBDA a : live_allocations[a].size, Recorded) = iter[S]
  BY Zenon DEF MapThenSumSet, MapThenFoldSet
<1>2. S \subseteq Addrs /\ \A a \in S : Sizes[a] = live_allocations[a].size
  BY DEF Recorded, Sizes
<1> HIDE DEF S
<1>3. ASSUME NEW s \in SUBSET S
      PROVE  g[s] = IF s = {} THEN 0 ELSE LET x == CHOOSE x \in s : TRUE
                                          IN live_allocations[x].size + g[s \ {x}]
  <2>1. CASE s = {}
    BY <2>1 DEF Additive
  <2>2. CASE s # {}
    <3>1. PICK x : x = CHOOSE z \in s : TRUE
      OBVIOUS
    <3>2. x \in s
      BY <2>2, <3>1
    <3>3. f[s] = Sizes[x] + f[s \ {x}]
      BY <1>2, <3>2 DEF Additive
    <3>4. g[s] = live_allocations[x].size + g[s \ {x}]
      BY <1>2, <3>2, <3>3
    <3> QED BY <2>2, <3>1, <3>4
  <2> QED BY <2>1, <2>2
<1>4. g = body(g)
  BY <1>3
<1>5. iter = body(iter)
  BY <1>4, Zenon
<1> HIDE DEF iter, g
<1>6. ASSUME NEW s \in SUBSET S, s # {}
      PROVE  LET x == CHOOSE x \in s : TRUE IN x \in s /\ iter[s] = live_allocations[x].size + iter[s \ {x}]
  BY <1>5, <1>6
<1>7. iter[{}] = 0
  BY <1>5
<1>8. IsFiniteSet(S)
  BY <1>2, LeakAssumption, FS_Subset
<1> DEFINE Bad == {s \in SUBSET S : iter[s] # f[s]}
<1>9. Bad = {}
  <2> SUFFICES ASSUME Bad # {} PROVE FALSE
    OBVIOUS
  <2> DEFINE T == {Cardinality(s) : s \in Bad}
  <2>1. \A s \in SUBSET S : IsFiniteSet(s) /\ Cardinality(s) \in Nat
    BY <1>8, FS_Subset, FS_CardinalityType
  <2>2. T \subseteq Nat /\ T # {}
    BY <2>1
  <2>3. PICK n \in T : \A m \in T : n <= m
    BY <2>2, Least
  <2>4. PICK s \in Bad : Cardinality(s) = n
    BY <2>3
  <2>5. s # {}
    BY <1>7, <2>4 DEF Additive
  <2>6. PICK x : x \in s /\ iter[s] = live_allocations[x].size + iter[s \ {x}]
    BY <1>6, <2>4, <2>5
  <2>7. s \ {x} \in SUBSET S /\ Cardinality(s \ {x}) = n - 1 /\ n \in Nat
    BY <2>1, <2>2, <2>4, <2>6, FS_RemoveElement
  <2>8. ~(n <= n - 1)
    BY <2>7
  <2>9. s \ {x} \notin Bad
    BY <2>3, <2>7, <2>8
  <2>10. iter[s \ {x}] = f[s \ {x}]
    BY <2>7, <2>9
  <2>11. f[s] = Sizes[x] + f[s \ {x}]
    BY <1>2, <2>4, <2>6 DEF Additive
  <2>12. Sizes[x] = live_allocations[x].size
    BY <1>2, <2>4, <2>6
  <2> QED BY <2>4, <2>6, <2>10, <2>11, <2>12
<1>10. iter[S] = f[S]
  BY <1>9
<1> QED BY <1>1, <1>10 DEF S

-----------------------------------------------------------------------------
(* The theorems.                                                           *)

\* IndInv is inductive.
THEOREM Invariance == Spec => []IndInv
<1>1. Init => IndInv
  <2> SUFFICES ASSUME Init PROVE IndInv
    OBVIOUS
  <2>1. ResetOK /\ SequencesOK /\ NestingOK /\ BaselineOK
    BY DEF Init, ResetOK, SequencesOK, NestingOK, BaselineOK, Recorded
  <2>2. Recorded = {}
    BY DEF Init, Recorded
  <2>3. CountsAgree
    BY <2>2, FS_EmptySet DEF Init, CountsAgree, NoStats
  <2>4. BytesAgree
    <3>1. \A a \in Addrs : live_allocations[a] = NoRecord
      BY DEF Init
    <3>2. \E f \in [SUBSET Addrs -> Nat] : Additive(f, Sizes) /\ f[Recorded] = 0
      BY <3>1, NoBytes
    <3>3. stats.live_bytes = 0 /\ stats.peak_live_bytes = 0 /\ stats.total_bytes = 0
      BY DEF Init, NoStats
    <3> QED BY <3>2, <3>3 DEF BytesAgree
  <2> QED BY <2>1, <2>3, <2>4, BaseInit DEF IndInv
<1>2. IndInv /\ [Next]_vars => IndInv'
  <2> SUFFICES ASSUME IndInv, [Next]_vars PROVE IndInv'
    OBVIOUS
  <2>1. Base' /\ TypeOK'
    BY BaseStep DEF IndInv, Base
  <2>2. Base /\ TypeOK /\ ResetOK /\ SequencesOK /\ NestingOK /\ CountsAgree /\ BytesAgree
    BY DEF IndInv, Base
  <2> QED BY <2>1, <2>2, ResetStep, SequencesStep, NestingStep, BaselineStep, CountsStep, BytesStep DEF IndInv
<1> QED BY <1>1, <1>2, PTL DEF Spec

\* The variables keep their types: next_sequence is never 0 and no thread
\* enters the detector twice.
THEOREM TypeCorrect == Spec => []TypeOK
<1>1. IndInv => TypeOK
  BY DEF IndInv, Base
<1> QED BY <1>1, Invariance, PTL

\* A record names a block that is allocated, as it was asked for, although
\* an address is given to another thread as soon as freeRaw() frees it.
THEOREM RecordsAreLive == Spec => []RecordsLive
<1>1. IndInv => RecordsLive
  BY DEF IndInv, Base
<1> QED BY <1>1, Invariance, PTL

\* ScopedMemoryLeakCheck reports none of the blocks that were held when it
\* began and, unless another constructor read `enabled` between its own load
\* and store, every block allocated in it and still held whose record could
\* be made.
THEOREM ScopesSeeLeaks == Spec => []ScopeSeesLeaks
<1>1. IndInv => ScopeSeesLeaks
  <2> SUFFICES ASSUME IndInv, NEW i \in DOMAIN scopes, scopes[i].ready
               PROVE  LET leaks == leaksSince(scopes[i].baseline)
                      IN /\ scopes[i].before \cap leaks = {}
                         /\ scopes[i].on /\ ~scopes[i].overlapped =>
                              {a \in scopes[i].after \cap Held : ~heap[a].lost} \subseteq leaks
    BY DEF ScopeSeesLeaks
  <2>1. BaselineOK /\ scopes[i].baseline \in Nat
    BY ScopeFields DEF IndInv, Base, TypeOK
  <2>2. \A a \in Recorded : live_allocations[a].sequence \in Nat
    BY DEF IndInv, Base, TypeOK, Recorded, Records
  <2>3. scopes[i].before \cap leaksSince(scopes[i].baseline) = {}
    BY <2>1, <2>2 DEF BaselineOK, leaksSince
  <2>4. scopes[i].on /\ ~scopes[i].overlapped =>
          {a \in scopes[i].after \cap Held : ~heap[a].lost} \subseteq leaksSince(scopes[i].baseline)
    BY <2>1 DEF BaselineOK, leaksSince, Held, State, Sure
  <2> QED BY <2>3, <2>4
<1> QED BY <1>1, Invariance, PTL

\* What stats() returns is true of the table: the count, the bytes and the
\* difference of the totals, after failed records, frees of unrecorded
\* blocks and reset().
THEOREM StatisticsAgree == Spec => []StatsAgree
<1>1. IndInv => StatsAgree
  <2> SUFFICES ASSUME IndInv PROVE StatsAgree
    OBVIOUS
  <2>1. CountsAgree /\ BytesAgree
    BY DEF IndInv
  <2>2. PICK f \in [SUBSET Addrs -> Nat] : Additive(f, Sizes) /\ f[Recorded] = stats.live_bytes
    BY <2>1 DEF BytesAgree
  <2>3. MapThenSumSet(LAMBDA a : live_allocations[a].size, Recorded) = stats.live_bytes
    BY <2>2, SumIsFold
  <2> QED BY <2>1, <2>3 DEF StatsAgree, CountsAgree, BytesAgree
<1> QED BY <1>1, Invariance, PTL
=============================================================================
