-------------------------- MODULE EchoServerProofs --------------------------
(***************************************************************************)
(* For every number of connections and bytes and every size of the         *)
(* buffers: the server's table of clients, the reactor's watchers and the  *)
(* open descriptors agree, Write interest is registered exactly when there *)
(* is output left, and a peer gets its own bytes back in order.            *)
(***************************************************************************)
EXTENDS EchoServer, FiniteSetTheorems, SequenceTheorems, WellFoundedInduction, TLAPS

-----------------------------------------------------------------------------
(* The inductive invariant.                                                *)

\* A callback of a client works on an open descriptor whose events it has
\* taken.  An error or a hangup is only reported of a connection that was
\* reset.
CallbacksOK ==
  /\ pc \in ClientLabels => cur \in ClientFds /\ sock[cur] # None /\ callbacks[cur] = {}
  /\ pc = "close" => net[sock[cur]].state = "reset"
  /\ \A f \in ClientFds : callbacks[f] \cap {"err", "hup"} # {} => net[sock[f]].state = "reset"

\* A connection is new, or in the backlog once, or has one descriptor, or
\* has been closed.
ConnsOK ==
  /\ \A f, g \in ClientFds : sock[f] # None /\ sock[f] = sock[g] => f = g
  /\ \A i, j \in 1 .. Len(backlog) : backlog[i] = backlog[j] => i = j
  /\ \A i \in 1 .. Len(backlog), f \in ClientFds : sock[f] # backlog[i]
  /\ \A c \in Conns : net[c].state = "new" =>
       /\ \A f \in ClientFds : sock[f] # c
       /\ \A i \in 1 .. Len(backlog) : backlog[i] # c
       /\ net[c].sent = 0 /\ net[c].rx = <<>> /\ net[c].tx = <<>> /\ net[c].got = <<>>

\* WriteInterestExact, of every client whose callback does not run.
InterestOK ==
  \A f \in ClientFds : clients[f] # NoClient /\ ~(pc \in ClientLabels /\ cur = f) =>
    ("write" \in watchers[f] <=> clients[f] # <<>>)

\* Nobody has closed or reset connection c.
Whole(c) ==
  \/ net[c].state \in {"new", "open"}
  \/ /\ net[c].state = "eof"
     /\ (\E f \in ClientFds : sock[f] = c) \/ (\E i \in 1 .. Len(backlog) : backlog[i] = c)

\* `out` is what the server has in hand for connection c.
Has(c, out) == /\ \A f \in ClientFds : sock[f] = c => out = clients[f]
               /\ (\A f \in ClientFds : sock[f] # c) => out = <<>>

\* The bytes of a connection that is whole are all somewhere, in order; of
\* any other what is delivered, or will be, is a beginning of what was sent.
StreamOK(c) ==
  /\ Whole(c) => \E out \in Seq(Bytes) :
       Has(c, out) /\ ((net[c].got \o net[c].tx) \o out) \o net[c].rx = Sent(c)
  /\ \E rest \in Seq(Bytes) : (net[c].got \o net[c].tx) \o rest = Sent(c)

StreamsOK == \A c \in Conns : StreamOK(c)

IndInv == TypeOK /\ TablesAgree /\ CallbacksOK /\ ConnsOK /\ InterestOK /\ StreamsOK


\* The part of it that does not look at the bytes.
Tables == TypeOK /\ TablesAgree /\ CallbacksOK /\ ConnsOK /\ InterestOK

-----------------------------------------------------------------------------
(* The least element of a set of numbers.                                  *)

\* The least of two numbers.
LEMMA MinOfTwo ==
  ASSUME NEW a \in Int, NEW b \in Int
  PROVE  Min({a, b}) \in {a, b} /\ Min({a, b}) <= a /\ Min({a, b}) <= b
<1>1. \E x \in {a, b} : \A y \in {a, b} : x =< y
  <2>1. CASE a =< b
    BY <2>1
  <2>2. CASE b =< a
    BY <2>2
  <2> QED BY <2>1, <2>2
<1> QED BY <1>1 DEF Min

\* The least of a set of numbers.
LEMMA MinOfSet ==
  ASSUME NEW S \in SUBSET Nat, S # {}
  PROVE  Min(S) \in S
<1> DEFINE R == {e \in Nat \X Nat : e[1] < e[2]}
<1>1. IsWellFoundedOn(R, Nat)
  BY NatLessThanWellFounded DEF OpToRel
<1>2. PICK x \in S : \A y \in S : ~(<<y, x>> \in R)
  BY <1>1, WFMin
<1>3. ASSUME NEW y \in S PROVE x =< y
  <2>1. x \in Nat /\ y \in Nat /\ <<y, x>> \in Nat \X Nat /\ <<y, x>>[1] = y /\ <<y, x>>[2] = x
    OBVIOUS
  <2>2. ~(y < x)
    BY <1>2, <2>1
  <2> QED BY <2>1, <2>2
<1> QED BY <1>3 DEF Min

\* While a connection waits in the backlog, accept4() finds a descriptor.
LEMMA FreeDescriptor ==
  ASSUME Tables, backlog # <<>>
  PROVE  LET f == Min({g \in ClientFds : sock[g] = None})
         IN  f \in ClientFds /\ sock[f] = None /\ Head(backlog) \in Conns
             /\ \A g \in ClientFds : sock[g] # Head(backlog)
<1> DEFINE c == Head(backlog)  Free == {g \in ClientFds : sock[g] = None}
<1>1. ClientFds = 1 .. NConns /\ NConns \in Nat /\ Conns = 1 .. NConns /\ ClientFds \subseteq Nat
  BY EchoAssumption DEF ClientFds, Conns, Listener
<1>2. c \in Conns /\ Len(backlog) \in Nat /\ 1 \in 1 .. Len(backlog) /\ c = backlog[1]
  BY EmptySeq DEF Tables, TypeOK
<1>3. \A g \in ClientFds : sock[g] # c
  BY <1>2 DEF Tables, ConnsOK
<1>4. Free # {}
  <2> SUFFICES ASSUME Free = {} PROVE FALSE
    OBVIOUS
  <2>1. sock \in [ClientFds -> Conns \ {c}]
    BY <1>3 DEF Tables, TypeOK
  <2>2. IsFiniteSet(ClientFds) /\ Cardinality(ClientFds) = NConns
    BY <1>1, FS_Interval, EchoAssumption
  <2>3. IsFiniteSet(Conns \ {c}) /\ Cardinality(Conns \ {c}) = NConns - 1
    BY <1>1, <1>2, <2>2, FS_RemoveElement
  <2>4. \E x, y \in ClientFds : x # y /\ sock[x] = sock[y]
    <3>1. Cardinality(Conns \ {c}) < Cardinality(ClientFds)
      BY <1>1, <2>2, <2>3
    <3> QED BY <2>1, <2>2, <2>3, <3>1, FS_PigeonHole
  <2> QED BY <2>4 DEF Tables, ConnsOK
<1>5. Min(Free) \in Free
  BY <1>1, <1>4, MinOfSet
<1> QED BY <1>2, <1>3, <1>5

-----------------------------------------------------------------------------
(* The tables, step by step.                                               *)

\* The listener and the descriptors of clients are different.
LEMMA Descriptors ==
  /\ Listener \in Fds /\ Listener \notin ClientFds /\ Eventfd \notin Fds /\ None \notin Conns
  /\ ClientFds \subseteq Fds
  /\ Fds = ClientFds \cup {Listener}
BY EchoAssumption, EventfdAssumption DEF ClientFds, Listener, Conns, None

\* What a callback of a client works on.
LEMMA CurrentClient ==
  ASSUME Tables, pc \in ClientLabels
  PROVE  /\ cur \in ClientFds /\ sock[cur] \in Conns /\ net[sock[cur]] \in Sockets
         /\ clients[cur] \in Seq(Bytes) /\ callbacks[cur] = {} /\ watchers[cur] # {}
<1>1. cur \in ClientFds /\ sock[cur] # None /\ callbacks[cur] = {}
  BY DEF Tables, CallbacksOK
<1>2. sock[cur] \in Conns /\ net[sock[cur]] \in Sockets
  BY <1>1 DEF Tables, TypeOK
<1>3. clients[cur] # NoClient /\ watchers[cur] # {}
  BY <1>1 DEF Tables, TablesAgree
<1> QED BY <1>1, <1>2, <1>3 DEF Tables, TypeOK

\* Of a connection's socket an error or a hangup is reported after a reset.
LEMMA PollOfConn ==
  ASSUME NEW n \in Sockets
  PROVE  /\ ConnPoll(n) \subseteq AnyEvent
         /\ ConnPoll(n) \cap {"err", "hup"} # {} => n.state = "reset"
BY DEF ConnPoll, AnyEvent, Sockets

\* What a peer does to its connection keeps the tables.
LEMMA PeerTables ==
  ASSUME Tables, NEW c \in Conns, NEW n \in Sockets, NEW events, Peer(c, n, events),
         net[c].state # "new", n.state # "new", net[c].state = "reset" => n.state = "reset"
  PROVE  Tables'
<1>1. \A d \in Conns : net'[d] = IF d = c THEN n ELSE net[d]
  BY DEF Peer, Tables, TypeOK
<1>2. net' \in [Conns -> Sockets]
  BY DEF Peer, Tables, TypeOK
<1>3. ready_list' \subseteq Fds
  BY Descriptors DEF Peer, Edge, FdOf, Tables, TypeOK
<1> USE DEF Peer, server
<1>4. TypeOK'
  BY <1>2, <1>3 DEF Tables, TypeOK
<1>5. TablesAgree' /\ InterestOK'
  BY DEF Tables, TablesAgree, InterestOK
<1>6. CallbacksOK'
  <2>1. \A f \in ClientFds : callbacks[f] # {} => sock[f] \in Conns
    BY DEF Tables, TablesAgree, TypeOK
  <2>2. pc = "close" => sock[cur] \in Conns
    BY CurrentClient DEF ClientLabels
  <2> QED BY <1>1, <2>1, <2>2 DEF Tables, CallbacksOK
<1>7. ConnsOK'
  BY <1>1 DEF Tables, ConnsOK
<1> QED BY <1>4, <1>5, <1>6, <1>7 DEF Tables

\* A new connection in the backlog keeps the tables.
LEMMA ConnectTables ==
  ASSUME Tables, NEW c \in Conns, Connect(c)
  PROVE  Tables'
<1> USE DEF Connect, server
<1>1. /\ net[c].state = "new"
      /\ net' = [net EXCEPT ![c] = [net[c] EXCEPT !.state = "open"]]
      /\ \A d \in Conns \ {c} : net'[d] = net[d]
      /\ net'[c].state = "open"
  BY DEF Tables, TypeOK, Sockets
<1>2. net' \in [Conns -> Sockets] /\ backlog' \in Seq(Conns) /\ ready_list' \subseteq Fds
  <2>1. net' \in [Conns -> Sockets]
    BY <1>1 DEF Tables, TypeOK, Sockets
  <2>2. backlog' \in Seq(Conns)
    BY DEF Tables, TypeOK
  <2>3. ready_list' \subseteq Fds
    BY Descriptors DEF Edge, Tables, TypeOK
  <2> QED BY <2>1, <2>2, <2>3
<1>3. TypeOK'
  BY <1>2 DEF Tables, TypeOK
<1>4. TablesAgree' /\ InterestOK'
  BY DEF Tables, TablesAgree, InterestOK
<1>5. CallbacksOK'
  <2>1. \A f \in ClientFds : callbacks[f] # {} => sock[f] \in Conns
    BY DEF Tables, TablesAgree, TypeOK
  <2>2. pc = "close" => sock[cur] \in Conns
    BY CurrentClient DEF ClientLabels
  <2> QED BY <1>1, <2>1, <2>2 DEF Tables, CallbacksOK
<1>6. ConnsOK'
  <2>1. /\ Len(backlog) \in Nat /\ Len(backlog') = Len(backlog) + 1 /\ backlog'[Len(backlog) + 1] = c
        /\ \A i \in 1 .. Len(backlog) : backlog'[i] = backlog[i]
    BY DEF Tables, TypeOK
  <2>2. \A i \in 1 .. Len(backlog') : i \in 1 .. Len(backlog) \/ i = Len(backlog) + 1
    BY <2>1
  <2>3. (\A i \in 1 .. Len(backlog) : backlog[i] # c) /\ (\A f \in ClientFds : sock[f] # c)
    BY <1>1 DEF Tables, ConnsOK
  <2>4. \A i, j \in 1 .. Len(backlog') : backlog'[i] = backlog'[j] => i = j
    BY <2>1, <2>2, <2>3 DEF Tables, ConnsOK
  <2>5. \A i \in 1 .. Len(backlog'), f \in ClientFds : sock[f] # backlog'[i]
    BY <2>1, <2>2, <2>3 DEF Tables, ConnsOK
  <2>6. ASSUME NEW d \in Conns, net'[d].state = "new"
        PROVE  /\ \A f \in ClientFds : sock[f] # d
               /\ \A i \in 1 .. Len(backlog') : backlog'[i] # d
               /\ net'[d].sent = 0 /\ net'[d].rx = <<>> /\ net'[d].tx = <<>> /\ net'[d].got = <<>>
    <3>1. d # c /\ net'[d] = net[d]
      BY <1>1, <2>6
    <3> QED BY <2>1, <2>2, <2>6, <3>1 DEF Tables, ConnsOK
  <2> QED BY <2>4, <2>5, <2>6 DEF Tables, ConnsOK
<1> QED BY <1>3, <1>4, <1>5, <1>6 DEF Tables

\* Everything a step that only moves the loop leaves alone.
Elsewhere == UNCHANGED <<watchers, clients, sock, backlog, net, stopper>>

\* A step of run() outside the callbacks.
LEMMA LoopTables ==
  ASSUME Tables, Elsewhere, UNCHANGED <<cur, event>>, pc \in LoopLabels, pc' \in LoopLabels,
         ready_list' \in SUBSET Fds, wake_fd' \in BOOLEAN, stopping' \in BOOLEAN,
         callbacks' \in [Fds \cup {Eventfd} -> SUBSET AnyEvent],
         \A f \in ClientFds : callbacks'[f] # {} =>
           /\ watchers[f] # {}
           /\ callbacks'[f] \cap {"err", "hup"} # {} => net[sock[f]].state = "reset"
  PROVE  Tables'
<1> USE DEF Elsewhere
<1>1. pc \notin ClientLabels /\ pc' \notin ClientLabels /\ pc' # "close"
  BY DEF LoopLabels, ClientLabels
<1>2. TypeOK'
  BY DEF Tables, TypeOK
<1>3. TablesAgree'
  BY DEF Tables, TablesAgree
<1>4. InterestOK' /\ ConnsOK'
  BY <1>1 DEF Tables, InterestOK, ConnsOK
<1>5. CallbacksOK'
  BY <1>1 DEF Tables, CallbacksOK
<1> QED BY <1>2, <1>3, <1>4, <1>5 DEF Tables

\* epoll_wait() reports only descriptors that are watched.
LEMMA WaitTables ==
  ASSUME Tables, RunWait(Poll), UNCHANGED server, Outside
  PROVE  Tables'
<1> DEFINE live == {f \in ready_list : Reported(f, Poll[f]) # {}}
<1>1. PICK batch \in SUBSET (live \cup {Eventfd}) :
        /\ pc = "wait" /\ pc' = "collect" /\ UNCHANGED <<watchers, wake_fd, stopping>>
        /\ callbacks' = [f \in Fds \cup {Eventfd} |->
                           IF f \notin batch THEN {}
                           ELSE IF f = Eventfd THEN {"in"} ELSE Reported(f, Poll[f])]
        /\ ready_list' \subseteq live
  BY DEF RunWait, kSubset
<1>2. live \subseteq Fds
  BY DEF Tables, TypeOK
<1>3. \A f \in Fds : Poll[f] \subseteq AnyEvent /\ Reported(f, Poll[f]) \subseteq Poll[f]
  <2> TAKE f \in Fds
  <2>1. f \in ClientFds /\ sock[f] # None => net[sock[f]] \in Sockets
    BY DEF Tables, TypeOK
  <2>2. Poll[f] \subseteq AnyEvent
    BY <2>1, Descriptors, PollOfConn DEF Poll, AnyEvent
  <2>3. Reported(f, Poll[f]) \subseteq Poll[f]
    BY DEF Reported
  <2> QED BY <2>2, <2>3
<1>4. callbacks' \in [Fds \cup {Eventfd} -> SUBSET AnyEvent]
  <2>1. "in" \in AnyEvent
    BY DEF AnyEvent
  <2>2. \A f \in live : Reported(f, Poll[f]) \subseteq AnyEvent
    BY <1>2, <1>3
  <2> HIDE DEF live
  <2> QED BY <1>1, <2>1, <2>2
<1>5. ASSUME NEW f \in ClientFds, callbacks'[f] # {}
      PROVE  /\ watchers[f] # {}
             /\ callbacks'[f] \cap {"err", "hup"} # {} => net[sock[f]].state = "reset"
  <2>1. f \in Fds /\ f # Listener /\ f # Eventfd
    BY Descriptors
  <2>2. callbacks'[f] = Reported(f, Poll[f])
    BY <1>1, <1>5, <2>1
  <2>3. watchers[f] # {}
    BY <1>5, <2>2 DEF Reported
  <2>4. sock[f] # None
    BY <2>3 DEF Tables, TablesAgree
  <2>5. Poll[f] = ConnPoll(net[sock[f]]) /\ net[sock[f]] \in Sockets
    BY <2>1, <2>4 DEF Poll, Tables, TypeOK
  <2> QED BY <1>3, <2>1, <2>2, <2>3, <2>5, PollOfConn
<1>6. wake_fd' \in BOOLEAN /\ stopping' \in BOOLEAN
  BY <1>1 DEF Tables, TypeOK
<1> QED BY <1>1, <1>2, <1>4, <1>5, <1>6, LoopTables DEF Elsewhere, server, Outside, LoopLabels

\* The steps of run() keep the tables.
LEMMA RunTables ==
  ASSUME Tables, Run
  PROVE  Tables'
<1> USE DEF server, Outside, Elsewhere, reactor
<1>1. \A f \in ClientFds : callbacks[f] # {} =>
        /\ watchers[f] # {}
        /\ callbacks[f] \cap {"err", "hup"} # {} => net[sock[f]].state = "reset"
  BY DEF Tables, TablesAgree, CallbacksOK
<1>2. TypeOK /\ UNCHANGED server /\ Outside
  BY DEF Tables, Run
<1>3. CASE RunStore
  <2>1. stopping' \in BOOLEAN /\ wake_fd' \in BOOLEAN
    BY <1>2, <1>3 DEF RunStore, TypeOK
  <2> QED BY <1>1, <1>2, <1>3, <2>1, LoopTables DEF RunStore, TypeOK, LoopLabels
<1>4. CASE RunCheck
  BY <1>1, <1>2, <1>4, LoopTables DEF RunCheck, TypeOK, LoopLabels
<1>5. CASE RunWait(Poll)
  BY <1>2, <1>5, WaitTables
<1>6. CASE RunCollect
  <2>1. wake_fd' \in BOOLEAN
    BY <1>6 DEF RunCollect, Drained
  <2>2. callbacks' \in [Fds \cup {Eventfd} -> SUBSET AnyEvent]
    BY <1>2, <1>6 DEF RunCollect, TypeOK
  <2>3. \A f \in ClientFds : callbacks'[f] # {} => callbacks'[f] = callbacks[f]
    BY <1>6, Descriptors DEF RunCollect
  <2> QED BY <1>1, <1>2, <1>6, <2>1, <2>2, <2>3, LoopTables DEF RunCollect, TypeOK, LoopLabels
<1>7. CASE RunAgain
  BY <1>1, <1>2, <1>7, LoopTables DEF RunAgain, TypeOK, LoopLabels
<1> QED BY <1>3, <1>4, <1>5, <1>6, <1>7 DEF Run

\* The next callback, and every step that only moves within one.
LEMMA CallbackTables ==
  ASSUME Tables, Elsewhere, UNCHANGED <<ready_list, wake_fd, stopping>>,
         cur' \in Fds, event' \in SUBSET AnyEvent,
         pc' \in ClientLabels \cup {"dispatch", "accept"},
         callbacks' \in [Fds \cup {Eventfd} -> SUBSET AnyEvent],
         \A f \in ClientFds : callbacks'[f] \in {callbacks[f], {}},
         pc' \in ClientLabels => cur' \in ClientFds /\ sock[cur'] # None /\ callbacks'[cur'] = {},
         pc' = "close" => net[sock[cur']].state = "reset",
         pc \in ClientLabels => pc' \in ClientLabels /\ cur' = cur
  PROVE  Tables'
<1> USE DEF Elsewhere
<1>1. TypeOK'
  BY DEF Tables, TypeOK, LoopLabels
<1>2. TablesAgree' /\ ConnsOK'
  BY DEF Tables, TablesAgree, ConnsOK
<1>3. InterestOK'
  BY DEF Tables, InterestOK
<1>4. CallbacksOK'
  BY DEF Tables, CallbacksOK
<1> QED BY <1>1, <1>2, <1>3, <1>4 DEF Tables

\* Beginning a callback keeps the tables.
LEMMA DispatchTables ==
  ASSUME Tables, Dispatch
  PROVE  Tables'
<1>1. PICK f \in Fds :
        /\ pc = "dispatch" /\ callbacks[f] # {}
        /\ callbacks' = [callbacks EXCEPT ![f] = {}]
        /\ cur' = f /\ event' = callbacks[f]
        /\ pc' = IF f = Listener THEN "accept"
                 ELSE IF callbacks[f] \cap {"err", "hup"} # {} THEN "close"
                 ELSE IF callbacks[f] \cap {"in", "rdhup"} # {} THEN "recv"
                 ELSE "flush_write"
        /\ UNCHANGED <<watchers, ready_list, wake_fd, stopping, clients, sock>> /\ Outside
  BY DEF Dispatch, Here
<1>2. callbacks' \in [Fds \cup {Eventfd} -> SUBSET AnyEvent] /\ event' \in SUBSET AnyEvent
      /\ callbacks'[f] = {} /\ \A g \in ClientFds : callbacks'[g] \in {callbacks[g], {}}
  BY <1>1, Descriptors DEF Tables, TypeOK
<1>3. pc' \in ClientLabels \cup {"accept"} /\ pc \notin ClientLabels
  BY <1>1 DEF ClientLabels
<1>4. pc' \in ClientLabels => f \in ClientFds
  BY <1>1, Descriptors DEF ClientLabels
<1>5. f \in ClientFds => sock[f] # None
  BY <1>1 DEF Tables, TablesAgree
<1>6. pc' = "close" => f \in ClientFds /\ net[sock[f]].state = "reset"
  BY <1>1, Descriptors DEF Tables, CallbacksOK
<1> QED BY <1>1, <1>2, <1>3, <1>4, <1>5, <1>6, CallbackTables DEF Elsewhere, Outside

\* accept4() gives a descriptor that nobody has, and it enters both tables.
LEMMA AcceptTables ==
  ASSUME Tables, Accept
  PROVE  Tables'
<1>1. pc = "accept" /\ pc \notin ClientLabels
  BY DEF Accept, ClientLabels
<1>2. CASE backlog = <<>>
  <2>1. /\ pc' = "dispatch" /\ cur' = Listener /\ event' = {} /\ Elsewhere
        /\ UNCHANGED <<ready_list, wake_fd, stopping, callbacks>>
    BY <1>2 DEF Accept, Return, Loop, Elsewhere
  <2>2. pc' \notin ClientLabels /\ event' \in SUBSET AnyEvent
    BY <2>1 DEF ClientLabels
  <2> QED BY <1>1, <2>1, <2>2, CallbackTables, Descriptors DEF Tables, TypeOK
<1>3. CASE backlog # <<>>
  <2>1. PICK f, c : f = Min({g \in ClientFds : sock[g] = None}) /\ c = Head(backlog)
    OBVIOUS
  <2>2. f \in ClientFds /\ sock[f] = None /\ c \in Conns /\ \A g \in ClientFds : sock[g] # c
    BY <1>3, <2>1, FreeDescriptor
  <2>3. /\ sock' = [sock EXCEPT ![f] = c] /\ backlog' = Tail(backlog)
        /\ clients' = [clients EXCEPT ![f] = Emplaced(f)]
        /\ watchers' = [watchers EXCEPT ![f] = Interest]
        /\ ready_list' = Queued(f, Interest, ConnPoll(net[c]))
        /\ UNCHANGED <<wake_fd, stopping, callbacks, pc, cur, event, net, stopper>>
    BY <1>3, <2>1 DEF Accept, add
  <2>4. clients[f] = NoClient /\ Emplaced(f) = <<>> /\ callbacks[f] = {}
    BY <2>2 DEF Emplaced, Tables, TablesAgree
  <2>5. f \in Fds
    BY <2>2, Descriptors
  <2>6. <<>> \in Seq(Bytes) /\ <<>> # NoClient
    BY EmptySeq, EchoAssumption
  <2>7. TypeOK'
    <3>1. sock' \in [ClientFds -> Conns \cup {None}] /\ clients' \in [ClientFds -> Seq(Bytes) \cup {NoClient}]
      BY <2>2, <2>3, <2>4, <2>6 DEF Tables, TypeOK
    <3>2. watchers' \in [Fds -> SUBSET {"read", "write", "et"}] /\ ready_list' \in SUBSET Fds
      BY <2>3, <2>5 DEF Tables, TypeOK, Queued, Interest
    <3>3. backlog' \in Seq(Conns)
      BY <1>3, <2>3 DEF Tables, TypeOK
    <3> QED BY <2>3, <3>1, <3>2, <3>3 DEF Tables, TypeOK
  <2>8. /\ sock'[f] = c /\ clients'[f] = <<>> /\ watchers'[f] = Interest
        /\ \A g \in ClientFds \ {f} : sock'[g] = sock[g] /\ clients'[g] = clients[g]
                                      /\ watchers'[g] = watchers[g]
    BY <2>2, <2>3, <2>4, <2>5 DEF Tables, TypeOK
  <2>9. TablesAgree'
    <3>1. c # None /\ Interest # {}
      BY <2>2, Descriptors DEF Interest
    <3> QED BY <2>3, <2>6, <2>8, <3>1 DEF Tables, TablesAgree
  <2>10. InterestOK'
    BY <1>1, <2>3, <2>8 DEF Tables, InterestOK, Interest
  <2>11. CallbacksOK'
    BY <1>1, <2>3, <2>4, <2>8 DEF Tables, CallbacksOK, ClientLabels
  <2>12. ConnsOK'
    <3>1. /\ Len(backlog) \in Nat /\ Len(backlog') = Len(backlog) - 1 /\ backlog[1] = c
          /\ 1 \in 1 .. Len(backlog)
          /\ \A i \in 1 .. Len(backlog') : backlog'[i] = backlog[i + 1] /\ i + 1 \in 1 .. Len(backlog)
      BY <1>3, <2>1, <2>3, EmptySeq, HeadTailProperties DEF Tables, TypeOK
    <3>2. \A i, j \in 1 .. Len(backlog') : backlog'[i] = backlog'[j] => i = j
      <4> SUFFICES ASSUME NEW i \in 1 .. Len(backlog'), NEW j \in 1 .. Len(backlog'),
                          backlog'[i] = backlog'[j]
                   PROVE  i = j
        OBVIOUS
      <4>1. i + 1 = j + 1
        BY <3>1 DEF Tables, ConnsOK
      <4> QED BY <3>1, <4>1
    <3>3. \A i \in 1 .. Len(backlog') : backlog'[i] # c
      <4> SUFFICES ASSUME NEW i \in 1 .. Len(backlog'), backlog'[i] = c PROVE FALSE
        OBVIOUS
      <4>1. i + 1 = 1
        BY <3>1 DEF Tables, ConnsOK
      <4> QED BY <3>1, <4>1
    <3>4. net[c].state # "new"
      BY <3>1, <2>2 DEF Tables, ConnsOK
    <3>5. \A g, h \in ClientFds : sock'[g] # None /\ sock'[g] = sock'[h] => g = h
      BY <2>2, <2>8 DEF Tables, ConnsOK
    <3>6. \A i \in 1 .. Len(backlog'), g \in ClientFds : sock'[g] # backlog'[i]
      BY <2>8, <3>1, <3>3 DEF Tables, ConnsOK
    <3>7. ASSUME NEW d \in Conns, net[d].state = "new"
          PROVE  /\ \A g \in ClientFds : sock'[g] # d
                 /\ \A i \in 1 .. Len(backlog') : backlog'[i] # d
                 /\ net[d].sent = 0 /\ net[d].rx = <<>> /\ net[d].tx = <<>> /\ net[d].got = <<>>
      BY <2>8, <3>1, <3>4, <3>7 DEF Tables, ConnsOK
    <3> QED BY <2>3, <3>2, <3>5, <3>6, <3>7 DEF Tables, ConnsOK
  <2> QED BY <2>7, <2>9, <2>10, <2>11, <2>12 DEF Tables
<1> QED BY <1>2, <1>3

\* closeClient() takes a descriptor from both tables and closes it.
LEMMA CloseTables ==
  ASSUME Tables, pc \in ClientLabels, closeClient(cur)
  PROVE  Tables'
<1>1. cur \in ClientFds /\ cur \in Fds /\ callbacks[cur] = {} /\ sock[cur] \in Conns
  BY CurrentClient, Descriptors
<1>2. /\ watchers' = [watchers EXCEPT ![cur] = {}] /\ ready_list' = ready_list \ {cur}
      /\ clients' = [clients EXCEPT ![cur] = NoClient] /\ sock' = [sock EXCEPT ![cur] = None]
      /\ pc' = "dispatch" /\ cur' = Listener /\ event' = {}
      /\ UNCHANGED <<wake_fd, stopping, callbacks, backlog, net, stopper>>
  BY DEF closeClient, Unwatch, remove, Erased, Return, Outside
<1>3. TypeOK'
  <2>1. watchers' \in [Fds -> SUBSET {"read", "write", "et"}] /\ ready_list' \in SUBSET Fds
        /\ clients' \in [ClientFds -> Seq(Bytes) \cup {NoClient}]
        /\ sock' \in [ClientFds -> Conns \cup {None}]
    BY <1>1, <1>2 DEF Tables, TypeOK
  <2>2. cur' \in Fds /\ event' \in SUBSET AnyEvent /\ pc' \in LoopLabels
    BY <1>2, Descriptors DEF LoopLabels
  <2> QED BY <1>2, <2>1, <2>2 DEF Tables, TypeOK
<1>4. /\ sock'[cur] = None /\ clients'[cur] = NoClient /\ watchers'[cur] = {}
      /\ \A g \in ClientFds \ {cur} : sock'[g] = sock[g] /\ clients'[g] = clients[g]
                                      /\ watchers'[g] = watchers[g]
  BY <1>1, <1>2, Descriptors DEF Tables, TypeOK
<1>5. TablesAgree'
  BY <1>1, <1>2, <1>4 DEF Tables, TablesAgree
<1>6. InterestOK'
  BY <1>2, <1>4 DEF Tables, InterestOK
<1>7. CallbacksOK'
  BY <1>1, <1>2, <1>4 DEF Tables, CallbacksOK, ClientLabels
<1>8. ConnsOK'
  <2>1. \A i \in 1 .. Len(backlog) : backlog[i] \in Conns
    BY DEF Tables, TypeOK
  <2> QED BY <1>2, <1>4, <2>1, Descriptors DEF Tables, ConnsOK
<1> QED BY <1>3, <1>5, <1>6, <1>7, <1>8 DEF Tables

\* A step of a callback that moves bytes between the server and a socket.
LEMMA BytesTables ==
  ASSUME Tables, pc \in ClientLabels, NEW out \in Seq(Bytes), NEW n \in Sockets,
         n.state = net[sock[cur]].state, n.state # "new",
         clients' = [clients EXCEPT ![cur] = out], net' = [net EXCEPT ![sock[cur]] = n],
         pc' \in ClientLabels, pc' # "close",
         Loop, UNCHANGED <<sock, cur, event, backlog, stopper>>
  PROVE  Tables'
<1> USE DEF Loop
<1>1. cur \in ClientFds /\ callbacks[cur] = {} /\ sock[cur] \in Conns /\ clients[cur] \in Seq(Bytes)
  BY CurrentClient
<1>2. /\ clients'[cur] = out /\ \A g \in ClientFds \ {cur} : clients'[g] = clients[g]
      /\ net'[sock[cur]] = n /\ \A d \in Conns \ {sock[cur]} : net'[d] = net[d]
      /\ \A d \in Conns : net'[d].state = net[d].state
  BY <1>1 DEF Tables, TypeOK
<1>3. TypeOK'
  BY <1>1 DEF Tables, TypeOK
<1>4. TablesAgree'
  BY <1>1, <1>2, EchoAssumption DEF Tables, TablesAgree
<1>5. InterestOK'
  BY <1>1, <1>2 DEF Tables, InterestOK
<1>6. CallbacksOK'
  <2>1. \A f \in ClientFds : callbacks[f] # {} => sock[f] \in Conns
    BY DEF Tables, TablesAgree, TypeOK
  <2> QED BY <1>2, <2>1 DEF Tables, CallbacksOK
<1>7. ConnsOK'
  BY <1>2 DEF Tables, ConnsOK
<1> QED BY <1>3, <1>4, <1>5, <1>6, <1>7 DEF Tables

\* A connection that has a descriptor is not new.
LEMMA NotNew ==
  ASSUME Tables, NEW f \in ClientFds, sock[f] # None
  PROVE  sock[f] \in Conns /\ net[sock[f]].state # "new"
BY DEF Tables, ConnsOK, TypeOK

\* What SubSeq() cuts off a sequence of bytes, and what it leaves.
LEMMA Cut ==
  ASSUME NEW s \in Seq(Bytes), NEW n \in 0 .. Len(s)
  PROVE  /\ SubSeq(s, 1, n) \in Seq(Bytes) /\ SubSeq(s, n + 1, Len(s)) \in Seq(Bytes)
         /\ SubSeq(s, 1, n) \o SubSeq(s, n + 1, Len(s)) = s
<1>1. Len(s) \in Nat /\ \A i \in 1 .. Len(s) : s[i] \in Bytes
  BY ElementOfSeq
<1>2. SubSeq(s, 1, n) \in Seq(Bytes) /\ SubSeq(s, n + 1, Len(s)) \in Seq(Bytes)
  <2>1. \A i \in 1 .. n : s[i] \in Bytes
    BY <1>1
  <2>2. \A i \in n + 1 .. Len(s) : s[i] \in Bytes
    BY <1>1
  <2> QED BY <1>1, <2>1, <2>2, SubSeqProperties
<1>3. SubSeq(s, 1, n) \o SubSeq(s, n + 1, Len(s)) = SubSeq(s, 1, Len(s))
  <2>1. 1 \in 1 .. Len(s) + 1 /\ n \in 1 - 1 .. Len(s) /\ Len(s) \in n .. Len(s)
    BY <1>1
  <2> QED BY <2>1, ConcatAdjacentSubSeq
<1> QED BY <1>2, <1>3, SubSeqFull

\* recv() with something to read, in terms of what it takes and leaves.
LEMMA RecvTakes ==
  ASSUME Tables, Recv, net[sock[cur]].rx # <<>>
  PROVE  \E got, left \in Seq(Bytes) :
           /\ got \o left = net[sock[cur]].rx
           /\ clients' = [clients EXCEPT ![cur] = clients[cur] \o got]
           /\ net' = [net EXCEPT ![sock[cur]] = [net[sock[cur]] EXCEPT !.rx = left]]
           /\ pc = "recv" /\ pc' = "flush_read"
           /\ Loop /\ UNCHANGED <<sock, cur, event, backlog, stopper>>
<1> DEFINE c == net[sock[cur]]
           n == Min({Chunk, Len(c.rx)})
<1>1. /\ pc = "recv" /\ pc' = "flush_read"
      /\ clients' = [clients EXCEPT ![cur] = @ \o SubSeq(c.rx, 1, n)]
      /\ net' = [net EXCEPT ![sock[cur]].rx = SubSeq(c.rx, n + 1, Len(c.rx))]
      /\ Loop /\ UNCHANGED <<sock, cur, event, backlog, stopper>>
  BY DEF Recv, Here
<1>2. cur \in ClientFds /\ sock[cur] \in Conns /\ c \in Sockets /\ c.rx \in Seq(Bytes)
  BY <1>1, CurrentClient DEF ClientLabels, Sockets
<1>3. n \in 0 .. Len(c.rx)
  <2>1. Chunk \in Int /\ Chunk > 0 /\ Len(c.rx) \in Nat /\ Len(c.rx) \in Int
    BY <1>2, EchoAssumption
  <2>2. n \in {Chunk, Len(c.rx)} /\ n <= Len(c.rx)
    BY <2>1, MinOfTwo, Zenon
  <2> HIDE DEF n
  <2> QED BY <2>1, <2>2
<1>4. /\ SubSeq(c.rx, 1, n) \in Seq(Bytes) /\ SubSeq(c.rx, n + 1, Len(c.rx)) \in Seq(Bytes)
      /\ SubSeq(c.rx, 1, n) \o SubSeq(c.rx, n + 1, Len(c.rx)) = c.rx
  BY <1>2, <1>3, Cut
<1>5. PICK got, left \in Seq(Bytes) :
        got = SubSeq(c.rx, 1, n) /\ left = SubSeq(c.rx, n + 1, Len(c.rx))
  BY <1>4
<1>6. clients' = [clients EXCEPT ![cur] = clients[cur] \o got]
  BY <1>1, <1>2, <1>5 DEF Tables, TypeOK
<1>7. net' = [net EXCEPT ![sock[cur]] = [net[sock[cur]] EXCEPT !.rx = left]]
  BY <1>1, <1>2, <1>5 DEF Tables, TypeOK
<1> QED BY <1>1, <1>4, <1>5, <1>6, <1>7

\* send() with room in the socket, in terms of what it takes and leaves.
Sends == /\ pc \in {"flush_read", "flush_write"}
         /\ clients[cur] # <<>> /\ net[sock[cur]].state # "reset"
         /\ \E put, left \in Seq(Bytes) :
              /\ put \o left = clients[cur]
              /\ clients' = [clients EXCEPT ![cur] = left]
              /\ net' = [net EXCEPT ![sock[cur]] = [net[sock[cur]] EXCEPT !.tx = net[sock[cur]].tx \o put]]
         /\ Loop /\ UNCHANGED <<pc, sock, cur, event, backlog, stopper>>

\* A step of a callback after which it only goes on elsewhere.
Moves == /\ pc \in ClientLabels /\ pc' \in ClientLabels /\ pc' # "close"
         /\ Loop /\ UNCHANGED server /\ Outside

\* A callback closes its client, which its peer has shut or reset.
Closes == /\ pc \in ClientLabels /\ net[sock[cur]].state \in {"eof", "reset"}
          /\ closeClient(cur)

\* recv() takes bytes, or closes the client, or goes on.
LEMMA RecvCases ==
  ASSUME Tables, Recv
  PROVE  net[sock[cur]].rx # <<>> \/ Closes \/ Moves
BY DEF Recv, Closes, Moves, Here, ClientLabels

\* flushClient() sends bytes, or closes the client, or goes on.
LEMMA FlushCases ==
  ASSUME Tables, Flush
  PROVE  Sends \/ Closes \/ Moves
<1> DEFINE c == net[sock[cur]]
           out == clients[cur]
           n == Min({SndBuf - Len(c.tx), Len(out)})
<1>1. pc \in {"flush_read", "flush_write"} /\ pc \in ClientLabels
  BY DEF Flush, ClientLabels
<1>2. cur \in ClientFds /\ sock[cur] \in Conns /\ c \in Sockets /\ c.tx \in Seq(Bytes) /\ out \in Seq(Bytes)
  BY <1>1, CurrentClient DEF Sockets
<1>3. CASE out # <<>> /\ c.state = "reset" /\ closeClient(cur)
  BY <1>1, <1>3 DEF Closes
<1>4. CASE /\ out # <<>> /\ c.state # "reset" /\ n > 0
           /\ clients' = [clients EXCEPT ![cur] = SubSeq(out, n + 1, Len(out))]
           /\ net' = [net EXCEPT ![sock[cur]].tx = @ \o SubSeq(out, 1, n)]
           /\ Loop /\ UNCHANGED <<pc, sock, cur, event, backlog, stopper>>
  <2>1. n \in 0 .. Len(out)
    <3>1. SndBuf - Len(c.tx) \in Int /\ Len(out) \in Int /\ Len(out) \in Nat
      <4>1. Len(out) \in Nat /\ Len(c.tx) \in Nat
        <5> HIDE DEF out, c
        <5> QED BY <1>2
      <4>2. SndBuf \in Nat
        BY EchoAssumption
      <4> HIDE DEF out, c
      <4> QED BY <4>1, <4>2
    <3>2. n \in {SndBuf - Len(c.tx), Len(out)} /\ n <= Len(out)
      BY <3>1, MinOfTwo, Zenon
    <3>3. n > 0
      BY <1>4
    <3> HIDE DEF n
    <3> QED BY <3>1, <3>2, <3>3
  <2>2. /\ SubSeq(out, 1, n) \in Seq(Bytes) /\ SubSeq(out, n + 1, Len(out)) \in Seq(Bytes)
        /\ SubSeq(out, 1, n) \o SubSeq(out, n + 1, Len(out)) = out
    BY <1>2, <2>1, Cut
  <2>3. PICK put, left \in Seq(Bytes) :
          put = SubSeq(out, 1, n) /\ left = SubSeq(out, n + 1, Len(out))
    BY <2>2
  <2>4. clients' = [clients EXCEPT ![cur] = left] /\ put \o left = clients[cur]
    BY <1>4, <2>2, <2>3
  <2>5. net' = [net EXCEPT ![sock[cur]] = [net[sock[cur]] EXCEPT !.tx = net[sock[cur]].tx \o put]]
    BY <1>2, <1>4, <2>3 DEF Tables, TypeOK
  <2> QED BY <1>1, <1>4, <2>4, <2>5 DEF Sends
<1>5. CASE Here(AfterFlush) /\ Loop /\ UNCHANGED server /\ Outside
  BY <1>1, <1>5 DEF Here, AfterFlush, Moves, ClientLabels
<1> QED BY <1>3, <1>4, <1>5 DEF Flush

\* Going on in a callback keeps the tables.
LEMMA MovesTables ==
  ASSUME Tables, Moves
  PROVE  Tables'
BY CallbackTables DEF Moves, Loop, Outside, server, Elsewhere, Tables, TypeOK, CallbacksOK

\* send() keeps the tables.
LEMMA SendsTables ==
  ASSUME Tables, Sends
  PROVE  Tables'
<1>1. PICK put, left \in Seq(Bytes) :
        /\ clients' = [clients EXCEPT ![cur] = left]
        /\ net' = [net EXCEPT ![sock[cur]] = [net[sock[cur]] EXCEPT !.tx = net[sock[cur]].tx \o put]]
  BY DEF Sends
<1>2. pc \in ClientLabels /\ pc' \in ClientLabels /\ pc' # "close"
  BY DEF Sends, ClientLabels
<1>3. net[sock[cur]] \in Sockets /\ net[sock[cur]].tx \o put \in Seq(Bytes)
  BY <1>2, CurrentClient DEF Sockets
<1>4. PICK n \in Sockets : n = [net[sock[cur]] EXCEPT !.tx = net[sock[cur]].tx \o put]
  BY <1>3 DEF Sockets
<1>5. n.state = net[sock[cur]].state /\ n.state # "new"
  BY <1>2, <1>3, <1>4, NotNew DEF Sockets, Tables, CallbacksOK
<1> QED BY <1>1, <1>2, <1>4, <1>5, BytesTables DEF Sends

\* recv() keeps the tables.
LEMMA RecvTables ==
  ASSUME Tables, Recv
  PROVE  Tables'
<1>1. CASE net[sock[cur]].rx # <<>>
  <2>1. PICK got, left \in Seq(Bytes) :
          /\ clients' = [clients EXCEPT ![cur] = clients[cur] \o got]
          /\ net' = [net EXCEPT ![sock[cur]] = [net[sock[cur]] EXCEPT !.rx = left]]
          /\ pc = "recv" /\ pc' = "flush_read"
          /\ Loop /\ UNCHANGED <<sock, cur, event, backlog, stopper>>
    BY <1>1, RecvTakes
  <2>2. pc \in ClientLabels /\ pc' \in ClientLabels /\ pc' # "close"
    BY <2>1 DEF ClientLabels
  <2>3. net[sock[cur]] \in Sockets /\ clients[cur] \o got \in Seq(Bytes)
    BY <2>2, CurrentClient
  <2>4. PICK n \in Sockets : n = [net[sock[cur]] EXCEPT !.rx = left]
    BY <2>3 DEF Sockets
  <2>5. n.state = net[sock[cur]].state /\ n.state # "new"
    BY <2>2, <2>3, <2>4, NotNew DEF Sockets, Tables, CallbacksOK
  <2> QED BY <2>1, <2>2, <2>3, <2>4, <2>5, BytesTables
<1>2. CASE Closes
  BY <1>2, CloseTables DEF Closes
<1> QED BY <1>1, <1>2, RecvCases, MovesTables

\* The modify() at the end of handleClient() makes the interest exact.
LEMMA UpdateTables ==
  ASSUME Tables, Update
  PROVE  Tables'
<1>1. /\ pc = "update" /\ pc' = "dispatch" /\ cur' = Listener /\ event' = {}
      /\ watchers' = [watchers EXCEPT ![cur] = NewInterest(cur)]
      /\ ready_list' = Queued(cur, NewInterest(cur), Poll[cur])
      /\ UNCHANGED <<wake_fd, stopping, callbacks, clients, sock, backlog, net, stopper>>
  BY DEF Update, Return, modify, Outside
<1>2. cur \in ClientFds /\ cur \in Fds /\ sock[cur] # None
  BY <1>1, CurrentClient, Descriptors DEF ClientLabels
<1>3. /\ watchers'[cur] = NewInterest(cur)
      /\ \A g \in ClientFds \ {cur} : watchers'[g] = watchers[g]
  BY <1>1, <1>2, Descriptors DEF Tables, TypeOK
<1>4. NewInterest(cur) \in SUBSET {"read", "write", "et"} /\ NewInterest(cur) # {}
      /\ ("write" \in NewInterest(cur) <=> clients[cur] # <<>>)
  BY DEF NewInterest, Interest
<1>5. TypeOK'
  <2>1. watchers' \in [Fds -> SUBSET {"read", "write", "et"}]
    BY <1>1, <1>4 DEF Tables, TypeOK
  <2>2. ready_list' \in SUBSET Fds
    BY <1>1, <1>2 DEF Queued, Tables, TypeOK
  <2>3. cur' \in Fds /\ event' \in SUBSET AnyEvent /\ pc' \in LoopLabels
    BY <1>1, Descriptors DEF LoopLabels
  <2> QED BY <1>1, <2>1, <2>2, <2>3 DEF Tables, TypeOK
<1>6. TablesAgree'
  BY <1>1, <1>2, <1>3, <1>4 DEF Tables, TablesAgree
<1>7. InterestOK'
  BY <1>1, <1>3, <1>4 DEF Tables, InterestOK
<1>8. CallbacksOK' /\ ConnsOK'
  BY <1>1 DEF Tables, CallbacksOK, ConnsOK, ClientLabels
<1> QED BY <1>5, <1>6, <1>7, <1>8 DEF Tables

\* stop() touches no client.
LEMMA StopTables ==
  ASSUME Tables, StopCall \/ StopWake
  PROVE  Tables'
<1>1. /\ stopper' \in {"stored", "stopped"} /\ stopping' \in BOOLEAN /\ wake_fd' \in BOOLEAN
      /\ UNCHANGED <<watchers, ready_list, callbacks, pc, clients, sock, cur, event, backlog, net>>
  <2>1. CASE StopCall
    BY <2>1 DEF StopCall, stop, StopStore, server, Tables, TypeOK
  <2>2. CASE StopWake
    BY <2>2 DEF StopWake, stop, wake, server, Tables, TypeOK
  <2> QED BY <2>1, <2>2
<1>2. TypeOK'
  BY <1>1 DEF Tables, TypeOK
<1> QED BY <1>1, <1>2 DEF Tables, TablesAgree, InterestOK, CallbacksOK, ConnsOK

\* What the peers do, each to the socket of its connection.
PeerCases(c, n) ==
  \/ /\ net[c].state = "open"
     /\ n = [net[c] EXCEPT !.sent = net[c].sent + 1, !.rx = Append(net[c].rx, <<c, net[c].sent + 1>>)]
  \/ /\ net[c].state \in {"open", "eof"} /\ net[c].tx # <<>>
     /\ n = [net[c] EXCEPT !.tx = Tail(net[c].tx), !.got = Append(net[c].got, Head(net[c].tx))]
  \/ net[c].state = "open" /\ n = [net[c] EXCEPT !.state = "eof"]
  \/ /\ net[c].state \in {"open", "eof"}
     /\ n = [net[c] EXCEPT !.state = "reset", !.rx = <<>>, !.tx = <<>>]

\* The steps of a peer, by what they do to its socket.
LEMMA PeerDoes ==
  ASSUME Tables, NEW c \in Conns,
         PeerSends(c) \/ PeerReads(c) \/ PeerShuts(c) \/ PeerResets(c)
  PROVE  \E n \in Sockets : \E events :
           /\ PeerCases(c, n) /\ Peer(c, n, events)
           /\ net[c].state # "new" /\ n.state # "new" /\ (net[c].state = "reset" => n.state = "reset")
<1>1. net[c] \in Sockets /\ net[c].sent \in Nat
      /\ net[c].rx \in Seq(Bytes) /\ net[c].tx \in Seq(Bytes) /\ net[c].got \in Seq(Bytes)
  BY DEF Tables, TypeOK, Sockets
<1>2. CASE PeerSends(c)
  <2>1. <<c, net[c].sent + 1>> \in Bytes
    BY <1>1 DEF Bytes
  <2>2. Append(net[c].rx, <<c, net[c].sent + 1>>) \in Seq(Bytes)
    BY <1>1, <2>1
  <2>3. PICK n \in Sockets : n = [net[c] EXCEPT !.sent = net[c].sent + 1,
                                     !.rx = Append(net[c].rx, <<c, net[c].sent + 1>>)]
    <3>1. PICK r \in Seq(Bytes) : r = Append(net[c].rx, <<c, net[c].sent + 1>>)
      BY <2>2
    <3>2. PICK k \in Nat : k = net[c].sent + 1
      BY <1>1
    <3>3. [net[c] EXCEPT !.sent = k, !.rx = r] \in Sockets
      BY <1>1 DEF Sockets
    <3> QED BY <3>1, <3>2, <3>3
  <2>4. Peer(c, n, {"in"}) /\ net[c].state = "open"
    BY <1>2, <2>3 DEF PeerSends
  <2>5. PeerCases(c, n)
    BY <2>3, <2>4 DEF PeerCases
  <2>6. n.state = "open"
    BY <1>1, <2>3, <2>4 DEF Sockets
  <2> QED BY <2>4, <2>5, <2>6
<1>3. CASE PeerReads(c)
  <2>1. /\ net[c].state \in {"open", "eof"} /\ net[c].tx # <<>>
        /\ Peer(c, [net[c] EXCEPT !.tx = Tail(@), !.got = Append(@, Head(net[c].tx))],
                IF Len(net[c].tx) = SndBuf THEN {"out"} ELSE {})
    BY <1>3 DEF PeerReads
  <2>2. Tail(net[c].tx) \in Seq(Bytes) /\ Append(net[c].got, Head(net[c].tx)) \in Seq(Bytes)
    BY <1>1, <2>1, HeadTailProperties
  <2>3. PICK n \in Sockets : n = [net[c] EXCEPT !.tx = Tail(net[c].tx),
                                     !.got = Append(net[c].got, Head(net[c].tx))]
    BY <1>1, <2>2 DEF Sockets
  <2>4. n.state = net[c].state
    BY <1>1, <2>3 DEF Sockets
  <2>5. PICK events : Peer(c, n, events)
    BY <2>1, <2>3
  <2>6. PeerCases(c, n)
    BY <2>1, <2>3 DEF PeerCases
  <2> QED BY <2>1, <2>4, <2>5, <2>6
<1>4. CASE PeerShuts(c)
  <2>1. PICK n \in Sockets : n = [net[c] EXCEPT !.state = "eof"]
    BY <1>1 DEF Sockets
  <2>2. Peer(c, n, {"in", "rdhup"}) /\ net[c].state = "open" /\ PeerCases(c, n)
    BY <1>4, <2>1 DEF PeerShuts, PeerCases
  <2> QED BY <1>1, <2>1, <2>2 DEF Sockets
<1>5. CASE PeerResets(c)
  <2>1. PICK n \in Sockets : n = [net[c] EXCEPT !.state = "reset", !.rx = <<>>, !.tx = <<>>]
    BY <1>1, EmptySeq DEF Sockets
  <2>2. Peer(c, n, AnyEvent) /\ net[c].state \in {"open", "eof"} /\ PeerCases(c, n)
    BY <1>5, <2>1 DEF PeerResets, PeerCases
  <2> QED BY <1>1, <2>1, <2>2 DEF Sockets
<1> QED BY <1>2, <1>3, <1>4, <1>5

\* The tables of a new server.
LEMMA TablesInit == Init => Tables
<1> SUFFICES ASSUME Init PROVE Tables
  OBVIOUS
<1>1. /\ watchers = [f \in Fds |-> IF f = Listener THEN Interest ELSE {}]
      /\ ready_list = {} /\ wake_fd = FALSE /\ stopping = FALSE
      /\ callbacks = [f \in Fds \cup {Eventfd} |-> {}] /\ pc = "run"
  BY DEF Init, ReactorInit, NoEvents
<1>2. clients = [f \in ClientFds |-> NoClient] /\ sock = [f \in ClientFds |-> None]
      /\ backlog = <<>> /\ cur = Listener /\ event = {} /\ stopper = "idle"
      /\ net = [c \in Conns |-> [state |-> "new", sent |-> 0, rx |-> <<>>, tx |-> <<>>, got |-> <<>>]]
  BY DEF Init
<1>3. TypeOK
  <2>1. watchers \in [Fds -> SUBSET {"read", "write", "et"}] /\ ready_list \in SUBSET Fds
    BY <1>1 DEF Interest
  <2>2. wake_fd \in BOOLEAN /\ stopping \in BOOLEAN
    BY <1>1
  <2>3. callbacks \in [Fds \cup {Eventfd} -> SUBSET AnyEvent] /\ pc \in LoopLabels
    BY <1>1 DEF LoopLabels
  <2>4. clients \in [ClientFds -> Seq(Bytes) \cup {NoClient}] /\ sock \in [ClientFds -> Conns \cup {None}]
    BY <1>2
  <2>5. backlog \in Seq(Conns)
    BY <1>2, EmptySeq
  <2>6. net \in [Conns -> Sockets]
    BY <1>2, EmptySeq DEF Sockets
  <2> QED BY <1>2, <2>1, <2>2, <2>3, <2>4, <2>5, <2>6, Descriptors DEF TypeOK
<1>4. \A f \in ClientFds : watchers[f] = {} /\ callbacks[f] = {} /\ clients[f] = NoClient /\ sock[f] = None
  BY <1>1, <1>2, Descriptors
<1>5. TablesAgree /\ InterestOK
  BY <1>4 DEF TablesAgree, InterestOK
<1>6. CallbacksOK
  BY <1>1, <1>4 DEF CallbacksOK, ClientLabels
<1>7. ConnsOK
  BY <1>2, <1>4, Descriptors DEF ConnsOK
<1> QED BY <1>3, <1>5, <1>6, <1>7 DEF Tables

\* The part of the invariant without bytes is inductive.
LEMMA TablesStep == Tables /\ [Next]_vars => Tables'
<1> SUFFICES ASSUME Tables, [Next]_vars PROVE Tables'
  OBVIOUS
<1>1. CASE Run
  BY <1>1, RunTables
<1>2. CASE Dispatch
  BY <1>2, DispatchTables
<1>3. CASE Accept
  BY <1>3, AcceptTables
<1>4. CASE Close
  BY <1>4, CloseTables DEF Close, ClientLabels
<1>5. CASE Recv
  BY <1>5, RecvTables
<1>6. CASE Flush
  BY <1>6, FlushCases, SendsTables, MovesTables, CloseTables DEF Closes
<1>7. CASE Update
  BY <1>7, UpdateTables
<1>8. CASE StopCall \/ StopWake
  BY <1>8, StopTables
<1>9. CASE PeerStep
  <2>1. PICK c \in Conns :
          Connect(c) \/ PeerSends(c) \/ PeerReads(c) \/ PeerShuts(c) \/ PeerResets(c)
    BY <1>9 DEF PeerStep
  <2>2. CASE Connect(c)
    BY <2>2, ConnectTables
  <2>3. CASE PeerSends(c) \/ PeerReads(c) \/ PeerShuts(c) \/ PeerResets(c)
    BY <2>3, PeerDoes, PeerTables
  <2> QED BY <2>1, <2>2, <2>3
<1>10. CASE UNCHANGED vars
  BY <1>10 DEF vars, reactor, server, Tables, TypeOK, TablesAgree, InterestOK, CallbacksOK, ConnsOK
<1> QED BY <1>1, <1>2, <1>3, <1>4, <1>5, <1>6, <1>7, <1>8, <1>9, <1>10 DEF Next, ServerStep

-----------------------------------------------------------------------------
(* The bytes.                                                              *)

\* A byte more is a sequence of one more.
LEMMA OneByteMore ==
  ASSUME NEW s \in Seq(Bytes), NEW b \in Bytes
  PROVE  <<b>> \in Seq(Bytes) /\ Append(s, b) = s \o <<b>>
OBVIOUS

\* Concatenation is associative.
LEMMA Regroup == \A r, s, t \in Seq(Bytes) : (r \o s) \o t = r \o (s \o t)
BY ConcatAssociative

\* What send() moves, regrouped.
LEMMA RegroupSent ==
  ASSUME NEW m \in Sockets, NEW put \in Seq(Bytes), NEW left \in Seq(Bytes)
  PROVE  /\ ((m.got \o (m.tx \o put)) \o left) \o m.rx = ((m.got \o m.tx) \o (put \o left)) \o m.rx
         /\ (m.got \o (m.tx \o put)) \o (left \o m.rx) = ((m.got \o m.tx) \o (put \o left)) \o m.rx
<1> DEFINE Cat(s, t) == s \o t
<1>1. \A r, s, t \in Seq(Bytes) : Cat(Cat(r, s), t) = Cat(r, Cat(s, t))
  BY Regroup
<1>2. \A s, t \in Seq(Bytes) : Cat(s, t) \in Seq(Bytes)
  OBVIOUS
<1>3. m.got \in Seq(Bytes) /\ m.tx \in Seq(Bytes) /\ m.rx \in Seq(Bytes)
  BY DEF Sockets
<1>4. /\ Cat(Cat(Cat(m.got, Cat(m.tx, put)), left), m.rx) = Cat(Cat(Cat(m.got, m.tx), Cat(put, left)), m.rx)
      /\ Cat(Cat(m.got, Cat(m.tx, put)), Cat(left, m.rx)) = Cat(Cat(Cat(m.got, m.tx), Cat(put, left)), m.rx)
  <2> HIDE DEF Cat
  <2>1. Cat(m.got, Cat(m.tx, put)) = Cat(Cat(m.got, m.tx), put)
    BY <1>1, <1>3
  <2>2. PICK v \in Seq(Bytes) : v = Cat(m.got, m.tx)
    BY <1>2, <1>3
  <2>3. PICK w \in Seq(Bytes) : w = Cat(v, put)
    BY <1>2, <2>2
  <2>4. Cat(w, left) = Cat(v, Cat(put, left))
    BY <1>1, <2>2, <2>3
  <2>5. Cat(Cat(w, left), m.rx) = Cat(w, Cat(left, m.rx))
    BY <1>1, <1>3, <2>3
  <2> QED BY <2>1, <2>2, <2>3, <2>4, <2>5
<1> QED BY <1>4

\* A byte at the end of the second part is a byte at the end.
LEMMA AppendConcat ==
  ASSUME NEW s \in Seq(Bytes), NEW t \in Seq(Bytes), NEW b \in Bytes
  PROVE  s \o Append(t, b) = Append(s \o t, b)
BY OneByteMore, ConcatAssociative, ConcatProperties

\* A byte that moves from the front of the second part to the end of the
\* first changes nothing.
LEMMA HeadMoves ==
  ASSUME NEW s \in Seq(Bytes), NEW t \in Seq(Bytes), t # <<>>
  PROVE  Append(s, Head(t)) \o Tail(t) = s \o t
<1>1. Head(t) \in Bytes /\ Tail(t) \in Seq(Bytes) /\ Len(Tail(t)) = Len(t) - 1 /\ Head(t) = t[1]
      /\ (\A i \in 1 .. Len(Tail(t)) : Tail(t)[i] = t[i + 1]) /\ Len(t) \in Nat \ {0}
  BY HeadTailProperties, EmptySeq
<1>2. PICK h \in Seq(Bytes) : h = <<Head(t)>>
  <2>1. <<Head(t)>> \in Seq(Bytes)
    BY <1>1
  <2> QED BY <2>1, Zenon
<1>3. h \o Tail(t) = t
  <2>1. h \o Tail(t) \in Seq(Bytes) /\ Len(h \o Tail(t)) = Len(t) /\ Len(h) = 1 /\ h[1] = t[1]
    BY <1>1, <1>2
  <2>2. ASSUME NEW i \in 1 .. Len(t) PROVE (h \o Tail(t))[i] = t[i]
    <3>1. CASE i = 1
      BY <1>1, <2>1, <3>1, ConcatProperties
    <3>2. CASE i # 1
      <4>1. i - 1 \in 1 .. Len(Tail(t)) /\ (i - 1) + 1 = i /\ i \in 1 .. 1 + Len(Tail(t)) /\ ~(i <= 1)
        BY <1>1, <3>2
      <4>2. (h \o Tail(t))[i] = Tail(t)[i - 1]
        BY <1>1, <2>1, <4>1, ConcatProperties
      <4> QED BY <1>1, <4>1, <4>2
    <3> QED BY <3>1, <3>2
  <2> QED BY <2>1, <2>2, SeqEqual
<1>4. Append(s, Head(t)) = s \o h
  BY <1>1, <1>2, OneByteMore
<1> QED BY <1>1, <1>3, <1>4, ConcatAssociative

\* What a peer sends next.
LEMMA SentGrows ==
  ASSUME NEW c \in Conns, NEW k \in Nat
  PROVE  /\ [i \in 1 .. k |-> <<c, i>>] \in Seq(Bytes)
         /\ [i \in 1 .. k + 1 |-> <<c, i>>] = Append([i \in 1 .. k |-> <<c, i>>], <<c, k + 1>>)
<1> DEFINE s(n) == [i \in 1 .. n |-> <<c, i>>]
<1>1. ASSUME NEW n \in Nat
      PROVE  s(n) \in Seq(Bytes) /\ Len(s(n)) = n /\ \A i \in 1 .. n : s(n)[i] = <<c, i>>
  <2>1. \A i \in 1 .. n : <<c, i>> \in Bytes
    BY DEF Bytes
  <2> QED BY <2>1
<1>2. <<c, k + 1>> \in Bytes /\ k + 1 \in Nat
  BY DEF Bytes
<1>3. PICK u \in Seq(Bytes), v \in Seq(Bytes), b \in Bytes :
        /\ u = s(k) /\ Len(u) = k /\ \A i \in 1 .. k : u[i] = <<c, i>>
        /\ v = s(k + 1) /\ Len(v) = k + 1 /\ \A i \in 1 .. k + 1 : v[i] = <<c, i>>
        /\ b = <<c, k + 1>>
  BY <1>1, <1>2
<1>4. v = Append(u, b)
  <2>1. Append(u, b) \in Seq(Bytes) /\ Len(Append(u, b)) = k + 1
    BY <1>3
  <2>2. ASSUME NEW i \in 1 .. k + 1 PROVE v[i] = Append(u, b)[i]
    <3>1. i \in 1 .. k \/ i = k + 1
      OBVIOUS
    <3>2. CASE i \in 1 .. k
      BY <1>3, <3>2
    <3>3. CASE i = k + 1
      BY <1>3, <3>3
    <3> QED BY <3>1, <3>2, <3>3
  <2> QED BY <1>3, <2>1, <2>2, SeqEqual
<1> QED BY <1>3, <1>4

\* A connection that a step has nothing to do with.
LEMMA StreamKept ==
  ASSUME NEW d \in Conns, StreamOK(d), net'[d] = net[d], Whole(d)' => Whole(d),
         \A out \in Seq(Bytes) : Has(d, out) => Has(d, out)'
  PROVE  StreamOK(d)'
<1>1. Sent(d)' = Sent(d)
  BY DEF Sent
<1> QED BY <1>1 DEF StreamOK

\* No descriptor, client or place in the backlog changes.
LEMMA SamePlaces ==
  ASSUME UNCHANGED <<sock, clients, backlog>>, NEW d \in Conns
  PROVE  /\ \A out : Has(d, out) => Has(d, out)'
         /\ net'[d].state = net[d].state => (Whole(d)' <=> Whole(d))
BY DEF Has, Whole

\* Peers send at the end, take from the front, half-close and reset.
LEMMA PeerStreams ==
  ASSUME Tables, StreamsOK, NEW c \in Conns, NEW n \in Sockets, NEW events,
         Peer(c, n, events), PeerCases(c, n)
  PROVE  StreamsOK'
<1>1. UNCHANGED <<sock, clients, backlog>> /\ net' = [net EXCEPT ![c] = n]
  BY DEF Peer, server
<1>2. net'[c] = n /\ \A d \in Conns \ {c} : net'[d] = net[d]
  BY <1>1 DEF Tables, TypeOK
<1>3. \A d \in Conns \ {c} : StreamOK(d)'
  BY <1>1, <1>2, StreamKept, SamePlaces DEF StreamsOK
<1>4. PICK m \in Sockets : m = net[c]
  BY DEF Tables, TypeOK
<1>5. m.sent \in Nat /\ m.rx \in Seq(Bytes) /\ m.tx \in Seq(Bytes) /\ m.got \in Seq(Bytes)
  BY DEF Sockets
<1>6. PICK s \in Seq(Bytes) : s = Sent(c)
  BY <1>4, <1>5, SentGrows DEF Sent
<1>7. /\ Whole(c) => \E out \in Seq(Bytes) : Has(c, out) /\ ((m.got \o m.tx) \o out) \o m.rx = s
      /\ \E rest \in Seq(Bytes) : (m.got \o m.tx) \o rest = s
  BY <1>4, <1>6 DEF StreamsOK, StreamOK
<1>8. Sent(c)' = [i \in 1 .. n.sent |-> <<c, i>>] /\ s = [i \in 1 .. m.sent |-> <<c, i>>]
  BY <1>2, <1>4, <1>6 DEF Sent
<1>9. \A out \in Seq(Bytes) : Has(c, out) => Has(c, out)'
  BY <1>1, SamePlaces
<1>10. SUFFICES
         /\ Whole(c)' => Whole(c) /\ \A out \in Seq(Bytes) :
              ((m.got \o m.tx) \o out) \o m.rx = s => ((n.got \o n.tx) \o out) \o n.rx = Sent(c)'
         /\ \E rest \in Seq(Bytes) : (n.got \o n.tx) \o rest = Sent(c)'
  <2>1. StreamOK(c)'
    BY <1>2, <1>7, <1>9, <1>10 DEF StreamOK
  <2> QED BY <1>3, <2>1 DEF StreamsOK
<1>11. CASE m.state = "open" /\ n = [m EXCEPT !.sent = m.sent + 1, !.rx = Append(m.rx, <<c, m.sent + 1>>)]
  <2>1. PICK b \in Bytes : b = <<c, m.sent + 1>>
    <3>1. <<c, m.sent + 1>> \in Bytes
      BY <1>5 DEF Bytes
    <3> QED BY <3>1
  <2>2. n.state = "open" /\ n.sent = m.sent + 1 /\ n.rx = Append(m.rx, b) /\ n.tx = m.tx /\ n.got = m.got
    BY <1>11, <2>1 DEF Sockets
  <2>3. Sent(c)' = Append(s, b)
    BY <1>5, <1>8, <2>1, <2>2, SentGrows
  <2>4. ASSUME NEW out \in Seq(Bytes), ((m.got \o m.tx) \o out) \o m.rx = s
        PROVE  ((n.got \o n.tx) \o out) \o n.rx = Append(s, b)
    <3>1. PICK p \in Seq(Bytes) : p = (m.got \o m.tx) \o out
      BY <1>5, ConcatProperties, Zenon
    <3>2. p \o Append(m.rx, b) = Append(p \o m.rx, b)
      BY <1>5, AppendConcat
    <3>3. ((n.got \o n.tx) \o out) \o n.rx = p \o Append(m.rx, b) /\ p \o m.rx = s
      BY <2>2, <2>4, <3>1
    <3> QED BY <3>2, <3>3
  <2>5. \E rest \in Seq(Bytes) : (n.got \o n.tx) \o rest = Append(s, b)
    <3>1. PICK rest \in Seq(Bytes) : (m.got \o m.tx) \o rest = s
      BY <1>7
    <3>2. PICK p \in Seq(Bytes) : p = m.got \o m.tx
      BY <1>5, ConcatProperties, Zenon
    <3>3. p \o Append(rest, b) = Append(p \o rest, b) /\ Append(rest, b) \in Seq(Bytes)
      BY AppendConcat
    <3>4. n.got \o n.tx = p /\ p \o rest = s
      BY <2>2, <3>1, <3>2
    <3> QED BY <3>3, <3>4
  <2>6. Whole(c)
    BY <1>4, <1>11 DEF Whole
  <2> QED BY <2>3, <2>4, <2>5, <2>6
<1>12. CASE /\ m.state \in {"open", "eof"} /\ m.tx # <<>>
            /\ n = [m EXCEPT !.tx = Tail(m.tx), !.got = Append(m.got, Head(m.tx))]
  <2>1. /\ n.state = m.state /\ n.sent = m.sent /\ n.rx = m.rx
        /\ n.tx = Tail(m.tx) /\ n.got = Append(m.got, Head(m.tx))
    BY <1>12 DEF Sockets
  <2>2. n.got \o n.tx = m.got \o m.tx
    BY <1>5, <1>12, <2>1, HeadMoves
  <2>3. Whole(c)' => Whole(c)
    BY <1>1, <1>2, <1>4, <2>1, SamePlaces
  <2> QED BY <1>7, <1>8, <2>1, <2>2, <2>3
<1>13. CASE m.state = "open" /\ n = [m EXCEPT !.state = "eof"]
  <2>1. n.sent = m.sent /\ n.rx = m.rx /\ n.tx = m.tx /\ n.got = m.got
    BY <1>13 DEF Sockets
  <2>2. Whole(c)
    BY <1>4, <1>13 DEF Whole
  <2> QED BY <1>7, <1>8, <2>1, <2>2
<1>14. CASE m.state \in {"open", "eof"} /\ n = [m EXCEPT !.state = "reset", !.rx = <<>>, !.tx = <<>>]
  <2>1. n.state = "reset" /\ n.sent = m.sent /\ n.tx = <<>> /\ n.got = m.got
    BY <1>14 DEF Sockets
  <2>2. ~Whole(c)'
    BY <1>2, <2>1 DEF Whole
  <2>3. PICK rest \in Seq(Bytes) : (m.got \o m.tx) \o rest = s
    BY <1>7
  <2>4. m.tx \o rest \in Seq(Bytes) /\ (n.got \o n.tx) \o (m.tx \o rest) = s
    <3>1. n.got \o n.tx = m.got /\ m.tx \o rest \in Seq(Bytes)
      BY <1>5, <2>1, ConcatEmptySeq
    <3>2. (m.got \o m.tx) \o rest = m.got \o (m.tx \o rest)
      BY <1>5, <2>3, Regroup, Zenon
    <3> QED BY <2>3, <3>1, <3>2
  <2> QED BY <1>8, <2>1, <2>2, <2>4
<1> QED BY <1>4, <1>11, <1>12, <1>13, <1>14 DEF PeerCases

\* A new connection has no bytes.
LEMMA ConnectStreams ==
  ASSUME Tables, StreamsOK, NEW c \in Conns, Connect(c)
  PROVE  StreamsOK'
<1>1. /\ UNCHANGED <<sock, clients>> /\ backlog' = Append(backlog, c) /\ net[c].state = "new"
      /\ net' = [net EXCEPT ![c].state = "open"]
  BY DEF Connect, server
<1>2. net'[c] = [net[c] EXCEPT !.state = "open"] /\ \A d \in Conns \ {c} : net'[d] = net[d]
  BY <1>1 DEF Tables, TypeOK
<1>3. /\ Len(backlog) \in Nat /\ Len(backlog') = Len(backlog) + 1 /\ backlog'[Len(backlog) + 1] = c
      /\ \A i \in 1 .. Len(backlog) : backlog'[i] = backlog[i]
      /\ \A i \in 1 .. Len(backlog') : i \in 1 .. Len(backlog) \/ i = Len(backlog) + 1
  BY <1>1 DEF Tables, TypeOK
<1>4. \A d \in Conns, out \in Seq(Bytes) : Has(d, out) => Has(d, out)'
  BY <1>1 DEF Has
<1>5. \A d \in Conns \ {c} : Whole(d)' => Whole(d)
  BY <1>1, <1>2, <1>3 DEF Whole
<1>6. \A d \in Conns \ {c} : StreamOK(d)'
  BY <1>2, <1>4, <1>5, StreamKept DEF StreamsOK
<1>7. StreamOK(c)'
  <2>1. net'[c].sent = net[c].sent /\ net'[c].rx = net[c].rx
        /\ net'[c].tx = net[c].tx /\ net'[c].got = net[c].got
    BY <1>2 DEF Tables, TypeOK, Sockets
  <2>2. Whole(c) /\ Sent(c)' = Sent(c)
    BY <1>1, <2>1 DEF Whole, Sent
  <2> QED BY <1>4, <2>1, <2>2 DEF StreamsOK, StreamOK
<1> QED BY <1>6, <1>7 DEF StreamsOK

\* accept4() begins with an empty Client::out.
LEMMA AcceptStreams ==
  ASSUME Tables, StreamsOK, Accept, backlog # <<>>
  PROVE  StreamsOK'
<1>1. PICK f, c : f = Min({g \in ClientFds : sock[g] = None}) /\ c = Head(backlog)
  OBVIOUS
<1>2. f \in ClientFds /\ sock[f] = None /\ c \in Conns /\ \A g \in ClientFds : sock[g] # c
  BY <1>1, FreeDescriptor
<1>3. /\ sock' = [sock EXCEPT ![f] = c] /\ backlog' = Tail(backlog)
      /\ clients' = [clients EXCEPT ![f] = Emplaced(f)] /\ net' = net
  BY <1>1 DEF Accept
<1>4. /\ sock'[f] = c /\ clients'[f] = <<>>
      /\ \A g \in ClientFds \ {f} : sock'[g] = sock[g] /\ clients'[g] = clients[g]
  BY <1>2, <1>3 DEF Tables, TypeOK, TablesAgree, Emplaced
<1>5. /\ \A i \in 1 .. Len(backlog') : backlog'[i] = backlog[i + 1] /\ i + 1 \in 1 .. Len(backlog)
      /\ 1 \in 1 .. Len(backlog) /\ backlog[1] = c
  BY <1>1, <1>3, EmptySeq, HeadTailProperties DEF Tables, TypeOK
<1>6. ASSUME NEW d \in Conns, NEW out \in Seq(Bytes), Has(d, out) PROVE Has(d, out)'
  <2>1. CASE d = c
    BY <1>2, <1>4, <1>6, <2>1 DEF Has
  <2>2. CASE d # c
    BY <1>2, <1>4, <1>6, <2>2, Descriptors DEF Has
  <2> QED BY <2>1, <2>2
<1>7. ASSUME NEW d \in Conns, Whole(d)' PROVE Whole(d)
  BY <1>2, <1>3, <1>4, <1>5, <1>7 DEF Whole
<1> QED BY <1>3, <1>6, <1>7, StreamKept DEF StreamsOK

\* Only a connection that ended loses its output.
LEMMA CloseStreams ==
  ASSUME Tables, StreamsOK, Closes
  PROVE  StreamsOK'
<1>1. cur \in ClientFds /\ sock[cur] \in Conns /\ net[sock[cur]].state \in {"eof", "reset"}
  BY CurrentClient DEF Closes
<1>2. /\ clients' = [clients EXCEPT ![cur] = NoClient] /\ sock' = [sock EXCEPT ![cur] = None]
      /\ UNCHANGED <<backlog, net>>
  BY DEF Closes, closeClient, Erased, Outside
<1>3. /\ sock'[cur] = None
      /\ \A g \in ClientFds \ {cur} : sock'[g] = sock[g] /\ clients'[g] = clients[g]
  BY <1>1, <1>2 DEF Tables, TypeOK
<1>4. ASSUME NEW d \in Conns \ {sock[cur]} PROVE StreamOK(d)'
  <2>1. \A out \in Seq(Bytes) : Has(d, out) => Has(d, out)'
    BY <1>1, <1>3, Descriptors DEF Has
  <2>2. Whole(d)' => Whole(d)
    BY <1>2, <1>3, Descriptors DEF Whole
  <2> QED BY <1>2, <2>1, <2>2, StreamKept DEF StreamsOK
<1>5. ASSUME NEW c \in Conns, c = sock[cur] PROVE StreamOK(c)'
  <2>1. /\ \A g \in ClientFds : sock'[g] # c
        /\ \A i \in 1 .. Len(backlog) : backlog[i] # c
    BY <1>1, <1>3, <1>5, Descriptors DEF Tables, ConnsOK
  <2>2. ~Whole(c)'
    BY <1>1, <1>2, <1>5, <2>1 DEF Whole
  <2>3. Sent(c)' = Sent(c)
    BY <1>2 DEF Sent
  <2> QED BY <1>2, <2>2, <2>3 DEF StreamsOK, StreamOK
<1> QED BY <1>1, <1>4, <1>5 DEF StreamsOK

\* A step of a callback that moves bytes does so for its connection only.
LEMMA OthersKept ==
  ASSUME Tables, StreamsOK, pc \in ClientLabels, NEW c \in Conns, c = sock[cur],
         \A g \in ClientFds \ {cur} : clients'[g] = clients[g],
         \A d \in Conns \ {c} : net'[d] = net[d],
         net'[c].state = net[c].state, sock' = sock, backlog' = backlog
  PROVE  /\ \A d \in Conns \ {c} : StreamOK(d)'
         /\ \A o : o = clients'[cur] => Has(c, o)'
         /\ \A o : Has(c, o) => o = clients[cur]
         /\ Whole(c)' <=> Whole(c)
<1>1. cur \in ClientFds
  BY CurrentClient
<1>2. \A g \in ClientFds : sock[g] = c => g = cur
  BY <1>1, Descriptors DEF Tables, ConnsOK
<1>3. ASSUME NEW d \in Conns \ {c} PROVE StreamOK(d)'
  <2>1. \A o \in Seq(Bytes) : Has(d, o) => Has(d, o)'
    BY <1>1 DEF Has
  <2>2. Whole(d)' => Whole(d)
    BY DEF Whole
  <2> QED BY <2>1, <2>2, StreamKept DEF StreamsOK
<1>4. \A o : Has(c, o) => o = clients[cur]
  BY <1>1 DEF Has
<1>5. \A o : o = clients'[cur] => Has(c, o)'
  BY <1>1, <1>2 DEF Has
<1>6. Whole(c)' <=> Whole(c)
  BY DEF Whole
<1> QED BY <1>3, <1>4, <1>5, <1>6

\* recv() moves bytes into Client::out in order.
LEMMA RecvStreams ==
  ASSUME Tables, StreamsOK, Recv, net[sock[cur]].rx # <<>>
  PROVE  StreamsOK'
<1>1. PICK got, left \in Seq(Bytes) :
        /\ got \o left = net[sock[cur]].rx
        /\ clients' = [clients EXCEPT ![cur] = clients[cur] \o got]
        /\ net' = [net EXCEPT ![sock[cur]] = [net[sock[cur]] EXCEPT !.rx = left]]
        /\ pc = "recv" /\ UNCHANGED <<sock, backlog>>
  BY RecvTakes
<1>2. pc \in ClientLabels
  BY <1>1 DEF ClientLabels
<1>3. PICK c \in Conns, m \in Sockets, out \in Seq(Bytes) :
        c = sock[cur] /\ m = net[c] /\ out = clients[cur]
  BY <1>2, CurrentClient
<1>4. PICK n : n = [m EXCEPT !.rx = left]
  OBVIOUS
<1>5. n.state = m.state /\ n.sent = m.sent /\ n.rx = left /\ n.tx = m.tx /\ n.got = m.got
  BY <1>4 DEF Sockets
<1>6. /\ \A d \in Conns \ {c} : StreamOK(d)'
      /\ Has(c, out \o got)' /\ (\A o : Has(c, o) => o = out)
      /\ net'[c] = n /\ (Whole(c)' <=> Whole(c))
  <2>1. cur \in ClientFds
    BY <1>2, CurrentClient
  <2>2. net'[c] = n /\ net'[c].state = net[c].state /\ \A d \in Conns \ {c} : net'[d] = net[d]
    BY <1>1, <1>3, <1>4, <1>5 DEF Tables, TypeOK
  <2>3. clients'[cur] = out \o got /\ \A g \in ClientFds \ {cur} : clients'[g] = clients[g]
    BY <1>1, <1>3, <2>1 DEF Tables, TypeOK
  <2> QED BY <1>1, <1>2, <1>3, <2>2, <2>3, OthersKept
<1>7. m.rx \in Seq(Bytes) /\ m.tx \in Seq(Bytes) /\ m.got \in Seq(Bytes)
      /\ out \in Seq(Bytes) /\ got \in Seq(Bytes) /\ left \in Seq(Bytes) /\ out \o got \in Seq(Bytes)
  BY <1>1, <1>3 DEF Sockets
<1>8. Sent(c)' = Sent(c)
  BY <1>3, <1>5, <1>6 DEF Sent
<1>9. PICK p \in Seq(Bytes) : p = m.got \o m.tx
  BY <1>7, ConcatProperties, Zenon
<1>10. (p \o out) \o m.rx = (p \o (out \o got)) \o left
  <2>1. m.rx = got \o left /\ p \o out \in Seq(Bytes)
    BY <1>1, <1>3, <1>7, <1>9
  <2>2. (p \o out) \o (got \o left) = ((p \o out) \o got) \o left
    BY <1>7, <2>1, Regroup, Zenon
  <2>3. (p \o out) \o got = p \o (out \o got)
    BY <1>7, <1>9, Regroup, Zenon
  <2> QED BY <2>1, <2>2, <2>3
<1>11. StreamOK(c)'
  <2>1. Whole(c) => (p \o out) \o m.rx = Sent(c)
    BY <1>3, <1>6, <1>9 DEF StreamsOK, StreamOK
  <2>2. Whole(c)' => (p \o (out \o got)) \o left = Sent(c)'
    BY <1>6, <1>8, <1>10, <2>1
  <2>3. \E rest \in Seq(Bytes) : p \o rest = Sent(c)'
    BY <1>3, <1>8, <1>9 DEF StreamsOK, StreamOK
  <2> QED BY <1>5, <1>6, <1>7, <1>9, <2>2, <2>3 DEF StreamOK
<1> QED BY <1>6, <1>11 DEF StreamsOK

\* send() moves bytes from Client::out in order.
LEMMA SendStreams ==
  ASSUME Tables, StreamsOK, Sends
  PROVE  StreamsOK'
<1>1. pc \in ClientLabels /\ net[sock[cur]].state # "reset" /\ UNCHANGED <<sock, backlog>>
  BY DEF Sends, ClientLabels
<1>2. PICK put, left \in Seq(Bytes) :
        /\ put \o left = clients[cur]
        /\ clients' = [clients EXCEPT ![cur] = left]
        /\ net' = [net EXCEPT ![sock[cur]] = [net[sock[cur]] EXCEPT !.tx = net[sock[cur]].tx \o put]]
  BY DEF Sends
<1>3. PICK c \in Conns, m \in Sockets, out \in Seq(Bytes) :
        c = sock[cur] /\ m = net[c] /\ out = clients[cur]
  BY <1>1, CurrentClient
<1>4. PICK n : n = [m EXCEPT !.tx = m.tx \o put]
  OBVIOUS
<1>5. n.state = m.state /\ n.sent = m.sent /\ n.rx = m.rx /\ n.tx = m.tx \o put /\ n.got = m.got
  BY <1>4 DEF Sockets
<1>6. /\ \A d \in Conns \ {c} : StreamOK(d)'
      /\ Has(c, left)' /\ (\A o : Has(c, o) => o = out)
      /\ net'[c] = n /\ (Whole(c)' <=> Whole(c))
  <2>1. cur \in ClientFds
    BY <1>1, CurrentClient
  <2>2. net'[c] = n /\ net'[c].state = net[c].state /\ \A d \in Conns \ {c} : net'[d] = net[d]
    BY <1>2, <1>3, <1>4, <1>5 DEF Tables, TypeOK
  <2>3. clients'[cur] = left /\ \A g \in ClientFds \ {cur} : clients'[g] = clients[g]
    BY <1>2, <2>1 DEF Tables, TypeOK
  <2> QED BY <1>1, <1>3, <2>2, <2>3, OthersKept
<1>7. m.rx \in Seq(Bytes) /\ m.tx \in Seq(Bytes) /\ m.got \in Seq(Bytes)
      /\ put \in Seq(Bytes) /\ left \in Seq(Bytes) /\ m.tx \o put \in Seq(Bytes)
      /\ left \o m.rx \in Seq(Bytes)
  BY <1>2, <1>3 DEF Sockets
<1>8. Sent(c)' = Sent(c)
  BY <1>3, <1>5, <1>6 DEF Sent
<1>9. Whole(c)
  <2>1. m.state \in {"new", "open", "eof", "reset"} /\ m.state # "reset" /\ cur \in ClientFds
    BY <1>1, <1>3, CurrentClient DEF Sockets
  <2> QED BY <1>3, <2>1 DEF Whole
<1>10. ((m.got \o m.tx) \o (put \o left)) \o m.rx = Sent(c)
  BY <1>2, <1>3, <1>6, <1>9 DEF StreamsOK, StreamOK
<1>11. /\ ((m.got \o (m.tx \o put)) \o left) \o m.rx = Sent(c)
       /\ (m.got \o (m.tx \o put)) \o (left \o m.rx) = Sent(c)
  BY <1>2, <1>3, <1>10, RegroupSent
<1>12. StreamOK(c)'
  BY <1>5, <1>6, <1>7, <1>8, <1>11 DEF StreamOK
<1> QED BY <1>6, <1>12 DEF StreamsOK

\* The other steps leave the bytes where they are.
LEMMA QuietStreams ==
  ASSUME StreamsOK, UNCHANGED <<sock, clients, backlog, net>>
  PROVE  StreamsOK'
BY StreamKept, SamePlaces DEF StreamsOK

\* Nothing has been sent.
LEMMA StreamsInit == Init => StreamsOK
<1> SUFFICES ASSUME Init, NEW c \in Conns PROVE StreamOK(c)
  BY DEF StreamsOK
<1>1. /\ net[c] = [state |-> "new", sent |-> 0, rx |-> <<>>, tx |-> <<>>, got |-> <<>>]
      /\ \A f \in ClientFds : sock[f] = None
  BY DEF Init
<1>2. net[c].sent = 0 /\ net[c].rx = <<>> /\ net[c].tx = <<>> /\ net[c].got = <<>>
  BY <1>1
<1>3. Sent(c) = <<>>
  BY <1>2 DEF Sent
<1>4. <<>> \in Seq(Bytes) /\ <<>> \o <<>> = <<>>
  BY EmptySeq, ConcatEmptySeq
<1>5. Has(c, <<>>)
  BY <1>1, Descriptors DEF Has
<1> QED BY <1>2, <1>3, <1>4, <1>5 DEF StreamOK

\* The bytes stay in order in every step.
LEMMA StreamsStep == Tables /\ StreamsOK /\ [Next]_vars => StreamsOK'
<1> SUFFICES ASSUME Tables, StreamsOK, [Next]_vars PROVE StreamsOK'
  OBVIOUS
<1>1. CASE Run \/ Dispatch \/ Update \/ StopCall \/ StopWake \/ Moves \/ UNCHANGED vars
  <2>1. UNCHANGED <<sock, clients, backlog, net>>
    BY <1>1 DEF Run, Dispatch, Update, StopCall, StopWake, Moves, Outside, server, vars
  <2> QED BY <2>1, QuietStreams
<1>2. CASE Accept
  <2>1. CASE backlog = <<>>
    BY <1>2, <2>1, QuietStreams DEF Accept
  <2> QED BY <1>2, <2>1, AcceptStreams
<1>3. CASE Closes
  BY <1>3, CloseStreams
<1>4. CASE Close
  <2>1. Closes
    BY <1>4 DEF Close, Closes, Tables, CallbacksOK, ClientLabels
  <2> QED BY <1>3, <2>1
<1>5. CASE Recv
  BY <1>1, <1>3, <1>5, RecvCases, RecvStreams
<1>6. CASE Flush
  BY <1>1, <1>3, <1>6, FlushCases, SendStreams
<1>7. CASE PeerStep
  <2>1. PICK c \in Conns :
          Connect(c) \/ PeerSends(c) \/ PeerReads(c) \/ PeerShuts(c) \/ PeerResets(c)
    BY <1>7 DEF PeerStep
  <2>2. CASE Connect(c)
    BY <2>2, ConnectStreams
  <2>3. CASE PeerSends(c) \/ PeerReads(c) \/ PeerShuts(c) \/ PeerResets(c)
    BY <2>3, PeerDoes, PeerStreams
  <2> QED BY <2>1, <2>2, <2>3
<1> QED BY <1>1, <1>2, <1>4, <1>5, <1>6, <1>7 DEF Next, ServerStep

-----------------------------------------------------------------------------
(* The theorems.                                                           *)

\* Between any two steps of the loop, of the peers and of stop() the
\* inductive invariant holds.
THEOREM Invariance == Spec => []IndInv
<1>1. Init => IndInv
  BY TablesInit, StreamsInit DEF IndInv, Tables
<1>2. IndInv /\ [Next]_vars => IndInv'
  BY TablesStep, StreamsStep DEF IndInv, Tables
<1> QED BY <1>1, <1>2, PTL DEF Spec

\* Every variable of the server, of its reactor and of the sockets keeps its
\* type; in particular accept4() always finds a descriptor and no callback
\* of a client works on a closed one.
THEOREM TypeCorrect == Spec => []TypeOK
<1>1. IndInv => TypeOK
  BY DEF IndInv
<1> QED BY <1>1, Invariance, PTL

\* clients_, the reactor's watchers and the open descriptors name the same
\* clients, and runOnce() has no callback in hand for a closed descriptor.
THEOREM TablesStayTogether == Spec => []TablesAgree
<1>1. IndInv => TablesAgree
  BY DEF IndInv
<1> QED BY <1>1, Invariance, PTL

\* While the reactor waits, a client is registered for Write exactly if it
\* has output left.
THEOREM InterestIsExact == Spec => []WriteInterestExact
<1>1. IndInv => WriteInterestExact
  <2> SUFFICES ASSUME IndInv, pc = "wait", NEW f \in ClientFds, clients[f] # NoClient
               PROVE  ("write" \in watchers[f]) = (clients[f] # <<>>)
    BY DEF WriteInterestExact
  <2> QED BY DEF IndInv, InterestOK, ClientLabels
<1> QED BY <1>1, Invariance, PTL

\* The first part is a beginning of the whole.
LEMMA PrefixOfConcat ==
  ASSUME NEW s \in Seq(Bytes), NEW t \in Seq(Bytes)
  PROVE  IsPrefix(s, s \o t)
<1>1. PICK u \in Seq(Bytes) : u = s \o t
  BY ConcatProperties, Zenon
<1>2. /\ Len(s) \in Nat /\ Len(u) \in Nat /\ Len(s) <= Len(u)
      /\ \A i \in 1 .. Len(s) : u[i] = s[i] /\ u[i] \in Bytes /\ s[i] \in Bytes
  BY <1>1, ConcatProperties, LenProperties
<1>3. SubSeq(s, 1, Len(s)) = SubSeq(u, 1, Len(s))
  <2>1. /\ SubSeq(s, 1, Len(s)) \in Seq(Bytes) /\ SubSeq(u, 1, Len(s)) \in Seq(Bytes)
        /\ Len(SubSeq(s, 1, Len(s))) = Len(s) /\ Len(SubSeq(u, 1, Len(s))) = Len(s)
        /\ \A i \in 1 .. Len(s) : SubSeq(s, 1, Len(s))[i] = s[i] /\ SubSeq(u, 1, Len(s))[i] = u[i]
    BY <1>2, SubSeqProperties
  <2> QED BY <1>2, <2>1, SeqEqual
<1> QED BY <1>1, <1>2, <1>3 DEF IsPrefix

\* A peer gets its own bytes back, in order and once, for any number of
\* connections, of bytes and of reused descriptors and for any sizes of the
\* send buffer and of recv()'s buffer.
THEOREM BytesComeBackInOrder == Spec => []EchoInOrder
<1>1. IndInv => EchoInOrder
  <2> SUFFICES ASSUME IndInv, NEW c \in Conns
               PROVE  IF net[c].state = "open" \/ (net[c].state = "eof" /\ FdOf(c) # {})
                        THEN net[c].got \o net[c].tx \o OutOf(c) \o net[c].rx = Sent(c)
                        ELSE IsPrefix(net[c].got \o net[c].tx, Sent(c))
    BY DEF EchoInOrder
  <2>1. CASE net[c].state = "open" \/ (net[c].state = "eof" /\ FdOf(c) # {})
    <3>1. Whole(c)
      BY <2>1 DEF Whole, FdOf
    <3>2. PICK out \in Seq(Bytes) :
            Has(c, out) /\ ((net[c].got \o net[c].tx) \o out) \o net[c].rx = Sent(c)
      BY <3>1 DEF IndInv, StreamsOK, StreamOK
    <3>3. OutOf(c) = out
      <4>1. CASE FdOf(c) = {}
        BY <3>2, <4>1 DEF OutOf, FdOf, Has
      <4>2. CASE FdOf(c) # {}
        <5>1. (CHOOSE f \in FdOf(c) : TRUE) \in FdOf(c)
          BY <4>2
        <5> QED BY <3>2, <4>2, <5>1 DEF OutOf, FdOf, Has
      <4> QED BY <4>1, <4>2
    <3> QED BY <2>1, <3>2, <3>3
  <2>2. IsPrefix(net[c].got \o net[c].tx, Sent(c))
    <3>1. PICK rest \in Seq(Bytes) : (net[c].got \o net[c].tx) \o rest = Sent(c)
      BY DEF IndInv, StreamsOK, StreamOK
    <3>2. net[c].got \in Seq(Bytes) /\ net[c].tx \in Seq(Bytes)
      BY DEF IndInv, TypeOK, Sockets
    <3>3. net[c].got \o net[c].tx \in Seq(Bytes)
      BY <3>2
    <3> QED BY <3>1, <3>3, PrefixOfConcat
  <2> QED BY <2>1, <2>2
<1> QED BY <1>1, Invariance, PTL
=============================================================================
