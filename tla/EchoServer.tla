----------------------------- MODULE EchoServer -----------------------------
(***************************************************************************)
(* EchoServer of epoll/examples/echo_server.cpp, the edge-triggered user   *)
(* of EpollReactor, with the sockets of the kernel and the peers at their  *)
(* other end.  One system call is one step; peers act between any two.     *)
(*                                                                         *)
(* A byte is the pair <<connection, number>>.  The second thread, which    *)
(* calls stop(), is the one of epoll/tests/epoll_reactor_test.cpp.  An     *)
(* exception (accept4() without descriptors) ends the process and is left  *)
(* out: there are as many descriptors as connections.                      *)
(***************************************************************************)
EXTENDS EpollReactor, SequencesExt

CONSTANTS
  NConns,     \* connections that peers open
  MaxBytes,   \* bytes that the peers send together
  SndBuf,     \* room of a socket's send buffer
  Chunk,      \* what one recv() takes at most
  NoClient    \* a value that is no buffer

Listener == 0                  \* listen_fd_
Conns == 1 .. NConns
None == 0                      \* no connection
AnyEvent == {"in", "out", "rdhup", "err", "hup"}
Interest == {"read", "et"}     \* Read | EdgeTriggered
Bytes == Conns \X Nat

ASSUME EchoAssumption ==
  /\ Fds = {Listener} \cup Conns
  /\ {NConns, MaxBytes, SndBuf, Chunk} \subseteq Nat \ {0}
  /\ NoClient \notin Seq(Bytes)

VARIABLES
  clients,   \* clients_[f]: the output not yet sent, or NoClient
  sock,      \* sock[f]: the connection of descriptor f, None if f is closed
  backlog,   \* connections to accept
  net,       \* net[c]: the two buffers of c in the kernel, and its peer
  cur,       \* the descriptor of the callback that runs
  event,     \* and the events it was called with
  stopper    \* how far the thread that calls stop() is

server == <<clients, sock, cur, event>>
vars == <<reactor, pc, server, backlog, net, stopper>>

ClientFds == Fds \ {Listener}

ConnPoll(n) ==
  IF n.state = "reset" THEN AnyEvent
  ELSE (IF n.rx # <<>> THEN {"in"} ELSE {})
         \cup (IF n.state = "eof" THEN {"in", "rdhup"} ELSE {})
         \cup (IF Len(n.tx) < SndBuf THEN {"out"} ELSE {})

Poll == [f \in Fds |->
  IF f = Listener THEN IF backlog # <<>> THEN {"in"} ELSE {}
  ELSE IF sock[f] = None THEN {} ELSE ConnPoll(net[sock[f]])]

\* The server's constructor has run: it listens, and its reactor watches.
Init ==
  /\ ReactorInit([f \in Fds |-> IF f = Listener THEN Interest ELSE {}])
  /\ clients = [f \in ClientFds |-> NoClient] /\ sock = [f \in ClientFds |-> None]
  /\ backlog = <<>> /\ cur = Listener /\ event = {} /\ stopper = "idle"
  /\ net = [c \in Conns |-> [state |-> "new", sent |-> 0,
                             rx |-> <<>>, tx |-> <<>>, got |-> <<>>]]

-----------------------------------------------------------------------------
(* The peers.                                                              *)

\* A wakeup of f's wait queue with `events` queues f if it waits for one.
Edge(fs, events) ==
  ready_list' = ready_list \cup {f \in fs : Reported(f, events) # {}}

FdOf(c) == {f \in ClientFds : sock[f] = c}

Peer(c, n, events) ==
  /\ net' = [net EXCEPT ![c] = n]
  /\ Edge(FdOf(c), events)
  /\ UNCHANGED <<watchers, wake_fd, stopping, callbacks, pc, server, backlog, stopper>>

\* Connections are numbered in the order in which they are made.
Connect(c) ==
  /\ net[c].state = "new" /\ \A d \in 1 .. c - 1 : net[d].state # "new"
  /\ net' = [net EXCEPT ![c].state = "open"]
  /\ backlog' = Append(backlog, c)
  /\ Edge({Listener}, {"in"})
  /\ UNCHANGED <<watchers, wake_fd, stopping, callbacks, pc, server, stopper>>

PeerSends(c) ==
  LET n == net[c]
  IN /\ n.state = "open" /\ MapThenSumSet(LAMBDA d : net[d].sent, Conns) < MaxBytes
     /\ Peer(c, [n EXCEPT !.sent = @ + 1, !.rx = Append(@, <<c, n.sent + 1>>)], {"in"})

PeerReads(c) ==
  LET n == net[c]
  IN /\ n.state \in {"open", "eof"} /\ n.tx # <<>>
     /\ Peer(c, [n EXCEPT !.tx = Tail(@), !.got = Append(@, Head(n.tx))],
             IF Len(n.tx) = SndBuf THEN {"out"} ELSE {})

\* shutdown(SHUT_WR): the peer still reads.
PeerShuts(c) ==
  /\ net[c].state = "open"
  /\ Peer(c, [net[c] EXCEPT !.state = "eof"], {"in", "rdhup"})

\* A reset discards what is on its way.
PeerResets(c) ==
  /\ net[c].state \in {"open", "eof"}
  /\ Peer(c, [net[c] EXCEPT !.state = "reset", !.rx = <<>>, !.tx = <<>>], AnyEvent)

-----------------------------------------------------------------------------
(* The thread in run().                                                    *)

Outside == UNCHANGED <<backlog, net, stopper>>
Loop == UNCHANGED <<watchers, ready_list, wake_fd, stopping, callbacks>>
Here(next) == pc' = next

\* The callback has returned: what it worked on is of no account any more.
Return == pc' = "dispatch" /\ cur' = Listener /\ event' = {}

Run == (RunStore \/ RunCheck \/ RunWait(Poll) \/ RunCollect \/ RunAgain)
         /\ UNCHANGED server /\ Outside

\* The next callback: acceptClients(), or handleClient() up to its first
\* system call.
Dispatch ==
  \E f \in Fds :
    /\ pc = "dispatch" /\ callbacks[f] # {}
    /\ callbacks' = [callbacks EXCEPT ![f] = {}]
    /\ cur' = f /\ event' = callbacks[f]
    /\ Here(IF f = Listener THEN "accept"
            ELSE IF callbacks[f] \cap {"err", "hup"} # {} THEN "close"
            ELSE IF callbacks[f] \cap {"in", "rdhup"} # {} THEN "recv"
            ELSE "flush_write")
    /\ UNCHANGED <<watchers, ready_list, wake_fd, stopping, clients, sock>> /\ Outside

\* emplace() leaves an entry that is there alone.
Emplaced(f) == IF clients[f] = NoClient THEN <<>> ELSE clients[f]

\* One turn of acceptClients(); accept4() gives the lowest free descriptor.
Accept ==
  /\ pc = "accept"
  /\ IF backlog = <<>> THEN Return /\ Loop /\ UNCHANGED <<clients, sock, backlog>>
     ELSE LET f == Min({g \in ClientFds : sock[g] = None})
              c == Head(backlog)
          IN /\ sock' = [sock EXCEPT ![f] = c]
             /\ backlog' = Tail(backlog)
             /\ clients' = [clients EXCEPT ![f] = Emplaced(f)]
             /\ add(f, Interest, ConnPoll(net[c]))
             /\ UNCHANGED <<wake_fd, stopping, callbacks, pc, cur, event>>
  /\ UNCHANGED <<net, stopper>>

\* Seeded fault: the entry of the client outlives its descriptor.
Erased_Kept(f) == clients
\* Seeded fault: the watcher outlives the descriptor.
Unwatch_Kept(f) == UNCHANGED <<watchers, ready_list>>

Erased(f) == [clients EXCEPT ![f] = NoClient]
Unwatch(f) == remove(f)

\* closeClient(), and the callback returns.
closeClient(f) ==
  /\ Unwatch(f)
  /\ clients' = Erased(f)
  /\ sock' = [sock EXCEPT ![f] = None]
  /\ Return
  /\ UNCHANGED <<wake_fd, stopping, callbacks>> /\ Outside

Close == pc = "close" /\ closeClient(cur)

\* Where flushClient() returns to when the client is still there.
AfterFlush == IF pc = "flush_read" THEN "recv" ELSE "update"

\* One recv() of handleClient().
Recv ==
  LET c == net[sock[cur]]
      n == Min({Chunk, Len(c.rx)})
  IN /\ pc = "recv"
     /\ \/ c.rx # <<>>
           /\ clients' = [clients EXCEPT ![cur] = @ \o SubSeq(c.rx, 1, n)]
           /\ net' = [net EXCEPT ![sock[cur]].rx = SubSeq(c.rx, n + 1, Len(c.rx))]
           /\ Here("flush_read")
           /\ Loop /\ UNCHANGED <<sock, cur, event, backlog, stopper>>
        \/ c.rx = <<>> /\ c.state \in {"eof", "reset"} /\ closeClient(cur)
        \/ c.rx = <<>> /\ c.state = "open"
           /\ Here(IF "out" \in event THEN "flush_write" ELSE "update")
           /\ Loop /\ UNCHANGED server /\ Outside

\* One send() of flushClient(), or none if the buffer is empty.
Flush ==
  LET c == net[sock[cur]]
      out == clients[cur]
      n == Min({SndBuf - Len(c.tx), Len(out)})
  IN /\ pc \in {"flush_read", "flush_write"}
     /\ \/ out # <<>> /\ c.state = "reset" /\ closeClient(cur)
        \/ out # <<>> /\ c.state # "reset" /\ n > 0
           /\ clients' = [clients EXCEPT ![cur] = SubSeq(out, n + 1, Len(out))]
           /\ net' = [net EXCEPT ![sock[cur]].tx = @ \o SubSeq(out, 1, n)]
           /\ Loop /\ UNCHANGED <<pc, sock, cur, event, backlog, stopper>>
        \/ (out # <<>> => c.state # "reset" /\ n = 0)
           /\ Here(AfterFlush)
           /\ Loop /\ UNCHANGED server /\ Outside

\* Seeded fault: output that waits for room is not announced to epoll.
NewInterest_ReadOnly(f) == Interest
\* Seeded fault: Write interest is added and never taken back.
NewInterest_Sticky(f) == Interest \cup (watchers[f] \cap {"write"})
                           \cup (IF clients[f] # <<>> THEN {"write"} ELSE {})

NewInterest(f) == Interest \cup (IF clients[f] # <<>> THEN {"write"} ELSE {})

\* The end of handleClient().
Update == /\ pc = "update" /\ Return
          /\ modify(cur, NewInterest(cur), Poll[cur])
          /\ UNCHANGED <<wake_fd, stopping, callbacks, clients, sock>> /\ Outside

ServerStep == Run \/ Dispatch \/ Accept \/ Close \/ Recv \/ Flush \/ Update

-----------------------------------------------------------------------------
(* The thread that calls stop().                                           *)

StopCall == /\ stopper = "idle" /\ stopper' = "stored"
            /\ stop(1)
            /\ UNCHANGED <<pc, server, backlog, net>>

StopWake == /\ stopper = "stored" /\ stopper' = "stopped"
            /\ stop(2)
            /\ UNCHANGED <<pc, server, backlog, net>>

PeerStep == \E c \in Conns :
  Connect(c) \/ PeerSends(c) \/ PeerReads(c) \/ PeerShuts(c) \/ PeerResets(c)

Next == ServerStep \/ StopCall \/ StopWake \/ PeerStep

Spec == Init /\ [][Next]_vars

-----------------------------------------------------------------------------
(* Properties.                                                             *)

\* Where the thread in run() is outside the callbacks, and where it serves
\* the client `cur`.
LoopLabels == {"run", "check", "wait", "collect", "dispatch", "returned"}
ClientLabels == {"close", "recv", "flush_read", "flush_write", "update"}

Sockets == [state : {"new", "open", "eof", "reset"}, sent : Nat,
            rx : Seq(Bytes), tx : Seq(Bytes), got : Seq(Bytes)]

TypeOK ==
  /\ watchers \in [Fds -> SUBSET {"read", "write", "et"}]
  /\ ready_list \in SUBSET Fds
  /\ wake_fd \in BOOLEAN /\ stopping \in BOOLEAN
  /\ callbacks \in [Fds \cup {Eventfd} -> SUBSET AnyEvent]
  /\ pc \in LoopLabels \cup ClientLabels \cup {"accept"}
  /\ clients \in [ClientFds -> Seq(Bytes) \cup {NoClient}]
  /\ sock \in [ClientFds -> Conns \cup {None}]
  /\ backlog \in Seq(Conns)
  /\ net \in [Conns -> Sockets]
  /\ cur \in Fds /\ event \in SUBSET AnyEvent
  /\ stopper \in {"idle", "stored", "stopped"}

\* What the server has in hand for connection c.
OutOf(c) == IF FdOf(c) = {} THEN <<>> ELSE clients[CHOOSE f \in FdOf(c) : TRUE]

Sent(c) == [i \in 1 .. net[c].sent |-> <<c, i>>]

\* A peer gets its own bytes back, in order and once, whatever descriptors
\* are reused: what it got, what is under way to it, what the server holds
\* (Client::out) and what the server has not read are together what it sent.
\* When the server has closed the connection, what it got is a beginning of
\* what it sent.
EchoInOrder ==
  \A c \in Conns :
    LET n == net[c]
    IN IF n.state = "open" \/ (n.state = "eof" /\ FdOf(c) # {})
         THEN n.got \o n.tx \o OutOf(c) \o n.rx = Sent(c)
         ELSE IsPrefix(n.got \o n.tx, Sent(c))

\* While the reactor waits, a client is registered for Write exactly if it
\* has output left: handleClient() neither forgets the rest of a partial
\* send() nor keeps an interest that an empty buffer has no use for.
WriteInterestExact ==
  pc = "wait" =>
    \A f \in ClientFds : clients[f] # NoClient =>
      ("write" \in watchers[f]) = (clients[f] # <<>>)

\* clients_, the reactor's watchers and the open descriptors name the same
\* clients between any two steps, and runOnce() has no callback in hand
\* for a descriptor that is closed.
TablesAgree ==
  \A f \in ClientFds :
    /\ (sock[f] # None) = (watchers[f] # {})
    /\ (sock[f] # None) = (clients[f] # NoClient)
    /\ sock[f] = None => callbacks[f] = {}
=============================================================================
