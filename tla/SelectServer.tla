---------------------------- MODULE SelectServer ----------------------------
(***************************************************************************)
(* CSTest/ServerBaseOnSelect/MultiIOServer.cpp: one thread that waits in    *)
(* select for its listening socket and its connections, and sends back what *)
(* it reads in capitals.                                                    *)
(*                                                                          *)
(* A turn of the loop is Select, ListenReady, one Visit per connection, with *)
(* a Write when it has sent something, and NewMaxfd; clients act between     *)
(* any two of them.  The server refuses connections beyond maxconnect - 3;   *)
(* whether the process runs out of descriptors before that depends on its    *)
(* limit (1024 by default, of which it has 1020 for connections), so the     *)
(* limit is one of two.  Descriptor n stands for n + 3: with the greater     *)
(* limit the last connection the server keeps, the 1021st, is 1024, one more *)
(* than an fd_set has room for.                                             *)
(***************************************************************************)
EXTENDS Naturals, Sequences, FiniteSets, SequencesExt

CONSTANTS MaxConnect,   \* connections the server keeps, maxconnect - 3
          MaxBacklog,   \* bound: clients waiting to be accepted
          MaxSends,     \* bound: pieces of data all clients send
          Buffer        \* bound: echoes a connection takes that nobody reads

VARIABLES
  fdLimit,      \* the descriptors there are for connections
  sock,         \* each descriptor: who is at the other end, the data to read,
                \* the echoes the client has not read
  backlog, sends,
  socketSet,    \* the descriptors of the connections, in order
  allset, rset, maxfd, ret,
  pc,           \* "select", "listen", "scan", "write", "maxfd", "killed" or "overrun"
  it            \* the position in socketSet

kernel == <<fdLimit, sock, backlog, sends>>
vars == <<kernel, socketSet, allset, rset, maxfd, ret, pc, it>>

listenfd == 0
Fd == 1 .. MaxConnect + 1
FD_SETSIZE == MaxConnect
Closed == [peer |-> "none", data |-> 0, unread |-> 0]
Open == {fd \in Fd : sock[fd].peer # "none"}
FreeFds == {fd \in 1 .. fdLimit : sock[fd].peer = "none"}
Lowest(S) == CHOOSE fd \in S : \A other \in S : fd <= other

Readable(fd) == sock[fd].data > 0 \/ sock[fd].peer \in {"left", "broken"}
Ready(fd) == IF fd = listenfd THEN backlog > 0 ELSE Readable(fd)

-----------------------------------------------------------------------------
\* rset = allset has been done when the loop came round.
Select ==
  LET ready == {fd \in rset : fd <= maxfd /\ Ready(fd)}
  IN  /\ pc = "select" /\ ready # {}
      /\ rset' = ready /\ ret' = Cardinality(ready) /\ pc' = "listen"
      /\ UNCHANGED <<kernel, socketSet, allset, maxfd, it>>

\* A connection beyond the limit is accepted and closed, when a descriptor is
\* left for it.
Overflow ==
  /\ Len(socketSet) >= MaxConnect
  /\ IF FreeFds = {} THEN UNCHANGED backlog ELSE backlog' = backlog - 1
  /\ pc' = "select"
  /\ UNCHANGED <<sock, socketSet, allset, maxfd, ret>>

AcceptFails == /\ Len(socketSet) < MaxConnect /\ FreeFds = {} /\ pc' = "select"
               /\ UNCHANGED <<sock, backlog, socketSet, allset, maxfd, ret>>

\* The slip does not raise maxfd.
OldMaxfd(fd) == maxfd
Raised(fd) == IF maxfd < fd THEN fd ELSE maxfd
Accept ==
  /\ Len(socketSet) < MaxConnect /\ FreeFds # {}
  /\ LET connfd == Lowest(FreeFds)
     IN  /\ sock' = [sock EXCEPT ![connfd].peer = "here"]
         /\ allset' = IF connfd < FD_SETSIZE THEN allset \cup {connfd} ELSE allset
         /\ maxfd' = Raised(connfd)
         /\ socketSet' = Append(socketSet, connfd)
  /\ backlog' = backlog - 1 /\ ret' = ret - 1
  /\ pc' = IF ret = 1 THEN "select" ELSE "scan"

\* FD_SET of a descriptor an fd_set has no room for is undefined.  It may write
\* where nothing is lost, and rset = allset does not copy it: that is Accept, and
\* nobody watches the connection.  Or the process is aborted (a fortified build),
\* or other variables are overwritten, here or by select with such a maxfd:
\* nothing is known of the server afterwards.
Overrun ==
  /\ Len(socketSet) < MaxConnect /\ FreeFds # {} /\ Lowest(FreeFds) >= FD_SETSIZE
  /\ pc' = "overrun"
  /\ UNCHANGED <<sock, backlog, socketSet, allset, maxfd, ret>>

ListenReady ==
  /\ pc = "listen" /\ it' = 1
  /\ \/ listenfd \in rset /\ (Overflow \/ AcceptFails \/ Accept \/ Overrun)
     \/ /\ listenfd \notin rset /\ pc' = "scan"
        /\ UNCHANGED <<sock, backlog, socketSet, allset, maxfd, ret>>
  /\ rset' = IF pc' = "select" THEN allset' ELSE rset
  /\ UNCHANGED <<fdLimit, sends>>

-----------------------------------------------------------------------------
\* read returns 0 or -1: close and erase, whose destructor closes the number
\* again; nobody else opens descriptors, so it is still unused.  The slip leaves
\* the descriptor in allset.
KeepInSet(fd) == allset
FD_CLR(fd) == allset \ {fd}
Disconnect(fd) ==
  /\ sock[fd].data = 0
  /\ allset' = FD_CLR(fd) /\ sock' = [sock EXCEPT ![fd] = Closed]
  /\ socketSet' = RemoveAt(socketSet, it)
  /\ UNCHANGED <<ret, pc, it>>

\* n > 0: the write of what was read follows.
Read(fd) ==
  /\ sock[fd].data > 0
  /\ sock' = [sock EXCEPT ![fd].data = @ - 1] /\ pc' = "write"
  /\ UNCHANGED <<socketSet, allset, ret, it>>

Visit ==
  /\ pc = "scan" /\ it <= Len(socketSet)
  /\ LET fd == socketSet[it]
     IN  \/ fd \in rset /\ (Disconnect(fd) \/ Read(fd))
         \/ fd \notin rset /\ it' = it + 1
            /\ UNCHANGED <<sock, socketSet, allset, ret, pc>>
  /\ UNCHANGED <<fdLimit, backlog, sends, rset, maxfd>>

\* The sockets block: the thread waits in write until the client has read enough
\* or has gone.
Room(fd) == sock[fd].unread < Buffer

\* A write to a client that has gone may break the connection.
Written(fd) == IF sock[fd].peer = "here"
               THEN {[sock[fd] EXCEPT !.unread = @ + 1]}
               ELSE {[sock[fd] EXCEPT !.peer = peer] : peer \in {sock[fd].peer, "broken"}}

\* A write to a broken connection raises SIGPIPE, which nobody handles.
Write ==
  /\ pc = "write"
  /\ LET fd == socketSet[it]
     IN  /\ Room(fd)
         /\ \E s \in Written(fd) : sock' = [sock EXCEPT ![fd] = s]
         /\ pc' = IF sock[fd].peer = "broken" THEN "killed"
                  ELSE IF ret = 1 THEN "maxfd" ELSE "scan"
  /\ ret' = ret - 1 /\ it' = it + 1
  /\ UNCHANGED <<fdLimit, backlog, sends, socketSet, allset, rset, maxfd>>

NewMaxfd ==
  /\ pc = "maxfd" \/ (pc = "scan" /\ it > Len(socketSet))
  /\ maxfd' = CHOOSE fd \in {listenfd} \cup ToSet(socketSet) :
                \A other \in ToSet(socketSet) : other <= fd
  /\ pc' = "select" /\ rset' = allset /\ it' = 1
  /\ UNCHANGED <<kernel, socketSet, allset, ret>>

Loop == Select \/ ListenReady \/ Visit \/ Write \/ NewMaxfd

-----------------------------------------------------------------------------
Server == UNCHANGED <<fdLimit, socketSet, allset, rset, maxfd, ret, pc, it>>
ClientConnects == /\ backlog < MaxBacklog /\ backlog' = backlog + 1
                  /\ UNCHANGED <<sock, sends>> /\ Server
ClientSends(fd) == /\ sock[fd].peer = "here" /\ sends < MaxSends
                   /\ sock' = [sock EXCEPT ![fd].data = @ + 1] /\ sends' = sends + 1
                   /\ UNCHANGED backlog /\ Server
ClientReads(fd) == /\ sock[fd].peer = "here" /\ sock[fd].unread > 0
                   /\ sock' = [sock EXCEPT ![fd].unread = @ - 1]
                   /\ UNCHANGED <<backlog, sends>> /\ Server
\* In order or with a reset: read returns 0 or -1, and the server does the same.
ClientLeaves(fd) == /\ sock[fd].peer = "here"
                    /\ sock' = [sock EXCEPT ![fd] = [peer |-> "left", data |-> @.data,
                                                     unread |-> 0]]
                    /\ UNCHANGED <<backlog, sends>> /\ Server

Init ==
  /\ fdLimit \in {MaxConnect - 1, MaxConnect + 1}
  /\ sock = [fd \in Fd |-> Closed] /\ backlog = 0 /\ sends = 0
  /\ socketSet = <<>> /\ allset = {listenfd} /\ rset = allset /\ maxfd = listenfd
  /\ ret = 0 /\ pc = "select" /\ it = 1

Next == \/ Loop
        \/ ClientConnects
        \/ \E fd \in Fd : ClientSends(fd) \/ ClientReads(fd) \/ ClientLeaves(fd)

Spec == Init /\ [][Next]_vars
\* The thread goes on whenever it is not waiting in select or in write.
FairSpec == Spec /\ WF_vars(Loop)

-----------------------------------------------------------------------------
TypeOK ==
  /\ fdLimit \in Nat /\ backlog \in 0 .. MaxBacklog /\ sends \in 0 .. MaxSends
  /\ sock \in [Fd -> [peer : {"none", "here", "left", "broken"},
                      data : 0 .. MaxSends, unread : 0 .. Buffer]]
  /\ socketSet \in Seq(Fd) /\ allset \subseteq {listenfd} \cup Fd
  /\ rset \subseteq {listenfd} \cup Fd /\ maxfd \in {listenfd} \cup Fd
  /\ ret \in 0 .. MaxConnect + 2
  /\ pc \in {"select", "listen", "scan", "write", "maxfd", "killed", "overrun"}
  /\ it \in 1 .. MaxConnect + 1

\* The list and the open descriptors are the same, none of them twice, and the
\* watched set is those of them an fd_set has room for, with select never told to
\* stop short of one.  With the default limit that is every connection, and the
\* sets are never overrun; with the greater limit one connection may be kept that
\* nobody watches.
WatchesItsConnections ==
  /\ ToSet(socketSet) = Open /\ IsInjective(socketSet)
  /\ allset = {listenfd} \cup {fd \in Open : fd < FD_SETSIZE}
  /\ \A fd \in allset : fd <= maxfd
  /\ fdLimit < FD_SETSIZE => pc # "overrun" /\ allset = {listenfd} \cup Open

\* Clients wait that the server cannot take: it goes round its loop for them and
\* looks at no other connection.
Crowded == backlog > 0 /\ (FreeFds = {} \/ Len(socketSet) >= MaxConnect)

\* The one thread waits for a client that stays and does not read.
Stuck == pc = "write" /\ ~Room(socketSet[it])

\* A watched descriptor never keeps data unread or a client that has left for
\* ever, unless the server is crowded or dead, or stuck for good: a client that
\* sends and never reads stops everybody else's service.
Settled(fd) == ~Readable(fd)
ReadyIsServed ==
  \/ <>[]Stuck
  \/ \A fd \in Fd : fd < FD_SETSIZE =>
       []<>(Settled(fd) \/ Crowded \/ pc \in {"killed", "overrun"})
=============================================================================
