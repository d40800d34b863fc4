----------------------------- MODULE EpollEcho -----------------------------
(***************************************************************************)
(* CSTest/ServerBaseOnEpoll/epollConcurrency.cpp: one thread, level         *)
(* triggered epoll, connections that get back what they send in capitals.   *)
(* Every error but that of write ends the process (handle_error), whoever   *)
(* caused it and whoever else is connected.                                *)
(***************************************************************************)
EXTENDS Naturals

CONSTANTS FdLimit,      \* descriptors the process has for connections
          MaxBacklog,   \* bound: clients waiting to be accepted
          MaxSends,     \* bound: pieces of data all clients send
          Buffer        \* bound: echoes a connection takes that nobody reads

VARIABLES
  sock,         \* each descriptor: who is at the other end, the data to read,
                \* the echoes the client has not read
  backlog, sends,
  interest,     \* the descriptors epoll watches
  epArr,        \* the reported events not dispatched yet
  writing,      \* the connection the thread writes to, or listenfd
  up            \* the process runs

kernel == <<sock, backlog, sends>>
vars == <<kernel, interest, epArr, writing, up>>

listenfd == 0
Fd == 1 .. FdLimit
Closed == [peer |-> "none", data |-> 0, unread |-> 0]
Open == {fd \in Fd : sock[fd].peer # "none"}
Readable(fd) == sock[fd].data > 0 \/ sock[fd].peer \in {"left", "broken", "reset"}
Ready(fd) == IF fd = listenfd THEN backlog > 0 ELSE Readable(fd)

-----------------------------------------------------------------------------
\* epoll_wait reports all that is ready; in which order is the kernel's affair.
EpollWait == /\ up /\ epArr = {} /\ writing = listenfd
             /\ epArr' = {fd \in interest : Ready(fd)} /\ epArr' # {}
             /\ UNCHANGED <<kernel, interest, writing, up>>

\* accept gives the lowest number that is free; without one the process ends.
Accept ==
  /\ IF Fd \ Open = {}
     THEN up' = FALSE /\ UNCHANGED <<sock, backlog, interest>>
     ELSE LET cfd == CHOOSE fd \in Fd \ Open : \A other \in Fd \ Open : fd <= other
          IN  /\ sock' = [sock EXCEPT ![cfd].peer = "here"]
              /\ interest' = interest \cup {cfd}
              /\ backlog' = backlog - 1 /\ UNCHANGED up

\* n == 0.  The slip forgets the disconnected one.
Forget(fd) == interest' = interest \ {fd} /\ UNCHANGED sock
DropAndClose(fd) == /\ interest' = interest \ {fd}
                    /\ sock' = [sock EXCEPT ![fd] = Closed]

\* n > 0: the write of what was read follows.
Read(fd) ==
  \/ /\ sock[fd].data > 0
     /\ sock' = [sock EXCEPT ![fd].data = @ - 1] /\ writing' = fd
     /\ UNCHANGED <<interest, up>>
  \/ /\ sock[fd].data = 0 /\ sock[fd].peer = "reset"
     /\ DropAndClose(fd) /\ up' = FALSE /\ UNCHANGED writing
  \/ /\ sock[fd].data = 0 /\ sock[fd].peer # "reset"
     /\ DropAndClose(fd) /\ UNCHANGED <<writing, up>>

Dispatch(fd) ==
  /\ up /\ writing = listenfd /\ fd \in epArr /\ epArr' = epArr \ {fd}
  /\ \/ fd = listenfd /\ Accept /\ UNCHANGED writing
     \/ fd # listenfd /\ Read(fd) /\ UNCHANGED backlog
  /\ UNCHANGED sends

\* The sockets block: the thread waits in write until the client has read enough
\* or has gone.
Room(fd) == sock[fd].unread < Buffer

\* A write to a client that has gone may break the connection.
Written(fd) == IF sock[fd].peer = "here"
               THEN {[sock[fd] EXCEPT !.unread = @ + 1]}
               ELSE {[sock[fd] EXCEPT !.peer = peer] : peer \in {sock[fd].peer, "broken"}}

\* A write to a broken connection raises SIGPIPE, which nobody handles.
Write ==
  /\ up /\ writing # listenfd /\ Room(writing)
  /\ \E s \in Written(writing) : sock' = [sock EXCEPT ![writing] = s]
  /\ up' = (sock[writing].peer # "broken") /\ writing' = listenfd
  /\ UNCHANGED <<backlog, sends, interest, epArr>>

Loop == EpollWait \/ (\E fd \in epArr : Dispatch(fd)) \/ Write

-----------------------------------------------------------------------------
Server == UNCHANGED <<interest, epArr, writing, up>>
ClientConnects == /\ backlog < MaxBacklog /\ backlog' = backlog + 1
                  /\ UNCHANGED <<sock, sends>> /\ Server
ClientSends(fd) == /\ sock[fd].peer = "here" /\ sends < MaxSends
                   /\ sock' = [sock EXCEPT ![fd].data = @ + 1] /\ sends' = sends + 1
                   /\ UNCHANGED backlog /\ Server
ClientReads(fd) == /\ sock[fd].peer = "here" /\ sock[fd].unread > 0
                   /\ sock' = [sock EXCEPT ![fd].unread = @ - 1]
                   /\ UNCHANGED <<backlog, sends>> /\ Server
ClientLeaves(fd) == /\ sock[fd].peer = "here"
                    /\ \E how \in {"left", "reset"} :
                         sock' = [sock EXCEPT ![fd] = [peer |-> how, data |-> @.data,
                                                       unread |-> 0]]
                    /\ UNCHANGED <<backlog, sends>> /\ Server

Init == /\ sock = [fd \in Fd |-> Closed] /\ backlog = 0 /\ sends = 0
        /\ interest = {listenfd} /\ epArr = {} /\ writing = listenfd /\ up = TRUE

Next == \/ Loop
        \/ ClientConnects
        \/ \E fd \in Fd : ClientSends(fd) \/ ClientReads(fd) \/ ClientLeaves(fd)

Spec == Init /\ [][Next]_vars
\* The thread goes on whenever it is not waiting in epoll_wait or in write.
FairSpec == Spec /\ WF_vars(Loop)

-----------------------------------------------------------------------------
TypeOK ==
  /\ backlog \in 0 .. MaxBacklog /\ sends \in 0 .. MaxSends /\ up \in BOOLEAN
  /\ sock \in [Fd -> [peer : {"none", "here", "left", "reset", "broken"},
                      data : 0 .. MaxSends, unread : 0 .. Buffer]]
  /\ interest \subseteq {listenfd} \cup Fd /\ epArr \subseteq {listenfd} \cup Fd
  /\ writing \in {listenfd} \cup Fd

\* The interest list is the listening socket and the open connections, and every
\* event still to be dispatched is one of its members: no callback makes another
\* event of the batch stale, so no read meets a descriptor with nothing to read,
\* and no write one that was closed.
WatchesItsConnections ==
  /\ interest = Open \cup {listenfd} /\ epArr \subseteq interest
  /\ up => \A fd \in epArr : Ready(fd)
  /\ writing # listenfd => writing \in Open \ epArr

\* The one thread waits for a client that stays and does not read.
Stuck == writing # listenfd /\ ~Room(writing)

\* While the process runs, no client waits for ever to be accepted, to have its
\* data read, or to be released when it has left, unless the thread is stuck for
\* good: a client that sends and never reads stops everybody else's service.
Settled(fd) == IF fd = listenfd THEN backlog = 0
               ELSE sock[fd].data = 0 /\ sock[fd].peer # "left"
ReadyIsServed == \/ <>[]Stuck
                 \/ \A fd \in {listenfd} \cup Fd : []<>(Settled(fd) \/ ~up)
=============================================================================
