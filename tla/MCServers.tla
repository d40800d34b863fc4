----------------------------- MODULE MCServers -----------------------------
(***************************************************************************)
(* The servers of the repository that are not built on a session class.    *)
(* They share nothing; which says the one that runs.                       *)
(*                                                                          *)
(* The reactor has a table of two connections, three descriptors and checks *)
(* one entry per turn, so the table and the descriptors both run out.  The  *)
(* HTTP server accepts two connections; the WebSocket client sends three    *)
(* messages, so that two can wait behind the one being written.  The select *)
(* server keeps three connections, of which it can watch two, and has        *)
(* descriptors for two or four, the epoll echo server for two; their clients *)
(* send twice, the least that meets a connection broken by an echo or, with *)
(* room for one echo that nobody reads, a write that blocks.  Two blocking  *)
(* servers, processes or threads, get two clients.                         *)
(***************************************************************************)
EXTENDS EpollReactor, Sequences

CONSTANTS Conn, MaxMsgs, Garbage, MaxSends, Buffer,
          MaxConnect,   \* connections the select server keeps
          EchoFds,      \* descriptors the epoll echo server has for connections
          Servers       \* blocking servers

ASSUME ServersAssumption ==
  /\ {MaxMsgs, MaxSends, EchoFds} \subseteq Nat
  /\ {MaxConnect, Servers, Buffer} \subseteq Nat \ {0}
  /\ "none" \notin Conn

VARIABLES which, accepting, op, deadline, socket, clients, answer, expired,
          life, registered, reading, writes, _send_queue, received, echoed, peer,
          writeFailed,
          fdLimit, conn, waiting, sends, socketSet, allset, rset, maxfd, ret,
          turn, it,
          echoConn, echoWaiting, echoSends, interest, epArr, writing, up,
          kind, client, at, data, table, thread, sockfd, serving, readOf, astray

Http == INSTANCE HttpConnection WITH peer <- clients
WebSocket == INSTANCE WebSocketConnection
Select == INSTANCE SelectServer
  WITH sock <- conn, backlog <- waiting, pc <- turn
Echo == INSTANCE EpollEcho
  WITH FdLimit <- EchoFds, sock <- echoConn, backlog <- echoWaiting,
       sends <- echoSends
Blocking == INSTANCE BlockingServers
  WITH Kind <- {"process", "thread"}, Client <- Conn, pc <- thread,
       reading <- readOf

http == <<accepting, op, deadline, socket, clients, answer, expired>>
websocket == <<life, registered, reading, writes, _send_queue, received, echoed,
               peer, writeFailed>>
select == <<fdLimit, conn, waiting, sends, socketSet, allset, rset, maxfd, ret, turn, it>>
echo == <<echoConn, echoWaiting, echoSends, interest, epArr, writing, up>>
blocking == <<kind, client, at, data, table, thread, sockfd, serving, readOf, astray>>
all == <<which, vars, http, websocket, select, echo, blocking>>

-----------------------------------------------------------------------------
InitServers ==
  /\ which \in {"reactor", "http", "websocket", "select", "echo", "blocking"}
  /\ Init /\ Http!Init /\ WebSocket!Init /\ Select!Init /\ Blocking!Init
  /\ Echo!Init
  /\ which # "select" => fdLimit = MaxConnect + 1
  /\ which # "blocking" => kind = "process"

NextServers ==
  \/ /\ which = "reactor" /\ Next
     /\ UNCHANGED <<which, http, websocket, select, echo, blocking>>
  \/ /\ which = "http" /\ Http!Next
     /\ UNCHANGED <<which, vars, websocket, select, echo, blocking>>
  \/ /\ which = "websocket" /\ WebSocket!Next
     /\ UNCHANGED <<which, vars, http, select, echo, blocking>>
  \/ /\ which = "select" /\ Select!Next
     /\ UNCHANGED <<which, vars, http, websocket, echo, blocking>>
  \/ /\ which = "echo" /\ Echo!Next
     /\ UNCHANGED <<which, vars, http, websocket, select, blocking>>
  \/ /\ which = "blocking" /\ Blocking!Next
     /\ UNCHANGED <<which, vars, http, websocket, select, echo>>

\* FairSpec of the server that runs.
FairServers ==
  /\ InitServers /\ [][NextServers]_all
  /\ WF_vars(which = "reactor" /\ Loop)
  /\ \A c \in Conn : /\ WF_http(which = "http" /\ Http!Handler(c))
                      /\ WF_http(which = "http" /\ Http!TimerExpires(c))
                      /\ WF_http(which = "http" /\ Http!ClosedHere(c))
  /\ WF_websocket(which = "websocket" /\ WebSocket!Write)
  /\ WF_websocket(which = "websocket" /\ WebSocket!Handlers)
  /\ WF_websocket(which = "websocket" /\ WebSocket!ReadCompletes /\ ~peer)
  /\ WF_websocket(which = "websocket" /\ WebSocket!UpgradeFailed /\ ~peer)
  /\ WF_select(which = "select" /\ Select!Loop)
  /\ WF_echo(which = "echo" /\ Echo!Loop)
  /\ \A s \in 1 .. Servers : WF_blocking(which = "blocking" /\ Blocking!Serve(s))

-----------------------------------------------------------------------------
\* The type invariants of all.
TypesOK == /\ TypeOK /\ Http!TypeOK /\ WebSocket!TypeOK
           /\ Select!TypeOK /\ Echo!TypeOK /\ Blocking!TypeOK

\* The HTTP server answers what it has read unless the client leaves or its
\* time is over.
NoAnswerLost == Http!NoAnswerLost

\* The WebSocket connection writes one message at a time and echoes every message
\* in order to a client that stays.
OneWriter == WebSocket!OneWriter
EveryEcho == WebSocket!EveryEcho

\* What the servers on select and epoll believe of their descriptors is what the
\* kernel knows, except for the select server's connections beyond an fd_set, which
\* nobody watches; blocking servers that are processes keep to their own clients.
KeepsItsDescriptors == /\ Select!WatchesItsConnections /\ Echo!WatchesItsConnections
                       /\ Blocking!ClosesItsOwn

\* Every connection of the HTTP server is released, and those of the WebSocket
\* server and the blocking servers when their client leaves.
EventuallyReleased ==
  Http!EventuallyReleased /\ WebSocket!LeaverIsReleased /\ Blocking!LeaverIsClosed

\* The servers on select and epoll attend to everybody they can take, unless a
\* client that does not read stops them in a write.
ReadyIsServed == Select!ReadyIsServed /\ Echo!ReadyIsServed
=============================================================================
