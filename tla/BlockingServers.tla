--------------------------- MODULE BlockingServers ---------------------------
(***************************************************************************)
(* CSTest/concurrencyServer.cpp and CSTest/multiThreadServer.cpp on the     *)
(* eSocket of CSTest/EasySocket.hpp: several servers on one port, each of   *)
(* which serves one client after the other with blocking calls.  In the     *)
(* first they are processes, in the second threads: the two differ in       *)
(* whether they share the table of descriptors.                            *)
(*                                                                          *)
(* receive closes the number it is given at the end of the stream, and so   *)
(* does the destructor of the eSocket that still has it.  A read that is    *)
(* going on keeps its connection even when its number is closed.           *)
(***************************************************************************)
EXTENDS Naturals, Functions

CONSTANTS Kind,       \* "process" or "thread", or both
          Servers,    \* bound: 10 in the code
          Client      \* who connects, sends once and leaves

VARIABLES
  kind,
  client,       \* "out", "waiting", "here", "left"
  at,           \* the server whose listening socket got the client
  data,         \* the client's data has not been read yet
  table,        \* the tables: the connection each descriptor stands for
  pc,           \* "accept", "receive", "reading", "send", "close" or "destroy"
  sockfd,       \* the member of connectSocket; connFD is the same number
  serving,      \* the client that was accepted last
  reading,      \* the connection of the read that goes on
  astray        \* a server touched the connection of another one's client

vars == <<kind, client, at, data, table, pc, sockfd, serving, reading, astray>>

Server == 1 .. Servers
Fd == 1 .. Servers
None == "none"

\* The table of server s.  The slip gives processes one table, too.
OneTable(s) == 1
Table(s) == IF kind = "thread" THEN 1 ELSE s
Entry(s) == table[Table(s)][sockfd[s]]
Goto(s, label) == pc' = [pc EXCEPT ![s] = label]
Touch(s) == astray' = (astray \/ Entry(s) \notin {None, serving[s]})
\* The slip: neither receive nor the destructor closes anything.
KeepNumber(s) == UNCHANGED table
CloseNumber(s) == table' = [table EXCEPT ![Table(s)][sockfd[s]] = None]

-----------------------------------------------------------------------------
\* Without a free number accept fails, and is called again.
easy_accept(s) ==
  /\ pc[s] = "accept"
  /\ LET free == {fd \in Fd : table[Table(s)][fd] = None}
         fd   == CHOOSE f \in free : \A other \in free : f <= other
     IN  \E c \in Client :
           /\ free # {}
           /\ client[c] \in {"waiting", "left"} /\ at[c] = s
           /\ \A t \in Server : serving[t] # c
           /\ table' = [table EXCEPT ![Table(s)][fd] = c]
           /\ sockfd' = [sockfd EXCEPT ![s] = fd]
           /\ serving' = [serving EXCEPT ![s] = c]
           /\ client' = [client EXCEPT ![c] = IF @ = "left" THEN "left" ELSE "here"]
  /\ Goto(s, "receive")
  /\ UNCHANGED <<kind, at, data, reading, astray>>

\* receive: the read starts on what the number stands for now, and fails at
\* once when that is nothing.
StartRead(s) ==
  /\ pc[s] = "receive" /\ Touch(s)
  /\ reading' = [reading EXCEPT ![s] = Entry(s)]
  /\ Goto(s, IF Entry(s) = None THEN "close" ELSE "reading")
  /\ UNCHANGED <<kind, client, at, data, table, sockfd, serving>>

\* It returns with data, or at the end of the stream.
ReadReturns(s) ==
  /\ pc[s] = "reading" /\ reading' = [reading EXCEPT ![s] = None]
  /\ \/ /\ data[reading[s]] /\ data' = [data EXCEPT ![reading[s]] = FALSE]
        /\ Goto(s, "send")
     \/ /\ ~data[reading[s]] /\ client[reading[s]] = "left"
        /\ Goto(s, "close") /\ UNCHANGED data
  /\ UNCHANGED <<kind, client, at, table, sockfd, serving, astray>>

\* receive closes the number when the read has failed or met the end, and the
\* destructor of connectSocket closes it again at the end of its scope.
Close(s, from, next) ==
  /\ pc[s] = from /\ CloseNumber(s) /\ Touch(s) /\ Goto(s, next)
  /\ UNCHANGED <<kind, client, at, data, sockfd, serving, reading>>
CloseAtEnd(s) == Close(s, "close", "destroy")
Destroy(s) == Close(s, "destroy", "accept")

\* send ignores errors.
send(s) ==
  /\ pc[s] = "send" /\ Touch(s) /\ Goto(s, "receive")
  /\ UNCHANGED <<kind, client, at, data, table, sockfd, serving, reading>>

Serve(s) == \/ easy_accept(s) \/ StartRead(s) \/ ReadReturns(s)
            \/ send(s) \/ CloseAtEnd(s) \/ Destroy(s)

-----------------------------------------------------------------------------
\* The kernel gives a new client to one of the listening sockets.
ClientOnly == UNCHANGED <<kind, table, pc, sockfd, serving, reading, astray>>
ClientConnects(c) ==
  /\ client[c] = "out" /\ client' = [client EXCEPT ![c] = "waiting"]
  /\ \E s \in Server : at' = [at EXCEPT ![c] = s]
  /\ \E sends \in BOOLEAN : data' = [data EXCEPT ![c] = sends]
  /\ ClientOnly
ClientLeaves(c) ==
  /\ client[c] \in {"waiting", "here"} /\ client' = [client EXCEPT ![c] = "left"]
  /\ UNCHANGED <<at, data>> /\ ClientOnly

Init ==
  /\ kind \in Kind
  /\ client = [c \in Client |-> "out"] /\ at = [c \in Client |-> 1]
  /\ data = [c \in Client |-> FALSE]
  /\ table = [t \in Server |-> [fd \in Fd |-> None]]
  /\ pc = [s \in Server |-> "accept"] /\ sockfd = [s \in Server |-> 1]
  /\ serving = [s \in Server |-> None] /\ reading = [s \in Server |-> None]
  /\ astray = FALSE

Next == \/ \E s \in Server : Serve(s)
        \/ \E c \in Client : ClientConnects(c) \/ ClientLeaves(c)

Spec == Init /\ [][Next]_vars
FairSpec == Spec /\ \A s \in Server : WF_vars(Serve(s))

-----------------------------------------------------------------------------
TypeOK ==
  /\ kind \in Kind /\ at \in [Client -> Server]
  /\ client \in [Client -> {"out", "waiting", "here", "left"}]
  /\ data \in [Client -> BOOLEAN]
  /\ table \in [Server -> [Fd -> Client \cup {None}]]
  /\ pc \in [Server -> {"accept", "receive", "reading", "send", "close",
                    "destroy"}]
  /\ sockfd \in [Server -> Fd] /\ astray \in BOOLEAN
  /\ serving \in [Server -> Client \cup {None}]
  /\ reading \in [Server -> Client \cup {None}]

\* A process that closes a number twice, or uses a number that is closed, never
\* meets another client's connection with it.
ClosesItsOwn == kind = "process" => ~astray

\* The connection of a client that has been accepted and left is closed in every
\* table, whichever server does it.
HeldOpen(c) == \/ \E t \in Server : c \in Range(table[t])
               \/ \E s \in Server : reading[s] = c
LeaverIsClosed == \A c \in Client : client[c] = "left" /\ HeldOpen(c) ~> ~HeldOpen(c)
=============================================================================
