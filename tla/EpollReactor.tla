---------------------------- MODULE EpollReactor ----------------------------
(***************************************************************************)
(* CSTest/ServerBaseOnEpoll/epoll_reactor/epoll_loop.c: one thread, a table *)
(* g_events of MAX_EVENTS connections and one entry for the listening       *)
(* socket, callbacks stored in the entries, and a scan that closes idle     *)
(* connections a few entries at a time.                                     *)
(*                                                                          *)
(* A turn of main's loop is Scan, EpollWait and one Dispatch per reported   *)
(* event.  Clients act between any two of them.  Descriptors are numbers    *)
(* the kernel uses again, so an entry or a reported event that outlives its *)
(* connection would meet another one.  Of the data the model keeps whether  *)
(* there is any.                                                            *)
(***************************************************************************)
EXTENDS Naturals, FiniteSets

CONSTANTS MAX_EVENTS,  \* connections in the table
          ScanStep,    \* entries the loop checks per turn, 100 in the code
          FdLimit,     \* descriptors a process may have
          MaxBacklog   \* bound: clients waiting to be accepted

Slot == 0 .. MAX_EVENTS - 1
Listen == MAX_EVENTS
Fd == 1 .. FdLimit
ListenFd == 0

ASSUME ReactorAssumption ==
  /\ MAX_EVENTS \in Nat \ {0} /\ ScanStep \in Nat \ {0}
  /\ FdLimit \in Nat /\ MaxBacklog \in Nat

VARIABLES
  g_events,   \* the table
  epoll,      \* the kernel's interest list: descriptor, pointer, events
  sock,       \* each descriptor's connection: whether the client is there and
              \* whether it has sent something not yet received
  backlog,    \* clients waiting to be accepted
  refused,    \* descriptors accepted when the table was full
  pc,         \* where main's loop is
  batch,      \* the reported events not dispatched yet
  checkpos

kernel == <<sock, backlog>>
vars == <<g_events, epoll, kernel, refused, pc, batch, checkpos>>

Closed == [peer |-> "none", data |-> FALSE]
Connected(fd) == sock[fd].peer # "none"

-----------------------------------------------------------------------------
(***************************************************************************)
(* eventset, eventadd, eventdel.                                           *)
(***************************************************************************)
eventset(fd, call_back) ==
  [fd |-> fd, call_back |-> call_back, events |-> "none", status |-> 0,
   len |-> 0, old |-> FALSE]

\* Entry i becomes ev, listening for kind, in table and interest list.  With
\* status 1 the code's op is uninitialised: epoll_ctl fails or does anything.
eventadd(list, i, kind, ev) ==
  /\ g_events' = [g_events EXCEPT ![i] =
       [fd |-> ev.fd, call_back |-> ev.call_back, events |-> kind, status |-> 1,
        len |-> ev.len, old |-> ev.old]]
  /\ epoll' = IF ev.status = 0
              THEN list \cup {[fd |-> ev.fd, ptr |-> i, events |-> kind]}
              ELSE list

\* The interest list without descriptor fd.  The slip: the entry is marked free
\* and the kernel not told.
MarkOnly(fd) == epoll
eventdel(fd) == {r \in epoll : r.fd # fd}

\* close(fd): the connection ends and the kernel drops it from the list.  The
\* slip forgets to close.
DropOnly(i) ==
  /\ g_events' = [g_events EXCEPT ![i].status = 0]
  /\ epoll' = eventdel(g_events[i].fd)
  /\ UNCHANGED sock
DropAndClose(i) ==
  /\ g_events' = [g_events EXCEPT ![i].status = 0]
  /\ epoll' = eventdel(g_events[i].fd)
  /\ sock' = [sock EXCEPT ![g_events[i].fd] = Closed]

-----------------------------------------------------------------------------
(***************************************************************************)
(* The callbacks.                                                          *)
(***************************************************************************)
\* The slip takes any entry.
AnySlots == Slot
FreeSlots == {i \in Slot : g_events[i].status = 0}
FreeFds == {fd \in Fd : ~Connected(fd)}
Lowest(S) == CHOOSE x \in S : \A y \in S : x <= y

\* accept gives the lowest free descriptor, or fails when there is none.  When
\* the table is full the descriptor is left as it is.
acceptconn ==
  IF FreeFds = {} \/ backlog = 0 THEN UNCHANGED <<g_events, epoll, kernel, refused>>
  ELSE LET cfd == Lowest(FreeFds) IN
    /\ backlog' = backlog - 1
    /\ sock' = [sock EXCEPT ![cfd] = [peer |-> "up", data |-> FALSE]]
    /\ IF FreeSlots = {}
       THEN /\ refused' = refused \cup {cfd}
            /\ UNCHANGED <<g_events, epoll>>
       ELSE LET i == Lowest(FreeSlots) IN
              /\ eventadd(epoll, i, "IN", eventset(cfd, "recvdata"))
              /\ UNCHANGED refused

\* recv, then eventdel; with data the entry waits to write it back - after
\* eventset has wiped the buffer and its length.
recvdata(i) ==
  LET ev == g_events[i] IN
  /\ IF sock[ev.fd].data
     THEN /\ sock' = [sock EXCEPT ![ev.fd].data = FALSE]
          /\ eventadd(eventdel(ev.fd), i, "OUT", eventset(ev.fd, "senddata"))
     ELSE DropAndClose(i)
  /\ UNCHANGED <<backlog, refused>>

\* send returns the number of bytes it took, none of an empty buffer.
senddata(i) ==
  LET ev == g_events[i] IN
  /\ IF ev.len > 0 /\ sock[ev.fd].peer # "reset"
     THEN /\ eventadd(eventdel(ev.fd), i, "IN", eventset(ev.fd, "recvdata"))
          /\ UNCHANGED sock
     ELSE DropAndClose(i)
  /\ UNCHANGED <<backlog, refused>>

-----------------------------------------------------------------------------
(***************************************************************************)
(* main's loop.                                                            *)
(***************************************************************************)
\* The entries checked in this turn, and where the next turn goes on.  The slips
\* start at the front again, and go past the end.
FromFront == 0
PastTheEnd == checkpos + ScanStep
NextPos == (checkpos + ScanStep) % MAX_EVENTS
Checked == {(checkpos + k) % MAX_EVENTS : k \in 0 .. ScanStep - 1}
TimedOut == {i \in Checked : g_events[i].status = 1 /\ g_events[i].old}

Scan ==
  /\ pc = "Scan"
  /\ LET fds == {g_events[i].fd : i \in TimedOut} IN
       /\ g_events' = [i \in DOMAIN g_events |->
                         IF i \in TimedOut THEN [g_events[i] EXCEPT !.status = 0]
                         ELSE g_events[i]]
       /\ epoll' = {r \in epoll : r.fd \notin fds}
       /\ sock' = [fd \in Fd |-> IF fd \in fds THEN Closed ELSE sock[fd]]
  /\ checkpos' = NextPos
  /\ pc' = "Wait"
  /\ UNCHANGED <<backlog, refused, batch>>

\* A listening socket is ready with a client waiting, a connection to read with
\* data or its end, a connection to write always: the kernel's buffer is empty.
Ready(r) == \/ r.fd = ListenFd /\ backlog > 0
            \/ r.fd # ListenFd /\ r.events = "IN" /\ (sock[r.fd].data \/ sock[r.fd].peer # "up")
            \/ r.events = "OUT"

\* The slip asks for one event at a time, which may always be another one.
WaitForOne ==
  /\ pc = "Wait"
  /\ IF \E r \in epoll : Ready(r)
     THEN \E r \in epoll : Ready(r) /\ batch' = {r}
     ELSE batch' = {}
  /\ pc' = "Dispatch"
  /\ UNCHANGED <<g_events, epoll, kernel, refused, checkpos>>
EpollWait ==
  /\ pc = "Wait"
  /\ batch' = {r \in epoll : Ready(r)}
  /\ pc' = "Dispatch"
  /\ UNCHANGED <<g_events, epoll, kernel, refused, checkpos>>

\* The next event, in the order of the kernel: any.
Dispatch ==
  /\ pc = "Dispatch"
  /\ \E r \in batch :
       /\ batch' = batch \ {r}
       /\ LET ev == g_events[r.ptr] IN
          IF ev.events # r.events THEN UNCHANGED <<g_events, epoll, kernel, refused>>
          ELSE \/ ev.call_back = "acceptconn" /\ acceptconn
               \/ ev.call_back = "recvdata" /\ recvdata(r.ptr)
               \/ ev.call_back = "senddata" /\ senddata(r.ptr)
  /\ UNCHANGED <<pc, checkpos>>

EndOfBatch ==
  /\ pc = "Dispatch" /\ batch = {}
  /\ pc' = "Scan"
  /\ UNCHANGED <<g_events, epoll, kernel, refused, batch, checkpos>>

Loop == Scan \/ EpollWait \/ Dispatch \/ EndOfBatch

-----------------------------------------------------------------------------
(***************************************************************************)
(* Clients and time.                                                       *)
(***************************************************************************)
ClientOnly == UNCHANGED <<epoll, refused, pc, batch, checkpos>>

ClientConnects ==
  /\ backlog < MaxBacklog
  /\ backlog' = backlog + 1
  /\ UNCHANGED <<g_events, sock>> /\ ClientOnly

ClientSends(fd) ==
  /\ sock[fd].peer = "up" /\ ~sock[fd].data
  /\ sock' = [sock EXCEPT ![fd].data = TRUE]
  /\ UNCHANGED <<g_events, backlog>> /\ ClientOnly

\* The client closes, or the connection is reset and what it sent is lost.
ClientLeaves(fd) ==
  /\ sock[fd].peer = "up"
  /\ \/ sock' = [sock EXCEPT ![fd].peer = "closed"]
     \/ sock' = [sock EXCEPT ![fd] = [peer |-> "reset", data |-> FALSE]]
  /\ UNCHANGED <<g_events, backlog>> /\ ClientOnly

\* An entry has been waiting for sixty seconds.
GrowOld(i) ==
  /\ g_events[i].status = 1 /\ ~g_events[i].old
  /\ g_events' = [g_events EXCEPT ![i].old = TRUE]
  /\ UNCHANGED kernel /\ ClientOnly

Environment == \/ ClientConnects
               \/ \E fd \in Fd : ClientSends(fd) \/ ClientLeaves(fd)
               \/ \E i \in Slot : GrowOld(i)

-----------------------------------------------------------------------------
Unused == [fd |-> ListenFd, call_back |-> "none", events |-> "none",
           status |-> 0, len |-> 0, old |-> FALSE]

\* initlistensocket has registered the listening socket.
Init ==
  /\ g_events = [i \in Slot \cup {Listen} |->
       IF i = Listen THEN [fd |-> ListenFd, call_back |-> "acceptconn", events |-> "IN",
                           status |-> 1, len |-> 0, old |-> FALSE]
       ELSE Unused]
  /\ epoll = {[fd |-> ListenFd, ptr |-> Listen, events |-> "IN"]}
  /\ sock = [fd \in Fd |-> Closed] /\ backlog = 0 /\ refused = {}
  /\ pc = "Scan" /\ batch = {} /\ checkpos = 0

Next == Loop \/ Environment
Spec == Init /\ [][Next]_vars

\* The loop never stops: epoll_wait returns after a second at the latest.
FairSpec == Spec /\ WF_vars(Loop)

-----------------------------------------------------------------------------
(***************************************************************************)
(* Properties.                                                             *)
(***************************************************************************)
Interest == [fd : Fd \cup {ListenFd}, ptr : Slot \cup {Listen}, events : {"IN", "OUT"}]

TypeOK ==
  /\ g_events \in [Slot \cup {Listen} ->
       [fd : Fd \cup {ListenFd}, call_back : {"none", "acceptconn", "recvdata", "senddata"},
        events : {"none", "IN", "OUT"}, status : {0, 1}, len : {0, 1}, old : BOOLEAN]]
  /\ epoll \subseteq Interest /\ batch \subseteq Interest
  /\ sock \in [Fd -> [peer : {"none", "up", "closed", "reset"}, data : BOOLEAN]]
  /\ backlog \in 0 .. MaxBacklog /\ refused \subseteq Fd
  /\ pc \in {"Scan", "Wait", "Dispatch"} /\ checkpos \in Slot

\* The table and the kernel agree: the entries with status 1 are exactly the
\* interest list, each with its own open descriptor, the callback that fits
\* what it waits for, and the pointer the kernel will give back.
TableIsInterestList ==
  /\ epoll = {[fd |-> g_events[i].fd, ptr |-> i, events |-> g_events[i].events] :
                i \in {j \in DOMAIN g_events : g_events[j].status = 1}}
  /\ \A i \in Slot : g_events[i].status = 1 =>
       /\ Connected(g_events[i].fd)
       /\ g_events[i].call_back = IF g_events[i].events = "IN" THEN "recvdata"
                                  ELSE "senddata"
       /\ \A j \in Slot \ {i} : g_events[j].status = 1 => g_events[j].fd # g_events[i].fd

\* A reported event is dispatched to the connection it was reported for: no
\* callback before it in the batch closes that connection, gives its entry away
\* or changes what it waits for.
NoStaleEvent ==
  \A r \in batch : LET ev == g_events[r.ptr] IN
    ev.status = 1 /\ ev.fd = r.fd /\ ev.events = r.events

\* Every open connection is in the table, where it will be read, written or
\* timed out; the only ones that are not are those accepted at the limit.
OpenIsWatched ==
  \A fd \in Fd : Connected(fd) /\ fd \notin refused =>
    \E i \in Slot : g_events[i].status = 1 /\ g_events[i].fd = fd

\* What the reactor believes of its descriptors is what the kernel knows.
TableFollowsKernel == TableIsInterestList /\ NoStaleEvent /\ OpenIsWatched

\* However few entries a turn checks, a connection that has been idle for sixty
\* seconds is closed or has been served.
IdleIsClosed ==
  \A i \in Slot : (g_events[i].status = 1 /\ g_events[i].old)
                    ~> (g_events[i].status = 0 \/ ~g_events[i].old)

\* Whatever a client sends is received, or its connection is closed.
DataIsReceived ==
  \A fd \in Fd : (sock[fd].data /\ fd \notin refused) ~> ~sock[fd].data

\* The comment in main: the server closes a connection whose client is there
\* when the client has not communicated for sixty seconds; senddata's says it
\* writes the data straight back.  A client that is there and not idle is not
\* closed.
ClosesOnlyIdle ==
  [][\A fd \in Fd : sock[fd].peer = "up" /\ sock'[fd].peer = "none" =>
       \E i \in Slot : g_events[i].fd = fd /\ g_events[i].old]_vars
=============================================================================
