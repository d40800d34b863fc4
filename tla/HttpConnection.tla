--------------------------- MODULE HttpConnection ---------------------------
(***************************************************************************)
(* HttpServerBaseOnBeast/server.cpp: connections that answer one request    *)
(* and are closed by a deadline timer at the latest.  One thread runs the   *)
(* io_context, so a handler is one step; but an operation's completion and  *)
(* its handler are two, and the handlers of the request and of the deadline *)
(* can be queued at the same time in either order.                          *)
(*                                                                          *)
(* The request is kept only as far as it decides what happens: whether it   *)
(* could be read.  Every method and target leads to one write_Response.     *)
(***************************************************************************)
CONSTANT Conn   \* bound: connections ever accepted

VARIABLES
  accepting,   \* connections http_Server has not accepted yet
  op,          \* the read or write of a connection: outstanding, or completed
               \* and its handler queued
  deadline,    \* its timer: running, or expired or cancelled and its handler
               \* queued
  socket,      \* its side of the connection
  peer,        \* the client is there
  answer,      \* whether a request was read, and its response written
  expired      \* the connections whose sixty seconds have passed

vars == <<accepting, op, deadline, socket, peer, answer, expired>>

\* The lambdas of the outstanding operations are all that holds a connection.
Held(c) == op[c] # "none" \/ deadline[c] # "none"

Queued == {"readOk", "readFailed", "writeOk", "writeFailed"}

-----------------------------------------------------------------------------
\* async_accept's handler: make_shared and start, then the next async_accept.
http_Server(c) ==
  /\ c \in accepting
  /\ accepting' = accepting \ {c}
  /\ op' = [op EXCEPT ![c] = "reading"]
  /\ deadline' = [deadline EXCEPT ![c] = "running"]
  /\ socket' = [socket EXCEPT ![c] = "open"]
  /\ peer' = [peer EXCEPT ![c] = TRUE]
  /\ UNCHANGED <<answer, expired>>

\* async_read has a whole request, or fails: the client sent something else or
\* is gone, or the socket was closed here.
ReadCompletes(c) ==
  /\ op[c] = "reading"
  /\ \/ /\ socket[c] = "open" /\ peer[c]
        /\ op' = [op EXCEPT ![c] = "readOk"]
        /\ answer' = [answer EXCEPT ![c] = "asked"]
     \/ /\ op' = [op EXCEPT ![c] = "readFailed"]
        /\ UNCHANGED answer
  /\ UNCHANGED <<accepting, deadline, socket, peer, expired>>

\* _deadline.cancel(): a running timer's handler is queued with an error, any
\* other is left alone.
cancel(c) == IF deadline[c] = "running" THEN [deadline EXCEPT ![c] = "cancelled"]
             ELSE deadline

\* read_Request's handler: process_Request ends in write_Response.  After an
\* error it does nothing.  The slip stops the timer already here.
AnswerUntimed(c) ==
  /\ op[c] = "readOk"
  /\ op' = [op EXCEPT ![c] = "writing"]
  /\ deadline' = cancel(c)
  /\ UNCHANGED <<accepting, socket, peer, answer, expired>>
process_Request(c) ==
  /\ op[c] = "readOk"
  /\ op' = [op EXCEPT ![c] = "writing"]
  /\ UNCHANGED <<accepting, deadline, socket, peer, answer, expired>>

ReadFailed(c) ==
  /\ op[c] = "readFailed"
  /\ op' = [op EXCEPT ![c] = "none"]
  /\ UNCHANGED <<accepting, deadline, socket, peer, answer, expired>>

\* async_write takes the whole response, or fails.
WriteCompletes(c) ==
  /\ op[c] = "writing"
  /\ \/ /\ socket[c] = "open"
        /\ op' = [op EXCEPT ![c] = "writeOk"]
        /\ answer' = [answer EXCEPT ![c] = "sent"]
     \/ /\ socket[c] = "closed" \/ ~peer[c]
        /\ op' = [op EXCEPT ![c] = "writeFailed"]
        /\ UNCHANGED answer
  /\ UNCHANGED <<accepting, deadline, socket, peer, expired>>

\* write_Response's handler, with or without an error: shutdown_send, and the
\* timer is stopped.
HandleWrite(c) ==
  /\ op[c] \in {"writeOk", "writeFailed"}
  /\ op' = [op EXCEPT ![c] = "none"]
  /\ socket' = [socket EXCEPT ![c] = IF @ = "open" THEN "shutdown" ELSE @]
  /\ deadline' = cancel(c)
  /\ UNCHANGED <<accepting, peer, answer, expired>>

\* Sixty seconds after start.
TimerExpires(c) ==
  /\ deadline[c] = "running"
  /\ deadline' = [deadline EXCEPT ![c] = "expired"]
  /\ expired' = expired \cup {c}
  /\ UNCHANGED <<accepting, op, socket, peer, answer>>

\* check_deadline's handler closes the socket, whatever its error code.  The
\* slip leaves the socket open.
CloseNothing(c) ==
  /\ deadline[c] \in {"expired", "cancelled"}
  /\ deadline' = [deadline EXCEPT ![c] = "none"]
  /\ UNCHANGED <<accepting, op, socket, peer, answer, expired>>
check_deadline(c) ==
  /\ deadline[c] \in {"expired", "cancelled"}
  /\ socket' = [socket EXCEPT ![c] = "closed"]
  /\ deadline' = [deadline EXCEPT ![c] = "none"]
  /\ UNCHANGED <<accepting, op, peer, answer, expired>>

PeerLeaves(c) ==
  /\ peer[c]
  /\ peer' = [peer EXCEPT ![c] = FALSE]
  /\ UNCHANGED <<accepting, op, deadline, socket, answer, expired>>

-----------------------------------------------------------------------------
Init == /\ accepting = Conn
        /\ op = [c \in Conn |-> "none"] /\ deadline = [c \in Conn |-> "none"]
        /\ socket = [c \in Conn |-> "closed"] /\ peer = [c \in Conn |-> FALSE]
        /\ answer = [c \in Conn |-> "none"] /\ expired = {}

Handler(c) == \/ process_Request(c) \/ ReadFailed(c) \/ HandleWrite(c)
              \/ check_deadline(c)
ClosedHere(c) == /\ socket[c] = "closed"
                 /\ ReadCompletes(c) \/ WriteCompletes(c)

Next == \E c \in Conn : \/ http_Server(c) \/ Handler(c)
                        \/ ReadCompletes(c) \/ WriteCompletes(c)
                        \/ TimerExpires(c) \/ PeerLeaves(c)

\* The thread runs what is queued, time passes, and operations on a closed
\* socket complete; clients need not send or read anything.
Fairness == \A c \in Conn : /\ WF_vars(Handler(c)) /\ WF_vars(TimerExpires(c))
                            /\ WF_vars(ClosedHere(c))

Spec == Init /\ [][Next]_vars
FairSpec == Spec /\ Fairness

-----------------------------------------------------------------------------
TypeOK ==
  /\ accepting \subseteq Conn /\ expired \subseteq Conn
  /\ op \in [Conn -> {"none", "reading", "writing"} \cup Queued]
  /\ deadline \in [Conn -> {"none", "running", "expired", "cancelled"}]
  /\ socket \in [Conn -> {"open", "shutdown", "closed"}]
  /\ peer \in [Conn -> BOOLEAN] /\ answer \in [Conn -> {"none", "asked", "sent"}]

\* Stopping the timer runs its handler, which closes the socket: that never
\* cuts off a response.  A request that was read is answered unless the client
\* leaves or its time is over.
NoAnswerLost ==
  \A c \in Conn : answer[c] = "asked" /\ ~Held(c) => ~peer[c] \/ c \in expired

\* Every connection is released, also when its client sends nothing, sends
\* half a request, or never reads the response.
EventuallyReleased == \A c \in Conn : (c \notin accepting) ~> ~Held(c)
=============================================================================
