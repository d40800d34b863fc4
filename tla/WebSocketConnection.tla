------------------------- MODULE WebSocketConnection -------------------------
(***************************************************************************)
(* webSocketServerBaseOnBeast: one Connection from the TCP accept to its    *)
(* end.  It is put into the map of ConnectionMgr before the upgrade, echoes *)
(* every message through its send queue, and is taken out of the map by the *)
(* first handler that sees an error.  One thread runs all handlers, so each *)
(* is a step, and connections meet only in the map, by their own uuid.      *)
(*                                                                          *)
(* SendCallBack gives async_write the characters of its parameter msg and   *)
(* returns, which frees them: what of a message was not written by then is  *)
(* read from freed memory, and what arrives may be anything.                *)
(***************************************************************************)
EXTENDS Naturals, Sequences, FiniteSets

CONSTANTS MaxMsgs,   \* bound: messages the client sends
          Garbage    \* what a write from freed memory may send

Msg == 1 .. MaxMsgs

VARIABLES
  life,          \* of the connection: waiting for TCP, upgrading, open or over
  registered,    \* it is in _map_conns
  reading,       \* its async_read: none, outstanding, or its handler queued
  writes,        \* its async_writes, outstanding or with their handler queued
  _send_queue,
  received,      \* the messages handled, in order
  echoed,        \* what the client gets back
  peer,          \* the client is there
  writeFailed    \* a write handler has seen an error

vars == <<life, registered, reading, writes, _send_queue, received, echoed,
          peer, writeFailed>>

\* con_ptr of startAccept, the map, and the lambdas of the outstanding
\* operations hold the connection.
Held == \/ life \in {"listening", "upgrading"} \/ registered
        \/ reading # "none" \/ writes # {}

\* The slip: an error is only logged.
RmNothing == UNCHANGED registered
RmConnection == registered' = FALSE

-----------------------------------------------------------------------------
(***************************************************************************)
(* startAccept and AsyncAccept.                                            *)
(***************************************************************************)
Quiet == UNCHANGED <<writes, _send_queue, received, echoed, peer, writeFailed>>

TcpAccepted ==
  /\ life = "listening"
  /\ \/ life' = "upgrading" /\ registered' = TRUE
     \/ life' = "over" /\ UNCHANGED registered
  /\ UNCHANGED reading /\ Quiet

\* async_accept of the websocket has succeeded: Start.
Upgraded ==
  /\ life = "upgrading" /\ peer
  /\ life' = "open"
  /\ reading' = "pending"
  /\ UNCHANGED registered /\ Quiet

UpgradeFailed ==
  /\ life = "upgrading"
  /\ life' = "over"
  /\ RmConnection
  /\ UNCHANGED reading /\ Quiet

-----------------------------------------------------------------------------
(***************************************************************************)
(* AsyncSend and SendCallBack.                                             *)
(***************************************************************************)
SendCallBack(m) == writes' = writes \cup {[msg |-> m, state |-> "pending"]}

\* Only a message that finds the queue empty is written at once.  The slip
\* writes every message at once.
WriteAtOnce == TRUE
WriteNow == _send_queue = <<>>

AsyncSend(m) ==
  /\ _send_queue' = Append(_send_queue, m)
  /\ IF WriteNow THEN SendCallBack(m) ELSE UNCHANGED writes

\* The message goes out whole: all of it at once, or what is left of it later
\* from freed memory.
WriteSucceeds(w) ==
  /\ w \in writes /\ w.state = "pending" /\ peer
  /\ \E text \in {w.msg, Garbage} : echoed' = Append(echoed, text)
  /\ writes' = (writes \ {w}) \cup {[w EXCEPT !.state = "ok"]}
  /\ UNCHANGED <<life, registered, reading, _send_queue, received, peer, writeFailed>>

WriteFails(w) ==
  /\ w \in writes /\ w.state = "pending" /\ ~peer
  /\ writes' = (writes \ {w}) \cup {[w EXCEPT !.state = "error"]}
  /\ UNCHANGED <<life, registered, reading, _send_queue, received, echoed, peer,
                 writeFailed>>

\* The message written leaves the queue.  The slip takes the newest one.
PopBack == SubSeq(_send_queue, 1, Len(_send_queue) - 1)
PopFront == Tail(_send_queue)

HandleWriteOk(w) ==
  /\ w \in writes /\ w.state = "ok"
  /\ _send_queue' = PopFront
  /\ LET rest == writes \ {w} IN
       writes' = IF _send_queue' = <<>> THEN rest
                 ELSE rest \cup {[msg |-> Head(_send_queue'), state |-> "pending"]}
  /\ UNCHANGED <<life, registered, reading, received, echoed, peer, writeFailed>>

\* The error path leaves the queue alone.
HandleWriteError(w) ==
  /\ w \in writes /\ w.state = "error"
  /\ RmConnection
  /\ writes' = writes \ {w}
  /\ writeFailed' = TRUE
  /\ UNCHANGED <<life, reading, _send_queue, received, echoed, peer>>

-----------------------------------------------------------------------------
(***************************************************************************)
(* Start.                                                                  *)
(***************************************************************************)
ReadCompletes ==
  /\ reading = "pending"
  /\ \/ peer /\ Len(received) < MaxMsgs /\ reading' = "ok"
     \/ ~peer /\ reading' = "error"
  /\ UNCHANGED <<life, registered, writes, _send_queue, received, echoed, peer,
                 writeFailed>>

HandleReadOk ==
  /\ reading = "ok"
  /\ LET m == Len(received) + 1 IN
       /\ received' = Append(received, m)
       /\ AsyncSend(m)
  /\ reading' = "pending"
  /\ UNCHANGED <<life, registered, echoed, peer, writeFailed>>

HandleReadError ==
  /\ reading = "error"
  /\ RmConnection
  /\ reading' = "none"
  /\ UNCHANGED <<life, writes, _send_queue, received, echoed, peer, writeFailed>>

PeerLeaves ==
  /\ life \in {"upgrading", "open"} /\ peer
  /\ peer' = FALSE
  /\ UNCHANGED <<life, registered, reading, writes, _send_queue, received, echoed,
                 writeFailed>>

-----------------------------------------------------------------------------
Init == /\ life = "listening" /\ registered = FALSE
        /\ reading = "none" /\ writes = {} /\ _send_queue = <<>>
        /\ received = <<>> /\ echoed = <<>> /\ peer = TRUE /\ writeFailed = FALSE

Accept == TcpAccepted \/ Upgraded \/ UpgradeFailed
Write == \E w \in writes : WriteSucceeds(w) \/ WriteFails(w)
Handlers == \/ HandleReadOk \/ HandleReadError
            \/ \E w \in writes : HandleWriteOk(w) \/ HandleWriteError(w)
Next == Accept \/ Write \/ Handlers \/ ReadCompletes \/ PeerLeaves

\* The thread runs the handlers that are queued, a write completes, and when the
\* client is gone the upgrade and the read fail; it need not send anything.
Fairness == /\ WF_vars(Write) /\ WF_vars(Handlers)
            /\ WF_vars(ReadCompletes /\ ~peer) /\ WF_vars(UpgradeFailed /\ ~peer)

Spec == Init /\ [][Next]_vars
FairSpec == Spec /\ Fairness

-----------------------------------------------------------------------------
TypeOK ==
  /\ life \in {"listening", "upgrading", "open", "over"}
  /\ registered \in BOOLEAN /\ peer \in BOOLEAN /\ writeFailed \in BOOLEAN
  /\ reading \in {"none", "pending", "ok", "error"}
  /\ writes \subseteq [msg : Msg, state : {"pending", "ok", "error"}]
  /\ _send_queue \in Seq(Msg) /\ received \in Seq(Msg)
  /\ echoed \in Seq(Msg \cup {Garbage})

\* At most one async_write is outstanding (two at once are a fatal error of the
\* stream), and none is missing: the queue is non-empty exactly while a write is
\* outstanding or one has failed.
OneWriter == /\ Cardinality(writes) <= 1
             /\ _send_queue # <<>> <=> (writes # {} \/ writeFailed)

\* A client that leaves is noticed and its connection released.
LeaverIsReleased == ~peer ~> ~Held

\* Every message is echoed, in its turn and once, unless the client leaves.
EveryEcho ==
  \A m \in Msg :
    Len(received) >= m
      ~> \/ ~peer
         \/ Len(echoed) >= m /\ echoed[m] \in {received[m], Garbage}
=============================================================================
