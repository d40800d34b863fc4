--------------------------- MODULE SimpleSessions ---------------------------
(***************************************************************************)
(* The servers v1, v2 and v3, which echo whatever piece of the stream a     *)
(* read brings and know no frames.  v1 holds a session by a raw pointer and *)
(* deletes it in the handler that meets an error; v2 introduces shared_ptr  *)
(* and the map, v3 the send queue and reading while a write is outstanding. *)
(* One thread runs all handlers, so a completion and its handler are one    *)
(* action.                                                                 *)
(***************************************************************************)
EXTENDS Naturals, Sequences

CONSTANTS Version,      \* the versions to run
          Session,      \* bound: the sessions the server may create
          NoSession,    \* no accept is outstanding
          Bytes,        \* bound: a client sends the bytes 1 .. Bytes
          max_length    \* size of _data

VARIABLES
  version,      \* the version that was built
  accepting,    \* the session whose accept is outstanding
  object,       \* each session: "unborn", "live" or "deleted"
  _sessions,    \* the map (v2, v3)
  conn,         \* each connection: "up" or "down"
  got,          \* how many bytes have been read
  _data,        \* the buffer of a session: the bytes last read, or wiped
  reads,        \* how many reads are outstanding
  writes,       \* the texts of the writes outstanding
  _send_queue,  \* the nodes (v3)
  pieces,       \* what the reads brought
  wire          \* what went out

vars == <<version, accepting, object, _sessions, conn, got, _data, reads, writes,
          _send_queue, pieces, wire>>

Hello == <<Bytes + 1>>       \* "hello client!"
Unknown == <<Bytes + 2>>     \* memory that is nobody's text
FromBuffer == <<Bytes + 3>>  \* a write whose text is to be taken from _data

\* What the operations of a session leave alone when they leave the server alone.
OtherParts == UNCHANGED <<version, accepting, conn>>
StartRead(s) == reads' = [reads EXCEPT ![s] = @ + 1]

-----------------------------------------------------------------------------
(***************************************************************************)
(* The socket.                                                             *)
(***************************************************************************)
\* A piece of what the client has sent is in _data.
Piece(s, k) == [i \in 1 .. k |-> got[s] + i]
Arrives(s, k) == /\ reads[s] > 0 /\ conn[s] = "up" /\ got[s] + k <= Bytes
                 /\ got' = [got EXCEPT ![s] = @ + k]
                 /\ pieces' = [pieces EXCEPT ![s] = Append(@, Piece(s, k))]
ReadFails(s) == /\ reads[s] > 0 /\ conn[s] = "down"
                /\ reads' = [reads EXCEPT ![s] = @ - 1]
                /\ UNCHANGED <<got, pieces, writes, wire, _data, _send_queue>>

\* The first write outstanding is over.  What it sends is in the buffer it was
\* given, whatever that is by now: v3 reads into _data at the same time.
InBuffer(s) == {_data[s]} \cup
  {Piece(s, k) : k \in {j \in 1 .. max_length : reads[s] > 0 /\ got[s] + j <= Bytes}}
TextsOf(s) == IF Head(writes[s]) = FromBuffer THEN InBuffer(s) ELSE {Head(writes[s])}
Leaves(s) == /\ writes[s] # <<>> /\ conn[s] = "up"
             /\ \E t \in TextsOf(s) : wire' = [wire EXCEPT ![s] = Append(@, t)]
WriteFails(s) == /\ writes[s] # <<>> /\ conn[s] = "down"
                 /\ writes' = [writes EXCEPT ![s] = Tail(@)]
                 /\ UNCHANGED <<got, pieces, wire, reads, _data, _send_queue>>

-----------------------------------------------------------------------------
(***************************************************************************)
(* v1: read, write what was read, read again; delete this on an error.      *)
(***************************************************************************)
deleteThis(s) == object' = [object EXCEPT ![s] = "deleted"] /\ UNCHANGED _sessions
KeepObject == UNCHANGED <<object, _sessions>>

ReadIsOver(s) == reads' = [reads EXCEPT ![s] = @ - 1]

v1_handle_read(s) ==
  /\ OtherParts
  /\ \/ \E k \in 1 .. max_length :
          /\ Arrives(s, k)
          /\ _data' = [_data EXCEPT ![s] = Piece(s, k)]
          /\ writes' = [writes EXCEPT ![s] = Append(@, FromBuffer)]
          /\ ReadIsOver(s) /\ KeepObject /\ UNCHANGED <<wire, _send_queue>>
     \/ ReadFails(s) /\ deleteThis(s)

v1_handle_write(s) ==
  /\ OtherParts
  /\ \/ /\ Leaves(s)
        /\ writes' = [writes EXCEPT ![s] = Tail(@)]
        /\ _data' = [_data EXCEPT ![s] = <<>>]
        /\ StartRead(s) /\ KeepObject /\ UNCHANGED <<got, pieces, _send_queue>>
     \/ WriteFails(s) /\ deleteThis(s)

(***************************************************************************)
(* v2: a constant answer; clearSession on an error.                         *)
(***************************************************************************)
clearSession(s) == _sessions' = _sessions \ {s} /\ UNCHANGED object

v2_handle_read(s) ==
  /\ OtherParts
  /\ \/ \E k \in 1 .. max_length :
          /\ Arrives(s, k)
          /\ _data' = [_data EXCEPT ![s] = Piece(s, k)]
          /\ writes' = [writes EXCEPT ![s] = Append(@, Hello)]
          /\ ReadIsOver(s) /\ KeepObject /\ UNCHANGED <<wire, _send_queue>>
     \/ ReadFails(s) /\ clearSession(s)

v2_handle_write(s) ==
  /\ OtherParts
  /\ \/ /\ Leaves(s)
        /\ writes' = [writes EXCEPT ![s] = Tail(@)]
        /\ _data' = [_data EXCEPT ![s] = <<>>]
        /\ StartRead(s) /\ KeepObject /\ UNCHANGED <<got, pieces, _send_queue>>
     \/ WriteFails(s) /\ clearSession(s)

(***************************************************************************)
(* v3: send queues a copy, but what it writes at once is _data itself,      *)
(* which is wiped and read into again; a queued node's length is never set. *)
(***************************************************************************)
\* A write may take its text before it returns, or leave that for later.
v3_send(s, text) ==
  /\ _send_queue' = [_send_queue EXCEPT ![s] = Append(@, text)]
  /\ IF _send_queue[s] = <<>>
     THEN \E t \in {text, FromBuffer} : writes' = [writes EXCEPT ![s] = Append(@, t)]
     ELSE UNCHANGED writes

v3_handle_Read(s) ==
  /\ OtherParts
  /\ \/ \E k \in 1 .. max_length :
          /\ Arrives(s, k)
          /\ v3_send(s, Piece(s, k))
          /\ _data' = [_data EXCEPT ![s] = <<>>]
          /\ UNCHANGED <<reads, wire>> /\ KeepObject
     \/ ReadFails(s) /\ clearSession(s)

v3_handle_Write(s) ==
  /\ OtherParts
  /\ \/ LET queue == Tail(_send_queue[s]) IN
        /\ Leaves(s)
        /\ _send_queue' = [_send_queue EXCEPT ![s] = queue]
        /\ \E t \in IF queue = <<>> THEN {<<>>} ELSE {<<Head(queue)>>, <<Unknown>>} :
             writes' = [writes EXCEPT ![s] = Tail(@) \o t]
        /\ KeepObject /\ UNCHANGED <<got, pieces, reads, _data>>
     \/ WriteFails(s) /\ clearSession(s)

-----------------------------------------------------------------------------
(***************************************************************************)
(* The server.  An accept that fails ends v1's listening and nobody else's. *)
(***************************************************************************)
Unborn == {s \in Session : object[s] = "unborn"}
start_accept(born) ==
  \/ Unborn = {} /\ accepting' = NoSession /\ object' = born
  \/ \E s \in Unborn : /\ accepting' = s
                       /\ object' = [born EXCEPT ![s] = "live"]

Accepted(s) == StartRead(s) /\ conn' = [conn EXCEPT ![s] = "up"]
NotAccepted(s) == UNCHANGED <<reads, conn>>
ServerOnly == UNCHANGED <<version, got, _data, writes, _send_queue, pieces, wire>>

v1_handle_accept(s) ==
  /\ s = accepting /\ ServerOnly /\ UNCHANGED _sessions
  /\ \/ Accepted(s) /\ start_accept(object)
     \/ NotAccepted(s) /\ accepting' = NoSession /\ deleteThis(s)

StartAndInsert(s) ==
  /\ s = accepting /\ ServerOnly
  /\ start_accept(object)
  /\ \/ Accepted(s) /\ _sessions' = _sessions \cup {s}
     \/ NotAccepted(s) /\ UNCHANGED _sessions
v2_handle_accept(s) == StartAndInsert(s)
v3_handle_Accept(s) == StartAndInsert(s)

Step(s) ==
  CASE version = "v1" -> v1_handle_accept(s) \/ v1_handle_read(s) \/ v1_handle_write(s)
    [] version = "v2" -> v2_handle_accept(s) \/ v2_handle_read(s) \/ v2_handle_write(s)
    [] version = "v3" -> v3_handle_Accept(s) \/ v3_handle_Read(s) \/ v3_handle_Write(s)

ConnectionFails(s) ==
  /\ conn[s] = "up"
  /\ conn' = [conn EXCEPT ![s] = "down"]
  /\ UNCHANGED <<version, accepting, object, _sessions, got, _data, reads, writes,
                 _send_queue, pieces, wire>>

Init == /\ version \in Version /\ accepting \in Session
        /\ object = [s \in Session |-> IF s = accepting THEN "live" ELSE "unborn"]
        /\ _sessions = {} /\ conn = [s \in Session |-> "none"]
        /\ got = [s \in Session |-> 0] /\ reads = [s \in Session |-> 0]
        /\ _data = [s \in Session |-> <<>>] /\ writes = [s \in Session |-> <<>>]
        /\ _send_queue = [s \in Session |-> <<>>]
        /\ pieces = [s \in Session |-> <<>>] /\ wire = [s \in Session |-> <<>>]

Next == \E s \in Session : Step(s) \/ ConnectionFails(s)

\* The io_context runs the handlers of the reads and writes that are over; no
\* client has to connect.
Fairness == \A s \in Session : WF_vars(s # accepting /\ Step(s))
Spec == Init /\ [][Next]_vars
FairSpec == Spec /\ Fairness

-----------------------------------------------------------------------------
Text == Seq(0 .. Bytes + 3)

TypeOK ==
  /\ version \in Version /\ accepting \in Session \cup {NoSession}
  /\ object \in [Session -> {"unborn", "live", "deleted"}]
  /\ _sessions \subseteq Session /\ conn \in [Session -> {"none", "up", "down"}]
  /\ got \in [Session -> 0 .. Bytes] /\ reads \in [Session -> Nat]
  /\ \A s \in Session : /\ _data[s] \in Text /\ Len(_data[s]) <= max_length
                        /\ \A q \in {writes[s], _send_queue[s], pieces[s], wire[s]} :
                             q \in Seq(Text)

\* Who keeps a session alive: in v1 nobody but delete this; in v2 and v3 the map,
\* the handlers of its operations and the accept.
Alive(s) == IF version = "v1" THEN object[s] = "live"
            ELSE s \in _sessions \/ s = accepting \/ reads[s] > 0 \/ writes[s] # <<>>

\* A deleted session has no operation outstanding that would come back to it,
\* since v1 and v2 never have two at a time and v3 one of each kind.
\* The comment at session_version2.h:2-4 says of v1 that other handlers are still
\* queued when one deletes the session, so that it is deleted several times; the
\* one at session.cpp:40-42 says that this does not happen because each operation
\* is started once, by the handler of the other.  The code does the latter.
NoUseAfterFree ==
  \A s \in Session :
    /\ reads[s] + Len(writes[s]) > 0 => Alive(s)
    /\ reads[s] <= 1 /\ Len(writes[s]) <= 1
    /\ version \in {"v1", "v2"} => reads[s] + Len(writes[s]) <= 1

\* While the connection is up every piece read has been answered once, or its
\* answer is on its way: in v1 with the piece, in v2 with the greeting; in v3,
\* whose writes may find their text wiped, it is the number that is right.
OneAnswerEach ==
  \A s \in Session : conn[s] = "up" =>
    LET answers == wire[s] \o
          (IF version = "v3" THEN _send_queue[s]
           ELSE [i \in DOMAIN writes[s] |-> IF version = "v1" THEN _data[s] ELSE Hello])
    IN /\ Len(answers) = Len(pieces[s])
       /\ version = "v1" => answers = pieces[s]
       /\ version = "v2" => \A i \in DOMAIN answers : answers[i] = Hello

\* A session whose connection failed is deleted: in v1 by the handler that meets
\* the error; in v2 and v3 because the map, the handlers and the accept all let go
\* of it.  The comment at session_version2.cpp:17 says that a read and a write
\* outstanding together keep the reference count from ever reaching 0: v3 has
\* both, and both their handlers end.
FailedIsDeleted == \A s \in Session : (conn[s] = "down") ~> ~Alive(s)
=============================================================================
