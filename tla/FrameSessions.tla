--------------------------- MODULE FrameSessions ---------------------------
(***************************************************************************)
(* The sessions of the server versions v4 to v10: one connection from the   *)
(* bytes its client sends to the answers it gets, in the version that was   *)
(* built.  FrameReader and SendQueue take the last version's two halves     *)
(* apart step by step; here each version's own handlers are put together.   *)
(*                                                                          *)
(* One thread runs all handlers of a session, so a completion and its       *)
(* handler are one action; v9 and v10 answer from the thread of the logic   *)
(* system, and v10 accepts on a thread other than the session's.            *)
(***************************************************************************)
EXTENDS Naturals, Sequences, FiniteSets, SequencesExt

CONSTANTS Version,         \* the versions to run
          Streams,         \* what a client may send: sequences of [id, body]
          MAX_LENGTH,      \* size of _data and greatest legal id and length
          MAX_SEND_QUEUE,
          HelloWorld       \* MSG_HELLO_WORLD

VARIABLES
  version,      \* the version that was built
  frames,       \* what the client sends ...
  input,        \* ... and the bytes of it the server has not read
  conn,         \* "up" or "down"
  stage,        \* where handle_Accept is: "listening", "started" or "served"
  registered,   \* the session is in the map _sessions
  reading,      \* the read outstanding: "none", "some", "head" or "body"
  node,         \* _recv_Head_Node, _recv_Msg_Node and _b_head_parse
  _msg_queue,   \* the logic system's queue (v9, v10)
  out,          \* the send queue, the writes outstanding, the sends refused
  wire          \* the nodes written

vars == <<version, frames, input, conn, stage, registered, reading, node,
          _msg_queue, out, wire>>

-----------------------------------------------------------------------------
(***************************************************************************)
(* Headers.  A short is two bytes, least significant first on this machine  *)
(* and last in network order.                                              *)
(***************************************************************************)
Host(n) == <<n % 256, n \div 256>>
Net(n) == <<n \div 256, n % 256>>
FromHost(b) == b[1] + 256 * b[2]
FromNet(b) == 256 * b[1] + b[2]

WithIds == {"v8", "v9", "v10"}
HEAD_LENGTH == IF version \in WithIds THEN 4 ELSE 2

\* A header as handle_Read decodes it.
Decode(h) ==
  CASE version \in {"v4", "v7"} -> [id |-> 0, len |-> FromHost(h)]
    [] version \in {"v5", "v6"} -> [id |-> 0, len |-> FromNet(h)]
    [] OTHER -> [id |-> FromNet(h), len |-> FromNet(SubSeq(h, 3, 4))]

Invalid(h) == h.id > MAX_LENGTH \/ h.len > MAX_LENGTH

\* A text is a body as it came, or a JSON document one of whose members, which
\* prefix names, has got "server has received msg" before it.  The document is
\* Prefix bytes longer than the body.
Prefix == 1
TextLen(t) == Len(t.body) + IF t.prefix = "none" THEN 0 ELSE Prefix
Echo(f) == [prefix |-> "none", body |-> f.body]
Received(f) == [prefix |-> "data", body |-> f.body]
ReceivedAsId(f) == [prefix |-> "id", body |-> f.body]

\* The constructors of the nodes that are sent: a header and the text.
v4_Msg_Node(t) == [head |-> Host(TextLen(t)), text |-> t]
v5_Msg_Node(t) == [head |-> Net(TextLen(t)), text |-> t]
v6_Msg_Node(t) == [head |-> Net(TextLen(t)), text |-> t]
v7_Msg_Node(t) == [head |-> Host(TextLen(t)), text |-> t]
v8_Send_Node(t, id) == [head |-> Net(id) \o Net(TextLen(t)), text |-> t]
v9_Send_Node(t, id) == [head |-> Net(id) \o Net(TextLen(t)), text |-> t]
v10_Send_Node(t, id) == [head |-> Net(id) \o Net(TextLen(t)), text |-> t]

-----------------------------------------------------------------------------
(***************************************************************************)
(* send: queue a node, and write it if the queue was empty.                *)
(***************************************************************************)
\* The slip writes at once in any case.
WriteAtOnce(o, n) == [o EXCEPT !.queue = Append(@, n), !.writes = Append(@, n)]
Push(o, n) == [o EXCEPT !.queue = Append(@, n),
                        !.writes = IF o.queue = <<>> THEN <<n>> ELSE @]
PushUnlessFull(o, n) == IF Len(o.queue) > MAX_SEND_QUEUE
                        THEN [o EXCEPT !.refused = @ + 1] ELSE Push(o, n)

v4_send(o, t) == Push(o, v4_Msg_Node(t))
v5_send(o, t) == PushUnlessFull(o, v5_Msg_Node(t))
v6_send(o, t) == PushUnlessFull(o, v6_Msg_Node(t))
v7_send(o, t) == Push(o, v7_Msg_Node(t))
v8_send(o, t, id) == PushUnlessFull(o, v8_Send_Node(t, id))
v9_send(o, t, id) == PushUnlessFull(o, v9_Send_Node(t, id))
v10_send(o, t, id) == PushUnlessFull(o, v10_Send_Node(t, id))

-----------------------------------------------------------------------------
(***************************************************************************)
(* handle_Read: the loop over the bytes of one piece.  done collects the    *)
(* frames completed, each with the branch that completed it.                *)
(***************************************************************************)
EmptyNode == [head |-> <<>>, id |-> 0, len |-> 0, body |-> <<>>, parsed |-> FALSE]
From(s, i) == SubSeq(s, i + 1, Len(s))
FrameOf(id, body, branch) == [id |-> id, body |-> body, branch |-> branch]

\* A round of the loop takes c to the next c: the node, the bytes left of the
\* piece, the frames completed, and whether no header was illegal.  Here the rest
\* of a header has come.
HeadRound(c) ==
  LET remain == HEAD_LENGTH - Len(c.node.head)
      h == Decode(c.node.head \o SubSeq(c.in, 1, remain))
      rest == From(c.in, remain)
  IN IF Invalid(h) THEN [c EXCEPT !.ok = FALSE]
     ELSE IF Len(rest) < h.len
     THEN [c EXCEPT !.in = <<>>, !.node.id = h.id, !.node.len = h.len,
                    !.node.body = rest, !.node.parsed = TRUE]
     ELSE [c EXCEPT !.in = From(rest, h.len), !.node = EmptyNode,
                    !.done = Append(@, FrameOf(h.id, SubSeq(rest, 1, h.len), "head"))]

\* The header came with an earlier piece.  The slip takes the rest of the piece
\* for the body.
WholePiece(n, in) == Len(in)
BodyRemain(n, in) == n.len - Len(n.body)
BodyRound(c) ==
  IF Len(c.in) < c.node.len - Len(c.node.body)
  THEN [c EXCEPT !.in = <<>>, !.node.body = @ \o c.in]
  ELSE LET remain == BodyRemain(c.node, c.in) IN
       [c EXCEPT !.in = From(c.in, remain), !.node = EmptyNode,
                 !.done = Append(@, FrameOf(c.node.id,
                            c.node.body \o SubSeq(c.in, 1, remain), "body"))]

Round(c) ==
  IF c.in = <<>> \/ ~c.ok THEN c
  ELSE IF c.node.parsed THEN BodyRound(c)
  ELSE IF Len(c.in) + Len(c.node.head) < HEAD_LENGTH
  THEN [c EXCEPT !.in = <<>>, !.node.head = @ \o c.in]
  ELSE HeadRound(c)

\* Every round takes a byte, so Len(in) rounds are enough.
Rounds(n, in) ==
  LET after[k \in 0 .. Len(in)] ==
        IF k = 0 THEN [node |-> n, in |-> in, done |-> <<>>, ok |-> TRUE]
        ELSE Round(after[k - 1])
  IN after[Len(in)]

\* clearSession, after which no read is armed.  The slip leaves the map alone.
KeepSession == reading' = "none" /\ UNCHANGED registered
clearSession == reading' = "none" /\ registered' = FALSE

\* async_read_some completes with a piece and handle_Read cuts it up; Deal is
\* what it does with the frames.
Reassemble(Deal(_)) ==
  /\ reading = "some" /\ conn = "up"
  /\ \E k \in 1 .. Min({MAX_LENGTH, Len(input)}) :
       LET c == Rounds(node, SubSeq(input, 1, k)) IN
       /\ input' = From(input, k)
       /\ node' = c.node
       /\ Deal(c.done)
       /\ IF c.ok THEN UNCHANGED <<reading, registered>> ELSE clearSession
  /\ UNCHANGED <<version, frames, conn, stage, wire>>

ReadError == /\ reading # "none" /\ conn = "down"
             /\ clearSession
             /\ UNCHANGED <<version, frames, input, conn, stage, node,
                            _msg_queue, out, wire>>

AnswerAll(Send(_, _), done) ==
  LET after[k \in 0 .. Len(done)] ==
        IF k = 0 THEN out ELSE Send(after[k - 1], done[k])
  IN out' = after[Len(done)] /\ UNCHANGED _msg_queue

v4_answer(o, f) == v4_send(o, Echo(f))
v4_deal(done) == AnswerAll(v4_answer, done)
v4_handle_Read == Reassemble(v4_deal) \/ ReadError

v5_answer(o, f) == v5_send(o, Echo(f))
v5_deal(done) == AnswerAll(v5_answer, done)
v5_handle_Read == Reassemble(v5_deal) \/ ReadError

\* The two places that answer a frame differ: the one for a frame whose header
\* came with an earlier piece puts the answer into "id".
v6_answer(o, f) == v6_send(o, IF f.branch = "head" THEN Received(f)
                              ELSE ReceivedAsId(f))
v6_deal(done) == AnswerAll(v6_answer, done)
v6_handle_Read == Reassemble(v6_deal) \/ ReadError

v8_answer(o, f) == v8_send(o, Received(f), f.id)
v8_deal(done) == AnswerAll(v8_answer, done)
v8_handle_Read == Reassemble(v8_deal) \/ ReadError

\* v9 and v10 post the frames to the logic system.
v9_PostMsgToQueue(done) == /\ _msg_queue' = _msg_queue \o done
                           /\ UNCHANGED out
v9_handle_Read == Reassemble(v9_PostMsgToQueue) \/ ReadError
v10_PostMsgToQueue(done) == /\ _msg_queue' = _msg_queue \o done
                            /\ UNCHANGED out
v10_handle_Read == Reassemble(v10_PostMsgToQueue) \/ ReadError

(***************************************************************************)
(* v7 reads a whole header and then a whole body with async_read.          *)
(***************************************************************************)
v7_handle_Read_Head ==
  /\ reading = "head"
  /\ \/ /\ conn = "up" /\ Len(input) >= HEAD_LENGTH
        /\ input' = From(input, HEAD_LENGTH)
        /\ LET h == Decode(SubSeq(input, 1, HEAD_LENGTH)) IN
           IF Invalid(h)
           THEN clearSession /\ conn' = "down" /\ UNCHANGED node
           ELSE /\ reading' = "body" /\ node' = [node EXCEPT !.len = h.len]
                /\ UNCHANGED <<conn, registered>>
     \/ /\ conn = "down" /\ clearSession
        /\ UNCHANGED <<conn, input, node>>
  /\ UNCHANGED <<version, frames, stage, _msg_queue, out, wire>>

v7_handle_Read_Msg ==
  /\ reading = "body"
  /\ \/ /\ conn = "up" /\ Len(input) >= node.len
        /\ input' = From(input, node.len)
        /\ out' = v7_send(out, Echo([body |-> SubSeq(input, 1, node.len)]))
        /\ node' = EmptyNode /\ reading' = "head"
        /\ UNCHANGED registered
     \/ /\ conn = "down" /\ clearSession
        /\ UNCHANGED <<input, node, out>>
  /\ UNCHANGED <<version, frames, conn, stage, _msg_queue, wire>>

-----------------------------------------------------------------------------
(***************************************************************************)
(* handle_Write: the node written is popped and the next one written; after *)
(* an error the session is cleared and the queue stays as it is.            *)
(***************************************************************************)
FirstOf(q) == IF q = <<>> THEN <<>> ELSE <<Head(q)>>

\* The slip: the next node has to wait for a send.
PopAndWait(o) == [o EXCEPT !.queue = Tail(@), !.writes = <<>>]
PopFront(o) == [o EXCEPT !.queue = Tail(@), !.writes = FirstOf(Tail(o.queue))]

WriteDone == /\ out.writes # <<>> /\ conn = "up"
             /\ wire' = Append(wire, Head(out.writes))
             /\ out' = PopFront(out)
             /\ UNCHANGED registered
WriteFailed == /\ out.writes # <<>> /\ conn = "down"
               /\ out' = [out EXCEPT !.writes = <<>>]
               /\ registered' = FALSE
               /\ UNCHANGED wire
NextOrClear == /\ (WriteDone \/ WriteFailed)
               /\ UNCHANGED <<version, frames, input, conn, stage, reading, node,
                              _msg_queue>>

v4_handle_Write == NextOrClear
v5_handle_Write == NextOrClear
v6_handle_Write == NextOrClear
v7_handle_Write == NextOrClear
v8_handle_Write == NextOrClear
v9_handle_Write == NextOrClear
v10_handle_Write == NextOrClear

-----------------------------------------------------------------------------
(***************************************************************************)
(* The worker of the logic system answers the message at the front of its   *)
(* queue; no callback is registered for an id other than HelloWorld.  How   *)
(* it sleeps and wakes up is LogicSystem's subject.                         *)
(***************************************************************************)
CallBackFound(f) == f.id = HelloWorld

\* The answer has the id found in the JSON document; the clients put the same
\* one there as into the header.
DocumentId(f) == f.id
v9_HelloWorldCallBack(f) == out' = v9_send(out, Received(f), DocumentId(f))
v10_HelloWorldCallBack(f) == out' = v10_send(out, Received(f), DocumentId(f))

DealFirst(CallBack(_)) ==
  /\ _msg_queue # <<>>
  /\ _msg_queue' = Tail(_msg_queue)
  /\ IF CallBackFound(Head(_msg_queue)) THEN CallBack(Head(_msg_queue))
     ELSE UNCHANGED out
  /\ UNCHANGED <<version, frames, input, conn, stage, registered, reading, node,
                 wire>>
v9_DealMsg == DealFirst(v9_HelloWorldCallBack)
v10_DealMsg == DealFirst(v10_HelloWorldCallBack)

-----------------------------------------------------------------------------
(***************************************************************************)
(* start and the server's handle_Accept, which accepts the next session in  *)
(* any case; a session whose accept failed was never connected.             *)
(***************************************************************************)
ReadSome == reading' = "some"
v4_start == ReadSome
v5_start == ReadSome
v6_start == ReadSome
v7_start == reading' = "head"
v8_start == ReadSome
v9_start == ReadSome
v10_start == ReadSome

Started == UNCHANGED <<version, frames, input, conn, node, _msg_queue, out, wire>>
StartAndInsert == /\ stage = "listening" /\ stage' = "served"
                  /\ registered' = TRUE
                  /\ Started

v4_handle_Accept == StartAndInsert /\ v4_start
v5_handle_Accept == StartAndInsert /\ v5_start
v6_handle_Accept == StartAndInsert /\ v6_start
v7_handle_Accept == StartAndInsert /\ v7_start
v8_handle_Accept == StartAndInsert /\ v8_start
v9_handle_Accept == StartAndInsert /\ v9_start

\* In v10 the session belongs to another io_context, whose thread can run its
\* handlers before it is inserted.
v10_handle_Accept ==
  \/ /\ stage = "listening" /\ stage' = "started"
     /\ v10_start /\ UNCHANGED registered /\ Started
  \/ /\ stage = "started" /\ stage' = "served"
     /\ registered' = TRUE /\ UNCHANGED reading /\ Started

-----------------------------------------------------------------------------
(***************************************************************************)
(* The client, whose frames have the headers its version expects.          *)
(***************************************************************************)
Header(f) == CASE version \in {"v4", "v7"} -> Host(Len(f.body))
               [] version \in {"v5", "v6"} -> Net(Len(f.body))
               [] OTHER -> Net(f.id) \o Net(Len(f.body))

ConnectionFails ==
  /\ conn = "up" /\ stage # "listening"
  /\ conn' = "down"
  /\ UNCHANGED <<version, frames, input, stage, registered, reading, node,
                 _msg_queue, out, wire>>

Init == /\ version \in Version /\ frames \in Streams
        /\ input = FlattenSeq([k \in DOMAIN frames |-> Header(frames[k])
                                                       \o frames[k].body])
        /\ conn = "up" /\ stage = "listening" /\ registered = FALSE
        /\ reading = "none" /\ node = EmptyNode /\ _msg_queue = <<>>
        /\ out = [queue |-> <<>>, writes |-> <<>>, refused |-> 0] /\ wire = <<>>

handle_Accept == CASE version = "v4" -> v4_handle_Accept
                   [] version = "v5" -> v5_handle_Accept
                   [] version = "v6" -> v6_handle_Accept
                   [] version = "v7" -> v7_handle_Accept
                   [] version = "v8" -> v8_handle_Accept
                   [] version = "v9" -> v9_handle_Accept
                   [] version = "v10" -> v10_handle_Accept

handle_Read == CASE version = "v4" -> v4_handle_Read
                 [] version = "v5" -> v5_handle_Read
                 [] version = "v6" -> v6_handle_Read
                 [] version = "v7" -> v7_handle_Read_Head \/ v7_handle_Read_Msg
                 [] version = "v8" -> v8_handle_Read
                 [] version = "v9" -> v9_handle_Read
                 [] version = "v10" -> v10_handle_Read

handle_Write == CASE version = "v4" -> v4_handle_Write
                  [] version = "v5" -> v5_handle_Write
                  [] version = "v6" -> v6_handle_Write
                  [] version = "v7" -> v7_handle_Write
                  [] version = "v8" -> v8_handle_Write
                  [] version = "v9" -> v9_handle_Write
                  [] version = "v10" -> v10_handle_Write

DealMsg == \/ version = "v9" /\ v9_DealMsg
           \/ version = "v10" /\ v10_DealMsg

Next == handle_Accept \/ handle_Read \/ handle_Write \/ DealMsg \/ ConnectionFails

\* Handlers run when their operation completes, the logic worker goes on, and
\* what the client has sent arrives.  No client has to connect, but a server
\* that has started a session goes on to insert it.
Fairness == /\ WF_vars(handle_Read) /\ WF_vars(handle_Write) /\ WF_vars(DealMsg)
            /\ WF_vars(stage = "started" /\ handle_Accept)

Spec == Init /\ [][Next]_vars
FairSpec == Spec /\ Fairness

-----------------------------------------------------------------------------
NodesSent == [head : Seq(0 .. 255),
              text : [prefix : {"none", "data", "id"}, body : Seq(Nat)]]

TypeOK ==
  /\ version \in Version /\ frames \in Streams /\ input \in Seq(Nat)
  /\ conn \in {"up", "down"} /\ stage \in {"listening", "started", "served"}
  /\ registered \in BOOLEAN /\ reading \in {"none", "some", "head", "body"}
  /\ Len(node.head) < HEAD_LENGTH /\ Len(node.body) <= node.len
  /\ node.len <= MAX_LENGTH /\ node.parsed \in BOOLEAN
  /\ \A i \in DOMAIN _msg_queue : _msg_queue[i].id <= MAX_LENGTH
  /\ out.queue \in Seq(NodesSent) /\ out.writes \in Seq(NodesSent)
  /\ out.refused \in Nat /\ wire \in Seq(NodesSent)
  /\ version \notin {"v4", "v7"} => Len(out.queue) <= MAX_SEND_QUEUE + 1

\* The frames that are answered: in v9 and v10 those with a callback.
Answered == {i \in DOMAIN frames :
               version \in {"v9", "v10"} => frames[i].id = HelloWorld}

\* What the client is to get for frame f: the text, and before it a header it
\* can cut the answers apart with, in its own version's format.
TextFor(f) == IF version \in {"v4", "v5", "v7"} THEN Echo(f) ELSE Received(f)
AnswerTo(f) ==
  LET n == TextLen(TextFor(f)) IN
  [head |-> CASE version \in {"v4", "v7"} -> Host(n)
              [] version \in {"v5", "v6"} -> Net(n)
              [] OTHER -> Net(f.id) \o Net(n),
   text |-> TextFor(f)]

\* v6 answers alike for all cuts but for the member it puts the answer in.
Compared(n) == IF version = "v6" THEN [n EXCEPT !.text.prefix = "data"] ELSE n

\* Whatever pieces the frames come in, the nodes written and queued are answers
\* to the client's frames, whole and in order; only a full queue leaves one out,
\* and as long as none was refused none is missing.  The answer depends on the
\* frame and not on how it was cut (but for v6, see Compared).
AnswersInOrder ==
  LET sent == wire \o out.queue IN
  \E frame \in [DOMAIN sent -> Answered] :
    /\ \A k \in DOMAIN sent : Compared(sent[k]) = AnswerTo(frames[frame[k]])
    /\ \A j, k \in DOMAIN sent : j < k => frame[j] < frame[k]
    /\ out.refused = 0 => \A k \in DOMAIN sent : \A i \in Answered :
                            i < frame[k] => \E j \in DOMAIN sent : frame[j] = i

\* At most one write is outstanding, whoever calls send, and it is of the front
\* of the queue, whose node stays until it is written; the queue is empty unless
\* a write is outstanding or has failed.
OneWrite ==
  /\ Len(out.writes) <= 1
  /\ out.writes # <<>> => IsPrefix(out.writes, out.queue)
  /\ out.queue # <<>> /\ out.writes = <<>> => conn = "down"

\* The frames before the first with an illegal header.
Illegal == {i \in DOMAIN frames :
              Invalid([id |-> frames[i].id, len |-> Len(frames[i].body)])}
LegalFrames == SubSeq(frames, 1, Min(Illegal \cup {Len(frames) + 1}) - 1)

\* Every legal frame of a client that stays is answered, or refused because the
\* queue is full.
EveryFrameAnswered ==
  (stage = "served") ~>
    \/ conn = "down"
    \/ /\ _msg_queue = <<>> /\ out.queue = <<>>
       /\ \A i \in DOMAIN LegalFrames :
            \/ \E j \in DOMAIN wire : wire[j].text.body = LegalFrames[i].body
            \/ i \notin Answered
            \/ out.refused > 0

\* Somebody holds a shared_ptr to the session: the map, a handler, a message in
\* the logic system, or handle_Accept.
Held == stage = "started" \/ registered \/ reading # "none" \/ out.writes # <<>>
        \/ _msg_queue # <<>>

\* When the connection is lost nobody holds the session in the end, whichever
\* of its read and its write fails first.  In v10, where handle_Accept may insert
\* a session that is dead already (see NoZombie of SessionRegistry), this is said
\* of one that is in the map while its read is outstanding.
\* The comment at session_version2.cpp:17 says that a read and a write must not be
\* outstanding at the same time, or the reference count never falls to 0.  From v4
\* on they are, all the time, and both handlers let go of the session.
LostIsReleased ==
  (conn = "down" /\ (version = "v10" => registered /\ reading # "none")) ~> ~Held
=============================================================================
