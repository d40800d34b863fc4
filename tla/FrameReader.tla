---------------------------- MODULE FrameReader ----------------------------
(***************************************************************************)
(* Session::handle_Read of v10_baseOnV9_v2/session_v9.cpp: cutting the TCP  *)
(* byte stream into frames (a header of HEAD_TOTAL_LEN bytes with the id    *)
(* and the length, then the body), whatever pieces it arrives in.           *)
(*                                                                          *)
(* A byte is its position in the stream the peer sends, so a frame put      *)
(* together from the wrong bytes is visible.  A step is one completion of   *)
(* async_read_some or one round of handle_Read's loop; the strand lets only *)
(* one handler of a session run at a time.                                  *)
(*                                                                          *)
(* The fields of a header are shorts and only their upper bound is tested.  *)
(* A negative id is posted like any other.  A length below -1 makes the     *)
(* node's new char[_total_len + 1] throw out of the handler, which ends the *)
(* process; the length -1 makes a node without room, and since              *)
(* bytes_transfered is a size_t it is always "below" the length, so every   *)
(* later byte of the connection is copied behind that node.                 *)
(***************************************************************************)
EXTENDS Integers, Sequences

CONSTANTS Streams,         \* what a peer may send (see StreamAssumption)
          Header,          \* the headers a peer may send
          HEAD_TOTAL_LEN,  \* bytes of a header
          MAX_LENGTH       \* size of _data and greatest legal id and length

\* A stream is a sequence of frames, each known by its header, and the position
\* before the first byte of each of them: a frame begins where the one before it
\* ends, and different frames begin at different positions.  No body follows a
\* header with a negative length.
BodyLen(h) == IF h.msg_len < 0 THEN 0 ELSE h.msg_len

ASSUME StreamAssumption ==
  /\ HEAD_TOTAL_LEN \in Nat \ {0} /\ MAX_LENGTH \in Nat \ {0}
  /\ Header \subseteq [msg_id : Int, msg_len : Int]
  /\ \A s \in Streams :
       /\ s.frames \in Seq(Header)
       /\ s.start \in [1 .. Len(s.frames) + 1 -> Nat]
       /\ s.start[1] = 0
       /\ \A k \in 1 .. Len(s.frames) :
            s.start[k + 1] = s.start[k] + HEAD_TOTAL_LEN + BodyLen(s.frames[k])
       /\ \A j, k \in 1 .. Len(s.frames) : j # k => s.start[j] # s.start[k]

VARIABLES
  stream,             \* what the peer sends
  delivered,          \* how many bytes of it have been read from the socket
  armed,              \* an async_read_some is outstanding
  base,               \* the position before the first byte in _data
  copy_len, bytes_transfered,   \* handle_Read's locals
  _b_head_parse,      \* the header is complete, the body is not
  head,               \* the first _cur_len bytes of _recv_Head_Node
  msg,                \* _recv_Msg_Node: id, _total_len and bytes
  posted,             \* the messages handed to the logic system, in order
  cleared,            \* the session called clearSession
  lost,               \* the socket reported an error or the end of the stream
  ended               \* the process has been terminated

nodes == <<_b_head_parse, head, msg>>
vars == <<stream, delivered, armed, base, copy_len, bytes_transfered, nodes,
          posted, cleared, lost, ended>>

frames == stream.frames
start == stream.start
StreamLen == start[Len(frames) + 1]

\* The n bytes of the stream after position a.
Run(a, n) == [i \in 1 .. n |-> a + i]

Min2(a, b) == IF a <= b THEN a ELSE b

\* network_to_host_short of a header's bytes: the fields of the frame that has
\* this header; of any other bytes, anything.
HeaderOf(k) == Run(start[k], HEAD_TOTAL_LEN)
Decode(bytes) == IF \E k \in 1 .. Len(frames) : bytes = HeaderOf(k)
                 THEN {frames[k] : k \in {j \in 1 .. Len(frames) :
                                            bytes = HeaderOf(j)}}
                 ELSE Header

\* The n bytes at _data + copy_len.
Copy(n) == Run(base + copy_len, n)

\* bytes_transfered < len, a size_t compared with a short or an int: a negative
\* len is converted to more than any number of bytes.
Below(n, len) == len < 0 \/ n < len

-----------------------------------------------------------------------------
Handling == bytes_transfered > 0

\* memset(_data) and async_read_some, after which the handler returns.
Rearm == /\ armed' = TRUE
         /\ bytes_transfered' = 0 /\ copy_len' = 0

\* The session leaves the server's map and the handler returns; no read is
\* outstanding, so nothing keeps the session alive.
ClearSession == /\ cleared' = TRUE
                /\ bytes_transfered' = 0 /\ copy_len' = 0
                /\ UNCHANGED armed

Environment == UNCHANGED <<stream, delivered, base, lost, ended>>

\* Nothing of the program runs any more.
Terminate == /\ ended' = TRUE /\ armed' = FALSE
             /\ bytes_transfered' = 0 /\ copy_len' = 0
             /\ UNCHANGED <<stream, delivered, base, nodes, posted, cleared, lost>>

(***************************************************************************)
(* The socket.                                                             *)
(***************************************************************************)
Deliver(n) ==
  /\ armed
  /\ armed' = FALSE
  /\ base' = delivered /\ delivered' = delivered + n
  /\ bytes_transfered' = n /\ copy_len' = 0
  /\ UNCHANGED <<stream, nodes, posted, cleared, lost, ended>>

\* An error, or the end of the stream, at any time.
ReadError ==
  /\ armed
  /\ armed' = FALSE
  /\ lost' = TRUE /\ cleared' = TRUE
  /\ UNCHANGED <<stream, delivered, base, copy_len, bytes_transfered, nodes,
                 posted, ended>>

\* async_read_some into asio::buffer(_data, MAX_LENGTH).
ReadSome == \E n \in 1 .. Min2(MAX_LENGTH, StreamLen - delivered) : Deliver(n)

(***************************************************************************)
(* One round of the loop.                                                  *)
(***************************************************************************)
\* Not even the header is complete.  The slip forgets to read on.
HeadPartialDeaf ==
  /\ Handling /\ ~_b_head_parse
  /\ bytes_transfered + Len(head) < HEAD_TOTAL_LEN
  /\ head' = head \o Copy(bytes_transfered)
  /\ bytes_transfered' = 0
  /\ UNCHANGED <<_b_head_parse, msg, posted, cleared, armed, copy_len>>
  /\ Environment
HeadPartial ==
  /\ Handling /\ ~_b_head_parse
  /\ bytes_transfered + Len(head) < HEAD_TOTAL_LEN
  /\ head' = head \o Copy(bytes_transfered)
  /\ Rearm
  /\ UNCHANGED <<_b_head_parse, msg, posted, cleared>> /\ Environment

\* The rest of the header is copied behind the bytes head counts, but _cur_len
\* stays as it was until Clear.
head_remain == HEAD_TOTAL_LEN - Len(head)
whole_head == head \o Copy(head_remain)

HeadComplete == /\ Handling /\ ~_b_head_parse
                /\ bytes_transfered + Len(head) >= HEAD_TOTAL_LEN

\* The slip tests the id only.
InvalidId(h) == h.msg_id > MAX_LENGTH
Invalid(h) == h.msg_id > MAX_LENGTH \/ h.msg_len > MAX_LENGTH

RejectHead ==
  /\ HeadComplete
  /\ \E h \in Decode(whole_head) : Invalid(h)
  /\ ClearSession
  /\ UNCHANGED <<_b_head_parse, head, msg, posted>> /\ Environment

\* make_shared<Recv_Node> of a length that no array can have: nothing catches
\* what new throws.
NodeThrows ==
  /\ HeadComplete
  /\ \E h \in Decode(whole_head) : ~Invalid(h) /\ h.msg_len < -1
  /\ Terminate

\* The body starts in this piece but does not end in it.
HeadThenPartialBody ==
  /\ HeadComplete
  /\ \E h \in Decode(whole_head) :
       LET rest == bytes_transfered - head_remain IN
       /\ ~Invalid(h) /\ h.msg_len >= -1
       /\ Below(rest, h.msg_len)
       /\ msg' = [msg_id |-> h.msg_id, total_len |-> h.msg_len,
                  data |-> Run(base + copy_len + head_remain, rest)]
  /\ _b_head_parse' = TRUE
  /\ Rearm
  /\ UNCHANGED <<head, posted, cleared>> /\ Environment

\* After a frame: read on when the piece is used up, otherwise another round.
\* The slip reads on in any case and drops the rest of the piece.
ReadOnAfter(used) == Rearm
NextRound(used) ==
  IF bytes_transfered - used <= 0
  THEN Rearm
  ELSE /\ bytes_transfered' = bytes_transfered - used
       /\ copy_len' = copy_len + used
       /\ UNCHANGED armed

\* PostMsgToQueue, and the two nodes made ready for the next frame.  The slip
\* keeps the header it has parsed.
FinishFrameKeepsHead(node) ==
  /\ posted' = Append(posted, [msg_id |-> node.msg_id, data |-> node.data])
  /\ msg' = node
  /\ _b_head_parse' = FALSE
  /\ UNCHANGED head
FinishFrame(node) ==
  /\ posted' = Append(posted, [msg_id |-> node.msg_id, data |-> node.data])
  /\ msg' = node
  /\ _b_head_parse' = FALSE
  /\ head' = <<>>

HeadThenWholeBody ==
  /\ HeadComplete
  /\ \E h \in Decode(whole_head) :
       /\ ~Invalid(h) /\ h.msg_len >= -1
       /\ ~Below(bytes_transfered - head_remain, h.msg_len)
       /\ FinishFrame([msg_id |-> h.msg_id, total_len |-> h.msg_len,
                       data |-> Run(base + copy_len + head_remain, h.msg_len)])
       /\ NextRound(head_remain + h.msg_len)
  /\ UNCHANGED cleared /\ Environment

remain_msg == msg.total_len - Len(msg.data)

\* The body goes on beyond this piece.
BodyPartial ==
  /\ Handling /\ _b_head_parse
  /\ Below(bytes_transfered, remain_msg)
  /\ msg' = [msg EXCEPT !.data = msg.data \o Copy(bytes_transfered)]
  /\ Rearm
  /\ UNCHANGED <<_b_head_parse, head, posted, cleared>> /\ Environment

\* How much of the piece still belongs to the body.
TakeRemaining == remain_msg

BodyWhole ==
  /\ Handling /\ _b_head_parse
  /\ ~Below(bytes_transfered, remain_msg)
  /\ FinishFrame([msg EXCEPT !.data = msg.data \o Copy(TakeRemaining)])
  /\ NextRound(TakeRemaining)
  /\ UNCHANGED cleared /\ Environment

\* Bytes were copied behind a node without room.  What that destroys may end the
\* process at once, later or never.
Damaged == msg.total_len < 0 /\ (armed \/ Handling)
Damage == Damaged /\ Terminate

Round == \/ HeadPartial \/ RejectHead \/ NodeThrows \/ HeadThenPartialBody
         \/ HeadThenWholeBody \/ BodyPartial \/ BodyWhole

-----------------------------------------------------------------------------
NoMsg == [msg_id |-> 0, total_len |-> 0, data |-> <<>>]

\* start() has armed the first read.
Init == /\ stream \in Streams
        /\ delivered = 0 /\ base = 0
        /\ armed = TRUE
        /\ copy_len = 0 /\ bytes_transfered = 0
        /\ _b_head_parse = FALSE /\ head = <<>> /\ msg = NoMsg
        /\ posted = <<>>
        /\ cleared = FALSE /\ lost = FALSE /\ ended = FALSE

Next == \/ ReadSome
        \/ ReadError
        \/ Round
        \/ Damage

\* Handlers run to their end, and what the peer has sent arrives in some pieces
\* or the connection fails.
Fairness == /\ WF_vars(Round)
            /\ WF_vars(ReadSome \/ ReadError)

Spec == Init /\ [][Next]_vars
FairSpec == Spec /\ Fairness

-----------------------------------------------------------------------------
Frame == [msg_id : Int, data : Seq(Nat)]
Node == [msg_id : Int, total_len : Int, data : Seq(Nat)]

TypeOK ==
  /\ stream \in Streams
  /\ delivered \in Nat /\ base \in Nat /\ copy_len \in Nat
  /\ bytes_transfered \in 0 .. MAX_LENGTH
  /\ armed \in BOOLEAN /\ cleared \in BOOLEAN /\ lost \in BOOLEAN
  /\ ended \in BOOLEAN
  /\ _b_head_parse \in BOOLEAN
  /\ head \in Seq(Nat)
  /\ msg \in Node
  /\ posted \in Seq(Frame)

\* What the peer means by its k-th frame, and whether it is one.
Sent(k) == [msg_id |-> frames[k].msg_id,
            data |-> Run(start[k] + HEAD_TOTAL_LEN, BodyLen(frames[k]))]
Bad(h) == Invalid(h) \/ h.msg_len < 0

\* However the stream is cut into pieces, the messages posted are the first
\* frames of the stream, each with exactly its own bytes in order: a header or
\* a body split anywhere is put together again, several frames in one piece are
\* taken apart, and nothing is posted for an illegal or negative length or after
\* one.
FramesReassembled ==
  /\ Len(posted) <= Len(frames)
  /\ \A k \in 1 .. Len(posted) : posted[k] = Sent(k) /\ ~Bad(frames[k])

\* The body node holds no more than it has room for, nor more than MAX_LENGTH.
BodyFits == Len(msg.data) <= msg.total_len /\ msg.total_len <= MAX_LENGTH

\* What the memcpys of handle_Read do to their buffers.  The header node and
\* what was read into _data are never left.  The body node is left in one case
\* only, which the test of the length lets through: the frame being read has the
\* length -1.
NoOverrun ==
  /\ Len(head) < HEAD_TOTAL_LEN
  /\ copy_len + bytes_transfered <= MAX_LENGTH
  /\ ~BodyFits => LET k == Len(posted) + 1 IN
                  k <= Len(frames) /\ frames[k].msg_len = -1

\* A session is never deaf: at any moment exactly one read is outstanding, or a
\* handler runs, or the session was cleared, or the process has ended.  (Seven
\* places of handle_Read have to re-arm the read.)
NeverDeaf == /\ ~(armed /\ Handling)
             /\ armed \/ Handling \/ cleared \/ ended

\* clearSession is final: the handler that called it left no read behind, so
\* nothing of the stream is ever posted for a session the server has dropped.
ClearedIsFinal == cleared \/ ended => ~armed /\ ~Handling

\* The process ends over a negative length only.
EndsOverLength == ended => \E k \in 1 .. Len(frames) : frames[k].msg_len < 0

\* Exactly one of: a read is outstanding, a handler runs, the session was
\* cleared for good or a negative length ended the process.
OneReadChain == NeverDeaf /\ ClearedIsFinal /\ EndsOverLength

\* handle_Read keeps to its one read and, but for the length -1, to its buffers.
\* The comment at session_v9.cpp:58 calls the tests of the header defensive
\* programming: they refuse what is above the bound, not what is below zero.
ReadingIsSafe == NoOverrun /\ OneReadChain

\* How many frames come before the first bad one.
GoodPrefix == IF \E k \in 1 .. Len(frames) : Bad(frames[k])
              THEN (CHOOSE k \in 1 .. Len(frames) :
                      /\ Bad(frames[k])
                      /\ \A j \in 1 .. k - 1 : ~Bad(frames[j])) - 1
              ELSE Len(frames)

\* What becomes of the session at a bad header: a field above the bound clears
\* it, a length below -1 ends the process, the length -1 swallows what follows.
Fate(h) == \/ Invalid(h) /\ cleared
           \/ ~Invalid(h) /\ h.msg_len < -1 /\ ended
           \/ ~Invalid(h) /\ h.msg_len = -1 /\ (_b_head_parse \/ ended)

\* Every frame before the first bad one is eventually posted, and the bad one
\* meets its fate, unless the connection fails first.
EveryFramePosted ==
  <>(\/ lost /\ delivered < StreamLen
     \/ /\ Len(posted) = GoodPrefix
        /\ GoodPrefix < Len(frames) => Fate(frames[GoodPrefix + 1]))
=============================================================================
