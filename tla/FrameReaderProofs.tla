------------------------- MODULE FrameReaderProofs -------------------------
(***************************************************************************)
(* Proofs about FrameReader, for any streams, any way of cutting them into  *)
(* pieces, any header length and any MAX_LENGTH.                           *)
(***************************************************************************)
EXTENDS FrameReader, SequenceTheorems, TLAPS

(***************************************************************************)
(* Runs of bytes.                                                          *)
(***************************************************************************)
LEMMA RunSeq ==
  ASSUME NEW a \in Nat, NEW n \in Nat
  PROVE  /\ Run(a, n) \in Seq(Nat)
         /\ Len(Run(a, n)) = n
         /\ \A i \in 1 .. n : Run(a, n)[i] = a + i
<1>1. Run(a, n) \in [1 .. n -> Nat]
  BY DEF Run
<1> QED
  BY <1>1 DEF Run

\* Two runs, one beginning where the other ends, make one run.
LEMMA RunConcat ==
  ASSUME NEW a \in Nat, NEW n \in Nat, NEW m \in Nat
  PROVE  Run(a, n) \o Run(a + n, m) = Run(a, n + m)
<1> DEFINE u == Run(a, n)
           v == Run(a + n, m)
           w == Run(a, n + m)
<1>1. /\ u \in Seq(Nat) /\ Len(u) = n /\ \A i \in 1 .. n : u[i] = a + i
  BY RunSeq
<1>2. /\ v \in Seq(Nat) /\ Len(v) = m /\ \A i \in 1 .. m : v[i] = a + n + i
  <2>1. a + n \in Nat
    OBVIOUS
  <2> HIDE DEF u, w
  <2> QED
    BY <2>1, RunSeq, Zenon
<1>3. /\ w \in Seq(Nat) /\ Len(w) = n + m
      /\ \A i \in 1 .. n + m : w[i] = a + i
  BY RunSeq
<1> HIDE DEF u, v, w
<1>4. /\ u \o v \in Seq(Nat) /\ Len(u \o v) = n + m
      /\ \A i \in 1 .. n + m :
           (u \o v)[i] = IF i <= n THEN u[i] ELSE v[i - n]
  BY <1>1, <1>2, ConcatProperties
<1>5. ASSUME NEW i \in 1 .. n + m
      PROVE  (u \o v)[i] = w[i]
  <2>1. w[i] = a + i
    BY <1>3
  <2>2. CASE i <= n
    BY <1>1, <1>4, <2>1, <2>2
  <2>3. CASE ~(i <= n)
    <3>1. i - n \in 1 .. m /\ a + n + (i - n) = a + i
      BY <2>3
    <3>2. v[i - n] = a + n + (i - n)
      BY <1>2, <3>1
    <3>3. (u \o v)[i] = v[i - n]
      BY <1>4, <2>3
    <3> QED
      BY <2>1, <3>1, <3>2, <3>3
  <2> QED
    BY <2>2, <2>3
<1>6. u \o v = w
  BY <1>3, <1>4, <1>5, SeqEqual
<1> QED
  BY <1>6 DEF u, v, w

-----------------------------------------------------------------------------
(***************************************************************************)
(* The inductive invariant.  k is the number of the frame being put         *)
(* together and taken the position up to which handle_Read has used up the  *)
(* stream.                                                                  *)
(***************************************************************************)
k == Len(posted) + 1
taken == delivered - bytes_transfered

Numbers ==
  /\ stream \in Streams
  /\ delivered \in Nat /\ delivered <= StreamLen
  /\ base \in Nat /\ copy_len \in Nat /\ bytes_transfered \in Nat
  /\ armed \in BOOLEAN /\ cleared \in BOOLEAN /\ ended \in BOOLEAN
  /\ _b_head_parse \in BOOLEAN
  /\ Handling => base + copy_len + bytes_transfered = delivered
  /\ copy_len + bytes_transfered <= MAX_LENGTH

Mode == NeverDeaf /\ ClearedIsFinal

Prefix == posted \in Seq(Frame) /\ FramesReassembled

\* The session is being served.
Served == ~cleared /\ ~ended

\* The header node holds the bytes of frame k read so far.
HeadNode ==
  Served /\ ~_b_head_parse =>
    /\ head = Run(start[k], Len(head))
    /\ taken = start[k] + Len(head)

\* The header of frame k was read and the body node holds the first bytes of
\* its body; behind a header with the length -1 it swallows what follows.
BodyNode ==
  Served /\ _b_head_parse =>
    /\ k <= Len(frames) /\ ~Invalid(frames[k])
    /\ msg.msg_id = frames[k].msg_id /\ msg.total_len = frames[k].msg_len
    /\ msg.total_len = -1 \/ Len(msg.data) < msg.total_len
    /\ msg.data = Run(start[k] + HEAD_TOTAL_LEN, Len(msg.data))
    /\ taken = start[k] + HEAD_TOTAL_LEN + Len(msg.data)

Nodes ==
  /\ head \in Seq(Nat) /\ Len(head) < HEAD_TOTAL_LEN
  /\ msg \in Node
  /\ ~BodyFits => k <= Len(frames) /\ frames[k].msg_len = -1

IInv == /\ Numbers /\ Mode /\ EndsOverLength
        /\ Prefix /\ Nodes /\ HeadNode /\ BodyNode

LEMMA StreamFacts ==
  ASSUME stream \in Streams
  PROVE  /\ frames \in Seq(Header) /\ Len(frames) \in Nat
         /\ \A j \in 1 .. Len(frames) + 1 : start[j] \in Nat
         /\ StreamLen \in Nat
         /\ start[1] = 0
         /\ \A j \in 1 .. Len(frames) :
              /\ frames[j].msg_id \in Int /\ frames[j].msg_len \in Int
              /\ BodyLen(frames[j]) \in Nat
              /\ frames[j] \in Header
              /\ start[j + 1] = start[j] + HEAD_TOTAL_LEN + BodyLen(frames[j])
         /\ \A i, j \in 1 .. Len(frames) : i # j => start[i] # start[j]
<1>1. /\ frames \in Seq(Header) /\ Len(frames) \in Nat
      /\ start \in [1 .. Len(frames) + 1 -> Nat]
      /\ start[1] = 0
      /\ \A j \in 1 .. Len(frames) :
           start[j + 1] = start[j] + HEAD_TOTAL_LEN + BodyLen(frames[j])
      /\ \A i, j \in 1 .. Len(frames) : i # j => start[i] # start[j]
  BY StreamAssumption, LenProperties DEF frames, start
<1>2. \A j \in 1 .. Len(frames) : frames[j] \in Header
  BY <1>1, ElementOfSeq
<1>3. \A j \in 1 .. Len(frames) :
        /\ frames[j].msg_id \in Int /\ frames[j].msg_len \in Int
        /\ BodyLen(frames[j]) \in Nat
  BY <1>2, StreamAssumption DEF BodyLen
<1>4. \A j \in 1 .. Len(frames) + 1 : start[j] \in Nat
  BY <1>1
<1>5. StreamLen \in Nat
  BY <1>1, <1>4 DEF StreamLen
<1> QED
  BY <1>1, <1>2, <1>3, <1>4, <1>5

LEMMA InitIInv == Init => IInv
<1> SUFFICES ASSUME Init PROVE IInv
  OBVIOUS
<1>1. stream \in Streams /\ posted = <<>> /\ head = <<>> /\ msg = NoMsg
  BY DEF Init
<1>2. Numbers
  <2>1. StreamLen \in Nat /\ MAX_LENGTH \in Nat
    BY <1>1, StreamFacts, StreamAssumption
  <2>2. /\ armed \in BOOLEAN /\ cleared \in BOOLEAN /\ ended \in BOOLEAN
        /\ _b_head_parse \in BOOLEAN
    BY DEF Init
  <2>3. delivered = 0 /\ base = 0 /\ copy_len = 0 /\ bytes_transfered = 0
    BY DEF Init
  <2> QED
    BY <1>1, <2>1, <2>2, <2>3 DEF Numbers, Handling
<1>3. Mode
  BY DEF Init, Mode, NeverDeaf, ClearedIsFinal, Handling
<1>4. Prefix
  BY <1>1, StreamFacts, EmptySeq DEF Prefix, FramesReassembled
<1>5. Nodes
  BY <1>1, EmptySeq, StreamAssumption DEF Nodes, NoMsg, Node, BodyFits
<1>6. HeadNode
  <2>1. Len(posted) = 0 /\ Len(head) = 0 /\ k = 1
    BY <1>1, EmptySeq DEF k
  <2>2. head = Run(0, 0)
    BY <1>1 DEF Run
  <2> QED
    BY <1>1, <2>1, <2>2, StreamFacts, StreamAssumption DEF Init, HeadNode, taken
<1>7. BodyNode /\ EndsOverLength
  BY DEF Init, BodyNode, EndsOverLength
<1> QED
  BY <1>2, <1>3, <1>4, <1>5, <1>6, <1>7 DEF IInv

\* While a handler has bytes left, they belong to frame k of the stream.
LEMMA WithinFrame ==
  ASSUME IInv, Handling
  PROVE  /\ ~cleared /\ ~ended /\ Served /\ ~armed
         /\ k \in 1 .. Len(frames)
         /\ start[k] \in Nat /\ start[k + 1] \in Nat
         /\ frames[k].msg_id \in Int /\ frames[k].msg_len \in Int
         /\ BodyLen(frames[k]) \in Nat
         /\ start[k + 1] = start[k] + HEAD_TOTAL_LEN + BodyLen(frames[k])
         /\ taken \in Nat /\ base + copy_len = taken
         /\ bytes_transfered \in Nat \ {0} /\ bytes_transfered <= MAX_LENGTH
         /\ HEAD_TOTAL_LEN \in Nat \ {0} /\ MAX_LENGTH \in Nat \ {0}
<1>1. ~cleared /\ ~ended /\ Served /\ ~armed
  BY DEF IInv, Mode, NeverDeaf, ClearedIsFinal, Served
<1>2. /\ delivered \in Nat /\ delivered <= StreamLen
      /\ base \in Nat /\ copy_len \in Nat
      /\ bytes_transfered \in Nat \ {0} /\ bytes_transfered <= MAX_LENGTH
      /\ base + copy_len + bytes_transfered = delivered
      /\ stream \in Streams
  BY StreamAssumption DEF IInv, Numbers, Handling
<1>3. taken \in Nat /\ base + copy_len = taken
  BY <1>2 DEF taken
<1>4. Len(posted) \in Nat /\ Len(posted) <= Len(frames)
  BY LenProperties DEF IInv, Prefix, FramesReassembled
<1>5. k \in 1 .. Len(frames)
  <2>1. CASE _b_head_parse
    BY <1>1, <1>2, <1>4, <2>1, StreamFacts DEF IInv, BodyNode, k
  <2>2. CASE ~_b_head_parse
    <3>1. taken = start[k] + Len(head) /\ Len(head) \in Nat
      BY <1>1, <2>2, LenProperties DEF IInv, HeadNode, Nodes
    <3>2. k \in Nat /\ k >= 1 /\ k <= Len(frames) + 1 /\ Len(frames) \in Nat
      BY <1>2, <1>4, StreamFacts DEF k
    <3>3. k # Len(frames) + 1
      <4> SUFFICES ASSUME k = Len(frames) + 1 PROVE FALSE
        OBVIOUS
      <4>1. start[k] = StreamLen /\ StreamLen \in Nat
        BY <1>2, StreamFacts DEF StreamLen
      <4> QED
        BY <1>2, <3>1, <4>1 DEF taken
    <3> QED
      BY <3>2, <3>3
  <2> QED
    BY <2>1, <2>2
<1>6. /\ start[k] \in Nat /\ start[k + 1] \in Nat
      /\ frames[k].msg_id \in Int /\ frames[k].msg_len \in Int
      /\ BodyLen(frames[k]) \in Nat
      /\ start[k + 1] = start[k] + HEAD_TOTAL_LEN + BodyLen(frames[k])
  <2>1. k + 1 \in 1 .. Len(frames) + 1 /\ k \in 1 .. Len(frames) + 1
    BY <1>2, <1>5, StreamFacts
  <2> QED
    BY <1>2, <1>5, <2>1, StreamFacts
<1> QED
  BY <1>1, <1>2, <1>3, <1>5, <1>6, StreamAssumption

\* The bytes the handler copies are the next ones of the stream.
LEMMA CopyIsNext ==
  ASSUME IInv, Handling
  PROVE  \A n \in Nat : Copy(n) = Run(taken, n)
BY WithinFrame DEF Copy

(***************************************************************************)
(* The rounds of the loop that work on the header.                         *)
(***************************************************************************)
\* A complete header node holds exactly the header of frame k, and decoding it
\* gives that frame's id and length.
LEMMA HeaderDecoded ==
  ASSUME IInv, HeadComplete
  PROVE  /\ Len(head) \in Nat /\ Len(head) < HEAD_TOTAL_LEN
         /\ head_remain \in Nat /\ head_remain <= bytes_transfered
         /\ head_remain > 0
         /\ taken + head_remain = start[k] + HEAD_TOTAL_LEN
         /\ Decode(whole_head) = {frames[k]}
<1>1. Handling /\ ~_b_head_parse /\ bytes_transfered + Len(head) >= HEAD_TOTAL_LEN
  BY DEF HeadComplete
<1>2. /\ k \in 1 .. Len(frames) /\ start[k] \in Nat
      /\ taken \in Nat /\ bytes_transfered \in Nat
      /\ HEAD_TOTAL_LEN \in Nat /\ Served
  BY <1>1, WithinFrame
<1>3. /\ Len(head) \in Nat /\ Len(head) < HEAD_TOTAL_LEN
      /\ taken = start[k] + Len(head)
  BY <1>1, <1>2, LenProperties DEF IInv, Nodes, HeadNode
<1>4. /\ head_remain \in Nat /\ head_remain <= bytes_transfered
      /\ head_remain > 0
      /\ Len(head) + head_remain = HEAD_TOTAL_LEN
      /\ taken + head_remain = start[k] + HEAD_TOTAL_LEN
  BY <1>1, <1>2, <1>3 DEF head_remain
<1>5. whole_head = HeaderOf(k)
  <2>1. head = Run(start[k], Len(head))
    BY <1>1, <1>2 DEF IInv, HeadNode
  <2>2. Copy(head_remain) = Run(start[k] + Len(head), head_remain)
    BY <1>1, <1>3, <1>4, CopyIsNext
  <2>3. Run(start[k], Len(head)) \o Run(start[k] + Len(head), head_remain)
          = Run(start[k], Len(head) + head_remain)
    BY <1>2, <1>3, <1>4, RunConcat, Zenon
  <2> QED
    BY <1>4, <2>1, <2>2, <2>3, Zenon DEF whole_head, HeaderOf
<1>6. ASSUME NEW j \in 1 .. Len(frames), HeaderOf(j) = HeaderOf(k)
      PROVE  j = k
  <2>1. start[j] \in Nat
    BY <1>6, StreamFacts DEF IInv, Numbers
  <2>2. 1 \in 1 .. HEAD_TOTAL_LEN
    BY <1>2, StreamAssumption
  <2>3. HeaderOf(j)[1] = start[j] + 1 /\ HeaderOf(k)[1] = start[k] + 1
    BY <1>2, <2>1, <2>2, RunSeq DEF HeaderOf
  <2>4. start[j] = start[k]
    BY <1>2, <1>6, <2>1, <2>3
  <2> QED
    BY <1>2, <1>6, <2>4, StreamFacts DEF IInv, Numbers
<1>7. Decode(whole_head) = {frames[k]}
  BY <1>2, <1>5, <1>6, Zenon DEF Decode
<1> QED
  BY <1>3, <1>4, <1>7

\* What a round that reads on leaves behind: another read is outstanding and
\* nothing of the piece is left.
LEMMA ReadsOn ==
  ASSUME IInv, Handling, Rearm, Environment, UNCHANGED cleared,
         _b_head_parse' \in BOOLEAN
  PROVE  /\ Numbers' /\ Mode' /\ EndsOverLength'
         /\ taken' = taken + bytes_transfered
<1>1. /\ armed' = TRUE /\ bytes_transfered' = 0 /\ copy_len' = 0
      /\ UNCHANGED <<stream, delivered, base, cleared, ended>>
  BY DEF Rearm, Environment
<1>2. /\ stream \in Streams /\ delivered \in Nat /\ delivered <= StreamLen
      /\ base \in Nat /\ bytes_transfered \in Nat /\ cleared \in BOOLEAN
      /\ ~cleared /\ MAX_LENGTH \in Nat /\ ended = FALSE
  BY WithinFrame DEF IInv, Numbers
<1>3. StreamLen' = StreamLen
  BY <1>1 DEF StreamLen, start, frames
<1>4. Mode'
  BY <1>1, <1>2 DEF Mode, NeverDeaf, ClearedIsFinal, Handling
<1>5. Numbers'
  <2>1. ~Handling' /\ copy_len' + bytes_transfered' <= MAX_LENGTH
    BY <1>1, <1>2 DEF Handling
  <2>2. armed' \in BOOLEAN /\ cleared' \in BOOLEAN /\ ended' \in BOOLEAN
    BY <1>1, <1>2
  <2>3. delivered' <= StreamLen'
    BY <1>1, <1>2, <1>3
  <2>4. /\ stream' \in Streams /\ delivered' \in Nat /\ base' \in Nat
        /\ copy_len' \in Nat /\ bytes_transfered' \in Nat
    BY <1>1, <1>2
  <2> QED
    BY <2>1, <2>2, <2>3, <2>4 DEF Numbers
<1>6. taken' = taken + bytes_transfered
  BY <1>1, <1>2 DEF taken
<1>7. EndsOverLength'
  BY <1>1, <1>2 DEF EndsOverLength
<1> QED
  BY <1>4, <1>5, <1>6, <1>7

LEMMA HeadPartialKeeps == IInv /\ HeadPartial => IInv'
<1> SUFFICES ASSUME IInv, HeadPartial PROVE IInv'
  OBVIOUS
<1>1. /\ Handling /\ ~_b_head_parse /\ Served
      /\ bytes_transfered \in Nat /\ taken \in Nat
      /\ bytes_transfered + Len(head) < HEAD_TOTAL_LEN
      /\ HEAD_TOTAL_LEN \in Nat /\ MAX_LENGTH \in Nat
      /\ start[k] \in Nat
      /\ Len(head) \in Nat
      /\ taken = start[k] + Len(head)
  BY WithinFrame, LenProperties DEF HeadPartial, IInv, HeadNode, Nodes
<1>2. /\ head' = head \o Copy(bytes_transfered)
      /\ Rearm /\ Environment
      /\ UNCHANGED <<_b_head_parse, msg, posted, cleared>>
  BY DEF HeadPartial
<1>3. head' = Run(start[k], Len(head) + bytes_transfered)
  <2>1. head = Run(start[k], Len(head))
    BY <1>1 DEF IInv, HeadNode
  <2>2. Copy(bytes_transfered) = Run(start[k] + Len(head), bytes_transfered)
    BY <1>1, CopyIsNext
  <2>3. Run(start[k], Len(head)) \o Run(start[k] + Len(head), bytes_transfered)
          = Run(start[k], Len(head) + bytes_transfered)
    BY <1>1, RunConcat, Zenon
  <2> QED
    BY <1>2, <2>1, <2>2, <2>3, Zenon
<1>4. /\ head' \in Seq(Nat) /\ Len(head') = Len(head) + bytes_transfered
  <2>1. Len(head) + bytes_transfered \in Nat
    BY <1>1
  <2> QED
    BY <1>1, <1>3, <2>1, RunSeq, Zenon
<1>5. /\ Numbers' /\ Mode' /\ EndsOverLength'
      /\ taken' = taken + bytes_transfered
  BY <1>1, <1>2, ReadsOn DEF IInv, Numbers
<1>6. k' = k /\ start' = start /\ frames' = frames
  BY <1>2 DEF k, start, frames, Environment
<1>7. Prefix'
  BY <1>2, <1>6 DEF IInv, Prefix, FramesReassembled, Sent
<1>8. Nodes'
  BY <1>1, <1>2, <1>4, <1>6 DEF IInv, Nodes, BodyFits
<1>9. HeadNode'
  <2>1. taken' = start[k] + Len(head')
    BY <1>1, <1>4, <1>5
  <2>2. head' = Run(start[k], Len(head'))
    BY <1>3, <1>4
  <2>3. Len(head') < HEAD_TOTAL_LEN
    BY <1>1, <1>4
  <2> QED
    BY <1>6, <2>1, <2>2, <2>3 DEF HeadNode
<1>10. BodyNode'
  BY <1>1, <1>2 DEF BodyNode
<1> QED
  BY <1>5, <1>7, <1>8, <1>9, <1>10 DEF IInv

\* clearSession ends the session whatever was decoded.
LEMMA RejectHeadKeeps == IInv /\ RejectHead => IInv'
<1> SUFFICES ASSUME IInv, RejectHead PROVE IInv'
  OBVIOUS
<1>1. /\ HeadComplete /\ ClearSession
      /\ UNCHANGED <<_b_head_parse, head, msg, posted>> /\ Environment
  BY DEF RejectHead
<1>2. /\ Handling /\ ~cleared /\ ~ended /\ ~armed /\ MAX_LENGTH \in Nat
  BY <1>1, WithinFrame DEF HeadComplete
<1>3. k' = k /\ start' = start /\ frames' = frames /\ StreamLen' = StreamLen
  BY <1>1 DEF k, start, frames, StreamLen, Environment
<1>4. /\ cleared' = TRUE /\ bytes_transfered' = 0 /\ copy_len' = 0
      /\ armed' = FALSE /\ ~Handling'
  <2>1. armed' = armed /\ armed \in BOOLEAN
    BY <1>1 DEF ClearSession, IInv, Numbers
  <2> QED
    BY <1>1, <1>2, <2>1 DEF ClearSession, Handling
<1>5. Numbers'
  <2>1. /\ stream \in Streams /\ delivered \in Nat /\ delivered <= StreamLen
        /\ base \in Nat /\ _b_head_parse \in BOOLEAN /\ ended \in BOOLEAN
    BY DEF IInv, Numbers
  <2>2. UNCHANGED <<stream, delivered, base, _b_head_parse, ended>>
    BY <1>1 DEF Environment
  <2>3. /\ copy_len' \in Nat /\ bytes_transfered' \in Nat
        /\ copy_len' + bytes_transfered' <= MAX_LENGTH
    BY <1>2, <1>4
  <2>4. /\ armed' \in BOOLEAN /\ cleared' \in BOOLEAN /\ ended' \in BOOLEAN
        /\ _b_head_parse' \in BOOLEAN
    BY <1>4, <2>1, <2>2
  <2> QED
    BY <1>3, <1>4, <2>1, <2>2, <2>3, <2>4 DEF Numbers
<1>6. Mode' /\ EndsOverLength'
  <2>1. ended' = ended
    BY <1>1 DEF Environment
  <2> QED
    BY <1>2, <1>4, <2>1 DEF Mode, NeverDeaf, ClearedIsFinal, EndsOverLength
<1>7. Prefix'
  BY <1>1, <1>3 DEF IInv, Prefix, FramesReassembled, Sent
<1>8. Nodes'
  BY <1>1, <1>3 DEF IInv, Nodes, BodyFits
<1>9. HeadNode' /\ BodyNode'
  BY <1>4 DEF HeadNode, BodyNode, Served
<1> QED
  BY <1>5, <1>6, <1>7, <1>8, <1>9 DEF IInv

\* A process that has ended keeps what it had; a negative length was the reason.
LEMMA TerminateKeeps ==
  ASSUME IInv, Terminate, NEW j \in 1 .. Len(frames), frames[j].msg_len < 0
  PROVE  IInv'
<1>1. /\ ended' = TRUE /\ armed' = FALSE /\ bytes_transfered' = 0
      /\ copy_len' = 0
      /\ UNCHANGED <<stream, delivered, base, nodes, posted, cleared, lost>>
  BY DEF Terminate
<1>2. /\ k' = k /\ start' = start /\ frames' = frames /\ StreamLen' = StreamLen
      /\ UNCHANGED <<_b_head_parse, head, msg>> /\ ~Handling'
  BY <1>1 DEF k, start, frames, StreamLen, nodes, Handling
<1>3. Numbers'
  <2>1. /\ stream' \in Streams /\ delivered' \in Nat /\ delivered' <= StreamLen'
        /\ base' \in Nat /\ cleared' \in BOOLEAN /\ _b_head_parse' \in BOOLEAN
    BY <1>1, <1>2 DEF IInv, Numbers
  <2>2. /\ copy_len' \in Nat /\ bytes_transfered' \in Nat
        /\ copy_len' + bytes_transfered' <= MAX_LENGTH
    BY <1>1, StreamAssumption
  <2> QED
    BY <1>1, <1>2, <2>1, <2>2 DEF Numbers
<1>4. Mode' /\ HeadNode' /\ BodyNode'
  BY <1>1, <1>2 DEF Mode, NeverDeaf, ClearedIsFinal, HeadNode, BodyNode, Served
<1>5. EndsOverLength'
  BY <1>2 DEF EndsOverLength
<1>6. Prefix' /\ Nodes'
  BY <1>1, <1>2 DEF IInv, Prefix, FramesReassembled, Sent, Nodes, BodyFits
<1> QED
  BY <1>3, <1>4, <1>5, <1>6 DEF IInv

LEMMA NodeThrowsKeeps == IInv /\ NodeThrows => IInv'
<1> SUFFICES ASSUME IInv, NodeThrows PROVE IInv'
  OBVIOUS
<1>1. HeadComplete /\ Handling /\ Terminate
  BY DEF NodeThrows, HeadComplete
<1>2. k \in 1 .. Len(frames) /\ frames[k].msg_len \in Int
  BY <1>1, WithinFrame
<1>3. frames[k].msg_len < 0
  BY <1>1, <1>2, HeaderDecoded DEF NodeThrows
<1> QED
  BY <1>1, <1>2, <1>3, TerminateKeeps

LEMMA DamageKeeps == IInv /\ Damage => IInv'
<1> SUFFICES ASSUME IInv, Damage PROVE IInv'
  OBVIOUS
<1>1. msg.total_len < 0 /\ Terminate
  BY DEF Damage, Damaged
<1>2. ~BodyFits
  <2>1. Len(msg.data) \in Nat /\ msg.total_len \in Int
    BY LenProperties DEF IInv, Nodes, Node
  <2> QED
    BY <1>1, <2>1 DEF BodyFits
<1>3. k \in 1 .. Len(frames) /\ frames[k].msg_len < 0
  <2>1. k <= Len(frames) /\ frames[k].msg_len = -1
    BY <1>2 DEF IInv, Nodes
  <2>2. k \in Nat /\ k >= 1 /\ Len(frames) \in Nat
    BY LenProperties, StreamFacts DEF IInv, Prefix, Numbers, k
  <2> QED
    BY <2>1, <2>2
<1> QED
  BY <1>1, <1>3, TerminateKeeps

\* The body node gets the first bytes of frame k's body.
LEMMA HeadThenPartialBodyKeeps == IInv /\ HeadThenPartialBody => IInv'
<1> SUFFICES ASSUME IInv, HeadThenPartialBody PROVE IInv'
  OBVIOUS
<1> DEFINE rest == bytes_transfered - head_remain
           body == start[k] + HEAD_TOTAL_LEN
<1>1. HeadComplete /\ Handling /\ Environment
  BY DEF HeadThenPartialBody, HeadComplete
<1>2. /\ _b_head_parse' = TRUE /\ Rearm
      /\ UNCHANGED <<head, posted, cleared>>
  BY DEF HeadThenPartialBody
<1>3. /\ ~Invalid(frames[k]) /\ frames[k].msg_len >= -1
      /\ Below(rest, frames[k].msg_len)
      /\ msg' = [msg_id |-> frames[k].msg_id, total_len |-> frames[k].msg_len,
                 data |-> Run(base + copy_len + head_remain, rest)]
  BY <1>1, HeaderDecoded DEF HeadThenPartialBody
<1>4. /\ k \in 1 .. Len(frames) /\ base + copy_len = taken /\ start[k] \in Nat
      /\ frames[k].msg_id \in Int /\ frames[k].msg_len \in Int
      /\ HEAD_TOTAL_LEN \in Nat /\ bytes_transfered \in Nat /\ MAX_LENGTH \in Nat
  BY <1>1, WithinFrame
<1>5. /\ rest \in Nat /\ taken + head_remain = body /\ body \in Nat
      /\ taken + bytes_transfered = body + rest
  <2>1. /\ head_remain \in Nat /\ head_remain <= bytes_transfered
        /\ taken + head_remain = start[k] + HEAD_TOTAL_LEN
    BY <1>1, HeaderDecoded
  <2>2. taken \in Nat
    BY <1>1, WithinFrame
  <2> QED
    BY <1>4, <2>1, <2>2
<1>6. /\ Run(body, rest) \in Seq(Nat) /\ Len(Run(body, rest)) = rest
  BY <1>5, RunSeq
<1>7. /\ Numbers' /\ Mode' /\ EndsOverLength'
      /\ taken' = taken + bytes_transfered
  BY <1>1, <1>2, ReadsOn
<1>8. k' = k /\ start' = start /\ frames' = frames
  BY <1>1, <1>2 DEF k, start, frames, Environment
<1>9. Prefix'
  BY <1>2, <1>8 DEF IInv, Prefix, FramesReassembled, Sent
<1>10. msg' = [msg_id |-> frames[k].msg_id, total_len |-> frames[k].msg_len,
               data |-> Run(body, rest)]
  BY <1>3, <1>4, <1>5
<1>11. Nodes'
  <2>1. frames[k].msg_len <= MAX_LENGTH
    BY <1>3, <1>4 DEF Invalid
  <2>2. msg' \in Node
    BY <1>4, <1>6, <1>10 DEF Node
  <2>3. ~BodyFits' => k' <= Len(frames') /\ frames'[k'].msg_len = -1
    <3>1. CASE frames[k].msg_len = -1
      BY <1>4, <1>8, <3>1
    <3>2. CASE frames[k].msg_len # -1
      <4>1. rest < frames[k].msg_len
        BY <1>3, <1>4, <3>2 DEF Below
      <4>2. BodyFits'
        BY <1>4, <1>5, <1>6, <1>10, <2>1, <4>1 DEF BodyFits
      <4> QED
        BY <4>2
    <3> QED
      BY <3>1, <3>2
  <2>4. head' \in Seq(Nat) /\ Len(head') < HEAD_TOTAL_LEN
    BY <1>2 DEF IInv, Nodes
  <2> QED
    BY <2>2, <2>3, <2>4 DEF Nodes
<1>12. HeadNode'
  BY <1>2 DEF HeadNode
<1>13. BodyNode'
  <2>1. /\ msg'.msg_id = frames[k].msg_id /\ msg'.total_len = frames[k].msg_len
        /\ Len(msg'.data) = rest /\ msg'.data = Run(body, rest)
    BY <1>6, <1>10
  <2>2. taken' = body + Len(msg'.data)
    BY <1>5, <1>7, <2>1
  <2>3. msg'.total_len = -1 \/ Len(msg'.data) < msg'.total_len
    BY <1>3, <1>4, <2>1 DEF Below
  <2> QED
    BY <1>3, <1>4, <1>8, <2>1, <2>2, <2>3 DEF BodyNode
<1> QED
  BY <1>7, <1>9, <1>11, <1>12, <1>13 DEF IInv

(***************************************************************************)
(* The rounds that finish a frame.                                         *)
(***************************************************************************)
\* Whether it reads on or goes into another round, the handler has used up
\* exactly the bytes the round took.
LEMMA NextRoundKeeps ==
  ASSUME IInv, Handling, Environment, UNCHANGED cleared,
         _b_head_parse' \in BOOLEAN,
         NEW used \in Nat, used <= bytes_transfered, NextRound(used)
  PROVE  Numbers' /\ Mode' /\ EndsOverLength' /\ taken' = taken + used
<1>1. /\ stream \in Streams /\ delivered \in Nat /\ delivered <= StreamLen
      /\ base \in Nat /\ copy_len \in Nat /\ bytes_transfered \in Nat
      /\ base + copy_len + bytes_transfered = delivered
      /\ copy_len + bytes_transfered <= MAX_LENGTH /\ MAX_LENGTH \in Nat
      /\ cleared \in BOOLEAN /\ ~cleared /\ ~armed /\ ended = FALSE
  BY WithinFrame DEF IInv, Numbers
<1>2. CASE bytes_transfered - used <= 0
  <2>1. Rearm /\ used = bytes_transfered
    BY <1>1, <1>2 DEF NextRound
  <2> QED
    BY <2>1, ReadsOn
<1>3. CASE ~(bytes_transfered - used <= 0)
  <2>1. /\ bytes_transfered' = bytes_transfered - used
        /\ copy_len' = copy_len + used
        /\ UNCHANGED <<armed, cleared, ended, stream, delivered, base>>
    BY <1>3 DEF NextRound, Environment
  <2>2. bytes_transfered' \in Nat /\ bytes_transfered' > 0 /\ Handling'
    BY <1>1, <1>3, <2>1 DEF Handling
  <2>3. StreamLen' = StreamLen
    BY <2>1 DEF StreamLen, start, frames
  <2>4. Mode'
    BY <1>1, <2>1, <2>2 DEF Mode, NeverDeaf, ClearedIsFinal
  <2>5. /\ copy_len' \in Nat
        /\ base' + copy_len' + bytes_transfered' = delivered'
        /\ copy_len' + bytes_transfered' <= MAX_LENGTH
    BY <1>1, <2>1
  <2>6. armed' \in BOOLEAN /\ ended' \in BOOLEAN
    BY <2>1 DEF IInv, Numbers
  <2>7. Numbers'
    BY <1>1, <2>1, <2>2, <2>3, <2>5, <2>6 DEF Numbers
  <2>8. taken' = taken + used
    BY <1>1, <2>1 DEF taken
  <2>9. EndsOverLength'
    BY <1>1, <2>1 DEF EndsOverLength
  <2> QED
    BY <2>4, <2>7, <2>8, <2>9
<1> QED
  BY <1>2, <1>3

\* Posting a body node that holds frame k's body extends the prefix by one, and
\* the empty header node is right for the next frame.
LEMMA FrameDone ==
  ASSUME IInv, Handling, Environment, Numbers', Mode', EndsOverLength',
         NEW node \in Node, FinishFrame(node), ~Invalid(frames[k]),
         node.msg_id = frames[k].msg_id, node.total_len = frames[k].msg_len,
         node.data = Run(start[k] + HEAD_TOTAL_LEN, frames[k].msg_len),
         frames[k].msg_len \in Nat,
         taken' = start[k + 1]
  PROVE  IInv'
<1>1. /\ posted' = Append(posted, Sent(k)) /\ msg' = node
      /\ _b_head_parse' = FALSE /\ head' = <<>>
  BY DEF FinishFrame, Sent, BodyLen
<1>2. /\ k \in 1 .. Len(frames) /\ start[k] \in Nat /\ start[k + 1] \in Nat
      /\ frames[k].msg_id \in Int /\ HEAD_TOTAL_LEN \in Nat \ {0}
      /\ MAX_LENGTH \in Nat
  BY WithinFrame
<1>3. start' = start /\ frames' = frames
  BY DEF start, frames, Environment
<1>4. posted \in Seq(Frame) /\ Len(posted) \in Nat /\ Len(posted) < Len(frames)
  BY <1>2, LenProperties DEF IInv, Prefix, k
<1>5. /\ Sent(k) \in Frame /\ Len(node.data) = frames[k].msg_len
      /\ ~Bad(frames[k]) /\ frames[k].msg_len <= MAX_LENGTH
  <2>1. start[k] + HEAD_TOTAL_LEN \in Nat
    BY <1>2
  <2>2. /\ Run(start[k] + HEAD_TOTAL_LEN, frames[k].msg_len) \in Seq(Nat)
        /\ Len(Run(start[k] + HEAD_TOTAL_LEN, frames[k].msg_len))
             = frames[k].msg_len
    BY <1>2, <2>1, RunSeq
  <2>3. ~Bad(frames[k]) /\ frames[k].msg_len <= MAX_LENGTH
    BY <1>2 DEF Bad, Invalid
  <2>4. Sent(k) \in Frame
    BY <1>2, <2>2 DEF Sent, Frame, BodyLen
  <2> QED
    BY <2>2, <2>3, <2>4
<1>6. /\ posted' \in Seq(Frame) /\ Len(posted') = Len(posted) + 1
      /\ \A j \in 1 .. Len(posted) : posted'[j] = posted[j]
      /\ posted'[Len(posted) + 1] = Sent(k)
  BY <1>1, <1>4, <1>5, AppendProperties
<1>7. k' = k + 1
  BY <1>4, <1>6 DEF k
<1>8. Prefix'
  <2>1. Len(posted') <= Len(frames')
    BY <1>3, <1>4, <1>6
  <2>2. ASSUME NEW j \in 1 .. Len(posted')
        PROVE  posted'[j] = Sent(j)' /\ ~Bad(frames'[j])
    <3>1. Sent(j)' = Sent(j) /\ frames'[j] = frames[j]
      BY <1>3 DEF Sent
    <3>2. CASE j \in 1 .. Len(posted)
      <4>1. posted[j] = Sent(j) /\ ~Bad(frames[j])
        BY <3>2 DEF IInv, Prefix, FramesReassembled
      <4> QED
        BY <1>6, <3>1, <3>2, <4>1
    <3>3. CASE j = Len(posted) + 1
      BY <1>5, <1>6, <3>1, <3>3 DEF k
    <3> QED
      BY <1>4, <1>6, <3>2, <3>3
  <2> QED
    BY <1>6, <2>1, <2>2 DEF Prefix, FramesReassembled
<1>9. Nodes'
  BY <1>1, <1>2, <1>5, EmptySeq DEF Nodes, BodyFits
<1>10. HeadNode'
  <2>1. Len(head') = 0 /\ head' = Run(start[k + 1], 0)
    BY <1>1 DEF Run
  <2>2. taken' = start[k + 1] + 0 /\ 0 < HEAD_TOTAL_LEN
    BY <1>2
  <2> QED
    BY <1>3, <1>7, <2>1, <2>2 DEF HeadNode
<1>11. BodyNode'
  BY <1>1 DEF BodyNode
<1> QED
  BY <1>8, <1>9, <1>10, <1>11 DEF IInv

LEMMA HeadThenWholeBodyKeeps == IInv /\ HeadThenWholeBody => IInv'
<1> SUFFICES ASSUME IInv, HeadThenWholeBody PROVE IInv'
  OBVIOUS
<1> DEFINE body == start[k] + HEAD_TOTAL_LEN
           node == [msg_id |-> frames[k].msg_id,
                    total_len |-> frames[k].msg_len,
                    data |-> Run(body, frames[k].msg_len)]
           used == head_remain + frames[k].msg_len
<1>1. HeadComplete /\ Handling /\ Environment /\ UNCHANGED cleared
  BY DEF HeadThenWholeBody, HeadComplete
<1>2. /\ k \in 1 .. Len(frames) /\ base + copy_len = taken /\ start[k] \in Nat
      /\ frames[k].msg_id \in Int /\ frames[k].msg_len \in Int
      /\ HEAD_TOTAL_LEN \in Nat /\ bytes_transfered \in Nat /\ MAX_LENGTH \in Nat
      /\ start[k + 1] = start[k] + HEAD_TOTAL_LEN + BodyLen(frames[k])
      /\ taken \in Nat
  BY <1>1, WithinFrame
<1>3. /\ head_remain \in Nat /\ head_remain <= bytes_transfered
      /\ taken + head_remain = body
      /\ Decode(whole_head) = {frames[k]}
  BY <1>1, HeaderDecoded
<1>4. /\ ~Invalid(frames[k])
      /\ ~Below(bytes_transfered - head_remain, frames[k].msg_len)
      /\ FinishFrame([msg_id |-> frames[k].msg_id,
                      total_len |-> frames[k].msg_len,
                      data |-> Run(base + copy_len + head_remain,
                                   frames[k].msg_len)])
      /\ NextRound(used)
  BY <1>3 DEF HeadThenWholeBody
<1>5. base + copy_len + head_remain = body /\ body \in Nat
  BY <1>2, <1>3
<1>6. FinishFrame(node)
  BY <1>4, <1>5
<1>7. /\ used \in Nat /\ used <= bytes_transfered
      /\ frames[k].msg_len \in Nat /\ BodyLen(frames[k]) = frames[k].msg_len
  <2>1. /\ bytes_transfered - head_remain >= frames[k].msg_len
        /\ frames[k].msg_len >= 0
    <3>1. bytes_transfered - head_remain \in Nat
      BY <1>2, <1>3
    <3> QED
      BY <1>2, <1>4, <3>1 DEF Below
  <2>2. /\ head_remain \in Nat /\ frames[k].msg_len \in Nat
        /\ bytes_transfered \in Nat
    BY <1>2, <1>3, <2>1
  <2> QED
    BY <2>1, <2>2 DEF BodyLen
<1>8. _b_head_parse' \in BOOLEAN
  BY <1>6 DEF FinishFrame
<1>9. Numbers' /\ Mode' /\ EndsOverLength' /\ taken' = taken + used
  <2> HIDE DEF used
  <2> QED
    BY <1>1, <1>4, <1>7, <1>8, NextRoundKeeps
<1>10. taken' = start[k + 1]
  BY <1>2, <1>3, <1>7, <1>9
<1>11. node \in Node
  <2>1. Run(body, frames[k].msg_len) \in Seq(Nat)
    <3> HIDE DEF body
    <3> QED
      BY <1>5, <1>7, RunSeq
  <2> QED
    BY <1>2, <2>1 DEF Node
<1>12. /\ node.msg_id = frames[k].msg_id /\ node.total_len = frames[k].msg_len
       /\ node.data = Run(start[k] + HEAD_TOTAL_LEN, frames[k].msg_len)
  OBVIOUS
<1> HIDE DEF node
<1> QED
  BY <1>1, <1>4, <1>6, <1>7, <1>9, <1>10, <1>11, <1>12, FrameDone

(***************************************************************************)
(* The rounds that go on with a body.                                      *)
(***************************************************************************)
\* The first n bytes of a piece continue the body node's bytes.
LEMMA BodyGrows ==
  ASSUME IInv, Handling, _b_head_parse, NEW n \in Nat
  PROVE  /\ Len(msg.data) \in Nat
         /\ msg.data \o Copy(n)
              = Run(start[k] + HEAD_TOTAL_LEN, Len(msg.data) + n)
         /\ msg.data \o Copy(n) \in Seq(Nat)
         /\ Len(msg.data \o Copy(n)) = Len(msg.data) + n
<1> DEFINE body == start[k] + HEAD_TOTAL_LEN
<1>1. /\ Served /\ start[k] \in Nat /\ HEAD_TOTAL_LEN \in Nat
      /\ taken \in Nat /\ body \in Nat
  BY WithinFrame
<1>2. Len(msg.data) \in Nat
  <2>1. msg.data \in Seq(Nat)
    BY DEF IInv, Nodes, Node
  <2> QED
    BY <2>1, LenProperties
<1>3. taken = body + Len(msg.data) /\ msg.data = Run(body, Len(msg.data))
  BY <1>1 DEF IInv, BodyNode
<1>4. Copy(n) = Run(body + Len(msg.data), n)
  BY <1>3, CopyIsNext
<1>5. Run(body, Len(msg.data)) \o Run(body + Len(msg.data), n)
        = Run(body, Len(msg.data) + n)
  <2> HIDE DEF body
  <2> QED
    BY <1>1, <1>2, RunConcat, Zenon
<1>6. msg.data \o Copy(n) = Run(body, Len(msg.data) + n)
  BY <1>3, <1>4, <1>5, Zenon
<1>7. Len(msg.data) + n \in Nat
  BY <1>2
<1> HIDE DEF body
<1>8. /\ Run(body, Len(msg.data) + n) \in Seq(Nat)
      /\ Len(Run(body, Len(msg.data) + n)) = Len(msg.data) + n
  BY <1>1, <1>7, RunSeq, Zenon
<1>9. /\ msg.data \o Copy(n) \in Seq(Nat)
      /\ Len(msg.data \o Copy(n)) = Len(msg.data) + n
  BY <1>6, <1>8, Zenon
<1> QED
  BY <1>2, <1>6, <1>9 DEF body

LEMMA BodyPartialKeeps == IInv /\ BodyPartial => IInv'
<1> SUFFICES ASSUME IInv, BodyPartial PROVE IInv'
  OBVIOUS
<1> DEFINE body == start[k] + HEAD_TOTAL_LEN
           n == bytes_transfered
           data == msg.data \o Copy(n)
<1>1. /\ Handling /\ _b_head_parse /\ Environment /\ Rearm
      /\ Below(n, remain_msg) /\ msg' = [msg EXCEPT !.data = data]
      /\ UNCHANGED <<_b_head_parse, head, posted, cleared>>
  BY DEF BodyPartial
<1>2. /\ Served /\ n \in Nat /\ start[k] \in Nat /\ HEAD_TOTAL_LEN \in Nat
      /\ taken \in Nat /\ body \in Nat
  BY <1>1, WithinFrame
<1>3. /\ Len(msg.data) \in Nat /\ data = Run(body, Len(msg.data) + n)
      /\ data \in Seq(Nat) /\ Len(data) = Len(msg.data) + n
  BY <1>1, <1>2, BodyGrows
<1>4. /\ k <= Len(frames) /\ taken = body + Len(msg.data)
      /\ msg.msg_id = frames[k].msg_id /\ msg.total_len = frames[k].msg_len
      /\ msg.total_len = -1 \/ Len(msg.data) < msg.total_len
      /\ ~Invalid(frames[k]) /\ frames[k].msg_len \in Int
  BY <1>1, <1>2, WithinFrame DEF IInv, BodyNode
<1>5. /\ msg \in Node /\ msg.total_len <= MAX_LENGTH
      /\ head \in Seq(Nat) /\ Len(head) < HEAD_TOTAL_LEN
  <2>1. msg.total_len <= MAX_LENGTH
    BY <1>4, StreamAssumption DEF Invalid
  <2> QED
    BY <2>1 DEF IInv, Nodes
<1> HIDE DEF data
<1>6. /\ msg' \in Node
      /\ msg'.msg_id = msg.msg_id /\ msg'.total_len = msg.total_len
      /\ msg'.data = data
  BY <1>1, <1>3, <1>5 DEF Node
<1>7. msg'.total_len = -1 \/ Len(msg'.data) < msg'.total_len
  <2>1. CASE msg.total_len = -1
    BY <1>6, <2>1
  <2>2. CASE msg.total_len # -1
    <3>1. msg.total_len \in Int /\ Len(msg.data) < msg.total_len
      BY <1>4, <2>2
    <3>2. n < msg.total_len - Len(msg.data)
      BY <1>1, <1>3, <3>1 DEF remain_msg, Below
    <3>3. Len(data) < msg.total_len
      BY <1>2, <1>3, <3>1, <3>2
    <3> QED
      BY <1>6, <3>3
  <2> QED
    BY <2>1, <2>2
<1>8. Numbers' /\ Mode' /\ EndsOverLength' /\ taken' = taken + n
  BY <1>1, ReadsOn
<1>9. k' = k /\ start' = start /\ frames' = frames
  BY <1>1 DEF k, start, frames, Environment
<1>10. Prefix'
  BY <1>1, <1>9 DEF IInv, Prefix, FramesReassembled, Sent
<1>11. Nodes'
  <2>1. ~BodyFits' => k' <= Len(frames') /\ frames'[k'].msg_len = -1
    <3>1. CASE msg.total_len = -1
      BY <1>4, <1>9, <3>1
    <3>2. CASE msg.total_len # -1
      <4>1. Len(msg'.data) < msg'.total_len /\ msg'.total_len <= MAX_LENGTH
        BY <1>5, <1>6, <1>7, <3>2
      <4>2. Len(msg'.data) \in Nat /\ msg'.total_len \in Int
        BY <1>2, <1>3, <1>4, <1>6
      <4>3. BodyFits'
        BY <4>1, <4>2 DEF BodyFits
      <4> QED
        BY <4>3
    <3> QED
      BY <3>1, <3>2
  <2> QED
    BY <1>1, <1>5, <1>6, <2>1 DEF Nodes
<1>12. HeadNode'
  BY <1>1 DEF HeadNode
<1>13. BodyNode'
  <2>1. Len(msg'.data) = Len(msg.data) + n
    BY <1>3, <1>6, Zenon
  <2>2. msg'.data = Run(body, Len(msg'.data))
    BY <1>3, <1>6, <2>1, Zenon
  <2>3. taken' = body + Len(msg'.data)
    <3>1. taken + n = body + (Len(msg.data) + n)
      <4>1. /\ taken = body + Len(msg.data) /\ n \in Nat /\ body \in Nat
            /\ Len(msg.data) \in Nat
        BY <1>2, <1>3, <1>4
      <4> HIDE DEF body
      <4> QED
        BY <4>1
    <3> QED
      BY <1>8, <2>1, <3>1
  <2> QED
    BY <1>4, <1>6, <1>7, <1>9, <2>2, <2>3 DEF BodyNode
<1> QED
  BY <1>8, <1>10, <1>11, <1>12, <1>13 DEF IInv

LEMMA BodyWholeKeeps == IInv /\ BodyWhole => IInv'
<1> SUFFICES ASSUME IInv, BodyWhole PROVE IInv'
  OBVIOUS
<1> DEFINE body == start[k] + HEAD_TOTAL_LEN
           data == msg.data \o Copy(remain_msg)
           node == [msg EXCEPT !.data = data]
<1>1. /\ Handling /\ _b_head_parse /\ Environment /\ UNCHANGED cleared
      /\ ~Below(bytes_transfered, remain_msg)
      /\ FinishFrame(node) /\ NextRound(remain_msg)
  BY DEF BodyWhole, TakeRemaining
<1>2. /\ Served /\ bytes_transfered \in Nat /\ start[k] \in Nat
      /\ HEAD_TOTAL_LEN \in Nat /\ taken \in Nat /\ body \in Nat
      /\ frames[k].msg_len \in Int
      /\ start[k + 1] = start[k] + HEAD_TOTAL_LEN + BodyLen(frames[k])
  BY <1>1, WithinFrame
<1>3. /\ taken = body + Len(msg.data) /\ ~Invalid(frames[k])
      /\ msg.total_len = -1 \/ Len(msg.data) < msg.total_len
      /\ msg.msg_id = frames[k].msg_id /\ msg.total_len = frames[k].msg_len
  BY <1>1, <1>2 DEF IInv, BodyNode
<1>4. msg \in Node /\ Len(msg.data) \in Nat
  <2>1. msg \in Node
    BY DEF IInv, Nodes
  <2> QED
    BY <2>1, LenProperties DEF Node
<1>5. /\ remain_msg \in Nat /\ Len(msg.data) + remain_msg = frames[k].msg_len
      /\ remain_msg <= bytes_transfered
  <2>1. /\ msg.total_len \in Int /\ remain_msg = msg.total_len - Len(msg.data)
        /\ Len(msg.data) \in Nat
    BY <1>4 DEF remain_msg, Node
  <2>2. remain_msg >= 0 /\ remain_msg <= bytes_transfered
    BY <1>1, <1>2, <2>1 DEF Below
  <2>3. remain_msg \in Nat /\ Len(msg.data) + remain_msg = msg.total_len
    BY <2>1, <2>2
  <2> QED
    BY <1>3, <2>2, <2>3
<1>11. frames[k].msg_len \in Nat /\ BodyLen(frames[k]) = frames[k].msg_len
  BY <1>4, <1>5 DEF BodyLen
<1>6. data = Run(body, frames[k].msg_len) /\ data \in Seq(Nat)
  BY <1>1, <1>5, BodyGrows
<1> HIDE DEF data
<1>7. /\ node \in Node
      /\ node.msg_id = frames[k].msg_id /\ node.total_len = frames[k].msg_len
      /\ node.data = Run(start[k] + HEAD_TOTAL_LEN, frames[k].msg_len)
  BY <1>3, <1>4, <1>6 DEF Node
<1>8. _b_head_parse' \in BOOLEAN
  BY <1>1 DEF FinishFrame
<1>9. Numbers' /\ Mode' /\ EndsOverLength' /\ taken' = taken + remain_msg
  BY <1>1, <1>5, <1>8, NextRoundKeeps
<1>10. taken' = start[k + 1]
  BY <1>2, <1>3, <1>4, <1>5, <1>11, <1>9
<1> HIDE DEF node
<1> QED
  BY <1>1, <1>3, <1>11, <1>7, <1>9, <1>10, FrameDone

(***************************************************************************)
(* The socket's actions.                                                   *)
(***************************************************************************)
LEMMA ReadSomeKeeps == IInv /\ ReadSome => IInv'
<1> SUFFICES ASSUME IInv, ReadSome PROVE IInv'
  OBVIOUS
<1>1. /\ stream \in Streams /\ delivered \in Nat /\ delivered <= StreamLen
      /\ bytes_transfered \in Nat /\ _b_head_parse \in BOOLEAN
      /\ StreamLen \in Nat /\ MAX_LENGTH \in Nat
  BY StreamFacts, StreamAssumption DEF IInv, Numbers
<1>2. PICK n \in 1 .. Min2(MAX_LENGTH, StreamLen - delivered) : Deliver(n)
  BY DEF ReadSome
<1>3. n \in Nat /\ n > 0 /\ n <= MAX_LENGTH /\ delivered + n <= StreamLen
  BY <1>1, <1>2 DEF Min2
<1>4. /\ armed /\ armed' = FALSE /\ base' = delivered
      /\ delivered' = delivered + n /\ bytes_transfered' = n /\ copy_len' = 0
      /\ UNCHANGED <<stream, nodes, posted, cleared, lost, ended>>
  BY <1>2 DEF Deliver
<1>5. /\ ~cleared /\ ~Handling /\ bytes_transfered = 0 /\ cleared' = FALSE
      /\ ended = FALSE
  <2>1. ~cleared /\ ~Handling /\ ended = FALSE
    BY <1>4 DEF IInv, Mode, NeverDeaf, ClearedIsFinal, Numbers
  <2> QED
    BY <1>1, <1>4, <2>1 DEF Handling, IInv, Numbers
<1>6. /\ k' = k /\ start' = start /\ frames' = frames
      /\ StreamLen' = StreamLen /\ taken' = taken /\ Handling'
      /\ UNCHANGED <<_b_head_parse, head, msg>>
  <2>1. taken' = taken
    BY <1>1, <1>3, <1>4, <1>5 DEF taken
  <2>2. Handling'
    BY <1>3, <1>4 DEF Handling
  <2> QED
    BY <1>4, <2>1, <2>2 DEF k, start, frames, StreamLen, nodes
<1>7. Numbers'
  <2>1. /\ base' + copy_len' + bytes_transfered' = delivered'
        /\ copy_len' + bytes_transfered' <= MAX_LENGTH
        /\ delivered' \in Nat /\ delivered' <= StreamLen'
        /\ copy_len' \in Nat /\ base' \in Nat /\ bytes_transfered' \in Nat
    BY <1>1, <1>3, <1>4, <1>6
  <2>2. /\ armed' \in BOOLEAN /\ cleared' \in BOOLEAN
        /\ _b_head_parse' \in BOOLEAN /\ stream' \in Streams
        /\ ended' \in BOOLEAN
    BY <1>1, <1>4, <1>5, <1>6
  <2> QED
    BY <2>1, <2>2 DEF Numbers
<1>8. Mode' /\ EndsOverLength'
  BY <1>4, <1>5, <1>6 DEF Mode, NeverDeaf, ClearedIsFinal, EndsOverLength
<1>9. Prefix'
  BY <1>4, <1>6 DEF IInv, Prefix, FramesReassembled, Sent
<1>10. Nodes' /\ HeadNode' /\ BodyNode'
  BY <1>4, <1>6 DEF IInv, Nodes, HeadNode, BodyNode, BodyFits, Served
<1> QED
  BY <1>7, <1>8, <1>9, <1>10 DEF IInv

LEMMA ReadErrorKeeps == IInv /\ ReadError => IInv'
<1> SUFFICES ASSUME IInv, ReadError PROVE IInv'
  OBVIOUS
<1>1. /\ armed /\ armed' = FALSE /\ cleared' = TRUE
      /\ UNCHANGED <<stream, delivered, base, copy_len, bytes_transfered,
                     nodes, posted, ended>>
  BY DEF ReadError
<1>2. /\ k' = k /\ start' = start /\ frames' = frames
      /\ StreamLen' = StreamLen /\ UNCHANGED <<_b_head_parse, head, msg>>
      /\ Handling' = Handling
  BY <1>1 DEF k, start, frames, StreamLen, Handling, nodes
<1>3. ~Handling
  BY <1>1 DEF IInv, Mode, NeverDeaf
<1>4. Numbers'
  BY <1>1, <1>2, <1>3 DEF IInv, Numbers
<1>5. Mode' /\ EndsOverLength'
  BY <1>1, <1>2, <1>3 DEF IInv, Mode, NeverDeaf, ClearedIsFinal, EndsOverLength
<1>6. Prefix' /\ Nodes'
  BY <1>1, <1>2 DEF IInv, Prefix, FramesReassembled, Sent, Nodes, BodyFits
<1>7. HeadNode' /\ BodyNode'
  BY <1>1 DEF HeadNode, BodyNode, Served
<1> QED
  BY <1>4, <1>5, <1>6, <1>7 DEF IInv

LEMMA StutterKeeps == IInv /\ UNCHANGED vars => IInv'
BY DEF vars, nodes, IInv, Numbers, Mode, NeverDeaf, ClearedIsFinal, Prefix,
       FramesReassembled, Sent, Nodes, HeadNode, BodyNode, Handling, k, taken,
       start, frames, StreamLen, EndsOverLength, BodyFits, Served

LEMMA NextIInv == IInv /\ [Next]_vars => IInv'
<1> SUFFICES ASSUME IInv, [Next]_vars PROVE IInv'
  OBVIOUS
<1>1. CASE ReadSome
  BY <1>1, ReadSomeKeeps
<1>2. CASE ReadError
  BY <1>2, ReadErrorKeeps
<1>3. CASE Round
  BY <1>3, HeadPartialKeeps, RejectHeadKeeps, NodeThrowsKeeps,
     HeadThenPartialBodyKeeps,
     HeadThenWholeBodyKeeps, BodyPartialKeeps, BodyWholeKeeps DEF Round
<1>4. CASE Damage
  BY <1>4, DamageKeeps
<1>5. CASE UNCHANGED vars
  BY <1>5, StutterKeeps
<1> QED
  BY <1>1, <1>2, <1>3, <1>4, <1>5 DEF Next

LEMMA IInvHolds == Spec => []IInv
BY InitIInv, NextIInv, PTL DEF Spec

-----------------------------------------------------------------------------
(***************************************************************************)
(* The theorems.                                                           *)
(***************************************************************************)
\* The types of the session's state.
THEOREM TypesHold == Spec => []TypeOK
<1>1. Init => lost \in BOOLEAN
  BY DEF Init
<1>2. lost \in BOOLEAN /\ [Next]_vars => (lost \in BOOLEAN)'
  <2> SUFFICES ASSUME lost \in BOOLEAN, [Next]_vars PROVE lost' \in BOOLEAN
    OBVIOUS
  <2>1. CASE ReadSome
    BY <2>1 DEF ReadSome, Deliver
  <2>2. CASE ReadError
    BY <2>2 DEF ReadError
  <2>3. CASE Round
    BY <2>3 DEF Round, HeadPartial, RejectHead, HeadThenPartialBody,
                HeadThenWholeBody, BodyPartial, BodyWhole, NodeThrows,
                Terminate, Environment
  <2>4. CASE Damage
    BY <2>4 DEF Damage, Terminate
  <2>5. CASE UNCHANGED vars
    BY <2>5 DEF vars
  <2> QED
    BY <2>1, <2>2, <2>3, <2>4, <2>5 DEF Next
<1>3. IInv /\ lost \in BOOLEAN => TypeOK
  BY StreamAssumption DEF IInv, Numbers, Prefix, Nodes, TypeOK
<1> QED
  BY <1>1, <1>2, <1>3, IInvHolds, PTL DEF Spec

\* handle_Read puts the frames together whatever pieces the stream comes in.
THEOREM Reassembly == Spec => []FramesReassembled
<1>1. IInv => FramesReassembled
  BY DEF IInv, Prefix
<1> QED
  BY <1>1, IInvHolds, PTL

\* The memcpys of handle_Read stay inside the header node and inside _data, and
\* inside the body node unless the frame being read has the length -1, whatever
\* other lengths the peer sends.
THEOREM BuffersSafe == Spec => []NoOverrun
<1>1. IInv => NoOverrun
  BY DEF IInv, Nodes, Numbers, NoOverrun, k
<1> QED
  BY <1>1, IInvHolds, PTL

\* Exactly one of: a read outstanding, a handler running, the session cleared for
\* good, the process ended by a negative length.
THEOREM ReadChain == Spec => []OneReadChain
<1>1. IInv => OneReadChain
  BY DEF IInv, Mode, OneReadChain, NeverDeaf, ClearedIsFinal
<1> QED
  BY <1>1, IInvHolds, PTL

\* Both, for every stream, header length and MAX_LENGTH.
THEOREM ReadingIsSafeHolds == Spec => []ReadingIsSafe
BY BuffersSafe, ReadChain, PTL DEF ReadingIsSafe
=============================================================================
