-------------------------- MODULE SendQueueProofs --------------------------
(***************************************************************************)
(* Proofs about SendQueue, for any set of messages, any number of pieces    *)
(* per frame and any limit.                                                *)
(***************************************************************************)
EXTENDS SendQueue, FiniteSetTheorems, SequenceTheorems, TLAPS

(***************************************************************************)
(* The inductive invariant: a session is idle, or writes the front of its   *)
(* queue, or waits for the handler of that write, or has seen a write fail. *)
(***************************************************************************)
Op == [msg : Msg, next : 1 .. Parts + 1]

Idle == writes = {} /\ completions = <<>> /\ _send_queue = <<>> /\ ~cleared
WritingFront ==
  /\ \E w \in Op : writes = {w} /\ w.msg = Head(_send_queue)
  /\ completions = <<>> /\ _send_queue # <<>> /\ ~cleared
AwaitingHandler ==
  /\ writes = {} /\ _send_queue # <<>> /\ ~cleared
  /\ completions = <<"success">> \/ completions = <<"error">>
WriteFailed ==
  writes = {} /\ completions = <<>> /\ _send_queue # <<>> /\ cleared

Phase == Idle \/ WritingFront \/ AwaitingHandler \/ WriteFailed

IInv == TypeOK /\ Phase

LEMMA InitIInv == Init => IInv
<1> SUFFICES ASSUME Init PROVE IInv
  OBVIOUS
<1>1. /\ _send_queue \in Seq(Msg) /\ accepted \in Seq(Msg)
      /\ completions \in Seq({"success", "error"})
      /\ wire \in Seq(Msg \X (1 .. Parts))
  BY EmptySeq, Zenon DEF Init
<1>2. Len(_send_queue) <= MAX_SEND_QUEUE + 1
  BY SendAssumption DEF Init
<1>3. TypeOK
  BY <1>1, <1>2 DEF Init, TypeOK
<1>4. Idle
  BY DEF Init, Idle
<1> QED
  BY <1>3, <1>4 DEF IInv, Phase

\* A non-empty queue keeps its front when a node is added behind.
LEMMA AppendKeepsFront ==
  ASSUME NEW q \in Seq(Msg), NEW m \in Msg
  PROVE  /\ Append(q, m) \in Seq(Msg) /\ Append(q, m) # <<>>
         /\ Len(Append(q, m)) = Len(q) + 1
         /\ q # <<>> => Head(Append(q, m)) = Head(q)
         /\ q = <<>> => Head(Append(q, m)) = m
BY AppendProperties, HeadTailAppend

LEMMA SendKeeps ==
  ASSUME IInv, NEW m \in Msg, SendQueued(m)
  PROVE  IInv'
<1>1. /\ _send_queue \in Seq(Msg) /\ Len(_send_queue) \in Nat
      /\ Len(_send_queue) <= MAX_SEND_QUEUE
      /\ _send_queue' = Append(_send_queue, m)
      /\ UNCHANGED <<completions, wire, broken, cleared>>
  BY SendAssumption, LenProperties DEF IInv, TypeOK, SendQueued, QueueFull
<1>2. /\ _send_queue' \in Seq(Msg) /\ _send_queue' # <<>>
      /\ Len(_send_queue') = Len(_send_queue) + 1
  BY <1>1, AppendKeepsFront
<1>3. SendStarts <=> _send_queue = <<>>
  BY <1>1, EmptySeq DEF SendStarts
<1>4. /\ TypeOK'
      /\ Phase'
  <2>1. CASE _send_queue = <<>>
    <3>1. Idle
      BY <2>1 DEF IInv, Phase, Idle, WritingFront, AwaitingHandler, WriteFailed
    <3>2. Head(_send_queue') = m
      BY <1>1, <2>1, AppendKeepsFront
    <3> DEFINE op == [msg |-> m, next |-> 1]
    <3>3. writes' = {op}
      BY <1>1, <1>3, <2>1, <3>1, <3>2 DEF SendQueued, StartWrite, Idle
    <3>4. op \in Op /\ op.msg = m
      BY SendAssumption DEF Op
    <3>5. WritingFront'
      BY <1>1, <1>2, <3>1, <3>2, <3>3, <3>4 DEF WritingFront, Idle
    <3>6. TypeOK'
      BY <1>1, <1>2, <3>3, <3>4, SendAssumption, AppendProperties
      DEF IInv, TypeOK, SendQueued, Op
    <3> QED
      BY <3>5, <3>6 DEF Phase
  <2>2. CASE _send_queue # <<>>
    <3>1. writes' = writes
      BY <1>3, <2>2 DEF SendQueued
    <3>2. Head(_send_queue') = Head(_send_queue)
      BY <1>1, <2>2, AppendKeepsFront
    <3>3. TypeOK'
      BY <1>1, <1>2, <3>1, SendAssumption, AppendProperties
      DEF IInv, TypeOK, SendQueued
    <3>4. Phase'
      BY <1>1, <1>2, <2>2, <3>1, <3>2
      DEF IInv, Phase, Idle, WritingFront, AwaitingHandler, WriteFailed
    <3> QED
      BY <3>3, <3>4
  <2> QED
    BY <2>1, <2>2
<1> QED
  BY <1>4 DEF IInv

LEMMA SocketKeeps ==
  ASSUME IInv, NEW w \in writes, WriteSome(w) \/ WriteCompletes(w)
  PROVE  IInv'
<1>1. WritingFront /\ writes = {w} /\ w \in Op /\ w.msg = Head(_send_queue)
  BY DEF IInv, Phase, Idle, WritingFront, AwaitingHandler, WriteFailed
<1>2. CASE WriteSome(w)
  <2> DEFINE op == [w EXCEPT !.next = w.next + 1]
  <2>1. /\ w.next \in 1 .. Parts /\ w.msg \in Msg
    BY <1>1, <1>2, SendAssumption DEF WriteSome, Op
  <2>2. op \in Op /\ op.msg = w.msg
    BY <1>1, <2>1, SendAssumption DEF Op
  <2>3. writes' = {op}
    BY <1>1, <1>2 DEF WriteSome
  <2>4. WritingFront'
    BY <1>1, <1>2, <2>2, <2>3 DEF WriteSome, WritingFront
  <2>5. wire' \in Seq(Msg \X (1 .. Parts))
    BY <1>2, <2>1, AppendProperties DEF IInv, TypeOK, WriteSome
  <2>6. TypeOK'
    BY <1>2, <2>2, <2>3, <2>5 DEF IInv, TypeOK, WriteSome, Op
  <2> QED
    BY <2>4, <2>6 DEF IInv, Phase
<1>3. CASE WriteCompletes(w)
  <2>1. /\ writes' = {}
        /\ completions' = <<"success">> \/ completions' = <<"error">>
    BY <1>1, <1>3 DEF WriteCompletes, WritingFront
  <2>2. AwaitingHandler'
    BY <1>1, <1>3, <2>1 DEF WriteCompletes, WritingFront, AwaitingHandler
  <2>3. TypeOK'
    BY <1>3, <2>1 DEF IInv, TypeOK, WriteCompletes
  <2> QED
    BY <2>2, <2>3 DEF IInv, Phase
<1> QED
  BY <1>2, <1>3

LEMMA HandlerKeeps ==
  ASSUME IInv, HandleWriteDone \/ HandleWriteError
  PROVE  IInv'
<1>1. /\ AwaitingHandler
      /\ _send_queue \in Seq(Msg) /\ _send_queue # <<>>
  BY DEF IInv, TypeOK, Phase, Idle, WritingFront, AwaitingHandler, WriteFailed,
         HandleWriteDone, HandleWriteError
<1>2. completions' = <<>>
  BY <1>1 DEF AwaitingHandler, HandleWriteDone, HandleWriteError
<1>3. CASE HandleWriteDone
  <2>1. /\ _send_queue' = Tail(_send_queue) /\ _send_queue' \in Seq(Msg)
        /\ Len(_send_queue') <= MAX_SEND_QUEUE + 1
    BY <1>1, <1>3, HeadTailProperties, SendAssumption
    DEF HandleWriteDone, PopFront, IInv, TypeOK
  <2>2. CASE _send_queue' = <<>>
    <3>1. writes' = {}
      BY <1>1, <1>3, <2>2 DEF HandleWriteDone, MoreToWrite, AwaitingHandler
    <3>2. Idle'
      BY <1>1, <1>2, <1>3, <2>2, <3>1
      DEF HandleWriteDone, AwaitingHandler, Idle
    <3>3. TypeOK'
      BY <1>2, <1>3, <2>1, <3>1, EmptySeq DEF IInv, TypeOK, HandleWriteDone
    <3> QED
      BY <3>2, <3>3 DEF IInv, Phase
  <2>3. CASE _send_queue' # <<>>
    <3> DEFINE op == [msg |-> Head(_send_queue'), next |-> 1]
    <3>1. writes' = {op}
      BY <1>1, <1>3, <2>3 DEF HandleWriteDone, MoreToWrite, AwaitingHandler, StartWrite
    <3>2. Head(_send_queue') \in Msg
      BY <2>1, <2>3, HeadTailProperties
    <3>3. op \in Op /\ op.msg = Head(_send_queue')
      BY <3>2, SendAssumption DEF Op
    <3>4. WritingFront'
      BY <1>1, <1>2, <1>3, <2>3, <3>1, <3>3
      DEF HandleWriteDone, AwaitingHandler, WritingFront
    <3>5. TypeOK'
      BY <1>2, <1>3, <2>1, <3>1, <3>3, EmptySeq
      DEF IInv, TypeOK, HandleWriteDone, Op
    <3> QED
      BY <3>4, <3>5 DEF IInv, Phase
  <2> QED
    BY <2>2, <2>3
<1>4. CASE HandleWriteError
  <2>1. WriteFailed'
    BY <1>1, <1>2, <1>4 DEF HandleWriteError, AwaitingHandler, WriteFailed
  <2>2. TypeOK'
    BY <1>2, <1>4, EmptySeq DEF IInv, TypeOK, HandleWriteError
  <2> QED
    BY <2>1, <2>2 DEF IInv, Phase
<1> QED
  BY <1>3, <1>4

LEMMA StepIInv == IInv /\ [Next]_vars => IInv'
<1> SUFFICES ASSUME IInv, [Next]_vars PROVE IInv'
  OBVIOUS
<1>1. ASSUME NEW m \in Msg, SendDropped(m) PROVE IInv'
  BY <1>1 DEF SendDropped, IInv, TypeOK, Phase, Idle, WritingFront,
              AwaitingHandler, WriteFailed
<1>2. CASE SocketFails
  BY <1>2 DEF SocketFails, IInv, TypeOK, Phase, Idle, WritingFront,
              AwaitingHandler, WriteFailed
<1>3. CASE UNCHANGED vars
  BY <1>3 DEF vars, IInv, TypeOK, Phase, Idle, WritingFront, AwaitingHandler,
              WriteFailed
<1> QED
  BY <1>1, <1>2, <1>3, SendKeeps, SocketKeeps, HandlerKeeps
  DEF Next, Send, Socket, Handlers

LEMMA Invariance == Spec => []IInv
BY InitIInv, StepIInv, PTL DEF Spec

\* The types, and the bound on the queue: one more than MAX_SEND_QUEUE.
THEOREM TypeCorrect == Spec => []TypeOK
<1>1. IInv => TypeOK
  BY DEF IInv
<1> QED
  BY Invariance, <1>1, PTL

\* One async_write or completion handler at a time, writing the front node.
THEOREM SingleWriterHolds == Spec => []SingleWriter
<1>1. ASSUME IInv PROVE SingleWriter
  <2>1. Cardinality({}) = 0 /\ \A w \in Op : Cardinality({w}) = 1
    BY FS_EmptySet, FS_Singleton
  <2>2. CASE WritingFront
    <3>1. PICK w \in Op : writes = {w} /\ w.msg = Head(_send_queue)
      BY <2>2 DEF WritingFront
    <3>2. Cardinality(writes) = 1 /\ Len(completions) = 0
      BY <2>1, <2>2, <3>1 DEF WritingFront
    <3> QED
      BY <2>2, <3>1, <3>2 DEF SingleWriter, WritingFront
  <2>3. CASE Idle \/ AwaitingHandler \/ WriteFailed
    <3>1. writes = {} /\ (Len(completions) = 0 \/ Len(completions) = 1)
      BY <2>3 DEF Idle, AwaitingHandler, WriteFailed
    <3>2. Cardinality(writes) = 0
      BY <2>1, <3>1
    <3> QED
      BY <3>1, <3>2 DEF SingleWriter
  <2> QED
    BY <1>1, <2>2, <2>3 DEF IInv, Phase
<1> QED
  BY Invariance, <1>1, PTL

\* send may decide on the size of the queue alone whether to start a write.
THEOREM QueueKnowsWriterHolds == Spec => []QueueKnowsWriter
<1>1. IInv => QueueKnowsWriter
  BY DEF IInv, Phase, Idle, WritingFront, AwaitingHandler, WriteFailed,
         QueueKnowsWriter
<1> QED
  BY Invariance, <1>1, PTL

\* After handle_Write has seen an error no write is ever started again.
THEOREM NoWriteAfterErrorHolds == Spec => []NoWriteAfterError
<1>1. IInv => NoWriteAfterError
  BY DEF IInv, Phase, Idle, WritingFront, AwaitingHandler, WriteFailed,
         NoWriteAfterError
<1> QED
  BY Invariance, <1>1, PTL

\* send and handle_Write may decide on the size of the queue alone, for every set
\* of messages, number of pieces and limit.
THEOREM WritesFollowQueueHolds == Spec => []WritesFollowQueue
BY SingleWriterHolds, QueueKnowsWriterHolds, NoWriteAfterErrorHolds, PTL
   DEF WritesFollowQueue
-----------------------------------------------------------------------------
(***************************************************************************)
(* SendQueue implements ByteChannel.  First the arithmetic of pieces and    *)
(* frames.                                                                 *)
(***************************************************************************)
LEMMA Division ==
  ASSUME NEW p \in Nat \ {0}, NEW x \in Nat
  PROVE  /\ x \div p \in Nat /\ x % p \in 0 .. p - 1 /\ x = p * (x \div p) + (x % p)
         /\ x < p => x \div p = 0 /\ x % p = x
         /\ (p + x) \div p = (x \div p) + 1 /\ (p + x) % p = x % p
OBVIOUS

LEMMA Quotient ==
  ASSUME NEW p \in Nat \ {0}, NEW k \in Nat, NEW r \in 0 .. p - 1
  PROVE  (p * k + r) \div p = k /\ (p * k + r) % p = r
OBVIOUS

LEMMA QuotientBelow ==
  ASSUME NEW p \in Nat \ {0}, NEW k \in Nat, NEW x \in Nat, x < p * k
  PROVE  x \div p \in 0 .. k - 1 /\ x % p \in 0 .. p - 1
<1>1. x \div p \in Nat /\ x % p \in 0 .. p - 1 /\ x = p * (x \div p) + (x % p)
  BY Division
<1>2. ASSUME k <= x \div p PROVE FALSE
  <2>1. p * k <= p * (x \div p)
    BY <1>1, <1>2
  <2> QED
    BY <1>1, <2>1
<1> QED
  BY <1>1, <1>2

\* The pieces of the frames of q without the first w.
Pieces == Msg \X (1 .. Parts)
PieceAt(q, x) == <<q[(x \div Parts) + 1], (x % Parts) + 1>>
Pending(q, w) == [i \in 1 .. Parts * Len(q) - w |-> PieceAt(q, w + i - 1)]

\* How much of the first frame of q can be written.
Started(q, w) == w \in 0 .. Parts /\ (q = <<>> => w = 0)

LEMMA PendingIsSeq ==
  ASSUME NEW q \in Seq(Msg), NEW w, Started(q, w)
  PROVE  /\ Parts * Len(q) - w \in Nat
         /\ Pending(q, w) \in Seq(Pieces)
         /\ Len(Pending(q, w)) = Parts * Len(q) - w
         /\ \A i \in 1 .. Parts * Len(q) - w : Pending(q, w)[i] = PieceAt(q, w + i - 1)
<1> DEFINE n == Parts * Len(q) - w
<1>1. Len(q) \in Nat /\ w \in Nat /\ Parts \in Nat \ {0}
  BY LenProperties, SendAssumption DEF Started
<1>2. n \in Nat
  <2>1. CASE q = <<>>
    BY <1>1, <2>1 DEF Started
  <2>2. CASE q # <<>>
    <3>1. Len(q) \in Nat \ {0}
      BY <2>2, EmptySeq
    <3>2. Parts * Len(q) \in Nat /\ Parts * Len(q) >= Parts
      BY <1>1, <3>1
    <3> QED
      BY <1>1, <3>2 DEF Started
  <2> QED
    BY <2>1, <2>2
<1>3. \A i \in 1 .. n : PieceAt(q, w + i - 1) \in Pieces
  <2> SUFFICES ASSUME NEW i \in 1 .. n PROVE PieceAt(q, w + i - 1) \in Pieces
    OBVIOUS
  <2> DEFINE x == w + i - 1
  <2>1. x \in Nat /\ x < Parts * Len(q)
    <3>1. Parts * Len(q) \in Nat
      BY <1>1
    <3> QED
      BY <1>1, <3>1
  <2>2. x \div Parts \in 0 .. Len(q) - 1 /\ x % Parts \in 0 .. Parts - 1
    <3> HIDE DEF x
    <3> QED
      BY <1>1, <2>1, QuotientBelow
  <2>3. q[(x \div Parts) + 1] \in Msg
    BY <1>1, <2>2, ElementOfSeq
  <2> QED
    BY <1>1, <2>2, <2>3 DEF PieceAt, Pieces
<1>4. Pending(q, w) \in [1 .. n -> Pieces]
  BY <1>3 DEF Pending
<1>5. Pending(q, w) \in Seq(Pieces)
  BY <1>2, <1>4, SeqDef
<1> QED
  BY <1>2, <1>4, <1>5, LenProperties DEF Pending

\* Nothing queued, nothing pending.
LEMMA PendingNothing == Pending(<<>>, 0) = <<>>
<1>1. Pending(<<>>, 0) \in Seq(Pieces) /\ Len(Pending(<<>>, 0)) = 0
  <2>1. <<>> \in Seq(Msg) /\ Len(<<>>) = 0 /\ Started(<<>>, 0)
    BY EmptySeq, SendAssumption DEF Started
  <2>2. Parts * Len(<<>>) - 0 = 0
    BY <2>1, SendAssumption
  <2> QED
    BY <2>1, <2>2, PendingIsSeq
<1> QED
  BY <1>1, EmptySeq

\* A node pushed behind adds its whole frame.
LEMMA PendingPush ==
  ASSUME NEW q \in Seq(Msg), NEW m \in Msg, NEW w, Started(q, w)
  PROVE  Pending(Append(q, m), w) = Pending(q, w) \o Channel!FrameOf(m)
<1> DEFINE r == Append(q, m)
           n == Parts * Len(q) - w
           frame == Channel!FrameOf(m)
<1>1. /\ Len(q) \in Nat /\ w \in Nat /\ Parts \in Nat \ {0}
      /\ Parts * Len(q) \in Nat
  BY LenProperties, SendAssumption DEF Started
<1>2. /\ r \in Seq(Msg) /\ Len(r) = Len(q) + 1 /\ r # <<>>
      /\ \A i \in 1 .. Len(q) : r[i] = q[i]
      /\ r[Len(q) + 1] = m
  BY AppendProperties, AppendKeepsFront
<1>3. Parts * Len(r) = Parts * Len(q) + Parts
  BY <1>1, <1>2
<1>4. Started(r, w)
  BY <1>2 DEF Started
<1>5. /\ frame \in Seq(Pieces) /\ Len(frame) = Parts
      /\ \A j \in 1 .. Parts : frame[j] = <<m, j>>
  <2>1. frame \in [1 .. Parts -> Pieces]
    BY <1>1 DEF Channel!FrameOf, Pieces
  <2> QED
    BY <1>1, <2>1, SeqDef, LenProperties DEF Channel!FrameOf
<1>6. /\ n \in Nat /\ Pending(q, w) \in Seq(Pieces) /\ Len(Pending(q, w)) = n
      /\ \A i \in 1 .. n : Pending(q, w)[i] = PieceAt(q, w + i - 1)
  BY PendingIsSeq
<1>7. /\ Pending(r, w) \in Seq(Pieces) /\ Len(Pending(r, w)) = n + Parts
      /\ \A i \in 1 .. n + Parts : Pending(r, w)[i] = PieceAt(r, w + i - 1)
  <2>1. Parts * Len(r) - w = n + Parts
    BY <1>1, <1>3
  <2> QED
    BY <1>2, <1>4, <2>1, PendingIsSeq
<1>8. /\ Pending(q, w) \o frame \in Seq(Pieces)
      /\ Len(Pending(q, w) \o frame) = n + Parts
      /\ \A i \in 1 .. n + Parts : (Pending(q, w) \o frame)[i] =
            IF i <= n THEN Pending(q, w)[i] ELSE frame[i - n]
  <2> DEFINE s == Pending(q, w)
  <2> HIDE DEF s, n, frame
  <2> QED
    BY <1>5, <1>6, ConcatProperties DEF s
<1>9. ASSUME NEW i \in 1 .. n + Parts
      PROVE  Pending(r, w)[i] = (Pending(q, w) \o frame)[i]
  <2>1. CASE i <= n
    <3> DEFINE x == w + i - 1
    <3>1. x \in Nat /\ x < Parts * Len(q) /\ i \in 1 .. n
      BY <1>1, <1>6, <2>1
    <3>2. x \div Parts \in 0 .. Len(q) - 1
      <4> HIDE DEF x
      <4> QED
        BY <1>1, <3>1, QuotientBelow
    <3>3. PieceAt(r, w + i - 1) = PieceAt(q, w + i - 1)
      BY <1>1, <1>2, <3>2 DEF PieceAt
    <3> QED
      BY <1>6, <1>7, <1>8, <2>1, <3>1, <3>3
  <2>2. CASE i > n
    <3> DEFINE j == i - n
    <3>1. j \in 1 .. Parts /\ w + i - 1 = Parts * Len(q) + (j - 1) /\ j - 1 \in 0 .. Parts - 1
      BY <1>1, <1>6, <2>2
    <3>2. /\ (Parts * Len(q) + (j - 1)) \div Parts = Len(q)
          /\ (Parts * Len(q) + (j - 1)) % Parts = j - 1
      BY <1>1, <3>1, Quotient
    <3>3. PieceAt(r, w + i - 1) = <<m, j>>
      BY <1>1, <1>2, <3>1, <3>2 DEF PieceAt
    <3>4. (Pending(q, w) \o frame)[i] = frame[j]
      BY <1>6, <1>8, <2>2
    <3>5. frame[j] = <<m, j>>
      BY <1>5, <3>1
    <3>6. Pending(r, w)[i] = PieceAt(r, w + i - 1)
      BY <1>7
    <3> QED
      BY <3>3, <3>4, <3>5, <3>6
  <2>3. i <= n \/ i > n
    BY <1>1, <1>6
  <2> QED
    BY <2>1, <2>2, <2>3
<1> QED
  BY <1>7, <1>8, <1>9, SeqEqual

\* Popping a node whose frame is written leaves what was pending.
LEMMA PendingPop ==
  ASSUME NEW q \in Seq(Msg), q # <<>>
  PROVE  Pending(Tail(q), 0) = Pending(q, Parts)
<1> DEFINE r == Tail(q)
<1>1. /\ Parts \in Nat \ {0} /\ Len(q) \in Nat \ {0}
      /\ r \in Seq(Msg) /\ Len(r) = Len(q) - 1
      /\ \A i \in 1 .. Len(r) : r[i] = q[i + 1]
  BY EmptySeq, HeadTailProperties, SendAssumption
<1>2. Started(r, 0) /\ Started(q, Parts)
  BY <1>1 DEF Started
<1>3. Parts * Len(r) = Parts * Len(q) - Parts /\ Parts * Len(r) \in Nat
  BY <1>1
<1>4. /\ Pending(r, 0) \in Seq(Pieces) /\ Len(Pending(r, 0)) = Parts * Len(r)
      /\ \A i \in 1 .. Parts * Len(r) : Pending(r, 0)[i] = PieceAt(r, 0 + i - 1)
  <2>1. Parts * Len(r) - 0 = Parts * Len(r)
    BY <1>3
  <2> QED
    BY <1>1, <1>2, <2>1, PendingIsSeq
<1>5. /\ Pending(q, Parts) \in Seq(Pieces) /\ Len(Pending(q, Parts)) = Parts * Len(r)
      /\ \A i \in 1 .. Parts * Len(r) : Pending(q, Parts)[i] = PieceAt(q, Parts + i - 1)
  BY <1>2, <1>3, PendingIsSeq
<1>6. ASSUME NEW i \in 1 .. Parts * Len(r)
      PROVE  PieceAt(r, 0 + i - 1) = PieceAt(q, Parts + i - 1)
  <2> DEFINE x == i - 1
  <2>1. x \in Nat /\ x < Parts * Len(r) /\ 0 + i - 1 = x /\ Parts + i - 1 = Parts + x
    BY <1>1, <1>3
  <2>2. x \div Parts \in 0 .. Len(r) - 1
    <3> HIDE DEF x, r
    <3>1. Len(r) \in Nat
      BY <1>1
    <3> QED
      BY <1>1, <2>1, <3>1, QuotientBelow
  <2>3. (Parts + x) \div Parts = (x \div Parts) + 1 /\ (Parts + x) % Parts = x % Parts
    BY <1>1, <2>1, Division
  <2>4. r[(x \div Parts) + 1] = q[((x \div Parts) + 1) + 1]
    BY <1>1, <2>2
  <2> HIDE DEF x
  <2> QED
    BY <2>1, <2>3, <2>4 DEF PieceAt
<1> QED
  BY <1>4, <1>5, <1>6, SeqEqual

\* The next piece is the next one of the first frame.
LEMMA PendingPiece ==
  ASSUME NEW q \in Seq(Msg), q # <<>>, NEW w \in 0 .. Parts - 1
  PROVE  /\ Pending(q, w) # <<>>
         /\ Head(Pending(q, w)) = <<Head(q), w + 1>>
         /\ Tail(Pending(q, w)) = Pending(q, w + 1)
<1> DEFINE n == Parts * Len(q) - w
<1>1. Parts \in Nat \ {0} /\ Len(q) \in Nat \ {0} /\ w \in Nat /\ w + 1 \in 0 .. Parts
  BY EmptySeq, SendAssumption
<1>2. Started(q, w) /\ Started(q, w + 1)
  BY <1>1 DEF Started
<1>3. Parts * Len(q) \in Nat /\ Parts * Len(q) - (w + 1) = n - 1
  BY <1>1
<1>4. /\ n \in Nat /\ Pending(q, w) \in Seq(Pieces) /\ Len(Pending(q, w)) = n
      /\ \A i \in 1 .. n : Pending(q, w)[i] = PieceAt(q, w + i - 1)
  BY <1>2, PendingIsSeq
<1>5. /\ n - 1 \in Nat /\ Pending(q, w + 1) \in Seq(Pieces)
      /\ Len(Pending(q, w + 1)) = n - 1
      /\ \A i \in 1 .. n - 1 : Pending(q, w + 1)[i] = PieceAt(q, (w + 1) + i - 1)
  BY <1>2, <1>3, PendingIsSeq
<1>6. Pending(q, w) # <<>>
  BY <1>4, <1>5, EmptySeq
<1>7. Head(Pending(q, w)) = <<Head(q), w + 1>>
  <2>1. w \div Parts = 0 /\ w % Parts = w
    <3>1. w < Parts
      BY <1>1
    <3> QED
      BY <1>1, <3>1, Division
  <2>2. Pending(q, w)[1] = PieceAt(q, w)
    <3>1. 1 \in 1 .. n /\ w + 1 - 1 = w
      BY <1>1, <1>4, <1>5
    <3> QED
      BY <1>4, <3>1
  <2>3. Head(Pending(q, w)) = Pending(q, w)[1] /\ Head(q) = q[1]
    BY <1>4, <1>6
  <2> QED
    BY <2>1, <2>2, <2>3 DEF PieceAt
<1>8. /\ Tail(Pending(q, w)) \in Seq(Pieces) /\ Len(Tail(Pending(q, w))) = n - 1
      /\ \A i \in 1 .. n - 1 : Tail(Pending(q, w))[i] = Pending(q, w)[i + 1]
  BY <1>4, <1>6, HeadTailProperties
<1>9. ASSUME NEW i \in 1 .. n - 1
      PROVE  Tail(Pending(q, w))[i] = Pending(q, w + 1)[i]
  <2>1. i + 1 \in 1 .. n /\ w + (i + 1) - 1 = (w + 1) + i - 1
    BY <1>1, <1>4
  <2> QED
    BY <1>4, <1>5, <1>8, <2>1
<1>10. Tail(Pending(q, w)) = Pending(q, w + 1)
  BY <1>5, <1>8, <1>9, SeqEqual
<1> QED
  BY <1>6, <1>7, <1>10
(***************************************************************************)
(* What the wire says of the frame at the front of the queue.              *)
(***************************************************************************)
LastSent == wire[Len(wire)][1]

\* A message is queued once, not again after its frame was begun.
QueuedOnce ==
  /\ \A i, j \in DOMAIN _send_queue : _send_queue[i] = _send_queue[j] => i = j
  /\ \A i \in DOMAIN _send_queue : _send_queue[i] \notin unsent
  /\ wire # <<>> =>
       /\ LastSent \notin unsent
       /\ \A i \in DOMAIN _send_queue : i # 1 => _send_queue[i] # LastSent

\* The last piece on the wire tells how far the front frame has got.
WireKnows ==
  /\ completions = <<"error">> \/ cleared => broken
  /\ \A w \in writes : FailedAt = w.next - 1
  /\ completions = <<"success">> => FailedAt = Parts

CInv == IInv /\ QueuedOnce /\ WireKnows

Rest == Pending(_send_queue, FailedAt)

LEMMA LastPiece ==
  ASSUME TypeOK, wire # <<>>
  PROVE  /\ wire[Len(wire)] \in Msg \X (1 .. Parts)
         /\ LastSent \in Msg /\ wire[Len(wire)][2] \in 1 .. Parts
<1>1. Len(wire) \in 1 .. Len(wire) /\ wire \in Seq(Msg \X (1 .. Parts))
  BY EmptySeq DEF TypeOK
<1> QED
  BY <1>1, ElementOfSeq DEF LastSent

LEMMA FrontStarted == ASSUME TypeOK PROVE Started(_send_queue, FailedAt)
BY LastPiece, SendAssumption DEF FailedAt, Started

\* The refinement mapping, read off the wire.
LEMMA UnwrittenIsRest == ASSUME CInv PROVE Unwritten = Rest
<1>1. ASSUME ~broken PROVE Written = FailedAt
  <2>1. CASE Idle
    BY <2>1 DEF Idle, Written, FailedAt
  <2>2. CASE WritingFront
    BY <2>2 DEF WritingFront, Written, CInv, WireKnows
  <2>3. CASE AwaitingHandler
    <3>1. completions = <<"success">>
      BY <1>1, <2>3 DEF AwaitingHandler, CInv, WireKnows
    <3> QED
      BY <2>3, <3>1 DEF AwaitingHandler, Written, CInv, WireKnows
  <2>4. CASE WriteFailed
    BY <1>1, <2>4 DEF WriteFailed, CInv, WireKnows
  <2> QED
    BY <2>1, <2>2, <2>3, <2>4 DEF CInv, IInv, Phase
<1>2. (IF broken THEN FailedAt ELSE Written) = FailedAt
  BY <1>1
<1> QED
  BY <1>2 DEF Unwritten, Rest, Pending, PieceAt

(***************************************************************************)
(* The steps.                                                              *)
(***************************************************************************)
LEMMA SendImplements ==
  ASSUME CInv, NEW m \in Msg, SendQueued(m)
  PROVE  /\ QueuedOnce' /\ WireKnows'
         /\ Rest' = Rest \o Channel!FrameOf(m)
<1>1. /\ _send_queue \in Seq(Msg) /\ Len(_send_queue) \in Nat
      /\ DOMAIN _send_queue = 1 .. Len(_send_queue)
      /\ m \in unsent /\ unsent' = unsent \ {m}
      /\ _send_queue' = Append(_send_queue, m)
      /\ UNCHANGED <<completions, wire, broken, cleared>>
  BY LenProperties DEF CInv, IInv, TypeOK, SendQueued
<1>2. /\ _send_queue' \in Seq(Msg) /\ _send_queue' # <<>>
      /\ DOMAIN _send_queue' = 1 .. Len(_send_queue) + 1
      /\ \A i \in 1 .. Len(_send_queue) : _send_queue'[i] = _send_queue[i]
      /\ _send_queue'[Len(_send_queue) + 1] = m
  BY <1>1, AppendProperties, LenProperties, AppendKeepsFront
<1>3. QueuedOnce'
  <2>1. \A i \in DOMAIN _send_queue' :
          \/ i \in DOMAIN _send_queue /\ _send_queue'[i] = _send_queue[i]
          \/ i = Len(_send_queue) + 1 /\ _send_queue'[i] = m
    BY <1>1, <1>2
  <2>2. \A i \in DOMAIN _send_queue : _send_queue[i] # m
    BY <1>1 DEF CInv, QueuedOnce
  <2>3. \A i, j \in DOMAIN _send_queue' : _send_queue'[i] = _send_queue'[j] => i = j
    BY <2>1, <2>2 DEF CInv, QueuedOnce
  <2>4. \A i \in DOMAIN _send_queue' : _send_queue'[i] \notin unsent'
    BY <1>1, <2>1 DEF CInv, QueuedOnce
  <2>5. wire # <<>> => LastSent # m
    BY <1>1 DEF CInv, QueuedOnce
  <2> QED
    BY <1>1, <2>1, <2>3, <2>4, <2>5 DEF CInv, QueuedOnce, LastSent
<1>4. FailedAt' = FailedAt
  <2>1. CASE _send_queue = <<>>
    <3>1. Head(_send_queue') = m
      BY <1>1, <2>1, AppendKeepsFront
    <3>2. wire # <<>> => LastSent # m
      BY <1>1 DEF CInv, QueuedOnce
    <3> QED
      BY <1>1, <2>1, <3>1, <3>2 DEF FailedAt, LastSent
  <2>2. CASE _send_queue # <<>>
    <3>1. Head(_send_queue') = Head(_send_queue)
      BY <1>1, <2>2, AppendKeepsFront
    <3> QED
      BY <1>1, <1>2, <2>2, <3>1 DEF FailedAt
  <2> QED
    BY <2>1, <2>2
<1>5. WireKnows'
  <2>1. CASE _send_queue = <<>>
    <3>1. Idle /\ SendStarts
      BY <1>1, <2>1, EmptySeq DEF CInv, IInv, Phase, Idle, WritingFront,
         AwaitingHandler, WriteFailed, SendStarts
    <3>2. writes' = {[msg |-> Head(_send_queue'), next |-> 1]}
      BY <3>1 DEF SendQueued, StartWrite, Idle
    <3>3. FailedAt = 0
      BY <2>1 DEF FailedAt
    <3> QED
      BY <1>1, <1>4, <3>1, <3>2, <3>3 DEF WireKnows, Idle
  <2>2. CASE _send_queue # <<>>
    <3>1. writes' = writes
      BY <1>1, <2>2, EmptySeq DEF SendQueued, SendStarts
    <3> QED
      BY <1>1, <1>4, <3>1 DEF CInv, WireKnows
  <2> QED
    BY <2>1, <2>2
<1>6. Started(_send_queue, FailedAt)
  BY FrontStarted DEF CInv, IInv
<1> QED
  BY <1>1, <1>3, <1>4, <1>5, <1>6, PendingPush DEF Rest

\* A piece goes from the front of what is pending to the wire.
LEMMA WriteImplements ==
  ASSUME CInv, NEW w \in writes, WriteSome(w)
  PROVE  /\ QueuedOnce' /\ WireKnows' /\ Rest # <<>>
         /\ wire' = Append(wire, Head(Rest)) /\ Rest' = Tail(Rest)
<1>1. /\ WritingFront /\ writes = {w} /\ w \in Op /\ w.msg = Head(_send_queue)
      /\ _send_queue \in Seq(Msg) /\ _send_queue # <<>>
      /\ wire \in Seq(Msg \X (1 .. Parts))
  BY DEF CInv, IInv, TypeOK, Phase, Idle, WritingFront, AwaitingHandler, WriteFailed
<1>2. /\ w.next \in 1 .. Parts /\ w.msg \in Msg
      /\ wire' = Append(wire, <<w.msg, w.next>>)
      /\ writes' = {[w EXCEPT !.next = w.next + 1]}
      /\ UNCHANGED <<_send_queue, completions, broken, cleared, unsent>>
  BY <1>1, SendAssumption DEF WriteSome, Op
<1>3. /\ wire' # <<>> /\ wire'[Len(wire')] = <<w.msg, w.next>>
  BY <1>1, <1>2, AppendProperties
<1>4. FailedAt' = w.next
  BY <1>1, <1>2, <1>3 DEF FailedAt
<1>5. FailedAt = w.next - 1
  BY DEF CInv, WireKnows
<1>6. /\ _send_queue[1] = w.msg /\ 1 \in DOMAIN _send_queue
  BY <1>1, EmptySeq, LenProperties
<1>7. LastSent' = _send_queue[1]
  BY <1>3, <1>6 DEF LastSent
<1>8. QueuedOnce'
  BY <1>2, <1>6, <1>7 DEF CInv, QueuedOnce
<1>9. WireKnows'
  BY <1>1, <1>2, <1>4, SendAssumption DEF CInv, WireKnows, Op, WritingFront
<1>10. /\ Rest # <<>> /\ Head(Rest) = <<w.msg, w.next>> /\ Rest' = Tail(Rest)
  <2>1. FailedAt \in 0 .. Parts - 1 /\ FailedAt + 1 = w.next
    BY <1>2, <1>5, SendAssumption
  <2> QED
    BY <1>1, <1>2, <1>4, <2>1, PendingPiece DEF Rest
<1> QED
  BY <1>2, <1>8, <1>9, <1>10

\* The end of a write, and its handler, change nothing the other side sees.
LEMMA CompletionImplements ==
  ASSUME CInv, NEW w \in writes, WriteCompletes(w)
  PROVE  QueuedOnce' /\ WireKnows' /\ UNCHANGED <<Rest, wire, broken>>
<1>1. WritingFront /\ writes = {w} /\ w \in Op
  BY DEF CInv, IInv, Phase, Idle, WritingFront, AwaitingHandler, WriteFailed
<1>2. /\ UNCHANGED <<_send_queue, wire, broken, cleared, unsent>>
      /\ writes' = {}
      /\ completions' = <<IF w.next > Parts THEN "success" ELSE "error">>
      /\ w.next > Parts \/ broken
  BY <1>1 DEF WriteCompletes, WritingFront
<1>3. FailedAt' = FailedAt /\ LastSent' = LastSent
  BY <1>2 DEF FailedAt, LastSent
<1>4. w.next > Parts => FailedAt = Parts
  BY <1>1, SendAssumption DEF CInv, WireKnows, Op
<1>5. WireKnows'
  BY <1>1, <1>2, <1>3, <1>4 DEF WireKnows, WritingFront
<1>6. QueuedOnce'
  BY <1>2, <1>3 DEF CInv, QueuedOnce
<1> QED
  BY <1>2, <1>3, <1>5, <1>6 DEF Rest

LEMMA HandlerImplements ==
  ASSUME CInv, HandleWriteDone \/ HandleWriteError
  PROVE  QueuedOnce' /\ WireKnows' /\ UNCHANGED <<Rest, wire, broken>>
<1>1. /\ AwaitingHandler
      /\ _send_queue \in Seq(Msg) /\ _send_queue # <<>>
  BY DEF CInv, IInv, TypeOK, Phase, Idle, WritingFront, AwaitingHandler, WriteFailed,
         HandleWriteDone, HandleWriteError
<1>2. completions' = <<>> /\ UNCHANGED <<wire, broken, unsent>>
  BY <1>1 DEF AwaitingHandler, HandleWriteDone, HandleWriteError
<1>3. LastSent' = LastSent
  BY <1>2 DEF LastSent
<1>4. CASE HandleWriteDone
  <2>1. /\ _send_queue' = Tail(_send_queue) /\ cleared' = cleared
        /\ completions = <<"success">>
    BY <1>1, <1>4 DEF HandleWriteDone, PopFront, AwaitingHandler
  <2>2. /\ Len(_send_queue) \in Nat \ {0} /\ DOMAIN _send_queue = 1 .. Len(_send_queue)
        /\ _send_queue' \in Seq(Msg)
        /\ DOMAIN _send_queue' = 1 .. Len(_send_queue) - 1
        /\ \A i \in 1 .. Len(_send_queue) - 1 : _send_queue'[i] = _send_queue[i + 1]
    BY <1>1, <2>1, EmptySeq, LenProperties, HeadTailProperties
  <2>3. FailedAt = Parts /\ wire # <<>> /\ LastSent = Head(_send_queue)
    BY <2>1, SendAssumption DEF CInv, WireKnows, FailedAt, LastSent
  <2>4. \A i \in DOMAIN _send_queue' : _send_queue'[i] # LastSent
    <3>1. \A i \in DOMAIN _send_queue' :
            /\ i + 1 \in DOMAIN _send_queue /\ i + 1 # 1
            /\ _send_queue'[i] = _send_queue[i + 1]
      BY <2>2
    <3> QED
      BY <2>3, <3>1 DEF CInv, QueuedOnce
  <2>5. QueuedOnce'
    <3>1. \A i \in DOMAIN _send_queue' :
            i + 1 \in DOMAIN _send_queue /\ _send_queue'[i] = _send_queue[i + 1]
      BY <2>2
    <3>2. \A i, j \in DOMAIN _send_queue' : _send_queue'[i] = _send_queue'[j] => i = j
      <4>1. \A i, j \in DOMAIN _send_queue' : i + 1 = j + 1 => i = j
        BY <2>2
      <4> QED
        BY <3>1, <4>1 DEF CInv, QueuedOnce
    <3>3. \A i \in DOMAIN _send_queue' : _send_queue'[i] \notin unsent
      BY <3>1 DEF CInv, QueuedOnce
    <3> QED
      BY <1>2, <1>3, <2>4, <3>2, <3>3 DEF CInv, QueuedOnce
  <2>6. FailedAt' = 0
    <3>1. CASE _send_queue' = <<>>
      BY <3>1 DEF FailedAt
    <3>2. CASE _send_queue' # <<>>
      <4>1. 1 \in DOMAIN _send_queue' /\ Head(_send_queue') = _send_queue'[1]
        BY <2>2, <3>2, EmptySeq, LenProperties
      <4> QED
        BY <1>3, <2>4, <4>1 DEF FailedAt, LastSent
    <3> QED
      BY <3>1, <3>2
  <2>7. \A w \in writes' : w.next = 1
    BY <1>1, <1>4 DEF HandleWriteDone, AwaitingHandler, StartWrite
  <2>8. WireKnows'
    BY <1>1, <1>2, <2>1, <2>6, <2>7 DEF WireKnows, AwaitingHandler
  <2>9. Rest' = Rest
    BY <1>1, <2>1, <2>3, <2>6, PendingPop DEF Rest
  <2> QED
    BY <1>2, <2>5, <2>8, <2>9
<1>5. CASE HandleWriteError
  <2>1. UNCHANGED <<_send_queue, writes>> /\ completions = <<"error">>
    BY <1>1, <1>5 DEF HandleWriteError, AwaitingHandler
  <2>2. FailedAt' = FailedAt
    BY <1>2, <2>1 DEF FailedAt
  <2>3. QueuedOnce' /\ WireKnows'
    BY <1>1, <1>2, <1>3, <2>1, <2>2 DEF CInv, QueuedOnce, WireKnows, AwaitingHandler
  <2> QED
    BY <1>2, <2>1, <2>2, <2>3 DEF Rest
<1> QED
  BY <1>4, <1>5

\* A message turned away, a failing socket, a stutter.
LEMMA OthersImplement ==
  ASSUME CInv, (\E m \in Msg : SendDropped(m)) \/ SocketFails \/ UNCHANGED vars
  PROVE  /\ QueuedOnce' /\ WireKnows' /\ UNCHANGED <<Rest, wire>>
         /\ broken' = broken \/ broken'
<1>1. /\ UNCHANGED <<_send_queue, writes, completions, wire, cleared>>
      /\ unsent' \subseteq unsent
      /\ broken' = broken \/ broken' = TRUE
  BY DEF SendDropped, SocketFails, vars
<1>2. FailedAt' = FailedAt /\ LastSent' = LastSent
  BY <1>1 DEF FailedAt, LastSent
<1>3. QueuedOnce'
  BY <1>1, <1>2 DEF CInv, QueuedOnce
<1>4. WireKnows'
  BY <1>1, <1>2 DEF CInv, WireKnows
<1> QED
  BY <1>1, <1>2, <1>3, <1>4 DEF Rest

LEMMA InitCInv == Init => CInv /\ Rest = <<>>
<1> SUFFICES ASSUME Init PROVE QueuedOnce /\ WireKnows /\ Rest = <<>>
  BY InitIInv DEF CInv
<1>1. DOMAIN _send_queue = {} /\ FailedAt = 0
  BY DEF Init, FailedAt
<1> QED
  BY <1>1, PendingNothing DEF Init, QueuedOnce, WireKnows, Rest

LEMMA StepCInv == CInv /\ [Next]_vars => CInv'
<1> SUFFICES ASSUME CInv, [Next]_vars PROVE QueuedOnce' /\ WireKnows'
  BY StepIInv DEF CInv
<1> QED
  BY SendImplements, WriteImplements, CompletionImplements, HandlerImplements,
     OthersImplement
  DEF Next, Send, Socket, Handlers

\* The invariant, and what the mapping is in a state that satisfies it.
Mapped == CInv /\ Unwritten = Rest

LEMMA StepChannel ==
  ASSUME Mapped, Mapped', [Next]_vars
  PROVE  [Channel!Next]_(Channel!channelVars)
<1>1. CInv /\ Unwritten = Rest /\ Unwritten' = Rest'
  BY DEF Mapped
<1>2. ASSUME NEW m \in Msg, SendQueued(m) PROVE Channel!Accept(m)
  BY <1>1, <1>2, SendImplements DEF Channel!Accept, SendQueued
<1>3. ASSUME NEW w \in writes, WriteSome(w) PROVE Channel!Transmit
  BY <1>1, <1>3, WriteImplements DEF Channel!Transmit, WriteSome
<1>4. ASSUME UNCHANGED <<Rest, wire, broken>> PROVE UNCHANGED Channel!channelVars
  BY <1>1, <1>4 DEF Channel!channelVars
<1>5. ASSUME (\E m \in Msg : SendDropped(m)) \/ SocketFails \/ UNCHANGED vars
      PROVE  Channel!Break \/ UNCHANGED Channel!channelVars
  <2>1. UNCHANGED <<Rest, wire>>
    BY <1>1, <1>5, OthersImplement
  <2>2. CASE SocketFails
    BY <1>1, <2>1, <2>2 DEF SocketFails, Channel!Break
  <2>3. CASE (\E m \in Msg : SendDropped(m)) \/ UNCHANGED vars
    <3>1. broken' = broken
      BY <2>3 DEF SendDropped, vars
    <3> QED
      BY <1>4, <2>1, <3>1
  <2> QED
    BY <1>5, <2>2, <2>3
<1> QED
  BY <1>1, <1>2, <1>3, <1>4, <1>5, CompletionImplements, HandlerImplements
  DEF Next, Send, Socket, Handlers, Channel!Next

\* Whole frames go over the wire in the order in which they were accepted, for
\* every set of messages, number of pieces per frame and limit of the queue:
\* send and handle_Write refine the byte channel.
THEOREM SendQueueImplementsChannel == Spec => ImplementsChannel
<1>1. Init => Channel!Init
  <2> SUFFICES ASSUME Init PROVE Channel!Init
    OBVIOUS
  <2>1. Unwritten = <<>>
    BY InitCInv, UnwrittenIsRest
  <2> QED
    BY <2>1 DEF Init, Channel!Init
<1>2. Spec => []Mapped
  <2>1. CInv => Mapped
    BY UnwrittenIsRest DEF Mapped
  <2> QED
    BY <2>1, InitCInv, StepCInv, PTL DEF Spec
<1> QED
  BY <1>1, <1>2, StepChannel, PTL DEF Spec, ImplementsChannel, Channel!Spec
=============================================================================
