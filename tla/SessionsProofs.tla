--------------------------- MODULE SessionsProofs ---------------------------
(***************************************************************************)
(* Proofs about what happens on one connection (MCSessions), for any set of *)
(* clients' frames and messages, any greatest length and any limit of the   *)
(* send queue: no session has two operations of a kind outstanding, and the *)
(* answers to the frames a client sends leave in order, each once, in       *)
(* whatever pieces the frames come.                                        *)
(*                                                                          *)
(* The coroutine server comes first, then v1 to v3, then v4 to v10, and the *)
(* theorems about all of them, and about the send queue step by step, at    *)
(* the end.                                                                *)
(***************************************************************************)
EXTENDS MCSessions, SendQueueProofs, WellFoundedInduction

(***************************************************************************)
(* Sequences of increasing numbers.                                        *)
(***************************************************************************)
Elements(q) == {q[i] : i \in DOMAIN q}
Ascending(q) == \A i, j \in DOMAIN q : i < j => q[i] < q[j]

\* Adding a number at the end.
LEMMA AscendingAppend ==
  ASSUME NEW S, NEW q \in Seq(S), NEW x \in S
  PROVE  /\ Append(q, x) \in Seq(S) /\ Elements(Append(q, x)) = Elements(q) \cup {x}
         /\ Ascending(q) /\ (\A y \in Elements(q) : y < x) => Ascending(Append(q, x))
<1> DEFINE n == Len(q)
           p == Append(q, x)
<1>1. /\ n \in Nat /\ DOMAIN q = 1 .. n /\ p \in Seq(S) /\ DOMAIN p = 1 .. n + 1
      /\ \A i \in 1 .. n : p[i] = q[i]
      /\ p[n + 1] = x
  BY AppendProperties, LenProperties
<1> HIDE DEF n, p
<1>2. Elements(p) = Elements(q) \cup {x}
  <2>1. \A i \in 1 .. n + 1 : i \in 1 .. n \/ i = n + 1
    BY <1>1
  <2>2. 1 .. n \subseteq 1 .. n + 1 /\ n + 1 \in 1 .. n + 1
    BY <1>1
  <2> QED
    BY <1>1, <2>1, <2>2 DEF Elements
<1>3. ASSUME Ascending(q), \A y \in Elements(q) : y < x
      PROVE  Ascending(p)
  <2> SUFFICES ASSUME NEW i \in 1 .. n + 1, NEW j \in 1 .. n + 1, i < j
               PROVE  p[i] < p[j]
    BY <1>1 DEF Ascending
  <2>1. i \in 1 .. n /\ (j \in 1 .. n \/ j = n + 1)
    BY <1>1
  <2> QED
    BY <1>1, <1>3, <2>1 DEF Ascending, Elements
<1> QED
  BY <1>1, <1>2, <1>3 DEF p

\* Taking the first away.
LEMMA AscendingTail ==
  ASSUME NEW S, S \subseteq Int, NEW q \in Seq(S), q # <<>>
  PROVE  /\ Head(q) \in S /\ Tail(q) \in Seq(S)
         /\ Elements(q) = {Head(q)} \cup Elements(Tail(q))
         /\ Ascending(q) => /\ Ascending(Tail(q))
                            /\ \A y \in Elements(Tail(q)) : Head(q) < y
<1> DEFINE n == Len(q)
           p == Tail(q)
<1>1. /\ n \in Nat \ {0} /\ DOMAIN q = 1 .. n /\ p \in Seq(S) /\ Len(p) = n - 1
      /\ Head(q) = q[1] /\ Head(q) \in S
      /\ \A i \in 1 .. Len(p) : p[i] = q[i + 1]
  BY HeadTailProperties, LenProperties, EmptySeq
<1>2. DOMAIN p = 1 .. n - 1
  BY <1>1, LenProperties
<1> HIDE DEF n, p
<1>3. \A i \in 1 .. n - 1 : i + 1 \in 1 .. n /\ p[i] = q[i + 1]
  BY <1>1
<1>4. \A i \in 1 .. n : i = 1 \/ (i - 1 \in 1 .. n - 1 /\ p[i - 1] = q[i])
  BY <1>1, <1>3
<1>5. Elements(q) = {Head(q)} \cup Elements(p)
  <2>1. ASSUME NEW i \in 1 .. n PROVE q[i] \in {Head(q)} \cup Elements(p)
    BY <1>1, <1>2, <1>4 DEF Elements
  <2>2. ASSUME NEW i \in 1 .. n - 1 PROVE p[i] \in Elements(q)
    BY <1>1, <1>3 DEF Elements
  <2>3. Head(q) \in Elements(q)
    <3>1. 1 \in 1 .. n
      BY <1>1
    <3> QED
      BY <1>1, <3>1 DEF Elements
  <2> QED
    BY <1>1, <1>2, <2>1, <2>2, <2>3 DEF Elements
<1>6. ASSUME Ascending(q)
      PROVE  Ascending(p) /\ \A y \in Elements(p) : Head(q) < y
  <2>1. ASSUME NEW i \in 1 .. n - 1, NEW j \in 1 .. n - 1, i < j
        PROVE  p[i] < p[j]
    <3>1. i + 1 \in 1 .. n /\ j + 1 \in 1 .. n /\ i + 1 < j + 1
      BY <1>1, <2>1
    <3> QED
      BY <1>1, <1>3, <1>6, <3>1 DEF Ascending
  <2>2. ASSUME NEW i \in 1 .. n - 1 PROVE Head(q) < p[i]
    <3>1. i + 1 \in 1 .. n /\ 1 \in 1 .. n /\ 1 < i + 1
      BY <1>1
    <3> QED
      BY <1>1, <1>3, <1>6, <3>1 DEF Ascending
  <2> QED
    BY <1>2, <2>1, <2>2 DEF Ascending, Elements
<1> QED
  BY <1>1, <1>5, <1>6 DEF p

\* Moving the first of a queue to the end of what was written.
LEMMA FrontMoves ==
  ASSUME NEW S, NEW w \in Seq(S), NEW q \in Seq(S), q # <<>>
  PROVE  Append(w, Head(q)) \o Tail(q) = w \o q
<1>1. Head(q) \in S /\ Tail(q) \in Seq(S) /\ <<Head(q)>> \in Seq(S)
  BY HeadTailProperties
<1>2. q = <<Head(q)>> \o Tail(q)
  <2> DEFINE t == Tail(q)
             h == <<Head(q)>>
  <2>1. /\ Len(q) \in Nat \ {0} /\ Len(t) = Len(q) - 1 /\ Len(h) = 1 /\ h[1] = q[1]
        /\ \A i \in 1 .. Len(t) : t[i] = q[i + 1]
    BY HeadTailProperties, EmptySeq
  <2>2. /\ h \o t \in Seq(S) /\ Len(h \o t) = Len(h) + Len(t)
        /\ \A i \in 1 .. Len(h) + Len(t) :
             (h \o t)[i] = IF i <= Len(h) THEN h[i] ELSE t[i - Len(h)]
    BY <1>1, ConcatProperties
  <2> HIDE DEF h, t
  <2>3. Len(h \o t) = Len(q)
    BY <2>1, <2>2
  <2>4. \A i \in 1 .. Len(q) : q[i] = (h \o t)[i]
    <3> TAKE i \in 1 .. Len(q)
    <3>1. CASE i = 1
      BY <3>1, <2>1, <2>2
    <3>2. CASE i # 1
      <4>1. i - 1 \in 1 .. Len(t) /\ i \in 1 .. Len(h) + Len(t) /\ ~(i <= Len(h))
        BY <3>2, <2>1
      <4>2. t[i - 1] = q[i]
        BY <2>1, <4>1
      <4> QED
        BY <4>1, <4>2, <2>1, <2>2
    <3> QED
      BY <3>1, <3>2
  <2> QED
    BY <2>2, <2>3, <2>4, SeqEqual DEF h, t
<1>3. Append(w, Head(q)) = w \o <<Head(q)>>
  BY <1>1, AppendIsConcat
<1> QED
  BY <1>1, <1>2, <1>3, ConcatAssociative

\* Appending to the second of two sequences.
LEMMA AppendToSecond ==
  ASSUME NEW S, NEW w \in Seq(S), NEW q \in Seq(S), NEW x \in S
  PROVE  w \o Append(q, x) = Append(w \o q, x)
<1>1. <<x>> \in Seq(S) /\ w \o q \in Seq(S)
  BY ConcatProperties
<1>2. Append(q, x) = q \o <<x>> /\ Append(w \o q, x) = (w \o q) \o <<x>>
  BY <1>1, AppendIsConcat
<1> QED
  BY <1>1, <1>2, ConcatAssociative

-----------------------------------------------------------------------------
(***************************************************************************)
(* The coroutine server.  What is written and what waits to be is one       *)
(* ascending sequence of frames; all of it precedes what the logic system   *)
(* still has, and that precedes what the coroutine reads next.             *)
(***************************************************************************)
Sent == c_wire \o (IF c_write = "ok" THEN Tail(c_queue) ELSE c_queue)
Given == Elements(Sent) \cup Elements(c_refused)

\* A write is about to start, or outstanding, of a queue that is not empty.
WriterOK ==
  /\ c_writers \in {{}, {"logic"}, {"pool"}}
  /\ c_writers # {} => c_write = "none"
  /\ c_writers # {} \/ c_write # "none" => c_queue # <<>>
  /\ c_queue # <<>> /\ c_writers = {} /\ c_write = "none" => _b_close

\* The coroutine has passed on legal frames only.
ReadOK ==
  /\ \A i \in DOMAIN c_frames : i < next => ~Coroutine!Stops(i)
  /\ coroutine = "body" => ~Coroutine!InvalidId(next) /\ ~Coroutine!InvalidLen(next)
  /\ read = "ok" => next <= Len(c_frames)

AnswersOK ==
  /\ Ascending(Sent) /\ Ascending(c_msgs)
  /\ \A x \in Given, y \in Elements(c_msgs) : x < y
  /\ \A y \in Elements(c_msgs) : y < next
  /\ Elements(Sent) \cap Elements(c_refused) = {}
  /\ Given \cup (Elements(c_msgs) \cap Coroutine!Answered)
       = {i \in Coroutine!Answered : i < next}

CoroutineTypes ==
  /\ c_frames \in LongStreams /\ next \in 1 .. Len(c_frames) + 1
  /\ c_conn \in {"up", "down"} /\ _b_close \in BOOLEAN
  /\ accept \in {"listening", "started", "done"} /\ c_registered \in BOOLEAN
  /\ coroutine \in {"none", "spawned", "head", "body", "done"}
  /\ read \in {"none", "pending", "ok", "error"}
  /\ c_write \in {"none", "pending", "ok", "error"}
  /\ c_msgs \in Seq(DOMAIN c_frames) /\ c_queue \in Seq(DOMAIN c_frames)
  /\ c_refused \in Seq(DOMAIN c_frames) /\ c_wire \in Seq(DOMAIN c_frames)
  /\ Len(c_queue) <= LongQueue + 1

CoroutineInv == CoroutineTypes /\ WriterOK /\ ReadOK /\ AnswersOK

\* The frames of the client.
LEMMA LongFrames ==
  ASSUME CoroutineTypes
  PROVE  /\ DOMAIN c_frames = 1 .. Len(c_frames) /\ Len(c_frames) \in Nat
         /\ DOMAIN c_frames \subseteq Int /\ LongMax \in Nat /\ LongQueue \in Nat
<1>1. c_frames \in Seq([id : Nat, len : Nat]) /\ LongMax \in Nat /\ LongQueue \in Nat
  BY SessionsAssumption DEF CoroutineTypes
<1> QED
  BY <1>1, LenProperties

LEMMA InitCoroutine == Coroutine!Init => CoroutineInv
<1> SUFFICES ASSUME Coroutine!Init PROVE CoroutineInv
  OBVIOUS
<1>1. /\ <<>> \in Seq(DOMAIN c_frames) /\ Len(<<>>) = 0 /\ <<>> \o <<>> = <<>>
      /\ DOMAIN <<>> = {}
  BY EmptySeq, ConcatEmptySeq, LenProperties
<1>2. Elements(<<>>) = {}
  BY <1>1 DEF Elements
<1>3. c_frames \in Seq([id : Nat, len : Nat]) /\ LongQueue \in Nat
  BY SessionsAssumption DEF Coroutine!Init
<1>4. Len(c_frames) \in Nat /\ DOMAIN c_frames = 1 .. Len(c_frames)
  BY <1>3, LenProperties
<1>5. CoroutineTypes
  <2>1. 1 \in 1 .. Len(c_frames) + 1 /\ Len(<<>>) <= LongQueue + 1
    BY <1>1, <1>3, <1>4
  <2> QED
    BY <1>1, <2>1 DEF Coroutine!Init, CoroutineTypes
<1>6. WriterOK /\ ReadOK
  BY <1>4 DEF Coroutine!Init, WriterOK, ReadOK
<1>7. AnswersOK
  <2>1. Sent = <<>> /\ c_msgs = <<>> /\ c_refused = <<>> /\ next = 1
    BY <1>1 DEF Coroutine!Init, Sent
  <2>2. Ascending(<<>>) /\ Given = {}
    BY <1>1, <1>2, <2>1 DEF Ascending, Given
  <2>3. {i \in Coroutine!Answered : i < next} = {}
    BY <1>4, <2>1 DEF Coroutine!Answered, Coroutine!Legal
  <2> QED
    BY <1>2, <2>1, <2>2, <2>3 DEF AnswersOK
<1> QED
  BY <1>5, <1>6, <1>7 DEF CoroutineInv

\* What a step leaves alone.
LEMMA AnswersKept ==
  ASSUME AnswersOK, Sent' = Sent, UNCHANGED <<c_frames, c_msgs, c_refused, next>>
  PROVE  AnswersOK'
<1>1. Coroutine!Answered' = Coroutine!Answered
  BY DEF Coroutine!Answered, Coroutine!Legal, Coroutine!Stops,
     Coroutine!InvalidId,
         Coroutine!InvalidLen, Coroutine!Empty
<1>2. Given' = Given /\ Elements(c_msgs)' = Elements(c_msgs)
      /\ Ascending(c_msgs)' = Ascending(c_msgs) /\ Ascending(Sent)' = Ascending(Sent)
      /\ Elements(Sent)' = Elements(Sent) /\ Elements(c_refused)' = Elements(c_refused)
  BY DEF Given, Elements, Ascending
<1> QED
  BY <1>1, <1>2 DEF AnswersOK

\* The server accepts, a read ends, the connection is lost.
LEMMA CoroutineWorldKeeps ==
  ASSUME CoroutineInv,
         Coroutine!HandleAccept \/ Coroutine!ReadCompletes \/ Coroutine!ConnectionFails
  PROVE  CoroutineInv'
<1>1. CoroutineTypes /\ WriterOK /\ ReadOK /\ AnswersOK
  BY DEF CoroutineInv
<1>2. UNCHANGED <<c_frames, next, c_msgs, c_queue, c_writers, c_write, c_refused,
                  c_wire, _b_close>>
  BY DEF Coroutine!HandleAccept, Coroutine!start, Coroutine!ReadCompletes,
         Coroutine!ConnectionFails
<1>3. CoroutineTypes'
  BY <1>1, <1>2 DEF CoroutineTypes, Coroutine!HandleAccept, Coroutine!start,
     Coroutine!ReadCompletes, Coroutine!ConnectionFails
<1>4. WriterOK'
  BY <1>1, <1>2 DEF WriterOK
<1>5. ReadOK'
  BY <1>1, <1>2 DEF ReadOK, Coroutine!Stops, Coroutine!InvalidId,
     Coroutine!InvalidLen,
     Coroutine!Empty, Coroutine!HandleAccept, Coroutine!start, Coroutine!ReadCompletes,
     Coroutine!ConnectionFails
<1>6. AnswersOK'
  BY <1>1, <1>2, AnswersKept DEF Sent
<1> QED
  BY <1>3, <1>4, <1>5, <1>6 DEF CoroutineInv

\* The coroutine goes on without a body to pass on, or ends.
LEMMA CoroutineWaitsKeeps ==
  ASSUME CoroutineInv, Coroutine!CoroutineOnly,
         \/ Coroutine!Spawned \/ Coroutine!HeadRead \/ Coroutine!ReadThrows
         \/ Coroutine!Leave /\ UNCHANGED <<next, c_msgs>>
  PROVE  CoroutineInv'
<1> USE DEF Coroutine!CoroutineOnly, Coroutine!Spawned, Coroutine!HeadRead,
            Coroutine!ReadThrows, Coroutine!Loop, Coroutine!Await, Coroutine!Leave,
            Coroutine!close, Coroutine!clearSession, Coroutine!Aborted
<1>1. CoroutineTypes /\ WriterOK /\ ReadOK /\ AnswersOK
  BY DEF CoroutineInv
<1>2. UNCHANGED <<c_frames, next, c_msgs, c_queue, c_writers, c_refused, c_wire>>
  OBVIOUS
<1>3. /\ c_write' \in {"none", "pending", "ok", "error"}
      /\ (c_write' = "ok" <=> c_write = "ok") /\ (c_write' = "none" <=> c_write = "none")
      /\ (_b_close => _b_close') /\ _b_close' \in BOOLEAN
  BY <1>1 DEF CoroutineTypes
<1>4. CoroutineTypes'
  BY <1>1, <1>2, <1>3 DEF CoroutineTypes
<1>5. WriterOK'
  BY <1>1, <1>2, <1>3 DEF WriterOK
<1>6. ReadOK'
  BY <1>1, <1>2 DEF ReadOK, Coroutine!Stops, Coroutine!InvalidId,
     Coroutine!InvalidLen,
     Coroutine!Empty
<1>7. AnswersOK'
  BY <1>1, <1>2, <1>3, AnswersKept DEF Sent
<1> QED
  BY <1>4, <1>5, <1>6, <1>7 DEF CoroutineInv

\* The coroutine passes a frame on.
LEMMA BodyPassedOnKeeps ==
  ASSUME CoroutineInv, Coroutine!CoroutineOnly, Coroutine!BodyRead
  PROVE  CoroutineInv'
<1>1. CoroutineTypes /\ WriterOK /\ ReadOK /\ AnswersOK
  BY DEF CoroutineInv
<1>2. CASE Coroutine!Leave /\ UNCHANGED <<next, c_msgs>>
  BY <1>2, CoroutineWaitsKeeps
<1>3. CASE /\ ~Coroutine!ReadsZero(next) /\ c_msgs' = Append(c_msgs, next)
           /\ next' = next + 1 /\ Coroutine!Loop
  <2>1. UNCHANGED <<c_frames, c_conn, accept, c_queue, c_writers, c_refused, c_wire,
                    _b_close, c_write, c_registered>>
    BY <1>3 DEF Coroutine!CoroutineOnly, Coroutine!Loop, Coroutine!Await
  <2>2. coroutine' \in {"head", "done"} /\ read' \in {"none", "pending", "error"}
    BY <1>3 DEF Coroutine!Loop, Coroutine!Await
  <2> DEFINE N == Len(c_frames)
  <2>3. /\ N \in Nat /\ DOMAIN c_frames = 1 .. N /\ next \in 1 .. N
        /\ coroutine = "body"
    <3>1. next <= N /\ next \in 1 .. N + 1 /\ coroutine = "body"
      BY <1>1 DEF ReadOK, CoroutineTypes, Coroutine!BodyRead
    <3> QED
      BY <1>1, <3>1, LongFrames
  <2>4. ~Coroutine!Stops(next)
    BY <1>1, <1>3, <2>3
       DEF ReadOK, Coroutine!Stops, Coroutine!ReadsZero
  <2> HIDE DEF N
  <2>5. /\ c_msgs' \in Seq(DOMAIN c_frames)
        /\ Elements(c_msgs)' = Elements(c_msgs) \cup {next} /\ Ascending(c_msgs)'
    <3>1. c_msgs \in Seq(1 .. N) /\ \A y \in Elements(c_msgs) : y < next
      BY <1>1, <2>3 DEF CoroutineTypes, AnswersOK
    <3>2. Ascending(c_msgs)
      BY <1>1 DEF AnswersOK
    <3>3. /\ Append(c_msgs, next) \in Seq(1 .. N)
          /\ Elements(Append(c_msgs, next)) = Elements(c_msgs) \cup {next}
          /\ Ascending(Append(c_msgs, next))
      BY <2>3, <3>1, <3>2, AscendingAppend
    <3> QED
      BY <1>3, <2>3, <3>3 DEF Elements, Ascending
  <2>6. next' \in 1 .. N + 1
    BY <1>3, <2>3
  <2>7. CoroutineTypes'
    BY <1>1, <2>1, <2>2, <2>5, <2>6 DEF CoroutineTypes, N
  <2>8. WriterOK'
    BY <1>1, <2>1 DEF WriterOK
  <2>9. ReadOK'
    <3>1. \A i \in 1 .. N : i < next' => i < next \/ i = next
      BY <1>3, <2>3
    <3>2. \A i \in 1 .. N : i < next' => ~Coroutine!Stops(i)
      BY <1>1, <2>3, <2>4, <3>1 DEF ReadOK
    <3> QED
      BY <2>1, <2>2, <2>3, <3>2 DEF ReadOK, Coroutine!Stops, Coroutine!InvalidId,
         Coroutine!InvalidLen, Coroutine!Empty
  <2>10. AnswersOK'
    <3>1. /\ Sent' = Sent /\ Given' = Given /\ Elements(Sent)' = Elements(Sent)
          /\ Elements(c_refused)' = Elements(c_refused)
          /\ Ascending(Sent)' = Ascending(Sent)
      BY <2>1 DEF Sent, Given, Elements, Ascending
    <3>2. Coroutine!Answered' = Coroutine!Answered
      BY <2>1 DEF Coroutine!Answered, Coroutine!Legal, Coroutine!Stops,
         Coroutine!InvalidId, Coroutine!InvalidLen, Coroutine!Empty
    <3>3. Coroutine!Answered \subseteq 1 .. N /\ Given \cap Int \subseteq Int
      BY <2>3 DEF Coroutine!Answered, Coroutine!Legal
    <3>4. \A x \in Given : x \in Coroutine!Answered /\ x < next
      BY <1>1 DEF AnswersOK
    <3>5. \A y \in Elements(c_msgs) : y < next /\ y \in 1 .. N
      <4>1. c_msgs \in [1 .. Len(c_msgs) -> 1 .. N] /\ DOMAIN c_msgs = 1 .. Len(c_msgs)
        BY <1>1, <2>3, LenProperties DEF CoroutineTypes
      <4> QED
        BY <1>1, <4>1 DEF AnswersOK, Elements
    <3>6. \A y \in Elements(c_msgs) \cup {next} : y < next'
      BY <1>3, <2>3, <3>5
    <3>7. \A x \in Given, y \in Elements(c_msgs) \cup {next} : x < y
      BY <1>1, <3>4 DEF AnswersOK
    <3>8. Given \cup ((Elements(c_msgs) \cup {next}) \cap Coroutine!Answered)
            = {i \in Coroutine!Answered : i < next'}
      <4>1. \A i \in 1 .. N : i < next' <=> i < next \/ i = next
        BY <1>3, <2>3
      <4>2. Given \cup (Elements(c_msgs) \cap Coroutine!Answered)
              = {i \in Coroutine!Answered : i < next}
        BY <1>1 DEF AnswersOK
      <4> QED
        BY <3>3, <4>1, <4>2
    <3> QED
      BY <1>1, <2>5, <3>1, <3>2, <3>6, <3>7, <3>8 DEF AnswersOK
  <2> QED
    BY <2>7, <2>8, <2>9, <2>10 DEF CoroutineInv
<1> QED
  BY <1>2, <1>3 DEF Coroutine!BodyRead

\* The logic worker answers, or drops, the message at the front.
LEMMA DealMsgKeeps ==
  ASSUME CoroutineInv, Coroutine!DealMsg
  PROVE  CoroutineInv'
<1>1. CoroutineTypes /\ WriterOK /\ ReadOK /\ AnswersOK
  BY DEF CoroutineInv
<1> DEFINE N == Len(c_frames)
           h == Head(c_msgs)
<1>2. UNCHANGED <<c_frames, next, c_conn, _b_close, accept, c_registered, coroutine, read,
                  c_write, c_wire>>
      /\ c_msgs # <<>> /\ "logic" \notin c_writers /\ c_msgs' = Tail(c_msgs)
  BY DEF Coroutine!DealMsg, Coroutine!SenderOnly
<1>3. /\ N \in Nat /\ DOMAIN c_frames = 1 .. N /\ LongQueue \in Nat
  BY <1>1, LongFrames
<1>4. /\ h \in 1 .. N /\ c_msgs' \in Seq(1 .. N)
      /\ Elements(c_msgs) = {h} \cup Elements(c_msgs')
      /\ Ascending(c_msgs') /\ \A y \in Elements(c_msgs') : h < y
  <2>1. c_msgs \in Seq(1 .. N) /\ 1 .. N \subseteq Int /\ Ascending(c_msgs)
    BY <1>1, <1>3 DEF CoroutineTypes, AnswersOK
  <2> QED
    BY <1>2, <2>1, AscendingTail
<1>5. /\ \A x \in Given : x < h /\ x < next /\ x \in 1 .. N
      /\ h < next /\ \A y \in Elements(c_msgs') : y < next
  <2>1. h \in Elements(c_msgs) /\ Elements(c_msgs') \subseteq Elements(c_msgs)
    BY <1>4
  <2>2. Coroutine!Answered \subseteq 1 .. N
    BY <1>3 DEF Coroutine!Answered, Coroutine!Legal
  <2> QED
    BY <1>1, <2>1, <2>2 DEF AnswersOK
<1>6. c_queue \in Seq(1 .. N) /\ c_wire \in Seq(1 .. N) /\ c_refused \in Seq(1 .. N)
      /\ Len(c_queue) \in Nat
  BY <1>1, <1>3, LenProperties DEF CoroutineTypes
<1>7. Coroutine!Answered' = Coroutine!Answered
  BY <1>2 DEF Coroutine!Answered, Coroutine!Legal, Coroutine!Stops,
     Coroutine!InvalidId, Coroutine!InvalidLen, Coroutine!Empty
<1>8. h \in Coroutine!Answered <=> c_frames[h].id = MSG_HELLO_WORLD
  <2>1. \A j \in 1 .. h : j \in 1 .. N /\ j < next
    BY <1>1, <1>3, <1>4, <1>5 DEF CoroutineTypes
  <2>2. \A j \in 1 .. h : ~Coroutine!Stops(j)
    BY <1>1, <1>3, <2>1 DEF ReadOK
  <2> QED
    BY <1>3, <1>4, <2>2 DEF Coroutine!Answered, Coroutine!Legal
<1> HIDE DEF N, h
<1>9. ReadOK'
  BY <1>1, <1>2 DEF ReadOK, Coroutine!Stops, Coroutine!InvalidId,
         Coroutine!InvalidLen, Coroutine!Empty
<1>10. Sent \in Seq(1 .. N)
  <2>1. c_write = "ok" => Tail(c_queue) \in Seq(1 .. N)
    BY <1>1, <1>6, HeadTailProperties DEF WriterOK
  <2> QED
    BY <1>6, <2>1, ConcatProperties DEF Sent
<1>11. CASE c_frames[h].id # MSG_HELLO_WORLD
  <2>1. UNCHANGED <<c_queue, c_writers, c_refused>>
    BY <1>11 DEF Coroutine!DealMsg, h
  <2>2. CoroutineTypes' /\ WriterOK'
    BY <1>1, <1>2, <1>3, <1>4, <2>1 DEF CoroutineTypes, WriterOK
  <2>3. AnswersOK'
    <3>1. Sent' = Sent
      BY <1>2, <2>1 DEF Sent
    <3>2. /\ Given' = Given /\ Elements(Sent)' = Elements(Sent)
          /\ Elements(c_refused)' = Elements(c_refused)
          /\ Ascending(Sent)' = Ascending(Sent)
          /\ Elements(c_msgs)' = Elements(c_msgs') /\ Ascending(c_msgs)' = Ascending(c_msgs')
      BY <2>1, <3>1 DEF Given, Elements, Ascending
    <3>3. h \notin Coroutine!Answered
      BY <1>8, <1>11
    <3>4. Elements(c_msgs) \cap Coroutine!Answered
            = Elements(c_msgs') \cap Coroutine!Answered
      BY <1>4, <3>3
    <3> QED
      BY <1>1, <1>2, <1>4, <1>5, <1>7, <3>2, <3>4 DEF AnswersOK
  <2> QED
    BY <1>9, <2>2, <2>3 DEF CoroutineInv
<1>12. CASE c_frames[h].id = MSG_HELLO_WORLD /\ Len(c_queue) > LongQueue
  <2>1. UNCHANGED <<c_queue, c_writers>> /\ c_refused' = Append(c_refused, h)
    BY <1>12 DEF Coroutine!DealMsg, Coroutine!send, h
  <2>2. c_refused' \in Seq(1 .. N) /\ Elements(c_refused') = Elements(c_refused) \cup {h}
    <3>1. /\ Append(c_refused, h) \in Seq(1 .. N)
          /\ Elements(Append(c_refused, h)) = Elements(c_refused) \cup {h}
      <4>1. h \in 1 .. N /\ c_refused \in Seq(1 .. N)
        BY <1>4, <1>6
      <4>2. \A x \in 1 .. N :
              /\ Append(c_refused, x) \in Seq(1 .. N)
              /\ Elements(Append(c_refused, x)) = Elements(c_refused) \cup {x}
        BY <1>3, <4>1, AscendingAppend
      <4> QED
        BY <4>1, <4>2
    <3> QED
      BY <2>1, <3>1
  <2>3. CoroutineTypes' /\ WriterOK'
    BY <1>1, <1>2, <1>3, <1>4, <2>1, <2>2 DEF CoroutineTypes, WriterOK
  <2>4. AnswersOK'
    <3>1. Sent' = Sent
      BY <1>2, <2>1 DEF Sent
    <3>2. /\ Given' = Given \cup {h} /\ Elements(Sent)' = Elements(Sent)
          /\ Elements(c_refused)' = Elements(c_refused) \cup {h}
          /\ Ascending(Sent)' = Ascending(Sent)
          /\ Elements(c_msgs)' = Elements(c_msgs') /\ Ascending(c_msgs)' = Ascending(c_msgs')
      BY <2>1, <2>2, <3>1 DEF Given, Elements, Ascending
    <3>3. h \in Coroutine!Answered
      BY <1>8, <1>12
    <3>4. h \notin Elements(Sent)
      BY <1>4, <1>5 DEF Given
    <3>5. (Given \cup {h}) \cup (Elements(c_msgs') \cap Coroutine!Answered)
            = Given \cup (Elements(c_msgs) \cap Coroutine!Answered)
      BY <1>4, <3>3
    <3> QED
      BY <1>1, <1>2, <1>4, <1>5, <1>7, <3>2, <3>4, <3>5 DEF AnswersOK
  <2> QED
    BY <1>9, <2>3, <2>4 DEF CoroutineInv
<1>13. CASE c_frames[h].id = MSG_HELLO_WORLD /\ ~(Len(c_queue) > LongQueue)
  <2>1. /\ c_refused' = c_refused /\ c_queue' = Append(c_queue, h)
        /\ c_writers' = IF c_queue = <<>> THEN c_writers \cup {"logic"} ELSE c_writers
    BY <1>13 DEF Coroutine!DealMsg, Coroutine!send, Coroutine!StartsWrite, h
  <2>2. /\ c_queue' \in Seq(1 .. N) /\ c_queue' # <<>> /\ Len(c_queue') <= LongQueue + 1
    <3>1. /\ c_queue' \in Seq(1 .. N) /\ c_queue' # <<>>
          /\ Len(c_queue') = Len(c_queue) + 1
      BY <1>4, <1>6, <2>1, AppendProperties
    <3> QED
      BY <1>3, <1>6, <1>13, <3>1
  <2>3. WriterOK'
    BY <1>1, <1>2, <2>1, <2>2 DEF WriterOK
  <2>4. CoroutineTypes'
    <3>1. c_writers' \subseteq {"logic", "pool"}
      BY <2>3 DEF WriterOK
    <3> QED
      BY <1>1, <1>2, <1>3, <1>4, <2>1, <2>2, <3>1 DEF CoroutineTypes
  <2>5. AnswersOK'
    <3>1. Sent' = Append(Sent, h)
      <4>1. CASE c_write = "ok"
        <5>1. c_queue # <<>>
          BY <1>1, <4>1 DEF WriterOK
        <5>2. Tail(c_queue') = Append(Tail(c_queue), h) /\ Tail(c_queue) \in Seq(1 .. N)
          BY <1>6, <2>1, <5>1, HeadTailAppend, HeadTailProperties
        <5>3. c_wire \o Append(Tail(c_queue), h) = Append(c_wire \o Tail(c_queue), h)
          BY <1>4, <1>6, <5>2, AppendToSecond
        <5> QED
          BY <1>2, <4>1, <5>2, <5>3 DEF Sent
      <4>2. CASE c_write # "ok"
        <5>1. c_wire \o Append(c_queue, h) = Append(c_wire \o c_queue, h)
          BY <1>4, <1>6, AppendToSecond
        <5> QED
          BY <1>2, <2>1, <4>2, <5>1 DEF Sent
      <4> QED
        BY <4>1, <4>2
    <3>2. Elements(Sent') = Elements(Sent) \cup {h} /\ Ascending(Sent')
      <4>1. \A y \in Elements(Sent) : y < h
        BY <1>5 DEF Given
      <4>2. Ascending(Sent)
        BY <1>1 DEF AnswersOK
      <4>3. /\ Elements(Append(Sent, h)) = Elements(Sent) \cup {h}
            /\ Ascending(Append(Sent, h))
        <5>1. h \in 1 .. N
          BY <1>4
        <5> QED
          BY <1>3, <1>10, <4>1, <4>2, <5>1, AscendingAppend
      <4> QED
        BY <3>1, <4>3
    <3>3. /\ Given' = Given \cup {h} /\ Elements(Sent)' = Elements(Sent) \cup {h}
          /\ Elements(c_refused)' = Elements(c_refused)
          /\ Ascending(Sent)'
          /\ Elements(c_msgs)' = Elements(c_msgs') /\ Ascending(c_msgs)' = Ascending(c_msgs')
      BY <2>1, <3>2 DEF Given, Elements, Ascending
    <3>4. h \in Coroutine!Answered
      BY <1>8, <1>13
    <3>5. h \notin Elements(c_refused)
      BY <1>4, <1>5 DEF Given
    <3>6. (Given \cup {h}) \cup (Elements(c_msgs') \cap Coroutine!Answered)
            = Given \cup (Elements(c_msgs) \cap Coroutine!Answered)
      BY <1>4, <3>4
    <3> QED
      BY <1>1, <1>2, <1>4, <1>5, <1>7, <3>3, <3>5, <3>6 DEF AnswersOK
  <2> QED
    BY <1>9, <2>3, <2>4, <2>5 DEF CoroutineInv
<1> QED
  BY <1>11, <1>12, <1>13

\* A write starts, completes, or is handled.
LEMMA StartWriteKeeps ==
  ASSUME CoroutineInv, NEW who \in {"logic", "pool"}, Coroutine!StartWrite(who)
  PROVE  CoroutineInv'
<1>1. CoroutineTypes /\ WriterOK /\ ReadOK /\ AnswersOK
  BY DEF CoroutineInv
<1>2. /\ UNCHANGED <<c_frames, next, c_conn, _b_close, accept, c_registered, coroutine,
                     read, c_msgs, c_queue, c_refused, c_wire>>
      /\ c_writers' = c_writers \ {who} /\ who \in c_writers
      /\ c_write' \in {"pending", "error"}
  BY DEF Coroutine!StartWrite, Coroutine!SenderOnly
<1>3. c_writers' = {} /\ c_write = "none"
  BY <1>1, <1>2 DEF WriterOK
<1>4. CoroutineTypes' /\ WriterOK'
  BY <1>1, <1>2, <1>3 DEF CoroutineTypes, WriterOK
<1>5. ReadOK'
  BY <1>1, <1>2 DEF ReadOK, Coroutine!Stops, Coroutine!InvalidId,
         Coroutine!InvalidLen, Coroutine!Empty
<1>6. AnswersOK'
  BY <1>1, <1>2, <1>3, AnswersKept DEF Sent
<1> QED
  BY <1>4, <1>5, <1>6 DEF CoroutineInv

LEMMA WriteCompletesKeeps ==
  ASSUME CoroutineInv, Coroutine!WriteCompletes
  PROVE  CoroutineInv'
<1>1. CoroutineTypes /\ WriterOK /\ ReadOK /\ AnswersOK
  BY DEF CoroutineInv
<1>2. /\ UNCHANGED <<c_frames, next, c_conn, _b_close, accept, c_registered, coroutine,
                     read, c_msgs, c_queue, c_refused, c_writers>>
      /\ c_write = "pending"
      /\ \/ c_write' = "ok" /\ c_wire' = Append(c_wire, Head(c_queue))
         \/ c_write' = "error" /\ c_wire' = c_wire
  BY DEF Coroutine!WriteCompletes
<1>3. /\ c_queue # <<>> /\ c_queue \in Seq(DOMAIN c_frames)
      /\ c_wire \in Seq(DOMAIN c_frames)
  BY <1>1, <1>2 DEF WriterOK, CoroutineTypes
<1>4. /\ Append(c_wire, Head(c_queue)) \o Tail(c_queue) = c_wire \o c_queue
      /\ Append(c_wire, Head(c_queue)) \in Seq(DOMAIN c_frames)
  BY <1>3, FrontMoves, HeadTailProperties, AppendProperties
<1>5. CoroutineTypes'
  <2>1. c_wire' \in Seq(DOMAIN c_frames)
    BY <1>2, <1>3, <1>4
  <2> QED
    BY <1>1, <1>2, <2>1 DEF CoroutineTypes
<1>6. WriterOK'
  BY <1>1, <1>2, <1>3 DEF WriterOK
<1>7. ReadOK'
  BY <1>1, <1>2 DEF ReadOK, Coroutine!Stops, Coroutine!InvalidId,
         Coroutine!InvalidLen, Coroutine!Empty
<1>8. Sent' = Sent
  BY <1>2, <1>4 DEF Sent
<1> QED
  BY <1>1, <1>2, <1>5, <1>6, <1>7, <1>8, AnswersKept DEF CoroutineInv

LEMMA HandleWriteKeeps ==
  ASSUME CoroutineInv, Coroutine!HandleWrite
  PROVE  CoroutineInv'
<1>1. CoroutineTypes /\ WriterOK /\ ReadOK /\ AnswersOK
  BY DEF CoroutineInv
<1>2. UNCHANGED <<c_frames, next, c_conn, accept, coroutine, c_msgs, c_refused, c_wire>>
      /\ c_write # "none"
  BY DEF Coroutine!HandleWrite
<1>3. c_queue # <<>> /\ c_writers = {}
  BY <1>1, <1>2 DEF WriterOK
<1>4. CASE /\ c_write = "error" /\ Coroutine!close(read, "none")
           /\ Coroutine!clearSession /\ UNCHANGED <<c_queue, c_writers>>
  <2>1. /\ _b_close' = TRUE /\ c_write' = "none" /\ c_registered' = FALSE
        /\ (read' = read \/ read' = "error")
    BY <1>4 DEF Coroutine!close, Coroutine!clearSession, Coroutine!Aborted
  <2>2. CoroutineTypes' /\ WriterOK'
    BY <1>1, <1>2, <1>3, <1>4, <2>1 DEF CoroutineTypes, WriterOK
  <2>3. ReadOK'
    BY <1>1, <1>2, <2>1 DEF ReadOK, Coroutine!Stops, Coroutine!InvalidId,
           Coroutine!InvalidLen, Coroutine!Empty
  <2>4. AnswersOK'
    BY <1>1, <1>2, <1>4, <2>1, AnswersKept DEF Sent
  <2> QED
    BY <2>2, <2>3, <2>4 DEF CoroutineInv
<1>5. CASE /\ c_write = "ok" /\ c_write' = "none" /\ c_queue' = Tail(c_queue)
           /\ c_writers' = IF c_queue' # <<>> THEN c_writers \cup {"pool"} ELSE c_writers
           /\ UNCHANGED <<_b_close, read, c_registered>>
  <2>1. WriterOK'
    BY <1>1, <1>3, <1>5 DEF WriterOK
  <2>2. CoroutineTypes'
    <3>1. /\ Tail(c_queue) \in Seq(DOMAIN c_frames)
          /\ Len(Tail(c_queue)) = Len(c_queue) - 1
      BY <1>1, <1>3, HeadTailProperties DEF CoroutineTypes
    <3>2. Len(Tail(c_queue)) <= LongQueue + 1
      BY <1>1, <3>1, LenProperties, LongFrames DEF CoroutineTypes
    <3> QED
      BY <1>1, <1>2, <1>5, <3>1, <3>2 DEF CoroutineTypes
  <2>3. ReadOK'
    BY <1>1, <1>2, <1>5 DEF ReadOK, Coroutine!Stops, Coroutine!InvalidId,
           Coroutine!InvalidLen, Coroutine!Empty
  <2>4. AnswersOK'
    BY <1>1, <1>2, <1>5, AnswersKept DEF Sent
  <2> QED
    BY <2>1, <2>2, <2>3, <2>4 DEF CoroutineInv
<1> QED
  BY <1>4, <1>5 DEF Coroutine!HandleWrite

LEMMA CoroutineStep == CoroutineInv /\ [Coroutine!Next]_(Coroutine!vars) => CoroutineInv'
<1> SUFFICES ASSUME CoroutineInv, [Coroutine!Next]_(Coroutine!vars)
             PROVE  CoroutineInv'
  OBVIOUS
<1>1. CASE UNCHANGED Coroutine!vars
  <2>1. CoroutineTypes /\ WriterOK /\ ReadOK /\ AnswersOK
    BY DEF CoroutineInv
  <2>2. CoroutineTypes' /\ WriterOK'
    BY <1>1, <2>1 DEF Coroutine!vars, CoroutineTypes, WriterOK
  <2>3. ReadOK'
    BY <1>1, <2>1 DEF Coroutine!vars, ReadOK, Coroutine!Stops,
       Coroutine!InvalidId,
           Coroutine!InvalidLen, Coroutine!Empty
  <2>4. AnswersOK'
    BY <1>1, <2>1, AnswersKept DEF Coroutine!vars, Sent
  <2> QED
    BY <2>2, <2>3, <2>4 DEF CoroutineInv
<1>2. CASE Coroutine!HandleAccept \/ Coroutine!ReadCompletes \/ Coroutine!ConnectionFails
  BY <1>2, CoroutineWorldKeeps
<1>3. CASE Coroutine!Resume
  BY <1>3, CoroutineWaitsKeeps, BodyPassedOnKeeps DEF Coroutine!Resume
<1>4. CASE Coroutine!DealMsg
  BY <1>4, DealMsgKeeps
<1>5. CASE Coroutine!StartWrite("pool") \/ Coroutine!StartWrite("logic")
  BY <1>5, StartWriteKeeps
<1>6. CASE Coroutine!WriteCompletes
  BY <1>6, WriteCompletesKeeps
<1>7. CASE Coroutine!HandleWrite
  BY <1>7, HandleWriteKeeps
<1> QED
  BY <1>1, <1>2, <1>3, <1>4, <1>5, <1>6, <1>7
     DEF Coroutine!Next, Coroutine!Pool, Coroutine!Logic

THEOREM CoroutineInvariant == Coroutine!Spec => []CoroutineInv
BY InitCoroutine, CoroutineStep, PTL DEF Coroutine!Spec

LEMMA CoroutineImplies ==
  CoroutineInv
    => Coroutine!TypeOK /\ Coroutine!OneWriter /\ Coroutine!AnswersOfLegalFrames
<1> SUFFICES ASSUME CoroutineInv
             PROVE  /\ Coroutine!TypeOK /\ Coroutine!OneWriter
                    /\ Coroutine!AnswersOfLegalFrames
  OBVIOUS
<1>1. CoroutineTypes /\ WriterOK /\ ReadOK /\ AnswersOK
  BY DEF CoroutineInv
<1>2. Coroutine!TypeOK
  BY <1>1 DEF CoroutineTypes, WriterOK, Coroutine!TypeOK, Coroutine!Op
<1>3. Coroutine!OneWriter
  <2>1. /\ Coroutine!Cardinality({}) = 0 /\ Coroutine!Cardinality({"logic"}) = 1
        /\ Coroutine!Cardinality({"pool"}) = 1
    <3>1. \A x : Coroutine!Cardinality(x) = Cardinality(x)
      BY DEF Coroutine!Cardinality, Cardinality
    <3> QED
      BY <3>1, FS_EmptySet, FS_Singleton
  <2> DEFINE k == Coroutine!Cardinality(c_writers)
             b == IF c_write = "none" THEN 0 ELSE 1
  <2>2. /\ k = (IF c_writers = {} THEN 0 ELSE 1) /\ (c_writers # {} => b = 0)
    BY <1>1, <2>1 DEF WriterOK
  <2> HIDE DEF k
  <2>3. /\ k + b <= 1 /\ (k + b = 1 => c_queue # <<>>)
        /\ c_queue # <<>> /\ k + b = 0 => _b_close
    BY <1>1, <2>2 DEF WriterOK
  <2> QED
    BY <2>3 DEF k, Coroutine!OneWriter
<1>4. Coroutine!AnswersOfLegalFrames
  <2>1. \A q : Coroutine!Range(q) = Elements(q)
    BY DEF Coroutine!Range, Elements
  <2> QED
    BY <1>1, <2>1 DEF AnswersOK, Sent, Given, Ascending,
       Coroutine!AnswersOfLegalFrames
<1> QED
  BY <1>2, <1>3, <1>4

-----------------------------------------------------------------------------
(***************************************************************************)
(* v1, v2 and v3: a session in v1 or v2 has one operation outstanding, in    *)
(* v3 one of each kind, and what it owes its client is what it has queued.   *)
(***************************************************************************)
SimpleText == Seq(0 .. SimpleBytes + 3)
Busy(s) == reads[s] # 0 \/ s_writes[s] # <<>>
Fresh(s) == /\ ~Busy(s) /\ conn[s] = "none" /\ s_queue[s] = <<>>
            /\ pieces[s] = <<>> /\ s_wire[s] = <<>>

\* The answers of a connection that is up.
v1_owes(s) == /\ s_writes[s] = <<>> => pieces[s] = s_wire[s]
              /\ s_writes[s] # <<>> => /\ s_writes[s] = <<Simple!FromBuffer>>
                                       /\ pieces[s] = Append(s_wire[s], _data[s])
v2_owes(s) == /\ Len(pieces[s]) = Len(s_wire[s]) + Len(s_writes[s])
              /\ s_writes[s] # <<>> => s_writes[s] = <<Simple!Hello>>
              /\ \A i \in DOMAIN s_wire[s] : s_wire[s][i] = Simple!Hello
v3_owes(s) == /\ Len(pieces[s]) = Len(s_wire[s]) + Len(s_queue[s])
              /\ s_writes[s] = <<>> <=> s_queue[s] = <<>>

SessionOK(s) ==
  /\ object[s] = "unborn" \/ s = accepting => Fresh(s)
  /\ s = accepting \/ (version = "v1" /\ Busy(s)) => object[s] = "live"
  /\ Len(s_writes[s]) <= 1
  /\ version # "v3" => reads[s] = 0 \/ s_writes[s] = <<>>
  /\ conn[s] = "up" => /\ version = "v1" => v1_owes(s)
                       /\ version = "v2" => v2_owes(s)
                       /\ version = "v3" => v3_owes(s)

SimpleTypes ==
  /\ version \in {"v1", "v2", "v3"} /\ accepting \in Session \cup {NoSession}
  /\ object \in [Session -> {"unborn", "live", "deleted"}]
  /\ _sessions \subseteq Session /\ conn \in [Session -> {"none", "up", "down"}]
  /\ got \in [Session -> 0 .. SimpleBytes] /\ reads \in [Session -> {0, 1}]
  /\ _data \in [Session -> SimpleText]
  /\ s_writes \in [Session -> Seq(SimpleText)] /\ s_queue \in [Session -> Seq(SimpleText)]
  /\ pieces \in [Session -> Seq(SimpleText)] /\ s_wire \in [Session -> Seq(SimpleText)]
  /\ \A s \in Session : Len(_data[s]) <= SimpleMax

SimpleInv == SimpleTypes /\ \A s \in Session : SessionOK(s)

\* What the servers write is text.
LEMMA Texts ==
  /\ <<>> \in SimpleText /\ Simple!Hello \in SimpleText
  /\ Simple!Unknown \in SimpleText /\ Simple!FromBuffer \in SimpleText
  /\ Simple!Hello # Simple!FromBuffer
<1>1. SimpleBytes \in Nat
  BY SessionsAssumption
<1>2. <<>> \in SimpleText
  BY EmptySeq, Zenon DEF SimpleText
<1>3. \A n \in 0 .. SimpleBytes + 3 : <<n>> \in SimpleText
  BY DEF SimpleText
<1> QED
  BY <1>1, <1>2, <1>3 DEF Simple!Hello, Simple!Unknown, Simple!FromBuffer

\* A piece of what the client sends.
LEMMA PieceIsText ==
  ASSUME SimpleInv, NEW s \in Session, NEW k \in 1 .. SimpleMax,
         got[s] + k <= SimpleBytes
  PROVE  /\ Simple!Piece(s, k) \in SimpleText /\ Len(Simple!Piece(s, k)) = k
         /\ got[s] + k \in 0 .. SimpleBytes
<1>1. SimpleBytes \in Nat /\ SimpleMax \in Nat /\ got[s] \in 0 .. SimpleBytes
  BY SessionsAssumption DEF SimpleInv, SimpleTypes
<1>2. \A i \in 1 .. k : got[s] + i \in 0 .. SimpleBytes + 3
  BY <1>1
<1>3. [i \in 1 .. k |-> got[s] + i] \in Seq(0 .. SimpleBytes + 3)
  BY <1>1, <1>2, IsASeq
<1> QED
  BY <1>1, <1>3 DEF Simple!Piece, SimpleText

LEMMA InitSimple == Simple!Init => SimpleInv
<1> SUFFICES ASSUME Simple!Init PROVE SimpleInv
  OBVIOUS
<1>1. <<>> \in Seq(SimpleText) /\ Len(<<>>) = 0
  BY EmptySeq, Zenon
<1>2. SimpleTypes
  BY <1>1, Texts, SessionsAssumption DEF Simple!Init, SimpleTypes
<1>3. \A s \in Session : SessionOK(s)
  BY <1>1 DEF Simple!Init, SessionOK, Fresh, Busy
<1> QED
  BY <1>2, <1>3 DEF SimpleInv

\* Queues of at most one element, and adding to them.
LEMMA OneAtMost ==
  ASSUME NEW S, NEW q \in Seq(S), NEW x \in S
  PROVE  /\ Append(q, x) \in Seq(S) /\ Len(Append(q, x)) = Len(q) + 1
         /\ Append(q, x) # <<>> /\ (q = <<>> => Append(q, x) = <<x>>)
         /\ \A i \in DOMAIN Append(q, x) : 
              Append(q, x)[i] = x \/ (i \in DOMAIN q /\ Append(q, x)[i] = q[i])
         /\ Len(q) \in Nat /\ (Len(q) = 0 <=> q = <<>>)
         /\ q # <<>> => /\ Head(q) \in S /\ Tail(q) \in Seq(S)
                        /\ Len(Tail(q)) = Len(q) - 1
                        /\ Len(q) <= 1 => Tail(q) = <<>> /\ q = <<Head(q)>> /\ Len(q) = 1
<1>1. /\ Append(q, x) \in Seq(S) /\ Len(Append(q, x)) = Len(q) + 1 /\ Append(q, x) # <<>>
      /\ \A i \in 1 .. Len(q) : Append(q, x)[i] = q[i]
      /\ Append(q, x)[Len(q) + 1] = x
      /\ DOMAIN Append(q, x) = 1 .. Len(q) + 1 /\ DOMAIN q = 1 .. Len(q)
  BY AppendProperties, LenProperties
<1>2. Len(q) \in Nat /\ (Len(q) = 0 <=> q = <<>>)
  BY LenProperties, EmptySeq
<1>3. ASSUME q # <<>>
      PROVE  /\ Head(q) \in S /\ Tail(q) \in Seq(S) /\ Len(Tail(q)) = Len(q) - 1
             /\ Len(q) <= 1 => Tail(q) = <<>> /\ q = <<Head(q)>> /\ Len(q) = 1
  <2>1. Head(q) \in S /\ Tail(q) \in Seq(S) /\ Len(Tail(q)) = Len(q) - 1
    BY <1>3, HeadTailProperties
  <2>2. ASSUME Len(q) <= 1 PROVE Tail(q) = <<>> /\ q = <<Head(q)>> /\ Len(q) = 1
    <3>0. Len(q) # 0
      BY <1>2, <1>3, Zenon
    <3>1. Len(q) = 1
      <4>1. Len(q) \in Nat
        BY <1>2
      <4>2. \A n \in Nat : n # 0 /\ n <= 1 => n = 1
        OBVIOUS
      <4> QED
        BY <2>2, <3>0, <4>1, <4>2, Zenon
    <3>2. Tail(q) = <<>>
      <4>1. Len(Tail(q)) = 0
        BY <2>1, <3>1
      <4> QED
        BY <2>1, <4>1, EmptySeq
    <3>3. q = <<Head(q)>>
      BY <3>1
    <3> QED
      BY <3>1, <3>2, <3>3
  <2> QED
    BY <2>1, <2>2
<1>4. q = <<>> => Append(q, x) = <<x>>
  OBVIOUS
<1>5. ASSUME NEW i \in DOMAIN Append(q, x)
      PROVE  Append(q, x)[i] = x \/ (i \in DOMAIN q /\ Append(q, x)[i] = q[i])
  BY <1>1, <1>2
<1> QED
  BY <1>1, <1>2, <1>3, <1>4, <1>5

\* A step of one session's.
LEMMA OneSessionMoves ==
  ASSUME SimpleInv, NEW s \in Session, SimpleTypes', SessionOK(s)',
         UNCHANGED <<version, accepting>>,
         \A t \in Session \ {s} :
           /\ object'[t] = object[t] /\ reads'[t] = reads[t] /\ conn'[t] = conn[t]
           /\ s_writes'[t] = s_writes[t] /\ s_queue'[t] = s_queue[t]
           /\ pieces'[t] = pieces[t] /\ s_wire'[t] = s_wire[t] /\ _data'[t] = _data[t]
  PROVE  SimpleInv'
<1>1. ASSUME NEW t \in Session \ {s} PROVE SessionOK(t)'
  <2>1. SessionOK(t)
    BY DEF SimpleInv
  <2>2. (Fresh(t)' <=> Fresh(t)) /\ (Busy(t)' <=> Busy(t))
    BY DEF Fresh, Busy
  <2>3. (v1_owes(t)' <=> v1_owes(t)) /\ (v3_owes(t)' <=> v3_owes(t))
    BY DEF v1_owes, v3_owes
  <2>4. v2_owes(t)' <=> v2_owes(t)
    BY DEF v2_owes
  <2> QED
    BY <2>1, <2>2, <2>3, <2>4 DEF SessionOK
<1> QED
  BY <1>1 DEF SimpleInv

\* Reads and writes that fail.
LEMMA ReadFailsKeeps ==
  ASSUME SimpleInv, NEW s \in Session, Simple!OtherParts, Simple!ReadFails(s),
         \/ version = "v1" /\ Simple!deleteThis(s)
         \/ version # "v1" /\ Simple!clearSession(s)
  PROVE  SimpleInv'
<1> USE DEF Simple!OtherParts, Simple!ReadFails, Simple!deleteThis, Simple!clearSession
<1>1. reads[s] = 1 /\ conn[s] = "down" /\ SessionOK(s) /\ SimpleTypes
  BY DEF SimpleInv, SimpleTypes
<1>2. reads' = [reads EXCEPT ![s] = 0]
  BY <1>1
<1>3. SimpleTypes'
  BY <1>1, <1>2 DEF SimpleTypes
<1>4. reads'[s] = 0 /\ s_writes'[s] = s_writes[s]
  BY <1>1, <1>2 DEF SimpleTypes
<1>5. version = "v1" => s_writes[s] = <<>>
  BY <1>1 DEF SessionOK
<1>6. s # accepting /\ object[s] # "unborn"
  BY <1>1 DEF SessionOK, Fresh, Busy
<1>7. object'[s] # "unborn"
  BY <1>1, <1>6 DEF SimpleTypes
<1>8. SessionOK(s)'
  BY <1>1, <1>4, <1>5, <1>6, <1>7 DEF SessionOK, Busy
<1>9. \A t \in Session \ {s} : object'[t] = object[t] /\ reads'[t] = reads[t]
  BY <1>1, <1>2 DEF SimpleTypes
<1> QED
  BY <1>3, <1>8, <1>9, OneSessionMoves

LEMMA WriteFailsKeeps ==
  ASSUME SimpleInv, NEW s \in Session, Simple!OtherParts, Simple!WriteFails(s),
         \/ version = "v1" /\ Simple!deleteThis(s)
         \/ version # "v1" /\ Simple!clearSession(s)
  PROVE  SimpleInv'
<1> USE DEF Simple!OtherParts, Simple!WriteFails, Simple!deleteThis, Simple!clearSession
<1>1. s_writes[s] # <<>> /\ conn[s] = "down" /\ SessionOK(s) /\ SimpleTypes
  BY DEF SimpleInv
<1>2. s_writes[s] \in Seq(SimpleText) /\ Len(s_writes[s]) <= 1
  BY <1>1 DEF SessionOK, SimpleTypes
<1>3. Tail(s_writes[s]) = <<>> /\ <<>> \in Seq(SimpleText) /\ Len(<<>>) = 0
  BY <1>1, <1>2, Texts, OneAtMost, EmptySeq
<1>4. s_writes' = [s_writes EXCEPT ![s] = <<>>]
  BY <1>3
<1>5. SimpleTypes'
  <2>1. s_writes' \in [Session -> Seq(SimpleText)]
    BY <1>1, <1>3, <1>4 DEF SimpleTypes
  <2> QED
    BY <1>1, <2>1 DEF SimpleTypes
<1>6. reads'[s] = reads[s] /\ s_writes'[s] = <<>>
  BY <1>1, <1>4 DEF SimpleTypes
<1>7. version = "v1" => reads[s] = 0
  BY <1>1 DEF SessionOK
<1>8. s # accepting /\ object[s] # "unborn"
  BY <1>1 DEF SessionOK, Fresh, Busy
<1>9. object'[s] # "unborn"
  BY <1>1, <1>8 DEF SimpleTypes
<1>10. SessionOK(s)'
  BY <1>1, <1>3, <1>6, <1>7, <1>8, <1>9 DEF SessionOK, Busy
<1>11. \A t \in Session \ {s} : object'[t] = object[t] /\ s_writes'[t] = s_writes[t]
  BY <1>1, <1>4 DEF SimpleTypes
<1> QED
  BY <1>5, <1>10, <1>11, OneSessionMoves

\* A read that brings a piece.
LEMMA PieceKeeps ==
  ASSUME SimpleInv, NEW s \in Session, NEW k \in 1 .. SimpleMax, Simple!OtherParts,
         Simple!Arrives(s, k), version \in {"v1", "v2"},
         _data' = [_data EXCEPT ![s] = Simple!Piece(s, k)],
         \E a \in {Simple!FromBuffer, Simple!Hello} :
           /\ a = IF version = "v1" THEN Simple!FromBuffer ELSE Simple!Hello
           /\ s_writes' = [s_writes EXCEPT ![s] = Append(@, a)],
         Simple!ReadIsOver(s), Simple!KeepObject, UNCHANGED <<s_wire, s_queue>>
  PROVE  SimpleInv'
<1> USE DEF Simple!OtherParts, Simple!Arrives, Simple!ReadIsOver, Simple!KeepObject
<1> DEFINE p == Simple!Piece(s, k)
           a == IF version = "v1" THEN Simple!FromBuffer ELSE Simple!Hello
<1>1. SimpleTypes /\ SessionOK(s) /\ reads[s] = 1 /\ conn[s] = "up" /\ s_writes[s] = <<>>
  <2>1. SimpleTypes /\ SessionOK(s) /\ conn[s] = "up" /\ reads[s] > 0
    BY DEF SimpleInv
  <2>2. reads[s] \in {0, 1}
    BY <2>1 DEF SimpleTypes
  <2> QED
    BY <2>1, <2>2 DEF SessionOK
<1>2. /\ p \in SimpleText /\ Len(p) = k /\ k <= SimpleMax
      /\ got[s] + k \in 0 .. SimpleBytes /\ a \in SimpleText
  BY PieceIsText, Texts, SessionsAssumption
<1> HIDE DEF p, a
<1>3. s_writes' = [s_writes EXCEPT ![s] = <<a>>]
  BY <1>1 DEF a
<1>4. reads' = [reads EXCEPT ![s] = 0] /\ _data' = [_data EXCEPT ![s] = p]
      /\ pieces' = [pieces EXCEPT ![s] = Append(@, p)]
  BY <1>1 DEF p
<1>5. /\ Append(pieces[s], p) \in Seq(SimpleText)
      /\ Len(Append(pieces[s], p)) = Len(pieces[s]) + 1
      /\ <<a>> \in Seq(SimpleText) /\ Len(<<a>>) = 1 /\ <<a>> # <<>>
  BY <1>1, <1>2, OneAtMost DEF SimpleTypes
<1>6. SimpleTypes'
  <2>1. got' \in [Session -> 0 .. SimpleBytes]
    BY <1>1, <1>2 DEF SimpleTypes
  <2>2. _data' \in [Session -> SimpleText]
    BY <1>1, <1>2, <1>4 DEF SimpleTypes
  <2>3. \A t \in Session : Len(_data'[t]) <= SimpleMax
    BY <1>1, <1>2, <1>4 DEF SimpleTypes
  <2> QED
    BY <1>1, <1>3, <1>4, <1>5, <2>1, <2>2, <2>3 DEF SimpleTypes
<1>7. /\ reads'[s] = 0 /\ s_writes'[s] = <<a>> /\ _data'[s] = p
      /\ pieces'[s] = Append(pieces[s], p)
  BY <1>1, <1>3, <1>4 DEF SimpleTypes
<1>8. s # accepting /\ object[s] # "unborn"
  BY <1>1 DEF SessionOK, Fresh, Busy
<1>9. version = "v1" => object[s] = "live" /\ v1_owes(s)'
  <2>1. ASSUME version = "v1" PROVE object[s] = "live" /\ v1_owes(s)'
    <3>1. object[s] = "live" /\ v1_owes(s)
      BY <1>1, <2>1 DEF SessionOK, Busy
    <3>2. a = Simple!FromBuffer /\ UNCHANGED s_wire
      BY <2>1 DEF a
    <3>3. pieces[s] = s_wire[s]
      BY <1>1, <3>1 DEF v1_owes
    <3> QED
      BY <1>5, <1>7, <3>1, <3>2, <3>3 DEF v1_owes
  <2> QED
    BY <2>1
<1>10. version = "v2" => v2_owes(s)'
  <2>1. ASSUME version = "v2" PROVE v2_owes(s)'
    <3> DEFINE pp == Append(pieces[s], p)
    <3>1. v2_owes(s) /\ Len(s_writes[s]) = 0 /\ Len(pieces[s]) \in Nat /\ Len(s_wire[s]) \in Nat
      BY <1>1, <2>1, EmptySeq, LenProperties DEF SessionOK, SimpleTypes
    <3>2. a = Simple!Hello /\ UNCHANGED s_wire
      BY <2>1 DEF a
    <3>3. pieces'[s] = pp /\ Len(pp) = Len(pieces[s]) + 1 /\ s_writes'[s] = <<a>>
      BY <1>5, <1>7
    <3> HIDE DEF pp
    <3>4. Len(pieces[s]) = Len(s_wire[s]) + Len(s_writes[s])
      BY <3>1 DEF v2_owes
    <3>5. Len(pp) = Len(s_wire[s]) + 1
      BY <3>1, <3>3, <3>4
    <3>6. Len(s_writes'[s]) = 1 /\ s_writes'[s] = <<Simple!Hello>>
      BY <1>5, <3>2, <3>3
    <3>7. \A i \in DOMAIN s_wire[s] : s_wire[s][i] = Simple!Hello
      BY <3>1 DEF v2_owes
    <3>8. Len(pieces'[s]) = Len(s_wire'[s]) + Len(s_writes'[s])
      BY <3>2, <3>3, <3>5, <3>6
    <3>9. Simple!Hello' = Simple!Hello
      BY DEF Simple!Hello
    <3> QED
      BY <3>2, <3>6, <3>7, <3>8, <3>9 DEF v2_owes
  <2> QED
    BY <2>1
<1>11. SessionOK(s)'
  BY <1>1, <1>5, <1>7, <1>8, <1>9, <1>10 DEF SessionOK
<1>12. \A t \in Session \ {s} : /\ reads'[t] = reads[t] /\ s_writes'[t] = s_writes[t]
                               /\ _data'[t] = _data[t] /\ pieces'[t] = pieces[t]
  BY <1>1, <1>3, <1>4 DEF SimpleTypes
<1> QED
  BY <1>6, <1>11, <1>12, OneSessionMoves

\* v3 reads on while it writes.
LEMMA v3PieceKeeps ==
  ASSUME SimpleInv, NEW s \in Session, NEW k \in 1 .. SimpleMax, Simple!OtherParts,
         Simple!Arrives(s, k), version = "v3", Simple!v3_send(s, Simple!Piece(s, k)),
         _data' = [_data EXCEPT ![s] = <<>>],
         Simple!KeepObject, UNCHANGED <<reads, s_wire>>
  PROVE  SimpleInv'
<1> USE DEF Simple!OtherParts, Simple!Arrives, Simple!KeepObject
<1> DEFINE p == Simple!Piece(s, k)
<1>1. SimpleTypes /\ SessionOK(s) /\ reads[s] = 1 /\ conn[s] = "up" /\ v3_owes(s)
  <2>1. SimpleTypes /\ SessionOK(s) /\ conn[s] = "up" /\ reads[s] > 0
    BY DEF SimpleInv
  <2>2. reads[s] \in {0, 1}
    BY <2>1 DEF SimpleTypes
  <2> QED
    BY <2>1, <2>2 DEF SessionOK
<1>2. /\ p \in SimpleText /\ got[s] + k \in 0 .. SimpleBytes
      /\ <<>> \in SimpleText /\ Len(<<>>) = 0 /\ SimpleMax \in Nat
  BY PieceIsText, Texts, SessionsAssumption, EmptySeq
<1>3. /\ s_queue' = [s_queue EXCEPT ![s] = Append(@, p)]
      /\ pieces' = [pieces EXCEPT ![s] = Append(@, p)]
  BY DEF Simple!v3_send
<1>4. \E w \in Seq(SimpleText) : /\ s_writes' = [s_writes EXCEPT ![s] = w]
                                /\ Len(w) <= 1 /\ w # <<>>
  <2>1. CASE s_queue[s] = <<>>
    <3>1. PICK t \in {p, Simple!FromBuffer} : s_writes' = [s_writes EXCEPT ![s] = Append(@, t)]
      BY <2>1 DEF Simple!v3_send
    <3>2. s_writes[s] = <<>> /\ t \in SimpleText
      BY <1>1, <1>2, <2>1, Texts DEF v3_owes
    <3>3. Append(s_writes[s], t) = <<t>> /\ <<t>> \in Seq(SimpleText) /\ Len(<<t>>) = 1
          /\ <<t>> # <<>>
      BY <3>2
    <3> DEFINE w == <<t>>
    <3>4. w \in Seq(SimpleText) /\ Len(w) <= 1 /\ w # <<>>
      BY <3>3
    <3>5. s_writes' = [s_writes EXCEPT ![s] = w]
      BY <3>1, <3>3
    <3> HIDE DEF w
    <3> QED
      BY <3>4, <3>5
  <2>2. CASE s_queue[s] # <<>>
    <3>1. UNCHANGED s_writes
      BY <2>2 DEF Simple!v3_send
    <3>2. s_writes[s] # <<>> /\ s_writes[s] \in Seq(SimpleText) /\ Len(s_writes[s]) <= 1
      BY <1>1, <2>2 DEF v3_owes, SessionOK, SimpleTypes
    <3>3. s_writes' = [s_writes EXCEPT ![s] = s_writes[s]]
      BY <1>1, <3>1 DEF SimpleTypes
    <3> QED
      BY <3>2, <3>3
  <2> QED
    BY <2>1, <2>2
<1> HIDE DEF p
<1>5. PICK w \in Seq(SimpleText) : /\ s_writes' = [s_writes EXCEPT ![s] = w]
                                 /\ Len(w) <= 1 /\ w # <<>>
  BY <1>4
<1>6. /\ Append(pieces[s], p) \in Seq(SimpleText)
      /\ Len(Append(pieces[s], p)) = Len(pieces[s]) + 1 /\ Len(pieces[s]) \in Nat
      /\ Append(s_queue[s], p) \in Seq(SimpleText) /\ Append(s_queue[s], p) # <<>>
      /\ Len(Append(s_queue[s], p)) = Len(s_queue[s]) + 1 /\ Len(s_queue[s]) \in Nat
      /\ Len(s_wire[s]) \in Nat
  <2>1. /\ pieces[s] \in Seq(SimpleText) /\ s_queue[s] \in Seq(SimpleText)
        /\ s_wire[s] \in Seq(SimpleText)
    BY <1>1 DEF SimpleTypes
  <2>2. /\ Append(pieces[s], p) \in Seq(SimpleText)
        /\ Len(Append(pieces[s], p)) = Len(pieces[s]) + 1
    BY <1>2, <2>1, OneAtMost
  <2>3. /\ Append(s_queue[s], p) \in Seq(SimpleText) /\ Append(s_queue[s], p) # <<>>
        /\ Len(Append(s_queue[s], p)) = Len(s_queue[s]) + 1
    BY <1>2, <2>1, OneAtMost
  <2> QED
    BY <2>1, <2>2, <2>3, LenProperties
<1>7. SimpleTypes'
  <2>1. got' \in [Session -> 0 .. SimpleBytes]
    BY <1>1, <1>2 DEF SimpleTypes
  <2>2. _data' \in [Session -> SimpleText]
    BY <1>1, <1>2 DEF SimpleTypes
  <2>3. \A t \in Session : Len(_data'[t]) <= SimpleMax
    BY <1>1, <1>2 DEF SimpleTypes
  <2> QED
    BY <1>1, <1>3, <1>5, <1>6, <2>1, <2>2, <2>3 DEF SimpleTypes
<1>8. /\ s_writes'[s] = w /\ s_queue'[s] = Append(s_queue[s], p)
      /\ pieces'[s] = Append(pieces[s], p)
  BY <1>1, <1>3, <1>5 DEF SimpleTypes
<1>9. s # accepting /\ object[s] # "unborn"
  BY <1>1 DEF SessionOK, Fresh, Busy
<1>10. v3_owes(s)'
  <2> DEFINE pp == Append(pieces[s], p)
             qq == Append(s_queue[s], p)
  <2>1. Len(pieces[s]) = Len(s_wire[s]) + Len(s_queue[s])
    BY <1>1 DEF v3_owes
  <2>2. qq # <<>>
    BY <1>6
  <2>6. Len(pp) = Len(pieces[s]) + 1 /\ Len(qq) = Len(s_queue[s]) + 1
    BY <1>6
  <2>3. s_writes'[s] # <<>> /\ s_queue'[s] = qq /\ pieces'[s] = pp /\ s_wire'[s] = s_wire[s]
    BY <1>5, <1>8
  <2> HIDE DEF pp, qq
  <2>4. Len(pieces[s]) \in Nat /\ Len(s_queue[s]) \in Nat /\ Len(s_wire[s]) \in Nat
    BY <1>6
  <2>5. Len(pp) = Len(s_wire[s]) + Len(qq)
    <3> DEFINE a == Len(pieces[s])
               b == Len(s_wire[s])
               c == Len(s_queue[s])
               x == Len(pp)
               y == Len(qq)
    <3>1. a = b + c /\ a \in Nat /\ b \in Nat /\ c \in Nat /\ x = a + 1 /\ y = c + 1
      BY <2>1, <2>4, <2>6
    <3> HIDE DEF a, b, c, x, y
    <3>2. x = b + y
      BY <3>1
    <3> QED
      BY <3>2 DEF x, b, y
  <2> QED
    BY <2>2, <2>3, <2>5 DEF v3_owes
<1>11. SessionOK(s)'
  BY <1>1, <1>5, <1>8, <1>9, <1>10 DEF SessionOK
<1>12. \A t \in Session \ {s} : /\ s_writes'[t] = s_writes[t] /\ s_queue'[t] = s_queue[t]
                               /\ _data'[t] = _data[t] /\ pieces'[t] = pieces[t]
  BY <1>1, <1>3, <1>5 DEF SimpleTypes
<1> QED
  BY <1>7, <1>11, <1>12, OneSessionMoves

\* A write that is over.
LEMMA LeavesKeeps ==
  ASSUME SimpleInv, NEW s \in Session, Simple!OtherParts, version \in {"v1", "v2"},
         Simple!Leaves(s), s_writes' = [s_writes EXCEPT ![s] = Tail(@)],
         _data' = [_data EXCEPT ![s] = <<>>], Simple!StartRead(s), Simple!KeepObject,
         UNCHANGED <<got, pieces, s_queue>>
  PROVE  SimpleInv'
<1> USE DEF Simple!OtherParts, Simple!Leaves, Simple!StartRead, Simple!KeepObject
<1>1. /\ SimpleTypes /\ SessionOK(s) /\ conn[s] = "up" /\ s_writes[s] # <<>>
      /\ s_writes[s] \in Seq(SimpleText) /\ Len(s_writes[s]) <= 1 /\ reads[s] = 0
      /\ s_wire[s] \in Seq(SimpleText)
  BY DEF SimpleInv, SimpleTypes, SessionOK
<1>2. /\ Tail(s_writes[s]) = <<>> /\ Len(s_writes[s]) = 1
      /\ <<>> \in Seq(SimpleText) /\ Len(<<>>) = 0 /\ <<>> \in SimpleText
  BY <1>1, Texts, OneAtMost, EmptySeq
<1>3. PICK t \in Simple!TextsOf(s) : s_wire' = [s_wire EXCEPT ![s] = Append(@, t)]
  OBVIOUS
<1>4. t = IF version = "v1" THEN _data[s] ELSE Simple!Hello
  <2>1. CASE version = "v1"
    <3>1. Head(s_writes[s]) = Simple!FromBuffer
      BY <1>1, <2>1 DEF SessionOK, v1_owes
    <3>2. t \in Simple!InBuffer(s)
      BY <1>3, <3>1 DEF Simple!TextsOf
    <3> QED
      BY <1>1, <2>1, <3>2 DEF Simple!InBuffer
  <2>2. CASE version = "v2"
    <3>1. Head(s_writes[s]) = Simple!Hello
      BY <1>1, <2>2 DEF SessionOK, v2_owes
    <3> QED
      BY <1>3, <2>2, <3>1, Texts DEF Simple!TextsOf
  <2> QED
    BY <2>1, <2>2
<1>5. t \in SimpleText
  BY <1>1, <1>4, Texts DEF SimpleTypes
<1> DEFINE w == Append(s_wire[s], t)
<1>6. /\ w \in Seq(SimpleText) /\ Len(w) = Len(s_wire[s]) + 1 /\ Len(s_wire[s]) \in Nat
      /\ \A i \in DOMAIN w : w[i] = t \/ (i \in DOMAIN s_wire[s] /\ w[i] = s_wire[s][i])
  BY <1>1, <1>5, OneAtMost
<1>7. /\ s_wire' = [s_wire EXCEPT ![s] = w] /\ s_writes' = [s_writes EXCEPT ![s] = <<>>]
      /\ reads' = [reads EXCEPT ![s] = 1]
  <2>1. reads' = [reads EXCEPT ![s] = 1]
    BY <1>1
  <2> QED
    BY <1>1, <1>2, <1>3, <2>1
<1>8. w = Append(s_wire[s], t)
  OBVIOUS
<1> HIDE DEF w
<1>9. SimpleTypes'
  <2>1. _data' \in [Session -> SimpleText]
    BY <1>1, <1>2 DEF SimpleTypes
  <2>2. \A x \in Session : Len(_data'[x]) <= SimpleMax
    BY <1>1, <1>2, SessionsAssumption DEF SimpleTypes
  <2> QED
    BY <1>1, <1>2, <1>6, <1>7, <2>1, <2>2 DEF SimpleTypes
<1>10. s_wire'[s] = w /\ s_writes'[s] = <<>> /\ reads'[s] = 1
  BY <1>1, <1>7 DEF SimpleTypes
<1>11. s # accepting /\ object[s] # "unborn"
  BY <1>1 DEF SessionOK, Fresh, Busy
<1>12. version = "v1" => object[s] = "live" /\ v1_owes(s)'
  <2>1. ASSUME version = "v1" PROVE object[s] = "live" /\ v1_owes(s)'
    <3>1. object[s] = "live" /\ v1_owes(s)
      BY <1>1, <2>1 DEF SessionOK, Busy
    <3>2. pieces[s] = w
      BY <1>1, <1>4, <1>8, <2>1, <3>1 DEF v1_owes
    <3> QED
      BY <1>10, <3>1, <3>2 DEF v1_owes
  <2> QED
    BY <2>1
<1>13. version = "v2" => v2_owes(s)'
  <2>1. ASSUME version = "v2" PROVE v2_owes(s)'
    <3>1. v2_owes(s) /\ t = Simple!Hello
      BY <1>1, <1>4, <2>1 DEF SessionOK
    <3>2. Len(pieces[s]) = Len(s_wire[s]) + Len(s_writes[s])
      BY <3>1 DEF v2_owes
    <3>3. Len(pieces'[s]) = Len(w) + Len(s_writes'[s])
      <4>1. Len(pieces[s]) = Len(s_wire[s]) + 1 /\ Len(w) = Len(s_wire[s]) + 1
            /\ Len(s_wire[s]) \in Nat
        BY <1>2, <1>6, <3>2
      <4>2. Len(pieces[s]) = Len(w) + 0
        <5> HIDE DEF Simple!Leaves, Simple!OtherParts, Simple!StartRead, Simple!KeepObject
        <5> QED
          BY <4>1
      <4> QED
        BY <1>2, <1>10, <4>2
    <3>4. \A i \in DOMAIN w : w[i] = Simple!Hello
      BY <1>6, <3>1 DEF v2_owes
    <3>5. Simple!Hello' = Simple!Hello
      BY DEF Simple!Hello
    <3> QED
      BY <1>10, <3>3, <3>4, <3>5 DEF v2_owes
  <2> QED
    BY <2>1
<1>14. SessionOK(s)'
  BY <1>1, <1>2, <1>10, <1>11, <1>12, <1>13 DEF SessionOK
<1>15. \A x \in Session \ {s} : /\ reads'[x] = reads[x] /\ s_writes'[x] = s_writes[x]
                               /\ _data'[x] = _data[x] /\ s_wire'[x] = s_wire[x]
  BY <1>1, <1>7 DEF SimpleTypes
<1> QED
  BY <1>9, <1>14, <1>15, OneSessionMoves

\* Whatever the buffer holds by now is text.
LEMMA v3LeavesKeeps ==
  ASSUME SimpleInv, NEW s \in Session, Simple!OtherParts, version = "v3",
         Simple!Leaves(s),
         s_queue' = [s_queue EXCEPT ![s] = Tail(s_queue[s])],
         \E t \in IF Tail(s_queue[s]) = <<>> THEN {<<>>}
                  ELSE {<<Head(Tail(s_queue[s]))>>, <<Simple!Unknown>>} :
           s_writes' = [s_writes EXCEPT ![s] = Tail(@) \o t],
         Simple!KeepObject, UNCHANGED <<got, pieces, reads, _data>>
  PROVE  SimpleInv'
<1> USE DEF Simple!OtherParts, Simple!KeepObject
<1> DEFINE q == Tail(s_queue[s])
<1>1. /\ SimpleTypes /\ SessionOK(s) /\ conn[s] = "up" /\ s_writes[s] # <<>> /\ v3_owes(s)
      /\ s_writes[s] \in Seq(SimpleText) /\ Len(s_writes[s]) <= 1
      /\ s_wire[s] \in Seq(SimpleText) /\ s_queue[s] \in Seq(SimpleText)
  BY DEF SimpleInv, SimpleTypes, SessionOK, Simple!Leaves
<1>2. /\ Tail(s_writes[s]) = <<>> /\ Head(s_writes[s]) \in SimpleText
      /\ <<>> \in Seq(SimpleText) /\ Len(<<>>) = 0
  BY <1>1, Texts, OneAtMost, EmptySeq
<1>3. s_queue[s] # <<>>
  BY <1>1 DEF v3_owes
<1>4. /\ q \in Seq(SimpleText) /\ Len(q) = Len(s_queue[s]) - 1 /\ Len(s_queue[s]) \in Nat
      /\ q # <<>> => Head(q) \in SimpleText
  BY <1>1, <1>3, OneAtMost, HeadTailProperties, LenProperties
<1>5. PICK t \in Simple!TextsOf(s) : s_wire' = [s_wire EXCEPT ![s] = Append(@, t)]
  BY DEF Simple!Leaves
<1>6. t \in SimpleText
  <2>1. CASE t \in Simple!InBuffer(s)
    <3>1. CASE t = _data[s]
      BY <1>1, <3>1 DEF SimpleTypes
    <3>2. ASSUME NEW k \in 1 .. SimpleMax, got[s] + k <= SimpleBytes, t = Simple!Piece(s, k)
          PROVE  t \in SimpleText
      BY <3>2, PieceIsText
    <3> QED
      BY <2>1, <3>1, <3>2 DEF Simple!InBuffer
  <2>2. CASE t = Head(s_writes[s])
    BY <1>2, <2>2
  <2> QED
    BY <1>5, <2>1, <2>2 DEF Simple!TextsOf
<1> DEFINE w == Append(s_wire[s], t)
<1>7. /\ w \in Seq(SimpleText) /\ Len(w) = Len(s_wire[s]) + 1 /\ Len(s_wire[s]) \in Nat
  BY <1>1, <1>6, OneAtMost
<1>8. \E x \in Seq(SimpleText) : /\ s_writes' = [s_writes EXCEPT ![s] = x]
                                /\ Len(x) <= 1 /\ (x = <<>> <=> q = <<>>)
  <2>1. PICK x \in IF q = <<>> THEN {<<>>} ELSE {<<Head(q)>>, <<Simple!Unknown>>} :
          s_writes' = [s_writes EXCEPT ![s] = Tail(@) \o x]
    OBVIOUS
  <2>2. CASE q = <<>>
    <3>1. x = <<>>
      BY <2>1, <2>2
    <3>2. Tail(s_writes[s]) \o x = <<>>
      BY <1>2, <3>1
    <3> DEFINE y == <<>>
    <3>3. s_writes' = [s_writes EXCEPT ![s] = y]
      BY <2>1, <3>2
    <3>4. y \in Seq(SimpleText) /\ Len(y) <= 1 /\ y = <<>>
      BY <1>2
    <3> HIDE DEF y
    <3> QED
      BY <2>2, <3>3, <3>4
  <2>3. CASE q # <<>>
    <3> HIDE DEF q
    <3>1. PICK e \in SimpleText : x = <<e>>
      BY <1>4, <2>1, <2>3, Texts
    <3> DEFINE y == <<e>>
    <3>2. y \in Seq(SimpleText) /\ Len(y) = 1 /\ y # <<>> /\ <<>> \o y = y
      OBVIOUS
    <3>3. Tail(s_writes[s]) \o x = y
      BY <1>2, <3>1, <3>2
    <3>4. s_writes' = [s_writes EXCEPT ![s] = y]
      BY <2>1, <3>3
    <3>5. Len(y) <= 1
      BY <3>2
    <3> HIDE DEF y
    <3> QED
      BY <2>3, <3>2, <3>4, <3>5
  <2> QED
    BY <2>2, <2>3
<1>9. PICK x \in Seq(SimpleText) : /\ s_writes' = [s_writes EXCEPT ![s] = x]
                                 /\ Len(x) <= 1 /\ (x = <<>> <=> q = <<>>)
  BY <1>8
<1>10. s_wire' = [s_wire EXCEPT ![s] = w] /\ s_queue' = [s_queue EXCEPT ![s] = q]
  BY <1>5
<1> HIDE DEF w, q
<1>11. SimpleTypes'
  <2>1. s_writes' \in [Session -> Seq(SimpleText)]
    BY <1>1, <1>9 DEF SimpleTypes
  <2>2. s_queue' \in [Session -> Seq(SimpleText)] /\ s_wire' \in [Session -> Seq(SimpleText)]
    BY <1>1, <1>4, <1>7, <1>10 DEF SimpleTypes
  <2> QED
    BY <1>1, <1>4, <2>1, <2>2 DEF SimpleTypes
<1>12. s_wire'[s] = w /\ s_writes'[s] = x /\ s_queue'[s] = q /\ pieces'[s] = pieces[s]
  BY <1>1, <1>9, <1>10 DEF SimpleTypes
<1>13. s # accepting /\ object[s] # "unborn"
  BY <1>1 DEF SessionOK, Fresh, Busy
<1>14. v3_owes(s)'
  <2>1. Len(pieces[s]) = Len(s_wire[s]) + Len(s_queue[s])
    BY <1>1 DEF v3_owes
  <2> DEFINE a == Len(s_wire[s])
             b == Len(s_queue[s])
             c == Len(pieces[s])
             d == Len(w)
             e == Len(q)
  <2>2. c = a + b /\ a \in Nat /\ b \in Nat /\ d = a + 1 /\ e = b - 1
    BY <1>4, <1>7, <2>1
  <2> HIDE DEF a, b, c, d, e
  <2>3. c = d + e
    BY <2>2
  <2> QED
    BY <1>9, <1>12, <2>3 DEF v3_owes, c, d, e
<1>15. SessionOK(s)'
  BY <1>1, <1>9, <1>12, <1>13, <1>14 DEF SessionOK
<1>16. \A y \in Session \ {s} : /\ s_queue'[y] = s_queue[y] /\ s_writes'[y] = s_writes[y]
                               /\ s_wire'[y] = s_wire[y]
  BY <1>1, <1>9, <1>10 DEF SimpleTypes
<1> QED
  BY <1>11, <1>15, <1>16, OneSessionMoves DEF SimpleTypes

\* The server.
LEMMA AcceptKeeps ==
  ASSUME SimpleInv, NEW s \in Session, s = accepting, Simple!ServerOnly,
         Simple!start_accept(object), _sessions' \subseteq Session,
         Simple!Accepted(s) \/ Simple!NotAccepted(s)
  PROVE  SimpleInv'
<1>1. SimpleTypes /\ SessionOK(s) /\ object[s] = "live" /\ Fresh(s)
  BY DEF SimpleInv, SessionOK
<1>2. accepting' \in Session \cup {NoSession}
  BY DEF Simple!start_accept, Simple!Unborn
<1>3. accepting' \in Session => object[accepting'] = "unborn" /\ object'[accepting'] = "live"
  BY <1>1, SessionsAssumption DEF Simple!start_accept, Simple!Unborn, SimpleTypes
<1>4. /\ object' \in [Session -> {"unborn", "live", "deleted"}]
      /\ \A t \in Session : t # accepting' => object'[t] = object[t]
  <2>1. CASE object' = object
    BY <1>1, <2>1 DEF SimpleTypes
  <2>2. ASSUME NEW u \in Session, accepting' = u, object' = [object EXCEPT ![u] = "live"]
        PROVE  /\ object' \in [Session -> {"unborn", "live", "deleted"}]
               /\ \A t \in Session : t # accepting' => object'[t] = object[t]
    BY <1>1, <2>2 DEF SimpleTypes
  <2> QED
    BY <2>1, <2>2 DEF Simple!start_accept, Simple!Unborn
<1>5. reads[s] = 0
  BY <1>1 DEF Fresh, Busy
<1>6. /\ reads' \in [Session -> {0, 1}] /\ conn' \in [Session -> {"none", "up", "down"}]
      /\ \A t \in Session \ {s} : reads'[t] = reads[t] /\ conn'[t] = conn[t]
      /\ \/ reads'[s] = 0 /\ conn'[s] = conn[s]
         \/ reads'[s] = 1 /\ conn'[s] = "up"
  <2>1. CASE Simple!Accepted(s)
    <3>1. reads' = [reads EXCEPT ![s] = 1] /\ conn' = [conn EXCEPT ![s] = "up"]
      BY <1>5, <2>1 DEF Simple!Accepted, Simple!StartRead
    <3> QED
      BY <1>1, <3>1 DEF SimpleTypes
  <2>2. CASE Simple!NotAccepted(s)
    BY <1>1, <1>5, <2>2 DEF Simple!NotAccepted, SimpleTypes
  <2> QED
    BY <2>1, <2>2
<1>7. SimpleTypes'
  BY <1>1, <1>2, <1>4, <1>6 DEF SimpleTypes, Simple!ServerOnly
<1>8. /\ s_writes[s] = <<>> /\ pieces[s] = <<>> /\ s_wire[s] = <<>> /\ s_queue[s] = <<>>
      /\ Len(<<>>) = 0 /\ conn[s] = "none"
  BY <1>1, EmptySeq DEF Fresh, Busy
<1>9. s # accepting'
  BY <1>1, <1>3
<1>10. SessionOK(s)'
  <2>1. UNCHANGED <<version, s_writes, pieces, s_wire, s_queue, _data>>
    BY DEF Simple!ServerOnly
  <2>4. /\ s_writes'[s] = <<>> /\ pieces'[s] = <<>> /\ s_wire'[s] = <<>>
        /\ s_queue'[s] = <<>> /\ DOMAIN <<>> = {} /\ 0 = 0 + 0
    BY <1>8, <2>1
  <2>2. (v1_owes(s) /\ v2_owes(s) /\ v3_owes(s))'
    <3>1. v1_owes(s)' /\ v3_owes(s)'
      BY <1>8, <2>4 DEF v1_owes, v3_owes
    <3>2. v2_owes(s)'
      BY <1>8, <2>4 DEF v2_owes
    <3> QED
      BY <3>1, <3>2
  <2>3. object'[s] = "live"
    BY <1>1, <1>4, <1>9
  <2> QED
    BY <1>6, <1>8, <1>9, <2>1, <2>2, <2>3 DEF SessionOK
<1>11. ASSUME NEW t \in Session \ {s} PROVE SessionOK(t)'
  <2>1. SessionOK(t) /\ t # accepting
    BY DEF SimpleInv
  <2>2. UNCHANGED <<version, s_writes, pieces, s_wire, s_queue, _data>>
    BY DEF Simple!ServerOnly
  <2>3. (Fresh(t)' <=> Fresh(t)) /\ (Busy(t)' <=> Busy(t))
    BY <1>6, <2>2 DEF Fresh, Busy
  <2>4. (v1_owes(t)' <=> v1_owes(t)) /\ (v3_owes(t)' <=> v3_owes(t))
    BY <2>2 DEF v1_owes, v3_owes
  <2>5. v2_owes(t)' <=> v2_owes(t)
    BY <2>2 DEF v2_owes
  <2>6. reads'[t] = reads[t] /\ conn'[t] = conn[t] /\ s_writes'[t] = s_writes[t]
    BY <1>6, <2>2
  <2>7. CASE t = accepting'
    BY <1>3, <2>1, <2>2, <2>3, <2>4, <2>5, <2>6, <2>7 DEF SessionOK
  <2>8. CASE t # accepting'
    <3>1. object'[t] = object[t]
      BY <1>4, <2>8
    <3> QED
      BY <2>1, <2>2, <2>3, <2>4, <2>5, <2>6, <2>8, <3>1 DEF SessionOK
  <2> QED
    BY <2>7, <2>8
<1> QED
  BY <1>7, <1>10, <1>11 DEF SimpleInv

LEMMA v1NotAcceptedKeeps ==
  ASSUME SimpleInv, NEW s \in Session, s = accepting, Simple!ServerOnly,
         Simple!NotAccepted(s), accepting' = NoSession, Simple!deleteThis(s)
  PROVE  SimpleInv'
<1> USE DEF Simple!ServerOnly, Simple!NotAccepted, Simple!deleteThis
<1>1. SimpleTypes /\ SessionOK(s) /\ Fresh(s)
  BY DEF SimpleInv, SessionOK
<1>2. SimpleTypes'
  BY <1>1 DEF SimpleTypes
<1>3. object'[s] = "deleted" /\ \A t \in Session \ {s} : object'[t] = object[t]
  BY <1>1 DEF SimpleTypes
<1>4. ASSUME NEW t \in Session PROVE SessionOK(t)'
  <2>1. SessionOK(t) /\ t # accepting'
    BY SessionsAssumption DEF SimpleInv
  <2>2. (Fresh(t)' <=> Fresh(t)) /\ (Busy(t)' <=> Busy(t))
    BY DEF Fresh, Busy
  <2>3. (v1_owes(t)' <=> v1_owes(t)) /\ (v3_owes(t)' <=> v3_owes(t))
    BY DEF v1_owes, v3_owes
  <2>4. v2_owes(t)' <=> v2_owes(t)
    BY DEF v2_owes
  <2>5. Fresh(t) => ~Busy(t)
    BY DEF Fresh
  <2> QED
    BY <1>1, <1>3, <2>1, <2>2, <2>3, <2>4, <2>5 DEF SessionOK
<1> QED
  BY <1>2, <1>4 DEF SimpleInv

LEMMA SimpleConnectionFailsKeeps ==
  ASSUME SimpleInv, NEW s \in Session, Simple!ConnectionFails(s)
  PROVE  SimpleInv'
<1> USE DEF Simple!ConnectionFails
<1>1. SimpleTypes /\ SessionOK(s)
  BY DEF SimpleInv
<1>2. SimpleTypes'
  BY <1>1 DEF SimpleTypes
<1>3. conn'[s] = "down" /\ \A t \in Session \ {s} : conn'[t] = conn[t]
  BY <1>1 DEF SimpleTypes
<1>4. (Busy(s)' <=> Busy(s)) /\ ~Fresh(s)
  BY DEF Fresh, Busy
<1>5. SessionOK(s)'
  BY <1>1, <1>3, <1>4 DEF SessionOK
<1> QED
  BY <1>2, <1>3, <1>5, OneSessionMoves

LEMMA SimpleStep == SimpleInv /\ [Simple!Next]_(Simple!vars) => SimpleInv'
<1> SUFFICES ASSUME SimpleInv, [Simple!Next]_(Simple!vars) PROVE SimpleInv'
  OBVIOUS
<1>1. version \in {"v1", "v2", "v3"} /\ _sessions \subseteq Session
  BY DEF SimpleInv, SimpleTypes
<1>2. ASSUME NEW s \in Session, version = "v1", Simple!v1_handle_accept(s) PROVE SimpleInv'
  <2>1. CASE Simple!Accepted(s) /\ Simple!start_accept(object)
    BY <1>1, <1>2, <2>1, AcceptKeeps DEF Simple!v1_handle_accept
  <2>2. CASE Simple!NotAccepted(s) /\ accepting' = NoSession /\ Simple!deleteThis(s)
    BY <1>2, <2>2, v1NotAcceptedKeeps DEF Simple!v1_handle_accept
  <2> QED
    BY <1>2, <2>1, <2>2 DEF Simple!v1_handle_accept
<1>3. ASSUME NEW s \in Session, Simple!StartAndInsert(s) PROVE SimpleInv'
  <2>1. _sessions' \subseteq Session
    BY <1>1, <1>3 DEF Simple!StartAndInsert
  <2> QED
    BY <1>3, <2>1, AcceptKeeps DEF Simple!StartAndInsert
<1>4. ASSUME NEW s \in Session, version = "v1", Simple!v1_handle_read(s) PROVE SimpleInv'
  <2>1. CASE Simple!ReadFails(s) /\ Simple!deleteThis(s)
    BY <1>4, <2>1, ReadFailsKeeps DEF Simple!v1_handle_read
  <2>2. CASE ~(Simple!ReadFails(s) /\ Simple!deleteThis(s))
    BY <1>4, <2>2, PieceKeeps, Zenon DEF Simple!v1_handle_read
  <2> QED
    BY <2>1, <2>2
<1>5. ASSUME NEW s \in Session, version = "v2", Simple!v2_handle_read(s) PROVE SimpleInv'
  <2>1. CASE Simple!ReadFails(s) /\ Simple!clearSession(s)
    BY <1>5, <2>1, ReadFailsKeeps DEF Simple!v2_handle_read
  <2>2. CASE ~(Simple!ReadFails(s) /\ Simple!clearSession(s))
    BY <1>5, <2>2, PieceKeeps, Zenon DEF Simple!v2_handle_read
  <2> QED
    BY <2>1, <2>2
<1>6. ASSUME NEW s \in Session, version = "v3", Simple!v3_handle_Read(s) PROVE SimpleInv'
  <2>1. CASE Simple!ReadFails(s) /\ Simple!clearSession(s)
    BY <1>6, <2>1, ReadFailsKeeps DEF Simple!v3_handle_Read
  <2>2. CASE ~(Simple!ReadFails(s) /\ Simple!clearSession(s))
    BY <1>6, <2>2, v3PieceKeeps, Zenon DEF Simple!v3_handle_Read
  <2> QED
    BY <2>1, <2>2
<1>7. ASSUME NEW s \in Session, version = "v1", Simple!v1_handle_write(s) PROVE SimpleInv'
  BY <1>7, LeavesKeeps, WriteFailsKeeps DEF Simple!v1_handle_write
<1>8. ASSUME NEW s \in Session, version = "v2", Simple!v2_handle_write(s) PROVE SimpleInv'
  BY <1>8, LeavesKeeps, WriteFailsKeeps DEF Simple!v2_handle_write
<1>9. ASSUME NEW s \in Session, version = "v3", Simple!v3_handle_Write(s) PROVE SimpleInv'
  BY <1>9, v3LeavesKeeps, WriteFailsKeeps, Zenon DEF Simple!v3_handle_Write
<1>10. ASSUME NEW s \in Session, Simple!ConnectionFails(s) PROVE SimpleInv'
  BY <1>10, SimpleConnectionFailsKeeps
<1>11. CASE UNCHANGED Simple!vars
  <2>1. SimpleTypes'
    BY <1>11 DEF Simple!vars, SimpleInv, SimpleTypes
  <2>2. ASSUME NEW s \in Session PROVE SessionOK(s)'
    BY <1>11, <2>1, OneSessionMoves DEF Simple!vars, SimpleInv, SessionOK,
       Fresh, Busy,
       v1_owes, v2_owes, v3_owes
  <2> QED
    BY <2>1, <2>2 DEF SimpleInv
<1>12. ASSUME NEW s \in Session, Simple!Step(s) PROVE SimpleInv'
  <2>1. CASE version = "v1"
    BY <1>2, <1>4, <1>7, <1>12, <2>1 DEF Simple!Step
  <2>2. CASE version = "v2"
    BY <1>3, <1>5, <1>8, <1>12, <2>2 DEF Simple!Step, Simple!v2_handle_accept
  <2>3. CASE version = "v3"
    BY <1>3, <1>6, <1>9, <1>12, <2>3 DEF Simple!Step, Simple!v3_handle_Accept
  <2> QED
    BY <1>1, <2>1, <2>2, <2>3
<1> QED
  BY <1>10, <1>11, <1>12 DEF Simple!Next

THEOREM SimpleInvariant == Simple!Spec => []SimpleInv
BY InitSimple, SimpleStep, PTL DEF Simple!Spec

LEMMA SimpleImplies ==
  SimpleInv => Simple!TypeOK /\ Simple!NoUseAfterFree /\ Simple!OneAnswerEach
<1> SUFFICES ASSUME SimpleInv
             PROVE  Simple!TypeOK /\ Simple!NoUseAfterFree /\ Simple!OneAnswerEach
  OBVIOUS
<1>1. Simple!TypeOK
  <2>1. SimpleText = Simple!Text
    BY DEF SimpleText, Simple!Text
  <2>2. ASSUME NEW s \in Session
        PROVE  /\ _data[s] \in Simple!Text /\ Len(_data[s]) <= SimpleMax
               /\ \A q \in {s_writes[s], s_queue[s], pieces[s], s_wire[s]} :
                    q \in Seq(Simple!Text)
    <3>1. /\ _data[s] \in SimpleText /\ Len(_data[s]) <= SimpleMax
          /\ s_writes[s] \in Seq(SimpleText) /\ s_queue[s] \in Seq(SimpleText)
          /\ pieces[s] \in Seq(SimpleText) /\ s_wire[s] \in Seq(SimpleText)
      BY DEF SimpleInv, SimpleTypes
    <3> QED
      BY <2>1, <3>1
  <2>3. reads \in [Session -> Nat]
    <3>1. reads \in [Session -> {0, 1}]
      BY DEF SimpleInv, SimpleTypes
    <3>2. \A s \in Session : reads[s] \in Nat
      BY <3>1
    <3> QED
      BY <3>1, <3>2
  <2> QED
    BY <2>2, <2>3 DEF SimpleInv, SimpleTypes, Simple!TypeOK
<1>2. ASSUME NEW s \in Session
      PROVE  /\ reads[s] + Len(s_writes[s]) > 0 => Simple!Alive(s)
             /\ reads[s] <= 1 /\ Len(s_writes[s]) <= 1
             /\ version \in {"v1", "v2"} => reads[s] + Len(s_writes[s]) <= 1
  <2>1. /\ SessionOK(s) /\ s_writes[s] \in Seq(SimpleText) /\ reads[s] \in {0, 1}
        /\ version \in {"v1", "v2", "v3"}
    BY DEF SimpleInv, SimpleTypes
  <2> DEFINE n == Len(s_writes[s])
             m == reads[s]
  <2>2. n \in Nat /\ n <= 1 /\ (n # 0 => s_writes[s] # <<>>) /\ m \in {0, 1}
    BY <2>1, EmptySeq, LenProperties DEF SessionOK
  <2>3. s_writes[s] = <<>> => n = 0
    BY EmptySeq
  <2>4. Busy(s) => Simple!Alive(s)
    BY <2>1 DEF Simple!Alive, Busy, SessionOK
  <2>5. Busy(s) <=> (m # 0 \/ s_writes[s] # <<>>)
    BY DEF Busy
  <2>6. version \in {"v1", "v2"} => m = 0 \/ s_writes[s] = <<>>
    BY <2>1 DEF SessionOK
  <2> HIDE DEF n, m
  <2>7. m + n > 0 => m # 0 \/ n # 0
    BY <2>2
  <2>8. m = 0 \/ n = 0 => m + n <= 1
    BY <2>2
  <2>9. m + n > 0 => Simple!Alive(s)
    BY <2>2, <2>4, <2>5, <2>7
  <2>10. version \in {"v1", "v2"} => m + n <= 1
    BY <2>3, <2>6, <2>8
  <2>11. m <= 1
    BY <2>2
  <2> QED
    BY <2>2, <2>9, <2>10, <2>11 DEF m, n
<1>3. ASSUME NEW s \in Session, conn[s] = "up"
      PROVE  LET answers == s_wire[s] \o
                   (IF version = "v3" THEN s_queue[s]
                    ELSE [i \in DOMAIN s_writes[s] |->
                            IF version = "v1" THEN _data[s] ELSE Simple!Hello])
             IN /\ Len(answers) = Len(pieces[s])
                /\ version = "v1" => answers = pieces[s]
                /\ version = "v2" => \A i \in DOMAIN answers : answers[i] = Simple!Hello
  <2>1. /\ SessionOK(s) /\ version \in {"v1", "v2", "v3"}
        /\ s_writes[s] \in Seq(SimpleText) /\ s_wire[s] \in Seq(SimpleText)
        /\ s_queue[s] \in Seq(SimpleText) /\ _data[s] \in SimpleText
        /\ pieces[s] \in Seq(SimpleText)
    BY DEF SimpleInv, SimpleTypes
  <2>2. CASE version = "v1"
    <3>1. v1_owes(s)
      BY <1>3, <2>1, <2>2 DEF SessionOK
    <3>2. CASE s_writes[s] = <<>>
      BY <2>1, <2>2, <3>1, <3>2 DEF v1_owes
    <3>3. CASE s_writes[s] # <<>>
      <4>1. [i \in DOMAIN s_writes[s] |-> IF version = "v1" THEN _data[s] ELSE Simple!Hello]
              = <<_data[s]>>
        BY <2>2, <3>1, <3>3 DEF v1_owes
      <4>2. s_wire[s] \o <<_data[s]>> = Append(s_wire[s], _data[s])
        BY <2>1
      <4> QED
        BY <2>2, <3>1, <3>3, <4>1, <4>2 DEF v1_owes
    <3> QED
      BY <3>2, <3>3
  <2>3. CASE version = "v2"
    <3>1. v2_owes(s)
      BY <1>3, <2>1, <2>3 DEF SessionOK
    <3> DEFINE a == [i \in DOMAIN s_writes[s] |-> IF version = "v1" THEN _data[s] ELSE Simple!Hello]
    <3>2. a = s_writes[s]
      BY <2>3, <2>1, <3>1 DEF v2_owes
    <3>3. \A i \in 1 .. Len(s_writes[s]) : s_writes[s][i] = Simple!Hello
      BY <2>1, <3>1 DEF v2_owes
    <3>4. /\ Len(s_wire[s] \o s_writes[s]) = Len(s_wire[s]) + Len(s_writes[s])
          /\ DOMAIN (s_wire[s] \o s_writes[s]) = 1 .. Len(s_wire[s]) + Len(s_writes[s])
          /\ DOMAIN s_wire[s] = 1 .. Len(s_wire[s])
          /\ Len(s_wire[s]) \in Nat /\ Len(s_writes[s]) \in Nat
      BY <2>1, ConcatProperties, LenProperties
    <3>5. ASSUME NEW i \in DOMAIN (s_wire[s] \o s_writes[s])
          PROVE  (s_wire[s] \o s_writes[s])[i] = Simple!Hello
      <4>1. CASE i <= Len(s_wire[s])
        BY <2>1, <3>1, <3>4, <4>1, ConcatProperties DEF v2_owes
      <4>2. CASE i > Len(s_wire[s])
        <5> DEFINE a0 == Len(s_wire[s])
                   b0 == Len(s_writes[s])
        <5>2. a0 \in Nat /\ b0 \in Nat /\ i \in 1 .. a0 + b0 /\ i > a0
          BY <3>4, <4>2
        <5> HIDE DEF a0, b0
        <5>3. i - a0 \in 1 .. b0
          BY <5>2
        <5>1. i - Len(s_wire[s]) \in 1 .. Len(s_writes[s])
          BY <5>3 DEF a0, b0
        <5> QED
          BY <2>1, <3>3, <3>4, <4>2, <5>1, ConcatProperties
      <4> QED
        BY <3>4, <4>1, <4>2
    <3> QED
      BY <2>3, <3>1, <3>2, <3>4, <3>5 DEF v2_owes
  <2>4. CASE version = "v3"
    <3>1. v3_owes(s)
      BY <1>3, <2>1, <2>4 DEF SessionOK
    <3> QED
      BY <2>1, <2>4, <3>1, ConcatProperties DEF v3_owes
  <2> QED
    BY <2>1, <2>2, <2>3, <2>4
<1> QED
  BY <1>1, <1>2, <1>3 DEF Simple!NoUseAfterFree, Simple!OneAnswerEach

-----------------------------------------------------------------------------
(***************************************************************************)
(* Induction over the natural numbers, from the fact that their order is    *)
(* well-founded, and the functions FrameSessions defines by recursion.     *)
(***************************************************************************)
LessThan == {p \in Nat \X Nat : p[1] < p[2]}

LEMMA LessThanWellFounded == IsWellFoundedOn(LessThan, Nat)
BY NatLessThanWellFounded DEF OpToRel, LessThan

\* A set of numbers that is closed under the successor is all of them.
LEMMA Induction ==
  ASSUME NEW S, S \subseteq Nat, 0 \in S, \A n \in S : n + 1 \in S
  PROVE  S = Nat
<1> SUFFICES ASSUME Nat \ S # {} PROVE FALSE
  OBVIOUS
<1>1. PICK m \in Nat \ S : \A k \in Nat \ S : ~(<<k, m>> \in LessThan)
  BY LessThanWellFounded, WFMin
<1>2. \A k \in Nat \ S : ~(k < m)
  BY <1>1 DEF LessThan
<1>3. m # 0 /\ m - 1 \in Nat /\ m - 1 < m
  BY <1>1
<1>4. m - 1 \in S
  BY <1>2, <1>3
<1> QED
  BY <1>1, <1>3, <1>4

\* The states of the loop of handle_Read.
IsLoop(f, n, in) ==
  f = [k \in 0 .. Len(in) |->
         IF k = 0 THEN [node |-> n, in |-> in, done |-> <<>>, ok |-> TRUE]
         ELSE Frames!Round(f[k - 1])]

LEMMA RoundsRecursion ==
  ASSUME NEW n, NEW in, Len(in) \in Nat
  PROVE  \E f : IsLoop(f, n, in) /\ Frames!Rounds(n, in) = f[Len(in)]
<1> DEFINE a == [node |-> n, in |-> in, done |-> <<>>, ok |-> TRUE]
           Up(f, m) == f = [k \in 0 .. m |-> IF k = 0 THEN a ELSE Frames!Round(f[k - 1])]
           S == {m \in Nat : \E f : Up(f, m)}
<1> HIDE DEF a
<1>1. 0 \in S
  <2> DEFINE g == [k \in 0 .. 0 |-> a]
  <2>1. Up(g, 0)
    OBVIOUS
  <2> QED
    BY <2>1
<1>2. ASSUME NEW m \in S PROVE m + 1 \in S
  <2>1. PICK f : Up(f, m)
    OBVIOUS
  <2> DEFINE g == [k \in 0 .. m + 1 |-> IF k = m + 1 THEN Frames!Round(f[m]) ELSE f[k]]
  <2>2. ASSUME NEW k \in 0 .. m + 1
        PROVE  g[k] = IF k = 0 THEN a ELSE Frames!Round(g[k - 1])
    <3>1. CASE k = m + 1
      BY <3>1
    <3>2. CASE k # m + 1
      <4>1. k \in 0 .. m /\ (k # 0 => k - 1 \in 0 .. m /\ k - 1 \in 0 .. m + 1
                                      /\ k - 1 # m + 1)
        BY <3>2
      <4>2. f[k] = IF k = 0 THEN a ELSE Frames!Round(f[k - 1])
        BY <2>1, <4>1
      <4> QED
        BY <3>2, <4>1, <4>2
    <3> QED
      BY <3>1, <3>2
  <2>3. Up(g, m + 1)
    BY <2>2
  <2>4. m + 1 \in Nat
    OBVIOUS
  <2> QED
    BY <2>3, <2>4
<1>3. S = Nat
  <2> HIDE DEF S
  <2>1. S \subseteq Nat
    BY DEF S
  <2> QED
    BY <1>1, <1>2, <2>1, Induction
<1>4. \E f : IsLoop(f, n, in)
  <2>1. Len(in) \in S
    BY <1>3
  <2> QED
    BY <2>1 DEF IsLoop, a
<1>5. Frames!Rounds(n, in) = (CHOOSE f : IsLoop(f, n, in))[Len(in)]
  BY Zenon DEF Frames!Rounds, IsLoop
<1> QED
  BY <1>4, <1>5

\* The answers to the frames of one piece, in the versions that have no logic
\* system.
Answer(o, f) == CASE f_version = "v4" -> Frames!v4_answer(o, f)
                  [] f_version = "v5" -> Frames!v5_answer(o, f)
                  [] f_version = "v6" -> Frames!v6_answer(o, f)
                  [] f_version = "v8" -> Frames!v8_answer(o, f)
IsAnswers(f, d) ==
  f = [k \in 0 .. Len(d) |-> IF k = 0 THEN out ELSE Answer(f[k - 1], d[k])]

LEMMA AnswersRecursion ==
  ASSUME NEW d, Len(d) \in Nat
  PROVE  \E f : IsAnswers(f, d)
<1> DEFINE Up(f, m) == f = [k \in 0 .. m |-> IF k = 0 THEN out ELSE Answer(f[k - 1], d[k])]
           S == {m \in Nat : \E f : Up(f, m)}
<1>1. 0 \in S
  <2> DEFINE g == [k \in 0 .. 0 |-> out]
  <2>1. Up(g, 0)
    OBVIOUS
  <2> QED
    BY <2>1
<1>2. ASSUME NEW m \in S PROVE m + 1 \in S
  <2>1. PICK f : Up(f, m)
    OBVIOUS
  <2> DEFINE g == [k \in 0 .. m + 1 |-> IF k = m + 1 THEN Answer(f[m], d[k]) ELSE f[k]]
  <2>2. ASSUME NEW k \in 0 .. m + 1
        PROVE  g[k] = IF k = 0 THEN out ELSE Answer(g[k - 1], d[k])
    <3>1. CASE k = m + 1
      BY <3>1
    <3>2. CASE k # m + 1
      <4>1. k \in 0 .. m /\ (k # 0 => k - 1 \in 0 .. m /\ k - 1 \in 0 .. m + 1
                                      /\ k - 1 # m + 1)
        BY <3>2
      <4>2. f[k] = IF k = 0 THEN out ELSE Answer(f[k - 1], d[k])
        BY <2>1, <4>1
      <4> QED
        BY <3>2, <4>1, <4>2
    <3> QED
      BY <3>1, <3>2
  <2>3. Up(g, m + 1)
    BY <2>2
  <2>4. m + 1 \in Nat
    OBVIOUS
  <2> QED
    BY <2>3, <2>4
<1>3. S = Nat
  <2> HIDE DEF S
  <2>1. S \subseteq Nat
    BY DEF S
  <2> QED
    BY <1>1, <1>2, <2>1, Induction
<1>4. Len(d) \in S
  BY <1>3
<1> QED
  BY <1>4 DEF IsAnswers

LEMMA DealAnswers ==
  ASSUME NEW d, Len(d) \in Nat,
         \/ f_version = "v4" /\ Frames!v4_deal(d)
         \/ f_version = "v5" /\ Frames!v5_deal(d)
         \/ f_version = "v6" /\ Frames!v6_deal(d)
         \/ f_version = "v8" /\ Frames!v8_deal(d)
  PROVE  \E f : IsAnswers(f, d) /\ out' = f[Len(d)] /\ _msg_queue' = _msg_queue
<1> DEFINE Is4(f) == f = [k \in 0 .. Len(d) |->
                            IF k = 0 THEN out ELSE Frames!v4_answer(f[k - 1], d[k])]
           Is5(f) == f = [k \in 0 .. Len(d) |->
                            IF k = 0 THEN out ELSE Frames!v5_answer(f[k - 1], d[k])]
           Is6(f) == f = [k \in 0 .. Len(d) |->
                            IF k = 0 THEN out ELSE Frames!v6_answer(f[k - 1], d[k])]
           Is8(f) == f = [k \in 0 .. Len(d) |->
                            IF k = 0 THEN out ELSE Frames!v8_answer(f[k - 1], d[k])]
<1>1. PICK g : IsAnswers(g, d)
  BY AnswersRecursion
<1>2. CASE f_version = "v4" /\ Frames!v4_deal(d)
  <2>1. \A o, x : Answer(o, x) = Frames!v4_answer(o, x)
    BY <1>2 DEF Answer
  <2>2. \A f : Is4(f) <=> IsAnswers(f, d)
    BY <2>1 DEF IsAnswers
  <2>3. out' = (CHOOSE f : Is4(f))[Len(d)] /\ _msg_queue' = _msg_queue
    BY <1>2, Zenon DEF Frames!v4_deal, Frames!AnswerAll
  <2> HIDE DEF Is4
  <2> QED
    BY <1>1, <2>2, <2>3
<1>3. CASE f_version = "v5" /\ Frames!v5_deal(d)
  <2>1. \A o, x : Answer(o, x) = Frames!v5_answer(o, x)
    BY <1>3 DEF Answer
  <2>2. \A f : Is5(f) <=> IsAnswers(f, d)
    BY <2>1 DEF IsAnswers
  <2>3. out' = (CHOOSE f : Is5(f))[Len(d)] /\ _msg_queue' = _msg_queue
    BY <1>3, Zenon DEF Frames!v5_deal, Frames!AnswerAll
  <2> HIDE DEF Is5
  <2> QED
    BY <1>1, <2>2, <2>3
<1>4. CASE f_version = "v6" /\ Frames!v6_deal(d)
  <2>1. \A o, x : Answer(o, x) = Frames!v6_answer(o, x)
    BY <1>4 DEF Answer
  <2>2. \A f : Is6(f) <=> IsAnswers(f, d)
    BY <2>1 DEF IsAnswers
  <2>3. out' = (CHOOSE f : Is6(f))[Len(d)] /\ _msg_queue' = _msg_queue
    BY <1>4, Zenon DEF Frames!v6_deal, Frames!AnswerAll
  <2> HIDE DEF Is6
  <2> QED
    BY <1>1, <2>2, <2>3
<1>5. CASE f_version = "v8" /\ Frames!v8_deal(d)
  <2>1. \A o, x : Answer(o, x) = Frames!v8_answer(o, x)
    BY <1>5 DEF Answer
  <2>2. \A f : Is8(f) <=> IsAnswers(f, d)
    BY <2>1 DEF IsAnswers
  <2>3. out' = (CHOOSE f : Is8(f))[Len(d)] /\ _msg_queue' = _msg_queue
    BY <1>5, Zenon DEF Frames!v8_deal, Frames!AnswerAll
  <2> HIDE DEF Is8
  <2> QED
    BY <1>1, <2>2, <2>3
<1> QED
  BY <1>2, <1>3, <1>4, <1>5

\* What the client sends, frame by frame.
IsFlatten(f, s) ==
  f = [i \in 1 .. Len(s) |-> IF i = 1 THEN s[i] ELSE f[i - 1] \o s[i]]

LEMMA FlattenRecursion ==
  ASSUME NEW s, Len(s) \in Nat \ {0}
  PROVE  \E f : IsFlatten(f, s) /\ Frames!FlattenSeq(s) = f[Len(s)]
<1> DEFINE Up(f, m) == f = [i \in 1 .. m |-> IF i = 1 THEN s[i] ELSE f[i - 1] \o s[i]]
           S == {m \in Nat : \E f : Up(f, m)}
<1>1. 0 \in S
  <2> DEFINE g == [i \in 1 .. 0 |-> 0]
  <2>1. Up(g, 0)
    OBVIOUS
  <2> QED
    BY <2>1
<1>2. ASSUME NEW m \in S PROVE m + 1 \in S
  <2>1. PICK f : Up(f, m)
    OBVIOUS
  <2> DEFINE g == [i \in 1 .. m + 1 |-> IF i = m + 1
                                        THEN IF i = 1 THEN s[i] ELSE f[m] \o s[i]
                                        ELSE f[i]]
  <2>2. ASSUME NEW i \in 1 .. m + 1
        PROVE  g[i] = IF i = 1 THEN s[i] ELSE g[i - 1] \o s[i]
    <3>1. CASE i = m + 1
      BY <3>1
    <3>2. CASE i # m + 1
      <4>1. i \in 1 .. m /\ (i # 1 => i - 1 \in 1 .. m /\ i - 1 \in 1 .. m + 1
                                      /\ i - 1 # m + 1)
        BY <3>2
      <4>2. f[i] = IF i = 1 THEN s[i] ELSE f[i - 1] \o s[i]
        BY <2>1, <4>1
      <4> QED
        BY <3>2, <4>1, <4>2
    <3> QED
      BY <3>1, <3>2
  <2>3. Up(g, m + 1)
    BY <2>2
  <2>4. m + 1 \in Nat
    OBVIOUS
  <2> QED
    BY <2>3, <2>4
<1>3. S = Nat
  <2> HIDE DEF S
  <2>1. S \subseteq Nat
    BY DEF S
  <2> QED
    BY <1>1, <1>2, <2>1, Induction
<1>4. \E f : IsFlatten(f, s)
  <2>1. Len(s) \in S
    BY <1>3
  <2> QED
    BY <2>1 DEF IsFlatten
<1>5. Len(s) # 0
  OBVIOUS
<1>6. Frames!FlattenSeq(s) = (CHOOSE f : IsFlatten(f, s))[Len(s)]
  BY <1>5, Zenon DEF Frames!FlattenSeq, IsFlatten
<1> QED
  BY <1>4, <1>6

(***************************************************************************)
(* Cutting sequences of bytes.                                             *)
(***************************************************************************)
Bytes == Seq(Nat)
Cat(x, y) == x \o y

\* The first k bytes and the rest.
LEMMA Cut ==
  ASSUME NEW q \in Bytes, NEW k \in 0 .. Len(q)
  PROVE  /\ SubSeq(q, 1, k) \in Bytes /\ Len(SubSeq(q, 1, k)) = k
         /\ Frames!From(q, k) \in Bytes /\ Len(Frames!From(q, k)) = Len(q) - k
         /\ Cat(SubSeq(q, 1, k), Frames!From(q, k)) = q
<1> USE DEF Bytes, Cat
<1> DEFINE n == Len(q)
<1>1. n \in Nat /\ \A i \in 1 .. n : q[i] \in Nat
  BY LenProperties
<1>2. k \in Nat /\ k <= n
  BY <1>1
<1>3. SubSeq(q, 1, k) \in Bytes /\ Len(SubSeq(q, 1, k)) = k
  <2>1. \A i \in 1 .. k : q[i] \in Nat
    BY <1>1, <1>2
  <2>2. /\ SubSeq(q, 1, k) \in Bytes
        /\ Len(SubSeq(q, 1, k)) = IF 1 <= k THEN k - 1 + 1 ELSE 0
    BY <1>2, <2>1, SubSeqProperties
  <2> QED
    BY <1>2, <2>2
<1>4. SubSeq(q, k + 1, n) \in Bytes /\ Len(SubSeq(q, k + 1, n)) = n - k
  <2>1. \A i \in k + 1 .. n : q[i] \in Nat
    BY <1>1, <1>2
  <2> HIDE DEF n
  <2>2. /\ SubSeq(q, k + 1, n) \in Bytes
        /\ Len(SubSeq(q, k + 1, n)) = IF k + 1 <= n THEN n - (k + 1) + 1 ELSE 0
    BY <1>1, <1>2, <2>1, SubSeqProperties
  <2> QED
    BY <1>1, <1>2, <2>2
<1>5. Cat(SubSeq(q, 1, k), SubSeq(q, k + 1, n)) = q
  <2>1. Cat(SubSeq(q, 1, k), SubSeq(q, k + 1, n)) = SubSeq(q, 1, n)
    <3>1. 1 \in 1 .. n + 1 /\ k \in 1 - 1 .. n /\ n \in k .. n
      BY <1>1, <1>2
    <3> QED
      BY <3>1, ConcatAdjacentSubSeq
  <2> QED
    BY <2>1, SubSeqFull
<1> QED
  BY <1>3, <1>4, <1>5 DEF Frames!From

\* Two ways to cut at one place are the same.
LEMMA SameCut ==
  ASSUME NEW a \in Bytes, NEW b \in Bytes, NEW c \in Bytes, NEW d \in Bytes,
         Cat(a, b) = Cat(c, d), Len(a) = Len(c)
  PROVE  a = c /\ b = d
<1> USE DEF Bytes, Cat
<1> DEFINE k == Len(a)
           p == Cat(a, b)
<1>1. /\ k \in Nat /\ Len(c) = k /\ Len(b) \in Nat
      /\ \A i \in 1 .. k + Len(b) : p[i] = IF i <= k THEN a[i] ELSE b[i - k]
      /\ \A i \in 1 .. k + Len(d) : p[i] = IF i <= k THEN c[i] ELSE d[i - k]
  <2>1. k \in Nat /\ Len(c) = k /\ Len(b) \in Nat /\ Len(d) \in Nat
    BY LenProperties
  <2>2. \A i \in 1 .. k + Len(b) : p[i] = IF i <= k THEN a[i] ELSE b[i - k]
    BY ConcatProperties
  <2>3. \A i \in 1 .. Len(c) + Len(d) : (Cat(c, d))[i] = IF i <= Len(c) THEN c[i] ELSE d[i - Len(c)]
    BY ConcatProperties
  <2>4. p = Cat(c, d)
    OBVIOUS
  <2> HIDE DEF p
  <2> QED
    BY <2>1, <2>2, <2>3, <2>4
<1> HIDE DEF k, p
<1>2. \A i \in 1 .. k : a[i] = c[i]
  <2> TAKE i \in 1 .. k
  <2>1. Len(d) \in Nat
    BY LenProperties
  <2>2. i \in 1 .. k + Len(b) /\ i \in 1 .. k + Len(d) /\ i <= k
    BY <1>1, <2>1
  <2> QED
    BY <1>1, <2>2
<1>3. a = c
  BY <1>1, <1>2, SeqEqual DEF k
<1>4. b = d
  BY <1>3, ConcatSimplifications
<1> QED
  BY <1>3, <1>4

LEMMA NumbersAssociative ==
  ASSUME NEW x \in Seq(Nat), NEW y \in Seq(Nat), NEW z \in Seq(Nat)
  PROVE  (x \o y) \o z = x \o (y \o z)
OBVIOUS

LEMMA ByteConcat ==
  /\ \A x, y \in Bytes : Cat(x, y) \in Bytes /\ Len(Cat(x, y)) = Len(x) + Len(y)
  /\ \A x, y, z \in Bytes : Cat(Cat(x, y), z) = Cat(x, Cat(y, z))
  /\ \A x \in Bytes : Cat(x, <<>>) = x /\ Cat(<<>>, x) = x
  /\ \A x \in Bytes : Len(x) \in Nat /\ (Len(x) = 0 <=> x = <<>>)
  /\ <<>> \in Bytes
<1> USE DEF Bytes, Cat
<1>1. \A x, y \in Bytes : Cat(x, y) \in Bytes /\ Len(Cat(x, y)) = Len(x) + Len(y)
  BY ConcatProperties
<1>2. \A x, y, z \in Bytes : Cat(Cat(x, y), z) = Cat(x, Cat(y, z))
  BY NumbersAssociative, Zenon
<1>3. \A x \in Bytes : Cat(x, <<>>) = x /\ Cat(<<>>, x) = x
  BY ConcatEmptySeq
<1>4. \A x \in Bytes : Len(x) \in Nat /\ (Len(x) = 0 <=> x = <<>>)
  BY LenProperties, EmptySeq
<1> QED
  BY <1>1, <1>2, <1>3, <1>4, EmptySeq, Zenon

LEMMA Associative ==
  \A x, y, z \in Bytes : Cat(Cat(x, y), z) = Cat(x, Cat(y, z))
BY ByteConcat

LEMMA Joined ==
  ASSUME NEW x \in Bytes, NEW y \in Bytes
  PROVE  Cat(x, y) \in Bytes /\ Len(Cat(x, y)) = Len(x) + Len(y)
BY ByteConcat

\* Two ways to cut in three, the first part of the one being the first two of
\* the other.
LEMMA Splits ==
  ASSUME NEW x \in Bytes, NEW p \in Bytes, NEW w \in Bytes, NEW h \in Bytes,
         NEW v \in Bytes, Cat(x, Cat(p, w)) = Cat(h, v), Len(x) + Len(p) = Len(h)
  PROVE  Cat(x, p) = h /\ w = v
<1> DEFINE a == Cat(x, p)
<1>1. a \in Bytes /\ Len(a) = Len(h)
  BY Joined
<1>2. Cat(a, w) = Cat(h, v)
  BY Associative
<1> HIDE DEF a
<1>3. a = h /\ w = v
  BY <1>1, <1>2, SameCut
<1> QED
  BY <1>3 DEF a

LEMMA Cancels ==
  ASSUME NEW h \in Bytes, NEW a \in Bytes, NEW b \in Bytes, Cat(h, a) = Cat(h, b)
  PROVE  a = b
BY SameCut

\* The bytes of header h and body o arrive as x and then p.
LEMMA BodySplits ==
  ASSUME NEW x \in Bytes, NEW h \in Bytes, NEW o \in Bytes, NEW z \in Bytes,
         NEW p \in Bytes, NEW w \in Bytes,
         Cat(Cat(h, x), Cat(p, w)) = Cat(Cat(h, o), z), Len(x) + Len(p) = Len(o)
  PROVE  Cat(x, p) = o /\ w = z
<1> DEFINE u == Cat(p, w)
           a == Cat(x, u)
           b == Cat(o, z)
<1>1. u \in Bytes
  BY Joined
<1>2. b \in Bytes
  BY Joined
<1>3. Cat(Cat(h, o), z) = Cat(h, b)
  BY Associative
<1> HIDE DEF u, b
<1>4. a \in Bytes
  BY <1>1, Joined
<1>5. Cat(Cat(h, x), u) = Cat(h, a)
  BY <1>1, Associative
<1>6. Cat(h, a) = Cat(h, b)
  BY <1>3, <1>5 DEF u
<1> HIDE DEF a
<1>7. a = b
  BY <1>2, <1>4, <1>6, Cancels
<1>8. Cat(x, Cat(p, w)) = Cat(o, z)
  BY <1>7 DEF a, b, u
<1> QED
  BY <1>8, Splits

\* A body that goes on.
LEMMA BodyGrows ==
  ASSUME NEW h \in Bytes, NEW x \in Bytes, NEW y \in Bytes, NEW m \in Bytes
  PROVE  Cat(Cat(h, Cat(x, y)), Cat(<<>>, m)) = Cat(Cat(h, x), Cat(y, m))
<1>1. Cat(<<>>, m) = m
  BY ByteConcat
<1> DEFINE w == Cat(h, x)
<1>2. Cat(h, Cat(x, y)) = Cat(w, y)
  BY Associative
<1>3. w \in Bytes
  BY Joined
<1> HIDE DEF w
<1>4. Cat(Cat(w, y), m) = Cat(w, Cat(y, m))
  BY <1>3, Associative
<1> QED
  BY <1>1, <1>2, <1>4 DEF w

\* So there is, for each frame, what follows the frames before it.
LEMMA WhatFollows ==
  ASSUME NEW n \in Nat, NEW s, s \in [1 .. n -> Bytes]
  PROVE  \E t \in [1 .. n + 1 -> Bytes] :
           /\ t[n + 1] = <<>> /\ t[1] = Frames!FlattenSeq(s)
           /\ \A i \in 1 .. n : t[i] = Cat(s[i], t[i + 1])
<1>1. s \in Seq(Bytes) /\ Len(s) = n
  <2>1. s \in Seq(Bytes)
    BY SeqDef
  <2>2. Len(s) \in Nat /\ DOMAIN s = 1 .. Len(s) /\ DOMAIN s = 1 .. n
    BY <2>1, LenProperties
  <2> QED
    BY <2>1, <2>2
<1>2. <<>> \in Bytes
  BY ByteConcat
<1>5. \A x, y, z \in Bytes : Cat(Cat(x, y), z) = Cat(x, Cat(y, z))
  BY ByteConcat
<1>3. CASE n = 0
  <2>1. Frames!FlattenSeq(s) = s /\ s = <<>>
    BY <1>1, <1>3, EmptySeq DEF Frames!FlattenSeq
  <2> DEFINE t == [i \in 1 .. n + 1 |-> <<>>]
  <2>2. t \in [1 .. n + 1 -> Bytes] /\ t[n + 1] = <<>> /\ t[1] = <<>>
    BY <1>2, <1>3
  <2>3. \A i \in 1 .. n : FALSE
    BY <1>3
  <2> HIDE DEF t
  <2> QED
    BY <2>1, <2>2, <2>3
<1>4. CASE n # 0
  <2>1. PICK f : IsFlatten(f, s) /\ Frames!FlattenSeq(s) = f[n]
    BY <1>1, <1>4, FlattenRecursion
  <2>2. \A i \in 1 .. n : f[i] = IF i = 1 THEN s[i] ELSE Cat(f[i - 1], s[i])
    BY <1>1, <2>1 DEF IsFlatten, Cat
  <2>3. \A i \in 1 .. n : f[i] \in Bytes
    <3> DEFINE F == {m \in Nat : m \in 1 .. n => f[m] \in Bytes}
    <3>1. 0 \in F
      OBVIOUS
    <3>2. ASSUME NEW m \in F PROVE m + 1 \in F
      <4> SUFFICES ASSUME m + 1 \in 1 .. n PROVE f[m + 1] \in Bytes
        OBVIOUS
      <4>1. CASE m = 0
        BY <2>2, <4>1
      <4>2. CASE m # 0
        <5>1. m \in 1 .. n /\ (m + 1) - 1 = m /\ m + 1 # 1
          BY <4>2
        <5>2. f[m + 1] = Cat(f[m], s[m + 1]) /\ f[m] \in Bytes /\ s[m + 1] \in Bytes
          BY <2>2, <5>1
        <5>3. Cat(f[m], s[m + 1]) \in Bytes
          BY <5>2, Joined
        <5> QED
          BY <5>2, <5>3
      <4> QED
        BY <4>1, <4>2
    <3>3. F \subseteq Nat
      OBVIOUS
    <3> HIDE DEF F
    <3>4. F = Nat
      BY <3>1, <3>2, <3>3, Induction
    <3> QED
      BY <3>4 DEF F
  <2> DEFINE Ends(m, t) ==
               /\ t \in [n - m + 1 .. n + 1 -> Bytes] /\ t[n + 1] = <<>>
               /\ \A i \in n - m + 1 .. n : t[i] = Cat(s[i], t[i + 1])
               /\ m < n => Cat(f[n - m], t[n - m + 1]) = f[n]
               /\ m = n => t[1] = f[n]
             F == {m \in Nat : m <= n => \E t : Ends(m, t)}
  <2>4. 0 \in F
    <3> DEFINE t == [i \in n + 1 .. n + 1 |-> <<>>]
    <3>1. t \in [n - 0 + 1 .. n + 1 -> Bytes] /\ t[n + 1] = <<>> /\ n - 0 = n
      BY <1>2
    <3>2. \A i \in n - 0 + 1 .. n : FALSE
      OBVIOUS
    <3>3. Cat(f[n], <<>>) = f[n]
      BY <1>4, <2>3, ByteConcat
    <3> HIDE DEF t
    <3>4. Ends(0, t)
      BY <1>4, <3>1, <3>2, <3>3
    <3> QED
      BY <3>4
  <2>5. ASSUME NEW m \in F PROVE m + 1 \in F
    <3> HIDE DEF Ends
    <3>0. m \in Nat /\ m + 1 \in Nat /\ (m <= n => \E t : Ends(m, t))
      OBVIOUS
    <3> SUFFICES ASSUME m + 1 <= n PROVE \E t : Ends(m + 1, t)
      BY <3>0
    <3>1. PICK t : Ends(m, t)
      BY <3>0
    <3> USE DEF Ends
    <3> HIDE DEF F
    <3> DEFINE j == n - m
               g == [i \in j .. n + 1 |-> IF i = j THEN Cat(s[i], t[i + 1]) ELSE t[i]]
    <3>2. /\ j \in 1 .. n /\ n - (m + 1) + 1 = j /\ n - m + 1 = j + 1 /\ m < n
          /\ j + 1 \in j + 1 .. n + 1 /\ n + 1 \in j .. n + 1 /\ n + 1 # j
          /\ n - (m + 1) = j - 1 /\ (m + 1 < n <=> j # 1) /\ (m + 1 = n <=> j = 1)
      BY <3>0
    <3> HIDE DEF j
    <3>3. /\ t \in [j + 1 .. n + 1 -> Bytes] /\ t[n + 1] = <<>>
          /\ \A i \in j + 1 .. n : t[i] = Cat(s[i], t[i + 1])
          /\ Cat(f[j], t[j + 1]) = f[n]
      BY <3>1, <3>2 DEF j
    <3>4. s[j] \in Bytes /\ t[j + 1] \in Bytes
      BY <3>2, <3>3
    <3>5. g \in [j .. n + 1 -> Bytes]
      <4>1. \A i \in j .. n + 1 : i = j \/ i \in j + 1 .. n + 1
        BY <3>2
      <4>2. Cat(s[j], t[j + 1]) \in Bytes
        BY <3>4, ByteConcat
      <4>3. \A i \in j .. n + 1 : (IF i = j THEN Cat(s[i], t[i + 1]) ELSE t[i]) \in Bytes
        BY <3>3, <4>1, <4>2
      <4> QED
        BY <4>3
    <3>6. g[n + 1] = <<>>
      BY <3>2, <3>3
    <3>7. \A i \in j .. n : g[i] = Cat(s[i], g[i + 1])
      <4> TAKE i \in j .. n
      <4>1. i \in j .. n + 1 /\ i + 1 \in j .. n + 1 /\ i + 1 # j
            /\ (i = j \/ i \in j + 1 .. n)
        BY <3>2
      <4>2. g[i + 1] = t[i + 1]
        BY <4>1
      <4> QED
        BY <3>3, <4>1, <4>2
    <3>8. g[j] = Cat(s[j], t[j + 1])
      BY <3>2
    <3> HIDE DEF g
    <3>9. j # 1 => Cat(f[j - 1], g[j]) = f[n]
      <4> SUFFICES ASSUME j # 1 PROVE Cat(f[j - 1], g[j]) = f[n]
        OBVIOUS
      <4>1. j - 1 \in 1 .. n
        BY <3>2
      <4>2. f[j] = Cat(f[j - 1], s[j]) /\ f[j - 1] \in Bytes
        BY <2>2, <2>3, <3>2, <4>1
      <4>3. Cat(Cat(f[j - 1], s[j]), t[j + 1]) = Cat(f[j - 1], Cat(s[j], t[j + 1]))
        <5>1. f[j - 1] \in Bytes
          BY <4>2
        <5> QED
          BY <1>5, <3>4, <5>1
      <4> QED
        BY <3>3, <3>8, <4>2, <4>3
    <3>10. j = 1 => g[1] = f[n]
      BY <2>2, <3>2, <3>3, <3>8
    <3>11. Ends(m + 1, g)
      BY <3>2, <3>5, <3>6, <3>7, <3>9, <3>10
    <3> QED
      BY <3>11
  <2>6. F \subseteq Nat
    OBVIOUS
  <2>7. n \in F
    <3> HIDE DEF F
    <3>1. F = Nat
      BY <2>4, <2>5, <2>6, Induction
    <3> QED
      BY <3>1
  <2>8. \E t : Ends(n, t)
    <3> HIDE DEF Ends
    <3> QED
      BY <2>7
  <2>10. PICK t : Ends(n, t)
    BY <2>8
  <2>9. n - n + 1 = 1
    OBVIOUS
  <2> QED
    BY <2>1, <2>9, <2>10
<1> QED
  BY <1>3, <1>4

-----------------------------------------------------------------------------
(***************************************************************************)
(* The stream of a client: headers, and what follows each frame.           *)
(***************************************************************************)
Versions == {"v4", "v5", "v6", "v7", "v8", "v9", "v10"}
OneClient == f_version \in Versions /\ frames \in FrameStreams

Count == Len(frames)
IdOf(i) == IF f_version \in {"v8", "v9", "v10"} THEN frames[i].id ELSE 0
HeaderOf(i) == Frames!Header(frames[i])
BodyOf(i) == frames[i].body

\* What the client sends from frame i on.
IsStream(t) ==
  /\ t \in [1 .. Count + 1 -> Bytes] /\ t[Count + 1] = <<>>
  /\ \A i \in 1 .. Count : t[i] = Cat(Cat(HeaderOf(i), BodyOf(i)), t[i + 1])

LEMMA ShortNat == \A n \in Short : n \in Nat
BY DEF Short

\* A short and its two bytes.
Halves(n) ==
  n % 256 \in Nat /\ n \div 256 \in Nat /\ (n % 256) + 256 * (n \div 256) = n

LEMMA TwoBytes == \A n \in Short : Halves(n)
<1>1. \A n \in Nat : Halves(n)
  BY DEF Halves
<1> QED
  BY <1>1, ShortNat

LEMMA FramesTyped ==
  ASSUME OneClient
  PROVE  /\ Count \in Nat /\ DOMAIN frames = 1 .. Count
         /\ \A i \in 1 .. Count :
              /\ BodyOf(i) \in Bytes /\ BodyOf(i) \in Seq(0 .. 255)
              /\ Len(BodyOf(i)) \in Short /\ frames[i].id \in Short /\ IdOf(i) \in Short
<1> USE DEF Bytes
<1>1. /\ frames \in Seq(ClientFrame)
      /\ \A i \in DOMAIN frames : Len(frames[i].body) \in Short
  BY SessionsAssumption DEF OneClient
<1>2. /\ Count \in Nat /\ DOMAIN frames = 1 .. Count
      /\ \A i \in 1 .. Count : frames[i].id \in Short /\ frames[i].body \in Seq(0 .. 255)
  <2>1. Count \in Nat /\ DOMAIN frames = 1 .. Count
    BY <1>1, LenProperties DEF Count
  <2>2. \A i \in 1 .. Count : frames[i] \in ClientFrame
    BY <1>1, <2>1, LenProperties
  <2> QED
    BY <2>1, <2>2 DEF ClientFrame
<1>3. Seq(0 .. 255) \subseteq Bytes
  <2>1. 0 .. 255 \subseteq Nat
    OBVIOUS
  <2> QED
    BY <2>1, SeqMonotonic, Zenon
<1>4. 0 \in Short
  BY DEF Short
<1> QED
  BY <1>1, <1>2, <1>3, <1>4 DEF BodyOf, IdOf

\* What a version's client puts into a header its server takes out of it.
LEMMA HeaderDecoded ==
  ASSUME OneClient, NEW i \in 1 .. Count
  PROVE  /\ HeaderOf(i) \in Bytes /\ Len(HeaderOf(i)) = Frames!HEAD_LENGTH
         /\ Frames!HEAD_LENGTH \in Nat \ {0}
         /\ Frames!Decode(HeaderOf(i)) = [id |-> IdOf(i), len |-> Len(BodyOf(i))]
<1> USE DEF Bytes
<1> DEFINE n == Len(BodyOf(i))
           d == frames[i].id
<1>1. n \in Short /\ d \in Short /\ n = Len(frames[i].body)
  BY FramesTyped DEF BodyOf
<1> HIDE DEF n, d
<1>2. /\ n % 256 \in Nat /\ n \div 256 \in Nat /\ (n % 256) + 256 * (n \div 256) = n
      /\ d % 256 \in Nat /\ d \div 256 \in Nat /\ (d % 256) + 256 * (d \div 256) = d
  <2>1. Halves(n) /\ Halves(d)
    BY <1>1, TwoBytes
  <2> QED
    BY <2>1 DEF Halves
<1> DEFINE nl == n % 256
           nh == n \div 256
           dl == d % 256
           dh == d \div 256
<1>3. /\ nl \in Nat /\ nh \in Nat /\ nl + 256 * nh = n
      /\ dl \in Nat /\ dh \in Nat /\ dl + 256 * dh = d
  BY <1>2
<1>4. Frames!Host(n) = <<nl, nh>> /\ Frames!Net(n) = <<nh, nl>> /\ Frames!Net(d) = <<dh, dl>>
  BY DEF Frames!Host, Frames!Net
<1> HIDE DEF nl, nh, dl, dh
<1>5. CASE f_version \in {"v4", "v7"}
  <2>1. HeaderOf(i) = <<nl, nh>> /\ Frames!HEAD_LENGTH = 2 /\ IdOf(i) = 0
    BY <1>1, <1>4, <1>5
       DEF HeaderOf, Frames!Header, Frames!HEAD_LENGTH, Frames!WithIds, IdOf
  <2>2. Frames!Decode(<<nl, nh>>) = [id |-> 0, len |-> n]
    BY <1>3, <1>5 DEF Frames!Decode, Frames!FromHost
  <2> QED
    BY <1>3, <2>1, <2>2 DEF n
<1>6. CASE f_version \in {"v5", "v6"}
  <2>1. HeaderOf(i) = <<nh, nl>> /\ Frames!HEAD_LENGTH = 2 /\ IdOf(i) = 0
    BY <1>1, <1>4, <1>6
       DEF HeaderOf, Frames!Header, Frames!HEAD_LENGTH, Frames!WithIds, IdOf
  <2>2. Frames!Decode(<<nh, nl>>) = [id |-> 0, len |-> n]
    BY <1>3, <1>6 DEF Frames!Decode, Frames!FromNet
  <2> QED
    BY <1>3, <2>1, <2>2 DEF n
<1>7. CASE f_version \in {"v8", "v9", "v10"}
  <2>1. /\ HeaderOf(i) = <<dh, dl>> \o <<nh, nl>> /\ Frames!HEAD_LENGTH = 4
        /\ IdOf(i) = d
    BY <1>1, <1>4, <1>7
       DEF HeaderOf, Frames!Header, Frames!HEAD_LENGTH, Frames!WithIds, IdOf, d
  <2>2. <<dh, dl>> \o <<nh, nl>> = <<dh, dl, nh, nl>>
    <3>1. /\ <<dh, dl>> \in Bytes /\ <<nh, nl>> \in Bytes
          /\ <<dh, dl, nh, nl>> \in Bytes
          /\ Len(<<dh, dl>>) = 2 /\ Len(<<nh, nl>>) = 2 /\ Len(<<dh, dl, nh, nl>>) = 4
      BY <1>3
    <3> DEFINE p == <<dh, dl>> \o <<nh, nl>>
    <3>2. /\ p \in Bytes /\ Len(p) = 4
          /\ p[1] = dh /\ p[2] = dl /\ p[3] = nh /\ p[4] = nl
      BY <3>1, ConcatProperties
    <3> HIDE DEF p
    <3>3. \A k \in 1 .. 4 : k = 1 \/ k = 2 \/ k = 3 \/ k = 4
      OBVIOUS
    <3>4. \A k \in 1 .. Len(p) : p[k] = <<dh, dl, nh, nl>>[k]
      BY <3>2, <3>3
    <3>5. p = <<dh, dl, nh, nl>>
      BY <3>1, <3>2, <3>4, SeqEqual
    <3> QED
      BY <3>5 DEF p
  <2> DEFINE h == <<dh, dl, nh, nl>>
  <2>3. SubSeq(h, 3, 4)[1] = nh /\ SubSeq(h, 3, 4)[2] = nl
    <3>1. \A k \in 3 .. 4 : h[k] \in Nat
      BY <1>3
    <3>2. \A k \in 1 .. 4 - 3 + 1 : SubSeq(h, 3, 4)[k] = h[3 + k - 1]
      BY <3>1, SubSeqProperties
    <3> QED
      BY <3>2
  <2>4. h[1] = dh /\ h[2] = dl /\ h \in Bytes /\ Len(h) = 4
    BY <1>3
  <2> HIDE DEF h
  <2>5. Frames!Decode(h) = [id |-> d, len |-> n]
    <3>1. Frames!FromNet(h) = d /\ Frames!FromNet(SubSeq(h, 3, 4)) = n
      BY <1>3, <2>3, <2>4 DEF Frames!FromNet
    <3> QED
      BY <1>7, <3>1 DEF Frames!Decode
  <2>6. HeaderOf(i) = h
    BY <2>1, <2>2 DEF h
  <2> QED
    <3>1. Frames!HEAD_LENGTH = 4 /\ IdOf(i) = d /\ Len(BodyOf(i)) = n
      BY <2>1 DEF n
    <3> QED
      BY <2>4, <2>5, <2>6, <3>1
<1> QED
  BY <1>5, <1>6, <1>7 DEF OneClient, Versions

LEMMA StreamExists ==
  ASSUME OneClient,
         input = Frames!FlattenSeq([k \in DOMAIN frames |-> Frames!Header(frames[k])
                                                            \o frames[k].body])
  PROVE  \E t : IsStream(t) /\ input = t[1]
<1> DEFINE s == [k \in 1 .. Count |-> Cat(HeaderOf(k), BodyOf(k))]
<1>1. Count \in Nat /\ DOMAIN frames = 1 .. Count
  BY FramesTyped
<1>2. \A k \in 1 .. Count : Cat(HeaderOf(k), BodyOf(k)) \in Bytes
  BY HeaderDecoded, FramesTyped, ByteConcat
<1>3. s \in [1 .. Count -> Bytes]
  BY <1>2
<1>4. input = Frames!FlattenSeq(s)
  BY <1>1 DEF HeaderOf, BodyOf, Cat
<1>5. \A k \in 1 .. Count : s[k] = Cat(HeaderOf(k), BodyOf(k))
  OBVIOUS
<1> HIDE DEF s
<1>6. PICK t \in [1 .. Count + 1 -> Bytes] :
        /\ t[Count + 1] = <<>> /\ t[1] = Frames!FlattenSeq(s)
        /\ \A i \in 1 .. Count : t[i] = Cat(s[i], t[i + 1])
  BY <1>1, <1>3, WhatFollows
<1>7. IsStream(t)
  BY <1>5, <1>6 DEF IsStream
<1> QED
  BY <1>4, <1>6, <1>7

-----------------------------------------------------------------------------
(***************************************************************************)
(* The loop of handle_Read.  What the node holds of frame i, the rest of    *)
(* the piece and what has not arrived are what the client sends from i on.  *)
(***************************************************************************)
Nodes == [head : Bytes, id : Nat, len : Nat, body : Bytes, parsed : BOOLEAN]
Completed == [id : 0 .. FrameMax, body : Bytes, branch : {"head", "body"}]
LoopStates == [node : Nodes, in : Bytes, done : Seq(Completed), ok : BOOLEAN]

NodeAt(n, i) ==
  /\ n \in Nodes /\ Len(n.head) < Frames!HEAD_LENGTH
  /\ Len(n.body) <= n.len /\ n.len <= FrameMax
  /\ n.parsed => /\ i <= Count /\ n.id = IdOf(i) /\ n.id <= FrameMax
                 /\ n.len = Len(BodyOf(i)) /\ Len(n.body) < n.len
  /\ ~n.parsed => n.body = <<>>

Taken(n, i) == IF n.parsed THEN Cat(HeaderOf(i), n.body) ELSE n.head

\* The loop is at frame i, with the bytes more to come after the piece.
LoopAt(c, i, t, more) ==
  /\ c \in LoopStates /\ i \in 1 .. Count + 1 /\ NodeAt(c.node, i)
  /\ Cat(Taken(c.node, i), Cat(c.in, more)) = t[i]

\* Frame i is completed.
Completes(c, r, i) ==
  \E f \in Completed : /\ f.id = IdOf(i) /\ f.body = BodyOf(i)
                       /\ r.done = Append(c.done, f)

RoundOK(c, r, i, t, more) ==
  \/ r = c /\ (c.in = <<>> \/ ~c.ok)
  \/ r.ok /\ Len(r.in) < Len(c.in) /\ LoopAt(r, i, t, more) /\ r.done = c.done
  \/ /\ r.ok /\ Len(r.in) < Len(c.in) /\ i <= Count
     /\ LoopAt(r, i + 1, t, more) /\ Completes(c, r, i)
  \/ ~r.ok /\ LoopAt(r, i, t, more) /\ r.done = c.done

\* A frame's bytes end where the next frame begins.
LEMMA BodyEnds ==
  ASSUME OneClient, NEW t, IsStream(t), NEW i \in 1 .. Count,
         NEW b \in Bytes, NEW r \in Bytes, Cat(b, r) = Cat(BodyOf(i), t[i + 1]),
         Len(b) = Len(BodyOf(i))
  PROVE  b = BodyOf(i) /\ r = t[i + 1]
<1>1. BodyOf(i) \in Bytes
  BY FramesTyped
<1>2. t[i + 1] \in Bytes
  <2>1. i + 1 \in 1 .. Count + 1
    BY FramesTyped
  <2> QED
    BY <2>1 DEF IsStream
<1> DEFINE x == BodyOf(i)
           y == t[i + 1]
<1>3. x \in Bytes /\ y \in Bytes /\ Cat(b, r) = Cat(x, y) /\ Len(b) = Len(x)
  BY <1>1, <1>2
<1> HIDE DEF x, y
<1>4. b = x /\ r = y
  BY <1>3, SameCut
<1> QED
  BY <1>4 DEF x, y

\* A frame whose node is complete makes room for the next.
AfterFrame(c, q, f) ==
  [c EXCEPT !.in = q, !.node = Frames!EmptyNode, !.done = Append(@, f)]

LEMMA NextFrame ==
  ASSUME OneClient, NEW t, IsStream(t), NEW i \in 1 .. Count, NEW more \in Bytes,
         NEW c \in LoopStates, NEW q \in Bytes, Cat(q, more) = t[i + 1],
         NEW f \in Completed, NEW r,
         r = AfterFrame(c, q, f)
  PROVE  LoopAt(r, i + 1, t, more)
<1>1. /\ r.in = q /\ r.node = Frames!EmptyNode /\ r.done = Append(c.done, f)
      /\ r.ok = c.ok /\ c.done \in Seq(Completed) /\ c.ok \in BOOLEAN
      /\ r = [node |-> r.node, in |-> r.in, done |-> r.done, ok |-> r.ok]
  BY DEF LoopStates, AfterFrame
<1>2. Append(c.done, f) \in Seq(Completed)
  BY <1>1, AppendProperties
<1>3. /\ Frames!EmptyNode \in Nodes /\ Frames!EmptyNode.head = <<>>
      /\ Frames!EmptyNode.body = <<>> /\ Frames!EmptyNode.len = 0
      /\ ~Frames!EmptyNode.parsed
  BY ByteConcat DEF Frames!EmptyNode, Nodes
<1>4. r \in LoopStates
  BY <1>1, <1>2, <1>3 DEF LoopStates
<1>5. i + 1 \in 1 .. Count + 1 /\ FrameMax \in Nat
  BY FramesTyped, SessionsAssumption
<1>6. NodeAt(Frames!EmptyNode, i + 1)
  <2>1. Len(<<>>) = 0 /\ 0 < Frames!HEAD_LENGTH
    BY HeaderDecoded, ByteConcat
  <2> QED
    BY <1>3, <1>5, <2>1 DEF NodeAt
<1>7. Cat(Taken(Frames!EmptyNode, i + 1), Cat(q, more)) = t[i + 1]
  BY <1>3, ByteConcat DEF Taken
<1> QED
  BY <1>1, <1>4, <1>5, <1>6, <1>7 DEF LoopAt

\* A piece that ends within the body.
LEMMA BodyContinues ==
  ASSUME OneClient, NEW t, IsStream(t), NEW i, NEW more \in Bytes,
         NEW c, LoopAt(c, i, t, more), c.ok, c.in # <<>>, c.node.parsed,
         Len(c.in) < c.node.len - Len(c.node.body),
         NEW r, r = [c EXCEPT !.in = <<>>, !.node.body = Cat(@, c.in)]
  PROVE  RoundOK(c, r, i, t, more)
<1> DEFINE n == c.node
           b == Cat(n.body, c.in)
<1>1. /\ c \in LoopStates /\ i \in 1 .. Count + 1 /\ NodeAt(n, i)
      /\ Cat(Taken(n, i), Cat(c.in, more)) = t[i]
  BY DEF LoopAt
<1>2. /\ n \in Nodes /\ c.in \in Bytes /\ c.done \in Seq(Completed)
      /\ n.head \in Bytes /\ n.body \in Bytes /\ n.len \in Nat /\ n.id \in Nat
      /\ n.parsed = TRUE
  BY <1>1 DEF LoopStates, Nodes
<1>3. /\ i <= Count /\ n.id = IdOf(i) /\ n.id <= FrameMax /\ n.len = Len(BodyOf(i))
      /\ n.len <= FrameMax /\ Len(n.head) < Frames!HEAD_LENGTH
  BY <1>1 DEF NodeAt
<1>4. b \in Bytes /\ Len(b) < n.len
  <2> DEFINE x == n.body
             y == c.in
             l == n.len
  <2>1. x \in Bytes /\ y \in Bytes /\ l \in Nat /\ Len(y) < l - Len(x)
    BY <1>2
  <2> HIDE DEF x, y, l
  <2>2. Cat(x, y) \in Bytes /\ Len(Cat(x, y)) = Len(x) + Len(y) /\ Len(x) \in Nat /\ Len(y) \in Nat
    BY <2>1, ByteConcat
  <2>3. Len(Cat(x, y)) < l
    BY <2>1, <2>2
  <2> QED
    BY <2>2, <2>3 DEF x, y, l
<1>5. /\ r.in = <<>> /\ r.done = c.done /\ r.ok
      /\ r.node = [head |-> n.head, id |-> n.id, len |-> n.len, body |-> b,
                   parsed |-> TRUE]
      /\ r = [node |-> r.node, in |-> r.in, done |-> r.done, ok |-> TRUE]
  BY <1>1, <1>2 DEF LoopStates, Nodes
<1> DEFINE m == r.node
<1>6. /\ m.head = n.head /\ m.id = n.id /\ m.len = n.len /\ m.body = b
      /\ m.parsed = TRUE /\ m \in Nodes
  BY <1>2, <1>4, <1>5 DEF Nodes
<1> HIDE DEF m, b
<1>7. Len(b) \in Nat
  BY <1>4, ByteConcat
<1>8. NodeAt(m, i)
  BY <1>2, <1>3, <1>4, <1>6, <1>7 DEF NodeAt
<1>9. Cat(Taken(m, i), Cat(<<>>, more)) = t[i]
  <2>1. i \in 1 .. Count
    BY <1>1, <1>3
  <2>2. HeaderOf(i) \in Bytes
    BY <2>1, HeaderDecoded
  <2>3. Taken(m, i) = Cat(HeaderOf(i), b) /\ Taken(n, i) = Cat(HeaderOf(i), n.body)
    BY <1>2, <1>6 DEF Taken
  <2>4. Cat(Cat(HeaderOf(i), b), Cat(<<>>, more)) = Cat(Cat(HeaderOf(i), n.body), Cat(c.in, more))
    BY <1>2, <2>2, BodyGrows DEF b
  <2> QED
    BY <1>1, <2>3, <2>4
<1>10. r \in LoopStates
  <2>1. <<>> \in Bytes
    BY ByteConcat
  <2> QED
    BY <1>2, <1>5, <1>6, <2>1 DEF LoopStates, m
<1>11. LoopAt(r, i, t, more)
  BY <1>1, <1>5, <1>8, <1>9, <1>10 DEF LoopAt, m
<1>12. Len(r.in) < Len(c.in)
  <2> DEFINE y == c.in
  <2>1. y \in Bytes /\ y # <<>>
    BY <1>2
  <2> HIDE DEF y
  <2>2. Len(y) \in Nat /\ Len(y) # 0 /\ Len(<<>>) = 0
    BY <2>1, ByteConcat
  <2>3. Len(<<>>) < Len(y)
    BY <2>2
  <2> QED
    BY <1>5, <2>3 DEF y
<1> QED
  BY <1>5, <1>11, <1>12 DEF RoundOK

\* A piece that ends within the header.
LEMMA HeadContinues ==
  ASSUME OneClient, NEW t, IsStream(t), NEW i, NEW more \in Bytes,
         NEW c, LoopAt(c, i, t, more), c.ok, c.in # <<>>, ~c.node.parsed,
         Len(c.in) + Len(c.node.head) < Frames!HEAD_LENGTH,
         NEW r, r = [c EXCEPT !.in = <<>>, !.node.head = Cat(@, c.in)]
  PROVE  RoundOK(c, r, i, t, more)
<1> DEFINE n == c.node
           x == n.head
           y == c.in
           b == Cat(x, y)
<1>1. /\ c \in LoopStates /\ i \in 1 .. Count + 1 /\ NodeAt(n, i)
      /\ Cat(Taken(n, i), Cat(c.in, more)) = t[i]
  BY DEF LoopAt
<1>2. /\ n \in Nodes /\ c.in \in Bytes /\ c.done \in Seq(Completed)
      /\ n.head \in Bytes /\ n.body \in Bytes /\ n.len \in Nat /\ n.id \in Nat
      /\ n.parsed = FALSE
  BY <1>1 DEF LoopStates, Nodes
<1>3. /\ n.len <= FrameMax /\ n.body = <<>> /\ Len(n.body) <= n.len
  BY <1>1, <1>2 DEF NodeAt
<1>4. x \in Bytes /\ y \in Bytes /\ y # <<>> /\ Len(y) + Len(x) < Frames!HEAD_LENGTH
  BY <1>2
<1>5. /\ r.in = <<>> /\ r.done = c.done /\ r.ok
      /\ r.node = [head |-> b, id |-> n.id, len |-> n.len, body |-> n.body,
                   parsed |-> FALSE]
      /\ r = [node |-> r.node, in |-> r.in, done |-> r.done, ok |-> TRUE]
  BY <1>1, <1>2 DEF LoopStates, Nodes
<1> HIDE DEF x, y
<1>6. /\ b \in Bytes /\ Len(b) < Frames!HEAD_LENGTH /\ 0 < Len(y)
      /\ Cat(b, Cat(<<>>, more)) = Cat(x, Cat(y, more))
  <2>1. b \in Bytes /\ Len(b) = Len(x) + Len(y) /\ Len(x) \in Nat /\ Len(y) \in Nat
        /\ Len(y) # 0
    BY <1>4, ByteConcat
  <2>2. Cat(Cat(x, y), more) = Cat(x, Cat(y, more)) /\ Cat(<<>>, more) = more
    BY <1>4, ByteConcat
  <2>3. Len(b) < Frames!HEAD_LENGTH
    <3> DEFINE h == Frames!HEAD_LENGTH
               lx == Len(x)
               ly == Len(y)
               lb == Len(b)
    <3>1. ly + lx < h /\ lb = lx + ly /\ lx \in Nat /\ ly \in Nat
      BY <1>4, <2>1
    <3> HIDE DEF h, lx, ly, lb
    <3>2. lb < h
      BY <3>1
    <3> QED
      BY <3>2 DEF h, lb
  <2> QED
    BY <2>1, <2>2, <2>3
<1> DEFINE m == r.node
<1>7. /\ m.head = b /\ m.id = n.id /\ m.len = n.len /\ m.body = n.body
      /\ m.parsed = FALSE /\ m \in Nodes
  BY <1>2, <1>5, <1>6 DEF Nodes
<1> HIDE DEF m, b
<1>8. NodeAt(m, i)
  BY <1>3, <1>6, <1>7 DEF NodeAt
<1>9. Cat(Taken(m, i), Cat(<<>>, more)) = t[i]
  <2>1. Taken(m, i) = b /\ Taken(n, i) = x
    BY <1>2, <1>7 DEF Taken, x
  <2>2. Cat(x, Cat(y, more)) = t[i]
    BY <1>1, <2>1 DEF y
  <2> QED
    BY <1>6, <2>1, <2>2
<1>10. r \in LoopStates
  <2>1. <<>> \in Bytes
    BY ByteConcat
  <2> QED
    BY <1>2, <1>5, <1>7, <2>1 DEF LoopStates, m
<1>11. LoopAt(r, i, t, more)
  BY <1>1, <1>5, <1>8, <1>9, <1>10 DEF LoopAt, m
<1>12. Len(r.in) < Len(c.in)
  <2>1. Len(<<>>) = 0
    BY ByteConcat
  <2> QED
    BY <1>5, <1>6, <2>1 DEF y
<1> QED
  BY <1>5, <1>11, <1>12 DEF RoundOK

\* A piece that holds the rest of the body.
LEMMA BodyCompletes ==
  ASSUME OneClient, NEW t, IsStream(t), NEW i, NEW more \in Bytes,
         NEW c, LoopAt(c, i, t, more), c.ok, c.in # <<>>, c.node.parsed,
         ~(Len(c.in) < c.node.len - Len(c.node.body)), NEW r, r = Frames!BodyRound(c)
  PROVE  RoundOK(c, r, i, t, more)
<1> DEFINE n == c.node
           x == n.body
           y == c.in
           k == n.len - Len(n.body)
           p == SubSeq(y, 1, k)
           q == Frames!From(y, k)
           b == Cat(x, p)
<1>1. /\ c \in LoopStates /\ i \in 1 .. Count + 1 /\ NodeAt(n, i)
      /\ Cat(Taken(n, i), Cat(c.in, more)) = t[i]
  BY DEF LoopAt
<1>2. /\ n \in Nodes /\ c.in \in Bytes /\ c.done \in Seq(Completed)
      /\ n.body \in Bytes /\ n.len \in Nat /\ n.id \in Nat /\ n.parsed = TRUE
  BY <1>1 DEF LoopStates, Nodes
<1>3. /\ i <= Count /\ n.id = IdOf(i) /\ n.id <= FrameMax /\ n.len = Len(BodyOf(i))
      /\ Len(n.body) < n.len
  BY <1>1, <1>2 DEF NodeAt
<1>4. i \in 1 .. Count
  BY <1>1, <1>3, FramesTyped
<1>5. k \in 0 .. Len(y) /\ k > 0 /\ Len(x) + k = n.len /\ Len(y) \in Nat /\ Len(x) \in Nat
  <2> DEFINE lx == Len(x)
             ly == Len(y)
             l == n.len
  <2>1. lx \in Nat /\ ly \in Nat
    BY <1>2, ByteConcat
  <2>2. l \in Nat /\ lx < l /\ ~(ly < l - lx) /\ k = l - lx
    BY <1>2, <1>3
  <2> HIDE DEF lx, ly, l, k
  <2>3. k \in 0 .. ly /\ k > 0 /\ lx + k = l
    BY <2>1, <2>2
  <2> QED
    BY <2>1, <2>3 DEF lx, ly, l
<1>6. r = [c EXCEPT !.in = q, !.node = Frames!EmptyNode,
                    !.done = Append(@, Frames!FrameOf(n.id, b, "body"))]
  BY DEF Frames!BodyRound, Frames!BodyRemain, Cat
<1> HIDE DEF x, y, k
<1>7. x \in Bytes /\ y \in Bytes
  BY <1>2 DEF x, y
<1>8. p \in Bytes /\ Len(p) = k /\ q \in Bytes /\ Len(q) = Len(y) - k /\ Cat(p, q) = y
  BY <1>5, <1>7, Cut DEF Bytes
<1> HIDE DEF p, q
<1>9. b \in Bytes /\ Len(b) = Len(BodyOf(i))
  <2>1. b \in Bytes /\ Len(b) = Len(x) + Len(p)
    BY <1>7, <1>8, ByteConcat
  <2> QED
    BY <1>3, <1>5, <1>8, <2>1
<1>11. b = BodyOf(i) /\ Cat(q, more) = t[i + 1]
  <2> DEFINE h == HeaderOf(i)
             o == BodyOf(i)
             z == t[i + 1]
  <2>1. h \in Bytes /\ o \in Bytes /\ z \in Bytes
    <3>1. i + 1 \in 1 .. Count + 1
      BY <1>4, FramesTyped
    <3> QED
      BY <1>4, <3>1, HeaderDecoded, FramesTyped DEF IsStream
  <2>2. t[i] = Cat(Cat(h, o), z)
    BY <1>4 DEF IsStream
  <2>3. t[i] = Cat(Cat(h, x), Cat(y, more))
    BY <1>1, <1>2 DEF Taken, x, y
  <2>4. Len(x) + Len(p) = Len(o)
    BY <1>3, <1>5, <1>8 DEF x
  <2> HIDE DEF h, o, z
  <2> DEFINE w == Cat(q, more)
  <2>5. Cat(y, more) = Cat(p, w) /\ w \in Bytes
    BY <1>8, Associative, Joined
  <2> HIDE DEF w
  <2>6. Cat(Cat(h, x), Cat(p, w)) = Cat(Cat(h, o), z)
    BY <2>2, <2>3, <2>5
  <2>7. Cat(x, p) = o /\ w = z
    <3>1. /\ x \in Bytes /\ h \in Bytes /\ o \in Bytes /\ z \in Bytes
          /\ p \in Bytes /\ w \in Bytes
      BY <1>7, <1>8, <2>1, <2>5
    <3> HIDE DEF b
    <3> QED
      BY <2>4, <2>6, <3>1, BodySplits
  <2> QED
    BY <2>7 DEF o, z, w
<1> HIDE DEF b
<1> DEFINE f == Frames!FrameOf(n.id, b, "body")
<1>12. f \in Completed /\ f.id = IdOf(i) /\ f.body = BodyOf(i)
  <2>1. n.id \in 0 .. FrameMax
    BY <1>2, <1>3, SessionsAssumption
  <2> QED
    BY <1>3, <1>9, <1>11, <2>1 DEF Completed, Frames!FrameOf
<1>13. r = AfterFrame(c, q, f)
  BY <1>6 DEF AfterFrame
<1> HIDE DEF f
<1>14. LoopAt(r, i + 1, t, more)
  BY <1>1, <1>4, <1>8, <1>11, <1>12, <1>13, NextFrame
<1>15. r.ok /\ r.in = q /\ r.done = Append(c.done, f)
  BY <1>1, <1>13 DEF LoopStates, AfterFrame
<1>16. Len(q) < Len(y)
  <2> DEFINE lq == Len(q)
             ly == Len(y)
  <2>1. lq = ly - k /\ k > 0 /\ ly \in Nat /\ k \in 0 .. ly
    BY <1>5, <1>8
  <2> HIDE DEF lq, ly
  <2>2. lq < ly
    BY <2>1
  <2> QED
    BY <2>2 DEF lq, ly
<1> QED
  BY <1>3, <1>12, <1>14, <1>15, <1>16 DEF RoundOK, Completes, y

\* A piece that holds the rest of the header: the frame is refused, begun or
\* completed.
LEMMA HeadCompletes ==
  ASSUME OneClient, NEW t, IsStream(t), NEW i, NEW more \in Bytes,
         NEW c, LoopAt(c, i, t, more), c.ok, c.in # <<>>, ~c.node.parsed,
         ~(Len(c.in) + Len(c.node.head) < Frames!HEAD_LENGTH),
         NEW r, r = Frames!HeadRound(c)
  PROVE  RoundOK(c, r, i, t, more)
<1> DEFINE n == c.node
           x == n.head
           y == c.in
           H == Frames!HEAD_LENGTH
           k == H - Len(x)
           p == SubSeq(y, 1, k)
           q == Frames!From(y, k)
           b == Cat(x, p)
<1>1. /\ c \in LoopStates /\ i \in 1 .. Count + 1 /\ NodeAt(n, i)
      /\ Cat(Taken(n, i), Cat(c.in, more)) = t[i]
  BY DEF LoopAt
<1>2. /\ n \in Nodes /\ c.in \in Bytes /\ c.done \in Seq(Completed)
      /\ n.head \in Bytes /\ n.body \in Bytes /\ n.len \in Nat /\ n.id \in Nat
      /\ n.parsed = FALSE
  BY <1>1 DEF LoopStates, Nodes
<1>3. /\ n.len <= FrameMax /\ n.body = <<>> /\ Len(x) < H
  BY <1>1, <1>2 DEF NodeAt
<1>4. x \in Bytes /\ y \in Bytes /\ y # <<>> /\ ~(Len(y) + Len(x) < H)
  BY <1>2
<1>5. k \in 0 .. Len(y) /\ k > 0 /\ Len(x) + k = H /\ Len(y) \in Nat /\ H \in Nat
  <2> DEFINE lx == Len(x)
             ly == Len(y)
  <2>1. lx \in Nat /\ ly \in Nat
    BY <1>2, ByteConcat
  <2>2. H \in Nat /\ lx < H /\ ~(ly + lx < H) /\ k = H - lx
    BY <1>3, <1>4 DEF Frames!HEAD_LENGTH
  <2> HIDE DEF lx, ly, k, H
  <2>3. k \in 0 .. ly /\ k > 0 /\ lx + k = H
    BY <2>1, <2>2
  <2> QED
    BY <2>1, <2>2, <2>3 DEF lx, ly
<1> HIDE DEF k
<1>6. p \in Bytes /\ Len(p) = k /\ q \in Bytes /\ Len(q) = Len(y) - k /\ Cat(p, q) = y
  BY <1>4, <1>5, Cut
<1>7. b \in Bytes /\ Len(b) = H
  <2>1. b \in Bytes /\ Len(b) = Len(x) + Len(p)
    BY <1>4, <1>6, ByteConcat
  <2> QED
    BY <1>5, <1>6, <2>1
<1> DEFINE d == Frames!Decode(b)
<1>8. r = IF Frames!Invalid(d) THEN [c EXCEPT !.ok = FALSE]
          ELSE IF Len(q) < d.len
          THEN [c EXCEPT !.in = <<>>, !.node.id = d.id, !.node.len = d.len,
                         !.node.body = q, !.node.parsed = TRUE]
          ELSE [c EXCEPT !.in = Frames!From(q, d.len), !.node = Frames!EmptyNode,
                         !.done = Append(@, Frames!FrameOf(d.id, SubSeq(q, 1, d.len),
                                                           "head"))]
  BY DEF Frames!HeadRound, k, Cat
<1> HIDE DEF x, y, p, q, b, d, H
<1>9. Cat(x, Cat(y, more)) = t[i]
  <2>1. Taken(n, i) = x
    BY <1>2 DEF Taken, x
  <2> QED
    BY <1>1, <2>1 DEF y
<1>10. i \in 1 .. Count
  <2> SUFFICES ASSUME i = Count + 1 PROVE FALSE
    BY <1>1, FramesTyped
  <2>1. Cat(x, Cat(y, more)) = <<>>
    BY <1>9 DEF IsStream
  <2> DEFINE w == Cat(y, more)
  <2>2. w \in Bytes /\ Len(w) = Len(y) + Len(more)
    BY <1>4, Joined
  <2> HIDE DEF w
  <2>3. Len(Cat(x, w)) = Len(x) + Len(w)
    BY <1>4, <2>2, Joined
  <2>4. Len(x) \in Nat /\ Len(more) \in Nat /\ Len(<<>>) = 0
    BY <1>4, ByteConcat
  <2> QED
    BY <1>5, <2>1, <2>2, <2>3, <2>4 DEF w
<1> DEFINE h == HeaderOf(i)
           o == BodyOf(i)
           z == t[i + 1]
<1>11. h \in Bytes /\ o \in Bytes /\ z \in Bytes /\ Len(h) = H /\ t[i] = Cat(Cat(h, o), z)
  <2>1. i + 1 \in 1 .. Count + 1
    BY <1>10, FramesTyped
  <2> QED
    BY <1>10, <2>1, HeaderDecoded, FramesTyped DEF IsStream, H
<1>12. d = [id |-> IdOf(i), len |-> Len(o)] /\ Cat(q, more) = Cat(o, z) /\ b = h
  <2> HIDE DEF h, o, z
  <2>1. Len(x) + Len(p) = Len(h)
    BY <1>5, <1>6, <1>11
  <2> DEFINE w == Cat(q, more)
             v == Cat(o, z)
  <2>2. Cat(y, more) = Cat(p, w) /\ Cat(Cat(h, o), z) = Cat(h, v)
    BY <1>6, <1>11, Associative
  <2>3. w \in Bytes
    BY <1>6, Joined
  <2>4. v \in Bytes
    BY <1>11, Joined
  <2> HIDE DEF w, v
  <2>5. Cat(x, Cat(p, w)) = Cat(h, v)
    BY <1>9, <1>11, <2>2
  <2>6. Cat(x, p) = h /\ w = v
    <3>1. x \in Bytes /\ p \in Bytes /\ w \in Bytes /\ h \in Bytes /\ v \in Bytes
      BY <1>4, <1>6, <1>11, <2>3, <2>4
    <3> QED
      BY <2>1, <2>5, <3>1, Splits
  <2>7. b = h /\ Cat(q, more) = Cat(o, z)
    BY <2>6 DEF b, w, v
  <2> QED
    BY <1>10, <2>7, HeaderDecoded DEF d, h, o
<1>13. IdOf(i) \in Nat /\ Len(o) \in Nat /\ FrameMax \in Nat
  <2> DEFINE l == Len(o)
             a == IdOf(i)
  <2>1. a \in Short /\ l \in Short
    BY <1>10, FramesTyped
  <2>2. FrameMax \in Nat
    BY SessionsAssumption
  <2> HIDE DEF l, a
  <2>3. a \in Nat /\ l \in Nat
    BY <2>1, ShortNat
  <2> QED
    BY <2>2, <2>3 DEF l, a
<1>14. d.id = IdOf(i) /\ d.len = Len(o)
  BY <1>12
<1>15. CASE Frames!Invalid(d)
  <2>1. r = [c EXCEPT !.ok = FALSE]
    BY <1>8, <1>15
  <2>2. /\ r.ok = FALSE /\ r.node = c.node /\ r.in = c.in /\ r.done = c.done
        /\ r \in LoopStates
    BY <1>1, <2>1 DEF LoopStates
  <2>3. LoopAt(r, i, t, more)
    BY <1>1, <2>2 DEF LoopAt
  <2> QED
    BY <2>2, <2>3 DEF RoundOK
<1>16. ASSUME ~Frames!Invalid(d) PROVE IdOf(i) <= FrameMax /\ Len(o) <= FrameMax
  BY <1>13, <1>14, <1>16 DEF Frames!Invalid
<1>17. Len(q) \in Nat /\ Len(q) < Len(y)
  <2> DEFINE lq == Len(q)
             ly == Len(y)
  <2>1. lq = ly - k /\ k > 0 /\ ly \in Nat /\ k \in 0 .. ly /\ lq \in Nat
    BY <1>5, <1>6, ByteConcat
  <2> HIDE DEF lq, ly
  <2>2. lq < ly
    BY <2>1
  <2> QED
    BY <2>1, <2>2 DEF lq, ly
<1>18. CASE ~Frames!Invalid(d) /\ Len(q) < d.len
  <2>1. r = [c EXCEPT !.in = <<>>, !.node.id = d.id, !.node.len = d.len,
                      !.node.body = q, !.node.parsed = TRUE]
    BY <1>8, <1>18
  <2> DEFINE m == r.node
  <2>2. /\ r.in = <<>> /\ r.done = c.done /\ r.ok
        /\ m = [n EXCEPT !.id = d.id, !.len = d.len, !.body = q, !.parsed = TRUE]
        /\ r = [node |-> m, in |-> r.in, done |-> r.done, ok |-> r.ok]
    <3>1. c.ok = TRUE
      BY <1>1 DEF LoopStates
    <3> QED
      BY <1>1, <2>1, <3>1 DEF LoopStates
  <2>3. /\ m.head = x /\ m.id = IdOf(i) /\ m.len = Len(o) /\ m.body = q
        /\ m.parsed = TRUE /\ m \in Nodes
    <3> DEFINE e == d.id
               l == d.len
    <3>1. e \in Nat /\ l \in Nat
      BY <1>13, <1>14
    <3> HIDE DEF e, l
    <3> DEFINE g == [n EXCEPT !.id = e, !.len = l, !.body = q, !.parsed = TRUE]
    <3>2. /\ g.head = n.head /\ g.id = e /\ g.len = l /\ g.body = q /\ g.parsed = TRUE
          /\ g \in Nodes
      <4> HIDE DEF n
      <4>1. n \in Nodes /\ q \in Bytes
        BY <1>2, <1>6
      <4>2. g \in Nodes
        BY <3>1, <4>1 DEF Nodes
      <4>3. /\ g.head = n.head /\ g.id = e /\ g.len = l /\ g.body = q
            /\ g.parsed = TRUE
        BY <4>1 DEF Nodes
      <4> QED
        BY <4>2, <4>3
    <3>3. m = g
      BY <2>2 DEF e, l
    <3> HIDE DEF g, m
    <3> QED
      BY <1>14, <3>2, <3>3 DEF e, l, x
  <2> HIDE DEF m
  <2>4. NodeAt(m, i)
    <3>1. Len(q) < Len(o) /\ Len(q) <= Len(o)
      BY <1>13, <1>14, <1>17, <1>18
    <3> QED
      BY <1>3, <1>10, <1>16, <1>18, <2>3, <3>1 DEF NodeAt, H
  <2>5. Cat(Taken(m, i), Cat(<<>>, more)) = t[i]
    <3>1. Taken(m, i) = Cat(h, q)
      BY <2>3 DEF Taken
    <3> HIDE DEF h, o, z
    <3>2. Cat(Cat(h, q), more) = Cat(h, Cat(q, more))
      BY <1>6, <1>11, Associative
    <3>3. Cat(Cat(h, o), z) = Cat(h, Cat(o, z))
      BY <1>11, Associative
    <3>4. Cat(<<>>, more) = more
      BY ByteConcat
    <3> QED
      BY <1>11, <1>12, <3>1, <3>2, <3>3, <3>4
  <2>6. r \in LoopStates
    <3>1. <<>> \in Bytes
      BY ByteConcat
    <3> QED
      BY <1>2, <2>2, <2>3, <3>1 DEF LoopStates, m
  <2>7. LoopAt(r, i, t, more)
    BY <1>1, <2>2, <2>4, <2>5, <2>6 DEF LoopAt, m
  <2>8. Len(r.in) < Len(c.in)
    <3>1. Len(<<>>) = 0 /\ 0 < Len(y)
      BY <1>5, <1>17, ByteConcat
    <3> QED
      BY <2>2, <3>1 DEF y
  <2> QED
    BY <2>2, <2>7, <2>8 DEF RoundOK
<1>19. CASE ~Frames!Invalid(d) /\ ~(Len(q) < d.len)
  <2> DEFINE l == Len(o)
             v == SubSeq(q, 1, l)
             w == Frames!From(q, l)
             f == Frames!FrameOf(IdOf(i), v, "head")
  <2>1. r = AfterFrame(c, w, f)
    BY <1>8, <1>14, <1>19 DEF AfterFrame
  <2>2. l \in 0 .. Len(q)
    BY <1>13, <1>14, <1>17, <1>19
  <2>3. /\ v \in Bytes /\ Len(v) = l /\ w \in Bytes /\ Len(w) = Len(q) - l
        /\ Cat(v, w) = q
    BY <1>6, <2>2, Cut
  <2>4. l \in Nat
    BY <1>13
  <2> HIDE DEF v, w
  <2>5. v = o /\ Cat(w, more) = z
    <3>2. Cat(Cat(v, w), more) = Cat(v, Cat(w, more))
      BY <2>3, Associative
    <3>3. Cat(w, more) \in Bytes
      BY <2>3, Joined
    <3>1. Cat(v, Cat(w, more)) = Cat(o, z) /\ Cat(w, more) \in Bytes
      BY <1>12, <2>3, <3>2, <3>3
    <3> QED
      BY <1>10, <2>3, <3>1, BodyEnds
  <2>6. f \in Completed /\ f.id = IdOf(i) /\ f.body = BodyOf(i)
    <3>1. IdOf(i) \in 0 .. FrameMax
      BY <1>13, <1>16, <1>19
    <3> QED
      BY <2>3, <2>5, <3>1 DEF Completed, Frames!FrameOf
  <2> HIDE DEF f
  <2>7. LoopAt(r, i + 1, t, more)
    BY <1>1, <1>10, <2>1, <2>3, <2>5, <2>6, NextFrame
  <2>8. r.ok /\ r.in = w /\ r.done = Append(c.done, f)
    BY <1>1, <2>1 DEF LoopStates, AfterFrame
  <2>9. Len(w) < Len(y)
    <3> DEFINE lw == Len(w)
               lq == Len(q)
               ly == Len(y)
    <3>1. lw = lq - l /\ lq < ly /\ lq \in Nat /\ ly \in Nat /\ l \in Nat
      BY <1>5, <1>17, <2>3, <2>4
    <3> HIDE DEF lw, lq, ly, l
    <3>2. lw < ly
      BY <3>1
    <3> QED
      BY <3>2 DEF lw, ly
  <2> QED
    BY <1>10, FramesTyped, <2>6, <2>7, <2>8, <2>9 DEF RoundOK, Completes, y
<1> QED
  BY <1>15, <1>18, <1>19

\* One round.
LEMMA RoundStep ==
  ASSUME OneClient, NEW t, IsStream(t), NEW i, NEW more \in Bytes,
         NEW c, LoopAt(c, i, t, more), NEW r, r = Frames!Round(c)
  PROVE  RoundOK(c, r, i, t, more)
<1>1. CASE c.in = <<>> \/ ~c.ok
  <2>1. r = c
    BY <1>1 DEF Frames!Round
  <2> QED
    BY <1>1, <2>1 DEF RoundOK
<1>2. CASE c.in # <<>> /\ c.ok /\ c.node.parsed
  <2>1. r = Frames!BodyRound(c)
    BY <1>2 DEF Frames!Round
  <2>2. CASE Len(c.in) < c.node.len - Len(c.node.body)
    <3>1. r = [c EXCEPT !.in = <<>>, !.node.body = Cat(@, c.in)]
      BY <2>1, <2>2 DEF Frames!BodyRound, Cat
    <3> QED
      BY <1>2, <2>2, <3>1, BodyContinues, Zenon
  <2>3. CASE ~(Len(c.in) < c.node.len - Len(c.node.body))
    <3> QED
      BY <1>2, <2>1, <2>3, BodyCompletes
  <2> QED
    BY <2>2, <2>3
<1>3. CASE c.in # <<>> /\ c.ok /\ ~c.node.parsed
  <2>1. CASE Len(c.in) + Len(c.node.head) < Frames!HEAD_LENGTH
    <3>1. r = [c EXCEPT !.in = <<>>, !.node.head = Cat(@, c.in)]
      BY <1>3, <2>1 DEF Frames!Round, Cat
    <3> QED
      BY <1>3, <2>1, <3>1, HeadContinues, Zenon
  <2>2. CASE ~(Len(c.in) + Len(c.node.head) < Frames!HEAD_LENGTH)
    <3>1. r = Frames!HeadRound(c)
      BY <1>3, <2>2 DEF Frames!Round
    <3> QED
      BY <1>3, <2>2, <3>1, HeadCompletes
  <2> QED
    BY <2>1, <2>2
<1> QED
  BY <1>1, <1>2, <1>3

\* d holds the frames from i to before j.
DoneIs(d, i, j) ==
  /\ d \in Seq(Completed) /\ Len(d) = j - i
  /\ \A m \in 1 .. j - i : d[m].id = IdOf(i + m - 1) /\ d[m].body = BodyOf(i + m - 1)

LEMMA DoneOneMore ==
  ASSUME NEW i \in Nat, NEW j \in Nat, i <= j, NEW d, DoneIs(d, i, j),
         NEW f \in Completed, f.id = IdOf(j), f.body = BodyOf(j)
  PROVE  DoneIs(Append(d, f), i, j + 1)
<1> DEFINE e == Append(d, f)
           l == j - i
<1>1. /\ d \in Seq(Completed) /\ Len(d) = l /\ l \in Nat /\ j + 1 - i = l + 1
      /\ i + (l + 1) - 1 = j
  BY DEF DoneIs
<1>2. /\ e \in Seq(Completed) /\ Len(e) = l + 1 /\ e[l + 1] = f
      /\ \A m \in 1 .. l : e[m] = d[m]
  BY <1>1, AppendProperties
<1>3. \A m \in 1 .. l : d[m].id = IdOf(i + m - 1) /\ d[m].body = BodyOf(i + m - 1)
  BY DEF DoneIs
<1> HIDE DEF e, l
<1>4. ASSUME NEW m \in 1 .. l + 1
      PROVE  e[m].id = IdOf(i + m - 1) /\ e[m].body = BodyOf(i + m - 1)
  <2>1. CASE m = l + 1
    BY <1>1, <1>2, <2>1
  <2>2. CASE m # l + 1
    <3>1. m \in 1 .. l
      BY <1>1, <2>2
    <3> QED
      BY <1>2, <1>3, <3>1
  <2> QED
    BY <2>1, <2>2
<1> QED
  BY <1>1, <1>2, <1>4 DEF DoneIs, e

\* The loop over a piece.
LEMMA RoundsResult ==
  ASSUME OneClient, NEW t, IsStream(t), NEW i \in 1 .. Count + 1, NEW n, NodeAt(n, i),
         NEW in \in Bytes, NEW more \in Bytes, Cat(Taken(n, i), Cat(in, more)) = t[i],
         NEW c, c = Frames!Rounds(n, in)
  PROVE  \E j \in i .. Count + 1 : /\ LoopAt(c, j, t, more) /\ DoneIs(c.done, i, j)
                                   /\ c.ok => c.in = <<>>
<1> DEFINE L == Len(in)
<1>1. L \in Nat
  BY ByteConcat
<1>2. PICK f : IsLoop(f, n, in) /\ c = f[L]
  BY <1>1, RoundsRecursion
<1>3. /\ f[0] = [node |-> n, in |-> in, done |-> <<>>, ok |-> TRUE]
      /\ \A k \in 0 .. L : k # 0 => f[k] = Frames!Round(f[k - 1])
  <2> DEFINE a == [node |-> n, in |-> in, done |-> <<>>, ok |-> TRUE]
  <2>1. f = [k \in 0 .. L |-> IF k = 0 THEN a ELSE Frames!Round(f[k - 1])]
    BY <1>2 DEF IsLoop
  <2> HIDE DEF a, L
  <2>2. f[0] = a /\ \A k \in 0 .. L : k # 0 => f[k] = Frames!Round(f[k - 1])
    BY <1>1, <2>1
  <2> QED
    BY <2>2 DEF a
<1> DEFINE At(k, j) == /\ j \in i .. Count + 1 /\ LoopAt(f[k], j, t, more)
                       /\ DoneIs(f[k].done, i, j)
                       /\ f[k].ok => f[k].in = <<>> \/ Len(f[k].in) + k <= L
           S == {k \in Nat : k <= L => \E j \in i .. Count + 1 : At(k, j)}
<1>4. Count \in Nat /\ i \in Nat
  BY FramesTyped
<1>5. 0 \in S
  <2> DEFINE a == f[0]
  <2>1. /\ a.node = n /\ a.in = in /\ a.done = <<>> /\ a.ok = TRUE
        /\ a = [node |-> n, in |-> in, done |-> <<>>, ok |-> TRUE]
    BY <1>3
  <2> HIDE DEF a
  <2>2. <<>> \in Seq(Completed) /\ Len(<<>>) = 0
    BY EmptySeq, Zenon
  <2>3. a \in LoopStates
    BY <2>1, <2>2 DEF LoopStates, NodeAt
  <2>4. LoopAt(a, i, t, more)
    BY <2>1, <2>3 DEF LoopAt
  <2>5. DoneIs(a.done, i, i)
    BY <1>4, <2>1, <2>2 DEF DoneIs
  <2>6. Len(a.in) + 0 <= L
    BY <1>1, <2>1
  <2>7. i \in i .. Count + 1
    BY <1>4
  <2>8. At(0, i)
    BY <2>4, <2>5, <2>6, <2>7 DEF a
  <2> HIDE DEF At
  <2> QED
    BY <2>7, <2>8
<1>6. ASSUME NEW k \in S PROVE k + 1 \in S
  <2> HIDE DEF At
  <2> SUFFICES ASSUME k + 1 <= L PROVE \E j \in i .. Count + 1 : At(k + 1, j)
    OBVIOUS
  <2>1. k \in Nat /\ k <= L /\ k + 1 \in 0 .. L /\ k + 1 # 0 /\ k + 1 - 1 = k
    BY <1>1
  <2>2. PICK j \in i .. Count + 1 : At(k, j)
    BY <2>1
  <2> DEFINE a == f[k]
             r == f[k + 1]
  <2>3. r = Frames!Round(a)
    BY <1>3, <2>1
  <2>4. /\ LoopAt(a, j, t, more) /\ DoneIs(a.done, i, j)
        /\ a.ok => a.in = <<>> \/ Len(a.in) + k <= L
    BY <2>2 DEF At
  <2> HIDE DEF a, r, S
  <2>5. RoundOK(a, r, j, t, more)
    BY <2>3, <2>4, RoundStep
  <2>6. j \in Nat /\ i <= j /\ j <= Count + 1
    BY <1>4
  <2>7. CASE r = a /\ (a.in = <<>> \/ ~a.ok)
    <3>1. At(k + 1, j)
      BY <2>4, <2>7 DEF At, r, a
    <3> QED
      BY <3>1
  <2>8. ASSUME r.ok, Len(r.in) < Len(a.in), LoopAt(r, j, t, more) \/ LoopAt(r, j + 1, t, more)
        PROVE  Len(r.in) + (k + 1) <= L
    <3> DEFINE x == Len(r.in)
               y == Len(a.in)
    <3>1. r.in \in Bytes /\ a.in \in Bytes
      BY <2>4, <2>8 DEF LoopAt, LoopStates
    <3>2. x \in Nat /\ y \in Nat /\ x < y /\ (a.in = <<>> => y = 0)
      BY <2>8, <3>1, ByteConcat
    <3>3. a.ok
      BY <2>3, <2>8 DEF Frames!Round
    <3>4. y + k <= L
      BY <2>4, <3>2, <3>3
    <3> HIDE DEF x, y, L
    <3>5. x + (k + 1) <= L
      BY <1>1, <2>1, <3>2, <3>4
    <3> QED
      BY <3>5 DEF x
  <2>9. CASE r.ok /\ Len(r.in) < Len(a.in) /\ LoopAt(r, j, t, more) /\ r.done = a.done
    <3>1. At(k + 1, j)
      BY <2>4, <2>8, <2>9 DEF At, r
    <3> QED
      BY <3>1
  <2>10. CASE /\ r.ok /\ Len(r.in) < Len(a.in) /\ j <= Count
              /\ LoopAt(r, j + 1, t, more) /\ Completes(a, r, j)
    <3>1. PICK g \in Completed : /\ g.id = IdOf(j) /\ g.body = BodyOf(j)
                                 /\ r.done = Append(a.done, g)
      BY <2>10 DEF Completes
    <3>2. DoneIs(r.done, i, j + 1)
      BY <1>4, <2>4, <2>6, <3>1, DoneOneMore
    <3>3. j + 1 \in i .. Count + 1
      BY <1>4, <2>6, <2>10
    <3>4. At(k + 1, j + 1)
      BY <2>8, <2>10, <3>2, <3>3 DEF At, r
    <3> QED
      BY <3>3, <3>4
  <2>11. CASE ~r.ok /\ LoopAt(r, j, t, more) /\ r.done = a.done
    <3>1. At(k + 1, j)
      BY <2>4, <2>11 DEF At, r
    <3> QED
      BY <3>1
  <2> QED
    BY <2>5, <2>7, <2>9, <2>10, <2>11 DEF RoundOK
<1>7. L \in S
  <2>1. S \subseteq Nat
    OBVIOUS
  <2> HIDE DEF S
  <2>2. S = Nat
    BY <1>5, <1>6, <2>1, Induction
  <2> QED
    BY <1>1, <2>2
<1>8. PICK j \in i .. Count + 1 : At(L, j)
  <2> HIDE DEF At
  <2> QED
    BY <1>1, <1>7
<1>9. c.ok => c.in = <<>>
  <2> SUFFICES ASSUME c.ok PROVE c.in = <<>>
    OBVIOUS
  <2> DEFINE x == c.in
  <2>1. x \in Bytes /\ (x = <<>> \/ Len(x) + L <= L)
    BY <1>2, <1>8 DEF LoopAt, LoopStates
  <2> HIDE DEF x, L
  <2>2. Len(x) \in Nat /\ (Len(x) = 0 => x = <<>>)
    BY <2>1, ByteConcat
  <2>3. x = <<>>
    BY <1>1, <2>1, <2>2
  <2> QED
    BY <2>3 DEF x
<1> QED
  BY <1>2, <1>8, <1>9

-----------------------------------------------------------------------------
(***************************************************************************)
(* What is sent.  The nodes written and queued are answers to frames before *)
(* j; g says to which.                                                     *)
(***************************************************************************)
Outs == [queue : Seq(Frames!NodesSent), writes : Seq(Frames!NodesSent), refused : Nat]

Answers(s, g, j, refused) ==
  /\ g \in [1 .. Len(s) -> Frames!Answered]
  /\ \A k \in 1 .. Len(s) : /\ Frames!Compared(s[k]) = Frames!AnswerTo(frames[g[k]])
                            /\ g[k] < j
  /\ \A k, l \in 1 .. Len(s) : k < l => g[k] < g[l]
  /\ refused = 0 => \A a \in Frames!Answered :
                      a < j => \E k \in 1 .. Len(s) : g[k] = a

WritesFront(o, cn) ==
  /\ o.writes # <<>> => o.queue # <<>> /\ o.writes = <<Head(o.queue)>>
  /\ o.queue # <<>> /\ o.writes = <<>> => cn = "down"

OutOK(w, o, cn, j) ==
  /\ w \in Seq(Frames!NodesSent) /\ o \in Outs
  /\ f_version \notin {"v4", "v7"} => Len(o.queue) <= FrameQueue + 1
  /\ WritesFront(o, cn)
  /\ \E g : Answers(Cat(w, o.queue), g, j, o.refused)

LEMMA AnsweredFrames ==
  ASSUME OneClient
  PROVE  \A a \in Frames!Answered : a \in 1 .. Count /\ a \in Nat
BY FramesTyped DEF Frames!Answered

\* One more answer.
LEMMA AnswersAppend ==
  ASSUME OneClient, NEW S, NEW s \in Seq(S), NEW g, NEW j \in Frames!Answered,
         NEW refused, Answers(s, g, j, refused), NEW n \in S,
         Frames!Compared(n) = Frames!AnswerTo(frames[j])
  PROVE  \E h : Answers(Append(s, n), h, j + 1, refused)
<1> DEFINE p == Append(s, n)
           m == Len(s)
           h == [k \in 1 .. m + 1 |-> IF k = m + 1 THEN j ELSE g[k]]
<1>1. /\ m \in Nat /\ Len(p) = m + 1 /\ p[m + 1] = n
      /\ \A k \in 1 .. m : p[k] = s[k]
  BY AppendProperties, LenProperties
<1>2. j \in Nat /\ \A a \in Frames!Answered : a \in Nat
  BY AnsweredFrames
<1>3. /\ g \in [1 .. m -> Frames!Answered]
      /\ \A k \in 1 .. m : /\ Frames!Compared(s[k]) = Frames!AnswerTo(frames[g[k]])
                           /\ g[k] < j
      /\ \A k, l \in 1 .. m : k < l => g[k] < g[l]
      /\ refused = 0 => \A a \in Frames!Answered :
                          a < j => \E k \in 1 .. m : g[k] = a
  BY DEF Answers
<1> HIDE DEF m, p
<1>4. \A k \in 1 .. m + 1 : k = m + 1 \/ (k \in 1 .. m /\ k # m + 1)
  BY <1>1
<1>5. h \in [1 .. m + 1 -> Frames!Answered]
  BY <1>3, <1>4
<1>6. h[m + 1] = j /\ \A k \in 1 .. m : h[k] = g[k] /\ g[k] \in Nat /\ k \in 1 .. m + 1
  <2>1. m + 1 \in 1 .. m + 1 /\ \A k \in 1 .. m : k \in 1 .. m + 1 /\ k # m + 1
    BY <1>1
  <2>2. \A k \in 1 .. m : g[k] \in Nat
    BY <1>2, <1>3
  <2> QED
    BY <2>1, <2>2
<1> HIDE DEF h
<1>7. ASSUME NEW k \in 1 .. m + 1
      PROVE  Frames!Compared(p[k]) = Frames!AnswerTo(frames[h[k]]) /\ h[k] < j + 1
  <2>1. CASE k = m + 1
    BY <1>1, <1>2, <1>6, <2>1
  <2>2. CASE k \in 1 .. m
    <3>1. g[k] < j /\ g[k] \in Nat
      BY <1>3, <1>6, <2>2
    <3>2. g[k] < j + 1
      BY <1>2, <3>1
    <3> QED
      BY <1>1, <1>3, <1>6, <2>2, <3>2
  <2> QED
    BY <1>4, <2>1, <2>2
<1>8. ASSUME NEW k \in 1 .. m + 1, NEW l \in 1 .. m + 1, k < l
      PROVE  h[k] < h[l]
  <2>1. k \in 1 .. m /\ (l \in 1 .. m \/ l = m + 1)
    BY <1>1, <1>8
  <2> QED
    BY <1>3, <1>6, <1>8, <2>1
<1>9. ASSUME refused = 0, NEW a \in Frames!Answered, a < j + 1
      PROVE  \E k \in 1 .. m + 1 : h[k] = a
  <2>1. CASE a = j
    <3>1. m + 1 \in 1 .. m + 1
      BY <1>1
    <3> QED
      BY <1>6, <2>1, <3>1
  <2>2. CASE a # j
    <3>1. a < j
      BY <1>2, <1>9, <2>2
    <3> QED
      BY <1>3, <1>6, <1>9, <3>1
  <2> QED
    BY <2>1, <2>2
<1>10. Answers(p, h, j + 1, refused)
  <2>1. Len(p) = m + 1
    BY <1>1
  <2> QED
    BY <1>5, <1>7, <1>8, <1>9, <2>1 DEF Answers
<1> QED
  BY <1>10 DEF p

\* No answer to frame j: it has none, or was refused.
LEMMA AnswersSkip ==
  ASSUME OneClient, NEW s, NEW g, NEW j \in Nat, NEW refused, NEW later,
         Answers(s, g, j, refused), later = 0 => refused = 0 /\ j \notin Frames!Answered
  PROVE  Answers(s, g, j + 1, later)
<1>1. \A a \in Frames!Answered : a \in Nat
  BY AnsweredFrames
<1>2. g \in [1 .. Len(s) -> Frames!Answered]
  BY DEF Answers
<1>3. \A k \in 1 .. Len(s) : g[k] < j + 1
  <2> TAKE k \in 1 .. Len(s)
  <2>1. g[k] < j /\ g[k] \in Nat
    BY <1>1, <1>2 DEF Answers
  <2> QED
    BY <2>1
<1>4. ASSUME later = 0, NEW a \in Frames!Answered, a < j + 1
      PROVE  \E k \in 1 .. Len(s) : g[k] = a
  <2>1. a # j /\ a \in Nat
    BY <1>1, <1>4
  <2>2. a < j
    BY <1>4, <2>1
  <2> QED
    BY <1>4, <2>2 DEF Answers
<1> QED
  BY <1>3, <1>4 DEF Answers

LEMMA PushOK ==
  ASSUME OneClient, NEW w, NEW o, NEW cn, NEW j \in Frames!Answered, OutOK(w, o, cn, j),
         NEW n \in Frames!NodesSent, Frames!Compared(n) = Frames!AnswerTo(frames[j]),
         f_version \notin {"v4", "v7"} => Len(o.queue) <= FrameQueue,
         NEW r, r = Frames!Push(o, n)
  PROVE  OutOK(w, r, cn, j + 1)
<1> DEFINE S == Frames!NodesSent
           q == o.queue
<1>1. /\ w \in Seq(S) /\ o \in Outs /\ q \in Seq(S) /\ o.writes \in Seq(S)
      /\ o.refused \in Nat /\ WritesFront(o, cn)
  BY DEF OutOK, Outs
<1>2. /\ r.queue = Append(q, n) /\ r.refused = o.refused
      /\ r.writes = IF q = <<>> THEN <<n>> ELSE o.writes
      /\ r = [queue |-> r.queue, writes |-> r.writes, refused |-> r.refused]
  BY <1>1 DEF Frames!Push, Outs
<1> HIDE DEF S
<1>3. n \in S
  BY DEF S
<1>4. /\ Append(q, n) \in Seq(S) /\ Len(Append(q, n)) = Len(q) + 1 /\ Len(q) \in Nat
      /\ Append(q, n) # <<>> /\ (q # <<>> => Head(Append(q, n)) = Head(q))
      /\ (q = <<>> => Head(Append(q, n)) = n) /\ <<n>> \in Seq(S)
  <2> HIDE DEF q
  <2>1. q \in Seq(S)
    BY <1>1
  <2>2. /\ Append(q, n) \in Seq(S) /\ Len(Append(q, n)) = Len(q) + 1 /\ Len(q) \in Nat
        /\ Append(q, n) # <<>> /\ <<n>> \in Seq(S)
    BY <1>3, <2>1, AppendProperties, LenProperties
  <2>3. Head(Append(q, n)) = IF q = <<>> THEN n ELSE Head(q)
    BY <1>3, <2>1
  <2> QED
    BY <2>2, <2>3
<1>5. r \in Outs
  BY <1>1, <1>2, <1>4 DEF Outs, S
<1>6. f_version \notin {"v4", "v7"} => Len(r.queue) <= FrameQueue + 1
  <2> DEFINE l == Len(q)
  <2>1. FrameQueue \in Nat /\ l \in Nat /\ Len(r.queue) = l + 1
    BY <1>2, <1>4, SessionsAssumption
  <2> HIDE DEF l
  <2>2. l <= FrameQueue => l + 1 <= FrameQueue + 1
    BY <2>1
  <2> QED
    BY <2>1, <2>2 DEF l
<1>7. WritesFront(r, cn)
  <2>1. CASE q = <<>>
    <3>1. <<n>> # <<>>
      OBVIOUS
    <3> QED
      BY <1>2, <1>4, <2>1, <3>1 DEF WritesFront
  <2>2. CASE q # <<>>
    BY <1>1, <1>2, <1>4, <2>2 DEF WritesFront
  <2> QED
    BY <2>1, <2>2
<1>8. Cat(w, Append(q, n)) = Append(Cat(w, q), n) /\ Cat(w, q) \in Seq(S)
  <2> HIDE DEF q
  <2>1. w \in Seq(S) /\ q \in Seq(S)
    BY <1>1
  <2>2. w \o Append(q, n) = Append(w \o q, n)
    BY <1>3, <2>1, AppendToSecond
  <2>3. w \o q \in Seq(S)
    BY <2>1, ConcatProperties
  <2> QED
    BY <2>2, <2>3, Zenon DEF Cat
<1>9. \E g : Answers(Cat(w, r.queue), g, j + 1, r.refused)
  <2> DEFINE s == Cat(w, q)
             f == o.refused
  <2>1. PICK g : Answers(s, g, j, f)
    BY DEF OutOK
  <2>2. s \in Seq(S)
    BY <1>8
  <2> HIDE DEF s, f
  <2>3. \E h : Answers(Append(s, n), h, j + 1, f)
    BY <1>3, <2>1, <2>2, AnswersAppend
  <2> QED
    BY <1>2, <1>8, <2>3 DEF s, f
<1> QED
  BY <1>1, <1>5, <1>6, <1>7, <1>9 DEF OutOK, S

\* send drops a node when the queue is full.
LEMMA PushUnlessFullOK ==
  ASSUME OneClient, NEW w, NEW o, NEW cn, NEW j \in Frames!Answered, OutOK(w, o, cn, j),
         NEW n \in Frames!NodesSent, Frames!Compared(n) = Frames!AnswerTo(frames[j]),
         NEW r, r = Frames!PushUnlessFull(o, n)
  PROVE  OutOK(w, r, cn, j + 1)
<1> DEFINE l == Len(o.queue)
<1>1. l \in Nat /\ FrameQueue \in Nat /\ j \in Nat
  <2>1. o.queue \in Seq(Frames!NodesSent)
    BY DEF OutOK, Outs
  <2>2. l \in Nat
    BY <2>1, LenProperties
  <2> QED
    BY <2>2, SessionsAssumption, AnsweredFrames
<1>2. CASE l > FrameQueue
  <2>1. r = [o EXCEPT !.refused = @ + 1]
    BY <1>2 DEF Frames!PushUnlessFull
  <2>2. o \in Outs /\ o.refused \in Nat
    BY DEF OutOK, Outs
  <2>3. /\ r.queue = o.queue /\ r.writes = o.writes /\ r.refused = o.refused + 1
        /\ r \in Outs
    BY <2>1, <2>2 DEF Outs
  <2>4. PICK g : Answers(Cat(w, o.queue), g, j, o.refused)
    BY DEF OutOK
  <2>5. r.refused # 0
    BY <2>2, <2>3
  <2> DEFINE s == Cat(w, o.queue)
             f == o.refused
             e == r.refused
  <2>6. Answers(s, g, j, f) /\ e # 0
    BY <2>4, <2>5
  <2> HIDE DEF s, f, e
  <2>7. Answers(s, g, j + 1, e)
    BY <1>1, <2>6, AnswersSkip
  <2> QED
    BY <2>3, <2>7 DEF OutOK, WritesFront, s, e
<1>3. CASE ~(l > FrameQueue)
  <2>1. r = Frames!Push(o, n)
    BY <1>3 DEF Frames!PushUnlessFull
  <2>2. l <= FrameQueue
    <3> HIDE DEF l
    <3> QED
      BY <1>1, <1>3
  <2> QED
    BY <2>1, <2>2, PushOK
<1> QED
  BY <1>2, <1>3

\* What two bytes hold.
Word == {n \in Nat : n <= 65535}

LEMMA HeadTyped ==
  ASSUME NEW n \in Word
  PROVE  /\ Frames!Host(n) \in Seq(0 .. 255) /\ Frames!Net(n) \in Seq(0 .. 255)
<1>1. n % 256 \in 0 .. 255 /\ n \div 256 \in 0 .. 255
  <2>1. n \in Nat /\ n <= 65535
    BY DEF Word
  <2> QED
    BY <2>1
<1> DEFINE S == 0 .. 255
           a == n % 256
           b == n \div 256
<1>2. a \in S /\ b \in S
  BY <1>1
<1> HIDE DEF S, a, b
<1>3. <<a, b>> \in Seq(S) /\ <<b, a>> \in Seq(S)
  BY <1>2
<1>4. Frames!Host(n) = <<a, b>> /\ Frames!Net(n) = <<b, a>>
  BY DEF Frames!Host, Frames!Net, a, b
<1> QED
  BY <1>3, <1>4, Zenon DEF S

LEMMA ShortBounds == \A n \in Short : n \in Nat /\ n <= 32767
BY DEF Short

\* The text of an answer and its length.
LEMMA TextTyped ==
  ASSUME NEW b \in Bytes, Len(b) \in Short, NEW x \in {"none", "data", "id"}
  PROVE  Frames!TextLen([prefix |-> x, body |-> b]) \in Word
<1> DEFINE l == Len(b)
<1>1. l \in Nat /\ l <= 32767
  <2>1. l \in Short
    OBVIOUS
  <2> HIDE DEF l
  <2> QED
    BY <2>1, ShortBounds
<1>2. Frames!TextLen([prefix |-> x, body |-> b]) = l + IF x = "none" THEN 0 ELSE 1
  BY DEF Frames!TextLen, Frames!Prefix
<1> HIDE DEF l
<1>3. (l + IF x = "none" THEN 0 ELSE 1) \in Word
  BY <1>1 DEF Word
<1> QED
  BY <1>2, <1>3

LEMMA NodeTyped ==
  ASSUME NEW b \in Bytes, NEW x \in {"none", "data", "id"}, NEW h \in Seq(0 .. 255)
  PROVE  [head |-> h, text |-> [prefix |-> x, body |-> b]] \in Frames!NodesSent
BY DEF Frames!NodesSent, Bytes

LEMMA IdsTyped ==
  ASSUME NEW n \in Word, NEW m \in Word
  PROVE  Frames!Net(n) \o Frames!Net(m) \in Seq(0 .. 255)
<1> DEFINE S == 0 .. 255
           a == Frames!Net(n)
           b == Frames!Net(m)
<1>1. a \in Seq(S) /\ b \in Seq(S)
  BY HeadTyped
<1> HIDE DEF S, a, b
<1>2. a \o b \in Seq(S)
  BY <1>1, ConcatProperties
<1> QED
  BY <1>2 DEF S, a, b

\* The answer to frame i, f as it was put together.
IsFrame(f, i) == f.id = IdOf(i) /\ f.body = BodyOf(i)

LEMMA FrameNumbers ==
  ASSUME OneClient, NEW i \in 1 .. Count
  PROVE  /\ BodyOf(i) \in Bytes /\ Len(BodyOf(i)) \in Short
         /\ frames[i].id \in Word /\ BodyOf(i) = frames[i].body
<1>1. BodyOf(i) \in Bytes /\ Len(BodyOf(i)) \in Short /\ frames[i].id \in Short
  BY FramesTyped
<1>2. \A n \in Short : n \in Word
  BY ShortBounds DEF Word
<1> QED
  BY <1>1, <1>2 DEF BodyOf

\* v4, v5 and v7 echo the body.
LEMMA EchoNode ==
  ASSUME OneClient, NEW i \in 1 .. Count, NEW f, f.body = BodyOf(i),
         f_version \in {"v4", "v5", "v7"}, NEW n,
         \/ f_version = "v4" /\ n = Frames!v4_Msg_Node(Frames!Echo(f))
         \/ f_version = "v5" /\ n = Frames!v5_Msg_Node(Frames!Echo(f))
         \/ f_version = "v7" /\ n = Frames!v7_Msg_Node(Frames!Echo(f))
  PROVE  n \in Frames!NodesSent /\ Frames!Compared(n) = Frames!AnswerTo(frames[i])
<1> DEFINE x == [prefix |-> "none", body |-> BodyOf(i)]
           l == Frames!TextLen(x)
<1>1. BodyOf(i) \in Bytes /\ Len(BodyOf(i)) \in Short /\ BodyOf(i) = frames[i].body
  BY FrameNumbers
<1>2. Frames!Echo(f) = x /\ Frames!TextFor(frames[i]) = x
  BY <1>1 DEF Frames!Echo, Frames!TextFor
<1>3. l \in Word
  BY <1>1, TextTyped
<1>4. [head |-> Frames!Host(l), text |-> x] \in Frames!NodesSent
      /\ [head |-> Frames!Net(l), text |-> x] \in Frames!NodesSent
  <2> HIDE DEF l
  <2>1. Frames!Host(l) \in Seq(0 .. 255) /\ Frames!Net(l) \in Seq(0 .. 255)
    BY <1>3, HeadTyped
  <2> QED
    BY <1>1, <2>1, NodeTyped
<1> HIDE DEF x
<1>5. Frames!Compared(n) = n
  BY DEF Frames!Compared
<1>6. CASE f_version \in {"v4", "v7"}
  <2>1. n = [head |-> Frames!Host(l), text |-> x]
    BY <1>2, <1>6 DEF Frames!v4_Msg_Node, Frames!v7_Msg_Node
  <2>2. Frames!AnswerTo(frames[i]) = [head |-> Frames!Host(l), text |-> x]
    BY <1>2, <1>6 DEF Frames!AnswerTo
  <2> QED
    BY <1>4, <1>5, <2>1, <2>2
<1>7. CASE f_version = "v5"
  <2>1. n = [head |-> Frames!Net(l), text |-> x]
    BY <1>2, <1>7 DEF Frames!v5_Msg_Node
  <2>2. Frames!AnswerTo(frames[i]) = [head |-> Frames!Net(l), text |-> x]
    BY <1>2, <1>7 DEF Frames!AnswerTo
  <2> QED
    BY <1>4, <1>5, <2>1, <2>2
<1> QED
  BY <1>6, <1>7

\* v6 and later put it into a document.
LEMMA ReceivedNode ==
  ASSUME OneClient, NEW i \in 1 .. Count, NEW f, f.body = BodyOf(i),
         f_version \in {"v8", "v9", "v10"} => f.id = frames[i].id,
         f_version \in {"v6", "v8", "v9", "v10"}, NEW n,
         \/ /\ f_version = "v6"
            /\ \/ n = Frames!v6_Msg_Node(Frames!Received(f))
               \/ n = Frames!v6_Msg_Node(Frames!ReceivedAsId(f))
         \/ f_version = "v8" /\ n = Frames!v8_Send_Node(Frames!Received(f), f.id)
         \/ f_version = "v9" /\ n = Frames!v9_Send_Node(Frames!Received(f), f.id)
         \/ f_version = "v10" /\ n = Frames!v10_Send_Node(Frames!Received(f), f.id)
  PROVE  n \in Frames!NodesSent /\ Frames!Compared(n) = Frames!AnswerTo(frames[i])
<1> DEFINE x == [prefix |-> "data", body |-> BodyOf(i)]
           y == [prefix |-> "id", body |-> BodyOf(i)]
           l == Frames!TextLen(x)
<1>1. /\ BodyOf(i) \in Bytes /\ Len(BodyOf(i)) \in Short /\ BodyOf(i) = frames[i].body
      /\ frames[i].id \in Word
  BY FrameNumbers
<1>2. /\ Frames!Received(f) = x /\ Frames!ReceivedAsId(f) = y
      /\ Frames!TextFor(frames[i]) = x /\ Frames!TextLen(y) = l
  BY <1>1 DEF Frames!Received, Frames!ReceivedAsId, Frames!TextFor, Frames!TextLen
<1>3. l \in Word
  BY <1>1, TextTyped
<1>4. CASE f_version = "v6"
  <2> DEFINE h == Frames!Net(l)
  <2>1. n = [head |-> h, text |-> x] \/ n = [head |-> h, text |-> y]
    <3> HIDE DEF x, y
    <3> QED
      BY <1>2, <1>4 DEF Frames!v6_Msg_Node
  <2>2. Frames!AnswerTo(frames[i]) = [head |-> h, text |-> x]
    <3> HIDE DEF x, y
    <3> QED
      BY <1>2, <1>4 DEF Frames!AnswerTo
  <2>3. h \in Seq(0 .. 255)
    <3> HIDE DEF l
    <3> QED
      BY <1>3, HeadTyped
  <2> HIDE DEF h
  <2>4. n \in Frames!NodesSent
    BY <1>1, <2>1, <2>3, NodeTyped
  <2>5. Frames!Compared(n) = [head |-> h, text |-> x]
    BY <1>4, <2>1 DEF Frames!Compared
  <2> QED
    BY <2>2, <2>4, <2>5
<1>5. CASE f_version \in {"v8", "v9", "v10"}
  <2> DEFINE h == Frames!Net(frames[i].id) \o Frames!Net(l)
  <2>1. n = [head |-> h, text |-> x]
    <3> HIDE DEF x, y
    <3> QED
      BY <1>2, <1>5 DEF Frames!v8_Send_Node, Frames!v9_Send_Node,
         Frames!v10_Send_Node
  <2>2. Frames!AnswerTo(frames[i]) = [head |-> h, text |-> x]
    <3> HIDE DEF x, y
    <3> QED
      BY <1>2, <1>5 DEF Frames!AnswerTo
  <2>3. h \in Seq(0 .. 255)
    <3> HIDE DEF l
    <3> QED
      BY <1>1, <1>3, IdsTyped
  <2> HIDE DEF h
  <2>4. n \in Frames!NodesSent
    BY <1>1, <2>1, <2>3, NodeTyped
  <2>5. Frames!Compared(n) = n
    BY <1>5 DEF Frames!Compared
  <2> QED
    BY <2>1, <2>2, <2>4, <2>5
<1> QED
  BY <1>4, <1>5

LEMMA AllAnswered ==
  ASSUME OneClient, f_version \notin {"v9", "v10"}, NEW i \in 1 .. Count
  PROVE  i \in Frames!Answered
BY FramesTyped DEF Frames!Answered

\* v4, v5, v6 and v8 answer in handle_Read.
LEMMA AnswerOK ==
  ASSUME OneClient, f_version \in {"v4", "v5", "v6", "v8"}, NEW i \in 1 .. Count,
         NEW f, IsFrame(f, i), NEW w, NEW o, NEW cn, OutOK(w, o, cn, i)
  PROVE  OutOK(w, Answer(o, f), cn, i + 1)
<1>1. i \in Frames!Answered /\ f.body = BodyOf(i)
  BY AllAnswered DEF IsFrame
<1>2. CASE f_version = "v4"
  <2> DEFINE n == Frames!v4_Msg_Node(Frames!Echo(f))
  <2>1. n \in Frames!NodesSent /\ Frames!Compared(n) = Frames!AnswerTo(frames[i])
    BY <1>1, <1>2, EchoNode
  <2>2. Answer(o, f) = Frames!Push(o, n)
    BY <1>2 DEF Answer, Frames!v4_answer, Frames!v4_send
  <2> HIDE DEF n
  <2> QED
    BY <1>1, <1>2, <2>1, <2>2, PushOK
<1>3. CASE f_version = "v5"
  <2> DEFINE n == Frames!v5_Msg_Node(Frames!Echo(f))
  <2>1. n \in Frames!NodesSent /\ Frames!Compared(n) = Frames!AnswerTo(frames[i])
    BY <1>1, <1>3, EchoNode
  <2>2. Answer(o, f) = Frames!PushUnlessFull(o, n)
    BY <1>3 DEF Answer, Frames!v5_answer, Frames!v5_send
  <2> HIDE DEF n
  <2> QED
    BY <1>1, <2>1, <2>2, PushUnlessFullOK
<1>4. CASE f_version = "v6"
  <2> DEFINE n == Frames!v6_Msg_Node(IF f.branch = "head" THEN Frames!Received(f)
                                     ELSE Frames!ReceivedAsId(f))
  <2>1. n \in Frames!NodesSent /\ Frames!Compared(n) = Frames!AnswerTo(frames[i])
    <3>1. \/ n = Frames!v6_Msg_Node(Frames!Received(f))
          \/ n = Frames!v6_Msg_Node(Frames!ReceivedAsId(f))
      BY Zenon
    <3> HIDE DEF n
    <3> QED
      BY <1>1, <1>4, <3>1, ReceivedNode
  <2>2. Answer(o, f) = Frames!PushUnlessFull(o, n)
    BY <1>4 DEF Answer, Frames!v6_answer, Frames!v6_send
  <2> HIDE DEF n
  <2> QED
    BY <1>1, <2>1, <2>2, PushUnlessFullOK
<1>5. CASE f_version = "v8"
  <2> DEFINE n == Frames!v8_Send_Node(Frames!Received(f), f.id)
  <2>1. n \in Frames!NodesSent /\ Frames!Compared(n) = Frames!AnswerTo(frames[i])
    BY <1>1, <1>5, ReceivedNode DEF IsFrame, IdOf
  <2>2. Answer(o, f) = Frames!PushUnlessFull(o, n)
    BY <1>5 DEF Answer, Frames!v8_answer, Frames!v8_send
  <2> HIDE DEF n
  <2> QED
    BY <1>1, <2>1, <2>2, PushUnlessFullOK
<1> QED
  BY <1>2, <1>3, <1>4, <1>5

\* The answers to all frames of a piece.
LEMMA PieceAnswered ==
  ASSUME OneClient, f_version \in {"v4", "v5", "v6", "v8"}, NEW i \in Nat \ {0},
         NEW j \in Nat, i <= j, j <= Count + 1, NEW d, DoneIs(d, i, j), NEW cn,
         OutOK(f_wire, out, cn, i), NEW f, IsAnswers(f, d)
  PROVE  OutOK(f_wire, f[Len(d)], cn, j)
<1> DEFINE l == j - i
           S == {k \in Nat : k <= l => OutOK(f_wire, f[k], cn, i + k)}
<1>1. /\ Count \in Nat /\ Len(d) = l /\ l \in Nat /\ i + l = j
      /\ \A m \in 1 .. l : d[m].id = IdOf(i + m - 1) /\ d[m].body = BodyOf(i + m - 1)
  BY FramesTyped DEF DoneIs
<1>2. f[0] = out /\ \A k \in 0 .. l : k # 0 => f[k] = Answer(f[k - 1], d[k])
  <2> HIDE DEF l
  <2>1. f = [k \in 0 .. l |-> IF k = 0 THEN out ELSE Answer(f[k - 1], d[k])]
    BY <1>1 DEF IsAnswers
  <2> QED
    BY <1>1, <2>1
<1>3. 0 \in S
  BY <1>2
<1>4. ASSUME NEW k \in S PROVE k + 1 \in S
  <2> SUFFICES ASSUME k + 1 <= l PROVE OutOK(f_wire, f[k + 1], cn, i + (k + 1))
    OBVIOUS
  <2>1. k \in Nat /\ OutOK(f_wire, f[k], cn, i + k)
    BY <1>1
  <2>2. /\ k + 1 \in 0 .. l /\ k + 1 # 0 /\ k + 1 - 1 = k /\ k + 1 \in 1 .. l
        /\ i + (k + 1) - 1 = i + k /\ i + k \in 1 .. Count /\ i + (k + 1) = (i + k) + 1
    BY <1>1, <2>1
  <2>3. f[k + 1] = Answer(f[k], d[k + 1])
    BY <1>2, <2>2
  <2>4. IsFrame(d[k + 1], i + k)
    BY <1>1, <2>2 DEF IsFrame
  <2> QED
    BY <2>1, <2>2, <2>3, <2>4, AnswerOK
<1>5. l \in S
  <2>1. S \subseteq Nat
    OBVIOUS
  <2> HIDE DEF S
  <2>2. S = Nat
    BY <1>3, <1>4, <2>1, Induction
  <2> QED
    BY <1>1, <2>2
<1>6. OutOK(f_wire, f[l], cn, i + l)
  BY <1>5
<1> HIDE DEF l
<1> QED
  BY <1>1, <1>6

-----------------------------------------------------------------------------
(***************************************************************************)
(* The invariant.  i is the frame being read and j the first the logic      *)
(* system has not dealt with.                                              *)
(***************************************************************************)
FramesTypes ==
  /\ OneClient /\ input \in Bytes /\ f_conn \in {"up", "down"}
  /\ stage \in {"listening", "started", "served"} /\ registered \in BOOLEAN
  /\ reading \in {"none", "some", "head", "body"}

\* What has not been read.
Follows(t, i) ==
  /\ stage = "listening" => /\ reading = "none" /\ input = t[i]
                            /\ node = Frames!EmptyNode
  /\ reading = "some" => f_version # "v7" /\ Cat(Taken(node, i), input) = t[i]
  /\ reading = "head" => f_version = "v7" /\ input = t[i]
  /\ reading = "body" => /\ f_version = "v7" /\ i <= Count
                         /\ node.len = Len(BodyOf(i))
                         /\ input = Cat(BodyOf(i), t[i + 1])
  /\ f_version = "v7" => node.head = <<>> /\ ~node.parsed

FramesAt(t, i, j) ==
  /\ i \in 1 .. Count + 1 /\ j \in 1 .. Count + 1 /\ j <= i
  /\ NodeAt(node, i) /\ Follows(t, i) /\ DoneIs(_msg_queue, j, i)
  /\ f_version \notin {"v9", "v10"} => _msg_queue = <<>>
  /\ OutOK(f_wire, out, f_conn, j)

FramesInv == FramesTypes /\ \E t, i, j : IsStream(t) /\ FramesAt(t, i, j)

LEMMA ClientStays ==
  ASSUME f_version' = f_version, frames' = frames
  PROVE  /\ OneClient' <=> OneClient
         /\ Count' = Count
         /\ \A t : IsStream(t)' <=> IsStream(t)
         /\ \A n, i : NodeAt(n, i)' <=> NodeAt(n, i)
         /\ \A n, i : Taken(n, i)' = Taken(n, i)
         /\ \A i : BodyOf(i)' = BodyOf(i)
         /\ \A d, i, j : DoneIs(d, i, j)' <=> DoneIs(d, i, j)
         /\ \A w, o, cn, j : OutOK(w, o, cn, j)' <=> OutOK(w, o, cn, j)
<1>1. OneClient' <=> OneClient
  BY DEF OneClient
<1>2. Count' = Count
  BY DEF Count
<1>3. \A i : BodyOf(i)' = BodyOf(i)
  BY DEF BodyOf
<1>4. \A i : HeaderOf(i)' = HeaderOf(i)
  BY Zenon DEF HeaderOf, Frames!Header
<1>5. \A i : IdOf(i)' = IdOf(i)
  BY DEF IdOf
<1>6. Frames!HEAD_LENGTH' = Frames!HEAD_LENGTH
  BY DEF Frames!HEAD_LENGTH, Frames!WithIds
<1>7. \A t : IsStream(t)' <=> IsStream(t)
  BY <1>2, <1>3, <1>4, Zenon DEF IsStream
<1>8. \A n, i : NodeAt(n, i)' <=> NodeAt(n, i)
  BY <1>2, <1>3, <1>5, <1>6, Zenon DEF NodeAt
<1>9. \A n, i : Taken(n, i)' = Taken(n, i)
  BY <1>4, Zenon DEF Taken
<1>10. \A d, i, j : DoneIs(d, i, j)' <=> DoneIs(d, i, j)
  BY <1>3, <1>5, Zenon DEF DoneIs
<1>11. \A w, o, cn, j : OutOK(w, o, cn, j)' <=> OutOK(w, o, cn, j)
  <2>1. \A x : Frames!Compared(x)' = Frames!Compared(x)
    BY Zenon DEF Frames!Compared
  <2>2. \A x : Frames!AnswerTo(x)' = Frames!AnswerTo(x)
    BY Zenon DEF Frames!AnswerTo, Frames!TextFor
  <2>3. Frames!Answered' = Frames!Answered
    BY Zenon DEF Frames!Answered
  <2>4. ASSUME NEW s, NEW g, NEW j, NEW f
        PROVE  Answers(s, g, j, f)' <=> Answers(s, g, j, f)
    BY <2>1, <2>2, <2>3 DEF Answers
  <2> QED
    BY <2>4, Zenon DEF OutOK
<1> QED
  BY <1>1, <1>2, <1>3, <1>7, <1>8, <1>9, <1>10, <1>11

LEMMA EmptyNodeAt ==
  ASSUME OneClient, NEW i
  PROVE  NodeAt(Frames!EmptyNode, i) /\ Taken(Frames!EmptyNode, i) = <<>>
<1>1. /\ Frames!EmptyNode \in Nodes /\ Frames!EmptyNode.head = <<>>
      /\ Frames!EmptyNode.body = <<>> /\ Frames!EmptyNode.len = 0
      /\ ~Frames!EmptyNode.parsed
  BY ByteConcat DEF Frames!EmptyNode, Nodes
<1>2. Len(<<>>) = 0 /\ 0 < Frames!HEAD_LENGTH /\ 0 <= FrameMax
  <2>1. Len(<<>>) = 0
    BY ByteConcat
  <2>2. 0 < Frames!HEAD_LENGTH
    BY DEF Frames!HEAD_LENGTH
  <2>3. 0 <= FrameMax
    BY SessionsAssumption
  <2> QED
    BY <2>1, <2>2, <2>3
<1> QED
  BY <1>1, <1>2 DEF NodeAt, Taken

LEMMA NoneDone ==
  ASSUME NEW i \in Nat
  PROVE  DoneIs(<<>>, i, i)
<1>1. <<>> \in Seq(Completed) /\ Len(<<>>) = 0
  BY EmptySeq, Zenon
<1> QED
  BY <1>1 DEF DoneIs

LEMMA DoneJoin ==
  ASSUME NEW i \in Nat, NEW j \in Nat, NEW m \in Nat, j <= i, i <= m,
         NEW q, DoneIs(q, j, i), NEW d, DoneIs(d, i, m)
  PROVE  DoneIs(q \o d, j, m)
<1> DEFINE p == q \o d
           x == i - j
           y == m - i
<1>1. /\ q \in Seq(Completed) /\ d \in Seq(Completed) /\ Len(q) = x /\ Len(d) = y
      /\ x \in Nat /\ y \in Nat /\ x + y = m - j
      /\ \A k \in 1 .. x : q[k].id = IdOf(j + k - 1) /\ q[k].body = BodyOf(j + k - 1)
      /\ \A k \in 1 .. y : d[k].id = IdOf(i + k - 1) /\ d[k].body = BodyOf(i + k - 1)
  BY DEF DoneIs
<1>2. /\ p \in Seq(Completed) /\ Len(p) = Len(q) + Len(d)
      /\ \A k \in 1 .. Len(q) + Len(d) : p[k] = IF k <= Len(q) THEN q[k] ELSE d[k - Len(q)]
  BY <1>1, ConcatProperties
<1> HIDE DEF p
<1>3. ASSUME NEW k \in 1 .. x + y
      PROVE  p[k].id = IdOf(j + k - 1) /\ p[k].body = BodyOf(j + k - 1)
  <2>1. CASE k <= x
    <3>1. k \in 1 .. x /\ p[k] = q[k]
      BY <1>1, <1>2, <2>1
    <3> QED
      BY <1>1, <3>1
  <2>2. CASE ~(k <= x)
    <3>1. k - x \in 1 .. y /\ p[k] = d[k - x] /\ i + (k - x) - 1 = j + k - 1
      BY <1>1, <1>2, <2>2
    <3> QED
      BY <1>1, <3>1
  <2> QED
    BY <2>1, <2>2
<1> QED
  BY <1>1, <1>2, <1>3 DEF DoneIs, p

\* The frame at the front of the queue.
LEMMA DoneFirst ==
  ASSUME NEW i \in Nat, NEW j \in Nat, j <= i, NEW q, DoneIs(q, j, i), q # <<>>
  PROVE  /\ j < i /\ IsFrame(Head(q), j) /\ DoneIs(Tail(q), j + 1, i)
<1> DEFINE p == Tail(q)
           x == i - j
<1>1. /\ q \in Seq(Completed) /\ Len(q) = x /\ x \in Nat
      /\ \A k \in 1 .. x : q[k].id = IdOf(j + k - 1) /\ q[k].body = BodyOf(j + k - 1)
  BY DEF DoneIs
<1>2. /\ x # 0 /\ p \in Seq(Completed) /\ Len(p) = x - 1 /\ Head(q) = q[1]
      /\ \A k \in 1 .. Len(p) : p[k] = q[k + 1]
  BY <1>1, HeadTailProperties, EmptySeq
<1> HIDE DEF p
<1>3. j < i /\ i - (j + 1) = x - 1
  BY <1>1, <1>2
<1>4. IsFrame(Head(q), j)
  <2>1. 1 \in 1 .. x /\ j + 1 - 1 = j
    BY <1>1, <1>2
  <2> QED
    BY <1>1, <1>2, <2>1 DEF IsFrame
<1>5. ASSUME NEW k \in 1 .. x - 1
      PROVE  p[k].id = IdOf(j + 1 + k - 1) /\ p[k].body = BodyOf(j + 1 + k - 1)
  <2>1. k + 1 \in 1 .. x /\ j + (k + 1) - 1 = j + 1 + k - 1
    BY <1>1
  <2> QED
    BY <1>1, <1>2, <2>1
<1> QED
  BY <1>2, <1>3, <1>4, <1>5 DEF DoneIs, p

\* Reading a piece of k bytes.
LEMMA PieceRead ==
  ASSUME FramesTypes, NEW t, IsStream(t), NEW i, NEW j, FramesAt(t, i, j),
         reading = "some", NEW k \in 1 .. Len(input), NEW c,
         c = Frames!Rounds(node, SubSeq(input, 1, k))
  PROVE  /\ Frames!From(input, k) \in Bytes
         /\ \E m \in i .. Count + 1 :
              /\ NodeAt(c.node, m) /\ DoneIs(c.done, i, m) /\ c.ok \in BOOLEAN
              /\ c.ok => Cat(Taken(c.node, m), Frames!From(input, k)) = t[m]
<1> DEFINE p == SubSeq(input, 1, k)
           q == Frames!From(input, k)
<1>1. OneClient /\ input \in Bytes /\ i \in 1 .. Count + 1 /\ NodeAt(node, i)
      /\ Cat(Taken(node, i), input) = t[i]
  BY DEF FramesTypes, FramesAt, Follows
<1>2. k \in 0 .. Len(input)
  <2>1. Len(input) \in Nat
    BY <1>1, ByteConcat
  <2> QED
    BY <2>1
<1>3. p \in Bytes /\ q \in Bytes /\ Cat(p, q) = input
  BY <1>1, <1>2, Cut
<1> HIDE DEF p, q
<1>4. PICK m \in i .. Count + 1 : /\ LoopAt(c, m, t, q) /\ DoneIs(c.done, i, m)
                                  /\ c.ok => c.in = <<>>
  BY <1>1, <1>3, RoundsResult DEF p
<1>5. /\ NodeAt(c.node, m) /\ c.ok \in BOOLEAN
      /\ Cat(Taken(c.node, m), Cat(c.in, q)) = t[m]
  BY <1>4 DEF LoopAt, LoopStates
<1>6. Cat(<<>>, q) = q
  BY <1>3, ByteConcat
<1>7. c.ok => Cat(Taken(c.node, m), q) = t[m]
  BY <1>4, <1>5, <1>6
<1> QED
  BY <1>3, <1>4, <1>5, <1>7 DEF q

LEMMA FramesInit == Frames!Init => FramesInv
<1> SUFFICES ASSUME Frames!Init PROVE FramesInv
  OBVIOUS
<1>1. /\ OneClient /\ f_conn = "up" /\ stage = "listening" /\ registered = FALSE
      /\ reading = "none" /\ node = Frames!EmptyNode /\ _msg_queue = <<>>
      /\ out = [queue |-> <<>>, writes |-> <<>>, refused |-> 0] /\ f_wire = <<>>
  BY DEF Frames!Init, OneClient, Versions
<1>2. PICK t : IsStream(t) /\ input = t[1]
  <2>1. input = Frames!FlattenSeq([k \in DOMAIN frames |-> Frames!Header(frames[k])
                                                           \o frames[k].body])
    BY DEF Frames!Init
  <2> QED
    BY <1>1, <2>1, StreamExists
<1>3. Count \in Nat /\ 1 \in 1 .. Count + 1
  BY <1>1, FramesTyped
<1>4. input \in Bytes
  BY <1>2, <1>3 DEF IsStream
<1>5. FramesTypes
  BY <1>1, <1>4 DEF FramesTypes
<1>6. NodeAt(node, 1)
  BY <1>1, EmptyNodeAt
<1>7. Follows(t, 1)
  BY <1>1, <1>2 DEF Follows, Frames!EmptyNode
<1>8. DoneIs(_msg_queue, 1, 1)
  BY <1>1, NoneDone
<1>9. OutOK(f_wire, out, f_conn, 1)
  <2> DEFINE S == Frames!NodesSent
             g == [k \in 1 .. 0 |-> 0]
             s == Cat(f_wire, out.queue)
  <2>1. <<>> \in Seq(S) /\ Len(<<>>) = 0
    BY EmptySeq, Zenon
  <2>2. f_wire \in Seq(S) /\ out \in Outs
    BY <1>1, <2>1 DEF Outs
  <2>3. FrameQueue \in Nat
    BY SessionsAssumption
  <2>4. f_version \notin {"v4", "v7"} => Len(out.queue) <= FrameQueue + 1
    BY <1>1, <2>1, <2>3
  <2>5. WritesFront(out, f_conn)
    BY <1>1 DEF WritesFront
  <2>6. s = <<>> /\ out.refused = 0
    <3>1. Cat(<<>>, <<>>) = <<>>
      BY ByteConcat
    <3> QED
      BY <1>1, <3>1
  <2> HIDE DEF s
  <2>7. g \in [1 .. Len(s) -> Frames!Answered]
    <3>1. 1 .. Len(s) = 1 .. 0 /\ \A k \in 1 .. 0 : FALSE
      BY <2>1, <2>6
    <3> QED
      BY <3>1
  <2> HIDE DEF g
  <2>8. \A a \in Frames!Answered : ~(a < 1)
    <3>1. \A a \in Frames!Answered : a \in 1 .. Count
      BY <1>1, AnsweredFrames
    <3> QED
      BY <1>3, <3>1
  <2>9. \A k \in 1 .. Len(s) : FALSE
    BY <2>1, <2>6
  <2>10. Answers(s, g, 1, 0)
    BY <2>7, <2>8, <2>9 DEF Answers
  <2> QED
    BY <2>2, <2>4, <2>5, <2>6, <2>10 DEF OutOK, s
<1>10. FramesAt(t, 1, 1)
  BY <1>1, <1>3, <1>6, <1>7, <1>8, <1>9 DEF FramesAt
<1> QED
  BY <1>2, <1>5, <1>10 DEF FramesInv

\* How a step that leaves the client alone preserves the invariant.
LEMMA Preserved ==
  ASSUME f_version' = f_version, frames' = frames, FramesTypes, FramesTypes',
         NEW t, IsStream(t), NEW i \in 1 .. Count + 1, NEW j \in 1 .. Count + 1, j <= i,
         NodeAt(node', i), Follows(t, i)', DoneIs(_msg_queue', j, i),
         f_version \notin {"v9", "v10"} => _msg_queue' = <<>>,
         OutOK(f_wire', out', f_conn', j)
  PROVE  FramesInv'
<1>1. IsStream(t)'
  BY ClientStays
<1>2. FramesAt(t, i, j)'
  <2>1. i \in 1 .. Count' + 1 /\ j \in 1 .. Count' + 1
    BY ClientStays
  <2>2. NodeAt(node, i)' /\ DoneIs(_msg_queue, j, i)' /\ OutOK(f_wire, out, f_conn, j)'
    BY ClientStays
  <2> QED
    BY <2>1, <2>2 DEF FramesAt
<1> QED
  BY <1>1, <1>2 DEF FramesInv

LEMMA StartKeeps ==
  ASSUME FramesInv, Frames!handle_Accept
  PROVE  FramesInv'
<1>1. PICK t, i, j : IsStream(t) /\ FramesAt(t, i, j)
  BY DEF FramesInv
<1>2. /\ FramesTypes /\ i \in 1 .. Count + 1 /\ j \in 1 .. Count + 1 /\ j <= i
      /\ NodeAt(node, i) /\ Follows(t, i) /\ DoneIs(_msg_queue, j, i)
      /\ f_version \notin {"v9", "v10"} => _msg_queue = <<>>
      /\ OutOK(f_wire, out, f_conn, j) /\ f_version \in Versions
  BY <1>1 DEF FramesAt, FramesInv, FramesTypes, OneClient
<1>3. /\ f_version' = f_version /\ frames' = frames /\ input' = input /\ f_conn' = f_conn
      /\ node' = node /\ _msg_queue' = _msg_queue /\ out' = out /\ f_wire' = f_wire
      /\ \/ /\ stage = "listening" /\ stage' \in {"started", "served"}
            /\ reading' = IF f_version = "v7" THEN "head" ELSE "some"
         \/ /\ stage = "started" /\ stage' = "served" /\ reading' = reading
      /\ registered' \in BOOLEAN
  BY <1>2 DEF Frames!handle_Accept, Frames!v4_handle_Accept,
     Frames!v5_handle_Accept,
       Frames!v6_handle_Accept, Frames!v7_handle_Accept, Frames!v8_handle_Accept,
       Frames!v9_handle_Accept, Frames!v10_handle_Accept, Frames!StartAndInsert,
       Frames!v4_start, Frames!v5_start, Frames!v6_start, Frames!v7_start,
       Frames!v8_start, Frames!v9_start, Frames!v10_start, Frames!ReadSome,
       Frames!Started, Versions, FramesTypes
<1>4. FramesTypes'
  BY <1>2, <1>3, ClientStays DEF FramesTypes
<1>5. Follows(t, i)'
  <2>1. \A n : Taken(n, i)' = Taken(n, i)
    BY <1>3, ClientStays
  <2>2. Taken(node, i)' = Taken(node, i)
    BY <1>3, <2>1
  <2>3. BodyOf(i)' = BodyOf(i) /\ Count' = Count
    BY <1>3, ClientStays
  <2>4. CASE stage = "listening"
    <3>1. node = Frames!EmptyNode /\ input = t[i]
      BY <1>2, <2>4 DEF Follows
    <3>2. Taken(node, i) = <<>>
      BY <1>2, <3>1, EmptyNodeAt DEF FramesTypes
    <3>3. Cat(<<>>, input) = input
      BY <1>2, ByteConcat DEF FramesTypes
    <3>4. reading' = "some" => f_version' # "v7" /\ Cat(Taken(node, i)', input') = t[i]
      BY <1>3, <2>2, <2>4, <3>1, <3>2, <3>3
    <3>5. node'.head = <<>> /\ ~node'.parsed
      BY <1>3, <3>1 DEF Frames!EmptyNode
    <3>6. /\ stage' # "listening" /\ reading' # "body"
          /\ (reading' = "head" => f_version' = "v7" /\ input' = t[i])
      BY <1>3, <2>4, <3>1
    <3> QED
      BY <3>4, <3>5, <3>6 DEF Follows
  <2>5. CASE stage = "started"
    <3>1. reading' = reading /\ stage' = "served"
      BY <1>3, <2>5
    <3> QED
      BY <1>2, <1>3, <2>2, <2>3, <3>1 DEF Follows
  <2> QED
    BY <1>3, <2>4, <2>5
<1> QED
  BY <1>1, <1>2, <1>3, <1>4, <1>5, Preserved

\* Steps that leave node and input alone.
LEMMA FollowsStays ==
  ASSUME f_version' = f_version, frames' = frames, stage' = stage, node' = node,
         input' = input, reading' = reading \/ reading' = "none", NEW t, NEW i,
         Follows(t, i)
  PROVE  Follows(t, i)'
<1>1. \A n : Taken(n, i)' = Taken(n, i)
  BY ClientStays
<1>2. Taken(node, i)' = Taken(node, i)
  BY <1>1
<1>3. BodyOf(i)' = BodyOf(i) /\ Count' = Count
  BY ClientStays
<1> QED
  BY <1>2, <1>3 DEF Follows

LEMMA ReadErrorKeeps ==
  ASSUME FramesInv, Frames!ReadError
  PROVE  FramesInv'
<1>1. PICK t, i, j : IsStream(t) /\ FramesAt(t, i, j)
  BY DEF FramesInv
<1>2. /\ FramesTypes /\ i \in 1 .. Count + 1 /\ j \in 1 .. Count + 1 /\ j <= i
      /\ NodeAt(node, i) /\ Follows(t, i) /\ DoneIs(_msg_queue, j, i)
      /\ f_version \notin {"v9", "v10"} => _msg_queue = <<>>
      /\ OutOK(f_wire, out, f_conn, j)
  BY <1>1 DEF FramesAt, FramesInv
<1>3. /\ f_version' = f_version /\ frames' = frames /\ input' = input /\ f_conn' = f_conn
      /\ node' = node /\ _msg_queue' = _msg_queue /\ out' = out /\ f_wire' = f_wire
      /\ stage' = stage /\ reading' = "none" /\ registered' = FALSE
  BY DEF Frames!ReadError, Frames!clearSession
<1>4. FramesTypes'
  BY <1>2, <1>3, ClientStays DEF FramesTypes
<1>5. Follows(t, i)'
  BY <1>2, <1>3, FollowsStays
<1> QED
  BY <1>1, <1>2, <1>3, <1>4, <1>5, Preserved

LEMMA FailsKeeps ==
  ASSUME FramesInv, Frames!ConnectionFails
  PROVE  FramesInv'
<1>1. PICK t, i, j : IsStream(t) /\ FramesAt(t, i, j)
  BY DEF FramesInv
<1>2. /\ FramesTypes /\ i \in 1 .. Count + 1 /\ j \in 1 .. Count + 1 /\ j <= i
      /\ NodeAt(node, i) /\ Follows(t, i) /\ DoneIs(_msg_queue, j, i)
      /\ f_version \notin {"v9", "v10"} => _msg_queue = <<>>
      /\ OutOK(f_wire, out, f_conn, j)
  BY <1>1 DEF FramesAt, FramesInv
<1>3. /\ f_version' = f_version /\ frames' = frames /\ input' = input /\ f_conn' = "down"
      /\ node' = node /\ _msg_queue' = _msg_queue /\ out' = out /\ f_wire' = f_wire
      /\ stage' = stage /\ reading' = reading /\ registered' = registered
  BY DEF Frames!ConnectionFails
<1>4. FramesTypes'
  BY <1>2, <1>3, ClientStays DEF FramesTypes
<1>5. Follows(t, i)'
  BY <1>2, <1>3, FollowsStays
<1>6. OutOK(f_wire, out, "down", j)
  BY <1>2 DEF OutOK, WritesFront
<1> QED
  BY <1>1, <1>2, <1>3, <1>4, <1>5, <1>6, Preserved

LEMMA WriteKeeps ==
  ASSUME FramesInv, Frames!NextOrClear
  PROVE  FramesInv'
<1>1. PICK t, i, j : IsStream(t) /\ FramesAt(t, i, j)
  BY DEF FramesInv
<1>2. /\ FramesTypes /\ i \in 1 .. Count + 1 /\ j \in 1 .. Count + 1 /\ j <= i
      /\ NodeAt(node, i) /\ Follows(t, i) /\ DoneIs(_msg_queue, j, i)
      /\ f_version \notin {"v9", "v10"} => _msg_queue = <<>>
      /\ OutOK(f_wire, out, f_conn, j)
  BY <1>1 DEF FramesAt, FramesInv
<1>3. /\ f_version' = f_version /\ frames' = frames /\ input' = input /\ f_conn' = f_conn
      /\ node' = node /\ _msg_queue' = _msg_queue
      /\ stage' = stage /\ reading' = reading /\ registered' \in BOOLEAN
  BY <1>2 DEF Frames!NextOrClear, Frames!WriteDone, Frames!WriteFailed,
     FramesTypes
<1>4. FramesTypes'
  BY <1>2, <1>3, ClientStays DEF FramesTypes
<1>5. Follows(t, i)'
  BY <1>2, <1>3, FollowsStays
<1> DEFINE S == Frames!NodesSent
           q == out.queue
           p == Tail(q)
<1>6. /\ f_wire \in Seq(S) /\ out \in Outs /\ q \in Seq(S) /\ WritesFront(out, f_conn)
      /\ out.writes \in Seq(S) /\ out.refused \in Nat
  BY <1>2 DEF OutOK, Outs
<1> HIDE DEF S
<1>7. OutOK(f_wire', out', f_conn, j)
  <2>1. CASE Frames!WriteDone
    <3>1. /\ out.writes # <<>> /\ f_wire' = Append(f_wire, Head(out.writes))
          /\ out' = [out EXCEPT !.queue = p, !.writes = Frames!FirstOf(p)]
      BY <2>1 DEF Frames!WriteDone, Frames!PopFront
    <3>2. /\ out'.queue = p /\ out'.writes = Frames!FirstOf(p) /\ out'.refused = out.refused
          /\ out' = [queue |-> out'.queue, writes |-> out'.writes, refused |-> out'.refused]
      BY <1>6, <3>1 DEF Outs
    <3>3. q # <<>> /\ out.writes = <<Head(q)>>
      BY <1>6, <3>1 DEF WritesFront
    <3> DEFINE h == Head(q)
    <3>4. f_wire' = Append(f_wire, h)
      BY <3>1, <3>3
    <3> HIDE DEF q
    <3>5. h \in S /\ p \in Seq(S) /\ Len(p) = Len(q) - 1 /\ Len(q) \in Nat
      BY <1>6, <3>3, HeadTailProperties, LenProperties
    <3> HIDE DEF p
    <3>6. Frames!FirstOf(p) \in Seq(S) /\ (p # <<>> => Frames!FirstOf(p) = <<Head(p)>>)
          /\ (p = <<>> => Frames!FirstOf(p) = <<>>)
      <4>1. p # <<>> => Head(p) \in S
        BY <3>5, HeadTailProperties
      <4>2. <<>> \in Seq(S)
        BY EmptySeq, Zenon
      <4>3. p # <<>> => <<Head(p)>> \in Seq(S)
        BY <4>1
      <4> QED
        BY <4>2, <4>3 DEF Frames!FirstOf
    <3>7. out' \in Outs
      BY <1>6, <3>2, <3>5, <3>6 DEF Outs, S
    <3>8. f_wire' \in Seq(S)
      <4> HIDE DEF h
      <4> QED
        BY <1>6, <3>4, <3>5, AppendProperties
    <3>9. f_version \notin {"v4", "v7"} => Len(out'.queue) <= FrameQueue + 1
      <4> DEFINE l == Len(q)
                 m == Len(p)
      <4>1. FrameQueue \in Nat /\ l \in Nat /\ m = l - 1
        BY <3>5, SessionsAssumption
      <4>2. f_version \notin {"v4", "v7"} => l <= FrameQueue + 1
        BY <1>2 DEF OutOK, q
      <4> HIDE DEF l, m
      <4>3. f_version \notin {"v4", "v7"} => m <= FrameQueue + 1
        BY <4>1, <4>2
      <4> QED
        BY <3>2, <4>3 DEF m
    <3>10. WritesFront(out', f_conn)
      <4>1. p # <<>> => <<Head(p)>> # <<>>
        OBVIOUS
      <4> QED
        BY <3>2, <3>6, <4>1 DEF WritesFront
    <3>11. Cat(f_wire', p) = Cat(f_wire, q)
      <4>1. Append(f_wire, Head(q)) \o Tail(q) = f_wire \o q
        BY <1>6, <3>3, FrontMoves
      <4> QED
        BY <3>4, <4>1, Zenon DEF Cat, h, p
    <3>12. \E g : Answers(Cat(f_wire', out'.queue), g, j, out'.refused)
      <4>1. \E g : Answers(Cat(f_wire, q), g, j, out.refused)
        BY <1>2 DEF OutOK, q
      <4> QED
        BY <3>2, <3>11, <4>1
    <3> QED
      BY <3>7, <3>8, <3>9, <3>10, <3>12 DEF OutOK, S
  <2>2. CASE Frames!WriteFailed
    <3>1. out' = [out EXCEPT !.writes = <<>>] /\ f_conn = "down" /\ f_wire' = f_wire
      BY <2>2 DEF Frames!WriteFailed
    <3>2. <<>> \in Seq(S)
      BY EmptySeq, Zenon
    <3>3. /\ out'.queue = q /\ out'.writes = <<>> /\ out'.refused = out.refused
          /\ out' \in Outs
      BY <1>6, <3>1, <3>2 DEF Outs, S
    <3>4. WritesFront(out', f_conn)
      BY <3>1, <3>3 DEF WritesFront
    <3> QED
      BY <1>2, <3>1, <3>3, <3>4 DEF OutOK, q
  <2> QED
    BY <2>1, <2>2 DEF Frames!NextOrClear
<1> QED
  BY <1>1, <1>2, <1>3, <1>4, <1>5, <1>7, Preserved

\* What a completed read of k bytes does whatever is done with the frames.
PieceStep(k, c) ==
  /\ reading = "some" /\ f_conn = "up" /\ k \in 1 .. Len(input)
  /\ c = Frames!Rounds(node, SubSeq(input, 1, k))
  /\ input' = Frames!From(input, k) /\ node' = c.node
  /\ IF c.ok THEN reading' = reading /\ registered' = registered
     ELSE reading' = "none" /\ registered' = FALSE
  /\ f_version' = f_version /\ frames' = frames /\ f_conn' = f_conn /\ stage' = stage
  /\ f_wire' = f_wire

LEMMA PieceBound ==
  ASSUME input \in Bytes, NEW k \in 1 .. Frames!Min({FrameMax, Len(input)})
  PROVE  k \in 1 .. Len(input)
<1> DEFINE l == Len(input)
<1>1. l \in Nat /\ FrameMax \in Nat
  BY ByteConcat, SessionsAssumption
<1> HIDE DEF l
<1>2. \E x \in {FrameMax, l} : \A y \in {FrameMax, l} : x <= y
  BY <1>1
<1>3. /\ Frames!Min({FrameMax, l}) \in {FrameMax, l}
      /\ \A y \in {FrameMax, l} : Frames!Min({FrameMax, l}) <= y
  BY <1>2 DEF Frames!Min
<1>4. k \in 1 .. Frames!Min({FrameMax, l})
  BY DEF l
<1>5. k \in 1 .. l
  BY <1>1, <1>3, <1>4
<1> QED
  BY <1>5 DEF l

LEMMA PieceOfRead ==
  ASSUME FramesTypes, Frames!handle_Read, ~Frames!ReadError, f_version # "v7"
  PROVE  \E k, c :
           /\ PieceStep(k, c)
           /\ \/ f_version = "v4" /\ Frames!v4_deal(c.done)
              \/ f_version = "v5" /\ Frames!v5_deal(c.done)
              \/ f_version = "v6" /\ Frames!v6_deal(c.done)
              \/ f_version = "v8" /\ Frames!v8_deal(c.done)
              \/ f_version \in {"v9", "v10"} /\ _msg_queue' = _msg_queue \o c.done
                 /\ out' = out
<1> DEFINE R(k) == Frames!Rounds(node, SubSeq(input, 1, k))
           Step(k) == \E c : PieceStep(k, c) /\ c = R(k)
<1>1. \A k \in 1 .. Frames!Min({FrameMax, Len(input)}) : k \in 1 .. Len(input)
  BY PieceBound DEF FramesTypes
<1>2. f_version \in Versions
  BY DEF FramesTypes, OneClient
<1>3. CASE f_version = "v4"
  <2>1. Frames!Reassemble(Frames!v4_deal)
    BY <1>3 DEF Frames!handle_Read, Frames!v4_handle_Read
  <2>2. PICK k \in 1 .. Frames!Min({FrameMax, Len(input)}) :
               PieceStep(k, R(k)) /\ Frames!v4_deal(R(k).done)
    BY <1>1, <2>1 DEF Frames!Reassemble, PieceStep, Frames!clearSession
  <2> QED
    BY <1>3, <2>2
<1>4. CASE f_version = "v5"
  <2>1. Frames!Reassemble(Frames!v5_deal)
    BY <1>4 DEF Frames!handle_Read, Frames!v5_handle_Read
  <2>2. PICK k \in 1 .. Frames!Min({FrameMax, Len(input)}) :
               PieceStep(k, R(k)) /\ Frames!v5_deal(R(k).done)
    BY <1>1, <2>1 DEF Frames!Reassemble, PieceStep, Frames!clearSession
  <2> QED
    BY <1>4, <2>2
<1>5. CASE f_version = "v6"
  <2>1. Frames!Reassemble(Frames!v6_deal)
    BY <1>5 DEF Frames!handle_Read, Frames!v6_handle_Read
  <2>2. PICK k \in 1 .. Frames!Min({FrameMax, Len(input)}) :
               PieceStep(k, R(k)) /\ Frames!v6_deal(R(k).done)
    BY <1>1, <2>1 DEF Frames!Reassemble, PieceStep, Frames!clearSession
  <2> QED
    BY <1>5, <2>2
<1>6. CASE f_version = "v8"
  <2>1. Frames!Reassemble(Frames!v8_deal)
    BY <1>6 DEF Frames!handle_Read, Frames!v8_handle_Read
  <2>2. PICK k \in 1 .. Frames!Min({FrameMax, Len(input)}) :
               PieceStep(k, R(k)) /\ Frames!v8_deal(R(k).done)
    BY <1>1, <2>1 DEF Frames!Reassemble, PieceStep, Frames!clearSession
  <2> QED
    BY <1>6, <2>2
<1>7. CASE f_version = "v9"
  <2>1. Frames!Reassemble(Frames!v9_PostMsgToQueue)
    BY <1>7 DEF Frames!handle_Read, Frames!v9_handle_Read
  <2>2. PICK k \in 1 .. Frames!Min({FrameMax, Len(input)}) :
               PieceStep(k, R(k)) /\ Frames!v9_PostMsgToQueue(R(k).done)
    BY <1>1, <2>1 DEF Frames!Reassemble, PieceStep, Frames!clearSession
  <2> QED
    BY <1>7, <2>2 DEF Frames!v9_PostMsgToQueue
<1>8. CASE f_version = "v10"
  <2>1. Frames!Reassemble(Frames!v10_PostMsgToQueue)
    BY <1>8 DEF Frames!handle_Read, Frames!v10_handle_Read
  <2>2. PICK k \in 1 .. Frames!Min({FrameMax, Len(input)}) :
               PieceStep(k, R(k)) /\ Frames!v10_PostMsgToQueue(R(k).done)
    BY <1>1, <2>1 DEF Frames!Reassemble, PieceStep, Frames!clearSession
  <2> QED
    BY <1>8, <2>2 DEF Frames!v10_PostMsgToQueue
<1> QED
  BY <1>2, <1>3, <1>4, <1>5, <1>6, <1>7, <1>8 DEF Versions

LEMMA ReassembleKeeps ==
  ASSUME FramesInv, Frames!handle_Read, ~Frames!ReadError, f_version # "v7"
  PROVE  FramesInv'
<1>1. PICK t, i, j : IsStream(t) /\ FramesAt(t, i, j)
  BY DEF FramesInv
<1>2. /\ FramesTypes /\ i \in 1 .. Count + 1 /\ j \in 1 .. Count + 1 /\ j <= i
      /\ NodeAt(node, i) /\ Follows(t, i) /\ DoneIs(_msg_queue, j, i)
      /\ f_version \notin {"v9", "v10"} => _msg_queue = <<>>
      /\ OutOK(f_wire, out, f_conn, j) /\ OneClient
  BY <1>1 DEF FramesAt, FramesInv, FramesTypes
<1>3. PICK k, c :
           /\ PieceStep(k, c)
           /\ \/ f_version = "v4" /\ Frames!v4_deal(c.done)
              \/ f_version = "v5" /\ Frames!v5_deal(c.done)
              \/ f_version = "v6" /\ Frames!v6_deal(c.done)
              \/ f_version = "v8" /\ Frames!v8_deal(c.done)
              \/ f_version \in {"v9", "v10"} /\ _msg_queue' = _msg_queue \o c.done
                 /\ out' = out
  BY <1>2, PieceOfRead
<1>4. /\ f_version' = f_version /\ frames' = frames /\ f_conn' = f_conn /\ stage' = stage
      /\ f_wire' = f_wire /\ input' = Frames!From(input, k) /\ node' = c.node
      /\ reading = "some" /\ k \in 1 .. Len(input)
      /\ c = Frames!Rounds(node, SubSeq(input, 1, k))
      /\ (c.ok => reading' = "some" /\ registered' = registered)
      /\ (~c.ok => reading' = "none" /\ registered' = FALSE)
  BY <1>3 DEF PieceStep
<1>5. PICK m \in i .. Count + 1 :
         /\ NodeAt(c.node, m) /\ DoneIs(c.done, i, m) /\ c.ok \in BOOLEAN
         /\ Frames!From(input, k) \in Bytes
         /\ c.ok => Cat(Taken(c.node, m), Frames!From(input, k)) = t[m]
  BY <1>1, <1>2, <1>4, PieceRead
<1>6. /\ Count \in Nat /\ i \in Nat /\ j \in Nat /\ m \in Nat /\ m \in 1 .. Count + 1
      /\ i # 0 /\ i <= m /\ j <= m /\ m <= Count + 1
  BY <1>2, <1>5, FramesTyped
<1>7. FramesTypes'
  BY <1>2, <1>4, <1>5, ClientStays DEF FramesTypes
<1>8. Follows(t, m)'
  <2>1. Taken(node, m)' = Taken(c.node, m)
    <3>1. HeaderOf(m)' = HeaderOf(m)
      BY <1>4, Zenon DEF HeaderOf, Frames!Header
    <3> QED
      BY <1>4, <3>1 DEF Taken
  <2>2. f_version' # "v7" /\ stage' # "listening"
    BY <1>2, <1>3, <1>4 DEF Follows
  <2>3. reading' = "some" => Cat(Taken(node, m)', input') = t[m]
    BY <1>4, <1>5, <2>1
  <2>4. reading' \in {"none", "some"}
    BY <1>4, <1>5
  <2> QED
    BY <2>2, <2>3, <2>4 DEF Follows
<1>9. CASE f_version \in {"v4", "v5", "v6", "v8"}
  <2>1. _msg_queue = <<>> /\ i = j
    <3>1. _msg_queue = <<>>
      BY <1>2, <1>9
    <3>2. Len(<<>>) = 0
      BY EmptySeq, Zenon
    <3>3. Len(_msg_queue) = i - j
      BY <1>2 DEF DoneIs
    <3> QED
      BY <1>6, <3>1, <3>2, <3>3
  <2>2. Len(c.done) \in Nat
    BY <1>5, LenProperties DEF DoneIs
  <2>3. PICK f : IsAnswers(f, c.done) /\ out' = f[Len(c.done)] /\ _msg_queue' = _msg_queue
    <3> DEFINE d == c.done
    <3>1. /\ Len(d) \in Nat
          /\ \/ f_version = "v4" /\ Frames!v4_deal(d)
             \/ f_version = "v5" /\ Frames!v5_deal(d)
             \/ f_version = "v6" /\ Frames!v6_deal(d)
             \/ f_version = "v8" /\ Frames!v8_deal(d)
      BY <1>3, <1>9, <2>2
    <3> HIDE DEF d
    <3>2. \E f : IsAnswers(f, d) /\ out' = f[Len(d)] /\ _msg_queue' = _msg_queue
      BY <3>1, DealAnswers
    <3> QED
      BY <3>2 DEF d
  <2>4. OutOK(f_wire, f[Len(c.done)], f_conn, m)
    BY <1>2, <1>5, <1>6, <1>9, <2>1, <2>3, PieceAnswered
  <2>5. DoneIs(_msg_queue', m, m)
    BY <1>6, <2>1, <2>3, NoneDone
  <2>6. OutOK(f_wire', out', f_conn', m)
    BY <1>4, <2>3, <2>4
  <2>7. m <= m /\ NodeAt(node', m) /\ _msg_queue' = <<>>
    BY <1>4, <1>5, <1>6, <2>1, <2>3
  <2> QED
    BY <1>1, <1>2, <1>4, <1>6, <1>7, <1>8, <2>5, <2>6, <2>7, Preserved
<1>10. CASE f_version \in {"v9", "v10"}
  <2>1. _msg_queue' = _msg_queue \o c.done /\ out' = out
    BY <1>3, <1>10
  <2>2. DoneIs(_msg_queue \o c.done, j, m)
    BY <1>2, <1>5, <1>6, DoneJoin
  <2>3. DoneIs(_msg_queue', j, m)
    BY <2>1, <2>2, Zenon
  <2>4. OutOK(f_wire', out', f_conn', j)
    BY <1>2, <1>4, <2>1
  <2>5. NodeAt(node', m)
    BY <1>4, <1>5
  <2> HIDE <2>1
  <2> QED
    BY <1>1, <1>2, <1>4, <1>6, <1>7, <1>8, <1>10, <2>3, <2>4, <2>5, Preserved
<1> QED
  BY <1>2, <1>9, <1>10, Zenon DEF OneClient, Versions

\* v7 at the beginning of frame i: with two bytes there is a frame, and they are
\* its header.
LEMMA HeaderArrived ==
  ASSUME OneClient, NEW t, IsStream(t), NEW i \in 1 .. Count + 1,
         Len(t[i]) >= Frames!HEAD_LENGTH
  PROVE  /\ i \in 1 .. Count /\ SubSeq(t[i], 1, Frames!HEAD_LENGTH) = HeaderOf(i)
         /\ Frames!From(t[i], Frames!HEAD_LENGTH) = Cat(BodyOf(i), t[i + 1])
         /\ Cat(BodyOf(i), t[i + 1]) \in Bytes
<1> DEFINE l == Frames!HEAD_LENGTH
<1>1. Count \in Nat /\ t[Count + 1] = <<>> /\ Len(<<>>) = 0 /\ l \in {2, 4}
  <2>1. Count \in Nat
    BY FramesTyped
  <2>2. l \in {2, 4}
    BY DEF Frames!HEAD_LENGTH
  <2>3. Len(<<>>) = 0
    BY ByteConcat
  <2> QED
    BY <2>1, <2>2, <2>3 DEF IsStream
<1>2. i \in 1 .. Count
  <2> HIDE DEF l
  <2>1. Len(t[i]) >= l
    BY DEF l
  <2>2. i # Count + 1
    BY <1>1, <2>1
  <2> QED
    BY <1>1, <2>2
<1>3. /\ t[i] \in Bytes /\ t[i + 1] \in Bytes
      /\ t[i] = Cat(Cat(HeaderOf(i), BodyOf(i)), t[i + 1])
  <2>1. i + 1 \in 1 .. Count + 1
    BY <1>1, <1>2
  <2> QED
    BY <1>2, <2>1 DEF IsStream
<1>4. HeaderOf(i) \in Bytes /\ Len(HeaderOf(i)) = l
  BY <1>2, HeaderDecoded
<1>5. BodyOf(i) \in Bytes
  BY <1>2, FramesTyped
<1> DEFINE h == HeaderOf(i)
           b == BodyOf(i)
           s == t[i]
           r == t[i + 1]
<1>6. h \in Bytes /\ b \in Bytes /\ s \in Bytes /\ r \in Bytes /\ s = Cat(Cat(h, b), r)
  BY <1>3, <1>4, <1>5
<1>7. Len(h) = l /\ l \in Nat /\ Len(s) >= l
  BY <1>1, <1>4
<1> HIDE DEF h, b, s, r, l
<1>8. s = Cat(h, Cat(b, r))
  BY <1>6, Associative
<1>9. Cat(b, r) \in Bytes
  BY <1>6, Joined
<1>10. l \in 0 .. Len(s)
  <2>1. Len(s) \in Nat
    BY <1>6, ByteConcat
  <2> QED
    BY <1>7, <2>1
<1>11. /\ SubSeq(s, 1, l) \in Bytes /\ Len(SubSeq(s, 1, l)) = l
       /\ Frames!From(s, l) \in Bytes
       /\ Cat(SubSeq(s, 1, l), Frames!From(s, l)) = s
  BY <1>6, <1>10, Cut
<1> DEFINE x == SubSeq(s, 1, l)
           y == Frames!From(s, l)
           z == Cat(b, r)
<1>12. x \in Bytes /\ y \in Bytes /\ z \in Bytes /\ Cat(x, y) = Cat(h, z) /\ Len(x) = Len(h)
  BY <1>7, <1>8, <1>9, <1>11
<1> HIDE DEF x, y, z
<1>13. x = h /\ y = z
  BY <1>6, <1>12, SameCut
<1> QED
  BY <1>2, <1>9, <1>13 DEF x, y, z, h, b, s, r, l

LEMMA HeadKeeps ==
  ASSUME FramesInv, Frames!v7_handle_Read_Head, f_version = "v7"
  PROVE  FramesInv'
<1>1. PICK t, i, j : IsStream(t) /\ FramesAt(t, i, j)
  BY DEF FramesInv
<1>2. /\ FramesTypes /\ i \in 1 .. Count + 1 /\ j \in 1 .. Count + 1 /\ j <= i
      /\ NodeAt(node, i) /\ Follows(t, i) /\ DoneIs(_msg_queue, j, i)
      /\ f_version \notin {"v9", "v10"} => _msg_queue = <<>>
      /\ OutOK(f_wire, out, f_conn, j) /\ OneClient /\ reading = "head"
      /\ input = t[i] /\ stage # "listening" /\ node.head = <<>> /\ ~node.parsed
  BY <1>1 DEF FramesAt, FramesInv, FramesTypes, Follows,
     Frames!v7_handle_Read_Head
<1>3. /\ f_version' = f_version /\ frames' = frames /\ stage' = stage
      /\ _msg_queue' = _msg_queue /\ out' = out /\ f_wire' = f_wire
  BY DEF Frames!v7_handle_Read_Head
<1>4. OutOK(f_wire, out, "down", j)
  BY <1>2 DEF OutOK, WritesFront
<1>5. CASE f_conn = "down"
  <2>1. /\ f_conn' = f_conn /\ input' = input /\ node' = node /\ reading' = "none"
        /\ registered' = FALSE
    BY <1>5 DEF Frames!v7_handle_Read_Head, Frames!clearSession
  <2>2. FramesTypes'
    BY <1>2, <1>3, <2>1, ClientStays DEF FramesTypes
  <2>3. Follows(t, i)'
    BY <1>2, <1>3, <2>1, FollowsStays
  <2> QED
    BY <1>1, <1>2, <1>3, <2>1, <2>2, <2>3, Preserved
<1>6. CASE f_conn = "up"
  <2> DEFINE h == Frames!Decode(SubSeq(input, 1, Frames!HEAD_LENGTH))
  <2>1. /\ Len(input) >= Frames!HEAD_LENGTH
        /\ input' = Frames!From(input, Frames!HEAD_LENGTH)
        /\ IF Frames!Invalid(h)
           THEN reading' = "none" /\ registered' = FALSE /\ f_conn' = "down" /\ node' = node
           ELSE /\ reading' = "body" /\ node' = [node EXCEPT !.len = h.len]
                /\ f_conn' = f_conn /\ registered' = registered
    BY <1>6 DEF Frames!v7_handle_Read_Head, Frames!clearSession
  <2>2. /\ i \in 1 .. Count /\ SubSeq(t[i], 1, Frames!HEAD_LENGTH) = HeaderOf(i)
        /\ Frames!From(t[i], Frames!HEAD_LENGTH) = Cat(BodyOf(i), t[i + 1])
        /\ Cat(BodyOf(i), t[i + 1]) \in Bytes
    BY <1>1, <1>2, <2>1, HeaderArrived
  <2>3. h = [id |-> IdOf(i), len |-> Len(BodyOf(i))]
    BY <1>2, <2>2, HeaderDecoded
  <2> HIDE DEF h
  <2>4. h.len = Len(BodyOf(i)) /\ input' = Cat(BodyOf(i), t[i + 1]) /\ input' \in Bytes
    BY <1>2, <2>1, <2>2, <2>3
  <2>5. CASE Frames!Invalid(h)
    <3>1. FramesTypes'
      BY <1>2, <1>3, <2>1, <2>4, <2>5, ClientStays DEF FramesTypes
    <3>2. Follows(t, i)'
      BY <1>2, <1>3, <2>1, <2>5 DEF Follows
    <3>3. NodeAt(node', i) /\ OutOK(f_wire', out', f_conn', j)
      BY <1>2, <1>3, <1>4, <2>1, <2>5
    <3> QED
      BY <1>1, <1>2, <1>3, <3>1, <3>2, <3>3, Preserved
  <2>6. CASE ~Frames!Invalid(h)
    <3>1. FramesTypes'
      BY <1>2, <1>3, <2>1, <2>4, <2>6, ClientStays DEF FramesTypes
    <3> DEFINE l == Len(BodyOf(i))
    <3>2. l \in Nat /\ l <= FrameMax /\ node' = [node EXCEPT !.len = l]
      <4>1. BodyOf(i) \in Bytes
        BY <1>2, <2>2, FramesTyped
      <4>2. l \in Nat
        BY <4>1, ByteConcat
      <4>3. ~(l > FrameMax)
        BY <2>4, <2>6 DEF Frames!Invalid
      <4>4. node' = [node EXCEPT !.len = l]
        BY <2>1, <2>4, <2>6
      <4> HIDE DEF l
      <4> QED
        BY <4>2, <4>3, <4>4, SessionsAssumption
    <3>3. NodeAt(node', i) /\ node'.len = l /\ node'.head = <<>> /\ ~node'.parsed
      <4> HIDE DEF l
      <4>1. node \in Nodes /\ node.body = <<>> /\ Len(node.head) < Frames!HEAD_LENGTH
        BY <1>2 DEF NodeAt
      <4>2. /\ node' \in Nodes /\ node'.head = node.head /\ node'.body = node.body
            /\ node'.len = l /\ node'.parsed = node.parsed
        BY <3>2, <4>1 DEF Nodes
      <4>3. Len(<<>>) = 0
        BY ByteConcat
      <4>4. Len(node'.body) <= l
        BY <3>2, <4>1, <4>2, <4>3
      <4> QED
        BY <1>2, <3>2, <4>1, <4>2, <4>4 DEF NodeAt
    <3>4. Follows(t, i)'
      <4>1. BodyOf(i)' = BodyOf(i) /\ Count' = Count
        BY <1>3, ClientStays
      <4>2. reading' = "body" /\ f_version' = "v7" /\ i <= Count
        BY <1>3, <2>1, <2>2, <2>6
      <4>3. stage' # "listening"
        BY <1>2, <1>3
      <4> QED
        BY <2>4, <3>3, <4>1, <4>2, <4>3 DEF Follows
    <3>5. OutOK(f_wire', out', f_conn', j)
      BY <1>2, <1>3, <2>1, <2>6
    <3> QED
      BY <1>1, <1>2, <1>3, <3>1, <3>3, <3>4, <3>5, Preserved
  <2> QED
    BY <2>5, <2>6
<1> QED
  BY <1>2, <1>5, <1>6 DEF FramesTypes

LEMMA MsgKeeps ==
  ASSUME FramesInv, Frames!v7_handle_Read_Msg, f_version = "v7"
  PROVE  FramesInv'
<1>1. PICK t, i, j : IsStream(t) /\ FramesAt(t, i, j)
  BY DEF FramesInv
<1>2. /\ FramesTypes /\ i \in 1 .. Count + 1 /\ j \in 1 .. Count + 1 /\ j <= i
      /\ NodeAt(node, i) /\ Follows(t, i) /\ DoneIs(_msg_queue, j, i)
      /\ f_version \notin {"v9", "v10"} => _msg_queue = <<>>
      /\ OutOK(f_wire, out, f_conn, j) /\ OneClient /\ reading = "body"
      /\ i <= Count /\ node.len = Len(BodyOf(i)) /\ input = Cat(BodyOf(i), t[i + 1])
      /\ stage # "listening"
  BY <1>1 DEF FramesAt, FramesInv, FramesTypes, Follows, Frames!v7_handle_Read_Msg
<1>3. /\ f_version' = f_version /\ frames' = frames /\ stage' = stage
      /\ _msg_queue' = _msg_queue /\ f_wire' = f_wire /\ f_conn' = f_conn
  BY DEF Frames!v7_handle_Read_Msg
<1>4. CASE f_conn = "down"
  <2>1. /\ input' = input /\ node' = node /\ reading' = "none" /\ out' = out
        /\ registered' = FALSE
    BY <1>4 DEF Frames!v7_handle_Read_Msg, Frames!clearSession
  <2>2. FramesTypes'
    BY <1>2, <1>3, <2>1, ClientStays DEF FramesTypes
  <2>3. Follows(t, i)'
    BY <1>2, <1>3, <2>1, FollowsStays
  <2> QED
    BY <1>1, <1>2, <1>3, <2>1, <2>2, <2>3, Preserved
<1>5. CASE f_conn = "up"
  <2> DEFINE f == [body |-> SubSeq(input, 1, node.len)]
             n == Frames!v7_Msg_Node(Frames!Echo(f))
             b == BodyOf(i)
             r == t[i + 1]
             x == SubSeq(input, 1, node.len)
             y == Frames!From(input, node.len)
  <2>1. /\ input' = y /\ out' = Frames!Push(out, n) /\ node' = Frames!EmptyNode
        /\ reading' = "head" /\ registered' = registered
    BY <1>5 DEF Frames!v7_handle_Read_Msg, Frames!v7_send
  <2>2. Count \in Nat /\ i \in 1 .. Count /\ i + 1 \in 1 .. Count + 1 /\ i + 1 <= i + 1
    BY <1>2, FramesTyped
  <2>3. b \in Bytes /\ r \in Bytes /\ input = Cat(b, r)
    BY <1>1, <1>2, <2>2, FramesTyped DEF IsStream
  <2>4. x = b /\ y = r
    <3> DEFINE s == input
               l == node.len
    <3>1. s \in Bytes /\ s = Cat(b, r) /\ Len(b) = l
      BY <1>2, <2>3, Joined
    <3> HIDE DEF s, l, b, r
    <3>2. Len(s) = l + Len(r) /\ Len(b) \in Nat /\ Len(r) \in Nat
      <4>1. Len(s) = Len(b) + Len(r)
        BY <2>3, <3>1, Joined
      <4> QED
        BY <2>3, <3>1, <4>1, ByteConcat
    <3>3. l \in 0 .. Len(s)
      BY <3>1, <3>2
    <3>4. /\ SubSeq(s, 1, l) \in Bytes /\ Len(SubSeq(s, 1, l)) = l
          /\ Frames!From(s, l) \in Bytes
          /\ Cat(SubSeq(s, 1, l), Frames!From(s, l)) = s
      BY <3>1, <3>3, Cut
    <3> DEFINE u == SubSeq(s, 1, l)
               v == Frames!From(s, l)
    <3>5. u \in Bytes /\ v \in Bytes /\ Cat(u, v) = Cat(b, r) /\ Len(u) = Len(b)
      BY <3>1, <3>4
    <3> HIDE DEF u, v
    <3>6. u = b /\ v = r
      BY <2>3, <3>5, SameCut
    <3> QED
      BY <3>6 DEF u, v, s, l
  <2>5. n \in Frames!NodesSent /\ Frames!Compared(n) = Frames!AnswerTo(frames[i])
    <3>1. f.body = BodyOf(i)
      BY <2>4
    <3> QED
      BY <1>2, <2>2, <3>1, EchoNode
  <2>6. _msg_queue = <<>> /\ i = j
    <3>1. _msg_queue = <<>>
      BY <1>2
    <3>2. Len(<<>>) = 0
      BY EmptySeq, Zenon
    <3>3. Len(_msg_queue) = i - j
      BY <1>2 DEF DoneIs
    <3> QED
      BY <1>2, <2>2, <3>1, <3>2, <3>3
  <2>7. i \in Frames!Answered
    BY <1>2, <2>2, AllAnswered
  <2> HIDE DEF n
  <2>8. OutOK(f_wire, out', f_conn, i + 1)
    BY <1>2, <2>1, <2>5, <2>6, <2>7, PushOK
  <2>9. FramesTypes'
    BY <1>2, <1>3, <2>1, <2>3, <2>4, ClientStays DEF FramesTypes
  <2>10. Follows(t, i + 1)'
    <3>1. node'.head = <<>> /\ ~node'.parsed
      BY <2>1 DEF Frames!EmptyNode
    <3> QED
      BY <1>2, <1>3, <2>1, <2>4, <3>1 DEF Follows
  <2>11. NodeAt(node', i + 1)
    BY <1>2, <2>1, EmptyNodeAt
  <2>12. DoneIs(_msg_queue', i + 1, i + 1) /\ _msg_queue' = <<>>
    <3>1. DoneIs(<<>>, i + 1, i + 1)
      BY <2>2, NoneDone
    <3> QED
      BY <1>3, <2>6, <3>1
  <2>13. OutOK(f_wire', out', f_conn', i + 1)
    BY <1>3, <2>8
  <2> QED
    BY <1>1, <1>2, <1>3, <2>2, <2>9, <2>10, <2>11, <2>12, <2>13, Preserved
<1> QED
  BY <1>2, <1>4, <1>5 DEF FramesTypes

LEMMA DealKeeps ==
  ASSUME FramesInv, Frames!DealMsg
  PROVE  FramesInv'
<1>1. PICK t, i, j : IsStream(t) /\ FramesAt(t, i, j)
  BY DEF FramesInv
<1>2. /\ FramesTypes /\ i \in 1 .. Count + 1 /\ j \in 1 .. Count + 1 /\ j <= i
      /\ NodeAt(node, i) /\ Follows(t, i) /\ DoneIs(_msg_queue, j, i)
      /\ f_version \notin {"v9", "v10"} => _msg_queue = <<>>
      /\ OutOK(f_wire, out, f_conn, j) /\ OneClient
  BY <1>1 DEF FramesAt, FramesInv, FramesTypes
<1> DEFINE f == Head(_msg_queue)
           n9 == Frames!v9_Send_Node(Frames!Received(f), f.id)
           n10 == Frames!v10_Send_Node(Frames!Received(f), f.id)
<1>3. /\ f_version' = f_version /\ frames' = frames /\ stage' = stage /\ input' = input
      /\ node' = node /\ f_wire' = f_wire /\ f_conn' = f_conn /\ reading' = reading
      /\ registered' = registered /\ f_version \in {"v9", "v10"}
      /\ _msg_queue # <<>> /\ _msg_queue' = Tail(_msg_queue)
  BY DEF Frames!DealMsg, Frames!v9_DealMsg, Frames!v10_DealMsg, Frames!DealFirst
<1>4. /\ f.id # MSG_HELLO_WORLD => out' = out
      /\ f.id = MSG_HELLO_WORLD =>
           \/ f_version = "v9" /\ out' = Frames!PushUnlessFull(out, n9)
           \/ f_version = "v10" /\ out' = Frames!PushUnlessFull(out, n10)
  BY DEF Frames!DealMsg, Frames!v9_DealMsg, Frames!v10_DealMsg, Frames!DealFirst,
         Frames!CallBackFound, Frames!v9_HelloWorldCallBack, Frames!v10_HelloWorldCallBack,
         Frames!v9_send, Frames!v10_send, Frames!DocumentId
<1>5. Count \in Nat /\ i \in Nat /\ j \in Nat
  BY <1>2, FramesTyped
<1>6. j < i /\ IsFrame(f, j) /\ DoneIs(Tail(_msg_queue), j + 1, i)
  BY <1>2, <1>3, <1>5, DoneFirst
<1>7. j \in 1 .. Count /\ j + 1 \in 1 .. Count + 1 /\ j + 1 <= i
  BY <1>2, <1>5, <1>6
<1> HIDE DEF f
<1>8. f.id = frames[j].id /\ f.body = BodyOf(j)
  BY <1>3, <1>6 DEF IsFrame, IdOf
<1>9. OutOK(f_wire, out', f_conn, j + 1)
  <2>1. CASE f.id = MSG_HELLO_WORLD
    <3>1. j \in Frames!Answered
      BY <1>2, <1>7, <1>8, <2>1, FramesTyped DEF Frames!Answered
    <3>2. CASE f_version = "v9" /\ out' = Frames!PushUnlessFull(out, n9)
      <4>1. n9 \in Frames!NodesSent /\ Frames!Compared(n9) = Frames!AnswerTo(frames[j])
        BY <1>2, <1>7, <1>8, <3>2, ReceivedNode
      <4> HIDE DEF n9
      <4> QED
        BY <1>2, <3>1, <3>2, <4>1, PushUnlessFullOK
    <3>3. CASE f_version = "v10" /\ out' = Frames!PushUnlessFull(out, n10)
      <4>1. n10 \in Frames!NodesSent /\ Frames!Compared(n10) = Frames!AnswerTo(frames[j])
        BY <1>2, <1>7, <1>8, <3>3, ReceivedNode
      <4> HIDE DEF n10
      <4> QED
        BY <1>2, <3>1, <3>3, <4>1, PushUnlessFullOK
    <3> HIDE DEF n9, n10
    <3> QED
      BY <1>4, <2>1, <3>2, <3>3
  <2>2. CASE f.id # MSG_HELLO_WORLD
    <3>1. out' = out
      BY <1>4, <2>2
    <3>2. j \notin Frames!Answered
      BY <1>3, <1>8, <2>2 DEF Frames!Answered
    <3> DEFINE s == Cat(f_wire, out.queue)
               r == out.refused
    <3>3. PICK g : Answers(s, g, j, r)
      BY <1>2 DEF OutOK
    <3> HIDE DEF s, r
    <3>4. Answers(s, g, j + 1, r)
      BY <1>2, <1>5, <3>2, <3>3, AnswersSkip
    <3> QED
      BY <1>2, <3>1, <3>4 DEF OutOK, s, r
  <2> QED
    BY <2>1, <2>2
<1>10. FramesTypes'
  BY <1>2, <1>3, ClientStays DEF FramesTypes
<1>11. Follows(t, i)'
  BY <1>2, <1>3, FollowsStays
<1>12. DoneIs(_msg_queue', j + 1, i) /\ NodeAt(node', i)
  BY <1>2, <1>3, <1>6
<1>13. OutOK(f_wire', out', f_conn', j + 1)
  BY <1>3, <1>9
<1> QED
  BY <1>1, <1>2, <1>3, <1>7, <1>10, <1>11, <1>12, <1>13, Preserved

LEMMA FramesStep == FramesInv /\ [Frames!Next]_(Frames!vars) => FramesInv'
<1> SUFFICES ASSUME FramesInv, [Frames!Next]_(Frames!vars) PROVE FramesInv'
  OBVIOUS
<1>1. CASE Frames!handle_Accept
  BY <1>1, StartKeeps
<1>2. CASE Frames!handle_Read
  <2>1. CASE Frames!ReadError
    BY <2>1, ReadErrorKeeps
  <2>2. CASE ~Frames!ReadError /\ f_version # "v7"
    BY <1>2, <2>2, ReassembleKeeps
  <2>3. CASE f_version = "v7"
    <3>1. Frames!v7_handle_Read_Head \/ Frames!v7_handle_Read_Msg
      BY <1>2, <2>3 DEF Frames!handle_Read
    <3> QED
      BY <2>3, <3>1, HeadKeeps, MsgKeeps
  <2> QED
    BY <2>1, <2>2, <2>3
<1>3. CASE Frames!handle_Write
  <2>1. f_version \in Versions
    BY DEF FramesInv, FramesTypes, OneClient
  <2>2. Frames!NextOrClear
    BY <1>3, <2>1, Zenon DEF Frames!handle_Write, Frames!v4_handle_Write,
       Frames!v5_handle_Write,
         Frames!v6_handle_Write, Frames!v7_handle_Write, Frames!v8_handle_Write,
         Frames!v9_handle_Write, Frames!v10_handle_Write, Versions
  <2> QED
    BY <2>2, WriteKeeps
<1>4. CASE Frames!DealMsg
  BY <1>4, DealKeeps
<1>5. CASE Frames!ConnectionFails
  BY <1>5, FailsKeeps
<1>6. CASE UNCHANGED Frames!vars
  <2>1. PICK t, i, j : IsStream(t) /\ FramesAt(t, i, j)
    BY DEF FramesInv
  <2>2. /\ FramesTypes /\ i \in 1 .. Count + 1 /\ j \in 1 .. Count + 1 /\ j <= i
        /\ NodeAt(node, i) /\ Follows(t, i) /\ DoneIs(_msg_queue, j, i)
        /\ f_version \notin {"v9", "v10"} => _msg_queue = <<>>
        /\ OutOK(f_wire, out, f_conn, j)
    BY <2>1 DEF FramesAt, FramesInv
  <2>3. /\ f_version' = f_version /\ frames' = frames /\ input' = input /\ f_conn' = f_conn
        /\ node' = node /\ _msg_queue' = _msg_queue /\ out' = out /\ f_wire' = f_wire
        /\ stage' = stage /\ reading' = reading /\ registered' = registered
    BY <1>6 DEF Frames!vars
  <2>4. FramesTypes'
    BY <2>2, <2>3, ClientStays DEF FramesTypes
  <2>5. Follows(t, i)'
    BY <2>2, <2>3, FollowsStays
  <2> QED
    BY <2>1, <2>2, <2>3, <2>4, <2>5, Preserved
<1> QED
  BY <1>1, <1>2, <1>3, <1>4, <1>5, <1>6 DEF Frames!Next

\* FramesInv holds in every state of the sessions of v4 to v10.
THEOREM FramesInvariant == Frames!Spec => []FramesInv
BY FramesInit, FramesStep, PTL DEF Frames!Spec

LEMMA FramesImplies ==
  FramesInv => Frames!TypeOK /\ Frames!OneWrite /\ Frames!AnswersInOrder
<1> SUFFICES ASSUME FramesInv
             PROVE  Frames!TypeOK /\ Frames!OneWrite /\ Frames!AnswersInOrder
  OBVIOUS
<1>1. PICK t, i, j : IsStream(t) /\ FramesAt(t, i, j)
  BY DEF FramesInv
<1>2. /\ FramesTypes /\ OneClient /\ NodeAt(node, i) /\ DoneIs(_msg_queue, j, i)
      /\ OutOK(f_wire, out, f_conn, j)
  BY <1>1 DEF FramesAt, FramesInv, FramesTypes
<1> DEFINE S == Frames!NodesSent
           q == out.queue
<1>3. /\ f_wire \in Seq(S) /\ q \in Seq(S) /\ out.writes \in Seq(S) /\ out.refused \in Nat
      /\ WritesFront(out, f_conn)
      /\ f_version \notin {"v4", "v7"} => Len(q) <= FrameQueue + 1
  BY <1>2 DEF OutOK, Outs
<1>4. Frames!TypeOK
  <2>1. \A k \in DOMAIN _msg_queue : _msg_queue[k].id <= FrameMax
    <3>1. _msg_queue \in Seq(Completed)
      BY <1>2 DEF DoneIs
    <3>2. \A k \in DOMAIN _msg_queue : _msg_queue[k] \in Completed
      BY <3>1, ElementOfSeq, LenProperties
    <3>3. \A e \in Completed : e.id <= FrameMax
      BY SessionsAssumption DEF Completed
    <3> QED
      BY <3>2, <3>3
  <2>2. /\ Len(node.head) < Frames!HEAD_LENGTH /\ Len(node.body) <= node.len
        /\ node.len <= FrameMax /\ node.parsed \in BOOLEAN
    BY <1>2 DEF NodeAt, Nodes
  <2>3. /\ f_version \in {"v4", "v5", "v6", "v7", "v8", "v9", "v10"}
        /\ frames \in FrameStreams /\ input \in Seq(Nat)
        /\ f_conn \in {"up", "down"} /\ stage \in {"listening", "started", "served"}
        /\ registered \in BOOLEAN /\ reading \in {"none", "some", "head", "body"}
    BY <1>2 DEF FramesTypes, OneClient, Versions, Bytes
  <2> HIDE DEF S
  <2> QED
    BY <1>3, <2>1, <2>2, <2>3 DEF Frames!TypeOK, S
<1>5. Frames!OneWrite
  <2> HIDE DEF S
  <2>1. CASE out.writes = <<>>
    <3>1. Len(out.writes) = 0
      BY <2>1
    <3> QED
      BY <1>3, <2>1, <3>1 DEF Frames!OneWrite, WritesFront
  <2>2. CASE out.writes # <<>>
    <3>1. q # <<>> /\ out.writes = <<Head(q)>>
      BY <1>3, <2>2 DEF WritesFront
    <3>2. Frames!IsPrefix(out.writes, q)
      <4> HIDE DEF q
      <4>1. Len(<<Head(q)>>) = 1 /\ <<Head(q)>>[1] = Head(q)
        OBVIOUS
      <4>2. q \in Seq(S) /\ q # <<>>
        BY <1>3, <3>1
      <4>3. Len(q) \in Nat \ {0} /\ Head(q) = q[1]
        BY <4>2, LenProperties, EmptySeq, HeadTailProperties
      <4>4. SubSeq(q, 1, 1) = <<q[1]>>
        <5> DEFINE v == SubSeq(q, 1, 1)
                   x == q[1]
        <5>1. v \in Seq(S) /\ Len(v) = 1 /\ v[1] = x /\ x \in S
          BY <4>2, <4>3, SubSeqProperties, ElementOfSeq
        <5> HIDE DEF v, x
        <5>2. v = <<x>>
          BY <5>1
        <5> QED
          BY <5>2 DEF v, x
      <4> QED
        BY <3>1, <4>1, <4>2, <4>3, <4>4 DEF Frames!IsPrefix
    <3> QED
      BY <2>2, <3>1, <3>2 DEF Frames!OneWrite
  <2> QED
    BY <2>1, <2>2
<1>6. Frames!AnswersInOrder
  <2> DEFINE s == Cat(f_wire, q)
  <2>1. s \in Seq(S)
    <3> HIDE DEF q, S
    <3>1. f_wire \o q \in Seq(S)
      BY <1>3, ConcatProperties
    <3> QED
      BY <3>1, Zenon DEF Cat
  <2>2. PICK g : Answers(s, g, j, out.refused)
    BY <1>2 DEF OutOK
  <2> HIDE DEF s, S
  <2>3. DOMAIN s = 1 .. Len(s)
    BY <2>1, LenProperties
  <2>4. /\ g \in [DOMAIN s -> Frames!Answered]
        /\ \A k \in DOMAIN s : /\ Frames!Compared(s[k]) = Frames!AnswerTo(frames[g[k]])
                               /\ g[k] < j
        /\ \A k, l \in DOMAIN s : k < l => g[k] < g[l]
        /\ out.refused = 0 => \A a \in Frames!Answered :
                                a < j => \E k \in DOMAIN s : g[k] = a
    BY <2>2, <2>3 DEF Answers
  <2>5. j \in Nat /\ \A a \in Frames!Answered : a \in Nat
    <3>1. j \in 1 .. Count + 1
      BY <1>1 DEF FramesAt
    <3> QED
      BY <1>2, <3>1, AnsweredFrames, FramesTyped
  <2>6. out.refused = 0 => \A k \in DOMAIN s : \A a \in Frames!Answered :
                             a < g[k] => \E l \in DOMAIN s : g[l] = a
    <3> SUFFICES ASSUME out.refused = 0, NEW k \in DOMAIN s, NEW a \in Frames!Answered,
                        a < g[k]
                 PROVE  \E l \in DOMAIN s : g[l] = a
      OBVIOUS
    <3>1. g[k] \in Nat /\ g[k] < j /\ a \in Nat
      BY <2>4, <2>5
    <3>2. a < j
      BY <2>5, <3>1
    <3> QED
      BY <2>4, <3>2
  <2>7. \E h \in [DOMAIN s -> Frames!Answered] :
          /\ \A k \in DOMAIN s : Frames!Compared(s[k]) = Frames!AnswerTo(frames[h[k]])
          /\ \A k, l \in DOMAIN s : k < l => h[k] < h[l]
          /\ out.refused = 0 => \A k \in DOMAIN s : \A a \in Frames!Answered :
                                  a < h[k] => \E l \in DOMAIN s : h[l] = a
    BY <2>4, <2>6
  <2>8. s = f_wire \o out.queue
    BY Zenon DEF s, Cat
  <2> QED
    BY <2>7, <2>8, Zenon DEF Frames!AnswersInOrder
<1> QED
  BY <1>4, <1>5, <1>6

-----------------------------------------------------------------------------
(***************************************************************************)
(* The sessions together.                                                  *)
(***************************************************************************)
LEMMA SessionsApart ==
  FairSessions => Spec /\ Frames!Spec /\ Simple!Spec /\ Coroutine!Spec
<1>1. InitSessions => Init /\ Frames!Init /\ Simple!Init /\ Coroutine!Init
  BY DEF InitSessions
<1>2. [NextSessions]_all => [Next]_vars
  BY DEF NextSessions, all, vars
<1>3. [NextSessions]_all => [Frames!Next]_(Frames!vars)
  BY DEF NextSessions, all, framesVars, Frames!vars
<1>4. [NextSessions]_all => [Simple!Next]_(Simple!vars)
  BY DEF NextSessions, all, simpleVars, Simple!vars
<1>5. [NextSessions]_all => [Coroutine!Next]_(Coroutine!vars)
  BY DEF NextSessions, all, coroutineVars, Coroutine!vars
<1> QED
  BY <1>1, <1>2, <1>3, <1>4, <1>5, PTL
     DEF FairSessions, Spec, Frames!Spec, Simple!Spec, Coroutine!Spec

\* The variables of every session have their types, in every server version.
THEOREM TypesOKHolds == FairSessions => []TypesOK
<1>1. TypeOK /\ FramesInv /\ SimpleInv /\ CoroutineInv => TypesOK
  BY FramesImplies, SimpleImplies, CoroutineImplies DEF TypesOK
<1> QED
  BY <1>1, SessionsApart, TypeCorrect, FramesInvariant, SimpleInvariant,
     CoroutineInvariant, PTL

\* In every version the answers to what a client sends leave in order, each once,
\* and only a full queue leaves one out: frames of any lengths, in any pieces.
THEOREM AnswersInOrderHolds == FairSessions => []AnswersInOrder
<1>1. FramesInv /\ SimpleInv /\ CoroutineInv => AnswersInOrder
  BY FramesImplies, SimpleImplies, CoroutineImplies DEF AnswersInOrder
<1> QED
  BY <1>1, SessionsApart, FramesInvariant, SimpleInvariant, CoroutineInvariant,
     PTL

\* No session has two operations of a kind outstanding, whichever threads send,
\* and none is deleted while a handler is to come back to it.
THEOREM OneOperationEachHolds == FairSessions => []OneOperationEach
<1>1. FramesInv /\ SimpleInv /\ CoroutineInv => OneOperationEach
  BY FramesImplies, SimpleImplies, CoroutineImplies DEF OneOperationEach
<1> QED
  BY <1>1, SessionsApart, FramesInvariant, SimpleInvariant, CoroutineInvariant,
     PTL

\* The send queue taken apart refines its channel in this composition too, and
\* its queue says who writes.
THEOREM SessionsSendInOrder ==
  FairSessions => ImplementsChannel /\ []WritesFollowQueue
BY SessionsApart, SendQueueImplementsChannel, WritesFollowQueueHolds, PTL
=============================================================================
