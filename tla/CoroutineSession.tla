-------------------------- MODULE CoroutineSession --------------------------
(***************************************************************************)
(* A session of the coroutine server: a coroutine reads whole headers and   *)
(* whole bodies one after the other, the worker of the logic system answers *)
(* with send, and HandleWrite writes what is queued.                       *)
(*                                                                          *)
(* Three threads take part: the pool's one thread runs the coroutine, from  *)
(* one co_await to the next, and HandleWrite; the main thread runs          *)
(* HandleAccept; the logic worker runs the callbacks.  send and HandleWrite *)
(* start a write after they have unlocked _send_lock, so each is two steps. *)
(* How the logic worker sleeps and wakes is LogicSystem's subject, with     *)
(* NotifyAfterUnlock.                                                      *)
(***************************************************************************)
EXTENDS Naturals, Sequences, FiniteSets, Functions

CONSTANTS Streams,        \* what a client may send: sequences of [id, len]
          MAX_LENGTH,     \* greatest legal id and length
          MAX_SENDQUE,
          HelloWorld      \* MSG_HELLO_WORLD

VARIABLES
  frames,       \* what the client sends ...
  next,         \* ... and the frame the coroutine is to read next
  conn,         \* the connection is "up" or has gone "down"
  _b_close,     \* Session::close has run
  accept,       \* where HandleAccept is: "listening", "started" or "done"
  registered,   \* the session is in the map _sessions
  coroutine,    \* "none", "spawned", "head" or "body" (awaited), or "done"
  read,         \* the read awaited: "none", "pending", "ok" or "error"
  _msg_queue,   \* the messages of the logic system
  _send_queue,
  writers,      \* which threads have unlocked _send_lock to start a write
  write,        \* the write outstanding: "none", "pending", "ok" or "error"
  refused,      \* the frames whose answer met a full queue
  wire          \* the frames whose answers were written

vars == <<frames, next, conn, _b_close, accept, registered, coroutine, read,
          _msg_queue, _send_queue, writers, write, refused, wire>>

Empty(i) == frames[i].len = 0
InvalidId(i) == frames[i].id > MAX_LENGTH
InvalidLen(i) == frames[i].len > MAX_LENGTH

\* The slip forgets that frames without a body exist.
NeverZero(i) == FALSE
ReadsZero(i) == Empty(i)

-----------------------------------------------------------------------------
(***************************************************************************)
(* Server::HandleAccept: start, then insert under _mutex.                   *)
(***************************************************************************)
start == /\ coroutine' = "spawned"
         /\ UNCHANGED <<frames, next, conn, _b_close, read, _msg_queue,
                        _send_queue, writers, write, refused, wire>>

HandleAccept ==
  \/ /\ accept = "listening" /\ accept' = "started"
     /\ start /\ UNCHANGED registered
  \/ /\ accept = "started" /\ accept' = "done"
     /\ registered' = TRUE
     /\ UNCHANGED <<frames, next, conn, _b_close, coroutine, read, _msg_queue,
                    _send_queue, writers, write, refused, wire>>

\* The slip closes the session and leaves it in the map.
KeepSession == UNCHANGED registered
clearSession == registered' = FALSE

\* Session::close aborts the operations that are not over.
Aborted(op) == IF op = "pending" THEN "error" ELSE op
close(r, w) == _b_close' = TRUE /\ read' = Aborted(r) /\ write' = Aborted(w)

-----------------------------------------------------------------------------
(***************************************************************************)
(* The coroutine, on the pool's thread.                                    *)
(***************************************************************************)
PoolFree == "pool" \notin writers
CoroutineOnly == UNCHANGED <<frames, conn, accept, _send_queue, writers, refused,
                             wire>>

\* The outcome of a read of what the client has sent, or has still to send.
ReadCompletes ==
  /\ read = "pending"
  /\ \/ conn = "up" /\ next <= Len(frames) /\ read' = "ok"
     \/ conn = "down" /\ read' = "error"
  /\ UNCHANGED <<frames, next, conn, _b_close, accept, registered, coroutine,
                 _msg_queue, _send_queue, writers, write, refused, wire>>

\* A read of a closed socket fails at once.
Await(what) == /\ coroutine' = what
               /\ read' = IF _b_close THEN "error" ELSE "pending"
               /\ UNCHANGED <<_b_close, write, registered>>
Leave == /\ coroutine' = "done" /\ close("none", write) /\ clearSession

\* The loop's test of _b_close: the session was cleared by who closed it.
Loop == IF _b_close
        THEN coroutine' = "done" /\ read' = "none"
             /\ UNCHANGED <<_b_close, write, registered>>
        ELSE Await("head")

Spawned == /\ coroutine = "spawned" /\ Loop
           /\ UNCHANGED <<next, _msg_queue>>

HeadRead == /\ coroutine = "head" /\ read = "ok"
            /\ IF InvalidId(next) \/ InvalidLen(next)
               THEN Leave ELSE Await("body")
            /\ UNCHANGED <<next, _msg_queue>>

\* A body of no bytes reads as n = 0, which is taken for the peer's leaving.
\* PostMsgToQueue waits while a callback holds the logic system's mutex.
BodyRead == /\ coroutine = "body" /\ read = "ok"
            /\ IF ReadsZero(next) THEN Leave /\ UNCHANGED <<next, _msg_queue>>
               ELSE /\ "logic" \notin writers
                    /\ _msg_queue' = Append(_msg_queue, next)
                    /\ next' = next + 1
                    /\ Loop

\* co_await throws and the coroutine's handler closes and clears.
ReadThrows == /\ coroutine \in {"head", "body"} /\ read = "error"
              /\ Leave /\ UNCHANGED <<next, _msg_queue>>

Resume == /\ PoolFree /\ CoroutineOnly
          /\ Spawned \/ HeadRead \/ BodyRead \/ ReadThrows

-----------------------------------------------------------------------------
(***************************************************************************)
(* send, on the logic worker's thread: DealMsg takes the message at the     *)
(* front and calls HelloWorldCallBack if it is registered for the id.       *)
(***************************************************************************)
SenderOnly == UNCHANGED <<frames, next, conn, _b_close, accept, registered,
                          coroutine, read>>

\* The slip starts a write whenever it has queued a node.
AlwaysWrites(queue) == TRUE
StartsWrite(queue) == queue = <<>>

send(i) ==
  IF Len(_send_queue) > MAX_SENDQUE
  THEN refused' = Append(refused, i) /\ UNCHANGED <<_send_queue, writers>>
  ELSE /\ _send_queue' = Append(_send_queue, i)
       /\ writers' = IF StartsWrite(_send_queue) THEN writers \cup {"logic"}
                     ELSE writers
       /\ UNCHANGED refused

DealMsg ==
  /\ _msg_queue # <<>> /\ "logic" \notin writers
  /\ _msg_queue' = Tail(_msg_queue)
  /\ IF frames[Head(_msg_queue)].id = HelloWorld THEN send(Head(_msg_queue))
     ELSE UNCHANGED <<_send_queue, writers, refused>>
  /\ SenderOnly /\ UNCHANGED <<write, wire>>

\* async_write of the node that was the front when _send_lock was unlocked.
StartWrite(who) ==
  /\ who \in writers
  /\ writers' = writers \ {who}
  /\ write' = IF _b_close THEN "error" ELSE "pending"
  /\ SenderOnly /\ UNCHANGED <<_msg_queue, _send_queue, refused, wire>>

WriteCompletes ==
  /\ write = "pending"
  /\ \/ /\ conn = "up" /\ write' = "ok"
        /\ wire' = Append(wire, Head(_send_queue))
     \/ conn = "down" /\ write' = "error" /\ UNCHANGED wire
  /\ UNCHANGED <<frames, next, conn, _b_close, accept, registered,
                 coroutine, read, _msg_queue, _send_queue, writers, refused>>

\* HandleWrite, on the pool's thread.
HandleWrite ==
  /\ PoolFree
  /\ \/ /\ write = "error"
        /\ close(read, "none")
        /\ clearSession /\ UNCHANGED <<_send_queue, writers>>
     \/ /\ write = "ok" /\ write' = "none"
        /\ _send_queue' = Tail(_send_queue)
        /\ writers' = IF _send_queue' # <<>> THEN writers \cup {"pool"}
                      ELSE writers
        /\ UNCHANGED <<_b_close, read, registered>>
  /\ UNCHANGED <<frames, next, conn, accept, coroutine, _msg_queue, refused,
                 wire>>

-----------------------------------------------------------------------------
ConnectionFails ==
  /\ conn = "up" /\ ~_b_close /\ accept # "listening" /\ conn' = "down"
  /\ UNCHANGED <<frames, next, _b_close, accept, registered, coroutine, read,
                 _msg_queue, _send_queue, writers, write, refused, wire>>

Init == /\ frames \in Streams /\ next = 1
        /\ conn = "up" /\ _b_close = FALSE
        /\ accept = "listening" /\ registered = FALSE
        /\ coroutine = "none" /\ read = "none" /\ _msg_queue = <<>>
        /\ _send_queue = <<>> /\ writers = {} /\ write = "none"
        /\ refused = <<>> /\ wire = <<>>

Pool == ReadCompletes \/ Resume \/ WriteCompletes \/ HandleWrite
        \/ StartWrite("pool")
Logic == DealMsg \/ StartWrite("logic")
Next == HandleAccept \/ Pool \/ Logic \/ ConnectionFails

\* Each thread goes on with what it has to do, the pool's serves its handlers in
\* turn, and what the client has sent arrives.
Fairness == /\ WF_vars(accept = "started" /\ HandleAccept)
            /\ WF_vars(ReadCompletes) /\ SF_vars(Resume)
            /\ WF_vars(WriteCompletes) /\ SF_vars(HandleWrite)
            /\ WF_vars(StartWrite("pool")) /\ WF_vars(Logic)
Spec == Init /\ [][Next]_vars
FairSpec == Spec /\ Fairness

-----------------------------------------------------------------------------
Op == {"none", "pending", "ok", "error"}

TypeOK ==
  /\ frames \in Streams /\ next \in 1 .. Len(frames) + 1
  /\ conn \in {"up", "down"} /\ _b_close \in BOOLEAN
  /\ accept \in {"listening", "started", "done"}
  /\ registered \in BOOLEAN
  /\ coroutine \in {"none", "spawned", "head", "body", "done"}
  /\ read \in Op /\ write \in Op /\ writers \subseteq {"logic", "pool"}
  /\ \A q \in {_msg_queue, _send_queue, refused, wire} : q \in Seq(DOMAIN frames)
  /\ Len(_send_queue) <= MAX_SENDQUE + 1

\* Of all threads at most one is about to start a write, has one outstanding or
\* is to handle its end, and then the node it writes is the queue's front; a queue
\* without a writer has none because a write has failed.
OneWriter ==
  LET busy == Cardinality(writers) + IF write = "none" THEN 0 ELSE 1 IN
  /\ busy <= 1
  /\ busy = 1 => _send_queue # <<>>
  /\ _send_queue # <<>> /\ busy = 0 => _b_close

\* The frames the coroutine passes on and the callbacks answer.
Stops(i) == InvalidId(i) \/ InvalidLen(i) \/ Empty(i)
Legal == {i \in DOMAIN frames : \A j \in 1 .. i : ~Stops(j)}
Answered == {i \in Legal : frames[i].id = HelloWorld}

\* The answers that were written, are queued or were refused are those to the
\* legal frames read so far, each once and those not refused in order.
AnswersOfLegalFrames ==
  LET sent == wire \o (IF write = "ok" THEN Tail(_send_queue) ELSE _send_queue) IN
  /\ \A i, j \in DOMAIN sent : i < j => sent[i] < sent[j]
  /\ Range(sent) \cap Range(refused) = {}
  /\ Range(sent) \cup Range(refused) \cup (Range(_msg_queue) \cap Answered)
       = {i \in Answered : i < next}

\* A client that stays gets an answer to each of its frames unless the queue was
\* full; one that sends an illegal or an empty frame is closed on, and may lose
\* the answers that were not written by then.
EveryAnswered ==
  (accept = "done") ~>
    \/ conn = "down" \/ _b_close
    \/ Legal = DOMAIN frames /\ Answered \subseteq Range(wire) \cup Range(refused)

\* When the connection is lost, or the server closes it, the coroutine ends, no
\* operation stays outstanding and no message is left; a session that is in the
\* map and still open when the connection is lost leaves the map as well.  One
\* that was closed before HandleAccept inserted it may stay there for ever.
LetGo == /\ coroutine = "done" /\ read = "none" /\ write = "none"
         /\ writers = {} /\ _msg_queue = <<>>

LostIsLetGo ==
  /\ (conn = "down" \/ _b_close) ~> LetGo
  /\ (conn = "down" /\ registered /\ ~_b_close) ~> LetGo /\ ~registered
=============================================================================
