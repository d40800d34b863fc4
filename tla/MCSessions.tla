----------------------------- MODULE MCSessions -----------------------------
(***************************************************************************)
(* What happens on one connection: the send queue of v10_v2 step by step,   *)
(* the sessions of v4 to v10 end to end, those of v1 to v3, and the         *)
(* coroutine server's.  They share nothing; which says the one that runs.  *)
(*                                                                          *)
(* In Sessions.cfg SendQueue has four messages of two pieces and a limit of one queued      *)
(* message, so that sends meet the empty, the busy and the full queue.  The *)
(* streams of FrameSessions have frames without a body, an id without a     *)
(* callback, a frame that is too long after a legal one, and pieces that    *)
(* hold a part of a header, of a body and several frames.  v1 to v3 serve   *)
(* two connections that send two bytes, read one or two at a time.  The      *)
(* coroutine gets a legal stream, one with an empty and one with an illegal *)
(* frame, and a queue that is full with two messages.                       *)
(***************************************************************************)
EXTENDS SendQueue

CONSTANTS
  MSG_HELLO_WORLD,  \* the id the logic systems have a callback for
  FrameStreams,     \* FrameSessions: what a client may send,
  FrameMax,         \* MAX_LENGTH
  FrameQueue,       \* and MAX_SEND_QUEUE
  Session,          \* SimpleSessions: bound: the sessions,
  NoSession,        \* none of them,
  SimpleBytes,      \* bound: the bytes a client sends,
  SimpleMax,        \* and max_length
  LongStreams,      \* CoroutineSession: what a client may send,
  LongMax,          \* MAX_LENGTH
  LongQueue         \* and MAX_SENDQUE

\* Ids, lengths and MAX_LENGTH, with what an answer adds to a body, are shorts
\* that are not negative.
Short == 0 .. 32767
ClientFrame == [id : Short, body : Seq(0 .. 255)]
ASSUME SessionsAssumption ==
  /\ FrameMax \in Nat \ {0} /\ FrameMax < 32767 /\ FrameQueue \in Nat
  /\ \A s \in FrameStreams : /\ s \in Seq(ClientFrame)
                             /\ \A i \in DOMAIN s : Len(s[i].body) \in Short
  /\ NoSession \notin Session /\ SimpleBytes \in Nat /\ SimpleMax \in Nat
  /\ LongMax \in Nat /\ LongQueue \in Nat
  /\ \A s \in LongStreams : s \in Seq([id : Nat, len : Nat])

VARIABLES which,
          f_version, frames, input, f_conn, stage, registered, reading, node,
          _msg_queue, out, f_wire,
          version, accepting, object, _sessions, conn, got, _data, reads, s_writes,
          s_queue, pieces, s_wire,
          c_frames, next, c_conn, _b_close, accept, c_registered, coroutine, read,
          c_msgs, c_queue, c_writers, c_write, c_refused, c_wire

Frames == INSTANCE FrameSessions
  WITH version <- f_version, conn <- f_conn, wire <- f_wire,
       Version <- {"v4", "v5", "v6", "v7", "v8", "v9", "v10"}, Streams <- FrameStreams,
       MAX_LENGTH <- FrameMax, MAX_SEND_QUEUE <- FrameQueue,
       HelloWorld <- MSG_HELLO_WORLD
Simple == INSTANCE SimpleSessions
  WITH writes <- s_writes, _send_queue <- s_queue, wire <- s_wire,
       Version <- {"v1", "v2", "v3"}, Bytes <- SimpleBytes, max_length <- SimpleMax
Coroutine == INSTANCE CoroutineSession
  WITH frames <- c_frames, conn <- c_conn, registered <- c_registered,
       _msg_queue <- c_msgs, _send_queue <- c_queue, writers <- c_writers,
       write <- c_write, refused <- c_refused, wire <- c_wire,
       MAX_LENGTH <- LongMax, MAX_SENDQUE <- LongQueue,
       HelloWorld <- MSG_HELLO_WORLD, Streams <- LongStreams

Frame(id, body) == [id |-> id, body |-> body]
MCFrameStreams ==
  {<<Frame(1, <<11>>), Frame(1, <<>>), Frame(1, <<31, 32>>)>>,
   <<Frame(1, <<11, 12, 13>>), Frame(2, <<21>>), Frame(1, <<31>>)>>,
   <<Frame(1, <<11>>), Frame(9, <<21, 22, 23, 24, 25, 26, 27>>), Frame(1, <<31>>)>>}
Long(id, len) == [id |-> id, len |-> len]
MCLongStreams == {<<Long(1, 1), Long(1, 2), Long(1, 1), Long(1, 3)>>,
                  <<Long(1, 1), Long(2, 1), Long(1, 0), Long(1, 1)>>,
                  <<Long(1, 1), Long(9, 1)>>}

framesVars == <<f_version, frames, input, f_conn, stage, registered, reading, node,
                _msg_queue, out, f_wire>>
simpleVars == <<version, accepting, object, _sessions, conn, got, _data, reads,
                s_writes, s_queue, pieces, s_wire>>
coroutineVars == <<c_frames, next, c_conn, _b_close, accept, c_registered, coroutine,
                   read, c_msgs, c_queue, c_writers, c_write, c_refused, c_wire>>
all == <<which, vars, framesVars, simpleVars, coroutineVars>>

-----------------------------------------------------------------------------
\* Those that do not run have one initial state.
InitSessions ==
  /\ which \in {"queue", "frames", "simple", "coroutine"}
  /\ Init /\ Frames!Init /\ Simple!Init /\ Coroutine!Init
  /\ which # "frames" => f_version = "v4" /\ frames = CHOOSE f \in FrameStreams : TRUE
  /\ which # "simple" => version = "v1" /\ accepting = CHOOSE s \in Session : TRUE
  /\ which # "coroutine" => c_frames = CHOOSE f \in LongStreams : TRUE

NextSessions ==
  \/ which = "queue" /\ Next /\ UNCHANGED <<which, framesVars, simpleVars, coroutineVars>>
  \/ /\ which = "frames" /\ Frames!Next
     /\ UNCHANGED <<which, vars, simpleVars, coroutineVars>>
  \/ /\ which = "simple" /\ Simple!Next
     /\ UNCHANGED <<which, vars, framesVars, coroutineVars>>
  \/ /\ which = "coroutine" /\ Coroutine!Next
     /\ UNCHANGED <<which, vars, framesVars, simpleVars>>

\* FairSpec of the one that runs.
FairSessions ==
  /\ InitSessions /\ [][NextSessions]_all
  /\ WF_vars(which = "queue" /\ Socket) /\ WF_vars(which = "queue" /\ Handlers)
  /\ WF_framesVars(which = "frames" /\ Frames!handle_Read)
  /\ WF_framesVars(which = "frames" /\ Frames!handle_Write)
  /\ WF_framesVars(which = "frames" /\ Frames!DealMsg)
  /\ WF_framesVars(which = "frames" /\ stage = "started" /\ Frames!handle_Accept)
  /\ \A s \in Session :
       WF_simpleVars(which = "simple" /\ s # accepting /\ Simple!Step(s))
  /\ WF_coroutineVars(which = "coroutine" /\ accept = "started"
                                         /\ Coroutine!HandleAccept)
  /\ WF_coroutineVars(which = "coroutine" /\ Coroutine!ReadCompletes)
  /\ SF_coroutineVars(which = "coroutine" /\ Coroutine!Resume)
  /\ WF_coroutineVars(which = "coroutine" /\ Coroutine!WriteCompletes)
  /\ SF_coroutineVars(which = "coroutine" /\ Coroutine!HandleWrite)
  /\ WF_coroutineVars(which = "coroutine" /\ Coroutine!StartWrite("pool"))
  /\ WF_coroutineVars(which = "coroutine" /\ Coroutine!Logic)

-----------------------------------------------------------------------------
\* The type invariants of the four.
TypesOK == TypeOK /\ Frames!TypeOK /\ Simple!TypeOK /\ Coroutine!TypeOK

\* In every version the answers to what a client sends leave in order, each
\* once, and only a full queue leaves one out.
AnswersInOrder == Frames!AnswersInOrder /\ Simple!OneAnswerEach
                  /\ Coroutine!AnswersOfLegalFrames

\* No session has two operations of a kind outstanding, whichever threads send,
\* and none is deleted while a handler is to come back to it.
OneOperationEach == Frames!OneWrite /\ Simple!NoUseAfterFree /\ Coroutine!OneWriter

\* Every legal frame of a client that stays is answered or refused.
EveryFrameAnswered == Frames!EveryFrameAnswered /\ Coroutine!EveryAnswered

\* Everybody lets go of a session whose connection is lost, whichever of its
\* operations meets the error: the handlers, the logic system and the map, except
\* that the map may keep one that was lost before handle_Accept inserted it (v10
\* and the coroutine server).
LostIsReleased == Frames!LostIsReleased /\ Simple!FailedIsDeleted
                  /\ Coroutine!LostIsLetGo
=============================================================================
