----------------------------- MODULE SendQueue -----------------------------
(***************************************************************************)
(* Session::send and Session::handle_Write of v10_baseOnV9_v2: any thread   *)
(* may send, one asio::async_write at a time is outstanding, and its        *)
(* completion starts the next.  send and the success path of handle_Write   *)
(* hold _send_lock throughout, so each is one action.                       *)
(*                                                                          *)
(* async_write is a composed operation: the socket takes a frame in Parts   *)
(* pieces, and two of them outstanding at once would mix their pieces.  The *)
(* buffer belongs to the queue's node: popping it frees it.                 *)
(***************************************************************************)
EXTENDS Naturals, Sequences, FiniteSets

CONSTANTS Msg,             \* bound: each of these messages is sent once
          Parts,           \* pieces in which the socket takes a frame
          MAX_SEND_QUEUE

ASSUME SendAssumption == /\ Parts \in Nat \ {0}
                         /\ MAX_SEND_QUEUE \in Nat

VARIABLES
  _send_queue,   \* the nodes, oldest first
  writes,        \* the async_write operations not yet completed
  completions,   \* the handle_Write calls that wait for the strand
  wire,          \* the pieces the socket has taken
  broken,        \* the socket has failed
  cleared,       \* handle_Write has called clearSession
  unsent,        \* messages no thread has sent yet
  accepted       \* the messages send has queued, in order

vars == <<_send_queue, writes, completions, wire, broken, cleared, unsent,
          accepted>>

\* async_write of the node at the front of queue q.
StartWrite(q) == writes' = writes \cup {[msg |-> Head(q), next |-> 1]}

-----------------------------------------------------------------------------
(***************************************************************************)
(* send.                                                                   *)
(***************************************************************************)
\* The slip has no limit.
NeverFull == FALSE
QueueFull == Len(_send_queue) > MAX_SEND_QUEUE

SendDropped(m) ==
  /\ m \in unsent /\ QueueFull
  /\ unsent' = unsent \ {m}
  /\ UNCHANGED <<_send_queue, writes, completions, wire, broken, cleared,
                 accepted>>

\* Only a send that finds the queue empty starts a write.  The slip: every
\* send starts one.
AlwaysStarts == TRUE
SendStarts == ~(Len(_send_queue) > 0)

SendQueued(m) ==
  /\ m \in unsent /\ ~QueueFull
  /\ unsent' = unsent \ {m}
  /\ _send_queue' = Append(_send_queue, m)
  /\ accepted' = Append(accepted, m)
  /\ IF SendStarts THEN StartWrite(_send_queue') ELSE UNCHANGED writes
  /\ UNCHANGED <<completions, wire, broken, cleared>>

(***************************************************************************)
(* The socket: pieces go out, the socket may fail, an operation completes.  *)
(***************************************************************************)
WriteSome(w) ==
  /\ w \in writes /\ ~broken /\ w.next <= Parts
  /\ wire' = Append(wire, <<w.msg, w.next>>)
  /\ writes' = (writes \ {w}) \cup {[w EXCEPT !.next = w.next + 1]}
  /\ UNCHANGED <<_send_queue, completions, broken, cleared, unsent, accepted>>

SocketFails ==
  /\ ~broken
  /\ broken' = TRUE
  /\ UNCHANGED <<_send_queue, writes, completions, wire, cleared, unsent,
                 accepted>>

\* The operation is over: everything written, or an error.
WriteCompletes(w) ==
  /\ w \in writes
  /\ w.next > Parts \/ broken
  /\ writes' = writes \ {w}
  /\ completions' = Append(completions,
                           IF w.next > Parts THEN "success" ELSE "error")
  /\ UNCHANGED <<_send_queue, wire, broken, cleared, unsent, accepted>>

(***************************************************************************)
(* handle_Write, run by the strand.                                        *)
(***************************************************************************)
\* The slip pops the newest node.
PopBack == SubSeq(_send_queue, 1, Len(_send_queue) - 1)
PopFront == Tail(_send_queue)

\* The slip leaves the next node to a send that never comes.
StopsAfterOne == FALSE
MoreToWrite == _send_queue' # <<>>

HandleWriteDone ==
  /\ completions # <<>> /\ Head(completions) = "success"
  /\ completions' = Tail(completions)
  /\ _send_queue' = PopFront
  /\ IF MoreToWrite THEN StartWrite(_send_queue') ELSE UNCHANGED writes
  /\ UNCHANGED <<wire, broken, cleared, unsent, accepted>>

\* The error path clears the session and leaves the queue alone.
HandleWriteError ==
  /\ completions # <<>> /\ Head(completions) = "error"
  /\ completions' = Tail(completions)
  /\ cleared' = TRUE
  /\ UNCHANGED <<_send_queue, writes, wire, broken, unsent, accepted>>

-----------------------------------------------------------------------------
Init == /\ _send_queue = <<>> /\ writes = {} /\ completions = <<>>
        /\ wire = <<>> /\ broken = FALSE /\ cleared = FALSE
        /\ unsent = Msg /\ accepted = <<>>

Send == \E m \in Msg : SendDropped(m) \/ SendQueued(m)
Socket == \E w \in writes : WriteSome(w) \/ WriteCompletes(w)
Handlers == HandleWriteDone \/ HandleWriteError

Next == Send \/ Socket \/ SocketFails \/ Handlers

\* The socket makes progress or fails, and the strand runs its handlers.
Fairness == WF_vars(Socket) /\ WF_vars(Handlers)

Spec == Init /\ [][Next]_vars
FairSpec == Spec /\ Fairness

-----------------------------------------------------------------------------
\* Types, and the limit of the queue: the test before the push lets it grow to
\* one node more than MAX_SEND_QUEUE and never beyond.
TypeOK ==
  /\ _send_queue \in Seq(Msg) /\ Len(_send_queue) <= MAX_SEND_QUEUE + 1
  /\ writes \subseteq [msg : Msg, next : 1 .. Parts + 1]
  /\ completions \in Seq({"success", "error"})
  /\ wire \in Seq(Msg \X (1 .. Parts))
  /\ broken \in BOOLEAN /\ cleared \in BOOLEAN
  /\ unsent \subseteq Msg /\ accepted \in Seq(Msg)

\* At most one write or completion handler of a session is outstanding, whoever
\* calls send between a write's end and its handler, and the node it writes
\* from is the front of the queue, so its buffer outlives it.
SingleWriter ==
  /\ Cardinality(writes) + Len(completions) <= 1
  /\ \A w \in writes : _send_queue # <<>> /\ w.msg = Head(_send_queue)

\* The queue is non-empty exactly while a write is outstanding, waits for its
\* handler or has failed: send decides on the queue's size alone whether it has
\* to start a write, and no accepted message is left without one.
QueueKnowsWriter ==
  _send_queue # <<>> <=> (writes # {} \/ completions # <<>> \/ cleared)

\* No write is ever started on a socket whose failure handle_Write has seen,
\* although send goes on being called: the node left in the queue keeps send
\* from starting one.
NoWriteAfterError == cleared => writes = {} /\ completions = <<>>

\* The size of the queue is all that send and handle_Write need to know.
WritesFollowQueue == SingleWriter /\ QueueKnowsWriter /\ NoWriteAfterError

\* Every accepted message reaches the wire completely unless the socket fails.
AcceptedIsSent ==
  \A m \in Msg : (\E i \in DOMAIN accepted : accepted[i] = m)
                   ~> (broken \/ \E i \in DOMAIN wire : wire[i] = <<m, Parts>>)

\* The pieces of the queued frames that are still to be written.
Written == IF writes # {} THEN (CHOOSE w \in writes : TRUE).next - 1
           ELSE IF completions # <<>> /\ Head(completions) = "success" THEN Parts
           ELSE 0

\* The pieces of the first frame not written when its write failed.
FailedAt == IF wire # <<>> /\ _send_queue # <<>>
               /\ wire[Len(wire)][1] = Head(_send_queue)
            THEN wire[Len(wire)][2] ELSE 0

Unwritten ==
  LET w == IF broken THEN FailedAt ELSE Written IN
  [i \in 1 .. Parts * Len(_send_queue) - w |->
     <<_send_queue[((w + i - 1) \div Parts) + 1], ((w + i - 1) % Parts) + 1>>]

Channel == INSTANCE ByteChannel WITH backlog <- Unwritten

\* What goes over the wire is what ByteChannel promises: whole frames, in the
\* order accepted, no piece lost, repeated or between the pieces of another
\* frame.
ImplementsChannel == Channel!Spec
=============================================================================
